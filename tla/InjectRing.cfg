SPECIFICATION RingSpec
CONSTANTS
  Key = {k1, k2}
  k1 = k1
  k2 = k2
  NoByte = none
  InjectMax = 4
  InjectPause = 2
INVARIANTS
  PendingWasInjected
  OffersAreSpaced
PROPERTY RingIsQueue
