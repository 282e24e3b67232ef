SPECIFICATION FairSpec
CONSTANTS
  Key = {"c", "s", "q", "z", "b", "f", "y", "nl"}
  Newline = "nl"
  Preloaded <- MCPreloaded
  Capacity = 2
  InjectPause = 1
  MaxTyped = 3
INVARIANTS
  TypeOK
  PanicStopsGuest
  TerminalMode
  KeyIsThere
PROPERTIES
  InjectedKeyArrives
  BreakOpensPrompt
\* The emulator stops when exit() is called.
CHECK_DEADLOCK FALSE
