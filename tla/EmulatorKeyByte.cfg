SPECIFICATION FairSpec
CONSTANTS
  Key = {"c", "s", "z", "nl"}
  Newline = "nl"
  Preloaded <- MCLivePreloaded
  Capacity = 2
  InjectPause = 2
  MaxTyped = 2
INVARIANT ReadAnswersKey
\* The emulator stops when exit() is called.
CHECK_DEADLOCK FALSE
