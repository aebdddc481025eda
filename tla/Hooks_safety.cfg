SPECIFICATION Spec
CONSTANTS
  ClientThreads = {c1, c2}
  Console = con
  NoThread = none
  Calls <- ClientCalls
  ConsoleForges = TRUE
  NetClient = nc
  NoNetClient = null
  Base = 4096
  ClientVTable = 5000
  MaxDepth = 2
SYMMETRY ThreadSymmetry
INVARIANTS TypeOK MutexMatchesFrames OriginalIsReached ArmedWhenFree
PROPERTIES EscapeOnlyInWindow MixedOnlyUnlocked KeepsPromise
