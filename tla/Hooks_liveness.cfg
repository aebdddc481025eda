SPECIFICATION FairSpec
CONSTANTS
  ClientThreads = {c1}
  Console = con
  NoThread = none
  Calls <- FlatCalls
  ConsoleForges = TRUE
  NetClient = nc
  NoNetClient = null
  Base = 4096
  ClientVTable = 5000
  MaxDepth = 3
INVARIANTS NoWaitCycle
PROPERTIES EveryCallEnds HookComesBack
