SPECIFICATION Spec
CONSTANTS
  Main = main
  Co = co
  MaxCCalls = 3
  MaxFrames = 3
  MaxThrown = 3
  MaxCallbacks = 5
INVARIANTS CallbackIsEntered
CHECK_DEADLOCK FALSE
