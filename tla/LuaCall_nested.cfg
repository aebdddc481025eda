SPECIFICATION Spec
CONSTANTS
  Main = main
  Co = co
  MaxCCalls = 5
  MaxFrames = 5
  MaxThrown = 1
  MaxCallbacks = 2
INVARIANTS CallsCounted YieldableIffFree
PROPERTIES ErrorEndsInPCall
CHECK_DEADLOCK FALSE
