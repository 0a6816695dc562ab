\* one signal to a run
SPECIFICATION Spec
CONSTANTS
  N = 2
  INTERRUPTS = 1
INVARIANT ZeroMeansAllHold
CHECK_DEADLOCK FALSE
