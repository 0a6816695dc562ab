\* any corpus of up to two vectors against any decoder, undisturbed
SPECIFICATION Spec
CONSTANTS
  N = 2
  INTERRUPTS = 0
INVARIANT TypeOK
INVARIANT ZeroMeansAllHold
INVARIANT TwoMeansNothingMeasured
PROPERTY Ends
PROPERTY KeepsPromise
CHECK_DEADLOCK FALSE
