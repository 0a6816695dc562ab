\* a clean exit over files whose lines end in a return
SPECIFICATION Spec
CONSTANTS
  N = 1
  Crossed = TRUE
INVARIANT NotAByteDiffers
