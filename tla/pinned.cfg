\* the blocks of tools/gen, closed by a return or by an exception
SPECIFICATION Spec
CONSTANTS
  Encloses <- MCEncloses
  BLOCKS = 7
  DRAWN = 80
INVARIANT TypeOK
INVARIANT EverythingBack
PROPERTY FindsTheInnermost
PROPERTY StreamUnbroken
CHECK_DEADLOCK FALSE
