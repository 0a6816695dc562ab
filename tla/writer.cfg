\* any tree of two vectors, any number of runs, each of which may die anywhere
SPECIFICATION Spec
CONSTANTS
  N = 2
  Crossed = TRUE
INVARIANT TypeOK
INVARIANT LeftAlone
INVARIANT Evidence
INVARIANT IndexLast
