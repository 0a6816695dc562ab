\* check beside runs of gen without --force, two vectors, one of each class
SPECIFICATION Spec
CONSTANTS
  N = 2
  Crossed = TRUE
  Trees <- TwoVectors
  Forced = {FALSE}
  Encode = {1}
  ENCODE = TRUE
INVARIANT TypeOK
INVARIANT NumberIsOfWhatWasMeasured
INVARIANT VerifyIsEvidence
