\* every vector the generator can make is read alike by both programs
SPECIFICATION HarnessSpec
CONSTANT Vectors <- MCVectors
INVARIANT Agree
INVARIANT ClassIsTheRoundTrip
INVARIANT OneLinkId
INVARIANT FieldsInPlace
INVARIANT RejectsAlike
INVARIANT TokenCutOnce
CHECK_DEADLOCK FALSE
