\* every frame of an access code of one or two bytes, whole, altered or cut
SPECIFICATION Spec
CONSTANTS
  BITS = {0, 7}
  SIGLEN = 2
  MAXBLOB = 6
  Packets <- MCPackets
  Mask <- MCMask
  Signature <- MCSignature
INVARIANT IfacInv
INVARIANT TypeOK
INVARIANT RoundTrip
INVARIANT Genuine
INVARIANT AlteredAlike
CHECK_DEADLOCK FALSE
