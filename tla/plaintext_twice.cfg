SPECIFICATION FairSpec
CONSTANTS
  Texts <- TwiceTexts
  MaxLen = 1
  Contexts = {"resource_adv"}
  Order <- SmallOrder
  Numbers <- SmallNumbers
  HASHLEN = 2
  MAPHASHLEN = 1
  ENVELOPELEN = 6
  KEYSIZE = 2
  SIGLEN = 3
INVARIANTS
  AKeyNamedTwiceIsNothing
