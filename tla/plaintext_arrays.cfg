SPECIFICATION FairSpec
CONSTANTS
  Texts <- ArrayTexts
  MaxLen = 1
  Contexts = {"response"}
  Order <- SmallOrder
  Numbers <- SmallNumbers
  HASHLEN = 2
  MAPHASHLEN = 1
  ENVELOPELEN = 6
  KEYSIZE = 2
  SIGLEN = 3
INVARIANTS
  EveryArrayAgrees
