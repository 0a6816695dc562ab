SPECIFICATION FairSpec
CONSTANTS
  Texts <- TextsOf
  MaxLen = 6
  Contexts <- AllContexts
  Order <- RealOrder
  Numbers <- RealNumbers
  HASHLEN = 2
  MAPHASHLEN = 1
  ENVELOPELEN = 6
  KEYSIZE = 2
  SIGLEN = 3
INVARIANTS
  TypeOK
  InsideThePlaintext
  RecursionBounded
  RememberedBehindItsName
  AdvertisementAgrees
  BodyAgrees
PROPERTIES
  RefusalIsFinal
  Ends
