SPECIFICATION Spec
CHECK_DEADLOCK FALSE
CONSTANTS
  ByteBits = 2  MaxCode = 4  FastBits = 2  ClBits = 2
  NumSyms <- MCNumSyms  FixedSizes <- MCFixedSizes
  SizeBits <- MCSizeBits  MinSizes <- MCMinSizes  Dezigzag <- MCDezigzag
  RepBits <- MCRepBits  RepBase <- MCRepBase
  LenBase <- MCLenBase  LenExtra <- MCLenExtra
  DistBase <- MCDistBase  DistExtra <- MCDistExtra
  DictSize = 8  HeapStart = 2  CrcBits = 4  CrcPoly <- MCCrcPoly
  Tails <- MCTails  ReadSizes = {1, 3, 64}  UserSizes = {3}  BadSizes = {4}
  Cases <- MCCases
INVARIANTS TypeOK ExpandsExactly ReadsNoFurther DamageNoticed
PROPERTY Ends
