SPECIFICATION Spec
CONSTANTS
  MaxByte = 2
  BlockSize = 2
  Enc <- SmallEnc
  Dec <- SmallDec
  Contents <- FewContents
  Rewrites <- ShortAndLong
  Name <- OneName
  NameLimit = 3
  MinBlocks = 2
  NumThreads = 2
  ReadSize = 2
  MaxBlocks = 3
  MaxEdits = 0
INVARIANTS
  SuccessMeansWritten
