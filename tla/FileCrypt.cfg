SPECIFICATION FairSpec
CONSTANTS
  MaxByte = 2
  BlockSize = 2
  Enc <- SmallEnc
  Dec <- SmallDec
  Contents <- AllContents
  Rewrites <- ShortAndLong
  Name <- Names
  NameLimit = 3
  MinBlocks = 2
  NumThreads = 2
  ReadSize = 2
  MaxBlocks = 5
  MaxEdits = 1
INVARIANTS
  OutputIsTheImage
  DecryptsWhatWasEncrypted
  CrashHasACause
PROPERTIES
  InputKept
  CallEnds
