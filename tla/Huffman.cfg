SPECIFICATION FairSpec
CONSTANTS
  Symbol = {0, 1, 2, 3}
  CodeWidth = 3
  WideWidth = 3
  Inputs <- ManyInputs
  Garbage <- ShortValues
  Damaged <- DamagedFiles
  LengthLimit = 8
  ByteBits = 4
  ChunkBytes = 2
  OrderBase = 4
INVARIANTS
  OptimalPrefixCode
  DecoderRebuildsCodes
  RestoresOrdinaryInput
  RowsAreThere
PROPERTIES
  WorkEnds
