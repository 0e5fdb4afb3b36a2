SPECIFICATION Spec
CONSTANTS
  Symbol = {0, 1}
  CodeWidth = 4
  WideWidth = 9
  Inputs <- OneSymbol
  Garbage <- StackValues
  Damaged <- Nothing
  LengthLimit = 8
  ByteBits = 4
  ChunkBytes = 2
  OrderBase = 4
INVARIANTS
  RestoresEveryInput
