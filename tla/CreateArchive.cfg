SPECIFICATION FairSpec
CONSTANTS
  NumInputs = 3
  NumCpus = 2
  Blocks <- SomeBlocks
PROPERTIES
  CreateEnds
INVARIANTS
  TypeOK
  OnDiskEntriesReadBack
  JobsUseLiveMemory
