SPECIFICATION FairSpec
CONSTANTS
  Proc = {p1, p2}
  MaxFiles = 2
  Blocks <- SomeBlocks
  Jobs <- SomeJobs
  Scenarios <- AloneOrRacing
INVARIANTS
  OutputIsTheMember
  OthersRestored
  NoTempLeft
PROPERTIES
  ExtractEnds
