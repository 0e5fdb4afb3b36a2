SPECIFICATION Spec
CONSTANTS
  Proc = {p1}
  MaxFiles = 2
  Blocks <- SomeBlocks
  Jobs <- SomeJobs
  Scenarios <- OnlyNoData
INVARIANTS
  EntryRestoresItsOwnFile
