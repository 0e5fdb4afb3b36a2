SPECIFICATION Spec
CONSTANTS
  Name <- Names
  NameLimit <- Limit
  Starts <- OnePlainFile
  Ragged <- LastMarks
  Large <- FirstMarks
  MaxNew = 1
  NumThreads = 2
INVARIANTS
  RestoresDirectory
