SPECIFICATION FairSpec
CONSTANTS
  Name <- Names
  NameLimit <- Limit
  Starts <- SomeStarts
  Ragged <- LastMarks
  Large <- FirstMarks
  MaxNew = 1
  NumThreads = 2
INVARIANTS
  SuccessMeansProcessed
  NoTaskOutlivesCall
  CrashHasACause
  RoundTrip
PROPERTIES
  DirectoryEnds
