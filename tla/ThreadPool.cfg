SPECIFICATION FairSpec
CONSTANTS
  Job = {j1, j2, j3}
  NumThreads = 3
  NULL = NULL
INVARIANTS
  NoLostCompletion
  NoIdleBacklog
  NoDanglingNode
  CrashOnlyAfterFailedCreate
  IInv
PROPERTIES
  ImplementsJobPool
  AcceptedJobsRun
  OwnerCallsReturn
