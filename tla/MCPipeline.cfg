SPECIFICATION MCFairSpec
CONSTANTS
  r1 = r1
  r2 = r2
  k1 = k1
  n1 = n1
  n2 = n2
  api = api
  none = none
  nokey = nokey
  Instances = {"requests", "nodes"}
  Requests <- MCRequests
  Keys <- MCKeys
  KeyOf <- SameKey
  NoKey = nokey
  Nodes <- MCNodes
  Api = api
  NoOne = none
  CommitSpans <- MCSpans
  RevealSpan = 1
  RevealDelay = 1
  Retention = 1
  MaxEvals = 2
  StoresEvidence = TRUE
  Attempts = 2
  MaxStalls = 1
  MaxTasks = 1
  MaxClock = 3
  MaxFaults = 1
INVARIANTS
  AnswersAreKept
  SealedJobsAreOnChain
  EvidenceIsRetained
PROPERTIES
  ImplementsLifecycle
  JobsSettle
CHECK_DEADLOCK FALSE
