SPECIFICATION ServicesSpec
CONSTANTS
  v1 = v1
  r1 = r1
  r2 = r2
  s1 = s1
  t1 = t1
  t2 = t2
  e1 = e1
  e2 = e2
  x1 = x1
  x2 = x2
  Validators <- MCValidators
  Requests <- MCRequests
  Plugin <- MCPlugin
  Expected <- MCExpected
  Polls <- MCPolls
  Owner <- MCOwner
  Page = 2
  MaxNow = 1
  Subscriptions <- MCSubscriptions
  maxRetries = 1
  DisableAt = 3
  MaxSends = 3
  Tasks <- MCTasks
  Evaluators <- MCEvaluators
  FinalScore <- MCFinalScore
  Indexers <- MCIndexers
  Window = 0
  PASS = 7000
  WORTHY = 8000
  MaxBlock = 3
  max_llm_calls = 1
  max_total_tokens = 3
  max_retrieval_calls = 1
  on_exceed = "error"
  TokenCounts = {1, 2}
  Slots = {1, 2, 3}
  MaxCalls = 5
  m1 = m1
  Requesters = {"u"}
  Asks = {1, 2, 3, 4}
  CandidateLists <- MCCandidateLists
  Decisions <- MCDecisions
  NoScore = NoScore
  NotCounted = NotCounted
  maxRollouts = 2
  minPassScore = 75
  minCandidateScore = 65
  rateLimitPerMinute = 2
  Minute = 2
  Hour = 5
  SignerConfigured = TRUE
  MaxGateTime = 2
  MaxAtOnce = 2
  m2 = m2
  c1 = c1
  c2 = c2
  c3 = c3
  k1 = k1
  k2 = k2
  Models <- MCModels
  ModelLists <- MCLists
  Threshold = 2
  OpenTicks = 1
  MaxProbes = 2
  MaxAttempts = 2
  RecoveryTicks = 2
  MaxQueries = 3
  Callers <- MCCallers
  Key <- MCKey
  MaxRetries = 1
  CircuitThreshold = 2
  CircuitRecovery = 1
  MaxTicks = 2
  n1 = n1
  q1 = q1
  ApiProcess = api
  Runners <- MCRunners
  Plugins <- MCFixture
  NoPlugin = NoPlugin
  DirCount = 2
  Allowed <- MCAllowed
  NoList = NoList
  ProgramHashes <- MCHashes
  DefaultKey <- MCDefault
  Unspecified = Unspecified
  NoProgram = NoProgram
  ProgramRequests <- MCProgramRequests
  ReceiptFields <- MCReceiptFields
  MaxDeploys = 1
  Systems = {"programs"}
INVARIANT
  LoadedProgramsReturn
CHECK_DEADLOCK FALSE
