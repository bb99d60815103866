SPECIFICATION FairMarketSpec
CONSTANTS
  Users = {u1, u2}
  MIN_VERIFIER_STAKE = 1
  MIN_AUDITOR_STAKE = 6
  UNBONDING_PERIOD = 1
  Amounts = {4}
  InitialWallet = 4
  MaxTime = 4
  RewardConfigs <- EvenRewards
  MaxTasks = 1
  Scores = {5000, 6000}
  Schedules <- DisputeSchedule
  EvalBounds <- OneOfTwo
  FeePools = {7}
  EvidenceChoices = {TRUE}
  BondChoices = {2}
  FeeBpsChoices = {0}
  NonRevealChoices = {5000}
  RewardsChoices = {TRUE, FALSE}
  StakingChoices <- Staking
  Stakers = {u1, u2}
PROPERTY
  RevealedTasksResolve
