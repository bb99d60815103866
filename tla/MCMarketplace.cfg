SPECIFICATION MCSpec
CONSTANTS
  Users = {u1, u2, u3}
  MIN_VERIFIER_STAKE = 1
  MIN_AUDITOR_STAKE = 6
  UNBONDING_PERIOD = 1
  Amounts = {4}
  InitialWallet = 4
  MaxTime = 4
  RewardConfigs <- TwoRewards
  MaxTasks = 2
  Scores = {5000, 5200, 6000}
  Schedules <- BothSchedules
  EvalBounds <- OneOfTwoOrTwoOfThree
  FeePools = {7}
  EvidenceChoices = {TRUE, FALSE}
  BondChoices = {2}
  FeeBpsChoices = {0, 2000}
  NonRevealChoices = {5000}
  RewardsChoices = {TRUE}
  StakingChoices <- StakingOrNot
  Stakers = {u1, u2}
SYMMETRY Symmetry
INVARIANTS
  EscrowIsExact
  SettlementIsFair
  LocksAreReleased
PROPERTY
  RoundsAreFair
