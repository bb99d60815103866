SPECIFICATION MCSpec
CONSTANTS
  Holders = {h1, h2}
  Tasks = {t1, t2}
  BondAmounts = {1, 2}
  HolderWeth = 2
  InitialFunds = 1
  MaxLock = 2
  MaxOverdraft = 1
  Users = {u1, u2}
  MIN_VERIFIER_STAKE = 1
  MIN_AUDITOR_STAKE = 3
  UNBONDING_PERIOD = 1
  Amounts = {1, 3}
  InitialWallet = 4
  MaxTime = 2
  Accounts = {owner, a1, a2}
  Owner = owner
  SlashRecipients = {owner}
  StakeAmounts = {1, 2}
  OwnerAmounts = {1}
  MinStakes = {2}
  MinExpertStakes = {2}
  InitialMinStake = 1
  AuditorWeth = 3
  InitialWeth <- AuditorsWeth
  OwnerEth = 1
  Eth = eth
  Currencies = {eth, weth}
  RequestHashes = {r1, r2}
  MaxJobs = 2
  Budgets = {7}
  MilestonePlans <- Plans
  PassThresholds = {0}
  DefaultThresholds = {80}
  Scores = {75}
  PayoutBps = {2857, 6000}
  SevenDays = 1
  DisputeWindows = {1, 2}
  Gifts = {1}
  MaxGifts = 1
  MaxProofs = 1
  LastBlock = 3
SYMMETRY Symmetry
INVARIANTS
  BondsAreSound
  StakesAreSound
  RegistryIsSound
  JobsAreExact
