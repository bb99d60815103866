SPECIFICATION MCFairSpec
CONSTANTS
  Accounts = {owner, c, v, a1, a2}
  Owner = owner
  Challenger = c
  Verifier = v
  A1 = a1
  A2 = a2
  SlashRecipients = {}
  StakeAmounts = {}
  OwnerAmounts = {}
  MinStakes = {}
  MinExpertStakes = {}
  InitialMinStake = 1
  OwnerEth = 0
  InitialWeth <- MCInitialWeth
  Bundles = {b1}
  Submitters = {}
  BranchCounts = {}
  BranchIds = {1}
  Confidences = {}
  Parties = {c, v}
  Bonds = {1}
  FaultTypes = {"DISAGREEMENT"}
  ChallengedBranches = {1}
  Levels = {1, 2, 3}
  EvidenceBy = {"CHALLENGER"}
  InitialConfig <- MCConfig
  InitialFees <- MCFees
  OwnerValues <- FixedValues
  MaxDisputes = 1
  MCAuditors <- TwoAuditors
  MCExperts = {}
  ChallengerWeth = 2
  VerifierWeth = 2
  Verdicts = {"UNDECIDED", "CHALLENGER", "VERIFIER"}
  Registered = {b1}
  BranchConfidence = 7500
  UseVrf = TRUE
  JurySize = 2
  AppealBonds <- EvenBonds
  Instances = {"juries"}
CHECK_DEADLOCK FALSE
PROPERTIES
  RoundsConclude
