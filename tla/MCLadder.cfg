SPECIFICATION MCSpec
CONSTANTS
  Accounts = {owner, c, v, a1, a2}
  Owner = owner
  Challenger = c
  Verifier = v
  A1 = a1
  A2 = a2
  SlashRecipients = {owner}
  StakeAmounts = {5}
  OwnerAmounts = {}
  MinStakes = {}
  MinExpertStakes = {}
  InitialMinStake = 1
  OwnerEth = 0
  InitialWeth <- MCInitialWeth
  Bundles = {b1}
  Submitters = {v}
  BranchCounts = {1}
  BranchIds = {1}
  Confidences = {7500}
  Parties = {c, v}
  Bonds = {1}
  FaultTypes = {"UNJUSTIFIED_BRANCHING"}
  ChallengedBranches = {1}
  Levels = {1, 2, 3}
  EvidenceBy = {}
  InitialConfig <- MCConfig
  InitialFees <- MCFees
  OwnerValues <- FixedValues
  MaxDisputes = 1
  MCAuditors <- VerifierAudits
  MCExperts = {v}
  ChallengerWeth = 2
  VerifierWeth = 1
  Verdicts = {"CHALLENGER", "VERIFIER"}
  Registered = {}
  BranchConfidence = 7500
  UseVrf = TRUE
  JurySize = 2
  AppealBonds <- RisingBonds
  Instances = {"juries", "owner"}
CHECK_DEADLOCK FALSE
INVARIANTS
  ImpartialJury
  LadderIsSound
PROPERTIES
  DisputesRunTheirCourse
