SPECIFICATION FairReceiptSpec
CONSTANTS
  Accounts = {a1, a2}
  Verifiers = {a1}
  Values = {4}
  InitialWallet = 5
  Callers = {}
  SlashBps = {}
  MinStakes = {}
  InitialMinStake = 2
  InitialWithdrawDelay = 1
  InitialMinReceiptInterval = 2
  Delays = {}
  ReputationConfigs <- Reputation
  MaxTime = 3
  Bonds = {1}
  EconomicConfigs <- Economics
  Windows = {}
  InitialWindows <- OneTick
  MaxReceipts = 1
CHECK_DEADLOCK FALSE
PROPERTY
  UnansweredDisputesResolve
