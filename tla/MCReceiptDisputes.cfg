SPECIFICATION ReceiptSpec
CONSTANTS
  Accounts = {a1, a2}
  Verifiers = {a1}
  Values = {1, 2}
  InitialWallet = 3
  Callers = {a2}
  SlashBps = {5000}
  MinStakes = {1}
  InitialMinStake = 2
  InitialWithdrawDelay = 1
  InitialMinReceiptInterval = 2
  Delays = {1}
  ReputationConfigs <- Reputation
  MaxTime = 2
  Bonds = {1}
  EconomicConfigs <- Economics
  Windows <- LongChallenge
  InitialWindows <- OneTick
  MaxReceipts = 2
CHECK_DEADLOCK FALSE
INVARIANTS
  ReceiptsAreSound
PROPERTIES
  ReceiptsKeepTheirTerms
