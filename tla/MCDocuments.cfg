CONSTANTS
  Texts <- MCTexts
  Lf <- MCLf
  Redacted = ""
  MaxSteps = 3
  Absent = Absent
  Missing = Missing
  Node = Node
  OtherNode = OtherNode
  Nobody = Nobody
  Requests <- MCRequests
  Domain = 1
  RecipientSets <- MCRecipientSets
  Readers <- MCReaders
  Gateways = 2
  MaxCalls = 3
  Refused = Refused
  BuiltinProgram <- MCBuiltin
  Null = Null
  Keys <- MCKeys
  None = None
  Formats = {"assessment", "portable", "genail"}
  Params <- MCParams
  OldReceipts <- MCOldReceipts
  Fields <- MCFields
  Verifiers <- MCVerifiers
  Contexts <- MCContexts
  Storages = {"local", "ipfs"}
  MaxIssued = 2
  MaxChanges = 2
  MaxPolls = 1
  Systems = {"evidence", "receipts", "scoring"}
  ClaimOrder <- MCClaimOrder
  DigestOrder <- MCDigestOrder
  ModelOrder <- MCModelOrder
  BonusDomains = {"nasa.gov"}
  PenaltyDomains = {"bit.ly"}
  NoDomain = "none"
  NoClaim = NoClaim
  ModelKey <- MCModelKey
  NaN = NaN
  Evidence <- MCEvidence
  Gamma = 3
  TaskTypes = {"general", "math-proof"}
  Models <- MCModels
  AnswersOf <- MCAnswersOf
  Standings <- MCStandings
  BranchChoices <- MCBranchChoices
  MaxBranches = 3
  Budgets = {1, 2}
  Stake = 1000
  NotYet = NotYet
INIT DocumentsInit
NEXT DocumentsNext
INVARIANTS
  AcceptedAreTheSigned
  OpenedIsCommitted
  HashFixesTheAssessment
  VerdictFollowsTheChain
  IssuedReceiptsAreValid
  ValidPortableIsSigned
  GenailDocumentsAreOneRuns
  VotesAreProvable
  OutliersAreAMinority
  ReliableIsBacked
  ScoresAreSound
CHECK_DEADLOCK FALSE
