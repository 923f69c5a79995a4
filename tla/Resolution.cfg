\* The vault, its resolution module and the court on one dispute.
SPECIFICATION ResolutionSpec
CONSTANTS
  buyer = buyer
  seller = seller
  judge = judge
  deputy = deputy
  court = court
  proxy = proxy
  keeper = keeper
  moduleA = moduleA
  moduleB = moduleB
  Accounts <- ResolutionAccounts
  NoAccount = NoAccount
  Keepers = {}
  Timelocks = {}
  Guardians = {}
  Contracts = {proxy}
  ModuleResolvers = {judge, deputy, court, proxy}
  Modules <- OneModule
  NoModule = NoModule
  Incentivized = {moduleA}
  OtherStrategies = {}
  InitConfig <- ResolutionConfig
  CreateRequests <- DisputableRequests
  PartialAmounts = {}
  BuyerShares = {300}
  SplitDelays = {0}
  ModuleWindows = {1, 2}
  ConsistentModule = FALSE
  AppealQuotes <- QuotesOfModule
  ExcessValues = {0}
  NamedCallers = {buyer}
  YieldDeltas = {0}
  ConfigChoices <- NoChoices
  DAY = 1
  SPLIT_EXPIRY = 1
  MAX_ESCROW_DURATION = 4
  MaxEscrows = 1
  MaxAppeals = 2
  Horizon = 2
  MaxTime = 4
  Juniors = {judge, deputy}
  Seniors = {court}
  ExternalResolver = proxy
  ResolveDeadlines <- Deadlines
  AppealWindows <- Windows
  EnabledRounds = {1, 2}
  MaxConcurrentDisputes = 1
  Incentives = TRUE
  BaseBonds = {0, 100}
  ConfigBindings = {TRUE, FALSE}
SYMMETRY Interchangeable
INVARIANTS
  ResolutionTypeOK
  RulingsAgree
  NoTie
  AuthorityAgrees
  LoadAccounted
  CourtHasLastWord
  BondSettled
PROPERTIES
  RulingsCloseDisputes
  RulingsHeldUntilDue
  OneDecisionPerRound
