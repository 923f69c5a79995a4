\* Two escrows, one of them on yield that may lose or gain; no disputes.
SPECIFICATION Spec
CONSTANTS
  buyer = buyer
  seller = seller
  judge = judge
  court = court
  keeper = keeper
  moduleA = moduleA
  moduleB = moduleB
  Accounts <- TradingAccounts
  NoAccount = NoAccount
  Keepers = {keeper}
  Timelocks = {}
  Guardians = {}
  Contracts = {}
  ModuleResolvers = {}
  Modules <- MCModules
  NoModule = NoModule
  Incentivized = {moduleA}
  OtherStrategies = {}
  InitConfig <- UndisputedConfig
  CreateRequests <- YieldRequests
  PartialAmounts = {480}
  BuyerShares = {333}
  SplitDelays = {0}
  ModuleWindows = {2}
  ConsistentModule = TRUE
  AppealQuotes = {}
  ExcessValues = {0}
  NamedCallers = {}
  YieldDeltas <- LossOrGain
  ConfigChoices <- NoChoices
  DAY = 1
  SPLIT_EXPIRY = 1
  MAX_ESCROW_DURATION = 4
  MaxEscrows = 2
  MaxAppeals = 0
  Horizon = 1
  MaxTime = 1
INVARIANTS
  Solvency
  BooksBalance
PROPERTIES
  SplitAsAgreed
