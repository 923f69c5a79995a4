\* A module activated after an escrow was created without one.
SPECIFICATION Spec
CONSTANTS
  buyer = buyer
  seller = seller
  judge = judge
  court = court
  keeper = keeper
  moduleA = moduleA
  moduleB = moduleB
  Accounts <- MCAccounts
  NoAccount = NoAccount
  Keepers = {keeper}
  Timelocks = {judge}
  Guardians = {keeper}
  Contracts = {judge}
  ModuleResolvers = {judge}
  Modules <- MCModules
  NoModule = NoModule
  Incentivized = {moduleA}
  OtherStrategies = {}
  InitConfig <- BareConfig
  CreateRequests <- ModuleRequests
  PartialAmounts = {}
  BuyerShares = {}
  SplitDelays = {0}
  ModuleWindows = {1}
  ConsistentModule = TRUE
  AppealQuotes <- BothQuotes
  ExcessValues = {0, 5}
  NamedCallers = {}
  YieldDeltas = {0}
  ConfigChoices <- ModuleChoices
  DAY = 1
  SPLIT_EXPIRY = 1
  MAX_ESCROW_DURATION = 4
  MaxEscrows = 1
  MaxAppeals = 1
  Horizon = 2
  MaxTime = 3
PROPERTIES
  ResolutionModuleForwardOnly
