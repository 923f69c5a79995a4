\* Governance changes every setting while an escrow is on yield.
SPECIFICATION Spec
CONSTANTS
  buyer = buyer
  seller = seller
  judge = judge
  court = court
  keeper = keeper
  moduleA = moduleA
  moduleB = moduleB
  Accounts <- TradingAccounts
  NoAccount = NoAccount
  Keepers = {keeper}
  Timelocks = {}
  Guardians = {}
  Contracts = {}
  ModuleResolvers = {}
  Modules <- MCModules
  NoModule = NoModule
  Incentivized = {moduleA}
  OtherStrategies = {}
  InitConfig <- LowFeeConfig
  CreateRequests <- SettingRequests
  PartialAmounts = {}
  BuyerShares = {}
  SplitDelays = {0}
  ModuleWindows = {2}
  ConsistentModule = TRUE
  AppealQuotes = {}
  ExcessValues = {0}
  NamedCallers = {}
  YieldDeltas = {101}
  ConfigChoices <- SettingChoices
  DAY = 1
  SPLIT_EXPIRY = 1
  MAX_ESCROW_DURATION = 4
  MaxEscrows = 1
  MaxAppeals = 0
  Horizon = 1
  MaxTime = 1
PROPERTIES
  YieldFeeBounded
