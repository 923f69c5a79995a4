\* An escrow created before or after default modules are activated, one of them a
\* cancellation strategy, and others writing into the default strategy's record.
SPECIFICATION Spec
CONSTANTS
  buyer = buyer
  seller = seller
  judge = judge
  court = court
  keeper = keeper
  moduleA = moduleA
  moduleB = moduleB
  Accounts <- MCAccounts
  NoAccount = NoAccount
  Keepers = {keeper}
  Timelocks = {judge}
  Guardians = {keeper}
  Contracts = {judge}
  ModuleResolvers = {judge}
  Modules <- MCModules
  NoModule = NoModule
  Incentivized = {moduleA}
  OtherStrategies = {moduleB}
  InitConfig <- BareConfig
  CreateRequests <- ModuleRequests
  PartialAmounts = {}
  BuyerShares = {}
  SplitDelays = {0}
  ModuleWindows = {1}
  ConsistentModule = TRUE
  AppealQuotes <- BothQuotes
  ExcessValues = {5}
  NamedCallers = {buyer, judge}
  YieldDeltas = {0}
  ConfigChoices <- ModuleChoices
  DAY = 1
  SPLIT_EXPIRY = 1
  MAX_ESCROW_DURATION = 4
  MaxEscrows = 1
  MaxAppeals = 1
  Horizon = 1
  MaxTime = 2
INVARIANTS
  BooksBalance
PROPERTIES
  ConsentsKept
  NoUnilateralRefund
  AuthorityStable
