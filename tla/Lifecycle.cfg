\* One escrow without yield through every path from creation to payment.
SPECIFICATION Spec
CONSTANTS
  buyer = buyer
  seller = seller
  judge = judge
  court = court
  keeper = keeper
  moduleA = moduleA
  moduleB = moduleB
  Accounts <- MCAccounts
  NoAccount = NoAccount
  Keepers = {keeper}
  Timelocks = {}
  Guardians = {keeper}
  Contracts = {judge}
  ModuleResolvers = {judge}
  Modules <- MCModules
  NoModule = NoModule
  Incentivized = {moduleA}
  OtherStrategies = {}
  InitConfig <- FreeConfig
  CreateRequests <- LifecycleRequests
  PartialAmounts = {400, 600}
  BuyerShares = {300}
  SplitDelays = {0}
  ModuleWindows = {2}
  ConsistentModule = TRUE
  AppealQuotes <- BothQuotes
  ExcessValues = {0}
  NamedCallers = {}
  YieldDeltas = {0}
  ConfigChoices <- NoChoices
  DAY = 1
  SPLIT_EXPIRY = 1
  MAX_ESCROW_DURATION = 4
  MaxEscrows = 1
  MaxAppeals = 1
  Horizon = 2
  MaxTime = 4
INVARIANTS
  TypeOK
  PhaseInv
  PayoutConservation
PROPERTIES
  RulingHonoured
  TerminalIsFinal
  KeepsPromise
