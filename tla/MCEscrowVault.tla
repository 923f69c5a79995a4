----------------------------- MODULE MCEscrowVault -----------------------------
(***************************************************************************)
(* Small instances of EscrowVault for TLC.  A configuration file picks the *)
(* requests, the answers of the other contracts, the configuration and the *)
(* settings governance may change, each by the name of a definition here.  *)
(***************************************************************************)
EXTENDS EscrowVaultLedgers, EscrowVaultRefinement

CONSTANTS buyer, seller, judge, court, keeper, moduleA, moduleB

MCAccounts == {buyer, seller, judge, court, keeper}
TradingAccounts == {buyer, seller, keeper}
MCModules == {moduleA, moduleB}

(***************************************************************************)
(* Configurations.  A fee of 2% and yield and bond fees of 30% (the limits *)
(* of the code) make every rounding and every fee visible.                 *)
(***************************************************************************)
BaseConfig ==
  [escrowFee |-> 200, yieldProtocolFeeBps |-> 3000, appealBondProtocolFeeBps |-> 3000,
   escrowFeeAddress |-> keeper,
   timeouts |-> [defaultAutoReleaseDelay |-> 0, defaultAutoCancelDelay |-> 0,
                 maxDisputeDuration |-> 2, appealWindowDuration |-> 1],
   minDisputeEscrowValue |-> 0, maxDisputesPerSenderPerDay |-> 0,
   bondCollector |-> TRUE, yieldDepositsPaused |-> FALSE, resolverMustBeContract |-> FALSE,
   disputeResolutionModule |-> NoModule, resolutionModule |-> moduleA,
   releaseStrategy |-> moduleA, cancellationStrategy |-> moduleA, yieldModule |-> moduleA]

\* No fees, so that only the principal moves.
FreeConfig == [BaseConfig EXCEPT !.escrowFee = 0, !.appealBondProtocolFeeBps = 0]

\* Disputes are out of reach, so the yield is the subject.
UndisputedConfig == [BaseConfig EXCEPT !.minDisputeEscrowValue = 10000]

\* The same before the yield fee is raised to its limit.
LowFeeConfig == [UndisputedConfig EXCEPT !.yieldProtocolFeeBps = 1000]

\* No default modules but a cancellation strategy when the vault starts.
BareConfig ==
  [BaseConfig EXCEPT !.resolutionModule = NoModule, !.releaseStrategy = NoModule,
     !.yieldModule = NoModule, !.bondCollector = FALSE, !.maxDisputesPerSenderPerDay = 1]

NoChoices ==
  [escrowFee |-> {}, yieldProtocolFeeBps |-> {}, appealBondProtocolFeeBps |-> {},
   escrowFeeAddress |-> {}, timeouts |-> {}, minDisputeEscrowValue |-> {},
   maxDisputesPerSenderPerDay |-> {}, disputeResolutionModule |-> {}, resolutionModule |-> {},
   releaseStrategy |-> {}, cancellationStrategy |-> {}, yieldModule |-> {},
   resolverMustBeContract |-> {}]

\* Every setting that does not move in ModuleChoices has a value to move to
\* while an escrow is on yield.
SettingChoices ==
  [NoChoices EXCEPT !.escrowFee = {100}, !.yieldProtocolFeeBps = {3000},
     !.escrowFeeAddress = {seller},
     !.timeouts = {[BaseConfig.timeouts EXCEPT !.defaultAutoReleaseDelay = 1]},
     !.minDisputeEscrowValue = {20000}, !.maxDisputesPerSenderPerDay = {1},
     !.resolverMustBeContract = {TRUE}, !.releaseStrategy = {moduleB},
     !.yieldModule = {moduleB}]

\* The cancellation strategy moves from the default one to another one.
ModuleChoices ==
  [NoChoices EXCEPT !.appealBondProtocolFeeBps = {0},
     !.disputeResolutionModule = {moduleA}, !.resolutionModule = {moduleB},
     !.cancellationStrategy = {moduleB}]

(***************************************************************************)
(* Requests.  1000 is the least amount the code accepts.                   *)
(***************************************************************************)
Plain ==
  [from |-> buyer, to |-> seller, amount |-> 1000, releaseDelay |-> 0, cancelDelay |-> 0,
   customResolver |-> NoAccount, releaseAddress |-> NoAccount, yield |-> FALSE]

LifecycleRequests ==
  {Plain, [Plain EXCEPT !.releaseDelay = 1], [Plain EXCEPT !.cancelDelay = 1],
   [Plain EXCEPT !.customResolver = judge, !.releaseAddress = keeper]}
SettingRequests == {[Plain EXCEPT !.yield = TRUE]}
YieldRequests == {[Plain EXCEPT !.yield = TRUE], Plain}
ModuleRequests == {Plain, [Plain EXCEPT !.cancelDelay = 1]}
TimedRequests ==
  {[Plain EXCEPT !.releaseDelay = 1], [Plain EXCEPT !.cancelDelay = 1], Plain}

AppealableRelease == [successor |-> court, decision |-> "RELEASE", bond |-> 100, asset |-> "ETH"]
AppealableCancel == [successor |-> court, decision |-> "CANCEL", bond |-> 100, asset |-> "TOKEN"]
BothQuotes == {AppealableRelease, AppealableCancel}
ReleaseQuote == {AppealableRelease}

LossOrGain == {-300, 101}

================================================================================
