------------------------------ MODULE EscrowVault ------------------------------
(***************************************************************************)
(* The custody and lifecycle contract of the protocol: EscrowVault and the *)
(* contracts it inherits (EscrowCreation, EscrowSettlement, EscrowYield,   *)
(* EscrowAccounting, EscrowConfiguration, BaseEscrow) with the libraries   *)
(* they call, for one escrow token.  The per-token ledgers of the code are *)
(* independent of each other, so one token shows all of their behaviour.   *)
(*                                                                         *)
(* Every external entry point of the code is nonReentrant and atomic: it   *)
(* is one action here, and a revert is a disabled action.  What other      *)
(* contracts answer (resolution module, yield module, appeal quote) is a   *)
(* parameter of the action, chosen from every answer the interface allows, *)
(* so that a module specification can be conjoined with an action.         *)
(*                                                                         *)
(* A definition marked "mutant" is the one below it with one mistake of    *)
(* the kind a change to the code could make.  No action uses it; putting   *)
(* it in the place of the original shows which property notices.           *)
(***************************************************************************)
EXTENDS Integers, FiniteSets

CONSTANTS
  Accounts,         \* addresses that call the vault or are named in an escrow
  NoAccount,        \* address(0)
  Keepers,          \* holders of ROLE_KEEPER
  Timelocks,        \* holders of ROLE_TIMELOCK
  Guardians,        \* holders of ROLE_GUARDIAN
  Contracts,        \* accounts that have code
  ModuleResolvers,  \* accounts a resolution module names or authorizes
  Modules,          \* module addresses
  NoModule,         \* address(0) where a module is expected
  Incentivized,     \* resolution modules that expose an incentive module
  OtherStrategies,  \* cancellation strategies other than DefaultCancellationStrategy
  InitConfig        \* the configuration the vault is deployed with

\* The inputs the actions enumerate; each is a small set in a model.
CONSTANTS
  CreateRequests,   \* arguments of createEscrow
  PartialAmounts,   \* arguments of partialRelease
  BuyerShares,      \* buyer's part of a proposed split
  SplitDelays,      \* expiry - now of a proposed split; 0 asks for the default
  ModuleWindows,    \* appealDeadline - now as a module may answer
  ConsistentModule, \* do a module's answers agree with the ruling that waits?
  AppealQuotes,     \* answers of quoteAppealTransition that are appealable
  ExcessValues,     \* ETH sent with an appeal beyond what it costs
  NamedCallers,     \* whom other callers of the cancellation strategy name
  YieldDeltas,      \* what a position returns beyond (or below) its principal
  ConfigChoices     \* values governance may set, one set per setting

\* Durations in clock ticks, and the bounds of the model.
CONSTANTS
  DAY,                  \* 1 days
  SPLIT_EXPIRY,         \* 7 days
  MAX_ESCROW_DURATION,  \* 365 days
  MaxEscrows,           \* escrows that are created
  MaxAppeals,           \* appeals one account may pay for
  Horizon,              \* last instant at which a new deadline may be started
  MaxTime               \* last instant of the clock

DENOMINATOR == 10000
MAX_ESCROW_FEE_BPS == 200
MAX_PROTOCOL_FEE_BPS == 3000
MIN_ESCROW_AMOUNT == 1000

Workflows == 0 .. (MaxEscrows - 1)
Address == Accounts \cup {NoAccount}
ModuleAddress == Modules \cup {NoModule}
BondAssets == {"ETH", "TOKEN"}

\* EscrowState, SenderStatus and RecipientStatus of EscrowTypes.
EscrowStates == {"NONE", "PENDING", "RELEASED", "REFUNDED", "DISPUTED", "RESOLVED"}
Terminal == {"RELEASED", "REFUNDED", "RESOLVED"}
Active == {"PENDING", "DISPUTED"}
ConsentStatuses == {"NONE", "AGREE_TO_CANCEL", "RAISE_DISPUTE"}

Timeouts == [defaultAutoReleaseDelay : Nat, defaultAutoCancelDelay : Nat,
             maxDisputeDuration : Nat, appealWindowDuration : Nat]

\* The settings governance can change: the storage of EscrowConfiguration, the
\* shared EscrowCreationPolicy, and the defaults of the ModuleSnapshotRegistry.
Configs ==
  [escrowFee : 0 .. MAX_ESCROW_FEE_BPS,
   yieldProtocolFeeBps : 0 .. MAX_PROTOCOL_FEE_BPS,
   appealBondProtocolFeeBps : 0 .. MAX_PROTOCOL_FEE_BPS,
   escrowFeeAddress : Accounts,
   timeouts : Timeouts,
   minDisputeEscrowValue : Nat,
   maxDisputesPerSenderPerDay : Nat,
   bondCollector : BOOLEAN,
   yieldDepositsPaused : BOOLEAN,
   resolverMustBeContract : BOOLEAN,
   disputeResolutionModule : ModuleAddress,  \* of the vault
   resolutionModule : ModuleAddress,         \* of the registry, like the next three
   releaseStrategy : ModuleAddress,
   cancellationStrategy : ModuleAddress,
   yieldModule : ModuleAddress]

\* What createEscrow fixes for the life of an escrow: the fields of EscrowTransfer
\* and EscrowSettings that nothing writes again, and its ModuleSnapshot.
Terms ==
  [from : Address, to : Address, amountAfterFee : Nat,
   autoReleaseTime : Nat, autoCancelTime : Nat,
   customResolver : Address, releaseAddress : Address, yield : BOOLEAN,
   resolutionModule : ModuleAddress, releaseStrategy : ModuleAddress,
   cancellationStrategy : ModuleAddress, incentiveModule : BOOLEAN,
   yieldProtocolFeeBps : 0 .. MAX_PROTOCOL_FEE_BPS,
   appealBondProtocolFeeBps : 0 .. MAX_PROTOCOL_FEE_BPS,
   appealBondFeeRecipient : Address,
   maxDisputeDuration : Nat, appealWindowDuration : Nat]

NoTerms ==
  [from |-> NoAccount, to |-> NoAccount, amountAfterFee |-> 0,
   autoReleaseTime |-> 0, autoCancelTime |-> 0,
   customResolver |-> NoAccount, releaseAddress |-> NoAccount, yield |-> FALSE,
   resolutionModule |-> NoModule, releaseStrategy |-> NoModule,
   cancellationStrategy |-> NoModule, incentiveModule |-> FALSE,
   yieldProtocolFeeBps |-> 0, appealBondProtocolFeeBps |-> 0,
   appealBondFeeRecipient |-> NoAccount,
   maxDisputeDuration |-> 0, appealWindowDuration |-> 0]

PendingSettlement == [exists : BOOLEAN, isRelease : BOOLEAN, appealDeadline : Nat]
NoPending == [exists |-> FALSE, isRelease |-> FALSE, appealDeadline |-> 0]

SplitProposal == [active : BOOLEAN, proposer : Address, buyerAmount : Nat,
                  sellerAmount : Nat, expiry : Nat]
NoSplit == [active |-> FALSE, proposer |-> NoAccount, buyerAmount |-> 0,
            sellerAmount |-> 0, expiry |-> 0]

CreateRequest ==
  [from : Accounts, to : Accounts, amount : Nat, releaseDelay : Nat, cancelDelay : Nat,
   customResolver : Address, releaseAddress : Address, yield : BOOLEAN]

\* A successor quoted by the resolution module.  The price of an external arbitrator is
\* received and passed on in the same call, so it leaves no trace in the vault.
AppealQuote ==
  [successor : Accounts, decision : {"RELEASE", "CANCEL"}, bond : Nat, asset : BondAssets]

ASSUME AddressAssumption ==
  /\ NoAccount \notin Accounts
  /\ Keepers \subseteq Accounts /\ Timelocks \subseteq Accounts
  /\ Guardians \subseteq Accounts /\ Contracts \subseteq Accounts
  /\ ModuleResolvers \subseteq Accounts
  /\ NoModule \notin Modules /\ Incentivized \subseteq Modules
  /\ OtherStrategies \subseteq Modules

\* Addresses have 160 bits.
ASSUME AccountsAssumption == IsFiniteSet(Accounts)

ASSUME ConfigAssumption ==
  /\ InitConfig \in Configs
  /\ ~ (InitConfig.timeouts.defaultAutoReleaseDelay > 0
          /\ InitConfig.timeouts.defaultAutoCancelDelay > 0)
  /\ ConfigChoices \in
       [escrowFee : SUBSET (0 .. MAX_ESCROW_FEE_BPS),
        yieldProtocolFeeBps : SUBSET (0 .. MAX_PROTOCOL_FEE_BPS),
        appealBondProtocolFeeBps : SUBSET (0 .. MAX_PROTOCOL_FEE_BPS),
        escrowFeeAddress : SUBSET Accounts,
        timeouts : SUBSET Timeouts,
        minDisputeEscrowValue : SUBSET Nat,
        maxDisputesPerSenderPerDay : SUBSET Nat,
        disputeResolutionModule : SUBSET Modules,
        resolutionModule : SUBSET Modules,
        releaseStrategy : SUBSET Modules,
        cancellationStrategy : SUBSET Modules,
        yieldModule : SUBSET Modules,
        resolverMustBeContract : SUBSET BOOLEAN]

ASSUME InputAssumption ==
  /\ CreateRequests \subseteq CreateRequest
  /\ AppealQuotes \subseteq AppealQuote
  /\ PartialAmounts \subseteq Nat /\ BuyerShares \subseteq Nat
  /\ SplitDelays \subseteq Nat /\ ModuleWindows \subseteq Nat
  /\ NamedCallers \subseteq Address
  /\ ExcessValues \subseteq Nat /\ YieldDeltas \subseteq Int
  /\ ConsistentModule \in BOOLEAN

ASSUME BoundAssumption ==
  /\ DAY \in Nat \ {0} /\ SPLIT_EXPIRY \in Nat \ {0} /\ MAX_ESCROW_DURATION \in Nat \ {0}
  /\ MaxEscrows \in Nat /\ MaxAppeals \in Nat /\ Horizon \in Nat /\ MaxTime \in Nat

--------------------------------------------------------------------------------

VARIABLES
  now,                        \* block.timestamp, in ticks
  config,                     \* live configuration
  escrowCount,                \* escrowTransfers.length
  terms,                      \* what creation fixed for each escrow
  escrowState,
  senderStatus,
  recipientStatus,
  disputeResolver,
  disputeRaisedTimestamp,
  pendingSettlements,
  splitProposals,
  pendingCancel,              \* DefaultCancellationStrategy.pendingCancel
  addressEscalationCount,
  senderDisputeWindowStart,
  senderDisputeCount,
  amountReleased,
  claimableBalances,
  totalClaimable,             \* totalClaimableAssets[token]
  totalHeld,                  \* totalHeldInEscrowPerToken[token]
  totalFees,                  \* totalFeesPerToken[token]
  tokenBalance,               \* token.balanceOf(vault)
  v25YieldPrincipals,         \* 0 when v25YieldModules is address(0)
  yieldPosition,              \* AaveYieldModule.positions[vault].principalDeposited
  totalDeposited,             \* AaveYieldModule.totalDepositedByToken[token]
  claimableBondProtocolFees,
  claimableExcessEthRefunds,
  ethBalance,                 \* vault.balance

  \* History: no code reads these, the properties do.
  withdrawn,                  \* what each account has withdrawn from each escrow
  bondFeesOwed,               \* sum of claimableBondProtocolFees of an asset
  unabsorbedLoss              \* yield losses that no beneficiary has borne

disputeVars == <<disputeResolver, disputeRaisedTimestamp, pendingSettlements>>
consentVars == <<senderStatus, recipientStatus, pendingCancel>>
limitVars == <<senderDisputeWindowStart, senderDisputeCount>>
claimVars == <<claimableBalances, totalClaimable, withdrawn>>
holdingVars == <<totalHeld, totalFees, tokenBalance>>
yieldVars == <<v25YieldPrincipals, yieldPosition, totalDeposited, unabsorbedLoss>>
appealVars == <<addressEscalationCount, claimableBondProtocolFees,
                claimableExcessEthRefunds, ethBalance, bondFeesOwed>>
creationVars == <<escrowCount, terms>>

vars == <<now, config, creationVars, escrowState, disputeVars, consentVars, splitProposals,
          limitVars, amountReleased, claimVars, holdingVars, yieldVars, appealVars>>

TypeOK ==
  /\ now \in Nat
  /\ config \in Configs
  /\ escrowCount \in 0 .. MaxEscrows
  /\ terms \in [Workflows -> Terms]
  /\ escrowState \in [Workflows -> EscrowStates]
  /\ senderStatus \in [Workflows -> ConsentStatuses]
  /\ recipientStatus \in [Workflows -> ConsentStatuses]
  /\ disputeResolver \in [Workflows -> Address]
  /\ disputeRaisedTimestamp \in [Workflows -> Nat]
  /\ pendingSettlements \in [Workflows -> PendingSettlement]
  /\ splitProposals \in [Workflows -> SplitProposal]
  /\ pendingCancel \in [Workflows -> Address]
  /\ addressEscalationCount \in [Accounts -> Nat]
  /\ senderDisputeWindowStart \in [Accounts -> Nat]
  /\ senderDisputeCount \in [Accounts -> Nat]
  /\ amountReleased \in [Workflows -> Nat]
  /\ claimableBalances \in [Workflows -> [Accounts -> Nat]]
  /\ totalClaimable \in Nat
  /\ totalHeld \in Nat
  /\ totalFees \in Nat
  /\ tokenBalance \in Nat
  /\ v25YieldPrincipals \in [Workflows -> Nat]
  /\ yieldPosition \in [Workflows -> Nat]
  /\ totalDeposited \in Nat
  /\ claimableBondProtocolFees \in [BondAssets -> [Accounts -> Nat]]
  /\ claimableExcessEthRefunds \in [Accounts -> Nat]
  /\ ethBalance \in Nat
  /\ withdrawn \in [Workflows -> [Accounts -> Nat]]
  /\ bondFeesOwed \in [BondAssets -> Int]
  /\ unabsorbedLoss \in Nat

Init ==
  /\ now = DAY
  /\ config = InitConfig
  /\ escrowCount = 0
  /\ terms = [w \in Workflows |-> NoTerms]
  /\ escrowState = [w \in Workflows |-> "NONE"]
  /\ senderStatus = [w \in Workflows |-> "NONE"]
  /\ recipientStatus = [w \in Workflows |-> "NONE"]
  /\ disputeResolver = [w \in Workflows |-> NoAccount]
  /\ disputeRaisedTimestamp = [w \in Workflows |-> 0]
  /\ pendingSettlements = [w \in Workflows |-> NoPending]
  /\ splitProposals = [w \in Workflows |-> NoSplit]
  /\ pendingCancel = [w \in Workflows |-> NoAccount]
  /\ addressEscalationCount = [a \in Accounts |-> 0]
  /\ senderDisputeWindowStart = [a \in Accounts |-> 0]
  /\ senderDisputeCount = [a \in Accounts |-> 0]
  /\ amountReleased = [w \in Workflows |-> 0]
  /\ claimableBalances = [w \in Workflows |-> [a \in Accounts |-> 0]]
  /\ totalClaimable = 0
  /\ totalHeld = 0
  /\ totalFees = 0
  /\ tokenBalance = 0
  /\ v25YieldPrincipals = [w \in Workflows |-> 0]
  /\ yieldPosition = [w \in Workflows |-> 0]
  /\ totalDeposited = 0
  /\ claimableBondProtocolFees = [b \in BondAssets |-> [a \in Accounts |-> 0]]
  /\ claimableExcessEthRefunds = [a \in Accounts |-> 0]
  /\ ethBalance = 0
  /\ withdrawn = [w \in Workflows |-> [a \in Accounts |-> 0]]
  /\ bondFeesOwed = [b \in BondAssets |-> 0]
  /\ unabsorbedLoss = 0

--------------------------------------------------------------------------------
(***************************************************************************)
(* Helpers.                                                                *)
(***************************************************************************)

Exists(w) == w < escrowCount

IsParticipant(w, a) == a = terms[w].from \/ a = terms[w].to

\* The bound of the model on actions that start a new deadline.
InHorizon == now <= Horizon

\* Part of x at a rate in basis points, rounded down.
BpsOf(x, bps) == (x * bps) \div DENOMINATOR

\* ModuleGetterLibrary.getModuleAddress and EscrowVault._getResolutionModule: the module
\* of the snapshot; when the snapshot holds none, the live default of the registry, and
\* then the vault's own.
LiveResolutionModule ==
  IF config.resolutionModule # NoModule THEN config.resolutionModule
                                        ELSE config.disputeResolutionModule
ResolutionModuleOf(w) ==
  IF terms[w].resolutionModule # NoModule THEN terms[w].resolutionModule
                                          ELSE LiveResolutionModule
ReleaseStrategyOf(w) ==
  IF terms[w].releaseStrategy # NoModule THEN terms[w].releaseStrategy
                                         ELSE config.releaseStrategy

\* What getDisputeResolver of a module may answer; no module answers nothing.
ResolverAnswers(module) ==
  IF module = NoModule THEN {NoAccount} ELSE ModuleResolvers \cup {NoAccount}

\* _authorizeTimedAction: participants, keepers and the timelock.
MayTriggerTimedAction(w, caller) ==
  IsParticipant(w, caller) \/ caller \in Keepers \/ caller \in Timelocks

\* DefaultReleaseStrategy.canRelease.
CanRelease(w, caller) == caller = terms[w].from \/ caller = terms[w].releaseAddress

\* _isAuthorizedDisputeResolver: the custom resolver alone, else the recorded resolver
\* alone, else whoever the snapshotted module authorizes.
LiveAuthorizingModule(w) == ResolutionModuleOf(w)                              \* mutant
AuthorizingModule(w) == terms[w].resolutionModule
IsAuthorizedDisputeResolver(w, a) ==
  \/ terms[w].customResolver # NoAccount /\ a = terms[w].customResolver
  \/ /\ terms[w].customResolver = NoAccount
     /\ disputeResolver[w] # NoAccount
     /\ a = disputeResolver[w]
  \/ /\ terms[w].customResolver = NoAccount
     /\ disputeResolver[w] = NoAccount
     /\ AuthorizingModule(w) # NoModule
     /\ a \in ModuleResolvers

RemainingForgettingParts(w) == terms[w].amountAfterFee                         \* mutant
RemainingSwapped(w) == amountReleased[w] - terms[w].amountAfterFee             \* mutant
Remaining(w) == terms[w].amountAfterFee - amountReleased[w]

(***************************************************************************)
(* _handleYieldModuleUnwind: how a settlement of `amount` gets its tokens. *)
(* Without a tracked position they are in the vault already.  Otherwise    *)
(* the module's normal unwind pays what the position is worth, split into  *)
(* principal and yield; when it fails the emergency unwind pays at least   *)
(* the principal, undifferentiated; when both fail (the position may have  *)
(* been recovered before) the amount is credited with nothing received.    *)
(***************************************************************************)
Least(x, y) == IF x <= y THEN x ELSE y

PositionReturns(w) == {r \in {yieldPosition[w] + d : d \in YieldDeltas} : r > 0}

NothingReceived(amount) ==
  [principal |-> amount, yield |-> 0, received |-> 0, closed |-> FALSE]
NormalUnwindOverstated(w, r) ==                                                \* mutant
  [principal |-> yieldPosition[w], yield |-> r - Least(r, yieldPosition[w]),
   received |-> r, closed |-> TRUE]
NormalUnwind(w, r) ==
  [principal |-> Least(r, yieldPosition[w]), yield |-> r - Least(r, yieldPosition[w]),
   received |-> r, closed |-> TRUE]
EmergencyUnwind(r) ==
  [principal |-> r, yield |-> 0, received |-> r, closed |-> TRUE]

UnwindOutcomes(w, amount) ==
  {NothingReceived(amount)} \cup
  (IF v25YieldPrincipals[w] = 0 \/ yieldPosition[w] = 0 THEN {}
   ELSE {NormalUnwind(w, r) : r \in PositionReturns(w)} \cup
        {EmergencyUnwind(r) : r \in {x \in PositionReturns(w) : x >= v25YieldPrincipals[w]}})

\* The tracking of a position ends with the settlement, whatever the outcome; the
\* module forgets the position only when it paid it out.
Unwind(w, u) ==
  /\ u.closed => totalDeposited >= yieldPosition[w]
  /\ v25YieldPrincipals' = [v25YieldPrincipals EXCEPT ![w] = 0]
  /\ yieldPosition' = [yieldPosition EXCEPT ![w] = IF u.closed THEN 0 ELSE @]
  /\ totalDeposited' = totalDeposited - (IF u.closed THEN yieldPosition[w] ELSE 0)
  /\ tokenBalance' = tokenBalance + u.received

\* _computeYieldProtocolFee: on realized yield, at the snapshotted rate.
YieldFeeLive(w, yield) == BpsOf(yield, config.yieldProtocolFeeBps)             \* mutant
YieldFee(w, yield) == BpsOf(yield, terms[w].yieldProtocolFeeBps)

\* _finalizeClaimableSettlement: the held amount becomes a claim of the beneficiary,
\* increased by the yield less the protocol's part of it.
FinalizeClaimableSettlement(w, beneficiary, amount, u) ==
  LET fee == YieldFee(w, u.yield)
      credit == u.principal + u.yield - fee
  IN  /\ totalHeld >= amount
      /\ credit > amount => tokenBalance + u.received >= credit
      /\ Unwind(w, u)
      /\ totalHeld' = totalHeld - amount
      /\ totalFees' = totalFees + fee
      /\ claimableBalances' = [claimableBalances EXCEPT ![w][beneficiary] = @ + credit]
      /\ totalClaimable' = totalClaimable + credit
      /\ UNCHANGED <<unabsorbedLoss, withdrawn>>

\* _releaseEscrowTransfer; the consent statuses are left as they are.
ReleaseEscrowTransferKeepingClock(w, u) ==                                     \* mutant
  /\ escrowState[w] \notin {"RELEASED", "REFUNDED"}
  /\ escrowState' = [escrowState EXCEPT ![w] = "RELEASED"]
  /\ pendingSettlements' = [pendingSettlements EXCEPT ![w] = NoPending]
  /\ amountReleased' = [amountReleased EXCEPT ![w] = 0]
  /\ FinalizeClaimableSettlement(w, terms[w].to, Remaining(w), u)
  /\ UNCHANGED <<senderStatus, recipientStatus, disputeResolver, disputeRaisedTimestamp>>
ReleaseEscrowTransfer(w, u) ==
  /\ escrowState[w] \notin {"RELEASED", "REFUNDED"}
  /\ escrowState' = [escrowState EXCEPT ![w] = "RELEASED"]
  /\ pendingSettlements' = [pendingSettlements EXCEPT ![w] = NoPending]
  /\ disputeRaisedTimestamp' = [disputeRaisedTimestamp EXCEPT ![w] = 0]
  /\ amountReleased' = [amountReleased EXCEPT ![w] = 0]
  /\ FinalizeClaimableSettlement(w, terms[w].to, Remaining(w), u)
  /\ UNCHANGED <<senderStatus, recipientStatus, disputeResolver>>

\* _cancelAndRefund.
CancelAndRefund(w, u) ==
  /\ escrowState[w] \notin {"RELEASED", "REFUNDED"}
  /\ escrowState' = [escrowState EXCEPT ![w] = "REFUNDED"]
  /\ pendingSettlements' = [pendingSettlements EXCEPT ![w] = NoPending]
  /\ senderStatus' = [senderStatus EXCEPT ![w] = "NONE"]
  /\ recipientStatus' = [recipientStatus EXCEPT ![w] = "NONE"]
  /\ disputeRaisedTimestamp' = [disputeRaisedTimestamp EXCEPT ![w] = 0]
  /\ amountReleased' = [amountReleased EXCEPT ![w] = 0]
  /\ FinalizeClaimableSettlement(w, terms[w].from, Remaining(w), u)
  /\ UNCHANGED disputeResolver

--------------------------------------------------------------------------------
(***************************************************************************)
(* Time.  The clock stops at MaxTime, the bound of the model.              *)
(***************************************************************************)
Tick ==
  /\ now < MaxTime
  /\ now' = now + 1
  /\ UNCHANGED <<config, creationVars, escrowState, disputeVars, consentVars, splitProposals,
                 limitVars, amountReleased, claimVars, holdingVars, yieldVars, appealVars>>

(***************************************************************************)
(* EscrowCreation.                                                         *)
(***************************************************************************)

\* The absolute auto-release or auto-cancel time an escrow gets: the requested one,
\* or the default delay if the request sets neither.
AutoTime(req, delay, default) ==
  IF delay > 0 THEN now + delay
  ELSE IF req.releaseDelay = 0 /\ req.cancelDelay = 0 /\ default > 0 THEN now + default
  ELSE 0

\* computeEscrowCreation's validation of the arguments.
ValidRequest(req) ==
  /\ req.amount >= MIN_ESCROW_AMOUNT
  /\ req.to # req.from
  /\ req.to # req.releaseAddress
  /\ req.releaseDelay = 0 \/ req.cancelDelay = 0
  /\ req.releaseDelay <= MAX_ESCROW_DURATION /\ req.cancelDelay <= MAX_ESCROW_DURATION
  /\ (req.customResolver # NoAccount /\ config.resolverMustBeContract)
       => req.customResolver \in Contracts

\* _applyEscrowSettings and _snapshotModulesForEscrow.
SnapshotTerms(req, amountAfterFee) ==
  [from |-> req.from, to |-> req.to, amountAfterFee |-> amountAfterFee,
   autoReleaseTime |-> AutoTime(req, req.releaseDelay, config.timeouts.defaultAutoReleaseDelay),
   autoCancelTime |-> AutoTime(req, req.cancelDelay, config.timeouts.defaultAutoCancelDelay),
   customResolver |-> req.customResolver, releaseAddress |-> req.releaseAddress,
   yield |-> req.yield,
   resolutionModule |-> LiveResolutionModule,
   releaseStrategy |-> config.releaseStrategy,
   cancellationStrategy |-> config.cancellationStrategy,
   incentiveModule |-> LiveResolutionModule \in Incentivized,
   yieldProtocolFeeBps |-> config.yieldProtocolFeeBps,
   appealBondProtocolFeeBps |-> config.appealBondProtocolFeeBps,
   appealBondFeeRecipient |-> config.escrowFeeAddress,
   maxDisputeDuration |-> config.timeouts.maxDisputeDuration,
   appealWindowDuration |-> config.timeouts.appealWindowDuration]

\* createEscrow: resolver is the module's answer, supported the yield module's.  The
\* pulled amount is held, less the fee; a supported yield deposit moves all of it on.
CreateEscrow(req, resolver, supported) ==
  /\ InHorizon
  /\ escrowCount < MaxEscrows
  /\ ValidRequest(req)
  /\ resolver \in ResolverAnswers(LiveResolutionModule)
  /\ LET w == escrowCount
         fee == BpsOf(req.amount, config.escrowFee)
         amountAfterFee == req.amount - fee
         deposit == IF req.yield /\ ~config.yieldDepositsPaused
                       /\ config.yieldModule # NoModule /\ supported
                    THEN amountAfterFee ELSE 0
     IN  /\ terms' = [terms EXCEPT ![w] = SnapshotTerms(req, amountAfterFee)]
         /\ escrowState' = [escrowState EXCEPT ![w] = "PENDING"]
         /\ disputeResolver' = [disputeResolver EXCEPT ![w] =
              IF req.customResolver # NoAccount THEN req.customResolver ELSE resolver]
         /\ totalHeld' = totalHeld + amountAfterFee
         /\ totalFees' = totalFees + fee
         /\ tokenBalance' = tokenBalance + req.amount - deposit
         /\ v25YieldPrincipals' = [v25YieldPrincipals EXCEPT ![w] = deposit]
         /\ yieldPosition' = [yieldPosition EXCEPT ![w] = deposit]
         /\ totalDeposited' = totalDeposited + deposit
  /\ escrowCount' = escrowCount + 1
  /\ UNCHANGED <<now, config, disputeRaisedTimestamp, pendingSettlements, consentVars,
                 splitProposals, limitVars, amountReleased, claimVars, unabsorbedLoss,
                 appealVars>>

(***************************************************************************)
(* Release and cancellation of a PENDING escrow.                           *)
(***************************************************************************)

Release(w, caller, u) ==
  /\ Exists(w)
  /\ escrowState[w] = "PENDING"
  /\ ReleaseStrategyOf(w) # NoModule
  /\ CanRelease(w, caller)
  /\ u \in UnwindOutcomes(w, Remaining(w))
  /\ ReleaseEscrowTransfer(w, u)
  /\ UNCHANGED <<now, config, creationVars, pendingCancel, splitProposals, limitVars, appealVars>>

\* partialRelease: refused with a tracked yield position; the last part releases the
\* escrow, and amountReleased keeps the total then.
PartialRelease(w, caller, amount) ==
  /\ Exists(w)
  /\ escrowState[w] = "PENDING"
  /\ v25YieldPrincipals[w] = 0
  /\ amount > 0 /\ amount <= Remaining(w)
  /\ ReleaseStrategyOf(w) # NoModule
  /\ CanRelease(w, caller)
  /\ amountReleased' = [amountReleased EXCEPT ![w] = @ + amount]
  /\ FinalizeClaimableSettlement(w, terms[w].to, amount, NothingReceived(amount))
  /\ IF amount = Remaining(w)
     THEN /\ escrowState' = [escrowState EXCEPT ![w] = "RELEASED"]
          /\ pendingSettlements' = [pendingSettlements EXCEPT ![w] = NoPending]
     ELSE UNCHANGED <<escrowState, pendingSettlements>>
  /\ UNCHANGED <<now, config, creationVars, disputeResolver, disputeRaisedTimestamp,
                 consentVars, splitProposals, limitVars, appealVars>>

\* The strategy is asked and told only if the snapshot names one.  Another strategy than
\* the default one may answer anything to both questions, and keeps its records to itself.
KeepsRecord(w) == terms[w].cancellationStrategy \notin {NoModule} \cup OtherStrategies

\* canCancel.  The default strategy lets either party ask first, and then the other one.
CanCancel(w, caller) ==
  KeepsRecord(w) =>
    \/ pendingCancel[w] = NoAccount
    \/ caller = terms[w].from /\ pendingCancel[w] = terms[w].to
    \/ caller = terms[w].to /\ pendingCancel[w] = terms[w].from

\* May canCancelUnilaterally answer true?  The default strategy's never does.
LiveStrategyCancelsAlone(w) == config.cancellationStrategy \in OtherStrategies   \* mutant
MayCancelAlone(w) == terms[w].cancellationStrategy \in OtherStrategies

\* DefaultCancellationStrategy.onCancelAttempt of a successful attempt; an unsuccessful
\* one changes nothing.
OnCancelAttempt(w, caller) ==
  pendingCancel' = [pendingCancel EXCEPT ![w] = IF @ = NoAccount THEN caller ELSE NoAccount]

\* The strategy does not check who calls onCancelAttempt, nor whom the call names, and its
\* record is kept by id alone: any account can write it, at any time, and another vault
\* with the same strategy does when its escrow of that id is cancelled.
AttemptOfAnotherCaller(w, named) ==
  /\ OnCancelAttempt(w, named)
  /\ UNCHANGED <<now, config, creationVars, escrowState, disputeVars, senderStatus,
                 recipientStatus, splitProposals, limitVars, amountReleased, claimVars,
                 holdingVars, yieldVars, appealVars>>

\* Has the party other than the caller agreed before?
RecordShowsConsent(w, caller) == pendingCancel[w] \notin {NoAccount, caller}    \* mutant
CounterpartyConsented(w, caller) ==
  IF caller = terms[w].from THEN recipientStatus[w] = "AGREE_TO_CANCEL"
                            ELSE senderStatus[w] = "AGREE_TO_CANCEL"

SenderCancel(w, u) ==
  /\ Exists(w)
  /\ escrowState[w] = "PENDING"
  /\ CanCancel(w, terms[w].from)
  /\ IF KeepsRecord(w) THEN OnCancelAttempt(w, terms[w].from) ELSE UNCHANGED pendingCancel
  /\ u \in UnwindOutcomes(w, Remaining(w))
  /\ \/ /\ MayCancelAlone(w) \/ CounterpartyConsented(w, terms[w].from)
        /\ CancelAndRefund(w, u)
     \/ /\ ~CounterpartyConsented(w, terms[w].from)
        /\ senderStatus' = [senderStatus EXCEPT ![w] = "AGREE_TO_CANCEL"]
        /\ UNCHANGED <<escrowState, disputeVars, recipientStatus, amountReleased, claimVars,
                       holdingVars, yieldVars>>
  /\ UNCHANGED <<now, config, creationVars, splitProposals, limitVars, appealVars>>

RecipientCancel(w, u) ==
  /\ Exists(w)
  /\ escrowState[w] = "PENDING"
  /\ CanCancel(w, terms[w].to)
  /\ IF KeepsRecord(w) THEN OnCancelAttempt(w, terms[w].to) ELSE UNCHANGED pendingCancel
  /\ u \in UnwindOutcomes(w, Remaining(w))
  /\ \/ /\ MayCancelAlone(w) \/ CounterpartyConsented(w, terms[w].to)
        /\ CancelAndRefund(w, u)
     \/ /\ ~CounterpartyConsented(w, terms[w].to)
        /\ recipientStatus' = [recipientStatus EXCEPT ![w] = "AGREE_TO_CANCEL"]
        /\ UNCHANGED <<escrowState, disputeVars, senderStatus, amountReleased, claimVars,
                       holdingVars, yieldVars>>
  /\ UNCHANGED <<now, config, creationVars, splitProposals, limitVars, appealVars>>

(***************************************************************************)
(* Disputes.                                                               *)
(***************************************************************************)

\* The fixed-window limit on how many disputes an account raises in a day.
CountDispute(caller) ==
  LET max == config.maxDisputesPerSenderPerDay
      stale == now >= senderDisputeWindowStart[caller] + DAY
  IN  IF max = 0 THEN UNCHANGED limitVars
      ELSE /\ stale \/ senderDisputeCount[caller] + 1 <= max
           /\ senderDisputeCount' =
                [senderDisputeCount EXCEPT ![caller] = IF stale THEN 1 ELSE @ + 1]
           /\ senderDisputeWindowStart' =
                [senderDisputeWindowStart EXCEPT ![caller] = IF stale THEN now ELSE @]

\* raiseDispute: the limits are live configuration; answer is the resolver the module
\* names now, which replaces the one recorded at creation (a custom one too).
RaiseDispute(w, caller, answer) ==
  /\ InHorizon
  /\ Exists(w)
  /\ terms[w].amountAfterFee >= config.minDisputeEscrowValue
  /\ CountDispute(caller)
  /\ escrowState[w] = "PENDING"
  /\ IsParticipant(w, caller)
  /\ answer \in ResolverAnswers(ResolutionModuleOf(w))
  /\ escrowState' = [escrowState EXCEPT ![w] = "DISPUTED"]
  /\ senderStatus' = [senderStatus EXCEPT ![w] =
       IF caller = terms[w].from THEN "RAISE_DISPUTE" ELSE "NONE"]
  /\ recipientStatus' = [recipientStatus EXCEPT ![w] =
       IF caller = terms[w].from THEN "NONE" ELSE "RAISE_DISPUTE"]
  /\ disputeRaisedTimestamp' = [disputeRaisedTimestamp EXCEPT ![w] = now]
  /\ disputeResolver' = [disputeResolver EXCEPT ![w] = IF answer # NoAccount THEN answer ELSE @]
  /\ UNCHANGED <<now, config, creationVars, pendingSettlements, splitProposals, pendingCancel,
                 amountReleased, claimVars, holdingVars, yieldVars, appealVars>>

\* computeResolutionExecution: what the escrow's own snapshot says, unless the module
\* declares its round final or names a deadline.  A consistent module does not call a
\* round final for which it named a deadline before.
Execute == [immediate |-> TRUE, deadline |-> 0]
Deadline(d) == [immediate |-> FALSE, deadline |-> d]
RulingOutcomes(w) ==
  LET snapshotted == IF terms[w].appealWindowDuration = 0 THEN Execute
                     ELSE Deadline(now + terms[w].appealWindowDuration)
      answered == IF ResolutionModuleOf(w) = NoModule THEN {}
                  ELSE {Execute} \cup {Deadline(now + d) : d \in ModuleWindows}
      excluded == IF pendingSettlements[w].exists /\ ConsistentModule THEN {Execute} ELSE {}
  IN  ({snapshotted} \cup answered) \ excluded

SettleSwapped(w, isRelease, u) ==                                              \* mutant
  /\ u \in UnwindOutcomes(w, Remaining(w))
  /\ IF isRelease THEN CancelAndRefund(w, u) ELSE ReleaseEscrowTransfer(w, u)
Settle(w, isRelease, u) ==
  /\ u \in UnwindOutcomes(w, Remaining(w))
  /\ IF isRelease THEN ReleaseEscrowTransfer(w, u) ELSE CancelAndRefund(w, u)

\* _executeResolution, for releaseAsDisputeResolver and cancelAsDisputeResolver.
ExecuteResolution(w, caller, isRelease, outcome, u) ==
  /\ InHorizon
  /\ Exists(w)
  /\ IsAuthorizedDisputeResolver(w, caller)
  /\ escrowState[w] = "DISPUTED"
  /\ outcome \in RulingOutcomes(w)
  /\ \/ outcome.immediate /\ Settle(w, isRelease, u)
     \/ /\ ~outcome.immediate
        /\ ~pendingSettlements[w].exists
        /\ pendingSettlements' = [pendingSettlements EXCEPT ![w] =
             [exists |-> TRUE, isRelease |-> isRelease, appealDeadline |-> outcome.deadline]]
        /\ UNCHANGED <<escrowState, senderStatus, recipientStatus, disputeResolver,
                       disputeRaisedTimestamp, amountReleased, claimVars, holdingVars, yieldVars>>
  /\ UNCHANGED <<now, config, creationVars, pendingCancel, splitProposals, limitVars, appealVars>>

\* The bond grows by a tenth with every appeal the account has paid for before.
ScaledBond(bond, count) == (bond * (100 + 10 * (count - 1))) \div 100

\* _appealDispute.  The bond less the protocol's fee leaves for the incentive module (ETH)
\* or the bond collector (tokens); the ruling is dropped and the successor recorded.  A
\* consistent module quotes the decision that waits.
AppealDispute(w, caller, q, excess) ==
  LET count == addressEscalationCount[caller] + 1
      bond == ScaledBond(q.bond, count)
      fee == BpsOf(bond, terms[w].appealBondProtocolFeeBps)
  IN  /\ InHorizon
      /\ Exists(w)
      /\ count <= MaxAppeals
      /\ terms[w].customResolver = NoAccount
      /\ escrowState[w] = "DISPUTED"
      /\ ResolutionModuleOf(w) # NoModule
      /\ (ConsistentModule /\ pendingSettlements[w].exists)
           => (q.decision = "RELEASE" <=> pendingSettlements[w].isRelease)
      /\ caller = IF q.decision = "RELEASE" THEN terms[w].from ELSE terms[w].to
      /\ q.bond > 0 => terms[w].incentiveModule
      /\ (bond > 0 /\ q.asset = "TOKEN") => config.bondCollector
      /\ pendingSettlements' = [pendingSettlements EXCEPT ![w] = NoPending]
      /\ disputeResolver' = [disputeResolver EXCEPT ![w] = q.successor]
      /\ addressEscalationCount' = [addressEscalationCount EXCEPT ![caller] = count]
      /\ claimableBondProtocolFees' =
           [claimableBondProtocolFees EXCEPT ![q.asset][terms[w].appealBondFeeRecipient] = @ + fee]
      /\ bondFeesOwed' = [bondFeesOwed EXCEPT ![q.asset] = @ + fee]
      /\ claimableExcessEthRefunds' = [claimableExcessEthRefunds EXCEPT ![caller] = @ + excess]
      /\ ethBalance' = ethBalance + excess + (IF q.asset = "ETH" THEN fee ELSE 0)
      /\ tokenBalance' = tokenBalance + (IF q.asset = "TOKEN" THEN fee ELSE 0)
      /\ UNCHANGED <<now, config, creationVars, escrowState, disputeRaisedTimestamp, consentVars,
                     splitProposals, limitVars, amountReleased, claimVars, totalHeld, totalFees,
                     yieldVars>>

(***************************************************************************)
(* Timed actions: computeTimedActions in its order of priority.            *)
(***************************************************************************)

PendingDueBeforeDispute(w) ==                                                  \* mutant
  /\ pendingSettlements[w].exists
  /\ now >= pendingSettlements[w].appealDeadline
  /\ escrowState[w] = "PENDING"
PendingDue(w) ==
  /\ pendingSettlements[w].exists
  /\ now >= pendingSettlements[w].appealDeadline
  /\ escrowState[w] = "DISPUTED"

TimeReached(time) == time > 0 /\ now >= time

DisputeAutoCancelDue(w) ==
  /\ escrowState[w] = "DISPUTED"
  /\ TimeReached(terms[w].autoCancelTime)
  /\ ~pendingSettlements[w].exists

DisputeTimedOutOverRuling(w) ==                                                \* mutant
  /\ escrowState[w] = "DISPUTED"
  /\ terms[w].maxDisputeDuration > 0
  /\ now >= disputeRaisedTimestamp[w] + terms[w].maxDisputeDuration
DisputeTimedOutOnlyRuled(w) ==                                                 \* mutant
  /\ DisputeTimedOutOverRuling(w)
  /\ pendingSettlements[w].exists
DisputeTimedOut(w) ==
  /\ escrowState[w] = "DISPUTED"
  /\ ~pendingSettlements[w].exists
  /\ terms[w].maxDisputeDuration > 0
  /\ disputeRaisedTimestamp[w] > 0
  /\ now >= disputeRaisedTimestamp[w] + terms[w].maxDisputeDuration

AutoReleaseDue(w) == escrowState[w] = "PENDING" /\ TimeReached(terms[w].autoReleaseTime)

AutoCancelDue(w) ==
  /\ escrowState[w] = "PENDING"
  /\ TimeReached(terms[w].autoCancelTime)
  /\ ~AutoReleaseDue(w)

AutomateTimedActions(w, caller, u) ==
  /\ Exists(w)
  /\ MayTriggerTimedAction(w, caller)
  /\ \/ PendingDue(w) /\ Settle(w, pendingSettlements[w].isRelease, u)
     \/ DisputeAutoCancelDue(w) /\ Settle(w, FALSE, u)
     \/ DisputeTimedOut(w) /\ Settle(w, FALSE, u)
     \/ AutoReleaseDue(w) /\ Settle(w, TRUE, u)
     \/ AutoCancelDue(w) /\ Settle(w, FALSE, u)
  /\ UNCHANGED <<now, config, creationVars, pendingCancel, splitProposals, limitVars, appealVars>>

\* resolveDisputeByTimeout (and its alias autoCancelDisputedEscrow).
ResolveDisputeByTimeout(w, caller, u) ==
  /\ Exists(w)
  /\ MayTriggerTimedAction(w, caller)
  /\ DisputeTimedOut(w)
  /\ Settle(w, FALSE, u)
  /\ UNCHANGED <<now, config, creationVars, pendingCancel, splitProposals, limitVars, appealVars>>

\* executePendingSettlement: realizes a ruling, whoever made it, once it is due.
ExecutePendingSettlement(w, caller, u) ==
  /\ Exists(w)
  /\ MayTriggerTimedAction(w, caller)
  /\ PendingDue(w)
  /\ Settle(w, pendingSettlements[w].isRelease, u)
  /\ UNCHANGED <<now, config, creationVars, pendingCancel, splitProposals, limitVars, appealVars>>

(***************************************************************************)
(* Split settlement by mutual agreement.                                   *)
(***************************************************************************)

\* proposeSplit: buyerAmount is the sender's part, the recipient gets the rest.
ProposeSplit(w, caller, buyerAmount, delay) ==
  /\ Exists(w)
  /\ IsParticipant(w, caller)
  /\ escrowState[w] \in Active
  /\ ~pendingSettlements[w].exists
  /\ buyerAmount <= terms[w].amountAfterFee
  /\ splitProposals' = [splitProposals EXCEPT ![w] =
       [active |-> TRUE, proposer |-> caller, buyerAmount |-> buyerAmount,
        sellerAmount |-> terms[w].amountAfterFee - buyerAmount,
        expiry |-> now + (IF delay = 0 THEN SPLIT_EXPIRY ELSE delay)]]
  /\ UNCHANGED <<now, config, creationVars, escrowState, disputeVars, consentVars, limitVars,
                 amountReleased, claimVars, holdingVars, yieldVars, appealVars>>

\* cancelSplit: the escrow's state does not matter.
CancelSplit(w, caller) ==
  /\ Exists(w)
  /\ splitProposals[w].active
  /\ caller = splitProposals[w].proposer \/ caller \in Guardians
  /\ splitProposals' = [splitProposals EXCEPT ![w] = NoSplit]
  /\ UNCHANGED <<now, config, creationVars, escrowState, disputeVars, consentVars, limitVars,
                 amountReleased, claimVars, holdingVars, yieldVars, appealVars>>

Counterparty(w) ==
  IF splitProposals[w].proposer = terms[w].from THEN terms[w].to ELSE terms[w].from

\* The part of the yield that goes with a part of the principal, rounded down.
YieldShareDividedFirst(yield, part, whole) == yield * (part \div whole)         \* mutant
YieldShare(yield, part, whole) == (yield * part) \div whole

\* acceptSplit: the agreed parts are credited whatever principal the unwind returned; the
\* yield, less the fee, is shared in proportion.
AcceptSplit(w, caller, u) ==
  LET split == splitProposals[w]
      principal == terms[w].amountAfterFee
      fee == YieldFee(w, u.yield)
      buyerYield == YieldShare(u.yield - fee, split.buyerAmount, principal)
      buyerCredit == split.buyerAmount + buyerYield
      sellerCredit == split.sellerAmount + (u.yield - fee - buyerYield)
  IN  /\ Exists(w)
      /\ split.active
      /\ caller = Counterparty(w)
      /\ now <= split.expiry
      /\ ~pendingSettlements[w].exists
      /\ escrowState[w] \in Active
      /\ amountReleased[w] = 0
      /\ split.buyerAmount + split.sellerAmount = principal
      /\ u \in UnwindOutcomes(w, principal)
      /\ totalHeld >= principal
      /\ buyerCredit > split.buyerAmount => tokenBalance + u.received >= buyerCredit
      /\ sellerCredit > split.sellerAmount => tokenBalance + u.received >= sellerCredit
      /\ splitProposals' = [splitProposals EXCEPT ![w] = NoSplit]
      /\ escrowState' = [escrowState EXCEPT ![w] = "RESOLVED"]
      /\ disputeRaisedTimestamp' = [disputeRaisedTimestamp EXCEPT ![w] = 0]
      /\ Unwind(w, u)
      /\ totalHeld' = totalHeld - principal
      /\ totalFees' = totalFees + fee
      /\ claimableBalances' = [claimableBalances EXCEPT ![w] = [a \in Accounts |->
           @[a] + (IF a = terms[w].from THEN buyerCredit ELSE 0)
                + (IF a = terms[w].to THEN sellerCredit ELSE 0)]]
      /\ totalClaimable' = totalClaimable + buyerCredit + sellerCredit
      /\ unabsorbedLoss' = unabsorbedLoss + (principal - Least(u.principal, principal))
      /\ UNCHANGED <<now, config, creationVars, disputeResolver, pendingSettlements, consentVars,
                     limitVars, amountReleased, withdrawn, appealVars>>

(***************************************************************************)
(* Pulling what is owed.  An account that was never credited has no claim. *)
(***************************************************************************)

WithdrawEscrowKeepingClaim(w, caller) ==                                       \* mutant
  LET amount == claimableBalances[w][caller]
  IN  /\ Exists(w)
      /\ amount > 0
      /\ totalClaimable >= amount /\ tokenBalance >= amount
      /\ totalClaimable' = totalClaimable - amount
      /\ tokenBalance' = tokenBalance - amount
      /\ withdrawn' = [withdrawn EXCEPT ![w][caller] = @ + amount]
      /\ UNCHANGED <<now, config, creationVars, escrowState, disputeVars, consentVars,
                     splitProposals, limitVars, amountReleased, claimableBalances, totalHeld,
                     totalFees, yieldVars, appealVars>>
WithdrawEscrow(w, caller) ==
  LET amount == claimableBalances[w][caller]
  IN  /\ Exists(w)
      /\ escrowState[w] \in {"PENDING"} \cup Terminal
      /\ amount > 0
      /\ totalClaimable >= amount
      /\ tokenBalance >= amount
      /\ claimableBalances' = [claimableBalances EXCEPT ![w][caller] = 0]
      /\ totalClaimable' = totalClaimable - amount
      /\ tokenBalance' = tokenBalance - amount
      /\ withdrawn' = [withdrawn EXCEPT ![w][caller] = @ + amount]
      /\ UNCHANGED <<now, config, creationVars, escrowState, disputeVars, consentVars,
                     splitProposals, limitVars, amountReleased, totalHeld, totalFees, yieldVars,
                     appealVars>>

\* withdrawFees, paid to the fee recipient.
WithdrawFees ==
  /\ totalFees > 0
  /\ tokenBalance >= totalFees
  /\ totalFees' = 0
  /\ tokenBalance' = tokenBalance - totalFees
  /\ UNCHANGED <<now, config, creationVars, escrowState, disputeVars, consentVars, splitProposals,
                 limitVars, amountReleased, claimVars, totalHeld, yieldVars, appealVars>>

ClaimBondProtocolFees(asset, caller) ==
  LET amount == claimableBondProtocolFees[asset][caller]
  IN  /\ amount > 0
      /\ amount <= (IF asset = "ETH" THEN ethBalance ELSE tokenBalance)
      /\ claimableBondProtocolFees' = [claimableBondProtocolFees EXCEPT ![asset][caller] = 0]
      /\ bondFeesOwed' = [bondFeesOwed EXCEPT ![asset] = @ - amount]
      /\ ethBalance' = ethBalance - (IF asset = "ETH" THEN amount ELSE 0)
      /\ tokenBalance' = tokenBalance - (IF asset = "TOKEN" THEN amount ELSE 0)
      /\ UNCHANGED <<now, config, creationVars, escrowState, disputeVars, consentVars,
                     splitProposals, limitVars, amountReleased, claimVars, totalHeld, totalFees,
                     yieldVars, addressEscalationCount, claimableExcessEthRefunds>>

ClaimExcessEthRefundOfVault(caller) ==                                         \* mutant
  /\ claimableExcessEthRefunds[caller] > 0
  /\ claimableExcessEthRefunds' = [claimableExcessEthRefunds EXCEPT ![caller] = 0]
  /\ ethBalance' = 0
  /\ UNCHANGED <<now, config, creationVars, escrowState, disputeVars, consentVars, splitProposals,
                 limitVars, amountReleased, claimVars, holdingVars, yieldVars,
                 addressEscalationCount, claimableBondProtocolFees, bondFeesOwed>>
ClaimExcessEthRefund(caller) ==
  LET amount == claimableExcessEthRefunds[caller]
  IN  /\ amount > 0
      /\ amount <= ethBalance
      /\ claimableExcessEthRefunds' = [claimableExcessEthRefunds EXCEPT ![caller] = 0]
      /\ ethBalance' = ethBalance - amount
      /\ UNCHANGED <<now, config, creationVars, escrowState, disputeVars, consentVars,
                     splitProposals, limitVars, amountReleased, claimVars, holdingVars, yieldVars,
                     addressEscalationCount, claimableBondProtocolFees, bondFeesOwed>>

\* emergencyUnwindForEscrow by a recovery operator: the position's worth is sent to the
\* vault, whose own record of the position stays.
RecoverPosition(w, returned) ==
  /\ yieldPosition[w] > 0
  /\ totalDeposited >= yieldPosition[w]
  /\ returned \in PositionReturns(w)
  /\ tokenBalance' = tokenBalance + returned
  /\ yieldPosition' = [yieldPosition EXCEPT ![w] = 0]
  /\ totalDeposited' = totalDeposited - yieldPosition[w]
  /\ unabsorbedLoss' = unabsorbedLoss + (yieldPosition[w] - Least(returned, yieldPosition[w]))
  /\ UNCHANGED <<now, config, creationVars, escrowState, disputeVars, consentVars, splitProposals,
                 limitVars, amountReleased, claimVars, totalHeld, totalFees, v25YieldPrincipals,
                 appealVars>>

(***************************************************************************)
(* Configuration: EscrowConfiguration (through the timelock), the creation *)
(* policy and the activation of a queued default module.                   *)
(***************************************************************************)

SetConfig(c) ==
  /\ config' = c
  /\ UNCHANGED <<now, creationVars, escrowState, disputeVars, consentVars, splitProposals,
                 limitVars, amountReleased, claimVars, holdingVars, yieldVars, appealVars>>

SetFeeRecipient(a) == SetConfig([config EXCEPT !.escrowFeeAddress = a])
SetEscrowFeeBps(bps) == bps <= MAX_ESCROW_FEE_BPS /\ SetConfig([config EXCEPT !.escrowFee = bps])
SetYieldProtocolFeeBps(bps) ==
  bps <= MAX_PROTOCOL_FEE_BPS /\ SetConfig([config EXCEPT !.yieldProtocolFeeBps = bps])
SetAppealBondProtocolFeeBps(bps) ==
  bps <= MAX_PROTOCOL_FEE_BPS /\ SetConfig([config EXCEPT !.appealBondProtocolFeeBps = bps])
SetResolutionModule(m) == SetConfig([config EXCEPT !.disputeResolutionModule = m])
SetTimeoutConfig(t) ==
  /\ ~(t.defaultAutoReleaseDelay > 0 /\ t.defaultAutoCancelDelay > 0)
  /\ SetConfig([config EXCEPT !.timeouts = t])
SetMinDisputeEscrowValue(x) == SetConfig([config EXCEPT !.minDisputeEscrowValue = x])
SetMaxDisputesPerSenderPerDay(x) == SetConfig([config EXCEPT !.maxDisputesPerSenderPerDay = x])
SetBondCollector == SetConfig([config EXCEPT !.bondCollector = TRUE])
SetResolverPolicy(b) == SetConfig([config EXCEPT !.resolverMustBeContract = b])

\* ModuleSnapshotRegistry.activateModule, one for each kind of default module.
ActivateResolutionModule(m) == SetConfig([config EXCEPT !.resolutionModule = m])
ActivateReleaseStrategy(m) == SetConfig([config EXCEPT !.releaseStrategy = m])
ActivateCancellationStrategy(m) == SetConfig([config EXCEPT !.cancellationStrategy = m])
ActivateYieldModule(m) == SetConfig([config EXCEPT !.yieldModule = m])

\* A guardian may only pause; what is paused cannot be paused again.
PauseYieldDeposits(caller) ==
  /\ caller \in Guardians \cup Timelocks
  /\ ~config.yieldDepositsPaused
  /\ SetConfig([config EXCEPT !.yieldDepositsPaused = TRUE])
ResumeYieldDeposits(caller) ==
  /\ caller \in Timelocks
  /\ config.yieldDepositsPaused
  /\ SetConfig([config EXCEPT !.yieldDepositsPaused = FALSE])

--------------------------------------------------------------------------------

Governance ==
  \/ \E a \in ConfigChoices.escrowFeeAddress : SetFeeRecipient(a)
  \/ \E bps \in ConfigChoices.escrowFee : SetEscrowFeeBps(bps)
  \/ \E bps \in ConfigChoices.yieldProtocolFeeBps : SetYieldProtocolFeeBps(bps)
  \/ \E bps \in ConfigChoices.appealBondProtocolFeeBps : SetAppealBondProtocolFeeBps(bps)
  \/ \E m \in ConfigChoices.disputeResolutionModule : SetResolutionModule(m)
  \/ \E t \in ConfigChoices.timeouts : SetTimeoutConfig(t)
  \/ \E x \in ConfigChoices.minDisputeEscrowValue : SetMinDisputeEscrowValue(x)
  \/ \E x \in ConfigChoices.maxDisputesPerSenderPerDay : SetMaxDisputesPerSenderPerDay(x)
  \/ \E b \in ConfigChoices.resolverMustBeContract : SetResolverPolicy(b)
  \/ \E m \in ConfigChoices.resolutionModule : ActivateResolutionModule(m)
  \/ \E m \in ConfigChoices.releaseStrategy : ActivateReleaseStrategy(m)
  \/ \E m \in ConfigChoices.cancellationStrategy : ActivateCancellationStrategy(m)
  \/ \E m \in ConfigChoices.yieldModule : ActivateYieldModule(m)
  \/ SetBondCollector
  \/ \E a \in Accounts : PauseYieldDeposits(a) \/ ResumeYieldDeposits(a)

\* What anybody can do to escrow w that needs no answer of a yield module.
Requests(w) ==
  \E a \in Accounts :
    \/ \E x \in PartialAmounts : PartialRelease(w, a, x)
    \/ \E answer \in Address : RaiseDispute(w, a, answer)
    \/ \E q \in AppealQuotes, x \in ExcessValues : AppealDispute(w, a, q, x)
    \/ \E x \in BuyerShares, d \in SplitDelays : ProposeSplit(w, a, x, d)
    \/ CancelSplit(w, a)
    \/ WithdrawEscrow(w, a)

\* What may settle escrow w.
Settlements(w) ==
  \E u \in UnwindOutcomes(w, Remaining(w)) :
    \/ SenderCancel(w, u)
    \/ RecipientCancel(w, u)
    \/ \E a \in Accounts :
         \/ Release(w, a, u)
         \/ \E isRelease \in BOOLEAN, outcome \in RulingOutcomes(w) :
              ExecuteResolution(w, a, isRelease, outcome, u)
         \/ AutomateTimedActions(w, a, u)
         \/ ResolveDisputeByTimeout(w, a, u)
         \/ ExecutePendingSettlement(w, a, u)
         \/ AcceptSplit(w, a, u)

Next ==
  \/ Tick
  \/ Governance
  \/ \E req \in CreateRequests, resolver \in Address, supported \in BOOLEAN :
       CreateEscrow(req, resolver, supported)
  \/ \E w \in Workflows : Requests(w) \/ Settlements(w)
  \/ \E w \in Workflows, named \in NamedCallers : AttemptOfAnotherCaller(w, named)
  \/ \E w \in Workflows : \E r \in PositionReturns(w) : RecoverPosition(w, r)
  \/ WithdrawFees
  \/ \E a \in Accounts : ClaimExcessEthRefund(a)
  \/ \E b \in BondAssets, a \in Accounts : ClaimBondProtocolFees(b, a)

Spec == Init /\ [][Next]_vars

================================================================================
