--------------------------- MODULE EscrowVaultProofs ---------------------------
(***************************************************************************)
(* Proofs about EscrowVault, for every value of its constants.             *)
(***************************************************************************)
EXTENDS EscrowVaultProperties, TLAPS

(***************************************************************************)
(* Arithmetic of fees and shares.                                          *)
(***************************************************************************)

\* Rounding down: a part of a whole takes no more than its share, and less than all of it
\* if it is not the whole.
LEMMA QuotientBound ==
  ASSUME NEW x \in Nat, NEW whole \in Nat \ {0}, NEW part \in 0 .. whole
  PROVE  /\ (x * part) \div whole \in 0 .. x
         /\ (x > 0 /\ part < whole) => (x * part) \div whole < x
<1>1. PICK rest \in Nat : whole = part + rest
  <2>. WITNESS whole - part \in Nat
  <2>. QED  OBVIOUS
<1>2. x * whole = x * part + x * rest
  BY <1>1, Z3
<1>3. /\ x * rest \in Nat /\ x * part \in Nat
      /\ (x > 0 /\ rest > 0) => x * rest > 0
  BY <1>1, Z3
<1>4. (x * part) \div whole \in Int
  OBVIOUS
<1>5. (x * part) \div whole \in 0 .. x
  BY <1>2, <1>3, <1>4, Z3
<1>6. ASSUME x > 0, part < whole PROVE (x * part) \div whole < x
  BY <1>1, <1>2, <1>3, <1>4, <1>6, Z3
<1>. QED  BY <1>5, <1>6

\* The fee on an escrow is below 100%.
LEMMA EscrowFeeBelowAll ==
  ASSUME NEW c \in Configs
  PROVE  c.escrowFee \in 0 .. DENOMINATOR /\ c.escrowFee < DENOMINATOR
<1>1. c.escrowFee \in 0 .. MAX_ESCROW_FEE_BPS
  BY SMTT(30) DEF Configs
<1>. QED  BY <1>1 DEF MAX_ESCROW_FEE_BPS, DENOMINATOR

\* A fee is never more than what it is taken from.
LEMMA BpsOfBound ==
  ASSUME NEW x \in Nat, NEW bps \in 0 .. DENOMINATOR
  PROVE  /\ BpsOf(x, bps) \in 0 .. x
         /\ (x > 0 /\ bps < DENOMINATOR) => BpsOf(x, bps) < x
<1>1. DENOMINATOR \in Nat \ {0}
  BY DEF DENOMINATOR
<1>. QED  BY <1>1, QuotientBound DEF BpsOf

(***************************************************************************)
(* Types.  TypeOK is not inductive alone: that Remaining is a natural      *)
(* number and that a split divides by something is known only of an open   *)
(* escrow, and that the dispute clock is not 0 because time is not.  So    *)
(* the types are carried together with PhaseInv.                           *)
(***************************************************************************)
Inv == TypeOK /\ now # 0 /\ PhaseInv

LEMMA RemainingType ==
  ASSUME Inv, NEW w \in Workflows, escrowState[w] \in Active
  PROVE  /\ Remaining(w) \in Nat \ {0}
         /\ v25YieldPrincipals[w] > 0 => Remaining(w) = v25YieldPrincipals[w]
BY DEF Inv, TypeOK, PhaseInv, Phase, Remaining, Terms

LEMMA ReturnsType ==
  ASSUME TypeOK, NEW w \in Workflows, NEW r \in PositionReturns(w)
  PROVE  r \in Nat \ {0}
<1>1. yieldPosition[w] \in Nat
  BY DEF TypeOK
<1>. QED  BY <1>1, InputAssumption DEF PositionReturns

\* Whatever way a settlement gets its tokens, it reports natural numbers.
LEMMA UnwindType ==
  ASSUME TypeOK, NEW w \in Workflows, NEW amount \in Nat, NEW u \in UnwindOutcomes(w, amount)
  PROVE  u \in [principal : Nat, yield : Nat, received : Nat, closed : BOOLEAN]
<1>1. yieldPosition[w] \in Nat
  BY DEF TypeOK
<1>2. CASE u = NothingReceived(amount)
  BY <1>2 DEF NothingReceived
<1>3. CASE \E r \in PositionReturns(w) : u = NormalUnwind(w, r)
  BY <1>1, <1>3, ReturnsType DEF NormalUnwind, Least
<1>4. CASE \E r \in PositionReturns(w) : u = EmergencyUnwind(r)
  BY <1>4, ReturnsType DEF EmergencyUnwind
<1>. QED  BY <1>2, <1>3, <1>4 DEF UnwindOutcomes

\* A credit to one holder of one book leaves a table of naturals one.
LEMMA CreditType ==
  ASSUME NEW Books, NEW Holders, NEW f \in [Books -> [Holders -> Nat]],
         NEW b \in Books, NEW h, NEW c \in Nat
  PROVE  [f EXCEPT ![b][h] = @ + c] \in [Books -> [Holders -> Nat]]
<1>. DEFINE g == [f[b] EXCEPT ![h] = @ + c]
<1>1. f[b] \in [Holders -> Nat]
  OBVIOUS
<1>2. g \in [Holders -> Nat]
  <2>1. g = [y \in Holders |-> IF y = h THEN f[b][y] + c ELSE f[b][y]]
    BY <1>1
  <2>2. \A y \in Holders : f[b][y] + c \in Nat /\ f[b][y] \in Nat
    BY <1>1
  <2>. QED  BY <2>1, <2>2
<1>3. [f EXCEPT ![b] = g] \in [Books -> [Holders -> Nat]]
  BY <1>2
<1>4. [f EXCEPT ![b][h] = @ + c] = [f EXCEPT ![b] = g]
  OBVIOUS
<1>. QED  BY <1>3, <1>4

\* The ledgers a settlement moves keep their types.
LedgersOK ==
  /\ claimableBalances \in [Workflows -> [Accounts -> Nat]]
  /\ withdrawn \in [Workflows -> [Accounts -> Nat]]
  /\ totalClaimable \in Nat
  /\ totalHeld \in Nat
  /\ totalFees \in Nat
  /\ tokenBalance \in Nat
  /\ v25YieldPrincipals \in [Workflows -> Nat]
  /\ yieldPosition \in [Workflows -> Nat]
  /\ totalDeposited \in Nat
  /\ unabsorbedLoss \in Nat

LEMMA UnwindLedgers ==
  ASSUME TypeOK, NEW w \in Workflows, NEW amount \in Nat, NEW u \in UnwindOutcomes(w, amount),
         Unwind(w, u)
  PROVE  /\ tokenBalance' \in Nat
         /\ v25YieldPrincipals' \in [Workflows -> Nat]
         /\ yieldPosition' \in [Workflows -> Nat]
         /\ totalDeposited' \in Nat
<1>1. u \in [principal : Nat, yield : Nat, received : Nat, closed : BOOLEAN]
  BY UnwindType
<1>. QED  BY <1>1 DEF TypeOK, Unwind

LEMMA FeeRateType ==
  ASSUME TypeOK, NEW w \in Workflows
  PROVE  /\ terms[w].yieldProtocolFeeBps \in 0 .. DENOMINATOR
         /\ terms[w].appealBondProtocolFeeBps \in 0 .. DENOMINATOR
<1>1. terms[w] \in Terms
  BY DEF TypeOK
<1>2. \A bps \in 0 .. MAX_PROTOCOL_FEE_BPS : bps \in 0 .. DENOMINATOR
  BY DEF MAX_PROTOCOL_FEE_BPS, DENOMINATOR
<1>. QED  BY <1>1, <1>2 DEF Terms

LEMMA YieldFeeType ==
  ASSUME TypeOK, NEW w \in Workflows, NEW yield \in Nat
  PROVE  YieldFee(w, yield) \in 0 .. yield
BY FeeRateType, BpsOfBound DEF YieldFee

LEMMA FinalizeLedgers ==
  ASSUME TypeOK, NEW w \in Workflows, NEW beneficiary \in Address, NEW amount \in Nat,
         NEW u \in UnwindOutcomes(w, amount),
         FinalizeClaimableSettlement(w, beneficiary, amount, u)
  PROVE  LedgersOK'
<1>1. u \in [principal : Nat, yield : Nat, received : Nat, closed : BOOLEAN]
  BY UnwindType
<1>2. YieldFee(w, u.yield) \in 0 .. u.yield
  BY <1>1, YieldFeeType
<1>3. Unwind(w, u)
  BY DEF FinalizeClaimableSettlement
<1>4. u.principal + u.yield - YieldFee(w, u.yield) \in Nat
  BY <1>1, <1>2
<1>5. claimableBalances' \in [Workflows -> [Accounts -> Nat]]
  <2>. DEFINE credit == u.principal + u.yield - YieldFee(w, u.yield)
  <2>1. claimableBalances' = [claimableBalances EXCEPT ![w][beneficiary] = @ + credit]
    BY DEF FinalizeClaimableSettlement
  <2>2. claimableBalances \in [Workflows -> [Accounts -> Nat]]
    BY DEF TypeOK
  <2>. HIDE DEF credit
  <2>3. credit \in Nat
    BY <1>4 DEF credit
  <2>. QED  BY <2>1, <2>2, <2>3, CreditType
<1>8. totalClaimable' \in Nat
  BY <1>4 DEF FinalizeClaimableSettlement, TypeOK
<1>6. withdrawn' \in [Workflows -> [Accounts -> Nat]] /\ unabsorbedLoss' \in Nat
  BY DEF FinalizeClaimableSettlement, TypeOK
<1>7. totalHeld' \in Nat /\ totalFees' \in Nat
  BY <1>2 DEF FinalizeClaimableSettlement, TypeOK
<1>. QED  BY <1>3, <1>5, <1>6, <1>7, <1>8, UnwindLedgers DEF LedgersOK

(***************************************************************************)
(* The two settlements that every path but a split and a partial release   *)
(* ends in.                                                                *)
(***************************************************************************)
LEMMA SettlementInv ==
  ASSUME Inv, NEW w \in Workflows, escrowState[w] \in Active,
         NEW u \in UnwindOutcomes(w, Remaining(w)),
         ReleaseEscrowTransfer(w, u) \/ CancelAndRefund(w, u),
         UNCHANGED <<now, config, creationVars, splitProposals, limitVars, appealVars>>,
         pendingCancel' \in [Workflows -> Address]
  PROVE  Inv'
<1>1. TypeOK /\ PhaseInv /\ now # 0
  BY DEF Inv
<1>2. LedgersOK'
  <2>1. PICK b \in Address : FinalizeClaimableSettlement(w, b, Remaining(w), u)
    <3>1. terms[w] \in Terms
      BY <1>1 DEF TypeOK
    <3>. QED  BY <3>1 DEF ReleaseEscrowTransfer, CancelAndRefund, Terms
  <2>. QED  BY <1>1, <2>1, RemainingType, FinalizeLedgers
<1>3. /\ escrowState' \in [Workflows -> EscrowStates]
      /\ escrowState'[w] \in {"RELEASED", "REFUNDED"}
      /\ \A v \in Workflows \ {w} : escrowState'[v] = escrowState[v]
  BY <1>1 DEF ReleaseEscrowTransfer, CancelAndRefund, TypeOK, EscrowStates
<1>4. /\ senderStatus' \in [Workflows -> ConsentStatuses]
      /\ recipientStatus' \in [Workflows -> ConsentStatuses]
      /\ disputeResolver' \in [Workflows -> Address]
      /\ disputeRaisedTimestamp' \in [Workflows -> Nat]
      /\ pendingSettlements' \in [Workflows -> PendingSettlement]
      /\ amountReleased' \in [Workflows -> Nat]
  <2>1. NoPending \in PendingSettlement /\ "NONE" \in ConsentStatuses
    BY DEF NoPending, PendingSettlement, ConsentStatuses
  <2>2. CASE ReleaseEscrowTransfer(w, u)
    BY <1>1, <2>1, <2>2 DEF ReleaseEscrowTransfer, TypeOK
  <2>3. CASE CancelAndRefund(w, u)
    BY <1>1, <2>1, <2>3 DEF CancelAndRefund, TypeOK
  <2>. QED  BY <2>2, <2>3
<1>5. TypeOK'
  BY <1>1, <1>2, <1>3, <1>4 DEF TypeOK, LedgersOK, creationVars, limitVars, appealVars
<1>6. /\ disputeRaisedTimestamp'[w] = 0
      /\ ~pendingSettlements'[w].exists
      /\ v25YieldPrincipals'[w] = 0
      /\ \A v \in Workflows \ {w} :
           /\ disputeRaisedTimestamp'[v] = disputeRaisedTimestamp[v]
           /\ pendingSettlements'[v] = pendingSettlements[v]
           /\ v25YieldPrincipals'[v] = v25YieldPrincipals[v]
           /\ amountReleased'[v] = amountReleased[v]
  BY <1>1 DEF ReleaseEscrowTransfer, CancelAndRefund, FinalizeClaimableSettlement, Unwind,
              TypeOK, NoPending
<1>7. PhaseInv'
  <2>. SUFFICES ASSUME NEW v \in Workflows PROVE Phase(v)'
    BY DEF PhaseInv
  <2>. USE DEF Phase
  <2>1. CASE v = w
    BY <1>1, <1>3, <1>6, <2>1 DEF PhaseInv, Active, creationVars
  <2>2. CASE v # w
    BY <1>1, <1>3, <1>6, <2>2 DEF PhaseInv, creationVars
  <2>. QED  BY <2>1, <2>2
<1>. QED  BY <1>1, <1>5, <1>7 DEF Inv

(***************************************************************************)
(* The other actions, one lemma each.                                      *)
(***************************************************************************)
USE DEF creationVars, disputeVars, consentVars, limitVars, claimVars, holdingVars, yieldVars,
        appealVars

LEMMA TickInv ==
  ASSUME Inv, Tick
  PROVE  Inv'
BY DEF Inv, TypeOK, PhaseInv, Phase, Tick

LEMMA SetConfigInv ==
  ASSUME Inv, NEW c \in Configs, SetConfig(c)
  PROVE  Inv'
<1>1. TypeOK'
  BY DEF Inv, TypeOK, SetConfig
<1>2. PhaseInv' /\ now' # 0
  BY DEF Inv, PhaseInv, Phase, SetConfig
<1>. QED  BY <1>1, <1>2 DEF Inv

LEMMA GovernanceInv ==
  ASSUME Inv, Governance
  PROVE  Inv'
<1>1. PICK c \in Configs : SetConfig(c)
  <2>1. config \in Configs
    BY DEF Inv, TypeOK
  <2>. USE <2>1, ConfigAssumption DEF Configs, ModuleAddress
  <2>2. CASE \E a \in ConfigChoices.escrowFeeAddress : SetFeeRecipient(a)
    BY <2>2 DEF SetFeeRecipient
  <2>3. CASE \E bps \in ConfigChoices.escrowFee : SetEscrowFeeBps(bps)
    BY <2>3 DEF SetEscrowFeeBps
  <2>4. CASE \E bps \in ConfigChoices.yieldProtocolFeeBps : SetYieldProtocolFeeBps(bps)
    BY <2>4 DEF SetYieldProtocolFeeBps
  <2>5. CASE \E bps \in ConfigChoices.appealBondProtocolFeeBps : SetAppealBondProtocolFeeBps(bps)
    BY <2>5 DEF SetAppealBondProtocolFeeBps
  <2>6. CASE \E m \in ConfigChoices.disputeResolutionModule : SetResolutionModule(m)
    BY <2>6 DEF SetResolutionModule
  <2>7. CASE \E t \in ConfigChoices.timeouts : SetTimeoutConfig(t)
    BY <2>7 DEF SetTimeoutConfig
  <2>8. CASE \E x \in ConfigChoices.minDisputeEscrowValue : SetMinDisputeEscrowValue(x)
    BY <2>8 DEF SetMinDisputeEscrowValue
  <2>9. CASE \E x \in ConfigChoices.maxDisputesPerSenderPerDay : SetMaxDisputesPerSenderPerDay(x)
    BY <2>9 DEF SetMaxDisputesPerSenderPerDay
  <2>10. CASE \E b \in ConfigChoices.resolverMustBeContract : SetResolverPolicy(b)
    BY <2>10 DEF SetResolverPolicy
  <2>11. CASE \E m \in ConfigChoices.resolutionModule : ActivateResolutionModule(m)
    BY <2>11 DEF ActivateResolutionModule
  <2>12. CASE \E m \in ConfigChoices.releaseStrategy : ActivateReleaseStrategy(m)
    BY <2>12 DEF ActivateReleaseStrategy
  <2>13. CASE \E m \in ConfigChoices.cancellationStrategy : ActivateCancellationStrategy(m)
    BY <2>13 DEF ActivateCancellationStrategy
  <2>14. CASE \E m \in ConfigChoices.yieldModule : ActivateYieldModule(m)
    BY <2>14 DEF ActivateYieldModule
  <2>15. CASE SetBondCollector
    BY <2>15 DEF SetBondCollector
  <2>16. CASE \E a \in Accounts : PauseYieldDeposits(a) \/ ResumeYieldDeposits(a)
    <3>1. \A b \in BOOLEAN : [config EXCEPT !.yieldDepositsPaused = b] \in Configs
      OBVIOUS
    <3>2. PICK b \in BOOLEAN : SetConfig([config EXCEPT !.yieldDepositsPaused = b])
      BY <2>16 DEF PauseYieldDeposits, ResumeYieldDeposits
    <3>. QED  BY <3>1, <3>2
  <2>. QED
    BY <2>2, <2>3, <2>4, <2>5, <2>6, <2>7, <2>8, <2>9, <2>10, <2>11, <2>12, <2>13, <2>14,
       <2>15, <2>16 DEF Governance
<1>. QED  BY <1>1, SetConfigInv

LEMMA SnapshotType ==
  ASSUME TypeOK, NEW req \in CreateRequest, NEW amount \in Nat
  PROVE  SnapshotTerms(req, amount) \in Terms
<1>1. now \in Nat /\ config \in Configs
  BY DEF TypeOK
<1>2. AutoTime(req, req.releaseDelay, config.timeouts.defaultAutoReleaseDelay) \in Nat
  BY <1>1 DEF AutoTime, CreateRequest, Configs, Timeouts
<1>3. AutoTime(req, req.cancelDelay, config.timeouts.defaultAutoCancelDelay) \in Nat
  BY <1>1 DEF AutoTime, CreateRequest, Configs, Timeouts
<1>4. LiveResolutionModule \in ModuleAddress
  BY <1>1 DEF LiveResolutionModule, Configs
<1>5. /\ req.from \in Address /\ req.to \in Address /\ req.customResolver \in Address
      /\ req.releaseAddress \in Address /\ req.yield \in BOOLEAN
  BY DEF CreateRequest, Address
<1>6. /\ config.releaseStrategy \in ModuleAddress
      /\ config.cancellationStrategy \in ModuleAddress
      /\ config.yieldProtocolFeeBps \in 0 .. MAX_PROTOCOL_FEE_BPS
      /\ config.appealBondProtocolFeeBps \in 0 .. MAX_PROTOCOL_FEE_BPS
      /\ config.escrowFeeAddress \in Address
      /\ config.timeouts.maxDisputeDuration \in Nat
      /\ config.timeouts.appealWindowDuration \in Nat
  BY <1>1 DEF Configs, Timeouts, Address
<1>. QED  BY <1>2, <1>3, <1>4, <1>5, <1>6 DEF SnapshotTerms, Terms

LEMMA CreateEscrowInv ==
  ASSUME Inv, NEW req \in CreateRequests, NEW resolver \in Address, NEW supported \in BOOLEAN,
         CreateEscrow(req, resolver, supported)
  PROVE  Inv'
<1>. DEFINE w == escrowCount
            fee == BpsOf(req.amount, config.escrowFee)
            amountAfterFee == req.amount - fee
            deposit == IF req.yield /\ ~config.yieldDepositsPaused
                          /\ config.yieldModule # NoModule /\ supported
                       THEN amountAfterFee ELSE 0
<1>1. TypeOK /\ PhaseInv /\ now # 0
  BY DEF Inv
<1>2. w \in Workflows /\ w \in Nat /\ MaxEscrows \in Nat
  BY <1>1, BoundAssumption DEF CreateEscrow, TypeOK, Workflows
<1>3. req \in CreateRequest /\ req.amount \in Nat /\ req.amount >= 1000
      /\ req.from \in Address /\ req.to \in Address /\ req.from # req.to
      /\ req.customResolver \in Address
  BY InputAssumption DEF CreateEscrow, ValidRequest, CreateRequest, MIN_ESCROW_AMOUNT, Address
<1>4. fee \in Nat /\ amountAfterFee \in Nat \ {0} /\ amountAfterFee <= req.amount
  <2>1. config.escrowFee \in 0 .. DENOMINATOR /\ config.escrowFee < DENOMINATOR
    <3>1. config \in Configs
      BY <1>1 DEF TypeOK
    <3>. QED  BY <3>1, EscrowFeeBelowAll
  <2>2. fee \in 0 .. req.amount /\ fee < req.amount
    <3>. req.amount > 0
      BY <1>3
    <3>. QED  BY <1>3, <2>1, BpsOfBound
  <2>. QED  BY <1>3, <2>2
<1>5. deposit \in Nat /\ deposit <= req.amount /\ (deposit > 0 => deposit = amountAfterFee)
  BY <1>3, <1>4
<1>6. /\ terms' = [terms EXCEPT ![w] = SnapshotTerms(req, amountAfterFee)]
      /\ escrowState' = [escrowState EXCEPT ![w] = "PENDING"]
      /\ disputeResolver' = [disputeResolver EXCEPT ![w] =
           IF req.customResolver # NoAccount THEN req.customResolver ELSE resolver]
      /\ totalHeld' = totalHeld + amountAfterFee
      /\ totalFees' = totalFees + fee
      /\ tokenBalance' = tokenBalance + req.amount - deposit
      /\ v25YieldPrincipals' = [v25YieldPrincipals EXCEPT ![w] = deposit]
      /\ yieldPosition' = [yieldPosition EXCEPT ![w] = deposit]
      /\ totalDeposited' = totalDeposited + deposit
      /\ escrowCount' = w + 1
      /\ w < MaxEscrows
      /\ UNCHANGED <<now, config, disputeRaisedTimestamp, pendingSettlements, consentVars,
                     splitProposals, limitVars, amountReleased, claimVars, unabsorbedLoss,
                     appealVars>>
  BY DEF CreateEscrow
<1>7. /\ SnapshotTerms(req, amountAfterFee) \in Terms
      /\ SnapshotTerms(req, amountAfterFee).from # SnapshotTerms(req, amountAfterFee).to
      /\ SnapshotTerms(req, amountAfterFee).amountAfterFee = amountAfterFee
  BY <1>1, <1>3, <1>4, SnapshotType DEF SnapshotTerms
<1>. HIDE DEF w, fee, amountAfterFee, deposit
<1>8. TypeOK'
  <2>1. terms' \in [Workflows -> Terms] /\ escrowState' \in [Workflows -> EscrowStates]
    BY <1>1, <1>2, <1>6, <1>7 DEF TypeOK, EscrowStates
  <2>2. disputeResolver' \in [Workflows -> Address]
    BY <1>1, <1>2, <1>3, <1>6 DEF TypeOK
  <2>3. escrowCount' \in 0 .. MaxEscrows
    BY <1>2, <1>6
  <2>4. /\ totalHeld' \in Nat /\ totalFees' \in Nat /\ tokenBalance' \in Nat
        /\ totalDeposited' \in Nat
    BY <1>1, <1>3, <1>4, <1>5, <1>6 DEF TypeOK
  <2>5. v25YieldPrincipals' \in [Workflows -> Nat] /\ yieldPosition' \in [Workflows -> Nat]
    BY <1>1, <1>2, <1>5, <1>6 DEF TypeOK
  <2>. QED  BY <1>1, <1>6, <2>1, <2>2, <2>3, <2>4, <2>5 DEF TypeOK
<1>9. PhaseInv'
  <2>. SUFFICES ASSUME NEW v \in Workflows PROVE Phase(v)'
    BY DEF PhaseInv
  <2>. USE DEF Phase
  <2>1. CASE v = w
    <3>1. Phase(w) /\ escrowState[w] = "NONE"
      BY <1>1, <1>2 DEF PhaseInv, w
    <3>2. /\ escrowState'[w] = "PENDING" /\ escrowCount' > w
          /\ terms'[w] = SnapshotTerms(req, amountAfterFee)
          /\ v25YieldPrincipals'[w] = deposit
      BY <1>1, <1>2, <1>6 DEF TypeOK
    <3>3. /\ disputeRaisedTimestamp'[w] = 0 /\ ~pendingSettlements'[w].exists
          /\ amountReleased'[w] = 0
      BY <1>6, <3>1
    <3>4. terms'[w].from # terms'[w].to /\ terms'[w].amountAfterFee = amountAfterFee
      BY <1>7, <3>2
    <3>5. escrowCount' \in Nat
      BY <1>2, <1>6
    <3>. QED  BY <1>2, <1>4, <1>5, <2>1, <3>2, <3>3, <3>4, <3>5 DEF Active
  <2>2. CASE v # w
    <3>1. Phase(v)
      BY <1>1 DEF PhaseInv
    <3>2. /\ escrowState'[v] = escrowState[v] /\ terms'[v] = terms[v]
          /\ v25YieldPrincipals'[v] = v25YieldPrincipals[v]
      BY <1>1, <1>6, <2>2 DEF TypeOK
    <3>3. v >= escrowCount' <=> v >= escrowCount
      BY <1>2, <1>6, <2>2 DEF w, Workflows
    <3>. QED  BY <1>6, <3>1, <3>2, <3>3
  <2>. QED  BY <2>1, <2>2
<1>. QED  BY <1>1, <1>6, <1>8, <1>9 DEF Inv

LEMMA PartialReleaseInv ==
  ASSUME Inv, NEW w \in Workflows, NEW a \in Accounts, NEW amount \in PartialAmounts,
         PartialRelease(w, a, amount)
  PROVE  Inv'
<1>. DEFINE u == NothingReceived(amount)
<1>1. TypeOK /\ PhaseInv /\ now # 0 /\ amount \in Nat
  BY InputAssumption DEF Inv
<1>2. LedgersOK'
  <2>1. u \in UnwindOutcomes(w, amount)
    BY DEF UnwindOutcomes
  <2>2. terms[w].to \in Address
    BY <1>1 DEF TypeOK, Terms
  <2>. QED  BY <1>1, <2>1, <2>2, FinalizeLedgers DEF PartialRelease
<1>3. /\ escrowState[w] = "PENDING" /\ v25YieldPrincipals[w] = 0
      /\ amount > 0 /\ amount <= Remaining(w)
      /\ amountReleased' = [amountReleased EXCEPT ![w] = @ + amount]
      /\ v25YieldPrincipals' = [v25YieldPrincipals EXCEPT ![w] = 0]
      /\ UNCHANGED <<now, config, creationVars, disputeResolver, disputeRaisedTimestamp,
                     consentVars, splitProposals, limitVars, appealVars>>
  BY DEF PartialRelease, FinalizeClaimableSettlement, Unwind
<1>4. /\ pendingSettlements' \in [Workflows -> PendingSettlement]
      /\ ~pendingSettlements'[w].exists
      /\ \A v \in Workflows \ {w} : pendingSettlements'[v] = pendingSettlements[v]
      /\ escrowState' \in [Workflows -> EscrowStates]
      /\ escrowState'[w] = IF amount = Remaining(w) THEN "RELEASED" ELSE "PENDING"
      /\ \A v \in Workflows \ {w} : escrowState'[v] = escrowState[v]
  <2>1. NoPending \in PendingSettlement /\ ~NoPending.exists /\ "RELEASED" \in EscrowStates
    BY DEF NoPending, PendingSettlement, EscrowStates
  <2>2. ~pendingSettlements[w].exists
    BY <1>1, <1>3 DEF PhaseInv, Phase
  <2>3. CASE amount = Remaining(w)
    BY <1>1, <2>1, <2>3 DEF PartialRelease, TypeOK
  <2>4. CASE amount # Remaining(w)
    BY <1>1, <1>3, <2>2, <2>4 DEF PartialRelease, TypeOK
  <2>. QED  BY <2>3, <2>4
<1>5. TypeOK'
  <2>1. amountReleased' \in [Workflows -> Nat]
    BY <1>1, <1>3 DEF TypeOK
  <2>. QED  BY <1>1, <1>2, <1>3, <1>4, <2>1 DEF TypeOK, LedgersOK
<1>6. PhaseInv'
  <2>. SUFFICES ASSUME NEW v \in Workflows PROVE Phase(v)'
    BY DEF PhaseInv
  <2>1. Phase(v)
    BY <1>1 DEF PhaseInv
  <2>2. CASE v = w
    <3>1. /\ amountReleased'[w] = amountReleased[w] + amount /\ v25YieldPrincipals'[w] = 0
          /\ amountReleased[w] \in Nat /\ terms[w].amountAfterFee \in Nat
      BY <1>1, <1>3 DEF TypeOK, Terms
    <3>. QED  BY <1>1, <1>3, <1>4, <2>1, <2>2, <3>1 DEF Phase, Active, Remaining
  <2>3. CASE v # w
    <3>1. /\ amountReleased'[v] = amountReleased[v]
          /\ v25YieldPrincipals'[v] = v25YieldPrincipals[v]
      BY <1>1, <1>3, <2>3 DEF TypeOK
    <3>. QED  BY <1>3, <1>4, <2>1, <2>3, <3>1 DEF Phase
  <2>. QED  BY <2>2, <2>3
<1>. QED  BY <1>1, <1>3, <1>5, <1>6 DEF Inv

\* A cancellation attempt that only records the consent of one party, in the vault or in
\* the strategy.
LEMMA ConsentInvariance ==
  ASSUME Inv, NEW w \in Workflows,
         senderStatus' \in [Workflows -> ConsentStatuses],
         recipientStatus' \in [Workflows -> ConsentStatuses],
         pendingCancel' \in [Workflows -> Address],
         UNCHANGED <<now, config, creationVars, escrowState, disputeVars, splitProposals,
                     limitVars, amountReleased, claimVars, holdingVars, yieldVars, appealVars>>
  PROVE  Inv'
<1>1. TypeOK'
  BY DEF Inv, TypeOK
<1>2. PhaseInv' /\ now' # 0
  BY DEF Inv, PhaseInv, Phase
<1>. QED  BY <1>1, <1>2 DEF Inv

LEMMA OnCancelAttemptType ==
  ASSUME TypeOK, NEW w \in Workflows, NEW caller \in Address, OnCancelAttempt(w, caller)
  PROVE  pendingCancel' \in [Workflows -> Address]
BY DEF OnCancelAttempt, TypeOK, Address

LEMMA AttemptOfAnotherCallerInv ==
  ASSUME Inv, NEW w \in Workflows, NEW named \in NamedCallers, AttemptOfAnotherCaller(w, named)
  PROVE  Inv'
<1>1. TypeOK /\ named \in Address
  BY InputAssumption DEF Inv
<1>2. pendingCancel' \in [Workflows -> Address]
  BY <1>1, OnCancelAttemptType DEF AttemptOfAnotherCaller
<1>. QED  BY <1>1, <1>2, ConsentInvariance DEF AttemptOfAnotherCaller, TypeOK

LEMMA CancelInv ==
  ASSUME Inv, NEW w \in Workflows, NEW u, SenderCancel(w, u) \/ RecipientCancel(w, u)
  PROVE  Inv'
<1>1. /\ TypeOK /\ escrowState[w] \in Active /\ u \in UnwindOutcomes(w, Remaining(w))
      /\ UNCHANGED <<now, config, creationVars, splitProposals, limitVars, appealVars>>
  BY DEF Inv, SenderCancel, RecipientCancel, Active
<1>2. pendingCancel' \in [Workflows -> Address]
  <2>1. terms[w].from \in Address /\ terms[w].to \in Address
    BY <1>1 DEF TypeOK, Terms
  <2>2. CASE UNCHANGED pendingCancel
    BY <1>1, <2>2 DEF TypeOK
  <2>3. CASE OnCancelAttempt(w, terms[w].from) \/ OnCancelAttempt(w, terms[w].to)
    BY <1>1, <2>1, <2>3, OnCancelAttemptType
  <2>. QED  BY <2>2, <2>3 DEF SenderCancel, RecipientCancel
<1>3. CASE CancelAndRefund(w, u)
  BY <1>1, <1>2, <1>3, SettlementInv
<1>4. CASE ~CancelAndRefund(w, u)
  <2>1. /\ senderStatus' \in [Workflows -> ConsentStatuses]
        /\ recipientStatus' \in [Workflows -> ConsentStatuses]
        /\ UNCHANGED <<escrowState, disputeVars, amountReleased, claimVars, holdingVars, yieldVars>>
    BY <1>1, <1>4 DEF SenderCancel, RecipientCancel, TypeOK, ConsentStatuses
  <2>. QED  BY <1>1, <1>2, <2>1, ConsentInvariance
<1>. QED  BY <1>3, <1>4

\* Every path that ends in a release or a refund of an active escrow.
LEMMA SettleInv ==
  ASSUME Inv, NEW w \in Workflows, NEW u, NEW isRelease, escrowState[w] \in Active,
         Settle(w, isRelease, u),
         UNCHANGED <<now, config, creationVars, pendingCancel, splitProposals, limitVars,
                     appealVars>>
  PROVE  Inv'
<1>1. pendingCancel' \in [Workflows -> Address]
  BY DEF Inv, TypeOK
<1>. QED  BY <1>1, SettlementInv DEF Settle

LEMMA ReleaseInv ==
  ASSUME Inv, NEW w \in Workflows, NEW a, NEW u, Release(w, a, u)
  PROVE  Inv'
BY SettleInv DEF Release, Settle, Active

LEMMA TimedActionInv ==
  ASSUME Inv, NEW w \in Workflows, NEW a, NEW u,
         \/ AutomateTimedActions(w, a, u)
         \/ ResolveDisputeByTimeout(w, a, u)
         \/ ExecutePendingSettlement(w, a, u)
  PROVE  Inv'
<1>1. /\ escrowState[w] \in Active
      /\ \E isRelease : Settle(w, isRelease, u)
      /\ UNCHANGED <<now, config, creationVars, pendingCancel, splitProposals, limitVars,
                     appealVars>>
  BY DEF AutomateTimedActions, ResolveDisputeByTimeout, ExecutePendingSettlement, PendingDue,
         DisputeAutoCancelDue, DisputeTimedOut, AutoReleaseDue, AutoCancelDue, Active
<1>. QED  BY <1>1, SettleInv

LEMMA RaiseDisputeInv ==
  ASSUME Inv, NEW w \in Workflows, NEW a \in Accounts, NEW answer \in Address,
         RaiseDispute(w, a, answer)
  PROVE  Inv'
<1>1. TypeOK /\ PhaseInv /\ now \in Nat \ {0}
  BY DEF Inv, TypeOK
<1>2. /\ escrowState[w] = "PENDING"
      /\ escrowState' = [escrowState EXCEPT ![w] = "DISPUTED"]
      /\ disputeRaisedTimestamp' = [disputeRaisedTimestamp EXCEPT ![w] = now]
      /\ disputeResolver' =
           [disputeResolver EXCEPT ![w] = IF answer # NoAccount THEN answer ELSE @]
      /\ UNCHANGED <<now, config, creationVars, pendingSettlements, splitProposals,
                     pendingCancel, amountReleased, claimVars, holdingVars, yieldVars, appealVars>>
  BY DEF RaiseDispute
<1>3. TypeOK'
  <2>1. /\ senderStatus' \in [Workflows -> ConsentStatuses]
        /\ recipientStatus' \in [Workflows -> ConsentStatuses]
    BY <1>1 DEF RaiseDispute, TypeOK, ConsentStatuses
  <2>2. /\ senderDisputeWindowStart' \in [Accounts -> Nat]
        /\ senderDisputeCount' \in [Accounts -> Nat]
    <3>1. CountDispute(a)
      BY DEF RaiseDispute
    <3>2. CASE UNCHANGED limitVars
      BY <1>1, <3>2 DEF TypeOK
    <3>3. CASE ~UNCHANGED limitVars
      <4>1. \E stale \in BOOLEAN :
              /\ senderDisputeCount' =
                   [senderDisputeCount EXCEPT ![a] = IF stale THEN 1 ELSE @ + 1]
              /\ senderDisputeWindowStart' =
                   [senderDisputeWindowStart EXCEPT ![a] = IF stale THEN now ELSE @]
        BY <3>1, <3>3 DEF CountDispute
      <4>. QED  BY <1>1, <4>1 DEF TypeOK
    <3>. QED  BY <3>2, <3>3
  <2>3. /\ escrowState' \in [Workflows -> EscrowStates]
        /\ disputeResolver' \in [Workflows -> Address]
        /\ disputeRaisedTimestamp' \in [Workflows -> Nat]
    BY <1>1, <1>2 DEF TypeOK, EscrowStates
  <2>. QED  BY <1>1, <1>2, <2>1, <2>2, <2>3 DEF TypeOK
<1>4. PhaseInv'
  <2>. SUFFICES ASSUME NEW v \in Workflows PROVE Phase(v)'
    BY DEF PhaseInv
  <2>1. Phase(v)
    BY <1>1 DEF PhaseInv
  <2>2. CASE v = w
    BY <1>1, <1>2, <2>1, <2>2 DEF Phase, Active, TypeOK
  <2>3. CASE v # w
    BY <1>1, <1>2, <2>1, <2>3 DEF Phase, TypeOK
  <2>. QED  BY <2>2, <2>3
<1>. QED  BY <1>1, <1>2, <1>3, <1>4 DEF Inv

LEMMA RulingDeadlineType ==
  ASSUME TypeOK, NEW w \in Workflows, NEW outcome \in RulingOutcomes(w)
  PROVE  outcome.deadline \in Nat
<1>1. now \in Nat /\ terms[w].appealWindowDuration \in Nat
  BY DEF TypeOK, Terms
<1>2. outcome = Execute \/ \E d \in Nat : outcome = Deadline(now + d)
  BY <1>1, InputAssumption DEF RulingOutcomes
<1>. QED  BY <1>1, <1>2 DEF Execute, Deadline

LEMMA ExecuteResolutionInv ==
  ASSUME Inv, NEW w \in Workflows, NEW a, NEW isRelease \in BOOLEAN,
         NEW outcome \in RulingOutcomes(w), NEW u, ExecuteResolution(w, a, isRelease, outcome, u)
  PROVE  Inv'
<1>1. /\ TypeOK /\ PhaseInv /\ now # 0 /\ escrowState[w] = "DISPUTED"
      /\ UNCHANGED <<now, config, creationVars, pendingCancel, splitProposals, limitVars,
                     appealVars>>
  BY DEF Inv, ExecuteResolution
<1>2. CASE Settle(w, isRelease, u)
  BY <1>1, <1>2, SettleInv DEF Active
<1>3. CASE ~Settle(w, isRelease, u)
  <2>1. /\ pendingSettlements' = [pendingSettlements EXCEPT ![w] =
             [exists |-> TRUE, isRelease |-> isRelease, appealDeadline |-> outcome.deadline]]
        /\ UNCHANGED <<escrowState, senderStatus, recipientStatus, disputeResolver,
                       disputeRaisedTimestamp, amountReleased, claimVars, holdingVars, yieldVars>>
    BY <1>3 DEF ExecuteResolution
  <2>2. pendingSettlements' \in [Workflows -> PendingSettlement]
    <3>1. [exists |-> TRUE, isRelease |-> isRelease, appealDeadline |-> outcome.deadline]
            \in PendingSettlement
      BY <1>1, RulingDeadlineType DEF PendingSettlement
    <3>. QED  BY <1>1, <2>1, <3>1 DEF TypeOK
  <2>3. TypeOK'
    BY <1>1, <2>1, <2>2 DEF TypeOK
  <2>4. PhaseInv'
    BY <1>1, <2>1 DEF PhaseInv, Phase, TypeOK
  <2>. QED  BY <1>1, <2>3, <2>4 DEF Inv
<1>. QED  BY <1>2, <1>3

LEMMA ScaledBondType ==
  ASSUME NEW bond \in Nat, NEW count \in Nat \ {0}
  PROVE  ScaledBond(bond, count) \in Nat
<1>1. bond * (100 + 10 * (count - 1)) \in Nat
  OBVIOUS
<1>. QED  BY <1>1, Z3 DEF ScaledBond

LEMMA AppealDisputeInv ==
  ASSUME Inv, NEW w \in Workflows, NEW a \in Accounts, NEW q \in AppealQuote,
         NEW excess \in Nat, AppealDispute(w, a, q, excess)
  PROVE  Inv'
<1>. DEFINE count == addressEscalationCount[a] + 1
            fee == BpsOf(ScaledBond(q.bond, count), terms[w].appealBondProtocolFeeBps)
<1>1. TypeOK /\ PhaseInv /\ now # 0
  BY DEF Inv
<1>2. count \in Nat \ {0} /\ fee \in Nat
  <2>1. count \in Nat \ {0} /\ terms[w] \in Terms /\ q.bond \in Nat
    BY <1>1 DEF TypeOK, AppealQuote
  <2>2. terms[w].appealBondProtocolFeeBps \in 0 .. DENOMINATOR
    BY <1>1, FeeRateType
  <2>3. ScaledBond(q.bond, count) \in Nat
    BY <2>1, ScaledBondType
  <2>4. fee \in 0 .. ScaledBond(q.bond, count)
    BY <2>2, <2>3, BpsOfBound
  <2>. HIDE DEF count, fee
  <2>. QED  BY <2>1, <2>3, <2>4
<1>3. /\ pendingSettlements' = [pendingSettlements EXCEPT ![w] = NoPending]
      /\ disputeResolver' = [disputeResolver EXCEPT ![w] = q.successor]
      /\ addressEscalationCount' = [addressEscalationCount EXCEPT ![a] = count]
      /\ claimableBondProtocolFees' = [claimableBondProtocolFees EXCEPT
           ![q.asset][terms[w].appealBondFeeRecipient] = @ + fee]
      /\ bondFeesOwed' = [bondFeesOwed EXCEPT ![q.asset] = @ + fee]
      /\ claimableExcessEthRefunds' = [claimableExcessEthRefunds EXCEPT ![a] = @ + excess]
      /\ ethBalance' = ethBalance + excess + (IF q.asset = "ETH" THEN fee ELSE 0)
      /\ tokenBalance' = tokenBalance + (IF q.asset = "TOKEN" THEN fee ELSE 0)
      /\ UNCHANGED <<now, config, creationVars, escrowState, disputeRaisedTimestamp, consentVars,
                     splitProposals, limitVars, amountReleased, claimVars, totalHeld, totalFees,
                     yieldVars>>
  BY DEF AppealDispute
<1>. HIDE DEF count, fee
<1>4. NoPending \in PendingSettlement /\ ~NoPending.exists
  BY DEF NoPending, PendingSettlement
<1>5. TypeOK'
  <2>1. /\ pendingSettlements' \in [Workflows -> PendingSettlement]
        /\ disputeResolver' \in [Workflows -> Address]
        /\ addressEscalationCount' \in [Accounts -> Nat]
    BY <1>1, <1>2, <1>3, <1>4 DEF TypeOK, AppealQuote, Address
  <2>2. claimableBondProtocolFees' \in [BondAssets -> [Accounts -> Nat]]
    BY <1>1, <1>2, <1>3, CreditType DEF TypeOK, AppealQuote
  <2>3. ethBalance' \in Nat /\ tokenBalance' \in Nat
    BY <1>1, <1>2, <1>3 DEF TypeOK
  <2>4. claimableExcessEthRefunds' \in [Accounts -> Nat]
    <3>1. claimableExcessEthRefunds[a] + excess \in Nat
      BY <1>1 DEF TypeOK
    <3>. QED  BY <1>1, <1>3, <3>1 DEF TypeOK
  <2>5. bondFeesOwed' \in [BondAssets -> Int]
    <3>1. q.asset \in BondAssets /\ bondFeesOwed[q.asset] + fee \in Int
      BY <1>1, <1>2 DEF TypeOK, AppealQuote
    <3>. QED  BY <1>1, <1>3, <3>1 DEF TypeOK
  <2>. QED  BY <1>1, <1>3, <2>1, <2>2, <2>3, <2>4, <2>5 DEF TypeOK
<1>6. PhaseInv'
  BY <1>1, <1>3, <1>4 DEF PhaseInv, Phase, TypeOK
<1>. QED  BY <1>1, <1>3, <1>5, <1>6 DEF Inv

LEMMA ProposeSplitInv ==
  ASSUME Inv, NEW w \in Workflows, NEW a \in Accounts, NEW x \in BuyerShares,
         NEW d \in SplitDelays, ProposeSplit(w, a, x, d)
  PROVE  Inv'
<1>. DEFINE split ==
       [active |-> TRUE, proposer |-> a, buyerAmount |-> x,
        sellerAmount |-> terms[w].amountAfterFee - x,
        expiry |-> now + (IF d = 0 THEN SPLIT_EXPIRY ELSE d)]
<1>1. TypeOK /\ PhaseInv /\ now # 0 /\ x \in Nat /\ d \in Nat /\ SPLIT_EXPIRY \in Nat
  BY InputAssumption, BoundAssumption DEF Inv
<1>2. split \in SplitProposal
  <2>1. terms[w].amountAfterFee - x \in Nat
    BY <1>1 DEF ProposeSplit, TypeOK, Terms
  <2>2. now + (IF d = 0 THEN SPLIT_EXPIRY ELSE d) \in Nat
    BY <1>1 DEF TypeOK
  <2>. QED  BY <1>1, <2>1, <2>2 DEF SplitProposal, Address
<1>3. splitProposals' = [splitProposals EXCEPT ![w] = split]
  BY DEF ProposeSplit
<1>. HIDE DEF split
<1>4. splitProposals' \in [Workflows -> SplitProposal]
  BY <1>1, <1>2, <1>3 DEF TypeOK
<1>5. TypeOK'
  BY <1>1, <1>4 DEF ProposeSplit, TypeOK
<1>6. PhaseInv'
  BY <1>1 DEF ProposeSplit, PhaseInv, Phase
<1>. QED  BY <1>1, <1>5, <1>6 DEF Inv, ProposeSplit

LEMMA NoSplitType == NoSplit \in SplitProposal
BY DEF NoSplit, SplitProposal, Address

LEMMA CancelSplitInv ==
  ASSUME Inv, NEW w \in Workflows, NEW a, CancelSplit(w, a)
  PROVE  Inv'
<1>1. TypeOK'
  BY NoSplitType DEF Inv, CancelSplit, TypeOK
<1>2. PhaseInv' /\ now' # 0
  BY DEF Inv, CancelSplit, PhaseInv, Phase
<1>. QED  BY <1>1, <1>2 DEF Inv

LEMMA AcceptSplitInv ==
  ASSUME Inv, NEW w \in Workflows, NEW a, NEW u, AcceptSplit(w, a, u)
  PROVE  Inv'
<1>. DEFINE split == splitProposals[w]
            principal == terms[w].amountAfterFee
            fee == YieldFee(w, u.yield)
            buyerYield == YieldShare(u.yield - fee, split.buyerAmount, principal)
            buyerCredit == split.buyerAmount + buyerYield
            sellerCredit == split.sellerAmount + (u.yield - fee - buyerYield)
<1>1. TypeOK /\ PhaseInv /\ now # 0
  BY DEF Inv
<1>2. /\ escrowState[w] \in Active /\ amountReleased[w] = 0
      /\ split.buyerAmount + split.sellerAmount = principal
      /\ u \in UnwindOutcomes(w, principal)
      /\ totalHeld >= principal
      /\ splitProposals' = [splitProposals EXCEPT ![w] = NoSplit]
      /\ escrowState' = [escrowState EXCEPT ![w] = "RESOLVED"]
      /\ disputeRaisedTimestamp' = [disputeRaisedTimestamp EXCEPT ![w] = 0]
      /\ Unwind(w, u)
      /\ totalHeld' = totalHeld - principal
      /\ totalFees' = totalFees + fee
      /\ claimableBalances' = [claimableBalances EXCEPT ![w] = [x \in Accounts |->
           @[x] + (IF x = terms[w].from THEN buyerCredit ELSE 0)
                + (IF x = terms[w].to THEN sellerCredit ELSE 0)]]
      /\ totalClaimable' = totalClaimable + buyerCredit + sellerCredit
      /\ unabsorbedLoss' = unabsorbedLoss + (principal - Least(u.principal, principal))
      /\ ~pendingSettlements[w].exists
      /\ UNCHANGED <<now, config, creationVars, disputeResolver, pendingSettlements, consentVars,
                     limitVars, amountReleased, withdrawn, appealVars>>
  BY DEF AcceptSplit
<1>3. principal \in Nat \ {0} /\ split.buyerAmount \in 0 .. principal
      /\ split.sellerAmount \in Nat
  BY <1>1, <1>2 DEF PhaseInv, Phase, TypeOK, Terms, SplitProposal
<1>4. u \in [principal : Nat, yield : Nat, received : Nat, closed : BOOLEAN]
  BY <1>1, <1>2, <1>3, UnwindType
<1>5. fee \in 0 .. u.yield /\ u.yield - fee \in Nat
  BY <1>1, <1>4, YieldFeeType
<1>6. buyerYield \in 0 .. (u.yield - fee)
  <2>. HIDE DEF principal, fee
  <2>. QED  BY <1>3, <1>5, QuotientBound DEF YieldShare
<1>. HIDE DEF principal, fee, buyerYield
<1>7. buyerCredit \in Nat /\ sellerCredit \in Nat
  BY <1>3, <1>4, <1>5, <1>6
<1>. HIDE DEF buyerCredit, sellerCredit
<1>8. LedgersOK'
  <2>1. claimableBalances' \in [Workflows -> [Accounts -> Nat]]
    <3>. DEFINE g == [x \in Accounts |->
                       claimableBalances[w][x] + (IF x = terms[w].from THEN buyerCredit ELSE 0)
                                               + (IF x = terms[w].to THEN sellerCredit ELSE 0)]
    <3>1. claimableBalances \in [Workflows -> [Accounts -> Nat]]
      BY <1>1 DEF TypeOK
    <3>2. g \in [Accounts -> Nat]
      BY <1>7, <3>1
    <3>3. claimableBalances' = [claimableBalances EXCEPT ![w] = g]
      BY <1>2
    <3>. HIDE DEF g
    <3>. QED  BY <3>1, <3>2, <3>3
  <2>2. totalClaimable' \in Nat
    BY <1>1, <1>2, <1>7 DEF TypeOK
  <2>3. totalHeld' \in Nat /\ totalFees' \in Nat
    BY <1>1, <1>2, <1>3, <1>4, <1>5 DEF TypeOK
  <2>4. unabsorbedLoss' \in Nat
    BY <1>1, <1>2, <1>3, <1>4 DEF TypeOK, Least
  <2>5. withdrawn' \in [Workflows -> [Accounts -> Nat]]
    BY <1>1, <1>2 DEF TypeOK
  <2>. QED
    BY <1>1, <1>2, <1>3, <2>1, <2>2, <2>3, <2>4, <2>5, UnwindLedgers DEF LedgersOK
<1>9. TypeOK'
  <2>1. /\ splitProposals' \in [Workflows -> SplitProposal]
        /\ escrowState' \in [Workflows -> EscrowStates]
        /\ disputeRaisedTimestamp' \in [Workflows -> Nat]
    BY <1>1, <1>2, NoSplitType DEF TypeOK, EscrowStates
  <2>. QED  BY <1>1, <1>2, <1>8, <2>1 DEF TypeOK, LedgersOK
<1>10. PhaseInv'
  <2>. SUFFICES ASSUME NEW v \in Workflows PROVE Phase(v)'
    BY DEF PhaseInv
  <2>1. /\ Phase(v)
        /\ v25YieldPrincipals' = [v25YieldPrincipals EXCEPT ![w] = 0]
    BY <1>1, <1>2 DEF PhaseInv, Unwind
  <2>2. CASE v = w
    BY <1>1, <1>2, <2>1, <2>2 DEF Phase, Active, TypeOK
  <2>3. CASE v # w
    BY <1>1, <1>2, <2>1, <2>3 DEF Phase, TypeOK
  <2>. QED  BY <2>2, <2>3
<1>. QED  BY <1>1, <1>2, <1>9, <1>10 DEF Inv

\* Steps that move only ledgers, and not the record of tracked yield.
LEMMA LedgerMoveInv ==
  ASSUME Inv, LedgersOK',
         claimableBondProtocolFees' \in [BondAssets -> [Accounts -> Nat]],
         bondFeesOwed' \in [BondAssets -> Int],
         claimableExcessEthRefunds' \in [Accounts -> Nat],
         ethBalance' \in Nat,
         UNCHANGED <<now, config, creationVars, escrowState, disputeVars, consentVars,
                     splitProposals, limitVars, amountReleased, v25YieldPrincipals,
                     addressEscalationCount>>
  PROVE  Inv'
<1>1. TypeOK'
  BY DEF Inv, TypeOK, LedgersOK
<1>2. PhaseInv' /\ now' # 0
  BY DEF Inv, PhaseInv, Phase
<1>. QED  BY <1>1, <1>2 DEF Inv

LEMMA WithdrawEscrowInv ==
  ASSUME Inv, NEW w \in Workflows, NEW a \in Accounts, WithdrawEscrow(w, a)
  PROVE  Inv'
<1>1. claimableBalances[w][a] \in Nat
  BY DEF Inv, TypeOK
<1>2. /\ claimableBalances' \in [Workflows -> [Accounts -> Nat]]
      /\ totalClaimable' \in Nat /\ tokenBalance' \in Nat
  BY <1>1 DEF Inv, WithdrawEscrow, TypeOK
<1>3. withdrawn' \in [Workflows -> [Accounts -> Nat]]
  BY <1>1, CreditType DEF Inv, WithdrawEscrow, TypeOK
<1>. QED  BY <1>2, <1>3, LedgerMoveInv DEF Inv, WithdrawEscrow, TypeOK, LedgersOK

LEMMA WithdrawFeesInv ==
  ASSUME Inv, WithdrawFees
  PROVE  Inv'
<1>1. totalFees' \in Nat /\ tokenBalance' \in Nat
  BY DEF Inv, WithdrawFees, TypeOK
<1>. QED  BY <1>1, LedgerMoveInv DEF Inv, WithdrawFees, TypeOK, LedgersOK

LEMMA ClaimBondProtocolFeesInv ==
  ASSUME Inv, NEW b \in BondAssets, NEW a \in Accounts, ClaimBondProtocolFees(b, a)
  PROVE  Inv'
<1>1. claimableBondProtocolFees[b][a] \in Nat /\ bondFeesOwed[b] \in Int
  BY DEF Inv, TypeOK
<1>2. /\ claimableBondProtocolFees' \in [BondAssets -> [Accounts -> Nat]]
      /\ bondFeesOwed' \in [BondAssets -> Int]
  BY <1>1 DEF Inv, ClaimBondProtocolFees, TypeOK
<1>3. ethBalance' \in Nat /\ tokenBalance' \in Nat
  BY <1>1 DEF Inv, ClaimBondProtocolFees, TypeOK
<1>. QED  BY <1>2, <1>3, LedgerMoveInv DEF Inv, ClaimBondProtocolFees, TypeOK, LedgersOK

LEMMA ClaimExcessEthRefundInv ==
  ASSUME Inv, NEW a \in Accounts, ClaimExcessEthRefund(a)
  PROVE  Inv'
<1>1. claimableExcessEthRefunds' \in [Accounts -> Nat] /\ ethBalance' \in Nat
  BY DEF Inv, ClaimExcessEthRefund, TypeOK
<1>. QED  BY <1>1, LedgerMoveInv DEF Inv, ClaimExcessEthRefund, TypeOK, LedgersOK

LEMMA RecoverPositionInv ==
  ASSUME Inv, NEW w \in Workflows, NEW r \in PositionReturns(w), RecoverPosition(w, r)
  PROVE  Inv'
<1>1. yieldPosition[w] \in Nat /\ r \in Nat
  BY ReturnsType DEF Inv, TypeOK
<1>2. /\ tokenBalance' \in Nat /\ totalDeposited' \in Nat
      /\ yieldPosition' \in [Workflows -> Nat] /\ unabsorbedLoss' \in Nat
  BY <1>1 DEF Inv, RecoverPosition, TypeOK, Least
<1>. QED  BY <1>2, LedgerMoveInv DEF Inv, RecoverPosition, TypeOK, LedgersOK

LEMMA InitInv == Init => Inv
<1>. SUFFICES ASSUME Init PROVE Inv
  OBVIOUS
<1>1. NoTerms \in Terms
  BY DEF NoTerms, Terms, Address, ModuleAddress, MAX_PROTOCOL_FEE_BPS
<1>2. /\ NoPending \in PendingSettlement /\ ~NoPending.exists
      /\ "NONE" \in EscrowStates /\ "NONE" \in ConsentStatuses
      /\ NoAccount \in Address
  BY DEF NoPending, PendingSettlement, EscrowStates, ConsentStatuses, Address
<1>3. /\ DAY \in Nat \ {0} /\ MaxEscrows \in Nat
      /\ InitConfig \in Configs
  BY BoundAssumption, ConfigAssumption
<1>4. TypeOK
  BY <1>1, <1>2, <1>3, NoSplitType DEF Init, TypeOK
<1>5. PhaseInv
  <2>. SUFFICES ASSUME NEW w \in Workflows PROVE Phase(w)
    BY DEF PhaseInv
  <2>1. w >= 0
    BY <1>3 DEF Workflows
  <2>. QED  BY <1>2, <2>1 DEF Init, Phase, Active
<1>. QED  BY <1>3, <1>4, <1>5 DEF Init, Inv

\* Splits the requests and settlements of Next into their actions.
LEMMA RequestsInv ==
  ASSUME Inv, NEW w \in Workflows, Requests(w)
  PROVE  Inv'
<1>1. PICK a \in Accounts :
        \/ \E x \in PartialAmounts : PartialRelease(w, a, x)
        \/ \E answer \in Address : RaiseDispute(w, a, answer)
        \/ \E q \in AppealQuotes, x \in ExcessValues : AppealDispute(w, a, q, x)
        \/ \E x \in BuyerShares, d \in SplitDelays : ProposeSplit(w, a, x, d)
        \/ CancelSplit(w, a)
        \/ WithdrawEscrow(w, a)
  BY DEF Requests
<1>2. CASE \E x \in PartialAmounts : PartialRelease(w, a, x)
  BY <1>2, PartialReleaseInv
<1>3. CASE \E answer \in Address : RaiseDispute(w, a, answer)
  BY <1>3, RaiseDisputeInv
<1>4. CASE \E q \in AppealQuotes, x \in ExcessValues : AppealDispute(w, a, q, x)
  BY <1>4, AppealDisputeInv, InputAssumption
<1>5. CASE \E x \in BuyerShares, d \in SplitDelays : ProposeSplit(w, a, x, d)
  BY <1>5, ProposeSplitInv
<1>6. CASE CancelSplit(w, a)
  BY <1>6, CancelSplitInv
<1>7. CASE WithdrawEscrow(w, a)
  BY <1>7, WithdrawEscrowInv
<1>. QED  BY <1>1, <1>2, <1>3, <1>4, <1>5, <1>6, <1>7

LEMMA SettlementsInv ==
  ASSUME Inv, NEW w \in Workflows, Settlements(w)
  PROVE  Inv'
<1>1. PICK u \in UnwindOutcomes(w, Remaining(w)) :
        \/ SenderCancel(w, u)
        \/ RecipientCancel(w, u)
        \/ \E a \in Accounts :
             \/ Release(w, a, u)
             \/ \E isRelease \in BOOLEAN, outcome \in RulingOutcomes(w) :
                  ExecuteResolution(w, a, isRelease, outcome, u)
             \/ AutomateTimedActions(w, a, u)
             \/ ResolveDisputeByTimeout(w, a, u)
             \/ ExecutePendingSettlement(w, a, u)
             \/ AcceptSplit(w, a, u)
  BY DEF Settlements
<1>2. CASE SenderCancel(w, u) \/ RecipientCancel(w, u)
  BY <1>2, CancelInv
<1>3. CASE \E a \in Accounts : Release(w, a, u)
  BY <1>3, ReleaseInv
<1>4. CASE \E a \in Accounts, isRelease \in BOOLEAN, outcome \in RulingOutcomes(w) :
             ExecuteResolution(w, a, isRelease, outcome, u)
  BY <1>4, ExecuteResolutionInv
<1>5. CASE \E a \in Accounts : \/ AutomateTimedActions(w, a, u)
                               \/ ResolveDisputeByTimeout(w, a, u)
                               \/ ExecutePendingSettlement(w, a, u)
  BY <1>5, TimedActionInv
<1>6. CASE \E a \in Accounts : AcceptSplit(w, a, u)
  BY <1>6, AcceptSplitInv
<1>. QED  BY <1>1, <1>2, <1>3, <1>4, <1>5, <1>6

LEMMA NextInv == Inv /\ [Next]_vars => Inv'
<1>. SUFFICES ASSUME Inv, [Next]_vars PROVE Inv'
  OBVIOUS
<1>1. CASE Tick
  BY <1>1, TickInv
<1>2. CASE Governance
  BY <1>2, GovernanceInv
<1>3. CASE \E req \in CreateRequests, resolver \in Address, supported \in BOOLEAN :
             CreateEscrow(req, resolver, supported)
  BY <1>3, CreateEscrowInv
<1>4. CASE \E w \in Workflows : Requests(w)
  BY <1>4, RequestsInv
<1>5. CASE \E w \in Workflows : Settlements(w)
  BY <1>5, SettlementsInv
<1>6. CASE \E w \in Workflows : \E r \in PositionReturns(w) : RecoverPosition(w, r)
  BY <1>6, RecoverPositionInv
<1>7. CASE WithdrawFees
  BY <1>7, WithdrawFeesInv
<1>8. CASE \E a \in Accounts : ClaimExcessEthRefund(a)
  BY <1>8, ClaimExcessEthRefundInv
<1>9. CASE \E b \in BondAssets, a \in Accounts : ClaimBondProtocolFees(b, a)
  BY <1>9, ClaimBondProtocolFeesInv
<1>11. CASE \E w \in Workflows, named \in NamedCallers : AttemptOfAnotherCaller(w, named)
  BY <1>11, AttemptOfAnotherCallerInv
<1>10. CASE UNCHANGED vars
  <2>1. TypeOK'
    BY <1>10 DEF Inv, TypeOK, vars
  <2>2. PhaseInv' /\ now' # 0
    BY <1>10 DEF Inv, PhaseInv, Phase, vars
  <2>. QED  BY <2>1, <2>2 DEF Inv
<1>. QED
  BY <1>1, <1>2, <1>3, <1>4, <1>5, <1>6, <1>7, <1>8, <1>9, <1>10, <1>11 DEF Next

\* The inductive invariant holds in every reachable state.
THEOREM Invariance == Spec => []Inv
BY InitInv, NextInv, PTL DEF Spec

\* Every variable keeps its type: in particular no ledger goes below zero, that is, no
\* checked subtraction of the code that the guards do not name can revert.
THEOREM TypeCorrect == Spec => []TypeOK
<1>1. Inv => TypeOK
  BY DEF Inv
<1>. QED  BY <1>1, Invariance, PTL

\* Dispute clock, waiting ruling, yield record and released part belong to their phase.
THEOREM PhaseCorrect == Spec => []PhaseInv
<1>1. Inv => PhaseInv
  BY DEF Inv
<1>. QED  BY <1>1, Invariance, PTL

================================================================================
