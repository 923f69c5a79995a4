-------------------------- MODULE EscrowAmountProofs --------------------------
(***************************************************************************)
(* What the amounts of the vault add up to, proved for every value of the  *)
(* constants: the protocol's part of the yield, the shares of a split, and *)
(* the running totals as sums of the records they stand for.               *)
(***************************************************************************)
EXTENDS EscrowVaultSafety, EscrowVaultLedgers, FiniteSetTheorems, WellFoundedInduction

USE DEF creationVars, disputeVars, consentVars, limitVars, claimVars, holdingVars, yieldVars,
        appealVars

(***************************************************************************)
(* The protocol's part of the yield.                                       *)
(***************************************************************************)

\* Rounding down keeps the fee below its rate.
LEMMA YieldFeeRate ==
  ASSUME TypeOK, NEW w \in Workflows, NEW yield \in Nat
  PROVE  YieldFee(w, yield) * DENOMINATOR <= yield * terms[w].yieldProtocolFeeBps
<1>1. terms[w].yieldProtocolFeeBps \in Nat
  <2>1. terms[w] \in Terms
    BY DEF TypeOK
  <2>. QED  BY <2>1 DEF Terms
<1>2. PICK product \in Nat : product = yield * terms[w].yieldProtocolFeeBps
  BY <1>1
<1>3. (product \div 10000) * 10000 <= product
  BY <1>2, Z3
<1>. QED  BY <1>2, <1>3 DEF YieldFee, BpsOf, DENOMINATOR

\* Yield is counted only when the whole tracked principal has come back.
LEMMA YieldAfterPrincipal ==
  ASSUME Inv, NEW w \in Workflows, Tracked(w), NEW amount \in Nat,
         NEW u \in UnwindOutcomes(w, amount),
         v25YieldPrincipals[w] > 0 => amount = v25YieldPrincipals[w], u.yield > 0
  PROVE  u.principal = amount
<1>1. /\ yieldPosition[w] \in Nat /\ v25YieldPrincipals[w] \in Nat
  BY DEF Inv, TypeOK
<1>2. CASE u = NothingReceived(amount)
  BY <1>2 DEF NothingReceived
<1>3. CASE u # NothingReceived(amount)
  <2>1. /\ amount = yieldPosition[w]
        /\ \/ \E r \in PositionReturns(w) : u = NormalUnwind(w, r)
           \/ \E r \in PositionReturns(w) : u = EmergencyUnwind(r)
    BY <1>1, <1>3 DEF UnwindOutcomes, Tracked
  <2>2. CASE \E r \in PositionReturns(w) : u = NormalUnwind(w, r)
    <3>1. PICK r \in Nat : u = NormalUnwind(w, r)
      BY <2>2, ReturnsType DEF Inv
    <3>. QED  BY <1>1, <2>1, <3>1 DEF NormalUnwind, Least
  <2>3. CASE \E r \in PositionReturns(w) : u = EmergencyUnwind(r)
    BY <2>3 DEF EmergencyUnwind
  <2>. QED  BY <2>1, <2>2, <2>3
<1>. QED  BY <1>2, <1>3

FeeWithinRate(w) ==
  LET fee == totalFees' - totalFees
      gross == (totalClaimable' - totalClaimable) + fee
  IN  fee > 0 => fee * DENOMINATOR <= (gross - Remaining(w)) * terms[w].yieldProtocolFeeBps

LEMMA SettlementFee ==
  ASSUME SolventInv, NEW w \in Workflows, escrowState[w] \in Active,
         NEW u \in UnwindOutcomes(w, Remaining(w)),
         ReleaseEscrowTransfer(w, u) \/ CancelAndRefund(w, u)
  PROVE  FeeWithinRate(w)
<1>. DEFINE fee == YieldFee(w, u.yield)
<1>1. /\ Inv /\ TypeOK /\ Tracked(w) /\ Remaining(w) \in Nat
      /\ v25YieldPrincipals[w] > 0 => Remaining(w) = v25YieldPrincipals[w]
      /\ totalFees \in Nat /\ totalClaimable \in Nat
  BY RemainingType DEF SolventInv, Inv, TypeOK
<1>2. /\ u.principal \in Nat /\ u.yield \in Nat
      /\ u.yield > 0 => u.principal = Remaining(w)
  BY <1>1, UnwindType, YieldAfterPrincipal
<1>3. /\ fee \in 0 .. u.yield
      /\ fee * DENOMINATOR <= u.yield * terms[w].yieldProtocolFeeBps
  BY <1>1, <1>2, YieldFeeType, YieldFeeRate
<1>4. /\ totalFees' = totalFees + fee
      /\ totalClaimable' = totalClaimable + (u.principal + u.yield - fee)
  BY DEF ReleaseEscrowTransfer, CancelAndRefund, FinalizeClaimableSettlement
<1>. HIDE DEF fee
<1>5. SUFFICES ASSUME totalFees' - totalFees > 0
            PROVE  (totalFees' - totalFees) * DENOMINATOR
                     <= (((totalClaimable' - totalClaimable) + (totalFees' - totalFees)) - Remaining(w))
                          * terms[w].yieldProtocolFeeBps
  BY DEF FeeWithinRate
<1>6. fee = totalFees' - totalFees
  BY <1>1, <1>2, <1>3, <1>4
<1>7. u.yield > 0
  <2>1. fee > 0
    BY <1>5, <1>6, Zenon
  <2>. QED  BY <1>2, <1>3, <2>1
<1>8. u.yield = ((totalClaimable' - totalClaimable) + (totalFees' - totalFees)) - Remaining(w)
  BY <1>1, <1>2, <1>3, <1>4, <1>7
<1>9. fee * DENOMINATOR <= u.yield * terms[w].yieldProtocolFeeBps
  BY <1>3
<1>. QED  BY ONLY <1>6, <1>8, <1>9, Zenon

LEMMA AcceptSplitFee ==
  ASSUME SolventInv, NEW w \in Workflows, NEW a, NEW u, AcceptSplit(w, a, u)
  PROVE  FeeWithinRate(w)
<1>. DEFINE split == splitProposals[w]
            principal == terms[w].amountAfterFee
            fee == YieldFee(w, u.yield)
            buyerYield == YieldShare(u.yield - fee, split.buyerAmount, principal)
<1>1. /\ Inv /\ TypeOK /\ PhaseInv /\ totalFees \in Nat /\ totalClaimable \in Nat
  BY DEF SolventInv, Inv, TypeOK
<1>2. /\ escrowState[w] \in Active /\ amountReleased[w] = 0
      /\ split.buyerAmount + split.sellerAmount = principal
      /\ u \in UnwindOutcomes(w, principal)
      /\ totalFees' = totalFees + fee
      /\ totalClaimable' = totalClaimable + (split.buyerAmount + buyerYield)
                            + (split.sellerAmount + (u.yield - fee - buyerYield))
  BY DEF AcceptSplit
<1>3. /\ principal \in Nat \ {0} /\ split.buyerAmount \in 0 .. principal
      /\ split.sellerAmount \in Nat
  BY <1>1, <1>2 DEF PhaseInv, Phase, TypeOK, Terms, SplitProposal
<1>4. u.yield \in Nat
  BY <1>1, <1>2, <1>3, UnwindType
<1>5. /\ fee \in 0 .. u.yield /\ u.yield - fee \in Nat
      /\ fee * DENOMINATOR <= u.yield * terms[w].yieldProtocolFeeBps
  BY <1>1, <1>4, YieldFeeType, YieldFeeRate
<1>6. buyerYield \in 0 .. (u.yield - fee)
  <2>. HIDE DEF principal, fee
  <2>. QED  BY <1>3, <1>5, QuotientBound DEF YieldShare
<1>7. Remaining(w) = principal
  BY <1>2, <1>3 DEF Remaining
<1>. HIDE DEF split, principal, fee, buyerYield
<1>8. /\ fee = totalFees' - totalFees
      /\ u.yield = ((totalClaimable' - totalClaimable) + (totalFees' - totalFees)) - Remaining(w)
  BY <1>1, <1>2, <1>3, <1>4, <1>5, <1>6, <1>7
<1>9. SUFFICES ASSUME totalFees' - totalFees > 0
            PROVE  (totalFees' - totalFees) * DENOMINATOR
                     <= (((totalClaimable' - totalClaimable) + (totalFees' - totalFees)) - Remaining(w))
                          * terms[w].yieldProtocolFeeBps
  BY DEF FeeWithinRate
<1>10. fee * DENOMINATOR <= u.yield * terms[w].yieldProtocolFeeBps
  BY <1>5
<1>. QED  BY ONLY <1>8, <1>10, Zenon

LEMMA YieldFeeStep ==
  ASSUME SolventInv, [Next]_vars, NEW w \in Workflows,
         escrowState[w] \in Active, escrowState'[w] \in Terminal
  PROVE  FeeWithinRate(w)
<1>1. Inv /\ TypeOK /\ escrowState'[w] # escrowState[w] /\ escrowState[w] # "NONE"
  BY DEF SolventInv, Inv, Active, Terminal
<1>2. ~Untouched(w) /\ w # escrowCount
  BY <1>1, CreationIsFresh DEF Untouched
<1>3. CASE Requests(w)
  <2>1. PICK a \in Accounts :
          \/ \E x \in PartialAmounts : PartialRelease(w, a, x)
          \/ \E answer \in Address : RaiseDispute(w, a, answer)
          \/ \E q \in AppealQuotes, x \in ExcessValues : AppealDispute(w, a, q, x)
          \/ \E x \in BuyerShares, d \in SplitDelays : ProposeSplit(w, a, x, d)
          \/ CancelSplit(w, a)
          \/ WithdrawEscrow(w, a)
    BY <1>3 DEF Requests
  <2>2. ASSUME NEW answer \in Address PROVE ~RaiseDispute(w, a, answer)
    BY <1>1 DEF RaiseDispute, TypeOK, Terminal
  <2>3. PICK x \in PartialAmounts : PartialRelease(w, a, x)
    BY <1>1, <2>1, <2>2 DEF AppealDispute, ProposeSplit, CancelSplit, WithdrawEscrow
  <2>4. totalFees' = totalFees + YieldFee(w, 0)
    BY <2>3 DEF PartialRelease, FinalizeClaimableSettlement, NothingReceived
  <2>5. YieldFee(w, 0) = 0 /\ totalFees \in Nat
    BY <1>1, YieldFeeType DEF TypeOK
  <2>. QED  BY <2>4, <2>5 DEF FeeWithinRate
<1>4. CASE Settlements(w)
  <2>1. PICK u \in UnwindOutcomes(w, Remaining(w)) :
          \/ SenderCancel(w, u)
          \/ RecipientCancel(w, u)
          \/ \E a \in Accounts :
               \/ Release(w, a, u)
               \/ \E isRelease \in BOOLEAN, outcome \in RulingOutcomes(w) :
                    ExecuteResolution(w, a, isRelease, outcome, u)
               \/ AutomateTimedActions(w, a, u)
               \/ ResolveDisputeByTimeout(w, a, u)
               \/ ExecutePendingSettlement(w, a, u)
               \/ AcceptSplit(w, a, u)
    BY <1>4 DEF Settlements
  <2>2. CASE ReleaseEscrowTransfer(w, u) \/ CancelAndRefund(w, u)
    BY <2>2, SettlementFee
  <2>3. CASE SenderCancel(w, u) \/ RecipientCancel(w, u)
    BY <1>1, <2>2, <2>3 DEF SenderCancel, RecipientCancel
  <2>4. CASE \E a \in Accounts, isRelease \in BOOLEAN, outcome \in RulingOutcomes(w) :
               ExecuteResolution(w, a, isRelease, outcome, u)
    BY <1>1, <2>2, <2>4 DEF ExecuteResolution, Settle
  <2>5. CASE \E a \in Accounts : \/ Release(w, a, u)
                                 \/ AutomateTimedActions(w, a, u)
                                 \/ ResolveDisputeByTimeout(w, a, u)
                                 \/ ExecutePendingSettlement(w, a, u)
    BY <2>2, <2>5 DEF Release, AutomateTimedActions, ResolveDisputeByTimeout,
                      ExecutePendingSettlement, Settle
  <2>6. CASE \E a \in Accounts : AcceptSplit(w, a, u)
    BY <2>6, AcceptSplitFee
  <2>. QED  BY <2>1, <2>3, <2>4, <2>5, <2>6
<1>. QED  BY <1>1, <1>2, <1>3, <1>4, Locality

\* Whatever the yield module pays and whatever the fee is by then, the end of an escrow
\* gives the protocol at most the snapshotted part of the yield that was realized.
THEOREM YieldFeeOfYieldOnly == Spec => YieldFeeBounded
<1>1. SolventInv /\ [Next]_vars =>
        [\A w \in Workflows :
           (escrowState[w] \in Active /\ escrowState'[w] \in Terminal) =>
             LET fee == totalFees' - totalFees
                 gross == (totalClaimable' - totalClaimable) + fee
             IN  fee > 0 =>
                   fee * DENOMINATOR <= (gross - Remaining(w)) * terms[w].yieldProtocolFeeBps]_vars
  BY YieldFeeStep DEF FeeWithinRate
<1>. QED  BY <1>1, SolventInvariance, PTL DEF YieldFeeBounded, Spec

(***************************************************************************)
(* Splits.  That a split is paid as agreed rests on this: an open escrow   *)
(* has paid its sender nothing and its recipient the released part, with   *)
(* or without yield.                                                       *)
(***************************************************************************)
OpenPaid(w) ==
  escrowState[w] \in Active =>
    Paid(w, terms[w].from) = 0 /\ Paid(w, terms[w].to) = amountReleased[w]
OpenInv == PayInv /\ \A w \in Workflows : OpenPaid(w)

LEMMA RequestsOpenPaid ==
  ASSUME PayInv, NEW w \in Workflows, OpenPaid(w), Requests(w)
  PROVE  OpenPaid(w)'
<1>1. /\ TypeOK /\ Payable(w) /\ Phase(w) /\ (Exists(w) => escrowState[w] # "NONE")
  <2>1. TypeOK /\ Payable(w) /\ Phase(w)
    BY DEF PayInv, Inv, PhaseInv
  <2>2. escrowCount \in Int /\ w \in Int
    BY <2>1 DEF TypeOK, Workflows
  <2>. QED  BY <2>1, <2>2 DEF Exists, Phase
<1>2. PICK a \in Accounts :
        \/ \E x \in PartialAmounts : PartialRelease(w, a, x)
        \/ \E answer \in Address : RaiseDispute(w, a, answer)
        \/ \E q \in AppealQuotes, x \in ExcessValues : AppealDispute(w, a, q, x)
        \/ \E x \in BuyerShares, d \in SplitDelays : ProposeSplit(w, a, x, d)
        \/ CancelSplit(w, a)
        \/ WithdrawEscrow(w, a)
  BY DEF Requests
<1>3. ASSUME NEW x \in PartialAmounts, PartialRelease(w, a, x) PROVE OpenPaid(w)'
  <2>1. /\ x \in Nat /\ escrowState[w] \in Active /\ escrowState[w] # "NONE"
        /\ v25YieldPrincipals[w] = 0
        /\ FinalizeClaimableSettlement(w, terms[w].to, x, NothingReceived(x))
        /\ amountReleased' = [amountReleased EXCEPT ![w] = @ + x]
        /\ UNCHANGED terms
    BY <1>3, InputAssumption DEF PartialRelease, Active
  <2>2. terms[w].from \in Accounts /\ terms[w].to \in Accounts /\ terms[w].from # terms[w].to
    BY <1>1, <2>1 DEF Payable, Phase
  <2>3. NothingReceived(x) \in UnwindOutcomes(w, x)
    BY DEF UnwindOutcomes
  <2>4. \A c \in Accounts : Paid(w, c)' = Paid(w, c) + (IF c = terms[w].to THEN x ELSE 0)
    BY <1>1, <2>1, <2>2, <2>3, FinalizePays
  <2>5. amountReleased[w] \in Nat /\ amountReleased'[w] = amountReleased[w] + x
    BY <1>1, <2>1 DEF TypeOK
  <2>. QED  BY <2>1, <2>2, <2>4, <2>5 DEF OpenPaid
<1>4. ASSUME NEW answer \in Address, RaiseDispute(w, a, answer) PROVE OpenPaid(w)'
  <2>1. /\ escrowState[w] \in Active
        /\ UNCHANGED <<terms, amountReleased, claimableBalances, withdrawn>>
    BY <1>4 DEF RaiseDispute, Active
  <2>. QED  BY <2>1 DEF OpenPaid, Paid
<1>5. CASE \/ \E q \in AppealQuotes, x \in ExcessValues : AppealDispute(w, a, q, x)
           \/ \E x \in BuyerShares, d \in SplitDelays : ProposeSplit(w, a, x, d)
           \/ CancelSplit(w, a)
  <2>1. UNCHANGED <<escrowState, terms, amountReleased, claimableBalances, withdrawn>>
    BY <1>5 DEF AppealDispute, ProposeSplit, CancelSplit
  <2>. QED  BY <2>1 DEF OpenPaid, Paid
<1>6. CASE WithdrawEscrow(w, a)
  <2>1. /\ claimableBalances'[w][a] = 0
        /\ withdrawn'[w][a] = withdrawn[w][a] + claimableBalances[w][a]
        /\ \A b \in Accounts \ {a} : /\ claimableBalances'[w][b] = claimableBalances[w][b]
                                     /\ withdrawn'[w][b] = withdrawn[w][b]
        /\ UNCHANGED <<escrowState, terms, amountReleased>>
    BY <1>1, <1>6 DEF WithdrawEscrow, TypeOK
  <2>2. ASSUME NEW b \in Accounts PROVE Paid(w, b)' = Paid(w, b)
    BY <1>1, <2>1, PaidType DEF Paid
  <2>. QED  BY <1>1, <2>1, <2>2 DEF OpenPaid, Payable, Active
<1>. QED  BY <1>2, <1>3, <1>4, <1>5, <1>6

\* A settlement ends the escrow, or pays nobody.
LEMMA SettlementsOpenPaid ==
  ASSUME PayInv, NEW w \in Workflows, OpenPaid(w), Settlements(w)
  PROVE  OpenPaid(w)'
<1>1. TypeOK
  BY DEF PayInv, Inv
<1>2. PICK u \in UnwindOutcomes(w, Remaining(w)) :
        \/ SenderCancel(w, u)
        \/ RecipientCancel(w, u)
        \/ \E a \in Accounts :
             \/ Release(w, a, u)
             \/ \E isRelease \in BOOLEAN, outcome \in RulingOutcomes(w) :
                  ExecuteResolution(w, a, isRelease, outcome, u)
             \/ AutomateTimedActions(w, a, u)
             \/ ResolveDisputeByTimeout(w, a, u)
             \/ ExecutePendingSettlement(w, a, u)
             \/ AcceptSplit(w, a, u)
  BY DEF Settlements
<1>3. CASE ReleaseEscrowTransfer(w, u) \/ CancelAndRefund(w, u)
  <2>1. escrowState'[w] \notin Active
    BY <1>1, <1>3 DEF ReleaseEscrowTransfer, CancelAndRefund, TypeOK, Active
  <2>. QED  BY <2>1 DEF OpenPaid
<1>4. CASE UNCHANGED <<escrowState, terms, amountReleased, claimableBalances, withdrawn>>
  BY <1>4 DEF OpenPaid, Paid
<1>5. CASE SenderCancel(w, u) \/ RecipientCancel(w, u)
  BY <1>3, <1>4, <1>5 DEF SenderCancel, RecipientCancel
<1>6. CASE \E a \in Accounts, isRelease \in BOOLEAN, outcome \in RulingOutcomes(w) :
             ExecuteResolution(w, a, isRelease, outcome, u)
  BY <1>3, <1>4, <1>6 DEF ExecuteResolution, Settle
<1>7. CASE \E a \in Accounts : \/ Release(w, a, u)
                               \/ AutomateTimedActions(w, a, u)
                               \/ ResolveDisputeByTimeout(w, a, u)
                               \/ ExecutePendingSettlement(w, a, u)
  BY <1>3, <1>7 DEF Release, AutomateTimedActions, ResolveDisputeByTimeout,
                    ExecutePendingSettlement, Settle
<1>8. CASE \E a \in Accounts : AcceptSplit(w, a, u)
  <2>1. escrowState'[w] \notin Active
    BY <1>1, <1>8 DEF AcceptSplit, TypeOK, Active
  <2>. QED  BY <2>1 DEF OpenPaid
<1>. QED  BY <1>2, <1>5, <1>6, <1>7, <1>8

LEMMA CreateEscrowOpenPaid ==
  ASSUME PayInv, NEW req \in CreateRequests, NEW resolver \in Address,
         NEW supported \in BOOLEAN, CreateEscrow(req, resolver, supported),
         NEW w \in Workflows, w = escrowCount
  PROVE  OpenPaid(w)'
<1>. DEFINE amountAfterFee == req.amount - BpsOf(req.amount, config.escrowFee)
<1>1. /\ TypeOK /\ Payable(w) /\ escrowState[w] = "NONE" /\ amountReleased[w] = 0
      /\ req.from \in Accounts /\ req.to \in Accounts
  BY CreationIsFresh, InputAssumption DEF PayInv, Inv, PhaseInv, Phase, CreateRequest
<1>2. /\ terms' = [terms EXCEPT ![w] = SnapshotTerms(req, amountAfterFee)]
      /\ UNCHANGED <<amountReleased, claimVars>>
  BY DEF CreateEscrow
<1>3. /\ SnapshotTerms(req, amountAfterFee).from = req.from
      /\ SnapshotTerms(req, amountAfterFee).to = req.to
  BY DEF SnapshotTerms
<1>. HIDE DEF amountAfterFee
<1>4. terms'[w].from \in Accounts /\ terms'[w].to \in Accounts /\ amountReleased'[w] = 0
  BY <1>1, <1>2, <1>3 DEF TypeOK
<1>5. \A a \in Accounts : Paid(w, a)' = 0
  BY <1>1, <1>2 DEF Payable, Paid
<1>. QED  BY <1>4, <1>5 DEF OpenPaid

LEMMA OpenInvariance == Spec => []OpenInv
<1>1. Init => \A w \in Workflows : OpenPaid(w)
  BY DEF Init, OpenPaid, Active
<1>2. PayInv /\ (\A w \in Workflows : OpenPaid(w)) /\ [Next]_vars
        => (\A w \in Workflows : OpenPaid(w))'
  <2>. SUFFICES ASSUME PayInv, \A v \in Workflows : OpenPaid(v), [Next]_vars,
                       NEW w \in Workflows
                PROVE  OpenPaid(w)'
    OBVIOUS
  <2>1. TypeOK
    BY DEF PayInv, Inv
  <2>2. CASE Untouched(w)
    BY <2>2 DEF Untouched, OpenPaid, Paid
  <2>3. CASE Requests(w)
    BY <2>3, RequestsOpenPaid
  <2>4. CASE Settlements(w)
    BY <2>4, SettlementsOpenPaid
  <2>5. CASE /\ w = escrowCount
             /\ \E req \in CreateRequests, resolver \in Address, supported \in BOOLEAN :
                  CreateEscrow(req, resolver, supported)
    BY <2>5, CreateEscrowOpenPaid
  <2>. QED  BY <2>1, <2>2, <2>3, <2>4, <2>5, Locality
<1>. QED  BY <1>1, <1>2, PayInvariance, PTL DEF OpenInv, Spec

\* Of two parts of a yield the first, rounded down, has its proportion but for less than
\* one unit.
LEMMA ShareInProportion ==
  ASSUME NEW y \in Nat, NEW b \in Nat, NEW s \in Nat, b + s > 0
  PROVE  LET share == (y * b) \div (b + s)
             inFavour == (y - share) * b - share * s
         IN  share \in 0 .. y /\ inFavour \in 0 .. (b + s - 1)
<1>. DEFINE share == (y * b) \div (b + s)
<1>1. share \in 0 .. y
  BY QuotientBound
<1>2. share * (b + s) <= y * b /\ y * b < share * (b + s) + (b + s)
  <2>1. y * b \in Nat /\ b + s \in Nat \ {0}
    OBVIOUS
  <2>. QED  BY <2>1, Z3
<1>. HIDE DEF share
<1>3. (y - share) * b - share * s = y * b - share * (b + s)
  BY <1>1, Z3
<1>4. y * b - share * (b + s) \in 0 .. (b + s - 1)
  <2>1. y * b \in Int /\ share * (b + s) \in Int
    BY <1>1
  <2>. QED  BY <1>2, <2>1
<1>. QED  BY <1>1, <1>3, <1>4 DEF share

PaidAsAgreed(w) ==
  LET split == splitProposals[w]
      buyerYield == Paid(w, terms[w].from)' - split.buyerAmount
      sellerYield == Paid(w, terms[w].to)' - split.sellerAmount
      inFavourOfSeller == sellerYield * split.buyerAmount - buyerYield * split.sellerAmount
  IN  /\ split.active /\ now <= split.expiry
      /\ buyerYield >= 0 /\ sellerYield >= 0
      /\ split.buyerAmount + split.sellerAmount = terms[w].amountAfterFee
      /\ inFavourOfSeller >= 0 /\ inFavourOfSeller < terms[w].amountAfterFee

LEMMA AcceptSplitAgreed ==
  ASSUME OpenInv, NEW w \in Workflows, NEW a, NEW u, AcceptSplit(w, a, u)
  PROVE  PaidAsAgreed(w)
<1>. DEFINE split == splitProposals[w]
            b == split.buyerAmount
            s == split.sellerAmount
            principal == terms[w].amountAfterFee
            fee == YieldFee(w, u.yield)
            buyerYield == YieldShare(u.yield - fee, b, principal)
            sellerYield == u.yield - fee - buyerYield
<1>1. /\ TypeOK /\ PhaseInv /\ Payable(w) /\ OpenPaid(w)
      /\ escrowState[w] \in Active /\ amountReleased[w] = 0
      /\ split.active /\ now <= split.expiry
      /\ b + s = principal
      /\ u \in UnwindOutcomes(w, principal)
      /\ claimableBalances' = [claimableBalances EXCEPT ![w] = [x \in Accounts |->
           @[x] + (IF x = terms[w].from THEN b + buyerYield ELSE 0)
                + (IF x = terms[w].to THEN s + sellerYield ELSE 0)]]
      /\ UNCHANGED <<withdrawn, terms>>
  BY DEF AcceptSplit, OpenInv, PayInv, Inv
<1>2. /\ principal \in Nat \ {0} /\ b \in Nat /\ s \in Nat
      /\ terms[w].from \in Accounts /\ terms[w].to \in Accounts /\ terms[w].from # terms[w].to
  BY <1>1 DEF PhaseInv, Phase, TypeOK, Terms, SplitProposal, Payable, Active
<1>3. u.yield \in Nat
  BY <1>1, <1>2, UnwindType
<1>4. u.yield - fee \in Nat
  BY <1>1, <1>3, YieldFeeType
<1>5. /\ buyerYield \in Nat /\ sellerYield \in Nat
      /\ sellerYield * b - buyerYield * s \in 0 .. (b + s - 1)
  <2>. HIDE DEF fee, b, s, principal
  <2>1. b + s > 0 /\ b + s = principal
    BY <1>1, <1>2
  <2>2. LET share == ((u.yield - fee) * b) \div (b + s)
            inFavour == ((u.yield - fee) - share) * b - share * s
        IN  share \in 0 .. (u.yield - fee) /\ inFavour \in 0 .. (b + s - 1)
    BY <1>2, <1>4, <2>1, ShareInProportion
  <2>. QED  BY <1>4, <2>1, <2>2 DEF YieldShare
<1>. HIDE DEF fee, buyerYield, sellerYield, b, s, principal
<1>6. ASSUME NEW x \in {terms[w].from, terms[w].to}
      PROVE  Paid(w, x)' = IF x = terms[w].from THEN b + buyerYield ELSE s + sellerYield
  <2>1. Paid(w, x) = 0
    BY <1>1 DEF OpenPaid
  <2>2. claimableBalances[w][x] = 0 /\ withdrawn[w][x] = 0
    BY <1>1, <1>2, <2>1, PaidType DEF Paid
  <2>3. claimableBalances'[w][x] =
          claimableBalances[w][x] + (IF x = terms[w].from THEN b + buyerYield ELSE 0)
                                  + (IF x = terms[w].to THEN s + sellerYield ELSE 0)
    BY <1>1, <1>2 DEF TypeOK
  <2>. QED  BY <1>1, <1>2, <1>5, <2>2, <2>3 DEF Paid
<1>7. /\ Paid(w, terms[w].from)' = b + buyerYield
      /\ Paid(w, terms[w].to)' = s + sellerYield
  BY <1>1, <1>2, <1>6
<1>8. /\ buyerYield = Paid(w, terms[w].from)' - b
      /\ sellerYield = Paid(w, terms[w].to)' - s
  BY <1>1, <1>2, <1>5, <1>7
<1>9. /\ Paid(w, terms[w].from)' - b >= 0 /\ Paid(w, terms[w].to)' - s >= 0
      /\ (Paid(w, terms[w].to)' - s) * b - (Paid(w, terms[w].from)' - b) * s >= 0
      /\ (Paid(w, terms[w].to)' - s) * b - (Paid(w, terms[w].from)' - b) * s < principal
  <2>1. /\ buyerYield >= 0 /\ sellerYield >= 0
        /\ sellerYield * b - buyerYield * s >= 0
        /\ sellerYield * b - buyerYield * s < principal
    BY <1>1, <1>2, <1>5
  <2>. QED  BY ONLY <1>8, <2>1, Zenon
<1>. QED  BY <1>1, <1>9 DEF PaidAsAgreed, b, s, split, principal

LEMMA SplitStep ==
  ASSUME OpenInv, [Next]_vars, NEW w \in Workflows,
         escrowState[w] # "RESOLVED", escrowState'[w] = "RESOLVED"
  PROVE  PaidAsAgreed(w)
<1>1. TypeOK
  BY DEF OpenInv, PayInv, Inv
<1>2. ~Untouched(w)
  BY DEF Untouched
<1>3. ASSUME NEW req \in CreateRequests, NEW resolver \in Address, NEW supported \in BOOLEAN,
             CreateEscrow(req, resolver, supported), w = escrowCount
      PROVE  FALSE
  BY <1>1, <1>3 DEF CreateEscrow, TypeOK
<1>4. ~Requests(w)
  <2>. SUFFICES ASSUME Requests(w) PROVE FALSE
    OBVIOUS
  <2>1. PICK a \in Accounts :
          \/ \E x \in PartialAmounts : PartialRelease(w, a, x)
          \/ \E answer \in Address : RaiseDispute(w, a, answer)
          \/ \E q \in AppealQuotes, x \in ExcessValues : AppealDispute(w, a, q, x)
          \/ \E x \in BuyerShares, d \in SplitDelays : ProposeSplit(w, a, x, d)
          \/ CancelSplit(w, a)
          \/ WithdrawEscrow(w, a)
    BY DEF Requests
  <2>2. CASE \E x \in PartialAmounts : PartialRelease(w, a, x)
    BY <1>1, <2>2 DEF PartialRelease, TypeOK
  <2>3. CASE \E answer \in Address : RaiseDispute(w, a, answer)
    BY <1>1, <2>3 DEF RaiseDispute, TypeOK
  <2>. QED  BY <2>1, <2>2, <2>3 DEF AppealDispute, ProposeSplit, CancelSplit, WithdrawEscrow
<1>5. CASE Settlements(w)
  <2>1. PICK u \in UnwindOutcomes(w, Remaining(w)) :
          \/ SenderCancel(w, u)
          \/ RecipientCancel(w, u)
          \/ \E a \in Accounts :
               \/ Release(w, a, u)
               \/ \E isRelease \in BOOLEAN, outcome \in RulingOutcomes(w) :
                    ExecuteResolution(w, a, isRelease, outcome, u)
               \/ AutomateTimedActions(w, a, u)
               \/ ResolveDisputeByTimeout(w, a, u)
               \/ ExecutePendingSettlement(w, a, u)
               \/ AcceptSplit(w, a, u)
    BY <1>5 DEF Settlements
  <2>2. ~(ReleaseEscrowTransfer(w, u) \/ CancelAndRefund(w, u))
    BY <1>1 DEF ReleaseEscrowTransfer, CancelAndRefund, TypeOK
  <2>3. CASE SenderCancel(w, u) \/ RecipientCancel(w, u)
    BY <2>2, <2>3 DEF SenderCancel, RecipientCancel
  <2>4. CASE \E a \in Accounts, isRelease \in BOOLEAN, outcome \in RulingOutcomes(w) :
               ExecuteResolution(w, a, isRelease, outcome, u)
    BY <2>2, <2>4 DEF ExecuteResolution, Settle
  <2>5. CASE \E a \in Accounts : \/ Release(w, a, u)
                                 \/ AutomateTimedActions(w, a, u)
                                 \/ ResolveDisputeByTimeout(w, a, u)
                                 \/ ExecutePendingSettlement(w, a, u)
    BY <2>2, <2>5 DEF Release, AutomateTimedActions, ResolveDisputeByTimeout,
                      ExecutePendingSettlement, Settle
  <2>6. CASE \E a \in Accounts : AcceptSplit(w, a, u)
    BY <2>6, AcceptSplitAgreed
  <2>. QED  BY <2>1, <2>3, <2>4, <2>5, <2>6
<1>. QED  BY <1>1, <1>2, <1>3, <1>4, <1>5, Locality

\* Only an accepted proposal that has not expired splits an escrow, each party gets at least
\* its agreed part, and the yield after the fee is shared in proportion to the parts but for
\* less than one unit, which the seller keeps: for any amounts, parts, yields and fees.
THEOREM SplitPaidAsAgreed == Spec => SplitAsAgreed
<1>1. OpenInv /\ [Next]_vars =>
        [\A w \in Workflows :
           (escrowState[w] # "RESOLVED" /\ escrowState'[w] = "RESOLVED") =>
             LET split == splitProposals[w]
                 buyerYield == Paid(w, terms[w].from)' - split.buyerAmount
                 sellerYield == Paid(w, terms[w].to)' - split.sellerAmount
                 inFavourOfSeller ==
                   sellerYield * split.buyerAmount - buyerYield * split.sellerAmount
             IN  /\ split.active /\ now <= split.expiry
                 /\ buyerYield >= 0 /\ sellerYield >= 0
                 /\ split.buyerAmount + split.sellerAmount = terms[w].amountAfterFee
                 /\ inFavourOfSeller >= 0 /\ inFavourOfSeller < terms[w].amountAfterFee]_vars
  BY SplitStep DEF PaidAsAgreed
<1>. QED  BY <1>1, OpenInvariance, PTL DEF SplitAsAgreed, Spec

(***************************************************************************)
(* Sums over finite sets.  SumFunction adds up by a recursion that takes   *)
(* one element after the other; the lemmas show that the recursion is well *)
(* defined, that the order does not matter, and what a change at one point *)
(* does to the sum.                                                        *)
(***************************************************************************)
Some(s) == CHOOSE x \in s : TRUE
Sums(f, S, sum) ==
  sum = [s \in SUBSET S |-> IF s = {} THEN 0 ELSE f[Some(s)] + sum[s \ {Some(s)}]]

LEMMA LeastNumber ==
  ASSUME NEW T, T \subseteq Nat, T # {}
  PROVE  \E x \in T : \A y \in T : x <= y
<1>. DEFINE R == OpToRel(<, Nat)
<1>1. IsWellFoundedOn(R, Nat)
  BY NatLessThanWellFounded
<1>2. \A x \in Nat, y \in Nat : x < y => <<x, y>> \in R
  BY Zenon DEF OpToRel
<1>. HIDE DEF R
<1>3. PICK x \in T : \A y \in T : ~ (<<y, x>> \in R)
  BY <1>1, WFMin
<1>4. ASSUME NEW y \in T PROVE x <= y
  <2>1. ~ (y < x)
    BY <1>2, <1>3, Zenon
  <2>2. x \in Nat /\ y \in Nat
    OBVIOUS
  <2>. QED  BY <2>1, <2>2
<1>. QED  BY <1>4

LEMMA SmallestSubset ==
  ASSUME NEW S, IsFiniteSet(S), NEW B, B \subseteq SUBSET S, B # {}
  PROVE  \E s \in B : \A x \in s : s \ {x} \notin B
<1>. DEFINE T == {Cardinality(s) : s \in B}
<1>1. \A s \in B : IsFiniteSet(s) /\ Cardinality(s) \in Nat
  BY FS_Subset, FS_CardinalityType
<1>2. T \subseteq Nat /\ T # {}
  BY <1>1
<1>3. PICK n \in T : \A m \in T : n <= m
  BY <1>2, LeastNumber
<1>4. PICK s \in B : n = Cardinality(s)
  BY <1>3
<1>5. ASSUME NEW x \in s, s \ {x} \in B PROVE FALSE
  <2>1. Cardinality(s \ {x}) = n - 1 /\ n \in Nat
    BY <1>1, <1>4, FS_RemoveElement
  <2>. QED  BY <1>3, <1>5, <2>1
<1>. QED  BY <1>5

LEMMA SomeOfThem ==
  ASSUME NEW s, s # {}
  PROVE  Some(s) \in s
BY Zenon DEF Some

\* The recursion has a solution: one for the sets of at most n elements gives one for
\* those of at most n + 1.
LEMMA SumExists ==
  ASSUME NEW f, NEW S, IsFiniteSet(S)
  PROVE  \E sum : Sums(f, S, sum)
<1>. DEFINE Body(sum) == [s \in SUBSET S |-> IF s = {} THEN 0 ELSE f[Some(s)] + sum[s \ {Some(s)}]]
            Upto(n, sum) == sum \in [SUBSET S -> {sum[s] : s \in SUBSET S}]
                            /\ \A s \in SUBSET S : Cardinality(s) <= n => sum[s] = Body(sum)[s]
            T == {n \in Nat : ~\E sum : Upto(n, sum)}
<1>0. \A s \in SUBSET S : IsFiniteSet(s) /\ Cardinality(s) \in Nat
  BY FS_Subset, FS_CardinalityType
<1>1. T = {}
  <2>. SUFFICES ASSUME T # {} PROVE FALSE
    OBVIOUS
  <2>0. T \subseteq Nat
    OBVIOUS
  <2>1. PICK n \in T : \A m \in T : n <= m
    BY <2>0, LeastNumber, Zenon
  <2>2. n # 0
    <3>. DEFINE z == [s \in SUBSET S |-> 0]
    <3>1. \A s \in SUBSET S : Cardinality(s) <= 0 => s = {}
      BY <1>0, FS_EmptySet
    <3>2. Upto(0, z)
      BY <3>1
    <3>. HIDE DEF z, Upto
    <3>3. 0 \notin T
      BY <3>2
    <3>. QED  BY <3>3, <2>1
  <2>3. n - 1 \in Nat /\ n - 1 \notin T
    <3>1. n - 1 \in Nat /\ ~(n <= n - 1)
      BY <2>1, <2>2
    <3>. QED  BY <2>1, <3>1, Zenon
  <2>4. PICK g : Upto(n - 1, g)
    BY <2>3
  <2>. DEFINE h == Body(g)
  <2>5. ASSUME NEW s \in SUBSET S, Cardinality(s) <= n PROVE h[s] = Body(h)[s]
    <3>1. CASE s = {}
      BY <3>1
    <3>2. CASE s # {}
      <4>. DEFINE r == s \ {Some(s)}
      <4>1. Some(s) \in s
        BY <3>2, SomeOfThem
      <4>2. r \in SUBSET S /\ Cardinality(r) <= n - 1
        BY <4>1, <2>5, <1>0, FS_RemoveElement, <2>3
      <4>3. g[r] = h[r]
        BY <2>4, <4>2
      <4>. HIDE DEF r
      <4>4. h[s] = f[Some(s)] + g[r]
        BY <3>2 DEF r
      <4>5. Body(h)[s] = f[Some(s)] + h[r]
        BY <3>2 DEF r
      <4>. QED  BY <4>3, <4>4, <4>5
    <3>. QED  BY <3>1, <3>2
  <2>6. h \in [SUBSET S -> {h[s] : s \in SUBSET S}]
    OBVIOUS
  <2>. HIDE DEF h
  <2>7. Upto(n, h)
    BY <2>5, <2>6
  <2>. QED  BY <2>1, <2>7
<1>2. Cardinality(S) \in Nat
  BY FS_CardinalityType
<1>3. PICK sum : Upto(Cardinality(S), sum)
  BY <1>1, <1>2
<1>4. \A s \in SUBSET S : Cardinality(s) <= Cardinality(S)
  BY FS_Subset
<1>5. sum = Body(sum)
  BY <1>3, <1>4
<1>. QED  BY <1>5 DEF Sums

LEMMA SumIsOne ==
  ASSUME NEW f, IsFiniteSet(DOMAIN f)
  PROVE  \E sum : Sums(f, DOMAIN f, sum) /\ SumFunction(f) = sum[DOMAIN f]
<1>. DEFINE sum == CHOOSE sum : Sums(f, DOMAIN f, sum)
<1>1. Sums(f, DOMAIN f, sum)
  <2>1. \E m : Sums(f, DOMAIN f, m)
    BY SumExists
  <2>. QED  BY <2>1, Zenon
<1>2. SumFunction(f) = sum[DOMAIN f]
  BY Zenon DEF SumFunction, SumFunctionOnSet, FoldFunctionOnSet, MapThenFoldSet, Sums, Some
<1>. QED  BY <1>1, <1>2, Zenon

LEMMA SumUnfolds ==
  ASSUME NEW f, NEW S, NEW sum, Sums(f, S, sum)
  PROVE  /\ sum[{}] = 0
         /\ \A s \in SUBSET S : s # {} => sum[s] = f[Some(s)] + sum[s \ {Some(s)}]
<1>. DEFINE F == [s \in SUBSET S |-> IF s = {} THEN 0 ELSE f[Some(s)] + sum[s \ {Some(s)}]]
<1>1. sum = F
  BY DEF Sums
<1>2. \A s \in SUBSET S : F[s] = IF s = {} THEN 0 ELSE f[Some(s)] + sum[s \ {Some(s)}]
  OBVIOUS
<1>. HIDE DEF F
<1>. QED  BY <1>1, <1>2

LEMMA SumTyped ==
  ASSUME NEW f, NEW S, IsFiniteSet(S), \A x \in S : f[x] \in Int, NEW sum, Sums(f, S, sum)
  PROVE  \A s \in SUBSET S : sum[s] \in Int
<1>0. /\ sum[{}] = 0
      /\ \A r \in SUBSET S : r # {} => sum[r] = f[Some(r)] + sum[r \ {Some(r)}]
  BY SumUnfolds
<1>. DEFINE B == {s \in SUBSET S : sum[s] \notin Int}
<1>. SUFFICES ASSUME B # {} PROVE FALSE
  OBVIOUS
<1>1. PICK s \in B : \A x \in s : s \ {x} \notin B
  BY SmallestSubset
<1>2. s # {}
  <2>1. sum[s] \notin Int /\ sum[{}] = 0
    BY <1>1, <1>0
  <2>2. sum[s] # sum[{}]
    BY <2>1
  <2>. QED  BY <2>2
<1>3. Some(s) \in s
  BY <1>2, SomeOfThem
<1>4. sum[s] = f[Some(s)] + sum[s \ {Some(s)}]
  BY <1>2, <1>0
<1>5. sum[s \ {Some(s)}] \in Int /\ f[Some(s)] \in Int
  BY <1>1, <1>3
<1>. QED  BY <1>1, <1>4, <1>5

\* Any element may be taken out first.
LEMMA SumTakesOut ==
  ASSUME NEW f, NEW S, IsFiniteSet(S), \A x \in S : f[x] \in Int, NEW sum, Sums(f, S, sum)
  PROVE  \A s \in SUBSET S : \A y \in s : sum[s] = f[y] + sum[s \ {y}]
<1>0. /\ sum[{}] = 0
      /\ \A r \in SUBSET S : r # {} => sum[r] = f[Some(r)] + sum[r \ {Some(r)}]
  BY SumUnfolds
<1>. DEFINE B == {s \in SUBSET S : \E y \in s : sum[s] # f[y] + sum[s \ {y}]}
<1>. SUFFICES ASSUME B # {} PROVE FALSE
  OBVIOUS
<1>1. PICK s \in B : \A x \in s : s \ {x} \notin B
  BY SmallestSubset
<1>2. PICK y \in s : sum[s] # f[y] + sum[s \ {y}]
  BY <1>1
<1>. DEFINE x == Some(s)
<1>3. x \in s
  BY SomeOfThem
<1>4. sum[s] = f[x] + sum[s \ {x}]
  BY <1>0
<1>. HIDE DEF x
<1>5. x # y
  BY <1>2, <1>4
<1>6. sum[s \ {x}] = f[y] + sum[(s \ {x}) \ {y}]
  BY <1>1, <1>3, <1>5
<1>7. sum[s \ {y}] = f[x] + sum[(s \ {y}) \ {x}]
  BY <1>1, <1>3, <1>5
<1>8. (s \ {x}) \ {y} = (s \ {y}) \ {x}
  OBVIOUS
<1>9. PICK c \in Int : c = sum[(s \ {x}) \ {y}]
  BY SumTyped
<1>10. f[x] \in Int /\ f[y] \in Int
  BY <1>3
<1>11. sum[s] = f[x] + (f[y] + c) /\ f[y] + sum[s \ {y}] = f[y] + (f[x] + c)
  BY <1>4, <1>6, <1>7, <1>8, <1>9
<1>. QED  BY <1>2, <1>9, <1>10, <1>11

LEMMA SumAgrees ==
  ASSUME NEW f, NEW g, NEW S, IsFiniteSet(S), NEW sum, Sums(f, S, sum), NEW tot, Sums(g, S, tot)
  PROVE  \A s \in SUBSET S : (\A x \in s : f[x] = g[x]) => sum[s] = tot[s]
<1>0. /\ sum[{}] = 0 /\ tot[{}] = 0
      /\ \A r \in SUBSET S : r # {} => sum[r] = f[Some(r)] + sum[r \ {Some(r)}]
      /\ \A r \in SUBSET S : r # {} => tot[r] = g[Some(r)] + tot[r \ {Some(r)}]
  BY SumUnfolds
<1>. DEFINE B == {s \in SUBSET S : (\A x \in s : f[x] = g[x]) /\ sum[s] # tot[s]}
<1>. SUFFICES ASSUME B # {} PROVE FALSE
  OBVIOUS
<1>1. PICK s \in B : \A x \in s : s \ {x} \notin B
  BY SmallestSubset
<1>2. s # {}
  BY <1>1, <1>0
<1>. DEFINE x == Some(s)
<1>3. x \in s
  BY <1>2, SomeOfThem
<1>4. sum[s] = f[x] + sum[s \ {x}] /\ tot[s] = g[x] + tot[s \ {x}]
  BY <1>2, <1>0
<1>. HIDE DEF x
<1>5. sum[s \ {x}] = tot[s \ {x}] /\ f[x] = g[x]
  BY <1>1, <1>3
<1>. QED  BY <1>1, <1>4, <1>5

\* The laws the ledgers need.
LEMMA SumType ==
  ASSUME NEW S, IsFiniteSet(S), NEW f \in [S -> Int]
  PROVE  SumFunction(f) \in Int
BY SumIsOne, SumTyped

LEMMA SumOfNothing ==
  ASSUME NEW S, IsFiniteSet(S)
  PROVE  SumFunction([x \in S |-> 0]) = 0
<1>. DEFINE f == [x \in S |-> 0]
<1>1. DOMAIN f = S /\ \A x \in S : f[x] = 0
  OBVIOUS
<1>. HIDE DEF f
<1>2. PICK sum : Sums(f, S, sum) /\ SumFunction(f) = sum[S]
  BY <1>1, SumIsOne
<1>. DEFINE B == {s \in SUBSET S : sum[s] # 0}
<1>3. B = {}
  <2>. SUFFICES ASSUME B # {} PROVE FALSE
    OBVIOUS
  <2>1. PICK s \in B : \A x \in s : s \ {x} \notin B
    BY SmallestSubset
  <2>2. s # {}
    BY <1>2, <2>1, SumUnfolds
  <2>3. Some(s) \in s
    BY <2>2, SomeOfThem
  <2>4. sum[s] = f[Some(s)] + sum[s \ {Some(s)}]
    BY <1>2, <2>2, SumUnfolds
  <2>5. sum[s \ {Some(s)}] = 0 /\ f[Some(s)] = 0
    BY <1>1, <2>1, <2>3
  <2>. QED  BY <2>1, <2>4, <2>5
<1>. QED  BY <1>2, <1>3 DEF f

LEMMA SumChangesAt ==
  ASSUME NEW S, IsFiniteSet(S), NEW f \in [S -> Int], NEW g \in [S -> Int], NEW y \in S,
         \A x \in S \ {y} : g[x] = f[x]
  PROVE  SumFunction(g) = SumFunction(f) - f[y] + g[y]
<1>1. PICK sum : Sums(f, S, sum) /\ SumFunction(f) = sum[S]
  BY SumIsOne
<1>2. PICK tot : Sums(g, S, tot) /\ SumFunction(g) = tot[S]
  BY SumIsOne
<1>3. sum[S] = f[y] + sum[S \ {y}] /\ tot[S] = g[y] + tot[S \ {y}]
  BY <1>1, <1>2, SumTakesOut
<1>4. sum[S \ {y}] = tot[S \ {y}]
  BY <1>1, <1>2, SumAgrees
<1>5. sum[S \ {y}] \in Int
  BY <1>1, SumTyped
<1>. QED  BY <1>1, <1>2, <1>3, <1>4, <1>5

\* No part of a sum of natural numbers is more than the sum.
LEMMA SumOfNaturals ==
  ASSUME NEW S, IsFiniteSet(S), NEW f \in [S -> Nat]
  PROVE  SumFunction(f) \in Nat /\ \A y \in S : f[y] <= SumFunction(f)
<1>1. PICK sum : Sums(f, S, sum) /\ SumFunction(f) = sum[S]
  BY SumIsOne
<1>0. /\ sum[{}] = 0
      /\ \A r \in SUBSET S : r # {} => sum[r] = f[Some(r)] + sum[r \ {Some(r)}]
  <2>1. Sums(f, S, sum)
    BY <1>1
  <2>. HIDE <1>1
  <2>. QED  BY <2>1, SumUnfolds
<1>. DEFINE B == {s \in SUBSET S : sum[s] \notin Nat}
<1>2. B = {}
  <2>. SUFFICES ASSUME B # {} PROVE FALSE
    OBVIOUS
  <2>1. PICK s \in B : \A x \in s : s \ {x} \notin B
    BY SmallestSubset
  <2>2. s # {}
    <3>1. sum[s] \notin Nat /\ sum[{}] = 0
      BY <1>0, <2>1
    <3>2. sum[s] # sum[{}]
      BY <3>1
    <3>. QED  BY <3>2
  <2>3. Some(s) \in s
    BY <2>2, SomeOfThem
  <2>4. sum[s] = f[Some(s)] + sum[s \ {Some(s)}]
    BY <1>0, <2>2
  <2>5. sum[s \ {Some(s)}] \in Nat /\ f[Some(s)] \in Nat
    BY <2>1, <2>3
  <2>. QED  BY <2>1, <2>4, <2>5
<1>3. \A s \in SUBSET S : sum[s] \in Nat
  BY <1>2
<1>4. ASSUME NEW y \in S PROVE f[y] <= sum[S]
  <2>1. sum[S] = f[y] + sum[S \ {y}]
    BY <1>1, SumTakesOut
  <2>2. sum[S \ {y}] \in Nat /\ f[y] \in Nat
    BY <1>3
  <2>. QED  BY <2>1, <2>2
<1>. QED  BY <1>1, <1>3, <1>4

(***************************************************************************)
(* The books.  Booked(w): the totals moved by what the records of escrow w *)
(* moved by, and those of no other escrow moved.  Recorded(w) is what the  *)
(* induction needs besides: there is no position before there is an        *)
(* escrow, and what is credited is credited to an account.                 *)
(***************************************************************************)
TokenBooks ==
  /\ totalHeld = SumFunction([w \in Workflows |-> Held(w)])
  /\ totalClaimable = SumFunction([w \in Workflows |-> SumFunction(claimableBalances[w])])
  /\ totalDeposited = SumFunction(yieldPosition)
AppealBooks ==
  /\ \A b \in BondAssets : bondFeesOwed[b] = SumFunction(claimableBondProtocolFees[b])
  /\ ethBalance = bondFeesOwed["ETH"] + SumFunction(claimableExcessEthRefunds)
Recorded(w) ==
  /\ escrowState[w] = "NONE" => yieldPosition[w] = 0
  /\ escrowState[w] # "NONE" => terms[w].appealBondFeeRecipient \in Accounts
BooksInv == PayInv /\ (\A w \in Workflows : Recorded(w)) /\ TokenBooks /\ AppealBooks

Booked(w) ==
  /\ escrowState'[w] # "NONE" /\ terms'[w].appealBondFeeRecipient \in Accounts
  /\ \A v \in Workflows \ {w} : /\ terms'[v] = terms[v] /\ escrowState'[v] = escrowState[v]
                                /\ Held(v)' = Held(v)
                                /\ claimableBalances'[v] = claimableBalances[v]
                                /\ yieldPosition'[v] = yieldPosition[v]
  /\ totalHeld' = totalHeld - Held(w) + Held(w)'
  /\ totalClaimable' =
       totalClaimable - SumFunction(claimableBalances[w]) + SumFunction(claimableBalances'[w])
  /\ totalDeposited' = totalDeposited - yieldPosition[w] + yieldPosition'[w]

LEMMA FinitelyMany == IsFiniteSet(Workflows) /\ IsFiniteSet(Accounts)
BY FS_Interval, BoundAssumption, AccountsAssumption DEF Workflows

LEMMA HeldType ==
  ASSUME TypeOK, NEW w \in Workflows
  PROVE  Held(w) \in Int
BY DEF TypeOK, Terms, Held, Remaining

LEMMA ClaimSumType ==
  ASSUME TypeOK, NEW w \in Workflows
  PROVE  SumFunction(claimableBalances[w]) \in Int
<1>1. claimableBalances[w] \in [Accounts -> Int]
  BY DEF TypeOK
<1>. QED  BY <1>1, FinitelyMany, SumType

LEMMA CreditSum ==
  ASSUME NEW f \in [Accounts -> Nat], NEW b \in Accounts, NEW c \in Int
  PROVE  SumFunction([f EXCEPT ![b] = @ + c]) = SumFunction(f) + c
<1>. DEFINE g == [f EXCEPT ![b] = @ + c]
<1>1. /\ f \in [Accounts -> Int] /\ g \in [Accounts -> Int]
      /\ \A x \in Accounts \ {b} : g[x] = f[x]
      /\ g[b] = f[b] + c
  OBVIOUS
<1>. HIDE DEF g
<1>2. SumFunction(g) = SumFunction(f) - f[b] + g[b] /\ SumFunction(f) \in Int
  BY <1>1, FinitelyMany, SumChangesAt, SumType
<1>3. SumFunction(g) = SumFunction(f) + c
  BY <1>1, <1>2
<1>. QED  BY <1>3 DEF g

LEMMA TokenBooksKept ==
  ASSUME TypeOK, TypeOK', TokenBooks, NEW w \in Workflows, Booked(w)
  PROVE  TokenBooks'
<1>1. totalHeld' = SumFunction([v \in Workflows |-> Held(v)'])
  <2>. DEFINE f == [v \in Workflows |-> Held(v)]
              g == [v \in Workflows |-> Held(v)']
  <2>1. f \in [Workflows -> Int] /\ f[w] = Held(w)
    BY HeldType
  <2>2. \A v \in Workflows : Held(v)' \in Int
    BY DEF TypeOK, Terms, Held, Remaining
  <2>3. g \in [Workflows -> Int] /\ g[w] = Held(w)' /\ \A v \in Workflows \ {w} : g[v] = f[v]
    BY <2>2 DEF Booked
  <2>4. totalHeld = SumFunction(f)
    BY DEF TokenBooks
  <2>. HIDE DEF f, g
  <2>5. SumFunction(g) = SumFunction(f) - f[w] + g[w]
    BY <2>1, <2>3, FinitelyMany, SumChangesAt
  <2>6. totalHeld' = SumFunction(g)
    BY <2>1, <2>3, <2>4, <2>5 DEF Booked
  <2>. QED  BY <2>6 DEF g
<1>2. totalClaimable' = SumFunction([v \in Workflows |-> SumFunction(claimableBalances'[v])])
  <2>. DEFINE f == [v \in Workflows |-> SumFunction(claimableBalances[v])]
              g == [v \in Workflows |-> SumFunction(claimableBalances'[v])]
  <2>1. f \in [Workflows -> Int] /\ f[w] = SumFunction(claimableBalances[w])
    BY ClaimSumType
  <2>2. ASSUME NEW v \in Workflows PROVE SumFunction(claimableBalances'[v]) \in Int
    <3>1. claimableBalances'[v] \in [Accounts -> Int]
      BY DEF TypeOK
    <3>. QED  BY <3>1, FinitelyMany, SumType
  <2>3. /\ g \in [Workflows -> Int] /\ g[w] = SumFunction(claimableBalances'[w])
        /\ \A v \in Workflows \ {w} : g[v] = f[v]
    BY <2>2 DEF Booked
  <2>4. totalClaimable = SumFunction(f)
    BY DEF TokenBooks
  <2>. HIDE DEF f, g
  <2>5. SumFunction(g) = SumFunction(f) - f[w] + g[w]
    BY <2>1, <2>3, FinitelyMany, SumChangesAt
  <2>6. totalClaimable' = SumFunction(g)
    BY <2>1, <2>3, <2>4, <2>5 DEF Booked
  <2>. QED  BY <2>6 DEF g
<1>3. totalDeposited' = SumFunction(yieldPosition')
  <2>1. yieldPosition \in [Workflows -> Int] /\ yieldPosition' \in [Workflows -> Int]
    BY DEF TypeOK
  <2>2. SumFunction(yieldPosition') = SumFunction(yieldPosition) - yieldPosition[w] + yieldPosition'[w]
    BY <2>1, FinitelyMany, SumChangesAt DEF Booked
  <2>. QED  BY <2>2 DEF Booked, TokenBooks
<1>. QED  BY <1>1, <1>2, <1>3 DEF TokenBooks

LEMMA FinalizeBooks ==
  ASSUME TypeOK, NEW w \in Workflows, NEW b \in Accounts, NEW amount \in Nat,
         NEW u \in UnwindOutcomes(w, amount), FinalizeClaimableSettlement(w, b, amount, u)
  PROVE  /\ \A v \in Workflows \ {w} : /\ claimableBalances'[v] = claimableBalances[v]
                                       /\ yieldPosition'[v] = yieldPosition[v]
         /\ totalHeld' = totalHeld - amount
         /\ totalClaimable' = totalClaimable - SumFunction(claimableBalances[w])
                                + SumFunction(claimableBalances'[w])
         /\ totalDeposited' = totalDeposited - yieldPosition[w] + yieldPosition'[w]
<1>. DEFINE credit == u.principal + u.yield - YieldFee(w, u.yield)
<1>1. u \in [principal : Nat, yield : Nat, received : Nat, closed : BOOLEAN]
  BY UnwindType
<1>2. credit \in Int
  BY <1>1, YieldFeeType
<1>3. /\ claimableBalances' = [claimableBalances EXCEPT ![w][b] = @ + credit]
      /\ totalClaimable' = totalClaimable + credit
      /\ totalHeld' = totalHeld - amount
      /\ Unwind(w, u)
  BY DEF FinalizeClaimableSettlement
<1>. HIDE DEF credit
<1>4. /\ claimableBalances'[w] = [claimableBalances[w] EXCEPT ![b] = @ + credit]
      /\ \A v \in Workflows \ {w} : claimableBalances'[v] = claimableBalances[v]
  BY <1>3 DEF TypeOK
<1>5. claimableBalances[w] \in [Accounts -> Nat]
  BY DEF TypeOK
<1>6. SumFunction(claimableBalances'[w]) = SumFunction(claimableBalances[w]) + credit
  BY <1>2, <1>4, <1>5, CreditSum
<1>7. SumFunction(claimableBalances[w]) \in Int /\ totalClaimable \in Int
  BY ClaimSumType DEF TypeOK
<1>8. /\ \A v \in Workflows \ {w} : yieldPosition'[v] = yieldPosition[v]
      /\ totalDeposited' = totalDeposited - yieldPosition[w] + yieldPosition'[w]
  <2>1. yieldPosition \in [Workflows -> Nat] /\ totalDeposited \in Nat
    BY DEF TypeOK
  <2>2. CASE u.closed
    BY <1>3, <2>1, <2>2 DEF Unwind
  <2>3. CASE ~u.closed
    BY <1>3, <2>1, <2>3 DEF Unwind
  <2>. QED  BY <2>2, <2>3
<1>. QED  BY <1>2, <1>3, <1>4, <1>6, <1>7, <1>8

\* A settlement for an escrow that is open ends with nothing held for it.
LEMMA SettlementBooked ==
  ASSUME BooksInv, NEW w \in Workflows, escrowState[w] \in Active,
         NEW u \in UnwindOutcomes(w, Remaining(w)),
         ReleaseEscrowTransfer(w, u) \/ CancelAndRefund(w, u), UNCHANGED creationVars
  PROVE  Booked(w)
<1>1. /\ Inv /\ TypeOK /\ Remaining(w) \in Nat /\ totalHeld \in Int
      /\ terms[w].from \in Accounts /\ terms[w].to \in Accounts
      /\ terms[w].appealBondFeeRecipient \in Accounts
  BY RemainingType DEF BooksInv, Recorded, PayInv, Inv, Payable, Active, TypeOK
<1>2. PICK b \in Accounts : FinalizeClaimableSettlement(w, b, Remaining(w), u)
  BY <1>1 DEF ReleaseEscrowTransfer, CancelAndRefund
<1>3. /\ Held(w) = Remaining(w) /\ Held(w)' = 0 /\ escrowState'[w] # "NONE"
      /\ \A v \in Workflows \ {w} : Held(v)' = Held(v) /\ escrowState'[v] = escrowState[v]
  <2>1. /\ escrowState'[w] \notin Active /\ escrowState'[w] # "NONE"
        /\ \A v \in Workflows \ {w} : /\ escrowState'[v] = escrowState[v]
                                      /\ amountReleased'[v] = amountReleased[v]
    BY <1>1 DEF ReleaseEscrowTransfer, CancelAndRefund, TypeOK, Active
  <2>. QED  BY <2>1 DEF Held, Remaining
<1>4. totalHeld' = totalHeld - Held(w) + Held(w)'
  BY <1>1, <1>2, <1>3, FinalizeBooks
<1>. QED  BY <1>1, <1>2, <1>3, <1>4, FinalizeBooks DEF Booked

LEMMA PartialReleaseBooked ==
  ASSUME BooksInv, NEW w \in Workflows, NEW a \in Accounts, NEW x \in PartialAmounts,
         PartialRelease(w, a, x)
  PROVE  Booked(w)
<1>1. /\ TypeOK /\ x \in Nat /\ totalHeld \in Int /\ escrowState[w] = "PENDING"
      /\ amountReleased[w] \in Nat /\ terms[w].amountAfterFee \in Nat
      /\ terms[w].to \in Accounts /\ terms[w].appealBondFeeRecipient \in Accounts
      /\ FinalizeClaimableSettlement(w, terms[w].to, x, NothingReceived(x))
      /\ UNCHANGED terms
  BY InputAssumption DEF BooksInv, Recorded, PayInv, Inv, Payable, TypeOK, Terms, PartialRelease
<1>2. NothingReceived(x) \in UnwindOutcomes(w, x)
  BY DEF UnwindOutcomes
<1>3. /\ amountReleased'[w] = amountReleased[w] + x
      /\ escrowState'[w] = IF x = Remaining(w) THEN "RELEASED" ELSE "PENDING"
      /\ \A v \in Workflows \ {w} : /\ escrowState'[v] = escrowState[v]
                                    /\ amountReleased'[v] = amountReleased[v]
  BY <1>1 DEF PartialRelease, TypeOK
<1>4. /\ Held(w) = Remaining(w) /\ Held(w)' = Remaining(w) - x /\ Remaining(w) \in Int
      /\ \A v \in Workflows \ {w} : Held(v)' = Held(v)
  BY <1>1, <1>3 DEF Held, Remaining, Active
<1>5. totalHeld' = totalHeld - Held(w) + Held(w)'
  BY <1>1, <1>2, <1>4, FinalizeBooks
<1>. QED  BY <1>1, <1>2, <1>3, <1>4, <1>5, FinalizeBooks DEF Booked

\* Credits of a split: the sender's part and the recipient's, one after the other.
LEMMA AcceptSplitBooked ==
  ASSUME BooksInv, NEW w \in Workflows, NEW a, NEW u, AcceptSplit(w, a, u)
  PROVE  Booked(w)
<1>. DEFINE split == splitProposals[w]
            principal == terms[w].amountAfterFee
            fee == YieldFee(w, u.yield)
            buyerYield == YieldShare(u.yield - fee, split.buyerAmount, principal)
            buyerCredit == split.buyerAmount + buyerYield
            sellerCredit == split.sellerAmount + (u.yield - fee - buyerYield)
            from == terms[w].from
            to == terms[w].to
<1>1. /\ TypeOK /\ PhaseInv /\ Payable(w) /\ Recorded(w)
      /\ escrowState[w] \in Active /\ amountReleased[w] = 0
      /\ split.buyerAmount + split.sellerAmount = principal
      /\ u \in UnwindOutcomes(w, principal)
      /\ escrowState' = [escrowState EXCEPT ![w] = "RESOLVED"]
      /\ Unwind(w, u)
      /\ totalHeld' = totalHeld - principal
      /\ claimableBalances' = [claimableBalances EXCEPT ![w] = [x \in Accounts |->
           @[x] + (IF x = from THEN buyerCredit ELSE 0) + (IF x = to THEN sellerCredit ELSE 0)]]
      /\ totalClaimable' = totalClaimable + buyerCredit + sellerCredit
      /\ UNCHANGED <<terms, amountReleased>>
  BY DEF AcceptSplit, BooksInv, PayInv, Inv
<1>2. /\ principal \in Nat \ {0} /\ split.buyerAmount \in 0 .. principal
      /\ split.sellerAmount \in Nat
      /\ from \in Accounts /\ to \in Accounts /\ from # to
      /\ terms[w].appealBondFeeRecipient \in Accounts
  BY <1>1 DEF PhaseInv, Phase, TypeOK, Terms, SplitProposal, Payable, Recorded, Active
<1>3. u \in [principal : Nat, yield : Nat, received : Nat, closed : BOOLEAN]
  BY <1>1, <1>2, UnwindType
<1>4. fee \in 0 .. u.yield
  BY <1>1, <1>3, YieldFeeType
<1>5. buyerYield \in 0 .. (u.yield - fee)
  <2>. HIDE DEF fee, principal
  <2>1. u.yield - fee \in Nat
    BY <1>3, <1>4
  <2>. QED  BY <1>2, <2>1, QuotientBound DEF YieldShare
<1>. HIDE DEF buyerYield, fee
<1>6. buyerCredit \in Nat /\ sellerCredit \in Nat
  BY <1>2, <1>3, <1>4, <1>5
<1>. HIDE DEF buyerCredit, sellerCredit, split
<1>7. SumFunction(claimableBalances'[w])
        = SumFunction(claimableBalances[w]) + buyerCredit + sellerCredit
  <2>. DEFINE f == claimableBalances[w]
              g == [f EXCEPT ![from] = @ + buyerCredit]
              h == [g EXCEPT ![to] = @ + sellerCredit]
  <2>1. f \in [Accounts -> Nat]
    BY <1>1 DEF TypeOK
  <2>2. g \in [Accounts -> Nat]
    <3>1. f[from] + buyerCredit \in Nat
      BY <1>2, <1>6, <2>1
    <3>. QED  BY <2>1, <3>1
  <2>3. claimableBalances'[w] = h
    <3>1. claimableBalances'[w] = [x \in Accounts |->
            f[x] + (IF x = from THEN buyerCredit ELSE 0) + (IF x = to THEN sellerCredit ELSE 0)]
      BY <1>1 DEF TypeOK
    <3>2. h = [x \in Accounts |->
            f[x] + (IF x = from THEN buyerCredit ELSE 0) + (IF x = to THEN sellerCredit ELSE 0)]
      <4>. HIDE DEF f, from, to
      <4>1. \A x \in Accounts : f[x] \in Nat
        BY <2>1
      <4>2. h = [x \in Accounts |-> IF x = to THEN g[x] + sellerCredit ELSE g[x]]
        BY <2>2
      <4>3. \A x \in Accounts : g[x] = IF x = from THEN f[x] + buyerCredit ELSE f[x]
        BY <2>1
      <4>. HIDE DEF g, h
      <4>. QED  BY <1>2, <1>6, <4>1, <4>2, <4>3
    <3>. QED  BY <3>1, <3>2
  <2>4. SumFunction(g) = SumFunction(f) + buyerCredit
    BY <1>2, <1>6, <2>1, CreditSum
  <2>5. SumFunction(h) = SumFunction(g) + sellerCredit
    <3>. HIDE DEF g, to
    <3>1. to \in Accounts /\ sellerCredit \in Int
      BY <1>2, <1>6
    <3>. QED  BY <2>2, <3>1, CreditSum
  <2>. HIDE DEF g, h
  <2>. QED  BY <2>3, <2>4, <2>5
<1>8. totalClaimable' =
        totalClaimable - SumFunction(claimableBalances[w]) + SumFunction(claimableBalances'[w])
  <2>1. SumFunction(claimableBalances[w]) \in Int /\ totalClaimable \in Int
    BY <1>1, ClaimSumType DEF TypeOK
  <2>. QED  BY <1>1, <1>6, <1>7, <2>1
<1>9. /\ totalDeposited' = totalDeposited - yieldPosition[w] + yieldPosition'[w]
      /\ \A v \in Workflows \ {w} : yieldPosition'[v] = yieldPosition[v]
  BY <1>1, <1>3 DEF Unwind, TypeOK
<1>10. /\ escrowState'[w] = "RESOLVED"
       /\ \A v \in Workflows \ {w} : /\ escrowState'[v] = escrowState[v]
                                     /\ claimableBalances'[v] = claimableBalances[v]
  BY <1>1 DEF TypeOK
<1>11. /\ Held(w) = principal /\ Held(w)' = 0
       /\ \A v \in Workflows \ {w} : Held(v)' = Held(v)
  BY <1>1, <1>2, <1>10 DEF Held, Remaining, Active
<1>12. totalHeld' = totalHeld - Held(w) + Held(w)'
  BY <1>1, <1>2, <1>11 DEF TypeOK
<1>. QED  BY <1>1, <1>2, <1>8, <1>9, <1>10, <1>11, <1>12 DEF Booked

LEMMA WithdrawEscrowBooked ==
  ASSUME BooksInv, NEW w \in Workflows, NEW a \in Accounts, WithdrawEscrow(w, a)
  PROVE  Booked(w)
<1>1. /\ TypeOK /\ Recorded(w) /\ escrowState[w] \in {"PENDING"} \cup Terminal
      /\ claimableBalances' = [claimableBalances EXCEPT ![w][a] = 0]
      /\ totalClaimable' = totalClaimable - claimableBalances[w][a]
      /\ UNCHANGED <<terms, escrowState, amountReleased, totalHeld, yieldPosition, totalDeposited>>
  BY DEF WithdrawEscrow, BooksInv, PayInv, Inv
<1>2. /\ claimableBalances[w] \in [Accounts -> Nat]
      /\ claimableBalances'[w] = [claimableBalances[w] EXCEPT ![a] = 0]
      /\ \A v \in Workflows \ {w} : claimableBalances'[v] = claimableBalances[v]
  BY <1>1 DEF TypeOK
<1>3. /\ claimableBalances[w] \in [Accounts -> Int] /\ claimableBalances'[w] \in [Accounts -> Int]
      /\ claimableBalances'[w][a] = 0
      /\ \A x \in Accounts \ {a} : claimableBalances'[w][x] = claimableBalances[w][x]
  BY <1>2
<1>4. SumFunction(claimableBalances'[w])
        = SumFunction(claimableBalances[w]) - claimableBalances[w][a] + claimableBalances'[w][a]
  BY <1>3, FinitelyMany, SumChangesAt
<1>5. totalClaimable' =
        totalClaimable - SumFunction(claimableBalances[w]) + SumFunction(claimableBalances'[w])
  <2>1. /\ SumFunction(claimableBalances[w]) \in Int /\ totalClaimable \in Int
        /\ claimableBalances[w][a] \in Int
    BY <1>1, <1>3, ClaimSumType DEF TypeOK
  <2>. QED  BY <1>1, <1>3, <1>4, <2>1
<1>6. \A v \in Workflows : Held(v)' = Held(v)
  BY <1>1 DEF Held, Remaining
<1>7. /\ totalHeld' = totalHeld - Held(w) + Held(w)'
      /\ totalDeposited' = totalDeposited - yieldPosition[w] + yieldPosition'[w]
  BY <1>1, <1>6, HeldType DEF TypeOK
<1>8. escrowState'[w] # "NONE" /\ terms'[w].appealBondFeeRecipient \in Accounts
  BY <1>1 DEF Terminal, Recorded
<1>. QED  BY <1>1, <1>2, <1>5, <1>6, <1>7, <1>8 DEF Booked

LEMMA RecoverPositionBooked ==
  ASSUME BooksInv, NEW w \in Workflows, NEW r, RecoverPosition(w, r)
  PROVE  Booked(w)
<1>1. /\ TypeOK /\ Recorded(w) /\ yieldPosition[w] > 0
      /\ yieldPosition' = [yieldPosition EXCEPT ![w] = 0]
      /\ totalDeposited' = totalDeposited - yieldPosition[w]
      /\ UNCHANGED <<terms, escrowState, amountReleased, claimableBalances, totalClaimable,
                     totalHeld>>
  BY DEF RecoverPosition, BooksInv, PayInv, Inv
<1>2. /\ yieldPosition'[w] = 0 /\ \A v \in Workflows \ {w} : yieldPosition'[v] = yieldPosition[v]
      /\ yieldPosition[w] \in Nat /\ totalDeposited \in Nat
  BY <1>1 DEF TypeOK
<1>3. \A v \in Workflows : Held(v)' = Held(v)
  BY <1>1 DEF Held, Remaining
<1>4. /\ totalHeld' = totalHeld - Held(w) + Held(w)'
      /\ totalDeposited' = totalDeposited - yieldPosition[w] + yieldPosition'[w]
  BY <1>1, <1>2, <1>3, HeldType DEF TypeOK
<1>5. totalClaimable' =
        totalClaimable - SumFunction(claimableBalances[w]) + SumFunction(claimableBalances'[w])
  BY <1>1, ClaimSumType DEF TypeOK
<1>6. escrowState'[w] # "NONE" /\ terms'[w].appealBondFeeRecipient \in Accounts
  BY <1>1 DEF Recorded
<1>. QED  BY <1>1, <1>2, <1>3, <1>4, <1>5, <1>6 DEF Booked

LEMMA CreateEscrowBooked ==
  ASSUME BooksInv, NEW req \in CreateRequests, NEW resolver \in Address,
         NEW supported \in BOOLEAN, CreateEscrow(req, resolver, supported)
  PROVE  \E w \in Workflows : Booked(w)
<1>. DEFINE amountAfterFee == req.amount - BpsOf(req.amount, config.escrowFee)
            deposit == IF req.yield /\ ~config.yieldDepositsPaused
                          /\ config.yieldModule # NoModule /\ supported
                       THEN amountAfterFee ELSE 0
<1>1. /\ Inv /\ TypeOK /\ \A v \in Workflows : Recorded(v)
      /\ req.amount \in Nat
      /\ escrowCount < MaxEscrows
  BY InputAssumption DEF CreateEscrow, BooksInv, PayInv, Inv, CreateRequest
<1>2. PICK w \in Workflows : w = escrowCount
  BY <1>1, BoundAssumption DEF TypeOK, Workflows
<1>3. escrowState[w] = "NONE" /\ amountReleased[w] = 0 /\ yieldPosition[w] = 0
  BY <1>1, <1>2, CreationIsFresh DEF Inv, PhaseInv, Phase, Recorded
<1>4. amountAfterFee \in Int
  <2>1. config.escrowFee \in 0 .. DENOMINATOR
    <3>1. config \in Configs
      BY <1>1 DEF TypeOK
    <3>. QED  BY <3>1, EscrowFeeBelowAll
  <2>2. BpsOf(req.amount, config.escrowFee) \in 0 .. req.amount
    BY <1>1, <2>1, BpsOfBound
  <2>. QED  BY <1>1, <2>2
<1>5. deposit \in Int
  BY <1>4
<1>6. /\ terms' = [terms EXCEPT ![w] = SnapshotTerms(req, amountAfterFee)]
      /\ escrowState' = [escrowState EXCEPT ![w] = "PENDING"]
      /\ totalHeld' = totalHeld + amountAfterFee
      /\ yieldPosition' = [yieldPosition EXCEPT ![w] = deposit]
      /\ totalDeposited' = totalDeposited + deposit
      /\ UNCHANGED <<amountReleased, claimableBalances, totalClaimable>>
  BY <1>2 DEF CreateEscrow
<1>7. /\ SnapshotTerms(req, amountAfterFee).amountAfterFee = amountAfterFee
      /\ SnapshotTerms(req, amountAfterFee).appealBondFeeRecipient \in Accounts
  BY <1>1 DEF SnapshotTerms, TypeOK, Configs
<1>. HIDE DEF amountAfterFee, deposit
<1>8. /\ terms'[w].amountAfterFee = amountAfterFee
      /\ terms'[w].appealBondFeeRecipient \in Accounts
      /\ escrowState'[w] = "PENDING" /\ yieldPosition'[w] = deposit
      /\ \A v \in Workflows \ {w} : /\ terms'[v] = terms[v] /\ escrowState'[v] = escrowState[v]
                                    /\ yieldPosition'[v] = yieldPosition[v]
  BY <1>1, <1>2, <1>6, <1>7 DEF TypeOK
<1>9. /\ Held(w) = 0 /\ Held(w)' = amountAfterFee
      /\ \A v \in Workflows \ {w} : Held(v)' = Held(v)
  <2>1. Held(w) = 0
    BY <1>3 DEF Held, Active
  <2>2. Held(w)' = amountAfterFee
    <3>1. amountReleased'[w] = 0 /\ escrowState'[w] \in Active
      BY <1>3, <1>6, <1>8 DEF Active
    <3>. QED  BY <1>4, <1>8, <3>1 DEF Held, Remaining
  <2>3. \A v \in Workflows \ {w} : Held(v)' = Held(v)
    BY <1>6, <1>8 DEF Held, Remaining
  <2>. QED  BY <2>1, <2>2, <2>3
<1>10. /\ totalHeld' = totalHeld - Held(w) + Held(w)'
       /\ totalDeposited' = totalDeposited - yieldPosition[w] + yieldPosition'[w]
  BY <1>1, <1>3, <1>4, <1>5, <1>6, <1>8, <1>9 DEF TypeOK
<1>11. totalClaimable' =
        totalClaimable - SumFunction(claimableBalances[w]) + SumFunction(claimableBalances'[w])
  BY <1>1, <1>2, <1>6, ClaimSumType DEF TypeOK
<1>12. Booked(w)
  BY <1>6, <1>8, <1>9, <1>10, <1>11 DEF Booked
<1>. QED  BY <1>2, <1>12

\* What moves none of the records, but for an open escrow that becomes a disputed one.
SameBooks ==
  /\ UNCHANGED <<terms, amountReleased, claimableBalances, totalClaimable, totalHeld,
                 yieldPosition, totalDeposited>>
  /\ \A v \in Workflows : /\ escrowState'[v] = "NONE" <=> escrowState[v] = "NONE"
                          /\ escrowState'[v] \in Active <=> escrowState[v] \in Active

LEMMA SameBooksKept ==
  ASSUME BooksInv, SameBooks
  PROVE  TokenBooks' /\ \A w \in Workflows : Recorded(w)'
<1>1. \A w \in Workflows : Recorded(w)'
  BY DEF BooksInv, SameBooks, Recorded
<1>2. \A v \in Workflows : Held(v)' = Held(v)
  BY DEF SameBooks, Held, Remaining
<1>3. [v \in Workflows |-> Held(v)'] = [v \in Workflows |-> Held(v)]
  BY <1>2
<1>4. totalHeld' = SumFunction([v \in Workflows |-> Held(v)'])
  BY <1>3 DEF BooksInv, TokenBooks, SameBooks
<1>5. /\ totalClaimable' = SumFunction([v \in Workflows |-> SumFunction(claimableBalances'[v])])
      /\ totalDeposited' = SumFunction(yieldPosition')
  BY DEF BooksInv, TokenBooks, SameBooks
<1>. QED  BY <1>1, <1>4, <1>5 DEF TokenBooks

LEMMA BookedKept ==
  ASSUME BooksInv, TypeOK', NEW w \in Workflows, Booked(w)
  PROVE  TokenBooks' /\ \A v \in Workflows : Recorded(v)'
<1>1. TokenBooks'
  BY TokenBooksKept DEF BooksInv, PayInv, Inv
<1>2. ASSUME NEW v \in Workflows PROVE Recorded(v)'
  <2>1. CASE v = w
    BY <2>1 DEF Booked, Recorded
  <2>2. CASE v # w
    BY <2>2 DEF BooksInv, Booked, Recorded
  <2>. QED  BY <2>1, <2>2
<1>. QED  BY <1>1, <1>2

LEMMA RequestsBooked ==
  ASSUME BooksInv, NEW w \in Workflows, Requests(w)
  PROVE  Booked(w) \/ SameBooks
<1>1. TypeOK
  BY DEF BooksInv, PayInv, Inv
<1>2. PICK a \in Accounts :
        \/ \E x \in PartialAmounts : PartialRelease(w, a, x)
        \/ \E answer \in Address : RaiseDispute(w, a, answer)
        \/ \E q \in AppealQuotes, x \in ExcessValues : AppealDispute(w, a, q, x)
        \/ \E x \in BuyerShares, d \in SplitDelays : ProposeSplit(w, a, x, d)
        \/ CancelSplit(w, a)
        \/ WithdrawEscrow(w, a)
  BY DEF Requests
<1>3. CASE \E x \in PartialAmounts : PartialRelease(w, a, x)
  BY <1>3, PartialReleaseBooked
<1>4. CASE \E answer \in Address : RaiseDispute(w, a, answer)
  BY <1>1, <1>4 DEF RaiseDispute, SameBooks, Active, TypeOK
<1>5. CASE \E q \in AppealQuotes, x \in ExcessValues : AppealDispute(w, a, q, x)
  BY <1>5 DEF AppealDispute, SameBooks
<1>6. CASE \E x \in BuyerShares, d \in SplitDelays : ProposeSplit(w, a, x, d)
  BY <1>6 DEF ProposeSplit, SameBooks
<1>7. CASE CancelSplit(w, a)
  BY <1>7 DEF CancelSplit, SameBooks
<1>8. CASE WithdrawEscrow(w, a)
  BY <1>8, WithdrawEscrowBooked
<1>. QED  BY <1>2, <1>3, <1>4, <1>5, <1>6, <1>7, <1>8

LEMMA SettlementsBooked ==
  ASSUME BooksInv, NEW w \in Workflows, Settlements(w)
  PROVE  Booked(w) \/ SameBooks
<1>1. Inv /\ escrowState[w] \in Active
  BY SettlementsGuard DEF BooksInv, PayInv
<1>2. PICK u \in UnwindOutcomes(w, Remaining(w)) :
        \/ SenderCancel(w, u)
        \/ RecipientCancel(w, u)
        \/ \E a \in Accounts :
             \/ Release(w, a, u)
             \/ \E isRelease \in BOOLEAN, outcome \in RulingOutcomes(w) :
                  ExecuteResolution(w, a, isRelease, outcome, u)
             \/ AutomateTimedActions(w, a, u)
             \/ ResolveDisputeByTimeout(w, a, u)
             \/ ExecutePendingSettlement(w, a, u)
             \/ AcceptSplit(w, a, u)
  BY DEF Settlements
<1>3. CASE (ReleaseEscrowTransfer(w, u) \/ CancelAndRefund(w, u)) /\ UNCHANGED creationVars
  BY <1>1, <1>3, SettlementBooked
<1>4. CASE SenderCancel(w, u) \/ RecipientCancel(w, u)
  <2>1. CASE CancelAndRefund(w, u)
    BY <1>3, <1>4, <2>1 DEF SenderCancel, RecipientCancel
  <2>2. CASE ~CancelAndRefund(w, u)
    BY <1>4, <2>2 DEF SenderCancel, RecipientCancel, SameBooks
  <2>. QED  BY <2>1, <2>2
<1>5. CASE \E a \in Accounts, isRelease \in BOOLEAN, outcome \in RulingOutcomes(w) :
             ExecuteResolution(w, a, isRelease, outcome, u)
  <2>1. CASE \E isRelease \in BOOLEAN : Settle(w, isRelease, u)
    BY <1>3, <1>5, <2>1 DEF ExecuteResolution, Settle
  <2>2. CASE ~\E isRelease \in BOOLEAN : Settle(w, isRelease, u)
    BY <1>5, <2>2 DEF ExecuteResolution, SameBooks
  <2>. QED  BY <2>1, <2>2
<1>6. CASE \E a \in Accounts : \/ Release(w, a, u)
                               \/ AutomateTimedActions(w, a, u)
                               \/ ResolveDisputeByTimeout(w, a, u)
                               \/ ExecutePendingSettlement(w, a, u)
  BY <1>3, <1>6 DEF Release, AutomateTimedActions, ResolveDisputeByTimeout,
                    ExecutePendingSettlement, Settle
<1>7. CASE \E a \in Accounts : AcceptSplit(w, a, u)
  BY <1>7, AcceptSplitBooked
<1>. QED  BY <1>2, <1>4, <1>5, <1>6, <1>7

\* Every step keeps the totals of the escrow token equal to their sums.
LEMMA TokenBooksStep ==
  ASSUME BooksInv, TypeOK', [Next]_vars
  PROVE  TokenBooks' /\ \A v \in Workflows : Recorded(v)'
<1>1. SameBooks \/ \E w \in Workflows : Booked(w)
  <2>1. CASE Tick \/ WithdrawFees \/ UNCHANGED vars
    BY <2>1 DEF Tick, WithdrawFees, vars, SameBooks
  <2>2. CASE Governance
    <3>1. PICK c : SetConfig(c)
      BY <2>2, GovernanceIsConfig
    <3>. QED  BY <3>1 DEF SetConfig, SameBooks
  <2>3. CASE \E req \in CreateRequests, resolver \in Address, supported \in BOOLEAN :
               CreateEscrow(req, resolver, supported)
    BY <2>3, CreateEscrowBooked
  <2>4. CASE \E w \in Workflows : Requests(w)
    BY <2>4, RequestsBooked
  <2>5. CASE \E w \in Workflows : Settlements(w)
    BY <2>5, SettlementsBooked
  <2>6. CASE \E w \in Workflows : \E r \in PositionReturns(w) : RecoverPosition(w, r)
    BY <2>6, RecoverPositionBooked
  <2>7. CASE \E a \in Accounts : ClaimExcessEthRefund(a)
    BY <2>7 DEF ClaimExcessEthRefund, SameBooks
  <2>8. CASE \E b \in BondAssets, a \in Accounts : ClaimBondProtocolFees(b, a)
    BY <2>8 DEF ClaimBondProtocolFees, SameBooks
  <2>9. CASE \E w \in Workflows, named \in NamedCallers : AttemptOfAnotherCaller(w, named)
    BY <2>9 DEF AttemptOfAnotherCaller, creationVars, claimVars, holdingVars, yieldVars, SameBooks
  <2>. QED  BY <2>1, <2>2, <2>3, <2>4, <2>5, <2>6, <2>7, <2>8, <2>9 DEF Next
<1>. QED  BY <1>1, SameBooksKept, BookedKept

(***************************************************************************)
(* The bond fees and the ETH.                                              *)
(***************************************************************************)

\* A change of one account's fee in one asset, and of one account's refund, that the
\* totals follow.
LEMMA AppealBooksMoved ==
  ASSUME BooksInv, TypeOK', NEW b \in BondAssets, NEW r \in Accounts, NEW a \in Accounts,
         \A c \in BondAssets \ {b} :
           /\ claimableBondProtocolFees'[c] = claimableBondProtocolFees[c]
           /\ bondFeesOwed'[c] = bondFeesOwed[c],
         \A x \in Accounts \ {r} :
           claimableBondProtocolFees'[b][x] = claimableBondProtocolFees[b][x],
         bondFeesOwed'[b] =
           bondFeesOwed[b] - claimableBondProtocolFees[b][r] + claimableBondProtocolFees'[b][r],
         \A x \in Accounts \ {a} : claimableExcessEthRefunds'[x] = claimableExcessEthRefunds[x],
         ethBalance' =
           ethBalance - bondFeesOwed["ETH"] + bondFeesOwed'["ETH"]
             - claimableExcessEthRefunds[a] + claimableExcessEthRefunds'[a]
  PROVE  AppealBooks'
<1>1. TypeOK /\ AppealBooks /\ "ETH" \in BondAssets
  BY DEF BooksInv, PayInv, Inv, BondAssets
<1>2. ASSUME NEW c \in BondAssets
      PROVE  bondFeesOwed'[c] = SumFunction(claimableBondProtocolFees'[c])
  <2>1. CASE c # b
    BY <1>1, <2>1 DEF AppealBooks
  <2>2. CASE c = b
    <3>1. /\ claimableBondProtocolFees[b] \in [Accounts -> Int]
          /\ claimableBondProtocolFees'[b] \in [Accounts -> Int]
      BY <1>1 DEF TypeOK
    <3>2. SumFunction(claimableBondProtocolFees'[b]) = SumFunction(claimableBondProtocolFees[b])
            - claimableBondProtocolFees[b][r] + claimableBondProtocolFees'[b][r]
      BY <3>1, FinitelyMany, SumChangesAt
    <3>. QED  BY <1>1, <2>2, <3>2 DEF AppealBooks
  <2>. QED  BY <2>1, <2>2
<1>3. ethBalance' = bondFeesOwed'["ETH"] + SumFunction(claimableExcessEthRefunds')
  <2>1. /\ claimableExcessEthRefunds \in [Accounts -> Int]
        /\ claimableExcessEthRefunds' \in [Accounts -> Int]
    BY <1>1 DEF TypeOK
  <2>2. /\ SumFunction(claimableExcessEthRefunds') = SumFunction(claimableExcessEthRefunds)
             - claimableExcessEthRefunds[a] + claimableExcessEthRefunds'[a]
        /\ SumFunction(claimableExcessEthRefunds) \in Int
    BY <2>1, FinitelyMany, SumChangesAt, SumType
  <2>3. /\ ethBalance = bondFeesOwed["ETH"] + SumFunction(claimableExcessEthRefunds)
        /\ bondFeesOwed["ETH"] \in Int /\ bondFeesOwed'["ETH"] \in Int
        /\ claimableExcessEthRefunds[a] \in Int /\ claimableExcessEthRefunds'[a] \in Int
    BY <1>1, <2>1 DEF AppealBooks, TypeOK
  <2>. QED  BY <2>2, <2>3
<1>. QED  BY <1>2, <1>3 DEF AppealBooks

LEMMA AppealDisputeBooks ==
  ASSUME BooksInv, TypeOK', NEW w \in Workflows, NEW a \in Accounts, NEW q \in AppealQuotes,
         NEW excess \in ExcessValues, AppealDispute(w, a, q, excess)
  PROVE  AppealBooks'
<1>. DEFINE count == addressEscalationCount[a] + 1
            fee == BpsOf(ScaledBond(q.bond, count), terms[w].appealBondProtocolFeeBps)
            r == terms[w].appealBondFeeRecipient
<1>1. /\ TypeOK /\ q \in AppealQuote /\ excess \in Nat /\ Recorded(w)
      /\ escrowState[w] = "DISPUTED"
  BY InputAssumption DEF BooksInv, PayInv, Inv, AppealDispute
<1>2. r \in Accounts /\ q.asset \in BondAssets
  BY <1>1 DEF Recorded, AppealQuote
<1>3. fee \in Int
  <2>1. /\ count \in Nat \ {0} /\ q.bond \in Nat
        /\ terms[w].appealBondProtocolFeeBps \in 0 .. DENOMINATOR
    BY <1>1, FeeRateType DEF TypeOK, AppealQuote
  <2>2. ScaledBond(q.bond, count) \in Nat
    BY <2>1, ScaledBondType
  <2>3. fee \in 0 .. ScaledBond(q.bond, count)
    BY <2>1, <2>2, BpsOfBound
  <2>. QED  BY <2>2, <2>3
<1>4. /\ claimableBondProtocolFees' = [claimableBondProtocolFees EXCEPT ![q.asset][r] = @ + fee]
      /\ bondFeesOwed' = [bondFeesOwed EXCEPT ![q.asset] = @ + fee]
      /\ claimableExcessEthRefunds' = [claimableExcessEthRefunds EXCEPT ![a] = @ + excess]
      /\ ethBalance' = ethBalance + excess + (IF q.asset = "ETH" THEN fee ELSE 0)
  BY DEF AppealDispute
<1>. HIDE DEF fee
<1>5. PICK b \in BondAssets, p \in Accounts, c \in Int :
        /\ claimableBondProtocolFees' = [claimableBondProtocolFees EXCEPT ![b][p] = @ + c]
        /\ bondFeesOwed' = [bondFeesOwed EXCEPT ![b] = @ + c]
        /\ ethBalance' = ethBalance + excess + (IF b = "ETH" THEN c ELSE 0)
  BY <1>2, <1>3, <1>4
<1>6. /\ claimableBondProtocolFees'[b] = [claimableBondProtocolFees[b] EXCEPT ![p] = @ + c]
      /\ claimableBondProtocolFees[b] \in [Accounts -> Nat]
      /\ bondFeesOwed'[b] = bondFeesOwed[b] + c /\ bondFeesOwed[b] \in Int
      /\ \A d \in BondAssets \ {b} :
           /\ claimableBondProtocolFees'[d] = claimableBondProtocolFees[d]
           /\ bondFeesOwed'[d] = bondFeesOwed[d]
  BY <1>1, <1>5 DEF TypeOK
<1>7. /\ claimableBondProtocolFees'[b][p] = claimableBondProtocolFees[b][p] + c
      /\ claimableBondProtocolFees[b][p] \in Int
      /\ \A x \in Accounts \ {p} :
           claimableBondProtocolFees'[b][x] = claimableBondProtocolFees[b][x]
  BY <1>6
<1>8. /\ claimableExcessEthRefunds'[a] = claimableExcessEthRefunds[a] + excess
      /\ claimableExcessEthRefunds[a] \in Int
      /\ \A x \in Accounts \ {a} : claimableExcessEthRefunds'[x] = claimableExcessEthRefunds[x]
  BY <1>1, <1>4 DEF TypeOK
<1>9. bondFeesOwed'["ETH"] = bondFeesOwed["ETH"] + (IF b = "ETH" THEN c ELSE 0)
  BY <1>1, <1>5 DEF TypeOK, BondAssets
<1>10. ethBalance' = ethBalance - bondFeesOwed["ETH"] + bondFeesOwed'["ETH"]
                       - claimableExcessEthRefunds[a] + claimableExcessEthRefunds'[a]
  <2>1. ethBalance \in Int /\ bondFeesOwed["ETH"] \in Int
    BY <1>1 DEF TypeOK, BondAssets
  <2>. QED  BY <1>1, <1>5, <1>8, <1>9, <2>1
<1>11. bondFeesOwed'[b] =
         bondFeesOwed[b] - claimableBondProtocolFees[b][p] + claimableBondProtocolFees'[b][p]
  BY <1>6, <1>7
<1>. QED  BY <1>6, <1>7, <1>8, <1>10, <1>11, AppealBooksMoved

LEMMA ClaimBondProtocolFeesBooks ==
  ASSUME BooksInv, TypeOK', NEW b \in BondAssets, NEW a \in Accounts,
         ClaimBondProtocolFees(b, a)
  PROVE  AppealBooks'
<1>. DEFINE amount == claimableBondProtocolFees[b][a]
<1>1. /\ TypeOK /\ amount \in Nat
      /\ claimableBondProtocolFees' = [claimableBondProtocolFees EXCEPT ![b][a] = 0]
      /\ bondFeesOwed' = [bondFeesOwed EXCEPT ![b] = @ - amount]
      /\ ethBalance' = ethBalance - (IF b = "ETH" THEN amount ELSE 0)
      /\ UNCHANGED claimableExcessEthRefunds
  BY DEF BooksInv, PayInv, Inv, TypeOK, ClaimBondProtocolFees
<1>2. /\ claimableBondProtocolFees'[b][a] = 0
      /\ \A x \in Accounts \ {a} :
           claimableBondProtocolFees'[b][x] = claimableBondProtocolFees[b][x]
      /\ \A c \in BondAssets \ {b} :
           /\ claimableBondProtocolFees'[c] = claimableBondProtocolFees[c]
           /\ bondFeesOwed'[c] = bondFeesOwed[c]
      /\ bondFeesOwed'[b] = bondFeesOwed[b] - amount /\ bondFeesOwed[b] \in Int
      /\ ethBalance \in Int /\ bondFeesOwed["ETH"] \in Int
      /\ claimableExcessEthRefunds[a] \in Int
  BY <1>1 DEF TypeOK, BondAssets
<1>3. bondFeesOwed'["ETH"] = bondFeesOwed["ETH"] - (IF b = "ETH" THEN amount ELSE 0)
  BY <1>1, <1>2 DEF TypeOK, BondAssets
<1>4. /\ ethBalance' = ethBalance - bondFeesOwed["ETH"] + bondFeesOwed'["ETH"]
                         - claimableExcessEthRefunds[a] + claimableExcessEthRefunds'[a]
      /\ bondFeesOwed'[b] = bondFeesOwed[b] - claimableBondProtocolFees[b][a]
                              + claimableBondProtocolFees'[b][a]
  BY <1>1, <1>2, <1>3
<1>. QED  BY <1>1, <1>2, <1>4, AppealBooksMoved

LEMMA ClaimExcessEthRefundBooks ==
  ASSUME BooksInv, TypeOK', NEW a \in Accounts, ClaimExcessEthRefund(a)
  PROVE  AppealBooks'
<1>1. /\ TypeOK
      /\ claimableExcessEthRefunds' = [claimableExcessEthRefunds EXCEPT ![a] = 0]
      /\ ethBalance' = ethBalance - claimableExcessEthRefunds[a]
      /\ UNCHANGED <<claimableBondProtocolFees, bondFeesOwed>>
  BY DEF BooksInv, PayInv, Inv, ClaimExcessEthRefund
<1>2. /\ claimableExcessEthRefunds'[a] = 0 /\ claimableExcessEthRefunds[a] \in Int
      /\ \A x \in Accounts \ {a} : claimableExcessEthRefunds'[x] = claimableExcessEthRefunds[x]
      /\ ethBalance \in Int /\ bondFeesOwed["ETH"] \in Int /\ "ETH" \in BondAssets
      /\ claimableBondProtocolFees["ETH"][a] \in Int
  BY <1>1 DEF TypeOK, BondAssets
<1>3. /\ ethBalance' = ethBalance - bondFeesOwed["ETH"] + bondFeesOwed'["ETH"]
                         - claimableExcessEthRefunds[a] + claimableExcessEthRefunds'[a]
      /\ bondFeesOwed'["ETH"] = bondFeesOwed["ETH"] - claimableBondProtocolFees["ETH"][a]
                                  + claimableBondProtocolFees'["ETH"][a]
  BY <1>1, <1>2
<1>. QED  BY <1>1, <1>2, <1>3, AppealBooksMoved

LEMMA AppealBooksStep ==
  ASSUME BooksInv, TypeOK', [Next]_vars
  PROVE  AppealBooks'
<1>1. CASE UNCHANGED <<claimableBondProtocolFees, bondFeesOwed, claimableExcessEthRefunds,
                       ethBalance>>
  BY <1>1 DEF BooksInv, AppealBooks
<1>2. CASE Tick \/ WithdrawFees \/ UNCHANGED vars
  BY <1>1, <1>2 DEF Tick, WithdrawFees, vars
<1>3. CASE Governance
  <2>1. PICK c : SetConfig(c)
    BY <1>3, GovernanceIsConfig
  <2>. QED  BY <1>1, <2>1 DEF SetConfig
<1>4. CASE \E req \in CreateRequests, resolver \in Address, supported \in BOOLEAN :
             CreateEscrow(req, resolver, supported)
  BY <1>1, <1>4 DEF CreateEscrow
<1>5. CASE \E w \in Workflows : Requests(w)
  BY <1>1, <1>5, AppealDisputeBooks
     DEF Requests, PartialRelease, RaiseDispute, ProposeSplit, CancelSplit, WithdrawEscrow
<1>6. CASE \E w \in Workflows : Settlements(w)
  <2>1. PICK w, u :
          /\ w \in Workflows
          /\ \/ SenderCancel(w, u)
             \/ RecipientCancel(w, u)
             \/ \E a \in Accounts :
                  \/ Release(w, a, u)
                  \/ \E isRelease \in BOOLEAN, outcome \in RulingOutcomes(w) :
                       ExecuteResolution(w, a, isRelease, outcome, u)
                  \/ AutomateTimedActions(w, a, u)
                  \/ ResolveDisputeByTimeout(w, a, u)
                  \/ ExecutePendingSettlement(w, a, u)
                  \/ AcceptSplit(w, a, u)
    BY <1>6 DEF Settlements
  <2>2. CASE SenderCancel(w, u) \/ RecipientCancel(w, u)
    BY <1>1, <2>2 DEF SenderCancel, RecipientCancel
  <2>3. CASE \E a \in Accounts, isRelease \in BOOLEAN, outcome \in RulingOutcomes(w) :
               ExecuteResolution(w, a, isRelease, outcome, u)
    BY <1>1, <2>3 DEF ExecuteResolution
  <2>4. CASE \E a \in Accounts : \/ Release(w, a, u)
                                 \/ AutomateTimedActions(w, a, u)
                                 \/ ResolveDisputeByTimeout(w, a, u)
                                 \/ ExecutePendingSettlement(w, a, u)
                                 \/ AcceptSplit(w, a, u)
    BY <1>1, <2>4 DEF Release, AutomateTimedActions, ResolveDisputeByTimeout,
                      ExecutePendingSettlement, AcceptSplit
  <2>. QED  BY <2>1, <2>2, <2>3, <2>4
<1>7. CASE \E w \in Workflows : \E r \in PositionReturns(w) : RecoverPosition(w, r)
  BY <1>1, <1>7 DEF RecoverPosition
<1>8. CASE \E a \in Accounts : ClaimExcessEthRefund(a)
  BY <1>8, ClaimExcessEthRefundBooks
<1>9. CASE \E b \in BondAssets, a \in Accounts : ClaimBondProtocolFees(b, a)
  BY <1>9, ClaimBondProtocolFeesBooks
<1>10. CASE \E w \in Workflows, named \in NamedCallers : AttemptOfAnotherCaller(w, named)
  BY <1>1, <1>10 DEF AttemptOfAnotherCaller
<1>. QED  BY <1>2, <1>3, <1>4, <1>5, <1>6, <1>7, <1>8, <1>9, <1>10 DEF Next

LEMMA InitBooks ==
  ASSUME Init
  PROVE  TokenBooks /\ AppealBooks /\ \A w \in Workflows : Recorded(w)
<1>1. SumFunction([a \in Accounts |-> 0]) = 0 /\ SumFunction([w \in Workflows |-> 0]) = 0
  BY FinitelyMany, SumOfNothing
<1>2. \A w \in Workflows : Held(w) = 0 /\ SumFunction(claimableBalances[w]) = 0
  BY <1>1 DEF Init, Held, Active
<1>3. /\ [w \in Workflows |-> Held(w)] = [w \in Workflows |-> 0]
      /\ [w \in Workflows |-> SumFunction(claimableBalances[w])] = [w \in Workflows |-> 0]
  BY <1>2
<1>4. TokenBooks
  BY <1>1, <1>3 DEF Init, TokenBooks
<1>5. AppealBooks
  <2>1. \A b \in BondAssets : SumFunction(claimableBondProtocolFees[b]) = 0 /\ bondFeesOwed[b] = 0
    BY <1>1 DEF Init
  <2>2. ethBalance = 0 /\ SumFunction(claimableExcessEthRefunds) = 0 /\ bondFeesOwed["ETH"] = 0
    BY <1>1 DEF Init, BondAssets
  <2>. QED  BY <2>1, <2>2 DEF AppealBooks
<1>6. \A w \in Workflows : Recorded(w)
  BY DEF Init, Recorded
<1>. QED  BY <1>4, <1>5, <1>6

LEMMA BooksInvariance == Spec => []BooksInv
<1>1. PayInv /\ Init => BooksInv
  BY InitBooks DEF BooksInv
<1>2. PayInv' /\ BooksInv /\ [Next]_vars => BooksInv'
  <2>. SUFFICES ASSUME PayInv', BooksInv, [Next]_vars PROVE BooksInv'
    OBVIOUS
  <2>1. TypeOK'
    BY DEF PayInv, Inv
  <2>. QED  BY <2>1, TokenBooksStep, AppealBooksStep DEF BooksInv
<1>. QED  BY <1>1, <1>2, PayInvariance, PTL DEF Spec

\* The running totals of the vault and of the yield module are the sums of their records
\* and the vault's ETH is what it owes, for any number of escrows and accounts: no path
\* through parts, disputes, appeals, splits, yield and recoveries lets them drift.
THEOREM BooksAlwaysBalance == Spec => []BooksBalance
<1>1. BooksInv => BooksBalance
  BY DEF BooksInv, TokenBooks, AppealBooks, BooksBalance
<1>. QED  BY <1>1, BooksInvariance, PTL

\* What the checked subtractions of a settlement, a withdrawal, an unwind, a fee claim and
\* a refund ask for.
TotalsCover ==
  /\ \A w \in Workflows : /\ Held(w) <= totalHeld
                          /\ yieldPosition[w] <= totalDeposited
                          /\ \A a \in Accounts : claimableBalances[w][a] <= totalClaimable
  /\ \A a, b \in Accounts :
       claimableBondProtocolFees["ETH"][a] + claimableExcessEthRefunds[b] <= ethBalance

\* No call is refused because a total is less than its part: the checked subtractions of
\* the code never revert, for any number of escrows and accounts, whatever was paid before.
THEOREM TotalsAlwaysCover == Spec => []TotalsCover
<1>1. BooksInv => TotalsCover
  <2>. SUFFICES ASSUME BooksInv PROVE TotalsCover
    OBVIOUS
  <2>1. /\ Inv /\ TypeOK /\ TokenBooks /\ AppealBooks
        /\ "ETH" \in BondAssets
    BY DEF BooksInv, PayInv, Inv, BondAssets
  <2>2. ASSUME NEW w \in Workflows PROVE Held(w) <= totalHeld
    <3>. DEFINE f == [v \in Workflows |-> Held(v)]
    <3>1. \A v \in Workflows : Held(v) \in Nat
      BY <2>1, RemainingType DEF Held
    <3>2. f \in [Workflows -> Nat] /\ f[w] = Held(w) /\ totalHeld = SumFunction(f)
      BY <2>1, <3>1 DEF TokenBooks
    <3>. HIDE DEF f
    <3>. QED  BY <3>2, FinitelyMany, SumOfNaturals
  <2>3. ASSUME NEW w \in Workflows PROVE yieldPosition[w] <= totalDeposited
    <3>1. yieldPosition \in [Workflows -> Nat] /\ totalDeposited = SumFunction(yieldPosition)
      BY <2>1 DEF TypeOK, TokenBooks
    <3>. QED  BY <3>1, FinitelyMany, SumOfNaturals
  <2>4. ASSUME NEW w \in Workflows, NEW a \in Accounts
        PROVE  claimableBalances[w][a] <= totalClaimable
    <3>. DEFINE f == [v \in Workflows |-> SumFunction(claimableBalances[v])]
    <3>1. ASSUME NEW v \in Workflows
          PROVE  /\ SumFunction(claimableBalances[v]) \in Nat
                 /\ \A x \in Accounts : claimableBalances[v][x] <= SumFunction(claimableBalances[v])
      <4>1. claimableBalances[v] \in [Accounts -> Nat]
        BY <2>1 DEF TypeOK
      <4>. QED  BY <4>1, FinitelyMany, SumOfNaturals
    <3>2. /\ f \in [Workflows -> Nat] /\ f[w] = SumFunction(claimableBalances[w])
          /\ totalClaimable = SumFunction(f)
      BY <2>1, <3>1 DEF TokenBooks
    <3>. HIDE DEF f
    <3>3. f[w] <= totalClaimable /\ totalClaimable \in Nat
      BY <3>2, FinitelyMany, SumOfNaturals
    <3>4. /\ claimableBalances[w][a] <= SumFunction(claimableBalances[w])
          /\ SumFunction(claimableBalances[w]) \in Nat /\ claimableBalances[w][a] \in Nat
      BY <2>1, <3>1 DEF TypeOK
    <3>. QED  BY <3>2, <3>3, <3>4
  <2>5. ASSUME NEW a \in Accounts, NEW b \in Accounts
        PROVE  claimableBondProtocolFees["ETH"][a] + claimableExcessEthRefunds[b] <= ethBalance
    <3>1. /\ claimableBondProtocolFees["ETH"] \in [Accounts -> Nat]
          /\ claimableExcessEthRefunds \in [Accounts -> Nat]
          /\ ethBalance = SumFunction(claimableBondProtocolFees["ETH"])
                            + SumFunction(claimableExcessEthRefunds)
      BY <2>1 DEF TypeOK, AppealBooks
    <3>2. /\ SumFunction(claimableBondProtocolFees["ETH"]) \in Nat
          /\ SumFunction(claimableExcessEthRefunds) \in Nat
          /\ claimableBondProtocolFees["ETH"][a] <= SumFunction(claimableBondProtocolFees["ETH"])
          /\ claimableExcessEthRefunds[b] <= SumFunction(claimableExcessEthRefunds)
      BY <3>1, FinitelyMany, SumOfNaturals
    <3>3. claimableBondProtocolFees["ETH"][a] \in Nat /\ claimableExcessEthRefunds[b] \in Nat
      BY <3>1
    <3>. QED  BY <3>1, <3>2, <3>3
  <2>. QED  BY <2>2, <2>3, <2>4, <2>5 DEF TotalsCover
<1>. QED  BY <1>1, BooksInvariance, PTL

================================================================================
