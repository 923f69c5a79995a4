--------------------------- MODULE EscrowPromiseProofs ---------------------------
(***************************************************************************)
(* The refinement of EscrowVaultRefinement, proved for every value of the  *)
(* constants under which no escrow asks for yield and the resolution       *)
(* module does not contradict a ruling that waits.  Every call is looked   *)
(* at for the one escrow it concerns: what it does to that escrow's view   *)
(* is one move of the promise or none, and the views of the others stay.   *)
(***************************************************************************)
EXTENDS EscrowVaultRefinement, EscrowVaultSafety

USE DEF creationVars, disputeVars, consentVars, limitVars, claimVars, holdingVars, yieldVars,
        appealVars

Principal(w) == terms[w].amountAfterFee
FromGot(w) == Got(w, terms[w].from)
ToGot(w) == Got(w, terms[w].to)
View(w) == <<Stage(w), Ruling(w), Principal(w), FromGot(w), ToGot(w)>>

ViewRest(w) == Principal(w) - FromGot(w) - ToGot(w)

(***************************************************************************)
(* The moves of the promise, seen from one escrow.                         *)
(***************************************************************************)
OpenMove(w) ==
  /\ Stage(w) = "none" /\ Stage(w)' = "open"
  /\ Principal(w)' \in Nat \ {0}
  /\ UNCHANGED <<Ruling(w), FromGot(w), ToGot(w)>>

PartMove(w) ==
  \E part \in 1 .. ViewRest(w) :
    /\ Stage(w) = "open" /\ Stage(w)' = IF part = ViewRest(w) THEN "closed" ELSE "open"
    /\ ToGot(w) \in Int /\ ToGot(w)' = ToGot(w) + part
    /\ UNCHANGED <<Ruling(w), Principal(w), FromGot(w)>>

DisputeMove(w) ==
  /\ Stage(w) = "open" /\ Stage(w)' = "disputed"
  /\ UNCHANGED <<Ruling(w), Principal(w), FromGot(w), ToGot(w)>>

RuleMove(w, side) ==
  /\ Stage(w) = "disputed" /\ Stage(w)' = "ruled"
  /\ Ruling(w)' = side
  /\ UNCHANGED <<Principal(w), FromGot(w), ToGot(w)>>

AppealMove(w) ==
  /\ Stage(w) = "ruled" /\ Stage(w)' = "disputed"
  /\ Ruling(w)' = "none"
  /\ UNCHANGED <<Principal(w), FromGot(w), ToGot(w)>>

PayMove(w, side) ==
  /\ Stage(w) \in {"open", "disputed"} \/ (Stage(w) = "ruled" /\ Ruling(w) = side)
  /\ Stage(w)' = "closed"
  /\ Ruling(w)' = "none"
  /\ FromGot(w)' = IF side = "from" THEN FromGot(w) + ViewRest(w) ELSE FromGot(w)
  /\ ToGot(w)' = IF side = "to" THEN ToGot(w) + ViewRest(w) ELSE ToGot(w)
  /\ UNCHANGED Principal(w)

SplitMove(w) ==
  /\ Stage(w) \in {"open", "disputed"} /\ Stage(w)' = "closed"
  /\ FromGot(w) = 0 /\ ToGot(w) = 0
  /\ FromGot(w)' \in 0 .. Principal(w)
  /\ ToGot(w)' = Principal(w) - FromGot(w)'
  /\ UNCHANGED <<Ruling(w), Principal(w)>>

Move(w) ==
  \/ OpenMove(w) \/ PartMove(w) \/ DisputeMove(w) \/ AppealMove(w) \/ SplitMove(w)
  \/ \E side \in {"from", "to"} : RuleMove(w, side) \/ PayMove(w, side)

\* A move of one escrow is a step of the promise.
LEMMA MoveIsStep ==
  ASSUME NEW w \in Workflows, Move(w), \A v \in Workflows \ {w} : UNCHANGED View(v)
  PROVE  Promise!PromiseNext
<1>. DEFINE st == [v \in Workflows |-> Stage(v)]
            ru == [v \in Workflows |-> Ruling(v)]
            pr == [v \in Workflows |-> terms[v].amountAfterFee]
            pf == [v \in Workflows |-> Got(v, terms[v].from)]
            pt == [v \in Workflows |-> Got(v, terms[v].to)]
<1>1. /\ st' = [st EXCEPT ![w] = Stage(w)']
      /\ ru' = [ru EXCEPT ![w] = Ruling(w)']
      /\ pr' = [pr EXCEPT ![w] = Principal(w)']
      /\ pf' = [pf EXCEPT ![w] = FromGot(w)']
      /\ pt' = [pt EXCEPT ![w] = ToGot(w)']
  BY DEF View, Principal, FromGot, ToGot
<1>2. /\ st[w] = Stage(w) /\ ru[w] = Ruling(w) /\ pr[w] = Principal(w)
      /\ pf[w] = FromGot(w) /\ pt[w] = ToGot(w)
      /\ st'[w] = Stage(w)' /\ ru'[w] = Ruling(w)' /\ pr'[w] = Principal(w)'
      /\ pf'[w] = FromGot(w)' /\ pt'[w] = ToGot(w)'
  BY DEF Principal, FromGot, ToGot
<1>3. /\ ru = [ru EXCEPT ![w] = Ruling(w)] /\ pr = [pr EXCEPT ![w] = Principal(w)]
      /\ pf = [pf EXCEPT ![w] = FromGot(w)] /\ pt = [pt EXCEPT ![w] = ToGot(w)]
  BY DEF Principal, FromGot, ToGot
<1>4. Promise!Rest(w) = ViewRest(w)
  BY <1>2 DEF Promise!Rest, ViewRest
<1>. HIDE DEF st, ru, pr, pf, pt
<1>. USE <1>1, <1>2, <1>3, <1>4
<1>5. CASE OpenMove(w)
  <2>1. Promise!Open(w)
    BY <1>5 DEF OpenMove, Promise!Open, st, ru, pr, pf, pt
  <2>. QED  BY <2>1 DEF Promise!PromiseNext
<1>6. CASE PartMove(w)
  <2>1. PICK part \in 1 .. ViewRest(w) :
          /\ Stage(w) = "open" /\ Stage(w)' = IF part = ViewRest(w) THEN "closed" ELSE "open"
          /\ ToGot(w) \in Int /\ ToGot(w)' = ToGot(w) + part
          /\ UNCHANGED <<Ruling(w), Principal(w), FromGot(w)>>
    BY <1>6 DEF PartMove
  <2>2. part = pt'[w] - pt[w] /\ pt' = [pt EXCEPT ![w] = pt[w] + part]
    BY <2>1
  <2>3. Promise!PayPart(w)
    BY <2>1, <2>2 DEF Promise!PayPart, st, ru, pr, pf, pt
  <2>. QED  BY <2>3 DEF Promise!PromiseNext
<1>7. CASE DisputeMove(w)
  <2>1. Promise!Dispute(w)
    BY <1>7 DEF DisputeMove, Promise!Dispute, st, ru, pr, pf, pt
  <2>. QED  BY <2>1 DEF Promise!PromiseNext
<1>8. CASE AppealMove(w)
  <2>1. Promise!Appeal(w)
    BY <1>8 DEF AppealMove, Promise!Appeal, st, ru, pr, pf, pt
  <2>. QED  BY <2>1 DEF Promise!PromiseNext
<1>9. CASE SplitMove(w)
  <2>1. Promise!Split(w)
    BY <1>9 DEF SplitMove, Promise!Split, st, ru, pr, pf, pt
  <2>. QED  BY <2>1 DEF Promise!PromiseNext
<1>10. ASSUME NEW side \in {"from", "to"}, RuleMove(w, side) PROVE Promise!PromiseNext
  <2>1. Promise!Rule(w, side)
    BY <1>10 DEF RuleMove, Promise!Rule, st, ru, pr, pf, pt
  <2>. QED  BY <2>1 DEF Promise!PromiseNext, Promise!Sides
<1>11. ASSUME NEW side \in {"from", "to"}, PayMove(w, side) PROVE Promise!PromiseNext
  <2>1. Promise!Pay(w, side)
    BY <1>11 DEF PayMove, Promise!Pay, st, ru, pr, pf, pt
  <2>. QED  BY <2>1 DEF Promise!PromiseNext, Promise!Sides
<1>. QED  BY <1>5, <1>6, <1>7, <1>8, <1>9, <1>10, <1>11 DEF Move

(***************************************************************************)
(* The view of one escrow, from the ledgers of the vault.                  *)
(***************************************************************************)
LEMMA ViewOfActive ==
  ASSUME PayInv, NEW w \in Workflows, ~terms[w].yield, escrowState[w] \in Active
  PROVE  /\ TypeOK /\ v25YieldPrincipals[w] = 0
         /\ Stage(w) = IF escrowState[w] = "PENDING" THEN "open"
                       ELSE IF pendingSettlements[w].exists THEN "ruled" ELSE "disputed"
         /\ escrowState[w] = "PENDING" => ~pendingSettlements[w].exists
         /\ terms[w].from \in Accounts /\ terms[w].to \in Accounts /\ terms[w].from # terms[w].to
         /\ Principal(w) \in Nat /\ amountReleased[w] \in Nat
         /\ FromGot(w) = 0 /\ ToGot(w) = amountReleased[w]
         /\ Paid(w, terms[w].from) = 0 /\ Paid(w, terms[w].to) = amountReleased[w]
         /\ ViewRest(w) = Remaining(w) /\ Remaining(w) \in Nat \ {0}
<1>1. /\ TypeOK /\ Payable(w) /\ Phase(w) /\ Inv
      /\ escrowState[w] = "PENDING" \/ escrowState[w] = "DISPUTED"
  BY DEF PayInv, Inv, PhaseInv, Active
<1>2. /\ v25YieldPrincipals[w] = 0
      /\ terms[w].from \in Accounts /\ terms[w].to \in Accounts /\ terms[w].from # terms[w].to
      /\ Paid(w, terms[w].from) = 0 /\ Paid(w, terms[w].to) = amountReleased[w]
      /\ escrowState[w] = "PENDING" => ~pendingSettlements[w].exists
  BY <1>1 DEF Payable, PaidOut, Phase, Active
<1>3. Principal(w) \in Nat /\ amountReleased[w] \in Nat
  BY <1>1 DEF TypeOK, Terms, Principal
<1>4. Stage(w) = IF escrowState[w] = "PENDING" THEN "open"
                 ELSE IF pendingSettlements[w].exists THEN "ruled" ELSE "disputed"
  BY <1>1 DEF Stage
<1>5. FromGot(w) = 0 /\ ToGot(w) = amountReleased[w]
  BY <1>1, <1>2 DEF FromGot, ToGot, Got
<1>6. ViewRest(w) = Remaining(w) /\ Remaining(w) \in Nat \ {0}
  BY <1>1, <1>3, <1>5, RemainingType DEF ViewRest, Remaining, Principal
<1>. QED  BY <1>1, <1>2, <1>3, <1>4, <1>5, <1>6

\* What moves neither claims nor the phase of an escrow does not show.
LEMMA UnseenView ==
  ASSUME NEW w \in Workflows, UNCHANGED <<terms, escrowState, pendingSettlements>>,
         UNCHANGED <<claimableBalances, withdrawn>>
  PROVE  UNCHANGED View(w)
BY DEF View, Stage, Ruling, Principal, FromGot, ToGot, Got, Paid

LEMMA UntouchedView ==
  ASSUME NEW w \in Workflows, Untouched(w)
  PROVE  UNCHANGED View(w)
BY DEF Untouched, View, Stage, Ruling, Principal, FromGot, ToGot, Got, Paid

\* A ruling that waits is realized as it stands.
Realized(w) ==
  pendingSettlements[w].exists =>
    escrowState'[w] = IF pendingSettlements[w].isRelease THEN "RELEASED" ELSE "REFUNDED"

\* A settlement of all that remains, of an escrow whose waiting ruling (if any) says so.
LEMMA SettlementMove ==
  ASSUME PayInv, NEW w \in Workflows, ~terms[w].yield, escrowState[w] \in Active,
         NEW u \in UnwindOutcomes(w, Remaining(w)),
         ReleaseEscrowTransfer(w, u) \/ CancelAndRefund(w, u), UNCHANGED creationVars, Realized(w)
  PROVE  Move(w)
<1>. USE ViewOfActive DEF Realized
<1>1. PICK b \in {terms[w].from, terms[w].to} :
        /\ FinalizeClaimableSettlement(w, b, Remaining(w), u)
        /\ escrowState'[w] = IF b = terms[w].to THEN "RELEASED" ELSE "REFUNDED"
        /\ pendingSettlements'[w] = NoPending
  <2>1. CASE ReleaseEscrowTransfer(w, u)
    BY <2>1 DEF ReleaseEscrowTransfer, TypeOK
  <2>2. CASE CancelAndRefund(w, u)
    BY <2>2 DEF CancelAndRefund, TypeOK
  <2>. QED  BY <2>1, <2>2
<1>2. \A a \in Accounts : Paid(w, a)' = Paid(w, a) + (IF a = b THEN Remaining(w) ELSE 0)
  BY <1>1, FinalizePays
<1>3. Stage(w)' = "closed" /\ Ruling(w)' = "none" /\ UNCHANGED Principal(w)
  BY <1>1 DEF Stage, Ruling, NoPending, Principal
<1>4. /\ FromGot(w)' = FromGot(w) + (IF b = terms[w].from THEN Remaining(w) ELSE 0)
      /\ ToGot(w)' = ToGot(w) + (IF b = terms[w].to THEN Remaining(w) ELSE 0)
  BY <1>1, <1>2 DEF FromGot, ToGot, Got
<1>5. CASE b = terms[w].to
  <2>1. PayMove(w, "to")
    BY <1>1, <1>3, <1>4, <1>5 DEF PayMove, Ruling, Active
  <2>. QED  BY <2>1 DEF Move
<1>6. CASE b = terms[w].from
  <2>1. PayMove(w, "from")
    BY <1>1, <1>3, <1>4, <1>6 DEF PayMove, Ruling, Active
  <2>. QED  BY <2>1 DEF Move
<1>. QED  BY <1>1, <1>5, <1>6

LEMMA PartialReleaseMove ==
  ASSUME PayInv, NEW w \in Workflows, ~terms[w].yield, NEW a \in Accounts,
         NEW x \in PartialAmounts, PartialRelease(w, a, x)
  PROVE  Move(w)
<1>1. /\ escrowState[w] = "PENDING" /\ escrowState[w] \in Active
      /\ x \in Nat /\ x > 0 /\ x <= Remaining(w)
      /\ FinalizeClaimableSettlement(w, terms[w].to, x, NothingReceived(x))
      /\ UNCHANGED creationVars
  BY InputAssumption DEF PartialRelease, Active
<1>. USE <1>1, ViewOfActive
<1>2. \A c \in Accounts : Paid(w, c)' = Paid(w, c) + (IF c = terms[w].to THEN x ELSE 0)
  <2>1. NothingReceived(x) \in UnwindOutcomes(w, x)
    BY DEF UnwindOutcomes
  <2>. QED  BY <2>1, FinalizePays
<1>3. /\ escrowState'[w] = IF x = Remaining(w) THEN "RELEASED" ELSE "PENDING"
      /\ ~pendingSettlements'[w].exists
  BY DEF PartialRelease, TypeOK, NoPending
<1>4. /\ Stage(w)' = IF x = ViewRest(w) THEN "closed" ELSE "open"
      /\ UNCHANGED <<Ruling(w), Principal(w)>>
  BY <1>3 DEF Stage, Ruling, Principal
<1>5. FromGot(w)' = FromGot(w) /\ ToGot(w)' = ToGot(w) + x
  BY <1>2, <1>3 DEF FromGot, ToGot, Got
<1>6. PartMove(w)
  BY <1>4, <1>5 DEF PartMove
<1>. QED  BY <1>6 DEF Move

LEMMA WithdrawEscrowView ==
  ASSUME PayInv, NEW w \in Workflows, NEW a \in Accounts, WithdrawEscrow(w, a)
  PROVE  UNCHANGED View(w)
<1>1. TypeOK /\ Payable(w)
  BY DEF PayInv, Inv
<1>2. /\ claimableBalances'[w][a] = 0
      /\ withdrawn'[w][a] = withdrawn[w][a] + claimableBalances[w][a]
      /\ \A b \in Accounts \ {a} : /\ claimableBalances'[w][b] = claimableBalances[w][b]
                                   /\ withdrawn'[w][b] = withdrawn[w][b]
  BY <1>1 DEF WithdrawEscrow, TypeOK
<1>3. ASSUME NEW b \in Accounts PROVE Paid(w, b)' = Paid(w, b)
  BY <1>1, <1>2, PaidType DEF Paid
<1>4. UNCHANGED <<terms, escrowState, pendingSettlements>>
  BY DEF WithdrawEscrow
<1>5. UNCHANGED <<FromGot(w), ToGot(w)>>
  BY <1>1, <1>3, <1>4 DEF FromGot, ToGot, Got, Payable
<1>. QED  BY <1>4, <1>5 DEF View, Stage, Ruling, Principal

LEMMA RequestMove ==
  ASSUME PayInv, NEW w \in Workflows, ~terms[w].yield, Requests(w)
  PROVE  Move(w) \/ UNCHANGED View(w)
<1>1. PICK a \in Accounts :
        \/ \E x \in PartialAmounts : PartialRelease(w, a, x)
        \/ \E answer \in Address : RaiseDispute(w, a, answer)
        \/ \E q \in AppealQuotes, x \in ExcessValues : AppealDispute(w, a, q, x)
        \/ \E x \in BuyerShares, d \in SplitDelays : ProposeSplit(w, a, x, d)
        \/ CancelSplit(w, a)
        \/ WithdrawEscrow(w, a)
  BY DEF Requests
<1>2. CASE \E x \in PartialAmounts : PartialRelease(w, a, x)
  BY <1>2, PartialReleaseMove
<1>3. ASSUME NEW answer \in Address, RaiseDispute(w, a, answer) PROVE Move(w)
  <2>1. /\ escrowState[w] = "PENDING" /\ escrowState[w] \in Active
        /\ UNCHANGED <<terms, pendingSettlements, claimableBalances, withdrawn>>
        /\ escrowState' = [escrowState EXCEPT ![w] = "DISPUTED"]
    BY <1>3 DEF RaiseDispute, Active
  <2>2. escrowState'[w] = "DISPUTED"
    BY <2>1, ViewOfActive DEF TypeOK
  <2>3. DisputeMove(w)
    BY <2>1, <2>2, ViewOfActive
       DEF DisputeMove, Stage, Ruling, Principal, FromGot, ToGot, Got, Paid
  <2>. QED  BY <2>3 DEF Move
<1>4. ASSUME NEW q \in AppealQuotes, NEW x \in ExcessValues, AppealDispute(w, a, q, x)
      PROVE  Move(w) \/ UNCHANGED View(w)
  <2>1. /\ escrowState[w] = "DISPUTED" /\ escrowState[w] \in Active
        /\ UNCHANGED <<terms, escrowState, claimableBalances, withdrawn>>
        /\ pendingSettlements' = [pendingSettlements EXCEPT ![w] = NoPending]
    BY <1>4 DEF AppealDispute, Active
  <2>2. ~pendingSettlements'[w].exists
    BY <2>1, ViewOfActive DEF TypeOK, NoPending
  <2>3. /\ UNCHANGED <<Principal(w), FromGot(w), ToGot(w)>>
        /\ Stage(w)' = "disputed" /\ Ruling(w)' = "none"
    BY <2>1, <2>2 DEF Stage, Ruling, Principal, FromGot, ToGot, Got, Paid
  <2>4. CASE pendingSettlements[w].exists
    <3>1. AppealMove(w)
      BY <2>1, <2>3, <2>4, ViewOfActive DEF AppealMove
    <3>. QED  BY <3>1 DEF Move
  <2>5. CASE ~pendingSettlements[w].exists
    BY <2>1, <2>3, <2>5, ViewOfActive DEF View, Ruling
  <2>. QED  BY <2>4, <2>5
<1>5. CASE \/ \E x \in BuyerShares, d \in SplitDelays : ProposeSplit(w, a, x, d)
           \/ CancelSplit(w, a)
  BY <1>5, UnseenView DEF ProposeSplit, CancelSplit
<1>6. CASE WithdrawEscrow(w, a)
  BY <1>6, WithdrawEscrowView
<1>. QED  BY <1>1, <1>2, <1>3, <1>4, <1>5, <1>6

LEMMA AcceptSplitMove ==
  ASSUME PayInv, NEW w \in Workflows, ~terms[w].yield, NEW a, NEW u, AcceptSplit(w, a, u)
  PROVE  Move(w)
<1>1. /\ escrowState[w] \in Active /\ amountReleased[w] = 0 /\ ~pendingSettlements[w].exists
      /\ escrowState' = [escrowState EXCEPT ![w] = "RESOLVED"]
      /\ UNCHANGED <<creationVars, pendingSettlements>>
  BY DEF AcceptSplit
<1>. USE <1>1, ViewOfActive
<1>2. escrowState'[w] = "RESOLVED"
  BY DEF TypeOK
<1>3. /\ Paid(w, terms[w].from)' \in Nat /\ Paid(w, terms[w].to)' \in Nat
      /\ Paid(w, terms[w].from)' + Paid(w, terms[w].to)' = terms[w].amountAfterFee
  <2>1. TypeOK'
    BY AcceptSplitInv DEF PayInv, Inv
  <2>2. PaidOut(w)'
    BY AcceptSplitPayable DEF Payable
  <2>3. \A b \in Accounts : claimableBalances'[w][b] \in Nat /\ withdrawn'[w][b] \in Nat
    BY <2>1 DEF TypeOK
  <2>4. terms[w].from \in Accounts /\ terms[w].to \in Accounts
    BY <1>2 DEF PayInv, Payable
  <2>. QED  BY <1>2, <2>2, <2>3, <2>4 DEF PaidOut, Paid
<1>4. /\ FromGot(w)' = Paid(w, terms[w].from)' /\ ToGot(w)' = Paid(w, terms[w].to)'
      /\ Principal(w) = terms[w].amountAfterFee
  BY <1>2 DEF FromGot, ToGot, Got, Principal
<1>5. Stage(w)' = "closed" /\ UNCHANGED <<Ruling(w), Principal(w)>>
  BY <1>2 DEF Stage, Ruling, Principal
<1>6. SplitMove(w)
  BY <1>3, <1>4, <1>5 DEF SplitMove, Active
<1>. QED  BY <1>6 DEF Move

\* The terms of an escrow are its own for good.
LEMMA RequestsTerms ==
  ASSUME NEW w \in Workflows, Requests(w)
  PROVE  UNCHANGED terms
<1>1. PICK a \in Accounts :
        \/ \E x \in PartialAmounts : PartialRelease(w, a, x)
        \/ \E answer \in Address : RaiseDispute(w, a, answer)
        \/ \E q \in AppealQuotes, x \in ExcessValues : AppealDispute(w, a, q, x)
        \/ \E x \in BuyerShares, d \in SplitDelays : ProposeSplit(w, a, x, d)
        \/ CancelSplit(w, a)
        \/ WithdrawEscrow(w, a)
  BY DEF Requests
<1>. QED  BY <1>1 DEF PartialRelease, RaiseDispute, AppealDispute, ProposeSplit, CancelSplit,
                      WithdrawEscrow

LEMMA SettlementsTerms ==
  ASSUME NEW w \in Workflows, Settlements(w)
  PROVE  UNCHANGED terms
<1>1. PICK u \in UnwindOutcomes(w, Remaining(w)) :
        \/ SenderCancel(w, u)
        \/ RecipientCancel(w, u)
        \/ \E a \in Accounts :
             \/ Release(w, a, u)
             \/ \E isRelease \in BOOLEAN, outcome \in RulingOutcomes(w) :
                  ExecuteResolution(w, a, isRelease, outcome, u)
             \/ AutomateTimedActions(w, a, u)
             \/ ResolveDisputeByTimeout(w, a, u)
             \/ ExecutePendingSettlement(w, a, u)
             \/ AcceptSplit(w, a, u)
  BY DEF Settlements
<1>2. CASE SenderCancel(w, u) \/ RecipientCancel(w, u)
  BY <1>2 DEF SenderCancel, RecipientCancel
<1>3. CASE \E a \in Accounts :
             \/ Release(w, a, u)
             \/ AutomateTimedActions(w, a, u)
             \/ ResolveDisputeByTimeout(w, a, u)
             \/ ExecutePendingSettlement(w, a, u)
  BY <1>3 DEF Release, AutomateTimedActions, ResolveDisputeByTimeout, ExecutePendingSettlement
<1>4. CASE \E a \in Accounts, isRelease \in BOOLEAN, outcome \in RulingOutcomes(w) :
             ExecuteResolution(w, a, isRelease, outcome, u)
  BY <1>4 DEF ExecuteResolution
<1>5. CASE \E a \in Accounts : AcceptSplit(w, a, u)
  BY <1>5 DEF AcceptSplit
<1>. QED  BY <1>1, <1>2, <1>3, <1>4, <1>5

LEMMA SettlementsMove ==
  ASSUME PayInv, NEW w \in Workflows, ~terms[w].yield, Settlements(w), Realized(w)
  PROVE  Move(w) \/ UNCHANGED View(w)
<1>1. PICK u \in UnwindOutcomes(w, Remaining(w)) :
        \/ SenderCancel(w, u)
        \/ RecipientCancel(w, u)
        \/ \E a \in Accounts :
             \/ Release(w, a, u)
             \/ \E isRelease \in BOOLEAN, outcome \in RulingOutcomes(w) :
                  ExecuteResolution(w, a, isRelease, outcome, u)
             \/ AutomateTimedActions(w, a, u)
             \/ ResolveDisputeByTimeout(w, a, u)
             \/ ExecutePendingSettlement(w, a, u)
             \/ AcceptSplit(w, a, u)
  BY DEF Settlements
<1>2. escrowState[w] \in Active
  BY SettlementsGuard DEF PayInv
<1>3. CASE /\ ReleaseEscrowTransfer(w, u) \/ CancelAndRefund(w, u)
           /\ UNCHANGED creationVars
  BY <1>2, <1>3, SettlementMove
<1>4. CASE SenderCancel(w, u) \/ RecipientCancel(w, u)
  <2>1. \/ CancelAndRefund(w, u) /\ UNCHANGED creationVars
        \/ UNCHANGED <<creationVars, escrowState, disputeVars, claimVars>>
    BY <1>4 DEF SenderCancel, RecipientCancel
  <2>. QED  BY <1>3, <2>1, UnseenView
<1>5. ASSUME NEW a \in Accounts, NEW isRelease \in BOOLEAN, NEW outcome \in RulingOutcomes(w),
             ExecuteResolution(w, a, isRelease, outcome, u)
      PROVE  Move(w) \/ UNCHANGED View(w)
  <2>1. CASE Settle(w, isRelease, u)
    <3>1. ReleaseEscrowTransfer(w, u) \/ CancelAndRefund(w, u)
      BY <2>1 DEF Settle
    <3>2. UNCHANGED creationVars
      BY <1>5 DEF ExecuteResolution
    <3>. QED  BY <1>3, <3>1, <3>2
  <2>2. CASE ~Settle(w, isRelease, u)
    <3>1. /\ escrowState[w] = "DISPUTED" /\ ~pendingSettlements[w].exists
          /\ pendingSettlements' = [pendingSettlements EXCEPT ![w] =
               [exists |-> TRUE, isRelease |-> isRelease, appealDeadline |-> outcome.deadline]]
          /\ UNCHANGED <<terms, escrowState, claimableBalances, withdrawn>>
      BY <1>5, <2>2 DEF ExecuteResolution
    <3>2. pendingSettlements'[w].exists /\ pendingSettlements'[w].isRelease = isRelease
      BY <1>2, <3>1, ViewOfActive DEF TypeOK
    <3>3. /\ Stage(w) = "disputed" /\ Stage(w)' = "ruled"
          /\ Ruling(w)' = IF isRelease THEN "to" ELSE "from"
          /\ UNCHANGED <<Principal(w), FromGot(w), ToGot(w)>>
      BY <3>1, <3>2 DEF Stage, Ruling, Principal, FromGot, ToGot, Got, Paid
    <3>4. RuleMove(w, IF isRelease THEN "to" ELSE "from")
      BY <3>3 DEF RuleMove
    <3>. QED  BY <3>4 DEF Move
  <2>. QED  BY <2>1, <2>2
<1>6. CASE \E a \in Accounts : \/ Release(w, a, u)
                               \/ AutomateTimedActions(w, a, u)
                               \/ ResolveDisputeByTimeout(w, a, u)
                               \/ ExecutePendingSettlement(w, a, u)
  BY <1>3, <1>6 DEF Release, AutomateTimedActions, ResolveDisputeByTimeout,
                    ExecutePendingSettlement, Settle
<1>7. CASE \E a \in Accounts : AcceptSplit(w, a, u)
  BY <1>7, AcceptSplitMove
<1>. QED  BY <1>1, <1>4, <1>5, <1>6, <1>7

\* Whatever a module answers, a settlement of an escrow whose ruling waits pays out.
LEMMA SettlementOverRuling ==
  ASSUME PayInv, NEW w \in Workflows, pendingSettlements[w].exists, Settlements(w)
  PROVE  escrowState'[w] \in {"RELEASED", "REFUNDED"}
<1>1. TypeOK /\ escrowState[w] = "DISPUTED"
  BY DEF PayInv, Inv, PhaseInv, Phase
<1>2. PICK u \in UnwindOutcomes(w, Remaining(w)) :
        \/ SenderCancel(w, u)
        \/ RecipientCancel(w, u)
        \/ \E a \in Accounts :
             \/ Release(w, a, u)
             \/ \E isRelease \in BOOLEAN, outcome \in RulingOutcomes(w) :
                  ExecuteResolution(w, a, isRelease, outcome, u)
             \/ AutomateTimedActions(w, a, u)
             \/ ResolveDisputeByTimeout(w, a, u)
             \/ ExecutePendingSettlement(w, a, u)
             \/ AcceptSplit(w, a, u)
  BY DEF Settlements
<1>3. ~(SenderCancel(w, u) \/ RecipientCancel(w, u))
  BY <1>1 DEF SenderCancel, RecipientCancel
<1>4. ASSUME NEW a \in Accounts PROVE ~(Release(w, a, u) \/ AcceptSplit(w, a, u))
  BY <1>1 DEF Release, AcceptSplit
<1>5. ASSUME NEW a \in Accounts, NEW isRelease \in BOOLEAN, NEW outcome \in RulingOutcomes(w),
             ExecuteResolution(w, a, isRelease, outcome, u)
      PROVE  Settle(w, isRelease, u)
  BY <1>5 DEF ExecuteResolution
<1>6. ASSUME NEW a \in Accounts,
             \/ AutomateTimedActions(w, a, u)
             \/ ResolveDisputeByTimeout(w, a, u)
             \/ ExecutePendingSettlement(w, a, u)
      PROVE  \E isRelease \in BOOLEAN : Settle(w, isRelease, u)
  BY <1>1, <1>6 DEF AutomateTimedActions, ResolveDisputeByTimeout, ExecutePendingSettlement,
                    Settle, TypeOK, PendingSettlement
<1>7. \E isRelease \in BOOLEAN : Settle(w, isRelease, u)
  BY <1>2, <1>3, <1>4, <1>5, <1>6
<1>. QED  BY <1>1, <1>7 DEF Settle, ReleaseEscrowTransfer, CancelAndRefund, TypeOK

LEMMA CreateEscrowMove ==
  ASSUME PayInv, NEW req \in CreateRequests, NEW resolver \in Address,
         NEW supported \in BOOLEAN, CreateEscrow(req, resolver, supported),
         NEW w \in Workflows, w = escrowCount
  PROVE  Move(w) /\ terms'[w].yield = req.yield
<1>. DEFINE amountAfterFee == req.amount - BpsOf(req.amount, config.escrowFee)
<1>1. /\ TypeOK /\ Payable(w) /\ escrowState[w] = "NONE" /\ ~pendingSettlements[w].exists
  BY CreationIsFresh DEF PayInv, Inv, PhaseInv, Phase
<1>2. /\ terms' = [terms EXCEPT ![w] = SnapshotTerms(req, amountAfterFee)]
      /\ escrowState' = [escrowState EXCEPT ![w] = "PENDING"]
      /\ UNCHANGED <<pendingSettlements, claimVars>>
  BY DEF CreateEscrow
<1>3. /\ SnapshotTerms(req, amountAfterFee).from = req.from
      /\ SnapshotTerms(req, amountAfterFee).to = req.to
      /\ SnapshotTerms(req, amountAfterFee).yield = req.yield
      /\ SnapshotTerms(req, amountAfterFee).amountAfterFee = amountAfterFee
  BY DEF SnapshotTerms
<1>. HIDE DEF amountAfterFee
<1>4. terms'[w] = SnapshotTerms(req, amountAfterFee) /\ escrowState'[w] = "PENDING"
  BY <1>1, <1>2 DEF TypeOK
<1>5. \A a \in Accounts : Paid(w, a)' = 0
  BY <1>1, <1>2 DEF Payable, Paid
<1>6. req.from \in Accounts /\ req.to \in Accounts
  BY InputAssumption DEF CreateRequest
<1>7. amountAfterFee \in Nat \ {0}
  <2>1. Inv' /\ w \in Workflows
    BY CreateEscrowInv DEF PayInv
  <2>2. amountReleased'[w] \in Nat /\ terms'[w].amountAfterFee \in Nat
    BY <2>1 DEF Inv, TypeOK, Terms
  <2>3. amountReleased'[w] < terms'[w].amountAfterFee
    BY <1>4, <2>1 DEF Inv, PhaseInv, Phase, Active
  <2>. QED  BY <1>3, <1>4, <2>2, <2>3
<1>8. /\ Stage(w) = "none" /\ Stage(w)' = "open" /\ UNCHANGED Ruling(w)
      /\ Principal(w)' = amountAfterFee
      /\ FromGot(w) = 0 /\ FromGot(w)' = 0 /\ ToGot(w) = 0 /\ ToGot(w)' = 0
  BY <1>1, <1>2, <1>3, <1>4, <1>5, <1>6 DEF Stage, Ruling, Principal, FromGot, ToGot, Got
<1>9. OpenMove(w)
  BY <1>7, <1>8 DEF OpenMove
<1>. QED  BY <1>3, <1>4, <1>9 DEF Move

(***************************************************************************)
(* The refinement.                                                         *)
(***************************************************************************)
NoYield == \A w \in Workflows : ~terms[w].yield

LEMMA InitIsPromised == Init => NoYield /\ Promise!PromiseInit
<1>. SUFFICES ASSUME Init PROVE NoYield /\ Promise!PromiseInit
  OBVIOUS
<1>1. \A w \in Workflows :
        /\ terms[w] = NoTerms /\ escrowState[w] = "NONE" /\ pendingSettlements[w] = NoPending
  BY DEF Init
<1>2. \A w \in Workflows :
        /\ Stage(w) = "none" /\ Ruling(w) = "none" /\ terms[w].amountAfterFee = 0
        /\ Got(w, terms[w].from) = 0 /\ Got(w, terms[w].to) = 0
  BY <1>1 DEF Stage, Ruling, Got, NoTerms, NoPending
<1>. QED  BY <1>1, <1>2 DEF NoYield, NoTerms, Promise!PromiseInit

LEMMA NoYieldStep ==
  ASSUME PayInv, NoYield, [Next]_vars, \A req \in CreateRequests : ~req.yield
  PROVE  NoYield'
<1>1. SUFFICES ASSUME NEW w \in Workflows PROVE ~terms'[w].yield
  BY DEF NoYield
<1>2. TypeOK /\ ~terms[w].yield
  BY DEF PayInv, Inv, NoYield
<1>3. CASE Untouched(w)
  BY <1>2, <1>3 DEF Untouched
<1>4. CASE Requests(w)
  BY <1>2, <1>4, RequestsTerms
<1>5. CASE Settlements(w)
  BY <1>2, <1>5, SettlementsTerms
<1>6. CASE /\ w = escrowCount
           /\ \E req \in CreateRequests, resolver \in Address, supported \in BOOLEAN :
                CreateEscrow(req, resolver, supported)
  BY <1>6, CreateEscrowMove
<1>. QED  BY <1>2, <1>3, <1>4, <1>5, <1>6, Locality

\* Some escrow moves and the others keep their view, or every view stays.
LEMMA StepIsPromised ==
  ASSUME PayInv, NoYield, [Next]_vars, \A w \in Workflows : Settlements(w) => Realized(w)
  PROVE  [Promise!PromiseNext]_(Promise!promiseVars)
<1>1. TypeOK
  BY DEF PayInv, Inv
<1>2. ASSUME \A w \in Workflows : UNCHANGED View(w)
      PROVE  UNCHANGED Promise!promiseVars
  <2>1. \A w \in Workflows :
          UNCHANGED <<Stage(w), Ruling(w), terms[w].amountAfterFee,
                      Got(w, terms[w].from), Got(w, terms[w].to)>>
    BY <1>2 DEF View, Principal, FromGot, ToGot
  <2>. QED  BY <2>1 DEF Promise!promiseVars
<1>3. ASSUME NEW w \in Workflows, Move(w) \/ UNCHANGED View(w),
             \A v \in Workflows \ {w} : UNCHANGED View(v)
      PROVE  [Promise!PromiseNext]_(Promise!promiseVars)
  BY <1>2, <1>3, MoveIsStep
<1>4. CASE \E w \in Workflows : Requests(w)
  <2>1. PICK w \in Workflows : Requests(w)
    BY <1>4
  <2>2. \A v \in Workflows \ {w} : UNCHANGED View(v)
    BY <1>1, <2>1, RequestsLocal, UntouchedView
  <2>. QED  BY <1>3, <2>1, <2>2, RequestMove DEF NoYield
<1>5. CASE \E w \in Workflows : Settlements(w)
  <2>1. PICK w \in Workflows : Settlements(w)
    BY <1>5
  <2>2. \A v \in Workflows \ {w} : UNCHANGED View(v)
    BY <1>1, <2>1, SettlementsLocal, UntouchedView
  <2>. QED  BY <1>3, <2>1, <2>2, SettlementsMove DEF NoYield
<1>6. ASSUME NEW req \in CreateRequests, NEW resolver \in Address, NEW supported \in BOOLEAN,
             CreateEscrow(req, resolver, supported)
      PROVE  [Promise!PromiseNext]_(Promise!promiseVars)
  <2>1. escrowCount \in Workflows
    BY <1>1, <1>6, BoundAssumption DEF CreateEscrow, TypeOK, Workflows
  <2>2. \A v \in Workflows \ {escrowCount} : UNCHANGED View(v)
    BY <1>1, <1>6, <2>1 DEF CreateEscrow, TypeOK, View, Stage, Ruling, Principal, FromGot, ToGot,
                            Got, Paid
  <2>. QED  BY <1>3, <1>6, <2>1, <2>2, CreateEscrowMove
<1>7. CASE Governance
  BY <1>2, <1>7, GovernanceIsConfig, UnseenView DEF SetConfig
<1>8. CASE \/ Tick \/ WithdrawFees \/ UNCHANGED vars
           \/ \E w \in Workflows : \E r \in PositionReturns(w) : RecoverPosition(w, r)
           \/ \E a \in Accounts : ClaimExcessEthRefund(a)
           \/ \E b \in BondAssets, a \in Accounts : ClaimBondProtocolFees(b, a)
           \/ \E w \in Workflows, named \in NamedCallers : AttemptOfAnotherCaller(w, named)
  <2>1. UNCHANGED <<terms, escrowState, pendingSettlements, claimableBalances, withdrawn>>
    BY <1>8 DEF Tick, WithdrawFees, vars, RecoverPosition, ClaimExcessEthRefund,
                ClaimBondProtocolFees, AttemptOfAnotherCaller, creationVars, disputeVars, claimVars
  <2>. QED  BY <1>2, <2>1, UnseenView
<1>. QED  BY <1>4, <1>5, <1>6, <1>7, <1>8 DEF Next

\* Where nobody asks for yield and no module contradicts a ruling that waits, the vault does
\* what EscrowPromise says of every escrow, whatever the number of escrows and accounts, the
\* delays, the fees and the settings: all of the principal is paid, once, to whom its end
\* names, and a ruling that waits is realized as ruled or taken away by an appeal.
THEOREM VaultKeepsPromise ==
  ASSUME ConsistentModule, \A req \in CreateRequests : ~req.yield
  PROVE  Spec => KeepsPromise
<1>2. PayInv /\ NoYield /\ [Next]_vars => NoYield' /\ [Promise!PromiseNext]_(Promise!promiseVars)
  <2>. SUFFICES ASSUME PayInv, NoYield, [Next]_vars
                PROVE  NoYield' /\ [Promise!PromiseNext]_(Promise!promiseVars)
    OBVIOUS
  <2>1. \A w \in Workflows : Settlements(w) => Realized(w)
    BY RuledSettlement DEF PayInv, Realized
  <2>. QED  BY <2>1, NoYieldStep, StepIsPromised
<1>. QED  BY InitIsPromised, <1>2, PayInvariance, PTL DEF Spec, KeepsPromise, Promise!PromiseSpec

================================================================================
