---------------------------- MODULE EscrowVaultSafety ----------------------------
(***************************************************************************)
(* Safety of EscrowVault, proved from the inductive invariant of           *)
(* EscrowVaultProofs for every value of the constants.                     *)
(***************************************************************************)
EXTENDS EscrowVaultProofs

(***************************************************************************)
(* Locality: a call made for one escrow leaves the others alone.  The      *)
(* lemmas after this one need to look at the calls for one escrow only.    *)
(***************************************************************************)
Untouched(w) ==
  /\ terms'[w] = terms[w]
  /\ escrowState'[w] = escrowState[w]
  /\ senderStatus'[w] = senderStatus[w]
  /\ recipientStatus'[w] = recipientStatus[w]
  /\ disputeResolver'[w] = disputeResolver[w]
  /\ pendingSettlements'[w] = pendingSettlements[w]
  /\ amountReleased'[w] = amountReleased[w]
  /\ claimableBalances'[w] = claimableBalances[w]
  /\ withdrawn'[w] = withdrawn[w]
  /\ v25YieldPrincipals'[w] = v25YieldPrincipals[w]

USE DEF creationVars, disputeVars, consentVars, limitVars, claimVars, holdingVars, yieldVars,
        appealVars

LEMMA FinalizeLocal ==
  ASSUME TypeOK, NEW v \in Workflows, NEW w \in Workflows \ {v}, NEW b, NEW x, NEW u,
         FinalizeClaimableSettlement(v, b, x, u)
  PROVE  /\ claimableBalances'[w] = claimableBalances[w]
         /\ withdrawn'[w] = withdrawn[w]
         /\ v25YieldPrincipals'[w] = v25YieldPrincipals[w]
BY DEF TypeOK, FinalizeClaimableSettlement, Unwind

LEMMA SettlementLocal ==
  ASSUME TypeOK, NEW v \in Workflows, NEW w \in Workflows \ {v}, NEW u,
         ReleaseEscrowTransfer(v, u) \/ CancelAndRefund(v, u), UNCHANGED creationVars
  PROVE  Untouched(w)
<1>1. CASE ReleaseEscrowTransfer(v, u)
  <2>1. FinalizeClaimableSettlement(v, terms[v].to, Remaining(v), u)
    BY <1>1 DEF ReleaseEscrowTransfer
  <2>. QED  BY <1>1, <2>1, FinalizeLocal DEF ReleaseEscrowTransfer, TypeOK, Untouched
<1>2. CASE CancelAndRefund(v, u)
  <2>1. FinalizeClaimableSettlement(v, terms[v].from, Remaining(v), u)
    BY <1>2 DEF CancelAndRefund
  <2>. QED  BY <1>2, <2>1, FinalizeLocal DEF CancelAndRefund, TypeOK, Untouched
<1>. QED  BY <1>1, <1>2

LEMMA RequestsLocal ==
  ASSUME TypeOK, NEW v \in Workflows, NEW w \in Workflows \ {v}, Requests(v)
  PROVE  Untouched(w)
<1>1. PICK a \in Accounts :
        \/ \E x \in PartialAmounts : PartialRelease(v, a, x)
        \/ \E answer \in Address : RaiseDispute(v, a, answer)
        \/ \E q \in AppealQuotes, x \in ExcessValues : AppealDispute(v, a, q, x)
        \/ \E x \in BuyerShares, d \in SplitDelays : ProposeSplit(v, a, x, d)
        \/ CancelSplit(v, a)
        \/ WithdrawEscrow(v, a)
  BY DEF Requests
<1>2. CASE \E x \in PartialAmounts : PartialRelease(v, a, x)
  <2>1. PICK x \in PartialAmounts : PartialRelease(v, a, x)
    BY <1>2
  <2>2. FinalizeClaimableSettlement(v, terms[v].to, x, NothingReceived(x))
    BY <2>1 DEF PartialRelease
  <2>. QED  BY <2>1, <2>2, FinalizeLocal DEF PartialRelease, TypeOK, Untouched
<1>3. CASE \E answer \in Address : RaiseDispute(v, a, answer)
  BY <1>3 DEF RaiseDispute, TypeOK, Untouched
<1>4. CASE \E q \in AppealQuotes, x \in ExcessValues : AppealDispute(v, a, q, x)
  BY <1>4 DEF AppealDispute, TypeOK, Untouched
<1>5. CASE \E x \in BuyerShares, d \in SplitDelays : ProposeSplit(v, a, x, d)
  BY <1>5 DEF ProposeSplit, Untouched
<1>6. CASE CancelSplit(v, a)
  BY <1>6 DEF CancelSplit, Untouched
<1>7. CASE WithdrawEscrow(v, a)
  BY <1>7 DEF WithdrawEscrow, TypeOK, Untouched
<1>. QED  BY <1>1, <1>2, <1>3, <1>4, <1>5, <1>6, <1>7

LEMMA SettlementsLocal ==
  ASSUME TypeOK, NEW v \in Workflows, NEW w \in Workflows \ {v}, Settlements(v)
  PROVE  Untouched(w)
<1>1. PICK u \in UnwindOutcomes(v, Remaining(v)) :
        \/ SenderCancel(v, u)
        \/ RecipientCancel(v, u)
        \/ \E a \in Accounts :
             \/ Release(v, a, u)
             \/ \E isRelease \in BOOLEAN, outcome \in RulingOutcomes(v) :
                  ExecuteResolution(v, a, isRelease, outcome, u)
             \/ AutomateTimedActions(v, a, u)
             \/ ResolveDisputeByTimeout(v, a, u)
             \/ ExecutePendingSettlement(v, a, u)
             \/ AcceptSplit(v, a, u)
  BY DEF Settlements
<1>2. CASE /\ ReleaseEscrowTransfer(v, u) \/ CancelAndRefund(v, u)
           /\ UNCHANGED creationVars
  BY <1>2, SettlementLocal
<1>3. CASE SenderCancel(v, u) \/ RecipientCancel(v, u)
  <2>1. CASE CancelAndRefund(v, u)
    BY <1>3, <2>1, SettlementLocal DEF SenderCancel, RecipientCancel
  <2>2. CASE ~CancelAndRefund(v, u)
    BY <1>3, <2>2 DEF SenderCancel, RecipientCancel, TypeOK, Untouched
  <2>. QED  BY <2>1, <2>2
<1>4. CASE \E a \in Accounts, isRelease \in BOOLEAN, outcome \in RulingOutcomes(v) :
             ExecuteResolution(v, a, isRelease, outcome, u)
  <2>1. CASE \E isRelease \in BOOLEAN : Settle(v, isRelease, u)
    BY <1>2, <1>4, <2>1 DEF ExecuteResolution, Settle
  <2>2. CASE ~\E isRelease \in BOOLEAN : Settle(v, isRelease, u)
    BY <1>4, <2>2 DEF ExecuteResolution, TypeOK, Untouched
  <2>. QED  BY <2>1, <2>2
<1>5. CASE \E a \in Accounts : \/ Release(v, a, u)
                               \/ AutomateTimedActions(v, a, u)
                               \/ ResolveDisputeByTimeout(v, a, u)
                               \/ ExecutePendingSettlement(v, a, u)
  BY <1>2, <1>5 DEF Release, AutomateTimedActions, ResolveDisputeByTimeout,
                    ExecutePendingSettlement, Settle
<1>6. CASE \E a \in Accounts : AcceptSplit(v, a, u)
  BY <1>6 DEF AcceptSplit, Unwind, TypeOK, Untouched
<1>. QED  BY <1>1, <1>3, <1>4, <1>5, <1>6

\* All that governance can change is the configuration.
LEMMA GovernanceIsConfig == Governance => \E c : SetConfig(c)
BY DEF Governance, SetFeeRecipient, SetEscrowFeeBps, SetYieldProtocolFeeBps,
       SetAppealBondProtocolFeeBps, SetResolutionModule, SetTimeoutConfig,
       SetMinDisputeEscrowValue, SetMaxDisputesPerSenderPerDay, SetResolverPolicy,
       ActivateResolutionModule, ActivateReleaseStrategy, ActivateCancellationStrategy,
       ActivateYieldModule, SetBondCollector, PauseYieldDeposits, ResumeYieldDeposits

\* What touches an escrow's own record is a call made for it.
LEMMA Locality ==
  ASSUME TypeOK, [Next]_vars, NEW w \in Workflows
  PROVE  \/ Untouched(w)
         \/ Requests(w)
         \/ Settlements(w)
         \/ /\ w = escrowCount
            /\ \E req \in CreateRequests, resolver \in Address, supported \in BOOLEAN :
                 CreateEscrow(req, resolver, supported)
<1>1. CASE Tick \/ WithdrawFees \/ UNCHANGED vars
  BY <1>1 DEF Tick, WithdrawFees, vars, Untouched
<1>2. CASE Governance
  <2>1. PICK c : SetConfig(c)
    BY <1>2, GovernanceIsConfig
  <2>. QED  BY <2>1 DEF SetConfig, Untouched
<1>3. CASE \E req \in CreateRequests, resolver \in Address, supported \in BOOLEAN :
             CreateEscrow(req, resolver, supported)
  <2>1. PICK req \in CreateRequests, resolver \in Address, supported \in BOOLEAN :
          CreateEscrow(req, resolver, supported)
    BY <1>3
  <2>2. CASE w = escrowCount
    BY <1>3, <2>2
  <2>3. CASE w # escrowCount
    <3>1. \E snapshot, deposit, resolved :
            /\ terms' = [terms EXCEPT ![escrowCount] = snapshot]
            /\ escrowState' = [escrowState EXCEPT ![escrowCount] = "PENDING"]
            /\ disputeResolver' = [disputeResolver EXCEPT ![escrowCount] = resolved]
            /\ v25YieldPrincipals' = [v25YieldPrincipals EXCEPT ![escrowCount] = deposit]
            /\ UNCHANGED <<pendingSettlements, consentVars, amountReleased, claimVars>>
      BY <2>1 DEF CreateEscrow
    <3>. QED  BY <2>3, <3>1 DEF TypeOK, Untouched
  <2>. QED  BY <2>2, <2>3
<1>4. CASE \E v \in Workflows : Requests(v)
  BY <1>4, RequestsLocal
<1>5. CASE \E v \in Workflows : Settlements(v)
  BY <1>5, SettlementsLocal
<1>6. CASE \E v \in Workflows : \E r \in PositionReturns(v) : RecoverPosition(v, r)
  BY <1>6 DEF RecoverPosition, Untouched
<1>7. CASE \E a \in Accounts : ClaimExcessEthRefund(a)
  BY <1>7 DEF ClaimExcessEthRefund, Untouched
<1>8. CASE \E b \in BondAssets, a \in Accounts : ClaimBondProtocolFees(b, a)
  BY <1>8 DEF ClaimBondProtocolFees, Untouched
<1>9. CASE \E v \in Workflows, named \in NamedCallers : AttemptOfAnotherCaller(v, named)
  BY <1>9 DEF AttemptOfAnotherCaller, Untouched
<1>. QED  BY <1>1, <1>2, <1>3, <1>4, <1>5, <1>6, <1>7, <1>8, <1>9 DEF Next

(***************************************************************************)
(* Action properties.                                                      *)
(***************************************************************************)

\* A settlement is for an open escrow; while a ruling waits it is the ruling's execution.
LEMMA SettlementsGuard ==
  ASSUME Inv, NEW w \in Workflows, Settlements(w)
  PROVE  escrowState[w] \in Active
<1>1. PICK u \in UnwindOutcomes(w, Remaining(w)) :
        \/ SenderCancel(w, u)
        \/ RecipientCancel(w, u)
        \/ \E a \in Accounts :
             \/ Release(w, a, u)
             \/ \E isRelease \in BOOLEAN, outcome \in RulingOutcomes(w) :
                  ExecuteResolution(w, a, isRelease, outcome, u)
             \/ AutomateTimedActions(w, a, u)
             \/ ResolveDisputeByTimeout(w, a, u)
             \/ ExecutePendingSettlement(w, a, u)
             \/ AcceptSplit(w, a, u)
  BY DEF Settlements
<1>2. CASE SenderCancel(w, u) \/ RecipientCancel(w, u)
  BY <1>2 DEF SenderCancel, RecipientCancel, Active
<1>3. CASE \E a \in Accounts : Release(w, a, u) \/ AcceptSplit(w, a, u)
  BY <1>3 DEF Release, AcceptSplit, Active
<1>4. CASE \E a \in Accounts, isRelease \in BOOLEAN, outcome \in RulingOutcomes(w) :
             ExecuteResolution(w, a, isRelease, outcome, u)
  BY <1>4 DEF ExecuteResolution, Active
<1>5. CASE \E a \in Accounts : \/ AutomateTimedActions(w, a, u)
                               \/ ResolveDisputeByTimeout(w, a, u)
                               \/ ExecutePendingSettlement(w, a, u)
  BY <1>5 DEF AutomateTimedActions, ResolveDisputeByTimeout, ExecutePendingSettlement,
              PendingDue, DisputeAutoCancelDue, DisputeTimedOut, AutoReleaseDue, AutoCancelDue,
              Active
<1>. QED  BY <1>1, <1>2, <1>3, <1>4, <1>5

\* Nothing is created in the place of an escrow that exists.
LEMMA CreationIsFresh ==
  ASSUME Inv, NEW w \in Workflows, w = escrowCount
  PROVE  escrowState[w] = "NONE"
BY DEF Inv, PhaseInv, Phase, TypeOK, Workflows

LEMMA TerminalIsFinalStep ==
  ASSUME Inv, [Next]_vars, NEW w \in Workflows, escrowState[w] \in Terminal
  PROVE  /\ escrowState'[w] = escrowState[w]
         /\ \A a \in Accounts :
              Paid(w, a)' = Paid(w, a) /\ claimableBalances'[w][a] <= claimableBalances[w][a]
<1>1. TypeOK /\ escrowState[w] # "NONE" /\ escrowState[w] \notin Active
  BY DEF Inv, Terminal, Active
<1>2. \A a \in Accounts : claimableBalances[w][a] \in Nat /\ withdrawn[w][a] \in Nat
  BY <1>1 DEF TypeOK
<1>3. CASE Untouched(w)
  BY <1>2, <1>3 DEF Untouched, Paid
<1>4. CASE Requests(w)
  <2>1. CASE \E a \in Accounts : WithdrawEscrow(w, a)
    <3>1. PICK a \in Accounts : WithdrawEscrow(w, a)
      BY <2>1
    <3>2. /\ escrowState' = escrowState
          /\ claimableBalances'[w][a] = 0
          /\ withdrawn'[w][a] = withdrawn[w][a] + claimableBalances[w][a]
          /\ \A b \in Accounts \ {a} : /\ claimableBalances'[w][b] = claimableBalances[w][b]
                                       /\ withdrawn'[w][b] = withdrawn[w][b]
      BY <1>1, <3>1 DEF WithdrawEscrow, TypeOK
    <3>. QED  BY <1>2, <3>2 DEF Paid
  <2>2. CASE ~\E a \in Accounts : WithdrawEscrow(w, a)
    <3>1. UNCHANGED <<escrowState, claimVars>>
      <4>1. PICK a \in Accounts :
              \/ \E x \in PartialAmounts : PartialRelease(w, a, x)
              \/ \E answer \in Address : RaiseDispute(w, a, answer)
              \/ \E q \in AppealQuotes, x \in ExcessValues : AppealDispute(w, a, q, x)
              \/ \E x \in BuyerShares, d \in SplitDelays : ProposeSplit(w, a, x, d)
              \/ CancelSplit(w, a)
        BY <1>4, <2>2 DEF Requests
      <4>2. ~\E x \in PartialAmounts : PartialRelease(w, a, x)
        BY <1>1 DEF PartialRelease, Active
      <4>3. ~\E answer \in Address : RaiseDispute(w, a, answer)
        BY <1>1 DEF RaiseDispute, Active
      <4>. QED  BY <4>1, <4>2, <4>3 DEF AppealDispute, ProposeSplit, CancelSplit
    <3>. QED  BY <1>2, <3>1 DEF Paid
  <2>. QED  BY <2>1, <2>2
<1>. QED  BY <1>1, <1>3, <1>4, Locality, SettlementsGuard, CreationIsFresh

\* An escrow that has ended stays as it ended and nobody's part in it grows: whatever the
\* parties, resolvers, keepers and governance do, there is no second settlement.
THEOREM TerminalForever == Spec => TerminalIsFinal
<1>1. Inv /\ [Next]_vars =>
        [\A w \in Workflows :
           escrowState[w] \in Terminal =>
             /\ escrowState'[w] = escrowState[w]
             /\ \A a \in Accounts :
                  Paid(w, a)' = Paid(w, a) /\ claimableBalances'[w][a] <= claimableBalances[w][a]]_vars
  BY TerminalIsFinalStep
<1>. QED  BY <1>1, Invariance, PTL DEF TerminalIsFinal, Spec

LEMMA AuthorityStableStep ==
  ASSUME Inv, [Next]_vars, NEW w \in Workflows,
         escrowState[w] = "DISPUTED", escrowState'[w] = "DISPUTED",
         AuthorizedResolvers(w)' # AuthorizedResolvers(w)
  PROVE  \E a \in {terms[w].from, terms[w].to} :
           addressEscalationCount'[a] > addressEscalationCount[a]
<1>1. TypeOK /\ escrowState[w] # "NONE"
  BY DEF Inv
<1>2. ~(terms'[w] = terms[w] /\ disputeResolver'[w] = disputeResolver[w])
  BY DEF AuthorizedResolvers, IsAuthorizedDisputeResolver, AuthorizingModule
<1>3. ~Untouched(w)
  BY <1>2 DEF Untouched
<1>4. ASSUME Settlements(w) PROVE FALSE
  <2>1. CASE disputeResolver' = disputeResolver /\ terms' = terms
    BY <1>2, <2>1
  <2>. QED
    BY <1>4, <2>1 DEF Settlements, SenderCancel, RecipientCancel, Release, ExecuteResolution,
       AutomateTimedActions, ResolveDisputeByTimeout, ExecutePendingSettlement, AcceptSplit,
       Settle, ReleaseEscrowTransfer, CancelAndRefund
<1>5. CASE Requests(w)
  <2>1. PICK a \in Accounts, q \in AppealQuotes, x \in ExcessValues : AppealDispute(w, a, q, x)
    BY <1>2, <1>5 DEF Requests, PartialRelease, FinalizeClaimableSettlement, RaiseDispute,
                      ProposeSplit, CancelSplit, WithdrawEscrow
  <2>2. /\ a \in {terms[w].from, terms[w].to}
        /\ addressEscalationCount' =
             [addressEscalationCount EXCEPT ![a] = addressEscalationCount[a] + 1]
    BY <2>1 DEF AppealDispute
  <2>. QED  BY <1>1, <2>2 DEF TypeOK
<1>. QED  BY <1>1, <1>3, <1>4, <1>5, Locality, CreationIsFresh

\* Governance cannot change who rules on a running dispute: for any modules it may activate.
THEOREM AuthorityOfDispute == Spec => AuthorityStable
<1>1. Inv /\ [Next]_vars =>
        [\A w \in Workflows :
           (escrowState[w] = "DISPUTED" /\ escrowState'[w] = "DISPUTED"
              /\ AuthorizedResolvers(w)' # AuthorizedResolvers(w)) =>
                \E a \in {terms[w].from, terms[w].to} :
                  addressEscalationCount'[a] > addressEscalationCount[a]]_vars
  BY AuthorityStableStep
<1>. QED  BY <1>1, Invariance, PTL DEF AuthorityStable, Spec

\* While a ruling waits, a consistent module's answer never executes another at once.
LEMMA NoImmediateRuling ==
  ASSUME ConsistentModule, NEW w \in Workflows, pendingSettlements[w].exists,
         NEW outcome \in RulingOutcomes(w)
  PROVE  ~outcome.immediate
<1>1. outcome # Execute /\ (outcome = Execute \/ \E d : outcome = Deadline(d))
  BY DEF RulingOutcomes
<1>. QED  BY <1>1 DEF Deadline

\* The only settlement of an escrow whose ruling waits is that ruling's, when it is due.
LEMMA RuledSettlement ==
  ASSUME Inv, ConsistentModule, NEW w \in Workflows, pendingSettlements[w].exists, Settlements(w)
  PROVE  /\ now >= pendingSettlements[w].appealDeadline
         /\ ~pendingSettlements'[w].exists
         /\ escrowState'[w] = IF pendingSettlements[w].isRelease THEN "RELEASED" ELSE "REFUNDED"
<1>1. TypeOK /\ escrowState[w] = "DISPUTED"
  BY DEF Inv, PhaseInv, Phase
<1>2. PICK u \in UnwindOutcomes(w, Remaining(w)) :
        \/ SenderCancel(w, u)
        \/ RecipientCancel(w, u)
        \/ \E a \in Accounts :
             \/ Release(w, a, u)
             \/ \E isRelease \in BOOLEAN, outcome \in RulingOutcomes(w) :
                  ExecuteResolution(w, a, isRelease, outcome, u)
             \/ AutomateTimedActions(w, a, u)
             \/ ResolveDisputeByTimeout(w, a, u)
             \/ ExecutePendingSettlement(w, a, u)
             \/ AcceptSplit(w, a, u)
  BY DEF Settlements
<1>3. ~(SenderCancel(w, u) \/ RecipientCancel(w, u))
  BY <1>1 DEF SenderCancel, RecipientCancel
<1>4. ASSUME NEW a \in Accounts PROVE ~(Release(w, a, u) \/ AcceptSplit(w, a, u))
  BY <1>1 DEF Release, AcceptSplit
<1>5. ASSUME NEW a \in Accounts, NEW isRelease \in BOOLEAN, NEW outcome \in RulingOutcomes(w)
      PROVE  ~ExecuteResolution(w, a, isRelease, outcome, u)
  BY NoImmediateRuling DEF ExecuteResolution
<1>6. ASSUME NEW a \in Accounts,
             \/ AutomateTimedActions(w, a, u)
             \/ ResolveDisputeByTimeout(w, a, u)
             \/ ExecutePendingSettlement(w, a, u)
      PROVE  PendingDue(w) /\ Settle(w, pendingSettlements[w].isRelease, u)
  BY <1>1, <1>6 DEF AutomateTimedActions, ResolveDisputeByTimeout, ExecutePendingSettlement,
                    DisputeAutoCancelDue, DisputeTimedOut, AutoReleaseDue, AutoCancelDue
<1>7. PendingDue(w) /\ Settle(w, pendingSettlements[w].isRelease, u)
  BY <1>2, <1>3, <1>4, <1>5, <1>6
<1>8. /\ pendingSettlements' = [pendingSettlements EXCEPT ![w] = NoPending]
      /\ escrowState' = [escrowState EXCEPT ![w] =
           IF pendingSettlements[w].isRelease THEN "RELEASED" ELSE "REFUNDED"]
  BY <1>7 DEF Settle, ReleaseEscrowTransfer, CancelAndRefund
<1>. QED  BY <1>1, <1>7, <1>8 DEF PendingDue, NoPending, TypeOK

LEMMA RulingHonouredStep ==
  ASSUME Inv, [Next]_vars, ConsistentModule, NEW w \in Workflows,
         pendingSettlements[w].exists, pendingSettlements'[w] # pendingSettlements[w]
  PROVE  LET loser == IF pendingSettlements[w].isRelease THEN terms[w].from ELSE terms[w].to
         IN  /\ ~pendingSettlements'[w].exists
             /\ \/ /\ now >= pendingSettlements[w].appealDeadline
                   /\ escrowState'[w] =
                        IF pendingSettlements[w].isRelease THEN "RELEASED" ELSE "REFUNDED"
                \/ /\ escrowState'[w] = "DISPUTED"
                   /\ disputeRaisedTimestamp'[w] = disputeRaisedTimestamp[w]
                   /\ addressEscalationCount'[loser] > addressEscalationCount[loser]
<1>. DEFINE loser == IF pendingSettlements[w].isRelease THEN terms[w].from ELSE terms[w].to
<1>1. TypeOK /\ escrowState[w] = "DISPUTED"
  BY DEF Inv, PhaseInv, Phase
<1>2. ~Untouched(w)
  BY DEF Untouched
<1>3. CASE Settlements(w)
  BY <1>3, RuledSettlement
<1>4. CASE Requests(w)
  <2>1. PICK a \in Accounts :
          \/ \E x \in PartialAmounts : PartialRelease(w, a, x)
          \/ \E answer \in Address : RaiseDispute(w, a, answer)
          \/ \E q \in AppealQuotes, x \in ExcessValues : AppealDispute(w, a, q, x)
          \/ \E x \in BuyerShares, d \in SplitDelays : ProposeSplit(w, a, x, d)
          \/ CancelSplit(w, a)
          \/ WithdrawEscrow(w, a)
    BY <1>4 DEF Requests
  <2>2. PICK q \in AppealQuotes, x \in ExcessValues : AppealDispute(w, a, q, x)
    BY <1>1, <2>1 DEF PartialRelease, RaiseDispute, ProposeSplit, CancelSplit, WithdrawEscrow
  <2>3. /\ a = loser
        /\ escrowState' = escrowState /\ disputeRaisedTimestamp' = disputeRaisedTimestamp
        /\ pendingSettlements' = [pendingSettlements EXCEPT ![w] = NoPending]
        /\ addressEscalationCount' =
             [addressEscalationCount EXCEPT ![a] = addressEscalationCount[a] + 1]
    BY <2>2 DEF AppealDispute
  <2>4. /\ addressEscalationCount[a] \in Nat
        /\ addressEscalationCount'[a] = addressEscalationCount[a] + 1
        /\ ~pendingSettlements'[w].exists
    BY <1>1, <2>3 DEF TypeOK, NoPending
  <2>. QED  BY <1>1, <2>3, <2>4
<1>. QED  BY <1>1, <1>2, <1>3, <1>4, Locality, CreationIsFresh

\* Of a module that does not contradict the ruling that waits: neither a timeout nor a split
\* nor another resolver overtakes it, for any windows, durations and number of escrows.
THEOREM RulingsHonoured ==
  ASSUME ConsistentModule
  PROVE  Spec => RulingHonoured
<1>1. Inv /\ [Next]_vars =>
        [\A w \in Workflows :
           (pendingSettlements[w].exists /\ pendingSettlements'[w] # pendingSettlements[w]) =>
             LET loser == IF pendingSettlements[w].isRelease THEN terms[w].from ELSE terms[w].to
             IN  /\ ~pendingSettlements'[w].exists
                 /\ \/ /\ now >= pendingSettlements[w].appealDeadline
                       /\ escrowState'[w] =
                            IF pendingSettlements[w].isRelease THEN "RELEASED" ELSE "REFUNDED"
                    \/ /\ escrowState'[w] = "DISPUTED"
                       /\ disputeRaisedTimestamp'[w] = disputeRaisedTimestamp[w]
                       /\ addressEscalationCount'[loser] > addressEscalationCount[loser]]_vars
  BY RulingHonouredStep
<1>. QED  BY <1>1, Invariance, PTL DEF RulingHonoured, Spec

LEMMA NoUnilateralRefundStep ==
  ASSUME Inv, [Next]_vars, NEW w \in Workflows,
         escrowState[w] = "PENDING", escrowState'[w] = "REFUNDED"
  PROVE  \/ AutoCancelDue(w)
         \/ terms[w].cancellationStrategy \in OtherStrategies
         \/ \E u \in UnwindOutcomes(w, Remaining(w)) :
              \/ recipientStatus[w] = "AGREE_TO_CANCEL" /\ SenderCancel(w, u)
              \/ senderStatus[w] = "AGREE_TO_CANCEL" /\ RecipientCancel(w, u)
<1>1. TypeOK /\ ~Untouched(w)
  BY DEF Inv, Untouched
<1>2. ASSUME Requests(w) PROVE FALSE
  <2>1. PICK a \in Accounts :
          \/ \E x \in PartialAmounts : PartialRelease(w, a, x)
          \/ \E answer \in Address : RaiseDispute(w, a, answer)
          \/ \E q \in AppealQuotes, x \in ExcessValues : AppealDispute(w, a, q, x)
          \/ \E x \in BuyerShares, d \in SplitDelays : ProposeSplit(w, a, x, d)
          \/ CancelSplit(w, a)
          \/ WithdrawEscrow(w, a)
    BY <1>2 DEF Requests
  <2>2. \/ escrowState' = escrowState
        \/ escrowState' = [escrowState EXCEPT ![w] = "RELEASED"]
        \/ escrowState' = [escrowState EXCEPT ![w] = "DISPUTED"]
    BY <2>1 DEF PartialRelease, RaiseDispute, AppealDispute, ProposeSplit, CancelSplit,
                WithdrawEscrow
  <2>. QED  BY <1>1, <2>2 DEF TypeOK
<1>3. CASE Settlements(w)
  <2>1. PICK u \in UnwindOutcomes(w, Remaining(w)) :
          \/ SenderCancel(w, u)
          \/ RecipientCancel(w, u)
          \/ \E a \in Accounts :
               \/ Release(w, a, u)
               \/ \E isRelease \in BOOLEAN, outcome \in RulingOutcomes(w) :
                    ExecuteResolution(w, a, isRelease, outcome, u)
               \/ AutomateTimedActions(w, a, u)
               \/ ResolveDisputeByTimeout(w, a, u)
               \/ ExecutePendingSettlement(w, a, u)
               \/ AcceptSplit(w, a, u)
    BY <1>3 DEF Settlements
  <2>2. CASE SenderCancel(w, u) \/ RecipientCancel(w, u)
    <3>1. terms[w].from # terms[w].to
      BY DEF Inv, PhaseInv, Phase
    <3>2. MayCancelAlone(w) \/ CounterpartyConsented(w, IF SenderCancel(w, u) THEN terms[w].from
                                                                            ELSE terms[w].to)
      BY <2>2 DEF SenderCancel, RecipientCancel
    <3>. QED  BY <2>2, <3>1, <3>2 DEF MayCancelAlone, CounterpartyConsented
  <2>3. CASE \E a \in Accounts : AutomateTimedActions(w, a, u)
    <3>1. CASE AutoReleaseDue(w) /\ Settle(w, TRUE, u)
      BY <1>1, <3>1 DEF Settle, ReleaseEscrowTransfer, TypeOK
    <3>. QED
      BY <2>3, <3>1 DEF AutomateTimedActions, PendingDue, DisputeAutoCancelDue, DisputeTimedOut
  <2>4. ASSUME NEW a \in Accounts, Release(w, a, u) \/ AcceptSplit(w, a, u) PROVE FALSE
    <3>1. \/ escrowState' = [escrowState EXCEPT ![w] = "RELEASED"]
          \/ escrowState' = [escrowState EXCEPT ![w] = "RESOLVED"]
      BY <2>4 DEF Release, AcceptSplit, ReleaseEscrowTransfer
    <3>. QED  BY <1>1, <3>1 DEF TypeOK
  <2>5. ASSUME NEW a \in Accounts,
               \/ ResolveDisputeByTimeout(w, a, u)
               \/ ExecutePendingSettlement(w, a, u)
               \/ \E isRelease \in BOOLEAN, outcome \in RulingOutcomes(w) :
                    ExecuteResolution(w, a, isRelease, outcome, u)
        PROVE  FALSE
    BY <2>5 DEF ResolveDisputeByTimeout, ExecutePendingSettlement, ExecuteResolution,
                DisputeTimedOut, PendingDue
  <2>. QED  BY <2>1, <2>2, <2>3, <2>4, <2>5
<1>. QED  BY <1>1, <1>2, <1>3, Locality, CreationIsFresh

\* Under a strategy that asks for mutual consent no call of one party alone takes a pending
\* escrow's tokens back, whoever writes the strategy's record and whatever strategy is the
\* default by then.
THEOREM RefundNeedsConsent == Spec => NoUnilateralRefund
<1>1. Inv /\ [Next]_vars =>
        [\A w \in Workflows :
           (escrowState[w] = "PENDING" /\ escrowState'[w] = "REFUNDED") =>
             \/ AutoCancelDue(w)
             \/ terms[w].cancellationStrategy \in OtherStrategies
             \/ \E u \in UnwindOutcomes(w, Remaining(w)) :
                  \/ recipientStatus[w] = "AGREE_TO_CANCEL" /\ SenderCancel(w, u)
                  \/ senderStatus[w] = "AGREE_TO_CANCEL" /\ RecipientCancel(w, u)]_vars
  BY NoUnilateralRefundStep
<1>. QED  BY <1>1, Invariance, PTL DEF NoUnilateralRefund, Spec

(***************************************************************************)
(* Solvency.  It is inductive with the invariant and the fact that the     *)
(* vault's record of a position and the module's agree until an operator   *)
(* recovers it: then no unwind of it pays for more than was held.          *)
(***************************************************************************)
Assets == tokenBalance + totalDeposited + unabsorbedLoss
Debts == totalHeld + totalFees + totalClaimable + bondFeesOwed["TOKEN"]
Tracked(w) == v25YieldPrincipals[w] > 0 => yieldPosition[w] \in {0, v25YieldPrincipals[w]}
SolventInv == Inv /\ Solvency /\ \A w \in Workflows : Tracked(w)

\* What a settlement pays is what it brought in and what the position was worth.
LEMMA UnwindPays ==
  ASSUME Inv, NEW w \in Workflows, escrowState[w] \in Active, Tracked(w),
         NEW amount \in Nat, NEW u \in UnwindOutcomes(w, amount),
         v25YieldPrincipals[w] > 0 => amount = v25YieldPrincipals[w]
  PROVE  LET spent == IF u.closed THEN yieldPosition[w] ELSE 0
         IN  /\ u \in [principal : Nat, yield : Nat, received : Nat, closed : BOOLEAN]
             /\ u.received - spent >= u.principal + u.yield - amount
             /\ u.received - spent + (amount - Least(u.principal, amount)) >= u.yield
<1>1. /\ yieldPosition[w] \in Nat /\ v25YieldPrincipals[w] \in Nat
      /\ u \in [principal : Nat, yield : Nat, received : Nat, closed : BOOLEAN]
  BY UnwindType DEF Inv, TypeOK
<1>2. CASE u = NothingReceived(amount)
  BY <1>1, <1>2 DEF NothingReceived, Least
<1>3. CASE u # NothingReceived(amount)
  <2>1. /\ amount = yieldPosition[w]
        /\ \/ \E r \in PositionReturns(w) : u = NormalUnwind(w, r)
           \/ \E r \in PositionReturns(w) : r >= amount /\ u = EmergencyUnwind(r)
    BY <1>1, <1>3 DEF UnwindOutcomes, Tracked
  <2>2. CASE \E r \in PositionReturns(w) : u = NormalUnwind(w, r)
    <3>1. PICK r \in Nat : u = NormalUnwind(w, r)
      BY <2>2, ReturnsType DEF Inv
    <3>. QED  BY <1>1, <2>1, <3>1 DEF NormalUnwind, Least
  <2>3. CASE \E r \in PositionReturns(w) : r >= amount /\ u = EmergencyUnwind(r)
    <3>1. PICK r \in Nat : r >= amount /\ u = EmergencyUnwind(r)
      BY <2>3, ReturnsType DEF Inv
    <3>. QED  BY <1>1, <2>1, <3>1 DEF EmergencyUnwind, Least
  <2>. QED  BY <2>1, <2>2, <2>3
<1>. QED  BY <1>2, <1>3

LEMMA FinalizeSolvent ==
  ASSUME SolventInv, NEW w \in Workflows, escrowState[w] \in Active, NEW b,
         NEW amount \in Nat, NEW u \in UnwindOutcomes(w, amount),
         v25YieldPrincipals[w] > 0 => amount = v25YieldPrincipals[w],
         FinalizeClaimableSettlement(w, b, amount, u), UNCHANGED bondFeesOwed
  PROVE  Solvency' /\ \A v \in Workflows : Tracked(v)'
<1>. DEFINE fee == YieldFee(w, u.yield)
            spent == IF u.closed THEN yieldPosition[w] ELSE 0
<1>1. Inv /\ TypeOK /\ Solvency /\ \A v \in Workflows : Tracked(v)
  BY DEF SolventInv, Inv
<1>2. /\ u \in [principal : Nat, yield : Nat, received : Nat, closed : BOOLEAN]
      /\ u.received - spent >= u.principal + u.yield - amount
  BY <1>1, UnwindPays
<1>3. fee \in 0 .. u.yield /\ spent \in Nat
  BY <1>1, <1>2, YieldFeeType DEF TypeOK
<1>4. /\ tokenBalance' = tokenBalance + u.received
      /\ totalDeposited' = totalDeposited - spent
      /\ totalHeld' = totalHeld - amount
      /\ totalFees' = totalFees + fee
      /\ totalClaimable' = totalClaimable + (u.principal + u.yield - fee)
      /\ UNCHANGED <<unabsorbedLoss, bondFeesOwed>>
  BY DEF FinalizeClaimableSettlement, Unwind
<1>5. /\ v25YieldPrincipals' = [v25YieldPrincipals EXCEPT ![w] = 0]
      /\ \A v \in Workflows \ {w} : yieldPosition'[v] = yieldPosition[v]
  BY <1>1 DEF FinalizeClaimableSettlement, Unwind, TypeOK
<1>6. \A v \in Workflows : Tracked(v)'
  BY <1>1, <1>5 DEF TypeOK, Tracked
<1>. HIDE DEF fee, spent
<1>7. Solvency'
  <2>1. bondFeesOwed["TOKEN"] \in Int
    BY <1>1 DEF TypeOK, BondAssets
  <2>. QED  BY <1>1, <1>2, <1>3, <1>4, <2>1 DEF TypeOK, Solvency
<1>. QED  BY <1>6, <1>7

LEMMA SettlementSolvent ==
  ASSUME SolventInv, NEW w \in Workflows, escrowState[w] \in Active,
         NEW u \in UnwindOutcomes(w, Remaining(w)),
         ReleaseEscrowTransfer(w, u) \/ CancelAndRefund(w, u), UNCHANGED bondFeesOwed
  PROVE  Solvency' /\ \A v \in Workflows : Tracked(v)'
<1>1. /\ Remaining(w) \in Nat
      /\ v25YieldPrincipals[w] > 0 => Remaining(w) = v25YieldPrincipals[w]
  BY RemainingType DEF SolventInv
<1>. QED  BY <1>1, FinalizeSolvent DEF ReleaseEscrowTransfer, CancelAndRefund

LEMMA AcceptSplitSolvent ==
  ASSUME SolventInv, NEW w \in Workflows, NEW a, NEW u, AcceptSplit(w, a, u)
  PROVE  Solvency' /\ \A v \in Workflows : Tracked(v)'
<1>. DEFINE split == splitProposals[w]
            principal == terms[w].amountAfterFee
            fee == YieldFee(w, u.yield)
            buyerYield == YieldShare(u.yield - fee, split.buyerAmount, principal)
            spent == IF u.closed THEN yieldPosition[w] ELSE 0
<1>1. Inv /\ TypeOK /\ PhaseInv /\ Solvency /\ \A v \in Workflows : Tracked(v)
  BY DEF SolventInv, Inv
<1>2. /\ escrowState[w] \in Active
      /\ split.buyerAmount + split.sellerAmount = principal
      /\ u \in UnwindOutcomes(w, principal)
      /\ Unwind(w, u)
      /\ totalHeld' = totalHeld - principal
      /\ totalFees' = totalFees + fee
      /\ totalClaimable' = totalClaimable + (split.buyerAmount + buyerYield)
                            + (split.sellerAmount + (u.yield - fee - buyerYield))
      /\ unabsorbedLoss' = unabsorbedLoss + (principal - Least(u.principal, principal))
      /\ UNCHANGED bondFeesOwed
  BY DEF AcceptSplit
<1>3. /\ principal \in Nat \ {0} /\ split.buyerAmount \in 0 .. principal
      /\ split.sellerAmount \in Nat
      /\ v25YieldPrincipals[w] > 0 => principal = v25YieldPrincipals[w]
  BY <1>1, <1>2 DEF PhaseInv, Phase, TypeOK, Terms, SplitProposal
<1>4. /\ u \in [principal : Nat, yield : Nat, received : Nat, closed : BOOLEAN]
      /\ u.received - spent + (principal - Least(u.principal, principal)) >= u.yield
  BY <1>1, <1>2, <1>3, UnwindPays
<1>5. fee \in 0 .. u.yield /\ u.yield - fee \in Nat /\ spent \in Nat
  BY <1>1, <1>4, YieldFeeType DEF TypeOK
<1>6. buyerYield \in 0 .. (u.yield - fee)
  <2>. HIDE DEF principal, fee
  <2>. QED  BY <1>3, <1>5, QuotientBound DEF YieldShare
<1>7. /\ tokenBalance' = tokenBalance + u.received
      /\ totalDeposited' = totalDeposited - spent
      /\ v25YieldPrincipals' = [v25YieldPrincipals EXCEPT ![w] = 0]
      /\ \A v \in Workflows \ {w} : yieldPosition'[v] = yieldPosition[v]
  BY <1>1, <1>2 DEF Unwind, TypeOK
<1>8. \A v \in Workflows : Tracked(v)'
  BY <1>1, <1>7 DEF TypeOK, Tracked
<1>9. Least(u.principal, principal) \in Nat
  BY <1>3, <1>4 DEF Least
<1>. HIDE DEF split, principal, fee, buyerYield, spent
<1>10. Solvency'
  <2>1. bondFeesOwed["TOKEN"] \in Int
    BY <1>1 DEF TypeOK, BondAssets
  <2>. QED  BY <1>1, <1>2, <1>3, <1>4, <1>5, <1>6, <1>7, <1>9, <2>1 DEF TypeOK, Solvency
<1>. QED  BY <1>8, <1>10

\* A step that leaves the tracked positions alone and the backing of the debts no worse.
LEMMA BackedStep ==
  ASSUME SolventInv, UNCHANGED <<v25YieldPrincipals, yieldPosition>>,
         NEW d \in Int, NEW e \in Int, Assets' = Assets + d, Debts' = Debts + e, d >= e
  PROVE  Solvency' /\ \A v \in Workflows : Tracked(v)'
<1>1. \A v \in Workflows : Tracked(v)'
  BY DEF SolventInv, Tracked
<1>2. Assets >= Debts /\ Assets \in Int /\ Debts \in Int
  BY DEF SolventInv, Solvency, Assets, Debts, Inv, TypeOK, BondAssets
<1>3. Assets' >= Debts'
  BY <1>2
<1>. QED  BY <1>1, <1>3 DEF Solvency, Assets, Debts

LEMMA NothingMoved ==
  ASSUME SolventInv,
         UNCHANGED <<totalHeld, totalFees, totalClaimable, bondFeesOwed, tokenBalance, yieldVars>>
  PROVE  Solvency' /\ \A v \in Workflows : Tracked(v)'
BY DEF SolventInv, Solvency, Tracked

LEMMA CreateEscrowSolvent ==
  ASSUME SolventInv, NEW req \in CreateRequests, NEW resolver \in Address,
         NEW supported \in BOOLEAN, CreateEscrow(req, resolver, supported)
  PROVE  Solvency' /\ \A v \in Workflows : Tracked(v)'
<1>. DEFINE fee == BpsOf(req.amount, config.escrowFee)
            deposit == IF req.yield /\ ~config.yieldDepositsPaused
                          /\ config.yieldModule # NoModule /\ supported
                       THEN req.amount - fee ELSE 0
<1>1. TypeOK /\ Solvency /\ (\A v \in Workflows : Tracked(v)) /\ req.amount \in Nat
  BY InputAssumption DEF SolventInv, Inv, CreateRequest
<1>2. fee \in Int /\ deposit \in Int
  <2>1. config.escrowFee \in 0 .. DENOMINATOR
    <3>1. config \in Configs
      BY <1>1 DEF TypeOK
    <3>. QED  BY <3>1, EscrowFeeBelowAll
  <2>. QED  BY <1>1, <2>1, BpsOfBound
<1>3. /\ totalHeld' = totalHeld + (req.amount - fee)
      /\ totalFees' = totalFees + fee
      /\ tokenBalance' = tokenBalance + req.amount - deposit
      /\ totalDeposited' = totalDeposited + deposit
      /\ v25YieldPrincipals' = [v25YieldPrincipals EXCEPT ![escrowCount] = deposit]
      /\ yieldPosition' = [yieldPosition EXCEPT ![escrowCount] = deposit]
      /\ UNCHANGED <<totalClaimable, bondFeesOwed, unabsorbedLoss>>
  BY DEF CreateEscrow
<1>. HIDE DEF fee, deposit
<1>4. \A v \in Workflows : Tracked(v)'
  BY <1>1, <1>3 DEF TypeOK, Tracked
<1>5. Solvency'
  <2>1. bondFeesOwed["TOKEN"] \in Int
    BY <1>1 DEF TypeOK, BondAssets
  <2>. QED  BY <1>1, <1>2, <1>3, <2>1 DEF TypeOK, Solvency
<1>. QED  BY <1>4, <1>5

LEMMA AppealDisputeSolvent ==
  ASSUME SolventInv, NEW w \in Workflows, NEW a \in Accounts, NEW q \in AppealQuotes,
         NEW excess \in ExcessValues, AppealDispute(w, a, q, excess)
  PROVE  Solvency' /\ \A v \in Workflows : Tracked(v)'
<1>. DEFINE count == addressEscalationCount[a] + 1
            fee == BpsOf(ScaledBond(q.bond, count), terms[w].appealBondProtocolFeeBps)
            charged == IF q.asset = "TOKEN" THEN fee ELSE 0
<1>1. TypeOK /\ q \in AppealQuote
  BY InputAssumption DEF SolventInv, Inv
<1>2. fee \in Int
  <2>1. /\ count \in Nat \ {0} /\ q.bond \in Nat
        /\ terms[w].appealBondProtocolFeeBps \in 0 .. DENOMINATOR
    BY <1>1, FeeRateType DEF TypeOK, AppealQuote
  <2>2. fee \in 0 .. ScaledBond(q.bond, count)
    BY <2>1, ScaledBondType, BpsOfBound
  <2>3. ScaledBond(q.bond, count) \in Nat
    BY <2>1, ScaledBondType
  <2>. QED  BY <2>2, <2>3
<1>3. /\ bondFeesOwed' = [bondFeesOwed EXCEPT ![q.asset] = @ + fee]
      /\ tokenBalance' = tokenBalance + charged
      /\ UNCHANGED <<totalHeld, totalFees, totalClaimable, yieldVars>>
  BY DEF AppealDispute
<1>. HIDE DEF fee
<1>4. bondFeesOwed'["TOKEN"] = bondFeesOwed["TOKEN"] + charged /\ bondFeesOwed["TOKEN"] \in Int
  BY <1>1, <1>2, <1>3 DEF TypeOK, AppealQuote, BondAssets
<1>5. charged \in Int
  BY <1>2
<1>. HIDE DEF charged
<1>6. Assets' = Assets + charged /\ Debts' = Debts + charged
  BY <1>1, <1>3, <1>4, <1>5 DEF TypeOK, Assets, Debts
<1>. QED  BY <1>3, <1>5, <1>6, BackedStep

LEMMA RequestsSolvent ==
  ASSUME SolventInv, NEW w \in Workflows, Requests(w)
  PROVE  Solvency' /\ \A v \in Workflows : Tracked(v)'
<1>1. PICK a \in Accounts :
        \/ \E x \in PartialAmounts : PartialRelease(w, a, x)
        \/ \E answer \in Address : RaiseDispute(w, a, answer)
        \/ \E q \in AppealQuotes, x \in ExcessValues : AppealDispute(w, a, q, x)
        \/ \E x \in BuyerShares, d \in SplitDelays : ProposeSplit(w, a, x, d)
        \/ CancelSplit(w, a)
        \/ WithdrawEscrow(w, a)
  BY DEF Requests
<1>2. TypeOK
  BY DEF SolventInv, Inv
<1>3. CASE \E x \in PartialAmounts : PartialRelease(w, a, x)
  <2>1. PICK x \in PartialAmounts : PartialRelease(w, a, x)
    BY <1>3
  <2>2. /\ FinalizeClaimableSettlement(w, terms[w].to, x, NothingReceived(x))
        /\ escrowState[w] \in Active /\ v25YieldPrincipals[w] = 0
        /\ UNCHANGED bondFeesOwed
        /\ NothingReceived(x) \in UnwindOutcomes(w, x) /\ x \in Nat
    BY <2>1, InputAssumption DEF PartialRelease, UnwindOutcomes, Active
  <2>. QED  BY <2>2, FinalizeSolvent
<1>4. CASE \E q \in AppealQuotes, x \in ExcessValues : AppealDispute(w, a, q, x)
  BY <1>4, AppealDisputeSolvent
<1>5. CASE WithdrawEscrow(w, a)
  <2>. DEFINE amount == claimableBalances[w][a]
  <2>1. amount \in Nat /\ 0 - amount \in Int
    BY <1>2 DEF TypeOK
  <2>2. /\ totalClaimable' = totalClaimable - amount
        /\ tokenBalance' = tokenBalance - amount
        /\ UNCHANGED <<totalHeld, totalFees, bondFeesOwed, yieldVars>>
    BY <1>5 DEF WithdrawEscrow
  <2>. HIDE DEF amount
  <2>3. Assets' = Assets + (0 - amount) /\ Debts' = Debts + (0 - amount)
    <3>1. bondFeesOwed["TOKEN"] \in Int
      BY <1>2 DEF TypeOK, BondAssets
    <3>. QED  BY <1>2, <2>1, <2>2, <3>1 DEF TypeOK, Assets, Debts
  <2>. QED  BY <2>1, <2>2, <2>3, BackedStep
<1>6. CASE \/ \E answer \in Address : RaiseDispute(w, a, answer)
           \/ \E x \in BuyerShares, d \in SplitDelays : ProposeSplit(w, a, x, d)
           \/ CancelSplit(w, a)
  BY <1>6, NothingMoved DEF RaiseDispute, ProposeSplit, CancelSplit
<1>. QED  BY <1>1, <1>3, <1>4, <1>5, <1>6

LEMMA SettlementsSolvent ==
  ASSUME SolventInv, NEW w \in Workflows, Settlements(w)
  PROVE  Solvency' /\ \A v \in Workflows : Tracked(v)'
<1>1. PICK u \in UnwindOutcomes(w, Remaining(w)) :
        \/ SenderCancel(w, u)
        \/ RecipientCancel(w, u)
        \/ \E a \in Accounts :
             \/ Release(w, a, u)
             \/ \E isRelease \in BOOLEAN, outcome \in RulingOutcomes(w) :
                  ExecuteResolution(w, a, isRelease, outcome, u)
             \/ AutomateTimedActions(w, a, u)
             \/ ResolveDisputeByTimeout(w, a, u)
             \/ ExecutePendingSettlement(w, a, u)
             \/ AcceptSplit(w, a, u)
  BY DEF Settlements
<1>2. escrowState[w] \in Active
  BY SettlementsGuard DEF SolventInv
<1>3. CASE /\ ReleaseEscrowTransfer(w, u) \/ CancelAndRefund(w, u)
           /\ UNCHANGED bondFeesOwed
  BY <1>2, <1>3, SettlementSolvent
<1>4. CASE SenderCancel(w, u) \/ RecipientCancel(w, u)
  BY <1>3, <1>4, NothingMoved DEF SenderCancel, RecipientCancel
<1>5. CASE \E a \in Accounts, isRelease \in BOOLEAN, outcome \in RulingOutcomes(w) :
             ExecuteResolution(w, a, isRelease, outcome, u)
  BY <1>3, <1>5, NothingMoved DEF ExecuteResolution, Settle
<1>6. CASE \E a \in Accounts : \/ Release(w, a, u)
                               \/ AutomateTimedActions(w, a, u)
                               \/ ResolveDisputeByTimeout(w, a, u)
                               \/ ExecutePendingSettlement(w, a, u)
  BY <1>3, <1>6 DEF Release, AutomateTimedActions, ResolveDisputeByTimeout,
                    ExecutePendingSettlement, Settle
<1>7. CASE \E a \in Accounts : AcceptSplit(w, a, u)
  BY <1>7, AcceptSplitSolvent
<1>. QED  BY <1>1, <1>4, <1>5, <1>6, <1>7

LEMMA RecoverPositionSolvent ==
  ASSUME SolventInv, NEW w \in Workflows, NEW r \in PositionReturns(w), RecoverPosition(w, r)
  PROVE  Solvency' /\ \A v \in Workflows : Tracked(v)'
<1>. DEFINE position == yieldPosition[w]
<1>1. /\ TypeOK /\ Solvency /\ \A v \in Workflows : Tracked(v)
      /\ position \in Nat /\ r \in Nat
  BY ReturnsType DEF SolventInv, Inv, TypeOK
<1>2. /\ tokenBalance' = tokenBalance + r
      /\ totalDeposited' = totalDeposited - position
      /\ unabsorbedLoss' = unabsorbedLoss + (position - Least(r, position))
      /\ yieldPosition' = [yieldPosition EXCEPT ![w] = 0]
      /\ UNCHANGED <<totalHeld, totalFees, totalClaimable, bondFeesOwed, v25YieldPrincipals>>
  BY DEF RecoverPosition
<1>3. \A v \in Workflows : Tracked(v)'
  BY <1>1, <1>2 DEF TypeOK, Tracked
<1>. HIDE DEF position
<1>4. Solvency'
  <2>1. bondFeesOwed["TOKEN"] \in Int
    BY <1>1 DEF TypeOK, BondAssets
  <2>. QED  BY <1>1, <1>2, <2>1 DEF TypeOK, Solvency, Least
<1>. QED  BY <1>3, <1>4

LEMMA ClaimsSolvent ==
  ASSUME SolventInv,
         \/ WithdrawFees
         \/ \E a \in Accounts : ClaimExcessEthRefund(a)
         \/ \E b \in BondAssets, a \in Accounts : ClaimBondProtocolFees(b, a)
  PROVE  Solvency' /\ \A v \in Workflows : Tracked(v)'
<1>1. TypeOK /\ bondFeesOwed["TOKEN"] \in Int
  BY DEF SolventInv, Inv, TypeOK, BondAssets
<1>2. CASE WithdrawFees
  <2>1. 0 - totalFees \in Int
    BY <1>1 DEF TypeOK
  <2>2. /\ totalFees' = 0 /\ tokenBalance' = tokenBalance - totalFees
        /\ UNCHANGED <<totalHeld, totalClaimable, bondFeesOwed, totalDeposited, unabsorbedLoss>>
    BY <1>2 DEF WithdrawFees
  <2>3. Assets' = Assets + (0 - totalFees) /\ Debts' = Debts + (0 - totalFees)
    BY <1>1, <2>2 DEF TypeOK, Assets, Debts
  <2>. QED  BY <1>2, <2>1, <2>3, BackedStep DEF WithdrawFees
<1>3. CASE \E a \in Accounts : ClaimExcessEthRefund(a)
  BY <1>3, NothingMoved DEF ClaimExcessEthRefund
<1>4. CASE \E b \in BondAssets, a \in Accounts : ClaimBondProtocolFees(b, a)
  <2>1. PICK b \in BondAssets, a \in Accounts : ClaimBondProtocolFees(b, a)
    BY <1>4
  <2>. DEFINE amount == claimableBondProtocolFees[b][a]
              paid == IF b = "TOKEN" THEN amount ELSE 0
  <2>2. amount \in Nat /\ 0 - paid \in Int
    BY <1>1 DEF TypeOK
  <2>3. /\ bondFeesOwed' = [bondFeesOwed EXCEPT ![b] = @ - amount]
        /\ tokenBalance' = tokenBalance - paid
        /\ UNCHANGED <<totalHeld, totalFees, totalClaimable, yieldVars>>
    BY <2>1 DEF ClaimBondProtocolFees
  <2>. HIDE DEF amount
  <2>4. bondFeesOwed'["TOKEN"] = bondFeesOwed["TOKEN"] - paid
    BY <1>1, <2>2, <2>3 DEF TypeOK, BondAssets
  <2>. HIDE DEF paid
  <2>5. Assets' = Assets + (0 - paid) /\ Debts' = Debts + (0 - paid)
    <3>1. paid \in Int
      BY <2>2 DEF paid
    <3>. QED  BY <1>1, <2>3, <2>4, <3>1 DEF TypeOK, Assets, Debts
  <2>. QED  BY <2>2, <2>3, <2>5, BackedStep
<1>. QED  BY <1>2, <1>3, <1>4

LEMMA SolventInvariance == Spec => []SolventInv
<1>1. Init => SolventInv
  <2>. SUFFICES ASSUME Init PROVE SolventInv
    OBVIOUS
  <2>1. Inv
    BY InitInv
  <2>2. Solvency /\ \A w \in Workflows : Tracked(w)
    BY DEF Init, Solvency, Tracked, BondAssets
  <2>. QED  BY <2>1, <2>2 DEF SolventInv
<1>2. SolventInv /\ [Next]_vars => SolventInv'
  <2>. SUFFICES ASSUME SolventInv, [Next]_vars PROVE SolventInv'
    OBVIOUS
  <2>1. Inv'
    BY NextInv DEF SolventInv
  <2>2. CASE \/ Tick \/ Governance \/ UNCHANGED vars
             \/ \E w \in Workflows, named \in NamedCallers : AttemptOfAnotherCaller(w, named)
    <3>1. UNCHANGED <<totalHeld, totalFees, totalClaimable, bondFeesOwed, tokenBalance, yieldVars>>
      BY <2>2, GovernanceIsConfig
      DEF Tick, SetConfig, AttemptOfAnotherCaller, claimVars, holdingVars, appealVars, vars
    <3>. QED  BY <2>1, <3>1, NothingMoved DEF SolventInv
  <2>3. CASE \E req \in CreateRequests, resolver \in Address, supported \in BOOLEAN :
               CreateEscrow(req, resolver, supported)
    BY <2>1, <2>3, CreateEscrowSolvent DEF SolventInv
  <2>4. CASE \E w \in Workflows : Requests(w)
    BY <2>1, <2>4, RequestsSolvent DEF SolventInv
  <2>5. CASE \E w \in Workflows : Settlements(w)
    BY <2>1, <2>5, SettlementsSolvent DEF SolventInv
  <2>6. CASE \E w \in Workflows : \E r \in PositionReturns(w) : RecoverPosition(w, r)
    BY <2>1, <2>6, RecoverPositionSolvent DEF SolventInv
  <2>7. CASE \/ WithdrawFees
             \/ \E a \in Accounts : ClaimExcessEthRefund(a)
             \/ \E b \in BondAssets, a \in Accounts : ClaimBondProtocolFees(b, a)
    BY <2>1, <2>7, ClaimsSolvent DEF SolventInv
  <2>. QED  BY <2>2, <2>3, <2>4, <2>5, <2>6, <2>7 DEF Next
<1>. QED  BY <1>1, <1>2, PTL DEF Spec

\* Whatever the yield module pays or fails to pay, the vault's tokens and what is out on
\* yield cover its debts, up to the losses a split or a recovery left with nobody.
THEOREM Solvent == Spec => []Solvency
<1>1. SolventInv => Solvency
  BY DEF SolventInv
<1>. QED  BY <1>1, SolventInvariance, PTL

(***************************************************************************)
(* Payouts.  Inductive with the invariant: nothing was paid from what does *)
(* not exist yet, the parties of what exists hold accounts, and only an    *)
(* escrow with yield has a position.                                       *)
(***************************************************************************)
Payable(w) ==
  /\ escrowState[w] = "NONE" => \A a \in Accounts : Paid(w, a) = 0
  /\ escrowState[w] # "NONE" => terms[w].from \in Accounts /\ terms[w].to \in Accounts
  /\ ~terms[w].yield => v25YieldPrincipals[w] = 0
  /\ PaidOut(w)
PayInv == Inv /\ \A w \in Workflows : Payable(w)

LEMMA PaidType ==
  ASSUME TypeOK, NEW w \in Workflows, NEW a \in Accounts
  PROVE  /\ claimableBalances[w][a] \in Nat /\ withdrawn[w][a] \in Nat /\ Paid(w, a) \in Nat
BY DEF TypeOK, Paid

LEMMA PaidUnchanged ==
  ASSUME UNCHANGED <<claimableBalances, withdrawn>>
  PROVE  \A w \in Workflows : \A a \in Accounts : Paid(w, a)' = Paid(w, a)
BY DEF Paid

\* A settlement without a position pays the beneficiary the amount, and nobody else.
LEMMA FinalizePays ==
  ASSUME TypeOK, NEW w \in Workflows, NEW b \in Accounts, NEW amount \in Nat,
         NEW u \in UnwindOutcomes(w, amount), v25YieldPrincipals[w] = 0,
         FinalizeClaimableSettlement(w, b, amount, u)
  PROVE  /\ \A a \in Accounts : Paid(w, a)' = Paid(w, a) + (IF a = b THEN amount ELSE 0)
         /\ v25YieldPrincipals'[w] = 0
<1>1. u = NothingReceived(amount)
  BY DEF UnwindOutcomes
<1>2. u.principal + u.yield - YieldFee(w, u.yield) = amount
  <2>1. u.principal = amount /\ u.yield = 0
    BY <1>1 DEF NothingReceived
  <2>2. YieldFee(w, 0) = 0
    BY YieldFeeType
  <2>. QED  BY <2>1, <2>2
<1>3. /\ claimableBalances' = [claimableBalances EXCEPT ![w][b] = @ + amount]
      /\ withdrawn' = withdrawn
      /\ v25YieldPrincipals' = [v25YieldPrincipals EXCEPT ![w] = 0]
  BY <1>2 DEF FinalizeClaimableSettlement, Unwind
<1>4. ASSUME NEW a \in Accounts
      PROVE  claimableBalances'[w][a] = claimableBalances[w][a] + (IF a = b THEN amount ELSE 0)
  BY <1>3, PaidType DEF TypeOK
<1>5. ASSUME NEW a \in Accounts PROVE Paid(w, a)' = Paid(w, a) + (IF a = b THEN amount ELSE 0)
  BY <1>3, <1>4, PaidType DEF Paid
<1>. QED  BY <1>3, <1>5 DEF TypeOK

LEMMA UntouchedPayable ==
  ASSUME NEW w \in Workflows, Payable(w), Untouched(w)
  PROVE  Payable(w)'
<1>1. \A a : Paid(w, a)' = Paid(w, a)
  BY DEF Untouched, Paid
<1>. QED  BY <1>1 DEF Untouched, Payable, PaidOut

LEMMA SettlementPayable ==
  ASSUME PayInv, NEW w \in Workflows, escrowState[w] \in Active,
         NEW u \in UnwindOutcomes(w, Remaining(w)),
         ReleaseEscrowTransfer(w, u) \/ CancelAndRefund(w, u), UNCHANGED creationVars
  PROVE  Payable(w)'
<1>1. /\ Inv /\ TypeOK /\ Payable(w) /\ Remaining(w) \in Nat
      /\ Remaining(w) = terms[w].amountAfterFee - amountReleased[w]
      /\ amountReleased[w] \in Nat /\ terms[w].amountAfterFee \in Nat
      /\ terms[w].from \in Accounts /\ terms[w].to \in Accounts /\ terms[w].from # terms[w].to
  BY RemainingType DEF PayInv, Inv, PhaseInv, Phase, Payable, Active, TypeOK, Terms, Remaining
<1>2. PICK b \in {terms[w].from, terms[w].to} :
        /\ FinalizeClaimableSettlement(w, b, Remaining(w), u)
        /\ escrowState'[w] = IF b = terms[w].to THEN "RELEASED" ELSE "REFUNDED"
  <2>1. CASE ReleaseEscrowTransfer(w, u)
    BY <1>1, <2>1 DEF ReleaseEscrowTransfer, TypeOK
  <2>2. CASE CancelAndRefund(w, u)
    BY <1>1, <2>2 DEF CancelAndRefund, TypeOK
  <2>. QED  BY <2>1, <2>2
<1>3. v25YieldPrincipals'[w] = 0
  BY <1>1, <1>2 DEF FinalizeClaimableSettlement, Unwind, TypeOK
<1>4. CASE terms[w].yield
  BY <1>1, <1>2, <1>3, <1>4 DEF Payable, PaidOut
<1>5. CASE ~terms[w].yield
  <2>1. \A a \in Accounts : Paid(w, a)' = Paid(w, a) + (IF a = b THEN Remaining(w) ELSE 0)
    BY <1>1, <1>2, <1>5, FinalizePays DEF Payable
  <2>2. /\ Paid(w, terms[w].from) = 0 /\ Paid(w, terms[w].to) = amountReleased[w]
        /\ \A a \in Accounts \ {terms[w].from, terms[w].to} : Paid(w, a) = 0
    BY <1>1, <1>5 DEF Payable, PaidOut, Active
  <2>3. PaidOut(w)'
    <3>1. CASE b = terms[w].to
      <4>1. /\ Paid(w, terms[w].from)' = 0 /\ Paid(w, terms[w].to)' = terms[w].amountAfterFee
            /\ \A a \in Accounts \ {terms[w].from, terms[w].to} : Paid(w, a)' = 0
        BY <1>1, <2>1, <2>2, <3>1
      <4>. QED  BY <1>1, <1>2, <3>1, <4>1 DEF PaidOut, Active
    <3>2. CASE b = terms[w].from
      <4>1. /\ Paid(w, terms[w].from)' + Paid(w, terms[w].to)' = terms[w].amountAfterFee
            /\ \A a \in Accounts \ {terms[w].from, terms[w].to} : Paid(w, a)' = 0
        BY <1>1, <2>1, <2>2, <3>2
      <4>. QED  BY <1>1, <1>2, <3>2, <4>1 DEF PaidOut, Active
    <3>. QED  BY <3>1, <3>2
  <2>. QED  BY <1>1, <1>2, <1>3, <2>3 DEF Payable
<1>. QED  BY <1>4, <1>5

LEMMA PartialReleasePayable ==
  ASSUME PayInv, NEW w \in Workflows, NEW a \in Accounts, NEW x \in PartialAmounts,
         PartialRelease(w, a, x)
  PROVE  Payable(w)'
<1>1. /\ TypeOK /\ Payable(w) /\ x \in Nat
      /\ escrowState[w] = "PENDING" /\ v25YieldPrincipals[w] = 0
      /\ amountReleased[w] \in Nat /\ terms[w].amountAfterFee \in Nat
      /\ terms[w].from \in Accounts /\ terms[w].to \in Accounts /\ terms[w].from # terms[w].to
      /\ FinalizeClaimableSettlement(w, terms[w].to, x, NothingReceived(x))
      /\ UNCHANGED creationVars
  BY InputAssumption
     DEF PayInv, Inv, PhaseInv, Phase, Payable, Active, TypeOK, Terms, PartialRelease
<1>2. /\ \A c \in Accounts : Paid(w, c)' = Paid(w, c) + (IF c = terms[w].to THEN x ELSE 0)
      /\ v25YieldPrincipals'[w] = 0
  <2>1. NothingReceived(x) \in UnwindOutcomes(w, x)
    BY DEF UnwindOutcomes
  <2>. QED  BY <1>1, <2>1, FinalizePays
<1>3. /\ amountReleased'[w] = amountReleased[w] + x
      /\ escrowState'[w] = IF x = Remaining(w) THEN "RELEASED" ELSE "PENDING"
  BY <1>1 DEF PartialRelease, TypeOK
<1>4. ASSUME ~terms[w].yield PROVE PaidOut(w)'
  <2>1. /\ Paid(w, terms[w].from) = 0 /\ Paid(w, terms[w].to) = amountReleased[w]
        /\ \A c \in Accounts \ {terms[w].from, terms[w].to} : Paid(w, c) = 0
    BY <1>1, <1>4 DEF Payable, PaidOut, Active
  <2>2. /\ Paid(w, terms[w].from)' = 0 /\ Paid(w, terms[w].to)' = amountReleased[w] + x
        /\ \A c \in Accounts \ {terms[w].from, terms[w].to} : Paid(w, c)' = 0
    BY <1>1, <1>2, <2>1
  <2>. QED  BY <1>1, <1>3, <2>2 DEF PaidOut, Active, Remaining
<1>5. PaidOut(w)'
  BY <1>1, <1>4 DEF PaidOut
<1>. QED  BY <1>1, <1>2, <1>3, <1>5 DEF Payable

LEMMA WithdrawEscrowPayable ==
  ASSUME PayInv, NEW w \in Workflows, NEW a \in Accounts, WithdrawEscrow(w, a)
  PROVE  Payable(w)'
<1>1. TypeOK /\ Payable(w)
  BY DEF PayInv, Inv
<1>2. /\ claimableBalances'[w][a] = 0
      /\ withdrawn'[w][a] = withdrawn[w][a] + claimableBalances[w][a]
      /\ \A b \in Accounts \ {a} : /\ claimableBalances'[w][b] = claimableBalances[w][b]
                                   /\ withdrawn'[w][b] = withdrawn[w][b]
  BY <1>1 DEF WithdrawEscrow, TypeOK
<1>3. ASSUME NEW b \in Accounts PROVE Paid(w, b)' = Paid(w, b)
  BY <1>1, <1>2, PaidType DEF Paid
<1>4. UNCHANGED <<terms, escrowState, amountReleased, v25YieldPrincipals>>
  BY DEF WithdrawEscrow
<1>. QED  BY <1>1, <1>3, <1>4 DEF Payable, PaidOut

\* Steps that move no claim, do not end the escrow and leave its terms.
LEMMA UnpaidPayable ==
  ASSUME NEW w \in Workflows, Payable(w), escrowState[w] # "NONE",
         escrowState'[w] = escrowState[w] \/ (escrowState[w] \in Active /\ escrowState'[w] \in Active),
         UNCHANGED <<creationVars, amountReleased, claimVars, v25YieldPrincipals>>
  PROVE  Payable(w)'
<1>1. \A a : Paid(w, a)' = Paid(w, a)
  BY DEF Paid
<1>. QED  BY <1>1 DEF Payable, PaidOut, Active

LEMMA AcceptSplitPayable ==
  ASSUME PayInv, NEW w \in Workflows, NEW a, NEW u, AcceptSplit(w, a, u)
  PROVE  Payable(w)'
<1>. DEFINE split == splitProposals[w]
            principal == terms[w].amountAfterFee
            fee == YieldFee(w, u.yield)
            buyerYield == YieldShare(u.yield - fee, split.buyerAmount, principal)
            buyerCredit == split.buyerAmount + buyerYield
            sellerCredit == split.sellerAmount + (u.yield - fee - buyerYield)
<1>1. /\ TypeOK /\ PhaseInv /\ Payable(w)
      /\ escrowState[w] \in Active /\ amountReleased[w] = 0
      /\ split.buyerAmount + split.sellerAmount = principal
      /\ u \in UnwindOutcomes(w, principal)
      /\ escrowState' = [escrowState EXCEPT ![w] = "RESOLVED"]
      /\ v25YieldPrincipals' = [v25YieldPrincipals EXCEPT ![w] = 0]
      /\ claimableBalances' = [claimableBalances EXCEPT ![w] = [x \in Accounts |->
           @[x] + (IF x = terms[w].from THEN buyerCredit ELSE 0)
                + (IF x = terms[w].to THEN sellerCredit ELSE 0)]]
      /\ UNCHANGED <<creationVars, withdrawn>>
  BY DEF AcceptSplit, PayInv, Inv, Unwind
<1>2. /\ principal \in Nat \ {0} /\ split.buyerAmount \in 0 .. principal
      /\ split.sellerAmount \in Nat
      /\ terms[w].from \in Accounts /\ terms[w].to \in Accounts /\ terms[w].from # terms[w].to
  BY <1>1 DEF PhaseInv, Phase, TypeOK, Terms, SplitProposal, Payable, Active
<1>3. v25YieldPrincipals'[w] = 0 /\ escrowState'[w] = "RESOLVED"
  BY <1>1 DEF TypeOK
<1>4. ASSUME ~terms[w].yield PROVE PaidOut(w)'
  <2>1. u.yield = 0
    BY <1>1, <1>4 DEF Payable, UnwindOutcomes, NothingReceived
  <2>2. fee = 0
    BY <1>1, <2>1, YieldFeeType
  <2>3. buyerYield = 0
    <3>1. YieldShare(0, split.buyerAmount, principal) \in 0 .. 0
      <4>. HIDE DEF principal
      <4>. QED  BY <1>2, QuotientBound DEF YieldShare
    <3>. QED  BY <2>1, <2>2, <3>1
  <2>. HIDE DEF fee, buyerYield
  <2>4. buyerCredit = split.buyerAmount /\ sellerCredit = split.sellerAmount
    BY <1>2, <2>1, <2>2, <2>3
  <2>. HIDE DEF buyerCredit, sellerCredit
  <2>5. \A x \in Accounts : Paid(w, x) = 0
    BY <1>1, <1>2, <1>4 DEF Payable, PaidOut, Active
  <2>6. ASSUME NEW x \in Accounts
        PROVE  Paid(w, x)' = IF x = terms[w].from THEN split.buyerAmount
                             ELSE IF x = terms[w].to THEN split.sellerAmount ELSE 0
    <3>1. claimableBalances[w][x] = 0 /\ withdrawn[w][x] = 0
      BY <1>1, <2>5, PaidType DEF Paid
    <3>2. claimableBalances'[w][x] =
            claimableBalances[w][x] + (IF x = terms[w].from THEN buyerCredit ELSE 0)
                                    + (IF x = terms[w].to THEN sellerCredit ELSE 0)
      BY <1>1 DEF TypeOK
    <3>. HIDE DEF split, principal
    <3>. QED  BY <1>1, <1>2, <2>4, <3>1, <3>2 DEF Paid
  <2>. QED  BY <1>1, <1>2, <1>3, <2>6 DEF PaidOut, Active
<1>5. PaidOut(w)'
  BY <1>1, <1>4 DEF PaidOut
<1>. QED  BY <1>1, <1>2, <1>3, <1>5 DEF Payable

LEMMA CreateEscrowPayable ==
  ASSUME PayInv, NEW req \in CreateRequests, NEW resolver \in Address,
         NEW supported \in BOOLEAN, CreateEscrow(req, resolver, supported),
         NEW w \in Workflows, w = escrowCount
  PROVE  Payable(w)'
<1>. DEFINE amountAfterFee == req.amount - BpsOf(req.amount, config.escrowFee)
            deposit == IF req.yield /\ ~config.yieldDepositsPaused
                          /\ config.yieldModule # NoModule /\ supported
                       THEN amountAfterFee ELSE 0
<1>1. /\ TypeOK /\ Payable(w) /\ escrowState[w] = "NONE" /\ amountReleased[w] = 0
      /\ req.from \in Accounts /\ req.to \in Accounts
  BY CreationIsFresh, InputAssumption DEF PayInv, Inv, PhaseInv, Phase, CreateRequest
<1>2. /\ terms' = [terms EXCEPT ![w] = SnapshotTerms(req, amountAfterFee)]
      /\ escrowState' = [escrowState EXCEPT ![w] = "PENDING"]
      /\ v25YieldPrincipals' = [v25YieldPrincipals EXCEPT ![w] = deposit]
      /\ UNCHANGED <<amountReleased, claimVars>>
  BY DEF CreateEscrow
<1>3. /\ SnapshotTerms(req, amountAfterFee).from = req.from
      /\ SnapshotTerms(req, amountAfterFee).to = req.to
      /\ SnapshotTerms(req, amountAfterFee).yield = req.yield
      /\ ~req.yield => deposit = 0
  BY DEF SnapshotTerms
<1>. HIDE DEF amountAfterFee, deposit
<1>4. /\ terms'[w] = SnapshotTerms(req, amountAfterFee) /\ escrowState'[w] = "PENDING"
      /\ v25YieldPrincipals'[w] = deposit /\ amountReleased'[w] = 0
  BY <1>1, <1>2 DEF TypeOK
<1>5. \A a \in Accounts : Paid(w, a)' = 0
  BY <1>1, <1>2 DEF Payable, Paid
<1>. QED  BY <1>1, <1>3, <1>4, <1>5 DEF Payable, PaidOut, Active

LEMMA RequestsPayable ==
  ASSUME PayInv, NEW w \in Workflows, Requests(w)
  PROVE  Payable(w)'
<1>1. PICK a \in Accounts :
        \/ \E x \in PartialAmounts : PartialRelease(w, a, x)
        \/ \E answer \in Address : RaiseDispute(w, a, answer)
        \/ \E q \in AppealQuotes, x \in ExcessValues : AppealDispute(w, a, q, x)
        \/ \E x \in BuyerShares, d \in SplitDelays : ProposeSplit(w, a, x, d)
        \/ CancelSplit(w, a)
        \/ WithdrawEscrow(w, a)
  BY DEF Requests
<1>2. TypeOK /\ Payable(w) /\ (Exists(w) => escrowState[w] # "NONE")
  <2>1. TypeOK /\ Payable(w) /\ Phase(w)
    BY DEF PayInv, Inv, PhaseInv
  <2>2. escrowCount \in Int /\ w \in Int
    BY <2>1 DEF TypeOK, Workflows
  <2>3. escrowState[w] = "NONE" <=> w >= escrowCount
    BY <2>1 DEF Phase
  <2>. QED  BY <2>1, <2>2, <2>3 DEF Exists
<1>3. CASE \E x \in PartialAmounts : PartialRelease(w, a, x)
  BY <1>3, PartialReleasePayable
<1>4. CASE \E answer \in Address : RaiseDispute(w, a, answer)
  <2>1. escrowState[w] = "PENDING" /\ escrowState'[w] = "DISPUTED"
    BY <1>2, <1>4 DEF RaiseDispute, TypeOK
  <2>. QED  BY <1>2, <1>4, <2>1, UnpaidPayable DEF RaiseDispute, Active
<1>5. CASE \/ \E q \in AppealQuotes, x \in ExcessValues : AppealDispute(w, a, q, x)
           \/ \E x \in BuyerShares, d \in SplitDelays : ProposeSplit(w, a, x, d)
           \/ CancelSplit(w, a)
  BY <1>2, <1>5, UnpaidPayable DEF AppealDispute, ProposeSplit, CancelSplit
<1>6. CASE WithdrawEscrow(w, a)
  BY <1>6, WithdrawEscrowPayable
<1>. QED  BY <1>1, <1>3, <1>4, <1>5, <1>6

LEMMA SettlementsPayable ==
  ASSUME PayInv, NEW w \in Workflows, Settlements(w)
  PROVE  Payable(w)'
<1>1. PICK u \in UnwindOutcomes(w, Remaining(w)) :
        \/ SenderCancel(w, u)
        \/ RecipientCancel(w, u)
        \/ \E a \in Accounts :
             \/ Release(w, a, u)
             \/ \E isRelease \in BOOLEAN, outcome \in RulingOutcomes(w) :
                  ExecuteResolution(w, a, isRelease, outcome, u)
             \/ AutomateTimedActions(w, a, u)
             \/ ResolveDisputeByTimeout(w, a, u)
             \/ ExecutePendingSettlement(w, a, u)
             \/ AcceptSplit(w, a, u)
  BY DEF Settlements
<1>2. escrowState[w] \in Active /\ escrowState[w] # "NONE" /\ Payable(w)
  BY SettlementsGuard DEF PayInv, Active
<1>3. CASE /\ ReleaseEscrowTransfer(w, u) \/ CancelAndRefund(w, u)
           /\ UNCHANGED creationVars
  BY <1>2, <1>3, SettlementPayable
<1>4. CASE SenderCancel(w, u) \/ RecipientCancel(w, u)
  BY <1>2, <1>3, <1>4, UnpaidPayable DEF SenderCancel, RecipientCancel
<1>5. CASE \E a \in Accounts, isRelease \in BOOLEAN, outcome \in RulingOutcomes(w) :
             ExecuteResolution(w, a, isRelease, outcome, u)
  BY <1>2, <1>3, <1>5, UnpaidPayable DEF ExecuteResolution, Settle
<1>6. CASE \E a \in Accounts : \/ Release(w, a, u)
                               \/ AutomateTimedActions(w, a, u)
                               \/ ResolveDisputeByTimeout(w, a, u)
                               \/ ExecutePendingSettlement(w, a, u)
  BY <1>3, <1>6 DEF Release, AutomateTimedActions, ResolveDisputeByTimeout,
                    ExecutePendingSettlement, Settle
<1>7. CASE \E a \in Accounts : AcceptSplit(w, a, u)
  BY <1>7, AcceptSplitPayable
<1>. QED  BY <1>1, <1>4, <1>5, <1>6, <1>7

LEMMA PayInvariance == Spec => []PayInv
<1>1. Init => PayInv
  <2>. SUFFICES ASSUME Init PROVE PayInv
    OBVIOUS
  <2>1. Inv
    BY InitInv
  <2>2. \A w \in Workflows : Payable(w)
    BY DEF Init, Payable, PaidOut, Paid
  <2>. QED  BY <2>1, <2>2 DEF PayInv
<1>2. PayInv /\ [Next]_vars => PayInv'
  <2>. SUFFICES ASSUME PayInv, [Next]_vars PROVE PayInv'
    OBVIOUS
  <2>1. Inv' /\ TypeOK
    BY NextInv DEF PayInv, Inv
  <2>2. ASSUME NEW w \in Workflows PROVE Payable(w)'
    <3>1. Payable(w)
      BY DEF PayInv
    <3>2. CASE Untouched(w)
      BY <3>1, <3>2, UntouchedPayable
    <3>3. CASE Requests(w)
      BY <3>3, RequestsPayable
    <3>4. CASE Settlements(w)
      BY <3>4, SettlementsPayable
    <3>5. CASE /\ w = escrowCount
               /\ \E req \in CreateRequests, resolver \in Address, supported \in BOOLEAN :
                    CreateEscrow(req, resolver, supported)
      BY <3>5, CreateEscrowPayable
    <3>. QED  BY <2>1, <3>2, <3>3, <3>4, <3>5, Locality
  <2>. QED  BY <2>1, <2>2 DEF PayInv
<1>. QED  BY <1>1, <1>2, PTL DEF Spec

\* Without yield the principal is paid once and completely, to whom the end of the escrow
\* says, after any history of parts, disputes, rulings, appeals, timeouts and splits.
THEOREM PaidOnce == Spec => []PayoutConservation
<1>1. PayInv => PayoutConservation
  BY DEF PayInv, Payable, PayoutConservation
<1>. QED  BY <1>1, PayInvariance, PTL

(***************************************************************************)
(* Consents.  They move by the calls of the two parties only; a consent    *)
(* that does not refund finds the other party without one, in the vault,   *)
(* and, where the two contracts agree, in the strategy's record too.       *)
(***************************************************************************)
Consents(w) ==
  /\ escrowState[w] = "NONE" => senderStatus[w] = "NONE" /\ recipientStatus[w] = "NONE"
  /\ escrowState[w] = "PENDING" =>
       ~(senderStatus[w] = "AGREE_TO_CANCEL" /\ recipientStatus[w] = "AGREE_TO_CANCEL")
ConsentsInv == Inv /\ \A w \in Workflows : Consents(w)

\* No other call gives or takes back a consent in an escrow that is PENDING afterwards.
LEMMA ConsentsLocal ==
  ASSUME Inv, [Next]_vars, NEW w \in Workflows, escrowState'[w] \in {"NONE", "PENDING"},
         ~\E u : SenderCancel(w, u) \/ RecipientCancel(w, u)
  PROVE  /\ senderStatus'[w] = senderStatus[w] /\ recipientStatus'[w] = recipientStatus[w]
         /\ escrowState[w] \in {"NONE", escrowState'[w]}
<1>1. TypeOK
  BY DEF Inv
<1>2. CASE Untouched(w)
  BY <1>2 DEF Untouched
<1>3. CASE Requests(w)
  <2>1. PICK a \in Accounts :
          \/ \E x \in PartialAmounts : PartialRelease(w, a, x)
          \/ \E answer \in Address : RaiseDispute(w, a, answer)
          \/ \E q \in AppealQuotes, x \in ExcessValues : AppealDispute(w, a, q, x)
          \/ \E x \in BuyerShares, d \in SplitDelays : ProposeSplit(w, a, x, d)
          \/ CancelSplit(w, a)
          \/ WithdrawEscrow(w, a)
    BY <1>3 DEF Requests
  <2>2. ~\E answer \in Address : RaiseDispute(w, a, answer)
    BY <1>1 DEF RaiseDispute, TypeOK
  <2>3. /\ UNCHANGED <<senderStatus, recipientStatus>>
        /\ \/ escrowState' = escrowState
           \/ escrowState' = [escrowState EXCEPT ![w] = "RELEASED"]
    BY <2>1, <2>2 DEF PartialRelease, AppealDispute, ProposeSplit, CancelSplit, WithdrawEscrow
  <2>. QED  BY <1>1, <2>3 DEF TypeOK
<1>4. ASSUME Settlements(w) PROVE FALSE
  <2>1. PICK u \in UnwindOutcomes(w, Remaining(w)), a \in Accounts :
          \/ Release(w, a, u)
          \/ \E isRelease \in BOOLEAN, outcome \in RulingOutcomes(w) :
               ExecuteResolution(w, a, isRelease, outcome, u)
          \/ AutomateTimedActions(w, a, u)
          \/ ResolveDisputeByTimeout(w, a, u)
          \/ ExecutePendingSettlement(w, a, u)
          \/ AcceptSplit(w, a, u)
    BY <1>4 DEF Settlements
  <2>2. ASSUME ReleaseEscrowTransfer(w, u) \/ CancelAndRefund(w, u) PROVE FALSE
    BY <1>1, <2>2 DEF ReleaseEscrowTransfer, CancelAndRefund, TypeOK
  <2>3. ASSUME AcceptSplit(w, a, u) PROVE FALSE
    BY <1>1, <2>3 DEF AcceptSplit, TypeOK
  <2>4. ASSUME \E isRelease \in BOOLEAN, outcome \in RulingOutcomes(w) :
                 ExecuteResolution(w, a, isRelease, outcome, u)
        PROVE  FALSE
    BY <2>2, <2>4 DEF ExecuteResolution, Settle
  <2>. QED  BY <2>1, <2>2, <2>3, <2>4 DEF Release, AutomateTimedActions,
               ResolveDisputeByTimeout, ExecutePendingSettlement, Settle
<1>5. CASE /\ w = escrowCount
           /\ \E req \in CreateRequests, resolver \in Address, supported \in BOOLEAN :
                CreateEscrow(req, resolver, supported)
  <2>1. UNCHANGED <<senderStatus, recipientStatus>>
    BY <1>5 DEF CreateEscrow
  <2>. QED  BY <1>5, <2>1, CreationIsFresh
<1>. QED  BY <1>1, <1>2, <1>3, <1>4, <1>5, Locality

\* A party's call that leaves the escrow PENDING: the other party has not consented in the
\* vault, so the default strategy's record, if it agrees with the vault, was empty.
LEMMA ConsentRecorded ==
  ASSUME Inv, NEW w \in Workflows, escrowState'[w] = "PENDING",
         NEW u, SenderCancel(w, u) \/ RecipientCancel(w, u)
  PROVE  /\ ~(senderStatus'[w] = "AGREE_TO_CANCEL" /\ recipientStatus'[w] = "AGREE_TO_CANCEL")
         /\ (KeepsRecord(w) /\ RecordsAgree(w)) => RecordsAgree(w)'
<1>1. TypeOK /\ terms[w].from # terms[w].to
  BY DEF Inv, PhaseInv, Phase, SenderCancel, RecipientCancel
<1>2. UNCHANGED terms
  BY DEF SenderCancel, RecipientCancel
<1>3. ~CancelAndRefund(w, u)
  BY <1>1 DEF CancelAndRefund, TypeOK
<1>4. PICK me \in {terms[w].from, terms[w].to} :
        /\ CanCancel(w, me) /\ ~CounterpartyConsented(w, me)
        /\ KeepsRecord(w) => OnCancelAttempt(w, me)
        /\ IF me = terms[w].from
           THEN /\ senderStatus' = [senderStatus EXCEPT ![w] = "AGREE_TO_CANCEL"]
                /\ recipientStatus' = recipientStatus
           ELSE /\ recipientStatus' = [recipientStatus EXCEPT ![w] = "AGREE_TO_CANCEL"]
                /\ senderStatus' = senderStatus
  BY <1>1, <1>3 DEF SenderCancel, RecipientCancel
<1>5. IF me = terms[w].from
      THEN /\ senderStatus'[w] = "AGREE_TO_CANCEL"
           /\ recipientStatus'[w] = recipientStatus[w] /\ recipientStatus[w] # "AGREE_TO_CANCEL"
      ELSE /\ recipientStatus'[w] = "AGREE_TO_CANCEL"
           /\ senderStatus'[w] = senderStatus[w] /\ senderStatus[w] # "AGREE_TO_CANCEL"
  BY <1>1, <1>4 DEF CounterpartyConsented, TypeOK
<1>6. ASSUME KeepsRecord(w), RecordsAgree(w) PROVE RecordsAgree(w)'
  <2>1. pendingCancel[w] = NoAccount
    BY <1>1, <1>4, <1>5, <1>6 DEF CanCancel, RecordsAgree
  <2>2. pendingCancel'[w] = me
    BY <1>1, <1>4, <1>6, <2>1 DEF OnCancelAttempt, TypeOK
  <2>. QED  BY <1>1, <1>2, <1>4, <1>5, <2>2 DEF RecordsAgree
<1>. QED  BY <1>5, <1>6

LEMMA ConsentsInvariance == Spec => []ConsentsInv
<1>1. Init => ConsentsInv
  BY InitInv DEF Init, Consents, ConsentsInv
<1>2. ASSUME ConsentsInv, [Next]_vars PROVE ConsentsInv'
  <2>1. Inv /\ Inv'
    BY <1>2, NextInv DEF ConsentsInv
  <2>2. ASSUME NEW w \in Workflows PROVE Consents(w)'
    <3>1. Consents(w)
      BY <1>2 DEF ConsentsInv
    <3>2. CASE \E u : SenderCancel(w, u) \/ RecipientCancel(w, u)
      <4>1. PICK u : SenderCancel(w, u) \/ RecipientCancel(w, u)
        BY <3>2
      <4>2. escrowState'[w] # "NONE"
        BY <2>1, <4>1 DEF SenderCancel, RecipientCancel, CancelAndRefund, Inv, TypeOK
      <4>. QED  BY <2>1, <4>1, <4>2, ConsentRecorded DEF Consents
    <3>3. CASE ~\E u : SenderCancel(w, u) \/ RecipientCancel(w, u)
      <4>1. CASE escrowState'[w] \in {"NONE", "PENDING"}
        BY <1>2, <2>1, <3>1, <3>3, <4>1, ConsentsLocal DEF Consents
      <4>. QED  BY <4>1 DEF Consents
    <3>. QED  BY <3>2, <3>3
  <2>. QED  BY <2>1, <2>2 DEF ConsentsInv
<1>. QED  BY <1>1, <1>2, PTL DEF Spec

LEMMA ConsentsKeptStep ==
  ASSUME ConsentsInv, ConsentsInv', [Next]_vars, NEW w \in Workflows,
         escrowState[w] = "PENDING", escrowState'[w] = "PENDING"
  PROVE  /\ ~(senderStatus'[w] = "AGREE_TO_CANCEL" /\ recipientStatus'[w] = "AGREE_TO_CANCEL")
         /\ (/\ KeepsRecord(w) /\ RecordsAgree(w)
             /\ senderStatus'[w] # senderStatus[w] \/ recipientStatus'[w] # recipientStatus[w])
              => RecordsAgree(w)'
<1>1. ~(senderStatus'[w] = "AGREE_TO_CANCEL" /\ recipientStatus'[w] = "AGREE_TO_CANCEL")
  BY DEF ConsentsInv, Consents
<1>2. ASSUME KeepsRecord(w), RecordsAgree(w),
             senderStatus'[w] # senderStatus[w] \/ recipientStatus'[w] # recipientStatus[w]
      PROVE  RecordsAgree(w)'
  <2>1. PICK u : SenderCancel(w, u) \/ RecipientCancel(w, u)
    BY <1>2, ConsentsLocal DEF ConsentsInv
  <2>. QED  BY <1>2, <2>1, ConsentRecorded DEF ConsentsInv
<1>. QED  BY <1>1, <1>2

\* Two consents are a refund, whoever writes the strategy's record in between; and a consent
\* given while vault and strategy agree on who has consented leaves them agreeing.
THEOREM ConsentsComplete == Spec => ConsentsKept
<1>1. ConsentsInv /\ ConsentsInv' /\ [Next]_vars =>
        [\A w \in Workflows :
           (escrowState[w] = "PENDING" /\ escrowState'[w] = "PENDING") =>
             /\ ~(senderStatus'[w] = "AGREE_TO_CANCEL" /\ recipientStatus'[w] = "AGREE_TO_CANCEL")
             /\ (/\ KeepsRecord(w) /\ RecordsAgree(w)
                 /\ senderStatus'[w] # senderStatus[w] \/ recipientStatus'[w] # recipientStatus[w])
                  => RecordsAgree(w)']_vars
  BY ConsentsKeptStep
<1>. QED  BY <1>1, ConsentsInvariance, PTL DEF ConsentsKept, Spec

================================================================================
