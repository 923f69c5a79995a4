------------------------- MODULE EscrowVaultProperties -------------------------
(***************************************************************************)
(* What the vault promises, one escrow at a time: invariants, action       *)
(* properties and liveness of EscrowVault.  The sums over all escrows are  *)
(* in EscrowVaultLedgers.                                                  *)
(***************************************************************************)
EXTENDS EscrowVault

\* What account a has got out of escrow w: what it may withdraw and what it has.
Paid(w, a) == claimableBalances[w][a] + withdrawn[w][a]

(***************************************************************************)
(* Invariants.                                                             *)
(***************************************************************************)

\* The dispute clock, the ruling in waiting, the yield record and the released part all
\* belong to a phase of the escrow, although each is written by other entry points: the
\* clock runs exactly in DISPUTED, a ruling waits only there, a yield position is
\* tracked only for an escrow that is open and untouched, and an open escrow always has
\* something left to pay out.
Phase(w) ==
  /\ escrowState[w] = "NONE" <=> w >= escrowCount
  /\ disputeRaisedTimestamp[w] # 0 <=> escrowState[w] = "DISPUTED"
  /\ pendingSettlements[w].exists => escrowState[w] = "DISPUTED"
  /\ escrowState[w] = "NONE" => amountReleased[w] = 0
  /\ escrowState[w] \in Active => amountReleased[w] < terms[w].amountAfterFee
  /\ escrowState[w] # "NONE" => terms[w].from # terms[w].to
  /\ v25YieldPrincipals[w] > 0 =>
       /\ escrowState[w] \in Active
       /\ amountReleased[w] = 0
       /\ v25YieldPrincipals[w] = terms[w].amountAfterFee
PhaseInv == \A w \in Workflows : Phase(w)

\* The principal of an escrow without yield is paid exactly once, whatever sequence of
\* partial releases, disputes, rulings, appeals, timeouts and splits led to its end: an
\* open one has paid out its released part, to the recipient; a released one everything,
\* to the recipient; a refunded or split one everything, to the two parties.
PaidOut(w) ==
  (escrowState[w] # "NONE" /\ ~terms[w].yield) =>
    LET fromGot == Paid(w, terms[w].from)
        toGot == Paid(w, terms[w].to)
    IN  /\ escrowState[w] \in Active => fromGot = 0 /\ toGot = amountReleased[w]
        /\ escrowState[w] = "RELEASED" => fromGot = 0 /\ toGot = terms[w].amountAfterFee
        /\ escrowState[w] \in {"REFUNDED", "RESOLVED"} =>
             fromGot + toGot = terms[w].amountAfterFee
        /\ \A a \in Accounts \ {terms[w].from, terms[w].to} : Paid(w, a) = 0
PayoutConservation == \A w \in Workflows : PaidOut(w)

\* The vault's tokens and the principal out on yield cover what it owes to open escrows,
\* claimants and fee recipients, but for yield losses that a split or an operator's
\* recovery left with nobody: no unwind failure creates a debt without backing.
Solvency ==
  tokenBalance + totalDeposited + unabsorbedLoss
    >= totalHeld + totalFees + totalClaimable + bondFeesOwed["TOKEN"]

(***************************************************************************)
(* Action properties.                                                      *)
(***************************************************************************)

\* A ruling that waits for its appeal window is never overtaken: neither a timeout, nor a
\* split, nor a second ruling of a consistent module replaces it.  It goes away by being
\* executed as ruled, not before its deadline, or by an appeal, which leaves the escrow
\* DISPUTED, does not restart the dispute's clock and costs the losing party an appeal.
RulingHonoured ==
  [][\A w \in Workflows :
       (pendingSettlements[w].exists /\ pendingSettlements'[w] # pendingSettlements[w]) =>
         LET loser == IF pendingSettlements[w].isRelease THEN terms[w].from ELSE terms[w].to
         IN  /\ ~pendingSettlements'[w].exists
             /\ \/ /\ now >= pendingSettlements[w].appealDeadline
                   /\ escrowState'[w] =
                        IF pendingSettlements[w].isRelease THEN "RELEASED" ELSE "REFUNDED"
                \/ /\ escrowState'[w] = "DISPUTED"
                   /\ disputeRaisedTimestamp'[w] = disputeRaisedTimestamp[w]
                   /\ addressEscalationCount'[loser] > addressEscalationCount[loser]]_vars

\* Once an escrow has ended it stays as it ended, its claims never grow again and only
\* their owner's withdrawal lowers them.
TerminalIsFinal ==
  [][\A w \in Workflows :
       escrowState[w] \in Terminal =>
         /\ escrowState'[w] = escrowState[w]
         /\ \A a \in Accounts :
              Paid(w, a)' = Paid(w, a) /\ claimableBalances'[w][a] <= claimableBalances[w][a]]_vars

\* Two contracts record the consent to cancel: the vault in the parties' statuses, the
\* default strategy in pendingCancel.  Whatever others write into the strategy's record,
\* a step never leaves both consents standing in an escrow that stays PENDING: the second
\* one refunds.  And where the two contracts agree on who has consented, a consent leaves
\* them agreeing.
RecordsAgree(w) ==
  /\ pendingCancel[w] = terms[w].from <=> senderStatus[w] = "AGREE_TO_CANCEL"
  /\ pendingCancel[w] = terms[w].to <=> recipientStatus[w] = "AGREE_TO_CANCEL"
ConsentsKept ==
  [][\A w \in Workflows :
       (escrowState[w] = "PENDING" /\ escrowState'[w] = "PENDING") =>
         /\ ~(senderStatus'[w] = "AGREE_TO_CANCEL" /\ recipientStatus'[w] = "AGREE_TO_CANCEL")
         /\ (/\ KeepsRecord(w) /\ RecordsAgree(w)
             /\ senderStatus'[w] # senderStatus[w] \/ recipientStatus'[w] # recipientStatus[w])
              => RecordsAgree(w)']_vars

\* A PENDING escrow is refunded only when its auto-cancel time has come, when one party
\* cancels after the other one had consented in an earlier call, or when the strategy it
\* was created with may let one party cancel alone: neither a strategy activated later nor
\* a consent that only the strategy's open record shows takes it back.
NoUnilateralRefund ==
  [][\A w \in Workflows :
       (escrowState[w] = "PENDING" /\ escrowState'[w] = "REFUNDED") =>
         \/ AutoCancelDue(w)
         \/ terms[w].cancellationStrategy \in OtherStrategies
         \/ \E u \in UnwindOutcomes(w, Remaining(w)) :
              \/ recipientStatus[w] = "AGREE_TO_CANCEL" /\ SenderCancel(w, u)
              \/ senderStatus[w] = "AGREE_TO_CANCEL" /\ RecipientCancel(w, u)]_vars

\* Who may rule on a disputed escrow is fixed while the dispute is at one level: no
\* governance action, however it changes the default modules, adds or removes a resolver;
\* only an appeal hands the authority on.
AuthorizedResolvers(w) == {a \in Accounts : IsAuthorizedDisputeResolver(w, a)}
AuthorityStable ==
  [][\A w \in Workflows :
       (escrowState[w] = "DISPUTED" /\ escrowState'[w] = "DISPUTED"
          /\ AuthorizedResolvers(w)' # AuthorizedResolvers(w)) =>
            \E a \in {terms[w].from, terms[w].to} :
              addressEscalationCount'[a] > addressEscalationCount[a]]_vars

\* A split pays each party the part both agreed to, before the proposal's expiry, and
\* shares the rest (the yield after the fee) in proportion to the parts: the seller gets
\* what rounding down the buyer's share leaves, less than one unit more than its own.
SplitAsAgreed ==
  [][\A w \in Workflows :
       (escrowState[w] # "RESOLVED" /\ escrowState'[w] = "RESOLVED") =>
         LET split == splitProposals[w]
             buyerYield == Paid(w, terms[w].from)' - split.buyerAmount
             sellerYield == Paid(w, terms[w].to)' - split.sellerAmount
             inFavourOfSeller == sellerYield * split.buyerAmount - buyerYield * split.sellerAmount
         IN  /\ split.active /\ now <= split.expiry
             /\ buyerYield >= 0 /\ sellerYield >= 0
             /\ split.buyerAmount + split.sellerAmount = terms[w].amountAfterFee
             /\ inFavourOfSeller >= 0 /\ inFavourOfSeller < terms[w].amountAfterFee]_vars

\* The end of an escrow gives the protocol at most the snapshotted part of the yield that
\* was realized, never a part of the principal, whatever the fee is by then.
YieldFeeBounded ==
  [][\A w \in Workflows :
       (escrowState[w] \in Active /\ escrowState'[w] \in Terminal) =>
         LET fee == totalFees' - totalFees
             gross == (totalClaimable' - totalClaimable) + fee
         IN  fee > 0 =>
               fee * DENOMINATOR <= (gross - Remaining(w)) * terms[w].yieldProtocolFeeBps]_vars

(***************************************************************************)
(* Liveness: time passes, and a keeper keeps asking for timed actions.     *)
(***************************************************************************)

KeeperStep(w) ==
  \E k \in Keepers : \E u \in UnwindOutcomes(w, Remaining(w)) : AutomateTimedActions(w, k, u)

FairSpec == Spec /\ WF_vars(Tick) /\ \A w \in Workflows : WF_vars(KeeperStep(w))

\* An escrow whose snapshot limits disputes and that is in dispute, or has an automatic
\* release or cancellation ahead, comes to an end: appeals and rulings cannot keep it open.
EscrowConcludes ==
  \A w \in Workflows :
    (/\ terms[w].maxDisputeDuration > 0
     /\ \/ escrowState[w] = "DISPUTED"
        \/ /\ escrowState[w] = "PENDING"
           /\ terms[w].autoReleaseTime > 0 \/ terms[w].autoCancelTime > 0)
      ~> escrowState[w] \in Terminal

\* Even without a limit on disputes, a ruling in waiting is realized or appealed.
RulingConcludes ==
  \A w \in Workflows : pendingSettlements[w].exists ~> ~pendingSettlements[w].exists

(***************************************************************************)
(* What the documents of the repository say and the code does not keep.    *)
(***************************************************************************)

\* AUTO_EXPIRY_AUTHORISATION.md: a disputed escrow cannot be auto-cancelled through
\* automateTimedActions; only a due ruling or the dispute's own timeout applies there.
DisputedNotAutoCancelled ==
  [][\A w \in Workflows :
       (escrowState[w] = "DISPUTED" /\ KeeperStep(w)) => PendingDue(w) \/ DisputeTimedOut(w)]_vars

\* FORWARD_ONLY_UPGRADES.md: the activation of a resolution module has no effect on an
\* escrow whose snapshot is already written.
ResolutionModuleForwardOnly ==
  [][\A w \in Workflows :
       Exists(w) => ResolutionModuleOf(w)' = ResolutionModuleOf(w)]_vars

\* WITHDRAWALS.md: the vault's balance covers the claims that can be withdrawn.
ClaimsCovered == tokenBalance >= totalClaimable

================================================================================
