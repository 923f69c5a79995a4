---------------------- MODULE EscrowResolutionProperties ----------------------
(***************************************************************************)
(* What holds between the two records of a dispute, the vault's and the    *)
(* resolution module's.  Several properties name the events after which    *)
(* they do not hold; those exceptions are as much a result as the rest.    *)
(***************************************************************************)
EXTENDS EscrowResolution, FiniteSets

Without(w, events) == past[w] \cap events = {}

(***************************************************************************)
(* Invariants.                                                             *)
(***************************************************************************)

\* The ruling the vault will pay out is the one the module has on record for its current
\* round, with the deadline up to which the module accepts an appeal against it, unless
\* the module's round moved without the vault or the recording failed unnoticed.
RulingsAgree ==
  \A w \in Workflows :
    (pendingSettlements[w].exists /\ Without(w, {"moved", "unrecorded"})) =>
      LET dm == disputeMetadata[w] IN
        /\ dm.status = "Decided"
        /\ DRM!CurrentDecision(w) = "RELEASE" <=> pendingSettlements[w].isRelease
        /\ DRM!CurrentDecision(w) # "NONE"
        /\ dm.appealDeadline[DRM!Round(w)] = pendingSettlements[w].appealDeadline

\* At no instant can one party have a ruling paid out while the other can still appeal it:
\* the vault's clock for the one ends where the module's clock for the other does.
NoTie == \A w \in Workflows : ~(PendingDue(w) /\ DRM!Appealable(w))

\* The resolver whose ruling the vault obeys is the one the module has assigned to the
\* current round, through appeals and hand-offs, unless the module's record moved without
\* the vault or the two chose separately when the dispute was raised.
AuthorityAgrees ==
  \A w \in Workflows :
    (escrowState[w] = "DISPUTED"
       /\ Without(w, {"moved", "forced", "unassigned", "mismatched"})) =>
      disputeResolver[w] = DRM!CurrentResolver(w)

\* Appointments keep juniors and seniors apart; the court may be set to anybody.
InOneRole(r) == r \notin Juniors \/ r \notin Seniors \cup {ExternalResolver}

\* A resolver's count of active disputes, which decides who may get the next one, is the
\* number of open disputes it was first assigned, plus those that were appealed from it:
\* the end of an appealed dispute relieves its last resolver, who never carried it.
\* Replacement by a guardian is apart, and so are disputes opened without a common choice:
\* the end of one of those relieves a resolver it was never counted for.  A junior who is
\* the court as well loses own disputes that way.
LoadAccounted ==
  (\A w \in Workflows : Without(w, {"unassigned", "mismatched", "forced"})) =>
    \A r \in Accounts : InOneRole(r) =>
      resolverActiveDisputes[r] =
        Cardinality({w \in Workflows : /\ disputeMetadata[w].resolverAtRound[0] = r
                                       /\ escrowState[w] = "DISPUTED" \/ "appealed" \in past[w]})

\* Once a dispute is with the court no earlier ruling waits, and the seller is paid only
\* as the court ruled, whether its ruling arrived at once, late or again.
CourtHasLastWord ==
  \A w \in Workflows :
    klerosDisputes[w].created =>
      /\ ~pendingSettlements[w].exists
      /\ escrowState[w] = "RELEASED" => klerosDisputes[w].ruling = "RELEASE"

\* When an escrow has ended its appeal bond has gone to somebody: with the ruling of the
\* appealed round, or to the protocol when a split made the ruling needless.  The one
\* exception is the refund after a timeout with the appealed round undecided: the module
\* refuses to close such a record and the bond stays where it is.
BondSettled ==
  \A w \in Workflows :
    (escrowState[w] \in Terminal /\ \E r \in 1 .. DRM!MAX_ROUND : appealBonds[w][r] = "posted")
      => /\ escrowState[w] = "REFUNDED"
         /\ DRM!CurrentDecision(w) = "NONE"
         /\ disputeMetadata[w].status # "Final"

(***************************************************************************)
(* Action properties.                                                      *)
(***************************************************************************)

\* Two clocks end a dispute: paying out a ruling that waited always finds the module
\* ready to close its record, on the same decision.
RulingClosesDispute(w) ==
  (pendingSettlements[w].exists /\ escrowState'[w] \in Terminal
     /\ Without(w, {"moved", "unrecorded"})) =>
    /\ disputeMetadata'[w].status = "Final"
    /\ escrowState'[w] = "RELEASED" <=> DRM!CurrentDecision(w) = "RELEASE"
RulingsCloseDisputes == [][\A w \in Workflows : RulingClosesDispute(w)]_allVars

\* A ruling that waits is not displaced before its time by anything but a paid appeal,
\* unless the module's round was moved without the vault: the module is then final
\* before its time, and a second ruling takes the place of the first.
HeldUntilDue(w) ==
  (pendingSettlements[w].exists /\ pendingSettlements'[w] # pendingSettlements[w]) =>
    \/ now >= pendingSettlements[w].appealDeadline
    \/ addressEscalationCount' # addressEscalationCount
    \/ "moved" \in past[w]
RulingsHeldUntilDue == [][\A w \in Workflows : HeldUntilDue(w)]_allVars

\* A decision on record stays: the module takes any decision at any time and relies on
\* the vault to revert the second one of a round.
OneDecisionPerRound ==
  [][\A w \in Workflows : \A r \in DRM!Rounds :
       disputeMetadata[w].decisionAtRound[r] # "NONE" =>
         disputeMetadata'[w].decisionAtRound[r] = disputeMetadata[w].decisionAtRound[r]]_allVars

================================================================================
