--------------------------- MODULE ResolutionModule ---------------------------
(***************************************************************************)
(* DecentralizedResolutionModule: the contract that assigns resolvers,     *)
(* records their decisions round by round and decides whether a decision   *)
(* may be appealed; with the appeal bonds of its ResolverIncentiveModule.  *)
(*                                                                         *)
(* The vault calls it from inside its own transactions, several entry      *)
(* points in one, and swallows the failure of most of them.  An entry      *)
(* point is therefore split here into the condition under which it does    *)
(* not revert and the value it writes; EscrowResolution puts them together *)
(* in the order of the vault's calls.                                      *)
(*                                                                         *)
(* Which eligible resolver the round robin picks depends on a block hash   *)
(* and on quality scores: any of them, or none, is a possible answer.      *)
(* A definition marked "mutant" is the one below it with one mistake.      *)
(***************************************************************************)
EXTENDS Integers

CONSTANTS
  Workflows,              \* escrows of the one registered vault
  Accounts, NoAccount,
  Juniors,                \* approvedResolvers
  Seniors,                \* approvedSeniorResolvers
  ExternalResolver,       \* the Kleros proxy
  ResolveDeadlines,       \* resolveDeadlines, by round
  AppealWindows,          \* appealWindows, by round
  EnabledRounds,          \* rounds whose escalationConfig is enabled
  MaxConcurrentDisputes,  \* of every resolver; 0 is no limit
  Incentives              \* is an incentive module set?

MAX_ROUND == 2
Rounds == 0 .. MAX_ROUND
Decisions == {"NONE", "RELEASE", "CANCEL"}

VARIABLES
  now,                      \* block.timestamp, shared with the vault
  disputeMetadata,
  resolverActiveDisputes,   \* and ResolverCapacity.currentDisputes, which moves with it
  newAssignmentsPaused,
  appealBonds               \* of the incentive module, by the round the appeal leads to

\* DisputeStatus.Escalated is never written.
DisputeMetadata ==
  [currentRound : Rounds, status : {"Open", "Decided", "Final"}, resolveBy : Nat,
   resolverAtRound : [Rounds -> Accounts \cup {NoAccount}],
   decisionAtRound : [Rounds -> Decisions], appealDeadline : [Rounds -> Nat]]

\* A bond is spent once: on the appellant, on the resolvers of the round appealed, or
\* on the protocol.
BondStates == {"none", "posted", "refunded", "paid", "forfeited"}

TypeOK ==
  /\ disputeMetadata \in [Workflows -> DisputeMetadata]
  /\ resolverActiveDisputes \in [Accounts -> Nat]
  /\ newAssignmentsPaused \in BOOLEAN
  /\ appealBonds \in [Workflows -> [1 .. MAX_ROUND -> BondStates]]

Init ==
  /\ disputeMetadata = [w \in Workflows |->
       [currentRound |-> 0, status |-> "Open", resolveBy |-> 0,
        resolverAtRound |-> [r \in Rounds |-> NoAccount],
        decisionAtRound |-> [r \in Rounds |-> "NONE"],
        appealDeadline |-> [r \in Rounds |-> 0]]]
  /\ resolverActiveDisputes = [a \in Accounts |-> 0]
  /\ newAssignmentsPaused = FALSE
  /\ appealBonds = [w \in Workflows |-> [r \in 1 .. MAX_ROUND |-> "none"]]

--------------------------------------------------------------------------------
(***************************************************************************)
(* Views.                                                                  *)
(***************************************************************************)

Round(w) == disputeMetadata[w].currentRound
CurrentResolver(w) == disputeMetadata[w].resolverAtRound[Round(w)]
CurrentDecision(w) == disputeMetadata[w].decisionAtRound[Round(w)]

\* _selectResolverForWorkflow: somebody active with room for a dispute, or nobody.
Selection(list) ==
  {NoAccount} \cup
  {r \in list : /\ ~newAssignmentsPaused
                /\ MaxConcurrentDisputes = 0 \/ resolverActiveDisputes[r] < MaxConcurrentDisputes}

\* getDisputeResolver.
DisputeResolvers(w) ==
  IF CurrentResolver(w) # NoAccount THEN {CurrentResolver(w)} ELSE Selection(Juniors)

\* isAuthorizedDisputeResolver: a senior may stand in for a resolver in every round.
IsAuthorized(w, a) ==
  \/ a = CurrentResolver(w)
  \/ a \in Seniors
  \/ Round(w) = 0 /\ a \in Juniors

\* _quoteAppealTransition: may the current decision be appealed, and to whom?
DecisionOpen(dm) == dm.decisionAtRound[dm.currentRound] # "NONE"
AppealableOnDeadline(w) ==                                                     \* mutant
  LET dm == disputeMetadata[w] IN
    /\ Round(w) < MAX_ROUND
    /\ dm.status = "Decided"
    /\ DecisionOpen(dm)
    /\ dm.appealDeadline[Round(w)] >= now
    /\ Round(w) + 1 \in EnabledRounds
Appealable(w) ==
  LET dm == disputeMetadata[w] IN
    /\ Round(w) < MAX_ROUND
    /\ dm.status = "Decided"
    /\ DecisionOpen(dm)
    /\ dm.appealDeadline[Round(w)] > now
    /\ Round(w) + 1 \in EnabledRounds
Successors(w) ==
  IF Round(w) = 0 THEN Selection(Seniors) \ {NoAccount} ELSE {ExternalResolver}

\* An appeal to the external resolver costs its fee and no bond.
QuotedBond(w, baseBond) == IF Round(w) = 0 THEN baseBond ELSE 0

(***************************************************************************)
(* What the entry points write.                                            *)
(***************************************************************************)

\* A resolver gets a dispute, or loses one: the count stops at zero.
Assigned(r) == [resolverActiveDisputes EXCEPT ![r] = @ + 1]
FreedBelowZero(r) ==                                                           \* mutant
  [a \in Accounts |-> resolverActiveDisputes[a] - (IF a = r THEN 1 ELSE 0)]
FreedNever(r) == resolverActiveDisputes                                        \* mutant
Freed(r) ==
  [a \in Accounts |-> IF a = r /\ resolverActiveDisputes[a] > 0
                      THEN resolverActiveDisputes[a] - 1 ELSE resolverActiveDisputes[a]]

\* initializeDisputeWithCategory, with the resolver the selection returned.
IsInitialized(w) == disputeMetadata[w].resolverAtRound[0] # NoAccount
Opened(w, r) ==
  [disputeMetadata[w] EXCEPT
     !.currentRound = 0, !.status = "Open", !.resolverAtRound[0] = r,
     !.resolveBy = now + ResolveDeadlines[0]]
Initialize(w, r) ==
  IF r = NoAccount THEN UNCHANGED <<disputeMetadata, resolverActiveDisputes>>
  ELSE /\ disputeMetadata' = [disputeMetadata EXCEPT ![w] = Opened(w, r)]
       /\ resolverActiveDisputes' = Assigned(r)

\* recordResolution does not ask for the status of the record.  In a later round it
\* spends the bond of the appeal that led there, and reverts when there is none.
SpendsBond(w) ==
  /\ Incentives
  /\ Round(w) > 0
  /\ disputeMetadata[w].decisionAtRound[Round(w) - 1] # "NONE"
RecordReverts(w) == SpendsBond(w) /\ appealBonds[w][Round(w)] # "posted"
Recorded(w, decision) ==
  [disputeMetadata[w] EXCEPT
     !.decisionAtRound[Round(w)] = decision,
     !.appealDeadline[Round(w)] = now + AppealWindows[Round(w)],
     !.status = "Decided"]
BondsAfterDecision(w, decision) ==
  IF SpendsBond(w)
  THEN [appealBonds[w] EXCEPT ![Round(w)] =
          IF decision # disputeMetadata[w].decisionAtRound[Round(w) - 1]
          THEN "refunded" ELSE "paid"]
  ELSE appealBonds[w]

\* getAppealDeadlineAndRound.
IsFinalRound(dm) == dm.currentRound = MAX_ROUND

\* finalizeDispute on record dm, and the clean-up of bonds in onDisputeFinalized.
CanFinalizeAfterDeadline(dm) ==                                                \* mutant
  /\ dm.status # "Final"
  /\ DecisionOpen(dm)
  /\ \/ IsFinalRound(dm)
     \/ dm.appealDeadline[dm.currentRound] > 0 /\ now > dm.appealDeadline[dm.currentRound]
CanFinalize(dm) ==
  /\ dm.status # "Final"
  /\ DecisionOpen(dm)
  /\ \/ IsFinalRound(dm)
     \/ dm.appealDeadline[dm.currentRound] > 0 /\ now >= dm.appealDeadline[dm.currentRound]
Closed(dm) == [dm EXCEPT !.status = "Final"]
BondsKept(bonds, finalRound) == bonds                                          \* mutant
BondsForfeited(bonds, finalRound) ==
  [r \in 1 .. MAX_ROUND |->
     IF r <= finalRound /\ bonds[r] = "posted" THEN "forfeited" ELSE bonds[r]]

\* _executeEscalation, also open to callers other than the vault.  Round, resolver and
\* deadline move; the status stays Decided and no count of disputes changes.
EscalatedInPlace(w, r) ==                                                      \* mutant
  [disputeMetadata[w] EXCEPT
     !.resolverAtRound[Round(w)] = r, !.resolveBy = now + ResolveDeadlines[Round(w)]]
EscalatedNamingNobody(w, r) ==                                                 \* mutant
  [disputeMetadata[w] EXCEPT
     !.currentRound = @ + 1, !.resolveBy = now + ResolveDeadlines[Round(w) + 1]]
Escalated(w, r) ==
  [disputeMetadata[w] EXCEPT
     !.currentRound = @ + 1,
     !.resolverAtRound[Round(w) + 1] = r,
     !.resolveBy = now + ResolveDeadlines[Round(w) + 1]]

\* forceProgress: a resolver who is late is replaced; when nobody else is found the
\* record is closed.  A record no dispute was raised for is late from the start.
Replacements(w) ==
  CASE Round(w) = 0 -> Selection(Juniors)
    [] Round(w) = 1 -> Selection(Seniors)
    [] OTHER -> {NoAccount}
Replaced(w, r) ==
  [disputeMetadata[w] EXCEPT
     !.resolverAtRound[Round(w)] = r, !.resolveBy = now + ResolveDeadlines[Round(w)]]
ForceProgress(w, r) ==
  LET late == CurrentResolver(w) IN
    /\ now >= disputeMetadata[w].resolveBy
    /\ disputeMetadata[w].status = "Open"
    /\ r \in Replacements(w)
    /\ IF r # NoAccount /\ r # late
       THEN /\ disputeMetadata' = [disputeMetadata EXCEPT ![w] = Replaced(w, r)]
            /\ resolverActiveDisputes' = [Freed(late) EXCEPT ![r] = @ + 1]
       ELSE /\ disputeMetadata' = [disputeMetadata EXCEPT ![w] = Closed(@)]
            /\ UNCHANGED resolverActiveDisputes
    /\ UNCHANGED <<newAssignmentsPaused, appealBonds>>

\* pauseNewAssignments and resumeNewAssignments.
PauseNewAssignments ==
  /\ newAssignmentsPaused' = ~newAssignmentsPaused
  /\ UNCHANGED <<disputeMetadata, resolverActiveDisputes, appealBonds>>

================================================================================
