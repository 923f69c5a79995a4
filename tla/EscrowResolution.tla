--------------------------- MODULE EscrowResolution ---------------------------
(***************************************************************************)
(* The vault with the contracts it settles disputes through: the           *)
(* DecentralizedResolutionModule, its incentive module, and the            *)
(* KlerosArbitrableProxy, the resolver of the last round.                  *)
(*                                                                         *)
(* Vault and module each keep a record of the same dispute: resolver,      *)
(* decision, deadline and finality twice.  The vault writes both within    *)
(* one transaction, but the module's record also moves without the vault   *)
(* (executeEscalation, forceProgress), and the vault goes on when a call   *)
(* to the module fails.  Here every answer EscrowVault leaves open is the  *)
(* module's, computed from the module's state.                             *)
(*                                                                         *)
(* Of the vault's steps those without a call to the module are taken over  *)
(* as they are.  One token is at stake and no yield.                       *)
(***************************************************************************)
EXTENDS EscrowVault

CONSTANTS
  Juniors, Seniors, ExternalResolver, ResolveDeadlines, AppealWindows, EnabledRounds,
  MaxConcurrentDisputes, Incentives,
  BaseBonds,       \* costs of a first appeal the module may be configured with
  ConfigBindings   \* is an escrow bound to a published configuration of the module?

ASSUME ResolutionAssumption ==
  /\ Juniors \cup Seniors \cup {ExternalResolver} \subseteq Accounts
  /\ ResolveDeadlines \in [0 .. 2 -> Nat] /\ AppealWindows \in [0 .. 2 -> Nat]
  /\ EnabledRounds \subseteq 0 .. 2 /\ MaxConcurrentDisputes \in Nat /\ Incentives \in BOOLEAN

\* What quoteAppealTransition of this module answers for an appealable decision.
QuotesOfModule ==
  [successor : Seniors \cup {ExternalResolver}, decision : {"RELEASE", "CANCEL"},
   bond : BaseBonds \cup {0}, asset : {"ETH"}]

\* The vault's picture of its modules, and the answers it allows for, fit this module.
ASSUME CompositionAssumption ==
  /\ \E m \in Modules : Modules = {m}
  /\ InitConfig.resolutionModule # NoModule
  /\ \A m \in Modules : Incentives <=> m \in Incentivized
  /\ ~ConsistentModule
  /\ BaseBonds \subseteq Nat /\ ConfigBindings \subseteq BOOLEAN
  /\ {AppealWindows[r] : r \in {0, 1}} \subseteq ModuleWindows
  /\ Juniors \cup Seniors \cup {ExternalResolver} \subseteq ModuleResolvers
  /\ QuotesOfModule \subseteq AppealQuotes /\ 0 \in ExcessValues

VARIABLES
  disputeMetadata, resolverActiveDisputes, newAssignmentsPaused, appealBonds,
  baseBond,         \* escalationCostConfig; 0 when it is not enabled
  klerosDisputes,   \* disputes of the proxy, each created and committed in one appeal
  past              \* history: what happened to the dispute besides rulings

DRM == INSTANCE ResolutionModule

moduleVars == <<disputeMetadata, resolverActiveDisputes, newAssignmentsPaused, appealBonds>>
besideVars == <<moduleVars, baseBond, klerosDisputes, past>>
allVars == <<vars, besideVars>>

Rulings == {"none", "refused", "RELEASE", "CANCEL"}
Events == {"unassigned", "mismatched", "appealed", "moved", "forced", "unrecorded"}
ResolutionTypeOK ==
  /\ TypeOK
  /\ DRM!TypeOK
  /\ baseBond \in BaseBonds
  /\ klerosDisputes \in [Workflows -> [created : BOOLEAN, ruling : Rulings]]
  /\ past \in [Workflows -> SUBSET Events]

ResolutionInit ==
  /\ Init
  /\ DRM!Init
  /\ baseBond \in BaseBonds
  /\ klerosDisputes = [w \in Workflows |-> [created |-> FALSE, ruling |-> "none"]]
  /\ past = [w \in Workflows |-> {}]

Happens(w, event) == past' = [past EXCEPT ![w] = @ \cup event]

--------------------------------------------------------------------------------
(***************************************************************************)
(* Opening.                                                                *)
(***************************************************************************)

CreateWithModule(req) ==
  /\ escrowCount \in Workflows
  /\ \E r \in DRM!DisputeResolvers(escrowCount) : CreateEscrow(req, r, FALSE)
  /\ UNCHANGED besideVars

\* raiseDispute with initializeInModule.  Without a bound configuration the module's
\* initialization picks the resolver its view named just before, or fails unnoticed
\* because it has been done; with one its choice is its own and a failure is a revert.
RaiseWithModule(w, caller, bound) ==
  \E answer \in DRM!DisputeResolvers(w) :
    /\ RaiseDispute(w, caller, answer)
    /\ bound => ~DRM!IsInitialized(w)
    /\ \E r \in IF bound THEN DRM!Selection(Juniors) ELSE {answer} :
         IF DRM!IsInitialized(w)
         THEN UNCHANGED <<disputeMetadata, resolverActiveDisputes, past>>
         ELSE /\ DRM!Initialize(w, r)
              /\ Happens(w, IF r = NoAccount THEN {"unassigned"}
                            ELSE IF r # disputeResolver'[w] THEN {"mismatched"} ELSE {})
    /\ UNCHANGED <<newAssignmentsPaused, appealBonds, baseBond, klerosDisputes>>

(***************************************************************************)
(* Closing.  _finalizeDisputeInModule: the module closes its record if it  *)
(* may, and the resolver of the vault's record is relieved of a dispute.   *)
(***************************************************************************)

FinalizeInModule(w, dm, bonds) ==
  /\ disputeMetadata' = [disputeMetadata EXCEPT ![w] =
       IF DRM!CanFinalize(dm) THEN DRM!Closed(dm) ELSE dm]
  /\ appealBonds' = [appealBonds EXCEPT ![w] =
       IF DRM!CanFinalize(dm) /\ Incentives THEN DRM!BondsForfeited(bonds, dm.currentRound)
                                            ELSE bonds]
  /\ resolverActiveDisputes' = DRM!Freed(disputeResolver[w])
  /\ UNCHANGED newAssignmentsPaused

\* A dispute is closed in the module as well; what ends an escrow nobody disputed is not.
CloseWithVault(w) ==
  /\ IF escrowState[w] = "DISPUTED"
     THEN FinalizeInModule(w, disputeMetadata[w], appealBonds[w])
     ELSE UNCHANGED moduleVars
  /\ UNCHANGED <<baseBond, klerosDisputes, past>>

InPlace(w) == NothingReceived(Remaining(w))

TimedActionsWithModule(w, caller) ==
  /\ \/ AutomateTimedActions(w, caller, InPlace(w))
     \/ ResolveDisputeByTimeout(w, caller, InPlace(w))
     \/ ExecutePendingSettlement(w, caller, InPlace(w))
  /\ CloseWithVault(w)

\* acceptSplit: closeByMutualAgreement closes the record whatever stage it is in, so the
\* finalizeDispute that follows fails.
AcceptSplitWithModule(w, caller) ==
  LET dm == disputeMetadata[w] IN
    /\ AcceptSplit(w, caller, InPlace(w))
    /\ IF escrowState[w] = "DISPUTED"
       THEN /\ disputeMetadata' = [disputeMetadata EXCEPT ![w] = DRM!Closed(dm)]
            /\ appealBonds' = [appealBonds EXCEPT ![w] =
                 IF dm.status # "Final" /\ Incentives
                 THEN DRM!BondsForfeited(@, dm.currentRound) ELSE @]
            /\ resolverActiveDisputes' = DRM!Freed(disputeResolver[w])
       ELSE UNCHANGED <<disputeMetadata, appealBonds, resolverActiveDisputes>>
    /\ UNCHANGED <<newAssignmentsPaused, baseBond, klerosDisputes, past>>

(***************************************************************************)
(* Rulings and appeals.                                                    *)
(***************************************************************************)

\* computeResolutionExecution on the module's record as the recording left it.
OutcomeBySnapshot(w, dm) ==                                                    \* mutant
  IF DRM!IsFinalRound(dm) THEN Execute
  ELSE IF terms[w].appealWindowDuration = 0 THEN Execute
  ELSE Deadline(now + terms[w].appealWindowDuration)
Outcome(w, dm) ==
  IF DRM!IsFinalRound(dm) THEN Execute
  ELSE IF dm.appealDeadline[dm.currentRound] # 0
       THEN Deadline(dm.appealDeadline[dm.currentRound])
  ELSE IF terms[w].appealWindowDuration = 0 THEN Execute
  ELSE Deadline(now + terms[w].appealWindowDuration)

RecordAfter(w, decision) ==
  IF DRM!RecordReverts(w) THEN disputeMetadata[w] ELSE DRM!Recorded(w, decision)
BondsAfter(w, decision) ==
  IF DRM!RecordReverts(w) THEN appealBonds[w] ELSE DRM!BondsAfterDecision(w, decision)

MayRule(w, caller) ==
  /\ IsAuthorizedDisputeResolver(w, caller)
  /\ (terms[w].customResolver = NoAccount /\ disputeResolver[w] = NoAccount)
       => DRM!IsAuthorized(w, caller)

\* _executeResolution: the module records the decision or fails to, then says whether it
\* is final.  Where a ruling waits already the call reverts, and the record with it.
Rule(w, caller, decision) ==
  LET dm == RecordAfter(w, decision)
      outcome == Outcome(w, dm)
  IN  /\ MayRule(w, caller)
      /\ ExecuteResolution(w, caller, decision = "RELEASE", outcome, InPlace(w))
      /\ IF outcome.immediate
         THEN FinalizeInModule(w, dm, BondsAfter(w, decision))
         ELSE /\ disputeMetadata' = [disputeMetadata EXCEPT ![w] = dm]
              /\ appealBonds' = [appealBonds EXCEPT ![w] = BondsAfter(w, decision)]
              /\ UNCHANGED <<resolverActiveDisputes, newAssignmentsPaused>>
      /\ Happens(w, IF DRM!RecordReverts(w) THEN {"unrecorded"} ELSE {})
      /\ UNCHANGED baseBond

RuleWithModule(w, caller, decision) ==
  /\ caller # ExternalResolver
  /\ Rule(w, caller, decision)
  /\ UNCHANGED klerosDisputes

\* The dispute the proxy creates while the module's record is only prepared to move.
KlerosDisputesAfterAppeal(w) ==
  IF DRM!Round(w) + 1 = DRM!MAX_ROUND
  THEN [klerosDisputes EXCEPT ![w].created = TRUE] ELSE klerosDisputes

\* _appealDispute, with the quote, the bond and the transition of the module.
AppealWithModule(w, caller) ==
  \E successor \in DRM!Successors(w) :
    LET bond == DRM!QuotedBond(w, baseBond)
        quote == [successor |-> successor, decision |-> DRM!CurrentDecision(w),
                  bond |-> bond, asset |-> "ETH"]
    IN  /\ DRM!Appealable(w)
        /\ AppealDispute(w, caller, quote, 0)
        /\ disputeMetadata' = [disputeMetadata EXCEPT ![w] = DRM!Escalated(w, successor)]
        /\ appealBonds' =
             IF bond > 0 THEN [appealBonds EXCEPT ![w][DRM!Round(w) + 1] = "posted"]
                         ELSE appealBonds
        /\ ~klerosDisputes[w].created
        /\ klerosDisputes' = KlerosDisputesAfterAppeal(w)
        /\ Happens(w, {"appealed"})
        /\ UNCHANGED <<resolverActiveDisputes, newAssignmentsPaused, baseBond>>

(***************************************************************************)
(* Steps of the module without the vault.                                  *)
(***************************************************************************)

ExecuteEscalation(w) ==
  /\ DRM!Appealable(w)
  /\ \E successor \in DRM!Successors(w) :
       disputeMetadata' = [disputeMetadata EXCEPT ![w] = DRM!Escalated(w, successor)]
  /\ Happens(w, {"moved"})
  /\ UNCHANGED <<vars, resolverActiveDisputes, newAssignmentsPaused, appealBonds, baseBond,
                 klerosDisputes>>

GuardianForcesProgress(w) ==
  /\ \E r \in DRM!Replacements(w) : DRM!ForceProgress(w, r)
  /\ Happens(w, {"forced"})
  /\ UNCHANGED <<vars, baseBond, klerosDisputes>>

PauseAssignments == DRM!PauseNewAssignments /\ UNCHANGED <<vars, baseBond, klerosDisputes, past>>

(***************************************************************************)
(* The proxy.  Its calls to the vault are tried and their failure is       *)
(* swallowed: a refused or lost call leaves only the proxy's record, and   *)
(* anybody may send the ruling again.                                      *)
(***************************************************************************)

VaultAccepts(w) ==
  /\ escrowState[w] = "DISPUTED"
  /\ MayRule(w, ExternalResolver)
  /\ ~pendingSettlements[w].exists \/ DRM!IsFinalRound(disputeMetadata[w])

PropagateSwapped(w, ruling) ==                                                 \* mutant
  IF ruling \in {"RELEASE", "CANCEL"} /\ VaultAccepts(w)
  THEN Rule(w, ExternalResolver, IF ruling = "RELEASE" THEN "CANCEL" ELSE "RELEASE")
  ELSE UNCHANGED <<vars, moduleVars, baseBond, past>>
Propagate(w, ruling) ==
  IF ruling \in {"RELEASE", "CANCEL"} /\ VaultAccepts(w)
  THEN Rule(w, ExternalResolver, ruling)
  ELSE UNCHANGED <<vars, moduleVars, baseBond, past>>

\* rule, once for a dispute; or propagateRuling when the arbitrator has ruled and has not
\* called, which leaves the same record.
CourtRules(w, ruling, delivered) ==
  /\ InHorizon
  /\ klerosDisputes[w].created /\ klerosDisputes[w].ruling = "none"
  /\ klerosDisputes' = [klerosDisputes EXCEPT ![w].ruling = ruling]
  /\ IF delivered THEN Propagate(w, ruling)
                  ELSE UNCHANGED <<vars, moduleVars, baseBond, past>>

\* propagateRuling of a ruling on record.
PropagateRuling(w) ==
  /\ InHorizon
  /\ klerosDisputes[w].ruling # "none"
  /\ Propagate(w, klerosDisputes[w].ruling)
  /\ UNCHANGED klerosDisputes

--------------------------------------------------------------------------------

\* The vault's steps that do not call the module.
VaultOnly(w) ==
  /\ \/ SenderCancel(w, InPlace(w))
     \/ RecipientCancel(w, InPlace(w))
     \/ \E named \in NamedCallers : AttemptOfAnotherCaller(w, named)
     \/ \E a \in Accounts :
          \/ Release(w, a, InPlace(w))
          \/ \E x \in PartialAmounts : PartialRelease(w, a, x)
          \/ \E x \in BuyerShares, d \in SplitDelays : ProposeSplit(w, a, x, d)
          \/ CancelSplit(w, a)
          \/ WithdrawEscrow(w, a)
  /\ UNCHANGED besideVars

ResolutionNext ==
  \/ (Tick \/ Governance \/ WithdrawFees) /\ UNCHANGED besideVars
  \/ \E req \in CreateRequests : CreateWithModule(req)
  \/ PauseAssignments
  \/ \E w \in Workflows :
       \/ VaultOnly(w)
       \/ ExecuteEscalation(w)
       \/ GuardianForcesProgress(w)
       \/ \E ruling \in Rulings \ {"none"}, delivered \in BOOLEAN : CourtRules(w, ruling, delivered)
       \/ PropagateRuling(w)
       \/ \E a \in Accounts :
            \/ \E bound \in ConfigBindings : RaiseWithModule(w, a, bound)
            \/ \E decision \in {"RELEASE", "CANCEL"} : RuleWithModule(w, a, decision)
            \/ AppealWithModule(w, a)
            \/ TimedActionsWithModule(w, a)
            \/ AcceptSplitWithModule(w, a)

ResolutionSpec == ResolutionInit /\ [][ResolutionNext]_allVars

================================================================================
