------------------------ MODULE EscrowResolutionProofs ------------------------
(***************************************************************************)
(* The two records of a dispute, proved for every value of the constants:  *)
(* types, the vault unharmed by the composition, agreement of the rulings  *)
(* and of the authority, the action properties about them, the court, the  *)
(* appeal bonds, the resolvers' counts of disputes, and the promise of     *)
(* EscrowPromise with this module behind the vault.                        *)
(***************************************************************************)
EXTENDS EscrowResolutionProperties, EscrowPromiseProofs, FiniteSetTheorems

(***************************************************************************)
(* The inductive invariant.  A waiting ruling is either on the module's    *)
(* record for its current round with the same deadline (Agreed), or that   *)
(* round has no decision at all (Unheard), because the round has moved on  *)
(* without the vault or the recording failed.  That the second case leaves *)
(* no decision behind needs that later rounds are blank, and that a ruling *)
(* finds its round blank needs that the two records lose it together.      *)
(***************************************************************************)
Blank(w, r) ==
  disputeMetadata[w].decisionAtRound[r] = "NONE" /\ disputeMetadata[w].appealDeadline[r] = 0

Agreed(w) ==
  /\ disputeMetadata[w].status = "Decided"
  /\ DRM!Round(w) < DRM!MAX_ROUND
  /\ DRM!CurrentDecision(w) = IF pendingSettlements[w].isRelease THEN "RELEASE" ELSE "CANCEL"
  /\ disputeMetadata[w].appealDeadline[DRM!Round(w)] = pendingSettlements[w].appealDeadline
  /\ pendingSettlements[w].appealDeadline > 0

Unheard(w) ==
  /\ Blank(w, DRM!Round(w))
  /\ \/ "moved" \in past[w]
     \/ /\ "unrecorded" \in past[w]
        /\ DRM!Round(w) < DRM!MAX_ROUND
        /\ terms[w].appealWindowDuration # 0

Records(w) ==
  /\ \A r \in DRM!Rounds : r > DRM!Round(w) => Blank(w, r)
  /\ escrowState[w] \in {"NONE", "PENDING"} => DRM!Round(w) = 0
  /\ (escrowState[w] \notin Terminal /\ ~pendingSettlements[w].exists) => Blank(w, DRM!Round(w))
  /\ pendingSettlements[w].exists => Agreed(w) \/ Unheard(w)

RecordsInv == \A w \in Workflows : Records(w)

USE DEF creationVars, disputeVars, consentVars, limitVars, claimVars, holdingVars, yieldVars,
        appealVars, moduleVars, besideVars

(***************************************************************************)
(* The vault keeps its own invariant: its steps are those of EscrowVault,  *)
(* with answers it allows for.                                             *)
(***************************************************************************)
LEMMA AnswersType ==
  ASSUME NEW w \in Workflows
  PROVE  /\ DRM!Selection(Juniors) \subseteq Address
         /\ DRM!Selection(Seniors) \subseteq Address
         /\ DRM!Successors(w) \subseteq Accounts
BY ResolutionAssumption DEF DRM!Selection, DRM!Successors, Address

LEMMA ResolversType ==
  ASSUME NEW w \in Workflows, DRM!TypeOK
  PROVE  DRM!DisputeResolvers(w) \subseteq Address
<1>1. DRM!CurrentResolver(w) \in Address
  BY DEF DRM!TypeOK, DRM!DisputeMetadata, DRM!CurrentResolver, DRM!Round, Address
<1>. QED  BY <1>1, AnswersType DEF DRM!DisputeResolvers

LEMMA RuleInv ==
  ASSUME Inv, NEW w \in Workflows, NEW a, NEW decision, Rule(w, a, decision)
  PROVE  Inv'
<1>. DEFINE outcome == Outcome(w, RecordAfter(w, decision))
<1>1. ExecuteResolution(w, a, decision = "RELEASE", outcome, InPlace(w))
  BY DEF Rule
<1>2. outcome \in RulingOutcomes(w)
  BY <1>1 DEF ExecuteResolution
<1>. HIDE DEF outcome
<1>. QED  BY <1>1, <1>2, ExecuteResolutionInv

LEMMA AppealInv ==
  ASSUME Inv, DRM!TypeOK, baseBond \in Nat, NEW w \in Workflows, NEW a \in Accounts,
         AppealWithModule(w, a)
  PROVE  Inv'
<1>1. PICK successor \in DRM!Successors(w) :
        /\ DRM!Appealable(w)
        /\ AppealDispute(w, a, [successor |-> successor, decision |-> DRM!CurrentDecision(w),
                                bond |-> DRM!QuotedBond(w, baseBond), asset |-> "ETH"], 0)
  BY DEF AppealWithModule
<1>2. DRM!CurrentDecision(w) \in {"RELEASE", "CANCEL"}
  BY <1>1 DEF DRM!Appealable, DRM!DecisionOpen, DRM!CurrentDecision, DRM!Round, DRM!TypeOK,
              DRM!DisputeMetadata, DRM!Decisions
<1>3. DRM!QuotedBond(w, baseBond) \in Nat
  BY DEF DRM!QuotedBond
<1>4. [successor |-> successor, decision |-> DRM!CurrentDecision(w),
       bond |-> DRM!QuotedBond(w, baseBond), asset |-> "ETH"] \in AppealQuote
  BY <1>2, <1>3, AnswersType DEF AppealQuote, BondAssets
<1>. QED  BY <1>1, <1>4, AppealDisputeInv

LEMMA VaultOnlyInv ==
  ASSUME Inv, NEW w \in Workflows, VaultOnly(w)
  PROVE  Inv'
<1>1. CASE SenderCancel(w, InPlace(w)) \/ RecipientCancel(w, InPlace(w))
  BY <1>1, CancelInv
<1>2. CASE \E a \in Accounts : Release(w, a, InPlace(w))
  BY <1>2, ReleaseInv
<1>3. CASE \E a \in Accounts, x \in PartialAmounts : PartialRelease(w, a, x)
  BY <1>3, PartialReleaseInv
<1>4. CASE \E a \in Accounts, x \in BuyerShares, d \in SplitDelays : ProposeSplit(w, a, x, d)
  BY <1>4, ProposeSplitInv
<1>5. CASE \E a \in Accounts : CancelSplit(w, a)
  BY <1>5, CancelSplitInv
<1>6. CASE \E a \in Accounts : WithdrawEscrow(w, a)
  BY <1>6, WithdrawEscrowInv
<1>7. CASE \E named \in NamedCallers : AttemptOfAnotherCaller(w, named)
  BY <1>7, AttemptOfAnotherCallerInv
<1>. QED  BY <1>1, <1>2, <1>3, <1>4, <1>5, <1>6, <1>7 DEF VaultOnly

LEMMA StutterInv ==
  ASSUME Inv, UNCHANGED vars
  PROVE  Inv'
<1>1. TypeOK'
  BY DEF Inv, TypeOK, vars
<1>2. PhaseInv' /\ now' # 0
  BY DEF Inv, PhaseInv, Phase, vars
<1>. QED  BY <1>1, <1>2 DEF Inv
(***************************************************************************)
(* The records the entry points of the module write, field by field.       *)
(***************************************************************************)
DisputeRecord(current, status, by, resolvers, decisions, deadlines) ==
  [currentRound |-> current, status |-> status, resolveBy |-> by,
   resolverAtRound |-> resolvers, decisionAtRound |-> decisions, appealDeadline |-> deadlines]

LEMMA ClosedFields ==
  ASSUME NEW dm \in DRM!DisputeMetadata
  PROVE  DRM!Closed(dm) = DisputeRecord(dm.currentRound, "Final", dm.resolveBy, dm.resolverAtRound,
                                        dm.decisionAtRound, dm.appealDeadline)
BY DEF DRM!Closed, DRM!DisputeMetadata, DisputeRecord

LEMMA RecordedFields ==
  ASSUME NEW w \in Workflows, disputeMetadata[w] \in DRM!DisputeMetadata, NEW decision
  PROVE  LET dm == disputeMetadata[w]
             r == DRM!Round(w)
         IN  DRM!Recorded(w, decision) =
               DisputeRecord(dm.currentRound, "Decided", dm.resolveBy, dm.resolverAtRound,
                             [dm.decisionAtRound EXCEPT ![r] = decision],
                             [dm.appealDeadline EXCEPT ![r] = now + AppealWindows[r]])
<1>. DEFINE dm == disputeMetadata[w]
            r == DRM!Round(w)
            deadline == now + AppealWindows[r]
            decided == [dm EXCEPT !.decisionAtRound[r] = decision]
            dated == [decided EXCEPT !.appealDeadline[r] = deadline]
<1>1. DRM!Recorded(w, decision) = [dated EXCEPT !.status = "Decided"]
  BY Zenon DEF DRM!Recorded
<1>2. decided = DisputeRecord(dm.currentRound, dm.status, dm.resolveBy, dm.resolverAtRound,
                              [dm.decisionAtRound EXCEPT ![r] = decision], dm.appealDeadline)
  BY DEF DRM!DisputeMetadata, DisputeRecord
<1>. HIDE DEF decided, deadline
<1>3. dated = DisputeRecord(dm.currentRound, dm.status, dm.resolveBy, dm.resolverAtRound,
                            [dm.decisionAtRound EXCEPT ![r] = decision],
                            [dm.appealDeadline EXCEPT ![r] = deadline])
  BY <1>2 DEF DisputeRecord
<1>. HIDE DEF dated
<1>. QED  BY <1>1, <1>3 DEF DisputeRecord, deadline

LEMMA EscalatedFields ==
  ASSUME NEW w \in Workflows, disputeMetadata[w] \in DRM!DisputeMetadata, NEW a
  PROVE  LET dm == disputeMetadata[w]
             next == DRM!Round(w) + 1
         IN  DRM!Escalated(w, a) =
               DisputeRecord(next, dm.status, now + ResolveDeadlines[next],
                             [dm.resolverAtRound EXCEPT ![next] = a],
                             dm.decisionAtRound, dm.appealDeadline)
<1>. DEFINE dm == disputeMetadata[w]
            next == DRM!Round(w) + 1
            by == now + ResolveDeadlines[next]
            moved == [dm EXCEPT !.currentRound = @ + 1]
            named == [moved EXCEPT !.resolverAtRound[next] = a]
<1>1. DRM!Escalated(w, a) = [named EXCEPT !.resolveBy = by]
  BY Zenon DEF DRM!Escalated
<1>2. moved = DisputeRecord(next, dm.status, dm.resolveBy, dm.resolverAtRound,
                            dm.decisionAtRound, dm.appealDeadline)
  BY DEF DRM!DisputeMetadata, DisputeRecord, DRM!Round
<1>. HIDE DEF moved, by
<1>3. named = DisputeRecord(next, dm.status, dm.resolveBy, [dm.resolverAtRound EXCEPT ![next] = a],
                            dm.decisionAtRound, dm.appealDeadline)
  BY <1>2 DEF DisputeRecord
<1>. HIDE DEF named
<1>. QED  BY <1>1, <1>3 DEF DisputeRecord, by

LEMMA ReplacedFields ==
  ASSUME NEW w \in Workflows, disputeMetadata[w] \in DRM!DisputeMetadata, NEW a
  PROVE  LET dm == disputeMetadata[w]
             r == DRM!Round(w)
         IN  DRM!Replaced(w, a) =
               DisputeRecord(dm.currentRound, dm.status, now + ResolveDeadlines[r],
                             [dm.resolverAtRound EXCEPT ![r] = a],
                             dm.decisionAtRound, dm.appealDeadline)
<1>. DEFINE dm == disputeMetadata[w]
            r == DRM!Round(w)
            by == now + ResolveDeadlines[r]
            named == [dm EXCEPT !.resolverAtRound[r] = a]
<1>1. DRM!Replaced(w, a) = [named EXCEPT !.resolveBy = by]
  BY Zenon DEF DRM!Replaced
<1>2. named = DisputeRecord(dm.currentRound, dm.status, dm.resolveBy,
                            [dm.resolverAtRound EXCEPT ![r] = a],
                            dm.decisionAtRound, dm.appealDeadline)
  BY DEF DRM!DisputeMetadata, DisputeRecord
<1>. HIDE DEF named, by
<1>. QED  BY <1>1, <1>2 DEF DisputeRecord, by

LEMMA OpenedFields ==
  ASSUME NEW w \in Workflows, disputeMetadata[w] \in DRM!DisputeMetadata, NEW a
  PROVE  LET dm == disputeMetadata[w]
         IN  DRM!Opened(w, a) =
               DisputeRecord(0, "Open", now + ResolveDeadlines[0], [dm.resolverAtRound EXCEPT ![0] = a],
                             dm.decisionAtRound, dm.appealDeadline)
<1>. DEFINE dm == disputeMetadata[w]
            by == now + ResolveDeadlines[0]
            reset == [dm EXCEPT !.currentRound = 0]
            open == [reset EXCEPT !.status = "Open"]
            named == [open EXCEPT !.resolverAtRound[0] = a]
<1>1. DRM!Opened(w, a) = [named EXCEPT !.resolveBy = by]
  BY Zenon DEF DRM!Opened
<1>2. reset = DisputeRecord(0, dm.status, dm.resolveBy, dm.resolverAtRound,
                            dm.decisionAtRound, dm.appealDeadline)
  BY DEF DRM!DisputeMetadata, DisputeRecord
<1>. HIDE DEF reset, by
<1>3. open = DisputeRecord(0, "Open", dm.resolveBy, dm.resolverAtRound,
                           dm.decisionAtRound, dm.appealDeadline)
  BY <1>2 DEF DisputeRecord
<1>. HIDE DEF open
<1>4. named = DisputeRecord(0, "Open", dm.resolveBy, [dm.resolverAtRound EXCEPT ![0] = a],
                            dm.decisionAtRound, dm.appealDeadline)
  BY <1>3 DEF DisputeRecord
<1>. HIDE DEF named
<1>. QED  BY <1>1, <1>4 DEF DisputeRecord, by

(***************************************************************************)
(* Types of what the entry points of the module write.                     *)
(***************************************************************************)
LEMMA RecordType ==
  ASSUME DRM!TypeOK, NEW w \in Workflows
  PROVE  /\ disputeMetadata[w] \in DRM!DisputeMetadata
         /\ DRM!Round(w) \in 0 .. 2
         /\ DRM!CurrentResolver(w) \in Address
         /\ appealBonds[w] \in [1 .. 2 -> DRM!BondStates]
BY DEF DRM!TypeOK, DRM!DisputeMetadata, DRM!Round, DRM!CurrentResolver, DRM!Rounds,
       DRM!MAX_ROUND, Address

LEMMA ClosedType ==
  ASSUME NEW dm \in DRM!DisputeMetadata
  PROVE  DRM!Closed(dm) \in DRM!DisputeMetadata
BY ClosedFields DEF DRM!DisputeMetadata, DisputeRecord

LEMMA RecordedType ==
  ASSUME DRM!TypeOK, now \in Nat, NEW w \in Workflows, NEW decision \in {"RELEASE", "CANCEL"}
  PROVE  DRM!Recorded(w, decision) \in DRM!DisputeMetadata
<1>1. disputeMetadata[w] \in DRM!DisputeMetadata /\ DRM!Round(w) \in 0 .. 2
  BY RecordType
<1>2. AppealWindows[DRM!Round(w)] \in Nat
  BY <1>1, ResolutionAssumption
<1>. QED  BY <1>1, <1>2, RecordedFields
          DEF DisputeRecord, DRM!DisputeMetadata, DRM!Rounds, DRM!MAX_ROUND, DRM!Decisions

LEMMA NamedType ==
  ASSUME DRM!TypeOK, now \in Nat, NEW w \in Workflows, NEW a \in Accounts
  PROVE  /\ DRM!Round(w) < DRM!MAX_ROUND => DRM!Escalated(w, a) \in DRM!DisputeMetadata
         /\ DRM!Replaced(w, a) \in DRM!DisputeMetadata
         /\ DRM!Opened(w, a) \in DRM!DisputeMetadata
<1>1. disputeMetadata[w] \in DRM!DisputeMetadata /\ DRM!Round(w) \in 0 .. 2
  BY RecordType
<1>2. \A r \in 0 .. 2 : ResolveDeadlines[r] \in Nat
  BY ResolutionAssumption
<1>3. DRM!Round(w) < DRM!MAX_ROUND => DRM!Escalated(w, a) \in DRM!DisputeMetadata
  BY <1>1, <1>2, EscalatedFields DEF DisputeRecord, DRM!DisputeMetadata, DRM!Rounds, DRM!MAX_ROUND
<1>4. DRM!Replaced(w, a) \in DRM!DisputeMetadata
  BY <1>1, <1>2, ReplacedFields DEF DisputeRecord, DRM!DisputeMetadata, DRM!Rounds, DRM!MAX_ROUND
<1>5. DRM!Opened(w, a) \in DRM!DisputeMetadata
  BY <1>1, <1>2, OpenedFields DEF DisputeRecord, DRM!DisputeMetadata, DRM!Rounds, DRM!MAX_ROUND
<1>. QED  BY <1>3, <1>4, <1>5

LEMMA LoadType ==
  ASSUME DRM!TypeOK
  PROVE  /\ \A r : DRM!Freed(r) \in [Accounts -> Nat]
         /\ \A r \in Accounts : DRM!Assigned(r) \in [Accounts -> Nat]
         /\ \A r : \A s \in Accounts : [DRM!Freed(r) EXCEPT ![s] = @ + 1] \in [Accounts -> Nat]
<1>1. \A r : DRM!Freed(r) \in [Accounts -> Nat]
  BY DEF DRM!TypeOK, DRM!Freed
<1>2. \A r \in Accounts : DRM!Assigned(r) \in [Accounts -> Nat]
  BY DEF DRM!TypeOK, DRM!Assigned
<1>. QED  BY <1>1, <1>2

LEMMA BondsType ==
  ASSUME NEW bonds \in [1 .. 2 -> DRM!BondStates], NEW round
  PROVE  DRM!BondsForfeited(bonds, round) \in [1 .. 2 -> DRM!BondStates]
BY DEF DRM!BondsForfeited, DRM!MAX_ROUND, DRM!BondStates

LEMMA AfterRulingType ==
  ASSUME DRM!TypeOK, now \in Nat, NEW w \in Workflows, NEW decision \in {"RELEASE", "CANCEL"}
  PROVE  /\ RecordAfter(w, decision) \in DRM!DisputeMetadata
         /\ BondsAfter(w, decision) \in [1 .. 2 -> DRM!BondStates]
<1>1. disputeMetadata[w] \in DRM!DisputeMetadata /\ appealBonds[w] \in [1 .. 2 -> DRM!BondStates]
  BY RecordType
<1>2. DRM!BondsAfterDecision(w, decision) \in [1 .. 2 -> DRM!BondStates]
  BY <1>1 DEF DRM!BondsAfterDecision, DRM!BondStates
<1>. QED  BY <1>1, <1>2, RecordedType DEF RecordAfter, BondsAfter

(***************************************************************************)
(* Types beside the vault.                                                 *)
(***************************************************************************)
BesideOK ==
  /\ DRM!TypeOK
  /\ baseBond \in BaseBonds
  /\ klerosDisputes \in [Workflows -> [created : BOOLEAN, ruling : Rulings]]
  /\ past \in [Workflows -> SUBSET Events]

LEMMA BesideFacts ==
  ASSUME Inv, BesideOK
  PROVE  /\ now \in Nat \ {0} /\ baseBond \in Nat
         /\ disputeMetadata \in [Workflows -> DRM!DisputeMetadata]
         /\ resolverActiveDisputes \in [Accounts -> Nat]
         /\ newAssignmentsPaused \in BOOLEAN
         /\ appealBonds \in [Workflows -> [1 .. 2 -> DRM!BondStates]]
BY CompositionAssumption DEF Inv, TypeOK, BesideOK, DRM!TypeOK, DRM!MAX_ROUND

LEMMA BesideFromParts ==
  ASSUME disputeMetadata' \in [Workflows -> DRM!DisputeMetadata],
         resolverActiveDisputes' \in [Accounts -> Nat],
         newAssignmentsPaused' \in BOOLEAN,
         appealBonds' \in [Workflows -> [1 .. 2 -> DRM!BondStates]],
         baseBond' \in BaseBonds,
         klerosDisputes' \in [Workflows -> [created : BOOLEAN, ruling : Rulings]],
         past' \in [Workflows -> SUBSET Events]
  PROVE  BesideOK'
BY DEF BesideOK, DRM!TypeOK, DRM!MAX_ROUND

LEMMA BesideStutter ==
  ASSUME BesideOK, UNCHANGED besideVars
  PROVE  BesideOK'
BY DEF BesideOK, DRM!TypeOK

LEMMA HappensType ==
  ASSUME BesideOK, NEW w \in Workflows, NEW event \in SUBSET Events, Happens(w, event)
  PROVE  past' \in [Workflows -> SUBSET Events]
BY DEF BesideOK, Happens

LEMMA FinalizeType ==
  ASSUME Inv, BesideOK, NEW w \in Workflows, NEW dm \in DRM!DisputeMetadata,
         NEW bonds \in [1 .. 2 -> DRM!BondStates], FinalizeInModule(w, dm, bonds)
  PROVE  /\ disputeMetadata' \in [Workflows -> DRM!DisputeMetadata]
         /\ resolverActiveDisputes' \in [Accounts -> Nat]
         /\ newAssignmentsPaused' \in BOOLEAN
         /\ appealBonds' \in [Workflows -> [1 .. 2 -> DRM!BondStates]]
<1>1. DRM!Closed(dm) \in DRM!DisputeMetadata
  BY ClosedType
<1>2. DRM!BondsForfeited(bonds, dm.currentRound) \in [1 .. 2 -> DRM!BondStates]
  BY BondsType
<1>3. resolverActiveDisputes' \in [Accounts -> Nat]
  BY LoadType DEF FinalizeInModule, BesideOK
<1>4. disputeMetadata' \in [Workflows -> DRM!DisputeMetadata]
  BY <1>1, BesideFacts DEF FinalizeInModule
<1>5. appealBonds' \in [Workflows -> [1 .. 2 -> DRM!BondStates]]
  BY <1>2, BesideFacts DEF FinalizeInModule
<1>6. newAssignmentsPaused' \in BOOLEAN
  BY BesideFacts DEF FinalizeInModule
<1>. QED  BY <1>3, <1>4, <1>5, <1>6

LEMMA RaiseBeside ==
  ASSUME Inv, BesideOK, NEW w \in Workflows, NEW a \in Accounts, NEW bound \in ConfigBindings,
         RaiseWithModule(w, a, bound)
  PROVE  BesideOK'
<1>1. PICK answer \in DRM!DisputeResolvers(w) :
        \E r \in IF bound THEN DRM!Selection(Juniors) ELSE {answer} :
          IF DRM!IsInitialized(w)
          THEN UNCHANGED <<disputeMetadata, resolverActiveDisputes, past>>
          ELSE /\ DRM!Initialize(w, r)
               /\ Happens(w, IF r = NoAccount THEN {"unassigned"}
                             ELSE IF r # disputeResolver'[w] THEN {"mismatched"} ELSE {})
  BY DEF RaiseWithModule
<1>2. /\ UNCHANGED <<newAssignmentsPaused, appealBonds, baseBond, klerosDisputes>>
      /\ DRM!TypeOK /\ now \in Nat
  BY BesideFacts DEF RaiseWithModule, BesideOK
<1>3. CASE DRM!IsInitialized(w)
  BY <1>1, <1>2, <1>3, BesideStutter
<1>4. CASE ~DRM!IsInitialized(w)
  <2>1. PICK r \in Address :
          /\ DRM!Initialize(w, r)
          /\ Happens(w, IF r = NoAccount THEN {"unassigned"}
                        ELSE IF r # disputeResolver'[w] THEN {"mismatched"} ELSE {})
    BY <1>1, <1>2, <1>4, AnswersType, ResolversType
  <2>2. past' \in [Workflows -> SUBSET Events]
    BY <2>1, HappensType DEF Events
  <2>3. /\ disputeMetadata' \in [Workflows -> DRM!DisputeMetadata]
        /\ resolverActiveDisputes' \in [Accounts -> Nat]
    <3>1. CASE r = NoAccount
      BY <2>1, <3>1, BesideFacts DEF DRM!Initialize
    <3>2. CASE r # NoAccount
      <4>1. r \in Accounts
        BY <3>2 DEF Address
      <4>2. /\ disputeMetadata' = [disputeMetadata EXCEPT ![w] = DRM!Opened(w, r)]
            /\ resolverActiveDisputes' = DRM!Assigned(r)
        BY <2>1, <3>2 DEF DRM!Initialize
      <4>. QED  BY <1>2, <4>1, <4>2, NamedType, LoadType, BesideFacts
    <3>. QED  BY <3>1, <3>2
  <2>. QED  BY <1>2, <2>2, <2>3, BesideFacts, BesideFromParts DEF BesideOK
<1>. QED  BY <1>3, <1>4

LEMMA CloseBeside ==
  ASSUME Inv, BesideOK, NEW w \in Workflows, CloseWithVault(w)
  PROVE  BesideOK'
<1>1. CASE escrowState[w] = "DISPUTED"
  BY <1>1, FinalizeType, RecordType, BesideFromParts DEF CloseWithVault, BesideOK
<1>2. CASE escrowState[w] # "DISPUTED"
  BY <1>2, BesideStutter DEF CloseWithVault
<1>. QED  BY <1>1, <1>2

LEMMA AcceptSplitBeside ==
  ASSUME Inv, BesideOK, NEW w \in Workflows, NEW a, AcceptSplitWithModule(w, a)
  PROVE  BesideOK'
<1>1. UNCHANGED <<newAssignmentsPaused, baseBond, klerosDisputes, past>>
  BY DEF AcceptSplitWithModule
<1>2. CASE escrowState[w] = "DISPUTED"
  <2>1. /\ disputeMetadata' = [disputeMetadata EXCEPT ![w] = DRM!Closed(disputeMetadata[w])]
        /\ appealBonds' = [appealBonds EXCEPT ![w] =
             IF disputeMetadata[w].status # "Final" /\ Incentives
             THEN DRM!BondsForfeited(appealBonds[w], disputeMetadata[w].currentRound)
             ELSE appealBonds[w]]
        /\ resolverActiveDisputes' = DRM!Freed(disputeResolver[w])
    BY <1>2 DEF AcceptSplitWithModule
  <2>2. DRM!Closed(disputeMetadata[w]) \in DRM!DisputeMetadata
    BY RecordType, ClosedType DEF BesideOK
  <2>3. /\ appealBonds[w] \in [1 .. 2 -> DRM!BondStates]
        /\ DRM!BondsForfeited(appealBonds[w], disputeMetadata[w].currentRound)
             \in [1 .. 2 -> DRM!BondStates]
    BY RecordType, BondsType DEF BesideOK
  <2>4. DRM!Freed(disputeResolver[w]) \in [Accounts -> Nat]
    BY LoadType DEF BesideOK
  <2>5. disputeMetadata' \in [Workflows -> DRM!DisputeMetadata]
    BY <2>1, <2>2, BesideFacts
  <2>6. appealBonds' \in [Workflows -> [1 .. 2 -> DRM!BondStates]]
    BY <2>1, <2>3, BesideFacts
  <2>. QED  BY <1>1, <2>1, <2>4, <2>5, <2>6, BesideFacts, BesideFromParts DEF BesideOK
<1>3. CASE escrowState[w] # "DISPUTED"
  BY <1>1, <1>3, BesideStutter DEF AcceptSplitWithModule
<1>. QED  BY <1>2, <1>3

LEMMA RuleBeside ==
  ASSUME Inv, BesideOK, NEW w \in Workflows, NEW a, NEW decision \in {"RELEASE", "CANCEL"},
         Rule(w, a, decision),
         klerosDisputes' \in [Workflows -> [created : BOOLEAN, ruling : Rulings]]
  PROVE  BesideOK'
<1>. DEFINE dm == RecordAfter(w, decision)
            bonds == BondsAfter(w, decision)
<1>1. dm \in DRM!DisputeMetadata /\ bonds \in [1 .. 2 -> DRM!BondStates]
  BY AfterRulingType, BesideFacts DEF BesideOK
<1>2. /\ baseBond' \in BaseBonds
      /\ past' \in [Workflows -> SUBSET Events]
  BY HappensType DEF Rule, BesideOK, Events
<1>3. CASE Outcome(w, dm).immediate
  BY <1>1, <1>2, <1>3, FinalizeType, BesideFromParts DEF Rule
<1>4. CASE ~Outcome(w, dm).immediate
  <2>1. /\ disputeMetadata' = [disputeMetadata EXCEPT ![w] = dm]
        /\ appealBonds' = [appealBonds EXCEPT ![w] = bonds]
        /\ UNCHANGED <<resolverActiveDisputes, newAssignmentsPaused>>
    BY <1>4 DEF Rule
  <2>. HIDE DEF dm, bonds
  <2>. QED  BY <1>1, <1>2, <2>1, BesideFacts, BesideFromParts
<1>. QED  BY <1>3, <1>4

LEMMA AppealBeside ==
  ASSUME Inv, BesideOK, NEW w \in Workflows, NEW a \in Accounts, AppealWithModule(w, a)
  PROVE  BesideOK'
<1>1. PICK successor \in DRM!Successors(w) :
        /\ DRM!Appealable(w)
        /\ disputeMetadata' = [disputeMetadata EXCEPT ![w] = DRM!Escalated(w, successor)]
        /\ appealBonds' = IF DRM!QuotedBond(w, baseBond) > 0
                          THEN [appealBonds EXCEPT ![w][DRM!Round(w) + 1] = "posted"]
                          ELSE appealBonds
        /\ klerosDisputes' = KlerosDisputesAfterAppeal(w)
        /\ Happens(w, {"appealed"})
        /\ UNCHANGED <<resolverActiveDisputes, newAssignmentsPaused, baseBond>>
  BY DEF AppealWithModule
<1>2. DRM!Round(w) < DRM!MAX_ROUND /\ successor \in Accounts
  BY <1>1, AnswersType DEF DRM!Appealable
<1>3. disputeMetadata' \in [Workflows -> DRM!DisputeMetadata]
  BY <1>1, <1>2, NamedType, BesideFacts DEF BesideOK
<1>4. appealBonds' \in [Workflows -> [1 .. 2 -> DRM!BondStates]]
  <2>1. [appealBonds[w] EXCEPT ![DRM!Round(w) + 1] = "posted"] \in [1 .. 2 -> DRM!BondStates]
    BY BesideFacts DEF DRM!BondStates
  <2>. QED  BY <1>1, <2>1, BesideFacts
<1>5. klerosDisputes' \in [Workflows -> [created : BOOLEAN, ruling : Rulings]]
  BY <1>1 DEF KlerosDisputesAfterAppeal, BesideOK
<1>6. past' \in [Workflows -> SUBSET Events]
  BY <1>1, HappensType DEF Events
<1>. QED  BY <1>1, <1>3, <1>4, <1>5, <1>6, BesideFacts, BesideFromParts DEF BesideOK

LEMMA MovesBeside ==
  ASSUME Inv, BesideOK, NEW w \in Workflows, ExecuteEscalation(w) \/ GuardianForcesProgress(w)
  PROVE  BesideOK'
<1>1. CASE ExecuteEscalation(w)
  <2>1. PICK successor \in DRM!Successors(w) :
          /\ DRM!Appealable(w)
          /\ disputeMetadata' = [disputeMetadata EXCEPT ![w] = DRM!Escalated(w, successor)]
    BY <1>1 DEF ExecuteEscalation
  <2>2. DRM!Round(w) < DRM!MAX_ROUND /\ successor \in Accounts
    BY <2>1, AnswersType DEF DRM!Appealable
  <2>3. disputeMetadata' \in [Workflows -> DRM!DisputeMetadata]
    BY <2>1, <2>2, NamedType, BesideFacts DEF BesideOK
  <2>4. past' \in [Workflows -> SUBSET Events]
    BY <1>1, HappensType DEF ExecuteEscalation, Events
  <2>. QED  BY <1>1, <2>3, <2>4, BesideFacts, BesideFromParts DEF ExecuteEscalation, BesideOK
<1>2. CASE GuardianForcesProgress(w)
  <2>1. PICK r \in DRM!Replacements(w) : DRM!ForceProgress(w, r)
    BY <1>2 DEF GuardianForcesProgress
  <2>2. r \in Address
    BY AnswersType DEF DRM!Replacements, Address
  <2>3. /\ disputeMetadata' \in [Workflows -> DRM!DisputeMetadata]
        /\ resolverActiveDisputes' \in [Accounts -> Nat]
        /\ UNCHANGED <<newAssignmentsPaused, appealBonds>>
    <3>1. CASE r # NoAccount /\ r # DRM!CurrentResolver(w)
      <4>1. /\ disputeMetadata' = [disputeMetadata EXCEPT ![w] = DRM!Replaced(w, r)]
            /\ resolverActiveDisputes' = [DRM!Freed(DRM!CurrentResolver(w)) EXCEPT ![r] = @ + 1]
            /\ UNCHANGED <<newAssignmentsPaused, appealBonds>>
        BY <2>1, <3>1 DEF DRM!ForceProgress
      <4>2. DRM!Replaced(w, r) \in DRM!DisputeMetadata
        BY <2>2, <3>1, NamedType, BesideFacts DEF Address, BesideOK
      <4>3. resolverActiveDisputes' \in [Accounts -> Nat]
        BY <4>1, LoadType DEF BesideOK
      <4>. QED  BY <4>1, <4>2, <4>3, BesideFacts
    <3>2. CASE ~(r # NoAccount /\ r # DRM!CurrentResolver(w))
      <4>1. /\ disputeMetadata' = [disputeMetadata EXCEPT ![w] = DRM!Closed(disputeMetadata[w])]
            /\ UNCHANGED <<resolverActiveDisputes, newAssignmentsPaused, appealBonds>>
        BY <2>1, <3>2 DEF DRM!ForceProgress
      <4>. QED  BY <4>1, ClosedType, BesideFacts
    <3>. QED  BY <3>1, <3>2
  <2>4. past' \in [Workflows -> SUBSET Events]
    BY <1>2, HappensType DEF GuardianForcesProgress, Events
  <2>. QED  BY <1>2, <2>3, <2>4, BesideFacts, BesideFromParts DEF GuardianForcesProgress, BesideOK
<1>. QED  BY <1>1, <1>2

(***************************************************************************)
(* Every step keeps the types and the vault's invariant.                   *)
(***************************************************************************)
LEMMA CourtStep ==
  ASSUME NEW w \in Workflows, NEW ruling, Propagate(w, ruling)
  PROVE  \/ UNCHANGED <<vars, moduleVars, baseBond, past>>
         \/ \E decision \in {"RELEASE", "CANCEL"} :
              decision = ruling /\ Rule(w, ExternalResolver, decision)
BY DEF Propagate

LEMMA CourtTypes ==
  ASSUME Inv, BesideOK, NEW w \in Workflows, NEW ruling, Propagate(w, ruling),
         klerosDisputes' \in [Workflows -> [created : BOOLEAN, ruling : Rulings]]
  PROVE  Inv' /\ BesideOK'
<1>1. CASE UNCHANGED <<vars, moduleVars, baseBond, past>>
  BY <1>1, StutterInv DEF BesideOK, DRM!TypeOK
<1>2. CASE \E decision \in {"RELEASE", "CANCEL"} : Rule(w, ExternalResolver, decision)
  BY <1>2, RuleInv, RuleBeside
<1>. QED  BY <1>1, <1>2, CourtStep

LEMMA DisputeTypes ==
  ASSUME Inv, BesideOK, NEW w \in Workflows, NEW a \in Accounts,
         \/ \E bound \in ConfigBindings : RaiseWithModule(w, a, bound)
         \/ \E decision \in {"RELEASE", "CANCEL"} : RuleWithModule(w, a, decision)
         \/ AppealWithModule(w, a)
         \/ TimedActionsWithModule(w, a)
         \/ AcceptSplitWithModule(w, a)
  PROVE  Inv' /\ BesideOK'
<1>1. CASE \E bound \in ConfigBindings : RaiseWithModule(w, a, bound)
  <2>1. PICK answer \in DRM!DisputeResolvers(w) : RaiseDispute(w, a, answer)
    BY <1>1 DEF RaiseWithModule
  <2>. QED  BY <1>1, <2>1, RaiseBeside, ResolversType, RaiseDisputeInv DEF BesideOK
<1>2. CASE \E decision \in {"RELEASE", "CANCEL"} : RuleWithModule(w, a, decision)
  <2>1. PICK decision \in {"RELEASE", "CANCEL"} :
          Rule(w, a, decision) /\ UNCHANGED klerosDisputes
    BY <1>2 DEF RuleWithModule
  <2>. QED  BY <2>1, RuleInv, RuleBeside DEF BesideOK
<1>3. CASE AppealWithModule(w, a)
  BY <1>3, AppealInv, AppealBeside, BesideFacts DEF BesideOK
<1>4. CASE TimedActionsWithModule(w, a)
  BY <1>4, TimedActionInv, CloseBeside DEF TimedActionsWithModule
<1>5. CASE AcceptSplitWithModule(w, a)
  BY <1>5, AcceptSplitInv, AcceptSplitBeside DEF AcceptSplitWithModule
<1>. QED  BY <1>1, <1>2, <1>3, <1>4, <1>5

LEMMA StepTypes == Inv /\ BesideOK /\ [ResolutionNext]_allVars => Inv' /\ BesideOK'
<1>. SUFFICES ASSUME Inv, BesideOK, [ResolutionNext]_allVars PROVE Inv' /\ BesideOK'
  OBVIOUS
<1>1. CASE UNCHANGED allVars
  BY <1>1, StutterInv, BesideStutter DEF allVars
<1>2. CASE (Tick \/ Governance \/ WithdrawFees) /\ UNCHANGED besideVars
  BY <1>2, TickInv, GovernanceInv, WithdrawFeesInv, BesideStutter
<1>3. CASE \E req \in CreateRequests : CreateWithModule(req)
  <2>1. PICK req \in CreateRequests : CreateWithModule(req)
    BY <1>3
  <2>2. escrowCount \in Workflows
    BY <2>1 DEF CreateWithModule
  <2>3. PICK r \in DRM!DisputeResolvers(escrowCount) : CreateEscrow(req, r, FALSE)
    BY <2>1 DEF CreateWithModule
  <2>4. Inv'
    BY <2>2, <2>3, ResolversType, CreateEscrowInv DEF BesideOK
  <2>. QED  BY <2>1, <2>4, BesideStutter DEF CreateWithModule
<1>4. CASE PauseAssignments
  BY <1>4, StutterInv DEF PauseAssignments, DRM!PauseNewAssignments, BesideOK, DRM!TypeOK
<1>5. ASSUME NEW w \in Workflows, VaultOnly(w) PROVE Inv' /\ BesideOK'
  BY <1>5, VaultOnlyInv, BesideStutter DEF VaultOnly
<1>6. ASSUME NEW w \in Workflows, ExecuteEscalation(w) \/ GuardianForcesProgress(w)
      PROVE  Inv' /\ BesideOK'
  BY <1>6, MovesBeside, StutterInv DEF ExecuteEscalation, GuardianForcesProgress
<1>7. ASSUME NEW w \in Workflows, NEW ruling \in Rulings \ {"none"}, NEW delivered \in BOOLEAN,
             CourtRules(w, ruling, delivered)
      PROVE  Inv' /\ BesideOK'
  <2>1. klerosDisputes' \in [Workflows -> [created : BOOLEAN, ruling : Rulings]]
    BY <1>7 DEF CourtRules, BesideOK
  <2>2. CASE delivered
    BY <1>7, <2>1, <2>2, CourtTypes DEF CourtRules
  <2>3. CASE ~delivered
    BY <1>7, <2>1, <2>3, StutterInv DEF CourtRules, BesideOK, DRM!TypeOK
  <2>. QED  BY <2>2, <2>3
<1>8. ASSUME NEW w \in Workflows, PropagateRuling(w) PROVE Inv' /\ BesideOK'
  BY <1>8, CourtTypes DEF PropagateRuling, BesideOK
<1>. QED  BY <1>1, <1>2, <1>3, <1>4, <1>5, <1>6, <1>7, <1>8, DisputeTypes DEF ResolutionNext

LEMMA InitTypes == ResolutionInit => Inv /\ BesideOK
<1>. SUFFICES ASSUME ResolutionInit PROVE BesideOK
  BY InitInv DEF ResolutionInit
<1>1. disputeMetadata \in [Workflows -> DRM!DisputeMetadata]
  BY DEF ResolutionInit, DRM!Init, DRM!DisputeMetadata, DRM!Rounds, DRM!MAX_ROUND, DRM!Decisions
<1>2. /\ resolverActiveDisputes \in [Accounts -> Nat]
      /\ newAssignmentsPaused \in BOOLEAN
      /\ appealBonds \in [Workflows -> [1 .. DRM!MAX_ROUND -> DRM!BondStates]]
  BY DEF ResolutionInit, DRM!Init, DRM!BondStates
<1>3. /\ baseBond \in BaseBonds
      /\ klerosDisputes \in [Workflows -> [created : BOOLEAN, ruling : Rulings]]
      /\ past \in [Workflows -> SUBSET Events]
  BY DEF ResolutionInit, Rulings
<1>. QED  BY <1>1, <1>2, <1>3 DEF BesideOK, DRM!TypeOK

\* Every variable of the vault and of the module keeps its type, whatever the module
\* answers, whichever of its calls fail and whoever moves its record.
THEOREM ResolutionTypes == ResolutionSpec => []ResolutionTypeOK
<1>1. Inv /\ BesideOK => ResolutionTypeOK
  BY DEF Inv, BesideOK, ResolutionTypeOK
<1>. QED  BY <1>1, InitTypes, StepTypes, PTL DEF ResolutionSpec

(***************************************************************************)
(* The composition is one of the vault's environments: every step of it is *)
(* a step of EscrowVault, or changes nothing there.                        *)
(***************************************************************************)
LEMMA VaultOnlyStep ==
  ASSUME NEW w \in Workflows, VaultOnly(w)
  PROVE  Next
<1>. DEFINE u == InPlace(w)
<1>1. u \in UnwindOutcomes(w, Remaining(w))
  BY DEF InPlace, UnwindOutcomes
<1>. HIDE DEF u
<1>2. \/ Requests(w) \/ Settlements(w)
      \/ \E named \in NamedCallers : AttemptOfAnotherCaller(w, named)
  BY <1>1, Zenon DEF VaultOnly, Requests, Settlements, u
<1>. QED  BY <1>2 DEF Next

LEMMA RuleStep ==
  ASSUME NEW w \in Workflows, NEW a \in Accounts, NEW decision, Rule(w, a, decision)
  PROVE  Next
<1>. DEFINE outcome == Outcome(w, RecordAfter(w, decision))
            isRelease == decision = "RELEASE"
<1>1. ExecuteResolution(w, a, isRelease, outcome, InPlace(w))
  BY DEF Rule
<1>2. outcome \in RulingOutcomes(w) /\ isRelease \in BOOLEAN
  BY <1>1 DEF ExecuteResolution
<1>3. InPlace(w) \in UnwindOutcomes(w, Remaining(w))
  BY DEF InPlace, UnwindOutcomes
<1>. HIDE DEF outcome, isRelease
<1>4. Settlements(w)
  BY <1>1, <1>2, <1>3, Zenon DEF Settlements
<1>. QED  BY <1>4 DEF Next

LEMMA AppealStep ==
  ASSUME BesideOK, NEW w \in Workflows, NEW a \in Accounts, AppealWithModule(w, a)
  PROVE  Next
<1>1. PICK successor \in DRM!Successors(w) :
        /\ DRM!Appealable(w)
        /\ AppealDispute(w, a, [successor |-> successor, decision |-> DRM!CurrentDecision(w),
                                bond |-> DRM!QuotedBond(w, baseBond), asset |-> "ETH"], 0)
  BY DEF AppealWithModule
<1>. DEFINE q == [successor |-> successor, decision |-> DRM!CurrentDecision(w),
                  bond |-> DRM!QuotedBond(w, baseBond), asset |-> "ETH"]
<1>2. DRM!CurrentDecision(w) \in {"RELEASE", "CANCEL"}
  BY <1>1 DEF DRM!Appealable, DRM!DecisionOpen, DRM!CurrentDecision, DRM!Round, BesideOK,
              DRM!TypeOK, DRM!DisputeMetadata, DRM!Decisions
<1>3. successor \in Seniors \cup {ExternalResolver}
  BY DEF DRM!Successors, DRM!Selection
<1>4. DRM!QuotedBond(w, baseBond) \in BaseBonds \cup {0}
  BY DEF DRM!QuotedBond, BesideOK
<1>5. q \in AppealQuotes /\ 0 \in ExcessValues
  BY <1>2, <1>3, <1>4, CompositionAssumption DEF QuotesOfModule
<1>. HIDE DEF q
<1>6. Requests(w)
  BY <1>1, <1>5, Zenon DEF Requests, q
<1>. QED  BY <1>6 DEF Next

LEMMA CloseStep ==
  ASSUME NEW w \in Workflows, NEW a \in Accounts,
         TimedActionsWithModule(w, a) \/ AcceptSplitWithModule(w, a)
  PROVE  Next
<1>1. InPlace(w) \in UnwindOutcomes(w, Remaining(w))
  BY DEF InPlace, UnwindOutcomes
<1>2. Settlements(w)
  BY <1>1, Zenon DEF TimedActionsWithModule, AcceptSplitWithModule, Settlements
<1>. QED  BY <1>2 DEF Next

LEMMA StepIsVaultStep == BesideOK /\ [ResolutionNext]_allVars => [Next]_vars
<1>. SUFFICES ASSUME BesideOK, [ResolutionNext]_allVars PROVE Next \/ UNCHANGED vars
  OBVIOUS
<1>1. CASE UNCHANGED allVars
  BY <1>1 DEF allVars
<1>2. CASE (Tick \/ Governance \/ WithdrawFees) /\ UNCHANGED besideVars
  BY <1>2 DEF Next
<1>3. ASSUME NEW req \in CreateRequests, CreateWithModule(req) PROVE Next
  <2>1. PICK r \in DRM!DisputeResolvers(escrowCount) : CreateEscrow(req, r, FALSE)
    BY <1>3 DEF CreateWithModule
  <2>2. r \in Address
    BY <1>3, ResolversType DEF CreateWithModule, BesideOK
  <2>. QED  BY <2>1, <2>2 DEF Next
<1>4. CASE PauseAssignments
  BY <1>4 DEF PauseAssignments
<1>5. ASSUME NEW w \in Workflows, VaultOnly(w) PROVE Next
  BY <1>5, VaultOnlyStep
<1>6. ASSUME NEW w \in Workflows, ExecuteEscalation(w) \/ GuardianForcesProgress(w)
      PROVE  UNCHANGED vars
  BY <1>6 DEF ExecuteEscalation, GuardianForcesProgress
<1>7. ASSUME NEW w \in Workflows, NEW ruling, Propagate(w, ruling)
      PROVE  Next \/ UNCHANGED vars
  BY <1>7, CourtStep, RuleStep, ResolutionAssumption
<1>8. ASSUME NEW w \in Workflows, NEW ruling, NEW delivered \in BOOLEAN,
             CourtRules(w, ruling, delivered)
      PROVE  Next \/ UNCHANGED vars
  <2>1. CASE delivered
    BY <1>7, <1>8, <2>1 DEF CourtRules
  <2>2. CASE ~delivered
    BY <1>8, <2>2 DEF CourtRules
  <2>. QED  BY <2>1, <2>2
<1>9. ASSUME NEW w \in Workflows, PropagateRuling(w) PROVE Next \/ UNCHANGED vars
  BY <1>7, <1>9 DEF PropagateRuling
<1>10. ASSUME NEW w \in Workflows, NEW a \in Accounts, NEW bound \in ConfigBindings,
              RaiseWithModule(w, a, bound)
       PROVE  Next
  <2>1. PICK answer \in DRM!DisputeResolvers(w) : RaiseDispute(w, a, answer)
    BY <1>10 DEF RaiseWithModule
  <2>2. answer \in Address
    BY ResolversType DEF BesideOK
  <2>3. Requests(w)
    BY <2>1, <2>2, Zenon DEF Requests
  <2>. QED  BY <2>3 DEF Next
<1>11. ASSUME NEW w \in Workflows, NEW a \in Accounts, NEW decision, RuleWithModule(w, a, decision)
       PROVE  Next
  BY <1>11, RuleStep DEF RuleWithModule
<1>. QED  BY <1>1, <1>2, <1>3, <1>4, <1>5, <1>6, <1>8, <1>9, <1>10, <1>11, AppealStep, CloseStep
          DEF ResolutionNext

\* With this module behind it the vault does nothing that EscrowVault leaves out: what is
\* proved of the vault for every answer of a module holds for the answers of this one.
THEOREM VaultImplemented == ResolutionSpec => Spec
<1>1. ResolutionInit => Init
  BY DEF ResolutionInit
<1>. QED  BY <1>1, InitTypes, StepTypes, StepIsVaultStep, PTL DEF ResolutionSpec, Spec

(***************************************************************************)
(* What one step does to the two records of one dispute.                   *)
(***************************************************************************)
Keeps(w) ==
  /\ disputeMetadata'[w] = disputeMetadata[w]
  /\ escrowState'[w] = escrowState[w]
  /\ pendingSettlements'[w] = pendingSettlements[w]
  /\ past'[w] = past[w]
  /\ terms'[w] = terms[w]
  /\ disputeResolver'[w] = disputeResolver[w]

Creates(w) ==
  /\ escrowState[w] = "NONE" /\ escrowState'[w] = "PENDING"
  /\ disputeMetadata'[w] = disputeMetadata[w]
  /\ pendingSettlements'[w] = pendingSettlements[w]
  /\ past'[w] = past[w]

Raises(w) ==
  /\ escrowState[w] = "PENDING" /\ escrowState'[w] = "DISPUTED"
  /\ pendingSettlements'[w] = pendingSettlements[w]
  /\ \/ /\ disputeMetadata'[w] = disputeMetadata[w]
        /\ DRM!IsInitialized(w) \/ "unassigned" \in past'[w]
     \/ \E a \in Accounts :
          /\ disputeMetadata'[w] = DRM!Opened(w, a)
          /\ disputeResolver'[w] = a \/ "mismatched" \in past'[w]
  /\ past[w] \subseteq past'[w]

Ends(w) ==
  /\ escrowState[w] \in Active /\ escrowState'[w] \in Terminal
  /\ ~pendingSettlements'[w].exists
  /\ disputeMetadata'[w] \in {disputeMetadata[w], DRM!Closed(disputeMetadata[w])}
  /\ pendingSettlements[w].exists =>
       /\ PendingDue(w)
       /\ escrowState'[w] = "RELEASED" <=> pendingSettlements[w].isRelease
       /\ DRM!CanFinalize(disputeMetadata[w]) =>
            disputeMetadata'[w] = DRM!Closed(disputeMetadata[w])
  /\ (escrowState[w] = "DISPUTED" /\ ~pendingSettlements[w].exists) =>
       escrowState'[w] # "RELEASED"

\* A ruling where the court is the only resolver is the court's.
RuledByCourt(w, decision) ==
  (terms[w].customResolver = NoAccount /\ disputeResolver[w] = ExternalResolver) =>
    klerosDisputes'[w].ruling = decision

RulesFinally(w, decision) ==
  /\ escrowState[w] = "DISPUTED"
  /\ escrowState'[w] = IF decision = "RELEASE" THEN "RELEASED" ELSE "REFUNDED"
  /\ RuledByCourt(w, decision)
  /\ ~pendingSettlements'[w].exists
  /\ Outcome(w, RecordAfter(w, decision)).immediate
  /\ disputeMetadata'[w] \in {RecordAfter(w, decision), DRM!Closed(RecordAfter(w, decision))}

RulesOpenly(w, decision) ==
  LET outcome == Outcome(w, RecordAfter(w, decision)) IN
    /\ escrowState[w] = "DISPUTED" /\ escrowState'[w] = "DISPUTED"
    /\ ~outcome.immediate
    /\ ~pendingSettlements[w].exists
    /\ pendingSettlements'[w] = [exists |-> TRUE, isRelease |-> decision = "RELEASE",
                                 appealDeadline |-> outcome.deadline]
    /\ disputeMetadata'[w] = RecordAfter(w, decision)
    /\ DRM!RecordReverts(w) => "unrecorded" \in past'[w]
    /\ past[w] \subseteq past'[w]
    /\ terms'[w] = terms[w]
    /\ disputeResolver'[w] = disputeResolver[w]

Appeals(w) ==
  /\ DRM!Appealable(w)
  /\ escrowState[w] = "DISPUTED" /\ escrowState'[w] = "DISPUTED"
  /\ ~pendingSettlements'[w].exists
  /\ disputeResolver'[w] \in Accounts
  /\ disputeMetadata'[w] = DRM!Escalated(w, disputeResolver'[w])
  /\ terms[w].customResolver = NoAccount /\ terms'[w] = terms[w]
  /\ DRM!Round(w) # 0 => disputeResolver'[w] = ExternalResolver
  /\ klerosDisputes'[w].created => klerosDisputes[w].created \/ DRM!Round(w) + 1 = DRM!MAX_ROUND
  /\ addressEscalationCount' # addressEscalationCount

Moves(w) ==
  /\ DRM!Appealable(w)
  /\ escrowState'[w] = escrowState[w]
  /\ pendingSettlements'[w] = pendingSettlements[w]
  /\ \E a \in Accounts : disputeMetadata'[w] = DRM!Escalated(w, a)
  /\ "moved" \in past'[w]

Forces(w) ==
  /\ disputeMetadata[w].status = "Open"
  /\ escrowState'[w] = escrowState[w]
  /\ pendingSettlements'[w] = pendingSettlements[w]
  /\ \/ disputeMetadata'[w] = DRM!Closed(disputeMetadata[w])
     \/ \E a \in Accounts : disputeMetadata'[w] = DRM!Replaced(w, a)
  /\ past[w] \cup {"forced"} \subseteq past'[w]
  /\ terms'[w] = terms[w]
  /\ disputeResolver'[w] = disputeResolver[w]

Affects(w) ==
  \/ Keeps(w) \/ Creates(w) \/ Raises(w) \/ Ends(w) \/ Appeals(w) \/ Moves(w) \/ Forces(w)
  \/ \E decision \in {"RELEASE", "CANCEL"} : RulesFinally(w, decision) \/ RulesOpenly(w, decision)

AffectsOnly(w) == Affects(w) /\ \A v \in Workflows \ {w} : Keeps(v)

LEMMA VaultFacts ==
  ASSUME Inv, BesideOK
  PROVE  /\ escrowState \in [Workflows -> EscrowStates]
         /\ pendingSettlements \in [Workflows -> PendingSettlement]
         /\ disputeMetadata \in [Workflows -> DRM!DisputeMetadata]
         /\ terms \in [Workflows -> Terms]
         /\ past \in [Workflows -> SUBSET Events]
         /\ klerosDisputes \in [Workflows -> [created : BOOLEAN, ruling : Rulings]]
         /\ addressEscalationCount \in [Accounts -> Nat]
         /\ disputeResolver \in [Workflows -> Address]
         /\ \A w \in Workflows : Phase(w)
BY BesideFacts DEF Inv, TypeOK, PhaseInv, BesideOK

LEMMA SettleEffect ==
  ASSUME Inv, BesideOK, NEW w \in Workflows, NEW isRelease, NEW u, Settle(w, isRelease, u)
  PROVE  /\ escrowState' = [escrowState EXCEPT ![w] = IF isRelease THEN "RELEASED" ELSE "REFUNDED"]
         /\ pendingSettlements' = [pendingSettlements EXCEPT ![w] = NoPending]
         /\ UNCHANGED disputeResolver
BY DEF Settle, ReleaseEscrowTransfer, CancelAndRefund

LEMMA CreateEffect ==
  ASSUME Inv, BesideOK, NEW req, CreateWithModule(req)
  PROVE  AffectsOnly(escrowCount)
<1>1. /\ escrowCount \in Workflows
      /\ escrowState' = [escrowState EXCEPT ![escrowCount] = "PENDING"]
      /\ \E t : terms' = [terms EXCEPT ![escrowCount] = t]
      /\ \E a : disputeResolver' = [disputeResolver EXCEPT ![escrowCount] = a]
      /\ UNCHANGED <<pendingSettlements, disputeMetadata, past>>
  BY Zenon DEF CreateWithModule, CreateEscrow
<1>2. escrowState[escrowCount] = "NONE"
  BY <1>1, VaultFacts DEF Phase, Workflows, Inv, TypeOK
<1>3. Creates(escrowCount)
  BY <1>1, <1>2, VaultFacts DEF Creates
<1>4. \A v \in Workflows \ {escrowCount} : Keeps(v)
  BY <1>1, VaultFacts DEF Keeps
<1>. QED  BY <1>3, <1>4 DEF AffectsOnly, Affects

LEMMA RaiseEffect ==
  ASSUME Inv, BesideOK, NEW w \in Workflows, NEW a \in Accounts, NEW bound \in ConfigBindings,
         RaiseWithModule(w, a, bound)
  PROVE  AffectsOnly(w)
<1>1. PICK answer \in DRM!DisputeResolvers(w) :
        /\ RaiseDispute(w, a, answer)
        /\ \E r \in IF bound THEN DRM!Selection(Juniors) ELSE {answer} :
             IF DRM!IsInitialized(w)
             THEN UNCHANGED <<disputeMetadata, resolverActiveDisputes, past>>
             ELSE /\ DRM!Initialize(w, r)
                  /\ Happens(w, IF r = NoAccount THEN {"unassigned"}
                                ELSE IF r # disputeResolver'[w] THEN {"mismatched"} ELSE {})
  BY DEF RaiseWithModule
<1>2. /\ escrowState[w] = "PENDING"
      /\ escrowState' = [escrowState EXCEPT ![w] = "DISPUTED"]
      /\ \E a1 : disputeResolver' = [disputeResolver EXCEPT ![w] = a1]
      /\ UNCHANGED <<terms, pendingSettlements>>
  BY <1>1 DEF RaiseDispute
<1>3. /\ \/ /\ disputeMetadata' = disputeMetadata
            /\ DRM!IsInitialized(w) \/ "unassigned" \in past'[w]
         \/ \E r \in Accounts :
              /\ disputeMetadata' = [disputeMetadata EXCEPT ![w] = DRM!Opened(w, r)]
              /\ disputeResolver'[w] = r \/ "mismatched" \in past'[w]
      /\ past[w] \subseteq past'[w]
      /\ \A v \in Workflows \ {w} : past'[v] = past[v]
  <2>1. CASE DRM!IsInitialized(w)
    BY <1>1, <2>1
  <2>2. CASE ~DRM!IsInitialized(w)
    <3>1. PICK r \in Address :
            /\ DRM!Initialize(w, r)
            /\ past' = [past EXCEPT ![w] = @ \cup
                 IF r = NoAccount THEN {"unassigned"}
                 ELSE IF r # disputeResolver'[w] THEN {"mismatched"} ELSE {}]
      BY <1>1, <2>2, AnswersType, ResolversType DEF Happens, BesideOK
    <3>2. CASE r = NoAccount
      BY <3>1, <3>2, VaultFacts DEF DRM!Initialize
    <3>3. CASE r # NoAccount
      BY <3>1, <3>3, VaultFacts DEF DRM!Initialize, Address
    <3>. QED  BY <3>2, <3>3
  <2>. QED  BY <2>1, <2>2
<1>4. Raises(w)
  BY <1>2, <1>3, VaultFacts DEF Raises
<1>5. \A v \in Workflows \ {w} : Keeps(v)
  BY <1>2, <1>3, VaultFacts DEF Keeps
<1>. QED  BY <1>4, <1>5 DEF AffectsOnly, Affects

LEMMA TimedEffect ==
  ASSUME Inv, BesideOK, NEW w \in Workflows, NEW a, TimedActionsWithModule(w, a)
  PROVE  AffectsOnly(w)
<1>1. /\ \/ PendingDue(w) /\ Settle(w, pendingSettlements[w].isRelease, InPlace(w))
         \/ /\ ~PendingDue(w) /\ ~pendingSettlements[w].exists
            /\ \E isRelease \in BOOLEAN :
                 /\ Settle(w, isRelease, InPlace(w))
                 /\ escrowState[w] = "DISPUTED" => ~isRelease
      /\ UNCHANGED terms
      /\ escrowState[w] \in Active
  BY VaultFacts DEF TimedActionsWithModule, AutomateTimedActions, ResolveDisputeByTimeout,
     ExecutePendingSettlement, DisputeAutoCancelDue, DisputeTimedOut, AutoReleaseDue,
     AutoCancelDue, PendingDue, Phase, Active
<1>2. PICK isRelease \in BOOLEAN :
        /\ escrowState' = [escrowState EXCEPT ![w] = IF isRelease THEN "RELEASED" ELSE "REFUNDED"]
        /\ pendingSettlements' = [pendingSettlements EXCEPT ![w] = NoPending]
        /\ UNCHANGED disputeResolver
        /\ pendingSettlements[w].exists =>
             PendingDue(w) /\ isRelease = pendingSettlements[w].isRelease
        /\ (escrowState[w] = "DISPUTED" /\ ~pendingSettlements[w].exists) => ~isRelease
  BY <1>1, SettleEffect, VaultFacts DEF PendingSettlement, PendingDue
<1>3. /\ UNCHANGED past
      /\ \/ disputeMetadata' = disputeMetadata
         \/ disputeMetadata' = [disputeMetadata EXCEPT ![w] = disputeMetadata[w]]
         \/ disputeMetadata' = [disputeMetadata EXCEPT ![w] = DRM!Closed(disputeMetadata[w])]
      /\ (escrowState[w] = "DISPUTED" /\ DRM!CanFinalize(disputeMetadata[w])) =>
           disputeMetadata' = [disputeMetadata EXCEPT ![w] = DRM!Closed(disputeMetadata[w])]
  BY DEF TimedActionsWithModule, CloseWithVault, FinalizeInModule
<1>4. Ends(w)
  BY <1>1, <1>2, <1>3, VaultFacts DEF Ends, Terminal, NoPending, PendingDue
<1>5. \A v \in Workflows \ {w} : Keeps(v)
  BY <1>1, <1>2, <1>3, VaultFacts DEF Keeps
<1>. QED  BY <1>4, <1>5 DEF AffectsOnly, Affects

LEMMA AcceptSplitEffect ==
  ASSUME Inv, BesideOK, NEW w \in Workflows, NEW a, AcceptSplitWithModule(w, a)
  PROVE  AffectsOnly(w)
<1>1. /\ ~pendingSettlements[w].exists
      /\ escrowState[w] \in Active
      /\ escrowState' = [escrowState EXCEPT ![w] = "RESOLVED"]
      /\ UNCHANGED <<pendingSettlements, terms, past, disputeResolver>>
  BY DEF AcceptSplitWithModule, AcceptSplit
<1>2. \/ disputeMetadata' = disputeMetadata
      \/ disputeMetadata' = [disputeMetadata EXCEPT ![w] = DRM!Closed(disputeMetadata[w])]
  BY DEF AcceptSplitWithModule
<1>3. Ends(w)
  BY <1>1, <1>2, VaultFacts DEF Ends, Terminal
<1>4. \A v \in Workflows \ {w} : Keeps(v)
  BY <1>1, <1>2, VaultFacts DEF Keeps
<1>. QED  BY <1>3, <1>4 DEF AffectsOnly, Affects

LEMMA RuleEffect ==
  ASSUME Inv, BesideOK, NEW w \in Workflows, NEW a, NEW decision \in {"RELEASE", "CANCEL"},
         Rule(w, a, decision), a = ExternalResolver => klerosDisputes'[w].ruling = decision
  PROVE  AffectsOnly(w)
<1>. DEFINE dm == RecordAfter(w, decision)
            outcome == Outcome(w, dm)
<1>1. /\ escrowState[w] = "DISPUTED"
      /\ UNCHANGED terms
      /\ \/ outcome.immediate /\ Settle(w, decision = "RELEASE", InPlace(w))
         \/ /\ ~outcome.immediate
            /\ ~pendingSettlements[w].exists
            /\ pendingSettlements' = [pendingSettlements EXCEPT ![w] =
                 [exists |-> TRUE, isRelease |-> decision = "RELEASE",
                  appealDeadline |-> outcome.deadline]]
            /\ UNCHANGED <<escrowState, disputeResolver>>
  BY DEF Rule, ExecuteResolution
<1>2. /\ outcome.immediate =>
           \/ disputeMetadata' = [disputeMetadata EXCEPT ![w] = dm]
           \/ disputeMetadata' = [disputeMetadata EXCEPT ![w] = DRM!Closed(dm)]
      /\ ~outcome.immediate => disputeMetadata' = [disputeMetadata EXCEPT ![w] = dm]
      /\ past' = [past EXCEPT ![w] = @ \cup IF DRM!RecordReverts(w) THEN {"unrecorded"} ELSE {}]
  BY DEF Rule, FinalizeInModule, Happens
<1>. HIDE DEF dm
<1>0. RuledByCourt(w, decision)
  BY AddressAssumption, ResolutionAssumption
     DEF RuledByCourt, Rule, MayRule, IsAuthorizedDisputeResolver
<1>3. CASE outcome.immediate
  <2>1. /\ escrowState' = [escrowState EXCEPT ![w] =
             IF decision = "RELEASE" THEN "RELEASED" ELSE "REFUNDED"]
        /\ pendingSettlements' = [pendingSettlements EXCEPT ![w] = NoPending]
        /\ UNCHANGED disputeResolver
    BY <1>1, <1>3, SettleEffect
  <2>2. RulesFinally(w, decision)
    BY <1>0, <1>1, <1>2, <1>3, <2>1, VaultFacts DEF RulesFinally, NoPending, dm
  <2>3. \A v \in Workflows \ {w} : Keeps(v)
    BY <1>1, <1>2, <1>3, <2>1, VaultFacts DEF Keeps
  <2>. QED  BY <2>2, <2>3 DEF AffectsOnly, Affects
<1>4. CASE ~outcome.immediate
  <2>1. RulesOpenly(w, decision)
    BY <1>1, <1>2, <1>4, VaultFacts DEF RulesOpenly, dm
  <2>2. \A v \in Workflows \ {w} : Keeps(v)
    BY <1>1, <1>2, <1>4, VaultFacts DEF Keeps
  <2>. QED  BY <2>1, <2>2 DEF AffectsOnly, Affects
<1>. QED  BY <1>3, <1>4

LEMMA AppealEffect ==
  ASSUME Inv, BesideOK, NEW w \in Workflows, NEW a \in Accounts, AppealWithModule(w, a)
  PROVE  Appeals(w) /\ AffectsOnly(w)
<1>1. PICK successor \in DRM!Successors(w) :
        /\ DRM!Appealable(w)
        /\ AppealDispute(w, a, [successor |-> successor, decision |-> DRM!CurrentDecision(w),
                                bond |-> DRM!QuotedBond(w, baseBond), asset |-> "ETH"], 0)
        /\ disputeMetadata' = [disputeMetadata EXCEPT ![w] = DRM!Escalated(w, successor)]
        /\ klerosDisputes' = KlerosDisputesAfterAppeal(w)
        /\ Happens(w, {"appealed"})
  BY DEF AppealWithModule
<1>2. /\ escrowState[w] = "DISPUTED"
      /\ terms[w].customResolver = NoAccount
      /\ pendingSettlements' = [pendingSettlements EXCEPT ![w] = NoPending]
      /\ addressEscalationCount' =
           [addressEscalationCount EXCEPT ![a] = addressEscalationCount[a] + 1]
      /\ disputeResolver' = [disputeResolver EXCEPT ![w] = successor]
      /\ UNCHANGED <<escrowState, terms>>
  BY <1>1 DEF AppealDispute
<1>3. addressEscalationCount' # addressEscalationCount
  BY <1>2, VaultFacts
<1>4. Appeals(w)
  <2>1. klerosDisputes'[w].created => klerosDisputes[w].created \/ DRM!Round(w) + 1 = DRM!MAX_ROUND
    BY <1>1 DEF KlerosDisputesAfterAppeal
  <2>2. DRM!Round(w) # 0 => successor = ExternalResolver
    BY DEF DRM!Successors
  <2>. QED  BY <1>1, <1>2, <1>3, <2>1, <2>2, AnswersType, VaultFacts DEF Appeals, NoPending
<1>5. \A v \in Workflows \ {w} : Keeps(v)
  BY <1>1, <1>2, VaultFacts DEF Keeps, Happens
<1>. QED  BY <1>4, <1>5 DEF AffectsOnly, Affects

LEMMA MovesEffect ==
  ASSUME Inv, BesideOK, NEW w \in Workflows, ExecuteEscalation(w) \/ GuardianForcesProgress(w)
  PROVE  AffectsOnly(w)
<1>1. UNCHANGED <<escrowState, pendingSettlements, terms, disputeResolver>>
  BY DEF ExecuteEscalation, GuardianForcesProgress, vars
<1>2. CASE ExecuteEscalation(w)
  <2>1. /\ DRM!Appealable(w)
        /\ \E successor \in Accounts :
             disputeMetadata' = [disputeMetadata EXCEPT ![w] = DRM!Escalated(w, successor)]
        /\ past' = [past EXCEPT ![w] = @ \cup {"moved"}]
    BY <1>2, AnswersType DEF ExecuteEscalation, Happens
  <2>2. Moves(w)
    BY <1>1, <2>1, VaultFacts DEF Moves
  <2>3. \A v \in Workflows \ {w} : Keeps(v)
    BY <1>1, <2>1, VaultFacts DEF Keeps
  <2>. QED  BY <2>2, <2>3 DEF AffectsOnly, Affects
<1>3. CASE GuardianForcesProgress(w)
  <2>1. PICK r \in DRM!Replacements(w) : DRM!ForceProgress(w, r)
    BY <1>3 DEF GuardianForcesProgress
  <2>2. r \in Address
    BY AnswersType DEF DRM!Replacements, Address
  <2>3. /\ disputeMetadata[w].status = "Open"
        /\ \/ disputeMetadata' = [disputeMetadata EXCEPT ![w] = DRM!Closed(disputeMetadata[w])]
           \/ r \in Accounts /\ disputeMetadata' = [disputeMetadata EXCEPT ![w] = DRM!Replaced(w, r)]
    BY <2>1, <2>2 DEF DRM!ForceProgress, Address
  <2>4. past' = [past EXCEPT ![w] = @ \cup {"forced"}]
    BY <1>3 DEF GuardianForcesProgress, Happens
  <2>5. Forces(w)
    BY <1>1, <2>3, <2>4, VaultFacts DEF Forces
  <2>6. \A v \in Workflows \ {w} : Keeps(v)
    BY <1>1, <2>3, <2>4, VaultFacts DEF Keeps
  <2>. QED  BY <2>5, <2>6 DEF AffectsOnly, Affects
<1>. QED  BY <1>2, <1>3

LEMMA VaultOnlyEffect ==
  ASSUME Inv, BesideOK, NEW w \in Workflows, VaultOnly(w)
  PROVE  AffectsOnly(w)
<1>1. UNCHANGED <<disputeMetadata, past, terms, disputeResolver>>
  BY DEF VaultOnly, SenderCancel, RecipientCancel, Release, PartialRelease, ProposeSplit,
         AttemptOfAnotherCaller, creationVars, disputeVars, CancelSplit, WithdrawEscrow,
         CancelAndRefund, ReleaseEscrowTransfer
<1>2. \/ UNCHANGED <<escrowState, pendingSettlements>>
      \/ /\ escrowState[w] = "PENDING"
         /\ \E s \in Terminal : escrowState' = [escrowState EXCEPT ![w] = s]
         /\ pendingSettlements' = [pendingSettlements EXCEPT ![w] = NoPending]
  BY DEF VaultOnly, SenderCancel, RecipientCancel, Release, PartialRelease, ProposeSplit,
         AttemptOfAnotherCaller, creationVars, disputeVars, CancelSplit, WithdrawEscrow,
         CancelAndRefund, ReleaseEscrowTransfer, Terminal
<1>3. CASE UNCHANGED <<escrowState, pendingSettlements>>
  BY <1>1, <1>3 DEF AffectsOnly, Affects, Keeps
<1>4. CASE /\ escrowState[w] = "PENDING"
           /\ \E s \in Terminal : escrowState' = [escrowState EXCEPT ![w] = s]
           /\ pendingSettlements' = [pendingSettlements EXCEPT ![w] = NoPending]
  <2>1. Ends(w)
    BY <1>1, <1>4, VaultFacts DEF Ends, NoPending, Phase, Active
  <2>2. \A v \in Workflows \ {w} : Keeps(v)
    BY <1>1, <1>4, VaultFacts DEF Keeps
  <2>. QED  BY <2>1, <2>2 DEF AffectsOnly, Affects
<1>. QED  BY <1>2, <1>3, <1>4

LEMMA Effects ==
  ASSUME Inv, BesideOK, [ResolutionNext]_allVars
  PROVE  \/ \A w \in Workflows : Keeps(w)
         \/ \E w \in Workflows : AffectsOnly(w)
<1>. DEFINE Quiet == UNCHANGED <<disputeMetadata, escrowState, pendingSettlements, past, terms,
                                disputeResolver>>
<1>1. Quiet => \A w \in Workflows : Keeps(w)
  BY DEF Keeps
<1>2. CASE UNCHANGED allVars
  BY <1>1, <1>2 DEF allVars, vars
<1>3. CASE (Tick \/ Governance \/ WithdrawFees) /\ UNCHANGED besideVars
  <2>1. UNCHANGED <<escrowState, pendingSettlements, terms, disputeResolver>>
    BY <1>3 DEF Tick, WithdrawFees, Governance, SetFeeRecipient, SetEscrowFeeBps,
       SetYieldProtocolFeeBps, SetAppealBondProtocolFeeBps, SetResolutionModule, SetTimeoutConfig,
       SetMinDisputeEscrowValue, SetMaxDisputesPerSenderPerDay, SetResolverPolicy,
       ActivateResolutionModule, ActivateReleaseStrategy, ActivateCancellationStrategy,
       ActivateYieldModule, SetBondCollector, PauseYieldDeposits, ResumeYieldDeposits, SetConfig
  <2>. QED  BY <1>1, <1>3, <2>1
<1>4. CASE \E req \in CreateRequests : CreateWithModule(req)
  BY <1>4, CreateEffect DEF CreateWithModule
<1>5. CASE PauseAssignments
  BY <1>1, <1>5 DEF PauseAssignments, DRM!PauseNewAssignments, vars
<1>6. ASSUME NEW w \in Workflows, NEW ruling, Propagate(w, ruling),
             klerosDisputes'[w].ruling = ruling
      PROVE  Quiet \/ AffectsOnly(w)
  <2>1. CASE UNCHANGED <<vars, moduleVars, baseBond, past>>
    BY <2>1 DEF vars
  <2>. QED  BY <1>6, <2>1, CourtStep, RuleEffect
<1>7. ASSUME NEW w \in Workflows, NEW ruling, NEW delivered \in BOOLEAN,
             CourtRules(w, ruling, delivered)
      PROVE  Quiet \/ AffectsOnly(w)
  <2>1. CASE delivered
    BY <1>6, <1>7, <2>1, VaultFacts DEF CourtRules
  <2>2. CASE ~delivered
    BY <1>7, <2>2 DEF CourtRules, vars
  <2>. QED  BY <2>1, <2>2
<1>8. ASSUME NEW w \in Workflows, PropagateRuling(w) PROVE Quiet \/ AffectsOnly(w)
  BY <1>6, <1>8 DEF PropagateRuling
<1>9. ASSUME NEW w \in Workflows, NEW a \in Accounts,
             \E decision \in {"RELEASE", "CANCEL"} : RuleWithModule(w, a, decision)
      PROVE  AffectsOnly(w)
  BY <1>9, RuleEffect DEF RuleWithModule
<1>. HIDE DEF Quiet
<1>. QED  BY <1>1, <1>2, <1>3, <1>4, <1>5, <1>7, <1>8, <1>9, RaiseEffect, TimedEffect,
             AcceptSplitEffect, AppealEffect, MovesEffect, VaultOnlyEffect DEF ResolutionNext

(***************************************************************************)
(* The records through each effect.                                        *)
(***************************************************************************)
LEMMA RulingRecord ==
  ASSUME Inv, BesideOK, NEW w \in Workflows, NEW decision \in {"RELEASE", "CANCEL"}
  PROVE  LET dm == disputeMetadata[w]
             after == RecordAfter(w, decision)
             r == DRM!Round(w)
         IN  /\ after.currentRound = r
             /\ after.resolverAtRound = dm.resolverAtRound
             /\ \A s \in 0 .. 2 : s # r =>
                  /\ after.decisionAtRound[s] = dm.decisionAtRound[s]
                  /\ after.appealDeadline[s] = dm.appealDeadline[s]
             /\ DRM!RecordReverts(w) => after = dm
             /\ ~DRM!RecordReverts(w) =>
                  /\ after.status = "Decided"
                  /\ after.decisionAtRound[r] = decision
                  /\ after.appealDeadline[r] > 0
<1>1. /\ disputeMetadata[w] \in DRM!DisputeMetadata
      /\ DRM!Round(w) \in 0 .. 2
      /\ disputeMetadata[w].currentRound = DRM!Round(w)
  BY RecordType DEF BesideOK, DRM!Round
<1>2. CASE DRM!RecordReverts(w)
  BY <1>1, <1>2 DEF RecordAfter
<1>3. CASE ~DRM!RecordReverts(w)
  <2>1. now + AppealWindows[DRM!Round(w)] > 0
    BY <1>1, BesideFacts, ResolutionAssumption
  <2>2. RecordAfter(w, decision) = DRM!Recorded(w, decision)
    BY <1>3 DEF RecordAfter
  <2>. QED  BY <1>1, <1>3, <2>1, <2>2, RecordedFields
            DEF DisputeRecord, DRM!DisputeMetadata, DRM!Rounds, DRM!MAX_ROUND
<1>. QED  BY <1>2, <1>3

\* What a waiting ruling means for the next one: it is refused, unless the module's round
\* has moved without the vault.
LEMMA RulingOverRuling ==
  ASSUME Inv, BesideOK, RecordsInv, NEW w \in Workflows, NEW decision \in {"RELEASE", "CANCEL"},
         RulesFinally(w, decision), pendingSettlements[w].exists
  PROVE  Blank(w, DRM!Round(w)) /\ "moved" \in past[w]
<1>. DEFINE after == RecordAfter(w, decision)
            r == DRM!Round(w)
<1>1. Agreed(w) \/ Unheard(w)
  BY DEF RecordsInv, Records
<1>2. Outcome(w, after).immediate
  BY DEF RulesFinally
<1>3. after.currentRound = r
  BY RulingRecord
<1>4. ASSUME r < DRM!MAX_ROUND, after.appealDeadline[r] # 0 PROVE FALSE
  BY <1>2, <1>3, <1>4 DEF Outcome, DRM!IsFinalRound, DRM!MAX_ROUND, Deadline
<1>5. ASSUME r < DRM!MAX_ROUND, terms[w].appealWindowDuration # 0 PROVE FALSE
  BY <1>2, <1>3, <1>5 DEF Outcome, DRM!IsFinalRound, DRM!MAX_ROUND, Deadline
<1>6. CASE Agreed(w)
  <2>1. after.appealDeadline[r] # 0
    BY <1>6, RulingRecord, VaultFacts DEF Agreed, PendingSettlement
  <2>. QED  BY <1>4, <1>6, <2>1 DEF Agreed
<1>7. CASE Unheard(w)
  BY <1>5, <1>7 DEF Unheard
<1>. QED  BY <1>1, <1>6, <1>7

LEMMA KeepsRecords ==
  ASSUME NEW w \in Workflows, Records(w), Keeps(w)
  PROVE  Records(w)'
BY DEF Records, Keeps, Blank, Agreed, Unheard, DRM!Round, DRM!CurrentDecision

LEMMA EndsRecords ==
  ASSUME Inv, BesideOK, NEW w \in Workflows, Records(w), Ends(w)
  PROVE  Records(w)'
<1>1. /\ disputeMetadata'[w].currentRound = disputeMetadata[w].currentRound
      /\ disputeMetadata'[w].decisionAtRound = disputeMetadata[w].decisionAtRound
      /\ disputeMetadata'[w].appealDeadline = disputeMetadata[w].appealDeadline
  BY VaultFacts, ClosedFields DEF Ends, DisputeRecord
<1>. QED  BY <1>1 DEF Records, Ends, Blank, DRM!Round, Terminal

LEMMA RaisesRecords ==
  ASSUME Inv, BesideOK, NEW w \in Workflows, Records(w), Creates(w) \/ Raises(w)
  PROVE  Records(w)'
<1>1. /\ ~pendingSettlements[w].exists /\ ~pendingSettlements'[w].exists
      /\ escrowState'[w] \in {"PENDING", "DISPUTED"}
      /\ DRM!Round(w) = 0 /\ Blank(w, 0)
  BY VaultFacts DEF Phase, Creates, Raises, Records, Terminal
<1>2. /\ disputeMetadata'[w].currentRound = 0
      /\ disputeMetadata'[w].decisionAtRound = disputeMetadata[w].decisionAtRound
      /\ disputeMetadata'[w].appealDeadline = disputeMetadata[w].appealDeadline
  BY <1>1, VaultFacts, OpenedFields DEF Creates, Raises, DisputeRecord, DRM!Round
<1>. QED  BY <1>1, <1>2 DEF Records, Blank, DRM!Round

LEMMA MovesRecords ==
  ASSUME Inv, BesideOK, NEW w \in Workflows, Records(w), Appeals(w) \/ Moves(w)
  PROVE  Records(w)'
<1>1. /\ DRM!Round(w) \in 0 .. 2 /\ DRM!Round(w) < DRM!MAX_ROUND
      /\ disputeMetadata[w].decisionAtRound[DRM!Round(w)] # "NONE"
  BY RecordType DEF Appeals, Moves, DRM!Appealable, DRM!DecisionOpen, DRM!Round, BesideOK
<1>2. /\ disputeMetadata'[w].currentRound = DRM!Round(w) + 1
      /\ disputeMetadata'[w].decisionAtRound = disputeMetadata[w].decisionAtRound
      /\ disputeMetadata'[w].appealDeadline = disputeMetadata[w].appealDeadline
  BY VaultFacts, EscalatedFields DEF Appeals, Moves, DisputeRecord
<1>3. DRM!Round(w)' = DRM!Round(w) + 1 /\ DRM!Round(w) + 1 \in DRM!Rounds
  BY <1>1, <1>2 DEF DRM!Round, DRM!Rounds, DRM!MAX_ROUND
<1>4. \A r \in DRM!Rounds : r > DRM!Round(w) => Blank(w, r)'
  BY <1>2 DEF Records, Blank
<1>5. \A r \in DRM!Rounds : r >= DRM!Round(w)' => Blank(w, r)'
  BY <1>1, <1>3, <1>4 DEF DRM!Rounds, DRM!MAX_ROUND
<1>6. Blank(w, DRM!Round(w))'
  BY <1>3, <1>5 DEF DRM!Rounds, DRM!MAX_ROUND, Blank
<1>7. escrowState[w] \notin {"NONE", "PENDING"}
  BY <1>1, VaultFacts DEF Records, Phase, Blank, Terminal
<1>8. pendingSettlements'[w].exists => "moved" \in past'[w]
  BY DEF Appeals, Moves
<1>. QED  BY <1>3, <1>5, <1>6, <1>7, <1>8
          DEF Records, Unheard, Appeals, Moves, DRM!Rounds, DRM!MAX_ROUND

LEMMA ForcesRecords ==
  ASSUME Inv, BesideOK, NEW w \in Workflows, Records(w), Forces(w)
  PROVE  Records(w)'
<1>1. /\ disputeMetadata'[w].currentRound = disputeMetadata[w].currentRound
      /\ disputeMetadata'[w].decisionAtRound = disputeMetadata[w].decisionAtRound
      /\ disputeMetadata'[w].appealDeadline = disputeMetadata[w].appealDeadline
  BY VaultFacts, ClosedFields, ReplacedFields DEF Forces, DisputeRecord
<1>2. ~Agreed(w)
  BY DEF Forces, Agreed
<1>3. Unheard(w) => Unheard(w)'
  BY <1>1 DEF Unheard, Blank, Forces, DRM!Round
<1>. QED  BY <1>1, <1>2, <1>3 DEF Records, Forces, Blank, DRM!Round

LEMMA RulesFinallyRecords ==
  ASSUME Inv, BesideOK, NEW w \in Workflows, NEW decision \in {"RELEASE", "CANCEL"},
         Records(w), RulesFinally(w, decision)
  PROVE  Records(w)'
<1>. DEFINE after == RecordAfter(w, decision)
<1>1. after \in DRM!DisputeMetadata
  BY AfterRulingType, BesideFacts DEF BesideOK
<1>2. /\ disputeMetadata'[w].currentRound = after.currentRound
      /\ disputeMetadata'[w].decisionAtRound = after.decisionAtRound
      /\ disputeMetadata'[w].appealDeadline = after.appealDeadline
  BY <1>1, ClosedFields DEF RulesFinally, DisputeRecord
<1>3. /\ DRM!Round(w)' = DRM!Round(w) /\ DRM!Round(w) \in 0 .. 2
      /\ \A r \in 0 .. 2 : r # DRM!Round(w) => (Blank(w, r)' <=> Blank(w, r))
  BY <1>2, RulingRecord, RecordType DEF Blank, DRM!Round, BesideOK
<1>. QED  BY <1>3 DEF Records, RulesFinally, Terminal, DRM!Rounds, DRM!MAX_ROUND

LEMMA RulesOpenlyRecords ==
  ASSUME Inv, BesideOK, NEW w \in Workflows, NEW decision \in {"RELEASE", "CANCEL"},
         Records(w), RulesOpenly(w, decision)
  PROVE  Records(w)'
<1>. DEFINE after == RecordAfter(w, decision)
            outcome == Outcome(w, after)
            r == DRM!Round(w)
<1>1. /\ disputeMetadata'[w] = after
      /\ pendingSettlements'[w] = [exists |-> TRUE, isRelease |-> decision = "RELEASE",
                                   appealDeadline |-> outcome.deadline]
      /\ ~outcome.immediate
      /\ escrowState'[w] = "DISPUTED"
      /\ DRM!RecordReverts(w) => "unrecorded" \in past'[w]
      /\ terms'[w] = terms[w]
  BY DEF RulesOpenly
<1>2. /\ DRM!Round(w)' = r /\ r \in 0 .. 2 /\ after.currentRound = r
      /\ \A s \in 0 .. 2 : s # r => (Blank(w, s)' <=> Blank(w, s))
  BY <1>1, RulingRecord, RecordType DEF Blank, DRM!Round, BesideOK
<1>3. Blank(w, r)
  BY DEF RulesOpenly, Records, Terminal
<1>4. r < DRM!MAX_ROUND
  BY <1>1, <1>2 DEF Outcome, DRM!IsFinalRound, Execute, DRM!MAX_ROUND
<1>5. (Agreed(w) \/ Unheard(w))'
  <2>1. CASE DRM!RecordReverts(w)
    <3>1. after = disputeMetadata[w]
      BY <2>1, RulingRecord
    <3>2. terms[w].appealWindowDuration # 0
      BY <1>1, <1>2, <1>3, <3>1 DEF Outcome, Execute, Blank
    <3>. QED  BY <1>1, <1>2, <1>3, <1>4, <2>1, <3>1, <3>2 DEF Unheard, Blank
  <2>2. CASE ~DRM!RecordReverts(w)
    <3>1. /\ after.status = "Decided"
          /\ after.decisionAtRound[r] = decision
          /\ after.appealDeadline[r] > 0
      BY <2>2, RulingRecord
    <3>2. outcome.deadline = after.appealDeadline[r]
      BY <1>1, <1>2, <1>4, <3>1 DEF Outcome, DRM!IsFinalRound, Deadline, Execute, DRM!MAX_ROUND
    <3>. HIDE DEF after, outcome
    <3>3. /\ disputeMetadata[w]'.status = "Decided"
          /\ DRM!Round(w)' = r
          /\ DRM!CurrentDecision(w)' = decision
          /\ disputeMetadata[w]'.appealDeadline[r] = outcome.deadline
          /\ outcome.deadline > 0
      BY <1>1, <1>2, <3>1, <3>2 DEF DRM!CurrentDecision
    <3>4. /\ pendingSettlements[w]'.isRelease = (decision = "RELEASE")
          /\ pendingSettlements[w]'.appealDeadline = outcome.deadline
      BY <1>1
    <3>5. decision = IF decision = "RELEASE" THEN "RELEASE" ELSE "CANCEL"
      OBVIOUS
    <3>. QED  BY <1>4, <3>3, <3>4, <3>5 DEF Agreed, DRM!MAX_ROUND
  <2>. QED  BY <2>1, <2>2
<1>. QED  BY <1>1, <1>2, <1>5 DEF Records, DRM!Rounds, DRM!MAX_ROUND

LEMMA StepRecords == Inv /\ BesideOK /\ RecordsInv /\ [ResolutionNext]_allVars => RecordsInv'
<1>. SUFFICES ASSUME Inv, BesideOK, RecordsInv, [ResolutionNext]_allVars,
                     NEW w \in Workflows
              PROVE  Records(w)'
  BY DEF RecordsInv
<1>1. Records(w)
  BY DEF RecordsInv
<1>2. Affects(w)
  BY Effects DEF AffectsOnly, Affects
<1>. QED  BY <1>1, <1>2, KeepsRecords, EndsRecords, RaisesRecords, MovesRecords, ForcesRecords,
             RulesFinallyRecords, RulesOpenlyRecords DEF Affects

LEMMA InitRecords == ResolutionInit => RecordsInv
BY DEF ResolutionInit, Init, DRM!Init, RecordsInv, Records, Blank, DRM!Round, DRM!Rounds,
       DRM!MAX_ROUND, NoPending

(***************************************************************************)
(* The theorems.                                                           *)
(***************************************************************************)
LEMMA Invariants == ResolutionSpec => [](Inv /\ BesideOK /\ RecordsInv)
BY InitTypes, InitRecords, StepTypes, StepRecords, PTL DEF ResolutionSpec

\* The ruling the vault will pay out is the one the module has on record, with the same
\* deadline, whatever else happens to the dispute, unless the module's round moved
\* without the vault or the recording failed.
THEOREM RulingsAgreeAlways == ResolutionSpec => []RulingsAgree
<1>1. Inv /\ BesideOK /\ RecordsInv => RulingsAgree
  BY VaultFacts DEF RecordsInv, Records, Agreed, Unheard, RulingsAgree, Without, PendingSettlement
<1>. QED  BY <1>1, Invariants, PTL

\* At no instant can one party have a ruling paid out while the other can still appeal it,
\* even where the two records have lost each other.
THEOREM NeverTie == ResolutionSpec => []NoTie
<1>1. Inv /\ BesideOK /\ RecordsInv => NoTie
  <2>. SUFFICES ASSUME Inv, BesideOK, RecordsInv, NEW w \in Workflows,
                       PendingDue(w), DRM!Appealable(w)
                PROVE  FALSE
    BY DEF NoTie
  <2>1. Agreed(w) \/ Unheard(w)
    BY DEF RecordsInv, Records, PendingDue
  <2>2. /\ disputeMetadata[w].decisionAtRound[DRM!Round(w)] # "NONE"
        /\ disputeMetadata[w].appealDeadline[DRM!Round(w)] > now
    BY DEF DRM!Appealable, DRM!DecisionOpen, DRM!Round
  <2>3. now >= pendingSettlements[w].appealDeadline /\ pendingSettlements[w].appealDeadline \in Nat
    BY VaultFacts DEF PendingDue, PendingSettlement
  <2>. QED  BY <2>1, <2>2, <2>3, BesideFacts DEF Agreed, Unheard, Blank
<1>. QED  BY <1>1, Invariants, PTL

\* Paying out a ruling that waited closes the module's record on the same decision.
THEOREM RulingsCloseDisputesAlways == ResolutionSpec => RulingsCloseDisputes
<1>1. Inv /\ BesideOK /\ RecordsInv /\ [ResolutionNext]_allVars =>
        [\A w \in Workflows : RulingClosesDispute(w)]_allVars
  <2>. SUFFICES ASSUME Inv, BesideOK, RecordsInv, [ResolutionNext]_allVars, NEW w \in Workflows,
                       pendingSettlements[w].exists, escrowState'[w] \in Terminal,
                       Without(w, {"moved", "unrecorded"})
                PROVE  /\ disputeMetadata'[w].status = "Final"
                       /\ escrowState'[w] = "RELEASED" <=> DRM!CurrentDecision(w) = "RELEASE"
    BY DEF RulingClosesDispute
  <2>1. /\ Agreed(w)
        /\ escrowState[w] = "DISPUTED"
        /\ "moved" \notin past[w]
    BY VaultFacts DEF RecordsInv, Records, Unheard, Without, Phase
  <2>2. Affects(w)
    BY Effects DEF AffectsOnly, Affects
  <2>3. Ends(w)
    BY <2>1, <2>2, RulingOverRuling
       DEF Affects, Keeps, Creates, Raises, Appeals, Moves, Forces, RulesOpenly, Terminal
  <2>4. DRM!CanFinalize(disputeMetadata[w])
    BY <2>1, <2>3, VaultFacts, BesideFacts DEF Ends, PendingDue, Agreed, DRM!CanFinalize, DRM!DecisionOpen,
       DRM!CurrentDecision, DRM!Round, PendingSettlement
  <2>. QED  BY <2>1, <2>3, <2>4, ClosedFields, VaultFacts DEF Ends, Agreed, DisputeRecord
<1>. QED  BY <1>1, Invariants, PTL DEF ResolutionSpec, RulingsCloseDisputes

\* A ruling that waits is not displaced before its time by anything but a paid appeal,
\* unless the module's round was moved without the vault.
THEOREM RulingsHeldUntilDueAlways == ResolutionSpec => RulingsHeldUntilDue
<1>1. Inv /\ BesideOK /\ RecordsInv /\ [ResolutionNext]_allVars =>
        [\A w \in Workflows : HeldUntilDue(w)]_allVars
  <2>. SUFFICES ASSUME Inv, BesideOK, RecordsInv, [ResolutionNext]_allVars, NEW w \in Workflows,
                       pendingSettlements[w].exists,
                       pendingSettlements'[w] # pendingSettlements[w]
                PROVE  \/ now >= pendingSettlements[w].appealDeadline
                       \/ addressEscalationCount' # addressEscalationCount
                       \/ "moved" \in past[w]
    BY DEF HeldUntilDue
  <2>1. Affects(w) /\ escrowState[w] = "DISPUTED"
    BY Effects, VaultFacts DEF AffectsOnly, Affects, Phase
  <2>. QED  BY <2>1, RulingOverRuling
            DEF Affects, Keeps, Creates, Raises, Ends, PendingDue, Appeals, Moves, Forces, RulesOpenly
<1>. QED  BY <1>1, Invariants, PTL DEF ResolutionSpec, RulingsHeldUntilDue

\* Where the module's round has not moved without the vault, a settlement of a disputed
\* escrow realizes the ruling that waits: a second ruling finds the first on the module's
\* record, with time left to appeal it, and is refused.
LEMMA SettlementRealizes ==
  ASSUME PayInv, BesideOK, RecordsInv, [ResolutionNext]_allVars, NEW w \in Workflows,
         Settlements(w), "moved" \notin past[w]
  PROVE  Realized(w)
<1>. SUFFICES ASSUME pendingSettlements[w].exists
              PROVE  escrowState'[w] =
                       IF pendingSettlements[w].isRelease THEN "RELEASED" ELSE "REFUNDED"
  BY DEF Realized
<1>1. Inv /\ escrowState[w] = "DISPUTED"
  BY DEF PayInv, Inv, PhaseInv, Phase
<1>2. escrowState'[w] \in {"RELEASED", "REFUNDED"}
  BY SettlementOverRuling
<1>3. Affects(w)
  BY <1>1, Effects DEF AffectsOnly, Affects
<1>4. Ends(w)
  BY <1>1, <1>2, <1>3, RulingOverRuling
     DEF Affects, Keeps, Creates, Raises, Appeals, Moves, Forces, RulesOpenly
<1>. QED  BY <1>2, <1>4 DEF Ends

NeverMoved == \A w \in Workflows : "moved" \notin past[w]

\* With this module behind it the vault keeps EscrowPromise, on escrows without yield and as
\* long as nobody moves the module's round without the vault (executeEscalation), although
\* nothing in the vault asks that of a module: what VaultKeepsPromise supposes of the module
\* is shown of this one.  After such a move a second ruling may displace the first.
THEOREM ResolutionKeepsPromise ==
  ASSUME \A req \in CreateRequests : ~req.yield
  PROVE  ResolutionSpec /\ []NeverMoved => KeepsPromise
<1>1. PayInv /\ NoYield /\ BesideOK /\ RecordsInv /\ NeverMoved /\ [ResolutionNext]_allVars
        => NoYield' /\ [Promise!PromiseNext]_(Promise!promiseVars)
  <2>. SUFFICES ASSUME PayInv, NoYield, BesideOK, RecordsInv, NeverMoved,
                       [ResolutionNext]_allVars
                PROVE  NoYield' /\ [Promise!PromiseNext]_(Promise!promiseVars)
    OBVIOUS
  <2>1. [Next]_vars
    BY StepIsVaultStep
  <2>2. \A w \in Workflows : Settlements(w) => Realized(w)
    BY SettlementRealizes DEF NeverMoved
  <2>. QED  BY <2>1, <2>2, NoYieldStep, StepIsPromised
<1>2. ResolutionInit => Init
  BY DEF ResolutionInit
<1>. QED  BY <1>1, <1>2, InitIsPromised, Invariants, VaultImplemented, PayInvariance, PTL
          DEF ResolutionSpec, KeepsPromise, Promise!PromiseSpec

\* A decision on record stays, although recordResolution would overwrite it.
THEOREM OneDecisionPerRoundAlways == ResolutionSpec => OneDecisionPerRound
<1>. DEFINE Stays(w) == \A r \in DRM!Rounds :
              disputeMetadata[w].decisionAtRound[r] # "NONE" =>
                disputeMetadata'[w].decisionAtRound[r] = disputeMetadata[w].decisionAtRound[r]
<1>1. Inv /\ BesideOK /\ RecordsInv /\ [ResolutionNext]_allVars =>
        [\A w \in Workflows : Stays(w)]_allVars
  <2>. SUFFICES ASSUME Inv, BesideOK, RecordsInv, [ResolutionNext]_allVars, NEW w \in Workflows
                PROVE  Stays(w)
    OBVIOUS
  <2>1. Affects(w) /\ disputeMetadata[w] \in DRM!DisputeMetadata
    BY Effects, VaultFacts DEF AffectsOnly, Affects
  <2>2. CASE \E decision \in {"RELEASE", "CANCEL"} : RulesFinally(w, decision) \/ RulesOpenly(w, decision)
    <3>1. PICK decision \in {"RELEASE", "CANCEL"} :
            RulesFinally(w, decision) \/ RulesOpenly(w, decision)
      BY <2>2
    <3>2. Blank(w, DRM!Round(w))
      <4>1. CASE pendingSettlements[w].exists
        BY <3>1, <4>1, RulingOverRuling DEF RulesOpenly
      <4>2. CASE ~pendingSettlements[w].exists
        BY <3>1, <4>2 DEF RecordsInv, Records, RulesFinally, RulesOpenly, Terminal
      <4>. QED  BY <4>1, <4>2
    <3>3. disputeMetadata'[w].decisionAtRound = RecordAfter(w, decision).decisionAtRound
      BY <3>1, ClosedFields, AfterRulingType, BesideFacts
         DEF RulesFinally, RulesOpenly, DisputeRecord, BesideOK
    <3>. QED  BY <3>2, <3>3, RulingRecord DEF Blank, DRM!Rounds, DRM!MAX_ROUND
  <2>3. CASE Keeps(w) \/ Creates(w) \/ Raises(w) \/ Ends(w) \/ Appeals(w) \/ Moves(w) \/ Forces(w)
    <3>1. disputeMetadata'[w].decisionAtRound = disputeMetadata[w].decisionAtRound
      BY <2>1, <2>3, ClosedFields, OpenedFields, EscalatedFields, ReplacedFields
         DEF Keeps, Creates, Raises, Ends, Appeals, Moves, Forces, DisputeRecord
    <3>. QED  BY <3>1
  <2>. QED  BY <2>1, <2>2, <2>3 DEF Affects
<1>. QED  BY <1>1, Invariants, PTL DEF ResolutionSpec, OneDecisionPerRound

(***************************************************************************)
(* Who rules.  An escrow nobody disputed has no resolver on the module's   *)
(* record unless a guardian put one there.                                 *)
(***************************************************************************)
Authority(w) ==
  /\ (escrowState[w] \in {"NONE", "PENDING"} /\ Without(w, {"forced"})) => ~DRM!IsInitialized(w)
  /\ (escrowState[w] = "DISPUTED" /\ Without(w, {"moved", "forced", "unassigned", "mismatched"}))
       => disputeResolver[w] = DRM!CurrentResolver(w)

AuthorityInv == \A w \in Workflows : Authority(w)

LEMMA AuthorityStep ==
  ASSUME Inv, BesideOK, RecordsInv, AuthorityInv, [ResolutionNext]_allVars
  PROVE  AuthorityInv'
<1>. SUFFICES ASSUME NEW w \in Workflows PROVE Authority(w)'
  BY DEF AuthorityInv
<1>1. Authority(w) /\ Records(w) /\ Affects(w)
  BY Effects DEF AffectsOnly, Affects, AuthorityInv, RecordsInv
<1>2. disputeMetadata[w] \in DRM!DisputeMetadata /\ DRM!Round(w) \in 0 .. 2
  BY RecordType DEF BesideOK
<1>3. CASE Keeps(w) \/ Creates(w)
  BY <1>1, <1>3 DEF Keeps, Creates, Authority, Without, DRM!IsInitialized, DRM!CurrentResolver, DRM!Round
<1>4. CASE Raises(w)
  <2>1. CASE \E a \in Accounts : /\ disputeMetadata'[w] = DRM!Opened(w, a)
                                 /\ disputeResolver'[w] = a \/ "mismatched" \in past'[w]
    BY <1>2, <1>4, <2>1, OpenedFields
       DEF Raises, Authority, Without, DRM!CurrentResolver, DRM!Round, DisputeRecord,
           DRM!DisputeMetadata, DRM!Rounds, DRM!MAX_ROUND
  <2>2. CASE DRM!IsInitialized(w) \/ "unassigned" \in past'[w]
    BY <1>1, <1>4, <2>2 DEF Raises, Authority, Without
  <2>. QED  BY <1>4, <2>1, <2>2 DEF Raises
<1>5. CASE Ends(w) \/ \E decision \in {"RELEASE", "CANCEL"} : RulesFinally(w, decision)
  BY <1>5 DEF Ends, RulesFinally, Authority, Terminal
<1>6. CASE \E decision \in {"RELEASE", "CANCEL"} : RulesOpenly(w, decision)
  <2>1. /\ DRM!CurrentResolver(w)' = DRM!CurrentResolver(w)
        /\ disputeResolver'[w] = disputeResolver[w]
        /\ past[w] \subseteq past'[w]
        /\ escrowState[w] = "DISPUTED" /\ escrowState'[w] = "DISPUTED"
    BY <1>6, RulingRecord DEF RulesOpenly, DRM!CurrentResolver, DRM!Round
  <2>. QED  BY <1>1, <2>1 DEF Authority, Without
<1>7. CASE Appeals(w)
  <2>1. DRM!Round(w) + 1 \in 0 .. 2
    BY <1>2, <1>7 DEF Appeals, DRM!Appealable, DRM!MAX_ROUND
  <2>2. /\ disputeMetadata'[w].currentRound = DRM!Round(w) + 1
        /\ disputeMetadata'[w].resolverAtRound =
             [disputeMetadata[w].resolverAtRound EXCEPT ![DRM!Round(w) + 1] = disputeResolver'[w]]
    BY <1>2, <1>7, EscalatedFields DEF Appeals, DisputeRecord
  <2>. QED  BY <1>2, <1>7, <2>1, <2>2
            DEF Appeals, Authority, DRM!CurrentResolver, DRM!Round, DRM!DisputeMetadata, DRM!Rounds,
                DRM!MAX_ROUND
<1>8. CASE Moves(w)
  <2>1. escrowState[w] \notin {"NONE", "PENDING"}
    BY <1>1, <1>8, VaultFacts DEF Moves, Records, Blank, Phase, Terminal, DRM!Appealable,
       DRM!DecisionOpen, DRM!Round
  <2>. QED  BY <1>8, <2>1 DEF Moves, Authority, Without
<1>9. CASE Forces(w)
  BY <1>9 DEF Forces, Authority, Without
<1>. QED  BY <1>1, <1>3, <1>4, <1>5, <1>6, <1>7, <1>8, <1>9 DEF Affects

LEMMA InitAuthority == ResolutionInit => AuthorityInv
BY DEF ResolutionInit, Init, DRM!Init, AuthorityInv, Authority, DRM!IsInitialized, DRM!Rounds,
       DRM!MAX_ROUND

\* The resolver the vault obeys is the one the module has assigned to the current round,
\* unless the record moved without the vault or the two chose separately at the start.
THEOREM AuthorityAgreesAlways == ResolutionSpec => []AuthorityAgrees
<1>1. AuthorityInv => AuthorityAgrees
  BY DEF AuthorityInv, Authority, AuthorityAgrees
<1>2. ResolutionSpec => []AuthorityInv
  BY InitAuthority, AuthorityStep, Invariants, PTL DEF ResolutionSpec
<1>. QED  BY <1>1, <1>2, PTL

(***************************************************************************)
(* The court.  A dispute gets to it in the last round, where rulings are   *)
(* final at once and only the court may rule.                              *)
(***************************************************************************)
AtCourt(w) ==
  klerosDisputes[w].created =>
    /\ DRM!Round(w) = DRM!MAX_ROUND
    /\ ~pendingSettlements[w].exists
    /\ escrowState[w] \in {"DISPUTED"} \cup Terminal
    /\ escrowState[w] = "DISPUTED" =>
         terms[w].customResolver = NoAccount /\ disputeResolver[w] = ExternalResolver
    /\ escrowState[w] = "RELEASED" => klerosDisputes[w].ruling = "RELEASE"

AtCourtInv == \A w \in Workflows : AtCourt(w)

LEMMA CourtFrame ==
  ASSUME Inv, BesideOK, [ResolutionNext]_allVars, NEW w \in Workflows
  PROVE  /\ klerosDisputes'[w].created => klerosDisputes[w].created \/ Appeals(w)
         /\ klerosDisputes[w].ruling # "none" =>
              klerosDisputes'[w].ruling = klerosDisputes[w].ruling
<1>1. CASE UNCHANGED klerosDisputes
  BY <1>1
<1>2. ASSUME NEW v \in Workflows, NEW a \in Accounts, AppealWithModule(v, a)
      PROVE  /\ klerosDisputes'[w].created => klerosDisputes[w].created \/ Appeals(w)
             /\ klerosDisputes'[w].ruling = klerosDisputes[w].ruling
  <2>1. klerosDisputes' = KlerosDisputesAfterAppeal(v)
    BY <1>2 DEF AppealWithModule
  <2>2. klerosDisputes'[w].ruling = klerosDisputes[w].ruling
    BY <2>1, VaultFacts DEF KlerosDisputesAfterAppeal
  <2>3. w # v => klerosDisputes'[w] = klerosDisputes[w]
    BY <2>1, VaultFacts DEF KlerosDisputesAfterAppeal
  <2>4. Appeals(v)
    BY <1>2, AppealEffect
  <2>. QED  BY <2>2, <2>3, <2>4
<1>3. ASSUME NEW v \in Workflows, NEW ruling, NEW delivered, CourtRules(v, ruling, delivered)
      PROVE  /\ klerosDisputes'[w].created = klerosDisputes[w].created
             /\ klerosDisputes[w].ruling # "none" =>
                  klerosDisputes'[w].ruling = klerosDisputes[w].ruling
  BY <1>3, VaultFacts DEF CourtRules
<1>4. ASSUME NEW v \in Workflows, NEW a \in Accounts,
             \/ \E bound \in ConfigBindings : RaiseWithModule(v, a, bound)
             \/ \E decision \in {"RELEASE", "CANCEL"} : RuleWithModule(v, a, decision)
             \/ TimedActionsWithModule(v, a)
             \/ AcceptSplitWithModule(v, a)
      PROVE  UNCHANGED klerosDisputes
  BY <1>4 DEF RaiseWithModule, RuleWithModule, TimedActionsWithModule, CloseWithVault,
              AcceptSplitWithModule
<1>5. ASSUME NEW v \in Workflows,
             VaultOnly(v) \/ ExecuteEscalation(v) \/ GuardianForcesProgress(v) \/ PropagateRuling(v)
      PROVE  UNCHANGED klerosDisputes
  BY <1>5 DEF VaultOnly, ExecuteEscalation, GuardianForcesProgress, PropagateRuling
<1>6. CASE \/ (Tick \/ Governance \/ WithdrawFees) /\ UNCHANGED besideVars
           \/ \E req \in CreateRequests : CreateWithModule(req)
           \/ PauseAssignments
           \/ UNCHANGED allVars
  <2>1. UNCHANGED klerosDisputes
    BY <1>6 DEF CreateWithModule, PauseAssignments, allVars
  <2>. QED  BY <1>1, <2>1
<1>. QED  BY <1>1, <1>2, <1>3, <1>4, <1>5, <1>6 DEF ResolutionNext

LEMMA AtCourtStep ==
  ASSUME Inv, BesideOK, AtCourtInv, [ResolutionNext]_allVars
  PROVE  AtCourtInv'
<1>. SUFFICES ASSUME NEW w \in Workflows, klerosDisputes'[w].created PROVE AtCourt(w)'
  BY DEF AtCourtInv, AtCourt
<1>1. /\ AtCourt(w) /\ Affects(w)
      /\ disputeMetadata[w] \in DRM!DisputeMetadata
  BY Effects, RecordType DEF AffectsOnly, Affects, AtCourtInv, BesideOK
<1>2. CASE Appeals(w)
  <2>1. DRM!Round(w) < DRM!MAX_ROUND
    BY <1>2 DEF Appeals, DRM!Appealable
  <2>2. ~klerosDisputes[w].created /\ DRM!Round(w) + 1 = DRM!MAX_ROUND
    BY <1>1, <1>2, <2>1 DEF AtCourt, Appeals, DRM!MAX_ROUND
  <2>3. DRM!Round(w)' = DRM!MAX_ROUND
    BY <1>1, <1>2, <2>2, EscalatedFields DEF Appeals, DisputeRecord, DRM!Round
  <2>4. disputeResolver'[w] = ExternalResolver
    BY <1>2, <2>2 DEF Appeals, DRM!MAX_ROUND
  <2>. QED  BY <1>2, <2>3, <2>4 DEF Appeals, AtCourt, Terminal
<1>3. CASE ~Appeals(w)
  <2>1. /\ DRM!Round(w) = DRM!MAX_ROUND
        /\ ~pendingSettlements[w].exists
        /\ escrowState[w] \in {"DISPUTED"} \cup Terminal
        /\ escrowState[w] = "DISPUTED" =>
             terms[w].customResolver = NoAccount /\ disputeResolver[w] = ExternalResolver
        /\ escrowState[w] = "RELEASED" => klerosDisputes'[w].ruling = "RELEASE"
    BY <1>1, <1>3, CourtFrame DEF AtCourt
  <2>2. CASE Keeps(w)
    BY <2>1, <2>2 DEF Keeps, AtCourt, DRM!Round
  <2>3. CASE Creates(w) \/ Raises(w) \/ Moves(w)
    BY <2>1, <2>3 DEF Creates, Raises, Moves, Terminal, DRM!Appealable, DRM!MAX_ROUND
  <2>4. CASE Ends(w)
    <3>1. DRM!Round(w)' = DRM!Round(w)
      BY <1>1, <2>4, ClosedFields DEF Ends, DisputeRecord, DRM!Round
    <3>. QED  BY <2>1, <2>4, <3>1 DEF Ends, AtCourt, Active, Terminal
  <2>5. CASE Forces(w)
    <3>1. DRM!Round(w)' = DRM!Round(w)
      BY <1>1, <2>5, ClosedFields, ReplacedFields DEF Forces, DisputeRecord, DRM!Round
    <3>. QED  BY <2>1, <2>5, <3>1 DEF Forces, AtCourt
  <2>6. ASSUME NEW decision \in {"RELEASE", "CANCEL"}, RulesFinally(w, decision)
        PROVE  AtCourt(w)'
    <3>1. DRM!Round(w)' = DRM!Round(w)
      BY <2>6, ClosedFields, RulingRecord, AfterRulingType, BesideFacts
         DEF RulesFinally, DisputeRecord, DRM!Round, BesideOK
    <3>. QED  BY <2>1, <2>6, <3>1 DEF RulesFinally, RuledByCourt, AtCourt, Terminal
  <2>7. ASSUME NEW decision \in {"RELEASE", "CANCEL"}, RulesOpenly(w, decision)
        PROVE  FALSE
    BY <2>1, <2>7, RulingRecord DEF RulesOpenly, Outcome, DRM!IsFinalRound, Execute
  <2>. QED  BY <1>1, <1>3, <2>2, <2>3, <2>4, <2>5, <2>6, <2>7 DEF Affects
<1>. QED  BY <1>2, <1>3

LEMMA InitAtCourt == ResolutionInit => AtCourtInv
BY DEF ResolutionInit, AtCourtInv, AtCourt

\* The court has the last word: nobody rules beside it, no earlier ruling is left to be
\* paid out, and a ruling that arrived late or again changes nothing.
THEOREM CourtHasLastWordAlways == ResolutionSpec => []CourtHasLastWord
<1>1. AtCourtInv => CourtHasLastWord
  BY DEF AtCourtInv, AtCourt, CourtHasLastWord
<1>2. ResolutionSpec => []AtCourtInv
  BY InitAtCourt, AtCourtStep, Invariants, PTL DEF ResolutionSpec
<1>. QED  BY <1>1, <1>2, PTL

(***************************************************************************)
(* Appeal bonds.  Only the first appeal costs one; while it is posted the  *)
(* appealed round is undecided and no ruling waits, so that neither the    *)
(* payment of a ruling nor a step of the module can pass it by.            *)
(***************************************************************************)
Awaits(w) ==
  /\ Incentives
  /\ DRM!Round(w) = 1
  /\ disputeMetadata[w].status = "Decided"
  /\ disputeMetadata[w].decisionAtRound[0] # "NONE"
  /\ disputeMetadata[w].decisionAtRound[1] = "NONE"
  /\ ~pendingSettlements[w].exists
  /\ escrowState[w] \in {"DISPUTED", "REFUNDED"}

Bonds(w) ==
  /\ terms[w].incentiveModule => Incentives
  /\ appealBonds[w][1] = "posted" => Awaits(w)
  /\ appealBonds[w][2] # "posted"

BondInv == \A w \in Workflows : Bonds(w)

\* An escrow whose snapshot names an incentive module belongs to a module that has one.
LEMMA Incentivised ==
  ASSUME Inv, NEW req, NEW r, NEW supported, CreateEscrow(req, r, supported),
         NEW w \in Workflows, terms[w].incentiveModule => Incentives
  PROVE  terms'[w].incentiveModule => Incentives
<1>1. PICK x : terms' = [terms EXCEPT ![escrowCount] = SnapshotTerms(req, x)]
  BY Zenon DEF CreateEscrow
<1>2. CASE w # escrowCount
  BY <1>1, <1>2 DEF Inv, TypeOK
<1>3. CASE w = escrowCount
  <2>1. terms'[w].incentiveModule = (LiveResolutionModule \in Incentivized)
    BY <1>1, <1>3 DEF Inv, TypeOK, SnapshotTerms
  <2>. QED  BY <2>1, CompositionAssumption, AddressAssumption
<1>. QED  BY <1>2, <1>3

\* What becomes of bonds in the hands of each entry point.
LEMMA ForfeitedBonds ==
  ASSUME NEW bonds \in [1 .. 2 -> DRM!BondStates], NEW round \in Nat
  PROVE  \A r \in 1 .. 2 :
           /\ DRM!BondsForfeited(bonds, round)[r] = "posted" => bonds[r] = "posted"
           /\ r <= round => DRM!BondsForfeited(bonds, round)[r] # "posted"
BY DEF DRM!BondsForfeited, DRM!MAX_ROUND

LEMMA DecidedBonds ==
  ASSUME Inv, BesideOK, NEW w \in Workflows, Bonds(w), NEW decision
  PROVE  \A r \in 1 .. 2 : BondsAfter(w, decision)[r] # "posted"
<1>1. /\ appealBonds[w] \in [1 .. 2 -> DRM!BondStates]
      /\ DRM!Round(w) \in 0 .. 2
  BY RecordType DEF BesideOK
<1>2. CASE appealBonds[w][1] # "posted"
  BY <1>1, <1>2 DEF Bonds, BondsAfter, DRM!BondsAfterDecision
<1>3. CASE appealBonds[w][1] = "posted"
  <2>1. Incentives /\ DRM!Round(w) = 1 /\ disputeMetadata[w].decisionAtRound[0] # "NONE"
    BY <1>3 DEF Bonds, Awaits
  <2>2. DRM!SpendsBond(w) /\ ~DRM!RecordReverts(w)
    BY <1>3, <2>1 DEF DRM!SpendsBond, DRM!RecordReverts
  <2>3. BondsAfter(w, decision)[1] \in {"refunded", "paid"}
        /\ BondsAfter(w, decision)[2] = appealBonds[w][2]
    BY <1>1, <2>1, <2>2 DEF BondsAfter, DRM!BondsAfterDecision
  <2>. QED  BY <2>3 DEF Bonds
<1>. QED  BY <1>2, <1>3

\* How a bond can still be posted after a step: nothing happened to its dispute, its
\* dispute timed out, or it has just been posted.
Posts(w) ==
  /\ Appeals(w) /\ DRM!Round(w) = 0 /\ terms[w].incentiveModule

TimesOut(w) ==
  /\ appealBonds[w][1] = "posted"
  /\ disputeMetadata'[w] = disputeMetadata[w]
  /\ escrowState'[w] = "REFUNDED"
  /\ ~pendingSettlements'[w].exists

StillPosted(w) == appealBonds[w][1] = "posted" /\ Keeps(w)

BondEffect(w) ==
  /\ (terms[w].incentiveModule => Incentives) => (terms'[w].incentiveModule => Incentives)
  /\ appealBonds'[w][2] # "posted"
  /\ appealBonds'[w][1] = "posted" => Posts(w) \/ TimesOut(w) \/ StillPosted(w)

LEMMA BondOfOther ==
  ASSUME Inv, BesideOK, NEW w \in Workflows, Bonds(w), Keeps(w), appealBonds'[w] = appealBonds[w]
  PROVE  BondEffect(w)
BY DEF BondEffect, Bonds, Keeps, StillPosted

\* A posted bond bars every step of its dispute that needs a decision or a fresh record.
LEMMA BondBars ==
  ASSUME Inv, BesideOK, NEW w \in Workflows, Bonds(w), appealBonds[w][1] = "posted"
  PROVE  /\ ~DRM!Appealable(w)
         /\ disputeMetadata[w].status # "Open"
         /\ escrowState[w] # "PENDING"
         /\ ~DRM!CanFinalize(disputeMetadata[w])
BY DEF Bonds, Awaits, DRM!Appealable, DRM!DecisionOpen, DRM!CanFinalize, DRM!Round

LEMMA TimedBond ==
  ASSUME Inv, BesideOK, NEW w \in Workflows, Bonds(w), NEW a, TimedActionsWithModule(w, a)
  PROVE  BondEffect(w)
<1>1. UNCHANGED terms
  BY DEF TimedActionsWithModule, AutomateTimedActions, ResolveDisputeByTimeout,
         ExecutePendingSettlement
<1>2. appealBonds[w] \in [1 .. 2 -> DRM!BondStates] /\ disputeMetadata[w].currentRound \in Nat
  BY RecordType DEF BesideOK, DRM!Round
<1>3. \/ UNCHANGED appealBonds
      \/ appealBonds' = [appealBonds EXCEPT ![w] = appealBonds[w]]
      \/ appealBonds' = [appealBonds EXCEPT ![w] =
           DRM!BondsForfeited(appealBonds[w], disputeMetadata[w].currentRound)]
  BY DEF TimedActionsWithModule, CloseWithVault, FinalizeInModule
<1>4. \A r \in 1 .. 2 : appealBonds'[w][r] = "posted" => appealBonds[w][r] = "posted"
  BY <1>2, <1>3, ForfeitedBonds, BesideFacts
<1>5. ASSUME appealBonds[w][1] = "posted" PROVE TimesOut(w)
  <2>1. ~pendingSettlements[w].exists /\ ~PendingDue(w) /\ escrowState[w] # "PENDING"
    BY <1>5, BondBars DEF Bonds, Awaits, PendingDue
  <2>2. Settle(w, FALSE, InPlace(w))
    BY <2>1 DEF TimedActionsWithModule, AutomateTimedActions, ResolveDisputeByTimeout,
       ExecutePendingSettlement, AutoReleaseDue
  <2>3. escrowState'[w] = "REFUNDED" /\ pendingSettlements'[w] = NoPending
    BY <2>2, SettleEffect, VaultFacts
  <2>4. disputeMetadata'[w] = disputeMetadata[w]
    BY <1>5, BondBars, VaultFacts DEF TimedActionsWithModule, CloseWithVault, FinalizeInModule
  <2>. QED  BY <1>5, <2>3, <2>4 DEF TimesOut, NoPending
<1>. QED  BY <1>1, <1>4, <1>5 DEF BondEffect, Bonds

LEMMA SplitBond ==
  ASSUME Inv, BesideOK, NEW w \in Workflows, Bonds(w), NEW a, AcceptSplitWithModule(w, a)
  PROVE  BondEffect(w)
<1>1. UNCHANGED terms /\ escrowState[w] \in Active
  BY DEF AcceptSplitWithModule, AcceptSplit
<1>2. appealBonds[w] \in [1 .. 2 -> DRM!BondStates] /\ disputeMetadata[w].currentRound \in Nat
  BY RecordType DEF BesideOK, DRM!Round
<1>3. CASE appealBonds[w][1] = "posted"
  <2>1. /\ escrowState[w] = "DISPUTED" /\ disputeMetadata[w].status # "Final" /\ Incentives
        /\ disputeMetadata[w].currentRound = 1
    BY <1>1, <1>3 DEF Bonds, Awaits, Active, DRM!Round
  <2>2. appealBonds' = [appealBonds EXCEPT ![w] =
          DRM!BondsForfeited(appealBonds[w], disputeMetadata[w].currentRound)]
    BY <2>1 DEF AcceptSplitWithModule
  <2>3. \A r \in 1 .. 2 : appealBonds'[w][r] # "posted"
    BY <1>2, <2>1, <2>2, ForfeitedBonds, BesideFacts DEF Bonds
  <2>. QED  BY <1>1, <2>3 DEF BondEffect
<1>4. CASE appealBonds[w][1] # "posted"
  <2>1. \/ UNCHANGED appealBonds
        \/ appealBonds' = [appealBonds EXCEPT ![w] = appealBonds[w]]
        \/ appealBonds' = [appealBonds EXCEPT ![w] =
             DRM!BondsForfeited(appealBonds[w], disputeMetadata[w].currentRound)]
    BY DEF AcceptSplitWithModule
  <2>2. \A r \in 1 .. 2 : appealBonds'[w][r] = "posted" => appealBonds[w][r] = "posted"
    BY <1>2, <2>1, ForfeitedBonds, BesideFacts
  <2>. QED  BY <1>1, <1>4, <2>2 DEF BondEffect, Bonds
<1>. QED  BY <1>3, <1>4

LEMMA RuleBond ==
  ASSUME Inv, BesideOK, NEW w \in Workflows, Bonds(w), NEW a,
         NEW decision \in {"RELEASE", "CANCEL"}, Rule(w, a, decision)
  PROVE  BondEffect(w)
<1>. DEFINE dm == RecordAfter(w, decision)
            bonds == BondsAfter(w, decision)
<1>1. UNCHANGED terms
  BY DEF Rule, ExecuteResolution
<1>2. /\ bonds \in [1 .. 2 -> DRM!BondStates] /\ dm.currentRound \in Nat
      /\ \A r \in 1 .. 2 : bonds[r] # "posted"
  BY AfterRulingType, DecidedBonds, BesideFacts DEF BesideOK, DRM!DisputeMetadata, DRM!Rounds
<1>3. \/ appealBonds' = [appealBonds EXCEPT ![w] = bonds]
      \/ appealBonds' = [appealBonds EXCEPT ![w] = DRM!BondsForfeited(bonds, dm.currentRound)]
  BY DEF Rule, FinalizeInModule
<1>. HIDE DEF dm, bonds
<1>4. \A r \in 1 .. 2 : appealBonds'[w][r] # "posted"
  BY <1>2, <1>3, ForfeitedBonds, BesideFacts
<1>. QED  BY <1>1, <1>4 DEF BondEffect

LEMMA AppealBond ==
  ASSUME Inv, BesideOK, NEW w \in Workflows, Bonds(w), NEW a \in Accounts, AppealWithModule(w, a)
  PROVE  BondEffect(w)
<1>1. PICK successor \in DRM!Successors(w) :
        /\ AppealDispute(w, a, [successor |-> successor, decision |-> DRM!CurrentDecision(w),
                                bond |-> DRM!QuotedBond(w, baseBond), asset |-> "ETH"], 0)
        /\ appealBonds' = IF DRM!QuotedBond(w, baseBond) > 0
                          THEN [appealBonds EXCEPT ![w][DRM!Round(w) + 1] = "posted"]
                          ELSE appealBonds
  BY DEF AppealWithModule
<1>2. UNCHANGED terms /\ (DRM!QuotedBond(w, baseBond) > 0 => terms[w].incentiveModule)
  BY <1>1 DEF AppealDispute
<1>3. Appeals(w) /\ DRM!Appealable(w)
  BY AppealEffect DEF Appeals
<1>4. appealBonds[w][1] # "posted" /\ appealBonds[w][2] # "posted"
  BY <1>3, BondBars DEF Bonds
<1>5. CASE DRM!QuotedBond(w, baseBond) > 0
  <2>1. DRM!Round(w) = 0
    BY <1>5 DEF DRM!QuotedBond
  <2>2. appealBonds' = [appealBonds EXCEPT ![w][1] = "posted"]
    BY <1>1, <1>5, <2>1
  <2>3. appealBonds'[w][2] # "posted"
    BY <1>4, <2>2, BesideFacts
  <2>. QED  BY <1>2, <1>3, <1>5, <2>1, <2>3 DEF BondEffect, Posts
<1>6. CASE ~(DRM!QuotedBond(w, baseBond) > 0)
  BY <1>1, <1>2, <1>4, <1>6 DEF BondEffect
<1>. QED  BY <1>5, <1>6

LEMMA RaiseBond ==
  ASSUME Inv, BesideOK, NEW w \in Workflows, Bonds(w), NEW a \in Accounts,
         NEW bound \in ConfigBindings, RaiseWithModule(w, a, bound)
  PROVE  BondEffect(w)
<1>1. UNCHANGED <<appealBonds, terms>> /\ escrowState[w] = "PENDING"
  BY DEF RaiseWithModule, RaiseDispute
<1>. QED  BY <1>1, BondBars DEF BondEffect, Bonds

LEMMA CreateBond ==
  ASSUME Inv, BesideOK, NEW w \in Workflows, Bonds(w), NEW req, CreateWithModule(req)
  PROVE  BondEffect(w)
<1>1. UNCHANGED appealBonds /\ escrowCount \in Workflows
  BY DEF CreateWithModule
<1>2. (terms[w].incentiveModule => Incentives) => (terms'[w].incentiveModule => Incentives)
  BY Incentivised DEF CreateWithModule
<1>3. appealBonds[w][1] = "posted" => Keeps(w)
  <2>1. Affects(escrowCount) /\ \A v \in Workflows \ {escrowCount} : Keeps(v)
    BY CreateEffect DEF AffectsOnly
  <2>2. escrowState[escrowCount] = "NONE"
    BY <1>1, VaultFacts DEF Phase, Workflows, Inv, TypeOK
  <2>. QED  BY <2>1, <2>2 DEF Bonds, Awaits
<1>. QED  BY <1>1, <1>2, <1>3 DEF BondEffect, Bonds, StillPosted

LEMMA MovesBond ==
  ASSUME Inv, BesideOK, NEW w \in Workflows, Bonds(w),
         ExecuteEscalation(w) \/ GuardianForcesProgress(w)
  PROVE  BondEffect(w)
<1>1. UNCHANGED <<appealBonds, terms>>
  BY DEF ExecuteEscalation, GuardianForcesProgress, DRM!ForceProgress, vars
<1>2. DRM!Appealable(w) \/ disputeMetadata[w].status = "Open"
  BY DEF ExecuteEscalation, GuardianForcesProgress, DRM!ForceProgress
<1>. QED  BY <1>1, <1>2, BondBars DEF BondEffect, Bonds

LEMMA VaultOnlyBond ==
  ASSUME Inv, BesideOK, NEW w \in Workflows, Bonds(w), VaultOnly(w)
  PROVE  BondEffect(w)
<1>1. UNCHANGED <<disputeMetadata, past, terms, disputeResolver, appealBonds>>
  BY DEF VaultOnly, SenderCancel, RecipientCancel, Release, PartialRelease, ProposeSplit,
         AttemptOfAnotherCaller, creationVars, disputeVars, CancelSplit, WithdrawEscrow,
         CancelAndRefund, ReleaseEscrowTransfer
<1>2. UNCHANGED <<escrowState, pendingSettlements>> \/ escrowState[w] = "PENDING"
  BY DEF VaultOnly, SenderCancel, RecipientCancel, Release, PartialRelease, ProposeSplit,
         AttemptOfAnotherCaller, creationVars, disputeVars, CancelSplit, WithdrawEscrow
<1>. QED  BY <1>1, <1>2, BondBars DEF BondEffect, Bonds, StillPosted, Keeps

\* A step of one dispute leaves the bonds of the others alone.
LEMMA BondsApart ==
  ASSUME Inv, BesideOK, NEW w \in Workflows, Bonds(w), NEW v \in Workflows \ {w}, AffectsOnly(v),
         \/ UNCHANGED appealBonds
         \/ \E bonds : appealBonds' = [appealBonds EXCEPT ![v] = bonds]
  PROVE  BondEffect(w)
<1>1. appealBonds'[w] = appealBonds[w]
  BY BesideFacts
<1>2. Keeps(w)
  BY DEF AffectsOnly
<1>. QED  BY <1>1, <1>2, BondOfOther

LEMMA AnyRuleBond ==
  ASSUME Inv, BesideOK, NEW w \in Workflows, Bonds(w), NEW v \in Workflows, NEW a,
         NEW decision \in {"RELEASE", "CANCEL"},
         Rule(v, a, decision), a = ExternalResolver => klerosDisputes'[v].ruling = decision
  PROVE  BondEffect(w)
<1>1. \E bonds : appealBonds' = [appealBonds EXCEPT ![v] = bonds]
  BY DEF Rule, FinalizeInModule
<1>. QED  BY <1>1, RuleBond, BondsApart, RuleEffect

LEMMA CourtBond ==
  ASSUME Inv, BesideOK, NEW w \in Workflows, Bonds(w), NEW v \in Workflows, NEW ruling,
         Propagate(v, ruling), klerosDisputes'[v].ruling = ruling
  PROVE  BondEffect(w)
<1>1. CASE UNCHANGED <<vars, moduleVars, baseBond, past>>
  BY <1>1, BondOfOther DEF Keeps, vars
<1>. QED  BY <1>1, CourtStep, AnyRuleBond

LEMMA DisputeBond ==
  ASSUME Inv, BesideOK, NEW w \in Workflows, Bonds(w), NEW v \in Workflows, NEW a \in Accounts,
         \/ \E bound \in ConfigBindings : RaiseWithModule(v, a, bound)
         \/ \E decision \in {"RELEASE", "CANCEL"} : RuleWithModule(v, a, decision)
         \/ AppealWithModule(v, a)
         \/ TimedActionsWithModule(v, a)
         \/ AcceptSplitWithModule(v, a)
  PROVE  BondEffect(w)
<1>1. CASE \E bound \in ConfigBindings : RaiseWithModule(v, a, bound)
  <2>1. UNCHANGED appealBonds
    BY <1>1 DEF RaiseWithModule
  <2>. QED  BY <1>1, <2>1, RaiseBond, RaiseEffect, BondsApart
<1>2. CASE \E decision \in {"RELEASE", "CANCEL"} : RuleWithModule(v, a, decision)
  BY <1>2, AnyRuleBond DEF RuleWithModule
<1>3. CASE AppealWithModule(v, a)
  <2>1. UNCHANGED appealBonds \/ \E bonds : appealBonds' = [appealBonds EXCEPT ![v] = bonds]
    BY <1>3, Zenon DEF AppealWithModule
  <2>. QED  BY <1>3, <2>1, AppealBond, AppealEffect, BondsApart
<1>4. CASE TimedActionsWithModule(v, a)
  <2>1. UNCHANGED appealBonds \/ \E bonds : appealBonds' = [appealBonds EXCEPT ![v] = bonds]
    BY <1>4 DEF TimedActionsWithModule, CloseWithVault, FinalizeInModule
  <2>. QED  BY <1>4, <2>1, TimedBond, TimedEffect, BondsApart
<1>5. CASE AcceptSplitWithModule(v, a)
  <2>1. UNCHANGED appealBonds \/ \E bonds : appealBonds' = [appealBonds EXCEPT ![v] = bonds]
    BY <1>5 DEF AcceptSplitWithModule
  <2>. QED  BY <1>5, <2>1, SplitBond, AcceptSplitEffect, BondsApart
<1>. QED  BY <1>1, <1>2, <1>3, <1>4, <1>5

LEMMA BondStep ==
  ASSUME Inv, BesideOK, [ResolutionNext]_allVars, NEW w \in Workflows, Bonds(w)
  PROVE  BondEffect(w)
<1>1. CASE UNCHANGED allVars
  BY <1>1, BondOfOther DEF allVars, vars, Keeps
<1>2. CASE (Tick \/ Governance \/ WithdrawFees) /\ UNCHANGED besideVars
  <2>1. UNCHANGED <<escrowState, pendingSettlements, terms, disputeResolver>>
    BY <1>2 DEF Tick, WithdrawFees, Governance, SetFeeRecipient, SetEscrowFeeBps,
       SetYieldProtocolFeeBps, SetAppealBondProtocolFeeBps, SetResolutionModule, SetTimeoutConfig,
       SetMinDisputeEscrowValue, SetMaxDisputesPerSenderPerDay, SetResolverPolicy,
       ActivateResolutionModule, ActivateReleaseStrategy, ActivateCancellationStrategy,
       ActivateYieldModule, SetBondCollector, PauseYieldDeposits, ResumeYieldDeposits, SetConfig
  <2>. QED  BY <1>2, <2>1, BondOfOther DEF Keeps
<1>3. CASE PauseAssignments
  BY <1>3, BondOfOther DEF PauseAssignments, DRM!PauseNewAssignments, vars, Keeps
<1>4. ASSUME NEW v \in Workflows, VaultOnly(v) PROVE BondEffect(w)
  BY <1>4, VaultOnlyBond, VaultOnlyEffect, BondsApart DEF VaultOnly
<1>5. ASSUME NEW v \in Workflows, ExecuteEscalation(v) \/ GuardianForcesProgress(v)
      PROVE  BondEffect(w)
  BY <1>5, MovesBond, MovesEffect, BondsApart DEF ExecuteEscalation, GuardianForcesProgress,
     DRM!ForceProgress
<1>6. ASSUME NEW v \in Workflows, NEW ruling, NEW delivered \in BOOLEAN,
             CourtRules(v, ruling, delivered)
      PROVE  BondEffect(w)
  <2>1. CASE delivered
    BY <1>6, <2>1, CourtBond, VaultFacts DEF CourtRules
  <2>2. CASE ~delivered
    BY <1>6, <2>2, BondOfOther DEF CourtRules, Keeps, vars
  <2>. QED  BY <2>1, <2>2
<1>7. ASSUME NEW v \in Workflows, PropagateRuling(v) PROVE BondEffect(w)
  BY <1>7, CourtBond DEF PropagateRuling
<1>. QED  BY <1>1, <1>2, <1>3, <1>4, <1>5, <1>6, <1>7, CreateBond, DisputeBond DEF ResolutionNext

LEMMA BondInvStep ==
  ASSUME Inv, BesideOK, RecordsInv, BondInv, [ResolutionNext]_allVars
  PROVE  BondInv'
<1>. SUFFICES ASSUME NEW w \in Workflows PROVE Bonds(w)'
  BY DEF BondInv
<1>1. Bonds(w) /\ Records(w) /\ BondEffect(w)
  BY BondStep DEF BondInv, RecordsInv
<1>. SUFFICES ASSUME appealBonds'[w][1] = "posted" PROVE Awaits(w)'
  BY <1>1 DEF BondEffect, Bonds
<1>2. CASE Posts(w)
  <2>1. disputeMetadata[w] \in DRM!DisputeMetadata /\ DRM!Appealable(w) /\ DRM!Round(w) = 0
    BY <1>2, RecordType DEF Posts, Appeals, BesideOK
  <2>2. /\ disputeMetadata[w].status = "Decided"
        /\ disputeMetadata[w].decisionAtRound[0] # "NONE"
        /\ disputeMetadata[w].decisionAtRound[1] = "NONE"
    BY <1>1, <2>1 DEF DRM!Appealable, DRM!DecisionOpen, DRM!Round, Records, Blank, DRM!Rounds,
       DRM!MAX_ROUND
  <2>3. /\ disputeMetadata'[w].currentRound = 1
        /\ disputeMetadata'[w].status = disputeMetadata[w].status
        /\ disputeMetadata'[w].decisionAtRound = disputeMetadata[w].decisionAtRound
    BY <1>2, <2>1, EscalatedFields DEF Posts, Appeals, DisputeRecord
  <2>. QED  BY <1>1, <1>2, <2>2, <2>3 DEF Bonds, Posts, Appeals, Awaits, DRM!Round
<1>3. CASE TimesOut(w)
  BY <1>1, <1>3 DEF TimesOut, Bonds, Awaits, DRM!Round
<1>4. CASE StillPosted(w)
  BY <1>1, <1>4 DEF StillPosted, Keeps, Bonds, Awaits, DRM!Round
<1>. QED  BY <1>1, <1>2, <1>3, <1>4 DEF BondEffect

LEMMA InitBonds == ResolutionInit => BondInv
BY DEF ResolutionInit, Init, NoTerms, DRM!Init, BondInv, Bonds, DRM!MAX_ROUND

\* When an escrow has ended its appeal bond has gone to somebody, unless it was refunded by
\* timeout with the appealed round undecided: no ruling is paid past a posted bond.
THEOREM BondSettledAlways == ResolutionSpec => []BondSettled
<1>1. BondInv => BondSettled
  <2>. SUFFICES ASSUME BondInv, NEW w \in Workflows, escrowState[w] \in Terminal,
                       NEW r \in 1 .. DRM!MAX_ROUND, appealBonds[w][r] = "posted"
                PROVE  /\ escrowState[w] = "REFUNDED"
                       /\ DRM!CurrentDecision(w) = "NONE"
                       /\ disputeMetadata[w].status # "Final"
    BY DEF BondSettled
  <2>1. Bonds(w) /\ r \in {1, 2}
    BY DEF BondInv, DRM!MAX_ROUND
  <2>2. Awaits(w)
    BY <2>1 DEF Bonds
  <2>. QED  BY <2>2 DEF Awaits, DRM!CurrentDecision, Terminal
<1>2. ResolutionSpec => []BondInv
  BY InitBonds, BondInvStep, Invariants, PTL DEF ResolutionSpec
<1>. QED  BY <1>1, <1>2, PTL

(***************************************************************************)
(* Load.  Of a dispute whose resolver vault and module chose together the  *)
(* first resolver is a junior, counted when the dispute was raised.  The   *)
(* vault relieves him at the end unless the dispute was appealed; then it  *)
(* relieves a successor, who has no count to lower.                        *)
(***************************************************************************)
Apart == {"unassigned", "mismatched", "forced"}
Shared(w) == Without(w, Apart)
First(w) == disputeMetadata[w].resolverAtRound[0]
Counted(w, r) == First(w) = r /\ (escrowState[w] = "DISPUTED" \/ "appealed" \in past[w])
LoadOf(r) == {w \in Workflows : Counted(w, r)}

Carried(w) ==
  Shared(w) =>
    /\ First(w) \in Juniors \cup {NoAccount}
    /\ escrowState[w] \in {"NONE", "PENDING"} => "appealed" \notin past[w]
    /\ escrowState[w] = "DISPUTED" =>
         IF "appealed" \in past[w] THEN disputeResolver[w] \in Seniors \cup {ExternalResolver}
         ELSE disputeResolver[w] = First(w)

CarriedInv == \A w \in Workflows : Carried(w)

(***************************************************************************)
(* What a step of dispute v does to counts.                                *)
(***************************************************************************)
\* Counted before and after alike.
SamePast(v) == "appealed" \in past'[v] <=> "appealed" \in past[v]
Kept(v) == escrowState'[v] = escrowState[v] /\ disputeResolver'[v] = disputeResolver[v]
Undisputed(v) ==
  escrowState[v] \in {"NONE", "PENDING"} /\ escrowState'[v] \in {"PENDING"} \cup Terminal
Steady(v) ==
  /\ UNCHANGED resolverActiveDisputes
  /\ First(v)' = First(v) /\ SamePast(v) /\ (Kept(v) \/ Undisputed(v))

Takes(v) ==
  /\ escrowState[v] = "PENDING" /\ escrowState'[v] = "DISPUTED"
  /\ First(v) = NoAccount /\ First(v)' \in Juniors /\ First(v)' = disputeResolver'[v]
  /\ SamePast(v)
  /\ resolverActiveDisputes' = DRM!Assigned(First(v)')

Passes(v) ==
  /\ escrowState[v] = "DISPUTED" /\ escrowState'[v] = "DISPUTED"
  /\ First(v)' = First(v) /\ "appealed" \in past'[v]
  /\ disputeResolver'[v] \in Seniors \cup {ExternalResolver}
  /\ UNCHANGED resolverActiveDisputes

Relieves(v) ==
  /\ escrowState[v] = "DISPUTED" /\ escrowState'[v] \in Terminal
  /\ First(v)' = First(v) /\ SamePast(v)
  /\ resolverActiveDisputes' = DRM!Freed(disputeResolver[v])

LoadEffect(v) ==
  /\ past[v] \subseteq past'[v]
  /\ ~Shared(v)' \/ Steady(v) \/ Takes(v) \/ Passes(v) \/ Relieves(v)
  /\ \A w \in Workflows \ {v} : Keeps(w)

\* Nothing is counted, first or last.
Idle == UNCHANGED resolverActiveDisputes /\ \A w \in Workflows : Keeps(w)

LEMMA RaiseLoad ==
  ASSUME Inv, BesideOK, RecordsInv, AuthorityInv, NEW v \in Workflows, NEW a \in Accounts,
         NEW bound \in ConfigBindings, RaiseWithModule(v, a, bound)
  PROVE  LoadEffect(v)
<1>1. /\ AffectsOnly(v) /\ escrowState[v] = "PENDING" /\ escrowState'[v] = "DISPUTED"
      /\ disputeMetadata[v] \in DRM!DisputeMetadata
  <2>1. PICK answer : RaiseDispute(v, a, answer)
    BY DEF RaiseWithModule
  <2>2. escrowState[v] = "PENDING" /\ escrowState' = [escrowState EXCEPT ![v] = "DISPUTED"]
    BY <2>1 DEF RaiseDispute
  <2>3. escrowState'[v] = "DISPUTED" /\ disputeMetadata[v] \in DRM!DisputeMetadata
    BY <2>2, VaultFacts
  <2>. QED  BY <2>2, <2>3, RaiseEffect
<1>2. PICK answer \in DRM!DisputeResolvers(v) :
        \E r \in IF bound THEN DRM!Selection(Juniors) ELSE {answer} :
          IF DRM!IsInitialized(v)
          THEN UNCHANGED <<disputeMetadata, resolverActiveDisputes, past>>
          ELSE /\ DRM!Initialize(v, r)
               /\ Happens(v, IF r = NoAccount THEN {"unassigned"}
                             ELSE IF r # disputeResolver'[v] THEN {"mismatched"} ELSE {})
  BY DEF RaiseWithModule
<1>3. CASE DRM!IsInitialized(v)
  <2>1. UNCHANGED past
    BY <1>2, <1>3
  <2>2. ~Shared(v)
    BY <1>1, <1>3 DEF AuthorityInv, Authority, Shared, Without, Apart
  <2>3. past[v] \subseteq past'[v] /\ ~Shared(v)'
    BY <2>1, <2>2 DEF Shared, Without
  <2>. QED  BY <1>1, <2>3 DEF LoadEffect, AffectsOnly
<1>4. CASE ~DRM!IsInitialized(v)
  <2>1. PICK r :
          /\ r \in IF bound THEN DRM!Selection(Juniors) ELSE {answer}
          /\ DRM!Initialize(v, r)
          /\ past' = [past EXCEPT ![v] = @ \cup
               IF r = NoAccount THEN {"unassigned"}
               ELSE IF r # disputeResolver'[v] THEN {"mismatched"} ELSE {}]
    BY <1>2, <1>4 DEF Happens
  <2>2. past'[v] = past[v] \cup (IF r = NoAccount THEN {"unassigned"}
                                 ELSE IF r # disputeResolver'[v] THEN {"mismatched"} ELSE {})
    BY <2>1, VaultFacts
  <2>3. CASE r = NoAccount \/ r # disputeResolver'[v]
    BY <1>1, <2>2, <2>3 DEF LoadEffect, AffectsOnly, Shared, Without, Apart
  <2>4. CASE r # NoAccount /\ r = disputeResolver'[v]
    <3>1. DRM!CurrentResolver(v) = NoAccount
      BY <1>1, <1>4 DEF DRM!CurrentResolver, DRM!IsInitialized, RecordsInv, Records
    <3>2. r \in Juniors /\ r \in Accounts
      BY <2>1, <2>4, <3>1, ResolutionAssumption DEF DRM!DisputeResolvers, DRM!Selection
    <3>3. /\ disputeMetadata' = [disputeMetadata EXCEPT ![v] = DRM!Opened(v, r)]
          /\ resolverActiveDisputes' = DRM!Assigned(r)
      BY <2>1, <2>4 DEF DRM!Initialize
    <3>4. First(v) = NoAccount /\ First(v)' = r
      BY <1>1, <1>4, <3>3, OpenedFields, VaultFacts
         DEF First, DRM!IsInitialized, DisputeRecord, DRM!DisputeMetadata, DRM!Rounds, DRM!MAX_ROUND
    <3>5. past'[v] = past[v]
      BY <2>2, <2>4
    <3>6. Takes(v)
      BY <1>1, <2>4, <3>2, <3>3, <3>4, <3>5 DEF Takes, SamePast
    <3>. QED  BY <1>1, <3>5, <3>6 DEF LoadEffect, AffectsOnly
  <2>. QED  BY <2>3, <2>4
<1>. QED  BY <1>3, <1>4

LEMMA CreateLoad ==
  ASSUME Inv, BesideOK, NEW req, CreateWithModule(req)
  PROVE  \E v \in Workflows : LoadEffect(v)
<1>1. PICK v \in Workflows : v = escrowCount
  BY DEF CreateWithModule
<1>2. /\ AffectsOnly(v)
      /\ UNCHANGED <<disputeMetadata, past, resolverActiveDisputes>>
      /\ escrowState' = [escrowState EXCEPT ![v] = "PENDING"]
  BY <1>1, CreateEffect, Zenon DEF CreateWithModule, CreateEscrow
<1>3. escrowState[v] = "NONE" /\ escrowState'[v] = "PENDING"
  BY <1>1, <1>2, VaultFacts DEF Phase, Workflows, Inv, TypeOK
<1>4. Steady(v)
  BY <1>2, <1>3 DEF Steady, First, SamePast, Undisputed
<1>. QED  BY <1>2, <1>4 DEF LoadEffect, AffectsOnly

LEMMA TimedLoad ==
  ASSUME Inv, BesideOK, NEW v \in Workflows, NEW a, TimedActionsWithModule(v, a)
  PROVE  LoadEffect(v)
<1>1. /\ AffectsOnly(v) /\ UNCHANGED past
      /\ disputeMetadata[v] \in DRM!DisputeMetadata
      /\ escrowState[v] \in Active
      /\ \E isRelease : Settle(v, isRelease, InPlace(v))
  BY TimedEffect, RecordType, VaultFacts
     DEF TimedActionsWithModule, CloseWithVault, BesideOK, AutomateTimedActions,
         ResolveDisputeByTimeout, ExecutePendingSettlement, DisputeAutoCancelDue, DisputeTimedOut,
         AutoReleaseDue, AutoCancelDue, PendingDue, Active
<1>2. escrowState'[v] \in Terminal
  BY <1>1, SettleEffect, VaultFacts DEF Terminal
<1>3. First(v)' = First(v)
  <2>1. disputeMetadata'[v] \in {disputeMetadata[v], DRM!Closed(disputeMetadata[v])}
    BY VaultFacts DEF TimedActionsWithModule, CloseWithVault, FinalizeInModule
  <2>. QED  BY <1>1, <2>1, ClosedFields DEF First, DisputeRecord
<1>4. CASE escrowState[v] = "DISPUTED"
  <2>1. Relieves(v)
    BY <1>1, <1>2, <1>3, <1>4
       DEF Relieves, SamePast, TimedActionsWithModule, CloseWithVault, FinalizeInModule
  <2>. QED  BY <1>1, <2>1 DEF LoadEffect, AffectsOnly
<1>5. CASE escrowState[v] = "PENDING"
  <2>1. Steady(v)
    BY <1>1, <1>2, <1>3, <1>5
       DEF Steady, SamePast, Undisputed, TimedActionsWithModule, CloseWithVault
  <2>. QED  BY <1>1, <2>1 DEF LoadEffect, AffectsOnly
<1>. QED  BY <1>1, <1>4, <1>5 DEF Active

LEMMA SplitLoad ==
  ASSUME Inv, BesideOK, NEW v \in Workflows, NEW a, AcceptSplitWithModule(v, a)
  PROVE  LoadEffect(v)
<1>1. /\ AffectsOnly(v) /\ UNCHANGED past
      /\ disputeMetadata[v] \in DRM!DisputeMetadata
      /\ escrowState[v] \in Active
      /\ escrowState' = [escrowState EXCEPT ![v] = "RESOLVED"]
  BY AcceptSplitEffect, RecordType DEF AcceptSplitWithModule, AcceptSplit, BesideOK
<1>2. escrowState'[v] \in Terminal
  BY <1>1, VaultFacts DEF Terminal
<1>3. First(v)' = First(v)
  <2>1. disputeMetadata'[v] \in {disputeMetadata[v], DRM!Closed(disputeMetadata[v])}
    BY VaultFacts DEF AcceptSplitWithModule
  <2>. QED  BY <1>1, <2>1, ClosedFields DEF First, DisputeRecord
<1>4. CASE escrowState[v] = "DISPUTED"
  <2>1. Relieves(v)
    BY <1>1, <1>2, <1>3, <1>4 DEF Relieves, SamePast, AcceptSplitWithModule
  <2>. QED  BY <1>1, <2>1 DEF LoadEffect, AffectsOnly
<1>5. CASE escrowState[v] = "PENDING"
  <2>1. Steady(v)
    BY <1>1, <1>2, <1>3, <1>5 DEF Steady, SamePast, Undisputed, AcceptSplitWithModule
  <2>. QED  BY <1>1, <2>1 DEF LoadEffect, AffectsOnly
<1>. QED  BY <1>1, <1>4, <1>5 DEF Active

LEMMA RuleLoad ==
  ASSUME Inv, BesideOK, NEW v \in Workflows, NEW a, NEW decision \in {"RELEASE", "CANCEL"},
         Rule(v, a, decision), a = ExternalResolver => klerosDisputes'[v].ruling = decision
  PROVE  LoadEffect(v)
<1>. DEFINE dm == RecordAfter(v, decision)
<1>1. /\ AffectsOnly(v)
      /\ dm \in DRM!DisputeMetadata /\ dm.resolverAtRound = disputeMetadata[v].resolverAtRound
      /\ escrowState[v] = "DISPUTED"
  BY RuleEffect, RulingRecord, AfterRulingType, BesideFacts DEF Rule, ExecuteResolution, BesideOK
<1>2. SamePast(v) /\ past[v] \subseteq past'[v]
  BY VaultFacts DEF Rule, Happens, SamePast
<1>3. First(v)' = First(v)
  <2>1. disputeMetadata'[v] \in {dm, DRM!Closed(dm)}
    BY VaultFacts DEF Rule, FinalizeInModule
  <2>. HIDE DEF dm
  <2>. QED  BY <1>1, <2>1, ClosedFields DEF First, DisputeRecord
<1>4. CASE Outcome(v, dm).immediate
  <2>1. escrowState'[v] \in Terminal
    BY <1>4, SettleEffect, VaultFacts DEF Rule, ExecuteResolution, Terminal
  <2>2. resolverActiveDisputes' = DRM!Freed(disputeResolver[v])
    BY <1>4 DEF Rule, FinalizeInModule
  <2>3. Relieves(v)
    BY <1>1, <1>2, <1>3, <2>1, <2>2 DEF Relieves
  <2>. QED  BY <1>1, <1>2, <2>3 DEF LoadEffect, AffectsOnly
<1>5. CASE ~Outcome(v, dm).immediate
  <2>1. UNCHANGED <<escrowState, disputeResolver, resolverActiveDisputes>>
    BY <1>5 DEF Rule, ExecuteResolution
  <2>2. Steady(v)
    BY <1>2, <1>3, <2>1 DEF Steady, Kept
  <2>. QED  BY <1>1, <1>2, <2>2 DEF LoadEffect, AffectsOnly
<1>. QED  BY <1>4, <1>5

LEMMA AppealLoad ==
  ASSUME Inv, BesideOK, NEW v \in Workflows, NEW a \in Accounts, AppealWithModule(v, a)
  PROVE  LoadEffect(v)
<1>1. /\ AffectsOnly(v) /\ Appeals(v)
      /\ past' = [past EXCEPT ![v] = @ \cup {"appealed"}]
      /\ UNCHANGED resolverActiveDisputes
      /\ disputeMetadata[v] \in DRM!DisputeMetadata /\ DRM!Round(v) \in 0 .. 2
  BY AppealEffect, RecordType DEF AppealWithModule, Happens, BesideOK
<1>2. disputeResolver'[v] \in Seniors \cup {ExternalResolver}
  <2>1. PICK successor \in DRM!Successors(v) :
          disputeResolver' = [disputeResolver EXCEPT ![v] = successor]
    BY DEF AppealWithModule, AppealDispute
  <2>. QED  BY <2>1, VaultFacts DEF DRM!Successors, DRM!Selection
<1>3. First(v)' = First(v)
  BY <1>1, EscalatedFields
     DEF Appeals, First, DisputeRecord, DRM!DisputeMetadata, DRM!Rounds, DRM!MAX_ROUND
<1>4. Passes(v)
  BY <1>1, <1>2, <1>3, VaultFacts DEF Passes, Appeals
<1>. QED  BY <1>1, <1>4, VaultFacts DEF LoadEffect, AffectsOnly

LEMMA MovesLoad ==
  ASSUME Inv, BesideOK, NEW v \in Workflows, ExecuteEscalation(v) \/ GuardianForcesProgress(v)
  PROVE  LoadEffect(v)
<1>1. AffectsOnly(v)
  BY MovesEffect
<1>2. CASE ExecuteEscalation(v)
  <2>1. PICK a : disputeMetadata' = [disputeMetadata EXCEPT ![v] = DRM!Escalated(v, a)]
    BY <1>2 DEF ExecuteEscalation
  <2>2. /\ past' = [past EXCEPT ![v] = @ \cup {"moved"}]
        /\ UNCHANGED <<resolverActiveDisputes, escrowState, disputeResolver>>
        /\ disputeMetadata[v] \in DRM!DisputeMetadata /\ DRM!Round(v) \in 0 .. 2
    BY <1>2, RecordType DEF ExecuteEscalation, Happens, vars, BesideOK
  <2>3. First(v)' = First(v)
    BY <2>1, <2>2, EscalatedFields, VaultFacts
       DEF First, DisputeRecord, DRM!DisputeMetadata, DRM!Rounds, DRM!MAX_ROUND
  <2>4. Steady(v) /\ past[v] \subseteq past'[v]
    BY <2>2, <2>3, VaultFacts DEF Steady, SamePast, Kept
  <2>. QED  BY <1>1, <2>4 DEF LoadEffect, AffectsOnly
<1>3. CASE GuardianForcesProgress(v)
  <2>1. past'[v] = past[v] \cup {"forced"}
    BY <1>3, VaultFacts DEF GuardianForcesProgress, Happens
  <2>. QED  BY <1>1, <2>1 DEF LoadEffect, AffectsOnly, Shared, Without, Apart
<1>. QED  BY <1>2, <1>3

LEMMA VaultOnlyLoad ==
  ASSUME Inv, BesideOK, NEW v \in Workflows, VaultOnly(v)
  PROVE  LoadEffect(v)
<1>1. UNCHANGED <<disputeMetadata, past, disputeResolver, resolverActiveDisputes>>
  BY DEF VaultOnly, SenderCancel, RecipientCancel, Release, PartialRelease, ProposeSplit,
         AttemptOfAnotherCaller, creationVars, disputeVars, CancelSplit, WithdrawEscrow,
         CancelAndRefund, ReleaseEscrowTransfer
<1>2. \/ UNCHANGED escrowState
      \/ /\ escrowState[v] = "PENDING"
         /\ \E s \in Terminal : escrowState' = [escrowState EXCEPT ![v] = s]
  BY DEF VaultOnly, SenderCancel, RecipientCancel, Release, PartialRelease, ProposeSplit,
         AttemptOfAnotherCaller, creationVars, disputeVars, CancelSplit, WithdrawEscrow,
         CancelAndRefund, ReleaseEscrowTransfer, Terminal
<1>3. Kept(v) \/ Undisputed(v)
  BY <1>1, <1>2, VaultFacts DEF Kept, Undisputed
<1>. QED  BY <1>1, <1>3, VaultOnlyEffect DEF LoadEffect, AffectsOnly, Steady, First, SamePast

LEMMA AnyRuleLoad ==
  ASSUME Inv, BesideOK, NEW v \in Workflows, NEW ruling, Propagate(v, ruling),
         klerosDisputes'[v].ruling = ruling
  PROVE  Idle \/ LoadEffect(v)
<1>1. CASE UNCHANGED <<vars, moduleVars, baseBond, past>>
  BY <1>1 DEF Idle, Keeps, vars
<1>. QED  BY <1>1, CourtStep, RuleLoad

LEMMA LoadEffects ==
  ASSUME Inv, BesideOK, RecordsInv, AuthorityInv, [ResolutionNext]_allVars
  PROVE  Idle \/ \E v \in Workflows : LoadEffect(v)
<1>1. CASE UNCHANGED allVars
  BY <1>1 DEF allVars, vars, Keeps, Idle
<1>2. CASE (Tick \/ Governance \/ WithdrawFees) /\ UNCHANGED besideVars
  <2>1. UNCHANGED <<escrowState, pendingSettlements, terms, disputeResolver>>
    BY <1>2 DEF Tick, WithdrawFees, Governance, SetFeeRecipient, SetEscrowFeeBps,
       SetYieldProtocolFeeBps, SetAppealBondProtocolFeeBps, SetResolutionModule, SetTimeoutConfig,
       SetMinDisputeEscrowValue, SetMaxDisputesPerSenderPerDay, SetResolverPolicy,
       ActivateResolutionModule, ActivateReleaseStrategy, ActivateCancellationStrategy,
       ActivateYieldModule, SetBondCollector, PauseYieldDeposits, ResumeYieldDeposits, SetConfig
  <2>. QED  BY <1>2, <2>1 DEF Keeps, Idle
<1>3. CASE PauseAssignments
  BY <1>3 DEF PauseAssignments, DRM!PauseNewAssignments, vars, Keeps, Idle
<1>4. ASSUME NEW v \in Workflows, NEW ruling, NEW delivered \in BOOLEAN,
             CourtRules(v, ruling, delivered)
      PROVE  Idle \/ LoadEffect(v)
  <2>1. CASE delivered
    BY <1>4, <2>1, AnyRuleLoad, VaultFacts DEF CourtRules
  <2>2. CASE ~delivered
    BY <1>4, <2>2 DEF CourtRules, Keeps, vars, Idle
  <2>. QED  BY <2>1, <2>2
<1>5. ASSUME NEW v \in Workflows, PropagateRuling(v) PROVE Idle \/ LoadEffect(v)
  BY <1>5, AnyRuleLoad DEF PropagateRuling
<1>6. ASSUME NEW v \in Workflows, NEW a \in Accounts,
             \/ \E bound \in ConfigBindings : RaiseWithModule(v, a, bound)
             \/ \E decision \in {"RELEASE", "CANCEL"} : RuleWithModule(v, a, decision)
             \/ AppealWithModule(v, a)
             \/ TimedActionsWithModule(v, a)
             \/ AcceptSplitWithModule(v, a)
      PROVE  LoadEffect(v)
  BY <1>6, RaiseLoad, RuleLoad, AppealLoad, TimedLoad, SplitLoad DEF RuleWithModule
<1>. QED  BY <1>1, <1>2, <1>3, <1>4, <1>5, <1>6, CreateLoad, MovesLoad, VaultOnlyLoad
          DEF ResolutionNext

(***************************************************************************)
(* The counts.                                                             *)
(***************************************************************************)
LEMMA LoadCounts ==
  ASSUME NEW S \in SUBSET Workflows, NEW v
  PROVE  /\ Cardinality(S) \in Nat
         /\ v \notin S => Cardinality(S \cup {v}) = Cardinality(S) + 1
         /\ v \in S => Cardinality(S) > 0 /\ Cardinality(S \ {v}) = Cardinality(S) - 1
<1>1. IsFiniteSet(Workflows)
  BY FS_Interval, BoundAssumption DEF Workflows
<1>2. IsFiniteSet(S) /\ IsFiniteSet(S \ {v})
  BY <1>1, FS_Subset
<1>3. Cardinality(S) \in Nat /\ Cardinality(S \ {v}) \in Nat
  BY <1>2, FS_CardinalityType
<1>4. Cardinality(S \cup {v}) = IF v \in S THEN Cardinality(S) ELSE Cardinality(S) + 1
  BY <1>2, FS_AddElement
<1>5. Cardinality(S \ {v}) = IF v \in S THEN Cardinality(S) - 1 ELSE Cardinality(S)
  BY <1>2, FS_RemoveElement
<1>. QED  BY <1>3, <1>4, <1>5

LEMMA KeepsLoad ==
  ASSUME NEW w \in Workflows, Keeps(w)
  PROVE  /\ \A r : Counted(w, r)' <=> Counted(w, r)
         /\ Carried(w) => Carried(w)'
         /\ Shared(w)' <=> Shared(w)
BY DEF Keeps, Counted, First, Carried, Shared, Without

LEMMA CarriedStep ==
  ASSUME NEW v \in Workflows, Carried(v), LoadEffect(v)
  PROVE  Carried(v)' /\ (Shared(v)' => Shared(v))
<1>1. Shared(v)' => Shared(v)
  BY DEF LoadEffect, Shared, Without
<1>2. CASE ~Shared(v)'
  BY <1>1, <1>2 DEF Carried
<1>3. CASE Steady(v)
  BY <1>1, <1>3 DEF Steady, Carried, SamePast, Kept, Undisputed, Terminal
<1>4. CASE Takes(v)
  BY <1>1, <1>4 DEF Takes, Carried, SamePast
<1>5. CASE Passes(v)
  BY <1>1, <1>5 DEF Passes, Carried
<1>6. CASE Relieves(v)
  BY <1>1, <1>6 DEF Relieves, Carried, Terminal
<1>. QED  BY <1>1, <1>2, <1>3, <1>4, <1>5, <1>6 DEF LoadEffect

\* Who is not in line for appeals is relieved of a dispute only when it ends where it began.
LEMMA RelievedCount ==
  ASSUME BesideOK, CarriedInv, NEW v \in Workflows, LoadEffect(v), Relieves(v),
         \A w \in Workflows : Shared(w), NEW r \in Accounts, InOneRole(r),
         resolverActiveDisputes[r] = Cardinality(LoadOf(r))
  PROVE  resolverActiveDisputes'[r] = Cardinality(LoadOf(r)')
<1>. DEFINE d == disputeResolver[v]
<1>1. /\ \A w \in Workflows \ {v} : Counted(w, r)' <=> Counted(w, r)
      /\ Carried(v) /\ Shared(v)
      /\ resolverActiveDisputes \in [Accounts -> Nat]
  BY KeepsLoad DEF LoadEffect, CarriedInv, BesideOK, DRM!TypeOK
<1>2. /\ First(v)' = First(v) /\ ("appealed" \in past'[v] <=> "appealed" \in past[v])
      /\ escrowState[v] = "DISPUTED" /\ escrowState'[v] # "DISPUTED"
      /\ resolverActiveDisputes'[r] =
           IF r = d /\ resolverActiveDisputes[r] > 0 THEN resolverActiveDisputes[r] - 1
                                                     ELSE resolverActiveDisputes[r]
  BY DEF Relieves, SamePast, Terminal, DRM!Freed
<1>3. CASE "appealed" \in past[v]
  <2>1. LoadOf(r)' = LoadOf(r)
    BY <1>1, <1>2, <1>3 DEF LoadOf, Counted
  <2>2. d \in Seniors \cup {ExternalResolver}
    BY <1>1, <1>2, <1>3 DEF Carried
  <2>3. ASSUME r = d PROVE resolverActiveDisputes[r] = 0
    <3>1. r \notin Juniors
      BY <2>2, <2>3 DEF InOneRole
    <3>2. \A w \in Workflows : First(w) \in Juniors \cup {NoAccount}
      BY DEF CarriedInv, Carried
    <3>3. LoadOf(r) = {}
      BY <3>1, <3>2, AddressAssumption DEF LoadOf, Counted
    <3>. QED  BY <3>3, FS_EmptySet
  <2>. QED  BY <1>2, <2>1, <2>3
<1>4. CASE "appealed" \notin past[v]
  <2>1. d = First(v)
    BY <1>1, <1>2, <1>4 DEF Carried
  <2>2. v \notin LoadOf(r)'
    BY <1>2, <1>4 DEF LoadOf, Counted
  <2>3. CASE r = d
    <3>1. v \in LoadOf(r)
      BY <1>2, <2>1, <2>3 DEF LoadOf, Counted
    <3>2. LoadOf(r)' = LoadOf(r) \ {v}
      BY <1>1, <2>2 DEF LoadOf
    <3>3. LoadOf(r) \in SUBSET Workflows
      BY DEF LoadOf
    <3>. QED  BY <1>2, <2>3, <3>1, <3>2, <3>3, LoadCounts
  <2>4. CASE r # d
    <3>1. v \notin LoadOf(r)
      BY <2>1, <2>4 DEF LoadOf, Counted
    <3>2. LoadOf(r)' = LoadOf(r)
      BY <1>1, <2>2, <3>1 DEF LoadOf
    <3>. QED  BY <1>2, <2>4, <3>2
  <2>. QED  BY <2>3, <2>4
<1>. QED  BY <1>3, <1>4

LEMMA StepCount ==
  ASSUME BesideOK, CarriedInv, NEW v \in Workflows, LoadEffect(v), Shared(v)',
         \A w \in Workflows : Shared(w), NEW r \in Accounts, InOneRole(r),
         resolverActiveDisputes[r] = Cardinality(LoadOf(r))
  PROVE  resolverActiveDisputes'[r] = Cardinality(LoadOf(r)')
<1>1. \A w \in Workflows \ {v} : Counted(w, r)' <=> Counted(w, r)
  BY KeepsLoad DEF LoadEffect
<1>2. CASE Steady(v) \/ Passes(v)
  <2>1. Counted(v, r)' <=> Counted(v, r)
    BY <1>2 DEF Steady, Passes, Counted, SamePast, Kept, Undisputed, Terminal
  <2>2. LoadOf(r)' = LoadOf(r)
    BY <1>1, <2>1 DEF LoadOf
  <2>. QED  BY <1>2, <2>2 DEF Steady, Passes
<1>3. CASE Takes(v)
  <2>1. v \notin LoadOf(r)
    BY <1>3, AddressAssumption DEF Takes, LoadOf, Counted
  <2>2. LoadOf(r)' = IF r = First(v)' THEN LoadOf(r) \cup {v} ELSE LoadOf(r)
    BY <1>1, <1>3, <2>1 DEF Takes, LoadOf, Counted
  <2>3. resolverActiveDisputes'[r] = IF r = First(v)' THEN resolverActiveDisputes[r] + 1
                                                     ELSE resolverActiveDisputes[r]
    BY <1>3 DEF Takes, DRM!Assigned, BesideOK, DRM!TypeOK
  <2>4. LoadOf(r) \in SUBSET Workflows
    BY DEF LoadOf
  <2>. QED  BY <2>1, <2>2, <2>3, <2>4, LoadCounts
<1>4. CASE Relieves(v)
  BY <1>4, RelievedCount
<1>. QED  BY <1>2, <1>3, <1>4 DEF LoadEffect

LoadInv ==
  /\ CarriedInv
  /\ (\A w \in Workflows : Shared(w)) =>
       \A r \in Accounts : InOneRole(r) => resolverActiveDisputes[r] = Cardinality(LoadOf(r))

LEMMA LoadStep ==
  ASSUME Inv, BesideOK, RecordsInv, AuthorityInv, LoadInv, [ResolutionNext]_allVars
  PROVE  LoadInv'
<1>1. CASE Idle
  <2>1. \A w \in Workflows : Carried(w)' /\ (Shared(w)' => Shared(w))
    BY <1>1, KeepsLoad DEF Idle, LoadInv, CarriedInv
  <2>2. \A r : LoadOf(r)' = LoadOf(r)
    BY <1>1, KeepsLoad DEF Idle, LoadOf
  <2>. QED  BY <1>1, <2>1, <2>2 DEF LoadInv, CarriedInv, Idle
<1>2. ASSUME NEW v \in Workflows, LoadEffect(v) PROVE LoadInv'
  <2>1. \A w \in Workflows : Carried(w)' /\ (Shared(w)' => Shared(w))
    BY <1>2, KeepsLoad, CarriedStep DEF LoadEffect, LoadInv, CarriedInv
  <2>2. ASSUME \A w \in Workflows : Shared(w)', NEW r \in Accounts, InOneRole(r)
        PROVE  resolverActiveDisputes'[r] = Cardinality(LoadOf(r)')
    BY <1>2, <2>1, <2>2, StepCount DEF LoadInv
  <2>. QED  BY <2>1, <2>2 DEF LoadInv, CarriedInv
<1>. QED  BY <1>1, <1>2, LoadEffects

LEMMA InitLoad == ResolutionInit => LoadInv
<1>. SUFFICES ASSUME ResolutionInit PROVE LoadInv
  OBVIOUS
<1>1. \A w \in Workflows :
        First(w) = NoAccount /\ escrowState[w] = "NONE" /\ past[w] = {}
  BY DEF ResolutionInit, Init, DRM!Init, First, DRM!Rounds, DRM!MAX_ROUND
<1>2. \A r \in Accounts : LoadOf(r) = {} /\ resolverActiveDisputes[r] = 0
  BY <1>1, AddressAssumption DEF LoadOf, Counted, ResolutionInit, DRM!Init
<1>. QED  BY <1>1, <1>2, FS_EmptySet DEF LoadInv, CarriedInv, Carried

\* A resolver's count of active disputes is the number of open disputes it was first
\* assigned and of those appealed from it, however many escrows there are.
THEOREM LoadAccountedAlways == ResolutionSpec => []LoadAccounted
<1>1. LoadInv => LoadAccounted
  BY DEF LoadInv, LoadAccounted, LoadOf, Counted, First, Shared, Apart
<1>2. ResolutionSpec => []LoadInv
  BY InitLoad, LoadStep, InitAuthority, AuthorityStep, Invariants, PTL DEF ResolutionSpec
<1>. QED  BY <1>1, <1>2, PTL

===============================================================================
