---------------------------- MODULE OperationsSafety ----------------------------
(***************************************************************************)
(* What the scripts of Operations preserve, proved from the types: nothing *)
(* changes unannounced, no artifact claims a proposal that is not there, a *)
(* green guardian test means what it says, an activation puts into effect  *)
(* what it read, and the module in effect is governed and complete.        *)
(***************************************************************************)
EXTENDS OperationsProofs

USE DEF vars, chain, governance, budget

(* Every variable but the record of runs stays.                            *)
LEMMA QuietSteps ==
  ASSUME NEW o,
         \/ Checks(o) \/ Skips(o) \/ Notes(o) \/ SimulationFails(o) \/ Reads(o) \/ GetsModule(o)
         \/ Refused(o) \/ MissesDeployments(o) \/ Loads(o) \/ Killed(o) \/ Fault(o)
         \/ (\E s, p : Launch(o, s, p))
  PROVE  UNCHANGED <<setup, now, chain, governance>>
BY DEF Checks, Skips, Notes, SimulationFails, Reads, GetsModule, Refused, MissesDeployments, Loads,
   Killed, Fault, Launch, unchangedByReads

-----------------------------------------------------------------------------
(* A waiting value is the last one announced, and becomes due SLOW_DELAY   *)
(* after that announcement.                                                *)
NoticeOK == /\ notice = [s \in Slots |-> notice[s]]
            /\ \A s \in Slots :
                 /\ notice[s].at \in Nat
                 /\ pending[s].exists => /\ pending[s].value = notice[s].value
                                         /\ pending[s].eta = notice[s].at + SLOW_DELAY

LEMMA QueueSlotNotice ==
  ASSUME TypeInv, NoticeOK, NEW t, NEW v, QueueSlot(t, v)
  PROVE  NoticeOK'
<1>1. now \in Nat /\ pending = [s \in Slots |-> pending[s]]
  BY SetupTyped DEF TypeInv, SlotsOK
<1>2. ASSUME NEW s \in Slots, s = t
      PROVE  /\ notice'[s].at \in Nat /\ pending'[s].value = notice'[s].value
             /\ pending'[s].eta = notice'[s].at + SLOW_DELAY
  BY <1>1, <1>2 DEF QueueSlot, NoticeOK
<1>3. ASSUME NEW s \in Slots, s # t
      PROVE  notice'[s] = notice[s] /\ pending'[s] = pending[s]
  BY <1>1, <1>3 DEF QueueSlot, NoticeOK
<1>4. notice' = [s \in Slots |-> notice'[s]]
  BY DEF QueueSlot, NoticeOK
<1>5. QED
  BY <1>2, <1>3, <1>4 DEF NoticeOK

LEMMA ActivateSlotNotice ==
  ASSUME TypeInv, NoticeOK, NEW t, ActivateSlot(t), notice' = notice
  PROVE  NoticeOK'
<1>1. pending = [s \in Slots |-> pending[s]]
  BY DEF TypeInv, SlotsOK
<1>2. ASSUME NEW s \in Slots, s = t
      PROVE  ~pending'[s].exists
  BY <1>1, <1>2 DEF ActivateSlot, Nothing
<1>3. ASSUME NEW s \in Slots, s # t
      PROVE  pending'[s] = pending[s]
  BY <1>1, <1>3 DEF ActivateSlot
<1>4. QED
  BY <1>2, <1>3 DEF NoticeOK

LEMMA NextNotice == TypeInv /\ NoticeOK /\ [Next]_vars => NoticeOK'
<1> SUFFICES ASSUME TypeInv, NoticeOK, [Next]_vars PROVE NoticeOK'
  OBVIOUS
<1>1. CASE UNCHANGED <<pending, notice>>
  BY <1>1 DEF NoticeOK
<1>2. ASSUME NEW o \in Operators, OperatorStep(o) PROVE NoticeOK'
  <2>1. CASE Queues(o)
    BY <2>1, QueueSlotNotice DEF Queues
  <2>2. CASE Activates(o)
    BY <2>2, ActivateSlotNotice DEF Activates
  <2>3. CASE DeploysModule(o) \/ Grants(o) \/ Linking(o) \/ Sets(o) \/ Pauses(o) \/ Writes(o)
             \/ Proposes(o) \/ Saves(o)
    BY <1>1, <2>3 DEF DeploysModule, Grants, Linking, Sets, Pauses, Writes, Proposes, Saves
  <2>4. CASE \/ Checks(o) \/ Skips(o) \/ Notes(o) \/ SimulationFails(o) \/ Reads(o) \/ GetsModule(o)
             \/ Refused(o) \/ MissesDeployments(o) \/ Loads(o)
    BY <1>1, <2>4, QuietSteps
  <2>5. QED
    BY <1>2, <2>1, <2>2, <2>3, <2>4 DEF OperatorStep
<1>3. ASSUME NEW o \in Operators, Killed(o) \/ Fault(o) \/ (\E s, p : Launch(o, s, p)) PROVE NoticeOK'
  BY <1>1, <1>3, QuietSteps
<1>4. ASSUME NEW p \in Payloads, Voted(p) \/ QueuedInTimelock(p) \/ Executed(p) PROVE NoticeOK'
  <2>1. CASE Voted(p) \/ QueuedInTimelock(p)
    BY <1>1, <2>1 DEF Voted, QueuedInTimelock
  <2>2. CASE Executed(p)
    BY <2>2, QueueSlotNotice, ActivateSlotNotice DEF Executed
  <2>3. QED
    BY <1>4, <2>1, <2>2
<1>5. CASE Strip \/ Tick
  BY <1>1, <1>5 DEF Strip, Tick
<1>6. CASE UNCHANGED vars
  BY <1>1, <1>6
<1>7. QED
  BY <1>2, <1>3, <1>4, <1>5, <1>6 DEF Next

(* A setting changes only by one of the two moves.                         *)
LEMMA ActivationAnnounced ==
  ASSUME TypeInv, NoticeOK, NEW t, NEW a, CanActivate(t, a), ActivateSlot(t), NEW s \in Slots,
         setting'[s] # setting[s]
  PROVE  Announced(s)
<1>1. setting = [x \in Slots |-> setting[x]]
  BY DEF TypeInv, SlotsOK
<1>2. s = t
  BY <1>1 DEF ActivateSlot
<1>3. setting'[s] = pending[s].value /\ pending[s].exists /\ now >= pending[s].eta
  BY <1>1, <1>2 DEF ActivateSlot, CanActivate
<1>4. QED
  BY <1>3 DEF Announced, NoticeOK

LEMMA SetByManager ==
  ASSUME NEW a, CanSet(a)
  PROVE  ~(Managers \subseteq {SlowLane})
<1>1. <<Vault, 0, MANAGER, a>> \in roles /\ a # SlowLane
  BY DEF CanSet, HasRole, IdOf, Vault, Module, Staking, Pool
<1> DEFINE u == <<Vault, 0, MANAGER, a>>
<1>2. u[1] = Vault /\ u[3] = MANAGER /\ u[4] = a
  OBVIOUS
<1>3. a \in Managers
  BY <1>1, <1>2 DEF Managers
<1>4. QED
  BY <1>1, <1>3

(* Whatever scripts, crashes and proposals there are: the fee and the      *)
(* resolution module of the vault change to the value announced last and   *)
(* after its delay, unless a key holds the vault's ROLE_ADMIN_CONTRACT     *)
(* beside the slow lane.                                                   *)
THEOREM NothingUnannounced == Spec => NoticeGiven
<1>1. Init => NoticeOK
  BY DEF Init, NoticeOK, Nothing
<1>2. TypeInv /\ NoticeOK /\ [Next]_vars => NoticeOK'
  BY NextNotice
<1>3. TypeInv /\ NoticeOK /\ [Next]_vars
        => [\A s \in Slots :
              setting'[s] # setting[s] => Announced(s) \/ ~(Managers \subseteq {SlowLane})]_vars
  <2> SUFFICES ASSUME TypeInv, NoticeOK, Next, NEW s \in Slots, setting'[s] # setting[s]
               PROVE  Announced(s) \/ ~(Managers \subseteq {SlowLane})
    OBVIOUS
  <2>1. CASE \E o \in Operators : Activates(o)
    BY <2>1, ActivationAnnounced DEF Activates
  <2>2. CASE \E o \in Operators : Sets(o)
    BY <2>2, SetByManager DEF Sets
  <2>3. CASE \E p \in Payloads : Executed(p)
    BY <2>3, ActivationAnnounced DEF Executed
  <2>4. \/ \E o \in Operators : Activates(o) \/ Sets(o)
        \/ \E p \in Payloads : Executed(p)
    <3>1. ASSUME NEW o \in Operators, OperatorStep(o), ~Activates(o), ~Sets(o)
          PROVE  setting' = setting
      <4>1. CASE DeploysModule(o) \/ Grants(o) \/ Linking(o) \/ Queues(o) \/ Pauses(o) \/ Writes(o)
                 \/ Proposes(o) \/ Saves(o)
        BY <4>1 DEF DeploysModule, Grants, Linking, Queues, Pauses, Writes, Proposes, Saves
      <4>2. QED
        BY <3>1, <4>1, QuietSteps DEF OperatorStep
    <3>2. ASSUME NEW o \in Operators, Killed(o) \/ Fault(o) \/ (\E x, y : Launch(o, x, y))
          PROVE  setting' = setting
      BY <3>2, QuietSteps
    <3>3. ASSUME NEW p \in Payloads, Voted(p) \/ QueuedInTimelock(p) PROVE setting' = setting
      BY <3>3 DEF Voted, QueuedInTimelock
    <3>4. CASE Strip \/ Tick
      BY <3>4 DEF Strip, Tick
    <3>5. QED
      BY <3>1, <3>2, <3>3, <3>4 DEF Next
  <2>5. QED
    BY <2>1, <2>2, <2>3, <2>4
<1>4. QED
  BY <1>1, <1>2, <1>3, TypeInvariant, PTL DEF Spec, NoticeGiven

-----------------------------------------------------------------------------
(* The governor forgets no proposal.                                       *)
OnGovernor(p) == proposal[p].state # "None"
LEMMA ProposalsStay ==
  ASSUME TypeInv, [Next]_vars, NEW p \in Payloads, OnGovernor(p)
  PROVE  OnGovernor(p)'
<1>1. ASSUME NEW o \in Operators, Proposes(o) PROVE OnGovernor(p)'
  BY <1>1 DEF Proposes, TypeInv, ProposalsOK, OnGovernor
<1>2. ASSUME NEW o \in Operators, OperatorStep(o), ~Proposes(o) PROVE proposal' = proposal
  <2>1. CASE \/ DeploysModule(o) \/ Grants(o) \/ Linking(o) \/ Queues(o) \/ Activates(o) \/ Sets(o)
             \/ Pauses(o) \/ Writes(o) \/ Saves(o)
    BY <2>1 DEF DeploysModule, Grants, Linking, Queues, Activates, Sets, Pauses, Writes, Saves
  <2>2. QED
    BY <1>2, <2>1, QuietSteps DEF OperatorStep
<1>3. ASSUME NEW o \in Operators, Killed(o) \/ Fault(o) \/ (\E x, y : Launch(o, x, y))
      PROVE  proposal' = proposal
  BY <1>3, QuietSteps
<1>4. ASSUME NEW q \in Payloads, Voted(q) \/ QueuedInTimelock(q) \/ Executed(q) PROVE OnGovernor(p)'
  BY <1>4 DEF Voted, QueuedInTimelock, Executed, TypeInv, ProposalsOK, OnGovernor
<1>5. CASE Strip \/ Tick \/ UNCHANGED vars
  BY <1>5 DEF Strip, Tick, OnGovernor
<1>6. QED
  BY <1>1, <1>2, <1>3, <1>4, <1>5 DEF Next, OnGovernor

(* An artifact, and the copy a run holds of it, say "proposed" of a        *)
(* proposal the governor knows: copies are saved late, over newer files,   *)
(* but never claim more than was mined before they were made.              *)
CopyOK(r) == (r.payload \in Payloads /\ r.copy = "proposed") => OnGovernor(r.payload)
CopiesOK == \A o \in Operators : CopyOK(run[o])

(* What a step leaves of the record of its run: the copy or none, and the  *)
(* script or none, or the first step of another one.                       *)
KeepsScript(x, r) == x.script \in {r.script, ""} \/ x.pc = 1
Keeps(x, r) == /\ x.copy = "none" \/ (x.payload = r.payload /\ x.copy = r.copy)
               /\ KeepsScript(x, r)
LEMMA FinishedEmpty == \A o, b : Finished(o, b).copy = "none" /\ Finished(o, b).script = ""
BY DEF Finished, Idle

Like(q, r) == /\ Shape(q) /\ q.payload = r.payload
              /\ q.copy = r.copy /\ q.script = r.script

LEMMA KeepsOf ==
  ASSUME NEW x, NEW r, NEW s
  PROVE  /\ (Keeps(x, r) /\ r.payload = s.payload /\ r.copy = s.copy /\ r.script = s.script)
              => Keeps(x, s)
         /\ (x.copy = "none" /\ (x.script = "" \/ x.pc = 1)) => Keeps(x, s)
         /\ (Keeps(x, r) /\ r.script = s.script) => KeepsScript(x, s)
BY DEF Keeps, KeepsScript

LEMMA FinishedKeeps == \A o, b, r : Keeps(Finished(o, b), r)
BY FinishedEmpty DEF Keeps, KeepsScript

LEMMA AdvanceKeeps ==
  ASSUME TypeInv, NEW o \in Operators, NEW r, NEW n, Shape(r), Advance(o, r, n)
  PROVE  \E x : run' = [run EXCEPT ![o] = x] /\ Keeps(x, r)
<1>1. CASE r.pc + n <= Len(Body(r.script))
  <2> DEFINE x == [r EXCEPT !.pc = r.pc + n]
  <2>1. x.payload = r.payload /\ x.copy = r.copy /\ x.script = r.script
    BY DEF Shape, Fields
  <2>2. run' = [run EXCEPT ![o] = x]
    BY <1>1 DEF Advance
  <2>3. QED
    BY <2>1, <2>2 DEF Keeps, KeepsScript
<1>2. CASE ~(r.pc + n <= Len(Body(r.script)))
  <2>1. run' = [run EXCEPT ![o] = Finished(o, ~r.bad)]
    BY <1>2 DEF Advance
  <2>2. QED
    BY <2>1, FinishedKeeps
<1>3. QED
  BY <1>1, <1>2

LEMMA AdvancedLike ==
  ASSUME TypeInv, NEW o \in Operators, NEW r, NEW n, Like(r, run[o]), Advance(o, r, n)
  PROVE  \E x : run' = [run EXCEPT ![o] = x] /\ Keeps(x, run[o])
<1>1. PICK x : run' = [run EXCEPT ![o] = x] /\ Keeps(x, r)
  BY AdvanceKeeps DEF Like
<1>2. Keeps(x, run[o])
  BY <1>1, KeepsOf DEF Like
<1>3. QED
  BY <1>1, <1>2

LEMMA FailsKeeps ==
  ASSUME TypeInv, NEW o \in Operators, Shape(run[o]), Fails(o)
  PROVE  \E x : run' = [run EXCEPT ![o] = x] /\ Keeps(x, run[o])
<1> DEFINE r == [run[o] EXCEPT !.bad = run[o].bad \/ Current(o).op = "note"]
<1>1. \A y : Like([run[o] EXCEPT !.bad = y], run[o])
  BY DEF Like, Shape, Fields
<1>2. Like(r, run[o])
  BY <1>1, Zenon
<1>3. CASE Current(o).catch = 0
  BY <1>3, FinishedKeeps DEF Fails
<1>4. CASE Current(o).catch # 0
  <2>1. Advance(o, r, Current(o).catch)
    BY <1>4 DEF Fails
  <2>2. PICK x : run' = [run EXCEPT ![o] = x] /\ Keeps(x, r)
    BY <1>2, <2>1, AdvanceKeeps DEF Like
  <2>3. QED
    BY <1>2, <2>2, KeepsOf DEF Like
<1>5. QED
  BY <1>3, <1>4

LEMMA ShapeOfRun == ASSUME TypeInv, NEW o \in Operators PROVE Shape(run[o])
BY DEF TypeInv, RunsOK, RunOK

(* All steps of a run but reading an artifact and proposing.               *)
LEMMA StepKeeps ==
  ASSUME TypeInv, NEW o \in Operators, ~Loads(o), ~Proposes(o),
         OperatorStep(o) \/ Killed(o) \/ Fault(o) \/ (\E s, p : Launch(o, s, p))
  PROVE  \E x : run' = [run EXCEPT ![o] = x] /\ Keeps(x, run[o])
<1>1. Shape(run[o])
  BY ShapeOfRun
<1>2. CASE \E n : Advance(o, run[o], n)
  BY <1>1, <1>2, AdvanceKeeps
<1>3. CASE Fails(o)
  BY <1>1, <1>3, FailsKeeps
<1>4. CASE Checks(o) \/ Skips(o) \/ Notes(o) \/ SimulationFails(o) \/ Refused(o) \/ MissesDeployments(o)
  <2>1. \/ run' = [run EXCEPT ![o] = Finished(o, TRUE)]
        \/ \E n : Advance(o, run[o], n)
        \/ Fails(o)
    BY <1>4 DEF Checks, Skips, Notes, SimulationFails, Refused, MissesDeployments, Continue
  <2>2. QED
    BY <1>2, <1>3, <2>1, FinishedKeeps
<1>5. CASE Reads(o) \/ GetsModule(o) \/ DeploysModule(o)
  <2>1. \A y : Like([run[o] EXCEPT !.seen = y], run[o]) /\ Like([run[o] EXCEPT !.module = y], run[o])
    BY <1>1 DEF Like, Shape, Fields
  <2>2. CASE Reads(o)
    BY <2>1, <2>2, AdvancedLike DEF Reads
  <2>3. CASE GetsModule(o)
    BY <2>1, <2>3, AdvancedLike DEF GetsModule
  <2>4. CASE DeploysModule(o)
    BY <2>1, <2>4, AdvancedLike DEF DeploysModule
  <2>5. QED
    BY <1>5, <2>2, <2>3, <2>4
<1>6. CASE Grants(o) \/ Linking(o) \/ Queues(o) \/ Activates(o) \/ Sets(o) \/ Pauses(o)
           \/ Writes(o) \/ Saves(o)
  BY <1>2, <1>6 DEF Grants, Linking, Queues, Activates, Sets, Pauses, Writes, Saves, Continue
<1>7. CASE Killed(o) \/ (\E s, p : Launch(o, s, p))
  <2>1. Idle.copy = "none" /\ Idle.script = "" /\ DOMAIN Idle = Fields
    BY DEF Idle, Fields
  <2>2. \A s, p : LET q == [Idle EXCEPT !.script = s, !.payload = p, !.pc = 1] IN
                    q.copy = "none" /\ q.pc = 1
    BY <2>1 DEF Fields
  <2>3. CASE Killed(o)
    BY <2>1, <2>3, KeepsOf DEF Killed
  <2>4. CASE \E s, p : Launch(o, s, p)
    <3>1. PICK s, p : run' = [run EXCEPT ![o] = [Idle EXCEPT !.script = s, !.payload = p, !.pc = 1]]
      BY <2>4 DEF Launch
    <3> DEFINE x == [Idle EXCEPT !.script = s, !.payload = p, !.pc = 1]
    <3>2. x.copy = "none" /\ x.pc = 1
      BY <2>2, Zenon
    <3>3. Keeps(x, run[o])
      BY <3>2, KeepsOf
    <3>4. QED
      BY <3>1, <3>3
  <2>5. QED
    BY <1>7, <2>3, <2>4
<1>8. CASE Fault(o)
  BY <1>3, <1>8 DEF Fault
<1>9. QED
  BY <1>4, <1>5, <1>6, <1>7, <1>8 DEF OperatorStep

LEMMA ReplacedRun ==
  ASSUME TypeInv, [Next]_vars, CopiesOK, NEW o \in Operators, NEW x, run' = [run EXCEPT ![o] = x],
         (x.payload \in Payloads /\ x.copy = "proposed") => OnGovernor(x.payload)'
  PROVE  CopiesOK'
<1>1. ASSUME NEW q \in Operators PROVE CopyOK(run[q])'
  <2>1. CASE q = o
    BY <2>1 DEF CopyOK, TypeInv, RunsOK, OnGovernor
  <2>2. CASE q # o
    <3>1. run'[q] = run[q]
      BY <2>2
    <3>2. \A p \in Payloads : OnGovernor(p) => proposal'[p].state # "None"
      BY ProposalsStay DEF OnGovernor
    <3>3. QED
      BY <3>1, <3>2 DEF CopiesOK, CopyOK, OnGovernor
  <2>3. QED
    BY <2>1, <2>2
<1>2. QED
  BY <1>1 DEF CopiesOK

LEMMA NextCopies == TypeInv /\ CopiesOK /\ ArtifactTruthful /\ [Next]_vars => CopiesOK'
<1> SUFFICES ASSUME TypeInv, CopiesOK, ArtifactTruthful, [Next]_vars PROVE CopiesOK'
  OBVIOUS
<1>1. CASE \E o \in Operators : Loads(o)
  <2>1. PICK o \in Operators : Loads(o)
    BY <1>1
  <2> DEFINE r == [run[o] EXCEPT !.copy = file[run[o].payload]]
  <2>2. Shape(r) /\ r.payload = run[o].payload /\ r.copy = file[run[o].payload]
    BY ShapeOfRun DEF Shape, Fields
  <2>3. Advance(o, r, 1)
    BY <2>1 DEF Loads
  <2>4. PICK x : run' = [run EXCEPT ![o] = x] /\ Keeps(x, r)
    BY <2>2, <2>3, AdvanceKeeps
  <2>5. (x.payload \in Payloads /\ x.copy = "proposed") => OnGovernor(x.payload)'
    BY <2>2, <2>4, ProposalsStay DEF Keeps, ArtifactTruthful, OnGovernor
  <2>6. QED
    BY <2>4, <2>5, ReplacedRun
<1>2. CASE \E o \in Operators : Proposes(o)
  <2>1. PICK o \in Operators : Proposes(o)
    BY <1>2
  <2> DEFINE r == [run[o] EXCEPT !.copy = "proposed"]
  <2>2. Shape(r) /\ r.payload = run[o].payload
    BY ShapeOfRun DEF Shape, Fields
  <2>3. Advance(o, r, 1)
    BY <2>1 DEF Proposes
  <2>4. PICK x : run' = [run EXCEPT ![o] = x] /\ Keeps(x, r)
    BY <2>2, <2>3, AdvanceKeeps
  <2>5. run[o].payload \in Payloads => proposal'[run[o].payload].state # "None"
    BY <2>1 DEF Proposes, TypeInv, ProposalsOK
  <2>6. (x.payload \in Payloads /\ x.copy = "proposed") => OnGovernor(x.payload)'
    BY <2>2, <2>4, <2>5 DEF Keeps, OnGovernor
  <2>7. QED
    BY <2>4, <2>6, ReplacedRun
<1>3. ASSUME NEW o \in Operators, ~Loads(o), ~Proposes(o),
             OperatorStep(o) \/ Killed(o) \/ Fault(o) \/ (\E s, p : Launch(o, s, p))
      PROVE  CopiesOK'
  <2>1. PICK x : run' = [run EXCEPT ![o] = x] /\ Keeps(x, run[o])
    BY <1>3, StepKeeps
  <2>2. (x.payload \in Payloads /\ x.copy = "proposed") => OnGovernor(x.payload)'
    BY <2>1, ProposalsStay DEF Keeps, CopiesOK, CopyOK
  <2>3. QED
    BY <2>1, <2>2, ReplacedRun
<1>4. CASE UNCHANGED run
  <2>1. \A p \in Payloads : OnGovernor(p) => proposal'[p].state # "None"
    BY ProposalsStay DEF OnGovernor
  <2>2. QED
    BY <1>4, <2>1 DEF CopiesOK, CopyOK, OnGovernor
<1>5. CASE Tick
  <2>1. ASSUME NEW o \in Operators
        PROVE  run'[o].payload = run[o].payload /\ run'[o].copy = run[o].copy
    <3>1. Shape(run[o])
      BY ShapeOfRun
    <3>2. QED
      BY <1>5, <3>1 DEF Tick, Shape, Fields
  <2>2. proposal' = proposal
    BY <1>5 DEF Tick
  <2>3. QED
    BY <2>1, <2>2 DEF CopiesOK, CopyOK, OnGovernor
<1>6. CASE (\E p \in Payloads : Voted(p) \/ QueuedInTimelock(p) \/ Executed(p)) \/ Strip \/ UNCHANGED vars
  <2>1. UNCHANGED run
    BY <1>6 DEF Voted, QueuedInTimelock, Executed, Strip
  <2>2. QED
    BY <1>4, <2>1
<1>7. QED
  BY <1>1, <1>2, <1>3, <1>5, <1>6 DEF Next

LEMMA NextArtifacts ==
  TypeInv /\ CopiesOK /\ ArtifactTruthful /\ [Next]_vars => ArtifactTruthful'
<1> SUFFICES ASSUME TypeInv, CopiesOK, ArtifactTruthful, [Next]_vars, NEW p \in Payloads,
                    file'[p] = "proposed"
             PROVE  proposal'[p].state # "None"
  BY DEF ArtifactTruthful
<1>1. file[p] = "proposed" \/ (\E o \in Operators : run[o].payload = p /\ run[o].copy = "proposed")
  <2>1. CASE file'[p] = file[p]
    BY <2>1
  <2>2. ASSUME NEW o \in Operators, Writes(o) PROVE file'[p] = file[p]
    BY <2>2 DEF Writes, TypeInv, ProposalsOK
  <2>3. ASSUME NEW o \in Operators, Saves(o), file'[p] # file[p]
        PROVE  run[o].payload = p /\ run[o].copy = "proposed"
    BY <2>3 DEF Saves, TypeInv, ProposalsOK
  <2>4. ASSUME NEW o \in Operators, OperatorStep(o), ~Writes(o), ~Saves(o) PROVE file' = file
    <3>1. CASE \/ DeploysModule(o) \/ Grants(o) \/ Linking(o) \/ Queues(o) \/ Activates(o) \/ Sets(o)
               \/ Pauses(o) \/ Proposes(o)
      BY <3>1 DEF DeploysModule, Grants, Linking, Queues, Activates, Sets, Pauses, Proposes
    <3>2. QED
      BY <2>4, <3>1, QuietSteps DEF OperatorStep
  <2>5. ASSUME NEW o \in Operators, Killed(o) \/ Fault(o) \/ (\E x, y : Launch(o, x, y))
        PROVE  file' = file
    BY <2>5, QuietSteps
  <2>6. CASE (\E q \in Payloads : Voted(q) \/ QueuedInTimelock(q) \/ Executed(q)) \/ Strip \/ Tick
             \/ UNCHANGED vars
    BY <2>1, <2>6 DEF Voted, QueuedInTimelock, Executed, Strip, Tick
  <2>7. QED
    BY <2>1, <2>2, <2>3, <2>4, <2>5, <2>6 DEF Next
<1>2. OnGovernor(p)
  BY <1>1 DEF ArtifactTruthful, CopiesOK, CopyOK, OnGovernor
<1>3. QED
  BY <1>2, ProposalsStay DEF OnGovernor

(* However many operators build, propose and save at once, and wherever    *)
(* their runs are cut off: an artifact that says "proposed" names a        *)
(* proposal that was mined.                                                *)
THEOREM ArtifactsTruthful == Spec => []ArtifactTruthful
<1>1. Init => CopiesOK /\ ArtifactTruthful
  <2>1. Idle.copy = "none"
    BY DEF Idle
  <2>2. Init => CopiesOK
    BY <2>1 DEF Init, CopiesOK, CopyOK
  <2>3. Init => \A p \in Payloads : file[p] = "offline" \/ file[p] = "none"
    BY DEF Init
  <2>4. QED
    BY <2>2, <2>3 DEF ArtifactTruthful
<1>2. TypeInv /\ (CopiesOK /\ ArtifactTruthful) /\ [Next]_vars => CopiesOK' /\ ArtifactTruthful'
  BY NextCopies, NextArtifacts
<1>3. QED
  BY <1>1, <1>2, TypeInvariant, PTL DEF Spec

-----------------------------------------------------------------------------
(* Nobody takes the guardian's role away.                                  *)
GuardianOn(c) == <<c, 0, GUARDIAN, "guardian">> \in roles
LEMMA GuardianStays ==
  ASSUME [Next]_vars, NEW c, GuardianOn(c)
  PROVE  GuardianOn(c)'
<1>1. ASSUME NEW o \in Operators, OperatorStep(o) PROVE roles \subseteq roles'
  <2>1. CASE DeploysModule(o) \/ Grants(o)
    BY <2>1 DEF DeploysModule, Grants
  <2>2. CASE \/ Linking(o) \/ Queues(o) \/ Activates(o) \/ Sets(o) \/ Pauses(o) \/ Writes(o)
             \/ Proposes(o) \/ Saves(o)
    BY <2>2 DEF Linking, Queues, Activates, Sets, Pauses, Writes, Proposes, Saves
  <2>3. QED
    BY <1>1, <2>1, <2>2, QuietSteps DEF OperatorStep
<1>2. ASSUME NEW o \in Operators, Killed(o) \/ Fault(o) \/ (\E x, y : Launch(o, x, y))
      PROVE  roles \subseteq roles'
  BY <1>2, QuietSteps
<1>3. CASE Strip
  BY <1>3 DEF Strip, GuardianOn, GUARDIAN, ADMIN, TIMELOCK
<1>4. CASE (\E q \in Payloads : Voted(q) \/ QueuedInTimelock(q) \/ Executed(q)) \/ Tick \/ UNCHANGED vars
  BY <1>4 DEF Voted, QueuedInTimelock, Executed, Tick, GuardianOn
<1>5. QED
  BY <1>1, <1>2, <1>3, <1>4 DEF Next, GuardianOn

(* test-guardian-all: the first test passed if the run is past it and has  *)
(* noted no failure.                                                       *)
Tested(r) == (r.script = "test-guardian-all" /\ r.pc = 3 /\ ~r.bad) => GuardianOn(Policy)
TestsOK == \A o \in Operators : Tested(run[o])

LEMMA TestBody ==
  /\ Body("test-guardian-all") = TestGuardianAll
  /\ Len(TestGuardianAll) = 3
  /\ TestGuardianAll[1] = Require(Given("REGISTRY_FILE"))
  /\ TestGuardianAll[2] = Note(Has(Policy, GUARDIAN, "guardian"))
  /\ TestGuardianAll[3] = Note(Has(Vault, GUARDIAN, "guardian"))
BY DEF Body, TestGuardianAll

LEMMA TestSteps ==
  /\ \A c : /\ Require(c).op = "check" /\ Require(c).cond = NEVER /\ Require(c).catch = 0
            /\ Note(c).op = "note" /\ Note(c).cond = c /\ Note(c).catch = 1
  /\ NEVER.kind = "never"
  /\ \A c, r, a : /\ Has(c, r, a).kind = "role" /\ Has(c, r, a).on = c
                   /\ Has(c, r, a).what = r /\ Has(c, r, a).who = a
BY DEF Require, Check, Note, Step, NEVER, Has, Cond

LEMMA GuardianRead ==
  ASSUME NEW o, NEW c \in {Policy, Vault}, Holds(Has(c, GUARDIAN, "guardian"), o)
  PROVE  GuardianOn(c)
<1> DEFINE k == Has(c, GUARDIAN, "guardian")
<1>1. k.kind = "role" /\ k.on = c /\ k.what = GUARDIAN /\ k.who = "guardian"
  BY TestSteps
<1> HIDE DEF k
<1>2. Holds(k, o) => HasRole(k.on, run[o].module, k.what, k.who)
  BY <1>1 DEF Holds
<1>3. HasRole(c, run[o].module, GUARDIAN, "guardian") => GuardianOn(c)
  BY DEF HasRole, IdOf, GuardianOn, Policy, Vault, Module, Staking, Pool
<1>4. HasRole(c, run[o].module, GUARDIAN, "guardian")
  BY <1>1, <1>2 DEF k
<1>5. QED
  BY <1>3, <1>4

LEMMA ThreeSteps ==
  ASSUME NEW p \in 1..3, NEW n, n = 3
  PROVE  /\ p = 3 => ~(p + 1 <= n)
         /\ p # 3 => p + 1 <= n
         /\ p + 1 = 3 => p = 2
OBVIOUS

LEMMA FinishedSuccess ==
  ASSUME NEW o, NEW b, run[o].script = "test-guardian-all", Finished(o, b).success
  PROVE  b
<1>1. \A y : [Idle EXCEPT !.success = y].success = y
  BY DEF Idle
<1>2. Finished(o, b).success = (b \/ run[o].script \in ExitsZero)
  BY <1>1, Zenon DEF Finished
<1>3. run[o].script \notin ExitsZero
  BY DEF ExitsZero
<1>4. QED
  BY <1>2, <1>3, Zenon

LEMMA FinishedScript == \A o, b : Finished(o, b).script = "" /\ Finished(o, b).pc = 0
BY DEF Finished, Idle

(* Where a run of the test may be after a step of its own.                 *)
Passed(r) == r.script = "" => (r.success => GuardianOn(Vault) /\ GuardianOn(Policy))
Tracked(r) == Tested(r) /\ Passed(r)

LEMMA TestGoesOn ==
  ASSUME TypeInv, NEW o \in Operators, run[o].script = "test-guardian-all", NEW r,
         Advance(o, r, 1), Shape(r), r.script = run[o].script, r.pc = run[o].pc,
         run[o].pc \in 1..3,
         (run[o].pc = 2 /\ ~r.bad) => GuardianOn(Policy),
         (run[o].pc = 3 /\ ~r.bad) => GuardianOn(Policy) /\ GuardianOn(Vault)
  PROVE  \E x : run' = [run EXCEPT ![o] = x] /\ Tracked(x)
<1>1. Len(Body(r.script)) = 3
  BY TestBody
<1>2. CASE run[o].pc = 3
  <2>0. ~(r.pc + 1 <= Len(Body(r.script)))
    BY <1>1, <1>2, ThreeSteps
  <2>1. run' = [run EXCEPT ![o] = Finished(o, ~r.bad)]
    BY <2>0 DEF Advance
  <2>2. Finished(o, ~r.bad).success => ~r.bad
    BY FinishedSuccess, Zenon
  <2>3. Finished(o, ~r.bad).script = ""
    BY FinishedScript, Zenon
  <2>4. Passed(Finished(o, ~r.bad))
    BY <1>2, <2>2, Zenon DEF Passed
  <2>5. Tested(Finished(o, ~r.bad))
    BY <2>3 DEF Tested
  <2>6. QED
    BY <2>1, <2>4, <2>5, Zenon DEF Tracked
<1>3. CASE run[o].pc # 3
  <2> DEFINE x == [r EXCEPT !.pc = r.pc + 1]
  <2>0. r.pc + 1 <= Len(Body(r.script))
    BY <1>1, <1>3, ThreeSteps
  <2>1. run' = [run EXCEPT ![o] = x]
    BY <2>0 DEF Advance
  <2>2. x.script = "test-guardian-all" /\ x.pc = r.pc + 1 /\ x.bad = r.bad
    BY DEF Shape, Fields
  <2>3. x.pc = 3 => run[o].pc = 2
    BY <2>2, ThreeSteps
  <2>4. Tested(x)
    BY <2>2, <2>3, Zenon DEF Tested
  <2>5. Passed(x)
    BY <2>2 DEF Passed
  <2>6. QED
    BY <2>1, <2>4, <2>5, Zenon DEF Tracked
<1>4. QED
  BY <1>2, <1>3

LEMMA TestStep ==
  ASSUME TypeInv, TestsOK, NEW o \in Operators, run[o].script = "test-guardian-all",
         OperatorStep(o) \/ Killed(o) \/ Fault(o) \/ (\E s, p : Launch(o, s, p))
  PROVE  \E x : run' = [run EXCEPT ![o] = x] /\ Tracked(x)
<1>1. run[o].pc \in 1..3 /\ Shape(run[o])
  BY RunningScript, TestBody, ShapeOfRun, BodyTyped DEF Running
<1>2. ~(\E s, p : Launch(o, s, p))
  BY DEF Launch
<1>3. CASE Killed(o)
  <2>1. Idle.script = "" /\ Idle.success = FALSE
    BY DEF Idle
  <2>2. Tested(Idle)
    BY <2>1 DEF Tested
  <2>3. Passed(Idle)
    BY <2>1, Zenon DEF Passed
  <2>4. QED
    BY <1>3, <2>2, <2>3, Zenon DEF Killed, Tracked
<1>4. CASE run[o].pc = 1
  <2>0. Current(o) = Require(Given("REGISTRY_FILE"))
    BY <1>4, TestBody DEF Current
  <2>1. /\ Current(o).op = "check" /\ Current(o).cond = NEVER /\ Current(o).catch = 0
    BY <2>0, TestSteps
  <2>2. ~Holds(Current(o).cond, o)
    <3>1. Current(o).cond.kind = "never"
      BY <2>1, TestSteps
    <3>2. QED
      BY <3>1 DEF Holds
  <2>3. CASE Fails(o)
    <3>1. run' = [run EXCEPT ![o] = Finished(o, FALSE)]
      BY <2>1, <2>3 DEF Fails
    <3>2. ~Finished(o, FALSE).success
      BY FinishedSuccess, Zenon
    <3>3. Tested(Finished(o, FALSE))
      BY FinishedScript DEF Tested
    <3>4. Passed(Finished(o, FALSE))
      BY <3>2, Zenon DEF Passed
    <3>5. QED
      BY <3>1, <3>3, <3>4, Zenon DEF Tracked
  <2>4. CASE Advance(o, run[o], 1)
    BY <1>1, <1>4, <2>4, TestGoesOn
  <2>5. Fails(o) \/ Advance(o, run[o], 1) \/ Killed(o)
    BY <1>2, <2>1, <2>2 DEF OperatorStep, Fault, Checks, Skips, Notes, SimulationFails, Reads,
       GetsModule, DeploysModule, Grants, Linking, Queues, Activates, Sets, Pauses, Refused, Writes,
       MissesDeployments, Loads, Proposes, Saves, At, Continue
  <2>6. QED
    BY <1>3, <2>3, <2>4, <2>5
<1>5. CASE run[o].pc \in {2, 3}
  <2> DEFINE c == IF run[o].pc = 2 THEN Policy ELSE Vault
             r == [run[o] EXCEPT !.bad = run[o].bad \/ Current(o).op = "note"]
  <2>0. Current(o) = Note(Has(c, GUARDIAN, "guardian"))
    BY <1>5, TestBody DEF Current
  <2>1. /\ Current(o).op = "note" /\ Current(o).cond = Has(c, GUARDIAN, "guardian")
        /\ Current(o).catch = 1
    BY <2>0, TestSteps
  <2>2. Holds(Current(o).cond, o) => GuardianOn(c)
    BY <2>1, GuardianRead
  <2>3. Current(o).cond.kind # "calls"
    BY <2>1, TestSteps
  <2>4. run[o].pc = 3 /\ ~run[o].bad => GuardianOn(Policy)
    BY Zenon DEF TestsOK, Tested
  <2>5. CASE Fails(o)
    <3>1. \A y : LET q == [run[o] EXCEPT !.bad = y] IN
                   Shape(q) /\ q.script = run[o].script /\ q.pc = run[o].pc /\ q.bad = y
      BY <1>1 DEF Shape, Fields
    <3>2. Shape(r) /\ r.script = run[o].script /\ r.pc = run[o].pc /\ r.bad
      BY <2>1, <3>1, Zenon
    <3>3. Advance(o, r, 1)
      BY <2>1, <2>5 DEF Fails
    <3>4. QED
      BY <1>1, <3>2, <3>3, TestGoesOn
  <2>6. CASE Holds(Current(o).cond, o) /\ Advance(o, run[o], 1)
    BY <1>1, <1>5, <2>2, <2>4, <2>6, TestGoesOn
  <2>7. Fails(o) \/ (Holds(Current(o).cond, o) /\ Advance(o, run[o], 1)) \/ Killed(o)
    BY <1>2, <2>1, <2>3 DEF OperatorStep, Fault, Checks, Skips, Notes, SimulationFails, Reads,
       GetsModule, DeploysModule, Grants, Linking, Queues, Activates, Sets, Pauses, Refused, Writes,
       MissesDeployments, Loads, Proposes, Saves, At, Continue
  <2>8. QED
    BY <1>3, <2>5, <2>6, <2>7
<1>6. QED
  BY <1>1, <1>4, <1>5

(* One step changes at most one run, but for the clock.                    *)
LEMMA OneRunMoves ==
  ASSUME TypeInv, NEW o \in Operators,
         OperatorStep(o) \/ Killed(o) \/ Fault(o) \/ (\E s, p : Launch(o, s, p))
  PROVE  \E x : run' = [run EXCEPT ![o] = x] /\ KeepsScript(x, run[o])
<1>1. CASE Loads(o)
  <2> DEFINE r == [run[o] EXCEPT !.copy = file[run[o].payload]]
  <2>1. Shape(r) /\ r.script = run[o].script /\ Advance(o, r, 1)
    BY <1>1, ShapeOfRun DEF Loads, Shape, Fields
  <2>2. PICK x : run' = [run EXCEPT ![o] = x] /\ Keeps(x, r)
    BY <2>1, AdvanceKeeps
  <2>3. KeepsScript(x, run[o])
    BY <2>1, <2>2, KeepsOf
  <2>4. QED
    BY <2>2, <2>3
<1>2. CASE Proposes(o)
  <2> DEFINE r == [run[o] EXCEPT !.copy = "proposed"]
  <2>1. Shape(r) /\ r.script = run[o].script /\ Advance(o, r, 1)
    BY <1>2, ShapeOfRun DEF Proposes, Shape, Fields
  <2>2. PICK x : run' = [run EXCEPT ![o] = x] /\ Keeps(x, r)
    BY <2>1, AdvanceKeeps
  <2>3. KeepsScript(x, run[o])
    BY <2>1, <2>2, KeepsOf
  <2>4. QED
    BY <2>2, <2>3
<1>3. QED
  BY <1>1, <1>2, StepKeeps, KeepsOf

(* What any step does to a run of the test: another script is not it, and  *)
(* a run of it passes only with both roles read.                           *)
LEMMA TestedAfter ==
  ASSUME TypeInv, TestsOK, [Next]_vars, NEW q \in Operators
  PROVE  /\ Tested(run'[q])
         /\ run[q].script = "test-guardian-all" => Passed(run'[q])
<1>1. ASSUME NEW o \in Operators,
             OperatorStep(o) \/ Killed(o) \/ Fault(o) \/ (\E s, p : Launch(o, s, p))
      PROVE  /\ Tested(run'[q])
             /\ run[q].script = "test-guardian-all" => Passed(run'[q])
  <2>1. CASE o = q /\ run[q].script = "test-guardian-all"
    <3>1. PICK x : run' = [run EXCEPT ![q] = x] /\ Tracked(x)
      BY <1>1, <2>1, TestStep
    <3>2. run'[q] = x
      BY <3>1 DEF TypeInv, RunsOK
    <3>3. QED
      BY <3>1, <3>2 DEF Tracked
  <2>2. CASE o = q /\ run[q].script # "test-guardian-all"
    <3>1. PICK x : run' = [run EXCEPT ![q] = x] /\ KeepsScript(x, run[q])
      BY <1>1, <2>2, OneRunMoves
    <3>2. run'[q] = x
      BY <3>1 DEF TypeInv, RunsOK
    <3>3. Tested(x)
      BY <2>2, <3>1 DEF KeepsScript, Tested
    <3>4. QED
      BY <2>2, <3>2, <3>3
  <2>3. CASE o # q
    <3>1. PICK x : run' = [run EXCEPT ![o] = x]
      BY <1>1, OneRunMoves
    <3>2. run'[q] = run[q]
      BY <2>3, <3>1 DEF TypeInv, RunsOK
    <3>3. QED
      BY <3>2 DEF TestsOK, Passed
  <2>4. QED
    BY <2>1, <2>2, <2>3
<1>2. CASE run' = run
  BY <1>2 DEF TestsOK, Passed
<1>3. CASE Tick
  <2>1. run'[q].script = run[q].script /\ run'[q].pc = run[q].pc /\ run'[q].bad = run[q].bad
    <3>1. Shape(run[q])
      BY ShapeOfRun
    <3>2. QED
      BY <1>3, <3>1 DEF Tick, Shape, Fields
  <2>2. Tested(run'[q])
    BY <2>1, Zenon DEF TestsOK, Tested
  <2>3. QED
    BY <2>1, <2>2 DEF Passed
<1>4. CASE (\E p \in Payloads : Voted(p) \/ QueuedInTimelock(p) \/ Executed(p)) \/ Strip \/ UNCHANGED vars
  BY <1>2, <1>4 DEF Voted, QueuedInTimelock, Executed, Strip
<1>5. QED
  BY <1>1, <1>3, <1>4 DEF Next

(* A run of test-guardian-all that ends with exit code 0 has read both of  *)
(* the guardian's roles, and nobody can have taken them away in between:   *)
(* whoever grants, strips or fails meanwhile, the guardian can act.        *)
THEOREM GuardianTestTruthful == Spec => GuardianReady
<1>1. Init => TestsOK
  <2>1. Idle.script = ""
    BY DEF Idle
  <2>2. QED
    BY <2>1 DEF Init, TestsOK, Tested
<1>2. TypeInv /\ TestsOK /\ [Next]_vars => TestsOK'
  <2> SUFFICES ASSUME TypeInv, TestsOK, [Next]_vars, NEW q \in Operators
               PROVE  Tested(run[q])'
    BY DEF TestsOK
  <2>1. Tested(run'[q])
    BY TestedAfter
  <2>2. GuardianOn(Policy) => GuardianOn(Policy)'
    BY GuardianStays
  <2>3. QED
    BY <2>1, <2>2, Zenon DEF Tested
<1>3. TypeInv /\ TestsOK /\ [Next]_vars
        => [\A o \in Operators :
              (run[o].script = "test-guardian-all" /\ run'[o].script = "" /\ run'[o].success)
                => \A c \in {Vault, Policy} : HasRole(c, 0, GUARDIAN, "guardian")]_vars
  <2> SUFFICES ASSUME TypeInv, TestsOK, [Next]_vars, NEW o \in Operators,
                      run[o].script = "test-guardian-all", run'[o].script = "", run'[o].success,
                      NEW c \in {Vault, Policy}
               PROVE  HasRole(c, 0, GUARDIAN, "guardian")
    BY Zenon
  <2>1. Passed(run'[o])
    BY TestedAfter
  <2>2. GuardianOn(Vault) /\ GuardianOn(Policy)
    BY <2>1, Zenon DEF Passed
  <2>3. QED
    BY <2>2 DEF GuardianOn, HasRole, IdOf, Vault, Policy, Module, Staking, Pool
<1>4. QED
  BY <1>1, <1>2, <1>3, TypeInvariant, PTL DEF Spec, GuardianReady

-----------------------------------------------------------------------------
(* The activation scripts.  What a run has read is still what is pending,  *)
(* or was announced afterwards and cannot become due before the run ends.  *)
Fresh(r, s) ==
  (pending[s].exists /\ pending[s] # r.seen) =>
    /\ now < pending[s].eta
    /\ ~r.aged => now + 1 < pending[s].eta
HasRead(r, s) == \/ r.script = "activate-escrow-fee" /\ r.pc \in {4, 5} /\ s = "escrowFee"
                 \/ r.script = "activate-resolution-module" /\ r.pc = 2 /\ s = "resolutionModule"
FreshOK == \A o \in Operators, s \in Slots : HasRead(run[o], s) => Fresh(run[o], s)

LEMMA ActivatingSteps ==
  ASSUME TypeInv, NEW o \in Operators, run[o].script \in Activating
  PROVE  Current(o).op \in {"check", "read", "activate"} /\ Current(o).catch = 0
<1>1. Running(run[o], setup.scripts)
  BY RunningScript DEF Activating
<1>2. CASE run[o].script = "activate-escrow-fee"
  <2>1. run[o].pc \in 1..5 /\ Current(o) = ActivateEscrowFee[run[o].pc]
    BY <1>1, <1>2, ActivatingBodies DEF Running, Current
  <2>2. QED
    BY <2>1, ActivatingBodies
<1>3. CASE run[o].script = "activate-resolution-module"
  <2>1. run[o].pc \in 1..2 /\ Current(o) = ActivateResolutionModule[run[o].pc]
    BY <1>1, <1>3, ActivatingBodies DEF Running, Current
  <2>2. QED
    BY <2>1, ActivatingBodies
<1>4. QED
  BY <1>2, <1>3 DEF Activating

Ends(x) == x.script = ""
Goes(x, r, seen) == /\ x.script = r.script /\ x.pc = r.pc + 1
                    /\ x.aged = r.aged /\ x.seen = seen
LEMMA AdvanceGoesOn ==
  ASSUME NEW o, NEW r, Shape(r), Advance(o, r, 1)
  PROVE  \E x : run' = [run EXCEPT ![o] = x] /\ (Ends(x) \/ Goes(x, r, r.seen))
<1>1. CASE r.pc + 1 <= Len(Body(r.script))
  <2> DEFINE x == [r EXCEPT !.pc = r.pc + 1]
  <2>1. run' = [run EXCEPT ![o] = x]
    BY <1>1 DEF Advance
  <2>2. x.script = r.script /\ x.pc = r.pc + 1 /\ x.aged = r.aged /\ x.seen = r.seen
    BY DEF Shape, Fields
  <2>3. QED
    BY <2>1, <2>2, Zenon DEF Goes
<1>2. CASE ~(r.pc + 1 <= Len(Body(r.script)))
  <2>1. run' = [run EXCEPT ![o] = Finished(o, ~r.bad)]
    BY <1>2 DEF Advance
  <2>2. QED
    BY <2>1, FinishedEmpty, Zenon DEF Ends
<1>3. QED
  BY <1>1, <1>2

(* A step of such a run: it ends, goes on, or has just read.               *)
LEMMA ActivationGoesOn ==
  ASSUME TypeInv, NEW o \in Operators, run[o].script \in Activating,
         OperatorStep(o) \/ Killed(o) \/ Fault(o) \/ (\E s, p : Launch(o, s, p))
  PROVE  \E x : /\ run' = [run EXCEPT ![o] = x]
                /\ \/ Ends(x)
                   \/ Current(o).op # "read" /\ Goes(x, run[o], run[o].seen)
                   \/ /\ Current(o).op = "read" /\ pending' = pending
                      /\ Goes(x, run[o], pending[Current(o).on])
<1>1. /\ Current(o).op \in {"check", "read", "activate"} /\ Current(o).catch = 0
  BY ActivatingSteps
<1>2. Shape(run[o])
  BY ShapeOfRun
<1>4. CASE Fails(o) \/ run' = [run EXCEPT ![o] = Finished(o, TRUE)]
  <2>1. PICK b : run' = [run EXCEPT ![o] = Finished(o, b)]
    BY <1>1, <1>4, Zenon DEF Fails
  <2>2. QED
    BY <2>1, FinishedEmpty, Zenon DEF Ends
<1>5. CASE Killed(o)
  <2>1. Idle.script = ""
    BY DEF Idle
  <2>2. QED
    BY <1>5, <2>1, Zenon DEF Killed, Ends
<1>6. CASE Advance(o, run[o], 1) /\ Current(o).op # "read"
  <2>1. PICK x : run' = [run EXCEPT ![o] = x] /\ (Ends(x) \/ Goes(x, run[o], run[o].seen))
    BY <1>2, <1>6, AdvanceGoesOn, Zenon
  <2>2. QED
    BY <1>6, <2>1, Zenon
<1>7. CASE Reads(o)
  <2> DEFINE r == [run[o] EXCEPT !.seen = pending[Current(o).on]]
  <2>1. /\ Shape(r) /\ r.script = run[o].script /\ r.pc = run[o].pc /\ r.aged = run[o].aged
        /\ r.seen = pending[Current(o).on]
    BY <1>2 DEF Shape, Fields
  <2>2. Advance(o, r, 1)
    BY <1>7, Zenon DEF Reads
  <2>3. PICK x : run' = [run EXCEPT ![o] = x] /\ (Ends(x) \/ Goes(x, r, r.seen))
    BY <2>1, <2>2, AdvanceGoesOn, Zenon
  <2>4. Ends(x) \/ Goes(x, run[o], pending[Current(o).on])
    BY <2>1, <2>3, Zenon DEF Goes
  <2>5. Current(o).op = "read" /\ pending' = pending
    BY <1>7, QuietSteps DEF Reads, At
  <2>6. QED
    BY <2>3, <2>4, <2>5, Zenon
<1>8. \/ Fails(o) \/ run' = [run EXCEPT ![o] = Finished(o, TRUE)] \/ Killed(o) \/ Reads(o)
      \/ Advance(o, run[o], 1) /\ Current(o).op # "read"
  <2>1. ~(\E s, p : Launch(o, s, p))
    BY DEF Launch, Activating
  <2>2. QED
    BY <1>1, <2>1 DEF OperatorStep, Fault, Checks, Skips, Notes, SimulationFails, Reads, GetsModule,
       DeploysModule, Grants, Linking, Queues, Activates, Sets, Pauses, Refused, Writes,
       MissesDeployments, Loads, Proposes, Saves, At, Continue
<1>9. QED
  BY <1>4, <1>5, <1>6, <1>7, <1>8, Zenon

(* The step that activates is the last of its script.                      *)
LEMMA WhereItActivates ==
  ASSUME TypeInv, NEW o \in Operators, At(o, "activate")
  PROVE  HasRead(run[o], Current(o).on)
<1>1. run[o].script \in AllScripts /\ Running(run[o], setup.scripts) /\ Current(o).op = "activate"
  BY RunningScript DEF At
<1>2. run[o].script \in Activating
  BY <1>1, BodyTyped DEF Running, Current
<1>3. CASE run[o].script = "activate-escrow-fee"
  <2>1. run[o].pc \in 1..5 /\ ActivateEscrowFee[run[o].pc].op = "activate"
        /\ Current(o).on = ActivateEscrowFee[run[o].pc].on
    BY <1>1, <1>3, ActivatingBodies DEF Running, Current
  <2>2. QED
    BY <1>3, <2>1, ActivatingBodies DEF HasRead
<1>4. CASE run[o].script = "activate-resolution-module"
  <2>1. run[o].pc \in 1..2 /\ ActivateResolutionModule[run[o].pc].op = "activate"
        /\ Current(o).on = ActivateResolutionModule[run[o].pc].on
    BY <1>1, <1>4, ActivatingBodies DEF Running, Current
  <2>2. QED
    BY <1>4, <2>1, ActivatingBodies DEF HasRead
<1>5. QED
  BY <1>2, <1>3, <1>4 DEF Activating

(* A run that has read comes from one that had, or from the reading.       *)
LEMMA WhereItWas ==
  ASSUME TypeInv, NEW o \in Operators, run[o].script \in Activating, NEW x, NEW s,
         x.script = run[o].script, x.pc = run[o].pc + 1, HasRead(x, s)
  PROVE  \/ HasRead(run[o], s) /\ Current(o).op # "read"
         \/ Current(o).op = "read" /\ Current(o).on = s
<1>1. Running(run[o], setup.scripts)
  BY RunningScript DEF Activating
<1>2. CASE run[o].script = "activate-escrow-fee"
  <2>1. run[o].pc \in 1..5 /\ Current(o) = ActivateEscrowFee[run[o].pc]
    BY <1>1, <1>2, ActivatingBodies DEF Running, Current
  <2>2. s = "escrowFee" /\ run[o].pc \in {3, 4}
    BY <1>2, <2>1 DEF HasRead
  <2>3. QED
    BY <1>2, <2>1, <2>2, ActivatingBodies DEF HasRead
<1>3. CASE run[o].script = "activate-resolution-module"
  <2>1. run[o].pc \in 1..2 /\ Current(o) = ActivateResolutionModule[run[o].pc]
    BY <1>1, <1>3, ActivatingBodies DEF Running, Current
  <2>2. s = "resolutionModule" /\ run[o].pc = 1
    BY <1>3, <2>1 DEF HasRead
  <2>3. QED
    BY <1>3, <2>1, <2>2, ActivatingBodies DEF HasRead
<1>4. QED
  BY <1>2, <1>3 DEF Activating

(* What one step of a run does to every run.                               *)
SameReading(r, q, s) == HasRead(r, s) /\ q.seen = r.seen /\ q.aged = r.aged
LEMMA NothingReadYet ==
  ASSUME NEW r, NEW x, NEW s, r.script \notin Activating, KeepsScript(x, r)
  PROVE  ~HasRead(x, s)
<1>1. x.script \in {r.script, ""} => x.script \notin Activating
  BY DEF Activating
<1>2. CASE x.pc = 1
  BY <1>2 DEF HasRead
<1>3. CASE x.script \notin Activating
  BY <1>3, Zenon DEF HasRead, Activating
<1>4. QED
  BY <1>1, <1>2, <1>3, Zenon DEF KeepsScript

LEMMA ReadingAfter ==
  ASSUME TypeInv, NEW o \in Operators, NEW q \in Operators, NEW s \in Slots, HasRead(run'[q], s),
         OperatorStep(o) \/ Killed(o) \/ Fault(o) \/ (\E x, y : Launch(o, x, y))
  PROVE  SameReading(run[q], run'[q], s) \/ (run'[q].seen = pending[s] /\ pending' = pending)
<1>1. CASE o # q
  <2>1. PICK x : run' = [run EXCEPT ![o] = x]
    BY OneRunMoves
  <2>2. run'[q] = run[q]
    BY <1>1, <2>1 DEF TypeInv, RunsOK
  <2>3. QED
    BY <2>2 DEF SameReading
<1>2. CASE o = q /\ run[q].script \notin Activating
  <2>1. PICK x : run' = [run EXCEPT ![q] = x] /\ KeepsScript(x, run[q])
    BY <1>2, OneRunMoves
  <2>2. run'[q] = x
    BY <2>1 DEF TypeInv, RunsOK
  <2>3. QED
    BY <1>2, <2>1, <2>2, NothingReadYet
<1>3. CASE o = q /\ run[q].script \in Activating
  <2>1. PICK x : /\ run' = [run EXCEPT ![q] = x]
                 /\ \/ Ends(x)
                    \/ Current(q).op # "read" /\ Goes(x, run[q], run[q].seen)
                    \/ /\ Current(q).op = "read" /\ pending' = pending
                       /\ Goes(x, run[q], pending[Current(q).on])
    BY <1>3, ActivationGoesOn, Zenon
  <2>2. run'[q] = x
    BY <2>1 DEF TypeInv, RunsOK
  <2>3. HasRead(x, s) /\ ~Ends(x)
    BY <2>2, Zenon DEF HasRead, Ends
  <2>4. x.script = run[q].script /\ x.pc = run[q].pc + 1 /\ x.aged = run[q].aged
    BY <2>1, <2>3, Zenon DEF Goes
  <2>5. \/ HasRead(run[q], s) /\ Current(q).op # "read"
        \/ Current(q).op = "read" /\ Current(q).on = s
    BY <1>3, <2>3, <2>4, WhereItWas, Zenon
  <2>6. CASE x.seen = run[q].seen /\ Current(q).op # "read"
    BY <2>2, <2>4, <2>5, <2>6, Zenon DEF SameReading
  <2>7. CASE x.seen = pending[Current(q).on] /\ Current(q).op = "read" /\ pending' = pending
    BY <1>3, <2>2, <2>4, <2>5, <2>7, Zenon
  <2>8. QED
    BY <2>1, <2>3, <2>6, <2>7, Zenon DEF Goes
<1>4. QED
  BY <1>1, <1>2, <1>3

(* What one step does to what is pending.                                  *)
PendingAfter(s) == pending'[s] = pending[s] \/ ~pending'[s].exists \/ pending'[s].eta = now + SLOW_DELAY

LEMMA PendingMoves ==
  ASSUME TypeInv, [Next]_vars, ~Tick, NEW s \in Slots
  PROVE  PendingAfter(s) /\ now' = now
<1>1. pending = [t \in Slots |-> pending[t]]
  BY DEF TypeInv, SlotsOK
<1>2. ASSUME NEW t, NEW v, QueueSlot(t, v) PROVE PendingAfter(s)
  BY <1>1, <1>2 DEF QueueSlot, PendingAfter
<1>3. ASSUME NEW t, ActivateSlot(t) PROVE PendingAfter(s)
  BY <1>1, <1>3 DEF ActivateSlot, Nothing, PendingAfter
<1>4. ASSUME NEW o \in Operators, OperatorStep(o) PROVE PendingAfter(s) /\ now' = now
  <2>1. CASE Queues(o)
    BY <1>2, <2>1 DEF Queues
  <2>2. CASE Activates(o)
    BY <1>3, <2>2 DEF Activates
  <2>3. CASE DeploysModule(o) \/ Grants(o) \/ Linking(o) \/ Sets(o) \/ Pauses(o) \/ Writes(o)
             \/ Proposes(o) \/ Saves(o)
    BY <2>3 DEF DeploysModule, Grants, Linking, Sets, Pauses, Writes, Proposes, Saves, PendingAfter
  <2>4. QED
    BY <1>4, <2>1, <2>2, <2>3, QuietSteps DEF OperatorStep, PendingAfter
<1>5. ASSUME NEW o \in Operators, Killed(o) \/ Fault(o) \/ (\E x, y : Launch(o, x, y))
      PROVE  PendingAfter(s) /\ now' = now
  BY <1>5, QuietSteps DEF PendingAfter
<1>6. ASSUME NEW p \in Payloads, Voted(p) \/ QueuedInTimelock(p) \/ Executed(p)
      PROVE  PendingAfter(s) /\ now' = now
  <2>1. CASE Voted(p) \/ QueuedInTimelock(p)
    BY <2>1 DEF Voted, QueuedInTimelock, PendingAfter
  <2>2. CASE Executed(p)
    BY <1>2, <1>3, <2>2 DEF Executed
  <2>3. QED
    BY <1>6, <2>1, <2>2
<1>7. CASE Strip \/ UNCHANGED vars
  BY <1>7 DEF Strip, PendingAfter
<1>8. QED
  BY <1>4, <1>5, <1>6, <1>7 DEF Next

(* Reading changes nothing that is pending.                                *)
LEMMA ReadsQuietly ==
  ASSUME TypeInv, [Next]_vars, ~Tick, NEW q \in Operators, NEW s \in Slots, HasRead(run'[q], s)
  PROVE  SameReading(run[q], run'[q], s) \/ run'[q].seen = pending'[s]
<1>1. ASSUME NEW o \in Operators,
             OperatorStep(o) \/ Killed(o) \/ Fault(o) \/ (\E x, y : Launch(o, x, y))
      PROVE  SameReading(run[q], run'[q], s) \/ run'[q].seen = pending'[s]
  <2>1. SameReading(run[q], run'[q], s) \/ (run'[q].seen = pending[s] /\ pending' = pending)
    BY <1>1, ReadingAfter
  <2>2. QED
    BY <2>1
<1>2. CASE run' = run
  BY <1>2 DEF SameReading
<1>3. CASE (\E p \in Payloads : Voted(p) \/ QueuedInTimelock(p) \/ Executed(p)) \/ Strip \/ UNCHANGED vars
  BY <1>2, <1>3 DEF Voted, QueuedInTimelock, Executed, Strip
<1>4. QED
  BY <1>1, <1>3 DEF Next

(* The delay is longer than a script: what is announced after the reading  *)
(* is not due before the run has ended.                                    *)
LEMMA NotDueYet ==
  ASSUME SLOW_DELAY > 1, TypeInv, NEW s \in Slots
  PROVE  /\ now < now + SLOW_DELAY /\ now + 1 < now + SLOW_DELAY
         /\ pending[s].eta \in Nat
<1>1. now \in Nat /\ SLOW_DELAY \in Nat
  BY SetupTyped, OperationsAssumption
<1>2. QED
  BY <1>1 DEF TypeInv, SlotsOK

LEMMA FreshAfter ==
  ASSUME SLOW_DELAY > 1, TypeInv, [Next]_vars, ~Tick, NEW q \in Operators, NEW s \in Slots,
         HasRead(run'[q], s), FreshOK
  PROVE  Fresh(run[q], s)'
<1>1. PendingAfter(s) /\ now' = now
  BY PendingMoves
<1>2. now < now + SLOW_DELAY /\ now + 1 < now + SLOW_DELAY
  BY NotDueYet
<1>3. CASE run'[q].seen = pending'[s]
  BY <1>3 DEF Fresh
<1>4. CASE SameReading(run[q], run'[q], s)
  <2>1. run'[q].seen = run[q].seen /\ run'[q].aged = run[q].aged /\ Fresh(run[q], s)
    BY <1>4 DEF SameReading, FreshOK
  <2>2. CASE pending'[s] = pending[s]
    BY <1>1, <2>1, <2>2, Zenon DEF Fresh
  <2>3. CASE ~pending'[s].exists
    BY <2>3, Zenon DEF Fresh
  <2>4. CASE pending'[s].eta = now + SLOW_DELAY
    BY <1>1, <1>2, <2>4, Zenon DEF Fresh
  <2>5. QED
    BY <1>1, <2>2, <2>3, <2>4, Zenon DEF PendingAfter
<1>5. QED
  BY <1>3, <1>4, ReadsQuietly

LEMMA FreshAfterTick ==
  ASSUME TypeInv, Tick, NEW q \in Operators, NEW s \in Slots,
         HasRead(run'[q], s), FreshOK
  PROVE  Fresh(run[q], s)'
<1>1. run'[q] = IF run[q].script = "" THEN run[q] ELSE [run[q] EXCEPT !.aged = TRUE]
  BY DEF Tick
<1>2. run[q].script # ""
  BY <1>1 DEF HasRead
<1>3. Shape(run[q])
  BY ShapeOfRun
<1>4. /\ run'[q].script = run[q].script /\ run'[q].pc = run[q].pc
      /\ run'[q].seen = run[q].seen /\ run'[q].aged
  BY <1>1, <1>2, <1>3 DEF Shape, Fields
<1>5. HasRead(run[q], s)
  BY <1>4, Zenon DEF HasRead
<1>6. ~run[q].aged /\ pending' = pending /\ now' = now + 1
  BY DEF Tick
<1>7. QED
  BY <1>4, <1>5, <1>6, Zenon DEF FreshOK, Fresh

(* A setting that changes while a script at its activation moves was       *)
(* changed by that very call.                                              *)
LEMMA OnlyItActivates ==
  ASSUME TypeInv, Next, NEW o \in Operators, At(o, "activate"),
         setting' # setting, run'[o] # run[o]
  PROVE  Activates(o)
<1>1. ASSUME NEW q \in Operators,
             OperatorStep(q) \/ Killed(q) \/ Fault(q) \/ (\E x, y : Launch(q, x, y))
      PROVE  q = o
  <2>1. PICK x : run' = [run EXCEPT ![q] = x]
    BY <1>1, OneRunMoves
  <2>2. QED
    BY <2>1 DEF TypeInv, RunsOK
<1>2. CASE OperatorStep(o)
  <2>1. ~Sets(o)
    BY DEF Sets, At
  <2>2. CASE DeploysModule(o) \/ Grants(o) \/ Linking(o) \/ Queues(o) \/ Pauses(o) \/ Writes(o)
             \/ Proposes(o) \/ Saves(o)
    BY <2>2 DEF DeploysModule, Grants, Linking, Queues, Pauses, Writes, Proposes, Saves
  <2>3. QED
    BY <1>2, <2>1, <2>2, QuietSteps DEF OperatorStep
<1>3. CASE Killed(o) \/ Fault(o) \/ (\E x, y : Launch(o, x, y))
  BY <1>3, QuietSteps
<1>4. CASE \E p \in Payloads : Voted(p) \/ QueuedInTimelock(p) \/ Executed(p)
  BY <1>4 DEF Voted, QueuedInTimelock, Executed
<1>5. CASE Strip \/ Tick
  BY <1>5 DEF Strip, Tick
<1>6. QED
  BY <1>1, <1>2, <1>3, <1>4, <1>5 DEF Next

(* A script that activates a setting has read what is pending, and with a  *)
(* delay longer than the script nothing announced since can be due: what   *)
(* it puts into effect is what it read.                                    *)
THEOREM WhatWasRead ==
  ASSUME SLOW_DELAY > 1
  PROVE  Spec => ActivatesWhatItRead
<1>1. Init => FreshOK
  <2>1. Idle.script = ""
    BY DEF Idle
  <2>2. QED
    BY <2>1 DEF Init, FreshOK, HasRead
<1>2. TypeInv /\ FreshOK /\ [Next]_vars => FreshOK'
  BY FreshAfter, FreshAfterTick DEF FreshOK
<1>3. TypeInv /\ FreshOK /\ [Next]_vars
        => [\A o \in Operators :
              (At(o, "activate") /\ setting' # setting /\ run'[o] # run[o])
                => setting'[Current(o).on] = run[o].seen.value]_vars
  <2> SUFFICES ASSUME TypeInv, FreshOK, Next, NEW o \in Operators, At(o, "activate"),
                      setting' # setting, run'[o] # run[o]
               PROVE  setting'[Current(o).on] = run[o].seen.value
    OBVIOUS
  <2>1. Activates(o)
    BY OnlyItActivates
  <2>2. HasRead(run[o], Current(o).on) /\ Current(o).on \in Slots
    BY WhereItActivates DEF HasRead, Slots
  <2>3. Fresh(run[o], Current(o).on)
    BY <2>2 DEF FreshOK
  <2>4. CanActivate(Current(o).on, Current(o).by) /\ ActivateSlot(Current(o).on)
    BY <2>1 DEF Activates
  <2>5. pending[Current(o).on].exists /\ now >= pending[Current(o).on].eta
    BY <2>4 DEF CanActivate
  <2>6. ~(now < pending[Current(o).on].eta)
    BY <2>2, <2>5, SetupTyped DEF TypeInv, SlotsOK
  <2>7. pending[Current(o).on] = run[o].seen
    BY <2>3, <2>5, <2>6, Zenon DEF Fresh
  <2>8. setting = [t \in Slots |-> setting[t]]
    BY DEF TypeInv, SlotsOK
  <2>9. QED
    BY <2>2, <2>4, <2>7, <2>8 DEF ActivateSlot
<1>4. QED
  BY <1>1, <1>2, <1>3, TypeInvariant, PTL DEF Spec, ActivatesWhatItRead

-----------------------------------------------------------------------------
(* A fact about the module numbered m, read from the roles and links.      *)
DrmScript == "deploy-drm-and-set-immediate"
Facts == DrmParts \cup {Governs}
TruthIn(f, m, rs, ls) == \/ f.kind = "role" /\ <<f.on, IdOf(f.on, m), f.what, f.who>> \in rs
                         \/ f.kind = "link" /\ <<f.on, IdOf(f.on, m), f.what>> \in ls
Truth(f, m) == TruthIn(f, m, roles, links)

LEMMA FactFields ==
  /\ \A c, l : /\ Linked(c, l).kind = "link" /\ Linked(c, l).on = c /\ Linked(c, l).what = l
               /\ Linked(c, l) # NEVER
  /\ \A c, r, a : /\ Has(c, r, a).kind = "role" /\ Has(c, r, a).on = c /\ Has(c, r, a).what = r
                  /\ Has(c, r, a).who = a /\ Has(c, r, a) # NEVER
BY DEF Linked, Has, Cond, NEVER

LEMMA FactKinds ==
  ASSUME NEW f \in Facts
  PROVE  /\ f # NEVER /\ f.kind \in {"role", "link"}
         /\ f.kind = "role" => f.who = "TimelockController"
BY FactFields DEF Facts, DrmParts, Governs

LEMMA FactRead ==
  ASSUME NEW f \in Facts, NEW o, Holds(f, o)
  PROVE  Truth(f, run[o].module)
<1>1. CASE f.kind = "role"
  BY <1>1 DEF Holds, Truth, TruthIn, HasRole
<1>2. CASE f.kind = "link"
  BY <1>2 DEF Holds, Truth, TruthIn
<1>3. QED
  BY <1>1, <1>2, FactKinds

LEMMA FactMadeTrue ==
  ASSUME NEW f, NEW o, Makes(Current(o), f), Grants(o) \/ Linking(o)
  PROVE  TruthIn(f, run[o].module, roles', links')
<1>1. CASE Current(o).op = "grant"
  <2>1. Grants(o) /\ f = Has(Current(o).on, Current(o).what, Current(o).who)
    BY <1>1 DEF Makes, Linking, At
  <2>2. <<Current(o).on, IdOf(Current(o).on, run[o].module), Current(o).what, Current(o).who>> \in roles'
    BY <2>1 DEF Grants
  <2>3. QED
    BY <2>1, <2>2, FactFields DEF TruthIn
<1>2. CASE Current(o).op = "link"
  <2>1. Linking(o) /\ f = Linked(Current(o).on, Current(o).what)
    BY <1>2 DEF Makes, Grants, At
  <2>2. <<Current(o).on, IdOf(Current(o).on, run[o].module), Current(o).what>> \in links'
    BY <2>1 DEF Linking
  <2>3. QED
    BY <2>1, <2>2, FactFields DEF TruthIn
<1>3. QED
  BY <1>1, <1>2 DEF Makes

(* Nobody takes a role from anybody but the deployer, or a link away.      *)
LEMMA RolesStay ==
  ASSUME [Next]_vars
  PROVE  /\ \A t \in roles : t[4] # "deployer" => t \in roles'
         /\ links \subseteq links'
<1>1. ASSUME NEW o \in Operators, OperatorStep(o) PROVE roles \subseteq roles' /\ links \subseteq links'
  <2>1. CASE DeploysModule(o) \/ Grants(o) \/ Linking(o)
    BY <2>1 DEF DeploysModule, Grants, Linking
  <2>2. CASE Queues(o) \/ Activates(o) \/ Sets(o) \/ Pauses(o) \/ Writes(o) \/ Proposes(o) \/ Saves(o)
    BY <2>2 DEF Queues, Activates, Sets, Pauses, Writes, Proposes, Saves
  <2>3. QED
    BY <1>1, <2>1, <2>2, QuietSteps DEF OperatorStep
<1>2. ASSUME NEW o \in Operators, Killed(o) \/ Fault(o) \/ (\E x, y : Launch(o, x, y))
      PROVE  roles \subseteq roles' /\ links \subseteq links'
  BY <1>2, QuietSteps
<1>3. CASE Strip
  BY <1>3 DEF Strip
<1>4. CASE (\E q \in Payloads : Voted(q) \/ QueuedInTimelock(q) \/ Executed(q)) \/ Tick \/ UNCHANGED vars
  BY <1>4 DEF Voted, QueuedInTimelock, Executed, Tick
<1>5. QED
  BY <1>1, <1>2, <1>3, <1>4 DEF Next

LEMMA FactStays ==
  ASSUME [Next]_vars, NEW f \in Facts, NEW m, Truth(f, m)
  PROVE  Truth(f, m)'
<1>1. TruthIn(f, m, roles', links')
  BY RolesStay, FactKinds DEF Truth, TruthIn
<1>2. QED
  BY <1>1 DEF Truth, TruthIn, IdOf

-----------------------------------------------------------------------------
(* One step of a run.                                                      *)
Over(x) == x.script = "" /\ x.module = 0
LEMMA FinishedOver == \A o, b : Over(Finished(o, b))
BY DEF Finished, Idle, Over

LEMMA AdvanceTo ==
  ASSUME TypeInv, NEW o \in Operators, NEW r, NEW n, Shape(r), Advance(o, r, n)
  PROVE  \/ Over(run'[o])
         \/ run'[o].script = r.script /\ run'[o].pc = r.pc + n /\ run'[o].module = r.module
<1>1. \A y : run' = [run EXCEPT ![o] = y] => run'[o] = y
  BY DEF TypeInv, RunsOK
<1>2. CASE r.pc + n <= Len(Body(r.script))
  <2> DEFINE x == [r EXCEPT !.pc = r.pc + n]
  <2>1. run' = [run EXCEPT ![o] = x]
    BY <1>2 DEF Advance
  <2>2. x.script = r.script /\ x.pc = r.pc + n /\ x.module = r.module
    BY DEF Shape, Fields
  <2>3. QED
    BY <1>1, <2>1, <2>2, Zenon
<1>3. CASE ~(r.pc + n <= Len(Body(r.script)))
  <2>1. run' = [run EXCEPT ![o] = Finished(o, ~r.bad)]
    BY <1>3 DEF Advance
  <2>2. QED
    BY <1>1, <2>1, FinishedOver
<1>4. QED
  BY <1>2, <1>3

(* A module is learnt from hardhat-deploy or by deploying it.              *)
Learning(o, m) == (GetsModule(o) /\ m = 1) \/ (DeploysModule(o) /\ m = modules + 1)
Stepped(o) ==
  LET r == run[o]
      x == run'[o]
      c == Current(o)
  IN /\ x.script = r.script
     /\ x.module = r.module \/ (Learns(c) /\ Learning(o, x.module))
     /\ \/ c.catch # 0
        \/ /\ c.op = "skip"
           /\ x.pc = r.pc + 1 \/ (x.pc = r.pc + (c.what + 1) /\ (Holds(c.cond, o) \/ c.cond = NEVER))
        \/ /\ c.op # "skip" /\ x.pc = r.pc + 1
           /\ c.op = "grant" => Grants(o)
           /\ c.op = "link" => Linking(o)

LEMMA OneStep ==
  ASSUME TypeInv, NEW o \in Operators, run[o].script # "", OperatorStep(o) \/ Killed(o) \/ Fault(o)
  PROVE  Over(run'[o]) \/ Stepped(o)
<1>0. Shape(run[o]) /\ \A y : run' = [run EXCEPT ![o] = y] => run'[o] = y
  BY ShapeOfRun DEF TypeInv, RunsOK
<1>1. CASE Fails(o)
  <2> DEFINE r == [run[o] EXCEPT !.bad = run[o].bad \/ Current(o).op = "note"]
  <2>1. CASE Current(o).catch = 0
    BY <1>0, <1>1, <2>1, FinishedOver DEF Fails
  <2>2. CASE Current(o).catch # 0
    <3>1. \A y : LET q == [run[o] EXCEPT !.bad = y] IN
                   Shape(q) /\ q.script = run[o].script /\ q.module = run[o].module
      BY <1>0 DEF Shape, Fields
    <3>2. Shape(r) /\ r.script = run[o].script /\ r.module = run[o].module
      BY <3>1, Zenon
    <3>3. Advance(o, r, Current(o).catch)
      BY <1>1, <2>2 DEF Fails
    <3> HIDE DEF r
    <3>4. Over(run'[o]) \/ (run'[o].script = r.script /\ run'[o].module = r.module)
      BY <3>2, <3>3, AdvanceTo
    <3>5. QED
      BY <2>2, <3>2, <3>4 DEF Stepped
  <2>3. QED
    BY <2>1, <2>2
<1>2. CASE Killed(o) \/ run' = [run EXCEPT ![o] = Finished(o, TRUE)]
  <2>1. Over(Idle)
    BY DEF Over, Idle
  <2>2. CASE Killed(o)
    BY <1>0, <2>1, <2>2, Zenon DEF Killed
  <2>3. CASE run' = [run EXCEPT ![o] = Finished(o, TRUE)]
    BY <1>0, <2>3, FinishedOver, Zenon
  <2>4. QED
    BY <1>2, <2>2, <2>3
<1>3. CASE Skips(o)
  <2>1. Current(o).op = "skip"
    BY <1>3 DEF Skips, At
  <2>2. \/ Advance(o, run[o], 1)
        \/ Advance(o, run[o], Current(o).what + 1) /\ (Holds(Current(o).cond, o) \/ Current(o).cond = NEVER)
    BY <1>3 DEF Skips
  <2>3. \/ Over(run'[o])
        \/ /\ run'[o].script = run[o].script /\ run'[o].module = run[o].module
           /\ \/ run'[o].pc = run[o].pc + 1
              \/ /\ run'[o].pc = run[o].pc + (Current(o).what + 1)
                 /\ Holds(Current(o).cond, o) \/ Current(o).cond = NEVER
    BY <1>0, <2>2, AdvanceTo
  <2>4. QED
    BY <2>1, <2>3 DEF Stepped
<1>4. ASSUME NEW r, Advance(o, r, 1), Shape(r), r.script = run[o].script, r.pc = run[o].pc,
             r.module = run[o].module \/ (Learns(Current(o)) /\ Learning(o, r.module)), Current(o).op # "skip",
             Current(o).op = "grant" => Grants(o), Current(o).op = "link" => Linking(o)
      PROVE  Over(run'[o]) \/ Stepped(o)
  <2>1. \/ Over(run'[o])
        \/ run'[o].script = r.script /\ run'[o].pc = r.pc + 1 /\ run'[o].module = r.module
    BY <1>4, AdvanceTo
  <2>2. QED
    BY <1>4, <2>1 DEF Stepped
<1>5. CASE Advance(o, run[o], 1) /\ Current(o).op # "skip"
           /\ (Current(o).op = "grant" => Grants(o)) /\ (Current(o).op = "link" => Linking(o))
  BY <1>0, <1>4, <1>5
<1>6. CASE Reads(o) \/ Loads(o) \/ Proposes(o)
  <2>1. \A y : LET q == [run[o] EXCEPT !.seen = y]
                   t == [run[o] EXCEPT !.copy = y]
               IN /\ Shape(q) /\ q.script = run[o].script /\ q.pc = run[o].pc /\ q.module = run[o].module
                  /\ Shape(t) /\ t.script = run[o].script /\ t.pc = run[o].pc /\ t.module = run[o].module
    BY <1>0 DEF Shape, Fields
  <2>2. Current(o).op \notin {"skip", "grant", "link"}
    BY <1>6 DEF Reads, Loads, Proposes, At
  <2>3. \E r : /\ Advance(o, r, 1) /\ Shape(r) /\ r.script = run[o].script /\ r.pc = run[o].pc
               /\ r.module = run[o].module
    <3>1. CASE Reads(o)
      <4> DEFINE y == pending[Current(o).on]
                 q == [run[o] EXCEPT !.seen = y]
      <4>1. Advance(o, q, 1)
        BY <3>1 DEF Reads
      <4> HIDE DEF y
      <4>2. Shape(q) /\ q.script = run[o].script /\ q.pc = run[o].pc /\ q.module = run[o].module
        BY <2>1
      <4> HIDE DEF q
      <4>3. QED
        BY <4>1, <4>2
    <3>2. CASE Loads(o)
      BY <2>1, <3>2, Zenon DEF Loads
    <3>3. CASE Proposes(o)
      <4>1. Advance(o, [run[o] EXCEPT !.copy = "proposed"], 1)
        BY <3>3 DEF Proposes
      <4>2. QED
        BY <2>1, <4>1, Zenon
    <3>4. QED
      BY <1>6, <3>1, <3>2, <3>3
  <2>4. QED
    BY <1>4, <2>2, <2>3
<1>7. CASE GetsModule(o) \/ DeploysModule(o)
  <2>1. \A y : LET q == [run[o] EXCEPT !.module = y]
               IN Shape(q) /\ q.script = run[o].script /\ q.pc = run[o].pc /\ q.module = y
    BY <1>0 DEF Shape, Fields
  <2>2. Learns(Current(o)) /\ Current(o).op \notin {"skip", "grant", "link"}
    BY <1>7 DEF GetsModule, DeploysModule, At, Learns
  <2>3. \E r : /\ Advance(o, r, 1) /\ Shape(r) /\ r.script = run[o].script /\ r.pc = run[o].pc
               /\ Learning(o, r.module)
    <3>1. CASE GetsModule(o)
      <4> DEFINE q == [run[o] EXCEPT !.module = 1]
      <4>1. Advance(o, q, 1)
        BY <3>1 DEF GetsModule
      <4>2. Shape(q) /\ q.script = run[o].script /\ q.pc = run[o].pc /\ q.module = 1
        BY <2>1
      <4> HIDE DEF q
      <4>3. Learning(o, q.module)
        BY <3>1, <4>2 DEF Learning
      <4>4. QED
        BY <4>1, <4>2, <4>3, Zenon
    <3>2. CASE DeploysModule(o)
      <4> DEFINE y == modules + 1
                 q == [run[o] EXCEPT !.module = y]
      <4>1. Advance(o, q, 1)
        BY <3>2 DEF DeploysModule
      <4>2. Shape(q) /\ q.script = run[o].script /\ q.pc = run[o].pc /\ q.module = y
        BY <2>1
      <4> HIDE DEF q
      <4>3. Learning(o, q.module)
        BY <3>2, <4>2 DEF Learning
      <4>4. QED
        BY <4>1, <4>2, <4>3, Zenon
    <3>3. QED
      BY <1>7, <3>1, <3>2
  <2>4. QED
    BY <1>4, <2>2, <2>3
<1>8. \/ Fails(o) \/ Killed(o) \/ run' = [run EXCEPT ![o] = Finished(o, TRUE)] \/ Skips(o)
      \/ Reads(o) \/ Loads(o) \/ Proposes(o) \/ GetsModule(o) \/ DeploysModule(o)
      \/ Advance(o, run[o], 1) /\ Current(o).op # "skip"
           /\ (Current(o).op = "grant" => Grants(o)) /\ (Current(o).op = "link" => Linking(o))
  BY DEF OperatorStep, Fault, Checks, Notes, SimulationFails, Grants, Linking, Queues, Activates, Sets,
     Pauses, Refused, Writes, MissesDeployments, Saves, At, Continue
<1>9. QED
  BY <1>1, <1>2, <1>3, <1>5, <1>6, <1>7, <1>8

-----------------------------------------------------------------------------
(* What any step does to a run: it is over, starts, stays, or takes one    *)
(* step of its body.                                                       *)
Stays(p) == run'[p].script = run[p].script /\ run'[p].pc = run[p].pc /\ run'[p].module = run[p].module
Starts(p) == run'[p].pc = 1 /\ run'[p].module = 0
Acts(o) == OperatorStep(o) \/ Killed(o) \/ Fault(o)

LEMMA ActsRunning == ASSUME NEW o, Acts(o) PROVE run[o].script # ""
BY DEF Acts, OperatorStep, Killed, Fault, Checks, Skips, Notes, SimulationFails, Reads, GetsModule,
   DeploysModule, Grants, Linking, Queues, Activates, Sets, Pauses, Refused, Writes,
   MissesDeployments, Loads, Proposes, Saves, At

LEMMA OthersStay ==
  ASSUME TypeInv, NEW o \in Operators, Acts(o) \/ (\E s, p : Launch(o, s, p)),
         NEW p \in Operators, p # o
  PROVE  run'[p] = run[p]
<1>1. PICK x : run' = [run EXCEPT ![o] = x]
  BY OneRunMoves DEF Acts
<1>2. QED
  BY <1>1 DEF TypeInv, RunsOK

LEMMA RunAfterStep ==
  ASSUME TypeInv, [Next]_vars, NEW p \in Operators
  PROVE  \/ Over(run'[p]) \/ Starts(p) \/ Stays(p)
         \/ run[p].script # "" /\ Acts(p) /\ Stepped(p)
<1>1. ASSUME NEW o \in Operators, Acts(o) \/ (\E s, q : Launch(o, s, q)), o # p
      PROVE  Stays(p)
  BY <1>1, OthersStay DEF Stays
<1>2. CASE Acts(p)
  BY <1>2, ActsRunning, OneStep DEF Acts
<1>3. CASE \E s, q : Launch(p, s, q)
  <2>1. PICK s, q : run' = [run EXCEPT ![p] = [Idle EXCEPT !.script = s, !.payload = q, !.pc = 1]]
    BY <1>3 DEF Launch
  <2> DEFINE x == [Idle EXCEPT !.script = s, !.payload = q, !.pc = 1]
  <2>2. x.pc = 1 /\ x.module = 0
    BY DEF Idle
  <2> HIDE DEF x
  <2>3. run'[p] = x
    BY <2>1 DEF TypeInv, RunsOK, x
  <2>4. QED
    BY <2>2, <2>3 DEF Starts
<1>4. CASE Tick
  <2>1. Shape(run[p])
    BY ShapeOfRun
  <2>2. QED
    BY <1>4, <2>1 DEF Tick, Shape, Fields, Stays
<1>5. CASE (\E q \in Payloads : Voted(q) \/ QueuedInTimelock(q) \/ Executed(q)) \/ Strip \/ UNCHANGED vars
  BY <1>5 DEF Voted, QueuedInTimelock, Executed, Strip, Stays
<1>6. QED
  BY <1>1, <1>2, <1>3, <1>4, <1>5 DEF Next, Acts

-----------------------------------------------------------------------------
(* What a body has secured before the step a run is at is true of the      *)
(* module the run works on.                                                *)
Busy(r) == r.script # ""
Learnt(o) ==
  \A f \in Facts, k \in Nat :
    (Busy(run[o]) /\ Secured(Body(run[o].script), k, f) /\ run[o].pc >= k)
      => Truth(f, run[o].module)

LEMMA LearntByStep ==
  ASSUME TypeInv, [Next]_vars, NEW o \in Operators, Learnt(o), Busy(run[o]), Stepped(o),
         NEW f \in Facts, NEW k \in Nat, Secured(Body(run[o].script), k, f), run'[o].pc >= k
  PROVE  Truth(f, run'[o].module) \/ TruthIn(f, run'[o].module, roles', links')
<1> DEFINE c == Current(o)
           n == run[o].pc
           b == Body(run[o].script)
<1>1. n \in 1..Len(b) /\ Len(b) \in Nat /\ c = b[n]
  BY RunningScript, BodyTyped DEF Running, Current, Busy
<1>2. k \in 2..Len(b) + 1 /\ (\A i \in 1..k - 1 : Leads(b[i], i, k, f)) /\ (\A i \in k..Len(b) : ~Learns(b[i]))
  BY DEF Secured
<1> HIDE DEF c, n, b
<1>3. CASE n >= k
  <2>1. ~Learns(c)
    BY <1>1, <1>2, <1>3
  <2>2. run'[o].module = run[o].module
    BY <2>1 DEF Stepped, c
  <2>3. QED
    BY <1>3, <2>2 DEF Learnt, n
<1>4. CASE n < k
  <2>1. Leads(c, n, k, f)
    BY <1>1, <1>2, <1>4
  <2>2. c.catch = 0
    BY <2>1 DEF Leads
  <2>3. CASE c.op = "skip"
    <3>1. run'[o].module = run[o].module
      BY <2>3 DEF Stepped, Learns, c
    <3>2. c.what \in Nat /\ n + 1 < k /\ (n + c.what + 1 < k \/ c.cond = f)
      BY <2>1, <2>3 DEF Leads
    <3>3. \/ run'[o].pc = n + 1
          \/ run'[o].pc = n + (c.what + 1) /\ (Holds(c.cond, o) \/ c.cond = NEVER)
      BY <2>2, <2>3 DEF Stepped, c, n
    <3>4. c.cond = f /\ (Holds(c.cond, o) \/ c.cond = NEVER)
      BY <1>1, <1>2, <3>2, <3>3
    <3>5. Holds(f, o)
      BY <3>4, FactKinds
    <3>6. QED
      BY <3>1, <3>5, FactRead
  <2>4. CASE c.op # "skip"
    <3>1. run'[o].pc = n + 1 /\ (c.op = "grant" => Grants(o)) /\ (c.op = "link" => Linking(o))
      BY <2>2, <2>4 DEF Stepped, c, n
    <3>2. Makes(c, f)
      BY <1>1, <1>2, <2>1, <2>4, <3>1 DEF Leads
    <3>3. c.op \in {"grant", "link"}
      BY <3>2 DEF Makes
    <3>4. run'[o].module = run[o].module
      BY <3>3 DEF Stepped, Learns, c
    <3>5. TruthIn(f, run[o].module, roles', links')
      BY <3>1, <3>2, <3>3, FactMadeTrue DEF c
    <3>6. QED
      BY <3>4, <3>5
  <2>5. QED
    BY <2>3, <2>4
<1>5. QED
  BY <1>1, <1>2, <1>3, <1>4

LEMMA LearntAfter ==
  ASSUME TypeInv, [Next]_vars, NEW o \in Operators, Learnt(o)
  PROVE  Learnt(o)'
<1> SUFFICES ASSUME NEW f \in Facts, NEW k \in Nat, Busy(run'[o]),
                    Secured(Body(run'[o].script), k, f), run'[o].pc >= k
             PROVE  TruthIn(f, run'[o].module, roles', links')
  BY DEF Learnt, Truth, TruthIn, IdOf
<1>1. ASSUME NEW m, Truth(f, m) PROVE TruthIn(f, m, roles', links')
  BY <1>1, FactStays DEF Truth, TruthIn, IdOf
<1>2. CASE Stays(o)
  <2>1. Busy(run[o])
    BY <1>2 DEF Stays, Busy
  <2>2. Truth(f, run[o].module)
    BY <1>2, <2>1 DEF Stays, Learnt
  <2>3. QED
    BY <1>1, <1>2, <2>2 DEF Stays
<1>3. CASE Starts(o)
  BY <1>3 DEF Starts, Secured
<1>4. CASE Over(run'[o])
  BY <1>4 DEF Over, Busy
<1>5. CASE Busy(run[o]) /\ Stepped(o)
  <2>1. run'[o].script = run[o].script
    BY <1>5 DEF Stepped
  <2>2. QED
    BY <1>1, <1>5, <2>1, LearntByStep
<1>6. QED
  BY <1>2, <1>3, <1>4, <1>5, RunAfterStep DEF Busy

-----------------------------------------------------------------------------
(* The module of a run is in nobody else's hands and not in effect, but    *)
(* for the decentralised one the deployment left, which every run of that  *)
(* script takes up.                                                        *)
InSlot == "resolutionModule"
InPlay == {setting[InSlot], pending[InSlot].value}
ShippedOne(m) == Drm \in setup.deployed /\ m = 1
Shared(o) == run[o].script = DrmScript /\ ShippedOne(run[o].module)
Alone(o) == /\ run[o].module \notin InPlay /\ ~ShippedOne(run[o].module)
            /\ \A p \in Operators \ {o} : run[p].module # run[o].module
Owned(o) == run[o].module # 0 => Shared(o) \/ Alone(o)
Facet(m) == <<Module, m, "adminFacet">>
Unlinked(o) == (run[o].script # DrmScript /\ run[o].module # 0) => Facet(run[o].module) \notin links
LinksThere == Drm \in setup.deployed => DrmLinks(1) \subseteq links
InEffectOK == \A m \in InPlay : m \in 0..modules /\ (m # 0 => Usable(m))
GovInv == /\ LinksThere /\ InEffectOK
          /\ \A o \in Operators : Learnt(o) /\ Owned(o) /\ Unlinked(o)

LEMMA NextFrame ==
  ASSUME TypeInv, [Next]_vars
  PROVE  /\ setup' = setup /\ links \subseteq links' /\ modules' >= modules /\ modules \in Nat
         /\ modules' \in Nat
         /\ \A p \in Operators : run[p].module \in 0..modules
         /\ \A t \in links : t[2] \in 0..modules
         /\ Drm \in setup.deployed => modules >= 1
<1>1. setup' = setup /\ (modules' = modules \/ modules' = modules + 1)
  <2>1. ASSUME NEW o \in Operators, OperatorStep(o)
        PROVE  setup' = setup /\ (modules' = modules \/ modules' = modules + 1)
    <3>1. CASE DeploysModule(o)
      BY <3>1 DEF DeploysModule
    <3>2. CASE Grants(o) \/ Linking(o) \/ Queues(o) \/ Activates(o) \/ Sets(o) \/ Pauses(o)
      BY <3>2 DEF Grants, Linking, Queues, Activates, Sets, Pauses
    <3>3. CASE Writes(o) \/ Proposes(o) \/ Saves(o)
      BY <3>3 DEF Writes, Proposes, Saves
    <3>4. QED
      BY <2>1, <3>1, <3>2, <3>3, QuietSteps DEF OperatorStep
  <2>2. ASSUME NEW o \in Operators, Killed(o) \/ Fault(o) \/ (\E x, y : Launch(o, x, y))
        PROVE  setup' = setup /\ modules' = modules
    BY <2>2, QuietSteps
  <2>3. ASSUME NEW q \in Payloads, Voted(q) \/ QueuedInTimelock(q) \/ Executed(q)
        PROVE  setup' = setup /\ modules' = modules
    BY <2>3 DEF Voted, QueuedInTimelock, Executed
  <2>4. CASE Strip \/ Tick \/ UNCHANGED vars
    BY <2>4 DEF Strip, Tick
  <2>5. QED
    BY <2>1, <2>2, <2>3, <2>4 DEF Next
<1>3. modules \in Nat
  BY SetupTyped
<1>4. \A p \in Operators : run[p].module \in 0..modules
  BY DEF TypeInv, RunsOK, RunOK
<1>5. (\A t \in links : t[2] \in 0..modules) /\ (Drm \in setup.deployed => modules >= 1)
  BY DEF TypeInv, ModulesOK
<1>6. QED
  BY <1>1, <1>3, <1>4, <1>5, RolesStay

-----------------------------------------------------------------------------
(* Which script can do what.                                               *)
LEMMA OnlyDecentralised ==
  ASSUME TypeInv, NEW o \in Operators, run[o].script # "", Current(o).op \in {"link", "get"}
  PROVE  run[o].script = DrmScript
<1> DEFINE b == Body(run[o].script)
<1>1. run[o].script \in AllScripts /\ run[o].pc \in 1..Len(b) /\ Current(o) = b[run[o].pc]
  BY RunningScript, BodyTyped DEF Running, Current
<1>2. ~Unlinking(b)
  BY <1>1 DEF Unlinking
<1>3. QED
  BY <1>1, <1>2, PlainBodies, PlacingBodies DEF PlainList, DrmScript

(* A run about to announce or set a module is at the end of its body, and  *)
(* has secured what makes the module usable.                               *)
LEMMA PlacedLast ==
  ASSUME TypeInv, NEW o \in Operators, Busy(run[o]), Places(Current(o)), Learnt(o)
  PROVE  /\ run[o].script \in Placing
         /\ run[o].pc = Len(Body(run[o].script)) /\ Len(Body(run[o].script)) \in Nat
         /\ Truth(Governs, run[o].module)
         /\ run[o].script = DrmScript => \A f \in DrmParts : Truth(f, run[o].module)
<1> DEFINE b == Body(run[o].script)
<1>1. run[o].script \in AllScripts /\ run[o].pc \in 1..Len(b) /\ Current(o) = b[run[o].pc] /\ Len(b) \in Nat
  BY RunningScript, BodyTyped DEF Running, Current, Busy
<1>2. ~Quiet(b)
  BY <1>1 DEF Quiet
<1>3. run[o].script \in Placing
  BY <1>1, <1>2, PlainBodies DEF PlainList
<1>4. run[o].pc = Len(b)
  BY <1>1, <1>3, PlacingBodies DEF PlacesLast
<1>5. ASSUME NEW f \in Facts, SecuredBefore(b, f) PROVE Truth(f, run[o].module)
  <2>1. PICK k \in 2..Len(b) : Secured(b, k, f)
    BY <1>5 DEF SecuredBefore
  <2>2. k \in Nat /\ run[o].pc >= k
    BY <1>1, <1>4, <2>1
  <2>3. QED
    BY <2>1, <2>2 DEF Learnt
<1>6. Truth(Governs, run[o].module)
  BY <1>3, <1>5, PlacingBodies DEF Facts
<1>7. run[o].script = DrmScript => \A f \in DrmParts : Truth(f, run[o].module)
  BY <1>3, <1>5, PlacingBodies DEF Facts, DrmScript
<1>8. QED
  BY <1>1, <1>3, <1>4, <1>6, <1>7

LEMMA PartsLinked ==
  ASSUME NEW m, \A f \in DrmParts : Truth(f, m)
  PROVE  DrmLinks(m) \subseteq links
<1>1. \A l \in {"adminFacet", "bondTokenRegistry", "incentiveModule", Vault} : <<Module, m, l>> \in links
  <2>1. ASSUME NEW l \in {"adminFacet", "bondTokenRegistry", "incentiveModule", Vault}
        PROVE  <<Module, m, l>> \in links
    <3>1. Truth(Linked(Module, l), m)
      BY DEF DrmParts
    <3>2. <<Module, IdOf(Module, m), l>> \in links
      BY <3>1, FactFields DEF Truth, TruthIn
    <3>3. QED
      BY <3>2 DEF IdOf
  <2>2. QED
    BY <2>1
<1>2. <<Staking, m, "slashingModule">> \in links /\ <<Pool, m, "slashingModule">> \in links
  <2>1. Truth(Linked(Staking, "slashingModule"), m) /\ Truth(Linked(Pool, "slashingModule"), m)
    BY DEF DrmParts
  <2>2. QED
    BY <2>1, FactFields DEF Truth, TruthIn, IdOf
<1>3. QED
  BY <1>1, <1>2 DEF DrmLinks

(* The module a run places is usable.                                      *)
LEMMA PlacedUsable ==
  ASSUME TypeInv, GovInv, NEW o \in Operators, Busy(run[o]), Places(Current(o)), run[o].module # 0
  PROVE  Usable(run[o].module)
<1>1. Learnt(o) /\ Unlinked(o)
  BY DEF GovInv
<1>2. <<Module, run[o].module, TIMELOCK, "TimelockController">> \in roles
  <2>1. Truth(Governs, run[o].module)
    BY <1>1, PlacedLast
  <2>2. QED
    BY <2>1, FactFields DEF Truth, TruthIn, Governs, IdOf
<1>3. CASE run[o].script = DrmScript
  BY <1>1, <1>2, <1>3, PlacedLast, PartsLinked DEF Usable
<1>4. CASE run[o].script # DrmScript
  BY <1>1, <1>2, <1>4 DEF Usable, Unlinked, Facet
<1>5. QED
  BY <1>3, <1>4

-----------------------------------------------------------------------------
(* What one step does to what is in play, to the links and to the runs.    *)
LEMMA InPlayAfter ==
  ASSUME TypeInv, [Next]_vars
  PROVE  \/ InPlay' \subseteq InPlay \cup {0}
         \/ \E o \in Operators : (Queues(o) \/ Sets(o)) /\ Places(Current(o))
                                 /\ InPlay' \subseteq InPlay \cup {run[o].module}
<1>0. setting = [t \in Slots |-> setting[t]] /\ pending = [t \in Slots |-> pending[t]]
  BY DEF TypeInv, SlotsOK
<1>1. ASSUME setting' = setting, pending' = pending PROVE InPlay' \subseteq InPlay \cup {0}
  BY <1>1 DEF InPlay
<1>2. ASSUME NEW t, ActivateSlot(t) PROVE InPlay' \subseteq InPlay \cup {0}
  BY <1>0, <1>2 DEF ActivateSlot, Nothing, InPlay, InSlot, Slots
<1>3. ASSUME NEW t, NEW v, QueueSlot(t, v), setting' = setting
      PROVE  InPlay' \subseteq InPlay \/ (t = InSlot /\ InPlay' \subseteq InPlay \cup {v})
  BY <1>0, <1>3 DEF QueueSlot, InPlay, InSlot, Slots
<1>4. ASSUME NEW o \in Operators, Queues(o)
      PROVE  \/ InPlay' \subseteq InPlay
             \/ Places(Current(o)) /\ InPlay' \subseteq InPlay \cup {run[o].module}
  <2>1. QueueSlot(Current(o).on, ValueFor(o, Current(o).on)) /\ setting' = setting /\ Current(o).op = "queue"
    BY <1>4 DEF Queues, At
  <2>2. Current(o).on = InSlot => ValueFor(o, Current(o).on) = run[o].module /\ Places(Current(o))
    BY <2>1 DEF ValueFor, InSlot, Places
  <2>3. QED
    BY <1>3, <2>1, <2>2
<1>5. ASSUME NEW o \in Operators, Sets(o)
      PROVE  \/ InPlay' \subseteq InPlay
             \/ Places(Current(o)) /\ InPlay' \subseteq InPlay \cup {run[o].module}
  <2>1. /\ setting' = [setting EXCEPT ![Current(o).on] = ValueFor(o, Current(o).on)] /\ pending' = pending
        /\ Current(o).op = "set"
    BY <1>5 DEF Sets, At
  <2>2. Current(o).on = InSlot => ValueFor(o, Current(o).on) = run[o].module /\ Places(Current(o))
    BY <2>1 DEF ValueFor, InSlot, Places
  <2>3. CASE Current(o).on = InSlot
    BY <1>0, <2>1, <2>2, <2>3 DEF InPlay, InSlot, Slots
  <2>4. CASE Current(o).on # InSlot
    BY <1>0, <2>1, <2>4 DEF InPlay, InSlot, Slots
  <2>5. QED
    BY <2>3, <2>4
<1>6. ASSUME NEW o \in Operators, OperatorStep(o), ~Queues(o), ~Sets(o)
      PROVE  InPlay' \subseteq InPlay \cup {0}
  <2>1. CASE Activates(o)
    BY <1>2, <2>1 DEF Activates
  <2>2. CASE DeploysModule(o) \/ Grants(o) \/ Linking(o) \/ Pauses(o) \/ Writes(o) \/ Proposes(o) \/ Saves(o)
    BY <1>1, <2>2 DEF DeploysModule, Grants, Linking, Pauses, Writes, Proposes, Saves
  <2>3. QED
    BY <1>1, <1>6, <2>1, <2>2, QuietSteps DEF OperatorStep
<1>7. ASSUME NEW o \in Operators, Killed(o) \/ Fault(o) \/ (\E s, p : Launch(o, s, p))
      PROVE  InPlay' \subseteq InPlay \cup {0}
  BY <1>1, <1>7, QuietSteps
<1>8. ASSUME NEW q \in Payloads, Voted(q) \/ QueuedInTimelock(q) \/ Executed(q)
      PROVE  InPlay' \subseteq InPlay \cup {0}
  <2>1. CASE Voted(q) \/ QueuedInTimelock(q)
    BY <1>1, <2>1 DEF Voted, QueuedInTimelock
  <2>2. CASE Executed(q)
    <3>1. \/ QueueSlot("escrowFee", NewFee) /\ setting' = setting
          \/ ActivateSlot("escrowFee")
      BY <2>2 DEF Executed
    <3>2. "escrowFee" # InSlot
      BY DEF InSlot
    <3>3. QED
      BY <1>2, <1>3, <3>1, <3>2
  <2>3. QED
    BY <1>8, <2>1, <2>2
<1>9. CASE Strip \/ Tick \/ UNCHANGED vars
  BY <1>1, <1>9 DEF Strip, Tick
<1>10. QED
  BY <1>4, <1>5, <1>6, <1>7, <1>8, <1>9 DEF Next

-----------------------------------------------------------------------------
LEMMA FacetAfter ==
  ASSUME TypeInv, [Next]_vars, NEW m, Facet(m) \in links', Facet(m) \notin links
  PROVE  \E a \in Operators : Linking(a) /\ run[a].script = DrmScript /\ run[a].module = m
<1>1. PICK a \in Operators : Linking(a)
  <2>1. ASSUME NEW o \in Operators, OperatorStep(o), ~Linking(o) PROVE links' = links
    <3>1. CASE DeploysModule(o) \/ Grants(o) \/ Queues(o) \/ Activates(o) \/ Sets(o) \/ Pauses(o)
               \/ Writes(o) \/ Proposes(o) \/ Saves(o)
      BY <3>1 DEF DeploysModule, Grants, Queues, Activates, Sets, Pauses, Writes, Proposes, Saves
    <3>2. QED
      BY <2>1, <3>1, QuietSteps DEF OperatorStep
  <2>2. ASSUME NEW o \in Operators, Killed(o) \/ Fault(o) \/ (\E x, y : Launch(o, x, y))
        PROVE  links' = links
    BY <2>2, QuietSteps
  <2>3. CASE \/ \E q \in Payloads : Voted(q) \/ QueuedInTimelock(q) \/ Executed(q)
             \/ Tick \/ Strip \/ UNCHANGED vars
    BY <2>3 DEF Voted, QueuedInTimelock, Executed, Tick, Strip
  <2>4. QED
    BY <2>1, <2>2, <2>3 DEF Next
<1> DEFINE c == Current(a)
<1>2. Facet(m) = <<c.on, IdOf(c.on, run[a].module), c.what>>
  BY <1>1 DEF Linking
<1>3. c.on = Module /\ IdOf(c.on, run[a].module) = m
  BY <1>2 DEF Facet
<1>4. run[a].module = m
  BY <1>3 DEF IdOf
<1>5. run[a].script # "" /\ c.op = "link"
  BY <1>1 DEF Linking, At
<1>6. run[a].script = DrmScript
  BY <1>5, OnlyDecentralised
<1>7. QED
  BY <1>1, <1>4, <1>6

SameModule(p) == run'[p].module = run[p].module /\ run'[p].script = run[p].script
Learns1(p) == run'[p].script = run[p].script /\ Learning(p, run'[p].module)
LEMMA ModuleAfter ==
  ASSUME TypeInv, [Next]_vars, NEW p \in Operators
  PROVE  run'[p].module = 0 \/ SameModule(p) \/ Learns1(p)
BY RunAfterStep DEF Over, Starts, Stays, Stepped, SameModule, Learns1

(* Whoever learns a module gets the one deployed first, or a new one; the  *)
(* other runs, the links and what is in play stay.                         *)
LEMMA LearningFrame ==
  ASSUME TypeInv, [Next]_vars, NEW p \in Operators, Learns1(p)
  PROVE  /\ links' = links /\ InPlay' = InPlay
         /\ \A q \in Operators : q # p => run'[q] = run[q]
         /\ \/ run'[p].module = 1 /\ ShippedOne(1) /\ run'[p].script = DrmScript
            \/ run'[p].module = modules + 1 /\ modules' = modules + 1
<1>1. Acts(p)
  BY DEF Learns1, Learning, Acts, OperatorStep
<1>2. \A q \in Operators : q # p => run'[q] = run[q]
  BY <1>1, OthersStay
<1>3. links' = links /\ setting' = setting /\ pending' = pending
  BY QuietSteps DEF Learns1, Learning, DeploysModule
<1>4. InPlay' = InPlay
  BY <1>3 DEF InPlay
<1>5. CASE GetsModule(p) /\ run'[p].module = 1
  <2>1. Drm \in setup.deployed /\ run[p].script # "" /\ Current(p).op = "get"
    BY <1>5 DEF GetsModule, At
  <2>2. run[p].script = DrmScript
    BY <2>1, OnlyDecentralised
  <2>3. QED
    BY <1>2, <1>3, <1>4, <1>5, <2>1, <2>2 DEF Learns1, ShippedOne
<1>6. CASE DeploysModule(p) /\ run'[p].module = modules + 1
  BY <1>2, <1>3, <1>4, <1>6 DEF DeploysModule
<1>7. QED
  BY <1>5, <1>6 DEF Learns1, Learning

(* Only a run at the end of its body places a module.                      *)
LEMMA PlacerEnds ==
  ASSUME TypeInv, TypeInv', [Next]_vars, NEW o \in Operators, Queues(o) \/ Sets(o), Places(Current(o)), Learnt(o)
  PROVE  run'[o].module = 0
<1>1. Acts(o) /\ Busy(run[o]) /\ Current(o).op \in {"queue", "set"}
  BY DEF Acts, OperatorStep, Queues, Sets, At, Busy
<1>2. run[o].pc = Len(Body(run[o].script)) /\ Len(Body(run[o].script)) \in Nat
  BY <1>1, PlacedLast
<1>3. run' = [run EXCEPT ![o] = Finished(o, ~run[o].bad)]
  BY <1>2 DEF Queues, Sets, Continue, Advance
<1>4. run'[o] = Finished(o, ~run[o].bad)
  BY <1>3 DEF TypeInv, RunsOK
<1>5. QED
  BY <1>4, FinishedOver DEF Over

LEMMA InEffectAfter ==
  ASSUME TypeInv, TypeInv', [Next]_vars, GovInv
  PROVE  InEffectOK'
<1>1. ASSUME NEW m \in InPlay PROVE m \in 0..modules' /\ (m # 0 => Usable(m)')
  <2>1. m \in 0..modules'
    BY NextFrame DEF GovInv, InEffectOK
  <2>2. ASSUME m # 0 PROVE Usable(m)'
    <3>1. Usable(m)
      BY <2>2 DEF GovInv, InEffectOK
    <3> DEFINE t == <<Module, m, TIMELOCK, "TimelockController">>
    <3>2. t[4] = "TimelockController"
      OBVIOUS
    <3>3. t \in roles'
      BY <3>1, <3>2, RolesStay DEF Usable
    <3>4. Facet(m) \in links' => DrmLinks(m) \subseteq links'
      <4>1. CASE Facet(m) \in links
        BY <3>1, <4>1, NextFrame DEF Usable, Facet
      <4>2. CASE Facet(m) \in links' /\ Facet(m) \notin links
        <5>1. PICK a \in Operators : run[a].script = DrmScript /\ run[a].module = m
          BY <4>2, FacetAfter
        <5>2. Shared(a) \/ Alone(a)
          BY <2>2, <5>1 DEF GovInv, Owned
        <5>3. Drm \in setup.deployed /\ m = 1
          BY <5>1, <5>2 DEF Shared, Alone, ShippedOne
        <5>4. QED
          BY <5>3, NextFrame DEF GovInv, LinksThere
      <4>3. QED
        BY <4>1, <4>2
    <3>5. QED
      BY <3>3, <3>4 DEF Usable, Facet, DrmLinks
  <2>3. QED
    BY <2>1, <2>2
<1>2. CASE InPlay' \subseteq InPlay \cup {0}
  <2>1. 0 \in 0..modules'
    BY NextFrame
  <2>2. QED
    BY <1>1, <1>2, <2>1 DEF InEffectOK
<1>3. ASSUME NEW o \in Operators, Queues(o) \/ Sets(o), Places(Current(o)),
             InPlay' \subseteq InPlay \cup {run[o].module}
      PROVE  InEffectOK'
  <2> DEFINE m == run[o].module
  <2>1. Busy(run[o]) /\ roles' = roles /\ links' = links
    BY <1>3 DEF Queues, Sets, At, Busy
  <2>2. m # 0 => Usable(m)
    BY <1>3, <2>1, PlacedUsable
  <2>3. ASSUME NEW y, Usable(y) PROVE Usable(y)'
    BY <2>1, <2>3 DEF Usable, DrmLinks
  <2>4. m \in 0..modules'
    BY NextFrame
  <2> HIDE DEF m
  <2>5. ASSUME NEW y \in InPlay' PROVE y \in 0..modules' /\ (y # 0 => Usable(y)')
    BY <1>1, <1>3, <2>2, <2>3, <2>4, <2>5 DEF m
  <2>6. QED
    BY <2>5 DEF InEffectOK
<1>4. QED
  BY <1>2, <1>3, InPlayAfter

-----------------------------------------------------------------------------
LEMMA AloneStays ==
  ASSUME TypeInv, TypeInv', [Next]_vars, GovInv, NEW o \in Operators, SameModule(o),
         run[o].module # 0, Alone(o)
  PROVE  Alone(o)'
<1> DEFINE m == run[o].module
<1>1. m \in 0..modules /\ m # 0 /\ run'[o].module = m
  BY NextFrame DEF SameModule
<1>2. m \notin InPlay /\ ~ShippedOne(m) /\ \A p \in Operators \ {o} : run[p].module # m
  BY DEF Alone
<1> HIDE DEF m
<1>3. m \notin InPlay'
  <2>1. CASE InPlay' \subseteq InPlay \cup {0}
    BY <1>1, <1>2, <2>1
  <2>2. ASSUME NEW a \in Operators, Queues(a) \/ Sets(a), Places(Current(a)),
               InPlay' \subseteq InPlay \cup {run[a].module}
        PROVE  m \notin InPlay'
    <3>1. a # o
      BY <1>1, <2>2, PlacerEnds DEF GovInv
    <3>2. run[a].module # m
      BY <1>2, <3>1
    <3>3. QED
      BY <1>2, <2>2, <3>2
  <2>3. QED
    BY <2>1, <2>2, InPlayAfter
<1>4. ASSUME NEW p \in Operators \ {o} PROVE run'[p].module # m
  <2>1. CASE run'[p].module = 0
    BY <1>1, <2>1
  <2>2. CASE SameModule(p)
    BY <1>2, <2>2 DEF SameModule
  <2>3. CASE Learns1(p)
    <3>1. \/ run'[p].module = 1 /\ ShippedOne(1)
          \/ run'[p].module = modules + 1
      BY <2>3, LearningFrame
    <3>2. modules + 1 # m
      BY <1>1, NextFrame
    <3>3. ShippedOne(1) => m # 1
      BY <1>2
    <3>4. QED
      BY <3>1, <3>2, <3>3
  <2>4. QED
    BY <2>1, <2>2, <2>3, ModuleAfter
<1>5. ~(Drm \in setup'.deployed /\ m = 1)
  BY <1>2, NextFrame DEF ShippedOne
<1>6. QED
  BY <1>1, <1>3, <1>4, <1>5 DEF Alone, ShippedOne

LEMMA OwnedAfter ==
  ASSUME TypeInv, TypeInv', [Next]_vars, GovInv, NEW o \in Operators
  PROVE  Owned(o)'
<1>1. CASE run'[o].module = 0
  BY <1>1 DEF Owned
<1>2. CASE SameModule(o) /\ run[o].module # 0
  <2>1. Shared(o) \/ Alone(o)
    BY <1>2 DEF GovInv, Owned
  <2>2. Shared(o) => Shared(o)'
    BY <1>2, NextFrame DEF SameModule, Shared, ShippedOne
  <2>3. QED
    BY <1>2, <2>1, <2>2, AloneStays DEF Owned
<1>3. CASE Learns1(o)
  <2>1. CASE run'[o].module = 1 /\ ShippedOne(1) /\ run'[o].script = DrmScript
    BY <2>1, NextFrame DEF Owned, Shared, ShippedOne
  <2>2. CASE run'[o].module = modules + 1
    <3>1. modules + 1 \notin InPlay'
      BY <1>3, LearningFrame, NextFrame DEF GovInv, InEffectOK
    <3>2. ~(Drm \in setup'.deployed /\ modules + 1 = 1)
      BY NextFrame
    <3>3. \A p \in Operators \ {o} : run'[p].module # modules + 1
      BY <1>3, LearningFrame, NextFrame
    <3>4. QED
      BY <2>2, <3>1, <3>2, <3>3 DEF Owned, Alone, ShippedOne
  <2>3. QED
    BY <1>3, <2>1, <2>2, LearningFrame
<1>4. QED
  BY <1>1, <1>2, <1>3, ModuleAfter DEF SameModule

LEMMA UnlinkedAfter ==
  ASSUME TypeInv, TypeInv', [Next]_vars, GovInv, NEW o \in Operators
  PROVE  Unlinked(o)'
<1> SUFFICES ASSUME run'[o].script # DrmScript, run'[o].module # 0, Facet(run'[o].module) \in links'
             PROVE  FALSE
  BY DEF Unlinked, Facet
<1>1. CASE SameModule(o)
  <2> DEFINE m == run[o].module
  <2>1. run[o].script # DrmScript /\ m # 0 /\ Facet(m) \in links'
    BY <1>1 DEF SameModule
  <2>2. Facet(m) \notin links
    BY <2>1 DEF GovInv, Unlinked
  <2>3. PICK a \in Operators : run[a].script = DrmScript /\ run[a].module = m
    BY <2>1, <2>2, FacetAfter
  <2>4. Alone(o)
    BY <2>1 DEF GovInv, Owned, Shared
  <2>5. QED
    BY <2>1, <2>3, <2>4 DEF Alone
<1>2. CASE Learns1(o)
  <2>1. run'[o].module = modules + 1 /\ links' = links
    BY <1>2, LearningFrame
  <2>2. Facet(modules + 1)[2] = modules + 1
    BY DEF Facet
  <2>3. modules + 1 \in 0..modules
    BY <2>1, <2>2, NextFrame
  <2>4. QED
    BY <2>3, NextFrame
<1>3. QED
  BY <1>1, <1>2, ModuleAfter

LEMMA GovInit == Init => GovInv
<1> SUFFICES ASSUME Init PROVE GovInv
  OBVIOUS
<1>1. /\ run = [o \in Operators |-> Idle] /\ setting = [s \in Slots |-> 0]
      /\ pending = [s \in Slots |-> Nothing]
  BY DEF Init
<1>2. Idle.script = "" /\ Idle.module = 0 /\ Nothing.value = 0
  BY DEF Idle, Nothing
<1>3. InPlay = {0}
  BY <1>1, <1>2 DEF InPlay, InSlot, Slots
<1>4. \A o \in Operators : Learnt(o) /\ Owned(o) /\ Unlinked(o)
  BY <1>1, <1>2 DEF Learnt, Owned, Unlinked, Busy
<1>5. LinksThere
  BY DEF Init, LinksThere
<1>6. modules \in Nat
  BY DEF Init
<1>7. QED
  BY <1>3, <1>4, <1>5, <1>6 DEF GovInv, InEffectOK

LEMMA GovNext == TypeInv /\ TypeInv' /\ GovInv /\ [Next]_vars => GovInv'
<1> SUFFICES ASSUME TypeInv, TypeInv', GovInv, [Next]_vars PROVE GovInv'
  OBVIOUS
<1>1. LinksThere'
  BY NextFrame DEF GovInv, LinksThere, DrmLinks
<1>2. InEffectOK'
  BY InEffectAfter
<1>3. \A o \in Operators : Learnt(o)' /\ Owned(o)' /\ Unlinked(o)'
  BY LearntAfter, OwnedAfter, UnlinkedAfter DEF GovInv
<1>4. QED
  BY <1>1, <1>2, <1>3 DEF GovInv

(* However runs of the four scripts that put a module into effect are      *)
(* interleaved, cut off and repeated, and whatever the governor and        *)
(* deploy/95 do between their transactions: the module in effect is one    *)
(* the timelock governs, and one with an admin facet has all its parts.    *)
(* The invariant also says what a run has made of its own module so far,   *)
(* and that nobody else works on it.                                       *)
THEOREM ModuleGoverned == Spec => []GovernedModule
<1>1. TypeInv /\ GovInv => GovernedModule
  <2> SUFFICES ASSUME GovInv, setting["resolutionModule"] # 0 PROVE Usable(setting["resolutionModule"])
    BY DEF GovernedModule
  <2>1. setting["resolutionModule"] \in InPlay
    BY DEF InPlay, InSlot
  <2>2. QED
    BY <2>1 DEF GovInv, InEffectOK
<1>2. QED
  BY <1>1, GovInit, GovNext, TypeInvariant, PTL DEF Spec
=============================================================================
