---------------------------- MODULE OperationsProofs ----------------------------
(***************************************************************************)
(* Proofs about the operation scripts, for every set of operators and      *)
(* sites, every delay and any number of runs: their types, and what the    *)
(* bodies of the scripts are sure to have read or done before which step.  *)
(***************************************************************************)
EXTENDS OperationsProperties, TLAPS

-----------------------------------------------------------------------------
(* Every body is a non-empty sequence of steps: what follows an error, and *)
(* what a skip leaves out, are numbers of steps; and only two scripts      *)
(* activate.                                                               *)
Forward(s) == s.catch \in Nat /\ (s.op = "skip" => s.what \in Nat)
IsStep(s) == Forward(s) /\ s.op # "activate"
StepsIn(b, S) == b \in Seq(S) /\ \A x \in S : IsStep(x)
IsScript(b) == b # <<>> /\ \E S : StepsIn(b, S)

LEMMA ReadingSteps ==
  /\ \A c : IsStep(StopIf(c)) /\ IsStep(Require(c)) /\ IsStep(Note(c))
  /\ \A c : \A n \in Nat : IsStep(SkipIf(c, n)) /\ IsStep(SkipUnless(c, n))
  /\ \A c, d : IsStep(Check(c, d))
  /\ IsStep(Stop) /\ IsStep(Impossible) /\ IsStep(Get) /\ IsStep(Load)
  /\ \A t : IsStep(Read(t))
BY DEF IsStep, Forward, Step, StopIf, Require, Note, SkipIf, SkipUnless, Check, Stop, Impossible, Get, Load, Read

LEMMA WritingSteps ==
  /\ IsStep(Write) /\ IsStep(Propose) /\ IsStep(Save)
  /\ \A a : IsStep(DeployModule(a)) /\ IsStep(Pause(a))
  /\ \A t, a : IsStep(Queue(t, a)) /\ IsStep(Set(t, a))
  /\ \A c, r, a, b : IsStep(Grant(c, r, a, b)) /\ IsStep(Link(c, r, a, b))
BY DEF IsStep, Forward, Step, Write, Propose, Save, DeployModule, Pause, Queue, Set, Grant, Link

LEMMA CaughtSteps ==
  /\ \A c : \A n, k \in Nat : IsStep(Caught(SkipIf(c, n), k))
  /\ \A c, r, a, b : \A k \in Nat : IsStep(Caught(Grant(c, r, a, b), k))
  /\ \A a : \A k \in Nat : IsStep(Caught(Pause(a), k))
  /\ \A k \in Nat : IsStep(Caught(Impossible, k))
BY DEF IsStep, Forward, Step, Caught, SkipIf, Grant, Pause, Impossible, Check

LEMMA ShortScripts ==
  /\ \A x : IsStep(x) => IsScript(<<x>>)
  /\ \A x, y : IsStep(x) /\ IsStep(y) => IsScript(<<x, y>>)
  /\ \A x, y, z : IsStep(x) /\ IsStep(y) /\ IsStep(z) => IsScript(<<x, y, z>>)
  /\ \A u, v, w, x : IsStep(u) /\ IsStep(v) /\ IsStep(w) /\ IsStep(x) => IsScript(<<u, v, w, x>>)
  /\ \A u, v, w, x, y : IsStep(u) /\ IsStep(v) /\ IsStep(w) /\ IsStep(x) /\ IsStep(y) => IsScript(<<u, v, w, x, y>>)
  /\ \A u, v, w, x, y, z : IsStep(u) /\ IsStep(v) /\ IsStep(w) /\ IsStep(x) /\ IsStep(y) /\ IsStep(z) => IsScript(<<u, v, w, x, y, z>>)
  /\ \A t, u, v, w, x, y, z : IsStep(t) /\ IsStep(u) /\ IsStep(v) /\ IsStep(w) /\ IsStep(x) /\ IsStep(y) /\ IsStep(z) => IsScript(<<t, u, v, w, x, y, z>>)
<1>1. ASSUME NEW x,
             IsStep(x)
      PROVE  IsScript(<<x>>)
  <2>1. StepsIn(<<x>>, {x})
    BY <1>1 DEF StepsIn
  <2>2. QED
    BY <2>1 DEF IsScript
<1>2. ASSUME NEW x, NEW y,
             IsStep(x), IsStep(y)
      PROVE  IsScript(<<x, y>>)
  <2>1. StepsIn(<<x, y>>, {x, y})
    BY <1>2 DEF StepsIn
  <2>2. QED
    BY <2>1 DEF IsScript
<1>3. ASSUME NEW x, NEW y, NEW z,
             IsStep(x), IsStep(y), IsStep(z)
      PROVE  IsScript(<<x, y, z>>)
  <2>1. StepsIn(<<x, y, z>>, {x, y, z})
    BY <1>3 DEF StepsIn
  <2>2. QED
    BY <2>1 DEF IsScript
<1>4. ASSUME NEW u, NEW v, NEW w, NEW x,
             IsStep(u), IsStep(v), IsStep(w), IsStep(x)
      PROVE  IsScript(<<u, v, w, x>>)
  <2>1. StepsIn(<<u, v, w, x>>, {u, v, w, x})
    BY <1>4 DEF StepsIn
  <2>2. QED
    BY <2>1 DEF IsScript
<1>5. ASSUME NEW u, NEW v, NEW w, NEW x, NEW y,
             IsStep(u), IsStep(v), IsStep(w), IsStep(x), IsStep(y)
      PROVE  IsScript(<<u, v, w, x, y>>)
  <2>1. StepsIn(<<u, v, w, x, y>>, {u, v, w, x, y})
    BY <1>5 DEF StepsIn
  <2>2. QED
    BY <2>1 DEF IsScript
<1>6. ASSUME NEW u, NEW v, NEW w, NEW x, NEW y, NEW z,
             IsStep(u), IsStep(v), IsStep(w), IsStep(x), IsStep(y), IsStep(z)
      PROVE  IsScript(<<u, v, w, x, y, z>>)
  <2>1. StepsIn(<<u, v, w, x, y, z>>, {u, v, w, x, y, z})
    BY <1>6 DEF StepsIn
  <2>2. QED
    BY <2>1 DEF IsScript
<1>7. ASSUME NEW t, NEW u, NEW v, NEW w, NEW x, NEW y, NEW z,
             IsStep(t), IsStep(u), IsStep(v), IsStep(w), IsStep(x), IsStep(y), IsStep(z)
      PROVE  IsScript(<<t, u, v, w, x, y, z>>)
  <2>1. StepsIn(<<t, u, v, w, x, y, z>>, {t, u, v, w, x, y, z})
    BY <1>7 DEF StepsIn
  <2>2. QED
    BY <2>1 DEF IsScript
<1>8. QED
  BY <1>1, <1>2, <1>3, <1>4, <1>5, <1>6, <1>7

LEMMA ScriptsConcatenate == \A a, b : IsScript(a) /\ IsScript(b) => IsScript(a \o b)
<1>1. SUFFICES ASSUME NEW a, NEW b, IsScript(a), IsScript(b) PROVE IsScript(a \o b)
  OBVIOUS
<1>2. PICK S : StepsIn(a, S)
  BY <1>1 DEF IsScript
<1>3. PICK T : StepsIn(b, T)
  BY <1>1 DEF IsScript
<1>4. a \in Seq(S \cup T) /\ b \in Seq(S \cup T)
  BY <1>2, <1>3 DEF StepsIn
<1>5. StepsIn(a \o b, S \cup T)
  BY <1>2, <1>3, <1>4 DEF StepsIn
<1>6. a \o b # <<>>
  BY <1>1, <1>4 DEF IsScript
<1>7. QED
  BY <1>5, <1>6 DEF IsScript

LEMMA SettingBodies ==
  /\ IsScript(SetEscrowFee) /\ IsScript(DeployModuleAndQueue)
  /\ IsScript(DeployModuleAndSetImmediate) /\ IsScript(GrantEoaAndSwap)
<1>1. \A by : IsScript(PutUnderTimelock(by))
  BY WritingSteps, ShortScripts DEF PutUnderTimelock
<1>2. \A c, x : IsStep(x) => IsScript(Unless(c, x))
  BY ReadingSteps, ShortScripts DEF Unless
<1>3. IsScript(SetEscrowFee)
  BY ReadingSteps, WritingSteps, ShortScripts DEF SetEscrowFee
<1>4. IsScript(<<Require(Given("INITIAL_RESOLVER")), DeployModule("deployer")>>)
  BY ReadingSteps, WritingSteps, ShortScripts
<1>6. IsScript(DeployModuleAndQueue)
  BY <1>1, <1>4, WritingSteps, ShortScripts, ScriptsConcatenate DEF DeployModuleAndQueue
<1>7. IsScript(DeployModuleAndSetImmediate)
  BY <1>1, <1>4, ReadingSteps, WritingSteps, ShortScripts, ScriptsConcatenate
     DEF DeployModuleAndSetImmediate
<1>8. IsScript(GrantEoaAndSwap)
  BY <1>1, <1>2, <1>4, WritingSteps, ShortScripts, ScriptsConcatenate DEF GrantEoaAndSwap
<1>9. QED
  BY <1>3, <1>6, <1>7, <1>8

LEMMA DecentralisedBody == IsScript(DeployDrmAndSetImmediate)
<1>1. \A c, x : IsStep(x) => IsScript(Unless(c, x))
  BY ReadingSteps, ShortScripts DEF Unless
<1>2. IsScript(DeployOrGet) /\ IsScript(SetDrm)
  BY ReadingSteps, WritingSteps, ShortScripts DEF DeployOrGet, SetDrm
<1>3. IsScript(WireCapital)
  BY <1>1, WritingSteps, ScriptsConcatenate DEF WireCapital
<1>4. IsScript(GovernDrm)
  BY <1>1, ReadingSteps, WritingSteps, ShortScripts, ScriptsConcatenate DEF GovernDrm
<1>5. IsScript(WireDrm)
  BY <1>1, WritingSteps, ScriptsConcatenate DEF WireDrm
<1>6. QED
  BY <1>2, <1>3, <1>4, <1>5, ScriptsConcatenate DEF DeployDrmAndSetImmediate

LEMMA GuardianBodies ==
  /\ IsScript(FixEscrowRegistration) /\ IsScript(CheckEscrowRegistration)
  /\ IsScript(GrantGuardianRole) /\ IsScript(UpdateTimelockDelay) /\ IsScript(GuardianStatus)
  /\ IsScript(TestGuardianAll) /\ IsScript(TestGuardianPause) /\ IsScript(EmergencyPause)
  /\ IsScript(EmergencyDisableAave) /\ IsScript(EmergencyLowerTokenCap)
  /\ IsScript(EmergencyLowerGlobalCap)
<1>1. \A c : IsScript(GrantGuardianOn(c))
  BY CaughtSteps, ShortScripts DEF GrantGuardianOn
<1>2. IsScript(GrantGuardianRole)
  BY <1>1, ReadingSteps, ShortScripts, ScriptsConcatenate DEF GrantGuardianRole
<1>3. /\ IsScript(FixEscrowRegistration) /\ IsScript(CheckEscrowRegistration)
      /\ IsScript(UpdateTimelockDelay) /\ IsScript(GuardianStatus) /\ IsScript(TestGuardianAll)
  BY ReadingSteps, CaughtSteps, ShortScripts
     DEF FixEscrowRegistration, CheckEscrowRegistration, UpdateTimelockDelay, GuardianStatus,
         TestGuardianAll
<1>4. /\ IsScript(TestGuardianPause) /\ IsScript(EmergencyPause) /\ IsScript(EmergencyDisableAave)
      /\ IsScript(EmergencyLowerTokenCap) /\ IsScript(EmergencyLowerGlobalCap)
  BY ReadingSteps, CaughtSteps, ShortScripts
     DEF TestGuardianPause, EmergencyPause, EmergencyDisableAave, EmergencyLowerTokenCap,
         EmergencyLowerGlobalCap
<1>5. QED
  BY <1>2, <1>3, <1>4

LEMMA ProposalBodies ==
  /\ IsScript(BuildProposal) /\ IsScript(StagePropose) /\ IsScript(StageQueue)
  /\ IsScript(StageExecute) /\ IsScript(StageAll) /\ IsScript(CheckProposal)
  /\ IsScript(SimulateProposal)
<1>1. IsScript(BuildProposal) /\ IsScript(ReadArtifact) /\ IsScript(CheckProposal)
  BY ReadingSteps, WritingSteps, ShortScripts DEF BuildProposal, ReadArtifact, CheckProposal
<1>2. IsScript(StagePropose)
  BY <1>1, ReadingSteps, WritingSteps, ShortScripts, ScriptsConcatenate DEF StagePropose
<1>3. IsScript(StageQueue) /\ IsScript(StageExecute) /\ IsScript(SimulateProposal)
  BY <1>1, ReadingSteps, ShortScripts, ScriptsConcatenate
     DEF StageQueue, StageExecute, SimulateProposal
<1>4. IsScript(StageAll)
  BY <1>2, ReadingSteps, ShortScripts, ScriptsConcatenate DEF StageAll
<1>5. QED
  BY <1>1, <1>2, <1>3, <1>4

Activating == {"activate-escrow-fee", "activate-resolution-module"}
LEMMA ActivatingBodies ==
  /\ Body("activate-escrow-fee") = ActivateEscrowFee
  /\ Body("activate-resolution-module") = ActivateResolutionModule
  /\ Len(ActivateEscrowFee) = 5 /\ DOMAIN ActivateEscrowFee = 1..5
  /\ Len(ActivateResolutionModule) = 2 /\ DOMAIN ActivateResolutionModule = 1..2
  /\ \A i \in 1..5 : /\ ActivateEscrowFee[i].catch = 0
                     /\ ActivateEscrowFee[i].op \in {"check", "read", "activate"}
                     /\ ActivateEscrowFee[i].op = "read" <=> i = 3
                     /\ ActivateEscrowFee[i].op = "activate" <=> i = 5
  /\ \A i \in 1..2 : /\ ActivateResolutionModule[i].catch = 0
                     /\ ActivateResolutionModule[i].op \in {"check", "read", "activate"}
                     /\ ActivateResolutionModule[i].op = "read" <=> i = 1
                     /\ ActivateResolutionModule[i].op = "activate" <=> i = 2
  /\ ActivateEscrowFee[3].on = "escrowFee" /\ ActivateEscrowFee[5].on = "escrowFee"
  /\ \A i \in 1..2 : ActivateResolutionModule[i].on = "resolutionModule"
<1>1. /\ Body("activate-escrow-fee") = ActivateEscrowFee
      /\ Body("activate-resolution-module") = ActivateResolutionModule
  BY DEF Body
<1>2. /\ \A c, d : LET s == Check(c, d) IN s.op = "check" /\ s.catch = 0
      /\ \A t : LET s == Read(t) IN s.op = "read" /\ s.catch = 0 /\ s.on = t
      /\ \A t, a : LET s == Activate(t, a) IN s.op = "activate" /\ s.catch = 0 /\ s.on = t
  BY DEF Check, Read, Activate, Step
<1>3. /\ Len(ActivateEscrowFee) = 5 /\ DOMAIN ActivateEscrowFee = 1..5
      /\ ActivateEscrowFee[1] = Check(NEVER, Has(Vault, MANAGER, SlowLane))
      /\ ActivateEscrowFee[2] = Check(NEVER, Has(SlowLane, TIMELOCK, "deployer"))
      /\ ActivateEscrowFee[3] = Read("escrowFee")
      /\ ActivateEscrowFee[4] = Check(NothingSeen, FeeSeen)
      /\ ActivateEscrowFee[5] = Activate("escrowFee", "deployer")
  BY DEF ActivateEscrowFee, Require
<1>4. /\ Len(ActivateResolutionModule) = 2 /\ DOMAIN ActivateResolutionModule = 1..2
      /\ ActivateResolutionModule[1] = Read("resolutionModule")
      /\ ActivateResolutionModule[2] = Activate("resolutionModule", "deployer")
  BY DEF ActivateResolutionModule
<1>5. \A i \in 1..5 : i = 1 \/ i = 2 \/ i = 3 \/ i = 4 \/ i = 5
  OBVIOUS
<1>6. \A i \in 1..2 : i = 1 \/ i = 2
  OBVIOUS
<1>7. QED
  BY <1>1, <1>2, <1>3, <1>4, <1>5, <1>6

(* What is used of all this: a script has a first step, a step sends the   *)
(* script only forward, and what activates has read before.                *)
LEMMA BodyTyped ==
  ASSUME NEW s \in AllScripts
  PROVE  /\ Len(Body(s)) \in Nat \ {0}
         /\ DOMAIN Body(s) = 1..Len(Body(s))
         /\ \A i \in 1..Len(Body(s)) : Forward(Body(s)[i])
         /\ s \notin Activating => \A i \in 1..Len(Body(s)) : Body(s)[i].op # "activate"
<1>1. CASE s \in Activating
  <2>1. s = "activate-escrow-fee" \/ s = "activate-resolution-module"
    BY <1>1 DEF Activating
  <2>2. QED
    BY <1>1, <2>1, ActivatingBodies DEF Forward
<1>2. CASE s \notin Activating
  <2>1. IsScript(Body(s))
    <3>1. CASE s \in SettingScripts
      BY <1>2, <3>1, SettingBodies, DecentralisedBody DEF Body, SettingScripts, Activating
    <3>2. CASE s \in GuardianScripts
      BY <3>2, GuardianBodies DEF Body, GuardianScripts
    <3>3. CASE s \in ProposalScripts
      BY <3>3, ProposalBodies DEF Body, ProposalScripts
    <3>4. QED
      BY <3>1, <3>2, <3>3 DEF AllScripts
  <2>2. PICK S : StepsIn(Body(s), S)
    BY <2>1 DEF IsScript
  <2>3. QED
    BY <2>1, <2>2 DEF StepsIn, IsScript, IsStep
<1>3. QED
  BY <1>1, <1>2

-----------------------------------------------------------------------------
(* Types.  TypeOK needs more to be inductive: a record of a run has its    *)
(* fields, and what it remembers of an artifact is one of the four states  *)
(* an artifact can be in; where deploy/86 ran there is a module to get.    *)
USE DEF vars, chain, governance, budget

Files == {"none", "offline", "built", "proposed"}
States == {"None", "Pending", "Succeeded", "Defeated", "Queued", "Executed"}
Fields == {"script", "payload", "pc", "module", "seen", "copy", "bad", "aged", "success"}
Shape(r) == DOMAIN r = Fields
Running(r, scripts) == r.script \in scripts /\ r.pc \in DOMAIN Body(r.script)
Resting(r) == r = [Idle EXCEPT !.success = r.success]
RunOK(r, scripts, m) ==
  /\ Shape(r)
  /\ r.payload \in Payloads => r.copy \in Files
  /\ r.module \in 0..m
  /\ Resting(r) \/ Running(r, scripts)
RunsOK == /\ run = [o \in Operators |-> run[o]]
          /\ \A o \in Operators : RunOK(run[o], setup.scripts, modules)
SlotsOK ==
  /\ setting \in [Slots -> Nat]
  /\ pending \in [Slots -> [exists : BOOLEAN, value : Nat, eta : Nat]]
  /\ \A s \in Slots : ~pending[s].exists => pending[s] = Nothing
ModulesOK ==
  /\ modules \in 0..setup.modules
  /\ Drm \in setup.deployed => modules >= 1
  /\ \A t \in roles \cup links : t[2] \in 0..modules
ProposalsOK ==
  /\ proposal \in [Payloads -> [state : States, eta : Nat]]
  /\ file \in [Payloads -> Files]
TypeInv ==
  /\ setup \in Setups
  /\ now \in 0..setup.time
  /\ depositsPaused \in BOOLEAN
  /\ SlotsOK /\ ModulesOK /\ ProposalsOK /\ RunsOK

LEMMA SetupTyped ==
  ASSUME TypeInv
  PROVE  /\ setup.scripts \subseteq AllScripts /\ setup.time \in Nat
         /\ setup.modules \in Nat \ {0} /\ modules \in Nat /\ now \in Nat
BY OperationsAssumption DEF TypeInv, ModulesOK

LEMMA RunningScript ==
  ASSUME TypeInv, NEW o \in Operators, run[o].script # ""
  PROVE  /\ run[o].script \in AllScripts
         /\ Running(run[o], setup.scripts)
         /\ Forward(Current(o))
<1>1. Running(run[o], setup.scripts)
  <2>1. RunOK(run[o], setup.scripts, modules)
    BY DEF TypeInv, RunsOK
  <2>2. Resting(run[o]) => run[o].script = ""
    BY DEF Resting, Idle
  <2>3. QED
    BY <2>1, <2>2 DEF RunOK
<1>2. run[o].script \in AllScripts
  BY <1>1, SetupTyped DEF Running
<1>3. Forward(Current(o))
  BY <1>1, <1>2, BodyTyped DEF Running, Current
<1>4. QED
  BY <1>1, <1>2, <1>3

LEMMA RestingOK ==
  ASSUME NEW x, NEW scripts, NEW m \in Nat
  PROVE  RunOK([Idle EXCEPT !.success = x], scripts, m)
<1> DEFINE r == [Idle EXCEPT !.success = x]
<1>1. DOMAIN Idle = Fields
  BY DEF Idle, Fields
<1>2. Shape(r)
  BY <1>1 DEF Shape
<1>3. r.copy = "none" /\ r.module = 0 /\ r.success = x
  BY DEF Idle
<1>4. Resting(r)
  BY <1>3, Zenon DEF Resting
<1>5. QED
  BY <1>2, <1>3, <1>4 DEF RunOK, Files

LEMMA FinishedOK ==
  ASSUME NEW o, NEW b, NEW scripts, NEW m \in Nat
  PROVE  RunOK(Finished(o, b), scripts, m)
BY RestingOK, Zenon DEF Finished

LEMMA RememberingOK ==
  ASSUME NEW r, NEW x, NEW scripts, NEW m, RunOK(r, scripts, m), Running(r, scripts)
  PROVE  /\ RunOK([r EXCEPT !.bad = x], scripts, m)
         /\ Running([r EXCEPT !.bad = x], scripts)
<1> DEFINE q == [r EXCEPT !.bad = x]
<1>1. Shape(r)
  BY DEF RunOK
<1>2. /\ Shape(q) /\ q.script = r.script /\ q.pc = r.pc /\ q.payload = r.payload
      /\ q.copy = r.copy /\ q.module = r.module
  BY <1>1 DEF Shape, Fields
<1>3. QED
  BY <1>2 DEF RunOK, Running

LEMMA NoNewModule ==
  ASSUME modules \in Nat, modules' = modules
  PROVE  modules' \in Nat /\ modules' >= modules
OBVIOUS

(* Replacing the record of one run.                                        *)
LEMMA OneRun ==
  ASSUME TypeInv, NEW o \in Operators, NEW r, run' = [run EXCEPT ![o] = r], setup' = setup,
         modules' \in Nat, modules' >= modules, RunOK(r, setup.scripts, modules')
  PROVE  RunsOK'
<1>1. \A p \in Operators : RunOK(run[p], setup.scripts, modules')
  BY SetupTyped DEF TypeInv, RunsOK, RunOK
<1>2. QED
  BY <1>1 DEF TypeInv, RunsOK

(* Every way a run goes on: n steps further with what it has learnt.       *)
LEMMA Advancing ==
  ASSUME TypeInv, NEW o \in Operators, NEW r, NEW n \in Nat, Advance(o, r, n), setup' = setup,
         modules' \in Nat, modules' >= modules, RunOK(r, setup.scripts, modules'),
         Running(r, setup.scripts)
  PROVE  RunsOK'
<1>1. CASE r.pc + n <= Len(Body(r.script))
  <2>1. run' = [run EXCEPT ![o] = [r EXCEPT !.pc = r.pc + n]]
    BY <1>1 DEF Advance
  <2>2. r.pc + n \in DOMAIN Body(r.script)
    BY <1>1, SetupTyped, BodyTyped DEF Running
  <2>3. Shape(r)
    BY DEF RunOK
  <2> DEFINE q == [r EXCEPT !.pc = r.pc + n]
  <2>4. /\ Shape(q) /\ q.script = r.script /\ q.pc = r.pc + n /\ q.payload = r.payload
        /\ q.copy = r.copy /\ q.module = r.module
    BY <2>3 DEF Shape, Fields
  <2>5. RunOK(q, setup.scripts, modules')
    BY <2>2, <2>4 DEF RunOK, Running
  <2>6. QED
    BY <2>1, <2>5, OneRun
<1>2. CASE ~(r.pc + n <= Len(Body(r.script)))
  <2>1. run' = [run EXCEPT ![o] = Finished(o, ~r.bad)]
    BY <1>2 DEF Advance
  <2>2. QED
    BY <2>1, FinishedOK, OneRun
<1>3. QED
  BY <1>1, <1>2

LEMMA Continuing ==
  ASSUME TypeInv, NEW o \in Operators, run[o].script # "", NEW n \in Nat,
         Advance(o, run[o], n), setup' = setup, modules' = modules
  PROVE  RunsOK'
<1>1. RunOK(run[o], setup.scripts, modules) /\ Running(run[o], setup.scripts)
  BY RunningScript DEF TypeInv, RunsOK
<1>2. modules' \in Nat /\ modules' >= modules
  BY SetupTyped, NoNewModule
<1>3. QED
  BY <1>1, <1>2, Advancing

LEMMA Failing ==
  ASSUME TypeInv, NEW o \in Operators, run[o].script # "", Fails(o), setup' = setup,
         modules' = modules
  PROVE  RunsOK'
<1>1. Current(o).catch \in Nat
  BY RunningScript DEF Forward
<1> DEFINE r == [run[o] EXCEPT !.bad = run[o].bad \/ Current(o).op = "note"]
<1>2. RunOK(run[o], setup.scripts, modules) /\ Running(run[o], setup.scripts)
  BY RunningScript DEF TypeInv, RunsOK
<1>3. RunOK(r, setup.scripts, modules) /\ Running(r, setup.scripts)
  BY <1>2, RememberingOK, Zenon
<1>4. modules' \in Nat /\ modules' >= modules
  BY SetupTyped, NoNewModule
<1>5. CASE Current(o).catch = 0
  BY <1>5, <1>4, FinishedOK, OneRun DEF Fails
<1>6. CASE Current(o).catch # 0
  BY <1>1, <1>3, <1>4, <1>6, Advancing DEF Fails
<1>7. QED
  BY <1>5, <1>6

(* What a run learns from a step: what it saw pending, the module it       *)
(* works on, the copy of an artifact.                                      *)
LEMMA LearningOK ==
  ASSUME NEW r, NEW x, NEW scripts, NEW m, RunOK(r, scripts, m), Running(r, scripts)
  PROVE  /\ RunOK([r EXCEPT !.seen = x], scripts, m) /\ Running([r EXCEPT !.seen = x], scripts)
         /\ x \in 0..m => /\ RunOK([r EXCEPT !.module = x], scripts, m)
                          /\ Running([r EXCEPT !.module = x], scripts)
         /\ (r.payload \in Payloads => x \in Files) =>
              /\ RunOK([r EXCEPT !.copy = x], scripts, m)
              /\ Running([r EXCEPT !.copy = x], scripts)
<1>1. Shape(r)
  BY DEF RunOK
<1>2. RunOK([r EXCEPT !.seen = x], scripts, m) /\ Running([r EXCEPT !.seen = x], scripts)
  <2> DEFINE q == [r EXCEPT !.seen = x]
  <2>1. /\ Shape(q) /\ q.script = r.script /\ q.pc = r.pc /\ q.payload = r.payload
        /\ q.copy = r.copy /\ q.module = r.module
    BY <1>1 DEF Shape, Fields
  <2>2. QED
    BY <2>1 DEF RunOK, Running
<1>3. ASSUME x \in 0..m
      PROVE  RunOK([r EXCEPT !.module = x], scripts, m) /\ Running([r EXCEPT !.module = x], scripts)
  <2> DEFINE q == [r EXCEPT !.module = x]
  <2>1. /\ Shape(q) /\ q.script = r.script /\ q.pc = r.pc /\ q.payload = r.payload
        /\ q.copy = r.copy /\ q.module = x
    BY <1>1 DEF Shape, Fields
  <2>2. QED
    BY <1>3, <2>1 DEF RunOK, Running
<1>4. ASSUME r.payload \in Payloads => x \in Files
      PROVE  RunOK([r EXCEPT !.copy = x], scripts, m) /\ Running([r EXCEPT !.copy = x], scripts)
  <2> DEFINE q == [r EXCEPT !.copy = x]
  <2>1. /\ Shape(q) /\ q.script = r.script /\ q.pc = r.pc /\ q.payload = r.payload
        /\ q.copy = x /\ q.module = r.module
    BY <1>1 DEF Shape, Fields
  <2>2. QED
    BY <1>4, <2>1 DEF RunOK, Running
<1>5. QED
  BY <1>2, <1>3, <1>4

(* The steps that change nothing but their own run.                        *)
LEMMA OnlyRuns ==
  ASSUME TypeInv, RunsOK', UNCHANGED unchangedByReads
  PROVE  TypeInv'
BY DEF TypeInv, SlotsOK, ModulesOK, ProposalsOK, unchangedByReads

LEMMA ChecksTyped == ASSUME TypeInv, NEW o \in Operators, Checks(o) PROVE TypeInv'
<1>1. run[o].script # "" /\ UNCHANGED unchangedByReads
  BY DEF Checks, At
<1>2. setup' = setup /\ modules' = modules /\ modules \in Nat
  BY <1>1, SetupTyped DEF unchangedByReads
<1>3. \/ run' = [run EXCEPT ![o] = Finished(o, TRUE)]
      \/ Advance(o, run[o], 1)
      \/ Fails(o)
  BY DEF Checks, Continue
<1>4. CASE run' = [run EXCEPT ![o] = Finished(o, TRUE)]
  BY <1>2, <1>4, FinishedOK, NoNewModule, OneRun, OnlyRuns, <1>1
<1>5. CASE Advance(o, run[o], 1)
  BY <1>1, <1>2, <1>5, Continuing, OnlyRuns
<1>6. CASE Fails(o)
  BY <1>1, <1>2, <1>6, Failing, OnlyRuns
<1>7. QED
  BY <1>3, <1>4, <1>5, <1>6

LEMMA SkipsTyped == ASSUME TypeInv, NEW o \in Operators, Skips(o) PROVE TypeInv'
<1>1. run[o].script # "" /\ Current(o).op = "skip" /\ UNCHANGED unchangedByReads
  BY DEF Skips, At
<1>2. setup' = setup /\ modules' = modules
  BY <1>1 DEF unchangedByReads
<1>3. Current(o).what \in Nat
  BY <1>1, RunningScript DEF Forward
<1>4. PICK n \in Nat : Advance(o, run[o], n)
  BY <1>3 DEF Skips
<1>5. QED
  BY <1>1, <1>2, <1>4, Continuing, OnlyRuns

LEMMA NotesTyped ==
  ASSUME TypeInv, NEW o \in Operators, Notes(o) \/ SimulationFails(o) \/ Refused(o) \/ MissesDeployments(o)
  PROVE  TypeInv'
<1>1. run[o].script # "" /\ UNCHANGED unchangedByReads
  BY DEF Notes, SimulationFails, Refused, MissesDeployments, At
<1>2. setup' = setup /\ modules' = modules
  BY <1>1 DEF unchangedByReads
<1>3. Advance(o, run[o], 1) \/ Fails(o)
  BY DEF Notes, SimulationFails, Refused, MissesDeployments, Continue
<1>4. CASE Advance(o, run[o], 1)
  BY <1>1, <1>2, <1>4, Continuing, OnlyRuns
<1>5. CASE Fails(o)
  BY <1>1, <1>2, <1>5, Failing, OnlyRuns
<1>6. QED
  BY <1>3, <1>4, <1>5

LEMMA ReadsTyped ==
  ASSUME TypeInv, NEW o \in Operators, Reads(o) \/ GetsModule(o) \/ Loads(o) PROVE TypeInv'
<1>1. run[o].script # "" /\ UNCHANGED unchangedByReads
  BY DEF Reads, GetsModule, Loads, At
<1>2. setup' = setup /\ modules' = modules /\ modules \in Nat
  BY <1>1, SetupTyped DEF unchangedByReads
<1>3. modules' \in Nat /\ modules' >= modules
  BY <1>2, NoNewModule
<1>4. RunOK(run[o], setup.scripts, modules') /\ Running(run[o], setup.scripts)
  BY <1>1, <1>2, RunningScript DEF TypeInv, RunsOK
<1>5. PICK r : /\ Advance(o, r, 1)
               /\ RunOK(r, setup.scripts, modules') /\ Running(r, setup.scripts)
  <2>1. CASE Reads(o)
    BY <1>4, <2>1, LearningOK DEF Reads
  <2>2. CASE GetsModule(o)
    <3>1. 1 \in 0..modules'
      BY <1>2, <2>2 DEF GetsModule, TypeInv, ModulesOK
    <3>2. QED
      BY <1>4, <2>2, <3>1, LearningOK DEF GetsModule
  <2>3. CASE Loads(o)
    <3>1. run[o].payload \in Payloads => file[run[o].payload] \in Files
      BY DEF TypeInv, ProposalsOK
    <3>2. QED
      BY <1>4, <2>3, <3>1, LearningOK DEF Loads
  <2>4. QED
    BY <2>1, <2>2, <2>3
<1>6. QED
  BY <1>1, <1>2, <1>3, <1>5, Advancing, OnlyRuns

-----------------------------------------------------------------------------
(* Transactions.                                                           *)
LEMMA RunAfter ==
  ASSUME TypeInv, NEW o \in Operators, run[o].script # "", Continue(o), setup' = setup,
         modules' = modules
  PROVE  RunsOK'
BY Continuing DEF Continue

LEMMA IdTyped ==
  ASSUME TypeInv, NEW o \in Operators, NEW c
  PROVE  IdOf(c, run[o].module) \in 0..modules
<1>1. run[o].module \in 0..modules /\ modules \in Nat
  BY SetupTyped DEF TypeInv, RunsOK, RunOK
<1>2. QED
  BY <1>1 DEF IdOf

LEMMA OneModuleMore ==
  ASSUME NEW m \in Nat, NEW n, n = m + 1, NEW max \in Nat, m < max
  PROVE  /\ n \in Nat /\ n >= m /\ n \in 0..max /\ n >= 1 /\ m + 1 \in 0..n
         /\ \A i \in 0..m : i \in 0..n
OBVIOUS

LEMMA DeploysModuleTyped == ASSUME TypeInv, NEW o \in Operators, DeploysModule(o) PROVE TypeInv'
<1>1. run[o].script # "" /\ setup' = setup /\ modules' = modules + 1 /\ modules < setup.modules
  BY DEF DeploysModule, At
<1>2. modules \in Nat /\ setup.modules \in Nat
  BY SetupTyped
<1>3. modules' \in Nat /\ modules' >= modules /\ modules' \in 0..setup.modules /\ modules' >= 1
      /\ modules + 1 \in 0..modules' /\ \A i \in 0..modules : i \in 0..modules'
  BY <1>1, <1>2, OneModuleMore
<1>4. RunsOK'
  <2>1. RunOK(run[o], setup.scripts, modules) /\ Running(run[o], setup.scripts)
    BY <1>1, RunningScript DEF TypeInv, RunsOK
  <2>2. RunOK(run[o], setup.scripts, modules')
    BY <1>3, <2>1 DEF RunOK
  <2>3. /\ RunOK([run[o] EXCEPT !.module = modules + 1], setup.scripts, modules')
        /\ Running([run[o] EXCEPT !.module = modules + 1], setup.scripts)
    BY <1>3, <2>1, <2>2, LearningOK
  <2>4. Advance(o, [run[o] EXCEPT !.module = modules + 1], 1)
    BY DEF DeploysModule
  <2>5. QED
    BY <1>1, <1>3, <2>3, <2>4, Advancing
<1>5. ModulesOK'
  <2>1. \A t \in roles' \cup links' : t[2] \in 0..modules'
    <3>1. roles' = roles \cup {<<c, modules + 1, ADMIN, Current(o).by>> : c \in {Module, Staking, Pool}}
          /\ links' = links
      BY DEF DeploysModule
    <3>2. \A t \in roles \cup links : t[2] \in 0..modules'
      BY <1>3 DEF TypeInv, ModulesOK
    <3>3. QED
      BY <1>3, <3>1, <3>2
  <2>2. QED
    BY <1>1, <1>3, <2>1, Zenon DEF ModulesOK
<1>6. QED
  BY <1>1, <1>4, <1>5 DEF TypeInv, SlotsOK, ProposalsOK, DeploysModule

LEMMA GrantsTyped ==
  ASSUME TypeInv, NEW o \in Operators, Grants(o) \/ Linking(o) PROVE TypeInv'
<1>1. /\ run[o].script # "" /\ setup' = setup /\ modules' = modules /\ Continue(o)
      /\ UNCHANGED <<now, setting, pending, depositsPaused, proposal, file>>
  BY DEF Grants, Linking, At
<1>2. IdOf(Current(o).on, run[o].module) \in 0..modules
  BY IdTyped
<1>3. ModulesOK'
  <2>1. CASE Grants(o)
    BY <1>2, <2>1 DEF Grants, TypeInv, ModulesOK
  <2>2. CASE Linking(o)
    BY <1>2, <2>2 DEF Linking, TypeInv, ModulesOK
  <2>3. QED
    BY <2>1, <2>2
<1>4. QED
  BY <1>1, <1>3, RunAfter DEF TypeInv, SlotsOK, ProposalsOK

(* The two moves of the slow lane, whoever makes them.                     *)
LEMMA QueueSlotTyped ==
  ASSUME TypeInv, NEW s, NEW v \in Nat, QueueSlot(s, v), setting' = setting
  PROVE  SlotsOK'
<1>1. now + SLOW_DELAY \in Nat
  BY SetupTyped, OperationsAssumption
<1>2. QED
  BY <1>1 DEF TypeInv, SlotsOK, QueueSlot

LEMMA ActivateSlotTyped ==
  ASSUME TypeInv, NEW s, ActivateSlot(s)
  PROVE  SlotsOK'
<1>1. Nothing \in [exists : BOOLEAN, value : Nat, eta : Nat]
  BY DEF Nothing
<1>2. pending' \in [Slots -> [exists : BOOLEAN, value : Nat, eta : Nat]]
  BY <1>1 DEF TypeInv, SlotsOK, ActivateSlot
<1>3. setting' \in [Slots -> Nat]
  BY DEF TypeInv, SlotsOK, ActivateSlot
<1>4. \A t \in Slots : ~pending'[t].exists => pending'[t] = Nothing
  BY DEF TypeInv, SlotsOK, ActivateSlot
<1>5. QED
  BY <1>2, <1>3, <1>4 DEF SlotsOK

LEMMA ValueTyped == ASSUME TypeInv, NEW o \in Operators, NEW s PROVE ValueFor(o, s) \in Nat
<1>1. run[o].module \in 0..modules
  BY DEF TypeInv, RunsOK, RunOK
<1>2. run[o].module \in Nat
  BY <1>1, SetupTyped
<1>3. QED
  BY <1>2 DEF ValueFor, TargetFee

LEMMA SettingsTyped ==
  ASSUME TypeInv, NEW o \in Operators, Queues(o) \/ Activates(o) \/ Sets(o) \/ Pauses(o)
  PROVE  TypeInv'
<1>1. /\ run[o].script # "" /\ setup' = setup /\ modules' = modules /\ Continue(o)
      /\ UNCHANGED <<now, roles, links, proposal, file>>
  BY DEF Queues, Activates, Sets, Pauses, At
<1>2. SlotsOK' /\ depositsPaused' \in BOOLEAN
  <2>1. CASE Queues(o)
    BY <2>1, ValueTyped, QueueSlotTyped DEF Queues, TypeInv
  <2>2. CASE Activates(o)
    BY <2>2, ActivateSlotTyped DEF Activates, TypeInv
  <2>3. CASE Sets(o)
    BY <2>3, ValueTyped DEF Sets, TypeInv, SlotsOK
  <2>4. CASE Pauses(o)
    BY <2>4 DEF Pauses, TypeInv, SlotsOK
  <2>5. QED
    BY <2>1, <2>2, <2>3, <2>4
<1>3. QED
  BY <1>1, <1>2, RunAfter DEF TypeInv, ModulesOK, ProposalsOK

-----------------------------------------------------------------------------
(* Artifacts and proposals.                                                *)
LEMMA ArtifactsTyped ==
  ASSUME TypeInv, NEW o \in Operators, Writes(o) \/ Proposes(o) \/ Saves(o)
  PROVE  TypeInv'
<1>1. /\ run[o].script # "" /\ setup' = setup /\ modules' = modules
      /\ UNCHANGED <<now, roles, links, setting, pending, depositsPaused>>
  BY DEF Writes, Proposes, Saves, At
<1>2. RunsOK'
  <2>1. CASE Continue(o)
    BY <1>1, <2>1, RunAfter
  <2>2. CASE Proposes(o)
    <3>1. RunOK(run[o], setup.scripts, modules) /\ Running(run[o], setup.scripts)
      BY <1>1, RunningScript DEF TypeInv, RunsOK
    <3>2. /\ RunOK([run[o] EXCEPT !.copy = "proposed"], setup.scripts, modules)
          /\ Running([run[o] EXCEPT !.copy = "proposed"], setup.scripts)
      BY <3>1, LearningOK DEF Files
    <3>3. modules' \in Nat /\ modules' >= modules
      BY <1>1, SetupTyped, NoNewModule
    <3>4. QED
      BY <1>1, <2>2, <3>2, <3>3, Advancing DEF Proposes
  <2>3. QED
    BY <2>1, <2>2 DEF Writes, Saves
<1>3. ProposalsOK'
  <2>1. CASE Writes(o)
    BY <2>1 DEF Writes, TypeInv, ProposalsOK, Files
  <2>2. CASE Proposes(o)
    BY <2>2 DEF Proposes, TypeInv, ProposalsOK, States
  <2>3. CASE Saves(o)
    <3>1. run[o].payload \in Payloads => run[o].copy \in Files
      BY DEF TypeInv, RunsOK, RunOK
    <3>2. QED
      BY <2>3, <3>1 DEF Saves, TypeInv, ProposalsOK
  <2>4. QED
    BY <2>1, <2>2, <2>3
<1>4. QED
  BY <1>1, <1>2, <1>3 DEF TypeInv, SlotsOK, ModulesOK

LEMMA ProposalsTyped ==
  ASSUME TypeInv, NEW p \in Payloads, Voted(p) \/ QueuedInTimelock(p) \/ Executed(p)
  PROVE  TypeInv'
<1>1. UNCHANGED <<setup, now, roles, links, modules, depositsPaused, file, run>>
  BY DEF Voted, QueuedInTimelock, Executed
<1>2. SlotsOK'
  <2>1. CASE Voted(p) \/ QueuedInTimelock(p)
    BY <2>1 DEF Voted, QueuedInTimelock, TypeInv, SlotsOK
  <2>2. CASE Executed(p)
    BY <2>2, QueueSlotTyped, ActivateSlotTyped DEF Executed, NewFee
  <2>3. QED
    BY <2>1, <2>2
<1>3. ProposalsOK'
  <2>1. now + MIN_DELAY \in Nat
    BY SetupTyped, OperationsAssumption
  <2>2. CASE Voted(p)
    BY <2>2 DEF Voted, TypeInv, ProposalsOK, States
  <2>3. CASE QueuedInTimelock(p)
    BY <2>1, <2>3 DEF QueuedInTimelock, TypeInv, ProposalsOK, States
  <2>4. CASE Executed(p)
    BY <2>4 DEF Executed, TypeInv, ProposalsOK, States
  <2>5. QED
    BY <2>2, <2>3, <2>4
<1>4. QED
  BY <1>1, <1>2, <1>3 DEF TypeInv, ModulesOK, RunsOK

-----------------------------------------------------------------------------
(* Launches, deaths and faults, deploy/95 and the clock.                   *)
LEMMA LaunchTyped ==
  ASSUME TypeInv, NEW o \in Operators, NEW s \in setup.scripts, NEW p, Launch(o, s, p)
  PROVE  TypeInv'
<1> DEFINE r == [Idle EXCEPT !.script = s, !.payload = p, !.pc = 1]
<1>1. 1 \in DOMAIN Body(s)
  BY SetupTyped, BodyTyped
<1>2. DOMAIN Idle = Fields
  BY DEF Idle, Fields
<1>3. Shape(r) /\ r.script = s /\ r.pc = 1 /\ r.copy = "none" /\ r.module = 0
  <2>1. Idle.copy = "none" /\ Idle.module = 0
    BY DEF Idle
  <2>2. QED
    BY <1>2, <2>1 DEF Shape, Fields
<1>4. modules \in Nat /\ modules' = modules /\ setup' = setup
  BY SetupTyped DEF Launch
<1>5. RunOK(r, setup.scripts, modules')
  BY <1>1, <1>3, <1>4 DEF RunOK, Running, Files
<1>6. RunsOK'
  BY <1>4, <1>5, NoNewModule, OneRun DEF Launch
<1>7. QED
  BY <1>6 DEF Launch, TypeInv, SlotsOK, ModulesOK, ProposalsOK

LEMMA KilledTyped == ASSUME TypeInv, NEW o \in Operators, Killed(o) PROVE TypeInv'
<1>1. DOMAIN Idle = Fields /\ Idle.copy = "none" /\ Idle.module = 0
  BY DEF Idle, Fields
<1>2. Idle = [Idle EXCEPT !.success = Idle.success]
  BY DEF Idle
<1>3. modules \in Nat /\ modules' = modules /\ setup' = setup
  BY SetupTyped DEF Killed
<1>4. RunOK(Idle, setup.scripts, modules')
  BY <1>1, <1>2, <1>3 DEF RunOK, Shape, Resting, Files
<1>5. RunsOK'
  BY <1>3, <1>4, NoNewModule, OneRun DEF Killed
<1>6. QED
  BY <1>5 DEF Killed, TypeInv, SlotsOK, ModulesOK, ProposalsOK

LEMMA FaultTyped == ASSUME TypeInv, NEW o \in Operators, Fault(o) PROVE TypeInv'
<1>1. RunsOK'
  BY Failing DEF Fault
<1>2. QED
  BY <1>1 DEF Fault, TypeInv, SlotsOK, ModulesOK, ProposalsOK

LEMMA StripTyped == ASSUME TypeInv, Strip PROVE TypeInv'
<1>1. roles' \subseteq roles
  BY DEF Strip
<1>2. QED
  BY <1>1 DEF Strip, TypeInv, SlotsOK, ModulesOK, ProposalsOK, RunsOK

LEMMA TickTyped == ASSUME TypeInv, Tick PROVE TypeInv'
<1>1. now' \in 0..setup.time
  <2>1. now < setup.time /\ now' = now + 1
    BY DEF Tick
  <2>2. now \in Nat /\ setup.time \in Nat
    BY SetupTyped
  <2>3. QED
    BY <2>1, <2>2
<1>2. ASSUME NEW o \in Operators
      PROVE  RunOK(run'[o], setup.scripts, modules)
  <2>1. RunOK(run[o], setup.scripts, modules)
    BY DEF TypeInv, RunsOK
  <2>2. CASE run[o].script = ""
    BY <2>1, <2>2 DEF Tick
  <2>3. CASE run[o].script # ""
    <3> DEFINE q == [run[o] EXCEPT !.aged = TRUE]
    <3>1. run'[o] = q
      BY <2>3 DEF Tick
    <3>2. /\ Shape(q) /\ q.script = run[o].script /\ q.pc = run[o].pc
          /\ q.payload = run[o].payload /\ q.copy = run[o].copy /\ q.module = run[o].module
      BY <2>1 DEF RunOK, Shape, Fields
    <3>3. Running(run[o], setup.scripts)
      BY <2>3, RunningScript
    <3>4. QED
      BY <2>1, <3>1, <3>2, <3>3 DEF RunOK, Running
  <2>4. QED
    BY <2>2, <2>3
<1>3. RunsOK'
  BY <1>2 DEF Tick, RunsOK
<1>4. QED
  BY <1>1, <1>3 DEF Tick, TypeInv, SlotsOK, ModulesOK, ProposalsOK

-----------------------------------------------------------------------------
LEMMA InitTyped == Init => TypeInv
<1> SUFFICES ASSUME Init PROVE TypeInv
  OBVIOUS
<1>1. setup \in Setups /\ setup.time \in Nat /\ setup.modules \in Nat \ {0}
  BY OperationsAssumption DEF Init
<1>2. now \in 0..setup.time /\ depositsPaused \in BOOLEAN
  <2>1. now = 0 /\ depositsPaused = FALSE
    BY DEF Init
  <2>2. \A n \in Nat : 0 \in 0..n
    OBVIOUS
  <2>3. 0 \in 0..setup.time
    BY <1>1, <2>2, Zenon
  <2>4. QED
    BY <2>1, <2>3, Zenon
<1>3. SlotsOK
  BY DEF Init, SlotsOK, Nothing
<1>4. ProposalsOK
  BY DEF Init, ProposalsOK, Files, States
<1>5. modules \in 0..setup.modules /\ (Drm \in setup.deployed => modules >= 1)
  BY <1>1 DEF Init
<1>6. \A t \in roles \cup links : t[2] \in 0..modules
  <2>1. CASE Drm \in setup.deployed
    <3>1. modules = 1
      BY <2>1 DEF Init
    <3>2. \A t \in roles : t[2] \in {0, 1}
      BY DEF Init, DeployedRoles, CapitalRoles
    <3>3. \A t \in links : t[2] \in {0, 1}
      BY DEF Init, DrmLinks
    <3>4. QED
      BY <3>1, <3>2, <3>3
  <2>2. CASE Drm \notin setup.deployed
    <3>1. modules = 0 /\ links = {}
      BY <2>2 DEF Init
    <3>2. \A t \in roles : t[2] = 0
      BY <2>2 DEF Init, DeployedRoles
    <3>3. QED
      BY <3>1, <3>2
  <2>3. QED
    BY <2>1, <2>2
<1>7. RunsOK
  <2>1. DOMAIN Idle = Fields /\ Idle.copy = "none" /\ Idle.module = 0
    BY DEF Idle, Fields
  <2>2. Idle = [Idle EXCEPT !.success = Idle.success]
    BY DEF Idle
  <2>3. modules \in Nat
    BY <1>1, <1>5
  <2>4. RunOK(Idle, setup.scripts, modules)
    BY <2>1, <2>2, <2>3 DEF RunOK, Shape, Resting, Files
  <2>5. QED
    BY <2>4 DEF Init, RunsOK
<1>8. QED
  BY <1>1, <1>2, <1>3, <1>4, <1>5, <1>6, <1>7 DEF TypeInv, ModulesOK

LEMMA NextTyped == TypeInv /\ [Next]_vars => TypeInv'
<1> SUFFICES ASSUME TypeInv, [Next]_vars PROVE TypeInv'
  OBVIOUS
<1>1. CASE UNCHANGED vars
  BY <1>1 DEF TypeInv, SlotsOK, ModulesOK, ProposalsOK, RunsOK
<1>2. ASSUME NEW o \in Operators, OperatorStep(o) PROVE TypeInv'
  BY <1>2, ChecksTyped, SkipsTyped, NotesTyped, ReadsTyped, DeploysModuleTyped, GrantsTyped,
     SettingsTyped, ArtifactsTyped DEF OperatorStep
<1>3. ASSUME NEW o \in Operators, NEW s \in setup.scripts, NEW p, Launch(o, s, p) PROVE TypeInv'
  BY <1>3, LaunchTyped
<1>4. ASSUME NEW o \in Operators, Killed(o) \/ Fault(o) PROVE TypeInv'
  BY <1>4, KilledTyped, FaultTyped
<1>5. ASSUME NEW p \in Payloads, Voted(p) \/ QueuedInTimelock(p) \/ Executed(p) PROVE TypeInv'
  BY <1>5, ProposalsTyped
<1>6. CASE Strip \/ Tick
  BY <1>6, StripTyped, TickTyped
<1>7. QED
  BY <1>1, <1>2, <1>3, <1>4, <1>5, <1>6 DEF Next

LEMMA TypeInvImplies == TypeInv => TypeOK
<1> SUFFICES ASSUME TypeInv PROVE TypeOK
  OBVIOUS
<1>1. ASSUME NEW o \in Operators
      PROVE  \/ run[o] = [Idle EXCEPT !.success = run[o].success]
             \/ /\ run[o].script \in setup.scripts
                /\ run[o].pc \in DOMAIN Body(run[o].script)
                /\ run[o].module \in 0..modules
  BY DEF TypeInv, RunsOK, RunOK, Resting, Running
<1>2. /\ now \in 0..setup.time /\ depositsPaused \in BOOLEAN
      /\ modules \in 0..setup.modules /\ \A t \in roles \cup links : t[2] \in 0..modules
  BY DEF TypeInv, ModulesOK
<1>3. SlotsOK /\ ProposalsOK
  BY DEF TypeInv
<1>4. QED
  BY <1>1, <1>2, <1>3 DEF TypeOK, Values, SlotsOK, ProposalsOK, Files, States

THEOREM TypeInvariant == Spec => []TypeInv
<1>1. Init => TypeInv
  BY InitTyped
<1>2. TypeInv /\ [Next]_vars => TypeInv'
  BY NextTyped
<1>3. QED
  BY <1>1, <1>2, PTL DEF Spec

(* The variables of Operations keep their types whatever scripts are run,  *)
(* killed or refused, and by however many operators: no script runs past   *)
(* its end, and no slot waits without a moment to become due.              *)
THEOREM TypeCorrect == Spec => []TypeOK
<1>1. TypeInv => TypeOK
  BY TypeInvImplies
<1>2. QED
  BY <1>1, TypeInvariant, PTL

-----------------------------------------------------------------------------
(* The module in effect.  A fact f is one of the conditions a script can   *)
(* read of the module it works on: a role or a link.  A body secures f at  *)
(* k if a run can get to step k only with f: the step before k grants or   *)
(* links it, or is skipped because f was read.                             *)
IsList(b) == \E S : b \in Seq(S)
Learns(x) == x.op \in {"deploy", "get"}
Places(x) == x.op \in {"queue", "set"} /\ x.on = "resolutionModule"
Makes(x, f) == \/ x.op = "grant" /\ f = Has(x.on, x.what, x.who)
               \/ x.op = "link" /\ f = Linked(x.on, x.what)
Leads(x, i, k, f) ==
  /\ x.catch = 0
  /\ x.op = "skip" => /\ x.what \in Nat
                      /\ i + 1 < k
                      /\ i + x.what + 1 < k \/ (x.cond = f /\ x.need = NEVER)
  /\ x.op # "skip" => i + 1 < k \/ Makes(x, f)
Secured(b, k, f) ==
  /\ k \in 2..Len(b) + 1
  /\ \A i \in 1..k - 1 : Leads(b[i], i, k, f)
  /\ \A i \in k..Len(b) : ~Learns(b[i])
Secures(b, f) == IsList(b) /\ \E k \in 2..Len(b) + 1 : Secured(b, k, f)

(* A closed piece of a script: it catches nothing and skips nothing beyond *)
(* its end.                                                                *)
Closed(b) ==
  /\ IsList(b)
  /\ \A i \in 1..Len(b) : /\ b[i].catch = 0
                          /\ b[i].op = "skip" => b[i].what \in Nat /\ i + b[i].what <= Len(b)
Unlearning(b) == IsList(b) /\ \A i \in 1..Len(b) : ~Learns(b[i])

LEMMA Joined ==
  ASSUME NEW a, NEW b, IsList(a), IsList(b)
  PROVE  /\ IsList(a \o b) /\ Len(a) \in Nat /\ Len(b) \in Nat
         /\ Len(a \o b) = Len(a) + Len(b)
         /\ \A i \in 1..Len(a) : (a \o b)[i] = a[i]
         /\ \A i \in Len(a) + 1..Len(a) + Len(b) : /\ (a \o b)[i] = b[i - Len(a)]
                                                    /\ i - Len(a) \in 1..Len(b)
<1>1. PICK S : a \in Seq(S)
  BY DEF IsList
<1>2. PICK T : b \in Seq(T)
  BY DEF IsList
<1>3. a \in Seq(S \cup T) /\ b \in Seq(S \cup T)
  BY <1>1, <1>2
<1>4. a \o b \in Seq(S \cup T)
  BY <1>3
<1>5. IsList(a \o b)
  BY <1>4 DEF IsList
<1>6. QED
  BY <1>3, <1>5

LEMMA ClosedJoined == \A a, b : Closed(a) /\ Closed(b) => Closed(a \o b)
<1> SUFFICES ASSUME NEW a, NEW b, Closed(a), Closed(b) PROVE Closed(a \o b)
  OBVIOUS
<1> DEFINE c == a \o b
<1>1. IsList(a) /\ IsList(b)
  BY DEF Closed
<1>2. /\ IsList(c) /\ Len(a) \in Nat /\ Len(b) \in Nat /\ Len(c) = Len(a) + Len(b)
      /\ \A i \in 1..Len(a) : c[i] = a[i]
      /\ \A i \in Len(a) + 1..Len(a) + Len(b) : c[i] = b[i - Len(a)] /\ i - Len(a) \in 1..Len(b)
  BY <1>1, Joined
<1> HIDE DEF c
<1>3. ASSUME NEW i \in 1..Len(c)
      PROVE  /\ c[i].catch = 0
             /\ c[i].op = "skip" => c[i].what \in Nat /\ i + c[i].what <= Len(c)
  <2>1. CASE i \in 1..Len(a)
    BY <1>2, <2>1 DEF Closed
  <2>2. CASE i \in Len(a) + 1..Len(a) + Len(b)
    <3>1. c[i] = b[i - Len(a)] /\ i - Len(a) \in 1..Len(b)
      BY <1>2, <2>2
    <3>2. /\ c[i].catch = 0
          /\ c[i].op = "skip" => c[i].what \in Nat /\ (i - Len(a)) + c[i].what <= Len(b)
      BY <3>1 DEF Closed
    <3>3. QED
      BY <1>2, <3>2
  <2>3. QED
    BY <1>2, <2>1, <2>2
<1>4. QED
  BY <1>2, <1>3 DEF Closed, c

LEMMA UnlearningJoined == \A a, b : Unlearning(a) /\ Unlearning(b) => Unlearning(a \o b)
<1> SUFFICES ASSUME NEW a, NEW b, Unlearning(a), Unlearning(b) PROVE Unlearning(a \o b)
  OBVIOUS
<1> DEFINE c == a \o b
<1>2. /\ IsList(c) /\ Len(a) \in Nat /\ Len(b) \in Nat /\ Len(c) = Len(a) + Len(b)
      /\ \A i \in 1..Len(a) : c[i] = a[i]
      /\ \A i \in Len(a) + 1..Len(a) + Len(b) : c[i] = b[i - Len(a)] /\ i - Len(a) \in 1..Len(b)
  BY Joined DEF Unlearning
<1> HIDE DEF c
<1>3. ASSUME NEW i \in 1..Len(c) PROVE ~Learns(c[i])
  <2>1. CASE i \in 1..Len(a)
    BY <1>2, <2>1 DEF Unlearning
  <2>2. CASE i \in Len(a) + 1..Len(a) + Len(b)
    BY <1>2, <2>2 DEF Unlearning
  <2>3. QED
    BY <1>2, <2>1, <2>2
<1>4. QED
  BY <1>2, <1>3 DEF Unlearning, c

(* A closed piece before, or one that learns no module behind, leaves a    *)
(* piece securing what it secures.                                         *)
LEMMA SecuresBehind == \A a, b, f : Closed(a) /\ Secures(b, f) => Secures(a \o b, f)
<1> SUFFICES ASSUME NEW a, NEW b, NEW f, Closed(a), Secures(b, f) PROVE Secures(a \o b, f)
  OBVIOUS
<1> DEFINE c == a \o b
<1>1. IsList(a) /\ IsList(b)
  BY DEF Closed, Secures
<1>2. /\ IsList(c) /\ Len(a) \in Nat /\ Len(b) \in Nat /\ Len(c) = Len(a) + Len(b)
      /\ \A i \in 1..Len(a) : c[i] = a[i]
      /\ \A i \in Len(a) + 1..Len(a) + Len(b) : c[i] = b[i - Len(a)] /\ i - Len(a) \in 1..Len(b)
  BY <1>1, Joined
<1> HIDE DEF c
<1>3. PICK k \in 2..Len(b) + 1 : Secured(b, k, f)
  BY DEF Secures
<1> DEFINE n == Len(a) + k
<1>4. n \in 2..Len(c) + 1
  BY <1>2
<1>5. ASSUME NEW i \in 1..n - 1 PROVE Leads(c[i], i, n, f)
  <2>1. CASE i \in 1..Len(a)
    <3>1. c[i] = a[i] /\ i + 1 < n
      BY <1>2, <2>1
    <3>2. c[i].catch = 0 /\ (c[i].op = "skip" => c[i].what \in Nat /\ i + c[i].what <= Len(a))
      BY <2>1, <3>1 DEF Closed
    <3>3. c[i].op = "skip" => i + c[i].what + 1 < n
      BY <1>2, <3>2
    <3>4. QED
      BY <3>1, <3>2, <3>3 DEF Leads
  <2>2. CASE i \in Len(a) + 1..Len(a) + Len(b)
    <3> DEFINE j == i - Len(a)
    <3>1. c[i] = b[j] /\ j \in 1..k - 1
      BY <1>2, <2>2
    <3>2. Leads(c[i], j, k, f)
      BY <1>3, <3>1 DEF Secured
    <3>3. \A x \in Nat : j + x + 1 < k => i + x + 1 < n
      BY <1>2
    <3>4. j + 1 < k => i + 1 < n
      BY <1>2
    <3>5. QED
      BY <3>2, <3>3, <3>4 DEF Leads
  <2>3. QED
    BY <1>2, <2>1, <2>2
<1>6. ASSUME NEW i \in n..Len(c) PROVE ~Learns(c[i])
  <2>1. i \in Len(a) + 1..Len(a) + Len(b) /\ i - Len(a) \in k..Len(b)
    BY <1>2
  <2>2. QED
    BY <1>2, <1>3, <2>1 DEF Secured
<1>7. Secured(c, n, f)
  BY <1>4, <1>5, <1>6 DEF Secured
<1>8. QED
  BY <1>2, <1>4, <1>7 DEF Secures, c

LEMMA SecuresBefore ==
  \A a, b, f : Secures(a, f) /\ Unlearning(b) /\ b # <<>> =>
    /\ Secures(a \o b, f)
    /\ \E k \in 2..Len(a \o b) : Secured(a \o b, k, f)
<1> SUFFICES ASSUME NEW a, NEW b, NEW f, Secures(a, f), Unlearning(b), b # <<>>
             PROVE  Secures(a \o b, f) /\ \E k \in 2..Len(a \o b) : Secured(a \o b, k, f)
  OBVIOUS
<1> DEFINE c == a \o b
<1>1. IsList(a) /\ IsList(b)
  BY DEF Unlearning, Secures
<1>2. /\ IsList(c) /\ Len(a) \in Nat /\ Len(b) \in Nat /\ Len(c) = Len(a) + Len(b)
      /\ \A i \in 1..Len(a) : c[i] = a[i]
      /\ \A i \in Len(a) + 1..Len(a) + Len(b) : c[i] = b[i - Len(a)] /\ i - Len(a) \in 1..Len(b)
  BY <1>1, Joined
<1>0. Len(b) > 0
  <2>1. PICK T : b \in Seq(T)
    BY <1>1 DEF IsList
  <2>2. QED
    BY <2>1
<1> HIDE DEF c
<1>3. PICK k \in 2..Len(a) + 1 : Secured(a, k, f)
  BY DEF Secures
<1>4. k \in 2..Len(c) /\ k \in 2..Len(c) + 1
  BY <1>0, <1>2
<1>5. ASSUME NEW i \in 1..k - 1 PROVE Leads(c[i], i, k, f)
  <2>1. c[i] = a[i]
    BY <1>2
  <2>2. QED
    BY <1>3, <2>1 DEF Secured
<1>6. ASSUME NEW i \in k..Len(c) PROVE ~Learns(c[i])
  <2>1. CASE i \in k..Len(a)
    BY <1>2, <1>3, <2>1 DEF Secured
  <2>2. CASE i \in Len(a) + 1..Len(a) + Len(b)
    BY <1>2, <2>2 DEF Unlearning
  <2>3. QED
    BY <1>2, <2>1, <2>2
<1>7. Secured(c, k, f)
  BY <1>4, <1>5, <1>6 DEF Secured
<1>8. QED
  BY <1>2, <1>4, <1>7 DEF Secures, c

-----------------------------------------------------------------------------
Quiet(b) == IsList(b) /\ \A i \in 1..Len(b) : ~Places(b[i])
Unlinking(b) == IsList(b) /\ \A i \in 1..Len(b) : b[i].op \notin {"link", "get"}
PlacesLast(b) == IsList(b) /\ \A i \in 1..Len(b) : Places(b[i]) => i = Len(b)

LEMMA PiecesJoined ==
  ASSUME NEW a, NEW b
  PROVE  /\ Quiet(a) /\ Quiet(b) => Quiet(a \o b)
         /\ Unlinking(a) /\ Unlinking(b) => Unlinking(a \o b)
         /\ Quiet(a) /\ PlacesLast(b) => PlacesLast(a \o b)
<1> DEFINE c == a \o b
<1>1. IsList(a) /\ IsList(b) =>
      /\ IsList(c) /\ Len(a) \in Nat /\ Len(b) \in Nat /\ Len(c) = Len(a) + Len(b)
      /\ \A i \in 1..Len(a) : c[i] = a[i]
      /\ \A i \in Len(a) + 1..Len(a) + Len(b) : c[i] = b[i - Len(a)] /\ i - Len(a) \in 1..Len(b)
  BY Joined
<1> HIDE DEF c
<1>2. ASSUME IsList(a), IsList(b), NEW i \in 1..Len(c)
      PROVE  \/ i \in 1..Len(a) /\ c[i] = a[i]
             \/ i - Len(a) \in 1..Len(b) /\ c[i] = b[i - Len(a)] /\ (i - Len(a) = Len(b) => i = Len(c))
  <2>1. i \in 1..Len(a) \/ i \in Len(a) + 1..Len(a) + Len(b)
    BY <1>1, <1>2
  <2>2. QED
    BY <1>1, <1>2, <2>1
<1>3. Quiet(a) /\ Quiet(b) => Quiet(c)
  BY <1>1, <1>2 DEF Quiet
<1>4. Unlinking(a) /\ Unlinking(b) => Unlinking(c)
  BY <1>1, <1>2 DEF Unlinking
<1>5. Quiet(a) /\ PlacesLast(b) => PlacesLast(c)
  BY <1>1, <1>2 DEF Quiet, PlacesLast
<1>6. QED
  BY <1>3, <1>4, <1>5 DEF c

(* Steps that neither link nor get nor place a module.                     *)
Plain(x) == x.op \notin {"link", "get"} /\ ~Places(x)
PlainList(b) == Quiet(b) /\ Unlinking(b)

LEMMA PlainSteps ==
  /\ \A c : Plain(StopIf(c)) /\ Plain(Require(c)) /\ Plain(Note(c))
  /\ \A c, n : Plain(SkipIf(c, n)) /\ Plain(SkipUnless(c, n))
  /\ \A c, d : Plain(Check(c, d))
  /\ Plain(Stop) /\ Plain(Impossible) /\ Plain(Load) /\ Plain(Write) /\ Plain(Propose) /\ Plain(Save)
  /\ \A t : Plain(Read(t))
  /\ \A t, a : Plain(Activate(t, a))
  /\ \A a : Plain(DeployModule(a)) /\ Plain(Pause(a))
  /\ \A a : Plain(Queue("escrowFee", a)) /\ Plain(Set("escrowFee", a))
  /\ \A c, r, a, b : Plain(Grant(c, r, a, b))
BY DEF Plain, Places, Step, StopIf, Require, Note, SkipIf, SkipUnless, Check, Stop, Impossible, Load,
   Read, Write, Propose, Save, DeployModule, Pause, Queue, Set, Grant, Activate

LEMMA PlainCaught ==
  /\ \A c, n, k : Plain(Caught(SkipIf(c, n), k))
  /\ \A c, r, a, b, k : Plain(Caught(Grant(c, r, a, b), k))
  /\ \A a, k : Plain(Caught(Pause(a), k))
  /\ \A k : Plain(Caught(Impossible, k))
BY DEF Plain, Places, Step, Caught, SkipIf, Grant, Pause, Impossible, Check

LEMMA PlainShort ==
  /\ \A x : Plain(x) => PlainList(<<x>>)
  /\ \A x, y : Plain(x) /\ Plain(y) => PlainList(<<x, y>>)
  /\ \A x, y, z : Plain(x) /\ Plain(y) /\ Plain(z) => PlainList(<<x, y, z>>)
  /\ \A u, v, w, x : Plain(u) /\ Plain(v) /\ Plain(w) /\ Plain(x) => PlainList(<<u, v, w, x>>)
<1>1. ASSUME NEW x, Plain(x) PROVE PlainList(<<x>>)
  <2> DEFINE b == <<x>>
  <2>1. b \in Seq({x}) /\ Len(b) = 1 /\ b[1] = x
    OBVIOUS
  <2>2. \A i \in 1..1 : i = 1
    OBVIOUS
  <2> HIDE DEF b
  <2>3. QED
    BY <1>1, <2>1, <2>2 DEF PlainList, Plain, Quiet, Unlinking, IsList, b
<1>2. ASSUME NEW x, NEW y, Plain(x), Plain(y) PROVE PlainList(<<x, y>>)
  <2> DEFINE b == <<x, y>>
  <2>1. b \in Seq({x, y}) /\ Len(b) = 2 /\ b[1] = x /\ b[2] = y
    OBVIOUS
  <2>2. \A i \in 1..2 : i = 1 \/ i = 2
    OBVIOUS
  <2> HIDE DEF b
  <2>3. QED
    BY <1>2, <2>1, <2>2 DEF PlainList, Plain, Quiet, Unlinking, IsList, b
<1>3. ASSUME NEW x, NEW y, NEW z, Plain(x), Plain(y), Plain(z) PROVE PlainList(<<x, y, z>>)
  <2> DEFINE b == <<x, y, z>>
  <2>1. b \in Seq({x, y, z}) /\ Len(b) = 3 /\ b[1] = x /\ b[2] = y /\ b[3] = z
    OBVIOUS
  <2>2. \A i \in 1..3 : i = 1 \/ i = 2 \/ i = 3
    OBVIOUS
  <2> HIDE DEF b
  <2>3. QED
    BY <1>3, <2>1, <2>2 DEF PlainList, Plain, Quiet, Unlinking, IsList, b
<1>4. ASSUME NEW u, NEW v, NEW w, NEW x, Plain(u), Plain(v), Plain(w), Plain(x)
      PROVE  PlainList(<<u, v, w, x>>)
  <2> DEFINE b == <<u, v, w, x>>
  <2>1. b \in Seq({u, v, w, x}) /\ Len(b) = 4 /\ b[1] = u /\ b[2] = v /\ b[3] = w /\ b[4] = x
    OBVIOUS
  <2>2. \A i \in 1..4 : i = 1 \/ i = 2 \/ i = 3 \/ i = 4
    OBVIOUS
  <2> HIDE DEF b
  <2>3. QED
    BY <1>4, <2>1, <2>2 DEF PlainList, Plain, Quiet, Unlinking, IsList, b
<1>5. QED
  BY <1>1, <1>2, <1>3, <1>4

LEMMA PlainJoined == \A a, b : PlainList(a) /\ PlainList(b) => PlainList(a \o b)
BY PiecesJoined DEF PlainList

Placing == {"deploy-module-and-queue", "deploy-module-and-set-immediate", "grant-eoa-and-swap",
            "deploy-drm-and-set-immediate"}

LEMMA PlainBodies ==
  ASSUME NEW s \in AllScripts \ Placing
  PROVE  PlainList(Body(s))
<1>1. CASE s = "set-escrow-fee-100"
  <2> DEFINE a == <<StopIf(FeeSet), SkipUnless(Has(Vault, MANAGER, "deployer"), 2),
                    Set("escrowFee", "deployer")>>
             b == <<Stop, Require(Has(SlowLane, TIMELOCK, "deployer")),
                    Require(Has(Vault, MANAGER, SlowLane)), Queue("escrowFee", "deployer")>>
  <2>1. PlainList(a) /\ PlainList(b)
    BY PlainSteps, PlainShort
  <2>2. SetEscrowFee = a \o b
    BY DEF SetEscrowFee
  <2>3. QED
    BY <1>1, <2>1, <2>2, PlainJoined DEF Body
<1>2. CASE s \in Activating
  <2>1. Body(s) = ActivateEscrowFee \/ Body(s) = ActivateResolutionModule
    BY <1>2 DEF Activating, Body
  <2> DEFINE a == <<Require(Has(Vault, MANAGER, SlowLane)), Require(Has(SlowLane, TIMELOCK, "deployer")),
                    Read("escrowFee")>>
             b == <<Check(NothingSeen, FeeSeen), Activate("escrowFee", "deployer")>>
  <2>2. PlainList(a) /\ PlainList(b) /\ PlainList(ActivateResolutionModule)
    BY PlainSteps, PlainShort DEF ActivateResolutionModule
  <2>3. ActivateEscrowFee = a \o b
    BY DEF ActivateEscrowFee
  <2>4. QED
    BY <2>1, <2>2, <2>3, PlainJoined
<1>3. CASE s \in GuardianScripts
  <2>1. \A c : PlainList(GrantGuardianOn(c))
    BY PlainCaught, PlainShort DEF GrantGuardianOn
  <2>2. PlainList(GrantGuardianRole)
    BY <2>1, PlainSteps, PlainShort, PlainJoined DEF GrantGuardianRole
  <2>3. PlainList(FixEscrowRegistration) /\ PlainList(CheckEscrowRegistration)
    BY PlainSteps, PlainShort DEF FixEscrowRegistration, CheckEscrowRegistration
  <2>4. PlainList(UpdateTimelockDelay) /\ PlainList(GuardianStatus) /\ PlainList(TestGuardianAll)
    BY PlainSteps, PlainCaught, PlainShort DEF UpdateTimelockDelay, GuardianStatus, TestGuardianAll
  <2>5. PlainList(TestGuardianPause)
    BY PlainSteps, PlainCaught, PlainShort DEF TestGuardianPause
  <2>6. /\ PlainList(EmergencyPause) /\ PlainList(EmergencyDisableAave)
        /\ PlainList(EmergencyLowerTokenCap) /\ PlainList(EmergencyLowerGlobalCap)
    BY PlainSteps, PlainShort DEF EmergencyPause, EmergencyDisableAave, EmergencyLowerTokenCap,
       EmergencyLowerGlobalCap
  <2>7. QED
    BY <1>3, <2>2, <2>3, <2>4, <2>5, <2>6 DEF Body, GuardianScripts
<1>4. CASE s \in ProposalScripts
  <2>1. PlainList(BuildProposal) /\ PlainList(ReadArtifact)
    BY PlainSteps, PlainShort DEF BuildProposal, ReadArtifact
  <2>2. /\ PlainList(<<Require(CallsEncode), Propose, Save>>)
        /\ PlainList(<<Require(HasProposalId), Require(StateIs(4))>>)
        /\ PlainList(<<Require(HasProposalId), Require(StateIs(5))>>)
        /\ PlainList(<<Require(Given("EXECUTOR")), Note(CallsSucceed)>>)
    BY PlainSteps, PlainShort
  <2>3. PlainList(StagePropose) /\ PlainList(StageQueue) /\ PlainList(StageExecute)
    BY <2>1, <2>2, PlainJoined DEF StagePropose, StageQueue, StageExecute
  <2>4. PlainList(StageAll) /\ PlainList(SimulateProposal)
    BY <2>1, <2>2, <2>3, PlainJoined DEF StageAll, SimulateProposal
  <2>5. PlainList(CheckProposal)
    BY PlainSteps, PlainShort DEF CheckProposal
  <2>6. QED
    BY <1>4, <2>1, <2>3, <2>4, <2>5 DEF Body, ProposalScripts
<1>5. QED
  BY <1>1, <1>2, <1>3, <1>4 DEF AllScripts, SettingScripts, Placing, Activating

-----------------------------------------------------------------------------
(* The bodies that place a module.                                         *)
Governs == Has(Module, TIMELOCK, "TimelockController")
DrmParts == {Linked(Staking, "slashingModule"), Linked(Pool, "slashingModule")}
            \cup {Linked(Module, l) : l \in {"adminFacet", "bondTokenRegistry", "incentiveModule", Vault}}

LEMMA StepFields ==
  /\ \A c, r, a, b : LET x == Grant(c, r, a, b)
                     IN /\ x.op = "grant" /\ x.catch = 0 /\ x.on = c /\ x.what = r /\ x.who = a
  /\ \A c, l, r, b : LET x == Link(c, l, r, b)
                     IN x.op = "link" /\ x.catch = 0 /\ x.on = c /\ x.what = l
  /\ \A c, n : /\ SkipIf(c, n).op = "skip" /\ SkipIf(c, n).catch = 0 /\ SkipIf(c, n).what = n
               /\ SkipIf(c, n).cond = c /\ SkipIf(c, n).need = NEVER
               /\ SkipUnless(c, n).op = "skip" /\ SkipUnless(c, n).catch = 0
               /\ SkipUnless(c, n).what = n
  /\ \A c : Require(c).op = "check" /\ Require(c).catch = 0
  /\ \A c : StopIf(c).op = "check" /\ StopIf(c).catch = 0
  /\ \A a : DeployModule(a).op = "deploy" /\ DeployModule(a).catch = 0
  /\ Get.op = "get" /\ Get.catch = 0
  /\ \A t, a : /\ Set(t, a).op = "set" /\ Set(t, a).catch = 0
               /\ Queue(t, a).op = "queue" /\ Queue(t, a).catch = 0
BY DEF Step, Grant, Link, SkipIf, SkipUnless, Require, StopIf, Check, DeployModule, Get, Set, Queue

LEMMA TwoSteps ==
  ASSUME NEW x, NEW y
  PROVE  /\ IsList(<<x, y>>) /\ Len(<<x, y>>) = 2 /\ <<x, y>> # <<>>
         /\ <<x, y>>[1] = x /\ <<x, y>>[2] = y
         /\ \A i \in 1..2 : i = 1 \/ i = 2
<1>1. <<x, y>> \in Seq({x, y})
  OBVIOUS
<1>2. IsList(<<x, y>>)
  BY <1>1 DEF IsList
<1>3. Len(<<x, y>>) = 2 /\ <<x, y>> # <<>> /\ <<x, y>>[1] = x /\ <<x, y>>[2] = y
  OBVIOUS
<1>4. \A i \in 1..2 : i = 1 \/ i = 2
  OBVIOUS
<1>5. QED
  BY <1>2, <1>3, <1>4

(* A grant or link that is skipped when it was read to be there.           *)
LEMMA UnlessSecures ==
  ASSUME NEW c, NEW x, Makes(x, c), x.catch = 0
  PROVE  /\ Secures(Unless(c, x), c) /\ Closed(Unless(c, x)) /\ Unlearning(Unless(c, x))
         /\ Quiet(Unless(c, x)) /\ Unless(c, x) # <<>>
<1> DEFINE s == SkipIf(c, 1)
           b == <<s, x>>
<1>1. s.op = "skip" /\ s.catch = 0 /\ s.what = 1 /\ s.cond = c /\ s.need = NEVER
  BY StepFields
<1>2. x.op \in {"grant", "link"}
  BY DEF Makes
<1>3. /\ IsList(b) /\ Len(b) = 2 /\ b # <<>> /\ b[1] = s /\ b[2] = x
      /\ \A i \in 1..2 : i = 1 \/ i = 2
  BY TwoSteps
<1>4. Unless(c, x) = b
  BY DEF Unless
<1> HIDE DEF s, b
<1>5. Closed(b) /\ Unlearning(b) /\ Quiet(b)
  BY <1>1, <1>2, <1>3 DEF Closed, Unlearning, Quiet, Learns, Places
<1>6. Leads(b[1], 1, 3, c) /\ Leads(b[2], 2, 3, c)
  BY <1>1, <1>2, <1>3 DEF Leads
<1>7. Secured(b, 3, c)
  BY <1>3, <1>6 DEF Secured
<1>8. QED
  BY <1>3, <1>4, <1>5, <1>7 DEF Secures

-----------------------------------------------------------------------------
FactMade(c, x) == Makes(x, c) /\ x.catch = 0
LEMMA MakingSteps ==
  /\ \A c, r, a, b : FactMade(Has(c, r, a), Grant(c, r, a, b))
  /\ \A c, l, r, b : FactMade(Linked(c, l), Link(c, l, r, b))
BY StepFields DEF FactMade, Makes

Sound(b) == Closed(b) /\ Unlearning(b) /\ Quiet(b) /\ b # <<>>
LEMMA SoundUnless == \A c, x : FactMade(c, x) => Sound(Unless(c, x)) /\ Secures(Unless(c, x), c)
BY UnlessSecures DEF FactMade, Sound
LEMMA SoundJoined == \A a, b : Sound(a) /\ Sound(b) => Sound(a \o b)
<1> SUFFICES ASSUME NEW a, NEW b, Sound(a), Sound(b) PROVE Sound(a \o b)
  OBVIOUS
<1>1. Closed(a \o b) /\ Unlearning(a \o b) /\ Quiet(a \o b)
  BY ClosedJoined, UnlearningJoined, PiecesJoined DEF Sound
<1>2. a \o b # <<>>
  <2>1. IsList(a) /\ IsList(b)
    BY DEF Sound, Closed
  <2>2. PICK S, T : a \in Seq(S) /\ b \in Seq(T)
    BY <2>1 DEF IsList
  <2>3. a \in Seq(S \cup T) /\ b \in Seq(S \cup T) /\ a # <<>>
    BY <2>2 DEF Sound
  <2>4. QED
    BY <2>3
<1>3. QED
  BY <1>1, <1>2 DEF Sound

(* What a piece secures it secures among sound pieces.                     *)
LEMMA SecuresAmong ==
  /\ \A a, b, f : Sound(a) /\ Secures(b, f) => Secures(a \o b, f)
  /\ \A a, b, f : Secures(a, f) /\ Sound(b) => Secures(a \o b, f)
BY SecuresBehind, SecuresBefore DEF Sound

LEMMA PutUnderTimelockSecures ==
  ASSUME NEW by
  PROVE  /\ Secures(PutUnderTimelock(by), Governs) /\ Quiet(PutUnderTimelock(by))
         /\ Unlinking(PutUnderTimelock(by))
<1> DEFINE x == Grant(Module, TIMELOCK, SlowLane, by)
           y == Grant(Module, TIMELOCK, "TimelockController", by)
           b == <<x, y>>
<1>1. x.op = "grant" /\ x.catch = 0 /\ y.op = "grant" /\ y.catch = 0 /\ Makes(y, Governs)
  BY StepFields, MakingSteps DEF FactMade, Governs
<1>2. /\ IsList(b) /\ Len(b) = 2 /\ b[1] = x /\ b[2] = y
      /\ \A i \in 1..2 : i = 1 \/ i = 2
  BY TwoSteps
<1>3. PutUnderTimelock(by) = b
  BY DEF PutUnderTimelock
<1> HIDE DEF x, y, b
<1>4. Leads(b[1], 1, 3, Governs) /\ Leads(b[2], 2, 3, Governs)
  BY <1>1, <1>2 DEF Leads
<1>5. Secured(b, 3, Governs)
  BY <1>2, <1>4 DEF Secured
<1>6. Quiet(b) /\ Unlinking(b)
  BY <1>1, <1>2 DEF Quiet, Unlinking, Places
<1>7. QED
  BY <1>2, <1>3, <1>5, <1>6 DEF Secures

Deploying == <<Require(Given("INITIAL_RESOLVER")), DeployModule("deployer")>>
LEMMA DeployingClosed == Closed(Deploying) /\ Quiet(Deploying) /\ Unlinking(Deploying)
<1> DEFINE x == Require(Given("INITIAL_RESOLVER"))
           y == DeployModule("deployer")
           b == <<x, y>>
<1>1. x.op = "check" /\ x.catch = 0 /\ y.op = "deploy" /\ y.catch = 0
  BY StepFields
<1>2. /\ IsList(b) /\ Len(b) = 2 /\ b[1] = x /\ b[2] = y
      /\ \A i \in 1..2 : i = 1 \/ i = 2
  BY TwoSteps
<1>3. Deploying = b
  BY DEF Deploying
<1> HIDE DEF x, y, b
<1>4. QED
  BY <1>1, <1>2, <1>3 DEF Closed, Quiet, Unlinking, Places

(* The ends of the bodies: they learn no module, and place it last.        *)
Ending(b) == Unlearning(b) /\ PlacesLast(b) /\ b # <<>>
LEMMA Endings ==
  /\ Ending(<<Queue("resolutionModule", "deployer")>>)
  /\ Ending(<<SkipIf(Has(Vault, MANAGER, "deployer"), 2), Require(Has(Vault, ADMIN, "deployer")),
              Grant(Vault, MANAGER, "deployer", "deployer"), Set("resolutionModule", "deployer")>>)
  /\ Ending(Unless(Has(Vault, MANAGER, "eoa"), Grant(Vault, MANAGER, "eoa", "deployer"))
            \o <<Set("resolutionModule", "eoa")>>)
  /\ Ending(SetDrm)
  /\ Unlinking(<<Queue("resolutionModule", "deployer")>>)
  /\ Unlinking(<<SkipIf(Has(Vault, MANAGER, "deployer"), 2), Require(Has(Vault, ADMIN, "deployer")),
              Grant(Vault, MANAGER, "deployer", "deployer"), Set("resolutionModule", "deployer")>>)
  /\ Unlinking(Unless(Has(Vault, MANAGER, "eoa"), Grant(Vault, MANAGER, "eoa", "deployer"))
            \o <<Set("resolutionModule", "eoa")>>)
<1>1. \A x : x.op \in {"queue", "set"} => Ending(<<x>>) /\ Unlinking(<<x>>)
  <2> SUFFICES ASSUME NEW x, x.op \in {"queue", "set"} PROVE Ending(<<x>>) /\ Unlinking(<<x>>)
    OBVIOUS
  <2> DEFINE b == <<x>>
  <2>1. b \in Seq({x}) /\ Len(b) = 1 /\ b[1] = x /\ b # <<>>
    OBVIOUS
  <2>2. \A i \in 1..1 : i = 1
    OBVIOUS
  <2> HIDE DEF b
  <2>3. QED
    BY <2>1, <2>2 DEF Ending, Unlearning, PlacesLast, IsList, Unlinking, Learns, b
<1>2. ASSUME NEW u, NEW v, NEW w, NEW x, u.op \in {"skip", "check"}, v.op \in {"skip", "check"},
             w.op \in {"check", "grant"}, x.op \in {"grant", "set"}, ~Places(w), ~Places(x) \/ x.op = "set"
      PROVE  Ending(<<u, v, w, x>>) /\ Unlinking(<<u, v, w, x>>)
  <2> DEFINE b == <<u, v, w, x>>
  <2>1. b \in Seq({u, v, w, x}) /\ Len(b) = 4 /\ b[1] = u /\ b[2] = v /\ b[3] = w /\ b[4] = x /\ b # <<>>
    OBVIOUS
  <2>2. \A i \in 1..4 : i = 1 \/ i = 2 \/ i = 3 \/ i = 4
    OBVIOUS
  <2> HIDE DEF b
  <2>3. QED
    BY <1>2, <2>1, <2>2 DEF Ending, Unlearning, PlacesLast, IsList, Unlinking, Learns, Places, b
<1>3. \A a, b : Quiet(a) /\ Unlearning(a) /\ Ending(b) => Ending(a \o b)
  <2> SUFFICES ASSUME NEW a, NEW b, Quiet(a), Unlearning(a), Ending(b) PROVE Ending(a \o b)
    OBVIOUS
  <2>1. Unlearning(a \o b) /\ PlacesLast(a \o b)
    BY UnlearningJoined, PiecesJoined DEF Ending
  <2>2. PICK S, T : a \in Seq(S) /\ b \in Seq(T)
    BY DEF Ending, Unlearning, IsList
  <2>3. a \in Seq(S \cup T) /\ b \in Seq(S \cup T) /\ b # <<>>
    BY <2>2 DEF Ending
  <2>4. a \o b # <<>>
    BY <2>3
  <2>5. QED
    BY <2>1, <2>4 DEF Ending
<1>4. /\ Ending(<<Queue("resolutionModule", "deployer")>>)
      /\ Unlinking(<<Queue("resolutionModule", "deployer")>>)
  BY <1>1, StepFields
<1>5. /\ Ending(<<SkipIf(Has(Vault, MANAGER, "deployer"), 2), Require(Has(Vault, ADMIN, "deployer")),
              Grant(Vault, MANAGER, "deployer", "deployer"), Set("resolutionModule", "deployer")>>)
      /\ Unlinking(<<SkipIf(Has(Vault, MANAGER, "deployer"), 2), Require(Has(Vault, ADMIN, "deployer")),
              Grant(Vault, MANAGER, "deployer", "deployer"), Set("resolutionModule", "deployer")>>)
  BY <1>2, StepFields DEF Places
<1>6. LET a == Unless(Has(Vault, MANAGER, "eoa"), Grant(Vault, MANAGER, "eoa", "deployer"))
      IN Quiet(a) /\ Unlearning(a) /\ Unlinking(a)
  <2>1. LET a == Unless(Has(Vault, MANAGER, "eoa"), Grant(Vault, MANAGER, "eoa", "deployer"))
        IN Sound(a)
    BY SoundUnless, MakingSteps
  <2>2. LET a == Unless(Has(Vault, MANAGER, "eoa"), Grant(Vault, MANAGER, "eoa", "deployer"))
        IN PlainList(a)
    BY PlainSteps, PlainShort DEF Unless
  <2>3. QED
    BY <2>1, <2>2 DEF Sound, PlainList
<1>7. /\ Ending(Unless(Has(Vault, MANAGER, "eoa"), Grant(Vault, MANAGER, "eoa", "deployer"))
            \o <<Set("resolutionModule", "eoa")>>)
      /\ Unlinking(Unless(Has(Vault, MANAGER, "eoa"), Grant(Vault, MANAGER, "eoa", "deployer"))
            \o <<Set("resolutionModule", "eoa")>>)
  BY <1>1, <1>3, <1>6, StepFields, PiecesJoined
<1>8. Ending(SetDrm)
  <2>1. SetDrm = <<StopIf(ModuleInEffect)>> \o
                 <<SkipIf(Has(Vault, MANAGER, "deployer"), 2), Require(Has(Vault, ADMIN, "deployer")),
                   Grant(Vault, MANAGER, "deployer", "deployer"), Set("resolutionModule", "deployer")>>
    BY DEF SetDrm
  <2>2. Quiet(<<StopIf(ModuleInEffect)>>)
    BY PlainSteps, PlainShort DEF PlainList
  <2>3. Unlearning(<<StopIf(ModuleInEffect)>>)
    <3> DEFINE x == StopIf(ModuleInEffect)
               c == <<x>>
    <3>1. x.op = "check"
      BY StepFields
    <3>2. c \in Seq({x}) /\ Len(c) = 1 /\ c[1] = x
      OBVIOUS
    <3>3. \A i \in 1..1 : i = 1
      OBVIOUS
    <3> HIDE DEF x, c
    <3>4. Unlearning(c)
      BY <3>1, <3>2, <3>3 DEF Unlearning, IsList, Learns
    <3>5. QED
      BY <3>4 DEF x, c
  <2>4. QED
    BY <1>3, <1>5, <2>1, <2>2, <2>3
<1>9. QED
  BY <1>4, <1>5, <1>7, <1>8

-----------------------------------------------------------------------------
LEMMA DeployOrGetClosed == Closed(DeployOrGet) /\ Quiet(DeployOrGet)
<1> DEFINE s == Require(Known("SewToken"))
           t == SkipUnless(Known(Drm), 2)
           u == Get
           v == SkipIf(ALWAYS, 2)
           w == Require(Given("STABLE_TOKEN_ADDRESS"))
           x == DeployModule("deployer")
           b == <<s, t, u, v, w, x>>
<1>1. /\ s.op = "check" /\ s.catch = 0 /\ t.op = "skip" /\ t.catch = 0 /\ t.what = 2
      /\ u.op = "get" /\ u.catch = 0 /\ v.op = "skip" /\ v.catch = 0 /\ v.what = 2
      /\ w.op = "check" /\ w.catch = 0 /\ x.op = "deploy" /\ x.catch = 0
  BY StepFields
<1>2. DeployOrGet = b
  BY DEF DeployOrGet
<1> HIDE DEF s, t, u, v, w, x
<1>3. /\ b \in Seq({s, t, u, v, w, x}) /\ Len(b) = 6
      /\ b[1] = s /\ b[2] = t /\ b[3] = u /\ b[4] = v /\ b[5] = w /\ b[6] = x
  OBVIOUS
<1>4. \A i \in 1..6 : i = 1 \/ i = 2 \/ i = 3 \/ i = 4 \/ i = 5 \/ i = 6
  OBVIOUS
<1>5. IsList(b)
  BY <1>3 DEF IsList
<1> HIDE DEF b
<1>6. \A i \in 1..6 : /\ b[i].catch = 0
                      /\ b[i].op = "skip" => b[i].what = 2 /\ i + 2 <= 6
                      /\ b[i].op \notin {"queue", "set"}
  BY <1>1, <1>3, <1>4
<1>7. QED
  BY <1>2, <1>3, <1>5, <1>6 DEF Closed, Quiet, Places

LEMMA WireCapitalSecures ==
  /\ Sound(WireCapital)
  /\ Secures(WireCapital, Linked(Staking, "slashingModule"))
  /\ Secures(WireCapital, Linked(Pool, "slashingModule"))
<1> DEFINE a == Unless(Has(Staking, TIMELOCK, "deployer"), Grant(Staking, TIMELOCK, "deployer", "deployer"))
           b == Unless(Linked(Staking, "slashingModule"), Link(Staking, "slashingModule", TIMELOCK, "deployer"))
           c == Unless(Has(Staking, TIMELOCK, "TimelockController"),
                       Grant(Staking, TIMELOCK, "TimelockController", "deployer"))
           d == Unless(Linked(Pool, "slashingModule"), Link(Pool, "slashingModule", ADMIN, "deployer"))
           e == Unless(Has(Pool, TIMELOCK, "TimelockController"),
                       Grant(Pool, TIMELOCK, "TimelockController", "deployer"))
           f == Linked(Staking, "slashingModule")
           g == Linked(Pool, "slashingModule")
<1>1. Sound(a) /\ Sound(b) /\ Sound(c) /\ Sound(d) /\ Sound(e) /\ Secures(b, f) /\ Secures(d, g)
  BY SoundUnless, MakingSteps
<1>2. WireCapital = (((a \o b) \o c) \o d) \o e
  BY DEF WireCapital
<1> HIDE DEF a, b, c, d, e, f, g
<1>3. Sound(a \o b) /\ Sound((a \o b) \o c) /\ Sound(((a \o b) \o c) \o d)
  BY <1>1, SoundJoined
<1>4. Sound((((a \o b) \o c) \o d) \o e)
  BY <1>1, <1>3, SoundJoined
<1>5. Secures(a \o b, f) /\ Secures((a \o b) \o c, f)
  BY <1>1, SecuresAmong
<1>6. Secures(((a \o b) \o c) \o d, f) /\ Secures(((a \o b) \o c) \o d, g)
  BY <1>1, <1>3, <1>5, SecuresAmong
<1>7. Secures(WireCapital, f) /\ Secures(WireCapital, g)
  BY <1>1, <1>2, <1>6, SecuresAmong
<1>8. QED
  BY <1>2, <1>4, <1>7 DEF f, g

LEMMA SlowLaneSound ==
  Sound(<<SkipUnless(Known(SlowLane), 2)>>
        \o Unless(Has(Module, TIMELOCK, SlowLane), Grant(Module, TIMELOCK, SlowLane, "deployer")))
<1> DEFINE u == SkipUnless(Known(SlowLane), 2)
           v == SkipIf(Has(Module, TIMELOCK, SlowLane), 1)
           w == Grant(Module, TIMELOCK, SlowLane, "deployer")
           s == <<u>>
           t == Unless(Has(Module, TIMELOCK, SlowLane), w)
           b == s \o t
<1>1. /\ u.op = "skip" /\ u.catch = 0 /\ u.what = 2 /\ v.op = "skip" /\ v.catch = 0 /\ v.what = 1
      /\ w.op = "grant" /\ w.catch = 0
  BY StepFields
<1>2. IsList(t) /\ Len(t) = 2 /\ t[1] = v /\ t[2] = w /\ t # <<>>
  BY TwoSteps DEF Unless
<1>3. s \in Seq({u}) /\ Len(s) = 1 /\ s[1] = u
  OBVIOUS
<1> HIDE DEF u, v, w, s, t
<1>4. /\ IsList(b) /\ Len(b) = 3 /\ b[1] = u
      /\ \A i \in 2..3 : b[i] = t[i - 1]
  <2>1. IsList(s)
    BY <1>3 DEF IsList
  <2>2. /\ IsList(b) /\ Len(b) = Len(s) + Len(t)
        /\ \A i \in 1..Len(s) : b[i] = s[i]
        /\ \A i \in Len(s) + 1..Len(s) + Len(t) : b[i] = t[i - Len(s)]
    BY <1>2, <2>1, Joined
  <2> HIDE DEF b
  <2>3. QED
    BY <1>2, <1>3, <2>2
<1>5. \A i \in 1..3 : i = 1 \/ i = 2 \/ i = 3
  OBVIOUS
<1>6. b[2] = v /\ b[3] = w /\ b # <<>>
  BY <1>2, <1>4
<1> HIDE DEF b
<1>7. \A i \in 1..3 : /\ b[i].catch = 0
                      /\ b[i].op = "skip" => b[i].what \in 1..2 /\ i + b[i].what <= 3
                      /\ b[i].op \in {"skip", "grant"}
  BY <1>1, <1>4, <1>5, <1>6
<1>8. Sound(b)
  BY <1>4, <1>6, <1>7 DEF Sound, Closed, Unlearning, Quiet, Places, Learns
<1>9. QED
  BY <1>8 DEF b, s, t, u, w

LEMMA GovernDrmSecures ==
  /\ Sound(GovernDrm)
  /\ Secures(GovernDrm, Linked(Module, "adminFacet"))
  /\ Secures(GovernDrm, Governs)
<1> DEFINE a == Unless(Linked(Module, "adminFacet"), Link(Module, "adminFacet", ADMIN, "deployer"))
           b == Unless(Has(Module, TIMELOCK, "TimelockController"),
                       Grant(Module, TIMELOCK, "TimelockController", "deployer"))
           s == <<SkipUnless(Known(SlowLane), 2)>>
           t == Unless(Has(Module, TIMELOCK, SlowLane), Grant(Module, TIMELOCK, SlowLane, "deployer"))
           c == s \o t
           d == Unless(Has(Module, TIMELOCK, "deployer"), Grant(Module, TIMELOCK, "deployer", "deployer"))
           f == Linked(Module, "adminFacet")
<1>1. Sound(a) /\ Sound(b) /\ Sound(c) /\ Sound(d) /\ Secures(a, f) /\ Secures(b, Governs)
  BY SoundUnless, MakingSteps, SlowLaneSound DEF Governs
<1>2. GovernDrm = (((a \o b) \o s) \o t) \o d
  BY DEF GovernDrm
<1>3. IsList(s) /\ IsList(t)
  <2>1. s \in Seq({SkipUnless(Known(SlowLane), 2)})
    OBVIOUS
  <2>2. Sound(t)
    BY SoundUnless, MakingSteps
  <2>3. QED
    BY <2>1, <2>2 DEF IsList, Sound, Closed
<1> HIDE DEF a, b, s, t, d, f
<1>4. (a \o b) \o c = ((a \o b) \o s) \o t
  <2>1. Sound(a \o b)
    BY <1>1, SoundJoined
  <2>2. PICK S, T, R : (a \o b) \in Seq(S) /\ s \in Seq(T) /\ t \in Seq(R)
    BY <1>3, <2>1 DEF IsList, Sound, Closed
  <2> DEFINE p == a \o b
             X == S \cup T \cup R
  <2>3. p \in Seq(X) /\ s \in Seq(X) /\ t \in Seq(X)
    BY <2>2
  <2> HIDE DEF p, X
  <2>4. (p \o s) \o t = p \o (s \o t)
    BY <2>3
  <2>5. QED
    BY <2>4 DEF p
<1> HIDE DEF c
<1>5. Sound(a \o b) /\ Sound((a \o b) \o c) /\ Sound(((a \o b) \o c) \o d)
  BY <1>1, SoundJoined
<1>6. Secures(a \o b, f) /\ Secures(a \o b, Governs)
  BY <1>1, SecuresAmong
<1>7. Secures((a \o b) \o c, f) /\ Secures((a \o b) \o c, Governs)
  BY <1>1, <1>6, SecuresAmong
<1>8. Secures(((a \o b) \o c) \o d, f) /\ Secures(((a \o b) \o c) \o d, Governs)
  BY <1>1, <1>7, SecuresAmong
<1>9. QED
  BY <1>2, <1>4, <1>5, <1>8 DEF f

LEMMA WireDrmSecures ==
  /\ Sound(WireDrm)
  /\ \A l \in {"bondTokenRegistry", "incentiveModule", Vault} : Secures(WireDrm, Linked(Module, l))
<1> DEFINE a == Unless(Linked(Module, "bondTokenRegistry"),
                       Link(Module, "bondTokenRegistry", TIMELOCK, "deployer"))
           b == Unless(Linked(Module, "incentiveModule"),
                       Link(Module, "incentiveModule", TIMELOCK, "deployer"))
           c == Unless(Linked(Module, Vault), Link(Module, Vault, TIMELOCK, "deployer"))
           f == Linked(Module, "bondTokenRegistry")
           g == Linked(Module, "incentiveModule")
           h == Linked(Module, Vault)
<1>1. Sound(a) /\ Sound(b) /\ Sound(c) /\ Secures(a, f) /\ Secures(b, g) /\ Secures(c, h)
  BY SoundUnless, MakingSteps
<1>2. WireDrm = (a \o b) \o c
  BY DEF WireDrm
<1> HIDE DEF a, b, c, f, g, h
<1>3. Sound(a \o b) /\ Sound((a \o b) \o c)
  BY <1>1, SoundJoined
<1>4. Secures(a \o b, f) /\ Secures(a \o b, g)
  BY <1>1, SecuresAmong
<1>5. Secures((a \o b) \o c, f) /\ Secures((a \o b) \o c, g) /\ Secures((a \o b) \o c, h)
  BY <1>1, <1>3, <1>4, SecuresAmong
<1>6. QED
  BY <1>2, <1>3, <1>5 DEF f, g, h

(* A body that places a module places it last, and has then secured the    *)
(* timelock's role; a decentralised one its parts as well.                 *)
SecuredBefore(b, f) == \E k \in 2..Len(b) : Secured(b, k, f)
LEMMA PlacingBodies ==
  ASSUME NEW s \in Placing
  PROVE  /\ PlacesLast(Body(s))
         /\ SecuredBefore(Body(s), Governs)
         /\ s # "deploy-drm-and-set-immediate" => Unlinking(Body(s))
         /\ s = "deploy-drm-and-set-immediate" => \A f \in DrmParts : SecuredBefore(Body(s), f)
<1>1. ASSUME NEW t, NEW by, Ending(t)
      PROVE  LET b == Deploying \o PutUnderTimelock(by) \o t
             IN /\ PlacesLast(b) /\ SecuredBefore(b, Governs)
                /\ Unlinking(t) => Unlinking(b)
  <2> DEFINE p == Deploying \o PutUnderTimelock(by)
  <2>1. Quiet(p) /\ Unlinking(p) /\ Secures(p, Governs)
    BY PutUnderTimelockSecures, DeployingClosed, SecuresBehind, PiecesJoined
  <2> HIDE DEF p
  <2>2. PlacesLast(p \o t)
    BY <1>1, <2>1, PiecesJoined DEF Ending
  <2>3. SecuredBefore(p \o t, Governs)
    BY <1>1, <2>1, SecuresBefore DEF Ending, SecuredBefore
  <2>4. Unlinking(t) => Unlinking(p \o t)
    BY <2>1, PiecesJoined
  <2>5. QED
    BY <2>2, <2>3, <2>4 DEF p
<1>2. CASE s = "deploy-module-and-queue"
  <2>1. Body(s) = Deploying \o PutUnderTimelock("deployer") \o <<Queue("resolutionModule", "deployer")>>
    BY <1>2 DEF Body, DeployModuleAndQueue, Deploying
  <2>2. QED
    BY <1>1, <1>2, <2>1, Endings
<1>3. CASE s = "deploy-module-and-set-immediate"
  <2> DEFINE t == <<SkipIf(Has(Vault, MANAGER, "deployer"), 2), Require(Has(Vault, ADMIN, "deployer")),
                    Grant(Vault, MANAGER, "deployer", "deployer"), Set("resolutionModule", "deployer")>>
  <2>1. Body(s) = Deploying \o PutUnderTimelock("deployer") \o t
    BY <1>3 DEF Body, DeployModuleAndSetImmediate, Deploying
  <2>2. Ending(t) /\ Unlinking(t)
    BY Endings
  <2> HIDE DEF t
  <2>3. QED
    BY <1>1, <1>3, <2>1, <2>2
<1>4. CASE s = "grant-eoa-and-swap"
  <2> DEFINE u == Unless(Has(Vault, MANAGER, "eoa"), Grant(Vault, MANAGER, "eoa", "deployer"))
             v == <<Set("resolutionModule", "eoa")>>
             p == Deploying \o PutUnderTimelock("deployer")
  <2>1. Body(s) = (p \o u) \o v
    BY <1>4 DEF Body, GrantEoaAndSwap, Deploying
  <2>2. Ending(u \o v) /\ Unlinking(u \o v)
    BY Endings
  <2>3. IsList(p) /\ IsList(u) /\ IsList(v)
    <3>1. IsList(p)
      BY PutUnderTimelockSecures, DeployingClosed, PiecesJoined DEF Quiet
    <3>2. IsList(u)
      BY PlainSteps, PlainShort DEF Unless, PlainList, Quiet
    <3>3. v \in Seq({Set("resolutionModule", "eoa")})
      OBVIOUS
    <3>4. QED
      BY <3>1, <3>2, <3>3 DEF IsList
  <2>4. PlacesLast(p \o (u \o v)) /\ SecuredBefore(p \o (u \o v), Governs) /\ Unlinking(p \o (u \o v))
    BY <1>1, <2>2
  <2> HIDE DEF p, u, v
  <2>5. (p \o u) \o v = p \o (u \o v)
    <3>1. PICK S, T, R : p \in Seq(S) /\ u \in Seq(T) /\ v \in Seq(R)
      BY <2>3 DEF IsList
    <3> DEFINE X == S \cup T \cup R
    <3>2. p \in Seq(X) /\ u \in Seq(X) /\ v \in Seq(X)
      BY <3>1
    <3> HIDE DEF X
    <3>3. QED
      BY <3>2
  <2>6. QED
    BY <1>4, <2>1, <2>4, <2>5
<1>5. CASE s = "deploy-drm-and-set-immediate"
  <2> DEFINE p == ((DeployOrGet \o WireCapital) \o GovernDrm) \o WireDrm
  <2>1. Body(s) = p \o SetDrm
    BY <1>5 DEF Body, DeployDrmAndSetImmediate
  <2>2. Quiet(p)
    BY DeployOrGetClosed, WireCapitalSecures, GovernDrmSecures, WireDrmSecures, PiecesJoined DEF Sound
  <2>3. \A f \in DrmParts \cup {Governs} : Secures(p, f)
    <3> DEFINE q == DeployOrGet \o WireCapital
               r == q \o GovernDrm
    <3>1. Closed(q) /\ Closed(r)
      BY DeployOrGetClosed, WireCapitalSecures, GovernDrmSecures, ClosedJoined DEF Sound
    <3>2. \A f : Secures(WireCapital, f) => Secures(q, f)
      BY DeployOrGetClosed, SecuresBehind
    <3> HIDE DEF q
    <3>3. \A f : Secures(q, f) \/ Secures(GovernDrm, f) => Secures(r, f)
      BY <3>1, GovernDrmSecures, SecuresBehind, SecuresAmong
    <3> HIDE DEF r
    <3>4. \A f : Secures(r, f) \/ Secures(WireDrm, f) => Secures(r \o WireDrm, f)
      BY <3>1, WireDrmSecures, SecuresBehind, SecuresAmong
    <3>5. p = r \o WireDrm
      BY DEF q, r
    <3>6. QED
      BY <3>2, <3>3, <3>4, <3>5, WireCapitalSecures, GovernDrmSecures, WireDrmSecures DEF DrmParts
  <2> HIDE DEF p
  <2>4. PlacesLast(p \o SetDrm)
    BY <2>2, Endings, PiecesJoined DEF Ending
  <2>5. \A f \in DrmParts \cup {Governs} : SecuredBefore(p \o SetDrm, f)
    BY <2>3, Endings, SecuresBefore DEF Ending, SecuredBefore
  <2>6. QED
    BY <1>5, <2>1, <2>4, <2>5
<1>6. QED
  BY <1>2, <1>3, <1>4, <1>5 DEF Placing
=============================================================================
