------------------------------ MODULE Operations ------------------------------
(***************************************************************************)
(* Operators at work on a deployed protocol.  Each runs scripts of         *)
(* OperationScripts, one call at a time; their runs interleave with one    *)
(* another, with deploy/95 taking the deployer's roles away, with the      *)
(* governor and its timelock, and with the clock of the slow lane.  A run  *)
(* may be killed between two calls, and a call may fail for reasons of its *)
(* own (the endpoint, the gas, a dropped transaction).                     *)
(*                                                                         *)
(* Contracts are <<name, id>>: id is 0 but for a resolution module and the *)
(* capital contracts deployed with it, which share the number of their     *)
(* deployment.  Time is counted in units of the timelock's delay; a script *)
(* runs for minutes, so the clock moves at most once under it.             *)
(* Left out: the contents of calls other than the two settings, and all    *)
(* that happens inside the escrows (EscrowVault.tla).                      *)
(***************************************************************************)
EXTENDS OperationScripts

(* A setup is one site and the work done there:                            *)
(*   deployed     the contracts hardhat-deploy knows,                      *)
(*   lost         grants whose error the deployment swallowed,             *)
(*   environment  what the operators' environment provides,                *)
(*   scripts, payloads  the scripts they run and the payloads they stage,  *)
(*   stripping    whether deploy/95 runs meanwhile,                        *)
(* and the bounds launches, faults, modules and time.                      *)
CONSTANTS Operators, Setups,
          Payloads,                 \* every payload of a setup
          SLOW_DELAY, MIN_DELAY     \* of the slow lane, of the timelock

(* Nothing is assumed of the sites but that the bounds are numbers and the *)
(* scripts and payloads are some of those above.                           *)
ASSUME OperationsAssumption ==
  /\ SLOW_DELAY \in Nat /\ MIN_DELAY \in Nat
  /\ \A s \in Setups : /\ s.time \in Nat /\ s.modules \in Nat \ {0}
                        /\ s.scripts \subseteq AllScripts
                        /\ s.payloads \subseteq Payloads

VARIABLES setup, now, roles, links, setting, pending, modules, depositsPaused,
          proposal, file, run, stripped, launches, faults,
          notice          \* history: the last announcement for each setting

chain == <<roles, links, setting, pending, notice, modules, depositsPaused>>
governance == <<proposal, file>>
budget == <<launches, faults>>
vars == <<setup, now, chain, governance, run, stripped, budget>>

Slots    == {"escrowFee", "resolutionModule"}
Nothing  == [exists |-> FALSE, value |-> 0, eta |-> 0]
Idle     == [script |-> "", payload |-> "", pc |-> 0, module |-> 0, seen |-> Nothing,
             copy |-> "none", bad |-> FALSE, aged |-> FALSE, success |-> FALSE]
NoPayload == ""
(* The artifacts in the repository, built without deployments.             *)
Committed == {"0001_set_token_cap", "0002_queue_fee_address", "0003_activate_fee_address",
              "0004_emergency_pause"}

(* What deploy/60, 70, 85 and 86 leave behind, but for grants whose error  *)
(* they swallowed.                                                         *)
Governed == {Vault, SlowLane, Policy}
CapitalRoles == {<<c, 1, r, a>> : c \in {Module, Staking, Pool}, r \in {ADMIN, TIMELOCK},
                                  a \in {"deployer"}}
                \cup {<<c, 1, TIMELOCK, "TimelockController">> : c \in {Module, Staking, Pool}}
                \cup {<<Module, 1, TIMELOCK, SlowLane>>}
DeployedRoles(d) ==
  {<<c, 0, r, a>> : c \in Governed, r \in {ADMIN, TIMELOCK},
                    a \in {"deployer", "TimelockController"}}
  \cup {<<Vault, 0, MANAGER, SlowLane>>}
  \cup {<<c, 0, GUARDIAN, "guardian">> : c \in {Vault, Policy}}
  \cup (IF Drm \in d THEN CapitalRoles ELSE {})
DrmLinks(m) == {<<Staking, m, "slashingModule">>, <<Pool, m, "slashingModule">>}
               \cup {<<Module, m, l>> : l \in {"adminFacet", "bondTokenRegistry",
                                               "incentiveModule", Vault}}

Init ==
  /\ now = 0
  /\ setup \in Setups
  /\ roles = DeployedRoles(setup.deployed) \ setup.lost
  /\ links = IF Drm \in setup.deployed THEN DrmLinks(1) ELSE {}
  /\ modules = IF Drm \in setup.deployed THEN 1 ELSE 0
  /\ setting = [s \in Slots |-> 0]
  /\ pending = [s \in Slots |-> Nothing]
  /\ notice = [s \in Slots |-> [value |-> 0, at |-> 0]]
  /\ depositsPaused = FALSE
  /\ proposal = [p \in Payloads |-> [state |-> "None", eta |-> 0]]
  /\ file = [p \in Payloads |-> IF p \in Committed THEN "offline" ELSE "none"]
  /\ run = [o \in Operators |-> Idle]
  /\ stripped = 0
  /\ launches = 0
  /\ faults = 0

-----------------------------------------------------------------------------
(* The contracts, as the scripts call them.                                *)
IdOf(c, m) == IF c \in {Module, Staking, Pool} THEN m ELSE 0
HasRole(c, m, r, a) == <<c, IdOf(c, m), r, a>> \in roles

QueueSlotKeepingEta(s, v) ==                                                   \* mutant
  /\ pending' = [pending EXCEPT ![s] =
                   IF pending[s].exists THEN [pending[s] EXCEPT !.value = v]
                   ELSE [exists |-> TRUE, value |-> v, eta |-> now + SLOW_DELAY]]
  /\ notice' = [notice EXCEPT ![s] = [value |-> v, at |-> now]]
QueueSlot(s, v) ==
  /\ pending' = [pending EXCEPT ![s] = [exists |-> TRUE, value |-> v, eta |-> now + SLOW_DELAY]]
  /\ notice' = [notice EXCEPT ![s] = [value |-> v, at |-> now]]
CanActivate(s, a) == /\ HasRole(SlowLane, 0, TIMELOCK, a)
                     /\ pending[s].exists
                     /\ now >= pending[s].eta
                     /\ HasRole(Vault, 0, MANAGER, SlowLane)
ActivateSlotKeepingEta(s) ==                                                   \* mutant
  /\ setting' = [setting EXCEPT ![s] = pending[s].value]
  /\ pending' = [pending EXCEPT ![s].exists = FALSE]
ActivateSlot(s) == /\ setting' = [setting EXCEPT ![s] = pending[s].value]
                   /\ pending' = [pending EXCEPT ![s] = Nothing]
(* The slow lane is a contract: it signs no transaction of a script.       *)
CanSet(a) == a # SlowLane /\ HasRole(Vault, 0, MANAGER, a)
CanPause(a) == /\ HasRole(Policy, 0, GUARDIAN, a) \/ HasRole(Policy, 0, TIMELOCK, a)
               /\ ~depositsPaused

-----------------------------------------------------------------------------
(* What a script reads.                                                    *)
Current(o) == Body(run[o].script)[run[o].pc]
At(o, op) == run[o].script # "" /\ Current(o).op = op
TargetKnown(o) == run[o].copy # "offline"
(* A uint8 arrives as a bigint, which no number is identical to.           *)
StateIdentical(p, n) == FALSE
Holds(c, o) ==
  CASE c.kind = "always"         -> TRUE
    [] c.kind = "never"          -> FALSE
    [] c.kind = "role"           -> HasRole(c.on, run[o].module, c.what, c.who)
    [] c.kind = "link"           -> <<c.on, IdOf(c.on, run[o].module), c.what>> \in links
    [] c.kind = "given"          -> c.on \in setup.environment
    [] c.kind = "missing"        -> c.on \notin setup.environment
    [] c.kind = "known"          -> c.on \in setup.deployed
    [] c.kind = "feeSet"         -> setting["escrowFee"] = TargetFee
    [] c.kind = "nothingSeen"    -> ~run[o].seen.exists
    [] c.kind = "feeSeen"        -> run[o].seen.value = TargetFee
    [] c.kind = "moduleInEffect" -> setting["resolutionModule"] = run[o].module
    [] c.kind = "depositsPaused" -> depositsPaused
    [] c.kind = "payloadGiven"   -> PayloadOf(run[o].payload).given \subseteq setup.environment
    [] c.kind = "file"           -> file[run[o].payload] # "none"
    [] c.kind = "targets"        -> TargetKnown(o)
    [] c.kind = "encode"         -> Encodes(run[o].payload)
    [] c.kind = "id"             -> run[o].copy = "proposed"
    [] c.kind = "state"          -> StateIdentical(run[o].payload, c.on)
    [] c.kind = "calls"          -> Encodes(run[o].payload)

(* The end of a run; success is exit code 0.                               *)
Finished(o, ok) == [Idle EXCEPT !.success = ok \/ run[o].script \in ExitsZero]
Advance(o, r, n) ==
  run' = [run EXCEPT ![o] = IF r.pc + n <= Len(Body(r.script)) THEN [r EXCEPT !.pc = r.pc + n]
                            ELSE Finished(o, ~r.bad)]
Continue(o) == Advance(o, run[o], 1)

(* The step failed: by a refusal, or by a fault.                           *)
Fails(o) ==
  LET s == Current(o)
      r == [run[o] EXCEPT !.bad = run[o].bad \/ s.op = "note"]
  IN IF s.catch = 0 THEN run' = [run EXCEPT ![o] = Finished(o, FALSE)]
     ELSE Advance(o, r, s.catch)

-----------------------------------------------------------------------------
(* Running a script.                                                       *)
Launch(o, s, p) ==
  /\ run[o].script = ""
  /\ launches < setup.launches
  /\ s \in ProposalScripts <=> p # NoPayload
  /\ run' = [run EXCEPT ![o] = [Idle EXCEPT !.script = s, !.payload = p, !.pc = 1]]
  /\ launches' = launches + 1
  /\ UNCHANGED <<setup, now, chain, governance, stripped, faults>>

Killed(o) ==
  /\ run[o].script # ""
  /\ run' = [run EXCEPT ![o] = Idle]
  /\ UNCHANGED <<setup, now, chain, governance, stripped, budget>>

Fault(o) ==
  /\ run[o].script # ""
  /\ faults < setup.faults
  /\ faults' = faults + 1
  /\ Fails(o)
  /\ UNCHANGED <<setup, now, chain, governance, stripped, launches>>

unchangedByReads == <<setup, now, chain, governance, stripped, budget>>
Checks(o) ==
  /\ At(o, "check")
  /\ IF Holds(Current(o).cond, o) THEN run' = [run EXCEPT ![o] = Finished(o, TRUE)]
     ELSE IF Holds(Current(o).need, o) THEN Continue(o) ELSE Fails(o)
  /\ UNCHANGED unchangedByReads

Skips(o) ==
  /\ At(o, "skip")
  /\ Advance(o, run[o], IF Holds(Current(o).cond, o) \/ (Current(o).cond = NEVER
                                                         /\ ~Holds(Current(o).need, o))
                        THEN Current(o).what + 1 ELSE 1)
  /\ UNCHANGED unchangedByReads

Notes(o) ==
  /\ At(o, "note")
  /\ IF Holds(Current(o).cond, o) THEN Continue(o) ELSE Fails(o)
  /\ UNCHANGED unchangedByReads

(* A simulated call reaches a fork whose answer is not modelled.           *)
SimulationFails(o) ==
  /\ At(o, "note") /\ Current(o).cond.kind = "calls"
  /\ Fails(o)
  /\ UNCHANGED unchangedByReads

Reads(o) ==
  /\ At(o, "read")
  /\ Advance(o, [run[o] EXCEPT !.seen = pending[Current(o).on]], 1)
  /\ UNCHANGED unchangedByReads

GetsModule(o) ==
  /\ At(o, "get")
  /\ Drm \in setup.deployed
  /\ Advance(o, [run[o] EXCEPT !.module = 1], 1)
  /\ UNCHANGED unchangedByReads

-----------------------------------------------------------------------------
(* Transactions.  Each succeeds as a whole or is refused.                  *)
DeploysModule(o) ==
  /\ At(o, "deploy")
  /\ modules < setup.modules
  /\ modules' = modules + 1
  /\ roles' = roles \cup {<<c, modules + 1, ADMIN, Current(o).by>> : c \in {Module, Staking, Pool}}
  /\ Advance(o, [run[o] EXCEPT !.module = modules + 1], 1)
  /\ UNCHANGED <<setup, now, links, setting, pending, notice, depositsPaused, governance,
                 stripped, budget>>

Grants(o) ==
  LET s == Current(o) IN
  /\ At(o, "grant")
  /\ HasRole(s.on, run[o].module, ADMIN, s.by)
  /\ roles' = roles \cup {<<s.on, IdOf(s.on, run[o].module), s.what, s.who>>}
  /\ Continue(o)
  /\ UNCHANGED <<setup, now, links, setting, pending, notice, modules, depositsPaused,
                 governance, stripped, budget>>

Linking(o) ==
  LET s == Current(o) IN
  /\ At(o, "link")
  /\ HasRole(s.on, run[o].module, s.who, s.by)
  /\ links' = links \cup {<<s.on, IdOf(s.on, run[o].module), s.what>>}
  /\ Continue(o)
  /\ UNCHANGED <<setup, now, roles, setting, pending, notice, modules, depositsPaused,
                 governance, stripped, budget>>

ValueFor(o, s) == IF s = "escrowFee" THEN TargetFee ELSE run[o].module
Queues(o) ==
  LET s == Current(o) IN
  /\ At(o, "queue")
  /\ HasRole(SlowLane, 0, TIMELOCK, s.by)
  /\ QueueSlot(s.on, ValueFor(o, s.on))
  /\ Continue(o)
  /\ UNCHANGED <<setup, now, roles, links, setting, modules, depositsPaused, governance,
                 stripped, budget>>

Activates(o) ==
  LET s == Current(o) IN
  /\ At(o, "activate")
  /\ CanActivate(s.on, s.by)
  /\ ActivateSlot(s.on)
  /\ Continue(o)
  /\ UNCHANGED <<setup, now, roles, links, notice, modules, depositsPaused, governance,
                 stripped, budget>>

Sets(o) ==
  LET s == Current(o) IN
  /\ At(o, "set")
  /\ CanSet(s.by)
  /\ setting' = [setting EXCEPT ![s.on] = ValueFor(o, s.on)]
  /\ Continue(o)
  /\ UNCHANGED <<setup, now, roles, links, pending, notice, modules, depositsPaused,
                 governance, stripped, budget>>

Pauses(o) ==
  LET s == Current(o) IN
  /\ At(o, "pause")
  /\ CanPause(s.by)
  /\ depositsPaused' = TRUE
  /\ Continue(o)
  /\ UNCHANGED <<setup, now, roles, links, setting, pending, notice, modules, governance,
                 stripped, budget>>

Refused(o) ==
  LET s == Current(o) IN
  /\ run[o].script # ""
  /\ \/ s.op = "grant" /\ ~HasRole(s.on, run[o].module, ADMIN, s.by)
     \/ s.op = "link" /\ ~HasRole(s.on, run[o].module, s.who, s.by)
     \/ s.op = "queue" /\ ~HasRole(SlowLane, 0, TIMELOCK, s.by)
     \/ s.op = "activate" /\ ~CanActivate(s.on, s.by)
     \/ s.op = "set" /\ ~CanSet(s.by)
     \/ s.op = "get" /\ Drm \notin setup.deployed
     \/ s.op = "pause" /\ ~CanPause(s.by)
     \/ s.op = "load" /\ ~Holds(s.cond, o)
     \/ s.op = "propose" /\ proposal[run[o].payload].state # "None"
  /\ Fails(o)
  /\ UNCHANGED unchangedByReads

-----------------------------------------------------------------------------
(* Proposals: the artifact on disk and the governor.                       *)
Writes(o) ==
  LET p == run[o].payload IN
  /\ At(o, "write")
  /\ \/ file' = [file EXCEPT ![p] = "offline"]
     \/ /\ PayloadOf(p).required \subseteq setup.deployed
        /\ file' = [file EXCEPT ![p] = "built"]
  /\ Continue(o)
  /\ UNCHANGED <<setup, now, chain, proposal, stripped, budget>>

(* On a network without the required deployments nothing is written.       *)
MissesDeployments(o) ==
  /\ At(o, "write")
  /\ ~(PayloadOf(run[o].payload).required \subseteq setup.deployed)
  /\ Fails(o)
  /\ UNCHANGED unchangedByReads

Loads(o) ==
  /\ At(o, "load")
  /\ Holds(Current(o).cond, o)
  /\ Advance(o, [run[o] EXCEPT !.copy = file[run[o].payload]], 1)
  /\ UNCHANGED unchangedByReads

(* The status is added to the artifact in memory once the transaction is   *)
(* mined, and saved with it.                                               *)
ProposesUnmined(o) ==                                                          \* mutant
  LET p == run[o].payload IN
  /\ At(o, "propose")
  /\ proposal[p].state = "None"
  /\ \/ proposal' = [proposal EXCEPT ![p].state = "Pending"]
     \/ UNCHANGED proposal
  /\ Advance(o, [run[o] EXCEPT !.copy = "proposed"], 1)
  /\ UNCHANGED <<setup, now, chain, file, stripped, budget>>
Proposes(o) ==
  LET p == run[o].payload IN
  /\ At(o, "propose")
  /\ proposal[p].state = "None"
  /\ proposal' = [proposal EXCEPT ![p].state = "Pending"]
  /\ Advance(o, [run[o] EXCEPT !.copy = "proposed"], 1)
  /\ UNCHANGED <<setup, now, chain, file, stripped, budget>>

Saves(o) ==
  /\ At(o, "save")
  /\ file' = [file EXCEPT ![run[o].payload] = run[o].copy]
  /\ Continue(o)
  /\ UNCHANGED <<setup, now, chain, proposal, stripped, budget>>

(* The vote, and the governor's queue and execute, which anybody may call. *)
Voted(p) ==
  /\ proposal[p].state = "Pending"
  /\ \E verdict \in {"Succeeded", "Defeated"} : proposal' = [proposal EXCEPT ![p].state = verdict]
  /\ UNCHANGED <<setup, now, chain, file, run, stripped, budget>>
QueuedInTimelock(p) ==
  /\ proposal[p].state = "Succeeded"
  /\ proposal' = [proposal EXCEPT ![p] = [state |-> "Queued", eta |-> now + MIN_DELAY]]
  /\ UNCHANGED <<setup, now, chain, file, run, stripped, budget>>

NewFee == 200
Executed(p) ==
  /\ proposal[p].state = "Queued"
  /\ now >= proposal[p].eta
  /\ HasRole(SlowLane, 0, TIMELOCK, "TimelockController")
  /\ \/ p = "queue_fee" /\ QueueSlot("escrowFee", NewFee) /\ UNCHANGED setting
     \/ /\ p = "activate_fee"
        /\ CanActivate("escrowFee", "TimelockController")
        /\ ActivateSlot("escrowFee")
        /\ UNCHANGED notice
  /\ proposal' = [proposal EXCEPT ![p].state = "Executed"]
  /\ UNCHANGED <<setup, now, roles, links, modules, depositsPaused, file, run, stripped, budget>>

-----------------------------------------------------------------------------
(* deploy/95 takes the deployer's two roles away, contract by contract; an *)
(* error is caught and the next contract follows.                          *)
StrippedInOrder == <<<<Vault, 0>>, <<SlowLane, 0>>, <<Policy, 0>>, <<Staking, 1>>, <<Pool, 1>>,
                     <<Module, 1>>>>
Strip ==
  /\ setup.stripping
  /\ stripped < IF Drm \in setup.deployed THEN 6 ELSE 3
  /\ stripped' = stripped + 1
  /\ LET c == StrippedInOrder[stripped + 1] IN
     \/ /\ roles' = roles \ {<<c[1], c[2], r, "deployer">> : r \in {ADMIN, TIMELOCK}}
        /\ UNCHANGED faults
     \/ faults < setup.faults /\ faults' = faults + 1 /\ UNCHANGED roles
  /\ UNCHANGED <<setup, now, links, setting, pending, notice, modules, depositsPaused,
                 governance, run, launches>>

Tick ==
  /\ now < setup.time
  /\ \A o \in Operators : ~run[o].aged
  /\ now' = now + 1
  /\ run' = [o \in Operators |-> IF run[o].script = "" THEN run[o]
                                 ELSE [run[o] EXCEPT !.aged = TRUE]]
  /\ UNCHANGED <<setup, chain, governance, stripped, budget>>

OperatorStep(o) ==
  \/ Checks(o) \/ Skips(o) \/ Notes(o) \/ SimulationFails(o) \/ Reads(o) \/ GetsModule(o)
  \/ DeploysModule(o) \/ Grants(o) \/ Linking(o) \/ Queues(o) \/ Activates(o) \/ Sets(o)
  \/ Pauses(o) \/ Refused(o) \/ Writes(o) \/ MissesDeployments(o) \/ Loads(o) \/ Proposes(o)
  \/ Saves(o)

Next ==
  \/ \E o \in Operators :
       \/ \E s \in setup.scripts, p \in setup.payloads \cup {NoPayload} : Launch(o, s, p)
       \/ OperatorStep(o) \/ Killed(o) \/ Fault(o)
  \/ \E p \in Payloads : Voted(p) \/ QueuedInTimelock(p) \/ Executed(p)
  \/ Strip \/ Tick

Spec == Init /\ [][Next]_vars
=============================================================================
