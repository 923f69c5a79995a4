------------------------------ MODULE Deployment ------------------------------
(***************************************************************************)
(* Deploying and configuring the protocol: an operator runs `hardhat       *)
(* deploy` with a choice of tags, hardhat-deploy orders the scripts of     *)
(* deploy/ by their dependencies and runs them one after the other, and    *)
(* every call a script makes is a transaction or a file write between      *)
(* which the run may be interrupted.  What was deployed, granted and wired *)
(* stays; the next run starts the scripts again from their beginning.      *)
(*                                                                         *)
(* Assumed: the sources and constructor arguments do not change between    *)
(* runs, so `deploy` never replaces a contract, and the deployer key is    *)
(* the same in every run.  hardhat-deploy's own record of a deployment is  *)
(* taken to be written with the transaction (it resumes pending ones).     *)
(***************************************************************************)
EXTENDS DeployScripts, FiniteSets

CONSTANTS
    Runs,         \* runs the operator may start: [tags |-> the --tags argument,
                  \*   {} for every script, env |-> the environment it is given]
    MaxFaults,    \* bound on interruptions and swallowed errors
    VaultLinks    \* whether EscrowVault's artifact deploys without `libraries`

ASSUME FaultsAssumption == MaxFaults \in Nat
ASSUME GraphAssumption == ValidGraph

VARIABLES
    deployed,     \* contracts that exist (deployments/<network>/<name>.json)
    roles,        \* AccessControl: <<contract, role, account>>
    wired,        \* values of setters and registries: <<contract, link, value>>
    pending,      \* slow-lane requests: <<contract, slot, value, delay passed?>>
    recs, torn,   \* deploy-registry/chain-<id>.json: its records, unreadable?
    network,      \* the network deployed to
    session,      \* the run of hardhat deploy that is going on
    done,         \* which of the handover scripts have run to their end
    faults        \* interruptions and caught errors so far

chain == <<deployed, roles, wired, pending>>
disk  == <<network, recs, torn>>
vars  == <<chain, disk, session, done, faults>>

(* A run: the scripts it has still to execute, the current one first, the  *)
(* block and step the current one is at, the environment, whether it has a *)
(* new contract yet to record (newlyDeployed), whether it is between       *)
(* opening the registry file and closing it, and whether the script caught *)
(* an error.                                                               *)
NoRun == [todo |-> <<>>, at |-> <<1, 1>>, env |-> [net |-> "none"],
          fresh |-> FALSE, saving |-> FALSE, caught |-> FALSE]
Handovers == {"60", "95"}
Idle  == session.todo = <<>>

-----------------------------------------------------------------------------
(* The order of a run: the selected scripts by file name, each after the   *)
(* scripts that carry a tag it depends on; a tag no script carries is      *)
(* ignored.  WalkOn is one step of the depth-first walk: with nothing open *)
(* it opens the next selected script; the script opened last is put in     *)
(* order, or the first one it awaits is opened before it.                  *)
LeastOf(S) == CHOOSE i \in S : \A j \in S : i <= j
FirstOf(S) == Files[LeastOf({i \in DOMAIN Files : Files[i] \in S})]
Selected(tags) == {s \in Scripts : tags = {} \/ Tags(s) \cap tags # {}}
Awaits(s, i, ordered) == Carrying(Dependencies(s)[i]) \ Elems(ordered)
Awaiting(s, ordered)  == {i \in DOMAIN Dependencies(s) : Awaits(s, i, ordered) # {}}
FirstAwaited(s, ordered) == FirstOf(Awaits(s, LeastOf(Awaiting(s, ordered)), ordered))
WalkOn(tags, p) ==
  LET ordered == p[1]
      open    == p[2]
      left    == Selected(tags) \ Elems(ordered)
  IN IF open # <<>>
     THEN IF Awaiting(Head(open), ordered) = {}
          THEN <<Append(ordered, Head(open)), Tail(open)>>
          ELSE <<ordered, <<FirstAwaited(Head(open), ordered)>> \o open>>
     ELSE IF left # {} THEN <<ordered, <<FirstOf(left)>>>> ELSE p
MaxWalk == 2 * Len(Files)     \* each script is opened once and put in order once
RunOrder(tags) ==
  LET walk[n \in 0..MaxWalk] ==
        IF n = 0 THEN <<<<>>, <<>>>> ELSE WalkOn(tags, walk[n - 1])
  IN walk[MaxWalk][1]
Order == [tags \in {r.tags : r \in Runs} |-> RunOrder(tags)]
(* The walk has come to its end: MaxWalk steps are enough.                 *)
ASSUME WalkAssumption == \A r \in Runs : Selected(r.tags) \subseteq Elems(Order[r.tags])

-----------------------------------------------------------------------------
(* What the contracts do.  The roles a constructor grants: most give the   *)
(* deployer both roles, the resolution modules only the administration.    *)
AdminAndTimelock == {"EscrowVault", "EscrowableERC20", "AaveYieldModule",
                     "EscrowGovernanceTimelock", "EscrowCreationPolicy", "BondCollector", "ModuleSnapshotRegistry",
                     "EscrowVaultProfileB", "ModuleSnapshotRegistryProfileB"}
AdminOnly == {DRM, DRMB, FacadeB, "ResolverStakingModule", "ResolverSlashingModule",
              "InsurancePoolVault", "ResolverIncentiveModule"}
TimelockOwned == {"BondTokenRegistry", "BondLedger"}
BirthRoles(c) ==
  CASE c \in AdminAndTimelock -> {<<c, ADMIN, "deployer">>, <<c, TIMELOCK, "deployer">>}
    [] c \in AdminOnly -> {<<c, ADMIN, "deployer">>}
    [] c \in TimelockOwned ->
         {<<c, ADMIN, "TimelockController">>, <<c, TIMELOCK, "TimelockController">>}
    [] c = "TimelockController" -> {<<c, ADMIN, "deployer">>, <<c, ADMIN, c>>}
    [] c = "EmergencyRecoveryProposal" -> {<<c, ADMIN, "TimelockController">>}
    [] c = "L2AddressRegistry" -> {<<c, "governor", "deployer">>}
    [] OTHER -> {}
ConstructorOk(c, e) == /\ c = "AaveYieldModule" => ~IsLocal(e)
                       /\ c = "EscrowVault" => VaultLinks

Holds(c, r, a) == <<c, r, a>> \in roles
Linked(c, l, v) == <<c, l, v>> \in wired
ManyValued == {"escrow", "approve", "name", "version", "recoveryOperator"}
Wire(c, l, v) == {w \in wired : l \in ManyValued \/ <<w[1], w[2]>> # <<c, l>>} \cup {<<c, l, v>>}
(* A setter that depends on another fact of the chain.                     *)
LinkAccepted(c, l, v) == /\ l = "version" => Linked(c, "name", v)
                         /\ (c \in {DRM, DRMB} /\ l # "adminFacet") =>
                              \E f \in deployed : Linked(c, "adminFacet", f)
(* The slow lane: the snapshot registry takes requests only for an escrow  *)
(* registered with it; a new request replaces the pending one of its slot  *)
(* and starts the delay again.                                             *)
PendingAt(c, slot) == {p \in pending : p[1] = c /\ p[2] = slot}
QueueAccepted(c) == c = "ModuleSnapshotRegistry" => Holds(c, "ROLE_ESCROW_CONTRACT", "EscrowVault")
Request(c, slot, v) == (pending \ PendingAt(c, slot)) \cup {<<c, slot, v, FALSE>>}

-----------------------------------------------------------------------------
(* The position in the run.                                                *)
Script  == Head(session.todo)
Program == Body(Script, session.env, deployed)
Block   == Program[session.at[1]]
Now     == Block.steps[session.at[2]]
Running == ~Idle /\ Program # <<>>
Current == IF Running THEN {Now} ELSE {}

(* Going on with the run, now in state s, at a block and step; past the    *)
(* last block the script has ended and the next one starts.                *)
GoTo(s, block, step) ==
  IF block <= Len(Program)
  THEN session' = [s EXCEPT !.at = <<block, step>>] /\ done' = done
  ELSE /\ session' = IF Len(s.todo) = 1 THEN NoRun
                      ELSE [NoRun EXCEPT !.todo = Tail(s.todo), !.env = s.env]
       /\ done' = done \cup ({Script} \cap Handovers)
EndScript == GoTo(session, Len(Program) + 1, 1)
AdvanceAs(s) == IF s.at[2] < Len(Block.steps) THEN GoTo(s, s.at[1], s.at[2] + 1)
                ELSE GoTo(s, s.at[1] + 1, 1)
Advance == AdvanceAs(session)
Abort == session' = NoRun /\ done' = done

(* A failing call: its block catches it and the script goes on after the   *)
(* block and the tries nested in it, or the run stops.                     *)
Catches(error) == \/ Block.kind \in {"try", "inner"}
                  \/ Block.kind = "auth" /\ error = "unauthorized"
AfterBlock == CHOOSE i \in session.at[1] + 1 .. Len(Program) + 1 :
                /\ i = Len(Program) + 1 \/ Program[i].kind # "inner"
                /\ \A j \in session.at[1] + 1 .. i - 1 : Program[j].kind = "inner"
Fail(error) ==
  IF Catches(error)
  THEN GoTo([session EXCEPT !.caught = TRUE], AfterBlock, 1)
  ELSE Abort

-----------------------------------------------------------------------------
(* The operator and the scripts' calls.                                    *)
Init ==
  /\ deployed = {} /\ roles = {} /\ wired = {} /\ pending = {}
  /\ recs = {} /\ torn = FALSE
  /\ network \in {r.env.net : r \in Runs}
  /\ session = NoRun /\ done = {} /\ faults = 0

StartRun(r) ==
  /\ Idle
  /\ r.env.net = network
  /\ session' = [NoRun EXCEPT !.todo = Order[r.tags], !.env = r.env]
  /\ UNCHANGED <<chain, disk, done, faults>>

(* A script that has nothing to do under this configuration.               *)
SkipScript ==
  /\ ~Idle
  /\ Program = <<>>
  /\ EndScript
  /\ UNCHANGED <<chain, disk, faults>>

(* Configuration checks and records that must exist.                       *)
RequireStep(now) ==
  /\ now.op \in {"require", "assert"}
  /\ IF IF now.op = "assert" THEN Linked(now.on, now.what, now.who)
        ELSE now.on \subseteq deployed /\ \A k \in now.what : PassesCheck(k, session.env)
     THEN Advance ELSE Fail("other")
  /\ UNCHANGED <<chain, disk, faults>>

CreateStep(now) ==
  /\ now.op = "create"
  /\ ~session.fresh
  /\ IF now.on \in deployed THEN Advance /\ UNCHANGED <<deployed, roles>>
     ELSE IF ~ConstructorOk(now.on, session.env) THEN Fail("other") /\ UNCHANGED <<deployed, roles>>
     ELSE /\ deployed' = deployed \cup {now.on}
          /\ roles' = roles \cup BirthRoles(now.on)
          /\ IF now.what = "" THEN Advance
             ELSE session' = [session EXCEPT !.fresh = TRUE] /\ done' = done
  /\ UNCHANGED <<wired, pending, disk, faults>>

(* registerDeployment, only for a contract this run created: the file is   *)
(* read whole, truncated and written; one that cannot be parsed counts as  *)
(* absent, so that the new file holds this record alone.                   *)
BeginSaveUnnamed(now) ==                                                       \* mutant
  /\ now.op = "create"
  /\ session.fresh /\ ~session.saving
  /\ recs' = (IF torn THEN {} ELSE recs) \cup {now.what}
  /\ torn' = TRUE
  /\ session' = [session EXCEPT !.saving = TRUE]
  /\ UNCHANGED <<chain, network, done, faults>>
BeginSaveAfresh(now) ==                                                        \* mutant
  /\ now.op = "create"
  /\ session.fresh /\ ~session.saving
  /\ recs' = {now.on}
  /\ torn' = TRUE
  /\ session' = [session EXCEPT !.saving = TRUE]
  /\ UNCHANGED <<chain, network, done, faults>>
BeginSave(now) ==
  /\ now.op = "create"
  /\ session.fresh /\ ~session.saving
  /\ recs' = (IF torn THEN {} ELSE recs) \cup {now.on}
  /\ torn' = TRUE
  /\ session' = [session EXCEPT !.saving = TRUE]
  /\ UNCHANGED <<chain, network, done, faults>>
EndSave(now) ==
  /\ now.op = "create"
  /\ session.saving
  /\ torn' = FALSE
  /\ AdvanceAs([session EXCEPT !.saving = FALSE, !.fresh = FALSE])
  /\ UNCHANGED <<chain, network, recs, faults>>

(* grantRole and revokeRole are sent only when the role is not yet as      *)
(* wanted, and revert unless the deployer administers the contract.        *)
GrantStep(now) ==
  /\ now.op \in {"grant", "grantIfAdmin", "grantIfKnown"}
  /\ IF \/ Holds(now.on, now.what, now.who)
        \/ now.op = "grantIfAdmin" /\ ~Holds(now.on, ADMIN, "deployer")
     THEN Advance /\ UNCHANGED roles
     ELSE IF ~Holds(now.on, ADMIN, "deployer") THEN Fail("unauthorized") /\ UNCHANGED roles
     ELSE Advance /\ roles' = roles \cup {<<now.on, now.what, now.who>>}
  /\ UNCHANGED <<deployed, wired, pending, disk, faults>>
RevokeStep(now) ==
  /\ now.op = "revoke"
  /\ IF ~Holds(now.on, now.what, now.who) THEN Advance /\ UNCHANGED roles
     ELSE IF ~Holds(now.on, ADMIN, "deployer") THEN Fail("unauthorized") /\ UNCHANGED roles
     ELSE Advance /\ roles' = roles \ {<<now.on, now.what, now.who>>}
  /\ UNCHANGED <<deployed, wired, pending, disk, faults>>

(* schedule and execute through the timelock, by a deployer who has made   *)
(* itself proposer; otherwise left to governance.                          *)
TimelockStep(now) ==
  /\ now.op = "viaTimelock"
  /\ roles' = IF Holds("TimelockController", ADMIN, "deployer")
              THEN roles \cup {<<now.on, now.what, now.who>>} ELSE roles
  /\ Advance
  /\ UNCHANGED <<deployed, wired, pending, disk, faults>>

LinkStep(now) ==
  /\ now.op = "link"
  /\ IF Linked(now.on, now.what, now.who) THEN Advance /\ UNCHANGED wired
     ELSE IF ~Holds(now.on, now.by, "deployer") THEN Fail("unauthorized") /\ UNCHANGED wired
     ELSE IF ~LinkAccepted(now.on, now.what, now.who) THEN Fail("other") /\ UNCHANGED wired
     ELSE Advance /\ wired' = Wire(now.on, now.what, now.who)
  /\ UNCHANGED <<deployed, roles, pending, disk, faults>>

QuitStep(now) ==
  /\ now.op = "quit"
  /\ IF Holds(now.on, now.what, now.who) THEN Advance ELSE EndScript
  /\ UNCHANGED <<chain, disk, faults>>

(* Requests are sent again whenever the module is not active yet; only the *)
(* release strategy's script looks for a pending request of its own first. *)
QueueStep(now) ==
  /\ now.op \in {"queue", "queueNew"}
  /\ IF \/ Linked(now.on, now.what, now.who) /\ now.what # "YIELD_GEN"
        \/ now.op = "queueNew" /\ \E p \in PendingAt(now.on, now.what) : p[3] = now.who
     THEN Advance /\ UNCHANGED pending
     ELSE IF ~Holds(now.on, now.by, "deployer") THEN Fail("unauthorized") /\ UNCHANGED pending
     ELSE IF ~QueueAccepted(now.on) THEN Fail("other") /\ UNCHANGED pending
     ELSE Advance /\ pending' = Request(now.on, now.what, now.who)
  /\ UNCHANGED <<deployed, roles, wired, disk, faults>>
ActivateStep(now) ==
  /\ now.op \in {"activate", "activateIfDue"}
  /\ LET due == {p \in PendingAt(now.on, now.what) : p[4]}
     IN IF due # {} /\ Holds(now.on, now.by, "deployer")
        THEN /\ Advance
             /\ \E p \in due : /\ wired' = Wire(now.on, now.what, p[3])
                               /\ pending' = pending \ {p}
        ELSE /\ IF now.op = "activateIfDue" \/ Linked(now.on, now.what, now.who) THEN Advance
                ELSE Fail("other")
             /\ UNCHANGED <<wired, pending>>
  /\ UNCHANGED <<deployed, roles, disk, faults>>

-----------------------------------------------------------------------------
(* What goes on around the runs: the seven days of a request pass, and a   *)
(* holder of the role registers the escrow with the snapshot registry,     *)
(* which no script does.                                                   *)
DelayPasses ==
  /\ Idle
  /\ \E p \in pending : ~p[4]
  /\ pending' = {<<p[1], p[2], p[3], TRUE>> : p \in pending}
  /\ UNCHANGED <<deployed, roles, wired, disk, session, done, faults>>
RegisterEscrow ==
  /\ Idle
  /\ {"EscrowVault", "ModuleSnapshotRegistry"} \subseteq deployed
  /\ \E a \in {"deployer", "TimelockController"} : \E r \in {ADMIN, TIMELOCK} :
        Holds("ModuleSnapshotRegistry", r, a)
  /\ roles' = roles \cup {<<"ModuleSnapshotRegistry", "ROLE_ESCROW_CONTRACT", "EscrowVault">>}
  /\ UNCHANGED <<deployed, wired, pending, disk, session, done, faults>>

(* Faults: the process dies or an uncaught call fails on the network; a    *)
(* call in a try fails there and is swallowed; a failed probe for a role   *)
(* reads as a contract without it; the timelock's delay cannot be read.    *)
Fault == faults < MaxFaults /\ faults' = faults + 1 /\ UNCHANGED <<chain, disk>>
Interrupt == Running /\ Fault /\ Abort
ErrorCaught == Running /\ Block.kind \in {"try", "inner"} /\ Fault /\ Fail("other")
ProbeFails(now) == now.op = "grantIfKnown" /\ Fault /\ Advance
VerifyFails(now) == /\ now.op = "create" /\ now.what = "verified"
                    /\ session.fresh /\ ~session.saving
                    /\ Fault /\ EndScript

ScriptStep == \/ SkipScript
              \/ \E now \in Current :
                   \/ RequireStep(now) \/ CreateStep(now) \/ BeginSave(now) \/ EndSave(now)
                   \/ GrantStep(now) \/ RevokeStep(now) \/ TimelockStep(now) \/ LinkStep(now)
                   \/ QuitStep(now) \/ QueueStep(now) \/ ActivateStep(now)
Next == \/ \E r \in Runs : StartRun(r)
        \/ ScriptStep
        \/ DelayPasses
        \/ RegisterEscrow
        \/ Interrupt
        \/ ErrorCaught
        \/ \E now \in Current : ProbeFails(now) \/ VerifyFails(now)

Spec == Init /\ [][Next]_vars
=============================================================================
