-------------------------- MODULE OperationsProperties --------------------------
(***************************************************************************)
(* What the operation scripts must preserve while several operators run    *)
(* them, runs are cut off, and deploy/95 and the governor act in between.  *)
(***************************************************************************)
EXTENDS Operations

(* Every variable has its type: a running script is inside its body, and   *)
(* no slot waits without a moment to become due.                           *)
Values == Nat
TypeOK ==
  /\ now \in 0..setup.time
  /\ setting \in [Slots -> Values]
  /\ pending \in [Slots -> [exists : BOOLEAN, value : Values, eta : Nat]]
  /\ \A s \in Slots : ~pending[s].exists => pending[s] = Nothing
  /\ modules \in 0..setup.modules
  /\ \A t \in roles \cup links : t[2] \in 0..modules
  /\ depositsPaused \in BOOLEAN
  /\ proposal \in [Payloads -> [state : {"None", "Pending", "Succeeded", "Defeated", "Queued",
                                         "Executed"}, eta : Nat]]
  /\ file \in [Payloads -> {"none", "offline", "built", "proposed"}]
  /\ \A o \in Operators :
       \/ run[o] = [Idle EXCEPT !.success = run[o].success]
       \/ /\ run[o].script \in setup.scripts
          /\ run[o].pc \in DOMAIN Body(run[o].script)
          /\ run[o].module \in 0..modules

(* As long as nobody but the slow lane manages the vault, its fee and its  *)
(* resolution module change only to the value announced last, and only     *)
(* SLOW_DELAY after that announcement, whatever scripts and proposals have *)
(* announced before and however they overwrite one another.                *)
Managers == {t[4] : t \in {u \in roles : u[1] = Vault /\ u[3] = MANAGER}}
Announced(s) == /\ notice[s].value = setting'[s]
                /\ now >= notice[s].at + SLOW_DELAY
NoticeGiven ==
  [][\A s \in Slots :
       setting'[s] # setting[s] => Announced(s) \/ ~(Managers \subseteq {SlowLane})]_vars

(* The two activation scripts read what is pending and activate in a later *)
(* call: if the call succeeds, it puts into effect the very value that was *)
(* read, although others may announce or activate in between.              *)
ActivatesWhatItRead ==
  [][\A o \in Operators :
       (At(o, "activate") /\ setting' # setting /\ run'[o] # run[o])
         => setting'[Current(o).on] = run[o].seen.value]_vars

(* A module in effect is one the timelock may govern, and a decentralised  *)
(* one knows the vault and its own parts: a script cut off anywhere leaves *)
(* at most a module that is not in effect.                                 *)
Usable(m) == /\ <<Module, m, TIMELOCK, "TimelockController">> \in roles
             /\ <<Module, m, "adminFacet">> \in links => DrmLinks(m) \subseteq links
GovernedModule == setting["resolutionModule"] # 0 => Usable(setting["resolutionModule"])

(* An artifact that says it was proposed names a proposal the governor     *)
(* knows, in spite of copies saved late, failed transactions and crashes.  *)
ArtifactTruthful ==
  \A p \in Payloads : file[p] = "proposed" => proposal[p].state # "None"

(* When test-guardian-all ends with exit code 0 the guardian holds its     *)
(* role on both contracts it is meant to guard.                            *)
GuardianReady ==
  [][\A o \in Operators :
       (run[o].script = "test-guardian-all" /\ run'[o].script = "" /\ run'[o].success)
         => \A c \in {Vault, Policy} : HasRole(c, 0, GUARDIAN, "guardian")]_vars
=============================================================================
