--------------------------- MODULE OperationScripts ---------------------------
(***************************************************************************)
(* The scripts by which operators run a deployed protocol, as data:        *)
(* scripts/testnet/*.ts, which set the escrow fee and the resolution       *)
(* module and look after the guardian, and scripts/gov/*.ts, which carry a *)
(* proposal to the governor.  Operations.tla runs them.                    *)
(*                                                                         *)
(* A script is a sequence of steps.  A step is one awaited call: a read    *)
(* and the decision the script takes on it, a transaction, or a file that  *)
(* is read or written.  Between two steps other operators act and the      *)
(* process may die.  "catch" is what follows an error of the step: 0 ends  *)
(* the script, n goes on n steps further (a try ... catch around it).      *)
(* A definition marked "mutant" is the one below it with one mistake of    *)
(* the kind a change to the scripts could make; nothing uses it.           *)
(* Left out: console output, the refusal of every network but the test     *)
(* network, the choice among environment variables for the same key, and   *)
(* read-backs that only print.                                             *)
(***************************************************************************)
EXTENDS Naturals, Sequences

ADMIN    == "DEFAULT_ADMIN_ROLE"
TIMELOCK == "ROLE_TIMELOCK"
GUARDIAN == "ROLE_GUARDIAN"
MANAGER  == "ROLE_ADMIN_CONTRACT"
Vault    == "EscrowVault"
SlowLane == "EscrowGovernanceTimelock"
Policy   == "EscrowCreationPolicy"
Module   == "ResolutionModule"
Drm      == "DecentralizedResolutionModule"
Staking  == "ResolverStakingModule"
Pool     == "InsurancePoolVault"

-----------------------------------------------------------------------------
(* Conditions a script reads.                                              *)
Cond(kind, on, what, who) == [kind |-> kind, on |-> on, what |-> what, who |-> who]
ALWAYS            == Cond("always", "", "", "")
NEVER             == Cond("never", "", "", "")
Has(c, r, a)      == Cond("role", c, r, a)
Linked(c, l)      == Cond("link", c, l, "")
Given(name)       == Cond("given", name, "", "")
Missing(name)     == Cond("missing", name, "", "")
PayloadGiven      == Cond("payloadGiven", "", "", "")
Known(c)          == Cond("known", c, "", "")
FeeSet            == Cond("feeSet", "", "", "")
NothingSeen       == Cond("nothingSeen", "", "", "")
FeeSeen           == Cond("feeSeen", "", "", "")
ModuleInEffect    == Cond("moduleInEffect", "", "", "")
DepositsPaused    == Cond("depositsPaused", "", "", "")
FileExists        == Cond("file", "", "", "")
TargetsResolve    == Cond("targets", "", "", "")
CallsEncode       == Cond("encode", "", "", "")
HasProposalId     == Cond("id", "", "", "")
StateIs(n)        == Cond("state", n, "", "")
CallsSucceed      == Cond("calls", "", "", "")

(* Steps.  Check stops the script when "stop" holds and fails it when      *)
(* "need" does not; Note remembers a failed test for the end.              *)
Step(op, cond, need, on, what, who, by, catch) ==
  [op |-> op, cond |-> cond, need |-> need, on |-> on, what |-> what, who |-> who,
   by |-> by, catch |-> catch]
Check(stop, need)       == Step("check", stop, need, "", "", "", "", 0)
Require(need)           == Check(NEVER, need)
StopIf(stop)            == Check(stop, ALWAYS)
Stop                    == Check(ALWAYS, ALWAYS)
Impossible              == Check(NEVER, NEVER)
SkipIf(cond, n)         == Step("skip", cond, NEVER, "", n, "", "", 0)
SkipUnless(cond, n)     == Step("skip", NEVER, cond, "", n, "", "", 0)
Note(cond)              == Step("note", cond, ALWAYS, "", "", "", "", 1)
DeployModule(by)        == Step("deploy", ALWAYS, ALWAYS, Module, "", "", by, 0)
Get                     == Step("get", ALWAYS, ALWAYS, Module, "", "", "", 0)
Read(slot)              == Step("read", ALWAYS, ALWAYS, slot, "", "", "", 0)
Grant(c, r, a, by)      == Step("grant", ALWAYS, ALWAYS, c, r, a, by, 0)
Link(c, l, role, by)    == Step("link", ALWAYS, ALWAYS, c, l, role, by, 0)
Queue(slot, by)         == Step("queue", ALWAYS, ALWAYS, slot, "", "", by, 0)
Activate(slot, by)      == Step("activate", ALWAYS, ALWAYS, slot, "", "", by, 0)
Set(slot, by)           == Step("set", ALWAYS, ALWAYS, slot, "", "", by, 0)
Pause(by)               == Step("pause", ALWAYS, ALWAYS, Policy, "", "", by, 0)
Write                   == Step("write", ALWAYS, ALWAYS, "", "", "", "", 0)
Load                    == Step("load", FileExists, ALWAYS, "", "", "", "", 0)
Propose                 == Step("propose", ALWAYS, ALWAYS, "", "", "", "deployer", 0)
Save                    == Step("save", ALWAYS, ALWAYS, "", "", "", "", 0)
Caught(step, n)         == [step EXCEPT !.catch = n]
Unless(cond, step)      == <<SkipIf(cond, 1), step>>

-----------------------------------------------------------------------------
(* The escrow fee: set at once by a key that manages the vault, announced  *)
(* otherwise, and activated after the delay.                               *)
TargetFee == 100
SetEscrowFee ==
  <<StopIf(FeeSet), SkipUnless(Has(Vault, MANAGER, "deployer"), 2),
    Set("escrowFee", "deployer"), Stop,
    Require(Has(SlowLane, TIMELOCK, "deployer")), Require(Has(Vault, MANAGER, SlowLane)),
    Queue("escrowFee", "deployer")>>

ActivateEscrowFee ==
  <<Require(Has(Vault, MANAGER, SlowLane)), Require(Has(SlowLane, TIMELOCK, "deployer")),
    Read("escrowFee"), Check(NothingSeen, FeeSeen), Activate("escrowFee", "deployer")>>

(* The resolution module: a new one is deployed, put under the timelock    *)
(* and announced, or set at once by a key that takes the role it lacks.    *)
PutUnderTimelock(by) ==
  <<Grant(Module, TIMELOCK, SlowLane, by), Grant(Module, TIMELOCK, "TimelockController", by)>>
DeployModuleAndQueueFirst ==                                                   \* mutant
  <<Require(Given("INITIAL_RESOLVER")), DeployModule("deployer"),
    Queue("resolutionModule", "deployer")>> \o PutUnderTimelock("deployer")
DeployModuleAndQueue ==
  <<Require(Given("INITIAL_RESOLVER")), DeployModule("deployer")>>
  \o PutUnderTimelock("deployer") \o <<Queue("resolutionModule", "deployer")>>

(* The announced module is printed, never compared with anything.          *)
ActivateResolutionModule == <<Read("resolutionModule"), Activate("resolutionModule", "deployer")>>

DeployModuleAndSetImmediate ==
  <<Require(Given("INITIAL_RESOLVER")), DeployModule("deployer")>>
  \o PutUnderTimelock("deployer")
  \o <<SkipIf(Has(Vault, MANAGER, "deployer"), 2), Require(Has(Vault, ADMIN, "deployer")),
       Grant(Vault, MANAGER, "deployer", "deployer"), Set("resolutionModule", "deployer")>>

GrantEoaAndSwap ==
  <<Require(Given("INITIAL_RESOLVER")), DeployModule("deployer")>>
  \o PutUnderTimelock("deployer")
  \o Unless(Has(Vault, MANAGER, "eoa"), Grant(Vault, MANAGER, "eoa", "deployer"))
  \o <<Set("resolutionModule", "eoa")>>

(* The decentralised module with the contracts it needs.  What            *)
(* hardhat-deploy knows is reused; what is deployed here is not saved, so  *)
(* a second run deploys everything again.                                  *)
DeployOrGet ==
  <<Require(Known("SewToken")), SkipUnless(Known(Drm), 2), Get, SkipIf(ALWAYS, 2),
    Require(Given("STABLE_TOKEN_ADDRESS")), DeployModule("deployer")>>
WireCapital ==
  Unless(Has(Staking, TIMELOCK, "deployer"), Grant(Staking, TIMELOCK, "deployer", "deployer"))
  \o Unless(Linked(Staking, "slashingModule"), Link(Staking, "slashingModule", TIMELOCK, "deployer"))
  \o Unless(Has(Staking, TIMELOCK, "TimelockController"),
            Grant(Staking, TIMELOCK, "TimelockController", "deployer"))
  \o Unless(Linked(Pool, "slashingModule"), Link(Pool, "slashingModule", ADMIN, "deployer"))
  \o Unless(Has(Pool, TIMELOCK, "TimelockController"),
            Grant(Pool, TIMELOCK, "TimelockController", "deployer"))
GovernDrm ==
  Unless(Linked(Module, "adminFacet"), Link(Module, "adminFacet", ADMIN, "deployer"))
  \o Unless(Has(Module, TIMELOCK, "TimelockController"),
            Grant(Module, TIMELOCK, "TimelockController", "deployer"))
  \o <<SkipUnless(Known(SlowLane), 2)>>
  \o Unless(Has(Module, TIMELOCK, SlowLane), Grant(Module, TIMELOCK, SlowLane, "deployer"))
  \o Unless(Has(Module, TIMELOCK, "deployer"), Grant(Module, TIMELOCK, "deployer", "deployer"))
WireDrm ==
  Unless(Linked(Module, "bondTokenRegistry"), Link(Module, "bondTokenRegistry", TIMELOCK, "deployer"))
  \o Unless(Linked(Module, "incentiveModule"), Link(Module, "incentiveModule", TIMELOCK, "deployer"))
  \o Unless(Linked(Module, Vault), Link(Module, Vault, TIMELOCK, "deployer"))
SetDrm ==
  <<StopIf(ModuleInEffect), SkipIf(Has(Vault, MANAGER, "deployer"), 2),
    Require(Has(Vault, ADMIN, "deployer")), Grant(Vault, MANAGER, "deployer", "deployer"),
    Set("resolutionModule", "deployer")>>
DeployDrmAndSetImmediate == DeployOrGet \o WireCapital \o GovernDrm \o WireDrm \o SetDrm

-----------------------------------------------------------------------------
(* Repairs and guardian operations.  The creation policy has no            *)
(* ROLE_ESCROW_CONTRACT to read, so the two registration scripts end there.*)
FixEscrowRegistration   == <<Require(Given("REGISTRY_FILE")), Impossible>>
CheckEscrowRegistration == <<Require(Given("REGISTRY_FILE")), Impossible>>

GrantGuardianOn(c) ==
  <<Caught(SkipIf(Has(c, GUARDIAN, "guardian"), 1), 2),
    Caught(Grant(c, GUARDIAN, "guardian", "deployer"), 1)>>
GrantGuardianRole ==
  <<Require(Given("REGISTRY_FILE"))>> \o GrantGuardianOn(Vault) \o GrantGuardianOn(Policy)

(* Only the timelock itself may change its delay.                          *)
UpdateTimelockDelay == <<Require(Given("REGISTRY_FILE")), Caught(Impossible, 1)>>

GuardianStatus == <<Require(Given("REGISTRY_FILE"))>>
TestGuardianAllLenient ==                                                      \* mutant
  <<Require(Given("REGISTRY_FILE")), Note(Has(Policy, GUARDIAN, "guardian"))>>
TestGuardianAll ==
  <<Require(Given("REGISTRY_FILE")), Note(Has(Policy, GUARDIAN, "guardian")),
    Note(Has(Vault, GUARDIAN, "guardian"))>>
TestGuardianPause ==
  <<StopIf(Missing("GUARDIAN_PRIVATE_KEY")), Require(Given("REGISTRY_FILE")),
    StopIf(DepositsPaused), Caught(Pause("guardian"), 1)>>

(* The emergency actions.  pause() is called without the reason the vault  *)
(* asks for, which its own version refuses in any case; the other          *)
(* functions do not exist.                                                 *)
EmergencyPause ==
  <<Require(Known(Vault)), Require(Has(Vault, GUARDIAN, "guardian")), Impossible>>
EmergencyDisableAave ==
  <<Require(Known("AaveYieldModule")), Require(Has("AaveYieldModule", GUARDIAN, "guardian")),
    Impossible>>
EmergencyLowerTokenCap  == <<Require(Known("AaveYieldModule")), Impossible>>
EmergencyLowerGlobalCap == <<Require(Known("AaveYieldModule")), Impossible>>

-----------------------------------------------------------------------------
(* Proposals.  A payload names the contracts it requires, the contract and *)
(* function it calls, and what its environment must give.  The last two    *)
(* are payloads of the operators' own; 0001 to 0005 name functions the     *)
(* contracts do not have, or pause without its argument.                   *)
Payload(required, target, function, given) ==
  [required |-> required, target |-> target, function |-> function, given |-> given]
SetTokenCap          == Payload({"AaveYieldModule"}, "AaveYieldModule", "setTokenCap", {})
QueueFeeAddress      == Payload({"EscrowableERC20", Vault}, "EscrowableERC20",
                                "queueEscrowFeeAddress", {})
ActivateFeeAddress   == Payload({"EscrowableERC20", Vault}, "EscrowableERC20",
                                "activateEscrowFeeAddress", {})
EmergencyPausePayload == Payload({"EscrowableERC20", Vault}, "EscrowableERC20", "pause", {})
QueueResolutionModule == Payload({"EscrowableERC20", Vault}, "EscrowableERC20",
                                 "proposeResolutionModule", {"NEW_RESOLUTION_MODULE"})
QueueFee             == Payload({}, SlowLane, "queueEscrowFee", {})
ActivateFee          == Payload({}, SlowLane, "activateEscrowFee", {})

PayloadOf(p) ==
  CASE p = "0001_set_token_cap"          -> SetTokenCap
    [] p = "0002_queue_fee_address"      -> QueueFeeAddress
    [] p = "0003_activate_fee_address"   -> ActivateFeeAddress
    [] p = "0004_emergency_pause"        -> EmergencyPausePayload
    [] p = "0005_queue_resolution_module" -> QueueResolutionModule
    [] p = "queue_fee"                   -> QueueFee
    [] p = "activate_fee"                -> ActivateFee
Interface == {<<SlowLane, "queueEscrowFee">>, <<SlowLane, "activateEscrowFee">>}
Encodes(p) == <<PayloadOf(p).target, PayloadOf(p).function>> \in Interface

BuildProposal == <<Require(PayloadGiven), Write>>
(* The artifact is read, and the addresses it has to find again are looked *)
(* up; a name written in capitals while offline is never found.            *)
ReadArtifact  == <<Load, Require(TargetsResolve)>>
StagePropose  == ReadArtifact \o <<Require(CallsEncode), Propose, Save>>
(* The governor's state comes back as a bigint and is compared with !==    *)
(* with the number 4 (Succeeded) or 5 (Queued): the scripts go no further. *)
StageQueue    == ReadArtifact \o <<Require(HasProposalId), Require(StateIs(4))>>
StageExecute  == ReadArtifact \o <<Require(HasProposalId), Require(StateIs(5))>>
StageAll      == StagePropose \o <<Require(HasProposalId), Require(StateIs(4))>>
CheckProposal == <<Load, Note(HasProposalId), Note(StateIs(7)), Note(TargetsResolve)>>
SimulateProposal == ReadArtifact \o <<Require(Given("EXECUTOR")), Note(CallsSucceed)>>

-----------------------------------------------------------------------------
SettingScripts  == {"set-escrow-fee-100", "activate-escrow-fee", "deploy-module-and-queue",
                    "activate-resolution-module", "deploy-module-and-set-immediate",
                    "grant-eoa-and-swap", "deploy-drm-and-set-immediate"}
GuardianScripts == {"fix-escrow-registration", "check-escrow-registration", "grant-guardian-role",
                    "update-timelock-delay", "guardian-status", "test-guardian-all",
                    "test-guardian-pause", "emergency pause", "emergency disable-aave",
                    "emergency lower-cap", "emergency lower-global-cap"}
ProposalScripts == {"build-proposal", "stage propose", "stage queue", "stage execute",
                    "stage all", "check", "simulate"}
AllScripts == SettingScripts \cup GuardianScripts \cup ProposalScripts

Body(s) ==
  CASE s = "set-escrow-fee-100"              -> SetEscrowFee
    [] s = "activate-escrow-fee"             -> ActivateEscrowFee
    [] s = "deploy-module-and-queue"         -> DeployModuleAndQueue
    [] s = "activate-resolution-module"      -> ActivateResolutionModule
    [] s = "deploy-module-and-set-immediate" -> DeployModuleAndSetImmediate
    [] s = "grant-eoa-and-swap"              -> GrantEoaAndSwap
    [] s = "deploy-drm-and-set-immediate"    -> DeployDrmAndSetImmediate
    [] s = "fix-escrow-registration"         -> FixEscrowRegistration
    [] s = "check-escrow-registration"       -> CheckEscrowRegistration
    [] s = "grant-guardian-role"             -> GrantGuardianRole
    [] s = "update-timelock-delay"           -> UpdateTimelockDelay
    [] s = "guardian-status"                 -> GuardianStatus
    [] s = "test-guardian-all"               -> TestGuardianAll
    [] s = "test-guardian-pause"             -> TestGuardianPause
    [] s = "emergency pause"                 -> EmergencyPause
    [] s = "emergency disable-aave"          -> EmergencyDisableAave
    [] s = "emergency lower-cap"             -> EmergencyLowerTokenCap
    [] s = "emergency lower-global-cap"      -> EmergencyLowerGlobalCap
    [] s = "build-proposal"                  -> BuildProposal
    [] s = "stage propose"                   -> StagePropose
    [] s = "stage queue"                     -> StageQueue
    [] s = "stage execute"                   -> StageExecute
    [] s = "stage all"                       -> StageAll
    [] s = "check"                           -> CheckProposal
    [] s = "simulate"                        -> SimulateProposal

(* main().catch(console.error): an error is printed and the exit code is 0.*)
ExitsZero == {"fix-escrow-registration", "check-escrow-registration", "update-timelock-delay",
              "guardian-status"}
=============================================================================
