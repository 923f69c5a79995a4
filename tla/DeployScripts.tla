---------------------------- MODULE DeployScripts ----------------------------
(***************************************************************************)
(* The deployment scripts of deploy/*.ts as data: what each script checks, *)
(* creates, records, grants and wires, in which order, and which of its    *)
(* failures it catches.  Deployment.tla runs them.                         *)
(*                                                                         *)
(* A body is a sequence of blocks and a block a sequence of steps.  Each   *)
(* step is one call the script awaits, so that a run may be interrupted    *)
(* between any two of them.  A block says what happens to a failing call:  *)
(*   "must"   nothing catches it: the run of hardhat-deploy stops;         *)
(*   "try"    any error is caught and the script goes on after the block;  *)
(*   "inner"  a try nested in the block before it, reached only if that    *)
(*            block succeeded;                                             *)
(*   "auth"   only AccessControlUnauthorizedAccount is caught, every other *)
(*            error is thrown again.                                       *)
(* A definition marked "mutant" is the one below it with one mistake of    *)
(* the kind a change to the scripts could make; nothing uses it.           *)
(* Left out: console output, explorer links, transaction fee overrides,    *)
(* the token mints of deploy/20 and the read-backs that only print.        *)
(***************************************************************************)
EXTENDS Naturals, Sequences

ADMIN    == "DEFAULT_ADMIN_ROLE"
TIMELOCK == "ROLE_TIMELOCK"
GUARDIAN == "ROLE_GUARDIAN"

(* The configuration of one run, read from the environment (e):            *)
(*   net        the hardhat network; rpc what its endpoint answers: the    *)
(*              expected chain id ("ok"), another one, or nothing,         *)
(*   confirm, key  DEPLOY_CONFIRM=YES; a deployment key for the network,   *)
(*   owners, threshold  the Safe's valid, non-zero owners; SAFE_THRESHOLD, *)
(*   guardian, fee  GUARDIAN_MULTISIG and FEE_RECIPIENT, an AddressKind,   *)
(*   numbers    whether the other settings are whole numbers and addresses *)
(*              ("malformed" if not) and within their limits ("inRange"),  *)
(*   erc20, create2, stable  DEPLOY_ESCROWABLE_ERC20,                      *)
(*              DEPLOY_CREATE2_FACTORY, STABLE_TOKEN_ADDRESS,              *)
(*   profile    DEPLOY_PROFILE, reuse PROFILE_B_REUSE_VAULT.               *)
Networks == {"hardhat", "anvil", "baseSepolia", "base", "ethereum"}
(* anvil has no entry of its own and is found by hardhat's chain id.       *)
NetworkType == [n \in Networks |-> IF n \in {"hardhat", "anvil"} THEN "local"
                                   ELSE IF n = "baseSepolia" THEN "testnet" ELSE "mainnet"]
IsLocal(e) == NetworkType[e.net] = "local"
ValidateNetwork(e) == /\ e.rpc = "ok"
                      /\ NetworkType[e.net] = "mainnet" => e.confirm
ValidateNetworkForDeployment(e) == /\ ValidateNetwork(e)
                                   /\ e.net # "hardhat" => e.key

AddressKinds == {"unset", "zero", "malformed", "address"}
ValidateAddress(a) == a = "address"
FeeRecipient(e) == IF e.fee = "unset" THEN e.guardian ELSE e.fee
GetGovConfigSucceeds(e) ==
  /\ e.numbers # "malformed"
  /\ ~IsLocal(e) => /\ e.owners >= e.threshold
                    /\ e.owners > 0
                    /\ e.guardian \notin {"unset", "zero"}
                    /\ FeeRecipient(e) \notin {"unset", "zero"}
ValidateGovConfig(e) ==
  /\ e.numbers = "inRange"
  /\ IF e.owners = 0 THEN IsLocal(e) ELSE e.threshold \in 1..e.owners
  /\ \A a \in {e.guardian, FeeRecipient(e)} : a = "unset" \/ ValidateAddress(a)

StableToken(e) == e.net \in {"base", "baseSepolia"} \/ e.stable
AavePoolKnown(e) == e.net # "base"
PassesCheck(k, e) ==
  CASE k = "network"  -> ValidateNetworkForDeployment(e)
    [] k = "config"   -> GetGovConfigSucceeds(e)
    [] k = "valid"    -> ValidateGovConfig(e)
    [] k = "stable"   -> StableToken(e)
    [] k = "aavePool" -> AavePoolKnown(e)
    [] k = "profile"  -> e.profile = "sew-dr-v2-bondledger"

-----------------------------------------------------------------------------
(* Steps: the operation, the contract or check it is on, the role, link or *)
(* slot, the account or value, and the role the caller needs.              *)
Step(op, on, what, who, by) == [op |-> op, on |-> on, what |-> what, who |-> who, by |-> by]

Require(checks, names) == Step("require", names, checks, "", "")
Create(c)              == Step("create", c, "", "", "")
CreateAndRecord(c)     == Step("create", c, "recorded", "", "")
CreateAndVerify(c)     == Step("create", c, "verified", "", "")
QuitUnless(c, r)       == Step("quit", c, r, "deployer", "")
Grant(c, r, a)         == Step("grant", c, r, a, ADMIN)
GrantIfAdmin(c, r, a)  == Step("grantIfAdmin", c, r, a, ADMIN)
GrantIfKnown(c, r, a)  == Step("grantIfKnown", c, r, a, ADMIN)
ViaTimelock(c, r, a)   == Step("viaTimelock", c, r, a, "PROPOSER_ROLE")
Revoke(c, r, a)        == Step("revoke", c, r, a, ADMIN)
Link(c, l, v, r)       == Step("link", c, l, v, r)
Assert(c, l, v)        == Step("assert", c, l, v, "")
Queue(c, slot, v)      == Step("queue", c, slot, v, TIMELOCK)
QueueNew(c, slot, v)   == Step("queueNew", c, slot, v, TIMELOCK)
Activate(c, slot, v)   == Step("activate", c, slot, v, TIMELOCK)
ActivateIfDue(c, slot, v) == Step("activateIfDue", c, slot, v, TIMELOCK)

Must(steps)  == [kind |-> "must", steps |-> steps]
Try(steps)   == [kind |-> "try", steps |-> steps]
Inner(steps) == [kind |-> "inner", steps |-> steps]
Auth(steps)  == [kind |-> "auth", steps |-> steps]
When(cond, blocks) == IF cond THEN blocks ELSE <<>>
(* A loop over names passes over those hardhat-deploy has no record of.    *)
IfDeployed(c, d, block) == IF c \in d THEN block ELSE Must(<<Require({}, {})>>)
GuardianAccount(e, d) == IF e.guardian # "unset" THEN "guardian"
                         ELSE IF "GuardianSafe" \in d THEN "GuardianSafe" ELSE "TimelockController"

-----------------------------------------------------------------------------
(* The governance stack: Safe, token, timelock, governor and their wiring. *)
Safe(e, d) ==
  <<Must(<<Require({"config", "valid"}, {}), Create("GuardianSafe")>>)>>

GovToken(e, d) ==
  <<Must(<<Require({"network", "config", "valid"}, {}), CreateAndRecord("SewToken")>>)>>

(* A minimum delay that cannot be read back three times ends the script    *)
(* before the record is written.                                           *)
Timelock(e, d) ==
  <<Must(<<Require({"config", "valid"}, {}), CreateAndVerify("TimelockController")>>)>>

Governor(e, d) ==
  <<Must(<<Require({"config", "valid"}, {"SewToken", "TimelockController"}),
         CreateAndRecord("GovGovernor")>>)>>

TimelockWiringRevokingFirst(e, d) ==                                           \* mutant
  <<Must(<<Require({}, {"TimelockController", "GovGovernor"}),
           Revoke("TimelockController", ADMIN, "deployer"),
           GrantIfAdmin("TimelockController", "PROPOSER_ROLE", "GovGovernor"),
           GrantIfAdmin("TimelockController", "CANCELLER_ROLE", "GovGovernor")>>)>>
TimelockWiring(e, d) ==
  <<Must(<<Require({}, {"TimelockController", "GovGovernor"}),
           Grant("TimelockController", "PROPOSER_ROLE", "GovGovernor"),
           Grant("TimelockController", "CANCELLER_ROLE", "GovGovernor"),
           Grant("TimelockController", ADMIN, "TimelockController"),
           Revoke("TimelockController", ADMIN, "deployer")>>)>>

GovernedBy60 == <<"EscrowableERC20", "EscrowVault", "EscrowGovernanceTimelock", "AaveYieldModule",
                  "DefaultResolutionModule", "EscrowCreationPolicy", "BondCollector",
                  "ModuleSnapshotRegistry">>
KnowsGuardian == {"EscrowableERC20", "EscrowVault", "AaveYieldModule", "EscrowCreationPolicy"}
GovernContractIfKnown(c, e, d) ==                                              \* mutant
  Try(<<GrantIfKnown(c, TIMELOCK, "TimelockController"),
        GrantIfKnown(c, ADMIN, "TimelockController")>>)
GovernContractStripping(c, e, d) ==                                            \* mutant
  Try(<<GrantIfKnown(c, TIMELOCK, "TimelockController"), Grant(c, ADMIN, "TimelockController"),
        Revoke(c, TIMELOCK, "deployer")>>)
GovernContract(c, e, d) ==
  Try(<<GrantIfKnown(c, TIMELOCK, "TimelockController")>>
      \o When(c \in KnowsGuardian, <<GrantIfKnown(c, GUARDIAN, GuardianAccount(e, d))>>)
      \o <<Grant(c, ADMIN, "TimelockController")>>)
ProtocolGovernance(e, d) ==
  <<Must(<<Require({"config"}, {"TimelockController"})>>)>>
  \o [i \in DOMAIN GovernedBy60 |->
        IfDeployed(GovernedBy60[i], d, GovernContract(GovernedBy60[i], e, d))]

-----------------------------------------------------------------------------
(* The core: registry, creation policy, bond collector, escrow.            *)
ModuleManagement(e, d) ==
  <<Must(<<Require({"network"}, {}), CreateAndRecord("ModuleSnapshotRegistry")>>)>>

YieldDisputeOps(e, d) ==
  <<Must(<<Require({"network"}, {}), CreateAndRecord("EscrowCreationPolicy"),
         CreateAndRecord("BondCollector")>>)>>
  \o When("TimelockController" \in d,
          <<Try(<<GrantIfAdmin("EscrowCreationPolicy", ADMIN, "TimelockController")>>),
            Try(<<GrantIfAdmin("BondCollector", ADMIN, "TimelockController")>>)>>)

EscrowAdmin(e, d) == <<Must(<<CreateAndRecord("EscrowGovernanceTimelock")>>)>>

DeployVault ==
  <<Must(<<Require({"network", "config"}, {"EscrowCreationPolicy", "BondCollector",
                                           "ModuleSnapshotRegistry", "EscrowGovernanceTimelock"}),
         CreateAndRecord("EscrowVault")>>)>>
ConnectVault ==
  <<Auth(<<Link("BondCollector", "escrow", "EscrowVault", TIMELOCK)>>),
    Try(<<Grant("EscrowVault", "ROLE_ADMIN_CONTRACT", "EscrowGovernanceTimelock")>>),
    Auth(<<Link("EscrowVault", "creationPolicy", "EscrowCreationPolicy", TIMELOCK),
           Link("EscrowVault", "bondCollector", "BondCollector", TIMELOCK)>>)>>
(* The setters of the token escrow are behind a role the deployer never    *)
(* has on it, so they are never called.                                    *)
DeployTokenEscrow ==
  <<Must(<<CreateAndRecord("EscrowableERC20")>>),
    Auth(<<Link("BondCollector", "escrow", "EscrowableERC20", TIMELOCK)>>)>>
CoreEscrow(e, d) == DeployVault \o ConnectVault \o When(e.erc20, DeployTokenEscrow)

-----------------------------------------------------------------------------
(* Modules that reach the escrow through the slow lane of the registry.    *)
ReleaseStrategy(e, d) ==
  <<Must(<<Require({"network"}, {}), CreateAndRecord("DefaultReleaseStrategy"),
         Require({}, {"EscrowVault", "ModuleSnapshotRegistry"}),
              QuitUnless("ModuleSnapshotRegistry", TIMELOCK),
              QueueNew("ModuleSnapshotRegistry", "RELEASE", "DefaultReleaseStrategy")>>
         \o When(e.net = "hardhat",
                 <<Activate("ModuleSnapshotRegistry", "RELEASE", "DefaultReleaseStrategy")>>))>>

CancellationStrategy(e, d) ==
  <<Must(<<Require({}, {"EscrowVault"}), CreateAndRecord("DefaultCancellationStrategy"),
         Require({}, {"ModuleSnapshotRegistry"})>>),
    Auth(<<Queue("ModuleSnapshotRegistry", "CANCELLATION", "DefaultCancellationStrategy")>>
         \o When(e.net = "hardhat",
                 <<Activate("ModuleSnapshotRegistry", "CANCELLATION",
                            "DefaultCancellationStrategy")>>))>>

AaveYieldUncaught(e, d) ==                                                     \* mutant
  <<Must(<<Require({"network", "aavePool"}, {}), CreateAndRecord("AaveYieldModule"),
           Require({}, {"EscrowVault", "ModuleSnapshotRegistry"}),
           Queue("ModuleSnapshotRegistry", "YIELD_GEN", "AaveYieldModule")>>)>>
ConnectYield ==
  <<Try(<<Require({}, {"EscrowVault"}),
          Queue("AaveYieldModule", "approve", "EscrowVault"),
          ActivateIfDue("AaveYieldModule", "approve", "EscrowVault")>>),
    Inner(<<Require({}, {"ModuleSnapshotRegistry"}),
            Queue("ModuleSnapshotRegistry", "YIELD_GEN", "AaveYieldModule")>>),
    Inner(<<Activate("ModuleSnapshotRegistry", "YIELD_GEN", "AaveYieldModule")>>),
    Try(<<Require({}, {"EscrowableERC20"}),
          Queue("AaveYieldModule", "approve", "EscrowableERC20"),
          ActivateIfDue("AaveYieldModule", "approve", "EscrowableERC20")>>)>>
AaveYield(e, d) ==
  <<Must(<<Require({"network", "aavePool"}, {}), CreateAndRecord("AaveYieldModule")>>)>>
  \o ConnectYield

(* Every name is registered, then the address of every deployed contract   *)
(* is published and made the active version.                               *)
PublishedNames == <<"EscrowVault", "EscrowableERC20", "EscrowGovernanceTimelock",
                    "EscrowCreationPolicy", "BondCollector", "ModuleSnapshotRegistry",
                    "AaveYieldModule", "DefaultResolutionModule", "DefaultReleaseStrategy",
                    "GovGovernor", "TimelockController", "SewToken">>
AddressRegistry(e, d) ==
  <<Must(<<Require({"network"}, {}), CreateAndRecord("L2AddressRegistry")>>)>>
  \o [i \in DOMAIN PublishedNames |->
        Try(<<Link("L2AddressRegistry", "name", PublishedNames[i], "governor")>>)]
  \o [i \in DOMAIN PublishedNames |->
        IfDeployed(PublishedNames[i], d,
                   Try(<<Link("L2AddressRegistry", "version", PublishedNames[i], "governor")>>))]

Create2Factory(e, d) ==
  When(e.create2, <<Must(<<Create("CREATE2EscrowFactory")>>
                         \o When("EscrowVault" \in d, <<Create("MultiL2ViewAggregator")>>))>>)

-----------------------------------------------------------------------------
(* Decentralised resolution: the capital modules, the module, profile B.   *)
DeployDr3 ==
  <<Must(<<Require({"network", "stable"}, {"TimelockController", "SewToken"}),
         CreateAndRecord("InsurancePoolVault"), CreateAndRecord("ResolverStakingModule"),
         CreateAndRecord("ResolverSlashingModule"), CreateAndRecord("BondTokenRegistry")>>)>>
DeployDr3Rest ==
  <<Must(<<CreateAndRecord("DRMAdminFacet"), CreateAndRecord("PaymentCalculationLibrary"),
         CreateAndRecord("ResolverIncentiveModule")>>)>>
WireDr3 ==
  <<Must(<<Grant("ResolverStakingModule", TIMELOCK, "deployer"),
           Link("ResolverStakingModule", "slashingModule", "ResolverSlashingModule", TIMELOCK),
           Grant("ResolverStakingModule", TIMELOCK, "TimelockController"),
           Grant("InsurancePoolVault", "ROLE_SLASHING_MODULE", "ResolverSlashingModule"),
           Grant("InsurancePoolVault", TIMELOCK, "TimelockController"),
           Grant("ResolverIncentiveModule", TIMELOCK, "TimelockController")>>)>>
Dr3Modules(e, d) == DeployDr3 \o DeployDr3Rest \o WireDr3

DRM == "DecentralizedResolutionModule"
DeployDrm ==
  <<Must(<<Require({"network"}, {"TimelockController", "BondTokenRegistry", "DRMAdminFacet",
                                 "ResolverIncentiveModule"}),
           CreateAndRecord(DRM)>>)>>
WireDrm(d) ==
  <<Must(<<Link(DRM, "adminFacet", "DRMAdminFacet", ADMIN),
           Grant(DRM, TIMELOCK, "TimelockController")>>
         \o When("EscrowGovernanceTimelock" \in d,
                 <<Grant(DRM, TIMELOCK, "EscrowGovernanceTimelock")>>)
         \o <<Grant(DRM, TIMELOCK, "deployer"),
              Link(DRM, "bondTokenRegistry", "BondTokenRegistry", TIMELOCK),
              Link(DRM, "incentiveModule", "ResolverIncentiveModule", TIMELOCK)>>
         \o When("EscrowVault" \in d, <<Link(DRM, "escrow", "EscrowVault", TIMELOCK)>>))>>
ResolutionModule(e, d) == DeployDrm \o WireDrm(d)

(* Profile B: a second module over a bond ledger, with the shared vault or *)
(* one of its own.  PROFILE_B_APPLY_GOVERNANCE keeps its default (true)    *)
(* and no vault address is given in the environment.                       *)
DRMB    == "DecentralizedResolutionModuleProfileB"
FacadeB == "ResolverIncentiveModuleV2BondLedger"
DeployProfileB ==
  <<Must(<<Require({"profile", "network"}, {"TimelockController", "PaymentCalculationLibrary",
                                            "DRMAdminFacet", "BondTokenRegistry"}),
         CreateAndRecord(DRMB), CreateAndRecord("BondLedger"), CreateAndRecord(FacadeB)>>)>>
VaultB(e, d) == IF e.reuse /\ "EscrowVault" \in d THEN "EscrowVault" ELSE "EscrowVaultProfileB"
DeployVaultB(e, d) ==
  When(VaultB(e, d) = "EscrowVaultProfileB",
       <<Must(When("ModuleSnapshotRegistry" \notin d,
                   <<Create("ModuleSnapshotRegistryProfileB")>>)
              \o <<Create("EscrowVaultAccountingLibrary"),
                   CreateAndRecord("EscrowVaultProfileB")>>)>>)
(* On a local network a deployer who still administers the timelock lets   *)
(* the ledger accept the facade through it; elsewhere that is left to      *)
(* governance.                                                             *)
WireProfileB(e, d) ==
  <<Must(<<Grant(DRMB, TIMELOCK, "TimelockController"),
           Link(DRMB, "adminFacet", "DRMAdminFacet", ADMIN),
           Grant(DRMB, TIMELOCK, "deployer")>>
         \o When(IsLocal(e),
                 <<GrantIfAdmin("TimelockController", "PROPOSER_ROLE", "deployer"),
                   ViaTimelock("BondLedger", "AUTHORIZED_CALLER", FacadeB)>>)
         \o <<Link(DRMB, "incentiveModule", FacadeB, TIMELOCK),
              Link(DRMB, "bondTokenRegistry", "BondTokenRegistry", TIMELOCK),
              Link(DRMB, "escrow", VaultB(e, d), TIMELOCK),
              Assert(DRMB, "incentiveModule", FacadeB)>>)>>
ProfileB(e, d) == DeployProfileB \o DeployVaultB(e, d) \o WireProfileB(e, d)

-----------------------------------------------------------------------------
(* Guardian operations and the end of the deployer's authority.            *)
GuardedVault(d) == IF "EscrowVault" \in d THEN "EscrowVault" ELSE "EscrowableERC20"
DeployGuardianOps(d) ==
  <<Must(<<Require({"network", "config"},
                   {GuardedVault(d), "TimelockController", "AaveYieldModule"}),
           CreateAndRecord("GuardianOps")>>),
    Auth(<<Link("AaveYieldModule", "recoveryOperator", "GuardianOps", TIMELOCK)>>)>>
EnableRecovery(e, d) ==
  <<Must(<<CreateAndRecord("EmergencyRecoveryProposal")>>),
    Auth(<<Link("EmergencyRecoveryProposal", "recoveryEnabled", "true", ADMIN)>>),
    Try(<<Grant(GuardedVault(d), GUARDIAN, GuardianAccount(e, d))>>),
    Try(<<Grant(GuardedVault(d), GUARDIAN, "EmergencyRecoveryProposal")>>)>>
GuardianOps(e, d) == DeployGuardianOps(d) \o EnableRecovery(e, d)

StrippedBy95 == GovernedBy60 \o
  <<"ResolverStakingModule", "ResolverSlashingModule", "InsurancePoolVault",
    "ResolverIncentiveModule", "DRMAdminFacet", "DecentralizedResolutionModule">>
StripRole(c, r, d) == IfDeployed(c, d, Try(<<Revoke(c, r, "deployer")>>))
FinalizeGovernanceAdminFirst(e, d) ==                                          \* mutant
  [i \in 1..2 * Len(StrippedBy95) |->
     StripRole(StrippedBy95[(i + 1) \div 2], IF i % 2 = 1 THEN ADMIN ELSE TIMELOCK, d)]
FinalizeGovernanceHalfway(e, d) ==                                             \* mutant
  [i \in DOMAIN StrippedBy95 |-> StripRole(StrippedBy95[i], TIMELOCK, d)]
FinalizeGovernance(e, d) ==
  [i \in 1..2 * Len(StrippedBy95) |->
     StripRole(StrippedBy95[(i + 1) \div 2], IF i % 2 = 1 THEN TIMELOCK ELSE ADMIN, d)]

-----------------------------------------------------------------------------
(* Files, tags and dependencies, as hardhat-deploy and the graph check     *)
(* read them.                                                              *)
Files == <<"05", "10", "14", "15", "16", "20", "30", "32", "40", "50", "60", "70",
           "75", "76", "80", "85", "86", "87", "90", "95">>
Scripts == {Files[i] : i \in DOMAIN Files}
Tags(s) ==
  CASE s = "05" -> {"create2"}
    [] s = "10" -> {"safe", "governance"}
    [] s = "14" -> {"core", "module-management"}
    [] s = "15" -> {"core", "creation-policy", "bond-collector"}
    [] s = "16" -> {"escrow-admin"}
    [] s = "20" -> {"token", "governance"}
    [] s = "30" -> {"timelock", "governance"}
    [] s = "32" -> {"release-strategy", "module"}
    [] s = "40" -> {"governor", "governance"}
    [] s = "50" -> {"timelock-wiring", "governance"}
    [] s = "60" -> {"governance", "ownership"}
    [] s = "70" -> {"core", "escrow"}
    [] s = "75" -> {"yield", "aave", "aave-yield-module"}
    [] s = "76" -> {"registry", "l2-address-registry", "multi-l2"}
    [] s = "80" -> {"module", "cancellation-strategy"}
    [] s = "85" -> {"dr3", "dr3-modules"}
    [] s = "86" -> {"dr3", "decentralized-resolution-module"}
    [] s = "87" -> {"profile-b", "sew-dr-v2-bondledger"}
    [] s = "90" -> {"aave", "yield", "guardian", "emergency"}
    [] s = "95" -> {"governance", "finalize", "ownership"}
Dependencies(s) ==
  CASE s = "05" -> <<"vault">>
    [] s \in {"32", "80"} -> <<"core", "escrow">>
    [] s = "40" -> <<"token", "timelock">>
    [] s = "50" -> <<"governor">>
    [] s = "60" -> <<"timelock", "governor", "safe", "escrow-admin">>
    [] s = "70" -> <<"creation-policy", "bond-collector", "module-management">>
    [] s = "85" -> <<"timelock", "token">>
    [] s = "86" -> <<"dr3-modules">>
    [] s = "87" -> <<"decentralized-resolution-module">>
    [] s = "90" -> <<"aave-yield-module", "escrow", "timelock">>
    [] s = "95" -> <<"aave-yield-module", "guardian", "escrow", "module-management",
                     "decentralized-resolution-module">>
    [] OTHER -> <<>>
Carrying(t) == {s \in Scripts : t \in Tags(s)}

(* The graph check of scripts/validate-deploy-graph.ts: no script depends  *)
(* on a tag it carries, and no cycle: repeatedly taking away the scripts   *)
(* that depend on none of the remaining ones leaves nothing.               *)
Elems(q) == {q[i] : i \in DOMAIN q}
Targets(s) == UNION {Carrying(t) : t \in Elems(Dependencies(s))} \ {s}
Settled[n \in 0..Len(Files)] ==
  IF n = 0 THEN {}
  ELSE LET before == Settled[n - 1] IN {s \in Scripts : Targets(s) \subseteq before}
ValidGraph == /\ \A s \in Scripts : Tags(s) \cap Elems(Dependencies(s)) = {}
              /\ Settled[Len(Files)] = Scripts

Body(s, e, d) ==
  CASE s = "05" -> Create2Factory(e, d)      [] s = "10" -> Safe(e, d)
    [] s = "14" -> ModuleManagement(e, d)    [] s = "15" -> YieldDisputeOps(e, d)
    [] s = "16" -> EscrowAdmin(e, d)         [] s = "20" -> GovToken(e, d)
    [] s = "30" -> Timelock(e, d)            [] s = "32" -> ReleaseStrategy(e, d)
    [] s = "40" -> Governor(e, d)            [] s = "50" -> TimelockWiring(e, d)
    [] s = "60" -> ProtocolGovernance(e, d)  [] s = "70" -> CoreEscrow(e, d)
    [] s = "75" -> AaveYield(e, d)           [] s = "76" -> AddressRegistry(e, d)
    [] s = "80" -> CancellationStrategy(e, d) [] s = "85" -> Dr3Modules(e, d)
    [] s = "86" -> ResolutionModule(e, d)    [] s = "87" -> ProfileB(e, d)
    [] s = "90" -> GuardianOps(e, d)         [] s = "95" -> FinalizeGovernance(e, d)
=============================================================================
