------------------------- MODULE DeploymentProperties -------------------------
(***************************************************************************)
(* What a deployment must come to, whatever runs it took, and the checks   *)
(* the repository's scripts make of it.                                    *)
(***************************************************************************)
EXTENDS Deployment

Contracts == AdminAndTimelock \cup AdminOnly \cup TimelockOwned \cup
  {"TimelockController", "EmergencyRecoveryProposal", "L2AddressRegistry", "GuardianSafe",
   "SewToken", "GovGovernor", "DefaultReleaseStrategy", "DefaultCancellationStrategy", "CREATE2EscrowFactory",
   "MultiL2ViewAggregator", "DRMAdminFacet", "PaymentCalculationLibrary", "GuardianOps",
   "EscrowVaultAccountingLibrary"}
RoleNames == {ADMIN, TIMELOCK, GUARDIAN, "PROPOSER_ROLE", "CANCELLER_ROLE", "ROLE_ADMIN_CONTRACT",
              "ROLE_ESCROW_CONTRACT", "ROLE_SLASHING_MODULE", "AUTHORIZED_CALLER", "governor"}
Accounts  == Contracts \cup {"deployer", "guardian"}

(* The variables keep their types: what exists and what is recorded are    *)
(* contracts, roles are held on contracts by accounts, and the run is at a *)
(* script of deploy/.                                                      *)
TypeOK ==
  /\ deployed \subseteq Contracts
  /\ roles \subseteq Contracts \X RoleNames \X Accounts
  /\ \A w \in wired : w[1] \in Contracts
  /\ \A p \in pending : p[1] \in deployed /\ p[4] \in BOOLEAN
  /\ recs \subseteq Contracts
  /\ torn \in BOOLEAN
  /\ session.todo \in Seq(Scripts)
  /\ session.fresh \in BOOLEAN /\ session.saving \in BOOLEAN /\ session.caught \in BOOLEAN
  /\ done \subseteq Handovers
  /\ faults \in 0..MaxFaults

-----------------------------------------------------------------------------
(* The timelock is never left without a master: from its creation on, the  *)
(* deployer can still administer it or the governor can propose to it and  *)
(* cancel, wherever a run of deploy/30, 40 and 50 was cut off.             *)
TimelockGoverned ==
  "TimelockController" \in deployed =>
    \/ Holds("TimelockController", ADMIN, "deployer")
    \/ /\ Holds("TimelockController", "PROPOSER_ROLE", "GovGovernor")
       /\ Holds("TimelockController", "CANCELLER_ROLE", "GovGovernor")

(* Without interruptions the registry file names every contract that was   *)
(* deployed by a script that records its contracts, but for the one being  *)
(* written (registerDeployment after every deploy).                        *)
Unrecorded == {"GuardianSafe", "EscrowVaultAccountingLibrary", "ModuleSnapshotRegistryProfileB",
               "CREATE2EscrowFactory", "MultiL2ViewAggregator"}
RegistryComplete ==
  faults = 0 => \A c \in deployed \ Unrecorded :
                  \/ c \in recs /\ (torn => session.saving)
                  \/ \E now \in Current : now.op = "create" /\ now.on = c

(* No authority that cannot be taken back: while no error was swallowed,   *)
(* the deployer holds ROLE_TIMELOCK on a contract only where it holds the  *)
(* administration needed to revoke it (deploy/95 revokes ROLE_TIMELOCK     *)
(* first).                                                                 *)
KeyRevocable ==
  faults = 0 => \A c \in deployed : Holds(c, TIMELOCK, "deployer") => Holds(c, ADMIN, "deployer")

(* The wiring that phase0-base-sepolia-health checks, of the kind the      *)
(* scripts of deploy/ set up.                                              *)
HealthyWiring ==
  /\ {"SewToken", "TimelockController", "GovGovernor", "GuardianSafe", "EscrowCreationPolicy",
      "BondCollector", "ModuleSnapshotRegistry", "EscrowGovernanceTimelock",
      "EscrowVault"} \subseteq deployed
  /\ Linked("EscrowVault", "creationPolicy", "EscrowCreationPolicy")
  /\ Linked("EscrowVault", "bondCollector", "BondCollector")
  /\ Linked("BondCollector", "escrow", "EscrowVault")
  /\ Holds("TimelockController", "PROPOSER_ROLE", "GovGovernor")
  /\ Holds("TimelockController", "CANCELLER_ROLE", "GovGovernor")

(* Finalising is safe against forgetting: once deploy/95 has stripped the  *)
(* deployer, everything that needed the deployer's roles has been wired,   *)
(* whatever interruptions and swallowed errors preceded it.                *)
FinalizedComplete ==
  "95" \in done =>
    /\ HealthyWiring
    /\ Linked("AaveYieldModule", "recoveryOperator", "GuardianOps")
    /\ Linked("ResolverStakingModule", "slashingModule", "ResolverSlashingModule")
    /\ Holds("InsurancePoolVault", "ROLE_SLASHING_MODULE", "ResolverSlashingModule")
    /\ Linked(DRM, "adminFacet", "DRMAdminFacet")
    /\ Linked(DRM, "bondTokenRegistry", "BondTokenRegistry")
    /\ Linked(DRM, "incentiveModule", "ResolverIncentiveModule")
    /\ Linked(DRM, "escrow", "EscrowVault")

(* What no dependency of deploy/95 asks for and finalising rests on: a run  *)
(* that reaches deploy/95 has been through the Safe and the timelock's     *)
(* wiring before it, and through deploy/70 before deploy/86, which tells   *)
(* the resolution module of the vault only when it finds one.              *)
WholeHandovers ==
  \A r \in Runs :
    LET o == Order[r.tags]
        Earlier(s, k) == \E j \in 1..k - 1 : o[j] = s
    IN \A k \in DOMAIN o : o[k] = "95" =>
         /\ Earlier("10", k) /\ Earlier("50", k)
         /\ \A j \in 1..k - 1 : o[j] = "86" => Earlier("70", j)

(* What check-deploy-key-permissions reports of the deployment key: the    *)
(* roles it has, and those it could grant itself, on the escrow, its admin *)
(* contract and the module registry.                                       *)
KeyPermissions ==
  {p \in {"EscrowVault", "EscrowGovernanceTimelock", "ModuleSnapshotRegistry"}
          \X {ADMIN, TIMELOCK, "ROLE_ADMIN_CONTRACT"} :
     Holds(p[1], p[2], "deployer") \/ Holds(p[1], ADMIN, "deployer")}
(* A run that reaches the end of deploy/95 without an error caught there   *)
(* leaves the key nothing on the contracts that then exist.                *)
KeyRetired ==
  [][/\ "95" \in done'
     /\ ~Idle /\ Script = "95" /\ session'.todo # session.todo
     /\ ~session.caught /\ faults' = faults
     => KeyPermissions' = {}]_vars

(* A deploy/60 that comes to the end of its last block without an error     *)
(* caught in it has finished every handover: the timelock administers each *)
(* contract of the list that exists and that the deployer administers,     *)
(* although earlier runs were cut off between two grants on it, swallowed  *)
(* an error, or a probe for a role failed in this one.                     *)
HandoverWhole ==
  [][/\ Running /\ Script = "60"
     /\ session.at[1] = Len(Program) /\ session'.todo # session.todo
     /\ ~session.caught /\ faults' = faults
     => \A i \in DOMAIN GovernedBy60 :
          LET c == GovernedBy60[i]
          IN c \in deployed /\ Holds(c, ADMIN, "deployer") =>
               Holds(c, ADMIN, "TimelockController")']_vars

(* deploy/95 says that after it governance rests solely with the timelock: *)
(* every contract it strips is then administered by the timelock.          *)
GovernanceRests ==
  "95" \in done =>
    \A i \in DOMAIN StrippedBy95 :
      LET c == StrippedBy95[i]
      IN BirthRoles(c) # {} /\ c \in deployed => Holds(c, ADMIN, "TimelockController")

-----------------------------------------------------------------------------
(* An operator who keeps running the governance scripts on a test network  *)
(* gets through deploy/95, whatever was interrupted before, unless the     *)
(* interruption fell inside deploy/95 after a contract that deploy/85 must *)
(* still administer had been stripped.                                     *)
HalfStripped == /\ "ResolverStakingModule" \in deployed
                /\ ~Holds("ResolverStakingModule", ADMIN, "deployer")
Finalizes == <>(NetworkType[network] # "testnet" \/ "95" \in done \/ HalfStripped)

LiveSpec == /\ Spec
            /\ WF_vars(ScriptStep)
            /\ \A r \in Runs : r.tags = {"governance"} => SF_vars(StartRun(r))
=============================================================================
