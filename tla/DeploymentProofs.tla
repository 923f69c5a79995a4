--------------------------- MODULE DeploymentProofs ---------------------------
(***************************************************************************)
(* Theorems about every deployment: for any choice of runs the operator    *)
(* may start, any number of interruptions and swallowed errors, and either *)
(* answer to whether the escrow's artifact links.                          *)
(*                                                                         *)
(* The argument has three layers.  First the scripts as data: every step   *)
(* of every script is legal for it, and creating a contract never changes  *)
(* what the script that creates it goes on to do, which is what lets a run *)
(* be read as a position in a fixed program.  Then the course of a run:    *)
(* each action leads to the next position, to the next script or to the    *)
(* end.  Then the chain: the few ways a step changes the roles, and the    *)
(* inductive invariant of each theorem over positions and roles.  Last the *)
(* series of runs: what each script leaves behind when it got to its end,  *)
(* that none of it is undone, and that deploy/95 comes after all of it.    *)
(* The order of a run is shown to be whole at the end.                     *)
(***************************************************************************)
EXTENDS DeploymentProperties, SequenceTheorems, FiniteSetTheorems, WellFoundedInduction, TLAPS

-----------------------------------------------------------------------------
(* What is true of every step of a script s: what it creates, the roles it *)
(* gives and to whom, that only deploy/50 and 95 take a role away and only *)
(* deploy/60 gives the timelock its role on a contract that it governs;    *)
(* and that no script creates what it looked up to know what to do.        *)
Governed  == {GovernedBy60[i] : i \in DOMAIN GovernedBy60}
Granting  == {"grant", "grantIfAdmin", "grantIfKnown"}
Kinds     == {"must", "try", "inner", "auth"}
Consulted(s) ==
  CASE s = "05" -> {"EscrowVault"}
    [] s = "15" -> {"TimelockController"}
    [] s = "60" -> Governed \cup {"GuardianSafe"}
    [] s = "76" -> {PublishedNames[i] : i \in DOMAIN PublishedNames}
    [] s = "86" -> {"EscrowVault", "EscrowGovernanceTimelock"}
    [] s = "87" -> {"EscrowVault", "ModuleSnapshotRegistry"}
    [] s = "90" -> {"EscrowVault", "GuardianSafe"}
    [] s = "95" -> {StrippedBy95[i] : i \in DOMAIN StrippedBy95}
    [] OTHER    -> {}

Creates(s, st) == /\ st.on \in Contracts \ Consulted(s)
                  /\ st.what = "" => st.on \in Unrecorded
Grants(s, st) == /\ st.on \in Contracts /\ st.what \in RoleNames /\ st.who \in Accounts
                 /\ st.what = TIMELOCK => st.on # "TimelockController"
                 /\ st.who = "deployer" => st.what \in {TIMELOCK, "PROPOSER_ROLE"}
                 /\ (st.what = TIMELOCK /\ st.who = "TimelockController" /\ s # "60")
                       => st.on \notin Governed
Revokes(s, st) == /\ s \in {"50", "95"} /\ st.on \in Contracts
                  /\ s = "50" => st.on = "TimelockController"
                  /\ st.who = "deployer" /\ st.what \in {ADMIN, TIMELOCK}
(* The links that must stand when the deployer's authority ends, and what  *)
(* single-valued settings of theirs and the slots of the slow lane are     *)
(* called: a script sets such a link to its one value, on any contract but *)
(* profile B's module.                                                     *)
Ties == {<<"EscrowVault", "creationPolicy", "EscrowCreationPolicy">>,
         <<"EscrowVault", "bondCollector", "BondCollector">>,
         <<"BondCollector", "escrow", "EscrowVault">>,
         <<"AaveYieldModule", "recoveryOperator", "GuardianOps">>,
         <<"ResolverStakingModule", "slashingModule", "ResolverSlashingModule">>,
         <<DRM, "adminFacet", "DRMAdminFacet">>,
         <<DRM, "bondTokenRegistry", "BondTokenRegistry">>,
         <<DRM, "incentiveModule", "ResolverIncentiveModule">>,
         <<DRM, "escrow", "EscrowVault">>}
Settings == {"creationPolicy", "bondCollector", "slashingModule", "adminFacet",
             "bondTokenRegistry", "incentiveModule"}
Slots    == {"RELEASE", "CANCELLATION", "YIELD_GEN", "approve"}
Fits(c, l, v) == l \in Settings => c = DRMB \/ <<c, l, v>> \in Ties
Legal(s, st) ==
  /\ st.op = "create" => Creates(s, st)
  /\ st.op \in Granting => Grants(s, st)
  /\ st.op = "viaTimelock" => /\ st.on = "BondLedger" /\ st.what = "AUTHORIZED_CALLER"
                              /\ st.who = FacadeB
  /\ st.op = "revoke" => Revokes(s, st)
  /\ st.op = "link" => st.on \in Contracts /\ Fits(st.on, st.what, st.who)
  /\ st.op \in {"activate", "activateIfDue"} => st.on \in Contracts /\ st.what \in Slots
  /\ st.op \in {"queue", "queueNew"} => st.on \in Contracts \ {"BondLedger"}

StepsIn(s, q, S)  == q \in Seq(S) /\ \A x \in S : Legal(s, x)
AreSteps(s, q)    == \E S : StepsIn(s, q, S)
IsBlock(s, b)     == b.kind \in Kinds /\ b.steps # <<>> /\ AreSteps(s, b.steps)
BlocksIn(s, B, S) == B \in Seq(S) /\ \A b \in S : IsBlock(s, b)
AreBlocks(s, B)   == \E S : BlocksIn(s, B, S)

LEMMA PassiveSteps ==
  ASSUME NEW s
  PROVE  /\ \A k, n : Legal(s, Require(k, n))
         /\ \A c, r : Legal(s, QuitUnless(c, r))
         /\ \A c, l, v : Legal(s, Assert(c, l, v))
BY DEF Legal, Step, Require, QuitUnless, Assert, Granting

LEMMA CreatingSteps ==
  ASSUME NEW s
  PROVE  /\ \A c \in Unrecorded : c \in Contracts \ Consulted(s) => Legal(s, Create(c))
         /\ \A c \in Contracts \ Consulted(s) :
               Legal(s, CreateAndRecord(c)) /\ Legal(s, CreateAndVerify(c))
BY DEF Legal, Step, Create, CreateAndRecord, CreateAndVerify, Granting, Creates

LEMMA GrantingSteps ==
  ASSUME NEW s, NEW c \in Contracts, NEW r \in RoleNames, NEW a \in Accounts,
         r = TIMELOCK => c # "TimelockController",
         a = "deployer" => r \in {TIMELOCK, "PROPOSER_ROLE"},
         (r = TIMELOCK /\ a = "TimelockController" /\ s # "60") => c \notin Governed
  PROVE  Legal(s, Grant(c, r, a)) /\ Legal(s, GrantIfAdmin(c, r, a)) /\ Legal(s, GrantIfKnown(c, r, a))
BY DEF Legal, Step, Grant, GrantIfAdmin, GrantIfKnown, Granting, Grants

LEMMA RevokingSteps ==
  ASSUME NEW s \in {"50", "95"}, NEW c \in Contracts, NEW r \in {ADMIN, TIMELOCK},
         s = "50" => c = "TimelockController"
  PROVE  Legal(s, Revoke(c, r, "deployer"))
BY DEF Legal, Step, Revoke, Granting, Revokes

LEMMA ConnectingSteps ==
  ASSUME NEW s, NEW c \in Contracts
  PROVE  /\ \A l, v, r : Fits(c, l, v) => Legal(s, Link(c, l, v, r))
         /\ \A l, v : c # "BondLedger" => Legal(s, Queue(c, l, v)) /\ Legal(s, QueueNew(c, l, v))
         /\ \A l \in Slots : \A v : Legal(s, Activate(c, l, v)) /\ Legal(s, ActivateIfDue(c, l, v))
         /\ Legal(s, ViaTimelock("BondLedger", "AUTHORIZED_CALLER", FacadeB))
BY DEF Legal, Step, Link, Queue, QueueNew, Activate, ActivateIfDue, ViaTimelock, Granting

LEMMA ShortSteps ==
  ASSUME NEW s
  PROVE  /\ AreSteps(s, <<>>)
         /\ \A x : Legal(s, x) => AreSteps(s, <<x>>)
         /\ \A x, y : Legal(s, x) /\ Legal(s, y) => AreSteps(s, <<x, y>>)
         /\ \A x, y, z : Legal(s, x) /\ Legal(s, y) /\ Legal(s, z) => AreSteps(s, <<x, y, z>>)
<1>1. StepsIn(s, <<>>, {})
  BY DEF StepsIn
<1>2. ASSUME NEW x, Legal(s, x) PROVE AreSteps(s, <<x>>)
  <2>1. StepsIn(s, <<x>>, {x})
    BY <1>2 DEF StepsIn
  <2>2. QED
    BY <2>1 DEF AreSteps
<1>3. ASSUME NEW x, NEW y, Legal(s, x), Legal(s, y) PROVE AreSteps(s, <<x, y>>)
  <2>1. StepsIn(s, <<x, y>>, {x, y})
    BY <1>3 DEF StepsIn
  <2>2. QED
    BY <2>1 DEF AreSteps
<1>4. ASSUME NEW x, NEW y, NEW z, Legal(s, x), Legal(s, y), Legal(s, z)
      PROVE  AreSteps(s, <<x, y, z>>)
  <2>1. StepsIn(s, <<x, y, z>>, {x, y, z})
    BY <1>4 DEF StepsIn
  <2>2. QED
    BY <2>1 DEF AreSteps
<1>5. QED
  BY <1>1, <1>2, <1>3, <1>4 DEF AreSteps

LEMMA StepsConcatenate ==
  ASSUME NEW s, NEW p, NEW q, AreSteps(s, p), AreSteps(s, q)
  PROVE  AreSteps(s, p \o q) /\ ((p # <<>> \/ q # <<>>) => p \o q # <<>>)
<1>1. PICK S : StepsIn(s, p, S)
  BY DEF AreSteps
<1>2. PICK T : StepsIn(s, q, T)
  BY DEF AreSteps
<1>3. p \in Seq(S \cup T) /\ q \in Seq(S \cup T)
  BY <1>1, <1>2 DEF StepsIn
<1>4. StepsIn(s, p \o q, S \cup T)
  BY <1>1, <1>2, <1>3 DEF StepsIn
<1>5. (p # <<>> \/ q # <<>>) => p \o q # <<>>
  BY <1>3
<1>6. QED
  BY <1>4, <1>5 DEF AreSteps

(* The step sequences written out in the scripts with four to six steps.   *)
LEMMA LongSteps ==
  ASSUME NEW s
  PROVE  /\ \A u, v, w, x : Legal(s, u) /\ Legal(s, v) /\ Legal(s, w) /\ Legal(s, x) => AreSteps(s, <<u, v, w, x>>)
         /\ \A u, v, w, x, y : Legal(s, u) /\ Legal(s, v) /\ Legal(s, w) /\ Legal(s, x) /\ Legal(s, y) => AreSteps(s, <<u, v, w, x, y>>)
         /\ \A u, v, w, x, y, z : Legal(s, u) /\ Legal(s, v) /\ Legal(s, w) /\ Legal(s, x) /\ Legal(s, y) /\ Legal(s, z) => AreSteps(s, <<u, v, w, x, y, z>>)
<1>1. ASSUME NEW u, NEW v, NEW w, NEW x, Legal(s, u), Legal(s, v), Legal(s, w), Legal(s, x)
      PROVE  AreSteps(s, <<u, v, w, x>>)
  <2>1. StepsIn(s, <<u, v, w, x>>, {u, v, w, x})
    BY <1>1 DEF StepsIn
  <2>2. QED
    BY <2>1 DEF AreSteps
<1>2. ASSUME NEW u, NEW v, NEW w, NEW x, NEW y,
             Legal(s, u), Legal(s, v), Legal(s, w), Legal(s, x), Legal(s, y)
      PROVE  AreSteps(s, <<u, v, w, x, y>>)
  <2>1. StepsIn(s, <<u, v, w, x, y>>, {u, v, w, x, y})
    BY <1>2 DEF StepsIn
  <2>2. QED
    BY <2>1 DEF AreSteps
<1>3. ASSUME NEW u, NEW v, NEW w, NEW x, NEW y, NEW z,
             Legal(s, u), Legal(s, v), Legal(s, w), Legal(s, x), Legal(s, y), Legal(s, z)
      PROVE  AreSteps(s, <<u, v, w, x, y, z>>)
  <2>1. StepsIn(s, <<u, v, w, x, y, z>>, {u, v, w, x, y, z})
    BY <1>3 DEF StepsIn
  <2>2. QED
    BY <2>1 DEF AreSteps
<1>4. QED
  BY <1>1, <1>2, <1>3

LEMMA BlockKinds ==
  ASSUME NEW s, NEW q, AreSteps(s, q), q # <<>>
  PROVE  IsBlock(s, Must(q)) /\ IsBlock(s, Try(q)) /\ IsBlock(s, Inner(q)) /\ IsBlock(s, Auth(q))
BY DEF IsBlock, Must, Try, Inner, Auth, Kinds

LEMMA ShortBlocks ==
  ASSUME NEW s
  PROVE  /\ AreBlocks(s, <<>>)
         /\ \A x : IsBlock(s, x) => AreBlocks(s, <<x>>)
         /\ \A x, y : IsBlock(s, x) /\ IsBlock(s, y) => AreBlocks(s, <<x, y>>)
         /\ \A x, y, z : IsBlock(s, x) /\ IsBlock(s, y) /\ IsBlock(s, z) => AreBlocks(s, <<x, y, z>>)
         /\ \A w, x, y, z : IsBlock(s, w) /\ IsBlock(s, x) /\ IsBlock(s, y) /\ IsBlock(s, z) => AreBlocks(s, <<w, x, y, z>>)
<1>1. BlocksIn(s, <<>>, {})
  BY DEF BlocksIn
<1>2. ASSUME NEW x, IsBlock(s, x) PROVE AreBlocks(s, <<x>>)
  <2>1. BlocksIn(s, <<x>>, {x})
    BY <1>2 DEF BlocksIn
  <2>2. QED
    BY <2>1 DEF AreBlocks
<1>3. ASSUME NEW x, NEW y, IsBlock(s, x), IsBlock(s, y) PROVE AreBlocks(s, <<x, y>>)
  <2>1. BlocksIn(s, <<x, y>>, {x, y})
    BY <1>3 DEF BlocksIn
  <2>2. QED
    BY <2>1 DEF AreBlocks
<1>4. ASSUME NEW x, NEW y, NEW z, IsBlock(s, x), IsBlock(s, y), IsBlock(s, z)
      PROVE  AreBlocks(s, <<x, y, z>>)
  <2>1. BlocksIn(s, <<x, y, z>>, {x, y, z})
    BY <1>4 DEF BlocksIn
  <2>2. QED
    BY <2>1 DEF AreBlocks
<1>5. ASSUME NEW w, NEW x, NEW y, NEW z,
             IsBlock(s, w), IsBlock(s, x), IsBlock(s, y), IsBlock(s, z)
      PROVE  AreBlocks(s, <<w, x, y, z>>)
  <2>1. BlocksIn(s, <<w, x, y, z>>, {w, x, y, z})
    BY <1>5 DEF BlocksIn
  <2>2. QED
    BY <2>1 DEF AreBlocks
<1>6. QED
  BY <1>1, <1>2, <1>3, <1>4, <1>5 DEF AreBlocks

LEMMA BlocksConcatenate ==
  ASSUME NEW s, NEW p, NEW q, AreBlocks(s, p), AreBlocks(s, q)
  PROVE  AreBlocks(s, p \o q)
<1>1. PICK S : BlocksIn(s, p, S)
  BY DEF AreBlocks
<1>2. PICK T : BlocksIn(s, q, T)
  BY DEF AreBlocks
<1>3. p \in Seq(S \cup T) /\ q \in Seq(S \cup T)
  BY <1>1, <1>2 DEF BlocksIn
<1>4. BlocksIn(s, p \o q, S \cup T)
  BY <1>1, <1>2, <1>3 DEF BlocksIn
<1>5. QED
  BY <1>4 DEF AreBlocks

LEMMA Optional ==
  ASSUME NEW s, NEW c, NEW q
  PROVE  /\ AreSteps(s, q) => AreSteps(s, When(c, q))
         /\ AreBlocks(s, q) => AreBlocks(s, When(c, q))
<1>1. When(c, q) = q \/ When(c, q) = <<>>
  BY DEF When
<1>2. QED
  BY <1>1, ShortSteps, ShortBlocks

LEMMA PassingOver ==
  ASSUME NEW s, NEW c, NEW d, NEW b, c \in d => IsBlock(s, b)
  PROVE  IsBlock(s, IfDeployed(c, d, b))
<1>1. AreSteps(s, <<Require({}, {})>>)
  BY PassiveSteps, ShortSteps
<1>2. <<Require({}, {})>> # <<>>
  OBVIOUS
<1>3. IsBlock(s, Must(<<Require({}, {})>>))
  BY <1>1, <1>2, BlockKinds
<1>4. QED
  BY <1>3 DEF IfDeployed

LEMMA Loops ==
  ASSUME NEW s, NEW n \in Nat, NEW f, \A i \in 1..n : IsBlock(s, f[i]), f = [i \in 1..n |-> f[i]]
  PROVE  AreBlocks(s, f)
<1>1. f \in [1..n -> {f[i] : i \in 1..n}]
  OBVIOUS
<1>2. f \in Seq({f[i] : i \in 1..n})
  BY <1>1
<1>3. BlocksIn(s, f, {f[i] : i \in 1..n})
  BY <1>2 DEF BlocksIn
<1>4. QED
  BY <1>3 DEF AreBlocks
-----------------------------------------------------------------------------
(* The bodies, script by script.                                           *)
LEMMA Names ==
  /\ Contracts = {"EscrowVault", "EscrowableERC20", "AaveYieldModule",
       "EscrowGovernanceTimelock", "EscrowCreationPolicy", "BondCollector",
       "ModuleSnapshotRegistry", "EscrowVaultProfileB", "ModuleSnapshotRegistryProfileB",
       "DecentralizedResolutionModule", "DecentralizedResolutionModuleProfileB",
       "ResolverIncentiveModuleV2BondLedger", "ResolverStakingModule", "ResolverSlashingModule",
       "InsurancePoolVault", "ResolverIncentiveModule", "BondTokenRegistry", "BondLedger",
       "TimelockController", "EmergencyRecoveryProposal", "L2AddressRegistry", "GuardianSafe",
       "SewToken", "GovGovernor", "DefaultReleaseStrategy", "DefaultCancellationStrategy",
       "CREATE2EscrowFactory", "MultiL2ViewAggregator", "DRMAdminFacet",
       "PaymentCalculationLibrary", "GuardianOps", "EscrowVaultAccountingLibrary"}
  /\ Governed = {"EscrowableERC20", "EscrowVault", "EscrowGovernanceTimelock", "AaveYieldModule",
       "DefaultResolutionModule", "EscrowCreationPolicy", "BondCollector",
       "ModuleSnapshotRegistry"}
  /\ DOMAIN GovernedBy60 = 1..8 /\ Len(GovernedBy60) = 8
<1>1. Contracts = {"EscrowVault", "EscrowableERC20", "AaveYieldModule",
       "EscrowGovernanceTimelock", "EscrowCreationPolicy", "BondCollector",
       "ModuleSnapshotRegistry", "EscrowVaultProfileB", "ModuleSnapshotRegistryProfileB",
       "DecentralizedResolutionModule", "DecentralizedResolutionModuleProfileB",
       "ResolverIncentiveModuleV2BondLedger", "ResolverStakingModule", "ResolverSlashingModule",
       "InsurancePoolVault", "ResolverIncentiveModule", "BondTokenRegistry", "BondLedger",
       "TimelockController", "EmergencyRecoveryProposal", "L2AddressRegistry", "GuardianSafe",
       "SewToken", "GovGovernor", "DefaultReleaseStrategy", "DefaultCancellationStrategy",
       "CREATE2EscrowFactory", "MultiL2ViewAggregator", "DRMAdminFacet",
       "PaymentCalculationLibrary", "GuardianOps", "EscrowVaultAccountingLibrary"}
  BY DEF Contracts, AdminAndTimelock, AdminOnly, TimelockOwned, DRM, DRMB, FacadeB
<1>2. DOMAIN GovernedBy60 = 1..8 /\ Len(GovernedBy60) = 8
  BY DEF GovernedBy60
<1>3. /\ GovernedBy60[1] = "EscrowableERC20" /\ GovernedBy60[2] = "EscrowVault"
      /\ GovernedBy60[3] = "EscrowGovernanceTimelock" /\ GovernedBy60[4] = "AaveYieldModule"
      /\ GovernedBy60[5] = "DefaultResolutionModule" /\ GovernedBy60[6] = "EscrowCreationPolicy"
      /\ GovernedBy60[7] = "BondCollector" /\ GovernedBy60[8] = "ModuleSnapshotRegistry"
  BY DEF GovernedBy60
<1>4. \A i \in 1..8 : i = 1 \/ i = 2 \/ i = 3 \/ i = 4 \/ i = 5 \/ i = 6 \/ i = 7 \/ i = 8
  OBVIOUS
<1>5. QED
  BY <1>1, <1>2, <1>3, <1>4 DEF Governed

LEMMA Members ==
  /\ Contracts \subseteq Accounts /\ "deployer" \in Accounts /\ "guardian" \in Accounts
  /\ "TimelockController" \in Contracts /\ "GovGovernor" \in Contracts
  /\ "TimelockController" \notin Governed
BY Names DEF Accounts

LEMMA RolesDiffer ==
  /\ ADMIN \in RoleNames /\ TIMELOCK \in RoleNames /\ GUARDIAN \in RoleNames
  /\ "PROPOSER_ROLE" \in RoleNames /\ "CANCELLER_ROLE" \in RoleNames
  /\ ADMIN # TIMELOCK /\ GUARDIAN # TIMELOCK /\ GUARDIAN # ADMIN
  /\ \A r \in {ADMIN, TIMELOCK, GUARDIAN} : r # "PROPOSER_ROLE" /\ r # "CANCELLER_ROLE"
BY DEF RoleNames, ADMIN, TIMELOCK, GUARDIAN

LEMMA GovernanceBodies ==
  ASSUME NEW e, NEW d
  PROVE  /\ AreBlocks("10", Safe(e, d)) /\ AreBlocks("20", GovToken(e, d))
         /\ AreBlocks("30", Timelock(e, d)) /\ AreBlocks("40", Governor(e, d))
         /\ AreBlocks("14", ModuleManagement(e, d)) /\ AreBlocks("16", EscrowAdmin(e, d))
<1>1. Legal("10", Create("GuardianSafe"))
  BY CreatingSteps, Names DEF Consulted, Unrecorded
<1>2. /\ Legal("20", CreateAndRecord("SewToken"))
      /\ Legal("30", CreateAndVerify("TimelockController"))
      /\ Legal("40", CreateAndRecord("GovGovernor"))
      /\ Legal("14", CreateAndRecord("ModuleSnapshotRegistry"))
      /\ Legal("16", CreateAndRecord("EscrowGovernanceTimelock"))
  BY CreatingSteps, Names DEF Consulted
<1>3. ASSUME NEW s, NEW x, Legal(s, x)
      PROVE  /\ AreBlocks(s, <<Must(<<x>>)>>)
             /\ \A k, n : AreBlocks(s, <<Must(<<Require(k, n), x>>)>>)
  <2>1. AreSteps(s, <<x>>) /\ \A k, n : AreSteps(s, <<Require(k, n), x>>)
    BY <1>3, PassiveSteps, ShortSteps
  <2>2. <<x>> # <<>> /\ \A k, n : <<Require(k, n), x>> # <<>>
    OBVIOUS
  <2>3. QED
    BY <2>1, <2>2, BlockKinds, ShortBlocks
<1>4. QED
  BY <1>1, <1>2, <1>3 DEF Safe, GovToken, Timelock, Governor, ModuleManagement, EscrowAdmin

LEMMA TimelockWiringBody ==
  ASSUME NEW e, NEW d
  PROVE  AreBlocks("50", TimelockWiring(e, d))
<1>1. /\ Legal("50", Grant("TimelockController", "PROPOSER_ROLE", "GovGovernor"))
      /\ Legal("50", Grant("TimelockController", "CANCELLER_ROLE", "GovGovernor"))
      /\ Legal("50", Grant("TimelockController", ADMIN, "TimelockController"))
  BY GrantingSteps, Members, RolesDiffer
<1>2. Legal("50", Revoke("TimelockController", ADMIN, "deployer"))
  BY RevokingSteps, Members
<1>3. \A k, n : AreSteps("50", <<Require(k, n),
           Grant("TimelockController", "PROPOSER_ROLE", "GovGovernor"),
           Grant("TimelockController", "CANCELLER_ROLE", "GovGovernor"),
           Grant("TimelockController", ADMIN, "TimelockController"),
           Revoke("TimelockController", ADMIN, "deployer")>>)
  BY <1>1, <1>2, PassiveSteps, LongSteps
<1>4. QED
  BY <1>3, BlockKinds, ShortBlocks DEF TimelockWiring

LEMMA ProtocolGovernanceBody ==
  ASSUME NEW e, NEW d, d \subseteq Contracts
  PROVE  AreBlocks("60", ProtocolGovernance(e, d))
<1>1. ASSUME NEW i \in 1..8
      PROVE  IsBlock("60", IfDeployed(GovernedBy60[i], d, GovernContract(GovernedBy60[i], e, d)))
  <2>1. PICK c \in Governed : c = GovernedBy60[i]
    BY Names DEF Governed
  <2>2. CASE c \in d
    <3>1. c \in Contracts /\ c # "TimelockController"
      BY <2>2, Names
    <3>2. GuardianAccount(e, d) \in Accounts /\ GuardianAccount(e, d) # "deployer"
      BY Names DEF GuardianAccount, Accounts
    <3>3. "TimelockController" \in Accounts
      BY Names DEF Accounts
    <3>4. /\ Legal("60", GrantIfKnown(c, TIMELOCK, "TimelockController"))
          /\ Legal("60", Grant(c, ADMIN, "TimelockController"))
          /\ Legal("60", GrantIfKnown(c, GUARDIAN, GuardianAccount(e, d)))
      BY <3>1, <3>2, <3>3, GrantingSteps DEF RoleNames, ADMIN, TIMELOCK, GUARDIAN
    <3>5. /\ AreSteps("60", <<GrantIfKnown(c, TIMELOCK, "TimelockController")>>)
          /\ AreSteps("60", When(c \in KnowsGuardian, <<GrantIfKnown(c, GUARDIAN, GuardianAccount(e, d))>>))
          /\ AreSteps("60", <<Grant(c, ADMIN, "TimelockController")>>)
          /\ <<Grant(c, ADMIN, "TimelockController")>> # <<>>
      BY <3>4, ShortSteps, Optional
    <3>6. LET q == (<<GrantIfKnown(c, TIMELOCK, "TimelockController")>>
                    \o When(c \in KnowsGuardian, <<GrantIfKnown(c, GUARDIAN, GuardianAccount(e, d))>>))
                    \o <<Grant(c, ADMIN, "TimelockController")>>
          IN AreSteps("60", q) /\ q # <<>>
      BY <3>5, StepsConcatenate
    <3>7. QED
      BY <3>6, <2>1, BlockKinds, PassingOver DEF GovernContract
  <2>3. CASE c \notin d
    BY <2>1, <2>3, PassingOver
  <2>4. QED
    BY <2>2, <2>3
<1>2. AreBlocks("60", [i \in DOMAIN GovernedBy60 |->
                         IfDeployed(GovernedBy60[i], d, GovernContract(GovernedBy60[i], e, d))])
  <2> DEFINE f == [i \in 1..8 |-> IfDeployed(GovernedBy60[i], d, GovernContract(GovernedBy60[i], e, d))]
  <2>1. \A i \in 1..8 : IsBlock("60", f[i])
    BY <1>1
  <2>2. f = [i \in 1..8 |-> f[i]]
    OBVIOUS
  <2> HIDE DEF f
  <2>3. AreBlocks("60", f)
    BY <2>1, <2>2, Loops
  <2>4. QED
    BY <2>3, Names DEF f
<1>3. AreSteps("60", <<Require({"config"}, {"TimelockController"})>>)
  BY PassiveSteps, ShortSteps
<1>4. AreBlocks("60", <<Must(<<Require({"config"}, {"TimelockController"})>>)>>)
  BY <1>3, BlockKinds, ShortBlocks
<1>5. QED
  BY <1>2, <1>4, BlocksConcatenate DEF ProtocolGovernance

(* A step alone, and two, as a block of any kind.                          *)
LEMMA SmallBlocks ==
  ASSUME NEW s
  PROVE  /\ \A x : Legal(s, x) => /\ IsBlock(s, Must(<<x>>)) /\ IsBlock(s, Try(<<x>>))
                                  /\ IsBlock(s, Auth(<<x>>)) /\ IsBlock(s, Inner(<<x>>))
         /\ \A x, y : Legal(s, x) /\ Legal(s, y) =>
               /\ IsBlock(s, Must(<<x, y>>)) /\ IsBlock(s, Auth(<<x, y>>))
               /\ IsBlock(s, Inner(<<x, y>>))
         /\ \A x, y, z : Legal(s, x) /\ Legal(s, y) /\ Legal(s, z) =>
               /\ IsBlock(s, Must(<<x, y, z>>)) /\ IsBlock(s, Try(<<x, y, z>>))
<1>1. /\ \A x : Legal(s, x) => AreSteps(s, <<x>>) /\ <<x>> # <<>>
      /\ \A x, y : Legal(s, x) /\ Legal(s, y) => AreSteps(s, <<x, y>>) /\ <<x, y>> # <<>>
      /\ \A x, y, z : Legal(s, x) /\ Legal(s, y) /\ Legal(s, z) =>
            AreSteps(s, <<x, y, z>>) /\ <<x, y, z>> # <<>>
  BY ShortSteps
<1>2. QED
  BY <1>1, BlockKinds

LEMMA CoreBodies ==
  ASSUME NEW e, NEW d
  PROVE  AreBlocks("15", YieldDisputeOps(e, d)) /\ AreBlocks("70", CoreEscrow(e, d))
<1>1. AreBlocks("15", YieldDisputeOps(e, d))
  <2>1. /\ Legal("15", CreateAndRecord("EscrowCreationPolicy"))
        /\ Legal("15", CreateAndRecord("BondCollector"))
    BY CreatingSteps, Names DEF Consulted
  <2>2. "EscrowCreationPolicy" \in Contracts /\ "BondCollector" \in Contracts
    BY Names
  <2>3. /\ Legal("15", GrantIfAdmin("EscrowCreationPolicy", ADMIN, "TimelockController"))
        /\ Legal("15", GrantIfAdmin("BondCollector", ADMIN, "TimelockController"))
    BY <2>2, GrantingSteps, Members, RolesDiffer
  <2>4. /\ IsBlock("15", Must(<<Require({"network"}, {}), CreateAndRecord("EscrowCreationPolicy"),
                                CreateAndRecord("BondCollector")>>))
        /\ IsBlock("15", Try(<<GrantIfAdmin("EscrowCreationPolicy", ADMIN, "TimelockController")>>))
        /\ IsBlock("15", Try(<<GrantIfAdmin("BondCollector", ADMIN, "TimelockController")>>))
    BY <2>1, <2>3, PassiveSteps, SmallBlocks
  <2>5. QED
    BY <2>4, ShortBlocks, Optional, BlocksConcatenate DEF YieldDisputeOps
<1>2. AreBlocks("70", DeployVault) /\ AreBlocks("70", DeployTokenEscrow)
  <2>1. /\ Legal("70", CreateAndRecord("EscrowVault"))
        /\ Legal("70", CreateAndRecord("EscrowableERC20"))
    BY CreatingSteps, Names DEF Consulted
  <2>2. Legal("70", Link("BondCollector", "escrow", "EscrowableERC20", TIMELOCK))
    BY ConnectingSteps, Names DEF Fits, Settings
  <2>3. QED
    BY <2>1, <2>2, PassiveSteps, SmallBlocks, ShortBlocks DEF DeployVault, DeployTokenEscrow
<1>3. AreBlocks("70", ConnectVault)
  <2>1. "EscrowVault" \in Contracts /\ "BondCollector" \in Contracts
        /\ "EscrowGovernanceTimelock" \in Accounts
    BY Names, Members
  <2>2. /\ Legal("70", Link("BondCollector", "escrow", "EscrowVault", TIMELOCK))
        /\ Legal("70", Link("EscrowVault", "creationPolicy", "EscrowCreationPolicy", TIMELOCK))
        /\ Legal("70", Link("EscrowVault", "bondCollector", "BondCollector", TIMELOCK))
    BY <2>1, ConnectingSteps DEF Fits, Ties
  <2>3. "ROLE_ADMIN_CONTRACT" \in RoleNames /\ "ROLE_ADMIN_CONTRACT" # TIMELOCK
    BY DEF RoleNames, TIMELOCK
  <2>4. Legal("70", Grant("EscrowVault", "ROLE_ADMIN_CONTRACT", "EscrowGovernanceTimelock"))
    BY <2>1, <2>3, GrantingSteps
  <2>5. QED
    BY <2>2, <2>4, SmallBlocks, ShortBlocks DEF ConnectVault
<1>4. QED
  BY <1>1, <1>2, <1>3, Optional, BlocksConcatenate DEF CoreEscrow

LEMMA StrategyBodies ==
  ASSUME NEW e, NEW d
  PROVE  AreBlocks("32", ReleaseStrategy(e, d)) /\ AreBlocks("80", CancellationStrategy(e, d))
<1>1. AreBlocks("32", ReleaseStrategy(e, d))
  <2>1. /\ Legal("32", CreateAndRecord("DefaultReleaseStrategy"))
        /\ Legal("32", QueueNew("ModuleSnapshotRegistry", "RELEASE", "DefaultReleaseStrategy"))
        /\ Legal("32", Activate("ModuleSnapshotRegistry", "RELEASE", "DefaultReleaseStrategy"))
    BY CreatingSteps, ConnectingSteps, Names DEF Consulted, Slots
  <2> DEFINE p == <<Require({"network"}, {}), CreateAndRecord("DefaultReleaseStrategy"),
                     Require({}, {"EscrowVault", "ModuleSnapshotRegistry"}),
                     QuitUnless("ModuleSnapshotRegistry", TIMELOCK),
                     QueueNew("ModuleSnapshotRegistry", "RELEASE", "DefaultReleaseStrategy")>>
             q == When(e.net = "hardhat",
                       <<Activate("ModuleSnapshotRegistry", "RELEASE", "DefaultReleaseStrategy")>>)
  <2>2. AreSteps("32", p) /\ p # <<>>
    BY <2>1, PassiveSteps, LongSteps
  <2>3. AreSteps("32", q)
    BY <2>1, ShortSteps, Optional
  <2>4. ReleaseStrategy(e, d) = <<Must(p \o q)>>
    BY DEF ReleaseStrategy
  <2> HIDE DEF p, q
  <2>5. IsBlock("32", Must(p \o q))
    BY <2>2, <2>3, StepsConcatenate, BlockKinds
  <2>6. QED
    BY <2>4, <2>5, ShortBlocks
<1>2. AreBlocks("80", CancellationStrategy(e, d))
  <2>1. /\ Legal("80", CreateAndRecord("DefaultCancellationStrategy"))
        /\ Legal("80", Queue("ModuleSnapshotRegistry", "CANCELLATION", "DefaultCancellationStrategy"))
        /\ Legal("80", Activate("ModuleSnapshotRegistry", "CANCELLATION", "DefaultCancellationStrategy"))
    BY CreatingSteps, ConnectingSteps, Names DEF Consulted, Slots
  <2> DEFINE p == <<Queue("ModuleSnapshotRegistry", "CANCELLATION", "DefaultCancellationStrategy")>>
             q == When(e.net = "hardhat",
                       <<Activate("ModuleSnapshotRegistry", "CANCELLATION",
                                  "DefaultCancellationStrategy")>>)
             b == Must(<<Require({}, {"EscrowVault"}), CreateAndRecord("DefaultCancellationStrategy"),
                         Require({}, {"ModuleSnapshotRegistry"})>>)
  <2>2. AreSteps("80", p) /\ p # <<>>
    BY <2>1, ShortSteps
  <2>3. AreSteps("80", q)
    BY <2>1, ShortSteps, Optional
  <2>4. IsBlock("80", b)
    BY <2>1, PassiveSteps, SmallBlocks
  <2>5. CancellationStrategy(e, d) = <<b, Auth(p \o q)>>
    BY DEF CancellationStrategy
  <2> HIDE DEF p, q, b
  <2>6. IsBlock("80", Auth(p \o q))
    BY <2>2, <2>3, StepsConcatenate, BlockKinds
  <2>7. QED
    BY <2>4, <2>5, <2>6, ShortBlocks
<1>3. QED
  BY <1>1, <1>2

LEMMA YieldBody ==
  ASSUME NEW e, NEW d
  PROVE  AreBlocks("75", AaveYield(e, d))
<1>1. /\ Legal("75", CreateAndRecord("AaveYieldModule"))
      /\ \A v : /\ Legal("75", Queue("AaveYieldModule", "approve", v))
                /\ Legal("75", ActivateIfDue("AaveYieldModule", "approve", v))
                /\ Legal("75", Queue("ModuleSnapshotRegistry", "YIELD_GEN", v))
                /\ Legal("75", Activate("ModuleSnapshotRegistry", "YIELD_GEN", v))
  BY CreatingSteps, ConnectingSteps, Names DEF Consulted, Slots
<1>2. AreBlocks("75", ConnectYield)
  BY <1>1, PassiveSteps, SmallBlocks, ShortBlocks DEF ConnectYield
<1>3. QED
  BY <1>1, <1>2, PassiveSteps, SmallBlocks, ShortBlocks, BlocksConcatenate DEF AaveYield

LEMMA AddressRegistryBody ==
  ASSUME NEW e, NEW d
  PROVE  AreBlocks("76", AddressRegistry(e, d))
<1> DEFINE f == [i \in 1..12 |-> Try(<<Link("L2AddressRegistry", "name", PublishedNames[i], "governor")>>)]
           g == [i \in 1..12 |-> IfDeployed(PublishedNames[i], d,
                  Try(<<Link("L2AddressRegistry", "version", PublishedNames[i], "governor")>>))]
<1>1. DOMAIN PublishedNames = 1..12
  BY DEF PublishedNames
<1>2. \A i \in 1..12 : PublishedNames[i] # "L2AddressRegistry"
  <2>1. \A i \in 1..12 : i = 1 \/ i = 2 \/ i = 3 \/ i = 4 \/ i = 5 \/ i = 6 \/ i = 7 \/ i = 8
                         \/ i = 9 \/ i = 10 \/ i = 11 \/ i = 12
    OBVIOUS
  <2>2. QED
    BY <2>1 DEF PublishedNames
<1>3. Legal("76", CreateAndRecord("L2AddressRegistry"))
  BY <1>1, <1>2, CreatingSteps, Names DEF Consulted
<1>4. \A l \in {"name", "version"} : \A v, r : Legal("76", Link("L2AddressRegistry", l, v, r))
  BY ConnectingSteps, Names DEF Fits, Settings
<1>5. (\A i \in 1..12 : IsBlock("76", f[i])) /\ \A i \in 1..12 : IsBlock("76", g[i])
  BY <1>4, SmallBlocks, PassingOver
<1>6. f = [i \in 1..12 |-> f[i]] /\ g = [i \in 1..12 |-> g[i]]
  OBVIOUS
<1>7. /\ AreBlocks("76", <<Must(<<Require({"network"}, {}), CreateAndRecord("L2AddressRegistry")>>)>>)
  BY <1>3, PassiveSteps, SmallBlocks, ShortBlocks
<1>8. AddressRegistry(e, d) =
        (<<Must(<<Require({"network"}, {}), CreateAndRecord("L2AddressRegistry")>>)>> \o f) \o g
  BY <1>1 DEF AddressRegistry
<1> HIDE DEF f, g
<1>9. AreBlocks("76", f) /\ AreBlocks("76", g)
  BY <1>5, <1>6, Loops
<1>10. QED
  BY <1>7, <1>8, <1>9, BlocksConcatenate

LEMMA Create2Body ==
  ASSUME NEW e, NEW d
  PROVE  AreBlocks("05", Create2Factory(e, d))
<1>1. Legal("05", Create("CREATE2EscrowFactory")) /\ Legal("05", Create("MultiL2ViewAggregator"))
  BY CreatingSteps, Names DEF Consulted, Unrecorded
<1>2. /\ AreSteps("05", <<Create("CREATE2EscrowFactory")>>)
      /\ <<Create("CREATE2EscrowFactory")>> # <<>>
      /\ AreSteps("05", When("EscrowVault" \in d, <<Create("MultiL2ViewAggregator")>>))
  BY <1>1, ShortSteps, Optional
<1>3. QED
  BY <1>2, StepsConcatenate, BlockKinds, ShortBlocks, Optional DEF Create2Factory

LEMMA CapitalBody ==
  ASSUME NEW e, NEW d
  PROVE  AreBlocks("85", Dr3Modules(e, d))
<1>1. /\ Legal("85", CreateAndRecord("InsurancePoolVault"))
      /\ Legal("85", CreateAndRecord("ResolverStakingModule"))
      /\ Legal("85", CreateAndRecord("ResolverSlashingModule"))
      /\ Legal("85", CreateAndRecord("BondTokenRegistry"))
      /\ Legal("85", CreateAndRecord("DRMAdminFacet"))
      /\ Legal("85", CreateAndRecord("PaymentCalculationLibrary"))
      /\ Legal("85", CreateAndRecord("ResolverIncentiveModule"))
  BY CreatingSteps, Names DEF Consulted
<1>2. AreBlocks("85", DeployDr3) /\ AreBlocks("85", DeployDr3Rest)
  BY <1>1, PassiveSteps, LongSteps, SmallBlocks, BlockKinds, ShortBlocks DEF DeployDr3, DeployDr3Rest
<1>3. AreBlocks("85", WireDr3)
  <2>1. \A c \in {"ResolverStakingModule", "InsurancePoolVault", "ResolverIncentiveModule"} :
          c \in Contracts /\ c # "TimelockController" /\ c \notin Governed
    BY Names
  <2>2. "ResolverSlashingModule" \in Accounts /\ "ResolverSlashingModule" # "deployer"
    BY Names, Members
  <2>3. "ROLE_SLASHING_MODULE" \in RoleNames /\ "ROLE_SLASHING_MODULE" # TIMELOCK
    BY DEF RoleNames, TIMELOCK
  <2>4. /\ Legal("85", Grant("ResolverStakingModule", TIMELOCK, "deployer"))
        /\ Legal("85", Grant("ResolverStakingModule", TIMELOCK, "TimelockController"))
        /\ Legal("85", Grant("InsurancePoolVault", "ROLE_SLASHING_MODULE", "ResolverSlashingModule"))
        /\ Legal("85", Grant("InsurancePoolVault", TIMELOCK, "TimelockController"))
        /\ Legal("85", Grant("ResolverIncentiveModule", TIMELOCK, "TimelockController"))
    BY <2>1, <2>2, <2>3, Members, RolesDiffer, GrantingSteps
  <2>5. Legal("85", Link("ResolverStakingModule", "slashingModule", "ResolverSlashingModule", TIMELOCK))
    BY <2>1, ConnectingSteps DEF Fits, Ties
  <2>6. QED
    BY <2>4, <2>5, LongSteps, BlockKinds, ShortBlocks DEF WireDr3
<1>4. QED
  BY <1>2, <1>3, BlocksConcatenate DEF Dr3Modules

LEMMA ResolutionBody ==
  ASSUME NEW e, NEW d
  PROVE  AreBlocks("86", ResolutionModule(e, d))
<1>1. /\ DRM \in Contracts \ Consulted("86") /\ DRM # "TimelockController" /\ DRM \notin Governed
      /\ "EscrowGovernanceTimelock" \in Accounts /\ "TimelockController" \in Accounts
  BY Names, Members DEF DRM, Consulted
<1>2. AreBlocks("86", DeployDrm)
  BY <1>1, CreatingSteps, PassiveSteps, SmallBlocks, ShortBlocks DEF DeployDrm
<1>3. /\ Legal("86", Grant(DRM, TIMELOCK, "TimelockController"))
      /\ Legal("86", Grant(DRM, TIMELOCK, "EscrowGovernanceTimelock"))
      /\ Legal("86", Grant(DRM, TIMELOCK, "deployer"))
  BY <1>1, Members, RolesDiffer, GrantingSteps
<1>4. \A l, v, r : <<DRM, l, v>> \in Ties => Legal("86", Link(DRM, l, v, r))
  BY <1>1, ConnectingSteps DEF Fits
<1> DEFINE a == <<Link(DRM, "adminFacet", "DRMAdminFacet", ADMIN),
                  Grant(DRM, TIMELOCK, "TimelockController")>>
           b == When("EscrowGovernanceTimelock" \in d,
                     <<Grant(DRM, TIMELOCK, "EscrowGovernanceTimelock")>>)
           c == <<Grant(DRM, TIMELOCK, "deployer"),
                  Link(DRM, "bondTokenRegistry", "BondTokenRegistry", TIMELOCK),
                  Link(DRM, "incentiveModule", "ResolverIncentiveModule", TIMELOCK)>>
           f == When("EscrowVault" \in d, <<Link(DRM, "escrow", "EscrowVault", TIMELOCK)>>)
<1>5. AreSteps("86", a) /\ AreSteps("86", b) /\ AreSteps("86", c) /\ AreSteps("86", f) /\ a # <<>>
  <2>1. /\ Legal("86", Link(DRM, "adminFacet", "DRMAdminFacet", ADMIN))
        /\ Legal("86", Link(DRM, "bondTokenRegistry", "BondTokenRegistry", TIMELOCK))
        /\ Legal("86", Link(DRM, "incentiveModule", "ResolverIncentiveModule", TIMELOCK))
        /\ Legal("86", Link(DRM, "escrow", "EscrowVault", TIMELOCK))
    BY <1>4 DEF Ties
  <2>2. QED
    BY <2>1, <1>3, ShortSteps, Optional
<1>6. WireDrm(d) = <<Must(((a \o b) \o c) \o f)>>
  BY DEF WireDrm
<1> HIDE DEF a, b, c, f
<1>7. AreSteps("86", ((a \o b) \o c) \o f) /\ ((a \o b) \o c) \o f # <<>>
  BY <1>5, StepsConcatenate
<1>8. AreBlocks("86", WireDrm(d))
  BY <1>6, <1>7, BlockKinds, ShortBlocks
<1>9. QED
  BY <1>2, <1>8, BlocksConcatenate DEF ResolutionModule

LEMMA ProfileBody ==
  ASSUME NEW e, NEW d
  PROVE  AreBlocks("87", ProfileB(e, d))
<1>1. /\ \A c \in {DRMB, FacadeB, "BondLedger", "ModuleSnapshotRegistryProfileB",
                   "EscrowVaultAccountingLibrary", "EscrowVaultProfileB"} :
            c \in Contracts \ Consulted("87")
      /\ DRMB # "TimelockController" /\ DRMB \notin Governed
  BY Names DEF DRMB, FacadeB, Consulted
<1>2. AreBlocks("87", DeployProfileB)
  BY <1>1, CreatingSteps, PassiveSteps, LongSteps, BlockKinds, ShortBlocks DEF DeployProfileB
<1>3. AreBlocks("87", DeployVaultB(e, d))
  <2> DEFINE a == When("ModuleSnapshotRegistry" \notin d, <<Create("ModuleSnapshotRegistryProfileB")>>)
             b == <<Create("EscrowVaultAccountingLibrary"), CreateAndRecord("EscrowVaultProfileB")>>
  <2>1. /\ Legal("87", Create("ModuleSnapshotRegistryProfileB"))
        /\ Legal("87", Create("EscrowVaultAccountingLibrary"))
        /\ Legal("87", CreateAndRecord("EscrowVaultProfileB"))
    BY <1>1, CreatingSteps DEF Unrecorded
  <2>2. AreSteps("87", a) /\ AreSteps("87", b) /\ b # <<>>
    BY <2>1, ShortSteps, Optional
  <2>3. DeployVaultB(e, d) = When(VaultB(e, d) = "EscrowVaultProfileB", <<Must(a \o b)>>)
    BY DEF DeployVaultB
  <2> HIDE DEF a, b
  <2>4. AreBlocks("87", <<Must(a \o b)>>)
    BY <2>2, StepsConcatenate, BlockKinds, ShortBlocks
  <2>5. QED
    BY <2>3, <2>4, Optional
<1>4. AreBlocks("87", WireProfileB(e, d))
  <2>1. /\ Legal("87", Grant(DRMB, TIMELOCK, "TimelockController"))
        /\ Legal("87", Grant(DRMB, TIMELOCK, "deployer"))
        /\ Legal("87", GrantIfAdmin("TimelockController", "PROPOSER_ROLE", "deployer"))
    BY <1>1, Members, RolesDiffer, GrantingSteps
  <2>2. \A l, v, r : Legal("87", Link(DRMB, l, v, r))
    BY <1>1, ConnectingSteps DEF Fits
  <2>3. Legal("87", ViaTimelock("BondLedger", "AUTHORIZED_CALLER", FacadeB))
    BY <1>1, ConnectingSteps
  <2> DEFINE a == <<Grant(DRMB, TIMELOCK, "TimelockController"),
                    Link(DRMB, "adminFacet", "DRMAdminFacet", ADMIN),
                    Grant(DRMB, TIMELOCK, "deployer")>>
             b == When(IsLocal(e),
                       <<GrantIfAdmin("TimelockController", "PROPOSER_ROLE", "deployer"),
                         ViaTimelock("BondLedger", "AUTHORIZED_CALLER", FacadeB)>>)
             c == <<Link(DRMB, "incentiveModule", FacadeB, TIMELOCK),
                    Link(DRMB, "bondTokenRegistry", "BondTokenRegistry", TIMELOCK),
                    Link(DRMB, "escrow", VaultB(e, d), TIMELOCK),
                    Assert(DRMB, "incentiveModule", FacadeB)>>
  <2>4. AreSteps("87", a) /\ AreSteps("87", b) /\ AreSteps("87", c) /\ a # <<>>
    BY <2>1, <2>2, <2>3, PassiveSteps, ShortSteps, LongSteps, Optional
  <2>5. WireProfileB(e, d) = <<Must((a \o b) \o c)>>
    BY DEF WireProfileB
  <2> HIDE DEF a, b, c
  <2>6. AreSteps("87", (a \o b) \o c) /\ (a \o b) \o c # <<>>
    BY <2>4, StepsConcatenate
  <2>7. QED
    BY <2>5, <2>6, BlockKinds, ShortBlocks
<1>5. QED
  BY <1>2, <1>3, <1>4, BlocksConcatenate DEF ProfileB

LEMMA GuardianBody ==
  ASSUME NEW e, NEW d
  PROVE  AreBlocks("90", GuardianOps(e, d))
<1>1. /\ Legal("90", CreateAndRecord("GuardianOps"))
      /\ Legal("90", CreateAndRecord("EmergencyRecoveryProposal"))
      /\ Legal("90", Link("AaveYieldModule", "recoveryOperator", "GuardianOps", TIMELOCK))
      /\ Legal("90", Link("EmergencyRecoveryProposal", "recoveryEnabled", "true", ADMIN))
  BY CreatingSteps, ConnectingSteps, Names DEF Consulted, Fits, Settings
<1>2. GuardedVault(d) \in Contracts
  BY Names DEF GuardedVault
<1>3. /\ GuardianAccount(e, d) \in Accounts /\ GuardianAccount(e, d) # "deployer"
      /\ "EmergencyRecoveryProposal" \in Accounts
  BY Names, Members DEF GuardianAccount
<1>4. /\ Legal("90", Grant(GuardedVault(d), GUARDIAN, GuardianAccount(e, d)))
      /\ Legal("90", Grant(GuardedVault(d), GUARDIAN, "EmergencyRecoveryProposal"))
  BY <1>2, <1>3, RolesDiffer, GrantingSteps
<1>5. AreBlocks("90", DeployGuardianOps(d))
  BY <1>1, PassiveSteps, SmallBlocks, ShortBlocks DEF DeployGuardianOps
<1>6. AreBlocks("90", EnableRecovery(e, d))
  BY <1>1, <1>4, SmallBlocks, ShortBlocks DEF EnableRecovery
<1>7. QED
  BY <1>5, <1>6, BlocksConcatenate DEF GuardianOps

LEMMA Joined ==
  ASSUME NEW S, NEW p \in Seq(S), NEW q \in Seq(S)
  PROVE  /\ DOMAIN (p \o q) = 1..Len(p) + Len(q) /\ Len(p \o q) = Len(p) + Len(q)
         /\ \A i \in 1..Len(p) : (p \o q)[i] = p[i]
         /\ \A i \in Len(p) + 1..Len(p) + Len(q) : (p \o q)[i] = q[i - Len(p)]
<1>1. p \o q \in Seq(S) /\ Len(p \o q) = Len(p) + Len(q)
  OBVIOUS
<1>2. DOMAIN (p \o q) = 1..Len(p) + Len(q)
  BY <1>1
<1>3. \A i \in 1..Len(p) + Len(q) : (p \o q)[i] = IF i <= Len(p) THEN p[i] ELSE q[i - Len(p)]
  BY ConcatProperties
<1>4. \A i \in 1..Len(p) : (p \o q)[i] = p[i]
  BY <1>3
<1>5. \A i \in Len(p) + 1..Len(p) + Len(q) : (p \o q)[i] = q[i - Len(p)]
  BY <1>3
<1>6. QED
  BY <1>1, <1>2, <1>4, <1>5

LEMMA Stripped ==
  /\ DOMAIN StrippedBy95 = 1..14 /\ Len(StrippedBy95) = 14
  /\ StrippedBy95[2] = "EscrowVault" /\ StrippedBy95[3] = "EscrowGovernanceTimelock"
  /\ StrippedBy95[8] = "ModuleSnapshotRegistry"
  /\ \A i \in 1..14 : StrippedBy95[i] \notin {"TimelockController", "BondLedger"}
<1> DEFINE late == <<"ResolverStakingModule", "ResolverSlashingModule", "InsurancePoolVault",
                     "ResolverIncentiveModule", "DRMAdminFacet", "DecentralizedResolutionModule">>
<1> DEFINE T == {late[i] : i \in 1..6}
<1>1. GovernedBy60 \in Seq(Governed \cup T) /\ Len(GovernedBy60) = 8
  <2>1. \A i \in 1..8 : GovernedBy60[i] \in Governed
    BY Names DEF Governed
  <2>2. GovernedBy60 = [i \in 1..8 |-> GovernedBy60[i]]
    BY DEF GovernedBy60
  <2> HIDE DEF T
  <2>3. QED
    BY <2>1, <2>2, Names
<1>2. late \in Seq(Governed \cup T) /\ Len(late) = 6
  <2>1. late = [i \in 1..6 |-> late[i]] /\ Len(late) = 6
    OBVIOUS
  <2> HIDE DEF late
  <2>2. QED
    BY <2>1
<1>3. StrippedBy95 = GovernedBy60 \o late
  BY DEF StrippedBy95
<1>4. \A i \in 1..6 : late[i] \notin {"TimelockController", "BondLedger"}
  <2>1. \A i \in 1..6 : i = 1 \/ i = 2 \/ i = 3 \/ i = 4 \/ i = 5 \/ i = 6
    OBVIOUS
  <2>2. QED
    BY <2>1
<1> HIDE DEF late, T
<1>5. /\ DOMAIN StrippedBy95 = 1..14 /\ Len(StrippedBy95) = 14
      /\ \A i \in 1..8 : StrippedBy95[i] = GovernedBy60[i]
      /\ \A i \in 9..14 : StrippedBy95[i] = late[i - 8]
  <2>1. PICK S : GovernedBy60 \in Seq(S) /\ late \in Seq(S)
    BY <1>1, <1>2
  <2>2. LET p == GovernedBy60
            q == late
        IN  /\ DOMAIN StrippedBy95 = 1..Len(p) + Len(q)
            /\ Len(StrippedBy95) = Len(p) + Len(q)
            /\ \A i \in 1..Len(p) : StrippedBy95[i] = p[i]
            /\ \A i \in Len(p) + 1..Len(p) + Len(q) : StrippedBy95[i] = q[i - Len(p)]
    BY <1>3, <2>1, Joined, Zenon
  <2>3. Len(GovernedBy60) = 8 /\ Len(late) = 6
    BY <1>1, <1>2
  <2>4. QED
    BY <2>2, <2>3
<1>6. /\ GovernedBy60[2] = "EscrowVault" /\ GovernedBy60[3] = "EscrowGovernanceTimelock"
      /\ GovernedBy60[8] = "ModuleSnapshotRegistry"
  BY DEF GovernedBy60
<1>7. \A i \in 1..8 : GovernedBy60[i] \notin {"TimelockController", "BondLedger"}
  BY Names DEF Governed
<1>8. \A i \in 1..14 : i \in 1..8 \/ (i \in 9..14 /\ i - 8 \in 1..6)
  OBVIOUS
<1>9. QED
  BY <1>4, <1>5, <1>6, <1>7, <1>8

LEMMA FinalizeBody ==
  ASSUME NEW e, NEW d, d \subseteq Contracts
  PROVE  AreBlocks("95", FinalizeGovernance(e, d))
<1> DEFINE f == [i \in 1..28 |->
                   StripRole(StrippedBy95[(i + 1) \div 2], IF i % 2 = 1 THEN TIMELOCK ELSE ADMIN, d)]
<1>1. FinalizeGovernance(e, d) = f
  BY Stripped DEF FinalizeGovernance
<1>2. \A i \in 1..28 : IsBlock("95", f[i])
  <2>1. \A c, r : (c \in Contracts /\ r \in {ADMIN, TIMELOCK}) =>
                     IsBlock("95", Try(<<Revoke(c, r, "deployer")>>))
    BY RevokingSteps, SmallBlocks
  <2>2. \A c : \A r \in {ADMIN, TIMELOCK} : IsBlock("95", StripRole(c, r, d))
    BY <2>1, PassingOver DEF StripRole
  <2>3. QED
    BY <2>2
<1>3. f = [i \in 1..28 |-> f[i]]
  OBVIOUS
<1> HIDE DEF f
<1>4. QED
  BY <1>1, <1>2, <1>3, Loops

(* What is used of all this: whatever the environment and whatever exists, *)
(* the body of a script is a sequence of blocks of a known kind, each with *)
(* at least one step and every step legal.                                 *)
LEMMA BodyLegal ==
  ASSUME NEW s \in Scripts, NEW e, NEW d, d \subseteq Contracts
  PROVE  /\ Len(Body(s, e, d)) \in Nat
         /\ DOMAIN Body(s, e, d) = 1..Len(Body(s, e, d))
         /\ (Body(s, e, d) = <<>>) <=> (Len(Body(s, e, d)) = 0)
         /\ \A i \in 1..Len(Body(s, e, d)) :
              LET b == Body(s, e, d)[i]
              IN  /\ b.kind \in Kinds
                  /\ Len(b.steps) \in Nat /\ Len(b.steps) > 0
                  /\ DOMAIN b.steps = 1..Len(b.steps)
                  /\ \A j \in 1..Len(b.steps) : Legal(s, b.steps[j])
<1>1. s \in {"05", "10", "14", "15", "16", "20", "30", "32", "40", "50", "60", "70",
             "75", "76", "80", "85", "86", "87", "90", "95"}
  BY DEF Scripts, Files
<1>2. AreBlocks(s, Body(s, e, d))
  <2>1. CASE s \in {"05", "10", "14", "15", "16", "20", "30"}
    BY <2>1, Create2Body, GovernanceBodies, CoreBodies DEF Body
  <2>2. CASE s \in {"32", "40", "50", "60", "70", "75", "76"}
    BY <2>2, StrategyBodies, GovernanceBodies, TimelockWiringBody, ProtocolGovernanceBody,
       CoreBodies, YieldBody, AddressRegistryBody DEF Body
  <2>3. CASE s \in {"80", "85", "86", "87", "90", "95"}
    BY <2>3, StrategyBodies, CapitalBody, ResolutionBody, ProfileBody, GuardianBody, FinalizeBody
       DEF Body
  <2>4. QED
    BY <1>1, <2>1, <2>2, <2>3
<1> DEFINE B == Body(s, e, d)
<1> HIDE DEF B
<1>3. PICK S : BlocksIn(s, B, S)
  BY <1>2 DEF AreBlocks, B
<1>4. \A i \in 1..Len(B) : IsBlock(s, B[i])
  BY <1>3 DEF BlocksIn
<1>5. ASSUME NEW b, IsBlock(s, b)
      PROVE  /\ b.kind \in Kinds /\ Len(b.steps) \in Nat /\ Len(b.steps) > 0
             /\ DOMAIN b.steps = 1..Len(b.steps)
             /\ \A j \in 1..Len(b.steps) : Legal(s, b.steps[j])
  <2>1. PICK T : StepsIn(s, b.steps, T)
    BY <1>5 DEF IsBlock, AreSteps
  <2>2. QED
    BY <1>5, <2>1 DEF IsBlock, StepsIn
<1>6. Len(B) \in Nat /\ DOMAIN B = 1..Len(B) /\ ((B = <<>>) <=> (Len(B) = 0))
  BY <1>3 DEF BlocksIn
<1>7. QED
  BY <1>4, <1>5, <1>6 DEF B

(* And creating a contract that the script did not look up changes nothing *)
(* in its body.                                                            *)
LEMMA BodySteady ==
  ASSUME NEW s \in Scripts, NEW e, NEW d, NEW c, c \notin Consulted(s)
  PROVE  Body(s, e, d \cup {c}) = Body(s, e, d)
<1>1. s \in {"05", "10", "14", "15", "16", "20", "30", "32", "40", "50", "60", "70",
             "75", "76", "80", "85", "86", "87", "90", "95"}
  BY DEF Scripts, Files
<1>2. CASE s = "05"
  BY <1>2 DEF Body, Consulted, Create2Factory
<1>3. CASE s = "15"
  BY <1>3 DEF Body, Consulted, YieldDisputeOps
<1>4. CASE s = "60"
  <2>1. GuardianAccount(e, d \cup {c}) = GuardianAccount(e, d)
    BY <1>4 DEF GuardianAccount, Consulted
  <2>2. \A i \in 1..8 : IfDeployed(GovernedBy60[i], d \cup {c}, GovernContract(GovernedBy60[i], e, d \cup {c}))
                      = IfDeployed(GovernedBy60[i], d, GovernContract(GovernedBy60[i], e, d))
    <3>1. \A i \in 1..8 : GovernedBy60[i] # c
      BY <1>4, Names DEF Consulted, Governed
    <3>2. \A i \in 1..8 : GovernContract(GovernedBy60[i], e, d \cup {c}) = GovernContract(GovernedBy60[i], e, d)
      BY <2>1 DEF GovernContract
    <3>3. QED
      BY <3>1, <3>2 DEF IfDeployed
  <2>3. ProtocolGovernance(e, d \cup {c}) = ProtocolGovernance(e, d)
    BY <2>2, Names DEF ProtocolGovernance
  <2>4. QED
    BY <1>4, <2>3 DEF Body
<1>5. CASE s = "76"
  <2>1. \A i \in DOMAIN PublishedNames :
           IfDeployed(PublishedNames[i], d \cup {c},
                  Try(<<Link("L2AddressRegistry", "version", PublishedNames[i], "governor")>>))
         = IfDeployed(PublishedNames[i], d,
                  Try(<<Link("L2AddressRegistry", "version", PublishedNames[i], "governor")>>))
    BY <1>5 DEF Consulted, IfDeployed
  <2>2. AddressRegistry(e, d \cup {c}) = AddressRegistry(e, d)
    BY <2>1 DEF AddressRegistry
  <2>3. QED
    BY <1>5, <2>2 DEF Body
<1>6. CASE s = "86"
  <2>1. WireDrm(d \cup {c}) = WireDrm(d)
    BY <1>6 DEF Consulted, WireDrm
  <2>2. QED
    BY <1>6, <2>1 DEF Body, ResolutionModule
<1>7. CASE s = "87"
  <2>1. VaultB(e, d \cup {c}) = VaultB(e, d)
    BY <1>7 DEF Consulted, VaultB
  <2>2. "ModuleSnapshotRegistry" \notin d \cup {c} <=> "ModuleSnapshotRegistry" \notin d
    BY <1>7 DEF Consulted
  <2>3. /\ DeployVaultB(e, d \cup {c}) = DeployVaultB(e, d)
        /\ WireProfileB(e, d \cup {c}) = WireProfileB(e, d)
    BY <2>1, <2>2 DEF DeployVaultB, WireProfileB, When
  <2>4. QED
    BY <1>7, <2>3 DEF Body, ProfileB
<1>8. CASE s = "90"
  <2>1. /\ GuardedVault(d \cup {c}) = GuardedVault(d)
        /\ GuardianAccount(e, d \cup {c}) = GuardianAccount(e, d)
    BY <1>8 DEF Consulted, GuardedVault, GuardianAccount
  <2>2. QED
    BY <1>8, <2>1 DEF Body, GuardianOps, DeployGuardianOps, EnableRecovery
<1>9. CASE s = "95"
  <2>1. \A i \in 1..28 : StrippedBy95[(i + 1) \div 2] # c
    <3>1. \A i \in 1..28 : (i + 1) \div 2 \in 1..14
      OBVIOUS
    <3>2. QED
      BY <1>9, <3>1, Stripped DEF Consulted
  <2>2. \A i \in 1..28 : \A r :
           StripRole(StrippedBy95[(i + 1) \div 2], r, d \cup {c}) = StripRole(StrippedBy95[(i + 1) \div 2], r, d)
    BY <2>1 DEF StripRole, IfDeployed
  <2>3. FinalizeGovernance(e, d \cup {c}) = FinalizeGovernance(e, d)
    BY <2>2, Stripped DEF FinalizeGovernance
  <2>4. QED
    BY <1>9, <2>3 DEF Body
<1>10. CASE s \in {"10", "14", "16", "20", "30", "32", "40", "50", "70", "75", "80", "85"}
  <2>1. /\ \A k, l : Safe(e, k) = Safe(e, l) /\ ModuleManagement(e, k) = ModuleManagement(e, l)
        /\ \A k, l : EscrowAdmin(e, k) = EscrowAdmin(e, l) /\ GovToken(e, k) = GovToken(e, l)
        /\ \A k, l : Timelock(e, k) = Timelock(e, l) /\ Governor(e, k) = Governor(e, l)
        /\ \A k, l : ReleaseStrategy(e, k) = ReleaseStrategy(e, l)
        /\ \A k, l : TimelockWiring(e, k) = TimelockWiring(e, l)
    BY DEF Safe, ModuleManagement, EscrowAdmin, GovToken, Timelock, Governor, ReleaseStrategy,
           TimelockWiring
  <2>2. /\ \A k, l : CoreEscrow(e, k) = CoreEscrow(e, l) /\ AaveYield(e, k) = AaveYield(e, l)
        /\ \A k, l : CancellationStrategy(e, k) = CancellationStrategy(e, l)
        /\ \A k, l : Dr3Modules(e, k) = Dr3Modules(e, l)
    BY DEF CoreEscrow, AaveYield, CancellationStrategy, Dr3Modules
  <2>3. QED
    BY <1>10, <2>1, <2>2 DEF Body
<1>11. QED
  BY <1>1, <1>2, <1>3, <1>4, <1>5, <1>6, <1>7, <1>8, <1>9, <1>10

-----------------------------------------------------------------------------
(* Any non-empty set of numbers has a least one.                           *)
LEMMA LeastNumber ==
  ASSUME NEW T, T \subseteq Nat, T # {}
  PROVE  \E x \in T : \A y \in T : x <= y
<1> DEFINE R == OpToRel(<, Nat)
<1>1. IsWellFoundedOn(R, Nat)
  BY NatLessThanWellFounded
<1>2. \A x \in Nat, y \in Nat : x < y => <<x, y>> \in R
  BY Zenon DEF OpToRel
<1> HIDE DEF R
<1>3. PICK x \in T : \A y \in T : ~ (<<y, x>> \in R)
  BY <1>1, WFMin
<1>4. ASSUME NEW y \in T PROVE x <= y
  <2>1. ~ (y < x)
    BY <1>2, <1>3, Zenon
  <2>2. x \in Nat /\ y \in Nat
    OBVIOUS
  <2>3. QED
    BY <2>1, <2>2
<1>5. QED
  BY <1>4

-----------------------------------------------------------------------------
(* The order of a run.  The walk goes over scripts only, and takes a       *)
(* script into the order when all it depends on are there.                 *)
Preceded(o, k) == \A s \in Scripts :
                    (\E i \in DOMAIN Dependencies(o[k]) : Dependencies(o[k])[i] \in Tags(s))
                      => \E j \in 1..k - 1 : o[j] = s
Closed(o) == \A k \in 1..Len(o) : Preceded(o, k)
Walks == {p \in Seq(Scripts) \X Seq(Scripts) : Closed(p[1])}

LEMMA LeastOfThem ==
  ASSUME NEW T, T \subseteq Nat, T # {}
  PROVE  LeastOf(T) \in T
BY LeastNumber, Zenon DEF LeastOf

LEMMA DependenciesAreLists ==
  ASSUME NEW s \in Scripts
  PROVE  DOMAIN Dependencies(s) \subseteq Nat
<1>1. \A a, b, c, d, e : /\ DOMAIN <<>> \subseteq Nat
                         /\ DOMAIN <<a>> \subseteq Nat /\ DOMAIN <<a, b>> \subseteq Nat
                         /\ DOMAIN <<a, b, c>> \subseteq Nat /\ DOMAIN <<a, b, c, d>> \subseteq Nat
                         /\ DOMAIN <<a, b, c, d, e>> \subseteq Nat
  OBVIOUS
<1>2. QED
  BY <1>1, Zenon DEF Dependencies

LEMMA FirstOfThem ==
  ASSUME NEW S, S \subseteq Scripts, S # {}
  PROVE  FirstOf(S) \in S
<1> DEFINE T == {i \in DOMAIN Files : Files[i] \in S}
<1>1. T # {}
  BY DEF Scripts
<1>2. T \subseteq Nat
  BY DEF Files
<1>3. LeastOf(T) \in T
  BY <1>1, <1>2, LeastOfThem
<1>4. QED
  BY <1>3 DEF FirstOf

LEMMA AwaitedScript ==
  ASSUME NEW s \in Scripts, NEW o, Awaiting(s, o) # {}
  PROVE  FirstAwaited(s, o) \in Scripts
<1> DEFINE i == LeastOf(Awaiting(s, o))
<1>1. i \in Awaiting(s, o)
  <2>1. Awaiting(s, o) \subseteq Nat
    BY DependenciesAreLists DEF Awaiting
  <2>2. QED
    BY <2>1, LeastOfThem
<1>2. Awaits(s, i, o) # {} /\ Awaits(s, i, o) \subseteq Scripts
  BY <1>1 DEF Awaiting, Awaits, Carrying
<1>3. FirstOf(Awaits(s, i, o)) \in Scripts
  BY <1>2, FirstOfThem
<1>4. QED
  BY <1>3 DEF FirstAwaited

LEMMA WalkState ==
  ASSUME NEW o \in Seq(Scripts), NEW w \in Seq(Scripts), Closed(o)
  PROVE  <<o, w>> \in Walks
<1> DEFINE p == <<o, w>>
<1>1. p \in Seq(Scripts) \X Seq(Scripts) /\ p[1] = o
  OBVIOUS
<1> HIDE DEF p
<1>2. p \in Walks
  BY <1>1, Zenon DEF Walks
<1>3. QED
  BY <1>2 DEF p

LEMMA WalkGoesOn ==
  ASSUME NEW tags, NEW p \in Walks
  PROVE  WalkOn(tags, p) \in Walks
<1> DEFINE o == p[1]
           w == p[2]
           s == Head(w)
           left == Selected(tags) \ Elems(o)
<1>0. o \in Seq(Scripts) /\ w \in Seq(Scripts) /\ Closed(o) /\ p = <<o, w>>
  BY DEF Walks
<1> HIDE DEF o, w
<1>1. CASE w = <<>> /\ left = {}
  BY <1>1 DEF WalkOn, o, w
<1>2. CASE w = <<>> /\ left # {}
  <2>1. WalkOn(tags, p) = <<o, <<FirstOf(left)>>>>
    BY <1>2 DEF WalkOn, o, w
  <2>2. left \subseteq Scripts
    BY DEF Selected
  <2> HIDE DEF left
  <2>3. FirstOf(left) \in Scripts
    BY <1>2, <2>2, FirstOfThem
  <2>4. QED
    BY <1>0, <2>1, <2>3 DEF Walks
<1>3. CASE w # <<>>
  <2>1. s \in Scripts /\ Tail(w) \in Seq(Scripts)
    BY <1>0, <1>3
  <2>2. CASE Awaiting(s, o) = {}
    <3> DEFINE n == Append(o, s)
    <3>1. WalkOn(tags, p) = <<n, Tail(w)>>
      BY <1>3, <2>2, Zenon DEF WalkOn, o, w
    <3>2. n \in Seq(Scripts) /\ Len(n) = Len(o) + 1 /\ n[Len(o) + 1] = s
          /\ \A k \in 1..Len(o) : n[k] = o[k]
      BY <1>0, <2>1
    <3> HIDE DEF n
    <3>3. Len(o) \in Nat /\ Elems(o) = {o[k] : k \in 1..Len(o)}
      BY <1>0 DEF Elems
    <3>4. ASSUME NEW k \in 1..Len(o) PROVE Preceded(n, k)
      <4>1. Preceded(o, k) /\ n[k] = o[k] /\ \A j \in 1..k - 1 : n[j] = o[j]
        BY <1>0, <3>2, <3>3 DEF Closed
      <4>2. QED
        BY <4>1 DEF Preceded
    <3>5. Preceded(n, Len(o) + 1)
      <4>1. ASSUME NEW a \in Scripts, NEW i \in DOMAIN Dependencies(s), Dependencies(s)[i] \in Tags(a)
            PROVE  \E j \in 1..Len(o) : n[j] = a
        <5>1. Awaits(s, i, o) = {}
          BY <2>2 DEF Awaiting
        <5>2. a \in Elems(o)
          BY <4>1, <5>1 DEF Awaits, Carrying
        <5>3. QED
          BY <5>2, <3>2, <3>3
      <4>2. QED
        BY <4>1, <3>2, <3>3 DEF Preceded
    <3>6. Closed(n)
      BY <3>2, <3>3, <3>4, <3>5 DEF Closed
    <3>7. QED
      BY <3>1, <3>2, <3>6, <2>1, WalkState
  <2>3. CASE Awaiting(s, o) # {}
    <3> DEFINE f == FirstAwaited(s, o)
    <3>1. WalkOn(tags, p) = <<o, <<f>> \o w>>
      BY <1>3, <2>3, Zenon DEF WalkOn, o, w
    <3>2. f \in Scripts
      BY <2>1, <2>3, AwaitedScript
    <3> HIDE DEF f
    <3>3. <<f>> \o w \in Seq(Scripts)
      BY <3>2, <1>0
    <3>4. QED
      BY <3>1, <3>3, <1>0, WalkState
  <2>4. QED
    BY <2>2, <2>3
<1>4. QED
  BY <1>1, <1>2, <1>3

(* The walk is defined by recursion on the number of its steps.            *)
WalksTo(tags, a, N, w) ==
  w = [n \in 0..N |-> IF n = 0 THEN a ELSE WalkOn(tags, w[n - 1])]

LEMMA WalkExists ==
  ASSUME NEW tags, NEW a, NEW N \in Nat
  PROVE  \E w : WalksTo(tags, a, N, w)
<1> USE DEF WalksTo
<1> DEFINE Upto(m, w) == WalksTo(tags, a, m, w)
           T == {m \in Nat : ~\E w : Upto(m, w)}
<1> SUFFICES ASSUME T # {} PROVE FALSE
  OBVIOUS
<1>1. PICK m \in T : \A y \in T : m <= y
  BY LeastNumber
<1>2. m # 0
  <2>1. Upto(0, [n \in 0..0 |-> a])
    OBVIOUS
  <2>2. QED
    BY <2>1, <1>1
<1>3. m - 1 \in Nat /\ m - 1 \notin T
  <2>1. m \in Nat /\ m - 1 \in Nat /\ ~(m <= m - 1)
    BY <1>1, <1>2
  <2>2. QED
    BY <1>1, <2>1, Zenon
<1>4. PICK v : Upto(m - 1, v)
  BY <1>3
<1> DEFINE w == [n \in 0..m |-> IF n = m THEN WalkOn(tags, v[m - 1]) ELSE v[n]]
<1>5. ASSUME NEW n \in 0..m PROVE w[n] = IF n = 0 THEN a ELSE WalkOn(tags, w[n - 1])
  <2>1. CASE n = m
    BY <2>1, <1>2, <1>3
  <2>2. CASE n = 0
    BY <2>2, <1>2, <1>3, <1>4
  <2>3. CASE n # m /\ n # 0
    <3>1. n \in 0..m - 1 /\ n - 1 \in 0..m - 1 /\ n - 1 \in 0..m /\ n - 1 # m
      BY <2>3, <1>3
    <3>2. v[n] = WalkOn(tags, v[n - 1])
      BY <1>4, <3>1, <2>3
    <3>3. w[n] = v[n] /\ w[n - 1] = v[n - 1]
      BY <3>1, <2>3
    <3>4. QED
      BY <3>2, <3>3, <2>3
  <2>4. QED
    BY <2>1, <2>2, <2>3
<1>6. Upto(m, w)
  BY <1>5
<1>7. QED
  BY <1>1, <1>6

LEMMA RunOrderWalks ==
  ASSUME NEW tags
  PROVE  \E w : WalksTo(tags, <<<<>>, <<>>>>, MaxWalk, w) /\ RunOrder(tags) = w[MaxWalk][1]
<1> DEFINE a == <<<<>>, <<>>>>
           F(w) == [n \in 0..MaxWalk |-> IF n = 0 THEN a ELSE WalkOn(tags, w[n - 1])]
           walk == CHOOSE w : w = F(w)
<1>1. MaxWalk \in Nat
  BY DEF MaxWalk, Files
<1>2. walk = F(walk)
  <2> HIDE DEF a
  <2>1. \E w : WalksTo(tags, a, MaxWalk, w)
    BY <1>1, WalkExists, Zenon
  <2>2. \E w : w = F(w)
    BY <2>1, Zenon DEF WalksTo
  <2>3. QED
    BY <2>2, Zenon
<1>3. RunOrder(tags) = walk[MaxWalk][1]
  BY Zenon DEF RunOrder
<1> HIDE DEF walk
<1>4. QED
  BY <1>2, <1>3, Zenon DEF WalksTo

(* What every step of the walk keeps holds when it has ended.              *)
LEMMA WalkKeeps ==
  ASSUME NEW tags, NEW w, WalksTo(tags, <<<<>>, <<>>>>, MaxWalk, w),
         NEW P, <<0, <<<<>>, <<>>>>>> \in P,
         \A n \in 0..MaxWalk - 1 : <<n, w[n]>> \in P => <<n + 1, WalkOn(tags, w[n])>> \in P
  PROVE  <<MaxWalk, w[MaxWalk]>> \in P
<1>1. MaxWalk \in Nat
  BY DEF MaxWalk, Files
<1> DEFINE a == <<<<>>, <<>>>>
<1>2. w[0] = a /\ \A n \in 1..MaxWalk : w[n] = WalkOn(tags, w[n - 1])
  <2>1. w = [n \in 0..MaxWalk |-> IF n = 0 THEN a ELSE WalkOn(tags, w[n - 1])]
    BY Zenon DEF WalksTo
  <2> HIDE DEF a
  <2>2. 0 \in 0..MaxWalk /\ \A n \in 1..MaxWalk : n \in 0..MaxWalk /\ n # 0
    BY <1>1
  <2>3. QED
    BY <2>1, <2>2
<1>0. <<0, a>> \in P
  OBVIOUS
<1> HIDE DEF a
<1> DEFINE T == {n \in 0..MaxWalk : <<n, w[n]>> \notin P}
<1>3. T = {}
  <2> SUFFICES ASSUME T # {} PROVE FALSE
    OBVIOUS
  <2>0. T \subseteq Nat
    BY <1>1
  <2>1. PICK m \in T : \A y \in T : m <= y
    BY <2>0, LeastNumber, Zenon
  <2>2. m # 0
    BY <1>0, <1>2, <2>1
  <2>3. m - 1 \in 0..MaxWalk - 1 /\ m - 1 \notin T /\ m \in 1..MaxWalk /\ (m - 1) + 1 = m
    BY <2>1, <2>2, <1>1
  <2>4. <<m - 1, w[m - 1]>> \in P
    BY <2>3, <1>1
  <2>5. <<m, w[m]>> \in P
    BY <1>2, <2>3, <2>4
  <2>6. QED
    BY <2>1, <2>5
<1>4. QED
  BY <1>1, <1>3

LEMMA RunOrderClosed ==
  ASSUME NEW tags
  PROVE  RunOrder(tags) \in Seq(Scripts) /\ Closed(RunOrder(tags))
<1> DEFINE a == <<<<>>, <<>>>>
<1>1. PICK w : WalksTo(tags, a, MaxWalk, w) /\ RunOrder(tags) = w[MaxWalk][1]
  BY RunOrderWalks, Zenon
<1>2. a \in Walks
  <2>1. Closed(<<>>) /\ <<>> \in Seq(Scripts)
    BY DEF Closed
  <2>2. QED
    BY <2>1, WalkState
<1> HIDE DEF a
<1> DEFINE P == Nat \X Walks
<1>3. <<0, a>> \in P /\ \A n \in 0..MaxWalk - 1 :
                           <<n, w[n]>> \in P => <<n + 1, WalkOn(tags, w[n])>> \in P
  BY <1>2, WalkGoesOn
<1> HIDE DEF P
<1>4. <<MaxWalk, w[MaxWalk]>> \in P
  BY <1>1, <1>3, WalkKeeps DEF a
<1>5. w[MaxWalk] \in Walks
  BY <1>4 DEF P
<1>6. QED
  BY <1>1, <1>5 DEF Walks

-----------------------------------------------------------------------------
(* The run: a session of scripts of deploy/, at a block and a step that    *)
(* the current script has.                                                 *)
Environments == {r.env : r \in Runs} \cup {[net |-> "none"]}
Sessions == [todo : Seq(Scripts), at : Nat \X Nat, env : Environments,
             fresh : BOOLEAN, saving : BOOLEAN, caught : BOOLEAN]
IsAt(b, k) == /\ b \in 1..Len(Program) /\ k \in 1..Len(Program[b].steps)
Placed == Running => IsAt(session.at[1], session.at[2])
Course == session \in Sessions /\ deployed \subseteq Contracts /\ Placed

(* A step of the run leads to another position of the same script, or on   *)
(* to the next script or to the end.                                       *)
SameScript(b, k) == /\ session' \in Sessions
                    /\ session'.todo = session.todo /\ session'.env = session.env
                    /\ session'.at = <<b, k>> /\ IsAt(b, k)
                    /\ done' = done
NextScript == /\ session' \in Sessions
              /\ session'.at = <<1, 1>>
              /\ ~session'.fresh /\ ~session'.saving /\ ~session'.caught
              /\ session'.todo = <<>> \/ session'.todo = Tail(session.todo)
              /\ done' \subseteq done \cup ({Script} \cap Handovers)

LEMMA NoRunOK == /\ NoRun \in Sessions /\ NoRun.todo = <<>> /\ NoRun.at = <<1, 1>>
                 /\ ~NoRun.fresh /\ ~NoRun.saving /\ ~NoRun.caught
BY DEF NoRun, Sessions, Environments

LEMMA ProgramOK ==
  ASSUME Course, ~Idle
  PROVE  /\ Script \in Scripts /\ session.todo \in Seq(Scripts) /\ session.todo # <<>>
         /\ Len(Program) \in Nat /\ (Running <=> Len(Program) > 0)
         /\ Len(session.todo) \in Nat /\ Len(session.todo) > 0
         /\ Tail(session.todo) \in Seq(Scripts)
            /\ \A i \in 1..Len(Program) :
              /\ Program[i].kind \in Kinds
              /\ Len(Program[i].steps) \in Nat /\ Len(Program[i].steps) > 0
              /\ \A j \in 1..Len(Program[i].steps) : Legal(Script, Program[i].steps[j])
<1>1. session.todo \in Seq(Scripts) /\ session.todo # <<>>
  BY DEF Course, Sessions, Idle
<1>2. /\ Script \in Scripts /\ Tail(session.todo) \in Seq(Scripts)
      /\ Len(session.todo) \in Nat /\ Len(session.todo) > 0
  BY <1>1 DEF Script
<1>3. /\ Len(Program) \in Nat /\ (Program = <<>>) <=> (Len(Program) = 0)
      /\ \A i \in 1..Len(Program) :
              /\ Program[i].kind \in Kinds
              /\ Len(Program[i].steps) \in Nat /\ Len(Program[i].steps) > 0
              /\ \A j \in 1..Len(Program[i].steps) : Legal(Script, Program[i].steps[j])
  <2>1. deployed \subseteq Contracts
    BY DEF Course
  <2> DEFINE B == Body(Script, session.env, deployed)
  <2>2. /\ Len(B) \in Nat /\ (B = <<>>) <=> (Len(B) = 0)
        /\ \A i \in 1..Len(B) :
              LET b == B[i]
              IN  /\ b.kind \in Kinds
                  /\ Len(b.steps) \in Nat /\ Len(b.steps) > 0
                  /\ DOMAIN b.steps = 1..Len(b.steps)
                  /\ \A j \in 1..Len(b.steps) : Legal(Script, b.steps[j])
    BY <1>2, <2>1, BodyLegal
  <2>3. B = Program
    BY DEF Program
  <2> HIDE DEF B
  <2>4. QED
    BY <2>2, <2>3
<1>4. Running <=> Len(Program) > 0
  BY <1>3 DEF Running
<1>5. QED
  BY <1>1, <1>2, <1>3, <1>4

LEMMA GoToMoves ==
  ASSUME Course, ~Idle, NEW s \in Sessions, s.todo = session.todo, s.env = session.env,
         NEW b \in Nat, NEW k \in Nat, b > 0,
         b <= Len(Program) => k \in 1..Len(Program[b].steps),
         GoTo(s, b, k)
  PROVE  \/ SameScript(b, k) /\ session' = [s EXCEPT !.at = <<b, k>>]
         \/ b > Len(Program) /\ NextScript
<1>1. CASE b <= Len(Program)
  <2>1. session' = [s EXCEPT !.at = <<b, k>>] /\ done' = done
    BY <1>1 DEF GoTo
  <2>2. IsAt(b, k)
    BY <1>1, ProgramOK DEF IsAt
  <2>3. session' \in Sessions /\ session'.todo = session.todo /\ session'.env = session.env
        /\ session'.at = <<b, k>>
    BY <2>1 DEF Sessions
  <2>4. QED
    BY <2>1, <2>2, <2>3 DEF SameScript
<1>2. CASE b > Len(Program)
  <2>1. /\ session' = IF Len(s.todo) = 1 THEN NoRun
                      ELSE [NoRun EXCEPT !.todo = Tail(s.todo), !.env = s.env]
        /\ done' = done \cup ({Script} \cap Handovers)
    BY <1>2, ProgramOK DEF GoTo
  <2>2. CASE Len(s.todo) = 1
    BY <1>2, <2>1, <2>2, NoRunOK DEF NextScript
  <2>3. CASE Len(s.todo) # 1
    <3> DEFINE n == [NoRun EXCEPT !.todo = Tail(s.todo), !.env = s.env]
    <3>1. s.env \in Environments /\ Tail(s.todo) \in Seq(Scripts)
      BY ProgramOK DEF Sessions
    <3>2. n \in Sessions /\ n.todo = Tail(s.todo) /\ n.at = <<1, 1>>
          /\ ~n.fresh /\ ~n.saving /\ ~n.caught
      BY <3>1 DEF NoRun, Sessions
    <3>3. session' = n
      BY <2>1, <2>3
    <3>4. QED
      BY <1>2, <2>1, <3>2, <3>3 DEF NextScript
  <2>4. QED
    BY <2>2, <2>3
<1>3. QED
  BY <1>1, <1>2, ProgramOK

(* Where a step is followed by the next of its block or by the next block. *)
LEMMA AdvanceMoves ==
  ASSUME Course, Running, NEW s \in Sessions, s.todo = session.todo, s.env = session.env,
         s.at = session.at, AdvanceAs(s)
  PROVE  \/ /\ session.at[2] < Len(Block.steps)
            /\ SameScript(session.at[1], session.at[2] + 1)
            /\ session' = [s EXCEPT !.at = <<session.at[1], session.at[2] + 1>>]
         \/ /\ session.at[2] = Len(Block.steps) /\ session.at[1] < Len(Program)
            /\ SameScript(session.at[1] + 1, 1)
            /\ session' = [s EXCEPT !.at = <<session.at[1] + 1, 1>>]
         \/ /\ session.at[2] = Len(Block.steps) /\ session.at[1] = Len(Program)
            /\ NextScript
<1> DEFINE b == session.at[1]
           k == session.at[2]
<1>1. ~Idle /\ b \in Nat /\ k \in Nat
  BY DEF Running, Course, Sessions
<1>2. IsAt(b, k)
  BY DEF Course, Placed
<1>3. /\ Len(Program) \in Nat /\ b \in 1..Len(Program) /\ k \in 1..Len(Block.steps)
      /\ Len(Block.steps) \in Nat
      /\ \A i \in 1..Len(Program) : Len(Program[i].steps) \in Nat /\ Len(Program[i].steps) > 0
  BY <1>1, <1>2, ProgramOK DEF IsAt, Block
<1>4. CASE k < Len(Block.steps)
  <2>1. GoTo(s, b, k + 1)
    BY <1>4 DEF AdvanceAs
  <2>2. b <= Len(Program) /\ k + 1 \in 1..Len(Program[b].steps) /\ k + 1 \in Nat /\ b > 0
    BY <1>1, <1>3, <1>4 DEF Block
  <2>3. SameScript(b, k + 1) /\ session' = [s EXCEPT !.at = <<b, k + 1>>]
    BY <1>1, <1>3, <2>1, <2>2, GoToMoves
  <2>4. QED
    BY <1>4, <2>3
<1>5. CASE k = Len(Block.steps)
  <2>1. GoTo(s, b + 1, 1)
    BY <1>5, <1>3 DEF AdvanceAs
  <2>2. b + 1 \in Nat /\ b + 1 > 0 /\ 1 \in Nat
        /\ (b + 1 <= Len(Program) => 1 \in 1..Len(Program[b + 1].steps))
    BY <1>1, <1>3
  <2>3. \/ SameScript(b + 1, 1) /\ session' = [s EXCEPT !.at = <<b + 1, 1>>]
        \/ b + 1 > Len(Program) /\ NextScript
    BY <1>1, <2>1, <2>2, GoToMoves
  <2>4. SameScript(b + 1, 1) => b < Len(Program)
    BY <1>3 DEF SameScript, IsAt
  <2>5. b + 1 > Len(Program) => b = Len(Program)
    BY <1>3
  <2>6. QED
    BY <1>5, <2>3, <2>4, <2>5
<1>6. QED
  BY <1>3, <1>4, <1>5

LEMMA AfterBlockOK ==
  ASSUME Course, Running
  PROVE  /\ AfterBlock \in session.at[1] + 1 .. Len(Program) + 1
         /\ \A j \in session.at[1] + 1 .. AfterBlock - 1 : Program[j].kind = "inner"
         /\ (session.at[1] < Len(Program) /\ Program[session.at[1] + 1].kind # "inner")
              => AfterBlock = session.at[1] + 1
<1> DEFINE b == session.at[1]
           P(i) == /\ i = Len(Program) + 1 \/ Program[i].kind # "inner"
                   /\ \A j \in b + 1 .. i - 1 : Program[j].kind = "inner"
           T == {i \in b + 1 .. Len(Program) + 1 : i = Len(Program) + 1 \/ Program[i].kind # "inner"}
<1>1. b \in Nat /\ Len(Program) \in Nat /\ b \in 1..Len(Program)
  BY ProgramOK DEF Running, Course, Placed, IsAt
<1>2. T \subseteq Nat /\ T # {}
  <2>1. Len(Program) + 1 \in T
    BY <1>1
  <2>2. QED
    BY <1>1, <2>1
<1>3. PICK m \in T : \A y \in T : m <= y
  BY <1>2, LeastNumber, Zenon
<1>4. m \in b + 1 .. Len(Program) + 1 /\ P(m)
  BY <1>1, <1>3
<1>5. AfterBlock \in b + 1 .. Len(Program) + 1 /\ P(AfterBlock)
  <2>1. AfterBlock = CHOOSE i \in b + 1 .. Len(Program) + 1 : P(i)
    BY DEF AfterBlock
  <2> HIDE DEF P
  <2>2. QED
    BY <1>4, <2>1
<1>6. ASSUME b < Len(Program), Program[b + 1].kind # "inner"
      PROVE  AfterBlock = b + 1
  <2>1. AfterBlock > b + 1 => b + 1 \in b + 1 .. AfterBlock - 1
    BY <1>1, <1>5
  <2>2. QED
    BY <1>1, <1>5, <1>6, <2>1
<1>7. QED
  BY <1>5, <1>6

LEMMA FailMoves ==
  ASSUME Course, Running, NEW error, Fail(error)
  PROVE  \/ /\ Catches(error) /\ AfterBlock \in session.at[1] + 1 .. Len(Program)
            /\ SameScript(AfterBlock, 1)
            /\ session' = [session EXCEPT !.caught = TRUE, !.at = <<AfterBlock, 1>>]
         \/ Catches(error) /\ AfterBlock = Len(Program) + 1 /\ NextScript
         \/ ~Catches(error) /\ Abort /\ NextScript
<1>1. ~Idle /\ session \in Sessions /\ Len(Program) \in Nat /\ session.at[1] \in 1..Len(Program)
  BY ProgramOK DEF Running, Course, Placed, IsAt
<1>2. CASE Catches(error)
  <2> DEFINE s == [session EXCEPT !.caught = TRUE]
  <2>1. GoTo(s, AfterBlock, 1)
    BY <1>2 DEF Fail
  <2>2. s \in Sessions /\ s.todo = session.todo /\ s.env = session.env
    BY <1>1 DEF Sessions
  <2>3. AfterBlock \in session.at[1] + 1 .. Len(Program) + 1
    BY AfterBlockOK
  <2>4. AfterBlock \in Nat /\ 1 \in Nat /\ AfterBlock > 0
        /\ (AfterBlock <= Len(Program) => 1 \in 1..Len(Program[AfterBlock].steps))
    BY <1>1, <2>3, ProgramOK
  <2>5. [s EXCEPT !.at = <<AfterBlock, 1>>]
          = [session EXCEPT !.caught = TRUE, !.at = <<AfterBlock, 1>>]
    BY <1>1 DEF Sessions
  <2> HIDE DEF s
  <2>6. \/ SameScript(AfterBlock, 1) /\ session' = [s EXCEPT !.at = <<AfterBlock, 1>>]
        \/ AfterBlock > Len(Program) /\ NextScript
    BY <1>1, <2>1, <2>2, <2>4, GoToMoves
  <2>7. SameScript(AfterBlock, 1) => AfterBlock \in session.at[1] + 1 .. Len(Program)
    BY <1>1, <2>3 DEF SameScript, IsAt
  <2>8. AfterBlock > Len(Program) => AfterBlock = Len(Program) + 1
    BY <1>1, <2>3
  <2>9. QED
    BY <1>2, <2>5, <2>6, <2>7, <2>8
<1>3. CASE ~Catches(error)
  <2>1. Abort
    BY <1>3 DEF Fail
  <2>2. NextScript
    BY <2>1, NoRunOK DEF Abort, NextScript
  <2>3. QED
    BY <1>3, <2>1, <2>2
<1>4. QED
  BY <1>2, <1>3

-----------------------------------------------------------------------------
(* The step the run is at is one of its script; a contract it creates      *)
(* leaves the program as it was.                                           *)
LEMMA NowLegal ==
  ASSUME Course, Running
  PROVE  /\ Legal(Script, Now) /\ Script \in Scripts /\ ~Idle
         /\ Block = Program[session.at[1]] /\ Block.kind \in Kinds
         /\ session.at[1] \in 1..Len(Program) /\ session.at[2] \in 1..Len(Block.steps)
         /\ session.at = <<session.at[1], session.at[2]>>
         /\ Len(Program) \in Nat /\ Len(Block.steps) \in Nat
         /\ IsAt(session.at[1], session.at[2])
<1>1. ~Idle /\ IsAt(session.at[1], session.at[2])
  BY DEF Running, Course, Placed
<1>2. session.at = <<session.at[1], session.at[2]>>
  BY DEF Course, Sessions
<1>3. QED
  BY <1>1, <1>2, ProgramOK DEF IsAt, Block, Now

Creation == Now.op = "create" /\ deployed' = deployed \cup {Now.on}
LEMMA ProgramSteady ==
  ASSUME Course, Running, session'.todo = session.todo, session'.env = session.env,
         deployed' = deployed \/ Creation
  PROVE  Program' = Program /\ Script' = Script
<1>1. Script' = Script
  BY DEF Script
<1>2. Program' = Body(Script, session.env, deployed')
  BY <1>1 DEF Program
<1> DEFINE B(d) == Body(Script, session.env, d)
<1>3. Program = B(deployed) /\ Program' = B(deployed')
  BY <1>2 DEF Program
<1> HIDE DEF B
<1>4. CASE deployed' = deployed
  BY <1>1, <1>3, <1>4
<1>5. CASE Creation
  <2>1. Now.on \notin Consulted(Script)
    BY <1>5, NowLegal DEF Creation, Legal, Creates
  <2>2. B(deployed \cup {Now.on}) = B(deployed)
    BY <2>1, NowLegal, BodySteady DEF B
  <2>3. QED
    BY <1>1, <1>3, <1>5, <2>2 DEF Creation
<1>6. QED
  BY <1>4, <1>5

(* The two ways a session goes on keep it on course.                       *)
LEMMA SameScriptCourse ==
  ASSUME Course, Running, NEW b, NEW k, SameScript(b, k), deployed' = deployed \/ Creation
  PROVE  Course' /\ Program' = Program /\ Script' = Script /\ Running'
<1>1. session'.todo = session.todo /\ session'.env = session.env /\ session' \in Sessions
      /\ session'.at = <<b, k>> /\ IsAt(b, k)
  BY DEF SameScript
<1>2. Program' = Program /\ Script' = Script
  BY <1>1, ProgramSteady
<1>3. deployed' \subseteq Contracts
  BY NowLegal DEF Course, Creation, Legal, Creates
<1>4. IsAt(b, k)'
  BY <1>1, <1>2 DEF IsAt
<1>5. session'.at[1] = b /\ session'.at[2] = k
  BY <1>1
<1>6. IsAt(session.at[1], session.at[2])'
  BY <1>1, <1>2, <1>5 DEF IsAt
<1>7. Running'
  BY <1>1, <1>2 DEF Running, Idle
<1>8. QED
  BY <1>1, <1>2, <1>3, <1>6, <1>7 DEF Course, Placed

LEMMA StartCourse ==
  ASSUME session' \in Sessions, session'.at = <<1, 1>>, deployed' \subseteq Contracts
  PROVE  Course' /\ session'.at[1] = 1 /\ session'.at[2] = 1
<1>1. session' \in Sessions /\ session'.at = <<1, 1>> /\ session'.todo \in Seq(Scripts)
  BY DEF Sessions
<1>2. ASSUME Running' PROVE IsAt(1, 1)'
  <2> DEFINE s == Head(session'.todo)
             B == Body(s, session'.env, deployed')
  <2>1. session'.todo # <<>>
    BY <1>2 DEF Running, Idle
  <2>2. s \in Scripts
    BY <1>1, <2>1
  <2>3. Program' = B
    BY DEF Program, Script
  <2>4. B # <<>>
    BY <1>2, <2>3 DEF Running
  <2>5. /\ Len(B) \in Nat /\ (B = <<>>) <=> (Len(B) = 0)
        /\ \A i \in 1..Len(B) :
              LET b == B[i]
              IN  /\ b.kind \in Kinds
                  /\ Len(b.steps) \in Nat /\ Len(b.steps) > 0
                  /\ DOMAIN b.steps = 1..Len(b.steps)
                  /\ \A j \in 1..Len(b.steps) : Legal(s, b.steps[j])
    BY <2>2, BodyLegal
  <2> HIDE DEF B
  <2>6. 1 \in 1..Len(B) /\ 1 \in 1..Len(B[1].steps)
    BY <2>4, <2>5
  <2>7. QED
    BY <2>3, <2>6 DEF IsAt
<1>3. session'.at[1] = 1 /\ session'.at[2] = 1
  BY <1>1
<1>4. Placed'
  BY <1>2, <1>3 DEF Placed, IsAt
<1>5. QED
  BY <1>1, <1>3, <1>4 DEF Course

(* Whatever a step of the run or a fault does, the session goes on so.     *)
Moves == (\E b, k : SameScript(b, k)) \/ NextScript
LEMMA AdvanceIsMove ==
  ASSUME Course, Running, Advance
  PROVE  Moves
<1>1. session \in Sessions /\ AdvanceAs(session)
  BY DEF Course, Advance
<1>2. QED
  BY <1>1, AdvanceMoves DEF Moves

LEMMA FailIsMove ==
  ASSUME Course, Running, NEW error, Fail(error)
  PROVE  Moves
BY FailMoves DEF Moves

LEMMA EndIsMove ==
  ASSUME Course, ~Idle, EndScript
  PROVE  NextScript
<1>1. Len(Program) \in Nat /\ session \in Sessions
  BY ProgramOK DEF Course
<1>2. GoTo(session, Len(Program) + 1, 1)
  BY DEF EndScript
<1>3. Len(Program) + 1 \in Nat /\ Len(Program) + 1 > 0 /\ ~(Len(Program) + 1 <= Len(Program))
  BY <1>1
<1>4. \/ SameScript(Len(Program) + 1, 1)
      \/ Len(Program) + 1 > Len(Program) /\ NextScript
  BY <1>1, <1>2, <1>3, GoToMoves
<1>5. ~SameScript(Len(Program) + 1, 1)
  BY <1>1 DEF SameScript, IsAt
<1>6. QED
  BY <1>4, <1>5

LEMMA AbortIsMove ==
  ASSUME Abort
  PROVE  NextScript
BY NoRunOK DEF Abort, NextScript

LEMMA FlagIsMove ==
  ASSUME Course, Running, NEW s \in Sessions, s.todo = session.todo, s.env = session.env,
         s.at = session.at, session' = s, done' = done
  PROVE  SameScript(session.at[1], session.at[2])
BY NowLegal DEF SameScript

LEMMA Flags ==
  ASSUME session \in Sessions
  PROVE  /\ \A f \in BOOLEAN : LET s == [session EXCEPT !.fresh = f]
                               IN  /\ s \in Sessions /\ s.todo = session.todo /\ s.at = session.at
                                   /\ s.env = session.env /\ s.fresh = f
                                   /\ s.saving = session.saving /\ s.caught = session.caught
         /\ \A f \in BOOLEAN : LET s == [session EXCEPT !.saving = f]
                               IN  /\ s \in Sessions /\ s.todo = session.todo /\ s.at = session.at
                                   /\ s.env = session.env /\ s.fresh = session.fresh
                                   /\ s.saving = f /\ s.caught = session.caught
         /\ LET s == [session EXCEPT !.saving = FALSE, !.fresh = FALSE]
            IN  /\ s \in Sessions /\ s.todo = session.todo /\ s.at = session.at
                /\ s.env = session.env /\ ~s.fresh /\ ~s.saving /\ s.caught = session.caught
BY DEF Sessions

LEMMA MovesCourse ==
  ASSUME Course, Running, Moves, deployed' = deployed \/ Creation
  PROVE  Course'
<1>1. CASE NextScript
  <2>1. deployed' \subseteq Contracts
    BY NowLegal DEF Course, Creation, Legal, Creates
  <2>2. QED
    BY <1>1, <2>1, StartCourse DEF NextScript
<1>2. ASSUME NEW b, NEW k, SameScript(b, k) PROVE Course'
  BY <1>2, SameScriptCourse
<1>3. QED
  BY <1>1, <1>2 DEF Moves

LEMMA CurrentIsNow ==
  ASSUME NEW now \in Current
  PROVE  Running /\ now = Now
BY DEF Current

LEMMA ReadingMoves ==
  ASSUME Course, NEW now \in Current,
         RequireStep(now) \/ LinkStep(now) \/ QuitStep(now) \/ QueueStep(now) \/ ActivateStep(now)
  PROVE  Moves /\ deployed' = deployed /\ roles' = roles
<1>1. Running /\ now = Now /\ ~Idle
  BY CurrentIsNow DEF Running
<1>2. deployed' = deployed /\ roles' = roles
  BY DEF RequireStep, LinkStep, QuitStep, QueueStep, ActivateStep, chain
<1>3. Advance \/ (\E error : Fail(error)) \/ EndScript
  BY DEF RequireStep, LinkStep, QuitStep, QueueStep, ActivateStep
<1>4. QED
  BY <1>1, <1>2, <1>3, AdvanceIsMove, FailIsMove, EndIsMove DEF Moves

LEMMA RoleMoves ==
  ASSUME Course, NEW now \in Current, GrantStep(now) \/ RevokeStep(now) \/ TimelockStep(now)
  PROVE  Moves /\ deployed' = deployed
<1>1. Running /\ now = Now
  BY CurrentIsNow
<1>2. deployed' = deployed
  BY DEF GrantStep, RevokeStep, TimelockStep
<1>3. Advance \/ (\E error : Fail(error))
  BY DEF GrantStep, RevokeStep, TimelockStep
<1>4. QED
  BY <1>1, <1>2, <1>3, AdvanceIsMove, FailIsMove

LEMMA CreateMoves ==
  ASSUME Course, NEW now \in Current, CreateStep(now) \/ BeginSave(now) \/ EndSave(now)
  PROVE  Moves /\ (deployed' = deployed \/ Creation)
<1>1. Running /\ now = Now /\ session \in Sessions
  BY CurrentIsNow DEF Course
<1>2. CASE CreateStep(now)
  <2>1. deployed' = deployed \/ Creation
    BY <1>1, <1>2 DEF CreateStep, Creation
  <2>2. \/ Advance \/ Fail("other")
        \/ session' = [session EXCEPT !.fresh = TRUE] /\ done' = done
    BY <1>2 DEF CreateStep
  <2>3. CASE session' = [session EXCEPT !.fresh = TRUE] /\ done' = done
    <3> DEFINE s == [session EXCEPT !.fresh = TRUE]
    <3>1. s \in Sessions /\ s.todo = session.todo /\ s.env = session.env /\ s.at = session.at
      BY <1>1, Flags
    <3>2. session' = s /\ done' = done
      BY <2>3
    <3> HIDE DEF s
    <3>3. QED
      BY <1>1, <2>1, <3>1, <3>2, FlagIsMove DEF Moves
  <2>4. QED
    BY <1>1, <2>1, <2>2, <2>3, AdvanceIsMove, FailIsMove
<1>3. CASE BeginSave(now)
  <2>1. session' = [session EXCEPT !.saving = TRUE] /\ done' = done /\ deployed' = deployed
    BY <1>3 DEF BeginSave, chain
  <2>2. QED
    BY <1>1, <2>1, Flags, FlagIsMove DEF Moves
<1>4. CASE EndSave(now)
  <2> DEFINE s == [session EXCEPT !.saving = FALSE, !.fresh = FALSE]
  <2>1. AdvanceAs(s) /\ deployed' = deployed
    BY <1>4 DEF EndSave, chain
  <2>2. s \in Sessions /\ s.todo = session.todo /\ s.env = session.env /\ s.at = session.at
    BY <1>1, Flags
  <2> HIDE DEF s
  <2>3. QED
    BY <1>1, <2>1, <2>2, AdvanceMoves DEF Moves
<1>5. QED
  BY <1>2, <1>3, <1>4

LEMMA FaultMoves ==
  ASSUME Course, Interrupt \/ ErrorCaught \/ \E now \in Current : ProbeFails(now) \/ VerifyFails(now)
  PROVE  /\ Moves /\ Running /\ deployed' = deployed /\ roles' = roles /\ wired' = wired
         /\ pending' = pending /\ recs' = recs /\ torn' = torn
         /\ faults' = faults + 1 /\ faults < MaxFaults
<1>1. Running
  BY CurrentIsNow DEF Interrupt, ErrorCaught
<1>2. Fault
  BY DEF Interrupt, ErrorCaught, ProbeFails, VerifyFails
<1>3. Abort \/ (\E error : Fail(error)) \/ Advance \/ EndScript
  BY DEF Interrupt, ErrorCaught, ProbeFails, VerifyFails
<1>4. Moves
  BY <1>1, <1>3, AbortIsMove, FailIsMove, AdvanceIsMove, EndIsMove DEF Moves, Running
<1>5. QED
  BY <1>1, <1>2, <1>4 DEF Fault, chain, disk

-----------------------------------------------------------------------------
(* Roles are held on contracts that exist, but for the ledger that profile *)
(* B opens to its facade through the timelock; and they are of their type. *)
RolesOn == \A x \in roles : x[1] \in deployed \/ x[1] = "BondLedger"
RolesTyped == roles \subseteq Contracts \X RoleNames \X Accounts

LEMMA Births ==
  ASSUME NEW c \in Contracts
  PROVE  /\ BirthRoles(c) \subseteq Contracts \X RoleNames \X Accounts
         /\ \A x \in BirthRoles(c) :
              /\ x[1] = c
              /\ x[3] = "deployer" => x[2] \in {ADMIN, TIMELOCK, "governor"}
              /\ x[3] = "deployer" /\ x[2] = TIMELOCK =>
                    <<c, ADMIN, "deployer">> \in BirthRoles(c) /\ c # "TimelockController"
              /\ x[3] = "TimelockController" => c \notin Governed
         /\ c = "TimelockController" => <<c, ADMIN, "deployer">> \in BirthRoles(c)
<1>1. /\ ADMIN \in RoleNames /\ TIMELOCK \in RoleNames /\ "governor" \in RoleNames
      /\ "deployer" \in Accounts /\ "TimelockController" \in Accounts
      /\ ADMIN # TIMELOCK /\ "governor" # TIMELOCK
  BY Members, RolesDiffer DEF RoleNames, TIMELOCK
<1>2. CASE c \in AdminAndTimelock
  <2>1. /\ c \notin AdminOnly /\ c \notin TimelockOwned
        /\ c # "TimelockController" /\ c # "EmergencyRecoveryProposal" /\ c # "L2AddressRegistry"
    BY <1>2 DEF AdminAndTimelock, AdminOnly, TimelockOwned, DRM, DRMB, FacadeB
  <2>2. BirthRoles(c) = {<<c, ADMIN, "deployer">>, <<c, TIMELOCK, "deployer">>}
    BY <1>2, <2>1 DEF BirthRoles
  <2>3. QED
    BY <1>1, <2>1, <2>2
<1>3. CASE c \in AdminOnly
  <2>1. /\ c \notin AdminAndTimelock /\ c \notin TimelockOwned
        /\ c # "TimelockController" /\ c # "EmergencyRecoveryProposal" /\ c # "L2AddressRegistry"
    BY <1>3 DEF AdminAndTimelock, AdminOnly, TimelockOwned, DRM, DRMB, FacadeB
  <2>2. BirthRoles(c) = {<<c, ADMIN, "deployer">>}
    BY <1>3, <2>1 DEF BirthRoles
  <2>3. QED
    BY <1>1, <2>1, <2>2
<1>4. CASE c \in TimelockOwned
  <2>1. /\ c \notin AdminAndTimelock /\ c \notin AdminOnly /\ c \notin Governed
        /\ c # "TimelockController" /\ c # "EmergencyRecoveryProposal" /\ c # "L2AddressRegistry"
    BY <1>4, Names DEF AdminAndTimelock, AdminOnly, TimelockOwned, DRM, DRMB, FacadeB
  <2>2. BirthRoles(c) = {<<c, ADMIN, "TimelockController">>, <<c, TIMELOCK, "TimelockController">>}
    BY <1>4, <2>1 DEF BirthRoles
  <2>3. QED
    BY <1>1, <2>1, <2>2
<1>5. CASE c \notin AdminAndTimelock /\ c \notin AdminOnly /\ c \notin TimelockOwned
  <2>1. CASE c = "TimelockController"
    BY <1>1, <1>5, <2>1, Members DEF BirthRoles
  <2>2. CASE c = "EmergencyRecoveryProposal"
    <3>1. c \notin Governed
      BY <2>2, Names
    <3>2. QED
      BY <1>1, <1>5, <2>2, <3>1 DEF BirthRoles
  <2>3. CASE c = "L2AddressRegistry"
    BY <1>1, <1>5, <2>3 DEF BirthRoles
  <2>4. CASE c \notin {"TimelockController", "EmergencyRecoveryProposal", "L2AddressRegistry"}
    <3>1. BirthRoles(c) = {}
      BY <1>5, <2>4 DEF BirthRoles
    <3>2. QED
      BY <2>4, <3>1
  <2>5. QED
    BY <2>1, <2>2, <2>3, <2>4
<1>6. QED
  BY <1>2, <1>3, <1>4, <1>5

-----------------------------------------------------------------------------
(* What a step does to the roles: nothing; the birth of a contract; a role *)
(* granted by the deployer, who administers the contract; the ledger       *)
(* opened to the facade; a role of the deployer revoked; the escrow        *)
(* registered.                                                             *)
Unmoved  == roles' = roles /\ deployed' = deployed
Birth    == \E c \in Contracts : /\ c \notin deployed /\ deployed' = deployed \cup {c}
                                 /\ roles' = roles \cup BirthRoles(c)
Gift(st) == /\ Grants(Script, st) /\ Holds(st.on, ADMIN, "deployer")
            /\ roles' = roles \cup {<<st.on, st.what, st.who>>}
            /\ deployed' = deployed
Trust    == /\ roles' = roles \cup {<<"BondLedger", "AUTHORIZED_CALLER", FacadeB>>}
            /\ deployed' = deployed
Loss(st) == /\ Revokes(Script, st) /\ Holds(st.on, ADMIN, "deployer")
            /\ roles' = roles \ {<<st.on, st.what, st.who>>}
            /\ deployed' = deployed
Register == /\ roles' = roles \cup {<<"ModuleSnapshotRegistry", "ROLE_ESCROW_CONTRACT", "EscrowVault">>}
            /\ "ModuleSnapshotRegistry" \in deployed /\ deployed' = deployed
RoleChange == Unmoved \/ Birth \/ (\E st : Gift(st)) \/ Trust \/ (\E st : Loss(st)) \/ Register

LEMMA StepChangesRoles ==
  ASSUME Course, NEW now \in Current,
         CreateStep(now) \/ GrantStep(now) \/ RevokeStep(now) \/ TimelockStep(now)
  PROVE  RoleChange
<1>1. now = Now /\ Legal(Script, now)
  BY CurrentIsNow, NowLegal
<1>2. CASE CreateStep(now)
  <2>1. now.on \in Contracts
    BY <1>1, <1>2 DEF CreateStep, Legal, Creates
  <2>2. \/ deployed' = deployed /\ roles' = roles
        \/ now.on \notin deployed /\ deployed' = deployed \cup {now.on}
           /\ roles' = roles \cup BirthRoles(now.on)
    BY <1>2 DEF CreateStep
  <2>3. QED
    BY <2>1, <2>2 DEF RoleChange, Unmoved, Birth
<1>3. CASE GrantStep(now)
  <2>1. Grants(Script, now)
    BY <1>1, <1>3 DEF GrantStep, Legal, Granting
  <2>2. deployed' = deployed
    BY <1>3 DEF GrantStep
  <2>3. roles' = roles \/ (Holds(now.on, ADMIN, "deployer")
                           /\ roles' = roles \cup {<<now.on, now.what, now.who>>})
    BY <1>3 DEF GrantStep
  <2>4. QED
    BY <2>1, <2>2, <2>3 DEF RoleChange, Unmoved, Gift
<1>4. CASE RevokeStep(now)
  <2>1. Revokes(Script, now)
    BY <1>1, <1>4 DEF RevokeStep, Legal
  <2>2. deployed' = deployed
    BY <1>4 DEF RevokeStep
  <2>3. roles' = roles \/ (Holds(now.on, ADMIN, "deployer")
                           /\ roles' = roles \ {<<now.on, now.what, now.who>>})
    BY <1>4 DEF RevokeStep
  <2>4. QED
    BY <2>1, <2>2, <2>3 DEF RoleChange, Unmoved, Loss
<1>5. CASE TimelockStep(now)
  <2>1. now.on = "BondLedger" /\ now.what = "AUTHORIZED_CALLER" /\ now.who = FacadeB
    BY <1>1, <1>5 DEF TimelockStep, Legal
  <2>2. /\ deployed' = deployed
        /\ roles' = roles \/ roles' = roles \cup {<<now.on, now.what, now.who>>}
    BY <1>5 DEF TimelockStep
  <2>3. QED
    BY <2>1, <2>2 DEF RoleChange, Unmoved, Trust
<1>6. QED
  BY <1>2, <1>3, <1>4, <1>5

LEMMA RoleChanges ==
  ASSUME Course, Next
  PROVE  RoleChange
<1>1. ASSUME NEW r \in Runs, StartRun(r) PROVE Unmoved
  BY <1>1 DEF StartRun, chain, Unmoved
<1>2. CASE SkipScript
  BY <1>2 DEF SkipScript, chain, Unmoved, RoleChange
<1>3. ASSUME NEW now \in Current,
             RequireStep(now) \/ LinkStep(now) \/ QuitStep(now) \/ QueueStep(now) \/ ActivateStep(now)
      PROVE  Unmoved
  BY <1>3, ReadingMoves DEF Unmoved
<1>4. ASSUME NEW now \in Current, BeginSave(now) \/ EndSave(now) PROVE Unmoved
  BY <1>4 DEF BeginSave, EndSave, chain, Unmoved
<1>5. DelayPasses => Unmoved
  BY DEF DelayPasses, Unmoved
<1>6. CASE RegisterEscrow
  BY <1>6 DEF RegisterEscrow, RoleChange, Register
<1>7. (Interrupt \/ ErrorCaught \/ \E now \in Current : ProbeFails(now) \/ VerifyFails(now)) => Unmoved
  BY FaultMoves DEF Unmoved
<1>8. QED
  BY <1>1, <1>2, <1>3, <1>4, <1>5, <1>6, <1>7, StepChangesRoles DEF Next, ScriptStep, RoleChange

(* The invariant of the roles alone, and that every change keeps it.       *)
DeployersRoles == /\ \A x \in roles : x[3] = "deployer" => x[2] \in {ADMIN, TIMELOCK, "PROPOSER_ROLE", "governor"}
                  /\ ~Holds("TimelockController", TIMELOCK, "deployer")
RoleInv == RolesTyped /\ RolesOn /\ DeployersRoles

LEMMA RoleInvKept ==
  ASSUME RoleInv, RoleChange, deployed \subseteq Contracts
  PROVE  RoleInv'
<1>1. CASE Unmoved
  BY <1>1 DEF Unmoved, RoleInv, RolesTyped, RolesOn, DeployersRoles, Holds
<1>2. CASE Birth
  <2>1. PICK c \in Contracts : /\ deployed' = deployed \cup {c}
                               /\ roles' = roles \cup BirthRoles(c)
    BY <1>2 DEF Birth
  <2>2. RolesTyped' /\ RolesOn'
    BY <2>1, Births DEF RoleInv, RolesTyped, RolesOn
  <2>3. \A x \in BirthRoles(c) : x[3] = "deployer" => x[2] \in {ADMIN, TIMELOCK, "governor"}
    BY Births
  <2>4. <<"TimelockController", TIMELOCK, "deployer">> \notin BirthRoles(c)
    <3>1. SUFFICES ASSUME NEW x \in BirthRoles(c), x[1] = "TimelockController", x[2] = TIMELOCK,
                          x[3] = "deployer"
                   PROVE  FALSE
      OBVIOUS
    <3>2. x[1] = c
      BY Births
    <3>3. c # "TimelockController"
      BY <3>1, Births
    <3>4. QED
      BY <3>1, <3>2, <3>3
  <2>5. DeployersRoles'
    BY <2>1, <2>3, <2>4 DEF RoleInv, DeployersRoles, Holds
  <2>6. QED
    BY <2>2, <2>5 DEF RoleInv
<1>3. ASSUME NEW st, Gift(st) PROVE RoleInv'
  <2> DEFINE x == <<st.on, st.what, st.who>>
  <2>1. roles' = roles \cup {x} /\ deployed' = deployed /\ Grants(Script, st)
        /\ <<st.on, ADMIN, "deployer">> \in roles
    BY <1>3 DEF Gift, Holds
  <2>2. x \in Contracts \X RoleNames \X Accounts
    BY <2>1 DEF Grants
  <2>3. st.on \in deployed \/ st.on = "BondLedger"
    BY <2>1 DEF RoleInv, RolesOn
  <2>4. /\ st.who = "deployer" => st.what \in {TIMELOCK, "PROPOSER_ROLE"}
        /\ st.what = TIMELOCK => st.on # "TimelockController"
    BY <2>1 DEF Grants
  <2>5. QED
    BY <2>1, <2>2, <2>3, <2>4 DEF RoleInv, RolesTyped, RolesOn, DeployersRoles, Holds
<1>4. CASE Trust
  <2>1. /\ "BondLedger" \in Contracts /\ "AUTHORIZED_CALLER" \in RoleNames /\ FacadeB \in Accounts
        /\ FacadeB # "deployer"
    BY Names, Members DEF FacadeB, RoleNames
  <2>2. QED
    BY <1>4, <2>1 DEF Trust, RoleInv, RolesTyped, RolesOn, DeployersRoles, Holds
<1>5. ASSUME NEW st, Loss(st) PROVE RoleInv'
  <2>1. roles' \subseteq roles /\ deployed' = deployed
    BY <1>5 DEF Loss
  <2>2. QED
    BY <2>1 DEF RoleInv, RolesTyped, RolesOn, DeployersRoles, Holds
<1>6. CASE Register
  <2>1. /\ "ModuleSnapshotRegistry" \in Contracts /\ "ROLE_ESCROW_CONTRACT" \in RoleNames
        /\ "EscrowVault" \in Accounts
    BY Names, Members DEF RoleNames
  <2>2. QED
    BY <1>6, <2>1 DEF Register, RoleInv, RolesTyped, RolesOn, DeployersRoles, Holds
<1>7. QED
  BY <1>1, <1>2, <1>3, <1>4, <1>5, <1>6 DEF RoleChange

-----------------------------------------------------------------------------
LEMMA StartMoves ==
  ASSUME NEW r \in Runs, StartRun(r), deployed \subseteq Contracts
  PROVE  Course' /\ session' \in Sessions /\ deployed' = deployed /\ done' = done
         /\ session'.at[1] = 1 /\ session'.at[2] = 1 /\ session'.env = r.env
         /\ ~session'.fresh /\ ~session'.saving /\ ~session'.caught
<1> DEFINE o == Order[r.tags]
           n == [NoRun EXCEPT !.todo = o, !.env = r.env]
<1>1. o \in Seq(Scripts)
  BY RunOrderClosed DEF Order
<1>2. session' = n /\ deployed' = deployed /\ done' = done
  BY DEF StartRun, chain
<1> HIDE DEF o
<1>3. r.env \in Environments
  BY DEF Environments
<1>4. n \in Sessions /\ n.at = <<1, 1>> /\ ~n.fresh /\ ~n.saving /\ ~n.caught /\ n.env = r.env
  BY <1>1, <1>3 DEF NoRun, Sessions
<1> HIDE DEF n
<1>5. QED
  BY <1>2, <1>4, StartCourse

(* The course is kept by every step of the system.                         *)
LEMMA SkipMoves ==
  ASSUME Course, SkipScript
  PROVE  NextScript /\ deployed' = deployed /\ ~Idle
BY EndIsMove DEF SkipScript, chain

LEMMA CourseKept ==
  ASSUME Course, [Next]_vars
  PROVE  Course'
<1>1. ASSUME session' = session, deployed' = deployed PROVE Course'
  BY <1>1 DEF Course, Placed, Running, Idle, Program, Script, IsAt
<1>2. vars' = vars => Course'
  BY <1>1 DEF vars, chain
<1>3. ASSUME NEW r \in Runs, StartRun(r) PROVE Course'
  BY <1>3, StartMoves DEF Course
<1>4. CASE SkipScript
  <2>1. NextScript /\ deployed' \subseteq Contracts
    BY <1>4, SkipMoves DEF Course
  <2>2. QED
    BY <2>1, StartCourse DEF NextScript
<1>5. CASE DelayPasses \/ RegisterEscrow
  BY <1>1, <1>5 DEF DelayPasses, RegisterEscrow
<1>6. ASSUME NEW now \in Current,
             RequireStep(now) \/ LinkStep(now) \/ QuitStep(now) \/ QueueStep(now) \/ ActivateStep(now)
      PROVE  Course'
  BY <1>6, ReadingMoves, MovesCourse, CurrentIsNow
<1>7. ASSUME NEW now \in Current, GrantStep(now) \/ RevokeStep(now) \/ TimelockStep(now)
      PROVE  Course'
  BY <1>7, RoleMoves, MovesCourse, CurrentIsNow
<1>8. ASSUME NEW now \in Current, CreateStep(now) \/ BeginSave(now) \/ EndSave(now)
      PROVE  Course'
  BY <1>8, CreateMoves, MovesCourse, CurrentIsNow
<1>9. CASE Interrupt \/ ErrorCaught \/ \E now \in Current : ProbeFails(now) \/ VerifyFails(now)
  BY <1>9, FaultMoves, MovesCourse
<1>10. QED
  BY <1>2, <1>3, <1>4, <1>5, <1>6, <1>7, <1>8, <1>9 DEF Next, ScriptStep

LEMMA DoneKept ==
  ASSUME Course, [Next]_vars
  PROVE  done' \subseteq done \cup Handovers
<1>1. Moves => done' \subseteq done \cup Handovers
  BY DEF Moves, SameScript, NextScript
<1>2. ASSUME NEW now \in Current,
             RequireStep(now) \/ LinkStep(now) \/ QuitStep(now) \/ QueueStep(now) \/ ActivateStep(now)
      PROVE  Moves
  BY <1>2, ReadingMoves
<1>3. ASSUME NEW now \in Current, GrantStep(now) \/ RevokeStep(now) \/ TimelockStep(now)
      PROVE  Moves
  BY <1>3, RoleMoves
<1>4. ASSUME NEW now \in Current, CreateStep(now) \/ BeginSave(now) \/ EndSave(now)
      PROVE  Moves
  BY <1>4, CreateMoves
<1>5. (Interrupt \/ ErrorCaught \/ \E now \in Current : ProbeFails(now) \/ VerifyFails(now)) => Moves
  BY FaultMoves
<1>6. SkipScript => NextScript
  BY SkipMoves
<1>7. (DelayPasses \/ RegisterEscrow \/ \E r \in Runs : StartRun(r)) => done' = done
  BY DEF DelayPasses, RegisterEscrow, StartRun
<1>8. QED
  BY <1>1, <1>2, <1>3, <1>4, <1>5, <1>6, <1>7 DEF Next, ScriptStep, Moves, vars

(* What is wired, requested and recorded.                                  *)
BooksTyped == /\ \A w \in wired : w[1] \in Contracts
              /\ \A p \in pending : p[1] \in deployed /\ p[4] \in BOOLEAN
              /\ recs \subseteq Contracts /\ torn \in BOOLEAN /\ faults \in 0..MaxFaults

LEMMA WireKept ==
  ASSUME NEW c \in Contracts, NEW l, NEW v, \A w \in wired : w[1] \in Contracts
  PROVE  \A w \in Wire(c, l, v) : w[1] \in Contracts
BY DEF Wire

LEMMA RequestKept ==
  ASSUME NEW c \in deployed, NEW l, NEW v, \A p \in pending : p[1] \in deployed /\ p[4] \in BOOLEAN
  PROVE  \A p \in Request(c, l, v) : p[1] \in deployed /\ p[4] \in BOOLEAN
<1> DEFINE x == <<c, l, v, FALSE>>
<1>1. x[1] \in deployed /\ x[4] \in BOOLEAN
  OBVIOUS
<1> HIDE DEF x
<1>2. Request(c, l, v) = (pending \ PendingAt(c, l)) \cup {x}
  BY DEF Request, x
<1>3. QED
  BY <1>1, <1>2

LEMMA BooksKept ==
  ASSUME Course, RolesOn, BooksTyped, [Next]_vars
  PROVE  BooksTyped'
<1>1. ASSUME UNCHANGED <<wired, pending, deployed, recs, torn, faults>> PROVE BooksTyped'
  BY <1>1 DEF BooksTyped
<1>2. ASSUME NEW r \in Runs, StartRun(r) PROVE BooksTyped'
  BY <1>1, <1>2 DEF StartRun, chain, disk
<1>3. CASE SkipScript
  BY <1>1, <1>3 DEF SkipScript, chain, disk
<1>4. ASSUME NEW now \in Current, RequireStep(now) \/ QuitStep(now) PROVE BooksTyped'
  BY <1>1, <1>4 DEF RequireStep, QuitStep, chain, disk
<1>5. ASSUME NEW now \in Current, GrantStep(now) \/ RevokeStep(now) \/ TimelockStep(now)
      PROVE BooksTyped'
  BY <1>1, <1>5 DEF GrantStep, RevokeStep, TimelockStep, chain, disk
<1>6. ASSUME NEW now \in Current, CreateStep(now) PROVE BooksTyped'
  <2>1. deployed \subseteq deployed'
    BY <1>6 DEF CreateStep
  <2>2. UNCHANGED <<wired, pending, recs, torn, faults>>
    BY <1>6 DEF CreateStep, disk
  <2>3. QED
    BY <2>1, <2>2 DEF BooksTyped
<1>7. ASSUME NEW now \in Current, BeginSave(now) \/ EndSave(now) PROVE BooksTyped'
  <2>1. now.on \in Contracts
    BY <1>7, CurrentIsNow, NowLegal DEF BeginSave, EndSave, Legal, Creates
  <2>2. recs' \subseteq recs \cup {now.on} /\ torn' \in BOOLEAN /\ UNCHANGED <<wired, pending, deployed, faults>>
    BY <1>7 DEF BeginSave, EndSave, chain
  <2>3. QED
    BY <2>1, <2>2 DEF BooksTyped
<1>8. ASSUME NEW now \in Current, LinkStep(now) PROVE BooksTyped'
  <2>1. now.on \in Contracts
    BY <1>8, CurrentIsNow, NowLegal DEF LinkStep, Legal
  <2>2. UNCHANGED <<pending, deployed, recs, torn, faults>>
        /\ (wired' = wired \/ wired' = Wire(now.on, now.what, now.who))
    BY <1>8 DEF LinkStep, disk
  <2>3. QED
    BY <2>1, <2>2, WireKept DEF BooksTyped
<1>9. ASSUME NEW now \in Current, QueueStep(now) PROVE BooksTyped'
  <2>1. now.on \in Contracts \ {"BondLedger"}
    BY <1>9, CurrentIsNow, NowLegal DEF QueueStep, Legal
  <2>2. UNCHANGED <<wired, deployed, recs, torn, faults>>
        /\ \/ pending' = pending
           \/ /\ Holds(now.on, now.by, "deployer")
              /\ pending' = Request(now.on, now.what, now.who)
    BY <1>9 DEF QueueStep, disk
  <2>3. Holds(now.on, now.by, "deployer") => now.on \in deployed
    BY <2>1 DEF Holds, RolesOn
  <2>4. QED
    BY <2>2, <2>3, RequestKept DEF BooksTyped
<1>10. ASSUME NEW now \in Current, ActivateStep(now) PROVE BooksTyped'
  <2>1. now.on \in Contracts
    BY <1>10, CurrentIsNow, NowLegal DEF ActivateStep, Legal
  <2>2. UNCHANGED <<deployed, recs, torn, faults>> /\ pending' \subseteq pending
        /\ (wired' = wired \/ \E v : wired' = Wire(now.on, now.what, v))
    BY <1>10 DEF ActivateStep, disk
  <2>3. QED
    BY <2>1, <2>2, WireKept DEF BooksTyped
<1>11. CASE DelayPasses
  <2>1. UNCHANGED <<wired, deployed, recs, torn, faults>>
        /\ pending' = {<<p[1], p[2], p[3], TRUE>> : p \in pending}
    BY <1>11 DEF DelayPasses, disk
  <2>2. ASSUME NEW q \in pending' PROVE q[1] \in deployed /\ q[4] \in BOOLEAN
    <3>1. PICK p \in pending : q = <<p[1], p[2], p[3], TRUE>>
      BY <2>1
    <3>2. p[1] \in deployed
      BY DEF BooksTyped
    <3>3. QED
      BY <3>1, <3>2
  <2>3. QED
    BY <2>1, <2>2 DEF BooksTyped
<1>12. CASE RegisterEscrow
  BY <1>1, <1>12 DEF RegisterEscrow, disk
<1>13. CASE Interrupt \/ ErrorCaught \/ \E now \in Current : ProbeFails(now) \/ VerifyFails(now)
  BY <1>13, FaultMoves, FaultsAssumption DEF BooksTyped
<1>14. CASE UNCHANGED vars
  BY <1>1, <1>14 DEF vars, chain, disk
<1>15. QED
  BY <1>2, <1>3, <1>4, <1>5, <1>6, <1>7, <1>8, <1>9, <1>10, <1>11, <1>12, <1>13, <1>14
     DEF Next, ScriptStep

(* The course, the roles and the books together are inductive, and with    *)
(* them the types.                                                         *)
Sound == Course /\ RoleInv /\ BooksTyped /\ done \subseteq Handovers

LEMMA SoundFirst ==
  ASSUME Init
  PROVE  Sound
<1>1. session = NoRun /\ deployed = {} /\ roles = {} /\ wired = {} /\ pending = {} /\ recs = {}
      /\ torn = FALSE /\ done = {} /\ faults = 0
  BY DEF Init
<1>2. Course
  BY <1>1, NoRunOK DEF Course, Placed, Running, Idle
<1>3. RoleInv
  BY <1>1 DEF RoleInv, RolesTyped, RolesOn, DeployersRoles, Holds
<1>4. BooksTyped
  <2>1. 0 \in 0..MaxFaults
    BY FaultsAssumption
  <2>2. faults \in 0..MaxFaults
    BY <1>1, <2>1
  <2>3. recs \subseteq Contracts /\ torn \in BOOLEAN
    BY <1>1
  <2>4. /\ \A w \in wired : w[1] \in Contracts
        /\ \A p \in pending : p[1] \in deployed /\ p[4] \in BOOLEAN
    BY <1>1
  <2>5. QED
    BY <2>2, <2>3, <2>4 DEF BooksTyped
<1>5. QED
  BY <1>1, <1>2, <1>3, <1>4 DEF Sound

LEMMA SoundKept ==
  ASSUME Sound, [Next]_vars
  PROVE  Sound'
<1>1. Course' /\ done' \subseteq Handovers
  BY CourseKept, DoneKept DEF Sound
<1>2. BooksTyped'
  BY BooksKept DEF Sound, RoleInv
<1>3. Next => RoleInv'
  BY RoleChanges, RoleInvKept DEF Sound, Course
<1>4. UNCHANGED vars => RoleInv'
  BY DEF Sound, RoleInv, RolesTyped, RolesOn, DeployersRoles, Holds, vars, chain
<1>5. QED
  BY <1>1, <1>2, <1>3, <1>4 DEF Sound

(* Every run of the deployment stays sound: the session is always at a     *)
(* block and step its script has, and roles are held on what exists.       *)
LEMMA AlwaysSound == Spec => []Sound
BY SoundFirst, SoundKept, PTL DEF Spec

(* The types of everything a deployment keeps.                             *)
THEOREM DeploymentTyped == Spec => []TypeOK
<1>1. Sound => TypeOK
  BY DEF Sound, Course, Sessions, RoleInv, RolesTyped, BooksTyped, TypeOK
<1>2. QED
  BY <1>1, AlwaysSound, PTL

-----------------------------------------------------------------------------
(* The steps of the system sorted by whether a script is at a step of its  *)
(* own: then the call it is at is made or a fault strikes; otherwise a run *)
(* may start at its first step, a script with nothing to do is passed over *)
(* or the chain goes on by itself.                                         *)
CallOf(now) == \/ RequireStep(now) \/ CreateStep(now) \/ BeginSave(now) \/ EndSave(now)
               \/ GrantStep(now) \/ RevokeStep(now) \/ TimelockStep(now) \/ LinkStep(now)
               \/ QuitStep(now) \/ QueueStep(now) \/ ActivateStep(now)
Struck == Interrupt \/ ErrorCaught \/ \E now \in Current : ProbeFails(now) \/ VerifyFails(now)
AtStart == /\ session.at[1] = 1 /\ session.at[2] = 1
           /\ ~session.fresh /\ ~session.saving /\ ~session.caught

LEMMA RunningNext ==
  ASSUME Course, Running, Next
  PROVE  /\ CallOf(Now) \/ Struck
         /\ CallOf(Now) => faults' = faults
<1>1. ~Idle /\ Program # <<>> /\ Current = {Now}
  BY DEF Running, Current
<1>2. CallOf(Now) \/ Struck
  BY <1>1 DEF Next, ScriptStep, StartRun, SkipScript, DelayPasses, RegisterEscrow, CallOf, Struck
<1>3. CallOf(Now) => faults' = faults
  BY DEF CallOf, RequireStep, CreateStep, BeginSave, EndSave, GrantStep, RevokeStep, TimelockStep,
         LinkStep, QuitStep, QueueStep, ActivateStep
<1>4. QED
  BY <1>2, <1>3

LEMMA RunningMoves ==
  ASSUME Course, Running, Next
  PROVE  \/ NextScript /\ AtStart'
         \/ /\ \E b, k : SameScript(b, k)
            /\ Running' /\ Script' = Script /\ Program' = Program
<1>1. Now \in Current
  BY DEF Current
<1>2. Moves /\ (deployed' = deployed \/ Creation)
  <2>1. Struck => Moves /\ deployed' = deployed
    BY FaultMoves DEF Struck
  <2>2. CallOf(Now) => Moves /\ (deployed' = deployed \/ Creation)
    BY <1>1, ReadingMoves, RoleMoves, CreateMoves DEF CallOf
  <2>3. QED
    BY <2>1, <2>2, RunningNext
<1>3. NextScript => AtStart'
  BY DEF NextScript, AtStart
<1>4. ASSUME NEW b, NEW k, SameScript(b, k)
      PROVE  Running' /\ Script' = Script /\ Program' = Program
  BY <1>2, <1>4, SameScriptCourse
<1>5. QED
  BY <1>2, <1>3, <1>4 DEF Moves

LEMMA PausedNext ==
  ASSUME Course, ~Running, [Next]_vars
  PROVE  /\ ~Running' \/ AtStart'
         /\ session' = session \/ AtStart'
         /\ faults' = faults /\ deployed' = deployed /\ recs' = recs /\ torn' = torn
         /\ roles' = roles \/ Register
<1>1. Current = {} /\ ~Interrupt /\ ~ErrorCaught
  BY DEF Current, Interrupt, ErrorCaught
<1>2. \/ \E r \in Runs : StartRun(r)
      \/ SkipScript \/ DelayPasses \/ RegisterEscrow \/ UNCHANGED vars
  BY <1>1 DEF Next, ScriptStep
<1>3. (session' = session /\ deployed' = deployed) => ~Running'
  BY DEF Running, Idle, Program, Script
<1>4. ASSUME NEW r \in Runs, StartRun(r)
      PROVE  AtStart' /\ UNCHANGED <<faults, deployed, recs, torn, roles>>
  <2>1. UNCHANGED <<faults, deployed, recs, torn, roles>>
    BY <1>4 DEF StartRun, chain, disk
  <2>2. AtStart'
    BY <1>4, StartMoves DEF AtStart, Course
  <2>3. QED
    BY <2>1, <2>2
<1>5. SkipScript => AtStart' /\ UNCHANGED <<faults, deployed, recs, torn, roles>>
  <2>1. SkipScript => UNCHANGED <<faults, deployed, recs, torn, roles>>
    BY DEF SkipScript, chain, disk
  <2>2. SkipScript => AtStart'
    BY SkipMoves DEF NextScript, AtStart
  <2>3. QED
    BY <2>1, <2>2
<1>6. DelayPasses => UNCHANGED <<session, faults, deployed, recs, torn, roles>>
  BY DEF DelayPasses, disk
<1>7. RegisterEscrow => UNCHANGED <<session, faults, deployed, recs, torn>> /\ Register
  BY DEF RegisterEscrow, Register, disk
<1>8. UNCHANGED vars => UNCHANGED <<session, faults, deployed, recs, torn, roles>>
  BY DEF vars, chain, disk
<1>9. QED
  BY <1>2, <1>3, <1>4, <1>5, <1>6, <1>7, <1>8

(* Where nothing changes, the run is where it was.                         *)
LEMMA StillThere ==
  ASSUME UNCHANGED vars
  PROVE  /\ UNCHANGED <<deployed, roles, recs, torn, session, faults>>
         /\ Running' = Running /\ Script' = Script /\ Program' = Program
         /\ Block' = Block /\ Now' = Now /\ Current' = Current /\ Idle' = Idle
BY DEF vars, chain, disk, Running, Idle, Program, Script, Block, Now, Current

-----------------------------------------------------------------------------
(* The timelock.  Inside deploy/50 the governor holds every role of the    *)
(* grants that lie behind, for a failing grant is not caught; nothing but  *)
(* the last step of deploy/50 takes the administration of the timelock     *)
(* from the deployer.                                                      *)
GovernorHolds(r) == Holds("TimelockController", r, "GovGovernor")
WiringInv == (Running /\ Script = "50") =>
               /\ session.at[2] >= 3 => GovernorHolds("PROPOSER_ROLE")
               /\ session.at[2] >= 4 => GovernorHolds("CANCELLER_ROLE")

LEMMA WiringProgram ==
  ASSUME Course, Running, Script = "50"
  PROVE  /\ Len(Program) = 1 /\ Block.kind = "must" /\ Len(Block.steps) = 5
         /\ session.at[1] = 1 /\ session.at[2] \in 1..5
         /\ session.at[2] = 1 => Now.op = "require"
         /\ session.at[2] = 2 => Now = Grant("TimelockController", "PROPOSER_ROLE", "GovGovernor")
         /\ session.at[2] = 3 => Now = Grant("TimelockController", "CANCELLER_ROLE", "GovGovernor")
         /\ session.at[2] = 4 => Now = Grant("TimelockController", ADMIN, "TimelockController")
         /\ session.at[2] = 5 => Now = Revoke("TimelockController", ADMIN, "deployer")
<1> DEFINE q == <<Require({}, {"TimelockController", "GovGovernor"}),
           Grant("TimelockController", "PROPOSER_ROLE", "GovGovernor"),
           Grant("TimelockController", "CANCELLER_ROLE", "GovGovernor"),
           Grant("TimelockController", ADMIN, "TimelockController"),
           Revoke("TimelockController", ADMIN, "deployer")>>
<1>1. Program = <<Must(q)>>
  BY DEF Program, Body, TimelockWiring
<1>2. Len(q) = 5 /\ q[1].op = "require"
      /\ q[2] = Grant("TimelockController", "PROPOSER_ROLE", "GovGovernor")
      /\ q[3] = Grant("TimelockController", "CANCELLER_ROLE", "GovGovernor")
      /\ q[4] = Grant("TimelockController", ADMIN, "TimelockController")
      /\ q[5] = Revoke("TimelockController", ADMIN, "deployer")
  BY DEF Require, Step
<1> HIDE DEF q
<1>3. Must(q).steps = q /\ Must(q).kind = "must"
  BY DEF Must
<1>4. Len(Program) = 1 /\ Program[1] = Must(q)
  BY <1>1
<1>5. session.at[1] = 1 /\ Block = Must(q) /\ session.at[2] \in 1..5
  <2>1. session.at[1] \in 1..1
    BY <1>4, NowLegal
  <2>2. session.at[1] = 1
    BY <2>1
  <2>3. Block = Must(q)
    BY <1>4, <2>2 DEF Block
  <2>4. session.at[2] \in 1..Len(Block.steps)
    BY NowLegal
  <2>5. QED
    BY <1>2, <1>3, <2>2, <2>3, <2>4
<1>6. Now = q[session.at[2]]
  BY <1>3, <1>5 DEF Now
<1>7. QED
  BY <1>2, <1>3, <1>4, <1>5, <1>6

(* A call in deploy/50 that does not stop the run has succeeded.           *)
LEMMA WiringStep ==
  ASSUME Sound, Running, Next, Script = "50"
  PROVE  \/ NextScript /\ AtStart' 
         \/ /\ session'.at[2] = session.at[2] + 1 /\ session.at[2] \in 1..4
            /\ session.at[2] = 2 => GovernorHolds("PROPOSER_ROLE")'
            /\ session.at[2] = 3 => GovernorHolds("CANCELLER_ROLE")'
<1>1. Course
  BY DEF Sound
<1>2. NextScript => AtStart'
  BY DEF NextScript, AtStart
<1>3. Struck => NextScript /\ roles' = roles
  <2>1. ~ErrorCaught
    BY <1>1, WiringProgram DEF ErrorCaught
  <2>2. Now.op \notin {"create", "grantIfKnown"}
    BY <1>1, WiringProgram DEF Grant, Revoke, Step
  <2>3. \A now \in Current : ~ProbeFails(now) /\ ~VerifyFails(now)
    BY <2>2, CurrentIsNow DEF ProbeFails, VerifyFails
  <2>4. Interrupt => NextScript /\ roles' = roles
    BY AbortIsMove DEF Interrupt, Fault, chain
  <2>5. QED
    BY <2>1, <2>3, <2>4 DEF Struck
<1>4. \A error : Fail(error) => NextScript
  <2>1. \A error : ~Catches(error)
    BY <1>1, WiringProgram DEF Catches
  <2>2. QED
    BY <1>1, <2>1, FailMoves
<1>5. ASSUME Advance
      PROVE  \/ session.at[2] = 5 /\ NextScript
             \/ session.at[2] \in 1..4 /\ session'.at[2] = session.at[2] + 1
  <2>2. /\ Len(Program) = 1 /\ Len(Block.steps) = 5 /\ session.at[1] = 1 /\ session.at[2] \in 1..5
        /\ session \in Sessions
    BY <1>1, WiringProgram DEF Course
  <2>3. \/ session.at[2] < 5 /\ SameScript(1, session.at[2] + 1)
        \/ session.at[2] = 5 /\ NextScript
    BY <1>1, <1>5, <2>2, AdvanceMoves DEF Advance
  <2>4. QED
    BY <2>2, <2>3 DEF SameScript
<1>6. ASSUME session.at[2] = 1, CallOf(Now)
      PROVE  NextScript \/ session'.at[2] = session.at[2] + 1
  <2>1. Now.op = "require"
    BY <1>1, <1>6, WiringProgram
  <2>2. RequireStep(Now)
    BY <1>6, <2>1 DEF CallOf, CreateStep, BeginSave, EndSave, GrantStep, RevokeStep, TimelockStep,
       LinkStep, QuitStep, QueueStep, ActivateStep
  <2>3. Advance \/ Fail("other")
    BY <2>2 DEF RequireStep
  <2>4. QED
    BY <1>4, <1>5, <1>6, <2>3
<1>7. ASSUME session.at[2] \in 2..4, CallOf(Now)
      PROVE  \/ NextScript
             \/ /\ session'.at[2] = session.at[2] + 1
                /\ <<Now.on, Now.what, Now.who>> \in roles'
  <2>1. Now.op = "grant"
    BY <1>1, <1>7, WiringProgram DEF Grant, Step
  <2>2. GrantStep(Now)
    BY <1>7, <2>1 DEF CallOf, CreateStep, BeginSave, EndSave, RequireStep, RevokeStep, TimelockStep,
       LinkStep, QuitStep, QueueStep, ActivateStep
  <2>3. \/ Fail("unauthorized")
        \/ Advance /\ <<Now.on, Now.what, Now.who>> \in roles'
    BY <2>1, <2>2 DEF GrantStep, Holds
  <2>4. QED
    BY <1>4, <1>5, <1>7, <2>3
<1>8. ASSUME session.at[2] = 5, CallOf(Now)
      PROVE  RevokeStep(Now) /\ NextScript
  <2>1. Now.op = "revoke"
    BY <1>1, <1>8, WiringProgram DEF Revoke, Step
  <2>2. RevokeStep(Now)
    BY <1>8, <2>1 DEF CallOf, CreateStep, BeginSave, EndSave, RequireStep, GrantStep, TimelockStep,
       LinkStep, QuitStep, QueueStep, ActivateStep
  <2>3. Advance \/ Fail("unauthorized")
    BY <2>2 DEF RevokeStep
  <2>4. QED
    BY <1>4, <1>5, <1>8, <2>2, <2>3
<1>9. ASSUME <<Now.on, Now.what, Now.who>> \in roles'
      PROVE  /\ session.at[2] = 2 => GovernorHolds("PROPOSER_ROLE")'
             /\ session.at[2] = 3 => GovernorHolds("CANCELLER_ROLE")'
  <2>1. session.at[2] = 2 => <<Now.on, Now.what, Now.who>> = <<"TimelockController", "PROPOSER_ROLE", "GovGovernor">>
    BY <1>1, WiringProgram DEF Grant, Step
  <2>2. session.at[2] = 3 => <<Now.on, Now.what, Now.who>> = <<"TimelockController", "CANCELLER_ROLE", "GovGovernor">>
    BY <1>1, WiringProgram DEF Grant, Step
  <2>3. QED
    BY <1>9, <2>1, <2>2 DEF GovernorHolds, Holds
<1>10. session.at[2] \in 1..5 /\ (CallOf(Now) \/ Struck)
  BY <1>1, WiringProgram, RunningNext
<1>11. QED
  BY <1>2, <1>3, <1>6, <1>7, <1>8, <1>9, <1>10 

-----------------------------------------------------------------------------
(* deploy/95: 28 blocks of one step, two for each contract, of which every *)
(* one takes a role from the deployer or passes over a contract that does  *)
(* not exist.                                                              *)
StrippedAt(j) == StrippedBy95[(j + 1) \div 2]
RoleAt(j)     == IF j % 2 = 1 THEN TIMELOCK ELSE ADMIN
Taken(j)      == ~Holds(StrippedAt(j), RoleAt(j), "deployer")

LEMMA StripTargets ==
  /\ \A j \in 1..28 : /\ StrippedAt(j) \notin {"TimelockController", "BondLedger"}
                      /\ RoleAt(j) \in {TIMELOCK, ADMIN}
                      /\ j % 2 = 0 => /\ RoleAt(j) = ADMIN /\ j - 1 \in 1..28
                                      /\ StrippedAt(j - 1) = StrippedAt(j) /\ RoleAt(j - 1) = TIMELOCK
                      /\ j % 2 # 0 => RoleAt(j) = TIMELOCK
  /\ StrippedAt(3) = "EscrowVault" /\ StrippedAt(4) = "EscrowVault"
  /\ StrippedAt(5) = "EscrowGovernanceTimelock" /\ StrippedAt(6) = "EscrowGovernanceTimelock"
  /\ StrippedAt(15) = "ModuleSnapshotRegistry" /\ StrippedAt(16) = "ModuleSnapshotRegistry"
  /\ \A j \in {3, 5, 15} : RoleAt(j) = TIMELOCK
  /\ \A j \in {4, 6, 16} : RoleAt(j) = ADMIN
<1>1. \A j \in 1..28 : (j + 1) \div 2 \in 1..14
  OBVIOUS
<1>2. \A j \in 1..28 : j % 2 = 0 => j - 1 \in 1..28 /\ ((j - 1) + 1) \div 2 = (j + 1) \div 2
                                    /\ (j - 1) % 2 = 1
  OBVIOUS
<1>3. \A j \in 1..28 : j % 2 # 0 => j % 2 = 1
  OBVIOUS
<1>4. /\ (3 + 1) \div 2 = 2 /\ (4 + 1) \div 2 = 2 /\ (5 + 1) \div 2 = 3 /\ (6 + 1) \div 2 = 3
      /\ (15 + 1) \div 2 = 8 /\ (16 + 1) \div 2 = 8
      /\ \A j \in {3, 5, 15} : j % 2 = 1
      /\ \A j \in {4, 6, 16} : j % 2 = 0
  OBVIOUS
<1>5. \A j \in 1..28 : StrippedAt(j) \notin {"TimelockController", "BondLedger"}
  BY <1>1, Stripped DEF StrippedAt
<1>6. \A j \in 1..28 : RoleAt(j) \in {TIMELOCK, ADMIN}
  BY DEF RoleAt
<1>7. \A j \in 1..28 : j % 2 = 0 => /\ RoleAt(j) = ADMIN /\ j - 1 \in 1..28
                                    /\ StrippedAt(j - 1) = StrippedAt(j) /\ RoleAt(j - 1) = TIMELOCK
  BY <1>2 DEF RoleAt, StrippedAt
<1>8. \A j \in 1..28 : j % 2 # 0 => RoleAt(j) = TIMELOCK
  BY <1>3 DEF RoleAt
<1>9. QED
  BY <1>4, <1>5, <1>6, <1>7, <1>8, Stripped DEF StrippedAt, RoleAt

LEMMA FinalizingProgram ==
  ASSUME Course, ~Idle, Script = "95"
  PROVE  /\ Running /\ Len(Program) = 28 /\ session.at[1] \in 1..28
         /\ \A i \in 1..28 : Program[i].kind # "inner"
         /\ Len(Block.steps) = 1 /\ session.at[2] = 1
         /\ \/ /\ StrippedAt(session.at[1]) \in deployed /\ Block.kind = "try"
               /\ Now = Revoke(StrippedAt(session.at[1]), RoleAt(session.at[1]), "deployer")
            \/ /\ StrippedAt(session.at[1]) \notin deployed /\ Block.kind = "must"
               /\ Now = Require({}, {})
<1> DEFINE f == [i \in 1..28 |-> StripRole(StrippedAt(i), RoleAt(i), deployed)]
<1>1. Program = f
  BY Stripped DEF Program, Body, FinalizeGovernance, StrippedAt, RoleAt
<1>2. \A i \in 1..28 :
        \/ /\ StrippedAt(i) \in deployed
           /\ f[i] = Try(<<Revoke(StrippedAt(i), RoleAt(i), "deployer")>>)
        \/ StrippedAt(i) \notin deployed /\ f[i] = Must(<<Require({}, {})>>)
  BY DEF StripRole, IfDeployed
<1>3. Len(f) = 28 /\ f # <<>>
  OBVIOUS
<1> HIDE DEF f
<1>4. Running /\ Len(Program) = 28
  BY <1>1, <1>3 DEF Running
<1>5. session.at[1] \in 1..28 /\ session.at[2] \in 1..Len(Block.steps) /\ Block = f[session.at[1]]
  BY <1>1, <1>4, NowLegal
<1>6. \A i \in 1..28 : Program[i].kind # "inner"
  BY <1>1, <1>2 DEF Try, Must
<1>7. \A x : /\ Try(<<x>>).kind = "try" /\ Try(<<x>>).steps = <<x>>
             /\ Must(<<x>>).kind = "must" /\ Must(<<x>>).steps = <<x>>
             /\ Len(<<x>>) = 1 /\ <<x>>[1] = x
  BY DEF Try, Must
<1>8. CASE StrippedAt(session.at[1]) \in deployed
  <2> DEFINE x == Revoke(StrippedAt(session.at[1]), RoleAt(session.at[1]), "deployer")
  <2>1. Block = Try(<<x>>)
    BY <1>2, <1>5, <1>8
  <2> HIDE DEF x
  <2>2. Block.kind = "try" /\ Block.steps = <<x>> /\ Len(Block.steps) = 1
    BY <1>7, <2>1
  <2>3. session.at[2] = 1
    BY <1>5, <2>2
  <2>4. Now = x
    BY <2>2, <2>3 DEF Now
  <2>5. QED
    BY <1>4, <1>5, <1>6, <1>8, <2>2, <2>3, <2>4 DEF x
<1>9. CASE StrippedAt(session.at[1]) \notin deployed
  <2> DEFINE x == Require({}, {})
  <2>1. Block = Must(<<x>>)
    BY <1>2, <1>5, <1>9
  <2> HIDE DEF x
  <2>2. Block.kind = "must" /\ Block.steps = <<x>> /\ Len(Block.steps) = 1
    BY <1>7, <2>1
  <2>3. session.at[2] = 1
    BY <1>5, <2>2
  <2>4. Now = x
    BY <2>2, <2>3 DEF Now
  <2>5. QED
    BY <1>4, <1>5, <1>6, <1>9, <2>2, <2>3, <2>4 DEF x
<1>10. QED
  BY <1>8, <1>9

(* Only deploy/50 and deploy/95 take a role away, each a known one.        *)
LEMMA RevokeAt ==
  ASSUME Course, Running, Now.op = "revoke"
  PROVE  \/ /\ Script = "50" /\ session.at[2] = 5
            /\ Now = Revoke("TimelockController", ADMIN, "deployer")
         \/ /\ Script = "95" /\ StrippedAt(session.at[1]) \in deployed /\ Block.kind = "try"
            /\ Now = Revoke(StrippedAt(session.at[1]), RoleAt(session.at[1]), "deployer")
<1>1. Script \in {"50", "95"} /\ ~Idle
  BY NowLegal DEF Legal, Revokes
<1>2. CASE Script = "50"
  <2>1. \A r, a : Now # Grant("TimelockController", r, a)
    BY DEF Grant, Step
  <2>2. session.at[2] \in 1..5 /\ session.at[2] \notin {1, 2, 3, 4}
    BY <1>2, <2>1, WiringProgram
  <2>3. session.at[2] = 5
    BY <2>2
  <2>4. QED
    BY <1>2, <2>3, WiringProgram
<1>3. CASE Script = "95"
  <2>1. Now # Require({}, {})
    <3>1. Require({}, {}).op = "require"
      BY DEF Require, Step
    <3>2. QED
      BY <3>1
  <2>2. /\ StrippedAt(session.at[1]) \in deployed /\ Block.kind = "try"
        /\ Now = Revoke(StrippedAt(session.at[1]), RoleAt(session.at[1]), "deployer")
    BY <1>1, <1>3, <2>1, FinalizingProgram
  <2>3. QED
    BY <1>3, <2>2
<1>4. QED
  BY <1>1, <1>2, <1>3

(* The invariant of the timelock.                                          *)
TimelockInv == TimelockGoverned /\ WiringInv

LEMMA RolesGrow ==
  ASSUME Course, [Next]_vars
  PROVE  \/ roles \subseteq roles' /\ deployed' = deployed
         \/ Birth
         \/ \E st : Loss(st) /\ deployed' = deployed
<1>1. UNCHANGED vars => Unmoved
  BY StillThere DEF Unmoved
<1>2. RoleChange
  BY <1>1, RoleChanges DEF RoleChange
<1>3. QED
  BY <1>2 DEF RoleChange, Unmoved, Gift, Trust, Loss, Register

LEMMA GovernorKeeps ==
  ASSUME Course, [Next]_vars, NEW r, GovernorHolds(r)
  PROVE  GovernorHolds(r)'
<1>1. <<"TimelockController", r, "GovGovernor">> \in roles
  BY DEF GovernorHolds, Holds
<1>2. ASSUME NEW st, Loss(st) PROVE <<"TimelockController", r, "GovGovernor">> \in roles'
  <2>1. roles' = roles \ {<<st.on, st.what, st.who>>} /\ st.who = "deployer"
    BY <1>2 DEF Loss, Revokes
  <2>2. QED
    BY <1>1, <2>1
<1>3. <<"TimelockController", r, "GovGovernor">> \in roles'
  BY <1>1, <1>2, RolesGrow DEF Birth
<1>4. QED
  BY <1>3 DEF GovernorHolds, Holds

LEMMA WiringKept ==
  ASSUME Sound, WiringInv, [Next]_vars
  PROVE  WiringInv'
<1>1. Course
  BY DEF Sound
<1>2. AtStart' => WiringInv'
  BY DEF AtStart, WiringInv
<1>3. CASE UNCHANGED vars
  BY <1>3, StillThere DEF WiringInv, GovernorHolds, Holds
<1>4. CASE ~Running
  BY <1>1, <1>2, <1>4, PausedNext DEF WiringInv
<1>5. CASE Running /\ Next /\ Script # "50"
  BY <1>1, <1>2, <1>5, RunningMoves DEF WiringInv
<1>6. CASE Running /\ Next /\ Script = "50"
  <2>1. CASE AtStart'
    BY <1>2, <2>1
  <2>2. CASE ~AtStart'
    <3>1. /\ session'.at[2] = session.at[2] + 1 /\ session.at[2] \in 1..4
          /\ session.at[2] = 2 => GovernorHolds("PROPOSER_ROLE")'
          /\ session.at[2] = 3 => GovernorHolds("CANCELLER_ROLE")'
      BY <1>6, <2>2, WiringStep
    <3>2. session'.at[2] >= 3 => GovernorHolds("PROPOSER_ROLE")'
      BY <1>1, <1>6, <3>1, GovernorKeeps DEF WiringInv
    <3>3. session'.at[2] >= 4 => GovernorHolds("CANCELLER_ROLE")'
      BY <1>1, <1>6, <3>1, GovernorKeeps DEF WiringInv
    <3>4. QED
      BY <3>2, <3>3 DEF WiringInv
  <2>3. QED
    BY <2>1, <2>2
<1>7. QED
  BY <1>3, <1>4, <1>5, <1>6

LEMMA GovernedKept ==
  ASSUME Sound, TimelockInv, [Next]_vars
  PROVE  TimelockGoverned'
<1> DEFINE key == <<"TimelockController", ADMIN, "deployer">>
<1>1. Course
  BY DEF Sound
<1>2. SUFFICES ASSUME "TimelockController" \in deployed', key \notin roles'
               PROVE  GovernorHolds("PROPOSER_ROLE")' /\ GovernorHolds("CANCELLER_ROLE")'
  BY DEF TimelockGoverned, GovernorHolds, Holds
<1>3. CASE "TimelockController" \in deployed /\ key \notin roles
  <2>1. GovernorHolds("PROPOSER_ROLE") /\ GovernorHolds("CANCELLER_ROLE")
    BY <1>3 DEF TimelockInv, TimelockGoverned, GovernorHolds, Holds
  <2>2. QED
    BY <1>1, <2>1, GovernorKeeps
<1>4. CASE "TimelockController" \notin deployed
  <2>1. Birth
    <3>1. ASSUME NEW st, Loss(st) PROVE deployed' = deployed
      BY <3>1 DEF Loss
    <3>2. QED
      BY <1>1, <1>2, <1>4, <3>1, RolesGrow
  <2>2. PICK c \in Contracts : deployed' = deployed \cup {c} /\ roles' = roles \cup BirthRoles(c)
    BY <2>1 DEF Birth
  <2>3. c = "TimelockController"
    BY <1>2, <1>4, <2>2
  <2>4. key \in BirthRoles(c)
    BY <2>3, Births
  <2>5. QED
    BY <1>2, <2>2, <2>4
<1>5. CASE key \in roles
  <2>1. ~Unmoved /\ Next
    BY <1>2, <1>5, StillThere DEF Unmoved
  <2>2. Running
    <3>1. ~Running => roles \subseteq roles'
      BY <1>1, PausedNext DEF Register
    <3>2. QED
      BY <1>2, <1>5, <3>1
  <2>3. CallOf(Now)
    <3>1. Struck => roles' = roles
      BY <1>1, FaultMoves DEF Struck
    <3>2. QED
      BY <1>1, <1>2, <1>5, <2>1, <2>2, <3>1, RunningNext
  <2>4. RevokeStep(Now)
    <3>1. Now \in Current
      BY <2>2 DEF Current
    <3>2. ~RevokeStep(Now) => roles \subseteq roles'
      <4>1. (RequireStep(Now) \/ LinkStep(Now) \/ QuitStep(Now) \/ QueueStep(Now) \/ ActivateStep(Now))
              => roles' = roles
        BY <1>1, <3>1, ReadingMoves
      <4>2. (CreateStep(Now) \/ GrantStep(Now) \/ TimelockStep(Now) \/ BeginSave(Now) \/ EndSave(Now))
              => roles \subseteq roles'
        BY DEF CreateStep, GrantStep, TimelockStep, BeginSave, EndSave, chain
      <4>3. QED
        BY <2>3, <4>1, <4>2 DEF CallOf
    <3>3. QED
      BY <1>2, <1>5, <3>2
  <2>5. Now.op = "revoke" /\ (roles' = roles \/ roles' = roles \ {<<Now.on, Now.what, Now.who>>})
    BY <2>4 DEF RevokeStep
  <2>6. Now.on = "TimelockController"
    BY <1>2, <1>5, <2>5
  <2>7. Script = "50" /\ session.at[2] = 5
    <3>1. CASE Script = "95"
      <4>1. session.at[1] \in 1..28
        BY <1>1, <2>2, <3>1, FinalizingProgram DEF Running
      <4>2. Now.on # StrippedAt(session.at[1])
        BY <2>6, <4>1, StripTargets
      <4>3. Now # Revoke(StrippedAt(session.at[1]), RoleAt(session.at[1]), "deployer")
        BY <4>2 DEF Revoke, Step
      <4>4. QED
        BY <1>1, <2>2, <2>5, <4>3, RevokeAt
    <3>2. QED
      BY <1>1, <2>2, <2>5, <3>1, RevokeAt
  <2>8. GovernorHolds("PROPOSER_ROLE") /\ GovernorHolds("CANCELLER_ROLE")
    BY <2>2, <2>7 DEF TimelockInv, WiringInv
  <2>9. QED
    BY <1>1, <2>8, GovernorKeeps
<1>6. QED
  BY <1>3, <1>4, <1>5

(* From its creation on the timelock has a master, wherever a run of the   *)
(* governance scripts was cut off: the deployer who can administer it or   *)
(* the governor who can propose to it and cancel.                          *)
THEOREM TimelockAlwaysGoverned == Spec => []TimelockGoverned
<1>1. Init => TimelockInv
  BY NoRunOK DEF Init, TimelockInv, TimelockGoverned, WiringInv, Running, Idle
<1>2. Sound /\ TimelockInv /\ [Next]_vars => TimelockInv'
  BY WiringKept, GovernedKept DEF TimelockInv
<1>3. TimelockInv => TimelockGoverned
  BY DEF TimelockInv
<1>4. QED
  BY <1>1, <1>2, <1>3, AlwaysSound, PTL DEF Spec

-----------------------------------------------------------------------------
(* One step of deploy/95: it takes the role its block is about, or finds   *)
(* that the deployer no longer administers the contract, or is struck.     *)
LEMMA FinalizingFails ==
  ASSUME Course, ~Idle, Script = "95", NEW error, Fail(error), Block.kind = "try"
  PROVE  \/ NextScript /\ session.at[1] = 28
         \/ SameScript(session.at[1] + 1, 1) /\ session'.caught
<1>1. Running /\ Len(Program) = 28 /\ session.at[1] \in 1..28 /\ Catches(error)
      /\ \A i \in 1..28 : Program[i].kind # "inner"
  BY FinalizingProgram DEF Catches
<1>2. session.at[1] < 28 => AfterBlock = session.at[1] + 1
  BY <1>1, AfterBlockOK
<1>3. session.at[1] = 28 => AfterBlock = 29
  BY <1>1, AfterBlockOK
<1>4. \/ /\ SameScript(AfterBlock, 1) /\ AfterBlock \in session.at[1] + 1 .. 28
         /\ session' = [session EXCEPT !.caught = TRUE, !.at = <<AfterBlock, 1>>]
      \/ AfterBlock = 29 /\ NextScript
  BY <1>1, FailMoves
<1>5. session' = [session EXCEPT !.caught = TRUE, !.at = <<AfterBlock, 1>>] => session'.caught
  BY DEF Course, Sessions
<1>6. CASE session.at[1] < 28
  <2>1. SameScript(AfterBlock, 1) /\ session'.caught
    BY <1>1, <1>2, <1>4, <1>5, <1>6
  <2>2. QED
    BY <1>2, <1>6, <2>1
<1>7. CASE session.at[1] = 28
  BY <1>3, <1>4, <1>7
<1>8. QED
  BY <1>1, <1>6, <1>7

LEMMA FinalizingAdvances ==
  ASSUME Course, ~Idle, Script = "95", Advance
  PROVE  \/ NextScript /\ session.at[1] = 28
         \/ /\ SameScript(session.at[1] + 1, 1) /\ session.at[1] < 28
            /\ session'.caught = session.caught
<1>1. Running /\ Len(Program) = 28 /\ session.at[1] \in 1..28 /\ Len(Block.steps) = 1
      /\ session.at[2] = 1 /\ session \in Sessions
  BY FinalizingProgram DEF Course
<1>2. \/ /\ session.at[1] < 28 /\ SameScript(session.at[1] + 1, 1)
         /\ session' = [session EXCEPT !.at = <<session.at[1] + 1, 1>>]
      \/ session.at[1] = 28 /\ NextScript
  BY <1>1, AdvanceMoves DEF Advance
<1>3. session' = [session EXCEPT !.at = <<session.at[1] + 1, 1>>] => session'.caught = session.caught
  BY <1>1 DEF Sessions
<1>4. QED
  BY <1>2, <1>3

TakesRole == <<StrippedAt(session.at[1]), RoleAt(session.at[1]), "deployer">> \notin roles'
LEMMA FinalizingStep ==
  ASSUME Sound, ~Idle, Script = "95", Next
  PROVE  /\ roles' \subseteq roles
         /\ \/ /\ faults' = faults + 1
               /\ NextScript \/ (SameScript(session.at[1] + 1, 1) /\ session'.caught)
            \/ /\ faults' = faults
               /\ Holds(StrippedAt(session.at[1]), RoleAt(session.at[1]), "deployer")
               /\ ~Holds(StrippedAt(session.at[1]), ADMIN, "deployer")
               /\ SameScript(session.at[1] + 1, 1) /\ session'.caught
            \/ /\ faults' = faults /\ TakesRole
               /\ \/ NextScript /\ session.at[1] = 28
                  \/ /\ SameScript(session.at[1] + 1, 1) /\ session.at[1] < 28
                     /\ session'.caught = session.caught
<1> DEFINE c == StrippedAt(session.at[1])
           r == RoleAt(session.at[1])
<1>1. Course /\ RolesOn /\ Running /\ session.at[1] \in 1..28
  BY FinalizingProgram DEF Sound, RoleInv
<1>2. CASE Struck
  <2>1. faults' = faults + 1 /\ roles' = roles
    BY <1>1, <1>2, FaultMoves DEF Struck
  <2>2. Interrupt => NextScript
    BY AbortIsMove DEF Interrupt
  <2>3. ErrorCaught => Block.kind = "try" /\ Fail("other")
    BY <1>1, FinalizingProgram DEF ErrorCaught
  <2>4. Now.op \notin {"create", "grantIfKnown"}
    <3>1. \A x, y : Revoke(x, y, "deployer").op = "revoke" /\ Require({}, {}).op = "require"
      BY DEF Revoke, Require, Step
    <3>2. QED
      BY <1>1, <3>1, FinalizingProgram
  <2>5. \A now \in Current : ~ProbeFails(now) /\ ~VerifyFails(now)
    BY <2>4, CurrentIsNow DEF ProbeFails, VerifyFails
  <2>6. NextScript \/ (SameScript(session.at[1] + 1, 1) /\ session'.caught)
    BY <1>1, <1>2, <2>2, <2>3, <2>5, FinalizingFails DEF Struck
  <2>7. QED
    BY <2>1, <2>6
<1>3. CASE CallOf(Now) /\ c \in deployed
  <2>1. Now = Revoke(c, r, "deployer") /\ Block.kind = "try"
    BY <1>1, <1>3, FinalizingProgram
  <2>2. Now.op = "revoke" /\ Now.on = c /\ Now.what = r /\ Now.who = "deployer"
    BY <2>1 DEF Revoke, Step
  <2>3. RevokeStep(Now)
    BY <1>3, <2>2 DEF CallOf, CreateStep, BeginSave, EndSave, RequireStep, GrantStep, TimelockStep,
       LinkStep, QuitStep, QueueStep, ActivateStep
  <2>4. faults' = faults
    BY <1>1, <1>3, RunningNext
  <2>5. \/ ~Holds(c, r, "deployer") /\ Advance /\ roles' = roles
        \/ /\ Holds(c, r, "deployer") /\ ~Holds(c, ADMIN, "deployer")
           /\ Fail("unauthorized") /\ roles' = roles
        \/ Advance /\ roles' = roles \ {<<c, r, "deployer">>}
    BY <2>2, <2>3 DEF RevokeStep
  <2>6. Advance => \/ NextScript /\ session.at[1] = 28
                   \/ /\ SameScript(session.at[1] + 1, 1) /\ session.at[1] < 28
                      /\ session'.caught = session.caught
    BY <1>1, FinalizingAdvances
  <2>7. ASSUME Holds(c, r, "deployer"), ~Holds(c, ADMIN, "deployer"), Fail("unauthorized")
        PROVE  SameScript(session.at[1] + 1, 1) /\ session'.caught
    <3>1. r # ADMIN
      BY <2>7
    <3>2. session.at[1] # 28
      <4>1. 28 % 2 = 0 /\ 28 \in 1..28
        OBVIOUS
      <4>2. RoleAt(28) = ADMIN
        BY <4>1, StripTargets
      <4>3. QED
        BY <3>1, <4>2
    <3>3. QED
      BY <1>1, <2>1, <2>7, <3>2, FinalizingFails
  <2>8. QED
    BY <2>4, <2>5, <2>6, <2>7 DEF TakesRole, Holds
<1>4. CASE CallOf(Now) /\ c \notin deployed
  <2>1. Now = Require({}, {})
    BY <1>1, <1>4, FinalizingProgram
  <2>2. Now.op = "require" /\ Now.on = {} /\ Now.what = {}
    BY <2>1 DEF Require, Step
  <2>3. RequireStep(Now)
    BY <1>4, <2>2 DEF CallOf, CreateStep, BeginSave, EndSave, RevokeStep, GrantStep, TimelockStep,
       LinkStep, QuitStep, QueueStep, ActivateStep
  <2>4. faults' = faults
    BY <1>1, <1>4, RunningNext
  <2>5. Advance /\ roles' = roles
    BY <2>2, <2>3 DEF RequireStep, chain
  <2>6. c # "BondLedger"
    BY <1>1, StripTargets
  <2>7. <<c, r, "deployer">> \notin roles
    BY <1>1, <1>4, <2>6 DEF RolesOn
  <2>8. QED
    BY <1>1, <2>4, <2>5, <2>7, FinalizingAdvances DEF TakesRole
<1>5. QED
  BY <1>1, <1>2, <1>3, <1>4, RunningNext

-----------------------------------------------------------------------------
(* While no error was swallowed the deployer can administer whatever it    *)
(* can act on; and deploy/95, unless it caught an error, has taken from    *)
(* the deployer all that lies behind it.                                   *)
KeyInv   == faults = 0 => \A c : Holds(c, TIMELOCK, "deployer") => Holds(c, ADMIN, "deployer")
StripInv == (Running /\ Script = "95") =>
              /\ ~session.caught => \A j \in 1..28 : j < session.at[1] => Taken(j)
              /\ faults = 0 => ~session.caught

LEMMA StripKept ==
  ASSUME Sound, KeyInv, StripInv, [Next]_vars
  PROVE  StripInv'
<1>1. Course /\ faults \in Nat
  BY FaultsAssumption DEF Sound, BooksTyped
<1>2. AtStart' => StripInv'
  <2>1. AtStart' => session'.at[1] = 1 /\ ~session'.caught
    BY DEF AtStart
  <2>2. \A j \in 1..28 : ~(j < 1)
    OBVIOUS
  <2>3. QED
    BY <2>1, <2>2 DEF StripInv
<1>3. CASE UNCHANGED vars
  BY <1>3, StillThere DEF StripInv, Taken, Holds
<1>4. CASE ~Running
  BY <1>1, <1>2, <1>4, PausedNext DEF StripInv
<1>5. CASE Running /\ Next /\ Script # "95"
  BY <1>1, <1>2, <1>5, RunningMoves DEF StripInv
<1>6. CASE Running /\ Next /\ Script = "95"
  <2>0. ~Idle /\ session.at[1] \in 1..28
    BY <1>1, <1>6, FinalizingProgram DEF Running
  <2>1. PICK i \in 1..28 : i = session.at[1]
    BY <2>0
  <2>2. NextScript => AtStart'
    BY DEF NextScript, AtStart
  <2>3. \A b, k : SameScript(b, k) => session'.at[1] = b
    BY DEF SameScript
  <2>4. roles' \subseteq roles
    BY <1>6, <2>0, FinalizingStep
  <2>5. \A j : Taken(j) => Taken(j)'
    BY <2>4 DEF Taken, Holds
  <2>6. CASE AtStart'
    BY <1>2, <2>6
  <2>7. CASE faults' = faults + 1 /\ session'.caught
    BY <1>1, <2>7 DEF StripInv
  <2>8. CASE /\ faults' = faults /\ session'.caught
             /\ Holds(StrippedAt(i), RoleAt(i), "deployer") /\ ~Holds(StrippedAt(i), ADMIN, "deployer")
    <3>1. RoleAt(i) = TIMELOCK
      BY <2>1, <2>8, StripTargets
    <3>2. faults # 0
      BY <2>8, <3>1 DEF KeyInv
    <3>3. QED
      BY <2>8, <3>2 DEF StripInv
  <2>9. CASE /\ faults' = faults /\ TakesRole /\ SameScript(i + 1, 1)
             /\ session'.caught = session.caught
    <3>1. Taken(i)'
      BY <2>1, <2>9 DEF TakesRole, Taken, Holds
    <3>2. ASSUME ~session'.caught, NEW j \in 1..28, j < session'.at[1] PROVE Taken(j)'
      <4>1. session'.at[1] = i + 1
        BY <2>3, <2>9
      <4>2. j < i \/ j = i
        BY <2>1, <3>2, <4>1
      <4>3. j < i => Taken(j)
        BY <1>6, <2>1, <2>9, <3>2 DEF StripInv
      <4>4. QED
        BY <2>5, <3>1, <4>2, <4>3
    <3>3. faults' = 0 => ~session'.caught
      BY <1>6, <2>9 DEF StripInv
    <3>4. QED
      BY <3>2, <3>3 DEF StripInv
  <2>10. QED
    BY <1>6, <2>0, <2>1, <2>2, <2>6, <2>7, <2>8, <2>9, FinalizingStep
<1>7. QED
  BY <1>3, <1>4, <1>5, <1>6

LEMMA KeyKept ==
  ASSUME Sound, KeyInv, StripInv, [Next]_vars
  PROVE  KeyInv'
<1>1. Course /\ DeployersRoles /\ faults \in Nat
  BY FaultsAssumption DEF Sound, RoleInv, BooksTyped
<1>2. faults' = 0 => faults = 0 /\ ~Struck
  <2>1. Struck => faults' = faults + 1
    BY <1>1, FaultMoves DEF Struck
  <2>2. Running /\ Next /\ ~Struck => faults' = faults
    BY <1>1, RunningNext
  <2>3. ~Running => faults' = faults
    BY <1>1, PausedNext
  <2>4. UNCHANGED vars => faults' = faults
    BY StillThere
  <2>5. QED
    BY <1>1, <2>1, <2>2, <2>3, <2>4
<1>3. SUFFICES ASSUME faults' = 0, faults = 0, ~Struck, NEW c, <<c, TIMELOCK, "deployer">> \in roles'
               PROVE  <<c, ADMIN, "deployer">> \in roles'
  BY <1>2 DEF KeyInv, Holds
<1>4. \A x : <<x, TIMELOCK, "deployer">> \in roles => <<x, ADMIN, "deployer">> \in roles
  BY <1>3 DEF KeyInv, Holds
<1>5. CASE UNCHANGED vars
  BY <1>3, <1>4, <1>5, StillThere
<1>6. CASE Next
  <2>1. CASE Unmoved
    BY <1>3, <1>4, <2>1 DEF Unmoved
  <2>2. CASE Birth
    <3>1. PICK d \in Contracts : roles' = roles \cup BirthRoles(d)
      BY <2>2 DEF Birth
    <3>2. CASE <<c, TIMELOCK, "deployer">> \in roles
      BY <1>4, <3>1, <3>2
    <3>3. CASE <<c, TIMELOCK, "deployer">> \in BirthRoles(d)
      <4>1. \A x \in BirthRoles(d) : x[1] = d /\ (x[3] = "deployer" /\ x[2] = TIMELOCK => <<d, ADMIN, "deployer">> \in BirthRoles(d))
        BY Births
      <4>2. c = d /\ <<d, ADMIN, "deployer">> \in BirthRoles(d)
        BY <3>3, <4>1
      <4>3. QED
        BY <3>1, <4>2
    <3>4. QED
      BY <1>3, <3>1, <3>2, <3>3
  <2>3. ASSUME NEW st, Gift(st) PROVE <<c, ADMIN, "deployer">> \in roles'
    <3>1. roles' = roles \cup {<<st.on, st.what, st.who>>} /\ <<st.on, ADMIN, "deployer">> \in roles
      BY <2>3 DEF Gift, Holds
    <3>2. QED
      BY <1>3, <1>4, <3>1
  <2>4. CASE Trust
    <3>1. "AUTHORIZED_CALLER" # TIMELOCK
      BY DEF TIMELOCK
    <3>2. QED
      BY <1>3, <1>4, <2>4, <3>1 DEF Trust
  <2>5. CASE Register
    <3>1. "ROLE_ESCROW_CONTRACT" # TIMELOCK
      BY DEF TIMELOCK
    <3>2. QED
      BY <1>3, <1>4, <2>5, <3>1 DEF Register
  <2>6. ASSUME NEW st, Loss(st) PROVE <<c, ADMIN, "deployer">> \in roles'
    <3>1. roles' \subseteq roles
      BY <2>6 DEF Loss
    <3>2. <<c, TIMELOCK, "deployer">> \in roles /\ <<c, ADMIN, "deployer">> \in roles
      BY <1>3, <1>4, <3>1
    <3>3. CASE <<c, ADMIN, "deployer">> \in roles'
      BY <3>3
    <3>4. CASE <<c, ADMIN, "deployer">> \notin roles'
      <4>1. ~Unmoved
        BY <3>2, <3>4 DEF Unmoved
      <4>2. Running
        BY <1>1, <3>2, <3>4, PausedNext DEF Register
      <4>3. RevokeStep(Now)
        <5>1. Now \in Current
          BY <4>2 DEF Current
        <5>2. ~RevokeStep(Now) /\ CallOf(Now) => roles \subseteq roles'
          <6>1. (RequireStep(Now) \/ LinkStep(Now) \/ QuitStep(Now) \/ QueueStep(Now) \/ ActivateStep(Now))
                  => roles' = roles
            BY <1>1, <5>1, ReadingMoves
          <6>2. (CreateStep(Now) \/ GrantStep(Now) \/ TimelockStep(Now) \/ BeginSave(Now) \/ EndSave(Now))
                  => roles \subseteq roles'
            BY DEF CreateStep, GrantStep, TimelockStep, BeginSave, EndSave, chain
          <6>3. QED
            BY <6>1, <6>2 DEF CallOf
        <5>3. QED
          BY <1>1, <1>3, <1>6, <3>2, <3>4, <4>2, <5>2, RunningNext
      <4>4. Now.op = "revoke" /\ (roles' = roles \/ roles' = roles \ {<<Now.on, Now.what, Now.who>>})
        BY <4>3 DEF RevokeStep
      <4>5. Now.on = c /\ Now.what = ADMIN
        BY <3>2, <3>4, <4>4
      <4>6. c # "TimelockController"
        BY <1>1, <3>2 DEF DeployersRoles, Holds
      <4>7. \A x, y : Revoke(x, y, "deployer").on = x /\ Revoke(x, y, "deployer").what = y
        BY DEF Revoke, Step
      <4>8. /\ Script = "95"
            /\ Now = Revoke(StrippedAt(session.at[1]), RoleAt(session.at[1]), "deployer")
        BY <1>1, <4>2, <4>4, <4>5, <4>6, <4>7, RevokeAt
      <4>9. c = StrippedAt(session.at[1]) /\ RoleAt(session.at[1]) = ADMIN
        BY <4>5, <4>7, <4>8
      <4>10. session.at[1] \in 1..28
        BY <1>1, <4>2, <4>8, FinalizingProgram DEF Running
      <4>11. /\ session.at[1] - 1 \in 1..28 /\ StrippedAt(session.at[1] - 1) = c
             /\ RoleAt(session.at[1] - 1) = TIMELOCK
        BY <4>9, <4>10, StripTargets, RolesDiffer
      <4>12. Taken(session.at[1] - 1)
        BY <1>3, <4>2, <4>8, <4>10, <4>11 DEF StripInv
      <4>13. QED
        BY <3>2, <4>11, <4>12 DEF Taken, Holds
    <3>5. QED
      BY <3>3, <3>4
  <2>7. QED
    BY <1>1, <1>6, <2>1, <2>2, <2>3, <2>4, <2>5, <2>6, RoleChanges DEF RoleChange
<1>7. QED
  BY <1>5, <1>6

LEMMA KeyFirst ==
  ASSUME Init
  PROVE  KeyInv /\ StripInv
BY NoRunOK DEF Init, KeyInv, StripInv, Running, Idle, Holds

LEMMA KeyAlways == Spec => [](KeyInv /\ StripInv)
<1>1. Sound /\ (KeyInv /\ StripInv) /\ [Next]_vars => (KeyInv /\ StripInv)'
  BY StripKept, KeyKept
<1>2. QED
  BY <1>1, KeyFirst, AlwaysSound, PTL DEF Spec

(* While no error was swallowed, the deployer can give back every          *)
(* ROLE_TIMELOCK it holds.                                                 *)
THEOREM KeyAlwaysRevocable == Spec => []KeyRevocable
<1>1. KeyInv => KeyRevocable
  BY DEF KeyInv, KeyRevocable
<1>2. QED
  BY <1>1, KeyAlways, PTL

-----------------------------------------------------------------------------
LEMMA RetiredStep ==
  ASSUME Sound, Sound', StripInv, Next, ~Idle, Script = "95", session'.todo # session.todo,
         ~session.caught, faults' = faults
  PROVE  KeyPermissions' = {}
<1>1. Course /\ faults \in Nat /\ DeployersRoles'
  BY FaultsAssumption DEF Sound, RoleInv, BooksTyped
<1>2. \A b, k : ~SameScript(b, k)
  BY DEF SameScript
<1>3. faults # faults + 1
  BY <1>1
<1>4. roles' \subseteq roles /\ TakesRole /\ session.at[1] = 28
  BY <1>2, <1>3, FinalizingStep
<1>5. \A j \in 1..28 : <<StrippedAt(j), RoleAt(j), "deployer">> \notin roles'
  <2>1. Running
    BY <1>1, FinalizingProgram
  <2>2. ASSUME NEW j \in 1..28, j # 28 PROVE <<StrippedAt(j), RoleAt(j), "deployer">> \notin roles'
    <3>1. Taken(j)
      BY <1>4, <2>1, <2>2 DEF StripInv
    <3>2. QED
      BY <1>4, <3>1 DEF Taken, Holds
  <2>3. QED
    BY <1>4, <2>2 DEF TakesRole
<1>6. \A c \in {"EscrowVault", "EscrowGovernanceTimelock", "ModuleSnapshotRegistry"} :
         /\ <<c, ADMIN, "deployer">> \notin roles'
         /\ <<c, TIMELOCK, "deployer">> \notin roles'
  <2>1. \A j \in {3, 4, 5, 6, 15, 16} : <<StrippedAt(j), RoleAt(j), "deployer">> \notin roles'
    BY <1>5
  <2>2. QED
    BY <2>1, StripTargets
<1>7. \A c : <<c, "ROLE_ADMIN_CONTRACT", "deployer">> \notin roles'
  <2>1. "ROLE_ADMIN_CONTRACT" \notin {ADMIN, TIMELOCK, "PROPOSER_ROLE", "governor"}
    BY DEF ADMIN, TIMELOCK
  <2>2. ASSUME NEW c, <<c, "ROLE_ADMIN_CONTRACT", "deployer">> \in roles' PROVE FALSE
    <3>1. \A x \in roles' : x[3] = "deployer" => x[2] \in {ADMIN, TIMELOCK, "PROPOSER_ROLE", "governor"}
      BY <1>1 DEF DeployersRoles
    <3>2. QED
      BY <2>1, <2>2, <3>1
  <2>3. QED
    BY <2>2
<1>8. \A c \in {"EscrowVault", "EscrowGovernanceTimelock", "ModuleSnapshotRegistry"} :
        \A r \in {ADMIN, TIMELOCK, "ROLE_ADMIN_CONTRACT"} :
          ~(<<c, r, "deployer">> \in roles' \/ <<c, ADMIN, "deployer">> \in roles')
  BY <1>6, <1>7
<1>9. QED
  BY <1>8 DEF KeyPermissions, Holds

(* A run that gets through deploy/95 without an error caught there leaves  *)
(* the deployment key no role, and none it could grant itself, on the      *)
(* escrow, its admin contract and the module registry, whatever the runs   *)
(* before did.                                                             *)
THEOREM KeyIsRetired == Spec => KeyRetired
<1>1. Sound /\ Sound' /\ StripInv /\ [Next]_vars
        => [/\ "95" \in done'
            /\ ~Idle /\ Script = "95" /\ session'.todo # session.todo
            /\ ~session.caught /\ faults' = faults
            => KeyPermissions' = {}]_vars
  BY RetiredStep
<1>2. QED
  BY <1>1, KeyAlways, AlwaysSound, PTL DEF Spec, KeyRetired

-----------------------------------------------------------------------------
(* deploy/60: a check, then a block for each contract it governs that      *)
(* gives the timelock its role, the guardian its own on some of them, and  *)
(* the timelock the administration.                                        *)
LEMMA Headed ==
  ASSUME NEW S, NEW h \in Seq(S), Len(h) = 1, NEW q \in Seq(S)
  PROVE  /\ h \o q \in Seq(S) /\ Len(h \o q) = 1 + Len(q) /\ (h \o q)[1] = h[1]
         /\ \A i \in 1..Len(q) : (h \o q)[1 + i] = q[i]
<1> DEFINE p == h \o q
<1>1. Len(q) \in Nat /\ p \in Seq(S)
  OBVIOUS
<1>2. /\ Len(p) = Len(h) + Len(q)
      /\ \A i \in 1..Len(h) : p[i] = h[i]
      /\ \A i \in Len(h) + 1..Len(h) + Len(q) : p[i] = q[i - Len(h)]
  BY Joined
<1> HIDE DEF p
<1>3. Len(p) = 1 + Len(q) /\ p[1] = h[1]
  BY <1>1, <1>2
<1>4. ASSUME NEW i \in 1..Len(q) PROVE p[1 + i] = q[i]
  <2>1. 1 + i \in Len(h) + 1..Len(h) + Len(q) /\ (1 + i) - Len(h) = i
    BY <1>1
  <2>2. QED
    BY <1>2, <2>1
<1>5. QED
  BY <1>1, <1>3, <1>4 DEF p

LEMMA Framed ==
  ASSUME NEW S, NEW h \in Seq(S), Len(h) = 1, NEW w \in Seq(S), NEW t \in Seq(S), Len(t) = 1
  PROVE  LET q == (h \o w) \o t
         IN  /\ Len(q) = Len(w) + 2 /\ q[1] = h[1] /\ q[Len(w) + 2] = t[1]
             /\ Len(w) = 1 => q[2] = w[1]
<1> DEFINE p == h \o w
           q == p \o t
<1>1. /\ p \in Seq(S) /\ Len(p) = 1 + Len(w) /\ p[1] = h[1]
      /\ \A i \in 1..Len(w) : p[1 + i] = w[i]
  BY Headed, SMTT(30)
<1> HIDE DEF p
<1>2. /\ Len(q) = Len(p) + Len(t)
      /\ \A i \in 1..Len(p) : q[i] = p[i]
      /\ \A i \in Len(p) + 1..Len(p) + Len(t) : q[i] = t[i - Len(p)]
  BY <1>1, Joined
<1> HIDE DEF q
<1>3. Len(w) \in Nat
  OBVIOUS
<1>4. Len(q) = Len(w) + 2 /\ q[1] = h[1]
  BY <1>1, <1>2, <1>3
<1>5. q[Len(w) + 2] = t[1]
  BY <1>1, <1>2, <1>3
<1>6. Len(w) = 1 => q[2] = w[1]
  BY <1>1, <1>2, <1>3
<1>7. QED
  BY <1>4, <1>5, <1>6 DEF q, p

GoverningSteps(c, q) ==
  /\ Len(q) \in {2, 3}
  /\ q[1] = GrantIfKnown(c, TIMELOCK, "TimelockController")
  /\ q[Len(q)] = Grant(c, ADMIN, "TimelockController")
  /\ Len(q) = 3 => \E a : q[2] = GrantIfKnown(c, GUARDIAN, a)

LEMMA GoverningBlock ==
  ASSUME NEW c, NEW e, NEW d
  PROVE  GoverningSteps(c, GovernContract(c, e, d).steps)
<1> DEFINE a == GrantIfKnown(c, TIMELOCK, "TimelockController")
           b == GrantIfKnown(c, GUARDIAN, GuardianAccount(e, d))
           z == Grant(c, ADMIN, "TimelockController")
           h == <<a>>
           w == When(c \in KnowsGuardian, <<b>>)
           t == <<z>>
           q == (h \o w) \o t
           S == {a, b, z}
<1>1. GovernContract(c, e, d).steps = q
  BY DEF GovernContract, Try
<1>2. /\ a = GrantIfKnown(c, TIMELOCK, "TimelockController")
      /\ z = Grant(c, ADMIN, "TimelockController")
      /\ b = GrantIfKnown(c, GUARDIAN, GuardianAccount(e, d))
  OBVIOUS
<1> HIDE DEF a, b, z
<1>3. /\ h \in Seq(S) /\ Len(h) = 1 /\ h[1] = a
      /\ t \in Seq(S) /\ Len(t) = 1 /\ t[1] = z
  OBVIOUS
<1>4. /\ <<>> \in Seq(S) /\ Len(<<>>) = 0
      /\ <<b>> \in Seq(S) /\ Len(<<b>>) = 1 /\ <<b>>[1] = b
  OBVIOUS
<1>5. w \in Seq(S) /\ (Len(w) = 0 \/ (Len(w) = 1 /\ w[1] = b))
  BY <1>4 DEF When
<1> HIDE DEF h, w, t, S
<1>6. /\ Len(q) = Len(w) + 2 /\ q[1] = h[1] /\ q[Len(w) + 2] = t[1]
      /\ Len(w) = 1 => q[2] = w[1]
  BY <1>3, <1>5, Framed
<1> HIDE DEF q
<1>7. CASE Len(w) = 0
  <2>1. Len(q) = 2 /\ q[1] = a /\ q[2] = z
    BY <1>3, <1>6, <1>7
  <2>2. QED
    BY <1>1, <1>2, <2>1 DEF GoverningSteps
<1>8. CASE Len(w) = 1 /\ w[1] = b
  <2>1. Len(q) = 3 /\ q[1] = a /\ q[2] = b /\ q[3] = z
    BY <1>3, <1>6, <1>8
  <2>2. QED
    BY <1>1, <1>2, <2>1 DEF GoverningSteps
<1>9. QED
  BY <1>5, <1>7, <1>8

LEMMA GoverningProgram ==
  ASSUME Course, Running, Script = "60"
  PROVE  /\ Len(Program) = 9
         /\ session.at[1] \in 1..9 /\ session.at[2] \in 1..Len(Block.steps)
         /\ session.at[1] = 1 =>
              Len(Block.steps) = 1 /\ session.at[2] = 1 /\ Now.op = "require"
         /\ \A i \in 1..8 : session.at[1] = 1 + i =>
              \/ /\ GovernedBy60[i] \in deployed
                 /\ GoverningSteps(GovernedBy60[i], Block.steps)
              \/ /\ GovernedBy60[i] \notin deployed
                 /\ Len(Block.steps) = 1 /\ session.at[2] = 1 /\ Now.op = "require"
<1> DEFINE g(i) == IfDeployed(GovernedBy60[i], deployed, GovernContract(GovernedBy60[i], session.env, deployed))
           f == [i \in 1..8 |-> g(i)]
           m == Must(<<Require({"config"}, {"TimelockController"})>>)
           h == <<m>>
           S == {m} \cup {g(i) : i \in 1..8}
<1>1. Program = h \o f
  BY Names DEF Program, Body, ProtocolGovernance
<1>2. f \in Seq(S) /\ Len(f) = 8 /\ h \in Seq(S) /\ Len(h) = 1 /\ h[1] = m /\ \A i \in 1..8 : f[i] = g(i)
  OBVIOUS
<1>3. \A n, k : LET b == Must(<<Require(k, n)>>)
                IN Len(b.steps) = 1 /\ b.steps[1].op = "require"
  BY DEF Must, Require, Step
<1>4. \A i \in 1..8 : \/ /\ GovernedBy60[i] \notin deployed
                         /\ Len(g(i).steps) = 1 /\ g(i).steps[1].op = "require"
                      \/ /\ GovernedBy60[i] \in deployed
                         /\ GoverningSteps(GovernedBy60[i], g(i).steps)
  BY <1>3, GoverningBlock DEF IfDeployed
<1>5. Len(m.steps) = 1 /\ m.steps[1].op = "require"
  BY <1>3, SMTT(30)
<1> HIDE DEF m, h, f, g, S
<1>6. Len(Program) = 1 + Len(f) /\ Program[1] = m /\ \A i \in 1..Len(f) : Program[1 + i] = f[i]
  BY <1>1, <1>2, Headed
<1>7. /\ Len(Program) = 9
      /\ session.at[1] \in 1..9 /\ Block = Program[session.at[1]]
      /\ session.at[2] \in 1..Len(Block.steps) /\ Now = Block.steps[session.at[2]]
  BY <1>2, <1>6, NowLegal DEF Now
<1>8. ASSUME session.at[1] = 1
      PROVE  Len(Block.steps) = 1 /\ session.at[2] = 1 /\ Now.op = "require"
  <2>1. Block = m
    BY <1>6, <1>7, <1>8
  <2>2. Len(Block.steps) = 1 /\ session.at[2] = 1
    BY <1>5, <1>7, <2>1
  <2>3. QED
    BY <1>5, <1>7, <2>1, <2>2
<1>9. ASSUME NEW i \in 1..8, session.at[1] = 1 + i
      PROVE  \/ /\ GovernedBy60[i] \in deployed
                /\ GoverningSteps(GovernedBy60[i], Block.steps)
             \/ /\ GovernedBy60[i] \notin deployed
                /\ Len(Block.steps) = 1 /\ session.at[2] = 1 /\ Now.op = "require"
  <2>1. Block = g(i)
    BY <1>2, <1>6, <1>7, <1>9
  <2>2. CASE GovernedBy60[i] \in deployed
    BY <1>4, <2>1, <2>2
  <2>3. CASE GovernedBy60[i] \notin deployed
    <3>1. Len(Block.steps) = 1 /\ session.at[2] = 1
      BY <1>4, <1>7, <2>1, <2>3
    <3>2. QED
      BY <1>4, <1>7, <2>1, <2>3, <3>1
  <2>4. QED
    BY <2>2, <2>3
<1>10. QED
  BY <1>7, <1>8, <1>9

-----------------------------------------------------------------------------
(* deploy/60 only adds roles, none of them the deployer's administration;  *)
(* a contract is handed over when its block is left, unless an error was   *)
(* caught there or the run was cut off.                                    *)
Handed(c) == (c \in deployed /\ Holds(c, ADMIN, "deployer")) => Holds(c, ADMIN, "TimelockController")
InBlock   == /\ SameScript(session.at[1], session.at[2] + 1)
             /\ session'.caught = session.caught
Leaving   == /\ SameScript(session.at[1] + 1, 1) /\ session'.caught = session.caught
             \/ NextScript
Noticed   == \/ (\E b, k : SameScript(b, k)) /\ session'.caught
             \/ NextScript /\ (faults' = faults + 1 \/ session.at[1] = 1)

LEMMA GoverningAdvances ==
  ASSUME Course, Running, Advance
  PROVE  \/ InBlock /\ session.at[2] < Len(Block.steps)
         \/ Leaving /\ session.at[2] = Len(Block.steps)
<1>1. session \in Sessions /\ AdvanceAs(session)
  BY DEF Course, Advance
<1>2. \A b, k : session' = [session EXCEPT !.at = <<b, k>>] => session'.caught = session.caught
  BY <1>1 DEF Sessions
<1>3. QED
  BY <1>1, <1>2, AdvanceMoves DEF InBlock, Leaving

LEMMA GoverningFails ==
  ASSUME Course, Running, NEW error, Fail(error)
  PROVE  ((\E b, k : SameScript(b, k)) /\ session'.caught) \/ NextScript
<1>1. session \in Sessions
  BY DEF Course
<1>2. \A b : session' = [session EXCEPT !.caught = TRUE, !.at = <<b, 1>>] => session'.caught
  BY <1>1 DEF Sessions
<1>3. QED
  BY <1>2, FailMoves

(* The call in the block of a contract that exists.                        *)
GovernedCall(c, r, a) ==
  /\ Now.op \in {"grant", "grantIfKnown"}
  /\ Now.on = c /\ Now.what = r /\ Now.who = a
  /\ r # ADMIN \/ a = "TimelockController"
  /\ session.at[2] = Len(Block.steps) => r = ADMIN /\ a = "TimelockController"
LEMMA GovernedCalls ==
  ASSUME NEW c, GoverningSteps(c, Block.steps), session.at[2] \in 1..Len(Block.steps)
  PROVE  \E r, a : GovernedCall(c, r, a)
<1>1. PICK n \in {2, 3}, k \in 1..3 : n = Len(Block.steps) /\ k = session.at[2] /\ k <= n
  BY DEF GoverningSteps
<1>2. Now = Block.steps[k]
  BY <1>1 DEF Now
<1>3. CASE k = n
  <2>1. Now = Grant(c, ADMIN, "TimelockController")
    BY <1>1, <1>2, <1>3 DEF GoverningSteps
  <2>2. Now.op = "grant" /\ Now.on = c /\ Now.what = ADMIN /\ Now.who = "TimelockController"
    BY <2>1 DEF Grant, Step
  <2>3. GovernedCall(c, ADMIN, "TimelockController")
    BY <2>2 DEF GovernedCall
  <2>4. QED
    BY <2>3
<1>4. CASE k # n
  <2>1. k = 1 \/ (k = 2 /\ n = 3)
    <3>1. k \in {1, 2, 3} /\ (n = 2 \/ n = 3) /\ k <= n /\ k # n
      BY <1>1, <1>4
    <3>2. n = 2 => k = 1
      BY <3>1
    <3>3. n = 3 => k = 1 \/ k = 2
      BY <3>1
    <3>4. QED
      BY <3>1, <3>2, <3>3
  <2>2. PICK r \in {TIMELOCK, GUARDIAN} : \E a : Now = GrantIfKnown(c, r, a)
    BY <1>1, <1>2, <2>1 DEF GoverningSteps
  <2>3. PICK a : Now = GrantIfKnown(c, r, a)
    BY <2>2
  <2>4. Now.op = "grantIfKnown" /\ Now.on = c /\ Now.what = r /\ Now.who = a
    BY <2>3 DEF GrantIfKnown, Step
  <2>5. r # ADMIN
    BY RolesDiffer
  <2>6. GovernedCall(c, r, a)
    BY <1>1, <1>4, <2>4, <2>5 DEF GovernedCall
  <2>7. QED
    BY <2>6
<1>5. QED
  BY <1>3, <1>4

LEMMA GoverningFault ==
  ASSUME Course, Running, Script = "60", Struck
  PROVE  /\ Noticed \/ InBlock
         /\ roles' = roles /\ deployed' = deployed /\ faults' = faults + 1
<1>1. roles' = roles /\ deployed' = deployed /\ faults' = faults + 1
  BY FaultMoves DEF Struck
<1>2. CASE Interrupt
  BY <1>1, <1>2, AbortIsMove DEF Interrupt, Noticed
<1>3. CASE ErrorCaught
  BY <1>1, <1>3, GoverningFails DEF ErrorCaught, Noticed
<1>4. ASSUME NEW now \in Current, ProbeFails(now) PROVE InBlock
  <2>1. now = Now /\ Now.op = "grantIfKnown" /\ Advance
    BY <1>4, CurrentIsNow DEF ProbeFails
  <2>2. \A x, r, a : Grant(x, r, a).op = "grant"
    BY DEF Grant, Step
  <2>3. session.at[1] # 1
    BY <2>1, GoverningProgram
  <2>4. PICK i \in 1..8 : session.at[1] = 1 + i
    <3>1. session.at[1] - 1 \in 1..8 /\ session.at[1] = 1 + (session.at[1] - 1)
      BY <2>3, GoverningProgram
    <3>2. QED
      BY <3>1
  <2>5. GoverningSteps(GovernedBy60[i], Block.steps)
    BY <2>1, <2>4, GoverningProgram
  <2>6. session.at[2] # Len(Block.steps)
    BY <2>1, <2>2, <2>5 DEF GoverningSteps, Now
  <2>7. QED
    BY <2>1, <2>6, GoverningAdvances
<1>5. ASSUME NEW now \in Current, VerifyFails(now) PROVE FALSE
  <2>1. now = Now /\ Now.op = "create"
    BY <1>5, CurrentIsNow DEF VerifyFails
  <2>2. \A i \in 1..8 : session.at[1] # 1 + i
    <3>1. SUFFICES ASSUME NEW i \in 1..8, session.at[1] = 1 + i PROVE FALSE
      OBVIOUS
    <3>2. GoverningSteps(GovernedBy60[i], Block.steps) /\ session.at[2] \in 1..Len(Block.steps)
      BY <2>1, <3>1, GoverningProgram
    <3>3. Now.op \in {"grant", "grantIfKnown"}
      BY <3>2, GovernedCalls DEF GovernedCall
    <3>4. QED
      BY <2>1, <3>3
  <2>3. session.at[1] \in 1..9 /\ session.at[1] # 1
    BY <2>1, GoverningProgram
  <2>4. session.at[1] - 1 \in 1..8 /\ session.at[1] = 1 + (session.at[1] - 1)
    BY <2>3
  <2>5. QED
    BY <2>2, <2>4
<1>6. QED
  BY <1>1, <1>2, <1>3, <1>4, <1>5 DEF Struck

(* The steps of the block of a contract that exists.                       *)
LEMMA GrantingHere ==
  ASSUME Course, Running, CallOf(Now), NEW c, GoverningSteps(c, Block.steps),
         session.at[2] \in 1..Len(Block.steps)
  PROVE  /\ deployed' = deployed
         /\ \/ /\ roles' = roles
               /\ \/ Advance /\ (session.at[2] = Len(Block.steps) =>
                                   Holds(c, ADMIN, "TimelockController"))
                  \/ Fail("unauthorized") /\ ~Holds(c, ADMIN, "deployer")
            \/ \E r, a : /\ r # ADMIN \/ a = "TimelockController"
                         /\ roles' = roles \cup {<<c, r, a>>} /\ Advance
                         /\ session.at[2] = Len(Block.steps) =>
                              r = ADMIN /\ a = "TimelockController"
<1>1. PICK r, a : GovernedCall(c, r, a)
  BY GovernedCalls
<1>2. GrantStep(Now)
  BY <1>1 DEF GovernedCall, CallOf, CreateStep, BeginSave, EndSave, RevokeStep, RequireStep,
     TimelockStep, LinkStep, QuitStep, QueueStep, ActivateStep
<1>3. deployed' = deployed
  BY <1>2 DEF GrantStep
<1>4. \/ <<c, r, a>> \in roles /\ Advance /\ roles' = roles
      \/ ~Holds(c, ADMIN, "deployer") /\ Fail("unauthorized") /\ roles' = roles
      \/ Advance /\ roles' = roles \cup {<<c, r, a>>}
  BY <1>1, <1>2 DEF GovernedCall, GrantStep, Holds
<1>5. <<c, r, a>> \in roles =>
        (session.at[2] = Len(Block.steps) => Holds(c, ADMIN, "TimelockController"))
  BY <1>1 DEF GovernedCall, Holds
<1>6. QED
  BY <1>1, <1>3, <1>4, <1>5 DEF GovernedCall

LEMMA GoverningStep ==
  ASSUME Course, Running, Next, Script = "60"
  PROVE  /\ \/ roles' = roles
            \/ \E c, r, a : (r # ADMIN \/ a = "TimelockController") /\ roles' = roles \cup {<<c, r, a>>}
         /\ deployed' = deployed
         /\ \/ Noticed \/ InBlock
            \/ Leaving /\ faults' = faults
               /\ \A i \in 1..8 : session.at[1] = 1 + i => Handed(GovernedBy60[i])'
<1>1. CASE Struck
  BY <1>1, GoverningFault
<1>2. CASE CallOf(Now) /\ Now.op = "require"
  <2>1. RequireStep(Now) /\ faults' = faults
    BY <1>2, RunningNext DEF CallOf, CreateStep, BeginSave, EndSave, RevokeStep, GrantStep,
       TimelockStep, LinkStep, QuitStep, QueueStep, ActivateStep
  <2>2. roles' = roles /\ deployed' = deployed /\ (Advance \/ Fail("other"))
    BY <2>1 DEF RequireStep, chain
  <2>3. \A i \in 1..8 : session.at[1] = 1 + i => GovernedBy60[i] \notin deployed
    <3>1. SUFFICES ASSUME NEW i \in 1..8, session.at[1] = 1 + i,
                          GoverningSteps(GovernedBy60[i], Block.steps)
                   PROVE  FALSE
      BY GoverningProgram
    <3>2. session.at[2] \in 1..Len(Block.steps)
      BY GoverningProgram
    <3>3. Now.op \in {"grant", "grantIfKnown"}
      BY <3>1, <3>2, GovernedCalls DEF GovernedCall
    <3>4. QED
      BY <1>2, <3>3
  <2>4. CASE Advance
    <3>1. Leaving \/ InBlock
      BY <2>4, GoverningAdvances
    <3>2. QED
      BY <2>1, <2>2, <2>3, <3>1 DEF Handed
  <2>5. CASE Fail("other")
    <3>1. ((\E b, k : SameScript(b, k)) /\ session'.caught) \/ NextScript
      BY <2>5, GoverningFails
    <3>2. QED
      BY <2>1, <2>2, <2>3, <3>1 DEF Handed, Noticed, Leaving
  <2>6. QED
    BY <2>2, <2>4, <2>5
<1>3. ASSUME CallOf(Now), NEW i \in 1..8, session.at[1] = 1 + i,
             GoverningSteps(GovernedBy60[i], Block.steps)
      PROVE  /\ \/ roles' = roles
                \/ \E c, r, a : (r # ADMIN \/ a = "TimelockController") /\ roles' = roles \cup {<<c, r, a>>}
             /\ deployed' = deployed
             /\ \/ Noticed \/ InBlock
                \/ Leaving /\ faults' = faults /\ Handed(GovernedBy60[i])'
  <2> DEFINE c == GovernedBy60[i]
  <2>1. faults' = faults
    BY <1>3, RunningNext
  <2>2. session.at[2] \in 1..Len(Block.steps)
    BY GoverningProgram
  <2>3. /\ deployed' = deployed
        /\ \/ /\ roles' = roles
              /\ \/ Advance /\ (session.at[2] = Len(Block.steps) =>
                                  Holds(c, ADMIN, "TimelockController"))
                 \/ Fail("unauthorized") /\ ~Holds(c, ADMIN, "deployer")
           \/ \E r, a : /\ r # ADMIN \/ a = "TimelockController"
                        /\ roles' = roles \cup {<<c, r, a>>} /\ Advance
                        /\ session.at[2] = Len(Block.steps) =>
                             r = ADMIN /\ a = "TimelockController"
    BY <1>3, <2>2, GrantingHere
  <2> HIDE DEF c
  <2>4. CASE roles' = roles /\ Advance /\ (session.at[2] = Len(Block.steps) =>
                                             Holds(c, ADMIN, "TimelockController"))
    <3>1. InBlock \/ (Leaving /\ Handed(c)')
      BY <2>4, GoverningAdvances DEF Handed, Holds
    <3>2. QED
      BY <2>1, <2>3, <2>4, <3>1 DEF c
  <2>5. CASE roles' = roles /\ Fail("unauthorized") /\ ~Holds(c, ADMIN, "deployer")
    <3>1. ((\E b, k : SameScript(b, k)) /\ session'.caught) \/ NextScript
      BY <2>5, GoverningFails
    <3>2. Handed(c)'
      BY <2>5 DEF Handed, Holds
    <3>3. QED
      BY <2>1, <2>3, <2>5, <3>1, <3>2 DEF c, Noticed, Leaving
  <2>6. ASSUME NEW r, NEW a, r # ADMIN \/ a = "TimelockController",
               roles' = roles \cup {<<c, r, a>>}, Advance,
               session.at[2] = Len(Block.steps) => r = ADMIN /\ a = "TimelockController"
        PROVE  /\ \/ roles' = roles
                  \/ \E x, y, z : (y # ADMIN \/ z = "TimelockController") /\ roles' = roles \cup {<<x, y, z>>}
               /\ InBlock \/ (Leaving /\ Handed(c)')
    <3>1. session.at[2] = Len(Block.steps) => Handed(c)'
      BY <2>6 DEF Handed, Holds
    <3>2. InBlock \/ (Leaving /\ Handed(c)')
      BY <2>6, <3>1, GoverningAdvances
    <3>3. QED
      BY <2>6, <3>2
  <2>7. QED
    BY <2>1, <2>3, <2>4, <2>5, <2>6 DEF c
<1>4. CASE CallOf(Now) /\ Now.op # "require"
  <2>1. session.at[1] - 1 \in 1..8 /\ session.at[1] = 1 + (session.at[1] - 1)
    BY <1>4, GoverningProgram
  <2>2. PICK i \in 1..8 : session.at[1] = 1 + i
    BY <2>1
  <2>3. GoverningSteps(GovernedBy60[i], Block.steps)
    BY <1>4, <2>2, GoverningProgram
  <2>4. \A j \in 1..8 : session.at[1] = 1 + j => j = i
    BY <2>2
  <2>5. QED
    BY <1>3, <1>4, <2>2, <2>3, <2>4
<1>5. QED
  BY <1>1, <1>2, <1>4, RunningNext

LEMMA HandedStays ==
  ASSUME Course, Running, Next, Script = "60", NEW c
  PROVE  /\ Handed(c) => Handed(c)'
         /\ Handed(c)' /\ c \in deployed /\ Holds(c, ADMIN, "deployer")
              => Holds(c, ADMIN, "TimelockController")'
<1>1. deployed' = deployed
  BY GoverningStep
<1>2. roles \subseteq roles' /\ (<<c, ADMIN, "deployer">> \in roles' => <<c, ADMIN, "deployer">> \in roles)
  <2>1. ASSUME NEW x, NEW r, NEW a, r # ADMIN \/ a = "TimelockController"
        PROVE  <<c, ADMIN, "deployer">> # <<x, r, a>>
    BY <2>1
  <2>2. QED
    BY <2>1, GoverningStep
<1>3. QED
  BY <1>1, <1>2 DEF Handed, Holds

(* Inside deploy/60, unless an error was caught, all contracts whose block *)
(* lies behind are handed over.                                            *)
HandoverInv == (Running /\ Script = "60" /\ ~session.caught) =>
                 \A i \in 1..8 : 1 + i < session.at[1] => Handed(GovernedBy60[i])

LEMMA HandoverKept ==
  ASSUME Sound, HandoverInv, [Next]_vars
  PROVE  HandoverInv'
<1>1. Course
  BY DEF Sound
<1>2. AtStart' => HandoverInv'
  <2>1. AtStart' => session'.at[1] = 1
    BY DEF AtStart
  <2>2. \A i \in 1..8 : ~(1 + i < 1)
    OBVIOUS
  <2>3. QED
    BY <2>1, <2>2 DEF HandoverInv
<1>3. CASE UNCHANGED vars
  BY <1>3, StillThere DEF HandoverInv, Handed, Holds
<1>4. CASE ~Running
  BY <1>1, <1>2, <1>4, PausedNext DEF HandoverInv
<1>5. CASE Running /\ Next /\ Script # "60"
  BY <1>1, <1>2, <1>5, RunningMoves DEF HandoverInv
<1>6. CASE Running /\ Next /\ Script = "60"
  <2>1. NextScript => AtStart'
    BY DEF NextScript, AtStart
  <2>2. \A b, k : SameScript(b, k) => session'.at[1] = b
    BY DEF SameScript
  <2>3. \A i \in 1..8 : Handed(GovernedBy60[i]) => Handed(GovernedBy60[i])'
    BY <1>1, <1>6, HandedStays
  <2>4. CASE Noticed
    BY <1>2, <2>1, <2>4 DEF Noticed, HandoverInv
  <2>5. CASE InBlock
    BY <1>6, <2>2, <2>3, <2>5 DEF InBlock, HandoverInv
  <2>6. CASE /\ SameScript(session.at[1] + 1, 1) /\ session'.caught = session.caught
             /\ \A i \in 1..8 : session.at[1] = 1 + i => Handed(GovernedBy60[i])'
    <3>1. SUFFICES ASSUME ~session'.caught, NEW i \in 1..8, 1 + i < session'.at[1]
                   PROVE  Handed(GovernedBy60[i])'
      BY DEF HandoverInv
    <3>2. session'.at[1] = session.at[1] + 1 /\ session.at[1] \in 1..9
      BY <1>1, <1>6, <2>2, <2>6, GoverningProgram
    <3>3. 1 + i < session.at[1] \/ session.at[1] = 1 + i
      BY <3>1, <3>2
    <3>4. QED
      BY <1>6, <2>3, <2>6, <3>1, <3>3 DEF HandoverInv
  <2>7. QED
    BY <1>1, <1>2, <1>6, <2>1, <2>4, <2>5, <2>6, GoverningStep DEF Leaving
<1>7. QED
  BY <1>3, <1>4, <1>5, <1>6

LEMMA HandoverEnds ==
  ASSUME Sound, HandoverInv, Next, Running, Script = "60",
         session.at[1] = Len(Program), session'.todo # session.todo,
         ~session.caught, faults' = faults, NEW i \in DOMAIN GovernedBy60
  PROVE  LET c == GovernedBy60[i]
         IN c \in deployed /\ Holds(c, ADMIN, "deployer") => Holds(c, ADMIN, "TimelockController")'
<1>1. Course /\ faults \in Nat /\ i \in 1..8
  BY FaultsAssumption, Names DEF Sound, BooksTyped
<1>2. session.at[1] = 9
  BY <1>1, GoverningProgram
<1>3. \A b, k : ~SameScript(b, k)
  BY DEF SameScript
<1>4. ~Noticed /\ ~InBlock
  BY <1>1, <1>2, <1>3 DEF Noticed, InBlock
<1>5. \A j \in 1..8 : session.at[1] = 1 + j => Handed(GovernedBy60[j])'
  BY <1>1, <1>4, GoverningStep
<1>6. CASE i = 8
  <2>1. Handed(GovernedBy60[i])'
    BY <1>1, <1>2, <1>5, <1>6
  <2>2. QED
    BY <1>1, <2>1, HandedStays
<1>7. CASE i # 8
  <2>1. 1 + i < session.at[1]
    BY <1>1, <1>2, <1>7
  <2>2. Handed(GovernedBy60[i])
    BY <1>1, <2>1 DEF HandoverInv
  <2>3. QED
    BY <1>1, <2>2, HandedStays
<1>8. QED
  BY <1>6, <1>7

(* A deploy/60 that comes to its end without an error caught in it has     *)
(* finished every handover that interrupted runs, swallowed errors and     *)
(* failed probes left half done, on every contract the deployer            *)
(* administers.                                                            *)
THEOREM HandoverAlwaysWhole == Spec => HandoverWhole
<1>1. Init => HandoverInv
  BY DEF Init, HandoverInv, Running, Idle, NoRun
<1>2. Sound /\ HandoverInv /\ [Next]_vars => HandoverInv'
  BY HandoverKept
<1>3. Sound /\ HandoverInv /\ [Next]_vars
        => [/\ Running /\ Script = "60"
            /\ session.at[1] = Len(Program) /\ session'.todo # session.todo
            /\ ~session.caught /\ faults' = faults
            => \A i \in DOMAIN GovernedBy60 :
                 LET c == GovernedBy60[i]
                 IN c \in deployed /\ Holds(c, ADMIN, "deployer") =>
                      Holds(c, ADMIN, "TimelockController")']_vars
  BY HandoverEnds
<1>4. QED
  BY <1>1, <1>2, <1>3, AlwaysSound, PTL DEF Spec, HandoverWhole

-----------------------------------------------------------------------------
(* While no error was swallowed and no run interrupted, the registry file  *)
(* is whole but while it is being written, and it names every contract     *)
(* that exists and is recorded at all, but for the one whose creation the  *)
(* run is at.                                                              *)
RecordInv ==
  faults = 0 =>
    /\ torn => session.saving
    /\ session.saving => session.fresh /\ Now.on \in recs
    /\ session.fresh => Running /\ Now.op = "create" /\ Now.on \in deployed
    /\ \A c \in deployed \ Unrecorded : c \in recs \/ (session.fresh /\ c = Now.on)

LEMMA NoFault ==
  ASSUME Sound, [Next]_vars, faults' = 0
  PROVE  faults = 0 /\ ~Struck /\ (Running /\ Next => CallOf(Now))
<1>1. Course /\ faults \in Nat
  BY FaultsAssumption DEF Sound, BooksTyped
<1>2. Struck => faults' = faults + 1
  BY <1>1, FaultMoves DEF Struck
<1>3. Running /\ Next /\ ~Struck => faults' = faults /\ CallOf(Now)
  BY <1>1, RunningNext
<1>4. ~Running => faults' = faults
  BY <1>1, PausedNext
<1>5. UNCHANGED vars => faults' = faults
  BY StillThere
<1>6. QED
  BY <1>1, <1>2, <1>3, <1>4, <1>5

LEMMA FlagsStay ==
  ASSUME Course, Running, Advance \/ EndScript \/ \E error : Fail(error)
  PROVE  (session'.fresh => session.fresh) /\ (session'.saving => session.saving)
<1>1. session \in Sessions /\ ~Idle
  BY DEF Course, Running
<1>2. NextScript => ~session'.fresh /\ ~session'.saving
  BY DEF NextScript
<1>3. \A p : LET s == [session EXCEPT !.at = p]
             IN s.fresh = session.fresh /\ s.saving = session.saving
  BY <1>1 DEF Sessions
<1>4. \A p : LET s == [session EXCEPT !.caught = TRUE, !.at = p]
             IN s.fresh = session.fresh /\ s.saving = session.saving
  BY <1>1 DEF Sessions
<1>5. CASE Advance
  <2>1. NextScript \/ \E p : session' = [session EXCEPT !.at = p]
    BY <1>1, <1>5, AdvanceMoves DEF Advance
  <2>2. QED
    BY <1>2, <1>3, <2>1
<1>6. CASE EndScript
  BY <1>1, <1>2, <1>6, EndIsMove
<1>7. CASE \E error : Fail(error)
  <2>1. NextScript \/ \E p : session' = [session EXCEPT !.caught = TRUE, !.at = p]
    BY <1>7, FailMoves
  <2>2. QED
    BY <1>2, <1>4, <2>1
<1>8. QED
  BY <1>5, <1>6, <1>7

LEMMA SamePlace ==
  ASSUME Course, Running, SameScript(session.at[1], session.at[2]), deployed' = deployed \/ Creation
  PROVE  Running' /\ Now' = Now
<1>1. Running' /\ Program' = Program
  BY SameScriptCourse
<1>2. session'.at[1] = session.at[1] /\ session'.at[2] = session.at[2]
  BY DEF SameScript
<1>3. QED
  BY <1>1, <1>2 DEF Now, Block

LEMMA RecordingCall ==
  ASSUME Sound, RecordInv, faults = 0, Running, Now.op = "create",
         CreateStep(Now) \/ BeginSave(Now) \/ EndSave(Now)
  PROVE  /\ torn' => session'.saving
         /\ session'.saving => session'.fresh /\ Now'.on \in recs'
         /\ session'.fresh => Running' /\ Now'.op = "create" /\ Now'.on \in deployed'
         /\ \A c \in deployed' \ Unrecorded : c \in recs' \/ (session'.fresh /\ c = Now'.on)
<1>1. Course /\ session \in Sessions
  BY DEF Sound, Course
<1>2. /\ torn => session.saving
      /\ session.saving => session.fresh /\ Now.on \in recs
      /\ session.fresh => Now.on \in deployed
      /\ \A c \in deployed \ Unrecorded : c \in recs \/ (session.fresh /\ c = Now.on)
  BY DEF RecordInv
<1>3. CASE BeginSave(Now)
  <2>1. /\ session' = [session EXCEPT !.saving = TRUE] /\ done' = done
        /\ session.fresh /\ ~session.saving
        /\ recs' = (IF torn THEN {} ELSE recs) \cup {Now.on}
        /\ deployed' = deployed
    BY <1>3 DEF BeginSave, chain
  <2>2. session'.saving /\ session'.fresh /\ SameScript(session.at[1], session.at[2])
    BY <1>1, <2>1, Flags, FlagIsMove
  <2>3. Running' /\ Now' = Now
    BY <1>1, <2>1, <2>2, SamePlace
  <2>4. recs' = recs \cup {Now.on}
    BY <1>2, <2>1
  <2>5. QED
    BY <1>2, <2>1, <2>2, <2>3, <2>4
<1>4. CASE EndSave(Now)
  <2> DEFINE s == [session EXCEPT !.saving = FALSE, !.fresh = FALSE]
  <2>1. session.saving /\ torn' = FALSE /\ AdvanceAs(s) /\ recs' = recs /\ deployed' = deployed
    BY <1>4 DEF EndSave, chain
  <2>2. s \in Sessions /\ s.todo = session.todo /\ s.env = session.env /\ s.at = session.at
        /\ ~s.fresh /\ ~s.saving
    BY <1>1, Flags
  <2> HIDE DEF s
  <2>3. NextScript \/ \E p : session' = [s EXCEPT !.at = p]
    BY <1>1, <2>1, <2>2, AdvanceMoves
  <2>4. \A p : LET t == [s EXCEPT !.at = p] IN ~t.fresh /\ ~t.saving
    BY <2>2 DEF Sessions
  <2>5. ~session'.fresh /\ ~session'.saving
    BY <2>3, <2>4 DEF NextScript
  <2>6. QED
    BY <1>2, <2>1, <2>5
<1>5. CASE CreateStep(Now)
  <2>1. ~session.fresh /\ ~session.saving /\ ~torn /\ recs' = recs /\ torn' = torn
    BY <1>2, <1>5 DEF CreateStep, disk
  <2>2. CASE (Advance \/ Fail("other")) /\ (deployed' = deployed \/ (Now.what = "" /\ deployed' = deployed \cup {Now.on}))
    <3>1. ~session'.fresh /\ ~session'.saving
      BY <1>1, <2>1, <2>2, FlagsStay
    <3>2. Now.what = "" => Now.on \in Unrecorded
      BY <1>1, NowLegal DEF Legal, Creates
    <3>3. QED
      BY <1>2, <2>1, <2>2, <3>1, <3>2
  <2>3. CASE /\ deployed' = deployed \cup {Now.on}
             /\ session' = [session EXCEPT !.fresh = TRUE] /\ done' = done
    <3>1. session'.fresh /\ ~session'.saving /\ SameScript(session.at[1], session.at[2])
      <4> DEFINE s == [session EXCEPT !.fresh = TRUE]
      <4>1. /\ s \in Sessions /\ s.todo = session.todo /\ s.at = session.at /\ s.env = session.env
            /\ s.fresh /\ s.saving = session.saving
        BY <1>1, Flags
      <4>2. session' = s /\ done' = done
        BY <2>3
      <4> HIDE DEF s
      <4>3. QED
        BY <1>1, <2>1, <4>1, <4>2, FlagIsMove
    <3>2. Running' /\ Now' = Now
      BY <1>1, <2>3, <3>1, SamePlace DEF Creation
    <3>3. QED
      BY <1>2, <2>1, <2>3, <3>1, <3>2
  <2>4. QED
    BY <1>5, <2>2, <2>3 DEF CreateStep
<1>6. QED
  BY <1>3, <1>4, <1>5

LEMMA RecordKept ==
  ASSUME Sound, RecordInv, [Next]_vars
  PROVE  RecordInv'
<1>1. SUFFICES ASSUME faults' = 0
               PROVE  /\ torn' => session'.saving
                      /\ session'.saving => session'.fresh /\ Now'.on \in recs'
                      /\ session'.fresh => Running' /\ Now'.op = "create" /\ Now'.on \in deployed'
                      /\ \A c \in deployed' \ Unrecorded : c \in recs' \/ (session'.fresh /\ c = Now'.on)
  BY DEF RecordInv
<1>2. Course /\ faults = 0 /\ ~Struck /\ (Running /\ Next => CallOf(Now))
  BY <1>1, NoFault DEF Sound
<1>3. /\ torn => session.saving
      /\ session.saving => session.fresh /\ Now.on \in recs
      /\ session.fresh => Running /\ Now.op = "create" /\ Now.on \in deployed
      /\ \A c \in deployed \ Unrecorded : c \in recs \/ (session.fresh /\ c = Now.on)
  BY <1>2 DEF RecordInv
<1>4. CASE UNCHANGED vars
  BY <1>3, <1>4, StillThere
<1>5. CASE ~Running
  <2>1. ~session.fresh /\ ~session.saving /\ ~torn
    BY <1>3, <1>5
  <2>2. ~session'.fresh /\ ~session'.saving /\ deployed' = deployed /\ recs' = recs /\ torn' = torn
    BY <1>2, <1>5, <2>1, PausedNext DEF AtStart
  <2>3. QED
    BY <1>3, <2>1, <2>2
<1>6. CASE Running /\ CallOf(Now) /\ (CreateStep(Now) \/ BeginSave(Now) \/ EndSave(Now))
  <2>1. Now.op = "create"
    BY <1>6 DEF CreateStep, BeginSave, EndSave
  <2>2. QED
    BY <1>2, <1>6, <2>1, RecordingCall
<1>7. CASE Running /\ CallOf(Now) /\ ~(CreateStep(Now) \/ BeginSave(Now) \/ EndSave(Now))
  <2>1. Now.op # "create"
    BY <1>7 DEF CallOf, RequireStep, GrantStep, RevokeStep, TimelockStep, LinkStep, QuitStep,
       QueueStep, ActivateStep
  <2>2. ~session.fresh /\ ~session.saving /\ ~torn
    BY <1>3, <2>1
  <2>3. UNCHANGED <<deployed, recs, torn>> /\ (Advance \/ EndScript \/ \E error : Fail(error))
    BY <1>7 DEF CallOf, RequireStep, GrantStep, RevokeStep, TimelockStep, LinkStep, QuitStep,
       QueueStep, ActivateStep, chain, disk
  <2>4. ~session'.fresh /\ ~session'.saving
    BY <1>2, <1>7, <2>2, <2>3, FlagsStay
  <2>5. QED
    BY <1>3, <2>2, <2>3, <2>4
<1>8. QED
  BY <1>2, <1>4, <1>5, <1>6, <1>7

(* Without interruptions and swallowed errors the deployment registry      *)
(* names every contract that was deployed and is recorded at all, but for  *)
(* the one whose creation the run is at.                                   *)
THEOREM RegistryAlwaysComplete == Spec => []RegistryComplete
<1>1. Init => RecordInv
  BY NoRunOK DEF Init, RecordInv
<1>2. Sound /\ RecordInv /\ [Next]_vars => RecordInv'
  BY RecordKept
<1>3. RecordInv => RegistryComplete
  <2>1. Running => Now \in Current
    BY DEF Current
  <2>2. QED
    BY <2>1 DEF RecordInv, RegistryComplete
<1>4. QED
  BY <1>1, <1>2, <1>3, AlwaysSound, PTL DEF Spec

-----------------------------------------------------------------------------
(* What the deployer's authority is needed for, script by script, and that *)
(* none of it is ever undone: contracts stay, a role is only ever taken    *)
(* from the deployer, and these links are not set to another value.        *)
Preparing == {"10", "50", "70", "85", "86", "90"}
Left(s) ==
  CASE s = "10" -> "GuardianSafe" \in deployed
    [] s = "50" -> /\ {"TimelockController", "GovGovernor"} \subseteq deployed
                   /\ Holds("TimelockController", "PROPOSER_ROLE", "GovGovernor")
                   /\ Holds("TimelockController", "CANCELLER_ROLE", "GovGovernor")
    [] s = "70" -> /\ {"EscrowCreationPolicy", "BondCollector", "ModuleSnapshotRegistry",
                       "EscrowGovernanceTimelock", "EscrowVault"} \subseteq deployed
                   /\ Linked("EscrowVault", "creationPolicy", "EscrowCreationPolicy")
                   /\ Linked("EscrowVault", "bondCollector", "BondCollector")
                   /\ Linked("BondCollector", "escrow", "EscrowVault")
    [] s = "85" -> /\ "SewToken" \in deployed
                   /\ Linked("ResolverStakingModule", "slashingModule", "ResolverSlashingModule")
                   /\ Holds("InsurancePoolVault", "ROLE_SLASHING_MODULE", "ResolverSlashingModule")
    [] s = "86" -> /\ Linked(DRM, "adminFacet", "DRMAdminFacet")
                   /\ Linked(DRM, "bondTokenRegistry", "BondTokenRegistry")
                   /\ Linked(DRM, "incentiveModule", "ResolverIncentiveModule")
                   /\ Linked(DRM, "escrow", "EscrowVault")
    [] s = "90" -> Linked("AaveYieldModule", "recoveryOperator", "GuardianOps")
Prepared == \A s \in Preparing : Left(s)
(* What a step leaves behind when it succeeds, of the kind that lasts.     *)
Tied(st) == <<st.on, st.what, st.who>>
Stands(st, d, r, w) ==
  /\ st.op = "require" => st.on \subseteq d
  /\ st.op = "create" => st.on \in d
  /\ (st.op = "grant" /\ st.who # "deployer") => Tied(st) \in r
  /\ (st.op = "link" /\ Tied(st) \in Ties) => Tied(st) \in w
Stood(st) == Stands(st, deployed, roles, wired)
Stays(st) == Stands(st, deployed', roles', wired')

LEMMA TieFacts ==
  /\ \A t \in Ties : /\ t = <<t[1], t[2], t[3]>> /\ t[1] # DRMB
                     /\ t[2] \in Settings \cup ManyValued
  /\ \A t, u \in Ties : t[1] = u[1] /\ t[2] = u[2] => t = u
  /\ Slots \cap Settings = {}
<1>1. \A t \in Ties : /\ t = <<t[1], t[2], t[3]>> /\ t[1] # DRMB
                      /\ t[2] \in Settings \cup ManyValued
  BY DEF Ties, DRM, DRMB, Settings, ManyValued
<1>2. \A t, u \in Ties : t[1] = u[1] /\ t[2] = u[2] => t = u
  BY DEF Ties, DRM
<1>3. Slots \cap Settings = {}
  BY DEF Slots, Settings
<1>4. QED
  BY <1>1, <1>2, <1>3

LEMMA TieStays ==
  ASSUME NEW c, NEW l, NEW v, l \in Slots \/ Fits(c, l, v), NEW t \in Ties, t \in wired
  PROVE  t \in Wire(c, l, v)
<1>1. CASE l \in ManyValued \/ <<t[1], t[2]>> # <<c, l>>
  BY <1>1 DEF Wire
<1>2. CASE l \notin ManyValued /\ t[1] = c /\ t[2] = l
  <2>1. l \in Settings /\ l \notin Slots /\ c # DRMB
    BY <1>2, TieFacts
  <2>2. <<c, l, v>> \in Ties
    BY <2>1 DEF Fits
  <2>3. t = <<c, l, v>>
    BY <1>2, <2>2, TieFacts
  <2>4. QED
    BY <2>3 DEF Wire
<1>3. QED
  BY <1>1, <1>2

LEMMA LinkChanges ==
  ASSUME Course, [Next]_vars
  PROVE  \/ wired' = wired
         \/ \E c, l, v : wired' = Wire(c, l, v) /\ (l \in Slots \/ Fits(c, l, v))
<1>1. CASE ~(Running /\ Next)
  <2>1. ~Running => \/ \E r \in Runs : StartRun(r)
                    \/ SkipScript \/ DelayPasses \/ RegisterEscrow \/ UNCHANGED vars
    BY DEF Next, ScriptStep, Current, Interrupt, ErrorCaught
  <2>2. QED
    BY <1>1, <2>1 DEF StartRun, SkipScript, DelayPasses, RegisterEscrow, vars, chain
<1>2. CASE Running /\ Next
  <2>1. CallOf(Now) \/ Struck
    BY <1>2, RunningNext
  <2>2. Struck => wired' = wired
    BY FaultMoves DEF Struck
  <2>3. CASE LinkStep(Now)
    <3>1. Now.op = "link" /\ (wired' = wired \/ wired' = Wire(Now.on, Now.what, Now.who))
      BY <2>3 DEF LinkStep
    <3>2. Fits(Now.on, Now.what, Now.who)
      BY <1>2, <3>1, NowLegal DEF Legal
    <3>3. QED
      BY <3>1, <3>2
  <2>4. CASE ActivateStep(Now)
    <3>1. Now.what \in Slots
      BY <1>2, <2>4, NowLegal DEF ActivateStep, Legal
    <3>2. wired' = wired \/ \E v : wired' = Wire(Now.on, Now.what, v)
      BY <2>4 DEF ActivateStep
    <3>3. QED
      BY <3>1, <3>2
  <2>5. CASE CallOf(Now) /\ ~LinkStep(Now) /\ ~ActivateStep(Now)
    BY <2>5 DEF CallOf, RequireStep, CreateStep, BeginSave, EndSave, GrantStep, RevokeStep,
       TimelockStep, QuitStep, QueueStep, chain
  <2>6. QED
    BY <2>1, <2>2, <2>3, <2>4, <2>5
<1>3. QED
  BY <1>1, <1>2

LEMMA NothingUndone ==
  ASSUME Course, [Next]_vars
  PROVE  /\ deployed \subseteq deployed'
         /\ \A t \in Ties : t \in wired => t \in wired'
         /\ \A c, r, a : <<c, r, a>> \in roles /\ a # "deployer" => <<c, r, a>> \in roles'
<1>1. deployed \subseteq deployed'
  BY RolesGrow DEF Birth
<1>2. \A t \in Ties : t \in wired => t \in wired'
  BY LinkChanges, TieStays
<1>3. ASSUME NEW c, NEW r, NEW a, <<c, r, a>> \in roles, a # "deployer"
      PROVE  <<c, r, a>> \in roles'
  <2>1. ASSUME NEW st, Loss(st) PROVE <<c, r, a>> \in roles'
    <3>1. roles' = roles \ {<<st.on, st.what, st.who>>} /\ st.who = "deployer"
      BY <2>1 DEF Loss, Revokes
    <3>2. QED
      BY <1>3, <3>1
  <2>2. QED
    BY <1>3, <2>1, RolesGrow DEF Birth
<1>4. QED
  BY <1>1, <1>2, <1>3

LEMMA StandingKept ==
  ASSUME Course, [Next]_vars, NEW st, Stood(st)
  PROVE  Stays(st)
<1>1. Tied(st) = <<st.on, st.what, st.who>>
  BY DEF Tied
<1>2. QED
  BY <1>1, NothingUndone DEF Stood, Stays, Stands

LEMMA LeftKept ==
  ASSUME Course, [Next]_vars, NEW s \in Preparing, Left(s)
  PROVE  Left(s)'
<1> DEFINE keeps == /\ deployed \subseteq deployed'
                    /\ \A t \in Ties : t \in wired => t \in wired'
                    /\ \A c, r, a : <<c, r, a>> \in roles /\ a # "deployer" => <<c, r, a>> \in roles'
<1>1. keeps
  BY NothingUndone
<1>2. s \in {"10", "50", "85", "90"} => Left(s)'
  BY <1>1 DEF Left, Holds, Linked, Ties
<1>3. s = "70" => Left(s)'
  BY <1>1 DEF Left, Linked, Ties
<1>4. s = "86" => Left(s)'
  BY <1>1 DEF Left, Linked, Ties
<1>5. QED
  BY <1>2, <1>3, <1>4 DEF Preparing

LEMMA PreparedTies ==
  ASSUME Prepared
  PROVE  Ties \subseteq wired
<1>1. Left("70") /\ Left("85") /\ Left("86") /\ Left("90")
  BY DEF Prepared, Preparing
<1>2. QED
  BY <1>1 DEF Left, Linked, Ties

LEMMA PreparedIsComplete ==
  ASSUME Prepared
  PROVE  FinalizedComplete
<1>1. Left("10") /\ Left("50") /\ Left("70") /\ Left("85") /\ Left("86") /\ Left("90")
  BY DEF Prepared, Preparing
<1>2. /\ "GuardianSafe" \in deployed
      /\ {"TimelockController", "GovGovernor"} \subseteq deployed
      /\ Holds("TimelockController", "PROPOSER_ROLE", "GovGovernor")
      /\ Holds("TimelockController", "CANCELLER_ROLE", "GovGovernor")
      /\ "SewToken" \in deployed
      /\ Linked("ResolverStakingModule", "slashingModule", "ResolverSlashingModule")
      /\ Holds("InsurancePoolVault", "ROLE_SLASHING_MODULE", "ResolverSlashingModule")
      /\ Linked("AaveYieldModule", "recoveryOperator", "GuardianOps")
  BY <1>1 DEF Left
<1>3. /\ {"EscrowCreationPolicy", "BondCollector", "ModuleSnapshotRegistry",
          "EscrowGovernanceTimelock", "EscrowVault"} \subseteq deployed
      /\ Linked("EscrowVault", "creationPolicy", "EscrowCreationPolicy")
      /\ Linked("EscrowVault", "bondCollector", "BondCollector")
      /\ Linked("BondCollector", "escrow", "EscrowVault")
  BY <1>1 DEF Left
<1>4. /\ Linked(DRM, "adminFacet", "DRMAdminFacet")
      /\ Linked(DRM, "bondTokenRegistry", "BondTokenRegistry")
      /\ Linked(DRM, "incentiveModule", "ResolverIncentiveModule")
      /\ Linked(DRM, "escrow", "EscrowVault")
  BY <1>1 DEF Left
<1>5. QED
  BY <1>2, <1>3, <1>4 DEF FinalizedComplete, HealthyWiring

-----------------------------------------------------------------------------
(* The programs of these scripts.  A call in a firm block either succeeds  *)
(* or ends the run, but that one in an auth block may also be refused; and *)
(* what an auth block sets up is all on contracts that give the deployer   *)
(* the timelock's role at birth and that the script's first block needs.   *)
Firm   == {"must", "auth"}
Keyed  == {"EscrowVault", "BondCollector", "AaveYieldModule"}
Asks(p, c) == \E st \in Elems(p[1].steps) : \/ st.op = "require" /\ c \in st.on
                                            \/ st.op = "create" /\ st.on = c
KeyedStep(p, st) == /\ st.op = "link" /\ st.by = TIMELOCK /\ Tied(st) \in Ties
                    /\ st.on \in Keyed /\ Asks(p, st.on)
FreeStep(st) == st.op = "link" /\ Tied(st) \notin Ties
Plain(p, b) ==
  /\ \A st \in Elems(b.steps) : /\ st.op # "quit"
                                /\ st.op = "create" => b.kind = "must" /\ st.what # "verified"
  /\ b.kind = "auth" => \/ \A st \in Elems(b.steps) : KeyedStep(p, st)
                        \/ \A st \in Elems(b.steps) : FreeStep(st)
Orderly(p) == p[1].kind = "must" /\ \A b \in Elems(p) : Plain(p, b)
Calls(p, x) == \E b \in Elems(p) : b.kind \in Firm /\ x \in Elems(b.steps)

LEMMA ElemsListed ==
  /\ \A a : Elems(<<a>>) = {a}
  /\ \A a, b : Elems(<<a, b>>) = {a, b}
  /\ \A a, b, c : Elems(<<a, b, c>>) = {a, b, c}
  /\ \A a, b, c, d : Elems(<<a, b, c, d>>) = {a, b, c, d}
  /\ \A a, b, c, d, e : Elems(<<a, b, c, d, e>>) = {a, b, c, d, e}
  /\ \A a, b, c, d, e, f : Elems(<<a, b, c, d, e, f>>) = {a, b, c, d, e, f}
<1>1. \A a : Elems(<<a>>) = {a}
  <2>1. \A a : DOMAIN <<a>> = {1} /\ <<a>>[1] = a
    OBVIOUS
  <2>2. QED
    BY <2>1 DEF Elems
<1>2. \A a, b : Elems(<<a, b>>) = {a, b}
  <2>1. \A a, b : DOMAIN <<a, b>> = {1, 2} /\ <<a, b>>[1] = a /\ <<a, b>>[2] = b
    OBVIOUS
  <2>2. QED
    BY <2>1 DEF Elems
<1>3. \A a, b, c : Elems(<<a, b, c>>) = {a, b, c}
  <2> TAKE a, b, c
  <2> DEFINE q == <<a, b, c>>
  <2>1. DOMAIN q = {1, 2, 3} /\ q[1] = a /\ q[2] = b /\ q[3] = c
    OBVIOUS
  <2> HIDE DEF q
  <2>2. Elems(q) = {a, b, c}
    BY <2>1 DEF Elems
  <2>3. QED
    BY <2>2 DEF q
<1>4. \A a, b, c, d : Elems(<<a, b, c, d>>) = {a, b, c, d}
  <2> TAKE a, b, c, d
  <2> DEFINE q == <<a, b, c, d>>
  <2>1. DOMAIN q = {1, 2, 3, 4} /\ q[1] = a /\ q[2] = b /\ q[3] = c /\ q[4] = d
    OBVIOUS
  <2> HIDE DEF q
  <2>2. Elems(q) = {a, b, c, d}
    BY <2>1 DEF Elems
  <2>3. QED
    BY <2>2 DEF q
<1>5. \A a, b, c, d, e : Elems(<<a, b, c, d, e>>) = {a, b, c, d, e}
  <2> TAKE a, b, c, d, e
  <2> DEFINE q == <<a, b, c, d, e>>
  <2>1. DOMAIN q = {1, 2, 3, 4, 5} /\ q[1] = a /\ q[2] = b /\ q[3] = c /\ q[4] = d /\ q[5] = e
    OBVIOUS
  <2> HIDE DEF q
  <2>2. Elems(q) = {a, b, c, d, e}
    BY <2>1 DEF Elems
  <2>3. QED
    BY <2>2 DEF q
<1>6. \A a, b, c, d, e, f : Elems(<<a, b, c, d, e, f>>) = {a, b, c, d, e, f}
  <2> TAKE a, b, c, d, e, f
  <2> DEFINE q == <<a, b, c, d, e, f>>
  <2>1. /\ DOMAIN q = {1, 2, 3, 4, 5, 6} /\ q[1] = a /\ q[2] = b /\ q[3] = c
        /\ q[4] = d /\ q[5] = e /\ q[6] = f
    OBVIOUS
  <2> HIDE DEF q
  <2>2. Elems(q) = {a, b, c, d, e, f}
    BY <2>1 DEF Elems
  <2>3. QED
    BY <2>2 DEF q
<1>7. QED
  BY <1>1, <1>2, <1>3, <1>4, <1>5, <1>6

LEMMA ElemsJoined ==
  ASSUME NEW S, NEW p \in Seq(S), NEW q \in Seq(S)
  PROVE  Elems(p \o q) = Elems(p) \cup Elems(q)
<1> DEFINE m == Len(p)
           n == Len(q)
           r == p \o q
<1>1. /\ DOMAIN r = 1..m + n
      /\ \A i \in 1..m : r[i] = p[i]
      /\ \A i \in m + 1..m + n : r[i] = q[i - m]
  BY Joined
<1>2. DOMAIN p = 1..m /\ DOMAIN q = 1..n /\ m \in Nat /\ n \in Nat
  OBVIOUS
<1> HIDE DEF m, n, r
<1>3. Elems(r) \subseteq Elems(p) \cup Elems(q)
  <2>1. ASSUME NEW i \in 1..m + n PROVE r[i] \in Elems(p) \cup Elems(q)
    <3>1. i \in 1..m \/ (i \in m + 1..m + n /\ i - m \in 1..n)
      BY <1>2
    <3>2. QED
      BY <1>1, <1>2, <3>1 DEF Elems
  <2>2. QED
    BY <1>1, <2>1 DEF Elems
<1>4. \A i \in 1..m : i \in DOMAIN r /\ r[i] = p[i]
  BY <1>1, <1>2
<1>5. \A i \in 1..n : m + i \in DOMAIN r /\ r[m + i] = q[i]
  BY <1>1, <1>2
<1>6. Elems(p) \subseteq Elems(r)
  BY <1>2, <1>4 DEF Elems
<1>7. Elems(q) \subseteq Elems(r)
  BY <1>2, <1>5 DEF Elems
<1>8. Elems(r) = Elems(p) \cup Elems(q)
  BY <1>3, <1>6, <1>7
<1>9. QED
  BY <1>8 DEF r

LEMMA StepForms ==
  /\ \A k, n : LET st == Require(k, n) IN st.op = "require" /\ st.on = n /\ st.what = k
  /\ \A c : LET st == Create(c) IN st.op = "create" /\ st.on = c /\ st.what # "verified"
  /\ \A c : LET st == CreateAndRecord(c) IN st.op = "create" /\ st.on = c /\ st.what # "verified"
  /\ \A c, r, a : LET st == Grant(c, r, a) IN st.op = "grant" /\ st.who = a /\ Tied(st) = <<c, r, a>>
  /\ \A c, r, a : Revoke(c, r, a).op = "revoke"
  /\ \A c, l, v, r : LET st == Link(c, l, v, r)
                    IN st.op = "link" /\ st.on = c /\ st.by = r /\ Tied(st) = <<c, l, v>>
BY DEF Require, Create, CreateAndRecord, Grant, Revoke, Link, Step, Tied

LEMMA BlockFields ==
  ASSUME NEW q
  PROVE  /\ Must(q).kind = "must" /\ Must(q).steps = q
         /\ Auth(q).kind = "auth" /\ Auth(q).steps = q
         /\ Try(q).kind = "try" /\ Try(q).steps = q
BY DEF Must, Auth, Try

(* Blocks that are plain whatever program they are part of.                *)
LEMMA PlainBlocks ==
  ASSUME NEW p, NEW q, \A st \in Elems(q) : st.op # "quit"
  PROVE  /\ (\A st \in Elems(q) : st.op = "create" => st.what # "verified") => Plain(p, Must(q))
         /\ (\A st \in Elems(q) : st.op # "create") => Plain(p, Try(q))
         /\ (\A st \in Elems(q) : FreeStep(st)) => Plain(p, Auth(q))
         /\ (\A st \in Elems(q) : KeyedStep(p, st)) => Plain(p, Auth(q))
<1>1. (\A st \in Elems(q) : st.op = "create" => st.what # "verified") => Plain(p, Must(q))
  BY BlockFields DEF Plain
<1>2. (\A st \in Elems(q) : st.op # "create") => Plain(p, Try(q))
  BY BlockFields DEF Plain
<1>3. (\A st \in Elems(q) : FreeStep(st)) => Plain(p, Auth(q))
  BY BlockFields DEF Plain, FreeStep
<1>4. (\A st \in Elems(q) : KeyedStep(p, st)) => Plain(p, Auth(q))
  BY BlockFields DEF Plain, KeyedStep
<1>5. QED
  BY <1>1, <1>2, <1>3, <1>4

(* The programs are put together of lists, each list given as it stands.   *)
IsList(p) == \E S : p \in Seq(S)
LEMMA ListsJoined ==
  ASSUME NEW p, NEW q, IsList(p), IsList(q)
  PROVE  /\ Elems(p \o q) = Elems(p) \cup Elems(q) /\ IsList(p \o q)
         /\ p # <<>> => (p \o q)[1] = p[1] /\ p \o q # <<>>
<1>1. PICK S : p \in Seq(S)
  BY DEF IsList
<1>2. PICK T : q \in Seq(T)
  BY DEF IsList
<1>3. p \in Seq(S \cup T) /\ q \in Seq(S \cup T)
  BY <1>1, <1>2
<1>4. Elems(p \o q) = Elems(p) \cup Elems(q)
  BY <1>3, ElemsJoined
<1>5. IsList(p \o q)
  BY <1>3 DEF IsList
<1>6. p # <<>> => Len(p) > 0 /\ 1 \in 1..Len(p)
  BY <1>3
<1>7. \A i \in 1..Len(p) : (p \o q)[i] = p[i]
  BY <1>3, Joined
<1>8. p # <<>> => p \o q # <<>>
  BY <1>3
<1>9. QED
  BY <1>4, <1>5, <1>6, <1>7, <1>8

LEMMA ShortLists ==
  /\ IsList(<<>>) /\ Elems(<<>>) = {}
  /\ \A a : IsList(<<a>>) /\ <<a>> # <<>> /\ <<a>>[1] = a
  /\ \A a, b : IsList(<<a, b>>) /\ <<a, b>> # <<>> /\ <<a, b>>[1] = a
  /\ \A a, b, c : IsList(<<a, b, c>>)
  /\ \A a, b, c, d : IsList(<<a, b, c, d>>)
<1>1. IsList(<<>>) /\ Elems(<<>>) = {}
  <2>1. <<>> \in Seq({})
    OBVIOUS
  <2>2. QED
    BY <2>1 DEF IsList, Elems
<1>2. \A a : IsList(<<a>>) /\ <<a>> # <<>> /\ <<a>>[1] = a
  <2>1. \A a : <<a>> \in Seq({a}) /\ <<a>> # <<>> /\ <<a>>[1] = a
    OBVIOUS
  <2>2. QED
    BY <2>1 DEF IsList
<1>3. \A a, b : IsList(<<a, b>>) /\ <<a, b>> # <<>> /\ <<a, b>>[1] = a
  <2>1. \A a, b : <<a, b>> \in Seq({a, b}) /\ <<a, b>> # <<>> /\ <<a, b>>[1] = a
    OBVIOUS
  <2>2. QED
    BY <2>1 DEF IsList
<1>4. \A a, b, c : IsList(<<a, b, c>>)
  <2>1. \A a, b, c : <<a, b, c>> \in Seq({a, b, c})
    OBVIOUS
  <2>2. QED
    BY <2>1 DEF IsList
<1>5. \A a, b, c, d : IsList(<<a, b, c, d>>)
  <2>1. \A a, b, c, d : <<a, b, c, d>> \in Seq({a, b, c, d})
    OBVIOUS
  <2>2. QED
    BY <2>1 DEF IsList
<1>6. QED
  BY <1>1, <1>2, <1>3, <1>4, <1>5

LEMMA SafeProgram ==
  ASSUME NEW e, NEW d
  PROVE  Orderly(Safe(e, d)) /\ Calls(Safe(e, d), Create("GuardianSafe"))
<1> DEFINE p == Safe(e, d)
           q == <<Require({"config", "valid"}, {}), Create("GuardianSafe")>>
<1>1. p = <<Must(q)>> /\ p[1] = Must(q)
  BY DEF Safe
<1>2. Elems(p) = {Must(q)}
  BY <1>1, ElemsListed
<1>3. Elems(q) = {Require({"config", "valid"}, {}), Create("GuardianSafe")}
  BY ElemsListed
<1>4. \A st \in Elems(q) : st.op # "quit" /\ (st.op = "create" => st.what # "verified")
  BY <1>3, StepForms
<1> HIDE DEF q, p
<1>5. Plain(p, Must(q))
  BY <1>4, PlainBlocks
<1>6. QED
  BY <1>1, <1>2, <1>3, <1>5, BlockFields DEF Orderly, Calls, Firm, p

LEMMA WiringCalls ==
  ASSUME NEW e, NEW d
  PROVE  /\ Orderly(TimelockWiring(e, d))
         /\ Calls(TimelockWiring(e, d), Require({}, {"TimelockController", "GovGovernor"}))
         /\ Calls(TimelockWiring(e, d), Grant("TimelockController", "PROPOSER_ROLE", "GovGovernor"))
         /\ Calls(TimelockWiring(e, d), Grant("TimelockController", "CANCELLER_ROLE", "GovGovernor"))
<1> DEFINE p == TimelockWiring(e, d)
           q == <<Require({}, {"TimelockController", "GovGovernor"}),
                  Grant("TimelockController", "PROPOSER_ROLE", "GovGovernor"),
                  Grant("TimelockController", "CANCELLER_ROLE", "GovGovernor"),
                  Grant("TimelockController", ADMIN, "TimelockController"),
                  Revoke("TimelockController", ADMIN, "deployer")>>
<1>1. p = <<Must(q)>> /\ p[1] = Must(q)
  BY DEF TimelockWiring
<1>2. Elems(p) = {Must(q)}
  BY <1>1, ElemsListed
<1>3. Elems(q) = {Require({}, {"TimelockController", "GovGovernor"}),
                  Grant("TimelockController", "PROPOSER_ROLE", "GovGovernor"),
                  Grant("TimelockController", "CANCELLER_ROLE", "GovGovernor"),
                  Grant("TimelockController", ADMIN, "TimelockController"),
                  Revoke("TimelockController", ADMIN, "deployer")}
  BY ElemsListed
<1>4. \A st \in Elems(q) : st.op # "quit" /\ st.op # "create"
  BY <1>3, StepForms
<1> HIDE DEF q, p
<1>5. Plain(p, Must(q))
  BY <1>4, PlainBlocks
<1>6. QED
  BY <1>1, <1>2, <1>3, <1>5, BlockFields DEF Orderly, Calls, Firm, p

LEMMA VaultCalls ==
  ASSUME NEW e, NEW d
  PROVE  /\ Orderly(CoreEscrow(e, d))
         /\ Calls(CoreEscrow(e, d), Require({"network", "config"},
              {"EscrowCreationPolicy", "BondCollector", "ModuleSnapshotRegistry", "EscrowGovernanceTimelock"}))
         /\ Calls(CoreEscrow(e, d), CreateAndRecord("EscrowVault"))
         /\ Calls(CoreEscrow(e, d), Link("BondCollector", "escrow", "EscrowVault", TIMELOCK))
         /\ Calls(CoreEscrow(e, d), Link("EscrowVault", "creationPolicy", "EscrowCreationPolicy", TIMELOCK))
         /\ Calls(CoreEscrow(e, d), Link("EscrowVault", "bondCollector", "BondCollector", TIMELOCK))
<1> DEFINE p  == CoreEscrow(e, d)
           r1 == Require({"network", "config"}, {"EscrowCreationPolicy", "BondCollector",
                                           "ModuleSnapshotRegistry", "EscrowGovernanceTimelock"})
           r2 == CreateAndRecord("EscrowVault")
           l1 == Link("BondCollector", "escrow", "EscrowVault", TIMELOCK)
           g1 == Grant("EscrowVault", "ROLE_ADMIN_CONTRACT", "EscrowGovernanceTimelock")
           l2 == Link("EscrowVault", "creationPolicy", "EscrowCreationPolicy", TIMELOCK)
           l3 == Link("EscrowVault", "bondCollector", "BondCollector", TIMELOCK)
           r3 == CreateAndRecord("EscrowableERC20")
           l4 == Link("BondCollector", "escrow", "EscrowableERC20", TIMELOCK)
           b1 == Must(<<r1, r2>>)
           b2 == Auth(<<l1>>)
           b3 == Try(<<g1>>)
           b4 == Auth(<<l2, l3>>)
           b5 == Must(<<r3>>)
           b6 == Auth(<<l4>>)
           p1 == <<b1>>
           p2 == <<b2, b3, b4>>
           p3 == <<b5, b6>>
           more == When(e.erc20, p3)
<1>1. p = (p1 \o p2) \o more
  BY DEF CoreEscrow, DeployVault, ConnectVault, DeployTokenEscrow
<1>2. /\ r1.op = "require" /\ r1.on = {"EscrowCreationPolicy", "BondCollector",
                                       "ModuleSnapshotRegistry", "EscrowGovernanceTimelock"}
      /\ r2.op = "create" /\ r2.on = "EscrowVault" /\ r2.what # "verified"
      /\ r3.op = "create" /\ r3.what # "verified"
      /\ g1.op = "grant"
      /\ l1.op = "link" /\ l1.by = TIMELOCK /\ l1.on = "BondCollector" /\ Tied(l1) \in Ties
      /\ l2.op = "link" /\ l2.by = TIMELOCK /\ l2.on = "EscrowVault" /\ Tied(l2) \in Ties
      /\ l3.op = "link" /\ l3.by = TIMELOCK /\ l3.on = "EscrowVault" /\ Tied(l3) \in Ties
      /\ l4.op = "link" /\ Tied(l4) = <<"BondCollector", "escrow", "EscrowableERC20">>
  BY StepForms DEF Ties
<1>3. <<"BondCollector", "escrow", "EscrowableERC20">> \notin Ties
  BY DEF Ties, DRM
<1> HIDE DEF r1, r2, l1, g1, l2, l3, r3, l4
<1>4. /\ Elems(<<r1, r2>>) = {r1, r2} /\ Elems(<<l2, l3>>) = {l2, l3}
      /\ Elems(<<l1>>) = {l1} /\ Elems(<<g1>>) = {g1} /\ Elems(<<r3>>) = {r3} /\ Elems(<<l4>>) = {l4}
  BY ElemsListed
<1>5. /\ b1.kind = "must" /\ b1.steps = <<r1, r2>> /\ b2.kind = "auth" /\ b2.steps = <<l1>>
      /\ b4.kind = "auth" /\ b4.steps = <<l2, l3>>
  BY BlockFields
<1> HIDE DEF p, b1, b2, b3, b4, b5, b6
<1>6. Elems(p1) = {b1} /\ Elems(p2) = {b2, b3, b4} /\ Elems(p3) = {b5, b6}
  BY ElemsListed
<1>7. IsList(p1) /\ p1 # <<>> /\ p1[1] = b1 /\ IsList(p2) /\ IsList(p3)
  BY ShortLists
<1>8. IsList(more) /\ Elems(more) \subseteq {b5, b6}
  <2>1. more = p3 \/ more = <<>>
    BY DEF When
  <2> HIDE DEF more, p3
  <2>2. QED
    BY <1>6, <1>7, <2>1, ShortLists
<1> HIDE DEF more, p1, p2, p3
<1>9. /\ IsList(p1 \o p2) /\ Elems(p1 \o p2) = {b1, b2, b3, b4}
      /\ (p1 \o p2)[1] = b1 /\ p1 \o p2 # <<>>
  BY <1>6, <1>7, ListsJoined
<1>10. Elems(p) = {b1, b2, b3, b4} \cup Elems(more) /\ p[1] = b1
  BY <1>1, <1>8, <1>9, ListsJoined
<1>11. Asks(p, "EscrowVault") /\ Asks(p, "BondCollector")
  <2>1. r1 \in Elems(p[1].steps) /\ r2 \in Elems(p[1].steps)
    BY <1>4, <1>5, <1>10
  <2>2. QED
    BY <1>2, <2>1 DEF Asks
<1>12. KeyedStep(p, l1) /\ KeyedStep(p, l2) /\ KeyedStep(p, l3) /\ FreeStep(l4)
  BY <1>2, <1>3, <1>11 DEF KeyedStep, FreeStep, Keyed
<1>13. Plain(p, b1) /\ Plain(p, b2) /\ Plain(p, b3) /\ Plain(p, b4) /\ Plain(p, b5) /\ Plain(p, b6)
  BY <1>2, <1>4, <1>12, PlainBlocks DEF b1, b2, b3, b4, b5, b6
<1>14. Orderly(p)
  BY <1>5, <1>8, <1>10, <1>13 DEF Orderly
<1>15. Calls(p, r1) /\ Calls(p, r2) /\ Calls(p, l1) /\ Calls(p, l2) /\ Calls(p, l3)
  BY <1>4, <1>5, <1>10 DEF Calls, Firm
<1>16. QED
  BY <1>14, <1>15 DEF p, r1, r2, l1, l2, l3

LEMMA CapitalCalls ==
  ASSUME NEW e, NEW d
  PROVE  /\ Orderly(Dr3Modules(e, d))
         /\ Calls(Dr3Modules(e, d), Require({"network", "stable"}, {"TimelockController", "SewToken"}))
         /\ Calls(Dr3Modules(e, d),
                  Link("ResolverStakingModule", "slashingModule", "ResolverSlashingModule", TIMELOCK))
         /\ Calls(Dr3Modules(e, d),
                  Grant("InsurancePoolVault", "ROLE_SLASHING_MODULE", "ResolverSlashingModule"))
<1> DEFINE p  == Dr3Modules(e, d)
           r1 == Require({"network", "stable"}, {"TimelockController", "SewToken"})
           q1 == <<r1, CreateAndRecord("InsurancePoolVault"), CreateAndRecord("ResolverStakingModule"),
                   CreateAndRecord("ResolverSlashingModule"), CreateAndRecord("BondTokenRegistry")>>
           q2 == <<CreateAndRecord("DRMAdminFacet"), CreateAndRecord("PaymentCalculationLibrary"),
                   CreateAndRecord("ResolverIncentiveModule")>>
           l1 == Link("ResolverStakingModule", "slashingModule", "ResolverSlashingModule", TIMELOCK)
           g1 == Grant("InsurancePoolVault", "ROLE_SLASHING_MODULE", "ResolverSlashingModule")
           q3 == <<Grant("ResolverStakingModule", TIMELOCK, "deployer"), l1,
                   Grant("ResolverStakingModule", TIMELOCK, "TimelockController"), g1,
                   Grant("InsurancePoolVault", TIMELOCK, "TimelockController"),
                   Grant("ResolverIncentiveModule", TIMELOCK, "TimelockController")>>
           p1 == <<Must(q1)>>
           p2 == <<Must(q2)>>
           p3 == <<Must(q3)>>
<1>1. p = (p1 \o p2) \o p3
  BY DEF Dr3Modules, DeployDr3, DeployDr3Rest, WireDr3
<1>2. /\ r1 \in Elems(q1) /\ l1 \in Elems(q3) /\ g1 \in Elems(q3)
      /\ \A st \in Elems(q1) \cup Elems(q2) \cup Elems(q3) :
            st.op \notin {"quit"} /\ (st.op = "create" => st.what # "verified")
  <2>1. /\ Elems(q1) = {r1, CreateAndRecord("InsurancePoolVault"), CreateAndRecord("ResolverStakingModule"),
                        CreateAndRecord("ResolverSlashingModule"), CreateAndRecord("BondTokenRegistry")}
        /\ Elems(q2) = {CreateAndRecord("DRMAdminFacet"), CreateAndRecord("PaymentCalculationLibrary"),
                        CreateAndRecord("ResolverIncentiveModule")}
        /\ Elems(q3) = {Grant("ResolverStakingModule", TIMELOCK, "deployer"), l1,
                        Grant("ResolverStakingModule", TIMELOCK, "TimelockController"), g1,
                        Grant("InsurancePoolVault", TIMELOCK, "TimelockController"),
                        Grant("ResolverIncentiveModule", TIMELOCK, "TimelockController")}
    BY ElemsListed
  <2> HIDE DEF q1, q2, q3
  <2>2. QED
    BY <2>1, StepForms
<1> HIDE DEF p, q1, q2, q3, r1, l1, g1
<1>3. /\ Elems(p1) = {Must(q1)} /\ Elems(p2) = {Must(q2)} /\ Elems(p3) = {Must(q3)}
      /\ IsList(p1) /\ p1 # <<>> /\ p1[1] = Must(q1) /\ IsList(p2) /\ IsList(p3)
  BY ElemsListed, ShortLists
<1> HIDE DEF p1, p2, p3
<1>4. /\ IsList(p1 \o p2) /\ Elems(p1 \o p2) = {Must(q1), Must(q2)}
      /\ (p1 \o p2)[1] = Must(q1) /\ p1 \o p2 # <<>>
  BY <1>3, ListsJoined
<1>5. Elems(p) = {Must(q1), Must(q2), Must(q3)} /\ p[1] = Must(q1)
  BY <1>1, <1>3, <1>4, ListsJoined
<1>6. Plain(p, Must(q1)) /\ Plain(p, Must(q2)) /\ Plain(p, Must(q3))
  BY <1>2, PlainBlocks
<1>7. Orderly(p)
  BY <1>5, <1>6, BlockFields DEF Orderly
<1>8. Calls(p, r1) /\ Calls(p, l1) /\ Calls(p, g1)
  BY <1>2, <1>5, BlockFields DEF Calls, Firm
<1>9. QED
  BY <1>7, <1>8 DEF p, r1, l1, g1

LEMMA ResolutionCalls ==
  ASSUME NEW e, NEW d
  PROVE  /\ Orderly(ResolutionModule(e, d))
         /\ Calls(ResolutionModule(e, d), Link(DRM, "adminFacet", "DRMAdminFacet", ADMIN))
         /\ Calls(ResolutionModule(e, d), Link(DRM, "bondTokenRegistry", "BondTokenRegistry", TIMELOCK))
         /\ Calls(ResolutionModule(e, d), Link(DRM, "incentiveModule", "ResolverIncentiveModule", TIMELOCK))
         /\ "EscrowVault" \in d =>
               Calls(ResolutionModule(e, d), Link(DRM, "escrow", "EscrowVault", TIMELOCK))
<1> DEFINE p  == ResolutionModule(e, d)
           q1 == <<Require({"network"}, {"TimelockController", "BondTokenRegistry", "DRMAdminFacet",
                                         "ResolverIncentiveModule"}),
                   CreateAndRecord(DRM)>>
           l1 == Link(DRM, "adminFacet", "DRMAdminFacet", ADMIN)
           l2 == Link(DRM, "bondTokenRegistry", "BondTokenRegistry", TIMELOCK)
           l3 == Link(DRM, "incentiveModule", "ResolverIncentiveModule", TIMELOCK)
           l4 == Link(DRM, "escrow", "EscrowVault", TIMELOCK)
           s1 == <<l1, Grant(DRM, TIMELOCK, "TimelockController")>>
           s2 == <<Grant(DRM, TIMELOCK, "EscrowGovernanceTimelock")>>
           s3 == <<Grant(DRM, TIMELOCK, "deployer"), l2, l3>>
           s4 == <<l4>>
           w2 == When("EscrowGovernanceTimelock" \in d, s2)
           w4 == When("EscrowVault" \in d, s4)
           q2 == ((s1 \o w2) \o s3) \o w4
           p1 == <<Must(q1)>>
           p2 == <<Must(q2)>>
<1>1. p = p1 \o p2
  BY DEF ResolutionModule, DeployDrm, WireDrm
<1>2. /\ \A st \in Elems(q1) : st.op # "quit" /\ (st.op = "create" => st.what # "verified")
      /\ l1 \in Elems(s1) /\ l2 \in Elems(s3) /\ l3 \in Elems(s3) /\ Elems(s4) = {l4}
      /\ \A st \in Elems(s1) \cup Elems(s2) \cup Elems(s3) \cup Elems(s4) :
            st.op # "quit" /\ st.op # "create"
  <2>1. /\ Elems(q1) = {Require({"network"}, {"TimelockController", "BondTokenRegistry", "DRMAdminFacet",
                                              "ResolverIncentiveModule"}), CreateAndRecord(DRM)}
        /\ Elems(s1) = {l1, Grant(DRM, TIMELOCK, "TimelockController")}
        /\ Elems(s2) = {Grant(DRM, TIMELOCK, "EscrowGovernanceTimelock")}
        /\ Elems(s3) = {Grant(DRM, TIMELOCK, "deployer"), l2, l3}
        /\ Elems(s4) = {l4}
    BY ElemsListed
  <2> HIDE DEF q1, s1, s2, s3, s4
  <2>2. QED
    BY <2>1, StepForms
<1>3. IsList(s1) /\ IsList(s2) /\ IsList(s3) /\ IsList(s4)
  BY ShortLists
<1> HIDE DEF p, q1, l1, l2, l3, l4, s1, s2, s3, s4
<1>4. /\ IsList(w2) /\ Elems(w2) \subseteq Elems(s2)
      /\ IsList(w4) /\ Elems(w4) \subseteq Elems(s4)
      /\ "EscrowVault" \in d => w4 = s4
  BY <1>3, ShortLists DEF When
<1> HIDE DEF w2, w4
<1>5. IsList(s1 \o w2) /\ Elems(s1 \o w2) = Elems(s1) \cup Elems(w2)
  BY <1>3, <1>4, ListsJoined
<1>6. /\ IsList((s1 \o w2) \o s3)
      /\ Elems((s1 \o w2) \o s3) = (Elems(s1) \cup Elems(w2)) \cup Elems(s3)
  BY <1>3, <1>5, ListsJoined
<1>7. Elems(q2) = ((Elems(s1) \cup Elems(w2)) \cup Elems(s3)) \cup Elems(w4)
  BY <1>4, <1>6, ListsJoined
<1> HIDE DEF q2
<1>8. Elems(p) = {Must(q1), Must(q2)} /\ p[1] = Must(q1)
  <2>1. /\ Elems(p1) = {Must(q1)} /\ Elems(p2) = {Must(q2)}
        /\ IsList(p1) /\ p1 # <<>> /\ p1[1] = Must(q1) /\ IsList(p2)
    BY ElemsListed, ShortLists
  <2> HIDE DEF p1, p2
  <2>2. QED
    BY <1>1, <2>1, ListsJoined
<1>9. Plain(p, Must(q1)) /\ Plain(p, Must(q2))
  BY <1>2, <1>4, <1>7, PlainBlocks
<1>10. Orderly(p)
  BY <1>8, <1>9, BlockFields DEF Orderly
<1>11. \A x \in Elems(q2) : Calls(p, x)
  BY <1>8, BlockFields DEF Calls, Firm
<1>12. Calls(p, l1) /\ Calls(p, l2) /\ Calls(p, l3) /\ ("EscrowVault" \in d => Calls(p, l4))
  BY <1>2, <1>4, <1>7, <1>11
<1>13. QED
  BY <1>10, <1>12 DEF p, l1, l2, l3, l4

LEMMA GuardianCalls ==
  ASSUME NEW e, NEW d
  PROVE  /\ Orderly(GuardianOps(e, d))
         /\ Calls(GuardianOps(e, d), Link("AaveYieldModule", "recoveryOperator", "GuardianOps", TIMELOCK))
<1> DEFINE p  == GuardianOps(e, d)
           r1 == Require({"network", "config"}, {GuardedVault(d), "TimelockController", "AaveYieldModule"})
           r2 == CreateAndRecord("GuardianOps")
           l1 == Link("AaveYieldModule", "recoveryOperator", "GuardianOps", TIMELOCK)
           r3 == CreateAndRecord("EmergencyRecoveryProposal")
           l2 == Link("EmergencyRecoveryProposal", "recoveryEnabled", "true", ADMIN)
           g1 == Grant(GuardedVault(d), GUARDIAN, GuardianAccount(e, d))
           g2 == Grant(GuardedVault(d), GUARDIAN, "EmergencyRecoveryProposal")
           b1 == Must(<<r1, r2>>)
           b2 == Auth(<<l1>>)
           b3 == Must(<<r3>>)
           b4 == Auth(<<l2>>)
           b5 == Try(<<g1>>)
           b6 == Try(<<g2>>)
           p1 == <<b1, b2>>
           p2 == <<b3, b4, b5, b6>>
<1>1. p = p1 \o p2
  BY DEF GuardianOps, DeployGuardianOps, EnableRecovery
<1>2. /\ r1.op = "require" /\ r1.on = {GuardedVault(d), "TimelockController", "AaveYieldModule"}
      /\ r2.op = "create" /\ r2.what # "verified"
      /\ r3.op = "create" /\ r3.what # "verified"
      /\ g1.op = "grant" /\ g2.op = "grant"
      /\ l1.op = "link" /\ l1.by = TIMELOCK /\ l1.on = "AaveYieldModule" /\ Tied(l1) \in Ties
      /\ l2.op = "link" /\ Tied(l2) = <<"EmergencyRecoveryProposal", "recoveryEnabled", "true">>
  BY StepForms DEF Ties
<1>3. <<"EmergencyRecoveryProposal", "recoveryEnabled", "true">> \notin Ties
  BY DEF Ties, DRM
<1> HIDE DEF r1, r2, l1, r3, l2, g1, g2
<1>4. /\ Elems(<<r1, r2>>) = {r1, r2} /\ Elems(<<l1>>) = {l1} /\ Elems(<<l2>>) = {l2}
      /\ Elems(<<g1>>) = {g1} /\ Elems(<<g2>>) = {g2} /\ Elems(<<r3>>) = {r3}
  BY ElemsListed
<1>5. b1.kind = "must" /\ b1.steps = <<r1, r2>> /\ b2.kind = "auth" /\ b2.steps = <<l1>>
  BY BlockFields
<1> HIDE DEF p, b1, b2, b3, b4, b5, b6
<1>6. /\ Elems(p1) = {b1, b2} /\ Elems(p2) = {b3, b4, b5, b6}
      /\ IsList(p1) /\ IsList(p2) /\ p1 # <<>> /\ p1[1] = b1
  BY ElemsListed, ShortLists
<1> HIDE DEF p1, p2
<1>7. Elems(p) = {b1, b2, b3, b4, b5, b6} /\ p[1] = b1
  BY <1>1, <1>6, ListsJoined
<1>8. Asks(p, "AaveYieldModule")
  <2>1. r1 \in Elems(p[1].steps)
    BY <1>4, <1>5, <1>7
  <2>2. QED
    BY <1>2, <2>1 DEF Asks
<1>9. KeyedStep(p, l1) /\ FreeStep(l2)
  BY <1>2, <1>3, <1>8 DEF KeyedStep, FreeStep, Keyed
<1>10. Plain(p, b1) /\ Plain(p, b2) /\ Plain(p, b3) /\ Plain(p, b4) /\ Plain(p, b5) /\ Plain(p, b6)
  BY <1>2, <1>4, <1>9, PlainBlocks DEF b1, b2, b3, b4, b5, b6
<1>11. Orderly(p)
  BY <1>5, <1>7, <1>10 DEF Orderly
<1>12. Calls(p, l1)
  BY <1>4, <1>5, <1>7 DEF Calls, Firm
<1>13. QED
  BY <1>11, <1>12 DEF p, l1

-----------------------------------------------------------------------------
(* What lies behind a run in one of these scripts: every step of a firm    *)
(* block before the current one stands; and a contract yet to be recorded  *)
(* exists.                                                                 *)
Behind(i, k) == i < session.at[1] \/ (i = session.at[1] /\ k < session.at[2])
InPreparing  == Running /\ Script \in Preparing
PassedInv == InPreparing =>
  \A i \in 1..Len(Program) : \A k \in 1..Len(Program[i].steps) :
    (Behind(i, k) /\ Program[i].kind \in Firm) => Stood(Program[i].steps[k])
FreshInv == InPreparing =>
  /\ session.fresh => Now.op = "create" /\ Now.on \in deployed
  /\ session.saving => session.fresh
(* When the deployer has lost the timelock's role on a contract, all is    *)
(* done for which it was needed.                                           *)
Deposit == \A c \in Keyed : c \in deployed => Holds(c, TIMELOCK, "deployer") \/ Prepared
AllStay == \A i \in 1..Len(Program) : \A k \in 1..Len(Program[i].steps) :
             Program[i].kind \in Firm => Stays(Program[i].steps[k])

LEMMA PreparingProgram ==
  ASSUME Course, ~Idle, Script \in Preparing
  PROVE  Running /\ Orderly(Program)
<1>1. \E x : Orderly(Program) /\ Calls(Program, x)
  <2>1. CASE Script \in {"10", "50", "70"}
    BY <2>1, SafeProgram, WiringCalls, VaultCalls DEF Program, Body
  <2>2. CASE Script \in {"85", "86", "90"}
    BY <2>2, CapitalCalls, ResolutionCalls, GuardianCalls DEF Program, Body
  <2>3. QED
    BY <2>1, <2>2 DEF Preparing
<1>2. Program # <<>>
  <2>1. Elems(Program) # {}
    BY <1>1 DEF Calls
  <2>2. QED
    BY <2>1, ShortLists
<1>3. QED
  BY <1>1, <1>2 DEF Running

LEMMA NowPlain ==
  ASSUME Course, InPreparing
  PROVE  /\ Plain(Program, Block) /\ \A k \in 1..Len(Block.steps) : Block.steps[k] \in Elems(Block.steps)
         /\ Now \in Elems(Block.steps) /\ Program[1].kind = "must"
         /\ Now.op # "quit"
         /\ Now.op = "create" => Block.kind = "must" /\ Now.what # "verified"
<1>1. ~Idle /\ Orderly(Program)
  BY PreparingProgram DEF InPreparing, Running
<1>2. /\ session.at[1] \in DOMAIN Program /\ Block = Program[session.at[1]]
      /\ session.at[2] \in 1..Len(Block.steps) /\ DOMAIN Block.steps = 1..Len(Block.steps)
  <2>1. Script \in Scripts /\ deployed \subseteq Contracts
    BY <1>1, ProgramOK DEF Course
  <2>2. session.at[1] \in 1..Len(Program) /\ Block = Program[session.at[1]] /\ session.at[2] \in 1..Len(Block.steps)
    BY NowLegal DEF InPreparing
  <2>3. QED
    BY <2>1, <2>2, BodyLegal DEF Program
<1>3. Block \in Elems(Program)
  BY <1>2 DEF Elems
<1>4. \A k \in 1..Len(Block.steps) : Block.steps[k] \in Elems(Block.steps)
  BY <1>2 DEF Elems
<1>5. Now \in Elems(Block.steps)
  BY <1>2, <1>4 DEF Now
<1>6. QED
  BY <1>1, <1>3, <1>4, <1>5 DEF Orderly, Plain

(* The calls of these scripts: each ends the run, leaves it at its place,  *)
(* goes on after what lasts of it has come to stand, or fails; and a link  *)
(* is refused only to a deployer without the role for it.                  *)
Refused == ~Holds(Now.on, Now.by, "deployer")
LEMMA PreparingCall ==
  ASSUME Course, FreshInv, InPreparing, Next
  PROVE  \/ Abort
         \/ SameScript(session.at[1], session.at[2])
         \/ \E s \in Sessions : /\ s.todo = session.todo /\ s.env = session.env /\ s.at = session.at
                                /\ AdvanceAs(s) /\ Stays(Now)
         \/ Fail("other")
         \/ Fail("unauthorized") /\ (Now.op = "link" => Refused)
<1>1. session \in Sessions /\ Running
  BY DEF Course, InPreparing
<1>2. CallOf(Now) \/ Struck
  BY <1>1, RunningNext
<1>3. Advance /\ Stays(Now) => \E s \in Sessions : /\ s.todo = session.todo /\ s.env = session.env
                                                   /\ s.at = session.at /\ AdvanceAs(s) /\ Stays(Now)
  BY <1>1 DEF Advance
<1>4. CASE Struck
  <2>1. Interrupt => Abort
    BY DEF Interrupt
  <2>2. ErrorCaught => Fail("other")
    BY DEF ErrorCaught
  <2>3. ASSUME NEW now \in Current, ProbeFails(now)
        PROVE  Advance /\ Stays(Now)
    <3>1. now = Now
      BY CurrentIsNow
    <3>2. QED
      BY <2>3, <3>1 DEF ProbeFails, Stays, Stands
  <2>4. ASSUME NEW now \in Current, VerifyFails(now)
        PROVE  FALSE
    BY <2>4, CurrentIsNow, NowPlain DEF VerifyFails
  <2>5. QED
    BY <1>3, <1>4, <2>1, <2>2, <2>3, <2>4 DEF Struck
<1>5. CASE RequireStep(Now)
  <2>1. \/ Advance /\ (Now.op = "require" => Now.on \subseteq deployed)
        \/ Fail("other")
    BY <1>5 DEF RequireStep
  <2>2. deployed' = deployed /\ Now.op \in {"require", "assert"}
    BY <1>5 DEF RequireStep, chain
  <2>3. QED
    BY <1>3, <2>1, <2>2 DEF Stays, Stands
<1>6. CASE CreateStep(Now)
  <2>1. Now.op = "create"
    BY <1>6 DEF CreateStep
  <2>2. CASE Advance /\ Now.on \in deployed'
    BY <1>3, <2>1, <2>2 DEF Stays, Stands
  <2>3. CASE session' = [session EXCEPT !.fresh = TRUE] /\ done' = done
    <3> DEFINE s == [session EXCEPT !.fresh = TRUE]
    <3>1. s \in Sessions /\ s.todo = session.todo /\ s.env = session.env /\ s.at = session.at
      BY <1>1, Flags
    <3>2. session' = s /\ done' = done
      BY <2>3
    <3> HIDE DEF s
    <3>3. QED
      BY <1>1, <3>1, <3>2, FlagIsMove
  <2>4. QED
    BY <1>6, <2>2, <2>3 DEF CreateStep
<1>7. CASE BeginSave(Now)
  <2>1. session' = [session EXCEPT !.saving = TRUE] /\ done' = done
    BY <1>7 DEF BeginSave
  <2>2. QED
    BY <1>1, <2>1, Flags, FlagIsMove
<1>8. CASE EndSave(Now)
  <2> DEFINE s == [session EXCEPT !.saving = FALSE, !.fresh = FALSE]
  <2>1. AdvanceAs(s) /\ deployed' = deployed /\ session.saving /\ Now.op = "create"
    BY <1>8 DEF EndSave, chain
  <2>2. s \in Sessions /\ s.todo = session.todo /\ s.env = session.env /\ s.at = session.at
    BY <1>1, Flags
  <2> HIDE DEF s
  <2>3. Stays(Now)
    BY <2>1 DEF FreshInv, Stays, Stands
  <2>4. QED
    BY <2>1, <2>2, <2>3
<1>9. CASE GrantStep(Now)
  <2>1. \/ Fail("unauthorized")
        \/ Advance /\ (Now.op = "grant" => Tied(Now) \in roles')
    BY <1>9 DEF GrantStep, Holds, Tied
  <2>2. Now.op \in {"grant", "grantIfAdmin", "grantIfKnown"}
    BY <1>9 DEF GrantStep
  <2>3. QED
    BY <1>3, <2>1, <2>2 DEF Stays, Stands
<1>10. CASE LinkStep(Now)
  <2>1. \/ Fail("unauthorized") /\ Refused
        \/ Fail("other")
        \/ Advance /\ Tied(Now) \in wired'
    BY <1>10 DEF LinkStep, Linked, Wire, Tied, Refused
  <2>2. Now.op = "link"
    BY <1>10 DEF LinkStep
  <2>3. QED
    BY <1>3, <2>1, <2>2 DEF Stays, Stands
<1>11. CASE RevokeStep(Now) \/ TimelockStep(Now) \/ QueueStep(Now) \/ ActivateStep(Now)
  <2>1. Now.op \in {"revoke", "viaTimelock", "queue", "queueNew", "activate", "activateIfDue"}
    BY <1>11 DEF RevokeStep, TimelockStep, QueueStep, ActivateStep
  <2>2. Advance \/ Fail("other") \/ Fail("unauthorized")
    BY <1>11 DEF RevokeStep, TimelockStep, QueueStep, ActivateStep
  <2>3. QED
    BY <1>3, <2>1, <2>2 DEF Stays, Stands
<1>12. ~QuitStep(Now)
  BY NowPlain DEF QuitStep
<1>13. QED
  BY <1>2, <1>4, <1>5, <1>6, <1>7, <1>8, <1>9, <1>10, <1>11, <1>12 DEF CallOf

(* A refusal in an auth block leaves nothing undone: either the block sets *)
(* up nothing that lasts, or the deployer lost its role on the contract,   *)
(* and then everything stands.                                             *)
LEMMA Refusal ==
  ASSUME Course, PassedInv, Deposit, InPreparing, Block.kind = "auth", Now.op = "link" => Refused
  PROVE  \A k \in 1..Len(Block.steps) : Stood(Block.steps[k])
<1>1. /\ Plain(Program, Block) /\ \A k \in 1..Len(Block.steps) : Block.steps[k] \in Elems(Block.steps)
      /\ Now \in Elems(Block.steps) /\ Program[1].kind = "must"
  BY NowPlain
<1>2. CASE \A st \in Elems(Block.steps) : FreeStep(st)
  BY <1>1, <1>2 DEF FreeStep, Stood, Stands
<1>3. CASE \A st \in Elems(Block.steps) : KeyedStep(Program, st)
  <2>1. /\ Now.op = "link" /\ Now.by = TIMELOCK /\ Now.on \in Keyed /\ Asks(Program, Now.on)
    BY <1>1, <1>3 DEF KeyedStep
  <2>2. PICK st \in Elems(Program[1].steps) : \/ st.op = "require" /\ Now.on \in st.on
                                              \/ st.op = "create" /\ st.on = Now.on
    BY <2>1 DEF Asks
  <2>3. PICK j \in DOMAIN Program[1].steps : Program[1].steps[j] = st
    BY DEF Elems
  <2>4. /\ 1 \in 1..Len(Program) /\ 1 < session.at[1] /\ j \in 1..Len(Program[1].steps)
    <3>1. Script \in Scripts /\ deployed \subseteq Contracts /\ Running
      BY NowLegal DEF Course, InPreparing
    <3>2. session.at[1] \in 1..Len(Program) /\ Len(Program) \in Nat /\ Block = Program[session.at[1]]
      BY <3>1, NowLegal
    <3>3. session.at[1] # 1
      BY <1>1, <3>2
    <3>4. 1 \in 1..Len(Program)
      BY <3>2
    <3>5. DOMAIN Program[1].steps = 1..Len(Program[1].steps)
      BY <3>1, <3>4, BodyLegal DEF Program
    <3>6. QED
      BY <3>2, <3>3, <3>4, <3>5
  <2>5. Stood(st)
    <3>1. Behind(1, j) /\ Program[1].kind \in Firm
      BY <1>1, <2>4 DEF Behind, Firm
    <3>2. QED
      BY <2>3, <2>4, <3>1 DEF PassedInv
  <2>6. Now.on \in deployed
    BY <2>2, <2>5 DEF Stood, Stands
  <2>7. Prepared
    BY <2>1, <2>6 DEF Deposit, Refused
  <2>8. QED
    BY <1>1, <1>3, <2>7, PreparedTies DEF KeyedStep, Stood, Stands
<1>4. QED
  BY <1>1, <1>2, <1>3 DEF Plain

Reached(b, k) == \A i \in 1..Len(Program) : \A j \in 1..Len(Program[i].steps) :
  ((i < b \/ (i = b /\ j < k)) /\ Program[i].kind \in Firm) => Stays(Program[i].steps[j])

LEMMA ReachedPasses ==
  ASSUME Course, InPreparing, deployed' = deployed \/ Creation,
         NEW b \in Nat, NEW k \in Nat, SameScript(b, k), Reached(b, k)
  PROVE  PassedInv'
<1>1. Program' = Program /\ session'.at[1] = b /\ session'.at[2] = k
  BY SameScriptCourse DEF SameScript, InPreparing
<1>2. \A st : Stays(st) => Stands(st, deployed', roles', wired')
  BY DEF Stays
<1>3. QED
  BY <1>1, <1>2 DEF PassedInv, Behind, Reached, Stood

LEMMA PreparingStep ==
  ASSUME Course, PassedInv, FreshInv, Deposit, InPreparing, Next
  PROVE  \/ NextScript /\ (session'.todo = <<>> \/ AllStay)
         \/ PassedInv' /\ \E b, k : SameScript(b, k)
<1> DEFINE m == session.at[1]
           n == session.at[2]
<1>1. /\ Running /\ m \in 1..Len(Program) /\ n \in 1..Len(Block.steps) /\ Block = Program[m]
      /\ Len(Program) \in Nat /\ Len(Block.steps) \in Nat /\ Now = Block.steps[n]
  BY NowLegal DEF InPreparing, Now
<1>2. deployed' = deployed \/ Creation
  <2>1. Struck => deployed' = deployed
    BY <1>1, FaultMoves DEF Struck
  <2>2. CallOf(Now) => (deployed' = deployed \/ Creation)
    BY <1>1, ReadingMoves, RoleMoves, CreateMoves DEF CallOf, Current
  <2>3. QED
    BY <1>1, <2>1, <2>2, RunningNext
<1>3. Reached(m, n)
  <2>1. \A i \in 1..Len(Program) : \A j \in 1..Len(Program[i].steps) :
          ((i < m \/ (i = m /\ j < n)) /\ Program[i].kind \in Firm) => Stood(Program[i].steps[j])
    BY DEF PassedInv, Behind
  <2>2. \A st : Stood(st) => Stays(st)
    BY StandingKept
  <2>3. QED
    BY <2>1, <2>2 DEF Reached
<1>4. \A b, k \in Nat : SameScript(b, k) /\ Reached(b, k) => PassedInv'
  BY <1>2, ReachedPasses
<1>5. Reached(Len(Program) + 1, 1) => AllStay
  <2>1. \A i \in 1..Len(Program) : i < Len(Program) + 1
    BY <1>1
  <2>2. QED
    BY <2>1 DEF Reached, AllStay
<1>6. CASE SameScript(m, n)
  BY <1>1, <1>3, <1>4, <1>6
<1>7. CASE \E s \in Sessions : /\ s.todo = session.todo /\ s.env = session.env /\ s.at = session.at
                               /\ AdvanceAs(s) /\ Stays(Now)
  <2>1. PICK s \in Sessions : /\ s.todo = session.todo /\ s.env = session.env /\ s.at = session.at
                              /\ AdvanceAs(s) /\ Stays(Now)
    BY <1>7
  <2>2. \/ n < Len(Block.steps) /\ SameScript(m, n + 1)
        \/ n = Len(Block.steps) /\ m < Len(Program) /\ SameScript(m + 1, 1)
        \/ n = Len(Block.steps) /\ m = Len(Program) /\ NextScript
    BY <1>1, <2>1, AdvanceMoves
  <2>3. Reached(m, n + 1)
    <3>1. ASSUME NEW i \in 1..Len(Program), NEW j \in 1..Len(Program[i].steps),
                 i < m \/ (i = m /\ j < n + 1), Program[i].kind \in Firm
          PROVE  Stays(Program[i].steps[j])
      <4>1. i < m \/ (i = m /\ j < n) \/ (i = m /\ j = n)
        BY <1>1, <3>1
      <4>2. i = m /\ j = n => Program[i].steps[j] = Now
        BY <1>1
      <4>3. QED
        BY <1>3, <2>1, <3>1, <4>1, <4>2 DEF Reached
    <3>2. QED
      BY <3>1 DEF Reached
  <2>4. n = Len(Block.steps) => Reached(m + 1, 1)
    <3>1. ASSUME n = Len(Block.steps), NEW i \in 1..Len(Program), NEW j \in 1..Len(Program[i].steps),
                 i < m + 1 \/ (i = m + 1 /\ j < 1), Program[i].kind \in Firm
          PROVE  i < m \/ (i = m /\ j < n + 1)
      BY <1>1, <3>1
    <3>2. QED
      BY <2>3, <3>1 DEF Reached
  <2>5. QED
    BY <1>1, <1>4, <1>5, <2>2, <2>3, <2>4
<1>8. ASSUME NEW error, Fail(error), error = "unauthorized" => (Now.op = "link" => Refused),
             error \in {"other", "unauthorized"}
      PROVE  \/ NextScript /\ (session'.todo = <<>> \/ AllStay)
             \/ PassedInv' /\ \E b, k : SameScript(b, k)
  <2>1. \/ Catches(error) /\ AfterBlock \in m + 1 .. Len(Program) /\ SameScript(AfterBlock, 1)
        \/ Catches(error) /\ AfterBlock = Len(Program) + 1 /\ NextScript
        \/ Abort /\ NextScript
    BY <1>1, <1>8, FailMoves
  <2>2. /\ AfterBlock \in m + 1 .. Len(Program) + 1
        /\ \A j \in m + 1 .. AfterBlock - 1 : Program[j].kind = "inner"
    BY <1>1, AfterBlockOK
  <2>3. Abort => session'.todo = <<>>
    BY NoRunOK DEF Abort
  <2>4. ASSUME Catches(error) PROVE Reached(AfterBlock, 1)
    <3>1. Block.kind \in Firm => \A k \in 1..Len(Block.steps) : Stays(Block.steps[k])
      <4>1. Block.kind \in Firm => Block.kind = "auth" /\ error = "unauthorized"
        BY <2>4 DEF Catches, Firm
      <4>2. Block.kind \in Firm => \A k \in 1..Len(Block.steps) : Stood(Block.steps[k])
        BY <1>8, <4>1, Refusal
      <4>3. QED
        BY <4>2, StandingKept
    <3>2. ASSUME NEW i \in 1..Len(Program), NEW j \in 1..Len(Program[i].steps),
                 i < AfterBlock \/ (i = AfterBlock /\ j < 1), Program[i].kind \in Firm
          PROVE  Stays(Program[i].steps[j])
      <4>1. i < m \/ i = m \/ i \in m + 1 .. AfterBlock - 1
        BY <1>1, <2>2, <3>2
      <4>2. CASE i < m
        BY <1>3, <3>2, <4>2 DEF Reached
      <4>3. CASE i = m
        BY <1>1, <3>1, <3>2, <4>3
      <4>4. CASE i \in m + 1 .. AfterBlock - 1
        BY <2>2, <3>2, <4>4 DEF Firm
      <4>5. QED
        BY <4>1, <4>2, <4>3, <4>4
    <3>3. QED
      BY <3>2 DEF Reached
  <2>5. AfterBlock \in Nat
    BY <1>1, <2>2
  <2>6. QED
    BY <1>4, <1>5, <2>1, <2>3, <2>4, <2>5
<1>9. Abort => NextScript /\ session'.todo = <<>>
  BY AbortIsMove, NoRunOK DEF Abort
<1>10. QED
  BY <1>6, <1>7, <1>8, <1>9, PreparingCall

(* At its first step a script has passed nothing and records nothing; the  *)
(* two invariants are kept from there to its end.                          *)
LEMMA AtStartPasses ==
  ASSUME AtStart'
  PROVE  PassedInv' /\ FreshInv'
<1>1. FreshInv'
  BY DEF AtStart, FreshInv
<1>2. \A i \in 1..Len(Program)' : \A k \in 1..Len(Program'[i].steps) : ~Behind(i, k)'
  BY DEF AtStart, Behind
<1>3. QED
  BY <1>1, <1>2 DEF PassedInv

LEMMA PassedKept ==
  ASSUME Course, PassedInv, FreshInv, Deposit, [Next]_vars
  PROVE  PassedInv'
<1>1. CASE UNCHANGED vars
  BY <1>1, StillThere DEF PassedInv, InPreparing, Behind, Stood, vars, chain
<1>2. CASE ~Running
  <2>1. ~Running' => PassedInv'
    BY DEF PassedInv, InPreparing
  <2>2. QED
    BY <1>2, <2>1, AtStartPasses, PausedNext
<1>3. CASE Running /\ Script \notin Preparing /\ Next
  <2>1. Script' = Script => PassedInv'
    BY <1>3 DEF PassedInv, InPreparing
  <2>2. QED
    BY <1>3, <2>1, AtStartPasses, RunningMoves
<1>4. CASE InPreparing /\ Next
  <2>1. NextScript => AtStart'
    BY DEF NextScript, AtStart
  <2>2. QED
    BY <1>4, <2>1, AtStartPasses, PreparingStep
<1>5. QED
  BY <1>1, <1>2, <1>3, <1>4 DEF InPreparing

LEMMA FreshStays ==
  ASSUME Course, FreshInv, InPreparing, Next
  PROVE  FreshInv'
<1>1. Running /\ session \in Sessions
  BY DEF Course, InPreparing
<1>2. CallOf(Now) \/ Struck
  BY <1>1, RunningNext
<1>3. (~session'.fresh /\ ~session'.saving) => FreshInv'
  BY DEF FreshInv
<1>4. CASE ~session.fresh /\ ~session.saving /\ (Advance \/ EndScript \/ \E error : Fail(error))
  BY <1>1, <1>3, <1>4, FlagsStay
<1>5. CASE Now.op # "create"
  <2>1. ~session.fresh /\ ~session.saving
    BY <1>5 DEF FreshInv
  <2>2. CASE Struck
    <3>1. Abort \/ Advance \/ EndScript \/ \E error : Fail(error)
      BY <2>2 DEF Struck, Interrupt, ErrorCaught, ProbeFails, VerifyFails
    <3>2. Abort => ~session'.fresh /\ ~session'.saving
      BY NoRunOK DEF Abort
    <3>3. QED
      BY <1>3, <1>4, <2>1, <3>1, <3>2
  <2>3. CASE CallOf(Now)
    <3>1. Advance \/ EndScript \/ \E error : Fail(error)
      BY <1>5, <2>3 DEF CallOf, RequireStep, CreateStep, BeginSave, EndSave, GrantStep, RevokeStep,
         TimelockStep, LinkStep, QuitStep, QueueStep, ActivateStep
    <3>2. QED
      BY <1>4, <2>1, <3>1
  <2>4. QED
    BY <1>2, <2>2, <2>3
<1>6. CASE Now.op = "create"
  <2>1. CASE Struck
    <3>1. ~ErrorCaught /\ \A now \in Current : ~ProbeFails(now) /\ ~VerifyFails(now)
      BY <1>6, NowPlain, CurrentIsNow DEF ErrorCaught, ProbeFails, VerifyFails
    <3>2. Abort
      BY <2>1, <3>1 DEF Struck, Interrupt
    <3>3. QED
      BY <1>3, <3>2, NoRunOK DEF Abort
  <2>2. CASE CallOf(Now)
    <3>1. CreateStep(Now) \/ BeginSave(Now) \/ EndSave(Now)
      BY <1>6, <2>2 DEF CallOf, RequireStep, GrantStep, RevokeStep,
         TimelockStep, LinkStep, QuitStep, QueueStep, ActivateStep
    <3>2. CASE BeginSave(Now)
      <4>1. /\ session' = [session EXCEPT !.saving = TRUE] /\ done' = done
            /\ session.fresh /\ deployed' = deployed
        BY <3>2 DEF BeginSave, chain
      <4>2. session'.fresh /\ SameScript(session.at[1], session.at[2])
        BY <1>1, <4>1, Flags, FlagIsMove
      <4>3. Now' = Now
        BY <1>1, <4>1, <4>2, SamePlace
      <4>4. QED
        BY <1>6, <4>1, <4>2, <4>3 DEF FreshInv, InPreparing
    <3>3. CASE EndSave(Now)
      <4> DEFINE s == [session EXCEPT !.saving = FALSE, !.fresh = FALSE]
      <4>1. AdvanceAs(s)
        BY <3>3 DEF EndSave
      <4>2. s \in Sessions /\ s.todo = session.todo /\ s.env = session.env /\ s.at = session.at
            /\ ~s.fresh /\ ~s.saving
        BY <1>1, Flags
      <4> HIDE DEF s
      <4>3. NextScript \/ \E p : session' = [s EXCEPT !.at = p]
        BY <1>1, <4>1, <4>2, AdvanceMoves
      <4>4. \A p : LET t == [s EXCEPT !.at = p] IN ~t.fresh /\ ~t.saving
        BY <4>2 DEF Sessions
      <4>5. QED
        BY <1>3, <4>3, <4>4 DEF NextScript
    <3>4. CASE CreateStep(Now)
      <4>1. ~session.fresh /\ ~session.saving
        BY <3>4 DEF CreateStep, FreshInv
      <4>2. CASE Advance \/ Fail("other")
        BY <1>4, <4>1, <4>2
      <4>3. CASE /\ deployed' = deployed \cup {Now.on}
                 /\ session' = [session EXCEPT !.fresh = TRUE] /\ done' = done
        <5> DEFINE s == [session EXCEPT !.fresh = TRUE]
        <5>1. /\ s \in Sessions /\ s.todo = session.todo /\ s.at = session.at /\ s.env = session.env
              /\ s.fresh /\ s.saving = session.saving
          BY <1>1, Flags
        <5>2. session' = s /\ done' = done
          BY <4>3
        <5> HIDE DEF s
        <5>3. session'.fresh /\ ~session'.saving /\ SameScript(session.at[1], session.at[2])
          BY <1>1, <4>1, <5>1, <5>2, FlagIsMove
        <5>4. Now' = Now
          BY <1>1, <1>6, <4>3, <5>3, SamePlace DEF Creation
        <5>5. QED
          BY <1>6, <4>3, <5>3, <5>4 DEF FreshInv, InPreparing
      <4>4. QED
        BY <3>4, <4>2, <4>3 DEF CreateStep
    <3>5. QED
      BY <3>1, <3>2, <3>3, <3>4
  <2>3. QED
    BY <1>2, <2>1, <2>2
<1>7. QED
  BY <1>5, <1>6

LEMMA FreshKept ==
  ASSUME Course, FreshInv, [Next]_vars
  PROVE  FreshInv'
<1>1. CASE UNCHANGED vars
  <2>1. /\ InPreparing' = InPreparing /\ Now' = Now /\ deployed' = deployed
        /\ session' = session
    BY <1>1, StillThere DEF InPreparing
  <2>2. QED
    BY <2>1 DEF FreshInv
<1>2. CASE ~Running
  <2>1. ~Running' => FreshInv'
    BY DEF FreshInv, InPreparing
  <2>2. QED
    BY <1>2, <2>1, AtStartPasses, PausedNext
<1>3. CASE Running /\ Script \notin Preparing /\ Next
  <2>1. Script' = Script => FreshInv'
    BY <1>3 DEF FreshInv, InPreparing
  <2>2. QED
    BY <1>3, <2>1, AtStartPasses, RunningMoves
<1>4. CASE InPreparing /\ Next
  BY <1>4, FreshStays
<1>5. QED
  BY <1>1, <1>2, <1>3, <1>4 DEF InPreparing

(* A script that got to its end leaves what the deployer's authority was   *)
(* needed for.                                                             *)
LEMMA ScriptLeaves ==
  ASSUME Course, InPreparing, AllStay, Script = "86" => "EscrowVault" \in deployed,
         NEW s \in Preparing, s = Script
  PROVE  Left(s)'
<1>1. \A x : Calls(Program, x) => Stays(x)
  <2>1. ASSUME NEW x, NEW b \in Elems(Program), b.kind \in Firm, x \in Elems(b.steps)
        PROVE  Stays(x)
    <3>1. Script \in Scripts /\ deployed \subseteq Contracts
      BY NowLegal DEF Course, InPreparing
    <3>2. PICK i \in DOMAIN Program : Program[i] = b
      BY DEF Elems
    <3>3. PICK k \in DOMAIN b.steps : b.steps[k] = x
      BY <2>1 DEF Elems
    <3>4. i \in 1..Len(Program) /\ k \in 1..Len(Program[i].steps)
      <4>1. DOMAIN Program = 1..Len(Program)
        BY <3>1, BodyLegal DEF Program
      <4>2. DOMAIN Program[i].steps = 1..Len(Program[i].steps)
        BY <3>1, <3>2, <4>1, BodyLegal DEF Program
      <4>3. QED
        BY <3>2, <3>3, <4>1, <4>2
    <3>5. QED
      BY <2>1, <3>2, <3>3, <3>4 DEF AllStay
  <2>2. QED
    BY <2>1 DEF Calls
<1>2. \A k, n : Calls(Program, Require(k, n)) => n \subseteq deployed'
  BY <1>1, StepForms DEF Stays, Stands
<1>3. \A c : Calls(Program, Create(c)) \/ Calls(Program, CreateAndRecord(c)) => c \in deployed'
  BY <1>1, StepForms DEF Stays, Stands
<1>4. \A c, r, a : Calls(Program, Grant(c, r, a)) /\ a # "deployer" => <<c, r, a>> \in roles'
  BY <1>1, StepForms DEF Stays, Stands
<1>5. \A c, l, v, r : Calls(Program, Link(c, l, v, r)) /\ <<c, l, v>> \in Ties => <<c, l, v>> \in wired'
  BY <1>1, StepForms DEF Stays, Stands
<1>6. CASE s = "10"
  <2>1. Program = Safe(session.env, deployed)
    BY <1>6 DEF Program, Body
  <2>2. QED
    BY <1>3, <1>6, <2>1, SafeProgram DEF Left
<1>7. CASE s = "50"
  <2>1. Program = TimelockWiring(session.env, deployed)
    BY <1>7 DEF Program, Body
  <2>2. {"TimelockController", "GovGovernor"} \subseteq deployed'
    BY <1>2, <2>1, WiringCalls
  <2>3. /\ <<"TimelockController", "PROPOSER_ROLE", "GovGovernor">> \in roles'
        /\ <<"TimelockController", "CANCELLER_ROLE", "GovGovernor">> \in roles'
    BY <1>4, <2>1, WiringCalls
  <2>4. QED
    BY <1>7, <2>2, <2>3 DEF Left, Holds
<1>8. CASE s = "70"
  <2>1. Program = CoreEscrow(session.env, deployed)
    BY <1>8 DEF Program, Body
  <2>2. {"EscrowCreationPolicy", "BondCollector", "ModuleSnapshotRegistry",
         "EscrowGovernanceTimelock"} \subseteq deployed'
    BY <1>2, <2>1, VaultCalls
  <2>3. "EscrowVault" \in deployed'
    BY <1>3, <2>1, VaultCalls
  <2>4. /\ <<"EscrowVault", "creationPolicy", "EscrowCreationPolicy">> \in wired'
        /\ <<"EscrowVault", "bondCollector", "BondCollector">> \in wired'
        /\ <<"BondCollector", "escrow", "EscrowVault">> \in wired'
    BY <1>5, <2>1, VaultCalls DEF Ties
  <2>5. QED
    BY <1>8, <2>2, <2>3, <2>4 DEF Left, Linked
<1>9. CASE s = "85"
  <2>1. Program = Dr3Modules(session.env, deployed)
    BY <1>9 DEF Program, Body
  <2>2. "SewToken" \in deployed'
    BY <1>2, <2>1, CapitalCalls
  <2>3. <<"ResolverStakingModule", "slashingModule", "ResolverSlashingModule">> \in wired'
    BY <1>5, <2>1, CapitalCalls DEF Ties
  <2>4. <<"InsurancePoolVault", "ROLE_SLASHING_MODULE", "ResolverSlashingModule">> \in roles'
    BY <1>4, <2>1, CapitalCalls
  <2>5. QED
    BY <1>9, <2>2, <2>3, <2>4 DEF Left, Linked, Holds
<1>10. CASE s = "86"
  <2>1. Program = ResolutionModule(session.env, deployed)
    BY <1>10 DEF Program, Body
  <2>2. /\ <<DRM, "adminFacet", "DRMAdminFacet">> \in wired'
        /\ <<DRM, "bondTokenRegistry", "BondTokenRegistry">> \in wired'
        /\ <<DRM, "incentiveModule", "ResolverIncentiveModule">> \in wired'
    BY <1>5, <2>1, ResolutionCalls DEF Ties
  <2>3. <<DRM, "escrow", "EscrowVault">> \in wired'
    BY <1>5, <1>10, <2>1, ResolutionCalls DEF Ties
  <2>4. QED
    BY <1>10, <2>2, <2>3 DEF Left, Linked
<1>11. CASE s = "90"
  <2>1. Program = GuardianOps(session.env, deployed)
    BY <1>11 DEF Program, Body
  <2>2. <<"AaveYieldModule", "recoveryOperator", "GuardianOps">> \in wired'
    BY <1>5, <2>1, GuardianCalls DEF Ties
  <2>3. QED
    BY <1>11, <2>2 DEF Left, Linked
<1>12. QED
  BY <1>6, <1>7, <1>8, <1>9, <1>10, <1>11 DEF Preparing

-----------------------------------------------------------------------------
(* The run as a whole.  Before every deploy/95 still to come, whatever it  *)
(* rests on is there already or is to come first, and deploy/70 comes      *)
(* before deploy/86; so at deploy/95 itself everything is there.           *)
Comes(s, k) == \E j \in 1..k - 1 : session.todo[j] = s
Trail == \A k \in DOMAIN session.todo : session.todo[k] = "95" =>
           /\ \A s \in Preparing : Left(s) \/ Comes(s, k)
           /\ \A j \in 1..k - 1 : session.todo[j] = "86" => Left("70") \/ Comes("70", j)
Finished == "95" \in done => Prepared

LEMMA AtTheHandover ==
  ASSUME Course, ~Idle, Script = "95", Trail
  PROVE  Prepared
<1>1. 1 \in DOMAIN session.todo /\ session.todo[1] = "95"
  BY ProgramOK DEF Script
<1>2. \A s : ~Comes(s, 1)
  BY DEF Comes
<1>3. QED
  BY <1>1, <1>2 DEF Trail, Prepared

LEMMA PreparedKept ==
  ASSUME Course, [Next]_vars, Prepared
  PROVE  Prepared'
BY LeftKept DEF Prepared

(* What a step does to the run: it goes on in the script, starts another   *)
(* run, or leaves the script, which then got to its end unless the run is  *)
(* over.                                                                   *)
LEMMA RunGoesOn ==
  ASSUME Course, PassedInv, FreshInv, Deposit, [Next]_vars
  PROVE  \/ session'.todo = session.todo /\ done' = done
         \/ /\ ~Idle /\ NextScript
            /\ \/ session'.todo = <<>> \/ Script \notin Preparing
               \/ InPreparing /\ AllStay
         \/ \E r \in Runs : StartRun(r)
<1>1. CASE UNCHANGED vars
  BY <1>1 DEF vars
<1>2. CASE ~Running /\ Next
  <2>1. \/ \E r \in Runs : StartRun(r)
        \/ SkipScript \/ DelayPasses \/ RegisterEscrow
    BY <1>2 DEF Next, ScriptStep, Current, Interrupt, ErrorCaught
  <2>2. SkipScript => ~Idle /\ NextScript /\ Script \notin Preparing
    BY <1>2, SkipMoves, PreparingProgram
  <2>3. QED
    BY <2>1, <2>2 DEF DelayPasses, RegisterEscrow
<1>3. CASE Running /\ Script \notin Preparing /\ Next
  BY <1>3, RunningMoves DEF SameScript, Running
<1>4. CASE InPreparing /\ Next
  BY <1>4, PreparingStep DEF SameScript, InPreparing, Running
<1>5. QED
  BY <1>1, <1>2, <1>3, <1>4 DEF InPreparing

(* Every run that reaches deploy/95 goes through all of these scripts.     *)
LEMMA RunsArePrepared ==
  ASSUME WholeHandovers, NEW r \in Runs, NEW k \in DOMAIN Order[r.tags], Order[r.tags][k] = "95"
  PROVE  /\ \A s \in Preparing : \E j \in 1..k - 1 : Order[r.tags][j] = s
         /\ \A j \in 1..k - 1 : Order[r.tags][j] = "86" => \E i \in 1..j - 1 : Order[r.tags][i] = "70"
<1> DEFINE o == Order[r.tags]
           at(s, n) == \E j \in 1..n - 1 : o[j] = s
<1>1. o \in Seq(Scripts) /\ Closed(o)
  BY RunOrderClosed DEF Order
<1>2. at("10", k) /\ at("50", k) /\ \A j \in 1..k - 1 : o[j] = "86" => at("70", j)
  BY DEF WholeHandovers
<1>3. {"70", "85", "86", "90", "95"} \subseteq Scripts
  BY DEF Scripts, Files
<1>4. k \in 1..Len(o) /\ Len(o) \in Nat /\ DOMAIN o = 1..Len(o)
  BY <1>1
<1> HIDE DEF o
<1>5. at("90", k) /\ at("70", k) /\ at("86", k)
  <2>1. o[k] = "95"
    BY DEF o
  <2>2. Preceded(o, k)
    BY <1>1, <1>4 DEF Closed
  <2>3. /\ DOMAIN Dependencies("95") = 1..5 /\ Dependencies("95")[2] = "guardian"
        /\ Dependencies("95")[3] = "escrow"
        /\ Dependencies("95")[5] = "decentralized-resolution-module"
    BY DEF Dependencies
  <2>4. /\ "guardian" \in Tags("90") /\ "escrow" \in Tags("70")
        /\ "decentralized-resolution-module" \in Tags("86")
    BY DEF Tags
  <2>5. QED
    BY <1>3, <2>1, <2>2, <2>3, <2>4 DEF Preceded
<1>6. at("85", k)
  <2>1. PICK j \in 1..k - 1 : o[j] = "86"
    BY <1>5
  <2>2. j \in 1..Len(o) /\ 1..j - 1 \subseteq 1..k - 1
    BY <1>4
  <2>3. Preceded(o, j)
    BY <1>1, <2>2 DEF Closed
  <2>4. DOMAIN Dependencies("86") = {1} /\ Dependencies("86")[1] = "dr3-modules"
    BY DEF Dependencies
  <2>5. "dr3-modules" \in Tags("85")
    BY DEF Tags
  <2>6. QED
    BY <1>3, <2>1, <2>2, <2>3, <2>4, <2>5 DEF Preceded
<1>7. QED
  BY <1>2, <1>5, <1>6 DEF Preparing, o

LEMMA TrailKept ==
  ASSUME WholeHandovers, Course, PassedInv, FreshInv, Deposit, Trail, [Next]_vars
  PROVE  Trail'
<1> DEFINE t == session.todo
           u == session'.todo
           Ahead(s, k) == \E j \in 1..k - 1 : u[j] = s
<1>1. SUFFICES ASSUME NEW k \in DOMAIN u, u[k] = "95"
               PROVE  /\ \A s \in Preparing : Left(s)' \/ Ahead(s, k)
                      /\ \A j \in 1..k - 1 : u[j] = "86" => Left("70")' \/ Ahead("70", j)
  BY DEF Trail, Comes
<1>2. "70" \in Preparing
  BY DEF Preparing
<1>3. \A s \in Preparing : Left(s) => Left(s)'
  BY LeftKept
<1>4. CASE u = t
  BY <1>1, <1>2, <1>3, <1>4 DEF Trail, Comes
<1>5. CASE \E r \in Runs : StartRun(r)
  <2>1. PICK r \in Runs : StartRun(r)
    BY <1>5
  <2>2. u = Order[r.tags]
    BY <2>1 DEF StartRun, NoRun
  <2>3. QED
    BY <1>1, <2>2, RunsArePrepared
<1>6. CASE /\ ~Idle /\ NextScript
           /\ \/ u = <<>> \/ Script \notin Preparing
              \/ InPreparing /\ AllStay
  <2>1. u # <<>> /\ u = Tail(t)
    BY <1>1, <1>6 DEF NextScript
  <2>2. t \in Seq(Scripts) /\ t # <<>> /\ Len(t) \in Nat /\ Len(t) > 0 /\ Script = t[1]
    BY <1>6, ProgramOK DEF Script
  <2>3. k \in 1..Len(t) - 1 /\ k + 1 \in DOMAIN t /\ \A i \in 1..Len(t) - 1 : u[i] = t[i + 1]
    BY <1>1, <2>1, <2>2
  <2>4. /\ \A s \in Preparing : Left(s) \/ Comes(s, k + 1)
        /\ \A j \in 1..k : t[j] = "86" => Left("70") \/ Comes("70", j)
    <3>1. t[k + 1] = "95"
      BY <1>1, <2>3
    <3>2. 1..(k + 1) - 1 = 1..k
      BY <2>3
    <3>3. QED
      BY <2>3, <3>1, <3>2 DEF Trail
  <2>5. \A s \in Preparing : s = t[1] => Left(s)'
    <3>1. t[1] = "86" => "EscrowVault" \in deployed
      <4>1. ~Comes("70", 1)
        BY DEF Comes
      <4>2. 1 \in 1..k
        BY <2>3
      <4>3. t[1] = "86" => Left("70")
        BY <2>4, <4>1, <4>2
      <4>4. QED
        BY <4>3 DEF Left
    <3>2. QED
      BY <1>6, <2>1, <2>2, <3>1, ScriptLeaves
  <2>6. ASSUME NEW s \in Preparing, NEW j \in 1..k, Comes(s, j + 1)
        PROVE  Left(s)' \/ Ahead(s, j)
    <3>1. PICK i \in 1..j : t[i] = s
      BY <2>6 DEF Comes
    <3>2. CASE i = 1
      BY <2>5, <3>1, <3>2
    <3>3. CASE i # 1
      <4>1. i - 1 \in 1..j - 1 /\ i - 1 \in 1..Len(t) - 1 /\ (i - 1) + 1 = i
        BY <2>2, <2>3, <3>3
      <4>2. u[i - 1] = s
        BY <2>3, <3>1, <4>1
      <4>3. QED
        BY <4>1, <4>2
    <3>4. QED
      BY <3>2, <3>3
  <2>7. \A s \in Preparing : Left(s)' \/ Ahead(s, k)
    BY <1>3, <2>3, <2>4, <2>6
  <2>8. ASSUME NEW j \in 1..k - 1, u[j] = "86"
        PROVE  Left("70")' \/ Ahead("70", j)
    <3>1. j + 1 \in 1..k /\ j \in 1..k /\ j \in 1..Len(t) - 1
      BY <2>2, <2>3
    <3>2. Left("70") \/ Comes("70", j + 1)
      BY <2>3, <2>4, <2>8, <3>1
    <3>3. QED
      BY <1>2, <1>3, <2>6, <3>1, <3>2
  <2>9. QED
    BY <2>7, <2>8
<1>7. QED
  BY <1>4, <1>5, <1>6, RunGoesOn

LEMMA DepositKept ==
  ASSUME Course, Deposit, Trail, [Next]_vars
  PROVE  Deposit'
<1> SUFFICES ASSUME NEW c \in Keyed, c \in deployed'
             PROVE  <<c, TIMELOCK, "deployer">> \in roles' \/ Prepared'
  BY DEF Deposit, Holds
<1>1. Prepared => Prepared'
  BY PreparedKept
<1>2. c \in deployed => <<c, TIMELOCK, "deployer">> \in roles \/ Prepared
  BY DEF Deposit, Holds
<1>3. CASE roles \subseteq roles' /\ deployed' = deployed
  BY <1>1, <1>2, <1>3
<1>4. CASE Birth
  <2>1. PICK n \in Contracts : /\ n \notin deployed /\ deployed' = deployed \cup {n}
                               /\ roles' = roles \cup BirthRoles(n)
    BY <1>4 DEF Birth
  <2>2. c = n => <<c, TIMELOCK, "deployer">> \in BirthRoles(n)
    <3>1. /\ c \in AdminAndTimelock /\ c \notin AdminOnly /\ c \notin TimelockOwned
          /\ c # "TimelockController" /\ c # "EmergencyRecoveryProposal" /\ c # "L2AddressRegistry"
      BY DEF Keyed, AdminAndTimelock, AdminOnly, TimelockOwned, DRM, DRMB, FacadeB
    <3>2. BirthRoles(c) = {<<c, ADMIN, "deployer">>, <<c, TIMELOCK, "deployer">>}
      BY <3>1 DEF BirthRoles
    <3>3. QED
      BY <3>2
  <2>3. QED
    BY <1>1, <1>2, <2>1, <2>2
<1>5. ASSUME NEW st, Loss(st), deployed' = deployed, Running
      PROVE  <<c, TIMELOCK, "deployer">> \in roles' \/ Prepared'
  <2>1. roles' = roles \ {<<st.on, st.what, st.who>>} /\ Revokes(Script, st)
    BY <1>5 DEF Loss
  <2>2. CASE Script = "95"
    BY <1>1, <1>5, <2>2, AtTheHandover DEF Running
  <2>3. CASE Script # "95"
    <3>1. st.on = "TimelockController"
      BY <2>1, <2>3 DEF Revokes
    <3>2. c # st.on
      BY <3>1 DEF Keyed
    <3>3. <<c, TIMELOCK, "deployer">> # <<st.on, st.what, st.who>>
      BY <3>2
    <3>4. QED
      BY <1>1, <1>2, <1>5, <2>1, <3>3
  <2>4. QED
    BY <2>2, <2>3
<1>6. CASE ~Running
  BY <1>3, <1>6, PausedNext DEF Register
<1>7. QED
  BY <1>3, <1>4, <1>5, <1>6, RolesGrow

LEMMA FinishedKept ==
  ASSUME Course, PassedInv, FreshInv, Deposit, Trail, Finished, [Next]_vars
  PROVE  Finished'
<1>1. SUFFICES ASSUME "95" \in done' PROVE Prepared'
  BY DEF Finished
<1>2. "95" \in done \/ (~Idle /\ Script = "95")
  BY <1>1, RunGoesOn DEF NextScript, StartRun
<1>3. Prepared
  BY <1>2, AtTheHandover DEF Finished
<1>4. QED
  BY <1>3, PreparedKept

(* Once deploy/95 has run to its end, everything that needed the           *)
(* deployer's authority is done and stays done, whatever was interrupted   *)
(* and whatever error was swallowed before: for every collection of runs   *)
(* that go through deploy/10, 50 and 70 before it (WholeHandovers).        *)
THEOREM FinalizedIsComplete == WholeHandovers => (Spec => []FinalizedComplete)
<1> SUFFICES ASSUME WholeHandovers PROVE Spec => []FinalizedComplete
  OBVIOUS
<1> DEFINE FinalInv == PassedInv /\ FreshInv /\ Deposit /\ Trail /\ Finished
<1>1. Init => FinalInv
  <2>1. ASSUME Init PROVE FinalInv
    <3>1. session.todo = <<>> /\ Idle /\ ~Running /\ deployed = {} /\ done = {}
      BY <2>1, NoRunOK DEF Init, Idle, Running
    <3>2. DOMAIN session.todo = {}
      BY <3>1
    <3>3. QED
      BY <3>1, <3>2 DEF PassedInv, FreshInv, InPreparing, Deposit, Trail, Finished
  <2>2. QED
    BY <2>1
<1>2. Sound /\ FinalInv /\ [Next]_vars => FinalInv'
  BY PassedKept, FreshKept, DepositKept, TrailKept, FinishedKept DEF Sound
<1>3. FinalInv => FinalizedComplete
  BY PreparedIsComplete DEF Finished, FinalizedComplete
<1>4. QED
  BY <1>1, <1>2, <1>3, AlwaysSound, PTL DEF Spec

-----------------------------------------------------------------------------
(* The order is whole.  The scripts can be ranked so that each ranks above *)
(* those it depends on: by file name, but deploy/32, which depends on      *)
(* deploy/70.  So the ranks of the open scripts fall with every one that   *)
(* is opened, none is opened twice, and as every step of the walk opens a  *)
(* script or puts one in order, MaxWalk steps are enough.                  *)
Rank(s) ==
  CASE s = "05" -> 5  [] s = "10" -> 10 [] s = "14" -> 14 [] s = "15" -> 15 [] s = "16" -> 16
    [] s = "20" -> 20 [] s = "30" -> 30 [] s = "40" -> 40 [] s = "50" -> 50 [] s = "60" -> 60
    [] s = "70" -> 70 [] s = "32" -> 72 [] s = "75" -> 75 [] s = "76" -> 76 [] s = "80" -> 80
    [] s = "85" -> 85 [] s = "86" -> 86 [] s = "87" -> 87 [] s = "90" -> 90 [] s = "95" -> 95

Once(o) == \A i, j \in 1..Len(o) : o[i] = o[j] => i = j
Descends(w) == \A i, j \in 1..Len(w) : i < j => Rank(w[i]) < Rank(w[j])
RunsAll(tags, o) == Selected(tags) \subseteq Elems(o)
Apart(o, w) == /\ Once(o) /\ Descends(w)
               /\ Elems(o) \cap Elems(w) = {}
               /\ Cardinality(Elems(o) \cup Elems(w)) = Len(o) + Len(w)
Counted(tags, n, o, w) == \/ 2 * Len(o) + Len(w) = n
                          \/ w = <<>> /\ RunsAll(tags, o)

LEMMA ScriptNames ==
  Scripts = {"05", "10", "14", "15", "16", "20", "30", "32", "40", "50", "60", "70",
             "75", "76", "80", "85", "86", "87", "90", "95"}
<1>1. DOMAIN Files = 1..20
  BY DEF Files
<1>2. Scripts = {Files[i] : i \in 1..20}
  BY <1>1 DEF Scripts
<1>3. 1..20 = {1, 2, 3, 4, 5, 6, 7, 8, 9, 10, 11, 12, 13, 14, 15, 16, 17, 18, 19, 20}
  OBVIOUS
<1>4. QED
  BY <1>2, <1>3 DEF Files

LEMMA RankType ==
  ASSUME NEW s \in Scripts
  PROVE  Rank(s) \in Nat
BY ScriptNames DEF Rank

LEMMA ScriptsAreFew ==
  IsFiniteSet(Scripts) /\ Cardinality(Scripts) \in Nat /\ Cardinality(Scripts) <= 20
<1>1. DOMAIN Files = 1..20
  BY DEF Files
<1> DEFINE f == [i \in 1..20 |-> Files[i]]
<1>2. f \in Surjection(1..20, Scripts)
  <2>1. f \in [1..20 -> Scripts]
    BY <1>1 DEF Scripts
  <2>2. \A s \in Scripts : \E i \in 1..20 : f[i] = s
    BY <1>1 DEF Scripts
  <2>3. QED
    BY <2>1, <2>2 DEF Surjection
<1> HIDE DEF f
<1>3. IsFiniteSet(1..20) /\ Cardinality(1..20) = 20
  <2>1. 1 \in Int /\ 20 \in Int
    OBVIOUS
  <2>2. IsFiniteSet(1..20) /\ Cardinality(1..20) = IF 1 > 20 THEN 0 ELSE 20 - 1 + 1
    BY <2>1, FS_Interval, Zenon
  <2>3. QED
    BY <2>2
<1>4. QED
  BY <1>2, <1>3, FS_Surjection, FS_CardinalityType

(* The dependencies, tag by tag.                                           *)
LEMMA Carriers ==
  ASSUME NEW t \in Scripts
  PROVE  /\ "vault" \notin Tags(t)
         /\ "core" \in Tags(t) => Rank(t) < 71
         /\ "escrow" \in Tags(t) => Rank(t) < 71
         /\ "token" \in Tags(t) => Rank(t) < 31
         /\ "timelock" \in Tags(t) => Rank(t) < 31
         /\ "governor" \in Tags(t) => Rank(t) < 41
         /\ "safe" \in Tags(t) => Rank(t) < 41
         /\ "escrow-admin" \in Tags(t) => Rank(t) < 41
         /\ "creation-policy" \in Tags(t) => Rank(t) < 41
         /\ "bond-collector" \in Tags(t) => Rank(t) < 41
         /\ "module-management" \in Tags(t) => Rank(t) < 41
         /\ "dr3-modules" \in Tags(t) => Rank(t) < 86
         /\ "decentralized-resolution-module" \in Tags(t) => Rank(t) < 87
         /\ "aave-yield-module" \in Tags(t) => Rank(t) < 76
         /\ "guardian" \in Tags(t) => Rank(t) < 91
<1>1. CASE t = "05"
  <2>1. Tags(t) = {"create2"} /\ Rank(t) = 5
    BY <1>1 DEF Tags, Rank
  <2>2. QED
    BY <2>1
<1>2. CASE t = "10"
  <2>1. Tags(t) = {"safe", "governance"} /\ Rank(t) = 10
    BY <1>2 DEF Tags, Rank
  <2>2. QED
    BY <2>1
<1>3. CASE t = "14"
  <2>1. Tags(t) = {"core", "module-management"} /\ Rank(t) = 14
    BY <1>3 DEF Tags, Rank
  <2>2. QED
    BY <2>1
<1>4. CASE t = "15"
  <2>1. Tags(t) = {"core", "creation-policy", "bond-collector"} /\ Rank(t) = 15
    BY <1>4 DEF Tags, Rank
  <2>2. QED
    BY <2>1
<1>5. CASE t = "16"
  <2>1. Tags(t) = {"escrow-admin"} /\ Rank(t) = 16
    BY <1>5 DEF Tags, Rank
  <2>2. QED
    BY <2>1
<1>6. CASE t = "20"
  <2>1. Tags(t) = {"token", "governance"} /\ Rank(t) = 20
    BY <1>6 DEF Tags, Rank
  <2>2. QED
    BY <2>1
<1>7. CASE t = "30"
  <2>1. Tags(t) = {"timelock", "governance"} /\ Rank(t) = 30
    BY <1>7 DEF Tags, Rank
  <2>2. QED
    BY <2>1
<1>8. CASE t = "32"
  <2>1. Tags(t) = {"release-strategy", "module"} /\ Rank(t) = 72
    BY <1>8 DEF Tags, Rank
  <2>2. QED
    BY <2>1
<1>9. CASE t = "40"
  <2>1. Tags(t) = {"governor", "governance"} /\ Rank(t) = 40
    BY <1>9 DEF Tags, Rank
  <2>2. QED
    BY <2>1
<1>10. CASE t = "50"
  <2>1. Tags(t) = {"timelock-wiring", "governance"} /\ Rank(t) = 50
    BY <1>10 DEF Tags, Rank
  <2>2. QED
    BY <2>1
<1>11. CASE t = "60"
  <2>1. Tags(t) = {"governance", "ownership"} /\ Rank(t) = 60
    BY <1>11 DEF Tags, Rank
  <2>2. QED
    BY <2>1
<1>12. CASE t = "70"
  <2>1. Tags(t) = {"core", "escrow"} /\ Rank(t) = 70
    BY <1>12 DEF Tags, Rank
  <2>2. QED
    BY <2>1
<1>13. CASE t = "75"
  <2>1. Tags(t) = {"yield", "aave", "aave-yield-module"} /\ Rank(t) = 75
    BY <1>13 DEF Tags, Rank
  <2>2. QED
    BY <2>1
<1>14. CASE t = "76"
  <2>1. Tags(t) = {"registry", "l2-address-registry", "multi-l2"} /\ Rank(t) = 76
    BY <1>14 DEF Tags, Rank
  <2>2. QED
    BY <2>1
<1>15. CASE t = "80"
  <2>1. Tags(t) = {"module", "cancellation-strategy"} /\ Rank(t) = 80
    BY <1>15 DEF Tags, Rank
  <2>2. QED
    BY <2>1
<1>16. CASE t = "85"
  <2>1. Tags(t) = {"dr3", "dr3-modules"} /\ Rank(t) = 85
    BY <1>16 DEF Tags, Rank
  <2>2. QED
    BY <2>1
<1>17. CASE t = "86"
  <2>1. Tags(t) = {"dr3", "decentralized-resolution-module"} /\ Rank(t) = 86
    BY <1>17 DEF Tags, Rank
  <2>2. QED
    BY <2>1
<1>18. CASE t = "87"
  <2>1. Tags(t) = {"profile-b", "sew-dr-v2-bondledger"} /\ Rank(t) = 87
    BY <1>18 DEF Tags, Rank
  <2>2. QED
    BY <2>1
<1>19. CASE t = "90"
  <2>1. Tags(t) = {"aave", "yield", "guardian", "emergency"} /\ Rank(t) = 90
    BY <1>19 DEF Tags, Rank
  <2>2. QED
    BY <2>1
<1>20. CASE t = "95"
  <2>1. Tags(t) = {"governance", "finalize", "ownership"} /\ Rank(t) = 95
    BY <1>20 DEF Tags, Rank
  <2>2. QED
    BY <2>1
<1>21. QED
  BY <1>1, <1>2, <1>3, <1>4, <1>5, <1>6, <1>7, <1>8, <1>9, <1>10,
     <1>11, <1>12, <1>13, <1>14, <1>15, <1>16, <1>17, <1>18, <1>19, <1>20, ScriptNames

LEMMA DependenciesRank ==
  ASSUME NEW s \in Scripts, NEW t \in Scripts, NEW i \in DOMAIN Dependencies(s),
         Dependencies(s)[i] \in Tags(t)
  PROVE  Rank(t) < Rank(s)
<1> DEFINE d == Dependencies(s)[i]
<1>1. d \in Elems(Dependencies(s))
  BY DEF Elems
<1>2. d \in Tags(t)
  OBVIOUS
<1> HIDE DEF d
<1>3. Rank(t) \in Nat
  BY RankType
<1>4. CASE s = "05"
  <2>1. Dependencies(s) = <<"vault">>
    BY <1>4 DEF Dependencies
  <2>2. d = "vault"
    BY <1>1, <2>1, ElemsListed
  <2>3. QED
    BY <1>2, <2>2, Carriers
<1>5. CASE s = "32"
  <2>1. Dependencies(s) = <<"core", "escrow">> /\ Rank(s) = 72
    BY <1>5 DEF Dependencies, Rank
  <2>2. d \in {"core", "escrow"}
    BY <1>1, <2>1, ElemsListed
  <2>3. QED
    BY <1>2, <1>3, <2>1, <2>2, Carriers
<1>6. CASE s = "80"
  <2>1. Dependencies(s) = <<"core", "escrow">> /\ Rank(s) = 80
    BY <1>6 DEF Dependencies, Rank
  <2>2. d \in {"core", "escrow"}
    BY <1>1, <2>1, ElemsListed
  <2>3. QED
    BY <1>2, <1>3, <2>1, <2>2, Carriers
<1>7. CASE s = "40"
  <2>1. Dependencies(s) = <<"token", "timelock">> /\ Rank(s) = 40
    BY <1>7 DEF Dependencies, Rank
  <2>2. d \in {"token", "timelock"}
    BY <1>1, <2>1, ElemsListed
  <2>3. QED
    BY <1>2, <1>3, <2>1, <2>2, Carriers
<1>8. CASE s = "50"
  <2>1. Dependencies(s) = <<"governor">> /\ Rank(s) = 50
    BY <1>8 DEF Dependencies, Rank
  <2>2. d \in {"governor"}
    BY <1>1, <2>1, ElemsListed
  <2>3. QED
    BY <1>2, <1>3, <2>1, <2>2, Carriers
<1>9. CASE s = "60"
  <2>1. Dependencies(s) = <<"timelock", "governor", "safe", "escrow-admin">> /\ Rank(s) = 60
    BY <1>9 DEF Dependencies, Rank
  <2>2. d \in {"timelock", "governor", "safe", "escrow-admin"}
    BY <1>1, <2>1, ElemsListed
  <2>3. QED
    BY <1>2, <1>3, <2>1, <2>2, Carriers
<1>10. CASE s = "70"
  <2>1. Dependencies(s) = <<"creation-policy", "bond-collector", "module-management">> /\ Rank(s) = 70
    BY <1>10 DEF Dependencies, Rank
  <2>2. d \in {"creation-policy", "bond-collector", "module-management"}
    BY <1>1, <2>1, ElemsListed
  <2>3. QED
    BY <1>2, <1>3, <2>1, <2>2, Carriers
<1>11. CASE s = "85"
  <2>1. Dependencies(s) = <<"timelock", "token">> /\ Rank(s) = 85
    BY <1>11 DEF Dependencies, Rank
  <2>2. d \in {"timelock", "token"}
    BY <1>1, <2>1, ElemsListed
  <2>3. QED
    BY <1>2, <1>3, <2>1, <2>2, Carriers
<1>12. CASE s = "86"
  <2>1. Dependencies(s) = <<"dr3-modules">> /\ Rank(s) = 86
    BY <1>12 DEF Dependencies, Rank
  <2>2. d \in {"dr3-modules"}
    BY <1>1, <2>1, ElemsListed
  <2>3. QED
    BY <1>2, <1>3, <2>1, <2>2, Carriers
<1>13. CASE s = "87"
  <2>1. Dependencies(s) = <<"decentralized-resolution-module">> /\ Rank(s) = 87
    BY <1>13 DEF Dependencies, Rank
  <2>2. d \in {"decentralized-resolution-module"}
    BY <1>1, <2>1, ElemsListed
  <2>3. QED
    BY <1>2, <1>3, <2>1, <2>2, Carriers
<1>14. CASE s = "90"
  <2>1. Dependencies(s) = <<"aave-yield-module", "escrow", "timelock">> /\ Rank(s) = 90
    BY <1>14 DEF Dependencies, Rank
  <2>2. d \in {"aave-yield-module", "escrow", "timelock"}
    BY <1>1, <2>1, ElemsListed
  <2>3. QED
    BY <1>2, <1>3, <2>1, <2>2, Carriers
<1>15. CASE s = "95"
  <2>1. Dependencies(s) = <<"aave-yield-module", "guardian", "escrow", "module-management", "decentralized-resolution-module">> /\ Rank(s) = 95
    BY <1>15 DEF Dependencies, Rank
  <2>2. d \in {"aave-yield-module", "guardian", "escrow", "module-management", "decentralized-resolution-module"}
    BY <1>1, <2>1, ElemsListed
  <2>3. QED
    BY <1>2, <1>3, <2>1, <2>2, Carriers
<1>16. CASE s \in {"10", "14", "15", "16", "20", "30", "75", "76"}
  <2>1. Dependencies(s) = <<>>
    BY <1>16 DEF Dependencies
  <2>2. QED
    BY <1>1, <2>1 DEF Elems
<1>17. QED
  BY <1>4, <1>5, <1>6, <1>7, <1>8, <1>9, <1>10, <1>11, <1>12, <1>13, <1>14, <1>15, <1>16, ScriptNames

(* The parts of lists.                                                     *)
LEMMA ElemsOfParts ==
  ASSUME NEW o \in Seq(Scripts), NEW s \in Scripts
  PROVE  /\ Elems(<<>>) = {} /\ Elems(o) \subseteq Scripts
         /\ Elems(Append(o, s)) = Elems(o) \cup {s}
         /\ Elems(<<s>> \o o) = {s} \cup Elems(o)
         /\ o # <<>> => Elems(o) = {Head(o)} \cup Elems(Tail(o))
<1>1. Elems(<<>>) = {}
  BY DEF Elems
<1>2. Elems(o) \subseteq Scripts
  BY DEF Elems
<1>3. Elems(Append(o, s)) = Elems(o) \cup {s}
  <2> DEFINE n == Append(o, s)
  <2>1. Len(o) \in Nat /\ DOMAIN o = 1..Len(o) /\ DOMAIN n = 1..Len(o) + 1
        /\ n[Len(o) + 1] = s /\ \A i \in 1..Len(o) : n[i] = o[i]
    OBVIOUS
  <2> HIDE DEF n
  <2>2. Elems(n) \subseteq Elems(o) \cup {s}
    BY <2>1 DEF Elems
  <2>3. Elems(o) \subseteq Elems(n)
    BY <2>1 DEF Elems
  <2>4. s \in Elems(n)
    BY <2>1 DEF Elems
  <2>5. QED
    BY <2>2, <2>3, <2>4 DEF n
<1>4. Elems(<<s>> \o o) = {s} \cup Elems(o)
  <2> DEFINE n == <<s>> \o o
  <2>1. Len(o) \in Nat /\ DOMAIN o = 1..Len(o) /\ DOMAIN n = 1..Len(o) + 1
        /\ n[1] = s /\ \A i \in 1..Len(o) : n[i + 1] = o[i]
    OBVIOUS
  <2> HIDE DEF n
  <2>2. ASSUME NEW i \in 1..Len(o) + 1 PROVE n[i] \in {s} \cup Elems(o)
    <3>1. CASE i = 1
      BY <2>1, <3>1
    <3>2. CASE i # 1
      <4>1. i - 1 \in 1..Len(o) /\ (i - 1) + 1 = i
        BY <2>1, <3>2
      <4>2. QED
        BY <2>1, <4>1 DEF Elems
    <3>3. QED
      BY <3>1, <3>2
  <2>3. Elems(n) \subseteq {s} \cup Elems(o)
    BY <2>1, <2>2 DEF Elems
  <2>4. ASSUME NEW i \in 1..Len(o) PROVE o[i] \in Elems(n)
    <3>1. i + 1 \in DOMAIN n /\ n[i + 1] = o[i]
      BY <2>1
    <3>2. QED
      BY <3>1 DEF Elems
  <2>5. Elems(o) \subseteq Elems(n)
    BY <2>1, <2>4 DEF Elems
  <2>6. s \in Elems(n)
    BY <2>1 DEF Elems
  <2>7. QED
    BY <2>3, <2>5, <2>6 DEF n
<1>5. ASSUME o # <<>> PROVE Elems(o) = {Head(o)} \cup Elems(Tail(o))
  <2> DEFINE t == Tail(o)
  <2>1. Len(o) \in Nat /\ Len(o) > 0 /\ DOMAIN o = 1..Len(o) /\ DOMAIN t = 1..Len(o) - 1
        /\ Head(o) = o[1] /\ \A i \in 1..Len(o) - 1 : t[i] = o[i + 1]
    BY <1>5
  <2> HIDE DEF t
  <2>2. ASSUME NEW i \in 1..Len(o) PROVE o[i] \in {Head(o)} \cup Elems(t)
    <3>1. CASE i = 1
      BY <2>1, <3>1
    <3>2. CASE i # 1
      <4>1. i - 1 \in DOMAIN t /\ t[i - 1] = o[i]
        BY <2>1, <3>2
      <4>2. QED
        BY <4>1 DEF Elems
    <3>3. QED
      BY <3>1, <3>2
  <2>3. Elems(o) \subseteq {Head(o)} \cup Elems(t)
    BY <2>1, <2>2 DEF Elems
  <2>4. ASSUME NEW i \in 1..Len(o) - 1 PROVE t[i] \in Elems(o)
    <3>1. i + 1 \in DOMAIN o /\ t[i] = o[i + 1]
      BY <2>1
    <3>2. QED
      BY <3>1 DEF Elems
  <2>5. Elems(t) \subseteq Elems(o) /\ Head(o) \in Elems(o)
    BY <2>1, <2>4 DEF Elems
  <2>6. QED
    BY <2>3, <2>5 DEF t
<1>6. QED
  BY <1>1, <1>2, <1>3, <1>4, <1>5

(* Opening a script, which ranks below the ones open and is not in order.  *)
LEMMA OpenedApart ==
  ASSUME NEW o \in Seq(Scripts), NEW w \in Seq(Scripts), Apart(o, w),
         NEW f \in Scripts, f \notin Elems(o), w # <<>> => Rank(f) < Rank(Head(w))
  PROVE  Apart(o, <<f>> \o w) /\ Len(<<f>> \o w) = Len(w) + 1
<1> DEFINE n == <<f>> \o w
<1>1. /\ n \in Seq(Scripts) /\ Len(w) \in Nat /\ Len(n) = Len(w) + 1
      /\ n[1] = f /\ \A i \in 1..Len(w) : n[i + 1] = w[i]
  OBVIOUS
<1>2. \A i \in 1..Len(w) : w[i] \in Scripts
  OBVIOUS
<1>3. ASSUME NEW i \in 1..Len(w) PROVE Rank(f) < Rank(w[i])
  <2>1. Head(w) = w[1] /\ w # <<>> /\ 1 \in 1..Len(w)
    BY <1>1
  <2>2. Rank(w[1]) <= Rank(w[i])
    <3>1. CASE i = 1
      BY <3>1, <1>2, RankType, <2>1
    <3>2. CASE i # 1
      BY <3>2, <2>1, <1>1, <1>2, RankType DEF Apart, Descends
    <3>3. QED
      BY <3>1, <3>2
  <2>3. Rank(f) \in Nat /\ Rank(w[1]) \in Nat /\ Rank(w[i]) \in Nat
    BY <1>2, <2>1, RankType
  <2>4. QED
    BY <2>1, <2>2, <2>3
<1>4. Elems(n) = {f} \cup Elems(w) /\ Elems(o) \subseteq Scripts /\ Elems(w) \subseteq Scripts
  BY ElemsOfParts
<1> HIDE DEF n
<1>5. Descends(n)
  <2> SUFFICES ASSUME NEW i \in 1..Len(n), NEW j \in 1..Len(n), i < j
               PROVE  Rank(n[i]) < Rank(n[j])
    BY DEF Descends
  <2>1. j - 1 \in 1..Len(w) /\ (j - 1) + 1 = j /\ n[j] = w[j - 1]
    BY <1>1
  <2>2. CASE i = 1
    BY <2>1, <2>2, <1>1, <1>3
  <2>3. CASE i # 1
    <3>1. i - 1 \in 1..Len(w) /\ (i - 1) + 1 = i /\ i - 1 < j - 1
      BY <2>3, <1>1
    <3>2. n[i] = w[i - 1]
      BY <3>1, <1>1
    <3>3. QED
      BY <2>1, <3>1, <3>2 DEF Apart, Descends
  <2>4. QED
    BY <2>2, <2>3
<1>6. f \notin Elems(w)
  <2> SUFFICES ASSUME f \in Elems(w) PROVE FALSE
    OBVIOUS
  <2>1. PICK i \in 1..Len(w) : w[i] = f
    BY DEF Elems
  <2>2. Rank(f) < Rank(f) /\ Rank(f) \in Nat
    BY <1>3, <2>1, RankType
  <2>3. QED
    BY <2>2
<1>7. Elems(o) \cap Elems(n) = {}
  BY <1>4 DEF Apart
<1>8. Cardinality(Elems(o) \cup Elems(n)) = Len(o) + Len(n)
  <2> DEFINE E == Elems(o) \cup Elems(w)
  <2>1. IsFiniteSet(E)
    BY <1>4, ScriptsAreFew, FS_Subset
  <2>2. f \notin E /\ Elems(o) \cup Elems(n) = E \cup {f} /\ Cardinality(E) = Len(o) + Len(w)
    BY <1>4, <1>6 DEF Apart
  <2> HIDE DEF E
  <2>3. Cardinality(E \cup {f}) = Cardinality(E) + 1
    BY <2>1, <2>2, FS_AddElement
  <2>4. Len(o) \in Nat /\ Len(w) \in Nat /\ Len(n) = Len(w) + 1
    BY <1>1
  <2>5. Cardinality(E \cup {f}) = (Len(o) + Len(w)) + 1
    BY <2>2, <2>3, Zenon
  <2>6. (Len(o) + Len(w)) + 1 = Len(o) + Len(n)
    BY <2>4
  <2>7. QED
    BY <2>2, <2>5, <2>6, Zenon
<1>9. QED
  BY <1>1, <1>5, <1>7, <1>8 DEF Apart, n

(* Putting the script opened last in order.                                *)
LEMMA OrderedApart ==
  ASSUME NEW o \in Seq(Scripts), NEW w \in Seq(Scripts), Apart(o, w), w # <<>>
  PROVE  /\ Apart(Append(o, Head(w)), Tail(w))
         /\ Len(Append(o, Head(w))) = Len(o) + 1 /\ Len(Tail(w)) = Len(w) - 1
<1> DEFINE s == Head(w)
           n == Append(o, s)
           t == Tail(w)
<1>1. /\ s \in Scripts /\ t \in Seq(Scripts) /\ Len(w) \in Nat /\ Len(w) > 0
      /\ Len(t) = Len(w) - 1 /\ s = w[1] /\ \A i \in 1..Len(t) : t[i] = w[i + 1]
  OBVIOUS
<1>2. /\ n \in Seq(Scripts) /\ Len(o) \in Nat /\ Len(n) = Len(o) + 1 /\ n[Len(o) + 1] = s
      /\ \A i \in 1..Len(o) : n[i] = o[i]
  BY <1>1
<1>3. Elems(n) = Elems(o) \cup {s} /\ Elems(w) = {s} \cup Elems(t)
  BY <1>1, ElemsOfParts
<1> HIDE DEF n, t, s
<1>4. s \notin Elems(t)
  <2> SUFFICES ASSUME s \in Elems(t) PROVE FALSE
    OBVIOUS
  <2>1. PICK i \in 1..Len(t) : t[i] = s
    BY <1>1 DEF Elems
  <2>2. w[i + 1] = w[1] /\ i + 1 \in 1..Len(w) /\ 1 \in 1..Len(w) /\ 1 < i + 1
    BY <1>1, <2>1
  <2>3. Rank(w[1]) < Rank(w[i + 1]) /\ Rank(w[1]) \in Nat
    BY <1>1, <2>2, RankType DEF Apart, Descends
  <2>4. QED
    BY <2>2, <2>3
<1>5. s \notin Elems(o) /\ Elems(o) \cap Elems(t) = {}
  BY <1>3 DEF Apart
<1>6. Elems(n) \cap Elems(t) = {} /\ Elems(n) \cup Elems(t) = Elems(o) \cup Elems(w)
  BY <1>3, <1>4, <1>5
<1>7. Descends(t)
  <2> SUFFICES ASSUME NEW i \in 1..Len(t), NEW j \in 1..Len(t), i < j
               PROVE  Rank(t[i]) < Rank(t[j])
    BY DEF Descends
  <2>1. i + 1 \in 1..Len(w) /\ j + 1 \in 1..Len(w) /\ i + 1 < j + 1
    BY <1>1
  <2>2. QED
    BY <1>1, <2>1 DEF Apart, Descends
<1>8. Once(n)
  <2> SUFFICES ASSUME NEW i \in 1..Len(n), NEW j \in 1..Len(n), n[i] = n[j]
               PROVE  i = j
    BY DEF Once
  <2>1. \A k \in 1..Len(o) : n[k] \in Elems(o) /\ n[k] # s
    BY <1>2, <1>5 DEF Elems
  <2>2. CASE i \in 1..Len(o) /\ j \in 1..Len(o)
    BY <1>2, <2>2 DEF Apart, Once
  <2>3. CASE i \notin 1..Len(o)
    BY <1>2, <2>1, <2>3
  <2>4. CASE j \notin 1..Len(o)
    BY <1>2, <2>1, <2>4
  <2>5. QED
    BY <2>2, <2>3, <2>4
<1>9. Len(n) + Len(t) = Len(o) + Len(w)
  BY <1>1, <1>2
<1>10. Apart(n, t)
  BY <1>6, <1>7, <1>8, <1>9, Zenon DEF Apart
<1>11. QED
  BY <1>1, <1>2, <1>10, Zenon DEF n, t, s

LEMMA AwaitedRanks ==
  ASSUME NEW s \in Scripts, NEW o, Awaiting(s, o) # {}
  PROVE  /\ FirstAwaited(s, o) \in Scripts \ Elems(o)
         /\ Rank(FirstAwaited(s, o)) < Rank(s)
<1> DEFINE i == LeastOf(Awaiting(s, o))
<1>1. i \in Awaiting(s, o)
  <2>1. Awaiting(s, o) \subseteq Nat
    BY DependenciesAreLists DEF Awaiting
  <2>2. QED
    BY <2>1, LeastOfThem
<1>2. /\ Awaits(s, i, o) # {} /\ Awaits(s, i, o) \subseteq Scripts
      /\ Awaits(s, i, o) \cap Elems(o) = {}
      /\ i \in DOMAIN Dependencies(s)
      /\ \A t \in Awaits(s, i, o) : Dependencies(s)[i] \in Tags(t)
  BY <1>1 DEF Awaiting, Awaits, Carrying
<1>3. FirstAwaited(s, o) \in Awaits(s, i, o)
  BY <1>2, FirstOfThem DEF FirstAwaited
<1> HIDE DEF i
<1>4. QED
  BY <1>2, <1>3, DependenciesRank

LEMMA WalkCounts ==
  ASSUME NEW tags, NEW o \in Seq(Scripts), NEW w \in Seq(Scripts), NEW n \in Nat,
         Apart(o, w), Counted(tags, n, o, w)
  PROVE  LET q == WalkOn(tags, <<o, w>>)
         IN  Apart(q[1], q[2]) /\ Counted(tags, n + 1, q[1], q[2])
<1> DEFINE p == <<o, w>>
           left == Selected(tags) \ Elems(o)
           s == Head(w)
<1>0. p[1] = o /\ p[2] = w /\ Len(o) \in Nat /\ Len(w) \in Nat
  OBVIOUS
<1> HIDE DEF p
<1> SUFFICES Apart(WalkOn(tags, p)[1], WalkOn(tags, p)[2])
             /\ Counted(tags, n + 1, WalkOn(tags, p)[1], WalkOn(tags, p)[2])
  BY DEF p
<1>1. CASE w = <<>> /\ left = {}
  <2>1. WalkOn(tags, p) = p
    BY <1>0, <1>1 DEF WalkOn
  <2>2. RunsAll(tags, o)
    BY <1>1 DEF RunsAll
  <2>3. QED
    BY <1>0, <1>1, <2>1, <2>2 DEF Counted
<1>2. CASE w = <<>> /\ left # {}
  <2> DEFINE f == FirstOf(left)
  <2>1. f \in left /\ f \in Scripts
    <3>1. left \subseteq Scripts
      BY DEF Selected
    <3>2. QED
      BY <1>2, <3>1, FirstOfThem
  <2>2. WalkOn(tags, p) = <<o, <<f>>>>
    BY <1>0, <1>2 DEF WalkOn
  <2> HIDE DEF f
  <2>3. <<f>> \o w = <<f>>
    BY <1>2, <2>1
  <2>4. Apart(o, <<f>>) /\ Len(<<f>>) = Len(w) + 1
    BY <1>2, <2>1, <2>3, OpenedApart
  <2>5. 2 * Len(o) + Len(w) = n
    BY <1>2 DEF Counted, RunsAll
  <2>6. Counted(tags, n + 1, o, <<f>>)
    BY <1>0, <2>4, <2>5 DEF Counted
  <2>7. QED
    BY <2>2, <2>4, <2>6
<1>3. CASE w # <<>>
  <2>1. s \in Scripts /\ 2 * Len(o) + Len(w) = n
    BY <1>3 DEF Counted
  <2>2. CASE Awaiting(s, o) = {}
    <3>1. WalkOn(tags, p) = <<Append(o, s), Tail(w)>>
      BY <1>0, <1>3, <2>2, Zenon DEF WalkOn
    <3>2. /\ Apart(Append(o, s), Tail(w))
          /\ Len(Append(o, s)) = Len(o) + 1 /\ Len(Tail(w)) = Len(w) - 1
      BY <1>3, OrderedApart
    <3> DEFINE x == Append(o, s)
               y == Tail(w)
    <3>3. Len(x) = Len(o) + 1 /\ Len(y) = Len(w) - 1
      BY <3>2, Zenon
    <3> HIDE DEF x, y
    <3>4. Counted(tags, n + 1, x, y)
      BY <1>0, <2>1, <3>3 DEF Counted
    <3>5. QED
      BY <3>1, <3>2, <3>4 DEF x, y
  <2>3. CASE Awaiting(s, o) # {}
    <3> DEFINE f == FirstAwaited(s, o)
    <3>1. WalkOn(tags, p) = <<o, <<f>> \o w>>
      BY <1>0, <1>3, <2>3, Zenon DEF WalkOn
    <3>2. f \in Scripts /\ f \notin Elems(o) /\ Rank(f) < Rank(s)
      BY <2>1, <2>3, AwaitedRanks
    <3> HIDE DEF f
    <3>3. Apart(o, <<f>> \o w) /\ Len(<<f>> \o w) = Len(w) + 1
      BY <3>2, OpenedApart
    <3>4. Counted(tags, n + 1, o, <<f>> \o w)
      BY <1>0, <2>1, <3>3 DEF Counted
    <3>5. QED
      BY <3>1, <3>3, <3>4
  <2>4. QED
    BY <2>2, <2>3
<1>4. QED
  BY <1>1, <1>2, <1>3

(* hardhat deploy with any choice of tags goes through every script chosen *)
(* and none twice, each after all scripts that carry a tag it depends on:  *)
(* the dependencies of the scripts have no cycle, so the walk ends.        *)
THEOREM RunOrderIsWhole ==
  ASSUME NEW tags
  PROVE  LET o == RunOrder(tags)
         IN  o \in Seq(Scripts) /\ RunsAll(tags, o) /\ Once(o) /\ Closed(o)
<1> DEFINE a == <<<<>>, <<>>>>
           o == RunOrder(tags)
<1>1. PICK w : WalksTo(tags, a, MaxWalk, w) /\ RunOrder(tags) = w[MaxWalk][1]
  BY RunOrderWalks, Zenon
<1> DEFINE P == {q \in Nat \X Walks : /\ Apart(q[2][1], q[2][2])
                                      /\ Counted(tags, q[1], q[2][1], q[2][2])}
<1>2. <<0, a>> \in P
  <2>1. Closed(<<>>) /\ <<>> \in Seq(Scripts) /\ a \in Walks
    <3>1. Closed(<<>>) /\ <<>> \in Seq(Scripts)
      BY DEF Closed
    <3>2. QED
      BY <3>1, WalkState
  <2>2. Apart(<<>>, <<>>)
    <3>1. Elems(<<>>) = {} /\ Cardinality({}) = 0
      BY FS_EmptySet DEF Elems
    <3> DEFINE e == <<>>
    <3>2. Once(e) /\ Descends(e) /\ Len(e) = 0 /\ Elems(e) = {}
      BY <3>1 DEF Once, Descends
    <3> HIDE DEF e
    <3>3. Elems(e) \cap Elems(e) = {} /\ Elems(e) \cup Elems(e) = {}
      BY <3>2
    <3>4. Cardinality(Elems(e) \cup Elems(e)) = Len(e) + Len(e)
      BY <3>1, <3>2, <3>3
    <3>5. Apart(e, e)
      BY <3>2, <3>3, <3>4, Zenon DEF Apart
    <3>6. QED
      BY <3>5 DEF e
  <2>3. Counted(tags, 0, <<>>, <<>>)
    BY DEF Counted
  <2>4. QED
    BY <2>1, <2>2, <2>3
<1> HIDE DEF a
<1>3. ASSUME NEW n \in 0..MaxWalk - 1, <<n, w[n]>> \in P
      PROVE  <<n + 1, WalkOn(tags, w[n])>> \in P
  <2> DEFINE x == w[n][1]
             y == w[n][2]
             q == WalkOn(tags, w[n])
  <2>1. /\ n \in Nat /\ w[n] \in Walks /\ x \in Seq(Scripts) /\ y \in Seq(Scripts)
        /\ w[n] = <<x, y>> /\ Apart(x, y) /\ Counted(tags, n, x, y)
    BY <1>3 DEF Walks
  <2>2. q \in Walks
    BY <2>1, WalkGoesOn
  <2>3. q = WalkOn(tags, <<x, y>>)
    BY <2>1
  <2> HIDE DEF x, y, q
  <2>4. Apart(q[1], q[2]) /\ Counted(tags, n + 1, q[1], q[2])
    BY <2>1, <2>3, WalkCounts
  <2>5. n + 1 \in Nat
    BY <2>1
  <2>6. <<n + 1, q>> \in P
    BY <2>2, <2>4, <2>5
  <2>7. QED
    BY <2>6 DEF q
<1> HIDE DEF P
<1>4. <<MaxWalk, w[MaxWalk]>> \in P
  BY <1>1, <1>2, <1>3, WalkKeeps DEF a
<1> DEFINE v == w[MaxWalk][2]
<1>5. /\ o \in Seq(Scripts) /\ v \in Seq(Scripts) /\ Closed(o)
      /\ Apart(o, v) /\ Counted(tags, MaxWalk, o, v)
  BY <1>1, <1>4 DEF P, Walks
<1> HIDE DEF o, v
<1>6. RunsAll(tags, o)
  <2> SUFFICES ASSUME 2 * Len(o) + Len(v) = MaxWalk PROVE RunsAll(tags, o)
    BY <1>5 DEF Counted
  <2>1. MaxWalk = 40
    BY DEF MaxWalk, Files
  <2>2. Elems(o) \subseteq Scripts /\ Elems(v) \subseteq Scripts
    BY <1>5 DEF Elems
  <2> DEFINE E == Elems(o) \cup Elems(v)
  <2>3. E \in SUBSET Scripts /\ Cardinality(E) = Len(o) + Len(v)
    BY <1>5, <2>2 DEF Apart
  <2>4. Cardinality(E) <= Cardinality(Scripts) /\ (Cardinality(Scripts) = Cardinality(E) => Scripts = E)
    BY <2>3, ScriptsAreFew, FS_Subset
  <2> HIDE DEF E
  <2>5. Len(o) \in Nat /\ Len(v) \in Nat
    BY <1>5
  <2>6. Len(v) = 0 /\ Cardinality(E) = Cardinality(Scripts)
    BY <2>1, <2>3, <2>4, <2>5, ScriptsAreFew
  <2>7. Elems(v) = {}
    BY <1>5, <2>6 DEF Elems
  <2>8. Elems(o) = Scripts
    BY <2>4, <2>6, <2>7 DEF E
  <2>9. QED
    BY <2>8 DEF RunsAll, Selected
<1>7. QED
  BY <1>5, <1>6 DEF Apart, o

=============================================================================
