# A verification project for the SEW escrow protocol

TLA+ models of the custody contract under `src/contracts`, of that contract together with the
modules that settle its disputes, of the deployment pipeline under `src/deploy` and of the
scripts that operate a deployment (`src/scripts/gov`,
`src/scripts/testnet`), checked with TLC on small instances, and theorems about them checked
with TLAPS for every instance. This file says what the system is, what is modelled, what the
checks show and what is left.

## The system

The protocol is a set of Solidity contracts around one custody contract. A sender locks tokens
for a recipient; the escrow ends by a release, a refund or a split between the two, and either
party may raise a dispute that a resolver, or a chain of resolvers and appeals, decides. While
an escrow is open its tokens may earn yield in Aave.

| component | state it keeps | operations | talks to |
|---|---|---|---|
| `EscrowVault` with `EscrowCreation`, `BaseEscrow`, `EscrowSettlement`, `EscrowYield`, `EscrowAccounting`, `EscrowConfiguration`, `EscrowStorage` | escrows, their module snapshots, consents, dispute clocks, waiting rulings, split proposals, claims, fee and bond ledgers, running totals, settings | create, release, partial release, cancel, dispute, rule, appeal, timed actions, split, withdraw, claim, configure | resolution module, strategies, yield module, bond collector, creation policy, snapshot registry |
| settlement, dispute and creation libraries | none | decide what an entry point may do | called by the vault |
| `EscrowCreationPolicy` | yield pause, resolver policy | pause, resume, set | read by the vault |
| `DefaultReleaseStrategy`, `DefaultCancellationStrategy` | pending consent per workflow | may release, may cancel, record an attempt | called by the vault |
| `AaveYieldModule` | positions, totals per token, caps, recovery operators | deposit, unwind, emergency unwind, recover | vault, Aave, `GuardianOps` |
| `ModuleSnapshotRegistry`, `ModuleRegistry`, `SlowLaneQueueActivate` | default modules, queued ones, allowlist | queue, activate, add, deprecate | read by the vault |
| `DecentralizedResolutionModule` | rounds, deadlines, decisions, resolver load, configurations | initialize, record, escalate, force progress, finalize | vault, Kleros proxy, staking |
| `KlerosArbitrableProxy` | external disputes and rulings | create dispute, rule, submit | vault, Kleros |
| staking, slashing, incentive modules, `BondLedger`, `InsurancePoolVault`, `BondCollector` | stakes, slashes with their delays, bonds, rewards | stake, unstake, propose and execute slash, record and settle bond | resolution module, vault |
| `GovGovernor`, `EmergencyRecoveryProposal`, `EscrowGovernanceTimelock`, `GuardianOps` | proposals, queues, cooldowns | propose, vote, queue, execute, cancel | every configurable contract |
| views, factories, address registries, token | addresses | read, deploy | |
| deployment pipeline: `deploy/*.ts`, `config/*.ts` | contracts and their roles and links on the chain; the registry file | one run of `hardhat deploy` per choice of tags | everything above |
| operation scripts: `scripts/testnet/*.ts` | none but what they leave on the chain | set the fee or the resolution module, at once or through the slow lane; grant and test the guardian | vault, slow lane, policy, modules |
| governance scripts: `scripts/gov/*.ts` | proposal artifacts on disk | build, propose, queue, execute, check, simulate | governor, timelock |

Every external entry point of the vault is `nonReentrant` and atomic, so concurrency is the
order in which independent callers' transactions land: parties, resolvers, keepers, operators
and governance act at any moment and on state others have just changed. Time passes between
any two calls, and several deadlines of one escrow can be due at once. Calls into the yield
module may fail and the vault goes on without them. On the chain nothing is lost by a crash: a
call either happens as a whole or not at all.

The scripts are the opposite. Each is a sequence of transactions and file writes, and it may be
killed, or one of its calls may fail, between any two of them. What it did stays done; the next
run starts from the beginning and has to notice. Some errors are caught and the script goes on.
Several operators run scripts on one site at once, while the last deployment script takes the
deployer's roles away and the governor executes proposals.

What makes the parts correct:

- vault: an escrow is paid out once and completely; a ruling in waiting is not overtaken; what
  has ended stays ended; who may rule does not move under a dispute; the balance covers what is
  owed; every ledger agrees with its total; a dispute ends;
- yield module: principal is never overstated, a position is paid to its owner once;
- strategies: the consent they record agrees with the one the vault records;
- resolution module: one decision per round, rounds only go up, a resolver's load returns to
  zero, its answers agree with the vault's waiting ruling;
- proxy: a ruling reaches the escrow once;
- staking, slashing, incentives: what is slashed was staked, a bond is settled once, the bonds
  recorded are held;
- governance: nothing takes effect before its delay, cancelled means never executed;
- deployment: authority is never lost half way, what is left to the next run is repaired by it,
  the deployer is stripped only of what somebody else then has;
- operation: a setting changes only as announced, an activation does what was read, an artifact
  and the governor agree, a script that says all is well is right.

`PROJECT.json` lists the components with their status and, under `hazards`, every place in the
code where one of these could go wrong in a way a test would hardly reach.

## Modules

| module | what it is |
|---|---|
| `EscrowVault` | the vault and everything it inherits: state, one action per entry point |
| `EscrowVaultProperties` | invariants, action properties and liveness, one escrow at a time |
| `EscrowVaultLedgers` | the running totals as sums over escrows and accounts |
| `EscrowPromise` | the abstract specification: what an escrow promises its two parties |
| `EscrowVaultRefinement` | the vault implements `EscrowPromise` |
| `MCEscrowVault` | values for the constants, used by the `.cfg` files |
| `EscrowVaultProofs` | the inductive invariant, proved |
| `EscrowVaultSafety` | safety properties proved from it |
| `EscrowAmountProofs` | what amounts come to: fee on yield, shares of a split, running totals as sums, proved |
| `EscrowPromiseProofs` | the refinement of `EscrowPromise`, proved |
| `ResolutionModule` | `DecentralizedResolutionModule` and its appeal bonds: views, and what each entry point writes |
| `EscrowResolution` | the vault, that module and the Kleros proxy composed |
| `EscrowResolutionProperties` | what holds between their records of a dispute |
| `MCEscrowResolution` | values for their constants |
| `EscrowResolutionProofs` | their inductive invariants and twelve theorems |
| `DeployScripts` | the scripts of `deploy/` as data: steps, what each catches, configuration checks |
| `Deployment` | what the contracts and the registry file make of the steps; the order of a run, interruptions |
| `DeploymentProperties` | what a deployment must come to, fairness |
| `MCDeployment` | the runs an operator may start |
| `OperationScripts` | the operation and proposal scripts as data |
| `Operations` | operators running them against the slow lane, the governor and each other |
| `OperationsProperties` | what they must preserve |
| `MCOperations` | the sites and the work done there |
| `OperationsProofs`, `OperationsSafety` | the type invariant and five properties, proved |
| `DeploymentProofs` | types, who holds what at every step of a deployment, and what is wired when the deployer's roles end, proved |

The vault and the scripts are separate models: the scripts set what the vault's settings actions
leave open (`SetConfig` may choose any value at any moment), and nothing inside an escrow is read by a
script.

Names follow the source: a variable or an action has the name of the storage variable or the
function it models (`pendingSettlements`, `automateTimedActions` as `AutomateTimedActions`), and
`PROJECT.json` maps each definition to its lines.

How `EscrowVault` corresponds to the code:

- **One token.** All ledgers of the code are kept per token and never mix, so one token shows
  their behaviour. A bond may be paid in that token or in ETH.
- **A revert is a disabled action**; everything a successful call changes, in the vault and in
  the strategy, yield module and snapshot it touches, is in that action.
- **Answers of other contracts are parameters**: the resolver a module names, whether it calls a
  round final or gives a deadline (`RulingOutcomes`), the appeal it quotes (`AppealQuotes`), what
  a yield position pays and whether the unwind fails (`UnwindOutcomes`). Any answer the interface
  allows may come, so what holds here holds for every module, and the model of one particular
  module can be conjoined with these actions.
- **`ConsistentModule`** is the one assumption about a module: while a ruling waits, the module
  neither calls the round final nor quotes an appeal against another decision. Without it the
  code's `_executeResolution` lets an immediate ruling replace a waiting one, because
  `shouldExecute` is tested before `PendingDecisionAlreadyExists` (`BaseEscrow.sol` 900-908; the
  changelog's entry on overwritten settlements is silent about this order). `EscrowResolution` does
  not assume it but looks at the repository's module: it keeps to it except after somebody has
  called `executeEscalation`, which moves the module to a later round while the vault's ruling
  waits on (`RulingsHeldUntilDue`, and "moved" below).
- **Creation's terms.** `terms[w]` gathers the fields of `EscrowTransfer`, `EscrowSettings` and
  `ModuleSnapshot` that nothing writes after creation. The fields that change are variables.
- **Two settings for a resolution module**: `config.resolutionModule` is the registry's default,
  `config.disputeResolutionModule` the vault's own, used when the former is absent.
- **Yield.** An accepted deposit is the whole amount. `v25YieldPrincipals` is the vault's record,
  `yieldPosition` the module's; an operator's recovery clears only the second. A settlement whose
  emergency unwind would return less than the principal reverts, so that outcome is absent.
- **Cancellation.** `DefaultCancellationStrategy.onCancelAttempt` has no access control and keeps its record
  by workflow id alone, so any account, or another vault with the same strategy, may write it at any
  moment (`AttemptOfAnotherCaller`; `NamedCallers` is whom such a call names). `pendingCancel[w]` stands for
  the record in the strategy escrow `w` was created with; a snapshotted strategy never changes, so
  one record per escrow is enough. The strategies in `OtherStrategies` keep no record and may answer
  anything, so that under them one party's call may refund at once (`canCancelUnilaterally`,
  `MayCancelAlone`), be refused, or only record the consent; the default strategy always says no.
- **History variables** `withdrawn`, `bondFeesOwed` and `unabsorbedLoss` are read by no guard.
- **Not in the vault's model**: the arbitration cost, which passes through in one call;
  `lastEscalationTimestamp`, `escalationCooldown`, the version of the resolution configuration,
  swapping the creation policy contract, hooks whose failure is ignored.

How `ResolutionModule` and `EscrowResolution` correspond to the code:

- **The vault's actions are used as they are**, with every answer they leave open computed from the
  module's state: the resolver, the finality and deadline of a ruling, the quote of an appeal. Each
  composed action is one transaction: `RaiseWithModule`, `RuleWithModule`, `AppealWithModule` and the
  closing ones do all that vault, module, incentive module and proxy write in it.
- **An entry point of the module is a condition and a value**, because the vault calls several in one
  transaction and most inside `try`: where the condition fails the module's writes are absent and the
  vault goes on. `RecordReverts` is the case that matters: `recordResolution` fails in a round above 0
  when no bond was posted for it, since `distributeAppealBond` demands one; in the last round, where
  an appeal costs no bond, it always fails.
- **Two records of one dispute.** `disputeMetadata[w]` is the module's, `disputeResolver`,
  `pendingSettlements` and `escrowState` are the vault's, `klerosDisputes[w]` the proxy's.
- **Steps without the vault**: `executeEscalation`, which the module lets anybody call for any escrow
  (`ExecuteEscalation`), a guardian's `forceProgress`, and the proxy's `rule` and `propagateRuling`,
  whose call to the vault may be lost, refused or repeated.
- **Which resolver** the selection picks depends on a block hash and quality scores: any active
  resolver with room, or none. `ConfigBindings` says whether an escrow is bound to a published
  configuration, in which case opening the dispute chooses a second time.
- **`past[w]`** is a history variable, read by no guard: what happened to a dispute that the
  properties have to except. "unassigned": opened without a resolver in the module; "mismatched":
  the second choice was another one; "appealed"; "moved": the round went up without the vault;
  "forced": a guardian had it progress; "unrecorded": the recording of a ruling failed.
- **One vault, one module, one configuration**, one cost of a first appeal, fixed at the start
  (`baseBond`, 0 when the cost is not enabled).

How `Deployment` corresponds to the code:

- **A script is data.** `DeployScripts` has one operator per file of `deploy/`, a sequence of blocks
  of steps. A step is one call the file awaits (a deployment, a grant, a setter, a record in the
  registry file) with the test that may skip it. A block is `must`, or one of the `try` forms the
  files use, which say which errors go on to where.
- **`RunOrder`** computes what hardhat-deploy computes: the selected scripts by file name, each
  after those that carry a tag it depends on. `Dependencies`, `Tags` and `Files` are read off the
  files, so a forgotten dependency (deploy/70 on `escrow-admin`) has its effect. The walk over
  the dependencies is written as a function of the number of its steps, at most `MaxWalk`;
  `WalkAssumption`, evaluated in each run, says that it has come to its end by then, and the theorem
  `RunOrderIsWhole` that it does for any tags.
- **The chain** is what exists (`deployed`), who holds which role (`roles`, with `BirthRoles` for
  what constructors grant), which setters have been called (`wired`) and what waits in slow lanes
  (`pending`). A call that lacks its role or a fact it depends on is refused, and the block says
  what happens then.
- **The registry file** is read, truncated and written (`BeginSave`, `EndSave`); in between it is
  `torn`, and a torn file counts as absent.
- **Faults**, at most `MaxFaults`: the process dies or an uncaught call fails (`Interrupt`); an
  error is swallowed (`ErrorCaught`); a failed probe reads as "no role here" (`ProbeFails`); the
  timelock's delay cannot be read, so deploy/30 returns before it records (`VerifyFails`).
- **`VaultLinks`** says whether the vault's artifact deploys without a `libraries` entry: deploy/70
  passes none, while a comment of deploy/87 (203-205) says one is needed. Both values are constants
  of the model; the runs take the one under which there is something to check.

How `Operations` corresponds to the code:

- **A script is data** here too, a sequence of steps in `OperationScripts`: reads with the decision
  taken on them, transactions, files read and written. `catch` says where an error leads.
- **Operators interleave.** `Launch` starts a script, its steps follow one at a time, `Killed` ends
  it anywhere, `Fault` makes a step fail for reasons of its own. What a script remembers between
  two calls (`seen`, `module`, `copy`) is in `run[o]` and may be stale when used.
- **The slow lane** is `pending` with an `eta`: announcing overwrites, activating needs the delay,
  the role and the vault's role for the slow lane. `Strip` is deploy/95 at work, one contract at a
  time. The governor's proposals are announced, voted, queued and executed (`Proposes`, `Voted`,
  `QueuedInTimelock`, `Executed`).
- **Artifacts**: `file[p]` is what is on disk, `run[o].copy` what a script holds in memory; proposing
  changes the copy, saving the file.
- **Time** passes at most once under a running script (`aged`): a script takes minutes, a unit of
  time is the timelock's delay.
- **Results that never vary are written as such**: `StateIdentical` is FALSE, since ethers returns a
  `bigint` that no number is identical to; `Impossible` steps call functions that do not exist.

`Deployment` and `Operations` overlap in a few contracts, with different questions: the first asks
how the roles come about, the second starts from what the first leaves behind (`DeployedRoles`),
with or without the grants whose error was swallowed (`lost`).

## Runs

The runs of the vault use `MCEscrowVault`. Their bounds are the constants in the `.cfg` files: `MaxEscrows`,
`MaxAppeals` (per account), `MaxTime`, and `Horizon`, the last instant at which a creation,
dispute, ruling or appeal may start a new deadline, so that every deadline passes before the
clock stops. One tick stands for a day or an hour: only the order of deadlines matters, and the
durations are chosen so that each can come before, with and after the others.

| run | instance | shows |
|---|---|---|
| `Lifecycle` | one escrow, four kinds of request (plain, timed release, timed cancel, custom resolver), no yield | types, phases and payouts agree; waiting rulings are honoured; ends are final; `EscrowPromise` is implemented |
| `Yield` | two escrows, yield of -300 or 101 on 980, failing unwinds, recoveries | no unwind outcome makes a debt without backing; totals are sums; splits pay what was agreed |
| `Modules` | one escrow, plain or with an auto-cancel time, under the default cancellation strategy or another one; modules and strategy activated and the fee on appeal bonds dropped at any moment, bonds in ETH and tokens; other callers of the strategy name the buyer or a third account | authority over a dispute is stable; bond ledgers add up; two consents refund, whoever writes the strategy's record; a refund needs the auto-cancel time, two calls, or a strategy of the escrow's own terms that may let one party cancel alone |
| `Concludes` | one escrow, keeper and clock fair | disputes and timed escrows end; rulings are realized |
| `Settings` | escrows on yield while every setting but the appeal fee moves | the fee on yield is the snapshotted one |
| `DisputedAutoCancel`, `ForwardOnly`, `ClaimsCoverage` | smallest instance that shows it | a document's statement the code does not keep |
| `Resolution` | one dispute between buyer and seller, two interchangeable junior resolvers, a senior one, the proxy; windows of 2, 1 and 0 by round, against 1 in the escrow's snapshot; module and vault move independently | rulings, deadlines, authority, load and bonds agree between vault and module but for the named events; the court has the last word; a ruling closes the dispute in both |
| `Pipeline` | any sequence of six kinds of run of `hardhat deploy` (the core with its administration, governance and a token run with a zero guardian on the test network; profile B and the factory on a local one; a main network without confirmation), one fault | the timelock always has a master; the registry file is complete; the deployer is stripped only when all is wired, and keeps nothing it could use; the pipeline can be finished |
| `FinalHandover` | the same without faults | deploy/95 leaves contracts without any administrator |
| `Operations` | seven sites with two operators each (`MCSetups`), up to four launches, one fault, two modules, five units of time | settings change as announced; what is activated was read; no unusable module takes effect; artifacts and tests tell the truth |

One escrow is enough where a property speaks of one escrow and no guard reads another's state:
escrows meet only in the ledgers, the per-account counters and the settings, which is what
`Yield` and `Modules` are about. 980 is what is left of the least amount (1000) after a fee of
2%; 333 of 980 and a yield of 101 make every division round.

`Resolution` has one escrow, as module and vault keep all but the resolvers' load per escrow; with
room for one dispute per resolver a second one would only find nobody free, which `Selection`
allows anyway. The module's windows differ by round and from the snapshot's, so that a deadline taken
from the wrong place would show. Two juniors are the least that can replace each other; they are
symmetric. The cancellation strategy is absent, so the
parties' consents stay in the vault; they are `Modules`' subject. Other callers of a strategy name the buyer,
to show that such a call disturbs no record of a dispute. Nothing is assumed fair: no property of this run is a liveness one.

`Settings` has no splits: they take the same fee (`YieldFee`), and `Yield` has them. In `Modules` the account
another caller of the strategy names is a party who has not asked, the buyer, or an account that is no party; naming the
seller is the mirror image.

`Pipeline` chooses tags so that the scripts are reached through their own tags and through a
dependency, and in more than one order; one fault is enough because every
property speaks of what a run does after the first thing that went wrong, and the number of runs is
not bounded. `Operations` splits the work into sites so that scripts that can meet do meet: those
that share a setting, a module, a role or an artifact are in one setup. SLOW_DELAY is 2 and
MIN_DELAY 1, so that a proposal can land before, at and after the end of a delay. Two operators are
the least that can disturb each other; they are interchangeable, which the symmetry set uses. The
work is bounded by `launches`, so these runs end, and deadlock is not checked there.

**Fairness.** `FairSpec` asks for weak fairness of the clock and, for each escrow, of a keeper's
`automateTimedActions`. Time passes by itself, and the code gives the role `ROLE_KEEPER` (and
both parties) the right to trigger due actions at any time; a due action stays due until it or
a rival settles the escrow, so weak fairness is enough. Nothing is assumed of parties,
resolvers or governance. The keeper's transaction is assumed to succeed with some outcome of the
yield module; liveness is checked on escrows without yield.

`LiveSpec` of the deployment asks that a script that is running goes on (weak fairness) and that the
operator keeps starting the governance run whenever none is going on (strong fairness, as others may
start other runs in between). Under it a test network is finalized (`Finalizes`) whatever fault came
before, unless the fault fell inside deploy/95 after `ResolverStakingModule` had lost its
administrator: deploy/85 then fails in every later run. That exception is written into the property
(`HalfStripped`) because the code has it.

## Where the documents and the code differ

- `docs/AUTO_EXPIRY_AUTHORISATION.md:287-290` says a disputed escrow is not auto-cancelled by
  `automateTimedActions`. `computeTimedActions` has an action for exactly that (`DisputedAutoCancel`).
- `docs/FORWARD_ONLY_UPGRADES.md:121-122` says activating a resolution module has no effect on an
  escrow already created. A snapshot that holds no module falls back to today's (`ForwardOnly`).
  `AuthorityStable` shows that this never moves the authority over a dispute in progress.
- `docs/WITHDRAWALS.md:247-254` wants the balance to cover all claims. When both unwinds fail the
  claim is credited without tokens (`ClaimsCoverage`). `Solvency` shows what holds instead: the
  missing tokens are still in the yield module's books, or were lost by a split or a recovery.
- `deploy/95_finalize_governance.ts:13-15` says that it leaves "governance resting solely with the
  TimelockController". The contracts of deploy/85 and 86 gave the timelock only `ROLE_TIMELOCK`, and
  `AaveYieldModule` is deployed after deploy/60 ran: these are left with no administrator at all
  (`FinalHandover`).
- Read in the cancellation strategy, and modelled as the code has it: `DefaultCancellationStrategy.sol:21-22`
  says the record is the address of the party that initiated the cancellation, but anybody can write it.
  `ConsentsKept` and `NoUnilateralRefund` show how far that reaches: a call from elsewhere can make a party's
  call be refused and so hold up a cancellation by mutual consent; it cannot make a refund.
  `docs/architecture/PROTOCOL_MODULARITY.md:171` says that under the default strategy a party may cancel alone
  after `autoCancelTime`, but `canCancelUnilaterally` always answers false.
- Read, not checked by a run: the comment at `EscrowSettlement.sol:195-197` claims exact
  conservation although `acceptSplit` ignores the principal the unwind returned;
  `docs/WITHDRAWALS.md` lists the states that allow a withdrawal without PENDING, which the code
  allows for parts already released.
- Read in the resolution module, and modelled as the code has it; what it does to the properties is
  stated in their exceptions:
  - `executeEscalation` asks for no caller (`DecentralizedResolutionModule.sol:336`) and tells nobody.
    After it the vault obeys the old resolver, pays out the ruling the module has left behind,
    and, when the module has come to its last round, takes a second ruling in place of one that waits,
    although `docs/CHANGELOG.md:143` says the guard prevents a resolver from overwriting a pending
    settlement.
  - A comment at `DecentralizedResolutionModule.sol:706` says a resolution reverts as a whole when its bond cannot
    be distributed. The vault tries the call and goes on, so the ruling stands and the module has no
    record of it.
  - The end of a dispute frees its last resolver (`BaseEscrow.sol` 1068-1087, "so capacity is freed"),
    while the one who was counted is the first: after an appeal the first is never freed, and after
    a mismatched opening somebody is freed who was not counted (`LoadAccounted`). Nothing stops
    `setExternalResolver` from naming a junior: such an account is freed of an own dispute when the
    court has ruled on another one, and the property leaves it out (`InOneRole`).
  - `ResolverIncentiveModule.sol:1667` says the clean-up keeps bonds from being stuck. A refund by
    timeout with the appealed round undecided leaves a record that `finalizeDispute` refuses, and
    with it the bond (`BondSettled`).
  - `docs/dispute-resolution/RESOLVER_ECONOMICS_TODOS.md:108` ticks off reassignment by `forceProgress`. It
    replaces the resolver in the module only: the vault goes on obeying the late one alone, so the
    replacement cannot rule.
  - `BaseEscrow.sol` 1060-1067 warns that the vault's finality and the module's are two loosely coupled
    clocks. `RulingsAgree`, `NoTie` and `RulingsCloseDisputes` say how closely: they are the same deadline, and
    part only after a move or a failed recording.
- Read in the scripts, and modelled as the code has it: `stage.ts:151` compares the governor's state,
  a `bigint`, with a number by `!==`, so queue and execute refuse every proposal; the four powers of
  `emergency.ts`, which `runbooks/emergency.md` relies on, call functions that do not exist or take
  another number of arguments; the payloads 0001 to 0005 do too; the committed proposals hold
  placeholders in capitals that are never resolved; a rebuild of an artifact erases its proposal id;
  the role that the immediate scripts grant the deployer survives deploy/95; the default stable token
  of `deploy-drm-and-set-immediate.ts` has 39 hex digits, so the variable must be given; the file
  `deploy-registry/base-sepolia-v1-testnet.json` that the scripts read is written by none of them.
- Read in the deployment: 60's header says it revokes the deployer's roles (60:12-13), which only 95
  does; 75 announces its modules again in every run, so the delay never ends while runs go on; no
  script registers the escrow with the snapshot registry, which refuses announcements until then; 87
  aborts a run without tags before 90 and 95 unless its profile is chosen; a failed revocation of
  `ROLE_TIMELOCK` followed by a successful one of the administration leaves a role nobody can revoke.
- Read in the checks: `validate-deployment-v1.ts:347` wants at least ten callable contracts of a list
  of eight; `phase0-base-sepolia-health.ts` wants a contract and a role that do not exist.

## Proofs

`EscrowVaultProofs` proves, for any constants that satisfy the assumptions named in
`EscrowVault`, that `Inv == TypeOK /\ now # 0 /\ PhaseInv` is inductive. None of its parts is
inductive alone: that `Remaining(w)` is a natural number needs the phase (an open escrow has
something left), the phases need that a dispute's clock is not 0, hence that time is not, and the
divisor of a split is positive only because an open escrow has a positive amount, which creation
guarantees because the fee is below 100%. The proof has one lemma per action; the paths that end
in a release or a refund share `SettlementInv`, and what moves only ledgers shares
`LedgerMoveInv`. The arithmetic it rests on is `QuotientBound`: rounding down never gives more
than the share.

`EscrowVaultSafety` builds on it. Its first part is `Locality`: a step changes the record of at
most the escrow it is a call for. Every property of single escrows then needs only a look at the
calls for that escrow:

- `TerminalForever`, `AuthorityOfDispute`, `RefundNeedsConsent`: the action properties
  `TerminalIsFinal`, `AuthorityStable` and `NoUnilateralRefund` follow from `Inv` step by step. The third
  speaks of the strategy in the escrow's own terms, which nothing writes after creation, and of the other
  party's status in the vault, which only that party's call sets.
- `RulingsHonoured`: `RulingHonoured` under the assumption `ConsistentModule`, used at exactly one
  place (`NoImmediateRuling`).
- `PaidOnce`: `PayoutConservation` is inductive with three facts (`Payable`): nothing is paid from
  an escrow that does not exist, the parties of one that does are accounts, and an escrow without
  the yield setting never has a position.
- `Solvent`: `Solvency` is inductive with `Tracked`, that the vault's record of a position and the
  module's agree until an operator recovers it. Without that an unwind could pay for more than the
  settlement takes out of `totalHeld`. `UnwindPays` is the arithmetic of all five ways an unwind
  can go.
- `ConsentsComplete`: `ConsentsKept`, from `Inv` step by step. `ConsentsLocal` says that but for a cancellation
  no call gives a consent; `ConsentRecorded` that one that does not refund leaves the other
  party's status without consent, and writes both records alike if they agreed before.

`EscrowAmountProofs` proves what amounts come to, for any amounts:

- `YieldFeeOfYieldOnly`: `YieldFeeBounded`, from `Tracked`: yield is counted only when the whole
  tracked principal has come back (`YieldAfterPrincipal`), and rounding down keeps the fee below its rate.
- `SplitPaidAsAgreed`: `SplitAsAgreed`, from `OpenPaid`: an open escrow, on yield or not, has paid its
  sender nothing and its recipient the released part, so what the parties hold after a split is
  what the split credited. `ShareInProportion` bounds the rounding from both sides: the seller's share of
  the yield is at least in proportion, and above it by less than one unit.
- `BooksAlwaysBalance`: `BooksBalance`, for any number of escrows and any finite set of accounts
  (`AccountsAssumption`: addresses have 160 bits). `BooksInv` adds to the sums only that an
  escrow that does not exist has no position, that a bond fee's recipient is an account, and the facts of
  `Payable`. Every step is the business of one escrow,
  whose parts change by what the totals change by (`Booked`), or leaves all of it alone (`SameBooks`).
  `SumFunction` of the community modules picks the elements in an order nobody knows, by `CHOOSE`; the
  lemmas before (`SumExists` to `SumChangesAt`) show that its recursion defines a number and that the
  order does not matter. The induction is over the least cardinality at which a claim fails
  (`SmallestSubset`), as induction theorems with an operator for a parameter cannot be used.
- `TotalsAlwaysCover`: a total is at least each of its parts. The code subtracts with checks, so
  this is what keeps a settlement or a claim from being refused for a total that has drifted.

`EscrowPromiseProofs` proves the refinement. `VaultKeepsPromise` assumes that no request asks for yield
(the promise speaks of principal only) and `ConsistentModule` (another ruling would replace the one that
waits; `ResolutionKeepsPromise` below shows what becomes of it with the real module). Every call is looked at for the one escrow it concerns: its view (stage, ruling, principal, what the
two parties got) makes one move of the promise or none, by `ViewOfActive` and the lemmas of `PaidOnce`;
by `Locality`'s lemmas the other views stay; and `MoveIsStep` lifts the move to a step of the promise.

`OperationsProofs` proves `TypeCorrect`: the types of `Operations` hold for any set of operators,
setups and delays. `TypeOK` is not inductive: that a running script is inside its body needs that the
body has such a step, so the inductive invariant adds the shape of a run record, the typing of the
copies a script holds, and that each body of `OperationScripts` is a sequence of typed steps
(`BodyTyped`). The proof goes action by action.

`OperationsSafety` has five properties, each from its own small invariant:

- `NothingUnannounced`: `NoticeGiven`, from `NoticeOK`: whatever waits in a slot is what was announced
  last for it, and its `eta` is that moment plus the delay. Overwriting keeps this only because the
  delay starts again.
- `ArtifactsTruthful`: `ArtifactTruthful`, from `CopiesOK`: a copy that says "proposed", in memory or on
  disk, is of a proposal the governor has.
- `GuardianTestTruthful`: `GuardianReady`, from `TestsOK`: a test run that has noted no failure up to a
  step has seen the roles the earlier steps look for, and nobody takes a guardian's role away.
- `WhatWasRead`: `ActivatesWhatItRead`, from `FreshOK`, under the assumption SLOW_DELAY > 1: an entry
  announced after the script's read cannot be due before the script ends, as the clock moves at most
  once under it. With SLOW_DELAY = 1 it could.
- `ModuleGoverned`: `GovernedModule`, from `GovInv`: what a script has secured before the step it is at is
  true of the module it works on (`Learnt`, from the script's text by `Secured`), no other script
  undoes it, since a module that is not in effect is worked on by one operator or is the shipped one
  (`Owned`), and whatever is in effect or waits to be is usable already (`InEffectOK`).

`EscrowResolutionProofs` proves twelve facts about vault, module and court together, for any resolvers,
windows, deadlines and enabled rounds:

- `VaultImplemented`: every step of the composition is a step of `EscrowVault` or a stutter
  (`ResolutionSpec => Spec`). This is a refinement proof, and it carries over all that is proved of the vault
  for arbitrary answers of a module.
- `ResolutionTypes`: the types of all the records.
- `RulingsAgreeAlways`, `NeverTie`, `RulingsCloseDisputesAlways`, `RulingsHeldUntilDueAlways` and
  `OneDecisionPerRoundAlways` rest on one invariant, `RecordsInv`: a ruling that waits is either on the
  module's record of its current round, same decision and same deadline (`Agreed`), or that round has
  no decision at all (`Unheard`), after a move or a failed recording. It needs that the rounds
  above the current one are blank, else an escalation could land on an old decision; and that a dispute
  with no ruling waiting has a blank round, else a second ruling would overwrite the first.
- `AuthorityAgreesAlways` from `AuthorityInv`: the resolver of both records, while none of the four
  separating events has happened.
- `CourtHasLastWordAlways` from `AtCourtInv`: a court dispute exists only in the last round, with nothing
  waiting and the proxy as the only resolver the vault obeys.
- `ResolutionKeepsPromise`: the composition implements `EscrowPromise`, as long as nobody moves the module's
  round without the vault (`NeverMoved`, a hypothesis on the behaviour) and no request asks for yield. It is
  `VaultKeepsPromise` without its assumption: that the module does not contradict a ruling that waits is
  proved of this module (`SettlementRealizes`), from `RecordsInv`. The hypothesis cannot be dropped: TLC
  finds the promise broken within nine steps after an `executeEscalation` behind the vault, when the
  ruling of the next round takes the place of the one that waits; with it TLC agrees on the instance of the
  run `Resolution`.
- `BondSettledAlways` from `BondInv`: the bond of the first appeal stands only while its ruling can still
  come (`Awaits`), the last round's appeal costs none, and an escrow whose snapshot names an
  incentive module has one.
- `LoadAccountedAlways` from `LoadInv`: the count itself, and who is freed at the end of a dispute
  (`Carried`): its first resolver as long as nobody appealed, afterwards one who is not a junior.
  A step takes a dispute into the set that is counted, passes it on, relieves somebody or leaves the
  set as it is (`Takes`, `Passes`, `Relieves`, `Steady`), and the cardinality follows.

The proof does not go action by action for each invariant. `Effects` says once what any step may do to
one dispute: it keeps it, creates, raises, ends, appeals, moves or forces it, or rules on it for good
or for the time being (`Affects`), and leaves the other disputes alone. Every invariant is then shown
over these nine cases.

`DeploymentProofs` proves what holds while scripts are run in any order, cut off anywhere and started
again, with any number of runs and faults (`FaultsAssumption`, that `MaxFaults` is a number, is all it
assumes). The scripts are data, so the proof has three layers:

- The text. Each of the twenty scripts is a sequence of blocks of legal steps (`BodyLegal`), each
  name in the order of a run is a script (`RunOrderClosed`), and creating a contract leaves the program of a
  script that has not looked it up as it was (`BodySteady`): a script reads what is deployed to decide what
  it will do, so without this a run could lose its place.
- The course of a run. Every action is a `Move` of the session, and `Sound` says that the session is at a
  block and a step its script has, and that roles are held on what exists only.
- What a step does to roles: nothing, a contract's birth with `BirthRoles`, a grant by the script or
  inside a call, a revocation (`RoleChange`). Each theorem is then an invariant over these few cases.

From it follow `DeploymentTyped`; `TimelockAlwaysGoverned`, where the governor's rights must come before
the deployer's go (`WiringInv`); `KeyAlwaysRevocable` and `KeyIsRetired`, which follow deploy/95 through its
revocations (`KeyInv`, `StripInv`); `HandoverAlwaysWhole`, where a run inside
deploy/60 that has caught no error has handed over all contracts whose block it has passed
(`HandoverInv`), because each block tests every grant anew and does not trust that an earlier one was the
whole block; and `RegistryAlwaysComplete` (`RecordInv`).

`FinalizedIsComplete` is about the whole series of runs: once deploy/95 has taken the
deployer's roles away, everything those roles were needed for has been wired and stays so, whatever was
interrupted and whichever errors were swallowed before. `FinalizedComplete` says nothing of a
state before deploy/95 has ended, so the induction needs what lies on the way there:

- `Left(s)` says what script `s` leaves behind, for the six scripts whose work the property names
  (`Preparing`). It is never undone (`LeftKept`): contracts stay, a role is only ever taken from the deployer, and no
  script or activated request sets one of these links (`Ties`) to another value.
- `PassedInv` follows a run through one of these scripts. Every step it has passed in a block that must
  succeed stands. A block may also go on after an error, and two kinds do: a `try`, in which none of
  the work named here is done, and an `auth`, which forgives a missing role. For the second the proof
  needs `Deposit`: the deployer holds `ROLE_TIMELOCK` on every contract that grants it at birth
  until all is prepared. So a setter refused for want of that role is refused only after everything was wired, and the
  links it would have set stand (`Refusal`).
- `FreshInv` says that a contract waiting to be recorded exists, so that a step that ends with its record stands.
- `Trail` looks ahead along the list of scripts still to run: before each deploy/95, what it rests on is there or
  comes first. At deploy/95 itself nothing comes first any more, so it is there (`AtTheHandover`).

`RunOrderIsWhole` is about the order alone: with any choice of tags a run goes through every selected script, none
twice, each after all that carry a tag it depends on. `WalkAssumption` is the part of it that TLC evaluates, for
the runs of the instance. Two things make the walk end: the scripts can be ranked so that each ranks above
its dependencies (`Rank`, `DependenciesRank`: by file name except for deploy/32, so there is no cycle), and every
step of the walk opens a script or puts one in order (`Counted`), of which there are twenty.

The hypothesis `WholeHandovers` of `FinalizedIsComplete` is a condition on the runs the operator starts, and the theorem is not true
without it. hardhat-deploy puts 70, 85, 86 and 90 before 95 because the files declare them (`RunOrderClosed`); they do
not declare deploy/10 and deploy/50, nor that deploy/70 comes before deploy/86, which tells the resolution module of the
vault only if the vault exists. `WholeHandovers` says that a run which reaches deploy/95 has these too. It holds
of a run of everything and of a run with the tag `governance`, and TLC evaluates it for the runs it checks
(`HandoversAssumption`). It fails for the tag `finalize`, whose run has neither deploy/10 nor deploy/50, and for `dr3`
and `governance` together, which put deploy/86 before deploy/70; from an empty network TLC finds the property violated for
both: after `core` and `escrow-admin`, `finalize` strips the deployer without Safe and timelock wiring, and the
other leaves the resolution module without its vault. deploy/75 cannot be missed in this way: deploy/90 requires
what it deploys, and a run in which it deploys nothing stops there.

Only model-checked: liveness (`Finalizes`, `EscrowConcludes`, `RulingConcludes`), which the prover does not
reach. `RulingHonoured` and `KeepsPromise` are checked with the assumptions their theorems make.

## Not modelled

- Of `DecentralizedResolutionModule`: quality scores and the order of the round robin (any eligible
  resolver may be picked), the staking check at assignment (a resolver without stake is one the
  selection does not return, or the opening reverts), categories and routing, publication and
  deprecation of configurations, appointments, slashing and vindication after a reversal. Of the
  incentive module: amounts, shares, base payments, withdrawals; a bond is a state here. Of the
  proxy: evidence, the arbitrator's fee, and a configuration of the hand-off changed in between.
- `DefaultResolutionModule`: it stores one resolver and answers with it; the vault's model lets a
  module answer anything.
- Staking, slashing, the bond ledger, the insurance pool, bond valuation and analytics: they
  keep capital of resolvers, outside the custody of the escrows. Vault and resolution module read of them
  only whether a resolver may be assigned.
- `GovGovernor` and `EscrowGovernanceTimelock` beyond what `Operations` uses of them, guardian
  operations, `EmergencyRecoveryProposal`: thin layers over OpenZeppelin's contracts. In the vault's model
  governance acts at any moment, which includes every delay they impose.
- `ModuleSnapshotRegistry`'s queue and allowlist: a default may change at any moment in the vault's model.
- The window in which disputes are counted per account (`BaseEscrow.sol` 486) is in `CountDispute`,
  with no property: it limits a rate and protects nothing else in the model.
- The token, factories, views, address registries, mocks and interfaces: no protocol state.
- The journeys (`scripts/testnet/phase1-*`, `phase2-*`, `phase4-*`, `smoke-*`, `stress-*`): they are
  written for an earlier interface of the vault (settings without `releaseAddress`, functions
  `releaseEscrowTransfer`, `escrowStates`, `getEscrowInfo`, events `CancelRequested` and
  `CancelConfirmed`, a file `deployments/baseSepolia/EscrowVault.json` the repository does not have), so
  a model of what they do to this vault would be of calls that fail.
- `check-surface.ts`, `debug-*`, `inspect-*`, and the export, verification and size scripts: they read and
  print.

## What is done and what is left

Done: the vault with its properties, its abstract specification and the refinement; the vault with
resolution module, appeal bonds and court; the deployment pipeline; the operation and governance
scripts; theorems about each of the four.

Left, in the order of what it would add:

1. Staking, slashing and the insurance pool: is what is slashed what was staked, when withdrawals race
   with delayed slashes. They are a protocol of their own with few calls from the modelled part.
2. `AaveYieldModule` with shares and index, refined to the vault's positions. The arithmetic of
   rounding is where it could go wrong, and small bounds say little about it.
3. The registry's queue and the guardian's cooldowns, which restrict steps the models allow at any
   moment. A second vault, to see it write the first one's cancellation record by itself; here that write
  comes from anybody.
4. Two escrows on one resolution module with the load as the shared resource: the state space
   (about six million states) is too large for a run kept here. A simulation of it showed the same
   invariants.
