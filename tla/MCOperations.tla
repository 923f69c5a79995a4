----------------------------- MODULE MCOperations -----------------------------
EXTENDS OperationsProperties, TLC
Core == {Vault, SlowLane, Policy, "SewToken", "AaveYieldModule"}
(* One site, and variations: work on the fee with proposals for it, on the *)
(* module, on the decentralised module where deploy/86 ran and where not,  *)
(* on the guardian's role, and on the artifacts alone.                     *)
Base == [deployed |-> Core, lost |-> {},
         environment |-> {"REGISTRY_FILE", "STABLE_TOKEN_ADDRESS", "INITIAL_RESOLVER", "EXECUTOR"},
         scripts |-> {}, payloads |-> {}, stripping |-> FALSE,
         launches |-> 3, faults |-> 0, modules |-> 2, time |-> 4]
Fees == [Base EXCEPT !.scripts = {"set-escrow-fee-100", "activate-escrow-fee", "build-proposal",
                                  "stage propose"},
                     !.payloads = {"queue_fee", "activate_fee"}, !.launches = 4, !.time = 5]
FeesUnwired == [Base EXCEPT !.scripts = {"set-escrow-fee-100", "activate-escrow-fee",
                                         "deploy-module-and-set-immediate"},
                            !.lost = {<<Vault, 0, MANAGER, SlowLane>>}, !.stripping = TRUE]
Modules == [Base EXCEPT !.scripts = {"deploy-module-and-queue", "activate-resolution-module",
                                     "deploy-module-and-set-immediate", "grant-eoa-and-swap"},
                        !.stripping = TRUE]
Decentralised == [Base EXCEPT !.scripts = {"deploy-drm-and-set-immediate"}, !.launches = 2,
                              !.faults = 1, !.time = 0]
Saved == [Decentralised EXCEPT !.deployed = Core \cup {Drm}, !.stripping = TRUE]
Guardians == [Base EXCEPT !.scripts = GuardianScripts, !.launches = 2, !.faults = 1, !.time = 0,
                          !.lost = {<<Vault, 0, GUARDIAN, "guardian">>},
                          !.environment = {"REGISTRY_FILE", "GUARDIAN_PRIVATE_KEY"},
                          !.stripping = TRUE]
Proposals == [Base EXCEPT !.scripts = ProposalScripts, !.faults = 1, !.time = 0,
                          !.payloads = {"queue_fee", "0002_queue_fee_address"}]
MCSetups == {Fees, FeesUnwired, Modules, Decentralised, Saved, Guardians, Proposals}
Symmetry == Permutations(Operators)
=============================================================================
