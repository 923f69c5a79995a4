---------------------------- MODULE MCDeployment ----------------------------
EXTENDS DeploymentProperties
(* A complete configuration for the test network, and variations.          *)
Base == [net |-> "baseSepolia", rpc |-> "ok", confirm |-> FALSE, key |-> TRUE, owners |-> 3,
         threshold |-> 3, guardian |-> "address", fee |-> "unset", numbers |-> "inRange",
         erc20 |-> FALSE, create2 |-> FALSE, stable |-> FALSE, profile |-> "", reuse |-> FALSE]
Local == [Base EXCEPT !.net = "hardhat", !.stable = TRUE, !.profile = "sew-dr-v2-bondledger"]
Unguarded == [Base EXCEPT !.guardian = "zero"]
Mainnet == [Base EXCEPT !.net = "base"]
Run(tags, env) == [tags |-> tags, env |-> env]
MCRuns == {Run({"core", "escrow-admin", "release-strategy"}, Base), Run({"governance"}, Base),
           Run({"token"}, Unguarded), Run({"profile-b"}, Local), Run({"create2"}, Local),
           Run({"core"}, Mainnet)}
(* The hypothesis of FinalizedIsComplete, of the runs of the instance.     *)
ASSUME HandoversAssumption == WholeHandovers
=============================================================================
