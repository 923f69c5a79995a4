-------------------------- MODULE MCEscrowResolution --------------------------
(***************************************************************************)
(* A small instance of EscrowResolution: two juniors so that one can be    *)
(* replaced, one senior, the proxy; the module's windows differ from each  *)
(* other and from the window in the escrow's own snapshot.                 *)
(***************************************************************************)
EXTENDS EscrowResolutionProperties, MCEscrowVault, TLC

CONSTANTS deputy, proxy

ResolutionAccounts == {buyer, seller, judge, deputy, court, proxy}
OneModule == {moduleA}
ResolutionConfig == [FreeConfig EXCEPT !.escrowFeeAddress = buyer, !.cancellationStrategy = NoModule]
Interchangeable == Permutations({judge, deputy})
DisputableRequests == {Plain, [Plain EXCEPT !.cancelDelay = 2, !.customResolver = court]}
Deadlines == [r \in 0 .. 2 |-> 1]
Windows == [r \in 0 .. 2 |-> 2 - r]

================================================================================
