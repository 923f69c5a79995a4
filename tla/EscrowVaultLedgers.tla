--------------------------- MODULE EscrowVaultLedgers ---------------------------
(***************************************************************************)
(* The running totals the vault and the yield module keep are the sums of  *)
(* what they keep for each escrow and account.                             *)
(***************************************************************************)
EXTENDS EscrowVaultProperties, Functions

\* What the vault still holds for escrow w.
Held(w) == IF escrowState[w] \in Active THEN Remaining(w) ELSE 0

\* totalHeldInEscrowPerToken, totalClaimableAssets and totalDepositedByToken are updated
\* beside the per-escrow records at a dozen places, never recomputed; the ETH the vault
\* holds is exactly bond fees and excess refunds.  A drift would make the checked
\* subtractions of the code refuse a settlement or a withdrawal.
BooksBalance ==
  /\ totalHeld = SumFunction([w \in Workflows |-> Held(w)])
  /\ totalClaimable = SumFunction([w \in Workflows |-> SumFunction(claimableBalances[w])])
  /\ totalDeposited = SumFunction(yieldPosition)
  /\ \A b \in BondAssets : bondFeesOwed[b] = SumFunction(claimableBondProtocolFees[b])
  /\ ethBalance = bondFeesOwed["ETH"] + SumFunction(claimableExcessEthRefunds)

================================================================================
