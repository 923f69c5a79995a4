------------------------- MODULE EscrowVaultRefinement -------------------------
(***************************************************************************)
(* The vault keeps the promise: EscrowVault, on escrows without yield,     *)
(* implements EscrowPromise.  What a party "got" is what it may withdraw   *)
(* together with what it has withdrawn.                                    *)
(***************************************************************************)
EXTENDS EscrowVaultProperties

Stage(w) ==
  CASE escrowState[w] = "NONE" -> "none"
    [] escrowState[w] = "PENDING" -> "open"
    [] escrowState[w] = "DISPUTED" ->
         IF pendingSettlements[w].exists THEN "ruled" ELSE "disputed"
    [] OTHER -> "closed"

Ruling(w) ==
  IF ~pendingSettlements[w].exists THEN "none"
  ELSE IF pendingSettlements[w].isRelease THEN "to" ELSE "from"

Got(w, a) == IF escrowState[w] = "NONE" THEN 0 ELSE Paid(w, a)

Promise == INSTANCE EscrowPromise WITH
  Escrows <- Workflows,
  stage <- [w \in Workflows |-> Stage(w)],
  ruling <- [w \in Workflows |-> Ruling(w)],
  principal <- [w \in Workflows |-> terms[w].amountAfterFee],
  paidFrom <- [w \in Workflows |-> Got(w, terms[w].from)],
  paidTo <- [w \in Workflows |-> Got(w, terms[w].to)]

\* Every step of the vault is a step of the promise or changes nothing in it: an escrow is
\* paid out once and completely, and a waiting ruling is realized as ruled or appealed.
KeepsPromise == Promise!PromiseSpec

================================================================================
