----------------------------- MODULE EscrowPromise -----------------------------
(***************************************************************************)
(* What an escrow promises its two parties, with no clock, no roles and no *)
(* ledgers: the sender's principal is held until it is paid out, all of it *)
(* and once; only the recipient is paid in parts; a ruling that waits is   *)
(* realized as it stands or taken away by an appeal, and nothing else ends *)
(* the escrow meanwhile.  Amounts that an action leaves open (the          *)
(* principal, a part, a share) are read off the step it takes.             *)
(***************************************************************************)
EXTENDS Integers

CONSTANT Escrows

VARIABLES
  stage,      \* of each escrow: where it is in its life
  ruling,     \* whom the ruling that waits would pay
  principal,  \* what is held for the parties
  paidFrom,   \* what the sender has got back
  paidTo      \* what the recipient has got

promiseVars == <<stage, ruling, principal, paidFrom, paidTo>>

Stages == {"none", "open", "disputed", "ruled", "closed"}
Sides == {"from", "to"}

Rest(w) == principal[w] - paidFrom[w] - paidTo[w]

PromiseInit ==
  /\ stage = [w \in Escrows |-> "none"]
  /\ ruling = [w \in Escrows |-> "none"]
  /\ principal = [w \in Escrows |-> 0]
  /\ paidFrom = [w \in Escrows |-> 0]
  /\ paidTo = [w \in Escrows |-> 0]

Open(w) ==
  /\ stage[w] = "none"
  /\ stage' = [stage EXCEPT ![w] = "open"]
  /\ principal'[w] \in Nat \ {0}
  /\ principal' = [principal EXCEPT ![w] = principal'[w]]
  /\ UNCHANGED <<ruling, paidFrom, paidTo>>

\* The recipient is paid a part; the last part closes the escrow.
PayPart(w) ==
  LET part == paidTo'[w] - paidTo[w]
  IN  /\ stage[w] = "open"
      /\ part \in 1 .. Rest(w)
      /\ paidTo' = [paidTo EXCEPT ![w] = @ + part]
      /\ stage' = [stage EXCEPT ![w] = IF part = Rest(w) THEN "closed" ELSE "open"]
      /\ UNCHANGED <<ruling, principal, paidFrom>>

Dispute(w) ==
  /\ stage[w] = "open"
  /\ stage' = [stage EXCEPT ![w] = "disputed"]
  /\ UNCHANGED <<ruling, principal, paidFrom, paidTo>>

Rule(w, side) ==
  /\ stage[w] = "disputed"
  /\ stage' = [stage EXCEPT ![w] = "ruled"]
  /\ ruling' = [ruling EXCEPT ![w] = side]
  /\ UNCHANGED <<principal, paidFrom, paidTo>>

Appeal(w) ==
  /\ stage[w] = "ruled"
  /\ stage' = [stage EXCEPT ![w] = "disputed"]
  /\ ruling' = [ruling EXCEPT ![w] = "none"]
  /\ UNCHANGED <<principal, paidFrom, paidTo>>

\* All that is left goes to one side: as ruled, if a ruling waits.
Pay(w, side) ==
  /\ \/ stage[w] \in {"open", "disputed"}
     \/ stage[w] = "ruled" /\ ruling[w] = side
  /\ stage' = [stage EXCEPT ![w] = "closed"]
  /\ ruling' = [ruling EXCEPT ![w] = "none"]
  /\ paidFrom' = [paidFrom EXCEPT ![w] = IF side = "from" THEN @ + Rest(w) ELSE @]
  /\ paidTo' = [paidTo EXCEPT ![w] = IF side = "to" THEN @ + Rest(w) ELSE @]
  /\ UNCHANGED principal

\* The parties agree to share the whole principal.
Split(w) ==
  LET share == paidFrom'[w]
  IN  /\ stage[w] \in {"open", "disputed"}
      /\ paidFrom[w] = 0 /\ paidTo[w] = 0
      /\ share \in 0 .. principal[w]
      /\ stage' = [stage EXCEPT ![w] = "closed"]
      /\ paidFrom' = [paidFrom EXCEPT ![w] = share]
      /\ paidTo' = [paidTo EXCEPT ![w] = principal[w] - share]
      /\ UNCHANGED <<ruling, principal>>

PromiseNext ==
  \E w \in Escrows :
    \/ Open(w) \/ PayPart(w) \/ Dispute(w) \/ Appeal(w) \/ Split(w)
    \/ \E side \in Sides : Rule(w, side) \/ Pay(w, side)

PromiseSpec == PromiseInit /\ [][PromiseNext]_promiseVars

================================================================================
