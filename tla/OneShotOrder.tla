--------------------------- MODULE OneShotOrder ---------------------------
(***************************************************************************)
(* What order submission promises, with every mechanism left out: for each *)
(* idempotency key at most one call makes the broker place an order, and   *)
(* the durable outcome recorded for the key only moves forward, reaching   *)
(* "completed" only for a key whose order exists.                          *)
(*                                                                         *)
(* This is the contract of risk/submission.py ("Submit verified PAPER      *)
(* evidence once, or fail without automatic retry") that module            *)
(* OrderSubmission is shown to implement.                                  *)
(***************************************************************************)

CONSTANTS Keys,      \* idempotency keys
          Calls,     \* invocations of OrderSubmissionService.submit
          KeyOf      \* the key each invocation submits

VARIABLES placed,    \* the calls whose broker.submit placed an order
          outcome    \* per key: "none", "unknown" or "completed"

vars == <<placed, outcome>>

HasOrder(k) == \E c \in placed : KeyOf[c] = k

Init ==
  /\ placed = {}
  /\ outcome = [k \in Keys |-> "none"]

\* A call places the first, and only, order of its key.
Place(c) ==
  /\ ~HasOrder(KeyOf[c])
  /\ outcome[KeyOf[c]] # "completed"
  /\ placed' = placed \cup {c}
  /\ UNCHANGED outcome

\* The order of the key is confirmed; the outcome is final.
Confirm(k) ==
  /\ outcome[k] # "completed"
  /\ HasOrder(k)
  /\ outcome' = [outcome EXCEPT ![k] = "completed"]
  /\ UNCHANGED placed

\* Recovery gives up on an answer and leaves the key to an operator.
Doubt(k) ==
  /\ outcome[k] = "none"
  /\ outcome' = [outcome EXCEPT ![k] = "unknown"]
  /\ UNCHANGED placed

Next ==
  \/ \E c \in Calls : Place(c)
  \/ \E k \in Keys : Confirm(k) \/ Doubt(k)

Spec == Init /\ [][Next]_vars
=============================================================================
