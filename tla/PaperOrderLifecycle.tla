------------------------ MODULE PaperOrderLifecycle ------------------------
(***************************************************************************)
(* What one PAPER order promises, whatever hosts, retries and crashes are  *)
(* behind it: it is submitted once, filled up to its volume in positive    *)
(* amounts, and ended at most once.  Each step is one whole operation of   *)
(* DeterministicPaperAdapter (execution/paper.py); module DurablePaper is  *)
(* shown to implement it.                                                  *)
(***************************************************************************)
EXTENDS Naturals

CONSTANT Volume    \* the requested volume, in lots

VARIABLES status,  \* "none" before the order is on record
          filled

vars == <<status, filled>>

Open == {"accepted", "partial"}

Init == status = "none" /\ filled = 0

\* A submit ends expired, rejected, or accepted with its first fill.
Submit ==
  /\ status = "none"
  /\ \/ status' \in {"expired", "rejected", "accepted"} /\ filled' = 0
     \/ status' = "partial" /\ filled' \in 1..(Volume - 1)
     \/ status' = "filled" /\ filled' = Volume

Fill ==
  /\ status \in Open
  /\ filled' \in (filled + 1)..Volume
  /\ status' = IF filled' = Volume THEN "filled" ELSE "partial"

End ==
  /\ status \in Open
  /\ status' \in {"cancelled", "expired"}
  /\ UNCHANGED filled

Next == Submit \/ Fill \/ End

Spec == Init /\ [][Next]_vars
=============================================================================
