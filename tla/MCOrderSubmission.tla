------------------------- MODULE MCOrderSubmission -------------------------
(***************************************************************************)
(* A small instance for TLC: one key (keys meet only in the guard, which   *)
(* module KillSwitch looks into); two identical submissions of it, one on  *)
(* each host; a third on host h1 whose intent was rebuilt with another     *)
(* created_at, so with another request hash; and one recovery on each      *)
(* host.                                                                   *)
(***************************************************************************)
EXTENDS OrderSubmission, Naturals

CONSTANTS h1, h2, order1, a1, a2, a3, r1, r2, symbol

MCHostOf == [i \in Invocations |-> IF i \in {a2, r2} THEN h2 ELSE h1]

MCKeyOf == [i \in Invocations |-> order1]

MCHashOf == [i \in Invocations |-> IF i = a3 THEN 1 ELSE 0]

MCScopesOf == [key \in Keys |-> Scopes]
=============================================================================
