---------------------------- MODULE MCKillSwitch ----------------------------
(***************************************************************************)
(* Two scopes that two submitters share, and two operators whose clocks    *)
(* may agree, so that both may build the same event or different ones of   *)
(* one time.                                                               *)
(***************************************************************************)
EXTENDS KillSwitch

CONSTANTS o1, o2, q1, q2, global, symbol

MCRank == [s \in Scopes |-> IF s = global THEN 1 ELSE 2]

MCScopesOf == [q \in Submitters |-> Scopes]
=============================================================================
