--------------------------- MODULE MCPaperControl ---------------------------
(***************************************************************************)
(* The commands START, STOP, START in the queue, a process p1, its         *)
(* successor p2 under the same worker id, and a process p3 of its own.     *)
(* Two API threads enqueue them, so that they may commit out of order.     *)
(***************************************************************************)
EXTENDS PaperControl

CONSTANTS p1, p2, p3, i1, i2, api1, api2

MCIdOf == [p \in Processes |-> IF p = p3 THEN i2 ELSE i1]

MCActionOf == [c \in Commands |-> IF c = 2 THEN "stop" ELSE "start"]

\* The thread of the STOP is not the one of the STARTs.
MCClientOf == [c \in Commands |-> IF c = 2 THEN api2 ELSE api1]

\* What the queue is said to guarantee: at most one command is being processed.
\* False, because an earlier command may commit late.
CommandsNeverOverlap ==
  \A c, d \in Commands :
    command[c].status = "processing" /\ command[d].status = "processing" => c = d
=============================================================================
