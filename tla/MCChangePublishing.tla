-------------------------- MODULE MCChangePublishing --------------------------
(* The processes of calls of runTick, for TLC: b1 is one of the process b,   *)
(* any other one of a.                                                       *)
EXTENDS ChangePublishing

CONSTANTS a, b, a1, b1

MCProcOf == [t \in Ticks |-> IF t = b1 THEN b ELSE a]
=============================================================================
