---------------------------- MODULE MCToolClient ----------------------------
(* One capability, called twice, with one key or without.                   *)
EXTENDS ToolClient, TLC

CONSTANTS c1, t1, e1, e2, r1, o1, k1

OwnLoops == [p \in Procs |-> IF p \in Execs THEN p ELSE r1]
MCTaskOf == [c \in Caps |-> t1]
=============================================================================
