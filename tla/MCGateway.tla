----------------------------- MODULE MCGateway -----------------------------
(* Small instances of Gateway: one task whose two capabilities share its    *)
(* budget, so that requests contend for both rows.                          *)
EXTENDS GatewayLoop, TLC

CONSTANTS c1, c2, t1, e1, e2, e3, r1, o1, o2, k1

\* One process per execution, and the single process that docker-compose starts.
OwnLoops == [p \in Procs |-> IF p \in Execs THEN p ELSE r1]
OneLoop  == [p \in Procs |-> t1]

MCTaskOf == [c \in Caps |-> t1]
Symmetry == Permutations(Execs) \cup Permutations(Caps)
=============================================================================
