-------------------------- MODULE MCTaskLifecycle --------------------------
(* Small instances of TaskLifecycle.  Requests are interchangeable, so they *)
(* are numbered in the order in which they start: that cuts the symmetric   *)
(* states without the cost of sorting a state under every permutation.      *)
EXTENDS TaskLifecycle, TLC

CONSTANTS s1, s2

InOrder ==
    \A p \in Requests : pc[p] # "idle" => \A q \in Requests : q < p => pc[q] # "idle"
=============================================================================
