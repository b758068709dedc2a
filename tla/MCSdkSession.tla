---------------------------- MODULE MCSdkSession ----------------------------
(* One session and four requests of other clients on the same task.  Those *)
(* are interchangeable, so they are numbered in the order they start in.    *)
EXTENDS SdkSession

MCOwn == [s \in Steps |-> CASE s = "classify" -> 11 [] s = "evaluate" -> 12
                            [] s = "approve" -> 13 [] s = "mint" -> 14]

InOrder ==
    \A p \in 1..10 \cap Requests :
        pc[p] # "idle" => \A q \in 1..(p - 1) : pc[q] # "idle"

CONSTANTS s1, s2
=============================================================================
