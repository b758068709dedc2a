---------------------------- MODULE TaskMachine ----------------------------
(* The life of a task as the broker's documentation of its endpoints has    *)
(* it: each status is reached from the ones before it, an end is final, and *)
(* only an executing task has live capabilities.  TaskLifecycle implements  *)
(* it as long as the handlers of one task do not overlap.                   *)

VARIABLES status,  \* tasks.status, "absent" before the task is created
          live     \* some capability of the task is active
machineVars == <<status, live>>

Moves == {<<"absent", "created">>, <<"created", "pending_policy">>,
          <<"pending_policy", "approved">>, <<"pending_policy", "pending_approval">>,
          <<"pending_policy", "denied">>,
          <<"pending_approval", "approved">>, <<"pending_approval", "denied">>,
          <<"approved", "executing">>, <<"executing", "completed">>,
          <<"pending_approval", "failed">>, <<"approved", "failed">>,
          <<"executing", "failed">>}

Init == status = "absent" /\ live = FALSE

Move == /\ <<status, status'>> \in Moves
        /\ live' = (status' = "executing")

\* The last active capability is revoked.
Revoked == /\ status = "executing" /\ live
           /\ live' = FALSE
           /\ UNCHANGED status

Next == Move \/ Revoked

Spec == Init /\ [][Next]_machineVars
=============================================================================
