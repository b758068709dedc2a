---------------------------- MODULE GatewayLoop ----------------------------
(* Gateway as a broker process schedules it.  execute_tool is a coroutine   *)
(* that calls the synchronous driver, so from its first statement to the    *)
(* await of the adapter it keeps the event loop of its process, also while  *)
(* Postgres makes it wait for a row.  Operator handlers run on pool threads *)
(* but are dispatched by the loop.                                          *)
EXTENDS Gateway

CONSTANTS LoopOf      \* the event loop (one per process) serving each handler

OnLoop(e) == pc[e] \in {"lockCap", "lockTask"}
LoopFree(p) ==
    \A e \in Execs \ {p} : LoopOf[e] = LoopOf[p] => ~OnLoop(e)

LoopExecute(e) == LoopFree(e) /\ Execute(e)
LoopRevoke(r)  == (pc[r] = "idle" => LoopFree(r)) /\ Revoke(r)
LoopClose(o)   == (pc[o] = "idle" => LoopFree(o)) /\ Close(o)

LoopNext == \/ \E e \in Execs : LoopExecute(e)
            \/ \E r \in Revokers : LoopRevoke(r)
            \/ \E o \in Closers : LoopClose(o)
            \/ \E c \in Caps : Lapse(c)
            \/ Victim \/ OperatorFails \/ Crash

(* A handler whose thread or loop can run runs: Postgres grants a free lock *)
(* and breaks cycles it can see, adapters answer within their timeout.      *)
LoopFairSpec ==
    /\ Init /\ [][LoopNext]_vars
    /\ \A e \in Execs : WF_vars(LoopExecute(e))
    /\ \A r \in Revokers : WF_vars(LoopRevoke(r))
    /\ \A o \in Closers : WF_vars(LoopClose(o))
    /\ WF_vars(Victim)

\* gateway.py:162-350, test_postgres.py:519: every handler that has started
\* answers; waiting for row locks, for adapters and through deadlocks ends.
EveryHandlerAnswers ==
    \A p \in Procs : (pc[p] # "idle") ~> (pc[p] \in Answered)
=============================================================================
