----------------------------- MODULE ToolClient -----------------------------
(* A tool call seen from its two ends: TaskHandle.execute in the agent,     *)
(* which may give up on an answer and try again with the same key, and the  *)
(* work that the adapter sets going outside the broker (a command, a        *)
(* request to a service), which outlives the call when the adapter times    *)
(* out or the broker dies.                                                  *)
EXTENDS GatewayLoop

VARIABLES work,     \* what became of the work of each request
          stored    \* tool_invocations.success
toolVars == <<work, stored>>

ToolTypeOK ==
    /\ work \in [Execs -> {"none", "running", "ended_well", "ended_badly"}]
    /\ stored \in [Execs -> {"none", "success", "failure"}]

ToolInit ==
    /\ Init
    /\ work = [e \in Execs |-> "none"]
    /\ stored = [e \in Execs |-> "none"]
----------------------------------------------------------------------------
(* The adapter *)

\* The adapter knows no such action, or its arguments break a rule: it
\* answers with a failure of its own and does nothing.
RejectArguments(e) == Call(e) /\ UNCHANGED toolVars

StartWork(e) ==
    /\ Call(e)
    /\ work' = [work EXCEPT ![e] = "running"]
    /\ UNCHANGED stored

\* Exit code 0, or a status below 400; with or without someone waiting for it.
EndWork(e) ==
    /\ work[e] = "running"
    /\ \E end \in {"ended_well", "ended_badly"} : work' = [work EXCEPT ![e] = end]
    /\ UNCHANGED <<vars, stored>>

\* Mutation: only a bad end counts as a failure, a time-out does not.
SuccessOfOptimistic(e) == IF work[e] = "ended_badly" THEN {"failure"} ELSE {"success"}

\* Mutation: a time-out is an outcome of its own.
SuccessOfThreeWay(e) ==
    CASE work[e] = "ended_well" -> {"success"}
      [] work[e] = "running" -> {"timeout"}
      [] OTHER -> {"failure"}

(* AdapterResult.success.  The work may end well after the adapter has      *)
(* timed out and before its failure is recorded.                            *)
SuccessOf(e) == IF work[e] = "ended_well" THEN {"success", "failure"} ELSE {"failure"}

RecordCall(e) ==
    /\ Record(e)
    /\ \E s \in SuccessOf(e) : stored' = [stored EXCEPT ![e] = s]
    /\ UNCHANGED work

\* Mutation: the limits are looked at when the adapter has been called.
RefuseCallLate(e) ==
    /\ Refuse(e)
    /\ work' = [work EXCEPT ![e] = "running"]
    /\ UNCHANGED stored

RefuseCall(e) == Refuse(e) /\ UNCHANGED toolVars
----------------------------------------------------------------------------
(* The agent *)

\* The recorded call whose answer request e gets, its own or an earlier one's.
Original(e) ==
    {i \in invocations : IF pc[e] = "done" THEN i = e
                         ELSE CapOf(i) = CapOf(e) /\ call[i].key = call[e].key}

(* What execute makes of the broker's answer, unless it gave up before:     *)
(* success true returns the result, false raises ExecutionError with the    *)
(* code adapter_error; another status raises CapabilityError or             *)
(* ExecutionError with the broker's code, or whatever resp.json() makes of  *)
(* the body of a 500.                                                       *)
Heard(e) ==
    CASE pc[e] \in {"done", "replayed"} ->
            {IF stored[i] = "success" THEN "result" ELSE "adapter_error" : i \in Original(e)}
      [] pc[e] = "refused" -> {"refusal"}
      [] pc[e] \in {"failed", "lost"} -> {"exception"}
      [] OTHER -> {}
----------------------------------------------------------------------------
Broker(e) ==
    /\ LoopFree(e)
    /\ \/ (Submit(e) \/ LockCap(e) \/ Replay(e) \/ Lose(e)) /\ UNCHANGED toolVars
       \/ RefuseCall(e) \/ RejectArguments(e) \/ StartWork(e) \/ RecordCall(e)

Operators ==
    /\ \/ \E r \in Revokers : LoopRevoke(r)
       \/ \E o \in Closers : LoopClose(o)
       \/ \E c \in Caps : Lapse(c)
       \/ Victim \/ OperatorFails \/ Crash
    /\ UNCHANGED toolVars

ToolNext == Operators \/ \E e \in Execs : Broker(e) \/ EndWork(e)

(* As in LoopFairSpec; nothing makes the work end.                          *)
ToolFairSpec ==
    /\ ToolInit /\ [][ToolNext]_<<vars, toolVars>>
    /\ \A e \in Execs : WF_<<vars, toolVars>>(Broker(e))
    /\ \A r \in Revokers : WF_vars(LoopRevoke(r))
    /\ \A o \in Closers : WF_vars(LoopClose(o))
    /\ WF_vars(Victim)
----------------------------------------------------------------------------
(* Properties *)

\* client.py:138-155, gateway.py:245-262, 309-334: a result that execute
\* returns, be it that of a retry, is one of a recorded call, made with this
\* capability and key, whose work ended well.
ResultIsReal ==
    \A e \in Execs : "result" \in Heard(e) =>
        \E i \in invocations :
            /\ i = e \/ (CapOf(i) = CapOf(e) /\ call[i].key = call[e].key /\ call[i].key # NoKey)
            /\ stored[i] = "success" /\ work[i] = "ended_well"

\* gateway.py:245-262: who calls twice with one key is never told first that
\* the tool failed and then that it did not, or the other way round.
RetriesAgree ==
    \A e1, e2 \in Execs :
        /\ CapOf(e1) = CapOf(e2) /\ call[e1].key = call[e2].key /\ call[e1].key # NoKey
        => ~("result" \in Heard(e1) /\ "adapter_error" \in Heard(e2))

\* shell.py:135-166, http.py:121-168, client.py:143-145: work that goes on
\* when its call has ended belongs to a call that failed or was lost; a call
\* that execute reports as refused has not set any work going.
WorkAccounted ==
    \A e \in Execs :
        /\ work[e] = "running" /\ pc[e] # "calling" => stored[e] = "failure" \/ pc[e] = "lost"
        /\ "refusal" \in Heard(e) => work[e] = "none"
=============================================================================
