------------------------------ MODULE Gateway ------------------------------
(* POST /execute and the operator handlers that withdraw capabilities, as   *)
(* concurrent Postgres transactions (READ COMMITTED).  A handler is a       *)
(* process; the steps are split where it can wait for a row lock, for the   *)
(* adapter or for another transaction.  Rows of one handler that only the   *)
(* holder of its locks may write are read and written in one step.          *)
EXTENDS Naturals, FiniteSets

CONSTANTS Caps, Tasks, TaskOf, Keys, NoKey, MaxActions,
          Execs,      \* execute requests
          Revokers,   \* requests to revoke one capability
          Closers,    \* requests to complete or fail a task
          Free        \* the value of a lock nobody holds

Procs == Execs \cup Revokers \cup Closers

ASSUME GatewayAssumption ==
    /\ TaskOf \in [Caps -> Tasks]
    /\ MaxActions \in Nat
    /\ NoKey \notin Keys
    /\ IsFiniteSet(Execs)
    /\ Free \notin Procs
    /\ Execs \cap Revokers = {} /\ Execs \cap Closers = {}
    /\ Revokers \cap Closers = {}

VARIABLES capStatus,   \* capabilities.status
          callsUsed,   \* capabilities.calls_used
          taskStatus,  \* tasks.status
          invocations, \* tool_invocations: the requests with a committed row
          lapsed,      \* capabilities whose expires_at has passed
          capLock,     \* holder of each capability's row lock
          taskLock,    \* holder of each task's row lock
          call,        \* what each execute request asks for (never changes)
          target,      \* the capability each revoker names (never changes)
          closing,     \* the task and verdict of each closer (never changes)
          pc,          \* where each handler stands
          todo         \* active capabilities a closer still has to lock
db   == <<capStatus, callsUsed, taskStatus, invocations>>
asked == <<call, target, closing>>
vars == <<db, lapsed, capLock, taskLock, asked, pc, todo>>

(* "token": the JWT or the caller does not fit the request, found before    *)
(* any lock; "call": secret, claims, tool, scope or adapter, found under it *)
Defects == {"none", "token", "call"}
ExecRequests  == [cap : Caps, key : Keys \cup {NoKey}, defect : Defects]
CloseRequests == [task : Tasks, verdict : {"completed", "failed"}]

Places == {"idle", "lockCap", "lockTask", "calling", "flush", "lockCaps",
           "done", "replayed", "refused", "failed", "lost"}
Answered == {"done", "replayed", "refused", "failed", "lost"}

TypeOK ==
    /\ capStatus \in [Caps -> {"active", "revoked", "expired"}]
    /\ callsUsed \in [Caps -> Nat]
    /\ taskStatus \in [Tasks -> {"executing", "completed", "failed"}]
    /\ invocations \subseteq Execs
    /\ lapsed \subseteq Caps
    /\ capLock \in [Caps -> Execs \cup Closers \cup {Free}]
    /\ taskLock \in [Tasks -> Execs \cup Closers \cup {Free}]
    /\ call \in [Execs -> ExecRequests]
    /\ target \in [Revokers -> Caps]
    /\ closing \in [Closers -> CloseRequests]
    /\ pc \in [Procs -> Places]
    /\ todo \in [Closers -> SUBSET Caps]

Init ==
    /\ capStatus = [c \in Caps |-> "active"]
    /\ callsUsed = [c \in Caps |-> 0]
    /\ taskStatus = [t \in Tasks |-> "executing"]
    /\ invocations = {}
    /\ lapsed = {}
    /\ capLock = [c \in Caps |-> Free]
    /\ taskLock = [t \in Tasks |-> Free]
    /\ call \in [Execs -> ExecRequests]
    /\ target \in [Revokers -> Caps]
    /\ closing \in [Closers -> CloseRequests]
    /\ pc = [p \in Procs |-> "idle"]
    /\ todo = [o \in Closers |-> {}]
----------------------------------------------------------------------------
CapOf(e) == call[e].cap
TaskFor(e) == TaskOf[call[e].cap]

Goto(p, place) == pc' = [pc EXCEPT ![p] = place]

(* The end of a transaction, committed or rolled back, drops its row locks. *)
Release(p) ==
    /\ capLock' = [c \in Caps |-> IF capLock[c] = p THEN Free ELSE capLock[c]]
    /\ taskLock' = [t \in Tasks |-> IF taskLock[t] = p THEN Free ELSE taskLock[t]]

(* get_db closes the session without a commit: nothing was written. *)
RollBack(p, place) ==
    /\ Release(p)
    /\ Goto(p, place)
    /\ UNCHANGED <<db, lapsed, asked, todo>>

InvokedOn(c) == {e \in invocations : CapOf(e) = c}
InvokedFor(t) == {e \in invocations : TaskFor(e) = t}

\* Mutation: expires_at is compared only when the token is verified.
UsableByStatus(c) == capStatus[c] = "active"

Usable(c) == capStatus[c] = "active" /\ c \notin lapsed

\* Mutation: the test for a missing key is inverted.
ReplayedInverted(e) ==
    /\ call[e].key = NoKey
    /\ \E i \in invocations : CapOf(i) = CapOf(e) /\ call[i].key = call[e].key

Replayed(e) ==
    /\ call[e].key # NoKey
    /\ \E i \in invocations : CapOf(i) = CapOf(e) /\ call[i].key = call[e].key

\* Mutation: total_invocations > max_actions.
WithinLimitsOffByOne(e) ==
    /\ callsUsed[CapOf(e)] + 1 <= MaxActions
    /\ Cardinality(InvokedFor(TaskFor(e))) <= MaxActions

WithinLimits(e) ==
    /\ callsUsed[CapOf(e)] + 1 <= MaxActions
    /\ Cardinality(InvokedFor(TaskFor(e))) < MaxActions
----------------------------------------------------------------------------
(* execute_tool_call *)

\* Ownership and token checks, before any row is locked.
Submit(e) ==
    /\ pc[e] = "idle"
    /\ Goto(e, IF call[e].defect = "token" \/ CapOf(e) \in lapsed
               THEN "refused" ELSE "lockCap")
    /\ UNCHANGED <<db, lapsed, capLock, taskLock, asked, todo>>

\* Mutation: the capability is read without FOR UPDATE.
LockCapPlainRead(e) ==
    /\ pc[e] = "lockCap"
    /\ Goto(e, IF Usable(CapOf(e)) THEN "lockTask" ELSE "refused")
    /\ UNCHANGED <<db, lapsed, capLock, taskLock, asked, todo>>

\* SELECT ... FOR UPDATE on the capability, then _validate_capability.
LockCap(e) ==
    /\ pc[e] = "lockCap"
    /\ capLock[CapOf(e)] = Free
    /\ IF Usable(CapOf(e))
       THEN /\ capLock' = [capLock EXCEPT ![CapOf(e)] = e]
            /\ Goto(e, "lockTask")
       ELSE /\ Goto(e, "refused")
            /\ UNCHANGED capLock
    /\ UNCHANGED <<db, lapsed, taskLock, asked, todo>>

\* The task row is free for e, which already holds its capability's row.
AtTask(e) == pc[e] = "lockTask" /\ taskLock[TaskFor(e)] = Free

Replay(e) ==
    /\ AtTask(e)
    /\ call[e].defect = "none"
    /\ Replayed(e)
    /\ RollBack(e, "replayed")

\* Mutation: a rejected request leaves its transaction open.
RefuseKeepingLocks(e) ==
    /\ AtTask(e)
    /\ call[e].defect = "call" \/ (~Replayed(e) /\ ~WithinLimits(e))
    /\ Goto(e, "refused")
    /\ UNCHANGED <<db, lapsed, capLock, taskLock, asked, todo>>

Refuse(e) ==
    /\ AtTask(e)
    /\ \/ call[e].defect = "call"
       \/ ~Replayed(e) /\ ~WithinLimits(e)
    /\ RollBack(e, "refused")

\* Mutation: the task is read without FOR UPDATE.
CallPlainRead(e) ==
    /\ AtTask(e) /\ call[e].defect = "none"
    /\ ~Replayed(e) /\ WithinLimits(e)
    /\ Goto(e, "calling")
    /\ UNCHANGED <<db, lapsed, capLock, taskLock, asked, todo>>

\* All checks passed: the adapter is called with both rows still locked.
Call(e) ==
    /\ AtTask(e)
    /\ call[e].defect = "none"
    /\ ~Replayed(e)
    /\ WithinLimits(e)
    /\ taskLock' = [taskLock EXCEPT ![TaskFor(e)] = e]
    /\ Goto(e, "calling")
    /\ UNCHANGED <<db, lapsed, capLock, asked, todo>>

\* The adapter answers; invocation, counter and audit event commit together.
Record(e) ==
    /\ pc[e] = "calling"
    /\ invocations' = invocations \cup {e}
    /\ callsUsed' = [callsUsed EXCEPT ![CapOf(e)] = @ + 1]
    /\ Release(e)
    /\ Goto(e, "done")
    /\ UNCHANGED <<capStatus, taskStatus, lapsed, asked, todo>>

\* Mutation: the increment is committed before the adapter is called.
LoseCounted(e) ==
    /\ pc[e] = "calling"
    /\ callsUsed' = [callsUsed EXCEPT ![CapOf(e)] = @ + 1]
    /\ Release(e)
    /\ Goto(e, "lost")
    /\ UNCHANGED <<capStatus, taskStatus, invocations, lapsed, asked, todo>>

\* The adapter raises, or the audit insert meets its unique chain_seq.
Lose(e) ==
    /\ pc[e] = "calling"
    /\ RollBack(e, "lost")
----------------------------------------------------------------------------
(* revoke_capability: a plain read, then an UPDATE by primary key that      *)
(* waits for the row lock; the lock is held to the commit and nothing but   *)
(* the audit tail is waited for in between.                                 *)

RevokeRead(r) ==
    /\ pc[r] = "idle"
    /\ Goto(r, IF capStatus[target[r]] = "active" THEN "flush" ELSE "refused")
    /\ UNCHANGED <<db, lapsed, capLock, taskLock, asked, todo>>

RevokeCommit(r) ==
    /\ pc[r] = "flush"
    /\ capLock[target[r]] = Free
    /\ capStatus' = [capStatus EXCEPT ![target[r]] = "revoked"]
    /\ Goto(r, "done")
    /\ UNCHANGED <<callsUsed, taskStatus, invocations, lapsed,
                   capLock, taskLock, asked, todo>>
----------------------------------------------------------------------------
(* complete_task and fail_task *)

CloseRead(o) ==
    /\ pc[o] = "idle"
    /\ Goto(o, IF taskStatus[closing[o].task] = "executing" THEN "flush" ELSE "refused")
    /\ UNCHANGED <<db, lapsed, capLock, taskLock, asked, todo>>

\* Mutation: the capability query skips locked rows.
CloseFlushSkipLocked(o) ==
    /\ pc[o] = "flush"
    /\ taskLock[closing[o].task] = Free
    /\ taskLock' = [taskLock EXCEPT ![closing[o].task] = o]
    /\ todo' = [todo EXCEPT ![o] = {c \in Caps : /\ TaskOf[c] = closing[o].task
                                               /\ capStatus[c] = "active"
                                               /\ capLock[c] = Free}]
    /\ Goto(o, "lockCaps")
    /\ UNCHANGED <<db, lapsed, capLock, asked>>

\* The capability query flushes UPDATE tasks first, then lists active ones.
CloseFlush(o) ==
    /\ pc[o] = "flush"
    /\ taskLock[closing[o].task] = Free
    /\ taskLock' = [taskLock EXCEPT ![closing[o].task] = o]
    /\ todo' = [todo EXCEPT ![o] =
            {c \in Caps : TaskOf[c] = closing[o].task /\ capStatus[c] = "active"}]
    /\ Goto(o, "lockCaps")
    /\ UNCHANGED <<db, lapsed, capLock, asked>>

\* The audit query flushes the capability updates, one row lock at a time.
CloseLockCap(o) ==
    /\ pc[o] = "lockCaps"
    /\ \E c \in todo[o] :
        /\ capLock[c] = Free
        /\ capLock' = [capLock EXCEPT ![c] = o]
        /\ todo' = [todo EXCEPT ![o] = @ \ {c}]
    /\ UNCHANGED <<db, lapsed, taskLock, asked, pc>>

\* Mutation: the task's new status is written to its capabilities too.
CloseCommitVerdict(o) ==
    /\ pc[o] = "lockCaps" /\ todo[o] = {}
    /\ taskStatus' = [taskStatus EXCEPT ![closing[o].task] = closing[o].verdict]
    /\ capStatus' = [c \in Caps |->
          IF capLock[c] = o THEN closing[o].verdict ELSE capStatus[c]]
    /\ Release(o)
    /\ Goto(o, "done")
    /\ UNCHANGED <<callsUsed, invocations, lapsed, asked, todo>>

CloseCommit(o) ==
    /\ pc[o] = "lockCaps"
    /\ todo[o] = {}
    /\ taskStatus' = [taskStatus EXCEPT ![closing[o].task] = closing[o].verdict]
    /\ capStatus' = [c \in Caps |->
          IF capLock[c] = o
          THEN IF closing[o].verdict = "completed" THEN "expired" ELSE "revoked"
          ELSE capStatus[c]]
    /\ Release(o)
    /\ Goto(o, "done")
    /\ UNCHANGED <<callsUsed, invocations, lapsed, asked, todo>>
----------------------------------------------------------------------------
(* Postgres aborts one transaction of a waits-for cycle: an execution with  *)
(* its capability waiting for the task, a closer with the task waiting for  *)
(* that capability.                                                         *)
Deadlocked(e, o) ==
    /\ pc[e] = "lockTask" /\ taskLock[TaskFor(e)] = o
    /\ pc[o] = "lockCaps" /\ CapOf(e) \in todo[o]

AbortClose(o) ==
    /\ Release(o)
    /\ Goto(o, "failed")
    /\ todo' = [todo EXCEPT ![o] = {}]
    /\ UNCHANGED <<db, lapsed, asked>>

Victim == \E e \in Execs, o \in Closers :
    /\ Deadlocked(e, o)
    /\ RollBack(e, "failed") \/ AbortClose(o)

\* An operator's audit insert meets its unique chain_seq: all rolled back.
OperatorFails ==
    \/ \E r \in Revokers : pc[r] = "flush" /\ RollBack(r, "failed")
    \/ \E o \in Closers : pc[o] = "lockCaps" /\ todo[o] = {} /\ AbortClose(o)

(* The broker process dies: Postgres rolls back what was in flight.         *)
Crash ==
    /\ pc' = [p \in Procs |->
          IF pc[p] = "calling" THEN "lost"
          ELSE IF pc[p] \in Answered \cup {"idle"} THEN pc[p] ELSE "failed"]
    /\ capLock' = [c \in Caps |-> Free]
    /\ taskLock' = [t \in Tasks |-> Free]
    /\ todo' = [o \in Closers |-> {}]
    /\ UNCHANGED <<db, lapsed, asked>>

\* Time passes expires_at; nothing writes the status until a handler does.
Lapse(c) ==
    /\ c \notin lapsed
    /\ lapsed' = lapsed \cup {c}
    /\ UNCHANGED <<db, capLock, taskLock, asked, pc, todo>>
----------------------------------------------------------------------------
Execute(e) == Submit(e) \/ LockCap(e) \/ Replay(e) \/ Refuse(e) \/ Call(e)
                \/ Record(e) \/ Lose(e)
Revoke(r)  == RevokeRead(r) \/ RevokeCommit(r)
Close(o)   == CloseRead(o) \/ CloseFlush(o) \/ CloseLockCap(o) \/ CloseCommit(o)

Next == \/ \E e \in Execs : Execute(e)
        \/ \E r \in Revokers : Revoke(r)
        \/ \E o \in Closers : Close(o)
        \/ \E c \in Caps : Lapse(c)
        \/ Victim \/ OperatorFails \/ Crash

Spec == Init /\ [][Next]_vars
----------------------------------------------------------------------------
(* Properties *)

Ran(e) == pc[e] \in {"calling", "done", "lost"}   \* the adapter was called

\* Calls of a task that hold, or have consumed, a unit of its budget.
Charged(t) == {e \in Execs : TaskFor(e) = t /\ (pc[e] = "calling" \/ e \in invocations)}

\* gateway.py:272-285: however requests interleave, the calls recorded for a
\* task and the one in its adapter together never exceed max_actions.
BudgetRespected == \A t \in Tasks : Cardinality(Charged(t)) <= MaxActions

\* gateway.py:264-265: calls_used is exactly the number of committed
\* invocations of the capability; no increment is lost or left behind.
CallsUsedExact == \A c \in Caps : callsUsed[c] = Cardinality(InvokedOn(c))

\* gateway.py:244-262: among recorded calls and the ones in flight, a key
\* is used once per capability, although the index on it is not unique.
KeyChargedOnce ==
    \A e1, e2 \in Execs :
        /\ e1 # e2 /\ CapOf(e1) = CapOf(e2)
        /\ call[e1].key = call[e2].key /\ call[e1].key # NoKey
        => ~(/\ pc[e1] = "calling" \/ e1 \in invocations
             /\ pc[e2] = "calling" \/ e2 \in invocations)

\* gateway.py:162-168: once a revocation or a closure has committed, no call
\* under that capability is in the adapter or can still be recorded.
WithdrawalIsBarrier ==
    \A e \in Execs : pc[e] = "calling" => capStatus[CapOf(e)] = "active"

\* routes.py:524-532, 559-567: a task that was completed or failed has no
\* active capability left, whatever was revoked or executed meanwhile.
ClosedTaskIsDead ==
    \A c \in Caps : taskStatus[TaskOf[c]] # "executing" => capStatus[c] # "active"

\* gateway.py:162-168, 184-189: expires_at is compared before the task row is
\* waited for, so a call may reach its adapter late; but once a capability has
\* lapsed no further request gets past its check, and one at most still is.
Validated(c) == {e \in Execs : CapOf(e) = c /\ pc[e] \in {"lockTask", "calling"}}
LapsedDrains ==
    [][\A c \in lapsed : /\ Validated(c)' \subseteq Validated(c)
                         /\ \A e1, e2 \in Validated(c) : e1 = e2]_vars

\* The handlers that hold a row p cannot go on without.
WaitsFor(p) == {q \in Procs :
    \/ /\ p \in Execs
       /\ \/ pc[p] = "lockCap" /\ capLock[CapOf(p)] = q
          \/ pc[p] = "lockTask" /\ taskLock[TaskFor(p)] = q
    \/ /\ p \in Revokers
       /\ pc[p] = "flush" /\ capLock[target[p]] = q
    \/ /\ p \in Closers
       /\ pc[p] = "flush" /\ taskLock[closing[p].task] = q
    \/ /\ p \in Closers /\ pc[p] = "lockCaps"
       /\ \A c \in todo[p] : capLock[c] # Free
       /\ \E c \in todo[p] : capLock[c] = q}

\* p waits for nobody, or Postgres sees its cycle and aborts one side of it.
GoesOn(p) ==
    \/ pc[p] \notin Answered \cup {"idle"} /\ WaitsFor(p) = {}
    \/ \E e \in Execs, o \in Closers : p \in {e, o} /\ Deadlocked(e, o)

\* gateway.py:184-189, routes.py:522-532: capability and task rows are locked
\* in opposite orders, yet whoever waits for a row waits for a handler that
\* goes on, or for one that itself waits for such a handler: there is no
\* cycle of waits but the ones Postgres breaks, and no row stays locked by a
\* handler that has answered.
WaitsEnd ==
    \A p \in Procs : \A q \in WaitsFor(p) :
        GoesOn(p) \/ GoesOn(q) \/ \E x \in WaitsFor(q) : GoesOn(x)

\* The gateway implements the ledger: committed invocations are its charges.
Ledger == INSTANCE CapabilityLedger WITH
    Ids <- Execs,
    live <- {c \in Caps : capStatus[c] = "active"},
    charges <- {[id |-> e, cap |-> CapOf(e), key |-> call[e].key] : e \in invocations}
ImplementsLedger == Ledger!Spec
----------------------------------------------------------------------------
(* What the repository says and the code does not do *)

\* README.md:164: every call that reached an adapter is recorded when answered.
EveryCallRecorded ==
    \A e \in Execs : Ran(e) /\ pc[e] \in Answered => e \in invocations

=============================================================================
