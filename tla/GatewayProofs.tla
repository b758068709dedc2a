--------------------------- MODULE GatewayProofs ---------------------------
(* Proofs, for every set of capabilities, requests and operators and every  *)
(* budget, of the safety properties of Gateway.                             *)
EXTENDS Gateway, FiniteSetTheorems, TLAPS

\* The rows and requests a broker starts from have their types.
LEMMA TypeInit == Init => TypeOK
  BY GatewayAssumption DEF Init, TypeOK, Procs, Places, ExecRequests, CloseRequests

\* Ending a transaction leaves each row lock with a handler or free.
LEMMA ReleaseType ==
  ASSUME TypeOK, NEW p \in Procs, Release(p)
  PROVE  /\ capLock' \in [Caps -> Execs \cup Closers \cup {Free}]
         /\ taskLock' \in [Tasks -> Execs \cup Closers \cup {Free}]
  BY DEF TypeOK, Release

\* A handler only moves to a place of execute_tool_call or a closer.
LEMMA GotoType ==
  ASSUME TypeOK, NEW p \in Procs, NEW place \in Places, Goto(p, place)
  PROVE  pc' \in [Procs -> Places]
  BY DEF TypeOK, Goto

\* get_db closing a session (session.py:42-49) breaks no type.
LEMMA RollBackType ==
  ASSUME TypeOK, NEW p \in Procs, NEW place \in Places, RollBack(p, place)
  PROVE  TypeOK'
  <1>1. /\ capLock' \in [Caps -> Execs \cup Closers \cup {Free}]
        /\ taskLock' \in [Tasks -> Execs \cup Closers \cup {Free}]
        /\ pc' \in [Procs -> Places]
    BY ReleaseType, GotoType DEF RollBack
  <1> QED  BY <1>1 DEF TypeOK, RollBack, db, asked

\* A closer rolled back by Postgres breaks no type.
LEMMA AbortCloseType ==
  ASSUME TypeOK, NEW o \in Closers, AbortClose(o)
  PROVE  TypeOK'
  <1>1. o \in Procs /\ "failed" \in Places
    BY DEF Procs, Places
  <1>2. /\ capLock' \in [Caps -> Execs \cup Closers \cup {Free}]
        /\ taskLock' \in [Tasks -> Execs \cup Closers \cup {Free}]
        /\ pc' \in [Procs -> Places]
    BY <1>1, ReleaseType, GotoType DEF AbortClose
  <1>3. todo' \in [Closers -> SUBSET Caps]
    BY DEF TypeOK, AbortClose
  <1> QED  BY <1>2, <1>3 DEF TypeOK, AbortClose, db, asked

\* The capability a request names, and its task, exist.
LEMMA CallType ==
  ASSUME TypeOK, NEW e \in Execs
  PROVE  CapOf(e) \in Caps /\ TaskFor(e) \in Tasks
  BY GatewayAssumption DEF TypeOK, ExecRequests, CapOf, TaskFor

\* Every step of every handler keeps the types.
LEMMA TypeStep == TypeOK /\ [Next]_vars => TypeOK'
  <1> SUFFICES ASSUME TypeOK, [Next]_vars PROVE TypeOK'
    OBVIOUS
  <1> USE DEF db, asked
  <1>e. ASSUME NEW e \in Execs, Execute(e) PROVE TypeOK'
    <2>0. e \in Procs /\ CapOf(e) \in Caps /\ TaskFor(e) \in Tasks
      BY CallType DEF Procs
    <2>1. CASE Submit(e)
      BY <2>0, <2>1 DEF Submit, Goto, TypeOK, Places
    <2>2. CASE LockCap(e)
      BY <2>0, <2>2 DEF LockCap, Goto, TypeOK, Places
    <2>3. CASE Replay(e)
      BY <2>0, <2>3, RollBackType DEF Replay, Places
    <2>4. CASE Refuse(e)
      BY <2>0, <2>4, RollBackType DEF Refuse, Places
    <2>5. CASE Call(e)
      BY <2>0, <2>5 DEF Call, Goto, TypeOK, Places
    <2>6. CASE Record(e)
      <3>1. /\ capLock' \in [Caps -> Execs \cup Closers \cup {Free}]
            /\ taskLock' \in [Tasks -> Execs \cup Closers \cup {Free}]
        BY <2>0, <2>6, ReleaseType DEF Record
      <3>2. pc' \in [Procs -> Places]
        BY <2>0, <2>6 DEF Record, Goto, TypeOK, Places
      <3>3. callsUsed' \in [Caps -> Nat] /\ invocations' \subseteq Execs
        BY <2>0, <2>6 DEF Record, TypeOK
      <3> QED  BY <2>6, <3>1, <3>2, <3>3 DEF Record, TypeOK
    <2>7. CASE Lose(e)
      BY <2>0, <2>7, RollBackType DEF Lose, Places
    <2> QED  BY <1>e, <2>1, <2>2, <2>3, <2>4, <2>5, <2>6, <2>7 DEF Execute
  <1>r. ASSUME NEW r \in Revokers, Revoke(r) PROVE TypeOK'
    <2>0. r \in Procs
      BY DEF Procs
    <2>1. CASE RevokeRead(r)
      BY <2>0, <2>1 DEF RevokeRead, Goto, TypeOK, Places
    <2>2. CASE RevokeCommit(r)
      BY <2>0, <2>2 DEF RevokeCommit, Goto, TypeOK, Places
    <2> QED  BY <1>r, <2>1, <2>2 DEF Revoke
  <1>o. ASSUME NEW o \in Closers, Close(o) PROVE TypeOK'
    <2>0. o \in Procs
      BY DEF Procs
    <2>1. CASE CloseRead(o)
      BY <2>0, <2>1 DEF CloseRead, Goto, TypeOK, Places
    <2>2. CASE CloseFlush(o)
      BY <2>0, <2>2 DEF CloseFlush, Goto, TypeOK, Places, CloseRequests
    <2>3. CASE CloseLockCap(o)
      BY <2>0, <2>3 DEF CloseLockCap, TypeOK
    <2>4. CASE CloseCommit(o)
      <3>1. /\ capLock' \in [Caps -> Execs \cup Closers \cup {Free}]
            /\ taskLock' \in [Tasks -> Execs \cup Closers \cup {Free}]
        BY <2>0, <2>4, ReleaseType DEF CloseCommit
      <3>2. pc' \in [Procs -> Places]
        BY <2>0, <2>4 DEF CloseCommit, Goto, TypeOK, Places
      <3>3. /\ capStatus' \in [Caps -> {"active", "revoked", "expired"}]
            /\ taskStatus' \in [Tasks -> {"executing", "completed", "failed"}]
        BY <2>4 DEF CloseCommit, TypeOK, CloseRequests
      <3> QED  BY <2>4, <3>1, <3>2, <3>3 DEF CloseCommit, TypeOK
    <2> QED  BY <1>o, <2>1, <2>2, <2>3, <2>4 DEF Close
  <1>l. ASSUME NEW c \in Caps, Lapse(c) PROVE TypeOK'
    BY <1>l DEF Lapse, TypeOK
  <1>v. CASE Victim
    <2> PICK e \in Execs, o \in Closers : RollBack(e, "failed") \/ AbortClose(o)
      BY <1>v DEF Victim
    <2> QED  BY RollBackType, AbortCloseType DEF Procs, Places
  <1>f. CASE OperatorFails
    BY <1>f, RollBackType, AbortCloseType DEF OperatorFails, Procs, Places
  <1>c. CASE Crash
    BY <1>c DEF Crash, TypeOK, Places
  <1>s. CASE UNCHANGED vars
    BY <1>s DEF vars, TypeOK
  <1> QED  BY <1>e, <1>r, <1>o, <1>l, <1>v, <1>f, <1>c, <1>s DEF Next

\* Every variable keeps its type (the statuses of schemas.py, Postgres rows).
THEOREM TypeCorrect == Spec => []TypeOK
  BY TypeInit, TypeStep, PTL DEF Spec
----------------------------------------------------------------------------
(* What the row locks guarantee.  A request that has passed its capability  *)
(* holds that row and the row is still active; one in its adapter holds the *)
(* task row as well; only an answered request has an invocation; and a      *)
(* closer that has the task row has locked, or still has to lock, whatever  *)
(* capability of the task is active.                                        *)
HoldsCap ==
    \A e \in Execs : pc[e] \in {"lockTask", "calling"} =>
        capLock[CapOf(e)] = e /\ capStatus[CapOf(e)] = "active"
HoldsTask == \A e \in Execs : pc[e] = "calling" => taskLock[TaskFor(e)] = e
RecordedDone == \A e \in invocations : pc[e] = "done"
Sweeping ==
    \A o \in Closers : pc[o] = "lockCaps" =>
        \A c \in Caps : TaskOf[c] = closing[o].task =>
            c \in todo[o] \/ capLock[c] = o \/ capStatus[c] # "active"
LockInv == HoldsCap /\ HoldsTask /\ RecordedDone /\ Sweeping /\ ClosedTaskIsDead

\* Nothing is locked, called or closed at the start.
LEMMA LockInit == Init => LockInv
  BY GatewayAssumption DEF Init, LockInv, HoldsCap, HoldsTask, RecordedDone,
     Sweeping, ClosedTaskIsDead, Procs

\* Ending one transaction disturbs nothing another one relies on.
LEMMA RollBackLocks ==
  ASSUME TypeOK, LockInv, NEW p \in Procs, NEW place \in Places,
         pc[p] \notin {"done"}, place \notin {"lockTask", "calling", "lockCaps"},
         Release(p), Goto(p, place), UNCHANGED <<db, asked>>,
         \A o \in Closers \ {p} : todo'[o] = todo[o]
  PROVE  LockInv'
  <1> USE GatewayAssumption DEF db, asked, TypeOK, Procs, Release, Goto, CapOf, TaskFor
  <1>1. HoldsCap' /\ HoldsTask'
    BY CallType DEF LockInv, HoldsCap, HoldsTask
  <1>2. RecordedDone'
    BY DEF LockInv, RecordedDone
  <1>3. Sweeping'
    BY DEF LockInv, Sweeping
  <1>4. ClosedTaskIsDead'
    BY DEF LockInv, ClosedTaskIsDead
  <1> QED  BY <1>1, <1>2, <1>3, <1>4 DEF LockInv

\* Every step of every handler keeps the lock discipline.
LEMMA LockStep == TypeOK /\ LockInv /\ [Next]_vars => LockInv'
  <1> SUFFICES ASSUME TypeOK, LockInv, [Next]_vars PROVE LockInv'
    OBVIOUS
  <1> USE GatewayAssumption DEF db, asked
  <1>e. ASSUME NEW e \in Execs, Execute(e) PROVE LockInv'
    <2>0. e \in Procs /\ CapOf(e) \in Caps /\ TaskFor(e) \in Tasks
      BY CallType DEF Procs
    <2>1. CASE Submit(e)
      BY <2>0, <2>1 DEF Submit, Goto, TypeOK, Procs, CapOf, TaskFor,
         LockInv, HoldsCap, HoldsTask, RecordedDone, Sweeping, ClosedTaskIsDead
    <2>2. CASE LockCap(e)
      <3> USE <2>0, <2>2 DEF LockCap, Goto, TypeOK, Procs
      <3>1. HoldsCap'
        <4>1. CASE Usable(CapOf(e))
          BY <4>1, CallType DEF Usable, CapOf, LockInv, HoldsCap
        <4>2. CASE ~Usable(CapOf(e))
          BY <4>2 DEF CapOf, LockInv, HoldsCap
        <4> QED  BY <4>1, <4>2
      <3>2. HoldsTask' /\ RecordedDone'
        BY DEF CapOf, TaskFor, LockInv, HoldsTask, RecordedDone
      <3>3. Sweeping' /\ ClosedTaskIsDead'
        BY DEF LockInv, Sweeping, ClosedTaskIsDead
      <3> QED  BY <3>1, <3>2, <3>3 DEF LockInv
    <2>3. CASE Replay(e)
      BY <2>0, <2>3, RollBackLocks DEF Replay, AtTask, RollBack, Places
    <2>4. CASE Refuse(e)
      BY <2>0, <2>4, RollBackLocks DEF Refuse, AtTask, RollBack, Places
    <2>5. CASE Call(e)
      BY <2>0, <2>5 DEF Call, AtTask, Goto, TypeOK, Procs, CapOf, TaskFor,
         LockInv, HoldsCap, HoldsTask, RecordedDone, Sweeping, ClosedTaskIsDead
    <2>6. CASE Record(e)
      <3> USE <2>0, <2>6 DEF Record, Goto, TypeOK, Procs
      <3>1. HoldsCap' /\ HoldsTask'
        BY CallType DEF Release, CapOf, TaskFor, LockInv, HoldsCap, HoldsTask
      <3>2. RecordedDone'
        BY DEF LockInv, RecordedDone
      <3>3. Sweeping' /\ ClosedTaskIsDead'
        BY DEF Release, LockInv, Sweeping, ClosedTaskIsDead
      <3> QED  BY <3>1, <3>2, <3>3 DEF LockInv
    <2>7. CASE Lose(e)
      BY <2>0, <2>7, RollBackLocks DEF Lose, RollBack, Places
    <2> QED  BY <1>e, <2>1, <2>2, <2>3, <2>4, <2>5, <2>6, <2>7 DEF Execute
  <1>r. ASSUME NEW r \in Revokers, Revoke(r) PROVE LockInv'
    <2>1. CASE RevokeRead(r)
      BY <2>1 DEF RevokeRead, Goto, TypeOK, Procs, CapOf, TaskFor,
         LockInv, HoldsCap, HoldsTask, RecordedDone, Sweeping, ClosedTaskIsDead
    <2>2. CASE RevokeCommit(r)
      BY <2>2, CallType DEF RevokeCommit, Goto, TypeOK, Procs, CapOf, TaskFor,
         LockInv, HoldsCap, HoldsTask, RecordedDone, Sweeping, ClosedTaskIsDead
    <2> QED  BY <1>r, <2>1, <2>2 DEF Revoke
  <1>o. ASSUME NEW o \in Closers, Close(o) PROVE LockInv'
    <2>1. CASE CloseRead(o)
      BY <2>1 DEF CloseRead, Goto, TypeOK, Procs, CapOf, TaskFor,
         LockInv, HoldsCap, HoldsTask, RecordedDone, Sweeping, ClosedTaskIsDead
    <2>2. CASE CloseFlush(o)
      BY <2>2, CallType DEF CloseFlush, Goto, TypeOK, Procs, CapOf, TaskFor,
         LockInv, HoldsCap, HoldsTask, RecordedDone, Sweeping, ClosedTaskIsDead
    <2>3. CASE CloseLockCap(o)
      BY <2>3, CallType DEF CloseLockCap, Goto, TypeOK, Procs, CapOf, TaskFor,
         LockInv, HoldsCap, HoldsTask, RecordedDone, Sweeping, ClosedTaskIsDead
    <2>4. CASE CloseCommit(o)
      BY <2>4, CallType DEF CloseCommit, Release, Goto, TypeOK, Procs, CapOf, TaskFor,
         LockInv, HoldsCap, HoldsTask, RecordedDone, Sweeping, ClosedTaskIsDead
    <2> QED  BY <1>o, <2>1, <2>2, <2>3, <2>4 DEF Close
  <1>l. ASSUME NEW c \in Caps, Lapse(c) PROVE LockInv'
    BY <1>l DEF Lapse, CapOf, TaskFor,
       LockInv, HoldsCap, HoldsTask, RecordedDone, Sweeping, ClosedTaskIsDead
  <1>v. CASE Victim
    <2> PICK e \in Execs, o \in Closers :
             Deadlocked(e, o) /\ (RollBack(e, "failed") \/ AbortClose(o))
      BY <1>v DEF Victim
    <2>1. e \in Procs /\ o \in Procs /\ "failed" \in Places
      BY DEF Procs, Places
    <2>2. CASE RollBack(e, "failed")
      BY <2>1, <2>2, RollBackLocks DEF RollBack, Deadlocked
    <2>3. CASE AbortClose(o)
      BY <2>1, <2>3, RollBackLocks DEF AbortClose, Deadlocked, TypeOK
    <2> QED  BY <2>2, <2>3
  <1>f. CASE OperatorFails
    <2>1. ASSUME NEW r \in Revokers, pc[r] = "flush", RollBack(r, "failed") PROVE LockInv'
      BY <2>1, RollBackLocks DEF RollBack, Procs, Places
    <2>2. ASSUME NEW o \in Closers, pc[o] = "lockCaps", AbortClose(o) PROVE LockInv'
      BY <2>2, RollBackLocks DEF AbortClose, TypeOK, Procs, Places
    <2> QED  BY <1>f, <2>1, <2>2 DEF OperatorFails
  <1>c. CASE Crash
    BY <1>c DEF Crash, Answered, TypeOK, Procs, CapOf, TaskFor,
       LockInv, HoldsCap, HoldsTask, RecordedDone, Sweeping, ClosedTaskIsDead
  <1>s. CASE UNCHANGED vars
    BY <1>s DEF vars, CapOf, TaskFor,
       LockInv, HoldsCap, HoldsTask, RecordedDone, Sweeping, ClosedTaskIsDead
  <1> QED  BY <1>e, <1>r, <1>o, <1>l, <1>v, <1>f, <1>c, <1>s DEF Next

\* A handler between its FOR UPDATE and its commit holds the rows it locked
\* (gateway.py:162-189), and a closer sweeps with its task row locked.
THEOREM LocksHeld == Spec => []LockInv
  BY TypeInit, TypeStep, LockInit, LockStep, PTL DEF Spec

\* A call in its adapter is under an active capability: revocations and
\* closures that have committed are a barrier to it (gateway.py:162-168).
THEOREM WithdrawalSafe == Spec => []WithdrawalIsBarrier
  <1>1. LockInv => WithdrawalIsBarrier
    BY DEF LockInv, HoldsCap, WithdrawalIsBarrier
  <1> QED  BY <1>1, LocksHeld, PTL

\* A closed task has no active capability left (routes.py:524-532, 559-567).
THEOREM ClosureSafe == Spec => []ClosedTaskIsDead
  <1>1. LockInv => ClosedTaskIsDead
    BY DEF LockInv
  <1> QED  BY <1>1, LocksHeld, PTL
----------------------------------------------------------------------------
(* The books.  Only a call that starts and a call that is recorded touch    *)
(* them; every other step leaves counters and invocations alone and takes   *)
(* nobody to the adapter.                                                   *)
Quiet == /\ UNCHANGED <<callsUsed, invocations>>
         /\ \A x \in Execs : pc'[x] = "calling" => pc[x] = "calling"

\* A rollback charges nothing.
LEMMA RollBackQuiet ==
  ASSUME TypeOK, NEW p \in Procs, NEW place, place # "calling", RollBack(p, place)
  PROVE  Quiet /\ call' = call
  BY DEF TypeOK, RollBack, Goto, Quiet, db, asked, Procs

\* A rolled back closer charges nothing.
LEMMA AbortCloseQuiet ==
  ASSUME TypeOK, NEW o \in Closers, AbortClose(o)
  PROVE  Quiet /\ call' = call
  BY DEF TypeOK, AbortClose, Goto, Quiet, db, asked, Procs

\* For the budget, the counters and the keys a step calls, records, or is quiet.
LEMMA StepKinds ==
  ASSUME TypeOK, [Next]_vars
  PROVE  /\ call' = call
         /\ Quiet \/ (\E e \in Execs : Call(e)) \/ (\E e \in Execs : Record(e))
  <1> DEFINE Kinds == /\ call' = call
                      /\ \/ Quiet
                         \/ \E e \in Execs : Call(e)
                         \/ \E e \in Execs : Record(e)
  <1> USE DEF db, asked
  <1>e. ASSUME NEW e \in Execs, Execute(e) PROVE Kinds
    <2>0. e \in Procs
      BY DEF Procs
    <2>1. CASE Submit(e)
      BY <2>0, <2>1 DEF Submit, Goto, TypeOK, Quiet, Procs
    <2>2. CASE LockCap(e)
      BY <2>0, <2>2 DEF LockCap, Goto, TypeOK, Quiet, Procs
    <2>3. CASE Replay(e) \/ Refuse(e) \/ Lose(e)
      BY <2>0, <2>3, RollBackQuiet DEF Replay, Refuse, Lose
    <2>4. CASE Call(e) \/ Record(e)
      BY <2>4 DEF Call, Record
    <2> QED  BY <1>e, <2>1, <2>2, <2>3, <2>4 DEF Execute
  <1>r. ASSUME NEW r \in Revokers, Revoke(r) PROVE Kinds
    BY <1>r DEF Revoke, RevokeRead, RevokeCommit, Goto, TypeOK, Quiet, Procs
  <1>o. ASSUME NEW o \in Closers, Close(o) PROVE Kinds
    BY <1>o DEF Close, CloseRead, CloseFlush, CloseLockCap, CloseCommit,
                Goto, TypeOK, Quiet, Procs
  <1>l. ASSUME NEW c \in Caps, Lapse(c) PROVE Kinds
    BY <1>l DEF Lapse, Quiet
  <1>v. CASE Victim \/ OperatorFails
    BY <1>v, RollBackQuiet, AbortCloseQuiet DEF Victim, OperatorFails, Procs
  <1>c. CASE Crash
    BY <1>c DEF Crash, TypeOK, Quiet, Procs
  <1>s. CASE UNCHANGED vars
    BY <1>s DEF vars, Quiet
  <1> QED  BY <1>e, <1>r, <1>o, <1>l, <1>v, <1>c, <1>s DEF Next

\* A finite number of requests leaves finitely many invocations.
LEMMA InvokedFinite ==
  ASSUME TypeOK
  PROVE  /\ IsFiniteSet(invocations)
         /\ \A c : IsFiniteSet(InvokedOn(c)) /\ Cardinality(InvokedOn(c)) \in Nat
         /\ \A t : IsFiniteSet(InvokedFor(t)) /\ Cardinality(InvokedFor(t)) \in Nat
         /\ \A t : IsFiniteSet(Charged(t)) /\ Cardinality(Charged(t)) \in Nat
  <1>1. IsFiniteSet(Execs)
    BY GatewayAssumption
  <1>2. \A S \in SUBSET Execs : IsFiniteSet(S) /\ Cardinality(S) \in Nat
    BY <1>1, FS_Subset, FS_CardinalityType
  <1>3. invocations \in SUBSET Execs
    BY DEF TypeOK
  <1> QED  BY <1>2, <1>3 DEF InvokedOn, InvokedFor, Charged

\* Nothing is charged at the start.
LEMMA BudgetInit == Init => BudgetRespected
  <1> SUFFICES ASSUME Init, NEW t \in Tasks PROVE Cardinality(Charged(t)) <= MaxActions
    BY DEF BudgetRespected
  <1>1. Charged(t) = {}
    BY DEF Init, Charged, Procs
  <1> QED  BY <1>1, FS_EmptySet, GatewayAssumption

\* max_actions is respected by every step: only a call with the task row
\* locked adds a charge (gateway.py:276-285).
LEMMA BudgetStep ==
  TypeOK /\ LockInv /\ BudgetRespected /\ [Next]_vars => BudgetRespected'
  <1> SUFFICES ASSUME TypeOK, LockInv, BudgetRespected, [Next]_vars,
                      NEW t \in Tasks
               PROVE  Cardinality(Charged(t)') <= MaxActions
    BY DEF BudgetRespected, Charged
  <1>0. call' = call /\ Cardinality(Charged(t)) <= MaxActions
    BY StepKinds DEF BudgetRespected
  <1>1. CASE Charged(t)' \subseteq Charged(t)
    <2>1. /\ Cardinality(Charged(t)') <= Cardinality(Charged(t))
          /\ Cardinality(Charged(t)') \in Nat
      BY <1>1, InvokedFinite, FS_Subset, FS_CardinalityType
    <2> QED  BY <1>0, <2>1, InvokedFinite, GatewayAssumption
  <1>2. ASSUME NEW e \in Execs, Call(e), TaskFor(e) = t
        PROVE  Cardinality(Charged(t)') <= MaxActions
    <2>1. e \in Procs /\ taskLock[t] = Free
      BY <1>2 DEF Call, AtTask, Procs
    \* The task row was free, so nobody is in the adapter on its account.
    <2>2. \A x \in Execs : pc[x] = "calling" => TaskFor(x) # t
      BY <2>1, GatewayAssumption DEF LockInv, HoldsTask, Procs
    <2>3. Charged(t)' = InvokedFor(t) \cup {e}
      BY <1>0, <1>2, <2>1, <2>2
         DEF Call, Goto, Charged, InvokedFor, TaskFor, TypeOK, Procs, db
    <2>4. Cardinality(InvokedFor(t)) < MaxActions
      BY <1>2 DEF Call, WithinLimits
    <2>5. Cardinality(InvokedFor(t) \cup {e}) <= Cardinality(InvokedFor(t)) + 1
      <3>1. IsFiniteSet(InvokedFor(t)) /\ Cardinality(InvokedFor(t)) \in Nat
        BY InvokedFinite
      <3>2. Cardinality(InvokedFor(t) \cup {e}) =
              IF e \in InvokedFor(t) THEN Cardinality(InvokedFor(t))
              ELSE Cardinality(InvokedFor(t)) + 1
        BY <3>1, FS_AddElement
      <3> QED  BY <3>1, <3>2
    <2>6. Cardinality(InvokedFor(t) \cup {e}) \in Nat
      BY InvokedFinite, FS_AddElement, FS_CardinalityType
    <2> QED  BY <2>3, <2>4, <2>5, <2>6, InvokedFinite, GatewayAssumption
  <1>3. ASSUME NEW e \in Execs, Call(e), TaskFor(e) # t
        PROVE  Charged(t)' \subseteq Charged(t)
    BY <1>0, <1>3 DEF Call, Goto, Charged, TaskFor, TypeOK, Procs, db
  <1>4. ASSUME NEW e \in Execs, Record(e) PROVE Charged(t)' \subseteq Charged(t)
    BY <1>0, <1>4 DEF Record, Goto, Charged, TaskFor, TypeOK, Procs
  <1>5. CASE Quiet
    BY <1>0, <1>1, <1>5 DEF Quiet, Charged, TaskFor
  <1> QED  BY <1>1, <1>2, <1>3, <1>4, <1>5, StepKinds

\* However requests interleave, crash or fail, the calls recorded for a task
\* and the one in its adapter never exceed max_actions (gateway.py:272-285).
THEOREM BudgetSafe == Spec => []BudgetRespected
  BY TypeInit, TypeStep, LockInit, LockStep, BudgetInit, BudgetStep, PTL DEF Spec
----------------------------------------------------------------------------
\* No call is counted at the start.
LEMMA CountInit == Init => CallsUsedExact
  <1> SUFFICES ASSUME Init, NEW c \in Caps
               PROVE  callsUsed[c] = Cardinality(InvokedOn(c))
    BY DEF CallsUsedExact
  <1>1. InvokedOn(c) = {}
    BY DEF Init, InvokedOn
  <1> QED  BY <1>1, FS_EmptySet DEF Init

\* calls_used and the invocations of a capability change together.
LEMMA CountStep ==
  TypeOK /\ LockInv /\ CallsUsedExact /\ [Next]_vars => CallsUsedExact'
  <1> SUFFICES ASSUME TypeOK, LockInv, CallsUsedExact, [Next]_vars, NEW c \in Caps
               PROVE  callsUsed'[c] = Cardinality(InvokedOn(c)')
    BY DEF CallsUsedExact, InvokedOn
  <1>0. call' = call /\ callsUsed[c] = Cardinality(InvokedOn(c))
    BY StepKinds DEF CallsUsedExact
  <1>1. ASSUME UNCHANGED <<callsUsed, invocations>>
        PROVE  callsUsed'[c] = Cardinality(InvokedOn(c)')
    <2>1. InvokedOn(c)' = InvokedOn(c)
      BY <1>0, <1>1 DEF InvokedOn, CapOf
    <2> QED  BY <1>0, <1>1, <2>1
  <1>2. ASSUME NEW e \in Execs, Record(e)
        PROVE  callsUsed'[c] = Cardinality(InvokedOn(c)')
    <2>1. CASE CapOf(e) # c
      <3>1. InvokedOn(c)' = InvokedOn(c)
        BY <1>0, <1>2, <2>1 DEF Record, InvokedOn, CapOf
      <3>2. callsUsed'[c] = callsUsed[c]
        BY <1>2, <2>1 DEF Record, TypeOK
      <3> QED  BY <1>0, <3>1, <3>2
    <2>2. CASE CapOf(e) = c
      \* It has no invocation yet: only answered requests do.
      <3>1. e \notin invocations
        BY <1>2 DEF Record, LockInv, RecordedDone
      <3>2. InvokedOn(c)' = InvokedOn(c) \cup {e}
        BY <1>0, <1>2, <2>2 DEF Record, InvokedOn, CapOf
      <3>3. IsFiniteSet(InvokedOn(c)) /\ e \notin InvokedOn(c)
        BY <3>1, InvokedFinite DEF InvokedOn
      <3>4. Cardinality(InvokedOn(c) \cup {e}) = Cardinality(InvokedOn(c)) + 1
        BY <3>3, FS_AddElement
      <3>5. callsUsed'[c] = callsUsed[c] + 1
        BY <1>2, <2>2 DEF Record, TypeOK
      <3> QED  BY <1>0, <3>2, <3>4, <3>5
    <2> QED  BY <2>1, <2>2
  <1>3. ASSUME NEW e \in Execs, Call(e)
        PROVE  UNCHANGED <<callsUsed, invocations>>
    BY <1>3 DEF Call, db
  <1> QED  BY <1>1, <1>2, <1>3, StepKinds DEF Quiet

\* calls_used is the number of committed invocations (gateway.py:264, 324):
\* no increment is lost to a concurrent one and none survives a rollback.
THEOREM CountSafe == Spec => []CallsUsedExact
  BY TypeInit, TypeStep, LockInit, LockStep, CountInit, CountStep, PTL DEF Spec

\* No key is used at the start.
LEMMA KeyInit == Init => KeyChargedOnce
  BY DEF Init, KeyChargedOnce, Procs

\* A key enters use only when no invocation has it and no call holds the row.
LEMMA KeyStep ==
  TypeOK /\ LockInv /\ KeyChargedOnce /\ [Next]_vars => KeyChargedOnce'
  <1> SUFFICES ASSUME TypeOK, LockInv, KeyChargedOnce, [Next]_vars
               PROVE  KeyChargedOnce'
    OBVIOUS
  <1>0. call' = call
    BY StepKinds
  <1>1. CASE Quiet
    BY <1>0, <1>1 DEF Quiet, KeyChargedOnce, CapOf
  <1>2. ASSUME NEW e \in Execs, Record(e) PROVE KeyChargedOnce'
    <2>1. \A x \in Execs : pc'[x] = "calling" \/ x \in invocations'
                            => pc[x] = "calling" \/ x \in invocations
      BY <1>2 DEF Record, Goto, TypeOK, Procs
    <2> QED  BY <1>0, <2>1 DEF KeyChargedOnce, CapOf
  <1>3. ASSUME NEW e \in Execs, Call(e) PROVE KeyChargedOnce'
    \* e holds the capability's row, so no other call of it is under way ...
    <2>1. \A x \in Execs \ {e} : pc[x] = "calling" => CapOf(x) # CapOf(e)
      BY <1>3 DEF Call, AtTask, LockInv, HoldsCap
    \* ... and none with its key has been recorded.
    <2>2. call[e].key # NoKey =>
            \A x \in invocations : CapOf(x) = CapOf(e) => call[x].key # call[e].key
      BY <1>3 DEF Call, Replayed
    <2>3. /\ invocations' = invocations
          /\ \A x \in Execs \ {e} : pc'[x] = pc[x]
      BY <1>3 DEF Call, Goto, TypeOK, Procs, db
    <2> QED  BY <1>0, <2>1, <2>2, <2>3 DEF KeyChargedOnce, CapOf
  <1> QED  BY <1>1, <1>2, <1>3, StepKinds

\* A key is in use by one call of a capability at most, recorded or in the
\* adapter, though no unique index enforces it (gateway.py:244-262).
THEOREM KeySafe == Spec => []KeyChargedOnce
  BY TypeInit, TypeStep, LockInit, LockStep, KeyInit, KeyStep, PTL DEF Spec
----------------------------------------------------------------------------
(* Who may hold a row: an execution past its capability, an execution in    *)
(* its adapter, or a closer that sweeps its own task.  The converse of      *)
(* LockInv, it says that no row is left locked by a handler that answered.  *)
CapHeldBy(c, p) ==
    \/ p \in Execs /\ CapOf(p) = c /\ pc[p] \in {"lockTask", "calling"}
    \/ p \in Closers /\ closing[p].task = TaskOf[c] /\ pc[p] = "lockCaps"
TaskHeldBy(t, p) ==
    \/ p \in Execs /\ TaskFor(p) = t /\ pc[p] = "calling"
    \/ p \in Closers /\ closing[p].task = t /\ pc[p] = "lockCaps"
HolderInv ==
    /\ \A c \in Caps : capLock[c] # Free => CapHeldBy(c, capLock[c])
    /\ \A t \in Tasks : taskLock[t] # Free => TaskHeldBy(t, taskLock[t])
    /\ \A o \in Closers : pc[o] = "lockCaps" =>
          /\ taskLock[closing[o].task] = o
          /\ \A c \in todo[o] : TaskOf[c] = closing[o].task /\ capLock[c] # o

\* Ending one transaction leaves the others their rows and frees its own.
LEMMA RollBackHolders ==
  ASSUME TypeOK, HolderInv, NEW p \in Procs,
         NEW place \in Places \ {"lockTask", "calling", "lockCaps"},
         Release(p), Goto(p, place), UNCHANGED asked,
         \A o \in Closers \ {p} : todo'[o] = todo[o]
  PROVE  HolderInv'
  <1> USE GatewayAssumption DEF asked, TypeOK, Procs, Release, Goto, CapOf, TaskFor
  <1>1. \A c \in Caps : capLock'[c] # Free =>
          capLock'[c] = capLock[c] /\ capLock[c] # p
    OBVIOUS
  <1>2. \A t \in Tasks : taskLock'[t] # Free =>
          taskLock'[t] = taskLock[t] /\ taskLock[t] # p
    OBVIOUS
  <1>3. \A q \in Procs \ {p} : pc'[q] = pc[q]
    OBVIOUS
  <1>4. \A c \in Caps : capLock'[c] # Free => CapHeldBy(c, capLock[c])'
    BY <1>1, <1>3 DEF HolderInv, CapHeldBy
  <1>5. \A t \in Tasks : taskLock'[t] # Free => TaskHeldBy(t, taskLock[t])'
    BY <1>2, <1>3 DEF HolderInv, TaskHeldBy
  <1>6. \A o \in Closers : pc'[o] = "lockCaps" =>
          /\ taskLock'[closing'[o].task] = o
          /\ \A c \in todo'[o] : TaskOf[c] = closing'[o].task /\ capLock'[c] # o
    BY <1>3 DEF HolderInv, CloseRequests
  <1> QED  BY <1>4, <1>5, <1>6 DEF HolderInv, CapHeldBy, TaskHeldBy

\* Every step of every handler keeps the rows with those who may hold them.
LEMMA HolderStep == TypeOK /\ HolderInv /\ [Next]_vars => HolderInv'
  <1> SUFFICES ASSUME TypeOK, HolderInv, [Next]_vars PROVE HolderInv'
    OBVIOUS
  <1> USE GatewayAssumption DEF db, asked
  <1>e. ASSUME NEW e \in Execs, Execute(e) PROVE HolderInv'
    <2>0. e \in Procs /\ CapOf(e) \in Caps /\ TaskFor(e) \in Tasks
      BY CallType DEF Procs
    <2>1. CASE Submit(e)
      BY <2>0, <2>1 DEF Submit, Goto, TypeOK, Procs, CapOf, TaskFor,
         HolderInv, CapHeldBy, TaskHeldBy
    <2>2. CASE LockCap(e)
      BY <2>0, <2>2 DEF LockCap, Goto, TypeOK, Procs, CapOf, TaskFor,
         HolderInv, CapHeldBy, TaskHeldBy
    <2>3. CASE Replay(e)
      BY <2>0, <2>3, RollBackHolders DEF Replay, RollBack, Places
    <2>4. CASE Refuse(e)
      BY <2>0, <2>4, RollBackHolders DEF Refuse, RollBack, Places
    <2>5. CASE Call(e)
      BY <2>0, <2>5 DEF Call, AtTask, Goto, TypeOK, Procs, CapOf, TaskFor,
         HolderInv, CapHeldBy, TaskHeldBy
    <2>6. CASE Record(e)
      BY <2>0, <2>6, RollBackHolders DEF Record, Places
    <2>7. CASE Lose(e)
      BY <2>0, <2>7, RollBackHolders DEF Lose, RollBack, Places
    <2> QED  BY <1>e, <2>1, <2>2, <2>3, <2>4, <2>5, <2>6, <2>7 DEF Execute
  <1>r. ASSUME NEW r \in Revokers, Revoke(r) PROVE HolderInv'
    BY <1>r DEF Revoke, RevokeRead, RevokeCommit, Goto, TypeOK, Procs, CapOf, TaskFor,
       HolderInv, CapHeldBy, TaskHeldBy
  <1>o. ASSUME NEW o \in Closers, Close(o) PROVE HolderInv'
    <2>1. CASE CloseRead(o)
      BY <2>1 DEF CloseRead, Goto, TypeOK, Procs, CapOf, TaskFor,
         HolderInv, CapHeldBy, TaskHeldBy
    <2>2. CASE CloseFlush(o)
      <3> USE <2>2 DEF CloseFlush, Goto, TypeOK, Procs, CloseRequests
      <3>1. closing[o].task \in Tasks
        OBVIOUS
      <3>2. \A c \in Caps : capLock'[c] # Free => CapHeldBy(c, capLock[c])'
        BY DEF HolderInv, CapHeldBy, CapOf
      <3>3. \A t \in Tasks : taskLock'[t] # Free => TaskHeldBy(t, taskLock[t])'
        BY DEF HolderInv, TaskHeldBy, TaskFor
      <3>4. \A x \in Closers : pc'[x] = "lockCaps" =>
              /\ taskLock'[closing'[x].task] = x
              /\ \A c \in todo'[x] : TaskOf[c] = closing'[x].task /\ capLock'[c] # x
        BY <3>1 DEF HolderInv, CapHeldBy
      <3> QED  BY <3>2, <3>3, <3>4 DEF HolderInv, CapHeldBy, TaskHeldBy
    <2>3. CASE CloseLockCap(o)
      BY <2>3 DEF CloseLockCap, TypeOK, Procs, CapOf, TaskFor,
         HolderInv, CapHeldBy, TaskHeldBy
    <2>4. CASE CloseCommit(o)
      BY <2>4, RollBackHolders DEF CloseCommit, Procs, Places
    <2> QED  BY <1>o, <2>1, <2>2, <2>3, <2>4 DEF Close
  <1>l. ASSUME NEW c \in Caps, Lapse(c) PROVE HolderInv'
    BY <1>l DEF Lapse, CapOf, TaskFor, HolderInv, CapHeldBy, TaskHeldBy
  <1>v. CASE Victim
    <2> PICK e \in Execs, o \in Closers : RollBack(e, "failed") \/ AbortClose(o)
      BY <1>v DEF Victim
    <2>1. CASE RollBack(e, "failed")
      BY <2>1, RollBackHolders DEF RollBack, Procs, Places
    <2>2. CASE AbortClose(o)
      BY <2>2, RollBackHolders DEF AbortClose, TypeOK, Procs, Places
    <2> QED  BY <2>1, <2>2
  <1>f. CASE OperatorFails
    <2>1. ASSUME NEW r \in Revokers, RollBack(r, "failed") PROVE HolderInv'
      BY <2>1, RollBackHolders DEF RollBack, Procs, Places
    <2>2. ASSUME NEW o \in Closers, AbortClose(o) PROVE HolderInv'
      BY <2>2, RollBackHolders DEF AbortClose, TypeOK, Procs, Places
    <2> QED  BY <1>f, <2>1, <2>2 DEF OperatorFails
  <1>c. CASE Crash
    BY <1>c DEF Crash, Answered, TypeOK, Procs, CapOf, TaskFor,
       HolderInv, CapHeldBy, TaskHeldBy
  <1>s. CASE UNCHANGED vars
    BY <1>s DEF vars, CapOf, TaskFor, HolderInv, CapHeldBy, TaskHeldBy
  <1> QED  BY <1>e, <1>r, <1>o, <1>l, <1>v, <1>f, <1>c, <1>s DEF Next

\* An execution that waits for its task waits for one in its adapter, or for a
\* closer that has its capability still to lock: the cycle Postgres breaks.
LEMMA TaskWaitEnds ==
  ASSUME TypeOK, LockInv, HolderInv, NEW e \in Execs, pc[e] = "lockTask",
         NEW q \in WaitsFor(e)
  PROVE  GoesOn(e) \/ (q \in Execs /\ pc[q] = "calling")
  <1>1. q \in Procs /\ TaskFor(e) \in Tasks /\ taskLock[TaskFor(e)] = q
    BY CallType, GatewayAssumption DEF WaitsFor
  <1>2. q # Free
    BY <1>1, GatewayAssumption
  <1>3. TaskHeldBy(TaskFor(e), q)
    BY <1>1, <1>2 DEF HolderInv
  <1>4. CASE q \in Execs
    BY <1>3, <1>4, GatewayAssumption DEF TaskHeldBy
  <1>5. CASE q \in Closers
    <2>1. pc[q] = "lockCaps" /\ closing[q].task = TaskOf[CapOf(e)]
      BY <1>3, <1>5, GatewayAssumption DEF TaskHeldBy, TaskFor, CapOf
    <2>2. capLock[CapOf(e)] = e /\ capStatus[CapOf(e)] = "active" /\ CapOf(e) \in Caps
      BY CallType DEF LockInv, HoldsCap
    <2>3. e # q
      BY <1>5, GatewayAssumption
    <2>4. CapOf(e) \in todo[q]
      BY <1>5, <2>1, <2>2, <2>3 DEF LockInv, Sweeping
    <2>5. Deadlocked(e, q)
      BY <1>1, <2>1, <2>4 DEF Deadlocked
    <2> QED  BY <1>5, <2>5 DEF GoesOn
  <1> QED  BY <1>3, <1>4, <1>5 DEF TaskHeldBy

\* A handler in its adapter waits for no row.
LEMMA CallingGoesOn ==
  ASSUME NEW q \in Execs, pc[q] = "calling"
  PROVE  GoesOn(q)
  <1>1. WaitsFor(q) = {}
    BY GatewayAssumption DEF WaitsFor
  <1> QED  BY <1>1 DEF GoesOn, Answered

\* A closer that sweeps goes on, or a capability it has still to lock is held
\* by an execution that waits for the closer's task.
LEMMA SweepGoesOn ==
  ASSUME TypeOK, LockInv, HolderInv, NEW o \in Closers, pc[o] = "lockCaps"
  PROVE  GoesOn(o)
  <1>1. CASE WaitsFor(o) = {}
    BY <1>1 DEF GoesOn, Answered
  <1>2. CASE WaitsFor(o) # {}
    <2>1. PICK q \in Procs, c \in todo[o] : capLock[c] = q
      BY <1>2, GatewayAssumption DEF WaitsFor
    <2>2. c \in Caps /\ TaskOf[c] = closing[o].task /\ q # Free
      BY <2>1, GatewayAssumption DEF TypeOK, HolderInv
    <2>3. CapHeldBy(c, q) /\ taskLock[closing[o].task] = o
      BY <2>1, <2>2 DEF HolderInv
    <2>4. CASE q \in Execs
      <3>1. CapOf(q) = c /\ TaskFor(q) = closing[o].task
        BY <2>2, <2>3, <2>4, GatewayAssumption DEF CapHeldBy, CapOf, TaskFor
      <3>2. pc[q] # "calling"
        BY <2>3, <2>4, <3>1, GatewayAssumption DEF LockInv, HoldsTask
      <3>3. pc[q] = "lockTask"
        BY <2>3, <2>4, <3>2, GatewayAssumption DEF CapHeldBy
      <3>4. Deadlocked(q, o)
        BY <2>1, <2>3, <3>1, <3>3 DEF Deadlocked
      <3> QED  BY <2>4, <3>4 DEF GoesOn
    <2>5. CASE q \in Closers
      \* Only one closer sweeps a task, and it has not locked c yet.
      <3>1. q = o
        BY <2>2, <2>3, <2>5, GatewayAssumption DEF CapHeldBy, HolderInv
      <3> QED  BY <2>1, <3>1 DEF HolderInv
    <2> QED  BY <2>3, <2>4, <2>5 DEF CapHeldBy
  <1> QED  BY <1>1, <1>2

\* Whoever holds a row goes on, or waits only for handlers that do.
LEMMA HolderGoesOn ==
  ASSUME TypeOK, LockInv, HolderInv, NEW q \in Procs,
         \/ \E c \in Caps : CapHeldBy(c, q)
         \/ \E t \in Tasks : TaskHeldBy(t, q)
  PROVE  GoesOn(q) \/ \E x \in WaitsFor(q) : GoesOn(x)
  <1>1. CASE q \in Closers
    BY <1>1, SweepGoesOn, GatewayAssumption DEF CapHeldBy, TaskHeldBy
  <1>2. CASE q \in Execs /\ pc[q] = "calling"
    BY <1>2, CallingGoesOn
  <1>3. CASE q \in Execs /\ pc[q] = "lockTask"
    <2>1. CASE WaitsFor(q) = {}
      BY <1>3, <2>1 DEF GoesOn, Answered
    <2>2. ASSUME NEW x \in WaitsFor(q) PROVE GoesOn(q) \/ GoesOn(x)
      BY <1>3, TaskWaitEnds, CallingGoesOn
    <2> QED  BY <2>1, <2>2
  <1> QED  BY <1>1, <1>2, <1>3, GatewayAssumption DEF CapHeldBy, TaskHeldBy

\* Handlers lock the two rows in opposite orders (gateway.py:184-189 against
\* routes.py:522-532), and still no wait is for ever: each ends in a handler
\* that goes on or in a cycle of two that Postgres breaks.
THEOREM WaitsSafe == Spec => []WaitsEnd
  <1>1. Init => HolderInv
    BY GatewayAssumption DEF Init, HolderInv, Procs
  <1>2. ASSUME TypeOK, LockInv, HolderInv PROVE WaitsEnd
    <2> SUFFICES ASSUME NEW p \in Procs, NEW q \in WaitsFor(p)
                 PROVE  GoesOn(p) \/ GoesOn(q) \/ \E x \in WaitsFor(q) : GoesOn(x)
      BY DEF WaitsEnd
    <2>1. CASE p \in Closers /\ pc[p] = "lockCaps"
      BY <1>2, <2>1, SweepGoesOn
    <2>2. CASE ~(p \in Closers /\ pc[p] = "lockCaps")
      <3>1. q \in Procs /\ q # Free
        BY GatewayAssumption DEF WaitsFor
      <3>2. \/ \E c \in Caps : capLock[c] = q
            \/ \E t \in Tasks : taskLock[t] = q
        BY <1>2, <2>2, CallType DEF WaitsFor, TypeOK, CloseRequests
      <3> QED  BY <1>2, <3>1, <3>2, HolderGoesOn DEF HolderInv
    <2> QED  BY <2>1, <2>2
  <1> QED  BY <1>1, <1>2, TypeInit, TypeStep, LockInit, LockStep, HolderStep, PTL DEF Spec

\* Only a request whose capability has not lapsed gets past the check.
LEMMA ValidatedInTime ==
  ASSUME TypeOK, [Next]_vars, NEW c \in lapsed, NEW e \in Validated(c)'
  PROVE  e \in Validated(c)
  <1>1. call' = call
    BY StepKinds
  <1>2. e \in Execs /\ e \in Procs /\ CapOf(e) = c /\ pc'[e] \in {"lockTask", "calling"}
    BY <1>1 DEF Validated, CapOf, Procs
  <1> SUFFICES pc[e] \in {"lockTask", "calling"}
    BY <1>2 DEF Validated
  <1> USE <1>2 DEF TypeOK, Goto, Procs
  <1>3. ASSUME NEW x \in Execs, Execute(x) PROVE pc[e] \in {"lockTask", "calling"}
    <2>1. CASE LockCap(x)
      BY <2>1 DEF LockCap, Usable
    <2>2. CASE Call(x)
      BY <2>2 DEF Call, AtTask
    <2>3. CASE Submit(x) \/ Replay(x) \/ Refuse(x) \/ Record(x) \/ Lose(x)
      BY <2>3 DEF Submit, Replay, Refuse, Record, Lose, RollBack
    <2> QED  BY <1>3, <2>1, <2>2, <2>3 DEF Execute
  <1>4. ASSUME NEW r \in Revokers, Revoke(r) PROVE pc[e] \in {"lockTask", "calling"}
    BY <1>4 DEF Revoke, RevokeRead, RevokeCommit
  <1>5. ASSUME NEW o \in Closers, Close(o) PROVE pc[e] \in {"lockTask", "calling"}
    BY <1>5 DEF Close, CloseRead, CloseFlush, CloseLockCap, CloseCommit
  <1>6. CASE Victim \/ OperatorFails
    BY <1>6 DEF Victim, OperatorFails, RollBack, AbortClose
  <1>7. CASE Crash \/ (\E x \in Caps : Lapse(x)) \/ UNCHANGED vars
    BY <1>7 DEF Crash, Lapse, vars
  <1> QED  BY <1>3, <1>4, <1>5, <1>6, <1>7 DEF Next

\* A lapsed capability drains: the one call that its check let pass in time may
\* still run, late, and no other joins it (gateway.py:162-189).
THEOREM LapsedSafe == Spec => LapsedDrains
  <1>1. ASSUME TypeOK, LockInv, [Next]_vars, NEW c \in lapsed
        PROVE  /\ Validated(c)' \subseteq Validated(c)
               /\ \A e1, e2 \in Validated(c) : e1 = e2
    <2>1. \A e1, e2 \in Validated(c) : e1 = e2
      BY <1>1 DEF Validated, LockInv, HoldsCap
    <2> QED  BY <1>1, <2>1, ValidatedInTime
  <1>2. TypeOK /\ LockInv /\ [Next]_vars =>
          [\A c \in lapsed : /\ Validated(c)' \subseteq Validated(c)
                             /\ \A e1, e2 \in Validated(c) : e1 = e2]_vars
    BY <1>1
  <1> QED  BY <1>2, TypeInit, TypeStep, LockInit, LockStep, PTL DEF Spec, LapsedDrains
----------------------------------------------------------------------------
(* Gateway implements CapabilityLedger. *)

\* No handler makes a withdrawn capability active again.
LEMMA NeverRevived ==
  ASSUME TypeOK, [Next]_vars, NEW c \in Caps, capStatus'[c] = "active"
  PROVE  capStatus[c] = "active"
  <1> USE DEF db, asked
  <1>1. CASE UNCHANGED capStatus
    BY <1>1
  <1>2. ASSUME NEW r \in Revokers, RevokeCommit(r) PROVE capStatus[c] = "active"
    BY <1>2 DEF RevokeCommit, TypeOK
  <1>3. ASSUME NEW o \in Closers, CloseCommit(o) PROVE capStatus[c] = "active"
    BY <1>3 DEF CloseCommit, TypeOK
  <1>4. ASSUME NEW e \in Execs, Execute(e) PROVE UNCHANGED capStatus
    BY <1>4 DEF Execute, Submit, LockCap, Replay, Refuse, Call, Record, Lose, RollBack
  <1>5. ASSUME NEW r \in Revokers, RevokeRead(r) PROVE UNCHANGED capStatus
    BY <1>5 DEF RevokeRead
  <1>6. ASSUME NEW o \in Closers, CloseRead(o) \/ CloseFlush(o) \/ CloseLockCap(o)
        PROVE  UNCHANGED capStatus
    BY <1>6 DEF CloseRead, CloseFlush, CloseLockCap
  <1>7. ASSUME \/ \E x \in Caps : Lapse(x)
               \/ Victim \/ OperatorFails \/ Crash \/ UNCHANGED vars
        PROVE  UNCHANGED capStatus
    BY <1>7 DEF Lapse, Victim, OperatorFails, RollBack, AbortClose, Crash, vars
  <1> QED  BY <1>1, <1>2, <1>3, <1>4, <1>5, <1>6, <1>7 DEF Next, Revoke, Close

\* The ledger counts with the Cardinality of its own instance of FiniteSets.
LEMMA LedgerCardinality == \A S : Ledger!Cardinality(S) = Cardinality(S)
  BY DEF Ledger!Cardinality, Cardinality

\* A task's charges in the ledger are no more than its invocations.
LEMMA BookedBound ==
  ASSUME TypeOK, NEW t \in Tasks
  PROVE  /\ Ledger!Cardinality(Ledger!Booked(t)) \in Nat
         /\ Ledger!Cardinality(Ledger!Booked(t)) <= Cardinality(InvokedFor(t))
  <1> DEFINE f == [e \in InvokedFor(t) |->
                     [id |-> e, cap |-> CapOf(e), key |-> call[e].key]]
  <1>1. f \in Surjection(InvokedFor(t), Ledger!Booked(t))
    BY DEF Surjection, InvokedFor, TaskFor, CapOf, Ledger!Booked
  <1>2. IsFiniteSet(InvokedFor(t))
    BY InvokedFinite
  <1>3. /\ Cardinality(Ledger!Booked(t)) \in Nat
        /\ Cardinality(Ledger!Booked(t)) <= Cardinality(InvokedFor(t))
    BY <1>1, <1>2, FS_Surjection, FS_CardinalityType
  <1> QED  BY <1>3, LedgerCardinality

\* The gateway starts as the ledger does.
LEMMA LedgerInit == Init => Ledger!Init
  BY DEF Init, Ledger!Init

\* Every step of the gateway is a charge, a withdrawal or nothing to the ledger.
LEMMA LedgerStep ==
  TypeOK /\ LockInv /\ BudgetRespected /\ KeyChargedOnce /\ [Next]_vars
    => [Ledger!Next]_(Ledger!ledgerVars)
  <1> SUFFICES ASSUME TypeOK, LockInv, BudgetRespected, KeyChargedOnce, [Next]_vars
               PROVE  Ledger!Next
    OBVIOUS
  <1> DEFINE live == {c \in Caps : capStatus[c] = "active"}
  <1>0. call' = call
    BY StepKinds
  <1>1. ASSUME UNCHANGED invocations PROVE Ledger!Next
    <2>1. live' \subseteq live
      BY NeverRevived
    <2>2. PICK S : S = live \ live'
      OBVIOUS
    <2>3. S \in SUBSET live /\ live' = live \ S
      BY <2>1, <2>2
    <2>4. Ledger!Withdraw(S)
      BY <1>0, <1>1, <2>3 DEF Ledger!Withdraw, CapOf
    <2> QED  BY <2>3, <2>4 DEF Ledger!Next
  <1>2. ASSUME NEW e \in Execs, Record(e) PROVE Ledger!Next
    <2> PICK c, t, k : c = CapOf(e) /\ t = TaskFor(e) /\ k = call[e].key
      OBVIOUS
    <2>0. c \in Caps /\ t \in Tasks /\ t = TaskOf[c] /\ k \in Keys \cup {NoKey}
      BY CallType DEF TypeOK, ExecRequests, CapOf, TaskFor
    <2>1. capStatus[c] = "active" /\ e \notin invocations
      BY <1>2 DEF Record, LockInv, HoldsCap, RecordedDone
    <2>2. Ledger!Cardinality(Ledger!Booked(t)) < MaxActions
      <3>1. InvokedFor(t) \cup {e} \subseteq Charged(t)
        BY <1>2 DEF Record, InvokedFor, Charged, TypeOK
      <3>2. IsFiniteSet(InvokedFor(t)) /\ e \notin InvokedFor(t)
        BY <2>1, InvokedFinite DEF InvokedFor
      <3>3. Cardinality(InvokedFor(t) \cup {e}) = Cardinality(InvokedFor(t)) + 1
        BY <3>2, FS_AddElement
      <3>4. Cardinality(InvokedFor(t) \cup {e}) <= Cardinality(Charged(t))
        BY <3>1, InvokedFinite, FS_Subset
      <3>5. Cardinality(Charged(t)) <= MaxActions
        BY <2>0 DEF BudgetRespected
      <3>6. /\ Cardinality(InvokedFor(t)) \in Nat
            /\ Cardinality(Charged(t)) \in Nat
        BY InvokedFinite
      <3> QED  BY <2>0, <3>3, <3>4, <3>5, <3>6, BookedBound, GatewayAssumption
    <2>3. k # NoKey => \A x \in invocations : CapOf(x) = c => call[x].key # k
      BY <1>2, <2>1 DEF Record, KeyChargedOnce, TypeOK
    <2>4. Ledger!Charge(e, c, k)
      BY <1>0, <1>2, <2>0, <2>1, <2>2, <2>3 DEF Record, Ledger!Charge, CapOf
    <2> QED  BY <2>0, <2>4 DEF Ledger!Next
  <1>3. ASSUME NEW e \in Execs, Call(e) PROVE UNCHANGED invocations
    BY <1>3 DEF Call, db
  <1> QED  BY <1>1, <1>2, <1>3, StepKinds DEF Quiet

\* The gateway keeps the ledger's promises: every recorded invocation is a
\* charge to a live capability within the budget, and capabilities only die.
THEOREM LedgerImplemented == Spec => ImplementsLedger
  <1> DEFINE Inv == TypeOK /\ LockInv /\ BudgetRespected /\ KeyChargedOnce
  <1>1. Init => Inv
    BY TypeInit, LockInit, BudgetInit, KeyInit
  <1>2. Inv /\ [Next]_vars => Inv'
    BY TypeStep, LockStep, BudgetStep, KeyStep
  <1>3. Inv /\ [Next]_vars => [Ledger!Next]_(Ledger!ledgerVars)
    BY LedgerStep
  <1> QED  BY <1>1, <1>2, <1>3, LedgerInit, PTL DEF Spec, ImplementsLedger, Ledger!Spec
=============================================================================
