----------------------------- MODULE ToolProofs -----------------------------
(* Proofs about a tool call seen from its two ends, for every number of     *)
(* calls, keys and event loops: what execute tells the agent is true of the *)
(* work that its call, or an earlier one with the same key, has done.       *)
EXTENDS ToolClient, GatewayProofs

(* Every step of the two ends is one of the gateway, or none.               *)
LEMMA ToolSteps == [ToolNext]_<<vars, toolVars>> => [Next]_vars
  BY DEF ToolNext, Operators, Broker, EndWork, RefuseCall, RejectArguments, StartWork,
         RecordCall, LoopRevoke, LoopClose, Next, Execute

(* What agents and adapters do outside the broker adds no behaviour of the  *)
(* gateway: its guarantees hold for every caller (client.py:138-155).       *)
THEOREM ToolImplementsGateway == ToolFairSpec => Spec
<1>1. ToolInit => Init
  BY DEF ToolInit
<1> QED
  BY <1>1, ToolSteps, PTL DEF ToolFairSpec, Spec

(* A request that was answered stays so, and while its adapter works it can *)
(* only be recorded or lost.                                                *)
LEMMA OperatorsMove ==
  ASSUME TypeOK, Operators, NEW e \in Execs
  PROVE  /\ invocations' = invocations /\ call' = call
         /\ pc'[e] # pc[e] => /\ pc[e] \notin Answered
                              /\ pc'[e] = IF pc[e] = "calling" THEN "lost" ELSE "failed"
<1> DEFINE Goal == /\ invocations' = invocations /\ call' = call
                   /\ pc'[e] # pc[e] => /\ pc[e] \notin Answered
                                        /\ pc'[e] = IF pc[e] = "calling" THEN "lost" ELSE "failed"
<1> USE DEF TypeOK, Goto, db, asked, Procs
<1>1. ASSUME NEW r \in Revokers, Revoke(r) PROVE Goal
  BY <1>1, GatewayAssumption DEF Revoke, RevokeRead, RevokeCommit
<1>2. ASSUME NEW o \in Closers, Close(o) PROVE Goal
  BY <1>2, GatewayAssumption DEF Close, CloseRead, CloseFlush, CloseLockCap, CloseCommit
<1>3. CASE Victim
  <2>1. PICK x \in Execs, o \in Closers :
          pc[x] = "lockTask" /\ (RollBack(x, "failed") \/ AbortClose(o))
    BY <1>3 DEF Victim, Deadlocked
  <2>2. o # e
    BY GatewayAssumption
  <2> QED
    BY <2>1, <2>2 DEF RollBack, AbortClose, Answered
<1>4. CASE OperatorFails
  BY <1>4, GatewayAssumption DEF OperatorFails, RollBack, AbortClose
<1>5. CASE Crash
  BY <1>5 DEF Crash, Answered
<1>6. ASSUME NEW c \in Caps, Lapse(c) PROVE Goal
  BY <1>6 DEF Lapse
<1> QED
  BY <1>1, <1>2, <1>3, <1>4, <1>5, <1>6 DEF Operators, LoopRevoke, LoopClose
----------------------------------------------------------------------------
(* Requests, their work and what is recorded of them belong together.       *)
ToolInv ==
    /\ ToolTypeOK
    /\ \A e \in Execs :
        /\ e \in invocations <=> pc[e] = "done"
        /\ e \in invocations <=> stored[e] # "none"
        /\ stored[e] = "success" => work[e] = "ended_well"
        /\ work[e] # "none" => pc[e] \in {"calling", "done", "lost"}
        /\ pc[e] = "replayed" => call[e].key # NoKey

LEMMA ToolStep == TypeOK /\ ToolInv /\ [ToolNext]_<<vars, toolVars>> => ToolInv'
<1> SUFFICES ASSUME TypeOK, ToolInv, [ToolNext]_<<vars, toolVars>> PROVE ToolInv'
  OBVIOUS
<1> USE DEF ToolInv, ToolTypeOK, toolVars
<1>1. CASE Operators
  BY <1>1, OperatorsMove DEF Operators, Answered
<1>2. ASSUME NEW e \in Execs, EndWork(e) PROVE ToolInv'
  BY <1>2 DEF EndWork, vars, db, asked
<1>3. CASE UNCHANGED <<vars, toolVars>>
  BY <1>3 DEF vars, db, asked
<1>4. ASSUME NEW e \in Execs, Broker(e) PROVE ToolInv'
  <2> USE DEF TypeOK, Goto, db, asked, Procs
  <2>1. CASE (Submit(e) \/ LockCap(e)) /\ UNCHANGED toolVars
    BY <2>1 DEF Submit, LockCap
  <2>2. CASE (Replay(e) \/ Lose(e)) /\ UNCHANGED toolVars
    BY <2>2 DEF Replay, Lose, RollBack, AtTask, Replayed
  <2>3. CASE RefuseCall(e)
    BY <2>3 DEF RefuseCall, Refuse, RollBack, AtTask
  <2>4. CASE RejectArguments(e)
    BY <2>4 DEF RejectArguments, Call, AtTask
  <2>5. CASE StartWork(e)
    BY <2>5 DEF StartWork, Call, AtTask
  <2>6. CASE RecordCall(e)
    BY <2>6 DEF RecordCall, Record, SuccessOf
  <2> QED
    BY <1>4, <2>1, <2>2, <2>3, <2>4, <2>5, <2>6 DEF Broker
<1> QED
  BY <1>1, <1>2, <1>3, <1>4 DEF ToolNext

(* What was recorded of a call, and what became of its work, keep in step   *)
(* (gateway.py:287-334).                                                    *)
THEOREM ToolAlways == ToolFairSpec => [](TypeOK /\ KeyChargedOnce /\ ToolInv)
<1>1. ToolInit => ToolInv
  BY DEF ToolInit, Init, ToolInv, ToolTypeOK, Procs
<1> QED
  BY <1>1, ToolStep, ToolImplementsGateway, TypeCorrect, KeySafe, PTL DEF ToolFairSpec

(* Work and records keep their types (gateway.py:287-334).                  *)
THEOREM ToolTypeCorrect == ToolFairSpec => []ToolTypeOK
  BY ToolAlways, PTL DEF ToolInv

LEMMA SameOriginal ==
  ASSUME TypeOK, KeyChargedOnce, ToolInv, NEW e1 \in Execs, NEW e2 \in Execs,
         CapOf(e1) = CapOf(e2), call[e1].key = call[e2].key, call[e1].key # NoKey,
         pc[e1] \in {"done", "replayed"}, pc[e2] \in {"done", "replayed"},
         NEW i1 \in Original(e1), NEW i2 \in Original(e2)
  PROVE  i1 = i2
<1>1. /\ i1 \in Execs /\ i1 \in invocations
      /\ CapOf(i1) = CapOf(e1) /\ call[i1].key = call[e1].key
  BY DEF Original, TypeOK
<1>2. /\ i2 \in Execs /\ i2 \in invocations
      /\ CapOf(i2) = CapOf(e1) /\ call[i2].key = call[e1].key
  BY DEF Original, TypeOK
<1> QED
  BY <1>1, <1>2 DEF KeyChargedOnce

(* A result that execute returns, be it that of a retry, is one of a call   *)
(* that is recorded and whose work ended well (client.py:138-155,           *)
(* gateway.py:245-262, 309-334).                                            *)
THEOREM ResultSafe == ToolFairSpec => []ResultIsReal
<1>1. TypeOK /\ ToolInv => ResultIsReal
  <2> SUFFICES ASSUME TypeOK, ToolInv, NEW e \in Execs, "result" \in Heard(e)
               PROVE  \E i \in invocations :
                        /\ \/ i = e
                           \/ CapOf(i) = CapOf(e) /\ call[i].key = call[e].key /\ call[i].key # NoKey
                        /\ stored[i] = "success" /\ work[i] = "ended_well"
    BY DEF ResultIsReal
  <2>1. pc[e] \in {"done", "replayed"}
    BY DEF Heard
  <2>2. PICK i \in Original(e) : stored[i] = "success"
    BY <2>1 DEF Heard
  <2>3. i \in invocations /\ i \in Execs
    BY <2>2 DEF Original, TypeOK
  <2> QED
    BY <2>1, <2>2, <2>3 DEF Original, ToolInv
<1> QED
  BY <1>1, ToolAlways, PTL

(* Two calls with one key never hear different things of the tool           *)
(* (gateway.py:245-262).                                                    *)
THEOREM RetriesSafe == ToolFairSpec => []RetriesAgree
<1>1. TypeOK /\ KeyChargedOnce /\ ToolInv => RetriesAgree
  <2> SUFFICES ASSUME TypeOK, KeyChargedOnce, ToolInv, NEW e1 \in Execs, NEW e2 \in Execs,
                      CapOf(e1) = CapOf(e2), call[e1].key = call[e2].key,
                      call[e1].key # NoKey,
                      "result" \in Heard(e1), "adapter_error" \in Heard(e2)
               PROVE  FALSE
    BY DEF RetriesAgree
  <2>1. pc[e1] \in {"done", "replayed"} /\ pc[e2] \in {"done", "replayed"}
    BY DEF Heard
  <2>2. PICK i1 \in Original(e1) : stored[i1] = "success"
    BY <2>1 DEF Heard
  <2>3. PICK i2 \in Original(e2) : stored[i2] # "success"
    BY <2>1 DEF Heard
  <2> QED
    BY <2>1, <2>2, <2>3, SameOriginal
<1> QED
  BY <1>1, ToolAlways, PTL

(* Work that goes on when its call has ended belongs to a call recorded as  *)
(* failed or lost, and a refused call has set none going (shell.py:135-166, *)
(* http.py:121-168).                                                        *)
THEOREM WorkSafe == ToolFairSpec => []WorkAccounted
<1>1. ToolInv => WorkAccounted
  <2> SUFFICES ASSUME ToolInv, NEW e \in Execs
               PROVE  /\ work[e] = "running" /\ pc[e] # "calling" =>
                            stored[e] = "failure" \/ pc[e] = "lost"
                      /\ "refusal" \in Heard(e) => work[e] = "none"
    BY DEF WorkAccounted
  <2>1. "refusal" \in Heard(e) => pc[e] = "refused"
    BY DEF Heard
  <2> QED
    BY <2>1 DEF ToolInv, ToolTypeOK
<1> QED
  BY <1>1, ToolAlways, PTL
=============================================================================
