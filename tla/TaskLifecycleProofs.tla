------------------------ MODULE TaskLifecycleProofs ------------------------
(* Proofs about the handlers of one task, for any number of requests and    *)
(* systems: first those of every interleaving, then those of handlers that  *)
(* do not overlap.                                                          *)
EXTENDS TaskLifecycle, FiniteSetTheorems, TLAPS

USE LifecycleAssumption

LEMMA Typed == TypeOK /\ [Next]_vars => TypeOK'
<1> SUFFICES ASSUME TypeOK, [Next]_vars PROVE TypeOK'
  OBVIOUS
<1> USE DEF TypeOK, Goto
<1>1. CASE Create
  BY <1>1 DEF Create, table, Statuses
<1>2. ASSUME NEW p \in Requests, Read(p) PROVE TypeOK'
  BY <1>2 DEF Read, table
<1>3. ASSUME NEW p \in Requests, Classify(p) PROVE TypeOK'
  BY <1>3 DEF Classify, table, Statuses
<1>4. ASSUME NEW p \in Requests, Evaluate(p) PROVE TypeOK'
  BY <1>4 DEF Evaluate, StatusFor, Statuses
<1>5. ASSUME NEW p \in Requests, Approve(p) PROVE TypeOK'
  BY <1>5 DEF Approve, Statuses
<1>6. ASSUME NEW p \in Requests, Mint(p) PROVE TypeOK'
  BY <1>6 DEF Mint, Statuses
<1>7. ASSUME NEW p \in Requests, Sweep(p) PROVE TypeOK'
  BY <1>7 DEF Sweep, Active, table
<1>8. ASSUME NEW p \in Requests, Close(p) PROVE TypeOK'
  BY <1>8 DEF Close, Statuses
<1>9. ASSUME NEW p \in Requests, RevokeRead(p) PROVE TypeOK'
  BY <1>9 DEF RevokeRead, table, Operations
<1>10. ASSUME NEW p \in Requests, RevokeCommit(p) PROVE TypeOK'
  BY <1>10 DEF RevokeCommit
<1>11. ASSUME NEW p \in Requests, RollBack(p) PROVE TypeOK'
  BY <1>11 DEF RollBack, table
<1>12. CASE UNCHANGED vars
  BY <1>12 DEF vars, table
<1> QED
  BY <1>1, <1>2, <1>3, <1>4, <1>5, <1>6, <1>7, <1>8, <1>9, <1>10, <1>11, <1>12
     DEF Next, Handle

(* The task, its records and its handlers keep their types                  *)
(* (routes.py:100-613).                                                     *)
THEOREM TypeCorrect == Spec => []TypeOK
<1>1. Init => TypeOK
  BY DEF Init, TypeOK, Statuses
<1> QED
  BY <1>1, Typed, PTL DEF Spec
----------------------------------------------------------------------------
(* A capability exists from the mint that is done on, and only capabilities *)
(* that exist are aimed at; what was revoked has not become active again.   *)
MintedInv ==
    /\ \A c \in Caps : caps[c] # "none" => pc[c[1]] = "done"
    /\ \A p \in Requests : \A c \in aim[p] : caps[c] # "none"
    /\ \A r \in revocations : caps[r[2]] \in {"revoked", "expired"}

LEMMA MintedKept == TypeOK /\ MintedInv /\ [Next]_vars => MintedInv'
<1> SUFFICES ASSUME TypeOK, MintedInv, [Next]_vars PROVE MintedInv'
  OBVIOUS
<1> USE DEF TypeOK, Goto, Flushes, MintedInv, Caps
<1>1. CASE Create
  BY <1>1 DEF Create, table
<1>2. ASSUME NEW p \in Requests, Read(p) PROVE MintedInv'
  BY <1>2 DEF Read, table
<1>3. ASSUME NEW p \in Requests, Classify(p) PROVE MintedInv'
  BY <1>3 DEF Classify, table
<1>4. ASSUME NEW p \in Requests, Evaluate(p) PROVE MintedInv'
  BY <1>4 DEF Evaluate
<1>5. ASSUME NEW p \in Requests, Approve(p) PROVE MintedInv'
  BY <1>5 DEF Approve
<1>6. ASSUME NEW p \in Requests, Mint(p) PROVE MintedInv'
  BY <1>6 DEF Mint
<1>7. ASSUME NEW p \in Requests, Sweep(p) PROVE MintedInv'
  BY <1>7 DEF Sweep, Active, table
<1>8. ASSUME NEW p \in Requests, Close(p) PROVE MintedInv'
  BY <1>8 DEF Close
<1>9. ASSUME NEW p \in Requests, RevokeRead(p) PROVE MintedInv'
  BY <1>9 DEF RevokeRead, table
<1>10. ASSUME NEW p \in Requests, RevokeCommit(p) PROVE MintedInv'
  BY <1>10 DEF RevokeCommit
<1>11. ASSUME NEW p \in Requests, RollBack(p) PROVE MintedInv'
  BY <1>11 DEF RollBack, table
<1>12. CASE UNCHANGED vars
  BY <1>12 DEF vars, table
<1> QED
  BY <1>1, <1>2, <1>3, <1>4, <1>5, <1>6, <1>7, <1>8, <1>9, <1>10, <1>11, <1>12
     DEF Next, Handle

LEMMA MintedAlways == Spec => [](TypeOK /\ MintedInv)
<1>1. Init => MintedInv
  BY DEF Init, MintedInv
<1> QED
  BY <1>1, TypeCorrect, MintedKept, PTL DEF Spec

(* A capability whose revocation was answered never becomes active again    *)
(* (routes.py:583-613).                                                     *)
THEOREM RevocationSafe == Spec => []RevocationSticks
<1>1. TypeOK /\ MintedInv => RevocationSticks
  BY DEF MintedInv, RevocationSticks
<1> QED
  BY <1>1, MintedAlways, PTL
----------------------------------------------------------------------------
(* What a handler saw when it read the task stays true of the policy and of *)
(* the operators, though not of the status.                                 *)
Awaited == decisions # {} /\ effect = "require_approval"

ClearedInv ==
    /\ status \in {"approved", "executing"} => Cleared
    /\ status = "pending_approval" => Awaited
    /\ \A p \in Requests : pc[p] = "flush" =>
          /\ asks[p] = "mint" => Cleared
          /\ asks[p] \in {"approve", "deny"} => Awaited
    /\ \A p \in approvals : pc[p] # "idle"
    /\ (\E c \in Caps : caps[c] # "none") => Cleared

LEMMA ClearedKept == TypeOK /\ MintedInv /\ ClearedInv /\ [Next]_vars => ClearedInv'
<1> SUFFICES ASSUME TypeOK, MintedInv, ClearedInv, [Next]_vars PROVE ClearedInv'
  OBVIOUS
<1> USE DEF TypeOK, Goto, Flushes
<1>0. ASSUME effect' = effect, decisions \subseteq decisions', approvals \subseteq approvals',
             \A a \in approvals : asks'[a] = asks[a]
      PROVE  (Cleared => Cleared') /\ (Awaited => Awaited')
  BY <1>0 DEF Cleared, Awaited
<1>1. CASE Create
  BY <1>0, <1>1 DEF Create, table, ClearedInv
<1>2. ASSUME NEW p \in Requests, Read(p) PROVE ClearedInv'
  <2>1. PICK op \in Operations \ {"revoke"} :
          status \in Expected(op) /\ asks' = [asks EXCEPT ![p] = op]
    BY <1>2 DEF Read
  <2>2. (Cleared => Cleared') /\ (Awaited => Awaited')
    BY <1>0, <1>2, <2>1 DEF Read, table, ClearedInv
  <2>3. op = "mint" => Cleared
    BY <2>1 DEF Expected, ClearedInv
  <2>4. op \in {"approve", "deny"} => Awaited
    BY <2>1 DEF Expected, ClearedInv
  <2> QED
    BY <1>2, <2>1, <2>2, <2>3, <2>4 DEF Read, table, ClearedInv, Operations
<1>3. ASSUME NEW p \in Requests, Classify(p) PROVE ClearedInv'
  BY <1>0, <1>3 DEF Classify, table, ClearedInv
<1>4. ASSUME NEW p \in Requests, Evaluate(p) PROVE ClearedInv'
  <2>1. (Cleared => Cleared') /\ (Awaited => Awaited')
    BY <1>0, <1>4 DEF Evaluate
  <2>2. status' = "approved" => Cleared'
    BY <1>4 DEF Evaluate, StatusFor, Cleared
  <2>3. status' = "pending_approval" => Awaited'
    BY <1>4 DEF Evaluate, StatusFor, Awaited
  <2>4. status' # "executing"
    BY <1>4 DEF Evaluate, StatusFor
  <2> QED
    BY <1>4, <2>1, <2>2, <2>3, <2>4 DEF Evaluate, ClearedInv
<1>5. ASSUME NEW p \in Requests, Approve(p) PROVE ClearedInv'
  <2>1. (Cleared => Cleared') /\ (Awaited => Awaited')
    BY <1>0, <1>5 DEF Approve
  <2>2. Awaited
    BY <1>5 DEF Approve, ClearedInv
  <2>3. status' = "approved" => Cleared'
    BY <1>5, <2>2 DEF Approve, Cleared, Awaited
  <2> QED
    BY <1>5, <2>1, <2>3 DEF Approve, ClearedInv
<1>6. ASSUME NEW p \in Requests, Mint(p) PROVE ClearedInv'
  <2>1. (Cleared => Cleared') /\ (Awaited => Awaited')
    BY <1>0, <1>6 DEF Mint
  <2>2. Cleared
    BY <1>6 DEF Mint, ClearedInv
  <2> QED
    BY <1>6, <2>1, <2>2 DEF Mint, ClearedInv
<1>7. ASSUME NEW p \in Requests, Sweep(p) PROVE ClearedInv'
  BY <1>0, <1>7 DEF Sweep, table, ClearedInv
<1>8. ASSUME NEW p \in Requests, Close(p) PROVE ClearedInv'
  <2>1. (Cleared => Cleared') /\ (Awaited => Awaited')
    BY <1>0, <1>8 DEF Close
  <2>2. \A c \in Caps : caps'[c] # "none" => caps[c] # "none"
    BY <1>8 DEF Close, MintedInv
  <2> QED
    BY <1>8, <2>1, <2>2 DEF Close, ClearedInv
<1>9. ASSUME NEW p \in Requests, RevokeRead(p) PROVE ClearedInv'
  BY <1>0, <1>9 DEF RevokeRead, table, ClearedInv
<1>10. ASSUME NEW p \in Requests, RevokeCommit(p) PROVE ClearedInv'
  <2>1. (Cleared => Cleared') /\ (Awaited => Awaited')
    BY <1>0, <1>10 DEF RevokeCommit
  <2>2. \A c \in Caps : caps'[c] # "none" => caps[c] # "none"
    BY <1>10 DEF RevokeCommit, MintedInv
  <2> QED
    BY <1>10, <2>1, <2>2 DEF RevokeCommit, ClearedInv
<1>11. ASSUME NEW p \in Requests, RollBack(p) PROVE ClearedInv'
  BY <1>0, <1>11 DEF RollBack, table, ClearedInv
<1>12. CASE UNCHANGED vars
  BY <1>0, <1>12 DEF vars, table, ClearedInv
<1> QED
  BY <1>1, <1>2, <1>3, <1>4, <1>5, <1>6, <1>7, <1>8, <1>9, <1>10, <1>11, <1>12
     DEF Next, Handle
(* Whatever stale handlers overlap, a capability is minted only for a task  *)
(* that the policy, or an operator, let pass (routes.py:238-254, 315, 336). *)
THEOREM AuthorisedSafe == Spec => []Authorised
<1>1. Init => ClearedInv
  BY DEF Init, ClearedInv
<1>2. ClearedInv => Authorised
  BY DEF ClearedInv, Cleared, Authorised
<1> QED
  BY <1>1, <1>2, MintedAlways, ClearedKept, PTL DEF Spec
----------------------------------------------------------------------------
(* A closer keeps the task row, so it has listed every capability that is   *)
(* still active when it commits.                                            *)
SweepInv ==
    \A p \in Requests : pc[p] = "sweep" =>
        taskLock = p /\ asks[p] \in {"complete", "fail"} /\ Active \subseteq aim[p]

LEMMA SweepKept == TypeOK /\ SweepInv /\ [Next]_vars => SweepInv'
<1> SUFFICES ASSUME TypeOK, SweepInv, [Next]_vars PROVE SweepInv'
  OBVIOUS
<1> USE DEF TypeOK, Goto, Flushes, SweepInv, Active
<1>1. CASE Create
  BY <1>1 DEF Create, table
<1>2. ASSUME NEW p \in Requests, Read(p) PROVE SweepInv'
  BY <1>2 DEF Read, table
<1>3. ASSUME NEW p \in Requests, Classify(p) PROVE SweepInv'
  BY <1>3 DEF Classify, table
<1>4. ASSUME NEW p \in Requests, Evaluate(p) PROVE SweepInv'
  BY <1>4 DEF Evaluate
<1>5. ASSUME NEW p \in Requests, Approve(p) PROVE SweepInv'
  BY <1>5 DEF Approve
<1>6. ASSUME NEW p \in Requests, Mint(p) PROVE SweepInv'
  BY <1>6, LifecycleAssumption DEF Mint, LifecycleAssumption
<1>7. ASSUME NEW p \in Requests, Sweep(p) PROVE SweepInv'
  BY <1>7, LifecycleAssumption DEF Sweep, table, LifecycleAssumption
<1>8. ASSUME NEW p \in Requests, Close(p) PROVE SweepInv'
  BY <1>8 DEF Close
<1>9. ASSUME NEW p \in Requests, RevokeRead(p) PROVE SweepInv'
  BY <1>9 DEF RevokeRead, table
<1>10. ASSUME NEW p \in Requests, RevokeCommit(p) PROVE SweepInv'
  BY <1>10 DEF RevokeCommit
<1>11. ASSUME NEW p \in Requests, RollBack(p) PROVE SweepInv'
  BY <1>11 DEF RollBack, table
<1>12. CASE UNCHANGED vars
  BY <1>12 DEF vars, table
<1> QED
  BY <1>1, <1>2, <1>3, <1>4, <1>5, <1>6, <1>7, <1>8, <1>9, <1>10, <1>11, <1>12
     DEF Next, Handle

(* The one step that ends a sweep well closes all that is active.           *)
LEMMA SweepEnds ==
  ASSUME TypeOK, SweepInv, [Next]_vars,
         NEW p \in Requests, pc[p] = "sweep", pc'[p] = "done"
  PROVE  Active' = {}
<1>1. Close(p)
  BY DEF Next, Handle, Create, Read, Classify, Evaluate, Approve, Mint, Sweep, Close,
         RevokeRead, RevokeCommit, RollBack, Flushes, Goto, vars, TypeOK
<1> QED
  BY <1>1 DEF Close, SweepInv, Active, TypeOK

(* When a completion or a failure commits, no capability of the task is     *)
(* active, whatever was minted until then (routes.py:522-532, 557-567).     *)
THEOREM ClosureSafe == Spec => ClosureSweepsAll
<1>1. Init => SweepInv
  BY DEF Init, SweepInv
<1>2. TypeOK /\ SweepInv /\ [Next]_vars =>
        [\A p \in Requests : pc[p] = "sweep" /\ pc'[p] = "done" => Active' = {}]_vars
  BY SweepEnds
<1> QED
  BY <1>1, <1>2, TypeCorrect, SweepKept, PTL DEF Spec, ClosureSweepsAll
----------------------------------------------------------------------------
(* The lifecycle implements TaskGrants, overlapping handlers included.      *)

(* A revoker is about to update the one capability it names.                *)
AimInv ==
    \A p \in Requests : pc[p] = "flush" /\ asks[p] = "revoke" =>
        \E c \in Caps : aim[p] = {c}

LEMMA AimKept == TypeOK /\ AimInv /\ [Next]_vars => AimInv'
<1> SUFFICES ASSUME TypeOK, AimInv, [Next]_vars PROVE AimInv'
  OBVIOUS
<1> USE DEF TypeOK, Goto, Flushes, AimInv
<1>1. ASSUME NEW p \in Requests, Read(p) \/ RevokeRead(p) PROVE AimInv'
  BY <1>1 DEF Read, RevokeRead
<1>2. ASSUME NEW p \in Requests, Classify(p) \/ Evaluate(p) \/ Approve(p) \/ Mint(p)
      PROVE  AimInv'
  BY <1>2 DEF Classify, Evaluate, Approve, Mint
<1>3. ASSUME NEW p \in Requests, Sweep(p) \/ Close(p) \/ RevokeCommit(p) \/ RollBack(p)
      PROVE  AimInv'
  BY <1>3 DEF Sweep, Close, RevokeCommit, RollBack
<1>4. CASE Create \/ UNCHANGED vars
  BY <1>4 DEF Create, vars
<1> QED
  BY <1>1, <1>2, <1>3, <1>4 DEF Next, Handle

(* A clearance is never taken back: decisions and approvals are only added, *)
(* and what an answered request asked for does not change.                  *)
LEMMA ClearedStays ==
  ASSUME TypeOK, ClearedInv, [Next]_vars, Cleared
  PROVE  Cleared'
<1> USE DEF TypeOK, Goto, Flushes
<1>1. effect' = effect /\ decisions \subseteq decisions' /\ approvals \subseteq approvals'
  BY DEF Next, Handle, Create, Read, Classify, Evaluate, Approve, Mint, Sweep, Close,
         RevokeRead, RevokeCommit, RollBack, vars, table
<1>2. \A a \in approvals : asks'[a] = asks[a]
  BY DEF ClearedInv, Next, Handle, Create, Read, Classify, Evaluate, Approve, Mint, Sweep,
         Close, RevokeRead, RevokeCommit, RollBack, vars
<1> QED
  BY <1>1, <1>2 DEF Cleared

(* Every step of a handler clears, grants, closes, revokes or changes       *)
(* nothing that TaskGrants speaks of.                                       *)
LEMMA StepIsGrants ==
    TypeOK /\ MintedInv /\ ClearedInv /\ SweepInv /\ AimInv /\ [Next]_vars
      => [Grants!Next]_(Grants!grantVars)
<1> SUFFICES ASSUME TypeOK, MintedInv, ClearedInv, SweepInv, AimInv, [Next]_vars
             PROVE  [Grants!Next]_(Grants!grantVars)
  OBVIOUS
<1> DEFINE Step == [Grants!Next]_(Grants!grantVars)
           sealed == {r[2] : r \in revocations}
<1>0. Cleared => Cleared'
  BY ClearedStays
<1>1. ASSUME UNCHANGED <<caps, revocations>> PROVE Step
  <2>1. CASE Cleared' = Cleared
    BY <1>1, <2>1 DEF Grants!grantVars
  <2>2. CASE Cleared' = TRUE
    BY <1>1, <2>2 DEF Grants!Next, Grants!Clear
  <2>3. Cleared \in BOOLEAN /\ Cleared' \in BOOLEAN
    BY DEF Cleared
  <2> QED
    BY <1>0, <2>1, <2>2, <2>3
<1>2. ASSUME NEW p \in Requests, Mint(p) PROVE Step
  <2>1. Cleared = TRUE /\ Cleared' = TRUE
    BY <1>0, <1>2 DEF Mint, Flushes, ClearedInv, Cleared
  <2>2. \A s \in Systems : <<p, s>> \in Caps /\ caps[<<p, s>>] = "none"
    BY <1>2 DEF Mint, Flushes, MintedInv, Caps
  <2>3. Grants!Grant(p)
    BY <1>2, <2>1, <2>2 DEF Mint, Grants!Grant, Grants!Caps, Caps
  <2> QED
    BY <2>3 DEF Grants!Next
<1>3. ASSUME NEW p \in Requests, Close(p) PROVE Step
  <2>1. asks[p] \in {"complete", "fail"} /\ Active \subseteq aim[p]
    BY <1>3 DEF Close, SweepInv
  <2>2. aim[p] \in SUBSET Grants!Minted /\ Grants!Active \subseteq aim[p]
    BY <2>1 DEF MintedInv, TypeOK, Active, Grants!Minted, Grants!Active, Grants!Caps, Caps
  <2>3. PICK verdict \in {"expired", "revoked"} :
          verdict = IF asks[p] = "complete" THEN "expired" ELSE "revoked"
    OBVIOUS
  <2>4. caps' = Grants!Withdrawn(aim[p], verdict)
    BY <1>3, <2>3 DEF Close, Grants!Withdrawn, Grants!Caps, Caps, TypeOK
  <2>5. UNCHANGED <<effect, decisions, approvals, asks, revocations>>
    BY <1>3 DEF Close
  <2>6. Grants!CloseAll
    BY <2>2, <2>4, <2>5 DEF Grants!CloseAll, Cleared
  <2> QED
    BY <2>6 DEF Grants!Next
<1>4. ASSUME NEW p \in Requests, RevokeCommit(p) PROVE Step
  <2>1. PICK c \in Caps : aim[p] = {c}
    BY <1>4 DEF RevokeCommit, AimInv
  <2>2. c \in Grants!Minted
    BY <2>1 DEF MintedInv, Grants!Minted, Grants!Caps, Caps
  <2>3. caps' = Grants!Withdrawn({c}, "revoked")
    BY <1>4, <2>1 DEF RevokeCommit, Grants!Withdrawn, Grants!Caps, Caps
  <2>4. sealed' = sealed \cup {c}
    <3>1. revocations' = revocations \cup {<<p, c>>}
      BY <1>4, <2>1 DEF RevokeCommit
    <3>2. <<p, c>>[2] = c
      OBVIOUS
    <3>3. sealed' = {r[2] : r \in revocations'}
      OBVIOUS
    <3> QED
      BY <3>1, <3>2, <3>3, Zenon
  <2>5. UNCHANGED <<effect, decisions, approvals, asks>>
    BY <1>4 DEF RevokeCommit
  <2>6. Grants!Revoke(c)
    BY <2>2, <2>3, <2>4, <2>5 DEF Grants!Revoke, Cleared
  <2> QED
    BY <2>6 DEF Grants!Next, Grants!Caps, Caps
<1>5. ASSUME NEW p \in Requests,
             \/ Read(p) \/ Classify(p) \/ Evaluate(p) \/ Approve(p)
             \/ Sweep(p) \/ RevokeRead(p) \/ RollBack(p)
      PROVE  UNCHANGED <<caps, revocations>>
  BY <1>5 DEF Read, Classify, Evaluate, Approve, Sweep, RevokeRead, RollBack, table
<1>6. CASE Create \/ UNCHANGED vars
  BY <1>1, <1>6 DEF Create, vars, table
<1> QED
  BY <1>1, <1>2, <1>3, <1>4, <1>5, <1>6 DEF Next, Handle

(* However the handlers of a task overlap, fail or roll back, capabilities  *)
(* are minted whole and only when cleared, a closure leaves none active,    *)
(* and a withdrawal is for good (routes.py:311-382, 504-613).               *)
THEOREM GrantsImplemented == Spec => ImplementsGrants
<1>1. Init => Grants!Init /\ MintedInv /\ ClearedInv /\ SweepInv /\ AimInv
  BY DEF Init, Grants!Init, Grants!Caps, Caps, MintedInv, ClearedInv, Cleared,
         SweepInv, AimInv, Active
<1>2. TypeOK /\ MintedInv /\ ClearedInv /\ SweepInv /\ AimInv /\ [Next]_vars
        => [Grants!Next]_(Grants!grantVars)
  BY StepIsGrants
<1> QED
  BY <1>1, <1>2, TypeCorrect, MintedKept, ClearedKept, SweepKept, AimKept, PTL
     DEF Spec, ImplementsGrants, Grants!Spec
----------------------------------------------------------------------------
(* When handlers do not overlap, what each of them read still holds when it *)
(* writes.                                                                  *)
Serial == MaxInFlight = 1

SerialInv ==
    /\ \A p, q \in InFlight : p = q
    /\ \A p \in InFlight : asks[p] # "revoke" => status \in Expected(asks[p])
    /\ \A p \in InFlight : asks[p] = "revoke" =>
          \E c \in Caps : aim[p] = {c} /\ caps[c] = "active"
    /\ Active # {} => status = "executing"
    /\ \A p \in Requests : asks[p] = "fail" /\ pc[p] = "done" => status = "failed"
    /\ RevokedOnce

LEMMA NoneInFlight ==
    Serial /\ TypeOK /\ Cardinality(InFlight) < MaxInFlight => InFlight = {}
<1>1. IsFiniteSet(InFlight)
  BY LifecycleAssumption, FS_Subset DEF LifecycleAssumption, InFlight
<1> QED
  BY <1>1, FS_CardinalityType, FS_EmptySet DEF Serial

LEMMA SerialKept ==
    Serial /\ TypeOK /\ MintedInv /\ SweepInv /\ SerialInv /\ [Next]_vars => SerialInv'
<1> SUFFICES ASSUME Serial, TypeOK, MintedInv, SweepInv, SerialInv, [Next]_vars
             PROVE  SerialInv'
  OBVIOUS
<1> USE DEF TypeOK, Goto, Flushes, SerialInv, Active, InFlight, RevokedOnce
<1>1. CASE Create
  BY <1>1 DEF Create, table, Expected
<1>2. ASSUME NEW p \in Requests, Read(p) PROVE SerialInv'
  BY <1>2, NoneInFlight DEF Read, table
<1>3. ASSUME NEW p \in Requests, Classify(p) PROVE SerialInv'
  BY <1>3 DEF Classify, table, Expected
<1>4. ASSUME NEW p \in Requests, Evaluate(p) PROVE SerialInv'
  BY <1>4 DEF Evaluate, Expected
<1>5. ASSUME NEW p \in Requests, Approve(p) PROVE SerialInv'
  BY <1>5 DEF Approve, Expected
<1>6. ASSUME NEW p \in Requests, Mint(p) PROVE SerialInv'
  BY <1>6 DEF Mint, Expected
<1>7. ASSUME NEW p \in Requests, Sweep(p) PROVE SerialInv'
  BY <1>7 DEF Sweep, table
<1>8. ASSUME NEW p \in Requests, Close(p) PROVE SerialInv'
  BY <1>8 DEF Close, Expected, SweepInv
<1>9. ASSUME NEW p \in Requests, RevokeRead(p) PROVE SerialInv'
  BY <1>9, NoneInFlight DEF RevokeRead, table
<1>10. ASSUME NEW p \in Requests, RevokeCommit(p) PROVE SerialInv'
  BY <1>10 DEF RevokeCommit, MintedInv
<1>11. ASSUME NEW p \in Requests, RollBack(p) PROVE SerialInv'
  BY <1>11 DEF RollBack, table
<1>12. CASE UNCHANGED vars
  BY <1>12 DEF vars, table
<1> QED
  BY <1>1, <1>2, <1>3, <1>4, <1>5, <1>6, <1>7, <1>8, <1>9, <1>10, <1>11, <1>12
     DEF Next, Handle

LEMMA SerialAlways == Serial => (Spec => [](TypeOK /\ SweepInv /\ SerialInv))
<1> SUFFICES ASSUME Serial PROVE Spec => [](TypeOK /\ SweepInv /\ SerialInv)
  OBVIOUS
<1>1. Init => SerialInv /\ SweepInv
  BY DEF Init, SerialInv, SweepInv, Active, InFlight, RevokedOnce
<1>2. TypeOK /\ MintedInv /\ SweepInv /\ SerialInv /\ [Next]_vars => SerialInv'
  BY SerialKept
<1> QED
  BY <1>1, <1>2, MintedAlways, SweepKept, PTL DEF Spec

(* An operator revokes a capability at most once (routes.py:588-589).       *)
THEOREM RevokedOnceSafe == Serial => (Spec => []RevokedOnce)
<1> SUFFICES ASSUME Serial PROVE Spec => []RevokedOnce
  OBVIOUS
<1>1. SerialInv => RevokedOnce
  BY DEF SerialInv
<1>2. Spec => []SerialInv
  BY SerialAlways, PTL
<1> QED
  BY <1>1, <1>2, PTL

(* After a failure was answered nothing is active (routes.py:547).          *)
THEOREM FailureSafe == Serial => (Spec => []FailureRevokesAll)
<1> SUFFICES ASSUME Serial PROVE Spec => []FailureRevokesAll
  OBVIOUS
<1>1. SerialInv => FailureRevokesAll
  BY DEF SerialInv, FailureRevokesAll
<1>2. Spec => []SerialInv
  BY SerialAlways, PTL
<1> QED
  BY <1>1, <1>2, PTL
----------------------------------------------------------------------------
(* Every step of a handler is a move of the task, the end of its last       *)
(* capability, or no step of the machine.                                   *)
LEMMA StepIsMachines ==
    Serial /\ TypeOK /\ SweepInv /\ SerialInv /\ SerialInv' /\ [Next]_vars
      => [Machine!Next]_<<status, Active # {}>>
<1> SUFFICES ASSUME Serial, TypeOK, SweepInv, SerialInv, SerialInv', [Next]_vars
             PROVE  [Machine!Next]_<<status, Active # {}>>
  OBVIOUS
<1> DEFINE Step == [Machine!Next]_<<status, Active # {}>>
<1>0. ASSUME <<status, status'>> \in Machine!Moves, status' # "executing" PROVE Step
  BY <1>0 DEF SerialInv, Machine!Next, Machine!Move
<1>00. ASSUME UNCHANGED <<status, caps>> PROVE Step
  BY <1>00 DEF Active
<1> USE DEF TypeOK, Goto, Flushes, InFlight
<1>1. CASE Create
  BY <1>0, <1>1 DEF Create, Machine!Moves
<1>2. ASSUME NEW p \in Requests, Read(p) PROVE Step
  BY <1>00, <1>2 DEF Read, table
<1>3. ASSUME NEW p \in Requests, Classify(p) PROVE Step
  BY <1>0, <1>3 DEF Classify, SerialInv, Expected, Machine!Moves
<1>4. ASSUME NEW p \in Requests, Evaluate(p) PROVE Step
  BY <1>0, <1>4 DEF Evaluate, SerialInv, Expected, StatusFor, Machine!Moves
<1>5. ASSUME NEW p \in Requests, Approve(p) PROVE Step
  <2>1. status = "pending_approval" /\ status' \in {"approved", "denied"}
    BY <1>5 DEF Approve, SerialInv, Expected
  <2> QED
    BY <1>0, <2>1 DEF Machine!Moves
<1>6. ASSUME NEW p \in Requests, Mint(p) PROVE Step
  <2>1. status = "approved" /\ status' = "executing"
    BY <1>6 DEF Mint, SerialInv, Expected
  <2>2. PICK s \in Systems : TRUE
    BY LifecycleAssumption DEF LifecycleAssumption
  <2>3. <<p, s>> \in Active'
    BY <1>6, <2>2 DEF Mint, Active, Caps
  <2> QED
    BY <2>1, <2>3 DEF Machine!Next, Machine!Move, Machine!Moves
<1>7. ASSUME NEW p \in Requests, Sweep(p) PROVE Step
  BY <1>00, <1>7 DEF Sweep, table
<1>8. ASSUME NEW p \in Requests, Close(p) PROVE Step
  <2>1. CASE asks[p] = "complete"
    BY <1>0, <1>8, <2>1 DEF Close, SerialInv, Expected, Machine!Moves
  <2>2. CASE asks[p] = "fail"
    BY <1>0, <1>8, <2>2 DEF Close, SerialInv, Expected, Machine!Moves
  <2> QED
    BY <1>8, <2>1, <2>2 DEF Close, SweepInv
<1>9. ASSUME NEW p \in Requests, RevokeRead(p) PROVE Step
  BY <1>00, <1>9 DEF RevokeRead, table
<1>10. ASSUME NEW p \in Requests, RevokeCommit(p) PROVE Step
  <2>1. Active # {} /\ status = "executing" /\ status' = status
    BY <1>10 DEF RevokeCommit, SerialInv, Active
  <2> QED
    BY <2>1 DEF Machine!Next, Machine!Revoked
<1>11. ASSUME NEW p \in Requests, RollBack(p) PROVE Step
  BY <1>00, <1>11 DEF RollBack, table
<1>12. CASE UNCHANGED vars
  BY <1>00, <1>12 DEF vars, table
<1> QED
  BY <1>1, <1>2, <1>3, <1>4, <1>5, <1>6, <1>7, <1>8, <1>9, <1>10, <1>11, <1>12
     DEF Next, Handle

(* Handlers that do not overlap take the task through the machine of the    *)
(* documented life, for any number of requests and systems.                 *)
THEOREM MachineImplemented == Serial => (Spec => ImplementsMachine)
<1> SUFFICES ASSUME Serial PROVE Spec => ImplementsMachine
  OBVIOUS
<1>1. Init => Machine!Init
  BY DEF Init, Machine!Init, Active
<1>2. TypeOK /\ SweepInv /\ SerialInv /\ SerialInv' /\ [Next]_vars
        => [Machine!Next]_<<status, Active # {}>>
  BY StepIsMachines
<1>3. Spec => [](TypeOK /\ SweepInv /\ SerialInv)
  BY SerialAlways
<1> QED
  BY <1>1, <1>2, <1>3, PTL DEF Spec, ImplementsMachine, Machine!Spec, Machine!machineVars
=============================================================================
