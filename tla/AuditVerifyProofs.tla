------------------------- MODULE AuditVerifyProofs -------------------------
(* The proofs that verification raises no false alarm but the one that      *)
(* Overtaken describes, and that the log implements AuditLog.               *)
EXTENDS AuditChainProofs, SequenceTheorems

USE AuditAssumption DEF AuditAssumption

(* The setting changes only between transactions: what they have added is   *)
(* numbered throughout, or not at all, and where one waits for a row        *)
(* without a number, that is the latest such row.                           *)
ModeInv ==
    \A w \in Writers :
        /\ \A x \in buf[w] : (x.seq = 0 => ~enabled) /\ (~enabled => x.seq = 0)
        /\ snap[w] # {} => enabled
        /\ \A x \in snap[w] : x.seq = 0 => \A z \in log : z.seq = 0 => z.ts <= x.ts

(* An event is written: what SnapKept and StepKinds leave out of its row.   *)
Wrote(w, e) ==
    /\ Added(w, e) /\ e.id = <<w, Cardinality(buf[w]) + 1>>
    /\ pc[w] # "done" /\ \A v \in Writers : pc'[v] = "done" => pc[v] = "done"
    /\ \A v \in Writers : pc[v] = "done" => pc'[v] = "done"
    /\ \A v \in Writers : snap'[v] = {} \/ snap'[v] = snap[v]
    /\ enabled' = enabled
    /\ (e.seq = 0 => ~enabled) /\ (~enabled => e.seq = 0)
    /\ e.seq = 1 /\ e.prev # NoHash =>
          \E x \in log : x.seq = 0 /\ e.prev = x.id /\ \A z \in log : z.seq = 0 => z.ts <= x.ts

LEMMA WrittenRow ==
  ASSUME TypeOK, FormInv, SnapInv, ModeInv, NEW w \in Writers,
         WriteUnchained(w) \/ WriteFirst(w) \/ WriteNext(w) \/ Wake(w)
  PROVE  \E e \in RealRows : Wrote(w, e)
<1>0. /\ \A x \in RealRows : x.id \in Ids /\ x.seq \in Nat /\ x.seq + 1 \in Nat \ {0}
      /\ \A x \in log \cup buf[w] \cup snap[w] : x \in RealRows
  BY DEF FormInv, RealRows, Rows
<1>1. /\ pc[w] \in {"writing", "waiting"} /\ pc' \in {pc, [pc EXCEPT ![w] = "writing"]}
      /\ snap' \in {snap, [snap EXCEPT ![w] = {}]} /\ enabled' = enabled
      /\ HasColumn /\ UNCHANGED <<log, migrated>> /\ Cardinality(buf[w]) < size[w]
  <2>1. ASSUME Wake(w) PROVE HasColumn /\ Cardinality(buf[w]) < size[w]
    BY <2>1 DEF Wake, SnapInv, FormInv
  <2> QED
    BY <2>1 DEF WriteUnchained, WriteFirst, WriteNext, Wake, Writing, Continue
<1>2. /\ \A v \in Writers : pc'[v] = "done" => pc[v] = "done"
      /\ \A v \in Writers : pc[v] = "done" => pc'[v] = "done"
      /\ \A v \in Writers : snap'[v] = {} \/ snap'[v] = snap[v]
      /\ pc[w] # "done"
  BY <1>1 DEF TypeOK
<1>3. ASSUME NEW seq \in Nat, NEW prev \in Ids \cup {NoHash}, Add(w, seq, prev),
             (seq = 0 => ~enabled) /\ (~enabled => seq = 0),
             \/ seq = 0 /\ prev = NoHash
             \/ buf[w] = {} /\ seq = 1 /\ prev = NoHash
             \/ \E x \in log \cup buf[w] :
                   seq = x.seq + 1 /\ prev = x.id /\ \A y \in buf[w] : y.seq <= x.seq,
             seq = 1 /\ prev # NoHash =>
                \E x \in log : x.seq = 0 /\ prev = x.id /\ \A z \in log : z.seq = 0 => z.ts <= x.ts
      PROVE  \E e \in RealRows : Wrote(w, e)
  <2> DEFINE e == Event(w, seq, prev)
  <2>1. e \in buf'[w] /\ buf' = [buf EXCEPT ![w] = @ \cup {e}] /\ clock' = clock + 1
    BY <1>3 DEF Add, TypeOK
  <2>2. e \in RealRows
    BY <1>1, <1>3, <2>1, AddTyped
  <2>3. /\ e.ts = clock /\ e.seq = seq /\ e.prev = prev
        /\ e.id = <<w, Cardinality(buf[w]) + 1>> /\ e.id \notin OldIds
    BY DEF Event, OldIds
  <2> HIDE DEF e
  <2>4. Added(w, e)
    BY <1>1, <1>3, <2>1, <2>3 DEF Added
  <2>5. Wrote(w, e)
    BY <1>1, <1>2, <1>3, <2>3, <2>4 DEF Wrote
  <2> QED
    BY <2>2, <2>5
<1>4. CASE WriteUnchained(w)
  BY <1>3, <1>4 DEF WriteUnchained
<1>5. CASE WriteFirst(w)
  BY <1>3, <1>5 DEF WriteFirst
<1>6. ASSUME NEW x \in log \cup buf[w], Continue(w, x), enabled,
             \A y \in buf[w] : y.seq <= x.seq,
             x.seq = 0 => \A z \in log : z.seq = 0 => z.ts <= x.ts
      PROVE  \E e \in RealRows : Wrote(w, e)
  <2>1. x.seq + 1 \in Nat \ {0} /\ x.id \in Ids /\ x.seq \in Nat
    BY <1>0, <1>6
  <2>2. x.seq = 0 => x \in log
    BY <1>6 DEF ModeInv
  <2>3. Add(w, x.seq + 1, x.id)
    BY <1>6 DEF Continue
  <2>4. x.seq + 1 = 1 => x.seq = 0
    BY <2>1
  <2> QED
    BY <1>3, <1>6, <2>1, <2>2, <2>3, <2>4
<1>7. CASE WriteNext(w)
  <2>1. PICK x \in log \cup buf[w] :
          Continue(w, x) /\ \A y \in log \cup buf[w] : ~Precedes(x, y)
    BY <1>7 DEF WriteNext, Latest
  <2>2. \A y \in buf[w] : y.seq <= x.seq
    BY <1>0, <2>1 DEF Precedes
  <2>3. \A z \in log : z.seq = 0 /\ x.seq = 0 => z.ts <= x.ts
    BY <1>0, <2>1 DEF Precedes, RealRows, Rows
  <2>4. enabled
    BY <1>7 DEF WriteNext
  <2> QED
    BY <1>6, <2>1, <2>2, <2>3, <2>4
<1>8. CASE Wake(w)
  <2>1. PICK x \in snap[w] : Continue(w, x)
    BY <1>8 DEF Wake
  <2> QED
    BY <1>6, <2>1 DEF SnapInv, ModeInv
<1> QED
  BY <1>4, <1>5, <1>7, <1>8

LEMMA ModeKept == TypeOK /\ FormInv /\ SnapInv /\ ModeInv /\ [Next]_vars => ModeInv'
<1> SUFFICES ASSUME TypeOK, FormInv, SnapInv, ModeInv, [Next]_vars PROVE ModeInv'
  OBVIOUS
<1> USE DEF ModeInv, TypeOK
<1>1. ASSUME NEW w \in Writers,
             WriteUnchained(w) \/ WriteFirst(w) \/ WriteNext(w) \/ Wake(w)
      PROVE  ModeInv'
  <2>1. PICK e \in RealRows : Wrote(w, e)
    BY <1>1, WrittenRow
  <2>2. log' = log /\ buf' = [buf EXCEPT ![w] = @ \cup {e}] /\ enabled' = enabled
    BY <2>1 DEF Wrote, Added
  <2> QED
    BY <2>1, <2>2 DEF Wrote
<1>2. ASSUME NEW w \in Writers, Wait(w) PROVE ModeInv'
  <2>1. PICK x \in log \cup buf[w] :
          snap' = [snap EXCEPT ![w] = {x}] /\ \A y \in log \cup buf[w] : ~Precedes(x, y)
    BY <1>2 DEF Wait, Latest
  <2>2. \A z \in log : z.seq = 0 /\ x.seq = 0 => z.ts <= x.ts
    <3>1. \A y \in log \cup buf[w] : y.ts \in Nat
      BY DEF FormInv, RealRows, Rows
    <3> QED
      BY <2>1, <3>1 DEF Precedes
  <2> QED
    BY <1>2, <2>1, <2>2 DEF Wait
<1>3. ASSUME NEW w \in Writers, Commit(w) PROVE ModeInv'
  <2>1. /\ log' = log \cup buf[w] /\ buf' = [buf EXCEPT ![w] = {}]
        /\ snap' = [snap EXCEPT ![w] = {}] /\ enabled' = enabled
    BY <1>3 DEF Commit, End
  <2>2. \A v \in Writers : snap[v] # {} => \A z \in buf[w] : z.seq # 0
    OBVIOUS
  <2> QED
    BY <2>1, <2>2
<1>4. ASSUME NEW w \in Writers, Conflict(w) \/ Abort(w) PROVE ModeInv'
  BY <1>4 DEF Conflict, Abort, End
<1>5. CASE Restart \/ Backfill
  <2>1. \A w \in Writers : buf[w] = {} /\ snap[w] = {} /\ buf' = buf /\ snap' = snap
    BY <1>5 DEF Restart, Backfill, Quiescent, SnapInv
  <2> QED
    BY <2>1
<1>6. CASE UNCHANGED vars
  BY <1>6 DEF vars
<1> QED
  BY <1>1, <1>2, <1>3, <1>4, <1>5, <1>6 DEF Next, Write
----------------------------------------------------------------------------
(* Every event is in one row, and the rows of a transaction that is not     *)
(* done are not in the log.                                                 *)
IdInv ==
    /\ \A w \in Writers :
          /\ \A x \in buf[w] : \E k \in 1..Cardinality(buf[w]) : x.id = <<w, k>>
          /\ \A x, y \in buf[w] : x.id = y.id => x = y
    /\ \A x \in log : x.id \in OldIds \/
          \E v \in Writers : pc[v] = "done" /\ \E k \in 1..MaxEvents : x.id = <<v, k>>
    /\ \A x, y \in log : x.id = y.id => x = y

(* The event that begins the chain continues from the latest one without a  *)
(* number; old rows have no hash where nothing precedes them, and rows      *)
(* without a number none at all once the column is there.                   *)
Begins(y) == y.seq = 1 /\ y.prev # NoHash /\ y.id \notin OldIds

BeginInv ==
    /\ \A y \in Events : Begins(y) =>
          \E x \in log : /\ x.id = y.prev /\ x.ts < y.ts
                         /\ \A z \in Events : z.seq = 0 /\ z.ts < y.ts => z.ts <= x.ts
    /\ \A y \in log : y.seq = 1 /\ y.id \in OldIds => y.prev = NoHash
    /\ HasColumn => \A x \in log : x.seq = 0 => x.prev = NoHash

(* The steps again, with what they do to the transactions' states.          *)
VerifyKinds ==
    \/ \E w \in Writers : \E e \in RealRows : Wrote(w, e)
    \/ \E w \in Writers : /\ Committed(w) /\ pc[w] # "done" /\ pc' = [pc EXCEPT ![w] = "done"]
                          /\ Cardinality(buf[w]) <= MaxEvents
    \/ \E w \in Writers : Ended(w) /\ \A v \in Writers : pc[v] = "done" => pc'[v] = "done"
    \/ Backfill
    \/ Quiet /\ \A v \in Writers : pc[v] = "done" => pc'[v] = "done"

LEMMA StepVerifies == TypeOK /\ FormInv /\ SnapInv /\ ModeInv /\ [Next]_vars => VerifyKinds
<1> SUFFICES ASSUME TypeOK, FormInv, SnapInv, ModeInv, [Next]_vars PROVE VerifyKinds
  OBVIOUS
<1> USE DEF VerifyKinds
<1>1. ASSUME NEW w \in Writers,
             WriteUnchained(w) \/ WriteFirst(w) \/ WriteNext(w) \/ Wake(w)
      PROVE  VerifyKinds
  BY <1>1, WrittenRow
<1>2. ASSUME NEW w \in Writers, Wait(w) PROVE VerifyKinds
  BY <1>2 DEF Wait, Writing, Quiet, TypeOK
<1>3. ASSUME NEW w \in Writers, Commit(w) PROVE VerifyKinds
  <2>1. Cardinality(buf[w]) <= MaxEvents
    BY <1>3 DEF Commit, TypeOK
  <2>2. Committed(w) /\ pc[w] # "done" /\ pc' = [pc EXCEPT ![w] = "done"]
    BY <1>3 DEF Commit, End, Committed
  <2> QED
    BY <2>1, <2>2
<1>4. ASSUME NEW w \in Writers, Conflict(w) \/ Abort(w) PROVE VerifyKinds
  BY <1>4 DEF Conflict, Abort, End, Ended, TypeOK
<1>5. CASE Restart \/ Backfill \/ UNCHANGED vars
  BY <1>5 DEF Restart, vars, Quiet
<1> QED
  BY <1>1, <1>2, <1>3, <1>4, <1>5 DEF Next, Write

(* The migration changes numbers only.                                      *)
LEMMA BackfillRows ==
  ASSUME TypeOK, FormInv, SnapInv, Backfill
  PROVE  /\ \A w \in Writers : buf[w] = {} /\ buf'[w] = {}
         /\ Events = log /\ Events' = log' /\ pc' = pc
         /\ \A y \in log' : y.seq # 0 /\ \E x \in log :
               /\ y.id = x.id /\ y.prev = x.prev /\ y.ts = x.ts
               /\ IF x.seq = 0 THEN y = [x EXCEPT !.seq = BackfillSeq(x)] ELSE y = x
         /\ \A x \in log : \E y \in log' : y.id = x.id /\ y.ts = x.ts
<1>1. \A w \in Writers : buf[w] = {} /\ buf'[w] = {}
  BY DEF Backfill, Quiescent
<1>2. Events = log /\ Events' = log' /\ pc' = pc
  BY <1>1 DEF Events, Backfill
<1>3. log' = Numbered \cup {[x EXCEPT !.seq = BackfillSeq(x)] : x \in Unnumbered}
  BY DEF Backfill, Unnumbered
<1>4. \A x \in Unnumbered :
        LET y == [x EXCEPT !.seq = BackfillSeq(x)]
        IN  x.seq = 0 /\ y.id = x.id /\ y.prev = x.prev /\ y.ts = x.ts /\ y.seq = BackfillSeq(x)
  BY DEF Unnumbered, Numbered, FormInv, RealRows, Rows
<1>5. \A x \in log : x \in Numbered \/ x \in Unnumbered
  BY DEF Unnumbered
<1>6. \A x \in Unnumbered : x \in log /\ BackfillSeq(x) # 0
  <2> SUFFICES ASSUME NEW x \in Unnumbered PROVE x \in log /\ BackfillSeq(x) # 0
    OBVIOUS
  <2>1. x \in UpTo(x)
    BY DEF UpTo, Unnumbered, Numbered, FormInv, RealRows, Rows
  <2>2. IsFiniteSet(UpTo(x))
    BY FS_Subset DEF UpTo, FormInv
  <2>3. Cardinality(UpTo(x)) \in Nat /\ Cardinality(UpTo(x)) # 0
    BY <2>1, <2>2, FS_CardinalityType, FS_EmptySet
  <2>4. Cardinality(Numbered) \in Nat
    BY BackfillNat
  <2> QED
    BY <2>3, <2>4 DEF BackfillSeq, UpTo, Unnumbered
<1>7. \A x \in Numbered : x \in log /\ x.seq # 0
  BY DEF Numbered
<1>8. ASSUME NEW y \in log'
      PROVE  y.seq # 0 /\ \E x \in log :
               /\ y.id = x.id /\ y.prev = x.prev /\ y.ts = x.ts
               /\ IF x.seq = 0 THEN y = [x EXCEPT !.seq = BackfillSeq(x)] ELSE y = x
  BY <1>3, <1>4, <1>6, <1>7, <1>8
<1>9. ASSUME NEW x \in log PROVE \E y \in log' : y.id = x.id /\ y.ts = x.ts
  BY <1>3, <1>4, <1>5, <1>9
<1> QED
  BY <1>1, <1>2, <1>8, <1>9

(* What a transaction writes is one event more than it had.                 *)
LEMMA AddCount ==
  ASSUME TypeOK, FormInv, IdInv, NEW w \in Writers, NEW e, Wrote(w, e)
  PROVE  /\ buf'[w] = buf[w] \cup {e}
         /\ \A x \in buf[w] : x.id # e.id
         /\ Cardinality(buf'[w]) = Cardinality(buf[w]) + 1
<1> DEFINE n == Cardinality(buf[w])
<1>1. buf'[w] = buf[w] \cup {e} /\ e.id = <<w, n + 1>>
  BY DEF Wrote, Added, TypeOK
<1>2. n \in Nat /\ IsFiniteSet(buf[w])
  BY FS_CardinalityType DEF FormInv
<1>3. ASSUME NEW x \in buf[w], x.id = e.id PROVE FALSE
  <2>1. PICK k \in 1..n : x.id = <<w, k>>
    BY DEF IdInv
  <2>2. k = n + 1
    BY <1>1, <1>3, <2>1
  <2> QED
    BY <1>2, <2>2
<1>4. e \notin buf[w]
  BY <1>3
<1> QED
  BY <1>1, <1>2, <1>3, <1>4, FS_AddElement

LEMMA IdKept == TypeOK /\ FormInv /\ SnapInv /\ ModeInv /\ IdInv /\ [Next]_vars => IdInv'
<1> SUFFICES ASSUME TypeOK, FormInv, SnapInv, ModeInv, IdInv, [Next]_vars PROVE IdInv'
  OBVIOUS
<1>0. VerifyKinds
  BY StepVerifies
<1>1. ASSUME NEW w \in Writers, NEW e \in RealRows, Wrote(w, e) PROVE IdInv'
  <2> DEFINE n == Cardinality(buf[w])
  <2>1. /\ log' = log /\ buf' = [buf EXCEPT ![w] = @ \cup {e}] /\ e.id = <<w, n + 1>>
        /\ \A v \in Writers : pc[v] = "done" => pc'[v] = "done"
    BY <1>1 DEF Wrote, Added
  <2>2. buf'[w] = buf[w] \cup {e} /\ \A v \in Writers : v # w => buf'[v] = buf[v]
    BY <2>1 DEF TypeOK
  <2>3. n \in Nat
    BY FS_CardinalityType DEF FormInv
  <2>4. (\A x \in buf[w] : x.id # e.id) /\ Cardinality(buf'[w]) = n + 1
    BY <1>1, AddCount
  <2>6. \A x \in buf'[w] : \E k \in 1..Cardinality(buf'[w]) : x.id = <<w, k>>
    <3>1. ASSUME NEW x \in buf'[w] PROVE \E k \in 1..(n + 1) : x.id = <<w, k>>
      <4>1. CASE x \in buf[w]
        <5>1. PICK k \in 1..n : x.id = <<w, k>>
          BY <4>1 DEF IdInv
        <5>2. k \in 1..(n + 1)
          BY <2>3
        <5> QED
          BY <5>1, <5>2
      <4>2. CASE x = e
        <5>1. n + 1 \in 1..(n + 1)
          BY <2>3
        <5> QED
          BY <2>1, <4>2, <5>1
      <4> QED
        BY <2>2, <3>1, <4>1, <4>2
    <3> QED
      BY <2>4, <3>1
  <2>7. \A x, y \in buf'[w] : x.id = y.id => x = y
    BY <2>2, <2>4 DEF IdInv
  <2>8. \A x \in log' : x.id \in OldIds \/
          \E v \in Writers : pc'[v] = "done" /\ \E k \in 1..MaxEvents : x.id = <<v, k>>
    BY <2>1 DEF IdInv
  <2>9. \A x, y \in log' : x.id = y.id => x = y
    BY <2>1 DEF IdInv
  <2>10. ASSUME NEW v \in Writers
         PROVE  /\ \A x \in buf'[v] : \E k \in 1..Cardinality(buf'[v]) : x.id = <<v, k>>
                /\ \A x, y \in buf'[v] : x.id = y.id => x = y
    <3>1. CASE v = w
      BY <2>6, <2>7, <3>1
    <3>2. CASE v # w
      <4>1. buf'[v] = buf[v]
        BY <2>2, <3>2
      <4> QED
        BY <4>1 DEF IdInv
    <3> QED
      BY <3>1, <3>2
  <2> QED
    BY <2>8, <2>9, <2>10 DEF IdInv
<1>2. ASSUME NEW w \in Writers, Committed(w), pc[w] # "done", pc' = [pc EXCEPT ![w] = "done"],
             Cardinality(buf[w]) <= MaxEvents
      PROVE  IdInv'
  <2>1. log' = log \cup buf[w] /\ buf' = [buf EXCEPT ![w] = {}]
    BY <1>2 DEF Committed
  <2>2. \A v \in Writers : buf'[v] = {} \/ buf'[v] = buf[v]
    BY <2>1 DEF TypeOK
  <2>3. pc'[w] = "done" /\ \A v \in Writers : pc[v] = "done" => pc'[v] = "done"
    BY <1>2 DEF TypeOK
  <2>4. \A x \in buf[w] : \E k \in 1..MaxEvents : x.id = <<w, k>>
    <3>1. Cardinality(buf[w]) \in Nat
      BY FS_CardinalityType DEF FormInv
    <3>2. \A k \in 1..Cardinality(buf[w]) : k \in 1..MaxEvents
      BY <1>2, <3>1
    <3> QED
      BY <3>2 DEF IdInv
  <2>5. \A x \in log, y \in buf[w] : x.id # y.id
    BY <1>2, <2>4 DEF IdInv, SnapInv
  <2>6. \A x, y \in log' : x.id = y.id => x = y
    BY <2>1, <2>5 DEF IdInv
  <2>7. \A x \in log' : x.id \in OldIds \/
          \E v \in Writers : pc'[v] = "done" /\ \E k \in 1..MaxEvents : x.id = <<v, k>>
    BY <2>1, <2>3, <2>4 DEF IdInv
  <2> QED
    BY <2>2, <2>6, <2>7 DEF IdInv
<1>3. ASSUME NEW w \in Writers, Ended(w), \A v \in Writers : pc[v] = "done" => pc'[v] = "done"
      PROVE  IdInv'
  <2>1. log' = log /\ \A v \in Writers : buf'[v] = {} \/ buf'[v] = buf[v]
    BY <1>3 DEF Ended, TypeOK
  <2> QED
    BY <1>3, <2>1 DEF IdInv
<1>4. CASE Backfill
  <2>1. \A x, y \in log' : x.id = y.id => x = y
    BY <1>4, BackfillRows DEF IdInv
  <2>2. \A x \in log' : x.id \in OldIds \/
          \E v \in Writers : pc'[v] = "done" /\ \E k \in 1..MaxEvents : x.id = <<v, k>>
    BY <1>4, BackfillRows DEF IdInv
  <2>3. \A w \in Writers : buf'[w] = {}
    BY <1>4, BackfillRows
  <2> QED
    BY <2>1, <2>2, <2>3 DEF IdInv
<1>5. CASE Quiet /\ \A v \in Writers : pc[v] = "done" => pc'[v] = "done"
  BY <1>5 DEF Quiet, IdInv
<1> QED
  BY <1>0, <1>1, <1>2, <1>3, <1>4, <1>5 DEF VerifyKinds

LEMMA BeginKept ==
    TypeOK /\ FormInv /\ SnapInv /\ TimeInv /\ ModeInv /\ BeginInv /\ [Next]_vars => BeginInv'
<1> SUFFICES ASSUME TypeOK, FormInv, SnapInv, TimeInv, ModeInv, BeginInv, [Next]_vars
             PROVE  BeginInv'
  OBVIOUS
<1>0. VerifyKinds /\ \A x \in Events : x.ts \in Nat /\ x.seq \in Nat /\ x.ts < clock
  BY StepVerifies, EventTimes DEF TimeInv
<1>1. ASSUME NEW w \in Writers, NEW e \in RealRows, Wrote(w, e) PROVE BeginInv'
  <2>1. /\ log' = log /\ Events' = Events \cup {e} /\ e.ts = clock
        /\ HasColumn /\ HasColumn'
    BY <1>1 DEF Wrote, Added, Events, TypeOK, HasColumn
  <2>2. ASSUME NEW y \in Events', Begins(y)
        PROVE  \E x \in log' : /\ x.id = y.prev /\ x.ts < y.ts
                               /\ \A z \in Events' : z.seq = 0 /\ z.ts < y.ts => z.ts <= x.ts
    <3>1. CASE y \in Events
      <4>1. PICK x \in log : /\ x.id = y.prev /\ x.ts < y.ts
                             /\ \A z \in Events : z.seq = 0 /\ z.ts < y.ts => z.ts <= x.ts
        BY <2>2, <3>1 DEF BeginInv
      <4>2. ~ (e.ts < y.ts)
        BY <1>0, <2>1, <3>1 DEF TypeOK
      <4> QED
        BY <2>1, <4>1, <4>2
    <3>2. CASE y = e
      <4>1. enabled
        BY <1>1, <2>2, <3>2 DEF Wrote, Begins
      <4>2. PICK x \in log : x.seq = 0 /\ e.prev = x.id /\ \A z \in log : z.seq = 0 => z.ts <= x.ts
        BY <1>1, <2>2, <3>2 DEF Wrote, Begins
      <4>3. \A z \in Events : z.seq = 0 => z \in log
        BY <4>1 DEF ModeInv, Events
      <4>4. x.ts < e.ts
        BY <1>0, <2>1, <4>2 DEF Events
      <4>5. e.seq # 0
        BY <2>2, <3>2 DEF Begins
      <4> QED
        BY <2>1, <3>2, <4>2, <4>3, <4>4, <4>5
    <3> QED
      BY <2>1, <3>1, <3>2
  <2> QED
    BY <2>1, <2>2 DEF BeginInv
<1>2. ASSUME NEW w \in Writers, Committed(w) \/ Ended(w) PROVE BeginInv'
  <2>1. Events' \subseteq Events /\ log \subseteq log' /\ log' \subseteq log \cup buf[w]
    BY <1>2 DEF Committed, Ended, Events, TypeOK
  <2>2. \A y \in Events' : Begins(y) =>
          \E x \in log' : /\ x.id = y.prev /\ x.ts < y.ts
                          /\ \A z \in Events' : z.seq = 0 /\ z.ts < y.ts => z.ts <= x.ts
    <3>1. ASSUME NEW y \in Events', Begins(y)
          PROVE  \E x \in log' : /\ x.id = y.prev /\ x.ts < y.ts
                          /\ \A z \in Events' : z.seq = 0 /\ z.ts < y.ts => z.ts <= x.ts
      <4>1. PICK x \in log : /\ x.id = y.prev /\ x.ts < y.ts
                             /\ \A z \in Events : z.seq = 0 /\ z.ts < y.ts => z.ts <= x.ts
        BY <2>1, <3>1 DEF BeginInv
      <4> QED
        BY <2>1, <4>1
    <3> QED
      BY <3>1
  <2>3. \A y \in log' : y.seq = 1 /\ y.id \in OldIds => y.prev = NoHash
    BY <2>1 DEF BeginInv, SnapInv
  <2>4. HasColumn' => HasColumn
    BY <1>2, <2>1 DEF HasColumn, Committed, Ended
  <2>5. HasColumn' => \A x \in log' : x.seq = 0 => x.prev = NoHash
    BY <2>1, <2>4 DEF BeginInv, TimeInv
  <2> QED
    BY <2>2, <2>3, <2>5 DEF BeginInv
<1>3. CASE Backfill
  <2>1. ~migrated
    BY <1>3 DEF Backfill
  <2>2. ASSUME NEW y \in Events', Begins(y)
        PROVE  \E x \in log' : /\ x.id = y.prev /\ x.ts < y.ts
                               /\ \A z \in Events' : z.seq = 0 /\ z.ts < y.ts => z.ts <= x.ts
    <3>1. PICK u \in log : /\ y.id = u.id /\ y.prev = u.prev /\ y.ts = u.ts
                           /\ IF u.seq = 0 THEN y = [u EXCEPT !.seq = BackfillSeq(u)] ELSE y = u
      BY <1>3, <2>2, BackfillRows
    <3>2. u.seq # 0
      <4>1. ASSUME u.seq = 0 PROVE FALSE
        <5>1. CASE HasColumn
          BY <2>2, <3>1, <4>1, <5>1 DEF BeginInv, Begins
        <5>2. CASE ~HasColumn
          BY <2>2, <3>1, <5>2 DEF TimeInv, OldLog, OldRow, OldIds, Begins
        <5> QED
          BY <5>1, <5>2
      <4> QED
        BY <4>1
    <3>3. PICK x \in log : x.id = y.prev /\ x.ts < y.ts
      BY <2>2, <3>1, <3>2 DEF BeginInv, Events
    <3>4. PICK v \in log' : v.id = x.id /\ v.ts = x.ts
      BY <1>3, BackfillRows
    <3>5. \A z \in Events' : z.seq # 0
      BY <1>3, BackfillRows
    <3> QED
      BY <3>3, <3>4, <3>5
  <2>3. ASSUME NEW y \in log', y.seq = 1, y.id \in OldIds PROVE y.prev = NoHash
    <3>1. PICK u \in log : /\ y.id = u.id /\ y.prev = u.prev /\ y.ts = u.ts
                           /\ IF u.seq = 0 THEN y = [u EXCEPT !.seq = BackfillSeq(u)] ELSE y = u
      BY <1>3, BackfillRows
    <3>2. CASE u.seq # 0
      BY <2>3, <3>1, <3>2 DEF BeginInv
    <3>3. CASE u.seq = 0 /\ HasColumn
      BY <3>1, <3>3 DEF BeginInv
    <3>4. CASE u.seq = 0 /\ ~HasColumn
      <4>1. PICK n \in 0..MaxOld, chained \in BOOLEAN : log = {OldRow(i, chained) : i \in 1..n}
        BY <3>4 DEF TimeInv, OldLog
      <4>2. PICK i \in 1..n : u = OldRow(i, chained)
        BY <4>1
      <4>3. CASE i = 1
        BY <3>1, <4>2, <4>3 DEF OldRow
      <4>4. CASE i > 1
        <5>1. \A j \in 1..n : OldRow(j, chained).ts = j - 1 /\ OldRow(j, chained).seq = 0
          BY DEF OldRow
        <5>2. OldRow(1, chained) \in Unnumbered /\ OldRow(1, chained).ts < u.ts /\ u \in Unnumbered
          BY <4>1, <4>2, <4>4, <5>1 DEF Unnumbered, Numbered
        <5>3. /\ Cardinality(UpTo(OldRow(1, chained))) \in Nat \ {0}
              /\ Cardinality(UpTo(u)) \in Nat
              /\ Cardinality(UpTo(OldRow(1, chained))) < Cardinality(UpTo(u))
          BY <5>2, RankFacts
        <5>4. y.seq = Cardinality(Numbered) + Cardinality(UpTo(u)) /\ Cardinality(Numbered) \in Nat
          BY <3>1, <3>4, BackfillNat DEF BackfillSeq, UpTo, FormInv, RealRows, Rows
        <5> QED
          BY <2>3, <5>3, <5>4
      <4> QED
        BY <4>3, <4>4
    <3> QED
      BY <3>2, <3>3, <3>4
  <2>4. \A x \in log' : x.seq # 0
    BY <1>3, BackfillRows
  <2> QED
    BY <2>2, <2>3, <2>4 DEF BeginInv
<1>4. CASE Quiet
  BY <1>4 DEF Quiet, BeginInv, Events, HasColumn
<1> QED
  BY <1>0, <1>1, <1>2, <1>3, <1>4 DEF VerifyKinds

LEMMA Verifiable ==
    Spec => []( /\ TypeOK /\ FormInv /\ SnapInv /\ TimeInv /\ ChainInv
               /\ ModeInv /\ IdInv /\ BeginInv )
<1>1. Init => ModeInv /\ IdInv /\ BeginInv
  <2> SUFFICES ASSUME Init PROVE ModeInv /\ IdInv /\ BeginInv
    OBVIOUS
  <2>1. PICK n \in 0..MaxOld, chained \in BOOLEAN : log = {OldRow(i, chained) : i \in 1..n}
    BY DEF Init
  <2>2. \A i \in 1..n : /\ OldRow(i, chained).seq = 0 /\ OldRow(i, chained).id = <<Old, i>>
                        /\ OldRow(i, chained).id \in OldIds
    BY DEF OldRow, OldIds
  <2>3. \A w \in Writers : buf[w] = {} /\ snap[w] = {}
    BY DEF Init
  <2>4. Events = log
    BY <2>3 DEF Events
  <2>5. ModeInv
    BY <2>3 DEF ModeInv
  <2>6. IdInv
    BY <2>1, <2>2, <2>3 DEF IdInv
  <2>7. HasColumn => log = {}
    BY <2>1, <2>2 DEF HasColumn, Init
  <2>8. BeginInv
    BY <2>1, <2>2, <2>4, <2>7 DEF BeginInv, Begins
  <2> QED
    BY <2>5, <2>6, <2>8
<1> QED
  BY <1>1, Chained, ModeKept, IdKept, BeginKept, PTL DEF Spec

(* A log that was not overtaken verifies ...                                *)
LEMMA NoFalseAlarm ==
  ASSUME TypeOK, FormInv, TimeInv, ChainInv, IdInv, BeginInv, ~Overtaken
  PROVE  Verifies(log)
<1>0. \A x \in log : x.seq \in Nat /\ x.ts \in Nat /\ x \in Events
  BY DEF FormInv, RealRows, Rows, Events
<1>1. SUFFICES ASSUME NEW y \in log, y.prev # NoHash
               PROVE  \E x \in log : Follows(log, x, y) /\ x.id = y.prev
  BY DEF Verifies
<1>2. CASE ~HasColumn
  <2>1. PICK n \in 0..MaxOld, chained \in BOOLEAN : log = {OldRow(i, chained) : i \in 1..n}
    BY <1>2 DEF TimeInv, OldLog
  <2>2. \A i \in 1..n : /\ OldRow(i, chained).seq = 0
                        /\ OldRow(i, chained).ts = i - 1
                        /\ OldRow(i, chained).id = <<Old, i>>
                        /\ OldRow(i, chained).prev = (IF chained /\ i > 1 THEN <<Old, i - 1>> ELSE NoHash)
    BY DEF OldRow
  <2>3. PICK i \in 1..n : y = OldRow(i, chained)
    BY <2>1
  <2>4. i > 1 /\ y.prev = <<Old, i - 1>>
    BY <1>1, <2>2, <2>3
  <2>5. i - 1 \in 1..n /\ OldRow(i - 1, chained) \in log
    BY <2>1, <2>4
  <2> DEFINE x == OldRow(i - 1, chained)
  <2>0. n \in Nat /\ \A j \in 1..n : /\ OldRow(j, chained).seq = 0
                                   /\ OldRow(j, chained).ts = j - 1 /\ j \in Int
    BY AuditAssumption DEF OldRow
  <2>6. x.seq = 0 /\ x.ts = i - 2 /\ y.seq = 0 /\ y.ts = i - 1 /\ i \in Int
    <3>1. x.seq = 0 /\ x.ts = (i - 1) - 1
      BY <2>0, <2>5
    <3>2. y.seq = 0 /\ y.ts = i - 1 /\ i \in Int
      BY <2>0, <2>3
    <3> HIDE DEF x
    <3> QED
      BY <3>1, <3>2
  <2> HIDE DEF x
  <2>7. ASSUME NEW z \in log, Precedes(x, z), Precedes(z, y) PROVE FALSE
    <3>1. PICK j \in 1..n : z = OldRow(j, chained)
      BY <2>1
    <3>2. z.seq = 0 /\ z.ts = j - 1 /\ j \in Int
      BY <2>0, <3>1
    <3>3. i - 2 < j - 1 /\ j - 1 < i - 1
      BY <2>6, <2>7, <3>2 DEF Precedes
    <3> QED
      BY <2>6, <3>2, <3>3
  <2>8. Precedes(x, y)
    BY <2>6 DEF Precedes
  <2>9. Follows(log, x, y)
    BY <2>7, <2>8 DEF Follows
  <2>10. x.id = y.prev /\ x \in log
    BY <2>2, <2>4, <2>5 DEF x
  <2> QED
    BY <2>9, <2>10
<1>3. CASE HasColumn
  <2>1. y.seq # 0 /\ y \in Numbered
    BY <1>1, <1>3 DEF BeginInv, Numbered
  <2>2. CASE y.seq > 1
    <3>1. PICK x \in Numbered : x.seq + 1 = y.seq /\ x.id = y.prev
      BY <1>1, <2>1, <2>2 DEF ChainInv, Unforked
    <3>2. x \in log /\ Precedes(x, y)
      BY <1>0, <3>1 DEF Precedes, Numbered
    <3>3. ASSUME NEW z \in log, Precedes(x, z), Precedes(z, y) PROVE FALSE
      <4>1. z.seq = x.seq \/ z.seq = y.seq
        BY <1>0, <3>1, <3>2, <3>3 DEF Precedes
      <4>2. z = x \/ z = y
        BY <2>1, <3>1, <4>1 DEF ChainInv, Unforked, Numbered
      <4> QED
        BY <1>0, <3>1, <3>2, <3>3, <4>2 DEF Precedes
    <3>4. Follows(log, x, y)
      BY <3>2, <3>3 DEF Follows
    <3> QED
      BY <3>1, <3>2, <3>4
  <2>3. CASE y.seq = 1
    <3>1. Begins(y)
      BY <1>1, <2>3 DEF BeginInv, Begins
    <3>2. PICK x \in log : /\ x.id = y.prev /\ x.ts < y.ts
                           /\ \A z \in Events : z.seq = 0 /\ z.ts < y.ts => z.ts <= x.ts
      BY <1>0, <3>1 DEF BeginInv
    <3>3. /\ ~ \E u \in Numbered : u.id = y.prev
          /\ \A z \in log : z.seq = 0 => ~ (z.ts > y.ts)
      BY <2>1, <3>1 DEF Overtaken, Begins, Numbered
    <3>4. x.seq = 0
      BY <3>2, <3>3 DEF Numbered
    <3>5. Precedes(x, y)
      BY <2>3, <3>4 DEF Precedes
    <3>6. ASSUME NEW z \in log, Precedes(x, z), Precedes(z, y) PROVE FALSE
      <4>1. CASE z.seq = 0
        <5>1. z.ts < y.ts
          <6>1. z # y /\ z.ts # y.ts
            BY <1>0, <2>3, <4>1 DEF TimeInv
          <6> QED
            BY <1>0, <3>3, <4>1, <6>1
        <5>2. z.ts <= x.ts
          BY <1>0, <3>2, <4>1, <5>1
        <5> QED
          BY <1>0, <3>4, <3>6, <4>1, <5>2 DEF Precedes
      <4>2. CASE z.seq # 0
        <5>1. z.seq = 1 /\ z.ts < y.ts
          BY <1>0, <2>3, <3>6, <4>2 DEF Precedes
        <5>2. z = y
          BY <2>1, <2>3, <5>1 DEF ChainInv, Unforked, Numbered
        <5> QED
          BY <1>0, <5>1, <5>2
      <4> QED
        BY <4>1, <4>2
    <3>7. Follows(log, x, y)
      BY <3>5, <3>6 DEF Follows
    <3> QED
      BY <3>2, <3>7
  <2> QED
    BY <1>0, <2>1, <2>2, <2>3
<1> QED
  BY <1>2, <1>3

(* ... and one that was does not.                                           *)
LEMMA FalseAlarm ==
  ASSUME TypeOK, FormInv, TimeInv, ChainInv, IdInv, BeginInv, Overtaken, Verifies(log)
  PROVE  FALSE
<1>0. \A x \in log : x.seq \in Nat /\ x.ts \in Nat /\ x \in Events
  BY DEF FormInv, RealRows, Rows, Events
<1>1. PICK y \in Numbered :
        /\ Begins(y)
        /\ \/ \E x \in Numbered : x.id = y.prev
           \/ \E x \in log \ Numbered : x.ts > y.ts
  BY DEF Overtaken, Begins
<1>2. y \in log /\ y.seq = 1
  BY <1>1 DEF Numbered, Begins
<1>3. PICK u \in log : Follows(log, u, y) /\ u.id = y.prev
  BY <1>1, <1>2 DEF Verifies, Begins
<1>4. Precedes(u, y) /\ \A z \in log : ~ (Precedes(u, z) /\ Precedes(z, y))
  BY <1>3 DEF Follows
<1>5. u.seq = 0
  <2>1. ASSUME u.seq # 0 PROVE FALSE
    <3>1. u.seq = 1 /\ u.ts < y.ts
      BY <1>0, <1>2, <1>4, <2>1 DEF Precedes
    <3>2. u = y
      BY <1>1, <1>2, <3>1 DEF ChainInv, Unforked, Numbered
    <3> QED
      BY <1>0, <3>1, <3>2
  <2> QED
    BY <2>1
<1>6. CASE \E x \in Numbered : x.id = y.prev
  <2>1. PICK x \in Numbered : x.id = y.prev
    BY <1>6
  <2>2. x = u
    BY <1>3, <2>1 DEF IdInv, Numbered
  <2> QED
    BY <1>5, <2>1, <2>2 DEF Numbered
<1>7. CASE \E x \in log \ Numbered : x.ts > y.ts
  <2>1. PICK z \in log : z.seq = 0 /\ z.ts > y.ts
    BY <1>7 DEF Numbered
  <2>2. PICK x \in log : x.id = y.prev /\ x.ts < y.ts
    BY <1>0, <1>1, <1>2 DEF BeginInv
  <2>3. x = u
    BY <1>3, <2>2 DEF IdInv
  <2>4. u.ts < z.ts
    BY <1>0, <1>2, <2>1, <2>2, <2>3
  <2>5. Precedes(u, z) /\ Precedes(z, y)
    BY <1>2, <1>5, <2>1, <2>4 DEF Precedes
  <2> QED
    BY <1>4, <2>1, <2>5
<1> QED
  BY <1>1, <1>6, <1>7

(* Verification reports an untouched log exactly when its chain was         *)
(* overtaken, whatever transactions failed, whatever the setting was and    *)
(* whatever the migration found (logger.py:127-192).                        *)
THEOREM AlarmsExplained == Spec => []UntouchedVerifies
<1>1. ASSUME TypeOK, FormInv, TimeInv, ChainInv, IdInv, BeginInv PROVE UntouchedVerifies
  <2>1. ~Overtaken => Verifies(log)
    BY <1>1, NoFalseAlarm
  <2>2. ~ (Overtaken /\ Verifies(log))
    BY <1>1, FalseAlarm
  <2> QED
    BY <2>1, <2>2 DEF UntouchedVerifies
<1> QED
  BY <1>1, Verifiable, PTL
----------------------------------------------------------------------------
(* What a transaction has added carries its first numbers, all of them, and *)
(* while the chain is on they go up by one with every event; it waits only  *)
(* before its first.                                                        *)
RunInv ==
    \A w \in Writers :
        /\ \A k \in 1..Cardinality(buf[w]) : \E x \in buf[w] : x.id = <<w, k>>
        /\ enabled => \A x, y \in buf[w] : x.seq + y.id[2] = y.seq + x.id[2]
        /\ snap[w] # {} => buf[w] = {}

(* What a transaction has locked is in the log, or its own.                 *)
LockInv ==
    \A w \in Writers : \A i \in locked[w] : \E x \in log \cup buf[w] : x.id = i

(* The events of a transaction, and the old ones, are in the order of their *)
(* time stamps.                                                             *)
AgeInv ==
    \A x, y \in Events : x.id[1] = y.id[1] /\ x.id[2] < y.id[2] => x.ts < y.ts

(* A transaction that has rows, with numbers that nobody took from it,      *)
(* continues from the last of them.                                         *)
LEMMA LastRow ==
  ASSUME TypeOK, FormInv, ModeInv, ChainInv, IdInv, RunInv,
         NEW w \in Writers, buf[w] # {}, enabled, ~Collides(w),
         NEW x \in log \cup buf[w], \A y \in buf[w] : y.seq <= x.seq
  PROVE  x \in buf[w] /\ x.id = <<w, Cardinality(buf[w])>>
<1> DEFINE n == Cardinality(buf[w])
<1>0. /\ \A y \in log \cup buf[w] : y.seq \in Nat
      /\ \A y \in buf[w] : y.seq # 0
  BY DEF FormInv, RealRows, Rows, ModeInv
<1>1. n \in Nat \ {0}
  BY FS_CardinalityType, FS_EmptySet DEF FormInv
<1>2. PICK l \in buf[w] : l.id = <<w, n>>
  <2>1. n \in 1..n
    BY <1>1
  <2> QED
    BY <2>1 DEF RunInv
<1>3. x \notin log
  <2>1. ASSUME x \in log PROVE FALSE
    <3>1. x \in Numbered /\ l.seq \in 1..x.seq
      BY <1>0, <1>2, <2>1 DEF Numbered
    <3>2. PICK z \in Numbered : z.seq = l.seq
      BY <3>1, NumbersDown DEF ChainInv
    <3> QED
      BY <1>0, <1>2, <3>2 DEF Collides, Numbered
  <2> QED
    BY <2>1
<1>4. x \in buf[w] /\ l.seq <= x.seq
  BY <1>2, <1>3
<1>5. PICK k \in 1..n : x.id = <<w, k>>
  BY <1>4 DEF IdInv
<1>6. x.seq + n = l.seq + k
  BY <1>2, <1>4, <1>5 DEF RunInv
<1>7. k = n
  BY <1>0, <1>1, <1>2, <1>4, <1>5, <1>6
<1> QED
  BY <1>4, <1>5, <1>7

LEMMA RunKept ==
  ASSUME TypeOK, FormInv, SnapInv, ModeInv, ChainInv, IdInv, RunInv, LockInv, [Next]_vars
  PROVE  RunInv'
<1>0. SnapInv'
  BY SnapKept
<1>1. ASSUME NEW w \in Writers,
             WriteUnchained(w) \/ WriteFirst(w) \/ WriteNext(w) \/ Wake(w)
      PROVE  RunInv'
  <2> DEFINE n == Cardinality(buf[w])
  <2>1. PICK e \in RealRows : Wrote(w, e)
    BY <1>1, WrittenRow
  <2>2. /\ e.id = <<w, n + 1>> /\ enabled' = enabled
        /\ \A v \in Writers \ {w} : buf'[v] = buf[v]
        /\ \A v \in Writers : snap'[v] = {} \/ snap'[v] = snap[v]
        /\ buf'[w] = buf[w] \cup {e} /\ Cardinality(buf'[w]) = n + 1
    BY <2>1, AddCount DEF Wrote, Added, TypeOK
  <2>3. snap'[w] = {}
    <3>1. pc'[w] = "writing"
      BY <1>1 DEF WriteUnchained, WriteFirst, WriteNext, Wake, Writing, TypeOK
    <3> QED
      BY <1>0, <3>1 DEF SnapInv
  <2>4. buf[w] # {} /\ enabled => ~Collides(w)
    <3>1. Wake(w) => buf[w] = {}
      BY DEF Wake, RunInv
    <3> QED
      BY <1>1, <3>1 DEF WriteUnchained, WriteFirst, WriteNext
  <2>5. n \in Nat /\ e.seq \in Nat /\ \A y \in buf[w] : y.seq \in Nat
    BY FS_CardinalityType DEF FormInv, RealRows, Rows
  <2>6. ASSUME NEW k \in 1..(n + 1) PROVE \E x \in buf'[w] : x.id = <<w, k>>
    <3>1. CASE k = n + 1
      BY <2>2, <3>1
    <3>2. CASE k # n + 1
      <4>1. k \in 1..n
        BY <2>5, <3>2
      <4> QED
        BY <2>2, <4>1 DEF RunInv
    <3> QED
      BY <3>1, <3>2
  <2>7. ASSUME enabled, NEW y \in buf[w] PROVE e.seq + y.id[2] = y.seq + (n + 1)
    <3>1. PICK x \in log \cup buf[w] : e.seq = x.seq + 1 /\ \A z \in buf[w] : z.seq <= x.seq
      BY <2>1, <2>7 DEF Wrote, Added
    <3>2. x \in buf[w] /\ x.id = <<w, n>>
      BY <2>4, <2>7, <3>1, LastRow
    <3>3. x.seq + y.id[2] = y.seq + n
      BY <2>7, <3>2 DEF RunInv
    <3>4. PICK k \in 1..n : y.id = <<w, k>>
      BY <2>7 DEF IdInv
    <3> QED
      BY <2>5, <3>1, <3>2, <3>3, <3>4
  <2>8. ASSUME enabled, NEW x \in buf'[w], NEW y \in buf'[w]
        PROVE  x.seq + y.id[2] = y.seq + x.id[2]
    <3>1. e.id[2] = n + 1
      BY <2>2
    <3>2. CASE x = e /\ y = e
      BY <3>2
    <3>3. CASE x = e /\ y \in buf[w]
      BY <2>7, <2>8, <3>1, <3>3
    <3>4. CASE x \in buf[w] /\ y = e
      BY <2>7, <2>8, <3>1, <3>4
    <3>5. CASE x \in buf[w] /\ y \in buf[w]
      BY <2>8, <3>5 DEF RunInv
    <3> QED
      BY <2>2, <2>8, <3>2, <3>3, <3>4, <3>5
  <2>9. ASSUME NEW v \in Writers
        PROVE  /\ \A k \in 1..Cardinality(buf'[v]) : \E x \in buf'[v] : x.id = <<v, k>>
               /\ enabled' => \A x, y \in buf'[v] : x.seq + y.id[2] = y.seq + x.id[2]
               /\ snap'[v] # {} => buf'[v] = {}
    <3>1. CASE v = w
      BY <2>2, <2>3, <2>6, <2>8, <3>1
    <3>2. CASE v # w
      <4>1. buf'[v] = buf[v] /\ (snap'[v] # {} => snap[v] # {})
        BY <2>2, <3>2
      <4> QED
        BY <2>2, <4>1 DEF RunInv
    <3> QED
      BY <3>1, <3>2
  <2> QED
    BY <2>9 DEF RunInv
<1>2. ASSUME NEW w \in Writers, Wait(w) PROVE RunInv'
  <2>1. PICK x \in log \cup buf[w] :
          /\ LockedByOther(w, x) /\ \A y \in log \cup buf[w] : ~Precedes(x, y)
    BY <1>2 DEF Wait, Latest
  <2>2. buf[w] = {}
    <3> SUFFICES ASSUME buf[w] # {} PROVE FALSE
      OBVIOUS
    <3>1. \A y \in buf[w] : y.seq <= x.seq
      <4>1. \A y \in log \cup buf[w] : y.seq \in Nat
        BY DEF FormInv, RealRows, Rows
      <4> QED
        BY <2>1, <4>1 DEF Precedes
    <3>2. x \in buf[w] /\ x.id = <<w, Cardinality(buf[w])>>
      BY <1>2, <3>1, LastRow DEF Wait
    <3>3. PICK v \in Writers \ {w} : x.id \in locked[v]
      BY <2>1 DEF LockedByOther
    <3>4. PICK z \in log \cup buf[v] : z.id = x.id
      BY <3>3 DEF LockInv
    <3>5. z \notin buf[v]
      BY <3>2, <3>3, <3>4 DEF IdInv
    <3>6. pc[w] = "writing" /\ Old # w
      BY <1>2 DEF Wait, Writing
    <3> QED
      BY <3>2, <3>4, <3>5, <3>6 DEF IdInv, OldIds
  <2> QED
    BY <1>2, <2>2 DEF Wait, RunInv, TypeOK
<1>3. ASSUME NEW w \in Writers, Commit(w) \/ Conflict(w) \/ Abort(w) PROVE RunInv'
  <2>1. /\ \A v \in Writers \ {w} : buf'[v] = buf[v] /\ snap'[v] = snap[v]
        /\ buf'[w] = {} /\ snap'[w] = {} /\ enabled' = enabled
    BY <1>3 DEF Commit, Conflict, Abort, End, TypeOK
  <2>2. Cardinality(buf'[w]) = 0 /\ ~ \E k : k \in 1..0
    BY <2>1, FS_EmptySet
  <2>3. ASSUME NEW v \in Writers
        PROVE  /\ \A k \in 1..Cardinality(buf'[v]) : \E x \in buf'[v] : x.id = <<v, k>>
               /\ enabled' => \A x, y \in buf'[v] : x.seq + y.id[2] = y.seq + x.id[2]
               /\ snap'[v] # {} => buf'[v] = {}
    <3>1. CASE v = w
      BY <2>1, <2>2, <3>1
    <3>2. CASE v # w
      <4>1. buf'[v] = buf[v] /\ snap'[v] = snap[v]
        BY <2>1, <3>2
      <4> QED
        BY <2>1, <4>1 DEF RunInv
    <3> QED
      BY <3>1, <3>2
  <2> QED
    BY <2>3 DEF RunInv
<1>4. CASE Restart \/ Backfill
  <2>1. \A w \in Writers : buf[w] = {} /\ buf'[w] = {}
    BY <1>4 DEF Restart, Backfill, Quiescent
  <2>2. Cardinality({}) = 0
    BY FS_EmptySet
  <2> QED
    BY <2>1, <2>2 DEF RunInv
<1>5. CASE UNCHANGED vars
  BY <1>5 DEF vars, RunInv
<1> QED
  BY <1>1, <1>2, <1>3, <1>4, <1>5 DEF Next, Write

LEMMA LockKept ==
  ASSUME TypeOK, FormInv, SnapInv, LockInv, [Next]_vars PROVE LockInv'
<1>1. ASSUME NEW w \in Writers, WriteUnchained(w) \/ WriteFirst(w) PROVE LockInv'
  <2>1. /\ locked' = locked /\ log' = log /\ \E e : buf' = [buf EXCEPT ![w] = @ \cup {e}]
    BY <1>1 DEF WriteUnchained, WriteFirst, Add
  <2> QED
    BY <2>1 DEF LockInv, TypeOK
<1>2. ASSUME NEW w \in Writers, WriteNext(w) \/ Wake(w) PROVE LockInv'
  <2>1. PICK x \in log \cup buf[w] : Continue(w, x)
    BY <1>2 DEF WriteNext, Wake, Latest, SnapInv
  <2>2. /\ locked' = [locked EXCEPT ![w] = @ \cup {x.id}] /\ log' = log
        /\ \E e : buf' = [buf EXCEPT ![w] = @ \cup {e}]
    BY <1>2, <2>1 DEF WriteNext, Wake, Continue, Add
  <2> QED
    BY <2>2 DEF LockInv, TypeOK
<1>3. ASSUME NEW w \in Writers, Commit(w) \/ Conflict(w) \/ Abort(w) PROVE LockInv'
  <2>1. /\ locked' = [locked EXCEPT ![w] = {}] /\ log \subseteq log'
        /\ buf' = [buf EXCEPT ![w] = {}]
    BY <1>3 DEF Commit, Conflict, Abort, End
  <2> QED
    BY <2>1 DEF LockInv, TypeOK
<1>4. CASE Backfill
  <2>1. \A w \in Writers : buf[w] = {}
    BY <1>4, BackfillRows
  <2>2. \A x \in log : \E y \in log' : y.id = x.id
    BY <1>4, BackfillRows
  <2>3. locked' = locked
    BY <1>4 DEF Backfill
  <2> QED
    BY <2>1, <2>2, <2>3 DEF LockInv
<1>5. ASSUME UNCHANGED <<log, buf, locked>> PROVE LockInv'
  BY <1>5 DEF LockInv
<1> QED
  BY <1>1, <1>2, <1>3, <1>4, <1>5 DEF Next, Write, Wait, Restart, vars

LEMMA AgeKept ==
  ASSUME TypeOK, FormInv, SnapInv, TimeInv, ModeInv, IdInv, AgeInv, [Next]_vars
  PROVE  AgeInv'
<1>0. VerifyKinds
  BY StepVerifies
<1>1. ASSUME NEW w \in Writers, NEW e \in RealRows, Wrote(w, e) PROVE AgeInv'
  <2> DEFINE n == Cardinality(buf[w])
  <2>1. Events' = Events \cup {e} /\ e.ts = clock /\ e.id = <<w, n + 1>> /\ pc[w] # "done"
    BY <1>1 DEF Wrote, Added, Events, TypeOK
  <2>2. \A x \in Events : x.ts < clock /\ x.ts \in Nat
    BY EventTimes DEF TimeInv
  <2>3. n \in Nat /\ clock \in Nat
    BY FS_CardinalityType DEF FormInv, TypeOK
  <2>4. ASSUME NEW x \in Events, x.id[1] = w PROVE x.id[2] < n + 1
    <3>1. CASE x \in log
      BY <2>1, <2>4, <3>1 DEF IdInv, OldIds
    <3>2. ASSUME NEW v \in Writers, x \in buf[v] PROVE x.id[2] < n + 1
      <4>1. PICK k \in 1..Cardinality(buf[v]) : x.id = <<v, k>>
        BY <3>2 DEF IdInv
      <4> QED
        BY <2>3, <2>4, <4>1
    <3> QED
      BY <3>1, <3>2 DEF Events
  <2>5. ASSUME NEW x \in Events', NEW y \in Events', x.id[1] = y.id[1], x.id[2] < y.id[2]
        PROVE  x.ts < y.ts
    <3>0. e.id[1] = w /\ e.id[2] = n + 1
      BY <2>1
    <3>1. CASE y = e /\ x \in Events
      BY <2>1, <2>2, <3>1
    <3>2. CASE x = e /\ y = e
      BY <2>3, <2>5, <3>0, <3>2
    <3>3. CASE x = e /\ y \in Events
      <4>1. y.id[2] < n + 1 /\ n + 1 < y.id[2]
        BY <2>4, <2>5, <3>0, <3>3
      <4>2. y.id[2] \in Int
        BY <3>3 DEF Events, FormInv, RealRows, Ids, OldIds
      <4> QED
        BY <2>3, <4>1, <4>2
    <3>4. CASE x \in Events /\ y \in Events
      BY <2>5, <3>4 DEF AgeInv
    <3> QED
      BY <2>1, <2>5, <3>1, <3>2, <3>3, <3>4
  <2> QED
    BY <2>5 DEF AgeInv
<1>2. ASSUME NEW w \in Writers, Committed(w) \/ Ended(w) PROVE AgeInv'
  <2>1. Events' \subseteq Events
    BY <1>2 DEF Committed, Ended, Events, TypeOK
  <2> QED
    BY <2>1 DEF AgeInv
<1>3. CASE Backfill
  <2>1. Events = log /\ Events' = log' /\ \A y \in log' : \E x \in log : y.id = x.id /\ y.ts = x.ts
    BY <1>3, BackfillRows
  <2> QED
    BY <2>1 DEF AgeInv
<1>4. CASE Quiet
  BY <1>4 DEF Quiet, AgeInv, Events
<1> QED
  BY <1>0, <1>1, <1>2, <1>3, <1>4 DEF VerifyKinds

(* All that is known of the log and of those who write it.                  *)
LogInv ==
    /\ TypeOK /\ FormInv /\ SnapInv /\ TimeInv /\ ChainInv
    /\ ModeInv /\ IdInv /\ BeginInv /\ RunInv /\ LockInv /\ AgeInv

LEMMA Logged == Spec => []LogInv
<1>1. Init => RunInv /\ LockInv /\ AgeInv
  <2> SUFFICES ASSUME Init PROVE RunInv /\ LockInv /\ AgeInv
    OBVIOUS
  <2>1. PICK n \in 0..MaxOld, chained \in BOOLEAN : log = {OldRow(i, chained) : i \in 1..n}
    BY DEF Init
  <2>2. \A i \in 1..n : OldRow(i, chained).ts = i - 1 /\ OldRow(i, chained).id = <<Old, i>>
    BY DEF OldRow
  <2>3. \A w \in Writers : buf[w] = {} /\ snap[w] = {} /\ locked[w] = {}
    BY DEF Init
  <2>4. Events = log
    BY <2>3 DEF Events
  <2>5. AgeInv
    BY <2>1, <2>2, <2>4 DEF AgeInv
  <2>6. Cardinality({}) = 0 /\ ~ \E k : k \in 1..0
    BY FS_EmptySet
  <2> QED
    BY <2>3, <2>5, <2>6 DEF RunInv, LockInv
<1>2. TypeOK /\ FormInv /\ SnapInv /\ ModeInv /\ ChainInv /\ IdInv /\ RunInv /\ LockInv /\ [Next]_vars => RunInv'
  BY RunKept
<1>3. TypeOK /\ FormInv /\ SnapInv /\ LockInv /\ [Next]_vars => LockInv'
  BY LockKept
<1>4. TypeOK /\ FormInv /\ SnapInv /\ TimeInv /\ ModeInv /\ IdInv /\ AgeInv /\ [Next]_vars => AgeInv'
  BY AgeKept
<1> QED
  BY <1>1, <1>2, <1>3, <1>4, Verifiable, PTL DEF Spec, LogInv
----------------------------------------------------------------------------
(* A function on 1..n is a sequence of that length.                         *)
LEMMA FcnSeq ==
  ASSUME NEW S, NEW n \in Nat, NEW f \in [1..n -> S]
  PROVE  f \in Seq(S) /\ Len(f) = n
<1>1. f \in Seq(S)
  OBVIOUS
<1> QED
  BY <1>1, LenProperties

(* Two such functions one behind the other are their concatenation.         *)
LEMMA ConcatSeq ==
  ASSUME NEW S, NEW a \in Nat, NEW b \in Nat, NEW s \in [1..a -> S], NEW t \in [1..b -> S],
         NEW u \in [1..(a + b) -> S],
         \A k \in 1..(a + b) : u[k] = IF k <= a THEN s[k] ELSE t[k - a]
  PROVE  u = s \o t
<1> HIDE AuditAssumption DEF AuditAssumption
<1>1. s \in Seq(S) /\ Len(s) = a
  BY FcnSeq
<1>2. t \in Seq(S) /\ Len(t) = b
  BY FcnSeq
<1>3. a + b \in Nat /\ u \in Seq(S) /\ Len(u) = a + b
  BY FcnSeq
<1>4. /\ s \o t \in Seq(S) /\ Len(s \o t) = a + b
      /\ \A i \in 1..(a + b) : (s \o t)[i] = IF i <= a THEN s[i] ELSE t[i - a]
  <2>1. /\ s \o t \in Seq(S) /\ Len(s \o t) = Len(s) + Len(t)
        /\ \A i \in 1..(Len(s) + Len(t)) :
              (s \o t)[i] = IF i <= Len(s) THEN s[i] ELSE t[i - Len(s)]
    BY <1>1, <1>2, ConcatProperties
  <2> QED
    BY <1>1, <1>2, <2>1, Zenon
<1>5. \A i \in 1..Len(u) : u[i] = (s \o t)[i]
  BY <1>3, <1>4
<1> QED
  BY <1>3, <1>4, <1>5, SeqEqual

(* The log as Book sees it.                                                 *)
Line == [k \in 1..Cardinality(Numbered) |-> [event |-> At(k).id, names |-> At(k).prev]]
Loose == {x.id : x \in log \ Numbered}
Entry == [event : Ids, names : Ids \cup {NoHash}]

LineInv ==
    /\ Cardinality(Numbered) \in Nat
    /\ \A k \in 1..Cardinality(Numbered) : At(k) \in Numbered /\ At(k).seq = k
    /\ \A x \in Numbered : x.seq \in 1..Cardinality(Numbered) /\ At(x.seq) = x
    /\ Line \in [1..Cardinality(Numbered) -> Entry]
    /\ Len(Line) = Cardinality(Numbered)

LEMMA LineFacts == TypeOK /\ FormInv /\ Unforked => LineInv
<1> SUFFICES ASSUME TypeOK, FormInv, Unforked PROVE LineInv
  OBVIOUS
<1> DEFINE N == Cardinality(Numbered)
<1>1. N \in Nat /\ \A x \in Numbered : x.seq \in 1..N
  <2>1. \A x \in Numbered : x.seq \in Nat \ {0}
    BY DEF Numbered, FormInv, RealRows, Rows
  <2> QED
    BY <2>1, BackfillNat, NumbersCount
<1>2. ASSUME NEW k \in 1..N PROVE At(k) \in Numbered /\ At(k).seq = k
  <2>1. PICK y \in Numbered : y.seq = N
    BY <1>1, <1>2, NumbersCount
  <2>2. \E x \in Numbered : x.seq = k
    BY <1>2, <2>1, NumbersDown
  <2> QED
    BY <2>2 DEF At
<1>3. ASSUME NEW x \in Numbered PROVE At(x.seq) = x
  BY <1>1, <1>2 DEF Unforked
<1>4. ASSUME NEW k \in 1..N PROVE At(k).id \in Ids /\ At(k).prev \in Ids \cup {NoHash}
  BY <1>2 DEF Numbered, FormInv, RealRows, Rows
<1>5. Line \in [1..N -> Entry]
  BY <1>4 DEF Line, Entry
<1> QED
  BY <1>1, <1>2, <1>3, <1>5, FcnSeq DEF LineInv

LEMMA LineNow == LogInv => LineInv
BY LineFacts DEF LogInv, ChainInv

LEMMA LineThen == LogInv' => LineInv'
BY LineNow, PTL

LEMMA SameLine == ASSUME UNCHANGED log PROVE UNCHANGED <<Line, Loose>>
<1>1. UNCHANGED Numbered
  BY DEF Numbered
<1>2. \A k : UNCHANGED At(k)
  BY <1>1 DEF At
<1> QED
  BY <1>1, <1>2 DEF Line, Loose

(* A transaction that is still to commit has nothing in the log.            *)
LEMMA NothingYet ==
  ASSUME LogInv, NEW w \in Writers, pc[w] # "done" PROVE Book!Unwritten(w)
<1>0. TypeOK /\ FormInv /\ Unforked /\ IdInv
  BY DEF LogInv, ChainInv
<1>1. \A x \in log : ~ (x.id \in {w} \X (1..MaxEvents))
  BY <1>0 DEF IdInv, OldIds
<1>2. \A k \in 1..Len(Line) : ~ (Line[k].event \in {w} \X (1..MaxEvents))
  <2>1. ASSUME NEW k \in 1..Len(Line) PROVE ~ (Line[k].event \in {w} \X (1..MaxEvents))
    <3>1. k \in 1..Cardinality(Numbered) /\ At(k) \in Numbered
      BY <2>1, LineNow DEF LineInv
    <3>2. Line[k].event = At(k).id /\ At(k) \in log
      BY <3>1 DEF Line, Numbered
    <3> QED
      BY <1>1, <3>2
  <2> QED
    BY <2>1
<1>3. \A i \in Loose : ~ (i \in {w} \X (1..MaxEvents))
  BY <1>1 DEF Loose
<1> HIDE DEF Line, Loose
<1>4. ({Line[k].event : k \in 1..Len(Line)} \cup Loose) \cap ({w} \X (1..MaxEvents)) = {}
  BY <1>2, <1>3, Zenon
<1> QED
  BY <1>4, Zenon DEF Book!Unwritten, Book!Chained, Book!Events, Line, Loose

(* What a transaction commits while the chain is on: its rows continue the  *)
(* numbers and name each other, and the first names the last row there was. *)
LEMMA CommitRuns ==
  ASSUME LogInv, NEW w \in Writers, ~Collides(w), enabled, buf[w] # {}
  PROVE  LET N == Cardinality(Numbered)
             n == Cardinality(buf[w])
         IN  \E row \in [1..n -> buf[w]] :
               /\ \A x \in buf[w] : \E j \in 1..n : x = row[j]
               /\ \A j \in 1..n : row[j].id = <<w, j>> /\ row[j].seq = N + j
               /\ \A j \in 1..n : j > 1 => row[j].prev = <<w, j - 1>>
               /\ N = 0 /\ row[1].prev # NoHash => row[1].prev \in Loose
               /\ N > 0 => row[1].prev = At(N).id
<1> DEFINE N == Cardinality(Numbered)
           n == Cardinality(buf[w])
<1>0. /\ TypeOK /\ FormInv /\ Unforked /\ ChainInv /\ IdInv /\ RunInv /\ BeginInv
      /\ \A x \in log \cup buf[w] : x.seq \in Nat
      /\ \A x \in buf[w] : x.seq # 0
  BY DEF LogInv, ChainInv, ModeInv, FormInv, RealRows, Rows
<1>1. n \in Nat \ {0} /\ N \in Nat
  BY <1>0, FS_CardinalityType, FS_EmptySet, BackfillNat DEF FormInv
<1>2. \A j \in 1..n : \E x \in buf[w] : x.id = <<w, j>>
  BY <1>0 DEF RunInv
<1> DEFINE row == [j \in 1..n |-> CHOOSE x \in buf[w] : x.id = <<w, j>>]
<1>3. /\ row \in [1..n -> buf[w]] /\ \A j \in 1..n : row[j].id = <<w, j>>
      /\ \A x \in buf[w] : \E j \in 1..n : x = row[j]
  <2>1. \A j \in 1..n : row[j] \in buf[w] /\ row[j].id = <<w, j>>
    BY <1>2
  <2>2. \A x \in buf[w] : \E j \in 1..n : x = row[j]
    BY <1>0, <2>1 DEF IdInv
  <2> QED
    BY <2>1, <2>2
<1> HIDE DEF row
<1>4. 1 \in 1..n
  BY <1>1
<1>5. \A i, j \in 1..n : row[i].seq + j = row[j].seq + i
  <2>1. ASSUME NEW i \in 1..n, NEW j \in 1..n PROVE row[i].seq + j = row[j].seq + i
    <3>1. row[i] \in buf[w] /\ row[j] \in buf[w] /\ row[i].id[2] = i /\ row[j].id[2] = j
      BY <1>3
    <3>2. row[i].seq + row[j].id[2] = row[j].seq + row[i].id[2]
      BY <1>0, <3>1 DEF RunInv
    <3> QED
      BY <3>1, <3>2
  <2> QED
    BY <2>1
<1>6. \A j \in 1..n : row[j] \in buf[w] /\ row[j].seq \in Nat \ {0}
  BY <1>0, <1>3
<1>7. \A x \in Numbered : x.seq \in Nat /\ x.seq < row[1].seq /\ x.seq <= N
  <2>1. \A z \in Numbered : z.seq # row[1].seq
    BY <1>4, <1>6 DEF Collides, Numbered
  <2>2. \A x \in Numbered : x.seq < row[1].seq
    BY <1>0, <1>4, <1>6, <2>1, NewBehind
  <2> QED
    BY <1>0, <2>2, NumbersCount DEF Numbered
<1>8. \A j \in 1..n : row[j].seq > 1 =>
        \/ \E x \in Numbered : x.seq + 1 = row[j].seq /\ row[j].prev = x.id
        \/ \E i \in 1..n : i + 1 = j /\ row[j].prev = row[i].id
  <2>1. ASSUME NEW j \in 1..n, row[j].seq > 1
        PROVE  \/ \E x \in Numbered : x.seq + 1 = row[j].seq /\ row[j].prev = x.id
               \/ \E i \in 1..n : i + 1 = j /\ row[j].prev = row[i].id
    <3>1. PICK x \in log \cup buf[w] : x.seq + 1 = row[j].seq /\ row[j].prev = x.id
      BY <1>0, <1>6, <2>1 DEF ChainInv
    <3>2. CASE x \in log
      BY <1>0, <2>1, <3>1, <3>2 DEF Numbered
    <3>3. CASE x \in buf[w]
      <4>1. PICK i \in 1..n : x = row[i]
        BY <1>3, <3>3
      <4>2. row[i].seq + j = row[j].seq + i
        BY <1>5
      <4>3. i + 1 = j
        BY <1>1, <1>6, <3>1, <4>1, <4>2
      <4> QED
        BY <3>1, <4>1, <4>3
    <3> QED
      BY <3>2, <3>3
  <2> QED
    BY <2>1
<1>9. row[1].seq = N + 1
  <2>1. N < row[1].seq
    <3>1. CASE N = 0
      BY <1>4, <1>6, <3>1
    <3>2. CASE N > 0
      <4>1. PICK y \in Numbered : y.seq = N
        BY <1>0, <3>2, NumbersCount
      <4> QED
        BY <1>7, <4>1
    <3> QED
      BY <1>1, <3>1, <3>2
  <2>2. CASE row[1].seq > 1
    <3>1. ~ \E i \in 1..n : i + 1 = 1
      BY <1>1
    <3>2. PICK x \in Numbered : x.seq + 1 = row[1].seq
      BY <1>4, <1>8, <2>2, <3>1
    <3> QED
      BY <1>1, <1>4, <1>6, <1>7, <2>1, <3>2
  <2> QED
    BY <1>1, <1>4, <1>6, <2>1, <2>2
<1>10. \A j \in 1..n : row[j].seq = N + j
  <2>1. ASSUME NEW j \in 1..n PROVE row[j].seq = N + j
    <3>1. row[1].seq + j = row[j].seq + 1
      BY <1>4, <1>5
    <3> QED
      BY <1>1, <1>6, <1>9, <3>1
  <2> QED
    BY <2>1
<1>11. ASSUME NEW j \in 1..n, j > 1 PROVE row[j].prev = <<w, j - 1>>
  <2>1. row[j].seq > 1 /\ \A x \in Numbered : x.seq + 1 # row[j].seq
    BY <1>1, <1>7, <1>10, <1>11
  <2>2. PICK i \in 1..n : i + 1 = j /\ row[j].prev = row[i].id
    BY <1>8, <1>11, <2>1
  <2>3. i = j - 1
    BY <2>2
  <2> QED
    BY <1>3, <2>2, <2>3
<1>12. ASSUME N = 0, row[1].prev # NoHash PROVE row[1].prev \in Loose
  <2>1. Begins(row[1]) /\ row[1] \in Events
    <3>1. row[1] \in buf[w] /\ row[1].id \notin OldIds
      BY <1>4, <1>6 DEF LogInv, SnapInv
    <3> QED
      BY <1>9, <1>12, <3>1 DEF Begins, Events
  <2>2. PICK x \in log : x.id = row[1].prev
    BY <1>0, <2>1 DEF BeginInv
  <2>3. x \notin Numbered
    <3>1. \A y \in Numbered : y.seq <= 0 /\ y.seq \in Nat \ {0}
      BY <1>0, <1>7, <1>12 DEF Numbered
    <3> QED
      BY <3>1
  <2> QED
    BY <2>2, <2>3 DEF Loose
<1>13. ASSUME N > 0 PROVE row[1].prev = At(N).id
  <2>1. row[1].seq > 1 /\ ~ \E i \in 1..n : i + 1 = 1
    BY <1>1, <1>9, <1>13
  <2>2. PICK x \in Numbered : x.seq + 1 = row[1].seq /\ row[1].prev = x.id
    BY <1>4, <1>8, <2>1
  <2>3. x.seq = N
    BY <1>1, <1>7, <1>9, <2>2
  <2>4. At(x.seq) = x
    BY LineNow DEF LineInv
  <2> QED
    BY <2>2, <2>3, <2>4
<1> QED
  BY <1>3, <1>10, <1>11, <1>12, <1>13

LEMMA CommitChains ==
  ASSUME LogInv, LogInv', NEW w \in Writers, Commit(w), enabled
  PROVE  \E n \in 1..MaxEvents : Book!Chain(w, n)
<1> DEFINE N == Cardinality(Numbered)
           n == Cardinality(buf[w])
<1>0. /\ LineInv /\ LineInv'
      /\ log' = log \cup buf[w] /\ pc[w] # "done" /\ ~Collides(w)
      /\ TypeOK /\ FormInv /\ \A x \in buf[w] : x.seq # 0 /\ x \in RealRows
  BY LineNow, LineThen DEF Commit, LogInv, ModeInv, FormInv
<1>1. n \in 1..MaxEvents /\ N \in Nat /\ IsFiniteSet(buf[w]) /\ IsFiniteSet(Numbered)
  BY <1>0, BackfillNat DEF Commit, TypeOK, FormInv
<1>2. buf[w] # {}
  BY <1>1, FS_EmptySet
<1>3. PICK row \in [1..n -> buf[w]] :
         /\ \A x \in buf[w] : \E j \in 1..n : x = row[j]
         /\ \A j \in 1..n : row[j].id = <<w, j>> /\ row[j].seq = N + j
         /\ \A j \in 1..n : j > 1 => row[j].prev = <<w, j - 1>>
         /\ N = 0 /\ row[1].prev # NoHash => row[1].prev \in Loose
         /\ N > 0 => row[1].prev = At(N).id
  BY <1>0, <1>2, CommitRuns
<1>4. Numbered' = Numbered \cup buf[w] /\ Numbered \cap buf[w] = {}
  BY <1>0 DEF Numbered, Collides
<1>5. Cardinality(Numbered') = N + n
  <2>1. Cardinality(Numbered \cup buf[w]) = N + n - Cardinality(Numbered \cap buf[w])
    BY <1>1, FS_Union
  <2>2. Cardinality(Numbered \cap buf[w]) = 0
    BY <1>4, FS_EmptySet
  <2> QED
    BY <1>1, <1>4, <2>1, <2>2
<1>6. \A k \in 1..N : At(k)' = At(k)
  <2>1. ASSUME NEW k \in 1..N PROVE At(k)' = At(k)
    <3>1. At(k) \in Numbered' /\ At(k).seq = k
      BY <1>0, <1>4 DEF LineInv
    <3>2. \A x \in Numbered' : At(x.seq)' = x
      BY <1>0 DEF LineInv
    <3> QED
      BY <3>1, <3>2
  <2> QED
    BY <2>1
<1>7. ASSUME NEW k, NEW j \in 1..n, k = N + j PROVE At(k)' = row[j]
  <2>1. row[j] \in Numbered' /\ row[j].seq = k
    BY <1>3, <1>4, <1>7
  <2>2. \A x \in Numbered' : At(x.seq)' = x
    BY <1>0 DEF LineInv
  <2> QED
    BY <2>1, <2>2
<1> DEFINE first == row[1].prev
           added == [k \in 1..n |-> [event |-> <<w, k>>,
                                     names |-> IF k = 1 THEN first ELSE <<w, k - 1>>]]
<1>8. first \in Ids \cup {NoHash} /\ 1 \in 1..n
  <2>1. 1 \in 1..n /\ row[1] \in buf[w]
    BY <1>1, <1>3
  <2> QED
    BY <1>0, <2>1 DEF RealRows, Rows
<1>9. added \in [1..n -> Entry]
  <2>1. \A k \in 1..n : <<w, k>> \in Ids /\ (k # 1 => <<w, k - 1>> \in Ids)
    BY <1>1 DEF Ids
  <2> HIDE DEF first
  <2> QED
    BY <1>8, <2>1 DEF Entry
<1>10. ASSUME NEW k \in 1..(N + n)
       PROVE  Line'[k] = IF k <= N THEN Line[k] ELSE added[k - N]
  <2>1. Line'[k] = [event |-> At(k)'.id, names |-> At(k)'.prev]
    BY <1>5, <1>10 DEF Line
  <2>2. CASE k <= N
    <3>1. k \in 1..N
      BY <1>1, <2>2
    <3> QED
      BY <1>6, <2>1, <2>2, <3>1 DEF Line
  <2>3. CASE k > N
    <3>1. k - N \in 1..n /\ N + (k - N) = k
      BY <1>1, <2>3
    <3>2. At(k)' = row[k - N]
      BY <1>7, <3>1
    <3>3. row[k - N].id = <<w, k - N>>
          /\ row[k - N].prev = IF k - N = 1 THEN first ELSE <<w, (k - N) - 1>>
      <4>1. k - N = 1 \/ k - N > 1
        BY <3>1
      <4> QED
        BY <1>3, <3>1, <4>1
    <3>4. added[k - N] = [event |-> <<w, k - N>>,
                          names |-> IF k - N = 1 THEN first ELSE <<w, (k - N) - 1>>]
      BY <3>1
    <3>5. ~ (k <= N)
      BY <1>1, <2>3
    <3> QED
      BY <2>1, <3>2, <3>3, <3>4, <3>5, Zenon
  <2> QED
    BY <1>1, <2>2, <2>3
<1>11. Line' \in [1..(N + n) -> Entry] /\ Line \in [1..N -> Entry] /\ Len(Line) = N /\ Len(Line)' = N + n
  BY <1>0, <1>5 DEF LineInv
<1> HIDE DEF added
<1>12. Line' = Line \o added
  <2>1. n \in Nat
    BY <1>1
  <2>2. \A k \in 1..(N + n) : Line'[k] = IF k <= N THEN Line[k] ELSE added[k - N]
    BY <1>10
  <2> HIDE DEF N, n
  <2>3. \A s \in [1..N -> Entry], t \in [1..n -> Entry], u \in [1..(N + n) -> Entry] :
          (\A k \in 1..(N + n) : u[k] = IF k <= N THEN s[k] ELSE t[k - N]) => u = s \o t
    BY <1>1, <2>1, ConcatSeq, Zenon
  <2> QED
    BY <1>9, <1>11, <2>2, <2>3
<1>13. first \in Book!Predecessors
  <2>1. CASE N = 0
    <3>1. Line = <<>>
      BY <1>11, <2>1
    <3> QED
      BY <1>3, <2>1, <3>1 DEF Book!Predecessors, Line, Loose
  <2>2. CASE N > 0
    <3>1. Line # <<>> /\ N \in 1..N
      BY <1>1, <1>11, <2>2
    <3>2. Line[Len(Line)].event = At(N).id
      BY <1>11, <3>1 DEF Line
    <3> QED
      BY <1>3, <2>2, <3>1, <3>2 DEF Book!Predecessors, Line
  <2> QED
    BY <1>1, <2>1, <2>2
<1>14. Loose' = Loose
  <2>1. log' \ Numbered' = log \ Numbered
    BY <1>0 DEF Numbered
  <2> QED
    BY <2>1 DEF Loose
<1>15. Book!Unwritten(w)
  BY <1>0, NothingYet
<1>16. Book!Entries(w, n, first) = added
  BY DEF Book!Entries, added
<1>17. Book!Chain(w, n)
  <2> HIDE DEF N, n, first
  <2> QED
    BY <1>11, <1>12, <1>13, <1>14, <1>15, <1>16 DEF Book!Chain, Line, Loose
<1> QED
  BY <1>1, <1>17

(* With the chain off a transaction's events have no place in it.           *)
LEMMA CommitDrops ==
  ASSUME LogInv, NEW w \in Writers, Commit(w), ~enabled
  PROVE  \E n \in 1..MaxEvents : Book!Drop(w, n)
<1> DEFINE n == Cardinality(buf[w])
<1>0. /\ log' = log \cup buf[w] /\ pc[w] # "done"
      /\ \A x \in buf[w] : x.seq = 0
      /\ n \in 1..MaxEvents /\ RunInv /\ IdInv
  BY DEF Commit, LogInv, ModeInv, TypeOK
<1>1. Numbered' = Numbered
  BY <1>0 DEF Numbered
<1>2. Line' = Line
  <2>1. \A k : At(k)' = At(k)
    BY <1>1 DEF At
  <2> QED
    BY <1>1, <2>1 DEF Line
<1>3. {x.id : x \in buf[w]} = {w} \X (1..n)
  <2>1. \A x \in buf[w] : x.id \in {w} \X (1..n)
    <3>1. \A x \in buf[w] : \E k \in 1..n : x.id = <<w, k>>
      BY <1>0 DEF IdInv
    <3> QED
      BY <3>1
  <2>2. \A k \in 1..n : \E x \in buf[w] : x.id = <<w, k>>
    BY <1>0 DEF RunInv
  <2> QED
    BY <2>1, <2>2
<1>4. Loose' = Loose \cup {x.id : x \in buf[w]}
  <2>1. log' \ Numbered' = (log \ Numbered) \cup buf[w]
    BY <1>0, <1>1 DEF Numbered
  <2> QED
    BY <2>1 DEF Loose
<1>5. Book!Unwritten(w)
  BY <1>0, NothingYet
<1>6. PICK m \in 1..MaxEvents : m = n
  BY <1>0
<1>7. Book!Drop(w, m)
  <2> HIDE DEF n
  <2> QED
    BY <1>2, <1>3, <1>4, <1>5, <1>6 DEF Book!Drop, Book!Events, Line, Loose
<1> QED
  BY <1>7

(* The migration gives places to the events without one, in their order.    *)
LEMMA BackfillNumbers ==
  ASSUME LogInv, LogInv', Backfill
  PROVE  Book!Number
<1> DEFINE N == Cardinality(Numbered)
           M == Cardinality(Numbered')
<1>0. /\ LineInv /\ LineInv' /\ N \in Nat /\ M \in Nat
      /\ TypeOK /\ FormInv /\ TimeInv /\ IdInv /\ IdInv' /\ AgeInv /\ Unnumbered = log \ Numbered
  BY LineNow, LineThen DEF LineInv, LogInv, Unnumbered
<1>1. /\ Events = log
      /\ \A y \in log' : y.seq # 0 /\ \E x \in log :
            /\ y.id = x.id /\ IF x.seq = 0 THEN y = [x EXCEPT !.seq = BackfillSeq(x)] ELSE y = x
      /\ \A x \in log : \E y \in log' : y.id = x.id
  BY BackfillRows DEF LogInv
<1>2. Numbered' = log' /\ Numbered \subseteq Numbered'
  <2>1. Numbered' = log'
    BY <1>1 DEF Numbered
  <2> QED
    BY <2>1 DEF Backfill
<1>3. N <= M
  <2>1. IsFiniteSet(Numbered')
    BY <1>2 DEF LogInv, FormInv
  <2> QED
    BY <1>2, <2>1, FS_Subset
<1>4. \A k \in 1..N : At(k)' = At(k)
  <2>1. ASSUME NEW k \in 1..N PROVE At(k)' = At(k)
    <3>1. At(k) \in Numbered' /\ At(k).seq = k
      BY <1>0, <1>2 DEF LineInv
    <3>2. \A x \in Numbered' : At(x.seq)' = x
      BY <1>0 DEF LineInv
    <3> QED
      BY <3>1, <3>2
  <2> QED
    BY <2>1
<1>5. ASSUME NEW x \in Unnumbered, NEW y \in log', y.id = x.id
      PROVE  y.seq = N + Rank(x)
  <2>1. x \in log /\ x.seq = 0 /\ x \in RealRows
    BY <1>5 DEF Unnumbered, Numbered, LogInv, FormInv
  <2>2. PICK u \in log : y.id = u.id /\ IF u.seq = 0 THEN y = [u EXCEPT !.seq = BackfillSeq(u)] ELSE y = u
    BY <1>1
  <2>3. u = x
    <3>1. u.id = x.id
      BY <1>5, <2>2
    <3>2. \A z \in log : z.id = x.id => z = x
      BY <1>0, <2>1 DEF IdInv
    <3> QED
      BY <2>2, <3>1, <3>2
  <2>4. y.seq = BackfillSeq(x)
    BY <2>1, <2>2, <2>3 DEF RealRows, Rows
  <2> QED
    BY <2>4 DEF BackfillSeq, Rank, UpTo
<1>6. \A x \in Unnumbered : Rank(x) \in Nat \ {0}
  BY <1>0, RankFacts DEF Rank
<1> DEFINE Later == {k \in 1..M : k > N}
<1>7. ASSUME NEW k \in Later
      PROVE  /\ At(k)' \in log' /\ \E x \in Unnumbered : At(k)'.id = x.id /\ k = N + Rank(x)
  <2>1. At(k)' \in log' /\ At(k)'.seq = k
    BY <1>0, <1>2, <1>7 DEF LineInv
  <2>2. PICK x \in log : /\ At(k)'.id = x.id
                         /\ IF x.seq = 0 THEN At(k)' = [x EXCEPT !.seq = BackfillSeq(x)] ELSE At(k)' = x
    BY <1>1, <2>1
  <2>3. x \notin Numbered
    <3>1. ASSUME x \in Numbered PROVE FALSE
      <4>1. At(k)' = x /\ x.seq \in 1..N
        BY <1>0, <2>2, <3>1 DEF LineInv, Numbered
      <4> QED
        BY <1>0, <1>7, <2>1, <4>1
    <3> QED
      BY <3>1
  <2>4. x \in Unnumbered
    BY <2>3 DEF Unnumbered
  <2> QED
    BY <1>5, <2>1, <2>2, <2>4
<1>8. ASSUME NEW x \in Unnumbered PROVE \E k \in Later : At(k)'.id = x.id
  <2>1. PICK y \in log' : y.id = x.id
    BY <1>1 DEF Unnumbered
  <2>2. y.seq = N + Rank(x) /\ y.seq \in 1..M /\ At(y.seq)' = y
    BY <1>0, <1>2, <1>5, <2>1 DEF LineInv
  <2>3. y.seq \in Later
    BY <1>0, <1>6, <2>2
  <2> QED
    BY <2>1, <2>2, <2>3
<1>9. ASSUME NEW i \in Later, NEW k \in Later, At(i)'.id[1] = At(k)'.id[1], i < k
      PROVE  At(i)'.id[2] < At(k)'.id[2]
  <2>1. PICK x \in Unnumbered : At(i)'.id = x.id /\ i = N + Rank(x)
    BY <1>7
  <2>2. PICK y \in Unnumbered : At(k)'.id = y.id /\ k = N + Rank(y)
    BY <1>7
  <2>3. Rank(x) < Rank(y) /\ Rank(x) \in Nat /\ Rank(y) \in Nat
    BY <1>0, <1>6, <1>9, <2>1, <2>2
  <2>4. x \in log /\ y \in log /\ x.id \in Ids /\ y.id \in Ids /\ x.id[1] = y.id[1]
    BY <1>0, <1>9, <2>1, <2>2 DEF FormInv, RealRows
  <2>5. x.id[2] # y.id[2]
    <3>1. ASSUME x.id[2] = y.id[2] PROVE FALSE
      <4>1. x.id = y.id
        BY <2>4, <3>1 DEF Ids, OldIds
      <4>2. x = y
        BY <1>0, <2>4, <4>1 DEF IdInv
      <4> QED
        BY <2>3, <4>2
    <3> QED
      BY <3>1
  <2>6. ~ (y.id[2] < x.id[2])
    <3>1. ASSUME y.id[2] < x.id[2] PROVE FALSE
      <4>1. y.ts < x.ts
        BY <1>0, <1>1, <2>4, <3>1 DEF AgeInv
      <4>2. Rank(y) < Rank(x)
        BY <1>0, <4>1, RankFacts DEF Rank
      <4> QED
        BY <2>3, <4>2
    <3> QED
      BY <3>1
  <2>7. x.id[2] \in Int /\ y.id[2] \in Int
    BY <2>4 DEF Ids, OldIds
  <2> QED
    BY <2>1, <2>2, <2>5, <2>6, <2>7
<1>10. ASSUME NEW i \in Later, NEW k \in Later, i # k PROVE At(i)'.id # At(k)'.id
  <2>1. At(i)' \in log' /\ At(i)'.seq = i /\ At(k)' \in log' /\ At(k)'.seq = k
    BY <1>0, <1>2, <1>9 DEF LineInv
  <2> QED
    BY <1>0, <1>10, <2>1 DEF IdInv
<1>11. /\ Len(Line)' = M /\ Len(Line) = N
       /\ \A k \in 1..M : Line'[k] = [event |-> At(k)'.id, names |-> At(k)'.prev]
       /\ \A k \in 1..N : Line[k] = [event |-> At(k).id, names |-> At(k).prev]
  BY <1>0 DEF LineInv, Line
<1>12. Loose' = {}
  BY <1>2 DEF Loose
<1>13. \A k \in 1..Len(Line) : k <= Len(Line)' /\ Line'[k] = Line[k]
  <2>1. \A k \in 1..N : k \in 1..M
    BY <1>0, <1>3
  <2> QED
    BY <1>4, <1>11, <2>1
<1>14. {Line'[k].event : k \in Later} = Loose
  <2>1. \A k \in Later : Line'[k].event = At(k)'.id
    BY <1>11
  <2>2. Loose = {x.id : x \in Unnumbered}
    BY <1>0 DEF Loose
  <2>3. \A k \in Later : Line'[k].event \in Loose
    BY <1>7, <2>1, <2>2
  <2>4. \A x \in Unnumbered : \E k \in Later : Line'[k].event = x.id
    BY <1>8, <2>1
  <2> HIDE DEF Later, Line, Loose
  <2> QED
    BY <2>2, <2>3, <2>4
<1>15. \A i, k \in Later : LET x == Line'[i].event
                               y == Line'[k].event
                           IN  /\ x[1] = y[1] /\ i < k => x[2] < y[2]
                               /\ i # k => x # y
  <2>1. \A k \in Later : Line'[k].event = At(k)'.id
    BY <1>11
  <2> HIDE DEF Later, Line, Loose
  <2> QED
    BY <1>9, <1>10, <2>1
<1>16. Book!New = Later
  BY <1>11 DEF Book!New, Line
<1> HIDE DEF Later
<1> QED
  BY <1>12, <1>13, <1>14, <1>15, <1>16 DEF Book!Number, Line, Loose

LEMMA StepIsBook == LogInv /\ LogInv' /\ [Next]_vars => [Book!Next]_(Book!logVars)
<1> SUFFICES ASSUME LogInv, LogInv', [Next]_vars PROVE [Book!Next]_(Book!logVars)
  OBVIOUS
<1>1. ASSUME NEW w \in Writers, Commit(w) PROVE Book!Next
  <2>1. \E n \in 1..MaxEvents : Book!Chain(w, n) \/ Book!Drop(w, n)
    <3>1. CASE enabled
      BY <1>1, <3>1, CommitChains
    <3>2. CASE ~enabled
      BY <1>1, <3>2, CommitDrops
    <3> QED
      BY <3>1, <3>2
  <2> QED
    BY <2>1, Zenon DEF Book!Next
<1>2. CASE Backfill
  BY <1>2, BackfillNumbers, Zenon DEF Book!Next
<1>3. ASSUME UNCHANGED log PROVE UNCHANGED Book!logVars
  BY <1>3, SameLine DEF Book!logVars, Line, Loose
<1> QED
  BY <1>1, <1>2, <1>3 DEF Next, Write, WriteUnchained, WriteFirst, WriteNext, Wait, Wake,
        Conflict, Abort, Restart, vars

(* A transaction's events are in the log all or none, next to each other    *)
(* and in their order, each naming the one before it, for any number of     *)
(* transactions that read, wait and fail as they may (logger.py:84-122).    *)
THEOREM LogImplemented == Spec => ImplementsLog
<1>1. Init => Book!Init
  <2> SUFFICES ASSUME Init PROVE Book!Init
    OBVIOUS
  <2>1. PICK n \in 0..MaxOld, chained \in BOOLEAN : log = {OldRow(i, chained) : i \in 1..n}
    BY DEF Init
  <2>2. \A i \in 1..n : OldRow(i, chained).id \in OldIds /\ OldRow(i, chained).seq = 0
    BY DEF OldRow, OldIds
  <2>3. Numbered = {} /\ Cardinality(Numbered) = 0
    BY <2>1, <2>2, FS_EmptySet DEF Numbered
  <2>4. Line = <<>>
    BY <2>3 DEF Line
  <2>5. Loose \subseteq OldIds
    BY <2>1, <2>2 DEF Loose
  <2> QED
    BY <2>4, <2>5 DEF Book!Init, Line, Loose
<1>2. LogInv /\ LogInv' /\ [Next]_vars => [Book!Next]_(Book!logVars)
  BY StepIsBook
<1> QED
  BY <1>1, <1>2, Logged, PTL DEF Spec, ImplementsLog, Book!Spec
=============================================================================
