-------------------------- MODULE AuditChainProofs --------------------------
(* Proofs about the audit chain.                                            *)
EXTENDS AuditChain, FiniteSetTheorems, WellFoundedInduction, TLAPS

USE AuditAssumption DEF AuditAssumption

----------------------------------------------------------------------------
(* Facts about numbers and finite sets.                                     *)

(* A set of numbers that is not empty has a least element.                  *)
LEMMA LeastNatural ==
  ASSUME NEW T \in SUBSET Nat, T # {}
  PROVE  \E m \in T : \A k \in T : m <= k
<1>1. PICK R : /\ IsWellFoundedOn(R, Nat)
               /\ \A x, y \in Nat : y < x => <<y, x>> \in R
  <2>1. \A x, y \in Nat : y < x => <<y, x>> \in OpToRel(<, Nat)
    BY DEF OpToRel
  <2> QED
    BY <2>1, NatLessThanWellFounded
<1>2. PICK m \in T : \A k \in T : ~ (<<k, m>> \in R)
  BY <1>1, WFMin
<1>3. ASSUME NEW k \in T PROVE m <= k
  <2>1. ~ (<<k, m>> \in R)
    BY <1>2
  <2>2. k \in Nat /\ m \in Nat
    OBVIOUS
  <2>3. ~ (k < m)
    BY <1>1, <2>1, <2>2
  <2> QED
    BY <2>2, <2>3
<1> QED
  BY <1>3

(* What is made of each member of a finite set is a finite set.             *)
LEMMA FiniteImage ==
  ASSUME NEW S, IsFiniteSet(S), NEW f, DOMAIN f = S
  PROVE  IsFiniteSet({f[x] : x \in S})
<1> DEFINE T == {f[x] : x \in S}
           g == [x \in S |-> f[x]]
<1>1. g \in Surjection(S, T)
  BY DEF Surjection
<1> HIDE DEF T, g
<1>2. IsFiniteSet(T)
  BY <1>1, FS_Surjection
<1> QED
  BY <1>2 DEF T
----------------------------------------------------------------------------
(* Types.  Every row is of an event, transactions write finitely many, and  *)
(* one that waits has events left to write.                                 *)
RealRows == {x \in Rows : x.id \in Ids}

FormInv ==
    /\ log \subseteq RealRows /\ IsFiniteSet(log)
    /\ \A w \in Writers :
          /\ buf[w] \subseteq RealRows /\ IsFiniteSet(buf[w])
          /\ snap[w] \subseteq RealRows
          /\ pc[w] = "waiting" => Cardinality(buf[w]) < size[w]

(* An event that is added is one more row of its transaction.               *)
LEMMA AddTyped ==
  ASSUME TypeOK, FormInv, NEW w \in Writers, NEW seq \in Nat, NEW prev \in Ids \cup {NoHash},
         Cardinality(buf[w]) < size[w], Add(w, seq, prev)
  PROVE  /\ clock' \in Nat
         /\ buf' \in [Writers -> SUBSET Rows]
         /\ \A v \in Writers : buf'[v] \subseteq RealRows /\ IsFiniteSet(buf'[v])
<1>1. Cardinality(buf[w]) \in Nat /\ IsFiniteSet(buf[w])
  BY FS_CardinalityType DEF FormInv
<1>2. Cardinality(buf[w]) + 1 \in 1..MaxEvents
  BY <1>1 DEF TypeOK
<1>3. Event(w, seq, prev) \in RealRows
  BY <1>2 DEF Event, RealRows, Rows, Ids, TypeOK
<1>4. IsFiniteSet(buf[w] \cup {Event(w, seq, prev)})
  BY <1>1, FS_AddElement
<1> QED
  BY <1>3, <1>4 DEF Add, TypeOK, FormInv, RealRows

(* The numbers that the backfill gives are numbers.                         *)
LEMMA BackfillNat ==
  ASSUME FormInv, NEW x
  PROVE  /\ IsFiniteSet(Numbered) /\ Cardinality(Numbered) \in Nat
         /\ BackfillSeq(x) \in Nat
<1>1. IsFiniteSet(Numbered) /\ IsFiniteSet({y \in log : y.seq = 0 /\ y.ts <= x.ts})
  BY FS_Subset DEF FormInv, Numbered
<1> QED
  BY <1>1, FS_CardinalityType DEF BackfillSeq

LEMMA BackfillTyped == TypeOK /\ FormInv /\ Backfill =>
                         log' \subseteq RealRows /\ IsFiniteSet(log')
<1> SUFFICES ASSUME TypeOK, FormInv, Backfill
             PROVE  log' \subseteq RealRows /\ IsFiniteSet(log')
  OBVIOUS
<1> DEFINE renumbered == [x \in log \ Numbered |-> [x EXCEPT !.seq = BackfillSeq(x)]]
<1>1. log' = Numbered \cup {renumbered[x] : x \in log \ Numbered}
  BY DEF Backfill
<1>2. \A x \in log \ Numbered : renumbered[x] \in RealRows
  <2> SUFFICES ASSUME NEW x \in log \ Numbered PROVE renumbered[x] \in RealRows
    OBVIOUS
  <2>1. x \in RealRows /\ BackfillSeq(x) \in Nat
    BY BackfillNat DEF FormInv
  <2> QED
    BY <2>1 DEF RealRows, Rows
<1>3. IsFiniteSet(Numbered) /\ IsFiniteSet(log \ Numbered)
  BY FS_Subset DEF FormInv, Numbered
<1>4. IsFiniteSet({renumbered[x] : x \in log \ Numbered})
  <2>1. DOMAIN renumbered = log \ Numbered
    OBVIOUS
  <2> HIDE DEF renumbered
  <2> QED
    BY <1>3, <2>1, FiniteImage
<1> HIDE DEF renumbered
<1> QED
  BY <1>1, <1>2, <1>3, <1>4, FS_Union DEF FormInv, Numbered

LEMMA Typed == TypeOK /\ FormInv /\ [Next]_vars => TypeOK' /\ FormInv'
<1> SUFFICES ASSUME TypeOK, FormInv, [Next]_vars PROVE TypeOK' /\ FormInv'
  OBVIOUS
<1> USE DEF TypeOK, FormInv
<1>0. RealRows \subseteq Rows /\ \A x \in RealRows : x.id \in Ids /\ x.seq + 1 \in Nat
  BY DEF RealRows, Rows
<1>1. ASSUME NEW w \in Writers, WriteUnchained(w) PROVE TypeOK' /\ FormInv'
  <2>1. /\ clock' \in Nat /\ buf' \in [Writers -> SUBSET Rows]
        /\ \A v \in Writers : buf'[v] \subseteq RealRows /\ IsFiniteSet(buf'[v])
    BY <1>1, AddTyped DEF WriteUnchained, Writing
  <2> QED
    BY <1>1, <2>1 DEF WriteUnchained, Writing, Add
<1>2. ASSUME NEW w \in Writers, WriteFirst(w) PROVE TypeOK' /\ FormInv'
  <2>1. /\ clock' \in Nat /\ buf' \in [Writers -> SUBSET Rows]
        /\ \A v \in Writers : buf'[v] \subseteq RealRows /\ IsFiniteSet(buf'[v])
    BY <1>2, AddTyped DEF WriteFirst, Writing
  <2> QED
    BY <1>2, <2>1 DEF WriteFirst, Writing, Add
<1>3. ASSUME NEW w \in Writers, WriteNext(w) PROVE TypeOK' /\ FormInv'
  <2>1. PICK x \in log \cup buf[w] : Continue(w, x)
    BY <1>3 DEF WriteNext, Latest
  <2>2. /\ clock' \in Nat /\ buf' \in [Writers -> SUBSET Rows]
        /\ \A v \in Writers : buf'[v] \subseteq RealRows /\ IsFiniteSet(buf'[v])
    BY <1>0, <1>3, <2>1, AddTyped DEF WriteNext, Writing, Continue
  <2>3. locked' \in [Writers -> SUBSET Ids]
    BY <1>0, <2>1 DEF Continue
  <2>4. \A v \in Writers : v # w => buf'[v] = buf[v]
    BY <2>1 DEF Continue, Add
  <2> QED
    BY <1>3, <2>2, <2>3, <2>4 DEF WriteNext, Writing
<1>4. ASSUME NEW w \in Writers, Wait(w) PROVE TypeOK' /\ FormInv'
  <2>1. PICK x \in log \cup buf[w] : snap' = [snap EXCEPT ![w] = {x}]
    BY <1>4 DEF Wait, Latest
  <2> QED
    BY <1>0, <1>4, <2>1 DEF Wait, Writing
<1>5. ASSUME NEW w \in Writers, Wake(w) PROVE TypeOK' /\ FormInv'
  <2>1. PICK x \in snap[w] : Continue(w, x)
    BY <1>5 DEF Wake
  <2>2. /\ clock' \in Nat /\ buf' \in [Writers -> SUBSET Rows]
        /\ \A v \in Writers : buf'[v] \subseteq RealRows /\ IsFiniteSet(buf'[v])
    BY <1>0, <1>5, <2>1, AddTyped DEF Wake, Continue
  <2>3. locked' \in [Writers -> SUBSET Ids]
    BY <1>0, <2>1 DEF Continue
  <2>4. \A v \in Writers : v # w => buf'[v] = buf[v]
    BY <2>1 DEF Continue, Add
  <2> QED
    BY <1>5, <2>2, <2>3, <2>4 DEF Wake
<1>6. ASSUME NEW w \in Writers, Commit(w) PROVE TypeOK' /\ FormInv'
  <2>1. IsFiniteSet(log \cup buf[w])
    BY FS_Union
  <2> QED
    BY <1>0, <1>6, <2>1, FS_EmptySet DEF Commit, End
<1>7. ASSUME NEW w \in Writers, Conflict(w) \/ Abort(w) PROVE TypeOK' /\ FormInv'
  BY <1>7, FS_EmptySet DEF Conflict, Abort, End
<1>8. CASE Restart
  BY <1>8 DEF Restart
<1>9. CASE Backfill
  BY <1>0, <1>9, BackfillTyped DEF Backfill
<1>10. CASE UNCHANGED vars
  BY <1>10 DEF vars
<1> QED
  BY <1>1, <1>2, <1>3, <1>4, <1>5, <1>6, <1>7, <1>8, <1>9, <1>10 DEF Next, Write

LEMMA FormInit == Init => TypeOK /\ FormInv
<1> SUFFICES ASSUME Init PROVE TypeOK /\ FormInv
  OBVIOUS
<1>1. PICK n \in 0..MaxOld, chained \in BOOLEAN :
        log = {OldRow(i, chained) : i \in 1..n} /\ clock = n
  BY DEF Init
<1>2. \A i \in 1..n : OldRow(i, chained) \in RealRows
  BY DEF OldRow, RealRows, Rows, Ids, OldIds
<1>3. IsFiniteSet(log)
  <2> DEFINE row == [i \in 1..n |-> OldRow(i, chained)]
  <2>1. DOMAIN row = 1..n /\ log = {row[i] : i \in 1..n}
    BY <1>1
  <2>2. IsFiniteSet(1..n)
    <3>1. n \in Int /\ 1 \in Int
      BY <1>1
    <3> QED
      BY <3>1, FS_Interval
  <2> HIDE DEF row
  <2> QED
    BY <2>1, <2>2, FiniteImage
<1>4. log \subseteq RealRows /\ RealRows \subseteq Rows
  BY <1>1, <1>2 DEF RealRows
<1>5. clock \in Nat
  BY <1>1
<1>6. TypeOK
  <2>1. log \subseteq Rows
    BY <1>4
  <2>2. enabled \in BOOLEAN /\ migrated \in BOOLEAN /\ size \in [Writers -> 1..MaxEvents]
    BY Zenon DEF Init
  <2>4. toggles = 0 /\ 0 \in 0..MaxToggles
    BY DEF Init
  <2>3. /\ pc = [w \in Writers |-> "writing"]
        /\ buf = [w \in Writers |-> {}] /\ snap = [w \in Writers |-> {}]
        /\ locked = [w \in Writers |-> {}]
    BY DEF Init
  <2> QED
    BY <1>5, <2>1, <2>2, <2>3, <2>4 DEF TypeOK
<1>7. IsFiniteSet({})
  BY FS_EmptySet
<1>8. FormInv
  BY <1>3, <1>4, <1>7 DEF Init, FormInv
<1> QED
  BY <1>6, <1>8

(* The log, its writers and their locks keep their types, for any number of *)
(* transactions, events and old rows (logger.py:35-125).                    *)
THEOREM TypeCorrect == Spec => []TypeOK
<1>1. Spec => [](TypeOK /\ FormInv)
  BY FormInit, Typed, PTL DEF Spec
<1> QED
  BY <1>1, PTL

LEMMA Formed == Spec => [](TypeOK /\ FormInv)
BY FormInit, Typed, PTL DEF Spec
----------------------------------------------------------------------------
(* What a transaction will continue from is a row it can see, and none of   *)
(* its own rows has a greater number.                                       *)
SnapInv ==
    \A w \in Writers :
        /\ pc[w] # "waiting" => snap[w] = {}
        /\ \A x \in snap[w] : x \in log \cup buf[w] /\ \A y \in buf[w] : y.seq <= x.seq
        /\ \A x \in buf[w] : x.id \notin OldIds
        /\ buf[w] \cup snap[w] # {} => HasColumn

(* The five kinds of steps: an event is added, a transaction is committed   *)
(* or ends otherwise, the migration runs, or rows stay what they are.       *)
Added(w, e) ==
    /\ HasColumn
    /\ e.ts = clock /\ clock' = clock + 1 /\ e.id \notin OldIds
    /\ buf' = [buf EXCEPT ![w] = @ \cup {e}]
    /\ UNCHANGED <<log, migrated>>
    /\ \/ e.seq = 0 /\ e.prev = NoHash
       \/ buf[w] = {} /\ e.seq = 1 /\ e.prev = NoHash
       \/ \E x \in log \cup buf[w] :
             e.seq = x.seq + 1 /\ e.prev = x.id /\ \A y \in buf[w] : y.seq <= x.seq

Committed(w) ==
    /\ ~Collides(w)
    /\ log' = log \cup buf[w] /\ buf' = [buf EXCEPT ![w] = {}]
    /\ UNCHANGED <<clock, migrated>>

Ended(w) == buf' = [buf EXCEPT ![w] = {}] /\ UNCHANGED <<log, clock, migrated>>

Quiet == UNCHANGED <<log, buf, clock, migrated>>

Kinds ==
    \/ \E w \in Writers : \E e \in RealRows : Added(w, e)
    \/ \E w \in Writers : Committed(w) \/ Ended(w)
    \/ Backfill \/ Quiet

(* A new event is a new row of its transaction.                             *)
LEMMA AddOwn ==
  ASSUME NEW w \in Writers, NEW seq, NEW prev, Add(w, seq, prev)
  PROVE  \E e : buf' = [buf EXCEPT ![w] = @ \cup {e}] /\ e.id \notin OldIds
<1>1. Event(w, seq, prev).id \notin OldIds
  BY DEF Event, OldIds
<1>2. buf' = [buf EXCEPT ![w] = @ \cup {Event(w, seq, prev)}]
  BY DEF Add
<1> QED
  BY <1>1, <1>2

LEMMA StepKinds == TypeOK /\ FormInv /\ SnapInv /\ [Next]_vars => Kinds
<1> SUFFICES ASSUME TypeOK, FormInv, SnapInv, [Next]_vars PROVE Kinds
  OBVIOUS
<1>0. ASSUME NEW w \in Writers, NEW seq \in Nat, NEW prev \in Ids \cup {NoHash},
             Add(w, seq, prev), HasColumn, UNCHANGED <<log, migrated>>,
             Cardinality(buf[w]) < size[w],
             \/ seq = 0 /\ prev = NoHash
             \/ buf[w] = {} /\ seq = 1 /\ prev = NoHash
             \/ \E x \in log \cup buf[w] :
                   seq = x.seq + 1 /\ prev = x.id /\ \A y \in buf[w] : y.seq <= x.seq
      PROVE  Kinds
  <2> DEFINE e == Event(w, seq, prev)
  <2>1. e \in buf'[w] /\ buf' = [buf EXCEPT ![w] = @ \cup {e}] /\ clock' = clock + 1
    BY <1>0 DEF Add, TypeOK
  <2>2. e \in RealRows
    BY <1>0, <2>1, AddTyped
  <2>3. /\ e.ts = clock /\ e.seq = seq /\ e.prev = prev
        /\ e.id = <<w, Cardinality(buf[w]) + 1>> /\ e.id \notin OldIds
    BY DEF Event, OldIds
  <2> HIDE DEF e
  <2>4. Added(w, e)
    BY <1>0, <2>1, <2>3 DEF Added
  <2> QED
    BY <2>2, <2>4 DEF Kinds
<1>1. \A x \in RealRows : x.id \in Ids /\ x.seq \in Nat /\ x.seq + 1 \in Nat
  BY DEF RealRows, Rows
<1>2. ASSUME NEW w \in Writers, WriteUnchained(w) PROVE Kinds
  BY <1>0, <1>2 DEF WriteUnchained, Writing
<1>3. ASSUME NEW w \in Writers, WriteFirst(w) PROVE Kinds
  BY <1>0, <1>3 DEF WriteFirst, Writing
<1>4. ASSUME NEW w \in Writers, WriteNext(w) PROVE Kinds
  <2>1. PICK x \in log \cup buf[w] :
          Continue(w, x) /\ \A y \in log \cup buf[w] : ~Precedes(x, y)
    BY <1>4 DEF WriteNext, Latest
  <2>2. \A y \in buf[w] : y.seq <= x.seq
    BY <1>1, <2>1 DEF Precedes, FormInv
  <2>3. x.seq + 1 \in Nat /\ x.id \in Ids
    BY <1>1, <2>1 DEF FormInv
  <2> QED
    BY <1>0, <1>4, <2>1, <2>2, <2>3 DEF WriteNext, Writing, Continue
<1>5. ASSUME NEW w \in Writers, Wake(w) PROVE Kinds
  <2>1. PICK x \in snap[w] : Continue(w, x)
    BY <1>5 DEF Wake
  <2>2. x.seq + 1 \in Nat /\ x.id \in Ids
    BY <1>1, <2>1 DEF FormInv
  <2>3. /\ HasColumn /\ x \in log \cup buf[w] /\ \A y \in buf[w] : y.seq <= x.seq
    BY <2>1 DEF SnapInv
  <2>4. Cardinality(buf[w]) < size[w]
    BY <1>5 DEF Wake, FormInv
  <2> QED
    BY <1>0, <1>5, <2>1, <2>2, <2>3, <2>4 DEF Wake, Continue
<1>6. ASSUME NEW w \in Writers, Wait(w) PROVE Kinds
  BY <1>6 DEF Kinds, Wait, Quiet
<1>7. ASSUME NEW w \in Writers, Commit(w) PROVE Kinds
  BY <1>7 DEF Kinds, Commit, End, Committed
<1>8. ASSUME NEW w \in Writers, Conflict(w) \/ Abort(w) PROVE Kinds
  BY <1>8 DEF Kinds, Conflict, Abort, End, Ended
<1>9. CASE Restart \/ Backfill \/ UNCHANGED vars
  BY <1>9 DEF Kinds, Restart, vars, Quiet
<1> QED
  BY <1>2, <1>3, <1>4, <1>5, <1>6, <1>7, <1>8, <1>9 DEF Next, Write

LEMMA SnapKept == TypeOK /\ FormInv /\ SnapInv /\ [Next]_vars => SnapInv'
<1> SUFFICES ASSUME TypeOK, FormInv, SnapInv, [Next]_vars PROVE SnapInv'
  OBVIOUS
<1>0. ASSUME HasColumn PROVE HasColumn'
  <2>1. ASSUME NEW w \in Writers, NEW e, Added(w, e) PROVE HasColumn'
    BY <1>0, <2>1 DEF Added, HasColumn
  <2>2. ASSUME NEW w \in Writers, Committed(w) \/ Ended(w) PROVE HasColumn'
    BY <1>0, <2>2 DEF Committed, Ended, HasColumn, SnapInv
  <2>3. CASE Backfill \/ Quiet
    BY <1>0, <2>3 DEF Backfill, Quiet, HasColumn
  <2> QED
    BY <2>1, <2>2, <2>3, StepKinds DEF Kinds
<1> USE DEF SnapInv, TypeOK
<1>1. ASSUME NEW w \in Writers, WriteUnchained(w) \/ WriteFirst(w) PROVE SnapInv'
  <2>1. /\ pc' = pc /\ snap' = snap /\ log' = log /\ pc[w] = "writing" /\ HasColumn
        /\ \E e : buf' = [buf EXCEPT ![w] = @ \cup {e}] /\ e.id \notin OldIds
    BY <1>1, AddOwn DEF WriteUnchained, WriteFirst, Writing
  <2> QED
    BY <1>0, <2>1
<1>2. ASSUME NEW w \in Writers, WriteNext(w) PROVE SnapInv'
  <2>1. /\ pc' = pc /\ snap' = snap /\ log' = log /\ pc[w] = "writing" /\ HasColumn
        /\ \E e : buf' = [buf EXCEPT ![w] = @ \cup {e}] /\ e.id \notin OldIds
    BY <1>2, AddOwn DEF WriteNext, Continue, Writing
  <2> QED
    BY <1>0, <2>1
<1>3. ASSUME NEW w \in Writers, Wait(w) PROVE SnapInv'
  <2>1. PICK x \in log \cup buf[w] :
          snap' = [snap EXCEPT ![w] = {x}] /\ \A y \in log \cup buf[w] : ~Precedes(x, y)
    BY <1>3 DEF Wait, Latest
  <2>2. \A y \in buf[w] : y.seq <= x.seq
    <3>1. \A y \in log \cup buf[w] : y.seq \in Nat
      BY DEF FormInv, RealRows, Rows
    <3> QED
      BY <2>1, <3>1 DEF Precedes
  <2> QED
    BY <1>0, <1>3, <2>1, <2>2 DEF Wait, Writing
<1>4. ASSUME NEW w \in Writers, Wake(w) PROVE SnapInv'
  <2>1. /\ pc' = [pc EXCEPT ![w] = "writing"] /\ snap' = [snap EXCEPT ![w] = {}] /\ log' = log
        /\ HasColumn /\ \E e : buf' = [buf EXCEPT ![w] = @ \cup {e}] /\ e.id \notin OldIds
    BY <1>4, AddOwn DEF Wake, Continue
  <2> QED
    BY <1>0, <2>1
<1>5. ASSUME NEW w \in Writers, Commit(w) PROVE SnapInv'
  BY <1>0, <1>5 DEF Commit, End
<1>6. ASSUME NEW w \in Writers, Conflict(w) \/ Abort(w) PROVE SnapInv'
  BY <1>0, <1>6 DEF Conflict, Abort, End
<1>7. CASE Restart
  BY <1>0, <1>7 DEF Restart
<1>8. CASE Backfill
  BY <1>0, <1>8 DEF Backfill, Quiescent
<1>9. CASE UNCHANGED vars
  BY <1>0, <1>9 DEF vars
<1> QED
  BY <1>1, <1>2, <1>3, <1>4, <1>5, <1>6, <1>7, <1>8, <1>9 DEF Next, Write

LEMMA Snapped == Spec => [](TypeOK /\ FormInv /\ SnapInv)
<1>1. Init => SnapInv
  BY DEF Init, SnapInv
<1> QED
  BY <1>1, Formed, SnapKept, PTL DEF Spec
----------------------------------------------------------------------------
(* Time stamps are of the past and belong to one event each; an old row is  *)
(* there with those before it until the migration, and no other row has a   *)
(* hash without a number.                                                   *)
Events == log \cup UNION {buf[w] : w \in Writers}

OldLog ==
    \E n \in 0..MaxOld, chained \in BOOLEAN : log = {OldRow(i, chained) : i \in 1..n}

TimeInv ==
    /\ \A x \in Events : x.ts < clock
    /\ \A x, y \in Events : x.ts = y.ts => x = y
    /\ ~HasColumn => OldLog
    /\ HasColumn /\ ~migrated => \A x \in log : x.seq = 0 => x.prev = NoHash
    /\ \A w \in Writers : \A x \in buf[w] : x.seq = 0 => x.prev = NoHash

LEMMA EventTimes == TypeOK /\ FormInv => \A x \in Events : x.ts \in Nat /\ x.seq \in Nat
BY DEF Events, FormInv, RealRows, Rows

LEMMA TimeKept ==
    TypeOK /\ FormInv /\ SnapInv /\ TimeInv /\ [Next]_vars => TimeInv'
<1> SUFFICES ASSUME TypeOK, FormInv, SnapInv, TimeInv, [Next]_vars PROVE TimeInv'
  OBVIOUS
<1>0. Kinds /\ \A x \in Events : x.ts \in Nat /\ x.seq \in Nat
  BY StepKinds, EventTimes
<1>1. ASSUME NEW w \in Writers, NEW e \in RealRows, Added(w, e) PROVE TimeInv'
  <2>1. Events' = Events \cup {e}
    BY <1>1 DEF Added, Events, TypeOK
  <2>2. HasColumn' /\ HasColumn /\ log' = log /\ migrated' = migrated
    BY <1>1 DEF Added, HasColumn
  <2>3. e.seq = 0 => e.prev = NoHash
    BY <1>0, <1>1 DEF Added, Events
  <2>4. \A v \in Writers : \A x \in buf'[v] : x \in buf[v] \/ x = e
    BY <1>1 DEF Added, TypeOK
  <2>5. e.ts = clock /\ clock' = clock + 1 /\ clock \in Nat
    BY <1>1 DEF Added, TypeOK
  <2>6. \A x \in Events : x.ts < clock
    BY DEF TimeInv
  <2>7. /\ \A x \in Events' : x.ts < clock'
        /\ \A x, y \in Events' : x.ts = y.ts => x = y
    BY <1>0, <2>1, <2>5, <2>6 DEF TimeInv
  <2> QED
    BY <2>2, <2>3, <2>4, <2>7 DEF TimeInv
<1>2. ASSUME NEW w \in Writers, Committed(w) \/ Ended(w) PROVE TimeInv'
  <2>1. Events' \subseteq Events /\ clock' = clock
    BY <1>2 DEF Committed, Ended, Events, TypeOK
  <2>2. CASE buf[w] = {} \/ Ended(w)
    <3>1. log' = log /\ migrated' = migrated /\ \A v \in Writers : buf'[v] \subseteq buf[v]
      BY <1>2, <2>2 DEF Committed, Ended, TypeOK
    <3> QED
      BY <2>1, <3>1 DEF TimeInv, HasColumn, OldLog
  <2>3. CASE Committed(w) /\ buf[w] # {}
    <3>1. HasColumn /\ HasColumn'
      BY <2>3 DEF Committed, HasColumn, SnapInv
    <3>2. log' = log \cup buf[w] /\ migrated' = migrated
          /\ \A v \in Writers : buf'[v] \subseteq buf[v]
      BY <2>3 DEF Committed, TypeOK
    <3> QED
      BY <2>1, <3>1, <3>2 DEF TimeInv
  <2> QED
    BY <1>2, <2>2, <2>3
<1>3. CASE Backfill
  <2>1. migrated' /\ HasColumn' /\ buf' = buf /\ clock' = clock /\ \A w \in Writers : buf[w] = {}
    BY <1>3 DEF Backfill, HasColumn, Quiescent
  <2>2. \A y \in Events' : \E x \in log : y = x \/ y = [x EXCEPT !.seq = BackfillSeq(x)]
    BY <1>3, <2>1 DEF Backfill, Events, Numbered
  <2>3. \A y \in Events' : \E x \in log : y.ts = x.ts /\ (x.seq # 0 => y = x)
                           /\ (x.seq = 0 => y = [x EXCEPT !.seq = BackfillSeq(x)])
    <3>1. ASSUME NEW y \in Events'
          PROVE  \E x \in log : y.ts = x.ts /\ (x.seq # 0 => y = x)
                           /\ (x.seq = 0 => y = [x EXCEPT !.seq = BackfillSeq(x)])
      <4>1. y \in log'
        BY <2>1 DEF Events
      <4>2. CASE y \in Numbered
        BY <4>2 DEF Numbered
      <4>3. CASE \E x \in log \ Numbered : y = [x EXCEPT !.seq = BackfillSeq(x)]
        <5>1. PICK x \in log \ Numbered : y = [x EXCEPT !.seq = BackfillSeq(x)]
          BY <4>3
        <5>2. x \in Rows /\ x.seq = 0
          BY <5>1 DEF FormInv, RealRows, Numbered
        <5>3. y.ts = x.ts
          BY <5>1, <5>2 DEF Rows
        <5> QED
          BY <5>1, <5>2, <5>3
      <4> QED
        BY <1>3, <4>1, <4>2, <4>3 DEF Backfill
    <3> QED
      BY <3>1
  <2>4. \A x \in log : x \in Events
    BY DEF Events
  <2> QED
    BY <2>1, <2>3, <2>4 DEF TimeInv
<1>4. CASE Quiet
  BY <1>4 DEF Quiet, TimeInv, Events, HasColumn, OldLog
<1> QED
  BY <1>0, <1>1, <1>2, <1>3, <1>4 DEF Kinds

LEMMA TimeInit == Init => TimeInv
<1> SUFFICES ASSUME Init PROVE TimeInv
  OBVIOUS
<1>1. PICK n \in 0..MaxOld, chained \in BOOLEAN :
        log = {OldRow(i, chained) : i \in 1..n} /\ clock = n
  BY DEF Init
<1>2. \A w \in Writers : buf[w] = {}
  BY DEF Init
<1>3. Events = log
  BY <1>2 DEF Events
<1>4. \A i \in 1..n : OldRow(i, chained).ts = i - 1 /\ OldRow(i, chained).id \in OldIds
  BY DEF OldRow, OldIds
<1>5. OldLog
  BY <1>1 DEF OldLog
<1>6. HasColumn /\ ~migrated => log = {}
  BY <1>1, <1>4 DEF HasColumn
<1>7. /\ \A x \in log : x.ts < clock
      /\ \A x, y \in log : x.ts = y.ts => x = y
  BY <1>1, <1>4
<1> QED
  BY <1>2, <1>3, <1>5, <1>6, <1>7 DEF TimeInv

LEMMA Timed == Spec => [](TypeOK /\ FormInv /\ SnapInv /\ TimeInv)
BY TimeInit, TimeKept, Snapped, PTL DEF Spec
----------------------------------------------------------------------------
(* The chain.  Every number has the one before it, in the log or, for a     *)
(* transaction, among what it added.                                        *)
ChainInv ==
    /\ Unforked
    /\ \A w \in Writers :
          /\ \A x, y \in buf[w] : x.seq = y.seq /\ y.seq # 0 => x = y
          /\ \A y \in buf[w] : y.seq > 1 =>
                \E x \in log \cup buf[w] : x.seq + 1 = y.seq /\ y.prev = x.id

(* Where every number has the one before it, all smaller ones are there.    *)
LEMMA DownClosed ==
  ASSUME NEW S, \A x \in S : x.seq \in Nat \ {0},
         \A y \in S : y.seq > 1 => \E x \in S : x.seq + 1 = y.seq,
         NEW y \in S, NEW k \in 1..y.seq
  PROVE  \E x \in S : x.seq = k
<1> SUFFICES ASSUME ~ \E x \in S : x.seq = k PROVE FALSE
  OBVIOUS
<1> DEFINE Missing == {j \in 1..y.seq : ~ \E x \in S : x.seq = j}
           Gaps == {g \in 0..y.seq : y.seq - g \in Missing}
<1>1. Gaps \in SUBSET Nat /\ Gaps # {}
  <2>1. y.seq - k \in 0..y.seq /\ y.seq - (y.seq - k) = k /\ k \in Missing
    OBVIOUS
  <2> QED
    BY <2>1
<1>2. PICK g \in Gaps : \A h \in Gaps : g <= h
  BY <1>1, LeastNatural
<1> DEFINE j == y.seq - g
<1>3. j \in Missing /\ j # y.seq /\ g \in Nat /\ g > 0
  BY <1>2
<1>4. g - 1 \notin Gaps
  BY <1>2, <1>3
<1>5. j + 1 \in 1..y.seq /\ y.seq - (g - 1) = j + 1 /\ g - 1 \in 0..y.seq
  BY <1>3
<1>6. PICK z \in S : z.seq = j + 1
  BY <1>4, <1>5
<1>7. \E x \in S : x.seq + 1 = j + 1
  BY <1>3, <1>6
<1> QED
  BY <1>3, <1>7

LEMMA NumbersDown ==
  ASSUME TypeOK, FormInv, Unforked, NEW y \in Numbered, NEW k \in 1..y.seq
  PROVE  \E x \in Numbered : x.seq = k
<1>1. \A x \in Numbered : x.seq \in Nat \ {0}
  BY DEF Numbered, FormInv, RealRows, Rows
<1>2. \A z \in Numbered : z.seq > 1 => \E x \in Numbered : x.seq + 1 = z.seq
  BY DEF Unforked
<1> QED
  BY <1>1, <1>2, DownClosed

(* A number that is new to the log lies behind all that are given.          *)
LEMMA NewBehind ==
  ASSUME TypeOK, FormInv, Unforked, NEW x \in Numbered, NEW n \in Nat \ {0},
         \A z \in Numbered : z.seq # n
  PROVE  x.seq < n
<1>1. x.seq \in Nat
  BY DEF Numbered, FormInv, RealRows, Rows
<1>2. ~ (n \in 1..x.seq)
  BY NumbersDown
<1> QED
  BY <1>1, <1>2

(* The numbers are those from 1 to their count.                             *)
LEMMA NumbersCount ==
  ASSUME TypeOK, FormInv, Unforked
  PROVE  /\ \A y \in Numbered : y.seq <= Cardinality(Numbered)
         /\ Cardinality(Numbered) > 0 => \E y \in Numbered : y.seq = Cardinality(Numbered)
<1>0. /\ IsFiniteSet(Numbered) /\ Cardinality(Numbered) \in Nat
      /\ \A x \in Numbered : x.seq \in Nat \ {0}
  BY BackfillNat DEF Numbered, FormInv, RealRows, Rows
<1>1. ASSUME NEW y \in Numbered PROVE y.seq <= Cardinality(Numbered)
  <2> DEFINE f == [k \in 1..y.seq |-> CHOOSE x \in Numbered : x.seq = k]
  <2>1. \A k \in 1..y.seq : f[k] \in Numbered /\ f[k].seq = k
    BY NumbersDown
  <2>2. f \in Injection(1..y.seq, Numbered)
    <3>1. f \in [1..y.seq -> Numbered]
      BY <2>1
    <3>2. \A a, b \in 1..y.seq : f[a] = f[b] => a = b
      BY <2>1
    <3> HIDE DEF f
    <3> QED
      BY <3>1, <3>2 DEF Injection, IsInjective
  <2>3. Cardinality(1..y.seq) <= Cardinality(Numbered)
    BY <1>0, <2>2, FS_Injection
  <2>4. Cardinality(1..y.seq) = y.seq
    <3>1. y.seq \in Int /\ 1 \in Int /\ ~ (1 > y.seq) /\ y.seq - 1 + 1 = y.seq
      BY <1>0
    <3> QED
      BY <3>1, FS_Interval
  <2> QED
    BY <2>3, <2>4
<1>2. ASSUME Cardinality(Numbered) > 0, \A y \in Numbered : y.seq # Cardinality(Numbered)
      PROVE  FALSE
  <2> DEFINE m == Cardinality(Numbered) - 1
             f == [x \in Numbered |-> x.seq]
  <2>1. m \in Nat /\ \A x \in Numbered : x.seq \in 1..m
    BY <1>0, <1>1, <1>2
  <2>2. f \in Injection(Numbered, 1..m)
    <3>1. \A x, y \in Numbered : x.seq = y.seq => x = y
      BY DEF Unforked
    <3> QED
      BY <2>1, <3>1 DEF Injection, IsInjective
  <2>3. IsFiniteSet(1..m) /\ Cardinality(1..m) = m
    <3>1. m \in Int /\ 1 \in Int /\ (IF 1 > m THEN 0 ELSE m - 1 + 1) = m
      BY <2>1
    <3> HIDE DEF m
    <3> QED
      BY <3>1, FS_Interval
  <2>4. Cardinality(Numbered) <= m
    BY <2>2, <2>3, FS_Injection
  <2> QED
    BY <1>0, <2>4
<1> QED
  BY <1>1, <1>2
----------------------------------------------------------------------------
(* The backfill.  Ranks by time stamp count the rows without a number.      *)
Unnumbered == log \ Numbered
UpTo(x) == {y \in log : y.seq = 0 /\ y.ts <= x.ts}
Rank(x) == Cardinality(UpTo(x))

LEMMA RankFacts ==
  ASSUME TypeOK, FormInv, TimeInv, NEW x \in Unnumbered
  PROVE  /\ IsFiniteSet(UpTo(x)) /\ Cardinality(UpTo(x)) \in Nat \ {0}
         /\ \A y \in Unnumbered : y.ts < x.ts => Cardinality(UpTo(y)) < Cardinality(UpTo(x))
<1>0. \A y \in log : y.ts \in Nat /\ y.seq \in Nat
  BY DEF FormInv, RealRows, Rows
<1>1. \A y : IsFiniteSet(UpTo(y)) /\ Cardinality(UpTo(y)) \in Nat
  <2>1. \A y : IsFiniteSet(UpTo(y))
    BY FS_Subset DEF FormInv, UpTo
  <2> QED
    BY <2>1, FS_CardinalityType
<1>2. x \in UpTo(x)
  BY <1>0 DEF UpTo, Unnumbered, Numbered
<1>3. Cardinality(UpTo(x)) # 0
  BY <1>1, <1>2, FS_EmptySet
<1>4. ASSUME NEW y \in Unnumbered, y.ts < x.ts
      PROVE  Cardinality(UpTo(y)) < Cardinality(UpTo(x))
  <2>1. UpTo(y) \subseteq UpTo(x) /\ x \notin UpTo(y)
    BY <1>0, <1>4 DEF UpTo, Unnumbered
  <2>2. Cardinality(UpTo(y)) <= Cardinality(UpTo(x)) /\ Cardinality(UpTo(y)) # Cardinality(UpTo(x))
    BY <1>1, <1>2, <2>1, FS_Subset
  <2> QED
    BY <1>1, <2>2
<1> QED
  BY <1>1, <1>3, <1>4

(* Behind the first comes, at each rank, the next later row.                *)
LEMMA RankBefore ==
  ASSUME TypeOK, FormInv, TimeInv, NEW x \in Unnumbered, Cardinality(UpTo(x)) > 1
  PROVE  \E y \in Unnumbered :
            /\ y.ts < x.ts /\ Cardinality(UpTo(y)) + 1 = Cardinality(UpTo(x))
            /\ \A z \in Unnumbered : z.ts < x.ts => z.ts <= y.ts
<1>0. \A y \in log : y.ts \in Nat /\ y.seq \in Nat
  BY DEF FormInv, RealRows, Rows
<1>00. \A y, z \in log : y.ts = z.ts => y = z
  BY DEF TimeInv, Events
<1> DEFINE Below == {y \in Unnumbered : y.ts < x.ts}
           Ages == {x.ts - y.ts : y \in Below}
<1>1. Below # {}
  <2> SUFFICES ASSUME Below = {} PROVE FALSE
    OBVIOUS
  <2>1. UpTo(x) \subseteq {x}
    <3>1. ASSUME NEW y \in UpTo(x) PROVE y = x
      <4>1. y \in Unnumbered /\ y.ts <= x.ts /\ ~ (y.ts < x.ts)
        BY <3>1 DEF UpTo, Unnumbered, Numbered
      <4>2. y.ts = x.ts
        BY <1>0, <4>1 DEF Unnumbered
      <4> QED
        BY <1>00, <4>1, <4>2 DEF Unnumbered
    <3> QED
      BY <3>1
  <2>2. IsFiniteSet({x}) /\ Cardinality({x}) = 1
    BY FS_Singleton
  <2>3. Cardinality(UpTo(x)) <= 1
    BY <2>1, <2>2, FS_Subset
  <2> QED
    BY <2>3, RankFacts
<1>2. Ages \in SUBSET Nat /\ Ages # {}
  BY <1>0, <1>1 DEF Unnumbered
<1>3. PICK g \in Ages : \A h \in Ages : g <= h
  BY <1>2, LeastNatural
<1>4. PICK y \in Below : g = x.ts - y.ts
  BY <1>3
<1>5. \A z \in Unnumbered : z.ts < x.ts => z.ts <= y.ts
  <2> SUFFICES ASSUME NEW z \in Unnumbered, z.ts < x.ts PROVE z.ts <= y.ts
    OBVIOUS
  <2>1. x.ts - z.ts \in Ages
    OBVIOUS
  <2>2. x.ts - y.ts <= x.ts - z.ts
    BY <1>3, <1>4, <2>1
  <2> QED
    BY <1>0, <2>2 DEF Unnumbered
<1>6. UpTo(x) = UpTo(y) \cup {x} /\ x \notin UpTo(y)
  <2>1. ASSUME NEW z \in UpTo(x), z # x PROVE z \in UpTo(y)
    <3>1. z \in Unnumbered /\ z.ts <= x.ts /\ z.ts # x.ts
      BY <1>00, <2>1 DEF UpTo, Unnumbered, Numbered
    <3>2. z.ts <= y.ts
      BY <1>0, <1>5, <3>1 DEF Unnumbered
    <3> QED
      BY <2>1, <3>2 DEF UpTo
  <2>2. UpTo(y) \subseteq UpTo(x) /\ x \in UpTo(x) /\ x \notin UpTo(y)
    BY <1>0 DEF UpTo, Unnumbered, Numbered
  <2> QED
    BY <2>1, <2>2
<1>7. Cardinality(UpTo(x)) = Cardinality(UpTo(y)) + 1
  BY <1>6, RankFacts, FS_AddElement
<1> QED
  BY <1>4, <1>5, <1>7

(* A row without a number has no hash, or that of the row of the rank       *)
(* before it.                                                               *)
LEMMA BackfillNames ==
  ASSUME TypeOK, FormInv, TimeInv, ~migrated, NEW x \in Unnumbered, Rank(x) > 1
  PROVE  \E y \in Unnumbered :
            Rank(y) + 1 = Rank(x) /\ (x.prev = y.id \/ x.prev = NoHash)
<1>1. PICK y \in Unnumbered : /\ y.ts < x.ts /\ Rank(y) + 1 = Rank(x)
                              /\ \A z \in Unnumbered : z.ts < x.ts => z.ts <= y.ts
  BY RankBefore DEF Rank
<1>2. CASE HasColumn
  BY <1>1, <1>2 DEF TimeInv, Unnumbered, Numbered, FormInv, RealRows, Rows
<1>3. CASE ~HasColumn
  <2>1. PICK n \in 0..MaxOld, chained \in BOOLEAN : log = {OldRow(i, chained) : i \in 1..n}
    BY <1>3 DEF TimeInv, OldLog
  <2>2. \A i \in 1..n : /\ OldRow(i, chained).seq = 0
                         /\ OldRow(i, chained).ts = i - 1
                         /\ OldRow(i, chained).id = <<Old, i>>
                         /\ OldRow(i, chained).prev \in {NoHash, <<Old, i - 1>>}
    BY DEF OldRow
  <2>3. Unnumbered = log
    BY <2>1, <2>2 DEF Unnumbered, Numbered
  <2>4. PICK i \in 1..n, j \in 1..n : x = OldRow(i, chained) /\ y = OldRow(j, chained)
    BY <2>1, <2>3
  <2>5. j < i
    BY <1>1, <2>2, <2>4
  <2>6. OldRow(i - 1, chained) \in Unnumbered /\ i - 1 \in 1..n
    BY <2>1, <2>3, <2>5
  <2>7. i - 2 <= j - 1
    BY <1>1, <2>2, <2>4, <2>6
  <2>8. j = i - 1
    BY <2>5, <2>7
  <2> QED
    BY <1>1, <2>2, <2>4, <2>8
<1> QED
  BY <1>2, <1>3

(* The migration leaves a chain without gap or repetition.                  *)
LEMMA BackfillUnforked ==
  ASSUME TypeOK, FormInv, TimeInv, Unforked, Backfill PROVE Unforked'
<1> DEFINE N == Cardinality(Numbered)
           New(x) == [x EXCEPT !.seq = BackfillSeq(x)]
<1>1. /\ N \in Nat
      /\ \A y \in Numbered : y.seq \in Nat \ {0} /\ y.seq <= N
      /\ N > 0 => \E y \in Numbered : y.seq = N
  BY BackfillNat, NumbersCount DEF Numbered, FormInv, RealRows, Rows
<1>2. \A x \in Unnumbered :
        /\ New(x).seq = N + Rank(x) /\ New(x).ts = x.ts
        /\ New(x).id = x.id /\ New(x).prev = x.prev
  BY DEF Unnumbered, FormInv, RealRows, Rows, BackfillSeq, UpTo, Rank
<1>3. \A x \in Unnumbered : Rank(x) \in Nat \ {0}
  BY RankFacts DEF Rank
<1>4. \A x, y \in Unnumbered : Rank(x) = Rank(y) => x = y
  <2> SUFFICES ASSUME NEW x \in Unnumbered, NEW y \in Unnumbered, Rank(x) = Rank(y)
               PROVE  x = y
    OBVIOUS
  <2>1. x.ts \in Nat /\ y.ts \in Nat
    BY DEF Unnumbered, FormInv, RealRows, Rows
  <2>2. ~ (x.ts < y.ts) /\ ~ (y.ts < x.ts)
    BY <1>3, RankFacts DEF Rank
  <2> QED
    BY <2>1, <2>2 DEF TimeInv, Events, Unnumbered
<1>6. \A x \in Unnumbered : N > 0 => x.prev = NoHash
  <2>1. CASE HasColumn
    BY <2>1 DEF TimeInv, Backfill, Unnumbered, Numbered, FormInv, RealRows, Rows
  <2>2. CASE ~HasColumn
    <3>1. Numbered = {}
      BY <2>2 DEF TimeInv, OldLog, OldRow, Numbered
    <3> QED
      BY <3>1, FS_EmptySet
  <2> QED
    BY <2>1, <2>2
<1>7. log' = Numbered \cup {New(x) : x \in Unnumbered} /\ migrated'
  BY DEF Backfill, Unnumbered
<1> HIDE DEF New, N
<1>8. Numbered' = Numbered \cup {New(x) : x \in Unnumbered}
  <2>1. \A x \in Unnumbered : New(x).seq # 0
    BY <1>1, <1>2, <1>3
  <2>2. \A x \in Numbered : x.seq # 0
    BY DEF Numbered
  <2> QED
    BY <1>7, <2>1, <2>2 DEF Numbered
<1>9. ASSUME NEW x \in Numbered', NEW y \in Numbered', x.seq = y.seq PROVE x = y
  <2>1. CASE x \in Numbered /\ y \in Numbered
    BY <1>9, <2>1 DEF Unforked
  <2>2. ASSUME NEW u \in Unnumbered, NEW v \in Unnumbered, x = New(u), y = New(v)
        PROVE  x = y
    <3>1. Rank(u) = Rank(v)
      BY <1>1, <1>2, <1>3, <1>9, <2>2
    <3> QED
      BY <1>4, <2>2, <3>1
  <2>3. ASSUME NEW u \in Unnumbered, NEW z \in Numbered, New(u).seq = z.seq
        PROVE  FALSE
    BY <1>1, <1>2, <1>3, <2>3
  <2> QED
    BY <1>8, <1>9, <2>1, <2>2, <2>3
<1>10. ASSUME NEW y \in Numbered', y.seq > 1
       PROVE  \E x \in Numbered' : x.seq + 1 = y.seq /\ (y.prev = x.id \/ (y.prev = NoHash /\ migrated'))
  <2>1. CASE y \in Numbered
    <3>1. PICK x \in Numbered : x.seq + 1 = y.seq /\ (y.prev = x.id \/ y.prev = NoHash)
      BY <1>10, <2>1 DEF Unforked
    <3> QED
      BY <1>7, <1>8, <3>1
  <2>2. ASSUME NEW u \in Unnumbered, y = New(u)
        PROVE  \E x \in Numbered' : x.seq + 1 = y.seq /\ (y.prev = x.id \/ (y.prev = NoHash /\ migrated'))
    <3>1. CASE Rank(u) > 1
      <4>1. PICK v \in Unnumbered : Rank(v) + 1 = Rank(u) /\ (u.prev = v.id \/ u.prev = NoHash)
        BY <3>1, BackfillNames DEF Backfill
      <4>2. New(v) \in Numbered' /\ New(v).seq + 1 = y.seq
        BY <1>1, <1>2, <1>3, <1>8, <2>2, <4>1
      <4>3. y.prev = New(v).id \/ y.prev = NoHash
        BY <1>2, <2>2, <4>1
      <4> QED
        BY <1>7, <4>2, <4>3
    <3>2. CASE ~ (Rank(u) > 1)
      <4>1. Rank(u) = 1 /\ N > 0
        BY <1>1, <1>2, <1>3, <1>10, <2>2, <3>2
      <4>2. PICK x \in Numbered : x.seq = N
        BY <1>1, <4>1
      <4>3. y.prev = NoHash /\ y.seq = N + 1
        BY <1>2, <1>6, <2>2, <4>1
      <4> QED
        BY <1>7, <1>8, <4>2, <4>3
    <3> QED
      BY <3>1, <3>2
  <2> QED
    BY <1>8, <2>1, <2>2
<1> QED
  BY <1>9, <1>10 DEF Unforked

LEMMA ChainKept ==
    TypeOK /\ FormInv /\ SnapInv /\ TimeInv /\ ChainInv /\ [Next]_vars => ChainInv'
<1> SUFFICES ASSUME TypeOK, FormInv, SnapInv, TimeInv, ChainInv, [Next]_vars PROVE ChainInv'
  OBVIOUS
<1>0. Kinds
  BY StepKinds
<1>00. /\ \A x \in log : x.seq \in Nat
       /\ \A w \in Writers : \A x \in buf[w] : x.seq \in Nat
  BY DEF FormInv, RealRows, Rows
<1>1. ASSUME NEW w \in Writers, NEW e \in RealRows, Added(w, e) PROVE ChainInv'
  <2>1. log' = log /\ Numbered' = Numbered /\ migrated' = migrated
    BY <1>1 DEF Added, Numbered
  <2>2. Unforked'
    BY <2>1 DEF Unforked, ChainInv
  <2>3. \A v \in Writers \ {w} : buf'[v] = buf[v]
    BY <1>1 DEF Added, TypeOK
  <2>4. buf'[w] = buf[w] \cup {e}
    BY <1>1 DEF Added, TypeOK
  <2>5. e.seq = 0 \/ \A y \in buf[w] : y.seq < e.seq
    BY <1>00, <1>1 DEF Added
  <2>6. e.seq > 1 => \E x \in log \cup buf[w] : x.seq + 1 = e.seq /\ e.prev = x.id
    BY <1>1 DEF Added
  <2>7. \A x, y \in buf'[w] : x.seq = y.seq /\ y.seq # 0 => x = y
    BY <1>00, <2>4, <2>5 DEF ChainInv
  <2>8. \A y \in buf'[w] : y.seq > 1 =>
          \E x \in log' \cup buf'[w] : x.seq + 1 = y.seq /\ y.prev = x.id
    BY <2>1, <2>4, <2>6 DEF ChainInv
  <2> QED
    BY <2>1, <2>2, <2>3, <2>7, <2>8 DEF ChainInv
<1>2. ASSUME NEW w \in Writers, Committed(w) PROVE ChainInv'
  <2>1. log' = log \cup buf[w] /\ migrated' = migrated /\ buf' = [buf EXCEPT ![w] = {}]
    BY <1>2 DEF Committed
  <2>2. \A y \in Numbered' : y \in Numbered \/ (y \in buf[w] /\ y.seq # 0)
    BY <2>1 DEF Numbered
  <2>3. Numbered \subseteq Numbered' /\ \A y \in buf[w] : y.seq # 0 => y \in Numbered'
    BY <2>1 DEF Numbered
  <2>4. ASSUME NEW x \in Numbered', NEW y \in Numbered', x.seq = y.seq PROVE x = y
    BY <1>2, <2>2, <2>4 DEF Committed, Collides, ChainInv, Unforked, Numbered
  <2>5. ASSUME NEW y \in Numbered', y.seq > 1
        PROVE  \E x \in Numbered' : x.seq + 1 = y.seq /\ (y.prev = x.id \/ (y.prev = NoHash /\ migrated'))
    <3>1. CASE y \in Numbered
      BY <2>1, <2>3, <2>5, <3>1 DEF ChainInv, Unforked
    <3>2. CASE y \in buf[w]
      <4>1. PICK x \in log \cup buf[w] : x.seq + 1 = y.seq /\ y.prev = x.id
        BY <2>5, <3>2 DEF ChainInv
      <4>2. x \in Numbered'
        BY <1>00, <2>1, <2>5, <4>1 DEF Numbered
      <4> QED
        BY <4>1, <4>2
    <3> QED
      BY <2>2, <3>1, <3>2
  <2>6. Unforked'
    BY <2>4, <2>5 DEF Unforked
  <2>7. \A v \in Writers : buf'[v] = {} \/ buf'[v] = buf[v]
    BY <2>1 DEF TypeOK
  <2> QED
    BY <2>1, <2>6, <2>7 DEF ChainInv
<1>3. ASSUME NEW w \in Writers, Ended(w) PROVE ChainInv'
  <2>1. log' = log /\ Numbered' = Numbered /\ migrated' = migrated
    BY <1>3 DEF Ended, Numbered
  <2>2. \A v \in Writers : buf'[v] = {} \/ buf'[v] = buf[v]
    BY <1>3 DEF Ended, TypeOK
  <2>3. Unforked'
    BY <2>1 DEF Unforked, ChainInv
  <2> QED
    BY <2>1, <2>2, <2>3 DEF ChainInv
<1>4. CASE Backfill
  <2>1. \A w \in Writers : buf'[w] = {}
    BY <1>4 DEF Backfill, Quiescent
  <2>2. Unforked'
    BY <1>4, BackfillUnforked DEF ChainInv
  <2> QED
    BY <2>1, <2>2 DEF ChainInv
<1>5. CASE Quiet
  BY <1>5 DEF Quiet, ChainInv, Unforked, Numbered
<1> QED
  BY <1>0, <1>1, <1>2, <1>3, <1>4, <1>5 DEF Kinds

LEMMA Chained == Spec => [](TypeOK /\ FormInv /\ SnapInv /\ TimeInv /\ ChainInv)
<1>1. Init => ChainInv
  <2> SUFFICES ASSUME Init PROVE ChainInv
    OBVIOUS
  <2>1. Numbered = {}
    BY DEF Init, OldRow, Numbered
  <2>2. Unforked
    BY <2>1 DEF Unforked
  <2>3. \A w \in Writers : buf[w] = {}
    BY DEF Init
  <2> QED
    BY <2>2, <2>3 DEF ChainInv
<1> QED
  BY <1>1, Timed, ChainKept, PTL DEF Spec

(* Concurrent writers, failures, restarts with another setting and the      *)
(* migration never fork the chain or leave a gap in it (logger.py:7-13).    *)
THEOREM ChainUnforked == Spec => []Unforked
<1>1. ChainInv => Unforked
  BY DEF ChainInv
<1> QED
  BY <1>1, Chained, PTL

(* An event that was altered, and that another one continues from, is       *)
(* reported (logger.py:164-169).                                            *)
THEOREM AlterationsShow == Spec => []AlterationDetected
<1>1. ASSUME TypeOK, FormInv, ChainInv PROVE AlterationDetected
  <2> SUFFICES ASSUME NEW x \in Numbered, NEW y \in Numbered,
                      x.seq + 1 = y.seq, y.prev # NoHash, Verifies(Altered(log, x))
               PROVE  FALSE
    BY DEF AlterationDetected
  <2> DEFINE x0 == [x EXCEPT !.id = Forged]
             S == (log \ {x}) \cup {x0}
  <2>1. \A z \in log : z \in Rows /\ z.seq \in Nat /\ z.ts \in Nat /\ z.id \in Ids
    BY <1>1 DEF FormInv, RealRows, Rows
  <2>2. x \in log /\ y \in log /\ x # y /\ x.seq # 0
    BY <2>1 DEF Numbered
  <2>3. x0.seq = x.seq /\ x0.ts = x.ts /\ x0.id = Forged
    BY <2>1, <2>2 DEF Rows
  <2>4. y.prev \in Ids /\ y.prev # Forged
    BY <2>1, <2>2 DEF Rows
  <2> HIDE DEF x0
  <2>5. PICK u \in S : Follows(S, u, y) /\ u.id = y.prev
    BY <2>2 DEF Verifies, Altered, x0
  <2>6. u \in log /\ u # x
    BY <2>3, <2>4, <2>5
  <2>7. Precedes(u, y) /\ ~ (Precedes(u, x0) /\ Precedes(x0, y))
    BY <2>5 DEF Follows
  <2>8. Precedes(x0, y)
    BY <2>1, <2>2, <2>3 DEF Precedes
  <2>9. u.seq = x.seq \/ u.seq = y.seq
    BY <2>1, <2>2, <2>3, <2>6, <2>7, <2>8 DEF Precedes
  <2>10. u = x \/ u = y
    BY <1>1, <2>2, <2>6, <2>9 DEF ChainInv, Unforked, Numbered
  <2> QED
    BY <2>1, <2>2, <2>6, <2>7, <2>10 DEF Precedes
<1> QED
  BY <1>1, Chained, PTL

(* A step only adds events, and numbers behind those given.                 *)
LEMMA StepAppends ==
  ASSUME TypeOK, FormInv, SnapInv, TimeInv, ChainInv, [Next]_vars
  PROVE  /\ \A x \in log : \E y \in log' :
               y.id = x.id /\ y.prev = x.prev /\ y.ts = x.ts /\ x.seq \in {0, y.seq}
         /\ \A x \in Numbered : \A y \in log' \ log : y.seq # 0 => x.seq < y.seq
<1>0. Kinds
  BY StepKinds
<1>00. /\ Unforked /\ \A x \in log : x \in Rows /\ x.seq \in Nat
       /\ \A w \in Writers : \A x \in buf[w] : x.seq \in Nat
  BY DEF FormInv, RealRows, Rows, ChainInv
<1> DEFINE Kept == \A x \in log : \E y \in log' :
               y.id = x.id /\ y.prev = x.prev /\ y.ts = x.ts /\ x.seq \in {0, y.seq}
           Behind == \A x \in Numbered : \A y \in log' \ log : y.seq # 0 => x.seq < y.seq
<1>1. ASSUME log' = log PROVE Kept /\ Behind
  BY <1>1
<1>2. ASSUME NEW w \in Writers, Committed(w) PROVE Kept /\ Behind
  <2>1. log' = log \cup buf[w]
    BY <1>2 DEF Committed
  <2>2. ASSUME NEW x \in Numbered, NEW y \in log' \ log, y.seq # 0 PROVE x.seq < y.seq
    <3>1. y \in buf[w] /\ y.seq \in Nat \ {0}
      BY <1>00, <2>1, <2>2
    <3>2. \A z \in Numbered : z.seq # y.seq
      BY <1>2, <2>2, <3>1 DEF Committed, Collides, Numbered
    <3> QED
      BY <1>00, <3>1, <3>2, NewBehind
  <2> QED
    BY <2>1, <2>2
<1>3. CASE Backfill
  <2>1. log' = Numbered \cup {[x EXCEPT !.seq = BackfillSeq(x)] : x \in Unnumbered}
    BY <1>3 DEF Backfill, Unnumbered
  <2>2. \A x \in Unnumbered :
          LET y == [x EXCEPT !.seq = BackfillSeq(x)]
          IN  /\ x.seq = 0 /\ y.id = x.id /\ y.prev = x.prev /\ y.ts = x.ts
              /\ y.seq = Cardinality(Numbered) + Cardinality(UpTo(x))
    BY <1>00 DEF Unnumbered, Numbered, Rows, BackfillSeq, UpTo
  <2>3. Kept
    <3>1. ASSUME NEW x \in log
          PROVE  \E y \in log' :
               y.id = x.id /\ y.prev = x.prev /\ y.ts = x.ts /\ x.seq \in {0, y.seq}
      <4>1. CASE x \in Numbered
        BY <2>1, <4>1
      <4>2. CASE x \in Unnumbered
        BY <2>1, <2>2, <4>2
      <4> QED
        BY <4>1, <4>2 DEF Unnumbered
    <3> QED
      BY <3>1
  <2>4. Behind
    <3>1. ASSUME NEW x \in Numbered, NEW y \in log' \ log, y.seq # 0 PROVE x.seq < y.seq
      <4>1. PICK u \in Unnumbered : y = [u EXCEPT !.seq = BackfillSeq(u)]
        BY <2>1, <3>1 DEF Numbered
      <4>2. y.seq = Cardinality(Numbered) + Cardinality(UpTo(u))
        BY <2>2, <4>1
      <4>3. x.seq <= Cardinality(Numbered) /\ Cardinality(Numbered) \in Nat /\ x.seq \in Nat
        BY <1>00, NumbersCount, BackfillNat DEF Numbered
      <4>4. Cardinality(UpTo(u)) \in Nat \ {0}
        BY RankFacts
      <4> QED
        BY <4>2, <4>3, <4>4
    <3> QED
      BY <3>1
  <2> QED
    BY <2>3, <2>4
<1> QED
  BY <1>0, <1>1, <1>2, <1>3 DEF Kinds, Added, Ended, Quiet

(* Nothing takes an event back or changes it, and numbers are only given    *)
(* behind those there are (logger.py:112-122, 001_v050_schema_hardening.py: *)
(* 66-76).                                                                  *)
THEOREM LogAppends == Spec => AppendOnly
<1>1. TypeOK /\ FormInv /\ SnapInv /\ TimeInv /\ ChainInv /\ [Next]_vars =>
        [/\ \A x \in log : \E y \in log' :
              y.id = x.id /\ y.prev = x.prev /\ y.ts = x.ts /\ x.seq \in {0, y.seq}
         /\ \A x \in Numbered : \A y \in log' \ log : y.seq # 0 => x.seq < y.seq]_vars
  BY StepAppends
<1> QED
  BY <1>1, Chained, PTL DEF Spec, AppendOnly
=============================================================================
