----------------------------- MODULE AuditChain -----------------------------
(* write_audit_event and verify_audit_chain under concurrent Postgres       *)
(* transactions.  A writer's SELECT ... ORDER BY ... LIMIT 1 FOR UPDATE     *)
(* picks the latest row of its statement snapshot and then waits for that   *)
(* row; a row appended meanwhile is not looked at again, and the unique     *)
(* chain_seq is what rejects the writer that continues from a stale row.    *)
(* Migration 001 gives numbers to the rows that have none.                  *)
EXTENDS Naturals, FiniteSets

CONSTANTS Writers,     \* transactions that audit what they do
          MaxEvents,   \* events one transaction may write (evaluate_policy: 2)
          MaxToggles,  \* restarts that change settings.audit_hash_chain
          Old,         \* the broker as it was before v0.5.0
          MaxOld,      \* events it may have left behind
          NoHash,      \* prev_event_hash IS NULL
          Forged       \* the content of an altered event

OldIds == {Old} \X (1..MaxOld)
Ids == Writers \X (1..MaxEvents) \cup OldIds

ASSUME AuditAssumption ==
    /\ MaxEvents \in Nat \ {0}
    /\ MaxToggles \in Nat /\ MaxOld \in Nat
    /\ Old \notin Writers
    /\ NoHash \notin Ids /\ Forged \notin Ids /\ NoHash # Forged

VARIABLES log,      \* committed rows of audit_events
          enabled,  \* settings.audit_hash_chain
          toggles,  \* restarts that changed it so far
          migrated, \* migration 001 has run
          clock,    \* datetime.now(), advanced by every event
          size,     \* events each transaction writes (never changes)
          pc,
          buf,      \* rows each transaction added to its session
          snap,     \* the row each waiting SELECT has picked
          locked    \* rows each transaction has locked, by id
vars == <<log, enabled, toggles, migrated, clock, size, pc, buf, snap, locked>>

(* A hash is the content it is taken of, so an event stands for its hash;   *)
(* it covers neither chain_seq nor prev_event_hash.  seq 0 is a NULL.       *)
Rows == [id : Ids \cup {Forged}, seq : Nat, prev : Ids \cup {NoHash}, ts : Nat]

TypeOK ==
    /\ log \subseteq Rows
    /\ enabled \in BOOLEAN
    /\ toggles \in 0..MaxToggles
    /\ migrated \in BOOLEAN
    /\ clock \in Nat
    /\ size \in [Writers -> 1..MaxEvents]
    /\ pc \in [Writers -> {"writing", "waiting", "done", "conflict", "aborted"}]
    /\ buf \in [Writers -> SUBSET Rows]
    /\ snap \in [Writers -> SUBSET Rows]
    /\ locked \in [Writers -> SUBSET Ids]

\* Rows from before v0.5.0 have no number, and a hash unless it was off.
OldRow(i, chained) ==
    [id |-> <<Old, i>>, seq |-> 0, ts |-> i - 1,
     prev |-> IF chained /\ i > 1 THEN <<Old, i - 1>> ELSE NoHash]

Init ==
    /\ \E n \in 0..MaxOld, chained \in BOOLEAN :
        /\ log = {OldRow(i, chained) : i \in 1..n}
        /\ clock = n
    /\ enabled \in BOOLEAN
    /\ toggles = 0
    /\ migrated = FALSE
    /\ size \in [Writers -> 1..MaxEvents]
    /\ pc = [w \in Writers |-> "writing"]
    /\ buf = [w \in Writers |-> {}]
    /\ snap = [w \in Writers |-> {}]
    /\ locked = [w \in Writers |-> {}]
----------------------------------------------------------------------------
\* ORDER BY chain_seq NULLS FIRST, timestamp; reversed it is the order in
\* which _get_previous_hash_locked looks for the latest event.
Precedes(x, y) == x.seq < y.seq \/ (x.seq = y.seq /\ x.ts < y.ts)

Latest(S) == {x \in S : \A y \in S : ~Precedes(x, y)}

LockedByOther(w, x) == \E v \in Writers \ {w} : x.id \in locked[v]

\* The unique index on chain_seq; NULLs do not collide.
Collides(w) == \E x \in buf[w], y \in log : x.seq = y.seq /\ x.seq # 0

Event(w, seq, prev) ==
    [id |-> <<w, Cardinality(buf[w]) + 1>>, seq |-> seq, prev |-> prev, ts |-> clock]

Add(w, seq, prev) ==
    /\ buf' = [buf EXCEPT ![w] = @ \cup {Event(w, seq, prev)}]
    /\ clock' = clock + 1

\* Mutation: the next number is taken from a count of the committed rows.
ContinueCounting(w, x) ==
    /\ locked' = [locked EXCEPT ![w] = @ \cup {x.id}]
    /\ Add(w, Cardinality(log) + 1, x.id)

\* Continue the chain from row x, whose lock the transaction now holds.
Continue(w, x) ==
    /\ locked' = [locked EXCEPT ![w] = @ \cup {x.id}]
    /\ Add(w, x.seq + 1, x.id)

End(w, place) ==
    /\ pc' = [pc EXCEPT ![w] = place]
    /\ buf' = [buf EXCEPT ![w] = {}]
    /\ snap' = [snap EXCEPT ![w] = {}]
    /\ locked' = [locked EXCEPT ![w] = {}]
    /\ UNCHANGED <<enabled, toggles, migrated, clock, size>>

\* A database from before v0.5.0 has no column chain_seq until it is migrated.
HasColumn == migrated \/ \A x \in log : x.id \notin OldIds

Writing(w) == HasColumn /\ pc[w] = "writing" /\ Cardinality(buf[w]) < size[w]
----------------------------------------------------------------------------
\* Without the chain an event gets neither number nor hash.
WriteUnchained(w) ==
    /\ Writing(w) /\ ~enabled
    /\ Add(w, 0, NoHash)
    /\ UNCHANGED <<log, enabled, toggles, migrated, size, pc, snap, locked>>

\* The very first event: there is no row to lock.
WriteFirst(w) ==
    /\ Writing(w) /\ enabled
    /\ log \cup buf[w] = {}
    /\ Add(w, 1, NoHash)
    /\ UNCHANGED <<log, enabled, toggles, migrated, size, pc, snap, locked>>

\* The SELECT flushes the session, picks the latest row and locks it ...
WriteNext(w) ==
    /\ Writing(w) /\ enabled /\ ~Collides(w)
    /\ \E x \in Latest(log \cup buf[w]) :
        /\ ~LockedByOther(w, x)
        /\ Continue(w, x)
    /\ UNCHANGED <<log, enabled, toggles, migrated, size, pc, snap>>

\* ... or waits for the transaction that has locked it ...
Wait(w) ==
    /\ Writing(w) /\ enabled /\ ~Collides(w)
    /\ \E x \in Latest(log \cup buf[w]) :
        /\ LockedByOther(w, x)
        /\ snap' = [snap EXCEPT ![w] = {x}]
    /\ pc' = [pc EXCEPT ![w] = "waiting"]
    /\ UNCHANGED <<log, enabled, toggles, migrated, clock, size, buf, locked>>

\* ... and then goes on from the row it had picked.
Wake(w) ==
    /\ pc[w] = "waiting"
    /\ \E x \in snap[w] :
        /\ ~LockedByOther(w, x)
        /\ Continue(w, x)
    /\ pc' = [pc EXCEPT ![w] = "writing"]
    /\ snap' = [snap EXCEPT ![w] = {}]
    /\ UNCHANGED <<log, enabled, toggles, migrated, size>>

\* Mutation: chain_seq has no unique index.
CommitUnchecked(w) ==
    /\ pc[w] = "writing" /\ Cardinality(buf[w]) = size[w]
    /\ log' = log \cup buf[w]
    /\ End(w, "done")

Commit(w) ==
    /\ pc[w] = "writing" /\ Cardinality(buf[w]) = size[w]
    /\ ~Collides(w)
    /\ log' = log \cup buf[w]
    /\ End(w, "done")

\* IntegrityError: the transaction is lost with everything it did.
Conflict(w) ==
    /\ pc[w] = "writing"
    /\ Collides(w)
    /\ End(w, "conflict")
    /\ UNCHANGED log

\* The handler fails for a reason of its own, or its connection is lost.
Abort(w) ==
    /\ pc[w] \in {"writing", "waiting"}
    /\ End(w, "aborted")
    /\ UNCHANGED log

Quiescent == \A w \in Writers : buf[w] = {} /\ pc[w] # "waiting"

\* A restart with another JITAUTH_AUDIT_HASH_CHAIN; no transaction survives.
Restart ==
    /\ toggles < MaxToggles
    /\ toggles' = toggles + 1
    /\ enabled' = ~enabled
    /\ Quiescent
    /\ UNCHANGED <<log, migrated, clock, size, pc, buf, snap, locked>>

Numbered == {x \in log : x.seq # 0}

\* Mutation: the rows are numbered with the latest one first.
BackfillReversed(x) ==
    Cardinality(Numbered) + Cardinality({y \in log : y.seq = 0 /\ y.ts >= x.ts})

\* Mutation: older than the chain, the rows are numbered down from its start.
BackfillBelow(x) == 1 - Cardinality({y \in log : y.seq = 0 /\ y.ts >= x.ts})

\* The numbers go on behind the greatest one, in the order of timestamps.
BackfillSeq(x) ==
    Cardinality(Numbered) + Cardinality({y \in log : y.seq = 0 /\ y.ts <= x.ts})

\* upgrade of migration 001, once, on a stopped broker.
Backfill ==
    /\ ~migrated /\ Quiescent
    /\ migrated' = TRUE
    /\ log' = Numbered \cup {[x EXCEPT !.seq = BackfillSeq(x)] : x \in log \ Numbered}
    /\ UNCHANGED <<enabled, toggles, clock, size, pc, buf, snap, locked>>

Write(w) == WriteUnchained(w) \/ WriteFirst(w) \/ WriteNext(w) \/ Wait(w) \/ Wake(w)
              \/ Commit(w) \/ Conflict(w) \/ Abort(w)

Next == Restart \/ Backfill \/ \E w \in Writers : Write(w)

Spec == Init /\ [][Next]_vars
----------------------------------------------------------------------------
(* verify_audit_chain: walk the rows in order; a row with a prev_event_hash *)
(* must carry the hash of the row before it.                                *)
Follows(S, x, y) == /\ Precedes(x, y)
                    /\ \A z \in S : ~(Precedes(x, z) /\ Precedes(z, y))

\* Mutation: a predecessor must exist, its hash is not compared.
VerifiesLenient(S) ==
    \A y \in S : y.prev # NoHash => \E x \in S : Follows(S, x, y)

Verifies(S) ==
    \A y \in S : y.prev # NoHash => \E x \in S : Follows(S, x, y) /\ x.id = y.prev

Altered(S, x) == (S \ {x}) \cup {[x EXCEPT !.id = Forged]}
----------------------------------------------------------------------------
(* Properties *)

\* logger.py:7-13: concurrent writers never fork the chain; its numbers run
\* from 1 without a gap or a repetition, each row naming the one before it,
\* and the backfill adds rows to its end that name none.
Unforked ==
    /\ \A x, y \in Numbered : x.seq = y.seq => x = y
    /\ \A y \in Numbered : y.seq > 1 =>
          \E x \in Numbered : x.seq + 1 = y.seq /\ (y.prev = x.id \/ (y.prev = NoHash /\ migrated))

\* The chain was begun behind an event without a number, and since then the
\* order has changed: another such event was written, or migration 001 has
\* given both a number behind the chain.
Overtaken ==
    \E y \in Numbered :
        /\ y.seq = 1 /\ y.prev # NoHash /\ y.id \notin OldIds
        /\ \/ \E x \in Numbered : x.id = y.prev
           \/ \E x \in log \ Numbered : x.ts > y.ts

\* logger.py:127-192 and 001_v050_schema_hardening.py:51-76: an audit log that
\* nobody touched verifies, whatever aborted or was turned away, with the
\* chain switched on and off, and with an old log after its migration.  The
\* one exception, a false alarm, is a chain that was overtaken.
UntouchedVerifies == Verifies(log) <=> ~Overtaken

\* logger.py:164-169: altering any event that has a chained successor is
\* reported, whatever else was written.
AlterationDetected ==
    \A x, y \in Numbered :
        x.seq + 1 = y.seq /\ y.prev # NoHash => ~Verifies(Altered(log, x))

\* logger.py:112-122, 001_v050_schema_hardening.py:66-76: events only come
\* in, and numbers only come in behind those already given.
AppendOnly ==
    [][/\ \A x \in log : \E y \in log' :
              y.id = x.id /\ y.prev = x.prev /\ y.ts = x.ts /\ x.seq \in {0, y.seq}
       /\ \A x \in Numbered : \A y \in log' \ log : y.seq # 0 => x.seq < y.seq]_vars

\* The log that AuditLog speaks of: who has which number and names whom.
At(k) == CHOOSE x \in Numbered : x.seq = k
Book == INSTANCE AuditLog WITH
    chain <- [k \in 1..Cardinality(Numbered) |->
                 [event |-> At(k).id, names |-> At(k).prev]],
    loose <- {x.id : x \in log \ Numbered}

\* logger.py:84-122, routes.py:249-266: a transaction's events are in the log
\* all or none, next to each other and in their order, no other transaction's
\* between them, whatever rows were read stale and whoever was turned away.
ImplementsLog == Book!Spec
----------------------------------------------------------------------------
(* What the repository says and the code does not do *)

\* test_postgres.py:369, 376 and logger.py:90-91: concurrent writers are
\* serialized, so none of them is turned away.
NoWriterTurnedAway == \A w \in Writers : pc[w] # "conflict"
=============================================================================
