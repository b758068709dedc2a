------------------------------ MODULE AuditLog ------------------------------
(* What the audit logger promises of the log, without the transactions,     *)
(* locks and stale reads behind it: a transaction's events come in all at   *)
(* once and next to each other, either chained, each naming the one before  *)
(* it, or without a place; the migration gives a place to those that have   *)
(* none, behind the others and in the order in which they were written.     *)
(* AuditChain implements it.                                                *)
EXTENDS Naturals, Sequences

CONSTANTS Writers,    \* transactions, each of which writes once
          MaxEvents,  \* events one transaction may write
          OldIds,     \* events from before there was a chain
          NoHash      \* an event that names none

VARIABLES chain,      \* the numbered events, each with the event it names
          loose       \* events without a number
logVars == <<chain, loose>>

Events(w, n) == {w} \X (1..n)
Chained == {chain[k].event : k \in 1..Len(chain)}

Init == chain = <<>> /\ loose \subseteq OldIds

Unwritten(w) == (Chained \cup loose) \cap Events(w, MaxEvents) = {}

(* The first event of a chain may name one that has no number.              *)
Predecessors == IF chain = <<>> THEN loose \cup {NoHash} ELSE {chain[Len(chain)].event}

Entries(w, n, first) ==
    [k \in 1..n |-> [event |-> <<w, k>>,
                     names |-> IF k = 1 THEN first ELSE <<w, k - 1>>]]

Chain(w, n) ==
    /\ Len(chain') = Len(chain) + n
    /\ \E first \in Predecessors : chain' = chain \o Entries(w, n, first)
    /\ Unwritten(w)
    /\ UNCHANGED loose

Drop(w, n) ==
    /\ loose' = loose \cup Events(w, n)
    /\ UNCHANGED chain
    /\ Unwritten(w)

New == {k \in 1..Len(chain)' : k > Len(chain)}

Number ==
    /\ loose' = {}
    /\ \A k \in 1..Len(chain) : k <= Len(chain)' /\ chain'[k] = chain[k]
    /\ {chain'[k].event : k \in New} = loose
    /\ \A i, k \in New : LET x == chain'[i].event
                             y == chain'[k].event
                         IN  x[1] = y[1] /\ i < k => x[2] < y[2]
    /\ \A i, k \in New : i # k => chain'[i].event # chain'[k].event

Next == \/ Number
        \/ \E n \in 1..MaxEvents, w \in Writers : Chain(w, n) \/ Drop(w, n)

Spec == Init /\ [][Next]_logVars
=============================================================================
