-------------------------- MODULE CapabilityLedger --------------------------
(* What the execution gateway promises about capabilities, without locks,   *)
(* requests or transactions: a charge is booked against a live capability   *)
(* only, a task is never charged more than its action budget, and one       *)
(* idempotency key is charged once per capability.  Gateway implements it.  *)
EXTENDS Naturals, FiniteSets

CONSTANTS Caps,       \* capabilities
          Tasks,      \* tasks
          TaskOf,     \* the task each capability was minted for
          Ids,        \* identities of charges
          Keys,       \* idempotency keys
          NoKey,      \* a call without an idempotency key
          MaxActions  \* the task's action budget

VARIABLES live,       \* capabilities that may still be charged
          charges     \* the booked charges
ledgerVars == <<live, charges>>

Charges == [id : Ids, cap : Caps, key : Keys \cup {NoKey}]

Booked(t) == {x \in charges : TaskOf[x.cap] = t}

Init == live = Caps /\ charges = {}

Charge(i, c, k) ==
    /\ c \in live
    /\ \A x \in charges : x.id # i
    /\ Cardinality(Booked(TaskOf[c])) < MaxActions
    /\ k # NoKey => \A x \in charges : x.cap = c => x.key # k
    /\ charges' = charges \cup {[id |-> i, cap |-> c, key |-> k]}
    /\ UNCHANGED live

Withdraw(S) ==
    /\ live' = live \ S
    /\ UNCHANGED charges

Next == \/ \E i \in Ids, c \in Caps, k \in Keys \cup {NoKey} : Charge(i, c, k)
        \/ \E S \in SUBSET live : Withdraw(S)

Spec == Init /\ [][Next]_ledgerVars
=============================================================================
