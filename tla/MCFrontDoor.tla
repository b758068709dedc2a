---------------------------- MODULE MCFrontDoor ----------------------------
(* A broker with two runtimes, an operator whose key has the name of one of *)
(* them, a runtime key with an empty name and a malformed key; in its       *)
(* database a task from before v0.7.0 that is executing and an approved one *)
(* of runtime b.  Requests are numbered as they arrive.                     *)
EXTENDS FrontDoor, TLC

CONSTANTS a, b, h1, h2, o1, o2

MCEntry ==
    [k \in ApiKeys |->
        CASE k = 1 -> [role |-> "operator", name |-> b]
          [] k = 2 -> [role |-> "runtime", name |-> a]
          [] k = 3 -> [role |-> "runtime", name |-> b]
          [] k = 4 -> [role |-> "runtime", name |-> Empty]
          [] OTHER -> [role |-> "malformed", name |-> a]]

MCOldRow ==
    [t \in OldTasks |->
        IF t = o1
        THEN [status |-> "executing", owner |-> Null, runtime |-> b, expires_at |-> 3]
        ELSE [status |-> "approved", owner |-> b, runtime |-> b, expires_at |-> 0]]

InOrder ==
    \A p \in Requests : host[p] # NoHost => \A q \in Requests : q < p => host[q] # NoHost

Untouched == tasks = [t \in Tasks |-> IF t \in OldTasks THEN OldRow[t] ELSE NoRow]

(* Limits and tasks share no state: each is explored to its full depth      *)
(* while the other one is at rest.  Two requests are handled at once as     *)
(* long as tasks are untouched; one task is created at most, because five   *)
(* requests take no more than one from its creation to a call.              *)
AtRest ==
    \/ Untouched /\ calls = {}
    \/ /\ limited = {} /\ (Untouched \/ Cardinality(inside) <= 1)
       /\ Cardinality({p \in Requests : tasks[p] # NoRow}) <= 1
       /\ \E h \in Hosts : \A p \in Requests : host[p] = NoHost \/ (host[p] = h /\ p \in passed)

Symmetry == Permutations(Hosts)
=============================================================================
