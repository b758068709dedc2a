--------------------------- MODULE TaskLifecycle ---------------------------
(* The handlers of broker/routes.py that move one task through its life, as *)
(* concurrent Postgres transactions.  A handler reads the task with a plain *)
(* SELECT, checks its status, and only locks the row when the next query    *)
(* flushes its UPDATE: what it decides on may be stale when it is written.  *)
EXTENDS Naturals, FiniteSets

CONSTANTS Requests,    \* requests that address the task
          Systems,     \* target systems of the task's actions
          MaxInFlight, \* handlers of the task that may overlap
          Free         \* the value of the lock when nobody holds it

ASSUME LifecycleAssumption ==
    /\ Free \notin Requests
    /\ Systems # {}
    /\ MaxInFlight \in Nat \ {0}
    /\ IsFiniteSet(Requests)

VARIABLES status,      \* tasks.status
          effect,      \* what the policy says of this task (never changes)
          decisions,   \* policy_decisions: the requests that wrote one
          approvals,   \* approval_records: the requests that wrote one
          caps,        \* capabilities.status by minting request and system
          revocations, \* revocation_events: <<request, capability>>
          asks,        \* the operation each started request asks for
          pc, taskLock,
          aim          \* capabilities a closer or revoker is about to update
table == <<decisions, approvals, caps, revocations>>
vars  == <<status, effect, table, asks, pc, taskLock, aim>>

Effects == {"allow", "allow_reduced", "require_approval",
            "require_simulation", "quarantine", "deny"}
Operations == {"classify", "evaluate", "approve", "deny", "mint",
               "complete", "fail", "revoke"}
Statuses == {"absent", "created", "pending_policy", "pending_approval",
             "approved", "denied", "executing", "completed", "failed"}
Caps == Requests \X Systems

TypeOK ==
    /\ status \in Statuses
    /\ effect \in Effects
    /\ decisions \subseteq Requests
    /\ approvals \subseteq Requests
    /\ caps \in [Caps -> {"none", "active", "revoked", "expired"}]
    /\ revocations \subseteq Requests \X Caps
    /\ asks \in [Requests -> Operations \cup {"none"}]
    /\ pc \in [Requests -> {"idle", "flush", "sweep", "done", "failed"}]
    /\ taskLock \in Requests \cup {Free}
    /\ aim \in [Requests -> SUBSET Caps]

Init ==
    /\ status = "absent"
    /\ effect \in Effects
    /\ decisions = {} /\ approvals = {} /\ revocations = {}
    /\ caps = [c \in Caps |-> "none"]
    /\ asks = [p \in Requests |-> "none"]
    /\ pc = [p \in Requests |-> "idle"]
    /\ taskLock = Free
    /\ aim = [p \in Requests |-> {}]
----------------------------------------------------------------------------
\* Mutation: a task can be failed after it has ended.
ExpectedFailAny(op) ==
    CASE op = "classify" -> {"created"}
      [] op = "evaluate" -> {"pending_policy"}
      [] op \in {"approve", "deny"} -> {"pending_approval"}
      [] op = "mint" -> {"approved"}
      [] op = "complete" -> {"executing"}
      [] op = "fail" -> Statuses \ {"absent", "created", "pending_policy", "failed"}
      [] OTHER -> {}

\* The statuses in which each handler goes on instead of answering 409.
Expected(op) ==
    CASE op = "classify" -> {"created"}
      [] op = "evaluate" -> {"pending_policy"}
      [] op \in {"approve", "deny"} -> {"pending_approval"}
      [] op = "mint" -> {"approved"}
      [] op = "complete" -> {"executing"}
      [] op = "fail" -> {"executing", "approved", "pending_approval"}
      [] OTHER -> {}

\* Mutation: unsupported effects are left to the operator.
StatusForLenient(eff) ==
    CASE eff \in {"allow", "allow_reduced"} -> "approved"
      [] eff = "deny" -> "denied"
      [] OTHER -> "pending_approval"

\* Effects the broker has no workflow for are treated as a denial.
StatusFor(eff) ==
    CASE eff \in {"allow", "allow_reduced"} -> "approved"
      [] eff = "require_approval" -> "pending_approval"
      [] OTHER -> "denied"

Active == {c \in Caps : caps[c] = "active"}
InFlight == {p \in Requests : pc[p] \in {"flush", "sweep"}}

Goto(p, place) == pc' = [pc EXCEPT ![p] = place]

Create ==
    /\ status = "absent"
    /\ status' = "created"
    /\ UNCHANGED <<effect, table, asks, pc, taskLock, aim>>

\* db.get and the status check: nothing is locked.  A request that meets
\* another status answers 409 (404 before the task exists) and changes
\* nothing, so it takes no step.
Read(p) ==
    /\ pc[p] = "idle"
    /\ Cardinality(InFlight) < MaxInFlight
    /\ \E op \in Operations \ {"revoke"} :
        /\ status \in Expected(op)
        /\ asks' = [asks EXCEPT ![p] = op]
    /\ Goto(p, "flush")
    /\ UNCHANGED <<status, effect, table, taskLock, aim>>

\* The handler's UPDATE of the task row, for which it waits its turn.
Flushes(p, ops) == pc[p] = "flush" /\ asks[p] \in ops /\ taskLock = Free

Classify(p) ==
    /\ Flushes(p, {"classify"})
    /\ status' = "pending_policy"
    /\ Goto(p, "done")
    /\ UNCHANGED <<effect, table, asks, taskLock, aim>>

Evaluate(p) ==
    /\ Flushes(p, {"evaluate"})
    /\ decisions' = decisions \cup {p}
    /\ status' = StatusFor(effect)
    /\ Goto(p, "done")
    /\ UNCHANGED <<effect, approvals, caps, revocations, asks, taskLock, aim>>

\* Mutation: a rejection gets a status of its own.
ApproveOrReject(p) ==
    /\ Flushes(p, {"approve", "deny"})
    /\ approvals' = approvals \cup {p}
    /\ status' = IF asks[p] = "approve" THEN "approved" ELSE "rejected"
    /\ Goto(p, "done")
    /\ UNCHANGED <<effect, decisions, caps, revocations, asks, taskLock, aim>>

Approve(p) ==
    /\ Flushes(p, {"approve", "deny"})
    /\ approvals' = approvals \cup {p}
    /\ status' = IF asks[p] = "approve" THEN "approved" ELSE "denied"
    /\ Goto(p, "done")
    /\ UNCHANGED <<effect, decisions, caps, revocations, asks, taskLock, aim>>

\* Mutation: asking again reissues every capability of the task.
MintReissuing(p) ==
    /\ Flushes(p, {"mint"})
    /\ caps' = [c \in Caps |->
          IF c[1] = p \/ caps[c] # "none" THEN "active" ELSE caps[c]]
    /\ status' = "executing"
    /\ Goto(p, "done")
    /\ UNCHANGED <<effect, decisions, approvals, revocations, asks, taskLock, aim>>

\* One capability per target system.
Mint(p) ==
    /\ Flushes(p, {"mint"})
    /\ caps' = [c \in Caps |-> IF c[1] = p THEN "active" ELSE caps[c]]
    /\ status' = "executing"
    /\ Goto(p, "done")
    /\ UNCHANGED <<effect, decisions, approvals, revocations, asks, taskLock, aim>>

\* Mutation: the active capabilities are listed before the row is locked.
SweepUnlocked(p) ==
    /\ pc[p] = "flush" /\ asks[p] \in {"complete", "fail"}
    /\ aim' = [aim EXCEPT ![p] = Active]
    /\ Goto(p, "sweep")
    /\ UNCHANGED <<status, effect, table, asks, taskLock>>

\* complete and fail: UPDATE tasks is flushed by the capability query, so
\* the active capabilities are listed with the task row locked.
Sweep(p) ==
    /\ Flushes(p, {"complete", "fail"})
    /\ taskLock' = p
    /\ aim' = [aim EXCEPT ![p] = Active]
    /\ Goto(p, "sweep")
    /\ UNCHANGED <<status, effect, table, asks>>

\* Mutation: only the task is updated.
CloseTaskOnly(p) ==
    /\ pc[p] = "sweep"
    /\ status' = IF asks[p] = "complete" THEN "completed" ELSE "failed"
    /\ taskLock' = Free
    /\ Goto(p, "done")
    /\ UNCHANGED <<effect, table, asks, aim>>

Close(p) ==
    /\ pc[p] = "sweep"
    /\ status' = IF asks[p] = "complete" THEN "completed" ELSE "failed"
    /\ caps' = [c \in Caps |->
          IF c \notin aim[p] THEN caps[c]
          ELSE IF asks[p] = "complete" THEN "expired" ELSE "revoked"]
    /\ taskLock' = Free
    /\ Goto(p, "done")
    /\ UNCHANGED <<effect, decisions, approvals, revocations, asks, aim>>

\* Mutation: the capability's status is not checked.
RevokeReadUnchecked(p) ==
    /\ pc[p] = "idle"
    /\ asks' = [asks EXCEPT ![p] = "revoke"]
    /\ Cardinality(InFlight) < MaxInFlight
    /\ \E c \in Caps : caps[c] # "none" /\ aim' = [aim EXCEPT ![p] = {c}]
    /\ Goto(p, "flush")
    /\ UNCHANGED <<status, effect, table, taskLock>>

\* revoke_capability never looks at the task.
RevokeRead(p) ==
    /\ pc[p] = "idle"
    /\ asks' = [asks EXCEPT ![p] = "revoke"]
    /\ Cardinality(InFlight) < MaxInFlight
    /\ \E c \in Caps :
        /\ caps[c] = "active"
        /\ aim' = [aim EXCEPT ![p] = {c}]
    /\ Goto(p, "flush")
    /\ UNCHANGED <<status, effect, table, taskLock>>

RevokeCommit(p) ==
    /\ pc[p] = "flush" /\ asks[p] = "revoke"
    /\ caps' = [c \in Caps |-> IF c \in aim[p] THEN "revoked" ELSE caps[c]]
    /\ revocations' = revocations \cup ({p} \X aim[p])
    /\ Goto(p, "done")
    /\ UNCHANGED <<status, effect, decisions, approvals, asks, taskLock, aim>>

\* The audit insert meets its unique chain_seq, or the broker dies.
RollBack(p) ==
    /\ pc[p] \in {"flush", "sweep"}
    /\ taskLock' = IF taskLock = p THEN Free ELSE taskLock
    /\ Goto(p, "failed")
    /\ UNCHANGED <<status, effect, table, asks, aim>>

Handle(p) ==
    \/ Read(p) \/ Classify(p) \/ Evaluate(p) \/ Approve(p) \/ Mint(p)
    \/ Sweep(p) \/ Close(p) \/ RevokeRead(p) \/ RevokeCommit(p) \/ RollBack(p)

Next == Create \/ \E p \in Requests : Handle(p)

Spec == Init /\ [][Next]_vars
----------------------------------------------------------------------------
(* Properties of every interleaving *)

\* The policy lets the task pass, or an operator does where it may.
Cleared ==
    /\ decisions # {}
    /\ \/ effect \in {"allow", "allow_reduced"}
       \/ effect = "require_approval" /\ \E a \in approvals : asks[a] = "approve"

\* routes.py:238-254, 315, 336: no interleaving of stale handlers yields a
\* capability for a task that neither the policy nor an operator let pass.
Authorised == (\E c \in Caps : caps[c] # "none") => Cleared

\* routes.py:522-532, 557-567: when a completion or failure commits, no
\* capability of the task is active, though mints may commit until then.
ClosureSweepsAll ==
    [][\A p \in Requests : pc[p] = "sweep" /\ pc'[p] = "done" => Active' = {}]_vars

\* routes.py:583-613: a capability whose revocation was answered 200 is
\* never active again, whatever mints and closures were under way.
RevocationSticks == \A r \in revocations : caps[r[2]] # "active"

\* routes.py:311-382, 504-613: however stale handlers overlap, mints are whole
\* and cleared, closures leave nothing active, withdrawals are for good.
Grants == INSTANCE TaskGrants WITH
    cleared <- Cleared, sealed <- {r[2] : r \in revocations}
ImplementsGrants == Grants!Spec
----------------------------------------------------------------------------
(* Properties of handlers that do not overlap (MaxInFlight = 1) *)

\* The lifecycle implements the task machine.
Machine == INSTANCE TaskMachine WITH live <- Active # {}
ImplementsMachine == Machine!Spec

\* routes.py:588-589: a capability is revoked by an operator at most once.
RevokedOnce == \A r1, r2 \in revocations : r1[2] = r2[2] => r1 = r2

\* routes.py:547: after a failure was answered, no capability is active.
FailureRevokesAll ==
    \A p \in Requests : asks[p] = "fail" /\ pc[p] = "done" => Active = {}
=============================================================================
