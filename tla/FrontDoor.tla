----------------------------- MODULE FrontDoor -----------------------------
(* The way of a request from the limiters through authentication and        *)
(* ownership to its handler, for the endpoints that act on tasks.  Behind   *)
(* the rate limiter the body is read chunk by chunk, so that requests are   *)
(* handled in another order, and later, than they arrived.                  *)
EXTENDS RateLimiter

CONSTANTS Names,      \* caller names, runtime ids
          Empty,      \* the empty name, which Python takes for false
          Null,       \* created_by of a task from before v0.7.0
          ApiKeys,    \* the Bearer keys that requests may carry
          Entry,      \* settings.api_keys: what each key stands for
          OldTasks,   \* tasks in the database before the process started
          OldRow,     \* their rows
          Second,     \* ticks per second
          Ttl,        \* lifetime of a capability, in ticks
          MaxInside   \* bound on requests that are being handled

Tasks == Requests \cup OldTasks   \* a task is named by the request creating it

Statuses == {"absent", "created", "pending_policy", "pending_approval",
             "approved", "denied", "executing", "closed"}

\* expires_at dates the capability of the task, once there is one.
Rows == [status : Statuses, owner : Names \cup {Null}, runtime : Names,
         expires_at : Nat]

ASSUME DoorAssumption ==
    /\ Empty \in Names /\ Null \notin Names
    /\ Entry \in [ApiKeys -> [role : {"operator", "runtime", "unknown", "malformed"},
                              name : Names]]
    /\ OldTasks \cap Requests = {}
    /\ OldRow \in [OldTasks -> Rows]
    /\ Second \in Nat \ {0} /\ Ttl \in Nat \ {0} /\ MaxInside \in Nat

(* Old rows were written by create_task under the keys that are configured  *)
(* now, or before v0.7.0.                                                   *)
ASSUME OldRowAssumption ==
    \A t \in OldTasks :
        \/ OldRow[t].owner \in {Null, OldRow[t].runtime}
        \/ \E k \in ApiKeys : Entry[k] = [role |-> "operator", name |-> OldRow[t].owner]

VARIABLES inside,   \* requests past the rate limiter that have no answer yet
          calls,    \* execute_tool: the calls that are under way
          tasks,    \* rows of tasks and capabilities
          event     \* what the last step changed or called, and for whom
vars == <<limiterVars, inside, calls, tasks, event>>

Caller == [role : {"operator", "runtime"}, name : Names]

\* A call waits for the row of its capability, then for that of its task, and
\* then for its adapter; a capability is named by its task.
Calls == [request : Requests, by : Caller, task : Tasks, cap : Tasks,
          step : {"lockCap", "lockTask", "adapter"}]

\* "move": the task or its capability was changed; "call": a tool was called.
Events == [kind : {"move", "call"}, by : Caller, task : Tasks, request : Requests]

TypeOK ==
    /\ LimiterTypeOK
    /\ inside \subseteq Requests
    /\ calls \subseteq Calls
    /\ tasks \in [Tasks -> Rows]
    /\ event \subseteq Events

NoRow == [status |-> "absent", owner |-> Null, runtime |-> Empty, expires_at |-> 0]

Init ==
    /\ LimiterInit
    /\ inside = {} /\ calls = {}
    /\ tasks = [t \in Tasks |-> IF t \in OldTasks THEN OldRow[t] ELSE NoRow]
    /\ event = {}
----------------------------------------------------------------------------
(* RateLimiter.dispatch comes first: Starlette puts the middleware that was *)
(* added last around the others.                                            *)
Arrive(p) ==
    /\ \E h \in Hosts :
        \/ /\ Cardinality(inside) < MaxInside
           /\ Pass(p, h)
           /\ inside' = inside \cup {p}
        \/ TurnAway(p, h) /\ UNCHANGED inside
    /\ event' = {}
    /\ UNCHANGED <<calls, tasks>>

CallsOf(p) == {x \in calls : x.request = p}

Answer(p) ==
    /\ p \in inside
    /\ inside' = inside \ {p}
    /\ calls' = calls \ CallsOf(p)
    /\ UNCHANGED limiterVars

\* Every refusal behind the limiter, from 413 to a handler's own 409, and what
\* a call reports: answers that leave tasks alone.
Reply(p) == Answer(p) /\ event' = {} /\ UNCHANGED tasks

\* A handler that does its work, commits and answers.
Handle(p) == Answer(p) /\ CallsOf(p) = {}

(* get_caller: the callers that the configured keys stand for; a malformed  *)
(* entry or an unknown role is answered 500.                                *)
Authenticated ==
    {c \in Caller : \E k \in ApiKeys : Entry[k].role = c.role /\ Entry[k].name = c.name}

Operators == {c \in Authenticated : c.role = "operator"}

\* Mutation: a task without an owner is open to every caller.
OwnsOldTasks(c, t) ==
    \/ c.role = "operator"
    \/ tasks[t].owner \in {Null, Empty, c.name}

\* _enforce_task_ownership: a task without an owner is left to operators.
Owns(c, t) ==
    \/ c.role = "operator"
    \/ tasks[t].owner \notin {Null, Empty} /\ tasks[t].owner = c.name

Event(kind, p, c, t) ==
    event' = {[kind |-> kind, by |-> c, task |-> t, request |-> p]}

(* The rows of the task and of its capability are locked by a call, from    *)
(* its validation to the commit after its adapter.                          *)
Held(t) == \E x \in calls : x.cap = t /\ x.step # "lockCap"

\* Mutation: the runtime_id of the request is taken as it is.
CreateUnbound(p) ==
    /\ Handle(p)
    /\ \E c \in Authenticated, r \in Names \ {Empty} :
        /\ tasks' = [tasks EXCEPT ![p] = [status |-> "created", owner |-> c.name,
                                          runtime |-> r, expires_at |-> 0]]
    /\ event' = {}

\* create_task: a runtime must name itself, and the schema wants a name.
Create(p) ==
    /\ Handle(p)
    /\ \E c \in Authenticated, r \in Names \ {Empty} :
        /\ c.role = "operator" \/ r = c.name
        /\ tasks' = [tasks EXCEPT ![p] = [status |-> "created", owner |-> c.name,
                                          runtime |-> r, expires_at |-> 0]]
    /\ event' = {}

SetStatus(t, s) == tasks' = [tasks EXCEPT ![t].status = s]

ClassifyTask(p) ==
    /\ Handle(p)
    /\ \E c \in Authenticated, t \in Tasks :
        /\ Owns(c, t)
        /\ tasks[t].status = "created"
        /\ SetStatus(t, "pending_policy")
        /\ Event("move", p, c, t)

EvaluatePolicy(p) ==
    /\ Handle(p)
    /\ \E c \in Authenticated, t \in Tasks :
        /\ Owns(c, t)
        /\ tasks[t].status = "pending_policy"
        /\ \E s \in {"approved", "pending_approval", "denied"} : SetStatus(t, s)
        /\ Event("move", p, c, t)

ApproveTask(p) ==
    /\ Handle(p)
    /\ \E c \in Operators, t \in Tasks :
        /\ tasks[t].status = "pending_approval"
        /\ \E s \in {"approved", "denied"} : SetStatus(t, s)
        /\ Event("move", p, c, t)

\* Mutation: a task that is ended early gets a status of its own.
CloseTaskAborted(p) ==
    /\ Handle(p)
    /\ \E c \in Operators, t \in Tasks :
        /\ tasks[t].status \in {"pending_approval", "approved", "executing"} /\ ~Held(t)
        /\ SetStatus(t, "aborted")
        /\ Event("move", p, c, t)

\* complete_task, which wants an executing task, and fail_task; both wait for
\* the rows that a call holds.
CloseTask(p) ==
    /\ Handle(p)
    /\ \E c \in Operators, t \in Tasks :
        /\ tasks[t].status \in {"pending_approval", "approved", "executing"} /\ ~Held(t)
        /\ SetStatus(t, "closed")
        /\ Event("move", p, c, t)

\* request_capabilities: the lifetime starts here.
Mint(p) ==
    /\ Handle(p)
    /\ \E c \in Authenticated, t \in Tasks :
        /\ Owns(c, t)
        /\ tasks[t].status = "approved"
        /\ tasks' = [tasks EXCEPT ![t].status = "executing", ![t].expires_at = now + Ttl]
        /\ Event("move", p, c, t)
----------------------------------------------------------------------------
(* mint_capability_token and verify_capability_token: exp is cut to whole   *)
(* seconds, and a token is refused as soon as exp is reached.               *)

\* Mutation: exp is rounded up.
ExpRoundedUp(t) == ((tasks[t].expires_at + Second - 1) \div Second) * Second

Exp(t) == (tasks[t].expires_at \div Second) * Second

Minted == {t \in Tasks : tasks[t].expires_at # 0}

TokenValid(t) == now < Exp(t)

(* The claims sub and task_id of the token, against what the request names. *)
Bound(t, cap, token) == token = cap /\ token = t

\* execute_tool and the head of execute_tool_call: the owner of the task that
\* the request names, and the token.
Submit(p) ==
    /\ p \in inside /\ CallsOf(p) = {}
    /\ \E c \in Authenticated, t \in Tasks, cap \in Minted, token \in Minted :
        /\ tasks[t].status # "absent" /\ Owns(c, t)
        /\ TokenValid(token)
        /\ Bound(t, cap, token)
        /\ calls' = calls \cup {[request |-> p, by |-> c, task |-> t, cap |-> cap,
                                step |-> "lockCap"]}
    /\ event' = {}
    /\ UNCHANGED <<limiterVars, inside, tasks>>

Advance(x, s) == calls' = (calls \ {x}) \cup {[x EXCEPT !.step = s]}

\* With the row of the capability locked, _validate_capability and the check
\* of its task.  The last instant of the lifetime passes.
Validate(p) ==
    /\ \E x \in CallsOf(p) :
        /\ x.step = "lockCap" /\ ~Held(x.cap)
        /\ tasks[x.cap].status = "executing" /\ now <= tasks[x.cap].expires_at
        /\ x.cap = x.task
        /\ Advance(x, "lockTask")
    /\ event' = {}
    /\ UNCHANGED <<limiterVars, inside, tasks>>

\* With the row of the task locked as well, the adapter is called; nobody looks
\* at the clock again.
Call(p) ==
    /\ \E x \in CallsOf(p) :
        /\ x.step = "lockTask"
        /\ Advance(x, "adapter")
        /\ Event("call", p, x.by, x.cap)
    /\ UNCHANGED <<limiterVars, inside, tasks>>

\* The process dies and is started again on the same database.
Restart ==
    /\ Forget
    /\ inside' = {} /\ calls' = {} /\ event' = {}
    /\ UNCHANGED tasks

Serve(p) == Reply(p) \/ Create(p) \/ ClassifyTask(p) \/ EvaluatePolicy(p)
              \/ ApproveTask(p) \/ CloseTask(p) \/ Mint(p)
              \/ Submit(p) \/ Validate(p) \/ Call(p)

Next == \/ \E p \in Requests : Arrive(p) \/ Serve(p)
        \/ Tick /\ event' = {} /\ UNCHANGED <<inside, calls, tasks>>
        \/ Restart

Spec == Init /\ [][Next]_vars
----------------------------------------------------------------------------
(* Properties *)

OwnedBy(c, t) == c.role = "operator" \/ (c.name = tasks[t].owner /\ c.name # Empty)

\* routes.py:50-80, gateway.py:145-181: whatever tokens and ids are passed
\* around, a task is moved, and a call made under its capability, by nobody
\* but operators and the runtime that created it.  A task from before v0.7.0,
\* and one whose creator has an empty name, is left to operators alone.
OnlyOwnersAct == \A x \in event : OwnedBy(x.by, x.task)

\* routes.py:107-122: a runtime calls tools under its own runtime id only,
\* unless an operator key carries the same name and created the task.
CallsAsItself ==
    \A x \in event :
        \/ x.kind = "move" \/ x.by.role = "operator"
        \/ tasks[x.task].runtime = x.by.name
        \/ [role |-> "operator", name |-> x.by.name] \in Operators

\* tokens.py:71, 114 and gateway.py:372: a request that comes when the lifetime
\* of a capability is over calls nothing under it, not even at the last instant,
\* which the check in the database lets pass and the token does not.  A request
\* that came in time may call late: after the checks it waits for the row of
\* the task.
ArrivedWithinLifetime ==
    \A x \in event : x.kind = "call" => at[x.request] < tasks[x.task].expires_at
=============================================================================
