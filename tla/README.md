# A formal model of the JITAuth broker

TLA+ modules, TLC configurations and TLAPS proofs for the broker in `src/src/jitauth`.
Paths below are relative to that directory unless they start with `src/`; line
numbers are those of the commit this directory is kept beside.

JITAuth gives an agent runtime capabilities for one task at a time. A task is
created, classified, judged by a policy and perhaps by an operator; then one
capability per target system is minted, and every tool call goes through the
broker, which checks the capability, calls the system and records the call. All
state that matters is in rows of a Postgres database which concurrent request
handlers read and write. The models are about what those handlers do to each other.

## Inventory

| component | state | operations | what makes it correct |
|---|---|---|---|
| gateway, `proxy/gateway.py` | rows `capabilities`, `tool_invocations`; adapter registry | `execute_tool_call` | the action budget holds however calls interleave; counters are exact; a key is charged once; nothing runs under a withdrawn capability; every request answers |
| routes, `broker/routes.py` | rows `tasks`, `policy_decisions`, `approval_records`, `capabilities`, `revocation_events` | create, classify, policy-evaluate, approve, capabilities, complete, fail, revoke | a task gets capabilities only if policy or operator let it; what was revoked stays so; a closure leaves nothing active |
| audit logger, `audit/logger.py` | rows `audit_events`, setting `audit_hash_chain` | `write_audit_event`, `verify_audit_chain` | no fork, no gap; an untouched log verifies, an altered one does not |
| migrations, `src/migrations/` | the schema, `chain_seq` | upgrade | stored chains stay valid |
| policy engine and risk, `policy/` | rule cache | `evaluate`, `evaluate_action`, `classify_risk` | an action that is denied on its own never runs |
| scopes, `_intersect_scopes` (routes), `_enforce_scope` (gateway) | scopes stored with capabilities | merge, intersect, reduce, enforce | every call is within policy, requester and approver scope |
| auth and ownership, `broker/auth.py`, `routes.py:50-122` | API keys, `tasks.created_by` | `get_caller`, `require_operator`, `_enforce_task_ownership` | a runtime reaches its own tasks only, and calls as itself |
| tokens, `core/tokens.py` | none | mint, verify | a token fits one capability and task, and is refused from the end of its lifetime on |
| limits, `broker/middleware.py` | times per client host | `RateLimiter`, `RequestSizeLimiter` | at most rpm + burst requests in a window of one process; who is turned away had its share |
| SDK, `sdk/client.py`, `sdk/decorators.py` | the step of each session | `task`, `execute` | what a session reports is true of the task; its body is authorised; a result is real |
| MCP server, `mcp/server.py` | none | `_execute_governed` | what an agent is told of its call is what happened to it |
| adapters, `proxy/adapters/` | the work outside | `execute` | an answer or an error within the time-out; work that goes on is accounted for |
| session, `db/session.py` | engine, pool | `get_db` | a handler that fails leaves nothing behind |
| server, settings, loader | settings, adapter configs | start-up | a restart continues where it stopped |
| command line, secrets and ids, event names | none | | |

How they interact: every handler runs in a session of its own (`get_db`), writes
an audit event in the transaction of what it does, and meets the other handlers
only through rows. A request first passes the rate limiter and the size check, then
`get_caller`, then its handler. `/execute` is a coroutine that calls the
*synchronous* driver, so it keeps the event loop of its process while it waits for
a row; all other handlers are synchronous functions on pool threads. The gateway
awaits the adapter with the rows of its capability and its task locked. The SDK, and
the MCP server through it, is a client that posts one request after the other and
may give up on any of them.

Hard parts: row locks taken in different orders; statuses read without a lock and
written over later; the audit tail, which every transaction appends to; a commit
that fails after the adapter has acted; handlers of one event loop waiting for
each other; a migration in the middle of a chain; answers that get lost while the
request is served; work that outlives its time-out; scopes of different JSON
shapes. `PROJECT.json` lists them by line.

## Modules

**CapabilityLedger** is the abstract gateway: charges are booked against live
capabilities, within the budget of the task, a key at most once per capability.

**Gateway** is `execute_tool_call` with `revoke_capability`, `complete_task` and
`fail_task` as concurrent READ COMMITTED transactions. `capStatus`, `callsUsed`,
`taskStatus` and `invocations` are committed columns and rows; `capLock` and
`taskLock` are row locks; `pc` says where a handler stands. The steps of an
execution are the token check (`Submit`), the locked read and validation of the
capability (`LockCap`), the locked read of the task together with all checks up
to the adapter call (`Replay`, `Refuse`, `Call`), and the answer of the adapter
with the commit (`Record`, `Lose`). Between two waits a handler reads only rows it
has locked, or rows that only their holder writes, so the statements in between
are one step. Uncommitted writes of a handler are not visible to others and are
applied in its last step. A revocation reads (`RevokeRead`) and then updates by
primary key (`RevokeCommit`); a closer updates the task, lists the active
capabilities, locks them one by one in any order, and commits. `Victim` is the
deadlock detector, `Crash` the death of the process, `Lapse` the passing of
`expires_at`, `Lose` and `OperatorFails` include a failed audit insert.

**GatewayLoop** adds what schedules the handlers: an execution that is on its
event loop keeps every other execution of that loop, and the dispatch of new
requests, from running. It states the fairness and the liveness property.

**ToolClient** adds the two ends of a call: `TaskHandle.execute` in the agent and the
work that the adapter sets going (`work`), which goes on when the adapter has timed
out or the broker has died. `Heard` is what `execute` makes of the broker's answer
and `stored` is `tool_invocations.success`, from which a replay is answered.

**TaskMachine** is the abstract life of a task. **TaskLifecycle** has the handlers
that move one task, each split where the code reads the status without a lock and
where its `UPDATE` is flushed and waits for the row. Up to `MaxInFlight` of them
overlap. **TaskGrants** is what they promise of capabilities even then: no statuses,
locks or requests in flight, only who was cleared, what was minted and withdrawn.

**SdkSession** is one `JITAuthClient.task` on a TaskLifecycle whose other requests
come from other clients. `at` is the step whose answer the session awaits or the
exception it ended in, `posted` the requests on their way, which the broker may serve
after the session gave up on them. A handler may commit and still answer 500.
`Reply` is what the MCP server tells its agent; the decorator's body is one call too.

**AuditChain** is `write_audit_event` inside transactions, and `verify_audit_chain`
as an operator on the set of rows. `SELECT ... ORDER BY ... LIMIT 1 FOR UPDATE`
picks a row of its statement snapshot, waits for it and does not look again;
`snap` holds the pick. The unique index on `chain_seq` is what turns a stale pick
away (`Conflict`). `Restart` changes `audit_hash_chain`; `Backfill` is the upgrade of
migration 001 on a stopped broker, with rows from before v0.5.0, chained or not.
**AuditLog** is the log a reader of the table may count on: a sequence of events with
the event that each names, and a set of events without a place. A transaction's
events enter it in one step, next to each other. It knows no writers in progress.

**RateLimiter** is the sliding window per host, kept in the memory of one process.
**FrontDoor** puts it in front of the endpoints that act on tasks: the reading of the
body, which reorders requests (`inside`), the callers that the configured keys stand
for, ownership of tasks old and new, the binding of `runtime_id`, and the three
things an execute request names separately (task, capability, token). An execution
goes through `calls` in the steps of the code: owner and token (`Submit`), the locked
capability with its lifetime (`Validate`), the locked task and the adapter (`Call`).
In between it waits for rows that another call holds (`Held`), and time passes. Every
other endpoint is one step (`Handle`), and whatever leaves tasks as they are is an
answer (`Reply`). `Exp` cuts the lifetime of a token to whole seconds. `Restart`
empties the windows and drops what was under way, and keeps the rows.

**Scope** and **Policy** are the pure parts: scopes with their merging,
intersection, reduction and enforcement; risk tiers, rule matching, the rule that is
first by priority (`Precedes`) and the composite effect. **Authorization** composes
them into the handlers from classification to the gateway's scope check, one after
the other, with the data that TaskLifecycle leaves out.

**MCGateway**, **MCToolClient**, **MCTaskLifecycle**, **MCSdkSession**,
**MCAuditChain**, **MCFrontDoor** and **MCAuthorization** hold the instances for TLC;
the modules named **...Proofs** hold the theorems. Definitions marked *Mutation* are
plausible bugs of the definition next to them; each property is violated when one of
them takes its place.

## Runs

| run | shows | bounds |
|---|---|---|
| GatewaySafety | budget, exact counters, withdrawal as a barrier, closed tasks are dead, waits end, a lapsed capability drains, refinement of CapabilityLedger | 2 executions, 1 revoker, 1 closer, 2 capabilities of 1 task, budget 1, 1 key |
| GatewayAnswers | every handler that starts answers; a key is charged once; a result is real, retries agree, work that outlives its call is accounted for | ToolClient: 2 executions, 1 revoker, 1 closer, 1 capability, budget 2, a loop per execution |
| GatewayLostCall | *violation*: a call took effect and is recorded nowhere | 1 execution |
| GatewayOneLoop | *violation*: two executions in one process never answer | 2 executions, 1 loop |
| LifecycleRaces | refinement of TaskGrants under overlapping stale handlers: authorisation and revocation; closure | 7 requests, 3 at a time, 2 systems |
| LifecycleSerial | refinement of TaskMachine, single revocation, failure revokes all; verdicts, authorised body and leftovers of a session | SdkSession: its 4 requests and 4 of other clients, 1 at a time, 2 systems |
| LifecycleFailRace | *violation*: a mint overtaken by a failure revives the task | 4 requests, 2 at a time |
| AuditChain | unforked, append-only, verifies untouched, shows alterations, refinement of AuditLog | 3 transactions of 1 or 2 events, 3 changes of the setting, up to 3 old rows, the migration |
| AuditConflict | *violation*: a concurrent writer is turned away | 2 transactions |
| FrontDoor | the window and its fairness, ownership, identity; who comes after a lifetime calls nothing | 5 requests of 2 hosts, 2 at a time, 5 keys, 2 old tasks, 1 new one, limit 3 in a window of 2 ticks, 4 times |
| Authorization | no action runs that the rule in front neither allowed nor let an operator agree to; scopes are ceilings | 1 or 2 actions, 2 systems, 7 requester scopes, 5 reductions, 109 rule lists including `src/policies/default.yaml`, sorted or not |
| AuthorizationOwnRule | *violation*: the scope of the second rule of a system is dropped | the same |

The bounds are the smallest in which the interesting cases meet. Two executions on
two capabilities that share a budget are what the task lock is for. Three handlers in
flight let a stale one be overtaken twice; seven requests take a task through every
status and leave some to interfere; two systems let a mint be told from half of one.
A session has four requests behind its creation, and four others can evaluate,
approve, revoke and close before it does. Three transactions let a writer wait for a
row behind which another appends two, while a third comes in between; three changes
of the setting put unnumbered events on both sides of numbered ones and switch the
chain on once more; of three old rows the migration can put any two in the wrong
order. Five requests exceed a limit of three by one and leave one for a later window;
a second of two ticks against a lifetime of three makes the cut of `exp` visible.
`MaxInside` bounds the requests that are being handled. Rule lists have their first
rule first or last by priority, so that the order of loading alone decides some of
them wrongly.

What constraints leave out: requests start in the order of their numbers
(`InOrder`), which removes symmetric states only; in MCFrontDoor `AtRest` explores
the limiter while no task moves and nothing is called, and tasks and calls while the
limiter turns nobody away, because the two share no state. Two requests are handled
at once as long as tasks are untouched, which is where two calls meet on one row;
afterwards one at a time, and one task is created, since five requests take no more
than one from its creation to a call (the proofs of FrontDoor need no such cut).
GatewaySafety, AuditChain and FrontDoor use symmetry over executions, capabilities,
writers and hosts, which the modules never tell apart; the liveness runs use none.
`CHECK_DEADLOCK FALSE` is set everywhere because every behaviour ends when all
requests have been answered.

### Fairness

`LoopFairSpec` and `ToolFairSpec` assume weak fairness of each handler and of the
deadlock detector, never of the environment (`Crash`, `Lapse`, `OperatorFails`), and
never that work outside the broker ends. A handler that can run has a thread or an
event loop of its own; a free row lock is granted; the adapters bound their calls by
time-outs (`proxy/adapters/http.py:69,121`, `shell.py:62,142`); Postgres checks for
cycles after `deadlock_timeout`. The time-out of httpx is one per operation, so a
service that sends its answer in drops could keep a call longer than that: here it is
taken to end. With few requests a waiter is not overtaken forever,
so weak fairness suffices. The property holds with one execution per event loop and
fails with two (GatewayOneLoop). The other modules state no fairness: an SDK session
may stop anywhere, and no code ends a task that nobody ends.

The audit tail is left out of the waits-for graph of Gateway. It is always the last
lock a transaction takes: after it come only inserts whose foreign keys point to
rows the transaction has locked itself (`audit_events.task_id` is no foreign key),
so it closes no cycle. What it does to concurrent writers is AuditChain's subject,
and its conflicts are in Gateway as failing commits.

## What the code does otherwise than it says

Five runs end in a counterexample; `PROJECT.json` quotes the texts.
1. *Lost call.* The record of a call is written after the adapter has acted, in one
   commit that can fail; a retry with the same key acts again.
2. *One loop.* The second of two concurrent calls on a task blocks the process.
3. *Failure overtaken.* A mint that was under way when the task was failed brings it
   back to `executing` with active capabilities.
4. *Audit conflict.* Concurrent writers are not only serialised: the one with a
   stale row is turned away with its whole transaction.
5. *First rule's scope only.* With two rules on one system, the second rule's scope
   is not enforced.

Others are visible in the models without a run of their own:
- *False alarm.* A chain that was begun on unnumbered rows, and then switched off or
  migrated, is reported as broken although nobody touched it. `UntouchedVerifies`
  says that this (`Overtaken`) is the only such case.
- *Nothing expires on exit.* `sdk/client.py:21,243` and `src/README.md:65` say that
  capabilities expire when the context manager ends; `Leave` calls nothing.
  `LeftoversExplained` says where they are left behind.
- *Order of the limits.* `broker/server.py:113` says "size check first"; the
  middleware that is added last runs first, so `Arrive` comes before `Reply`,
  which has the 413.
- *Effects without a workflow.* `require_simulation` and `quarantine` deny the task,
  but the SDK goes on to mint and raises `capability_failed`, not `TaskDeniedError`.
- *A replayed answer.* Whether the tool succeeded is the same (`RetriesAgree`); the
  result itself is `{"_redacted": true}` where `redact_result` is set
  (`proxy/gateway.py:298`), and tool and arguments of the retry are not compared.
- *Simulation by approval.* `require_simulation` is denied for want of a workflow
  (`routes.py:244-247`, `src/CHANGELOG.md:88`), but it is less severe than
  `require_approval` (`policy/engine.py:25-33`): requested together with an action that
  needs an approval, such an action runs once an operator agrees. Without an operator
  it never does (`OnlyAgreedActionsRun`).
- *A late call.* `expires_at` is compared before the task row is waited for
  (`proxy/gateway.py:168`), so one call may reach its adapter after the expiry.
  `LapsedDrains` says that no further one does, and `ArrivedWithinLifetime` that the
  late call is of a request that came in time: from `expires_at` on, the token refuses
  whoever comes, also at the last instant, which the comparison in the database passes.
- *Exhausted budget.* `task_budget_exceeded` contains none of the words that
  `sdk/client.py:143` looks for, so `execute` raises `ExecutionError`, although
  `CapabilityError` is documented for exceeded limits.

## Proofs

Checked by TLAPS for all values of the constants that satisfy the assumptions. Every
invariant and action property of a passing run is proved, the refinements included,
so the runs serve to find out that a formula is right before it is proved, and that a
mutant breaks it. `Serial` (`MaxInFlight = 1`) is a hypothesis where it is named.

*GatewayProofs*, under `GatewayAssumption` (each capability belongs to a task, the
kinds of requests are disjoint, there are finitely many executions). None of the
properties is inductive alone, because each depends on who holds which row. `LockInv`
says it: an execution from `lockTask` on holds its capability, one in its adapter
holds the task as well; an invocation belongs to an execution that is done; a closer
in its sweep holds the task and still has to lock, or has locked, every capability
that is active; a closed task has no active capability. `LocksHeld` proves it with
one step per action. The budget then follows from two facts: only `Call` adds a
charge, and with the task row locked no other call is in its adapter, so the charges
are the committed invocations, which `WithinLimits` has counted (cardinalities from
FiniteSetTheorems). `StepKinds` reduces the later proofs to three kinds of steps: a
call, a record, or a step quiet for charges. The refinement maps `Record` to a
charge, closures and revocations to withdrawals and all else to a stutter.

`WaitsSafe` is the part of "every handler answers" that needs no fairness: no set of
handlers waits for itself, but for the cycles of an execution and a closer that
Postgres breaks. `HolderInv` adds to `LockInv` the converse of holding: a locked row
is locked by a handler that is at a step where it holds it, and a closer that sweeps
has not locked what is left of its list. Whoever holds a row is then an execution,
which waits at most for a task row, or a closer, which waits at most for a capability;
following a wait twice leads to a handler in its adapter or at its commit, or closes
a cycle of two. That such a handler does go on is fairness, and `EveryHandlerAnswers`
stays with TLC. `LapsedSafe` needs only that two validated requests of one capability
would both hold its row.

*ToolProofs*: ToolClient implements Gateway (`ToolImplementsGateway`), so what is
proved of the gateway holds for every caller. `ToolInv` ties `stored` and `work` to
`pc`; with `KeyChargedOnce` from GatewayProofs a key has one original, which gives
`RetriesSafe`.

*TaskLifecycleProofs*, under `LifecycleAssumption` (finitely many requests, at least
one system). For every interleaving: `MintedInv` (a capability is written by a mint
that is done, and what was revoked is not active), `ClearedInv` (what a handler in
`flush` saw stays true of decisions and approvals, though not of the status, so a
stale mint still has its authorisation) and `SweepInv` (a closer holds the task row,
so its list contains all that is active). `GrantsImplemented` maps every step to
one of TaskGrants from these (the theorems `AuthorisedSafe` and `RevocationSafe` say
the same of `Authorised` and `RevocationSticks`, which the run checks as part of the
refinement): a mint is a grant because its task is still cleared and
its own capabilities are not there yet; a closure withdraws all that is active because
of `SweepInv`, whatever other withdrawals it writes over; a revocation withdraws one
capability that was minted (`AimInv`). Under `Serial`: `SerialInv` (one handler in
flight, whose status is still the one it read; active capabilities only while the
task is executing) gives single revocation, `FailureRevokesAll` and the refinement of
TaskMachine. LifecycleFailRace shows that the last two need `Serial`.

*SdkProofs*, under `SessionAssumption` (the session's requests are different ones):
SdkSession implements TaskLifecycle, so `Authorised` is inherited. `SessionInv` says
what the session knows where it stands: its requests asked for what it wanted, and
what it was answered was committed. `BodySafe` and `LeftoversSafe` need no `Serial`;
`VerdictsSafe` does, because a stale handler can write over a denial.

*AuditChainProofs*, under `AuditAssumption`. `FormInv` gives rows their shape,
`SnapInv` says that a waiting transaction has picked a row that is still there,
`TimeInv` that timestamps differ and that before the migration an old log is just
that, `ChainInv` that each number has the one before it, in the log or among the rows
of its own transaction. `Unforked` also needs that the backfill numbers by rank,
which is a fact about cardinalities (`Unnumbered`). `AlterationsShow` and `LogAppends`
follow.

*AuditVerifyProofs* goes on to `UntouchedVerifies`, in both directions. `ModeInv`: as
the setting changes only between transactions, rows of one transaction are all
numbered or all not. `IdInv`: one row per event. `BeginInv`: the first numbered row
continues from the latest unnumbered row of its time. An untouched log then verifies
because between a row and the one it names nothing sorts, unless `Overtaken`.

The refinement of AuditLog (`LogImplemented`) needs to know what a transaction in
progress will put into the log. `RunInv`: its rows carry its numbers 1 to n, and their
places in the chain go up by one with them, so that it continues from its own last
row unless a number of its own was taken (`LastRow`). `LockInv`: what it locked is in
the log or its own. `AgeInv`: events of one transaction, and the old ones, are in the
order of their time stamps, which is the order in which the migration numbers them.
A commit then appends to the end of the chain (`CommitChains`: the numbers are
exactly those behind the greatest, or the unique index would have turned the
transaction away) or adds to the events without a place (`CommitDrops`), the migration
is `Number` (`BackfillNumbers`), and nothing else is visible. The chain as a sequence
is built from the set of rows by their numbers, which `ChainInv` makes 1 to n.

*FrontDoorProofs*, under `LimiterAssumption`, `DoorAssumption` and
`OldRowAssumption`. That `Ttl` is not 0 is the code's: `time_limit_seconds` is at
least 10 (`core/schemas.py:56`) and the default lifetime 300 seconds. `KeptInv`:
every request that may still count is an entry, and entries are few; windows of any
position follow by comparing them with the last request in them. `EntryInv`: entries
are of requests that were let through, so who is turned away had its share.
`RowsSound`: who created a task is the runtime it names, unless an operator did.
What a call does depends on checks that were made steps ago, so the properties of
calls need an invariant of the calls under way: `CallsSound` says of each that its
caller owns its task, that task and capability are one, that the capability is there
and that its request arrived before the end of the lifetime. It is kept because the
owner of a task never changes, and a lifetime, once begun, could only be begun again
later (`RowSteps`); a new task does not write over one that a call is for, because
the id of a request is new until it is answered (`FreshIds`). `LifetimeSafe` follows
from `Exp` never being later than `expires_at` (`ExpCut`), whatever the wait between
`Submit` and `Call`.

*AuthorizationProofs*, under `ScopeAssumption` and `AuthorizationAssumption` (an
entry matches itself; tasks and rules carry scopes, classes and effects). The
invariant `Inv` says that from evaluation on the decisions are those of `Decide`,
that a task in `pending_approval`, `approved` or `executing` has no denied or
quarantined action and, unless an operator agreed or is asked, only allowed ones, that
minted scopes are the effective scopes, and that the call is
within them. The lemmas `IntersectCeiling`, `ReduceCeiling`, `ListedNarrow` and
`TabledNarrow` state what intersecting does for every pair of scopes;
`CompositeStrict` that one denied action is enough, `CompositeAllowed` that a task is
allowed only if all of its actions are. `AgreedSafe` speaks of the rules themselves and
not of decisions: `FirstRule` shows that among rules that match one is in front of all
others, so that `Decide` takes it (`DecideFirst`).

Only model-checked: the liveness property `EveryHandlerAnswers`. Fairness and
`ENABLED` are beyond the prover, and so is induction over data; the modules with
theorems therefore use sets and functions instead of recursion.

## Abstractions

- Transactions are those of Postgres. On SQLite `FOR UPDATE` does nothing and
  writers exclude each other; that deployment is not modelled.
- A request is a record of the capability, the key and at most one defect. Defects
  found before the capability is locked end in `Submit`, all later ones in `Refuse`;
  a wrong `runtime_secret` is one of them.
- `max_calls` of a capability equals `max_actions` of its task (routes.py:420).
- A request that meets a status it does not expect changes nothing; TaskLifecycle
  lets it take no step. A body that Pydantic rejects never reaches a handler.
- One task per behaviour in TaskLifecycle and SdkSession: handlers of different
  tasks meet only in the audit log.
- A hash is the event it is taken of. The database runs in UTC, so that an event
  is hashed alike before and after it is stored (logger.py:199-201).
- The clock ticks at any time, also not at all between steps. A time is a number of
  ticks; only differences and whole seconds matter.
- API keys and their names do not change, also not at a restart.
- Adapters: a shell command and an HTTP request are both work that ends well, badly
  or not in time; parameter rules and templates decide whether it starts.
- Scope entries and arguments are model values; `Matches` gives the strings that a
  list entry stands for, so a trailing `*` is a larger set. A merged list keeps its
  string entries only: the others match no argument. The text `null` given as a
  scope is not considered.
- Rules are the list as it is loaded, each with its priority, which decides before
  the place in the list; a condition that is left out is the set of all values. An
  effect outside `PolicyEffect` fails when it is stored and is left out.
- `TaskTier` stands for `classify_risk`, whose loop repeats `classify_action_risk`.

## Not modelled

- `require_api_auth = False`, which makes every caller one fixed operator.
- The connection pool (`db/session.py:19`): its limit is far from the instances, and
  how it blocks an event loop is what GatewayOneLoop shows for row locks.
- Timestamps in a session time zone other than UTC.
- Reading YAML rules and adapter configurations, checking secrets at start-up, the
  command line, ids and hashing of secrets, and event names: sequential code on data.
- Sanitising of results, parameter validation rules, URL and command templates of the
  adapters, tool registration of the MCP server.
- The read-only endpoints, and the column and table steps of the migrations.
- `tasks.expires_at`, which no handler reads (routes.py:340).

## Plan

Done, in this order: Gateway with its ledger and loop, TaskLifecycle with its
machine, AuditChain, Authorization with Scope and Policy, their proofs, the callers
(FrontDoor with RateLimiter), the migration, the SDK session and the two ends of a
tool call, and their proofs; then the promises that hold under overlap (TaskGrants,
AuditLog), the order of waits and the draining of lapsed capabilities, with proofs.
What could follow:

1. The lemmas of AuditVerifyProofs on sequences in fewer steps, and the invariants of
   the gateway's event loops beyond what Gateway has.
2. Times rendered in a time zone, as a second hash of each event in AuditChain.
3. The connection pool as a bound in GatewayLoop.
4. Two brokers with different `audit_hash_chain` settings at one database.
