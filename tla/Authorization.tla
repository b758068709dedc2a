--------------------------- MODULE Authorization ---------------------------
(* What the capabilities of a task let through: policy decision, approval,  *)
(* minting and enforcement composed, one handler after the other (their     *)
(* overlapping is TaskLifecycle's subject).                                 *)
EXTENDS Policy, Scope

CONSTANTS Tasks,      \* the task requests considered
          RuleBases,  \* the rule lists considered, as they are loaded
          Reductions  \* scopes an approval may name for a system

ASSUME AuthorizationAssumption ==
    /\ \A t \in Tasks : \A i \in DOMAIN t.actions :
          i \in Nat /\ t.actions[i].scope \in Scopes /\ t.actions[i].class \in Classes
    /\ \A base \in RuleBases : \A i \in DOMAIN base :
          /\ i \in Nat /\ base[i].priority \in Nat
          /\ base[i].scope \in Scopes /\ base[i].effect \in Effects
    /\ Reductions \subseteq Scopes

VARIABLES task, rules, status,
          tier,       \* tasks.risk_tier, 0 before classification
          decisions,  \* policy_decisions.computed_scope, by action
          agreed,     \* approval_records has an approval
          reduction,  \* its reduced_scope, by system
          caps,       \* capabilities.resource_scope, by system
          called      \* the call the gateway let through, if any
vars == <<task, rules, status, tier, decisions, agreed, reduction, caps, called>>

SystemsOf(t) == {t.actions[i].system : i \in DOMAIN t.actions}
Of(system) == {i \in DOMAIN task.actions : task.actions[i].system = system}

TypeOK ==
    /\ status \in {"created", "pending_policy", "pending_approval", "approved",
                   "denied", "executing"}
    /\ task \in Tasks /\ rules \in RuleBases
    /\ tier \in Tiers
    /\ DOMAIN decisions \subseteq DOMAIN task.actions
    /\ \A i \in DOMAIN decisions : decisions[i].effect \in Effects
    /\ agreed \in BOOLEAN
    /\ reduction \in [SystemsOf(task) -> Scopes]
    /\ DOMAIN caps \subseteq SystemsOf(task)
    /\ \A s \in DOMAIN caps : caps[s] \in Scopes

Init ==
    /\ task \in Tasks
    /\ rules \in RuleBases
    /\ status = "created"
    /\ tier = 0
    /\ decisions = <<>>
    /\ agreed = FALSE
    /\ reduction = [s \in SystemsOf(task) |-> NoScope]
    /\ caps = <<>>
    /\ called = {}
----------------------------------------------------------------------------
Classify ==
    /\ status = "created"
    /\ tier' = TaskTier(task)
    /\ status' = "pending_policy"
    /\ UNCHANGED <<task, rules, decisions, agreed, reduction, caps, called>>

\* Mutation: the composite decision itself is stored as the status.
EvaluateRaw ==
    /\ status = "pending_policy"
    /\ decisions' = [i \in DOMAIN task.actions |-> Decide(rules, task.actions[i], task)]
    /\ status' = Composite(decisions')
    /\ UNCHANGED <<task, rules, tier, agreed, reduction, caps, called>>

Evaluate ==
    /\ status = "pending_policy"
    /\ decisions' = [i \in DOMAIN task.actions |-> Decide(rules, task.actions[i], task)]
    /\ status' = LET effect == Composite(decisions')
                 IN  CASE effect \in {"allow", "allow_reduced"} -> "approved"
                       [] effect = "require_approval" -> "pending_approval"
                       [] OTHER -> "denied"
    /\ UNCHANGED <<task, rules, tier, agreed, reduction, caps, called>>

Approve ==
    /\ status = "pending_approval"
    /\ \/ /\ reduction' \in [SystemsOf(task) -> Reductions]
          /\ agreed' = TRUE
          /\ status' = "approved"
       \/ /\ status' = "denied"
          /\ UNCHANGED <<agreed, reduction>>
    /\ UNCHANGED <<task, rules, tier, decisions, caps, called>>

RuleScope(i) == IF decisions[i].rule = 0 THEN NoScope ELSE rules[decisions[i].rule].scope
Structured(s) == s.kind \in {"dict", "list"}

\* policy_scopes.setdefault: the first structured scope of the system.
PolicyScope(system) ==
    LET hits == {i \in Of(system) : Structured(RuleScope(i))}
    IN  IF hits = {} THEN NoScope
        ELSE RuleScope(CHOOSE i \in hits : \A j \in hits : i <= j)

RequesterScope(system) ==
    Merge([i \in {j \in Of(system) : task.actions[j].scope.kind # "none"} |->
              task.actions[i].scope])

\* Mutation: the reduction replaces what policy and requester left.
EffectiveScopeReplaced(system) ==
    IF Falsy(reduction[system])
    THEN Intersect(PolicyScope(system), RequesterScope(system))
    ELSE reduction[system]

EffectiveScope(system) ==
    Reduce(Intersect(PolicyScope(system), RequesterScope(system)), reduction[system])

Mint ==
    /\ status = "approved"
    /\ caps' = [s \in SystemsOf(task) |-> EffectiveScope(s)]
    /\ status' = "executing"
    /\ UNCHANGED <<task, rules, tier, decisions, agreed, reduction, called>>

\* The allowed-actions, system and scope checks of execute_tool_call.  They
\* depend on no earlier call, so one call shows all that can pass.
Execute ==
    /\ status = "executing" /\ called = {}
    /\ \E i \in DOMAIN task.actions, args \in Arguments :
        /\ Permits(caps[task.actions[i].system], args)
        /\ called' = {[action |-> i, args |-> args]}
    /\ UNCHANGED <<task, rules, status, tier, decisions, agreed, reduction, caps>>

Next == Classify \/ Evaluate \/ Approve \/ Mint \/ Execute

Spec == Init /\ [][Next]_vars
----------------------------------------------------------------------------
(* Properties *)

SystemOf(c) == task.actions[c.action].system

Hits(i, a) == RuleMatches(rules[i], task.actions[a], task)

\* engine.py:62, 89-140, routes.py:238-315: an action runs only if a rule that
\* matches it allows it, or lets an operator agree to it who did agree to the
\* task, and no matching rule is of a smaller priority or loaded before it with
\* the same: a denied or quarantined action never runs, in whatever company.
OnlyAgreedActionsRun ==
    \A c \in called : \E i \in DOMAIN rules :
        /\ Hits(i, c.action)
        /\ \A j \in DOMAIN rules : Hits(j, c.action) =>
              /\ rules[i].priority <= rules[j].priority
              /\ rules[i].priority = rules[j].priority => i <= j
        /\ \/ rules[i].effect \in {"allow", "allow_reduced"}
           \/ agreed /\ rules[i].effect \notin {"deny", "quarantine"}

\* routes.py:378-411, gateway.py:410-470: neither the requester's scopes nor
\* the approver's reduction let a call exceed the system's policy scope.
PolicyCeiling == \A c \in called : Permits(PolicyScope(SystemOf(c)), c.args)

\* Scopes the intersection can compare: nothing, or lists at the same place.
Listed(s) == s.kind = "none" \/ s.kind = "list"
Tabled(s) == s.kind = "none" \/ (s.kind = "dict" /\
                \A f \in Fields : s.field[f].kind \in {"none", "list"})
Comparable(system) ==
    LET given == {PolicyScope(system), RequesterScope(system), reduction[system]}
    IN  (\A s \in given : Listed(s)) \/ (\A s \in given : Tabled(s))

\* routes.py:658: scopes of one shape narrow each other; a call is within
\* the policy's, the requester's and the approver's scope at once.
LikeScopesNarrow ==
    \A c \in called : LET s == SystemOf(c) IN
        Comparable(s) =>
            /\ Permits(PolicyScope(s), c.args)
            /\ Permits(RequesterScope(s), c.args)
            /\ Falsy(reduction[s]) \/ Permits(reduction[s], c.args)

\* routes.py:355-356: the scope of the rule that decided an action is the
\* ceiling of the calls of that action.
OwnRuleCeiling ==
    \A c \in called : Structured(RuleScope(c.action)) => Permits(RuleScope(c.action), c.args)
=============================================================================
