------------------------------- MODULE Policy -------------------------------
(* Risk classification and the policy engine: the first rule that matches   *)
(* an action decides it, no rule denies it, and the most restrictive of the *)
(* decisions is the task's.                                                 *)
EXTENDS Naturals, Sequences

CONSTANTS Harmless     \* systems whose reads carry no risk

Classes == {"read", "write", "send", "publish", "delete", "execute"}
Tiers == 0..4

ActionTier(action, destructive) ==
    CASE action.class = "read" /\ action.system \in Harmless -> 0
      [] action.class = "write" /\ destructive -> 3
      [] OTHER -> [read |-> 1, write |-> 2, send |-> 3, publish |-> 3,
                   delete |-> 4, execute |-> 4][action.class]

\* The task's tier is the highest tier of its actions.
TaskTier(task) ==
    LET tiers == {0} \cup {ActionTier(task.actions[i], task.destructive) :
                             i \in DOMAIN task.actions}
    IN  CHOOSE t \in tiers : \A u \in tiers : u <= t

Severity == [allow |-> 0, allow_reduced |-> 1, require_simulation |-> 2,
             require_approval |-> 3, quarantine |-> 4, deny |-> 5]
Effects == DOMAIN Severity
----------------------------------------------------------------------------
\* A condition a rule leaves out is the set of all values.
RuleMatches(rule, action, task) ==
    /\ ActionTier(action, task.destructive) \in rule.tiers
    /\ action.system \in rule.systems
    /\ action.name \in rule.names
    /\ action.class \in rule.classes
    /\ task.trust \in rule.trusts

\* Mutation: the rules stay in the order they are loaded in.
PrecedesUnsorted(rules, i, j) == i < j

\* _load_rules sorts by priority, the smallest number first; the sort is stable
\* over files in the order of their names and rules in the order of their file.
Precedes(rules, i, j) ==
    \/ rules[i].priority < rules[j].priority
    \/ rules[i].priority = rules[j].priority /\ i < j

\* rules is the list as it is loaded; the first rule that matches decides.
Decide(rules, action, task) ==
    LET hits == {i \in DOMAIN rules : RuleMatches(rules[i], action, task)}
    IN  IF hits = {}
        THEN [effect |-> "deny", rule |-> 0]
        ELSE LET i == CHOOSE i \in hits : \A j \in hits \ {i} : Precedes(rules, i, j)
             IN  [effect |-> rules[i].effect, rule |-> i]

\* Mutation: the composite is the least restrictive decision.
CompositeLenient(decisions) ==
    IF decisions = <<>> THEN "deny"
    ELSE LET effects == {decisions[i].effect : i \in DOMAIN decisions}
         IN  CHOOSE e \in effects : \A f \in effects : Severity[e] <= Severity[f]

Composite(decisions) ==
    IF decisions = <<>> THEN "deny"
    ELSE LET effects == {decisions[i].effect : i \in DOMAIN decisions}
         IN  CHOOSE e \in effects : \A f \in effects : Severity[f] <= Severity[e]
=============================================================================
