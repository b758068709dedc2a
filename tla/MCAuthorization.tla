-------------------------- MODULE MCAuthorization --------------------------
(* Two systems, two argument names (one a resource key), three strings of   *)
(* which one is a prefix pattern, tasks of one or two actions, rule lists   *)
(* that decide reads and writes differently, in an order of loading that    *)
(* agrees with their priorities or not.                                     *)
EXTENDS Authorization, TLC

MCMatches == [s \in Strings |-> IF s = "a*" THEN Strings ELSE {s}]

Field(items) == Dict([f \in Fields |-> IF f = "id" THEN ListField(items) ELSE NoField])
Exact(s) == Dict([f \in Fields |-> IF f = "id" THEN TextField(s) ELSE NoField])

MCScopes == {NoScope, Field({"a1"}), Field({"a1", "a2"}), Exact("a2"),
             List({"a1"}), List({"a*"}), Text("a1")}

MCReductions == {NoScope, Field({"a1"}), Exact("a2"), List({}), List({"a1"})}

Action(system, class, scope) ==
    [system |-> system, name |-> class, class |-> class, scope |-> scope]
Task(actions) == [actions |-> actions, destructive |-> FALSE, trust |-> "low"]

MCTasks ==
    {Task(<<Action("crm", "read", s)>>) : s \in MCScopes}
    \cup {Task(<<Action("crm", "write", s)>>) : s \in {NoScope, Field({"a2"})}}
    \cup {Task(<<Action("crm", "read", s), Action(y, "write", r)>>) :
            s \in MCScopes, r \in {NoScope, Field({"a2"}), Text("a2")}, y \in {"crm", "docs"}}
    \cup {[actions |-> <<Action("docs", "read", NoScope), Action("crm", c, NoScope)>>,
           destructive |-> d, trust |-> t] :
            c \in {"write", "send", "execute"}, d \in BOOLEAN, t \in {"low", "untrusted"}}

Rule(classes, effect, scope) ==
    [tiers |-> Tiers, systems |-> {"crm", "docs"}, names |-> Classes,
     classes |-> classes, trusts |-> {"low", "untrusted"}, effect |-> effect, scope |-> scope,
     priority |-> 100]

\* policies/default.yaml
DefaultRules ==
    << [Rule(Classes, "deny", NoScope) EXCEPT !.priority = 10, !.tiers = {4}],
       [Rule({"write", "delete"}, "deny", NoScope)
           EXCEPT !.priority = 15, !.trusts = {"untrusted"}],
       [Rule({"send"}, "require_approval", NoScope) EXCEPT !.priority = 30],
       [Rule({"publish"}, "require_approval", NoScope) EXCEPT !.priority = 31],
       [Rule(Classes, "require_approval", NoScope) EXCEPT !.priority = 35, !.tiers = {3}],
       [Rule({"read"}, "allow", NoScope) EXCEPT !.priority = 50, !.tiers = {0, 1}],
       [Rule({"write"}, "allow", NoScope)
           EXCEPT !.priority = 60, !.tiers = {2}, !.trusts = {"low"}] >>

\* The first rule comes first by its place in the file, or last by its priority.
MCRuleBases ==
    {<<[Rule({"write"}, w, first.scope) EXCEPT !.priority = first.priority],
       Rule({"read", "write"}, e, s)>> :
        first \in [scope : {NoScope}, priority : {100, 110}]
                    \cup [scope : {Field({"a1"})}, priority : {100}],
        w \in {"allow", "require_approval", "deny"},
        e \in {"allow_reduced", "require_approval", "require_simulation", "quarantine"},
        s \in {NoScope, Field({"a1", "a2"}), List({"a1"})}}
    \cup {DefaultRules}
=============================================================================
