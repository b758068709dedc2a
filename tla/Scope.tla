------------------------------- MODULE Scope -------------------------------
(* Resource scopes: how request_capabilities intersects them and how the    *)
(* gateway enforces the result on the arguments of a call.                  *)
EXTENDS Naturals, Sequences

CONSTANTS Fields,       \* argument names
          ResourceKeys, \* those a list scope applies to
          Strings,      \* argument values and scope entries
          Matches,      \* the strings an entry stands for in a list scope
          Absent        \* the argument is not given

ASSUME ScopeAssumption ==
    /\ ResourceKeys \subseteq Fields
    /\ Matches \in [Strings -> SUBSET Strings]
    /\ \A s \in Strings : s \in Matches[s]
    /\ Absent \notin Strings

(* A field of a dict scope: a list of values, one string, any other JSON    *)
(* value (not enforced), or no constraint (missing or null).                *)
ListField(items) == [kind |-> "list", items |-> items]
TextField(s)     == [kind |-> "text", items |-> {s}]
OtherField       == [kind |-> "other", items |-> {}]
NoField          == [kind |-> "none", items |-> {}]
FieldScopes == {ListField(S) : S \in SUBSET Strings} \cup {TextField(s) : s \in Strings}
                 \cup {OtherField, NoField}

(* A scope: absent, a dict by field, a list, or a bare string.              *)
Unconstrained == [f \in Fields |-> NoField]
NoScope      == [kind |-> "none", items |-> {}, field |-> Unconstrained]
Dict(g)      == [kind |-> "dict", items |-> {}, field |-> g]
List(S)      == [kind |-> "list", items |-> S, field |-> Unconstrained]
Text(s)      == [kind |-> "text", items |-> {s}, field |-> Unconstrained]
Scopes == {NoScope} \cup {Dict(g) : g \in [Fields -> FieldScopes]}
            \cup {List(S) : S \in SUBSET Strings} \cup {Text(s) : s \in Strings}

Arguments == [Fields -> Strings \cup {Absent}]
----------------------------------------------------------------------------
(* _intersect_scopes *)

Meet(p, r) ==
    IF p.kind = "none" THEN r
    ELSE IF r.kind = "none" THEN p
    ELSE IF p.kind = "list" /\ r.kind = "list" THEN ListField(p.items \cap r.items)
    ELSE p

\* Mutation: lists are joined.
IntersectJoining(p, r) ==
    IF p.kind = "none" THEN r
    ELSE IF r.kind = "none" THEN p
    ELSE IF p.kind = "dict" /\ r.kind = "dict"
         THEN Dict([f \in Fields |-> Meet(p.field[f], r.field[f])])
    ELSE IF p.kind = "list" /\ r.kind = "list" THEN List(p.items \cup r.items)
    ELSE p

Intersect(p, r) ==
    IF p.kind = "none" THEN r
    ELSE IF r.kind = "none" THEN p
    ELSE IF p.kind = "dict" /\ r.kind = "dict"
         THEN Dict([f \in Fields |-> Meet(p.field[f], r.field[f])])
    ELSE IF p.kind = "list" /\ r.kind = "list" THEN List(p.items \cap r.items)
    ELSE p

\* The scopes given for a system's actions, put in one list when there are
\* several: of such a list the gateway can only match the string entries.
Merge(given) ==
    CASE DOMAIN given = {} -> NoScope
      [] \E i \in DOMAIN given : DOMAIN given = {i} -> given[CHOOSE i \in DOMAIN given : TRUE]
      [] OTHER -> List(UNION {given[i].items :
                              i \in {j \in DOMAIN given : given[j].kind = "text"}})

\* An approval's reduction, ignored when Python takes it for false.
Falsy(s) == s.kind = "none" \/ s = List({})
Reduce(s, reduction) == IF Falsy(reduction) THEN s ELSE Intersect(s, reduction)
----------------------------------------------------------------------------
(* _enforce_scope *)

FieldPermits(c, value) ==
    IF c.kind \in {"list", "text"} THEN value \in c.items ELSE TRUE

Permits(s, args) ==
    CASE s.kind = "dict" ->
            \A f \in Fields : args[f] # Absent => FieldPermits(s.field[f], args[f])
      [] s.kind = "list" ->
            \A f \in ResourceKeys :
                args[f] # Absent => \E e \in s.items : args[f] \in Matches[e]
      [] OTHER -> TRUE
=============================================================================
