------------------------ MODULE AuthorizationProofs ------------------------
(* Proofs about Scope, Policy and Authorization: for every set of argument  *)
(* names, values, tasks, rules and reductions.                              *)
EXTENDS Authorization, FiniteSetTheorems, WellFoundedInduction, TLAPS

\* The first of several positions exists: CHOOSE finds it.
LEMMA LeastElement ==
  ASSUME NEW S \in SUBSET Nat, S # {}
  PROVE  \E m \in S : \A k \in S : m <= k
  <1> DEFINE Segments == {0..m : m \in S}
             Below == StrictSubsetOrdering(Nat)
  <1>1. \A m \in S : 0..m \in SUBSET Nat /\ IsFiniteSet(0..m)
    BY FS_Interval
  <1>2. Segments \subseteq FiniteSubsetsOf(Nat) /\ Segments # {}
    BY <1>1 DEF FiniteSubsetsOf
  <1>3. IsWellFoundedOn(Below, FiniteSubsetsOf(Nat))
    BY FS_StrictSubsetOrderingWellFounded
  <1> HIDE DEF Segments, Below
  <1>4. PICK x \in Segments : \A y \in Segments : ~ (<<y, x>> \in Below)
    BY <1>2, <1>3, WFMin
  <1> USE DEF Segments, Below
  <1>5. PICK m \in S : x = 0..m
    OBVIOUS
  <1>6. ASSUME NEW k \in S, k < m PROVE <<0..k, 0..m>> \in Below
    <2>1. 0..k \subseteq 0..m /\ m \in 0..m /\ m \notin 0..k
      BY <1>6
    <2> QED  BY <1>1, <2>1 DEF StrictSubsetOrdering
  <1>7. \A k \in S : ~ (k < m)
    BY <1>4, <1>5, <1>6
  <1> QED  BY <1>7

\* Sorting leaves one rule in front of the others (engine.py:62).
LEMMA FirstRule ==
  ASSUME NEW base \in RuleBases, NEW hits \in SUBSET DOMAIN base, hits # {}
  PROVE  \E i \in hits : \A j \in hits \ {i} : Precedes(base, i, j)
  <1> DEFINE Numbers == {base[i].priority : i \in hits}
  <1>1. \A i \in DOMAIN base : i \in Nat /\ base[i].priority \in Nat
    BY AuthorizationAssumption
  <1>2. Numbers \in SUBSET Nat /\ Numbers # {}
    BY <1>1
  <1>3. PICK m \in Numbers : \A k \in Numbers : m <= k
    BY <1>2, LeastElement
  <1> DEFINE Best == {i \in hits : base[i].priority = m}
  <1>4. Best \in SUBSET Nat /\ Best # {}
    BY <1>1
  <1>5. PICK i \in Best : \A k \in Best : i <= k
    <2> HIDE DEF Best
    <2> QED  BY <1>4, LeastElement
  <1>6. ASSUME NEW j \in hits, j # i PROVE Precedes(base, i, j)
    <2>1. base[i].priority = m /\ m <= base[j].priority
      BY <1>3
    <2>2. base[j].priority = m => i <= j
      BY <1>5
    <2>3. i \in Nat /\ j \in Nat /\ base[j].priority \in Nat /\ m \in Nat
      BY <1>1, <1>2, <1>3
    <2> QED  BY <1>6, <2>1, <2>2, <2>3 DEF Precedes
  <1> QED  BY <1>6

\* evaluate_action denies, or takes its effect from the matching rule in front.
LEMMA DecideFirst ==
  ASSUME NEW base \in RuleBases, NEW action, NEW t
  PROVE  LET d == Decide(base, action, t) IN
         \/ d = [effect |-> "deny", rule |-> 0]
         \/ /\ d.rule \in DOMAIN base /\ d.effect = base[d.rule].effect
            /\ RuleMatches(base[d.rule], action, t)
            /\ \A j \in DOMAIN base \ {d.rule} :
                  RuleMatches(base[j], action, t) => Precedes(base, d.rule, j)
  <1> DEFINE hits == {i \in DOMAIN base : RuleMatches(base[i], action, t)}
  <1>1. CASE hits = {}
    BY <1>1 DEF Decide
  <1>2. CASE hits # {}
    <2>1. \E i \in hits : \A j \in hits \ {i} : Precedes(base, i, j)
      BY <1>2, FirstRule
    <2> DEFINE i == CHOOSE i \in hits : \A j \in hits \ {i} : Precedes(base, i, j)
    <2>2. i \in hits /\ \A j \in hits \ {i} : Precedes(base, i, j)
      BY <2>1
    <2>3. Decide(base, action, t) = [effect |-> base[i].effect, rule |-> i]
      BY <1>2 DEF Decide
    <2> HIDE DEF i
    <2> QED  BY <2>2, <2>3
  <1> QED  BY <1>1, <1>2

\* The decision is an effect, of a rule or of none.
LEMMA DecideType ==
  ASSUME NEW base \in RuleBases, NEW action, NEW t
  PROVE  /\ Decide(base, action, t).effect \in Effects
         /\ Decide(base, action, t).rule \in {0} \cup DOMAIN base
  BY DecideFirst, AuthorizationAssumption DEF Effects, Severity

(* Lemmas about _intersect_scopes and _enforce_scope. *)

\* Intersecting two field constraints yields one (routes.py:686-697).
LEMMA MeetType ==
  ASSUME NEW p \in FieldScopes, NEW r \in FieldScopes
  PROVE  Meet(p, r) \in FieldScopes
  <1>1. CASE p.kind = "list" /\ r.kind = "list"
    <2>1. p.items \cap r.items \in SUBSET Strings
      BY DEF FieldScopes, ListField, TextField, OtherField, NoField
    <2>2. ListField(p.items \cap r.items) \in FieldScopes
      BY <2>1 DEF FieldScopes
    <2> QED  BY <1>1, <2>2 DEF Meet
  <1> QED  BY <1>1 DEF Meet

\* What the parts of a scope are.
LEMMA ScopeShape ==
  ASSUME NEW s \in Scopes
  PROVE  /\ s = NoScope \/ s = Dict(s.field) \/ s = List(s.items) \/ s.kind = "text"
         /\ s.items \subseteq Strings
         /\ s.field \in [Fields -> FieldScopes]
         /\ s.kind \in {"none", "dict", "list", "text"}
  BY DEF Scopes, NoScope, Dict, List, Text, Unconstrained, FieldScopes, NoField

\* _intersect_scopes returns a scope.
LEMMA IntersectType ==
  ASSUME NEW p \in Scopes, NEW r \in Scopes
  PROVE  Intersect(p, r) \in Scopes
  <1>1. CASE p.kind = "dict" /\ r.kind = "dict"
    <2>1. [f \in Fields |-> Meet(p.field[f], r.field[f])] \in [Fields -> FieldScopes]
      BY ScopeShape, MeetType
    <2> QED  BY <1>1, <2>1 DEF Intersect, Scopes
  <1>2. CASE p.kind = "list" /\ r.kind = "list"
    BY <1>2, ScopeShape DEF Intersect, Scopes
  <1> QED  BY <1>1, <1>2 DEF Intersect

\* The first scope is a ceiling, whatever the shapes of the two.
LEMMA IntersectCeiling ==
  ASSUME NEW p, NEW r, NEW args, Permits(Intersect(p, r), args)
  PROVE  Permits(p, args)
  <1>1. CASE p.kind = "dict" /\ r.kind = "dict"
    BY <1>1 DEF Intersect, Permits, FieldPermits, Dict, Meet, ListField
  <1>2. CASE p.kind = "list" /\ r.kind = "list"
    BY <1>2 DEF Intersect, Permits, List
  <1> QED  BY <1>1, <1>2 DEF Intersect, Permits

\* An approval only narrows (routes.py:402-409).
LEMMA ReduceCeiling ==
  ASSUME NEW p, NEW r, NEW args, Permits(Reduce(p, r), args)
  PROVE  Permits(p, args)
  BY IntersectCeiling DEF Reduce

\* Scopes of one shape narrow each other, and keep the shape.
LEMMA ListedNarrow ==
  ASSUME NEW p, NEW r, NEW args, Listed(p), Listed(r)
  PROVE  /\ Listed(Intersect(p, r))
         /\ Permits(Intersect(p, r), args) => Permits(p, args) /\ Permits(r, args)
  BY DEF Listed, Intersect, Permits, List

\* The same for dict scopes whose fields are lists.
LEMMA TabledNarrow ==
  ASSUME NEW p, NEW r, NEW args, Tabled(p), Tabled(r)
  PROVE  /\ Tabled(Intersect(p, r))
         /\ Permits(Intersect(p, r), args) => Permits(p, args) /\ Permits(r, args)
  <1>1. CASE p.kind = "dict" /\ r.kind = "dict"
    <2> DEFINE g == [f \in Fields |-> Meet(p.field[f], r.field[f])]
    <2>1. Intersect(p, r) = Dict(g)
      BY <1>1 DEF Intersect
    <2>2. \A f \in Fields : g[f].kind \in {"none", "list"}
      BY <1>1 DEF Tabled, Meet, ListField
    <2>3. \A f \in Fields : \A v : FieldPermits(g[f], v)
             => FieldPermits(p.field[f], v) /\ FieldPermits(r.field[f], v)
      BY <1>1 DEF Tabled, Meet, ListField, FieldPermits
    <2>4. /\ Intersect(p, r).kind = "dict"
          /\ \A f \in Fields : Intersect(p, r).field[f] = g[f]
      BY <2>1 DEF Dict
    <2>5. Tabled(Intersect(p, r))
      BY <2>2, <2>4 DEF Tabled
    <2>6. ASSUME Permits(Intersect(p, r), args)
          PROVE  Permits(p, args) /\ Permits(r, args)
      <3>1. \A f \in Fields : args[f] # Absent => FieldPermits(g[f], args[f])
        BY <2>4, <2>6 DEF Permits
      <3> QED  BY <1>1, <2>3, <3>1 DEF Permits
    <2> QED  BY <2>5, <2>6
  <1> QED  BY <1>1 DEF Tabled, Intersect, Permits

\* Merging the scopes given for a system yields a scope (routes.py:382-397).
LEMMA MergeType ==
  ASSUME NEW given, \A i \in DOMAIN given : given[i] \in Scopes
  PROVE  Merge(given) \in Scopes
  <1>1. CASE DOMAIN given = {}
    BY <1>1 DEF Merge, Scopes
  <1>2. CASE DOMAIN given # {} /\ \E i \in DOMAIN given : DOMAIN given = {i}
    BY <1>2 DEF Merge
  <1>3. CASE DOMAIN given # {} /\ ~ \E i \in DOMAIN given : DOMAIN given = {i}
    <2> DEFINE S == UNION {given[i].items :
                             i \in {j \in DOMAIN given : given[j].kind = "text"}}
    <2>1. S \subseteq Strings
      BY ScopeShape
    <2>2. Merge(given) = List(S)
      BY <1>3 DEF Merge
    <2> QED  BY <2>1, <2>2 DEF Scopes
  <1> QED  BY <1>1, <1>2, <1>3

\* No scope is a scope.
LEMMA NoScopeType == NoScope \in Scopes
  BY DEF Scopes
----------------------------------------------------------------------------
(* A lemma about evaluate: one denied or quarantined action is enough.      *)

\* A denied or quarantined action denies or quarantines the whole task
\* (engine.py:136-140).
LEMMA CompositeStrict ==
  ASSUME NEW d, NEW i \in DOMAIN d, d[i].effect \in {"deny", "quarantine"},
         \A j \in DOMAIN d : d[j].effect \in Effects, d # <<>>
  PROVE  Composite(d) \in {"deny", "quarantine"}
  <1> DEFINE effects == {d[j].effect : j \in DOMAIN d}
             Top(e) == e \in effects /\ \A f \in effects : Severity[f] <= Severity[e]
  <1>1. effects \subseteq Effects /\ d[i].effect \in effects
    OBVIOUS
  <1>2. /\ Severity["deny"] = 5 /\ Severity["quarantine"] = 4
        /\ \A e \in Effects : /\ Severity[e] \in Nat
                              /\ e # "deny" => Severity[e] <= 4
                              /\ e \notin {"deny", "quarantine"} => Severity[e] <= 3
                              /\ Severity[e] <= 5
    BY DEF Effects, Severity
  <1>3. \E e \in effects : Top(e)
    <2>1. CASE "deny" \in effects
      BY <1>1, <1>2, <2>1
    <2>2. CASE "deny" \notin effects
      BY <1>1, <1>2, <2>2
    <2> QED  BY <2>1, <2>2
  <1>4. \A e \in effects : Top(e) => e \in {"deny", "quarantine"}
    BY <1>1, <1>2
  <1>5. Composite(d) = CHOOSE e \in effects : \A f \in effects : Severity[f] <= Severity[e]
    BY DEF Composite
  <1> QED  BY <1>3, <1>4, <1>5
\* Conversely an allowed task has allowed actions only (engine.py:136-140).
LEMMA CompositeAllowed ==
  ASSUME NEW d, Composite(d) \in {"allow", "allow_reduced"},
         \A j \in DOMAIN d : d[j].effect \in Effects
  PROVE  \A i \in DOMAIN d : d[i].effect \in {"allow", "allow_reduced"}
  <1> DEFINE effects == {d[j].effect : j \in DOMAIN d}
             Top(e) == e \in effects /\ \A f \in effects : Severity[f] <= Severity[e]
  <1>1. effects \subseteq Effects
    OBVIOUS
  <1>2. /\ Severity["allow"] = 0 /\ Severity["allow_reduced"] = 1
        /\ Severity["require_simulation"] = 2 /\ Severity["require_approval"] = 3
        /\ Severity["quarantine"] = 4 /\ Severity["deny"] = 5
        /\ Effects = {"allow", "allow_reduced", "require_simulation",
                      "require_approval", "quarantine", "deny"}
    BY DEF Effects, Severity
  <1>3. SUFFICES ASSUME NEW i \in DOMAIN d, d[i].effect \notin {"allow", "allow_reduced"}
                 PROVE  FALSE
    OBVIOUS
  <1>4. Composite(d) = CHOOSE e \in effects : \A f \in effects : Severity[f] <= Severity[e]
    BY DEF Composite
  <1>5. \E e \in effects : Top(e)
    <2>1. CASE "deny" \in effects
      BY <1>1, <1>2, <2>1
    <2>2. CASE "deny" \notin effects /\ "quarantine" \in effects
      BY <1>1, <1>2, <2>2
    <2>3. CASE "deny" \notin effects /\ "quarantine" \notin effects
               /\ "require_approval" \in effects
      BY <1>1, <1>2, <2>3
    <2>4. CASE "deny" \notin effects /\ "quarantine" \notin effects
               /\ "require_approval" \notin effects
      <3>1. "require_simulation" \in effects
        BY <1>1, <1>2, <1>3, <2>4
      <3> QED  BY <1>1, <1>2, <2>4, <3>1
    <2> QED  BY <2>1, <2>2, <2>3, <2>4
  <1>6. Top(Composite(d))
    BY <1>4, <1>5
  <1>7. Severity[d[i].effect] <= Severity[Composite(d)] /\ d[i].effect \in Effects
    BY <1>3, <1>6
  <1> QED  BY <1>2, <1>3, <1>7
----------------------------------------------------------------------------
(* The inductive invariant.  Once a task has been evaluated there is one    *)
(* decision per action, the one evaluate_action takes; a task that goes on  *)
(* has no denied action, and unless an operator agreed or is asked has      *)
(* allowed ones only; what was minted is the effective scope, which nothing *)
(* changes any more; what was called it permits.                            *)
Decided ==
    /\ status \notin {"created", "pending_policy"} =>
          DOMAIN decisions = DOMAIN task.actions
    /\ \A i \in DOMAIN decisions : decisions[i] = Decide(rules, task.actions[i], task)
Clean ==
    status \in {"pending_approval", "approved", "executing"} =>
        \A i \in DOMAIN decisions :
            /\ decisions[i].effect \notin {"deny", "quarantine"}
            /\ status # "pending_approval" /\ ~agreed
                  => decisions[i].effect \in {"allow", "allow_reduced"}
Minted ==
    status = "executing" => caps = [s \in SystemsOf(task) |-> EffectiveScope(s)]
CallsPermitted ==
    /\ called # {} => status = "executing"
    /\ \A c \in called : /\ c.action \in DOMAIN task.actions
                          /\ Permits(EffectiveScope(SystemOf(c)), c.args)
Inv == TypeOK /\ Decided /\ Clean /\ Minted /\ CallsPermitted

\* The invariant holds of a task just created.
LEMMA InvInit == Init => Inv
  <1>1. ASSUME Init PROVE TypeOK /\ Decided
    <2>1. DOMAIN decisions = {} /\ DOMAIN caps = {}
      BY <1>1 DEF Init
    <2>2. reduction \in [SystemsOf(task) -> Scopes]
      BY <1>1, NoScopeType DEF Init
    <2>3. /\ status = "created" /\ task \in Tasks /\ rules \in RuleBases
          /\ tier \in Tiers
      BY <1>1 DEF Init, Tiers
    <2>4. agreed \in BOOLEAN
      BY <1>1, Zenon DEF Init
    <2> QED  BY <2>1, <2>2, <2>3, <2>4 DEF TypeOK, Decided
  <1>2. Init => Clean /\ Minted /\ CallsPermitted
    BY DEF Init, Clean, Minted, CallsPermitted
  <1> QED  BY <1>1, <1>2 DEF Inv

\* The scope of the rule that decided an action is a scope.
LEMMA RuleScopeType ==
  ASSUME Inv, NEW i \in DOMAIN decisions
  PROVE  RuleScope(i) \in Scopes
  BY AuthorizationAssumption, NoScopeType, DecideType DEF Inv, TypeOK, Decided, RuleScope

\* The scope of a minted capability is a scope (routes.py:378-411).
LEMMA EffectiveType ==
  ASSUME Inv, status = "approved", NEW system \in SystemsOf(task)
  PROVE  EffectiveScope(system) \in Scopes
  <1>1. Of(system) \subseteq DOMAIN decisions
    BY DEF Inv, Decided, Of
  <1>2. PolicyScope(system) \in Scopes
    <2> DEFINE hits == {i \in Of(system) : Structured(RuleScope(i))}
    <2>1. CASE hits = {}
      BY <2>1, NoScopeType DEF PolicyScope
    <2>2. CASE hits # {}
      <3>1. hits \in SUBSET Nat
        BY <1>1, AuthorizationAssumption DEF Inv, TypeOK, Of
      <3>2. \E i \in hits : \A j \in hits : i <= j
        BY <2>2, <3>1, LeastElement
      <3>3. PICK i \in hits : PolicyScope(system) = RuleScope(i)
        BY <2>2, <3>2 DEF PolicyScope
      <3> QED  BY <1>1, <3>3, RuleScopeType
    <2> QED  BY <2>1, <2>2
  <1>3. RequesterScope(system) \in Scopes
    <2> DEFINE given == [i \in {j \in Of(system) : task.actions[j].scope.kind # "none"} |->
                            task.actions[i].scope]
    <2>1. \A i \in DOMAIN given : given[i] \in Scopes
      BY AuthorizationAssumption DEF Inv, TypeOK, Of
    <2> QED  BY <2>1, MergeType DEF RequesterScope
  <1>4. reduction[system] \in Scopes
    BY DEF Inv, TypeOK
  <1> QED  BY <1>2, <1>3, <1>4, IntersectType DEF EffectiveScope, Reduce

\* classify_risk returns a tier (risk.py:41-70).
LEMMA TierType == ASSUME NEW t \in Tasks PROVE TaskTier(t) \in Tiers
  <1> DEFINE tiers == {0} \cup {ActionTier(t.actions[i], t.destructive) :
                                 i \in DOMAIN t.actions}
  <1>1. \A i \in DOMAIN t.actions : ActionTier(t.actions[i], t.destructive) \in Tiers
    BY AuthorizationAssumption DEF ActionTier, Classes, Tiers
  <1>2. tiers \subseteq {0, 1, 2, 3, 4} /\ 0 \in tiers
    BY <1>1 DEF Tiers
  <1>3. \E m \in tiers : \A u \in tiers : u <= m
    <2>1. CASE 4 \in tiers
      BY <1>2, <2>1
    <2>2. CASE 4 \notin tiers /\ 3 \in tiers
      BY <1>2, <2>2
    <2>3. CASE 4 \notin tiers /\ 3 \notin tiers /\ 2 \in tiers
      BY <1>2, <2>3
    <2>4. CASE 4 \notin tiers /\ 3 \notin tiers /\ 2 \notin tiers
      BY <1>2, <2>4
    <2> QED  BY <2>1, <2>2, <2>3, <2>4
  <1>4. TaskTier(t) \in tiers
    BY <1>3 DEF TaskTier
  <1> QED  BY <1>2, <1>4 DEF Tiers

\* The effective scope depends on nothing that a mint or a call changes.
LEMMA EffectiveStable ==
  ASSUME UNCHANGED <<task, rules, decisions, reduction>>
  PROVE  \A s : EffectiveScope(s)' = EffectiveScope(s)
  BY DEF EffectiveScope, PolicyScope, RequesterScope, RuleScope, Of

\* Every handler keeps the invariant.
LEMMA InvStep == Inv /\ [Next]_vars => Inv'
  <1> SUFFICES ASSUME Inv, [Next]_vars PROVE Inv'
    OBVIOUS
  <1>1. CASE Classify
    BY <1>1, TierType
       DEF Classify, Inv, TypeOK, Decided, Clean, Minted, CallsPermitted
  <1>2. CASE Evaluate
    <2>1. /\ DOMAIN decisions' = DOMAIN task.actions
          /\ \A i \in DOMAIN decisions' :
                /\ decisions'[i].effect \in Effects
                /\ decisions'[i] = Decide(rules, task.actions[i], task)
      BY <1>2, DecideType DEF Evaluate, Inv, TypeOK
    <2>2. status' \in {"approved", "pending_approval", "denied"}
      BY <1>2 DEF Evaluate
    <2>3. ASSUME status' # "denied", NEW i \in DOMAIN decisions'
          PROVE  /\ decisions'[i].effect \notin {"deny", "quarantine"}
                 /\ status' = "approved" =>
                      decisions'[i].effect \in {"allow", "allow_reduced"}
      <3>1. Composite(decisions') \in {"allow", "allow_reduced", "require_approval"}
        BY <1>2, <2>3 DEF Evaluate
      <3>2. decisions' # <<>>
        BY <2>3
      <3>3. decisions'[i].effect \notin {"deny", "quarantine"}
        BY <2>1, <2>3, <3>1, <3>2, CompositeStrict
      <3>4. ASSUME status' = "approved"
            PROVE  decisions'[i].effect \in {"allow", "allow_reduced"}
        <4>1. Composite(decisions') \in {"allow", "allow_reduced"}
          BY <1>2, <3>4 DEF Evaluate
        <4> QED  BY <2>1, <2>3, <4>1, CompositeAllowed
      <3> QED  BY <3>3, <3>4
    <2>4. TypeOK' /\ Decided'
      BY <1>2, <2>1, <2>2 DEF Evaluate, Inv, TypeOK, Decided
    <2>5. Clean'
      BY <2>2, <2>3 DEF Clean
    <2>6. Minted' /\ CallsPermitted'
      BY <1>2, <2>2 DEF Evaluate, Inv, Minted, CallsPermitted
    <2> QED  BY <2>4, <2>5, <2>6 DEF Inv
  <1>3. CASE Approve
    BY <1>3, AuthorizationAssumption
       DEF Approve, Inv, TypeOK, Decided, Clean, Minted, CallsPermitted
  <1>4. CASE Mint
    <2>1. TypeOK'
      BY <1>4, EffectiveType DEF Mint, Inv, TypeOK
    <2>2. \A s : EffectiveScope(s)' = EffectiveScope(s)
      BY <1>4, EffectiveStable DEF Mint
    <2>3. Minted'
      BY <1>4, <2>2 DEF Mint, Minted, SystemsOf
    <2>4. Decided' /\ Clean' /\ CallsPermitted'
      BY <1>4 DEF Mint, Inv, Decided, Clean, CallsPermitted
    <2> QED  BY <2>1, <2>3, <2>4 DEF Inv
  <1>5. CASE Execute
    <2>1. \A s : EffectiveScope(s)' = EffectiveScope(s)
      BY <1>5, EffectiveStable DEF Execute
    <2>2. TypeOK' /\ Decided' /\ Clean'
      BY <1>5 DEF Execute, Inv, TypeOK, Decided, Clean
    <2>3. Minted'
      BY <1>5, <2>1 DEF Execute, Inv, Minted
    <2>4. CallsPermitted'
      <3>1. PICK i \in DOMAIN task.actions, args \in Arguments :
               /\ Permits(caps[task.actions[i].system], args)
               /\ called' = {[action |-> i, args |-> args]}
        BY <1>5 DEF Execute
      <3>2. caps[task.actions[i].system] = EffectiveScope(task.actions[i].system)
        BY <1>5 DEF Execute, Inv, Minted, SystemsOf
      <3>3. task' = task /\ status' = "executing"
        BY <1>5 DEF Execute
      <3>4. ASSUME NEW c \in called'
            PROVE  /\ c.action \in DOMAIN task.actions
                   /\ Permits(EffectiveScope(task.actions[c.action].system), c.args)
        <4>1. c.action = i /\ c.args = args
          BY <3>1, <3>4
        <4> QED  BY <3>1, <3>2, <4>1
      <3> QED  BY <2>1, <3>3, <3>4 DEF CallsPermitted, SystemOf
    <2> QED  BY <2>2, <2>3, <2>4 DEF Inv
  <1>6. CASE UNCHANGED vars
    <2>1. \A s : EffectiveScope(s)' = EffectiveScope(s)
      BY <1>6, EffectiveStable DEF vars
    <2> QED  BY <1>6, <2>1 DEF vars, Inv, TypeOK, Decided, Clean, Minted,
                               CallsPermitted, SystemsOf, SystemOf
  <1> QED  BY <1>1, <1>2, <1>3, <1>4, <1>5, <1>6 DEF Next

\* What was decided, approved and minted stays consistent: an executing task
\* has a clean decision, effective scopes, and calls within them.
THEOREM Invariant == Spec => []Inv
  BY InvInit, InvStep, PTL DEF Spec

\* Every variable keeps its type; in particular intersecting, merging and
\* reducing scopes always yields a scope.
THEOREM TypeCorrect == Spec => []TypeOK
  <1>1. Inv => TypeOK
    BY DEF Inv
  <1> QED  BY <1>1, Invariant, PTL

\* An action that is called was allowed by the rule in front of all others that
\* match it, or an operator agreed to the task and that rule neither denies nor
\* quarantines it (engine.py:62, 89-140, routes.py:238-315).
THEOREM AgreedSafe == Spec => []OnlyAgreedActionsRun
  <1>1. Inv => OnlyAgreedActionsRun
    <2> SUFFICES ASSUME Inv, NEW c \in called
                 PROVE  \E i \in DOMAIN rules :
                          /\ Hits(i, c.action)
                          /\ \A j \in DOMAIN rules : Hits(j, c.action) =>
                                /\ rules[i].priority <= rules[j].priority
                                /\ rules[i].priority = rules[j].priority => i <= j
                          /\ \/ rules[i].effect \in {"allow", "allow_reduced"}
                             \/ agreed /\ rules[i].effect \notin {"deny", "quarantine"}
      BY DEF OnlyAgreedActionsRun
    <2> DEFINE d == Decide(rules, task.actions[c.action], task)
    <2>1. status = "executing" /\ c.action \in DOMAIN decisions
      BY DEF Inv, Decided, CallsPermitted
    <2>2. /\ d.effect \notin {"deny", "quarantine"}
          /\ agreed \/ d.effect \in {"allow", "allow_reduced"}
      BY <2>1 DEF Inv, Decided, Clean
    <2>3. /\ d.rule \in DOMAIN rules /\ d.effect = rules[d.rule].effect
          /\ Hits(d.rule, c.action)
          /\ \A j \in DOMAIN rules \ {d.rule} :
                Hits(j, c.action) => Precedes(rules, d.rule, j)
      BY <2>2, DecideFirst DEF Inv, TypeOK, Hits
    <2>4. \A j \in DOMAIN rules : j \in Nat /\ rules[j].priority \in Nat
      BY AuthorizationAssumption DEF Inv, TypeOK
    <2> HIDE DEF d
    <2>5. \A j \in DOMAIN rules : Hits(j, c.action) =>
              /\ rules[d.rule].priority <= rules[j].priority
              /\ rules[d.rule].priority = rules[j].priority => d.rule <= j
      BY <2>3, <2>4 DEF Precedes
    <2> QED  BY <2>2, <2>3, <2>5
  <1> QED  BY <1>1, Invariant, PTL

\* Every call is within its system's policy scope (routes.py:399-409).
THEOREM CeilingSafe == Spec => []PolicyCeiling
  <1>1. Inv => PolicyCeiling
    BY IntersectCeiling, ReduceCeiling
       DEF Inv, CallsPermitted, PolicyCeiling, EffectiveScope
  <1> QED  BY <1>1, Invariant, PTL

\* Where policy, requester and approver use scopes of one shape, a call is
\* within all of them at once (routes.py:654-705).
THEOREM NarrowSafe == Spec => []LikeScopesNarrow
  <1>1. Inv => LikeScopesNarrow
    <2> SUFFICES ASSUME Inv, NEW c \in called, NEW s, s = SystemOf(c), Comparable(s)
                 PROVE  /\ Permits(PolicyScope(s), c.args)
                        /\ Permits(RequesterScope(s), c.args)
                        /\ Falsy(reduction[s]) \/ Permits(reduction[s], c.args)
      BY DEF LikeScopesNarrow
    <2>1. Permits(Reduce(Intersect(PolicyScope(s), RequesterScope(s)), reduction[s]), c.args)
      BY DEF Inv, CallsPermitted, EffectiveScope
    <2>2. CASE /\ Listed(PolicyScope(s)) /\ Listed(RequesterScope(s))
               /\ Listed(reduction[s])
      BY <2>1, <2>2, ListedNarrow DEF Reduce
    <2>3. CASE /\ Tabled(PolicyScope(s)) /\ Tabled(RequesterScope(s))
               /\ Tabled(reduction[s])
      BY <2>1, <2>3, TabledNarrow DEF Reduce
    <2> QED  BY <2>2, <2>3 DEF Comparable
  <1> QED  BY <1>1, Invariant, PTL
=============================================================================
