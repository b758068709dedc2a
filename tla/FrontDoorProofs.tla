-------------------------- MODULE FrontDoorProofs --------------------------
(* Proofs about the rate limiter and what lies behind it.                   *)
EXTENDS FrontDoor, FiniteSetTheorems, TLAPS

USE LimiterAssumption, DoorAssumption

(* What a step does to the limiter, whatever the application does.          *)
LEMMA LimiterSteps ==
    Next => \/ \E p \in Requests, h \in Hosts : Pass(p, h) \/ TurnAway(p, h)
            \/ Tick \/ Forget \/ UNCHANGED limiterVars
BY DEF Next, Arrive, Serve, Reply, Create, ClassifyTask, EvaluatePolicy,
       ApproveTask, CloseTask, Mint, Submit, Validate, Call, Handle, Answer, Restart

(* The limiter's variables keep their types in every step.                  *)
LEMMA LimiterTyped == LimiterTypeOK /\ [Next]_vars => LimiterTypeOK'
<1> SUFFICES ASSUME LimiterTypeOK, [Next]_vars PROVE LimiterTypeOK'
  OBVIOUS
<1> USE DEF LimiterTypeOK
<1>1. ASSUME NEW p \in Requests, NEW h \in Hosts, Pass(p, h) PROVE LimiterTypeOK'
  BY <1>1 DEF Pass, Arrives, Recent
<1>2. ASSUME NEW p \in Requests, NEW h \in Hosts, TurnAway(p, h) PROVE LimiterTypeOK'
  BY <1>2 DEF TurnAway, Arrives, Recent
<1>3. CASE Tick
  BY <1>3 DEF Tick
<1>4. CASE Forget
  BY <1>4 DEF Forget
<1>5. CASE UNCHANGED limiterVars
  BY <1>5 DEF limiterVars
<1> QED
  BY <1>1, <1>2, <1>3, <1>4, <1>5, LimiterSteps DEF vars

(* Every request that may still count is an entry, and entries are few.     *)
KeptInv ==
    /\ \A h \in Hosts : Cardinality(kept[h]) <= Limit
    /\ \A p \in passed : /\ host[p] \in Hosts
                         /\ at[p] <= now
                         /\ at[p] + Window > now => p \in kept[host[p]]

LEMMA LimitNat == Limit \in Nat
BY LimiterAssumption DEF Limit, LimiterAssumption

(* One more entry fits whenever a request is let through.                   *)
LEMMA OneMoreFits ==
  ASSUME LimiterTypeOK, NEW p \in Requests, NEW h \in Hosts, Pass(p, h)
  PROVE  /\ IsFiniteSet(Recent(h) \cup {p})
         /\ Cardinality(Recent(h) \cup {p}) <= Limit
<1>1. IsFiniteSet(Recent(h))
  BY FS_Subset, LimiterAssumption DEF LimiterTypeOK, Recent, LimiterAssumption
<1>2. Cardinality(Recent(h)) \in Nat
  BY <1>1, FS_CardinalityType
<1>3. Cardinality(Recent(h)) < Limit
  BY DEF Pass
<1>4. /\ IsFiniteSet(Recent(h) \cup {p})
      /\ Cardinality(Recent(h) \cup {p}) <= Cardinality(Recent(h)) + 1
  <2>1. /\ IsFiniteSet(Recent(h) \cup {p})
        /\ Cardinality(Recent(h) \cup {p}) =
             IF p \in Recent(h) THEN Cardinality(Recent(h)) ELSE Cardinality(Recent(h)) + 1
    BY <1>1, FS_AddElement, Zenon
  <2> HIDE DEF Recent
  <2> DEFINE n == Cardinality(Recent(h))
  <2>2. n \in Nat
    BY <1>2
  <2>3. \A m : m = (IF p \in Recent(h) THEN n ELSE n + 1) => m <= n + 1
    <3> HIDE DEF n
    <3> QED
      BY <2>2
  <2> QED
    BY <2>1, <2>3
<1>5. Cardinality(Recent(h) \cup {p}) \in Nat
  BY <1>4, FS_CardinalityType
<1> QED
  BY <1>2, <1>3, <1>4, <1>5, LimitNat

LEMMA KeptKept ==
    LimiterTypeOK /\ LimiterTypeOK' /\ KeptInv /\ [Next]_vars => KeptInv'
<1> SUFFICES ASSUME LimiterTypeOK, LimiterTypeOK', KeptInv, [Next]_vars PROVE KeptInv'
  OBVIOUS
<1>0. \A h \in Hosts : /\ IsFiniteSet(kept[h]) /\ IsFiniteSet(Recent(h))
                       /\ Recent(h) \subseteq kept[h]
                       /\ Cardinality(Recent(h)) \in Nat
                       /\ Cardinality(Recent(h)) <= Limit
  <2> SUFFICES ASSUME NEW h \in Hosts
               PROVE  /\ IsFiniteSet(kept[h]) /\ IsFiniteSet(Recent(h))
                      /\ Recent(h) \subseteq kept[h]
                      /\ Cardinality(Recent(h)) \in Nat
                      /\ Cardinality(Recent(h)) <= Limit
    OBVIOUS
  <2>1. IsFiniteSet(kept[h])
    BY FS_Subset DEF LimiterTypeOK
  <2>2. Recent(h) \subseteq kept[h]
    BY DEF Recent
  <2>3. /\ IsFiniteSet(Recent(h))
        /\ Cardinality(Recent(h)) <= Cardinality(kept[h])
    BY <2>1, <2>2, FS_Subset
  <2>4. Cardinality(Recent(h)) \in Nat /\ Cardinality(kept[h]) \in Nat
    BY <2>1, <2>3, FS_CardinalityType
  <2> QED
    BY <2>1, <2>2, <2>3, <2>4 DEF KeptInv, Limit
<1>1. ASSUME NEW p \in Requests, NEW h \in Hosts, Pass(p, h) PROVE KeptInv'
  <2> USE <1>1 DEF Pass, Arrives
  <2>1. Cardinality(Recent(h) \cup {p}) <= Limit
    BY OneMoreFits
  <2>2. \A g \in Hosts : Cardinality(kept'[g]) <= Limit
    BY <2>1 DEF KeptInv, LimiterTypeOK
  <2>3. ASSUME NEW q \in passed'
        PROVE  /\ host'[q] \in Hosts
               /\ at'[q] <= now'
               /\ at'[q] + Window > now' => q \in kept'[host'[q]]
    <3>1. CASE q = p
      BY <3>1 DEF LimiterTypeOK
    <3>2. CASE q # p
      BY <2>3, <3>2 DEF KeptInv, LimiterTypeOK, Recent
    <3> QED
      BY <3>1, <3>2
  <2> QED
    BY <2>2, <2>3 DEF KeptInv, Limit
<1>2. ASSUME NEW p \in Requests, NEW h \in Hosts, TurnAway(p, h) PROVE KeptInv'
  <2> USE <1>2 DEF TurnAway, Arrives
  <2>1. \A g \in Hosts : Cardinality(kept'[g]) <= Limit
    BY <1>0 DEF KeptInv, LimiterTypeOK
  <2>2. \A q \in passed : q # p
    BY DEF KeptInv
  <2> QED
    BY <2>1, <2>2 DEF KeptInv, LimiterTypeOK, Recent, Limit
<1>3. CASE Tick
  BY <1>3 DEF Tick, KeptInv, LimiterTypeOK, Limit
<1>4. CASE Forget
  BY <1>4, FS_EmptySet DEF Forget, KeptInv, Limit
<1>5. CASE UNCHANGED limiterVars
  BY <1>5 DEF limiterVars, KeptInv, Limit
<1> QED
  BY <1>1, <1>2, <1>3, <1>4, <1>5, LimiterSteps DEF vars

(* A window that the entry of a new request falls in holds what is kept.    *)
LEMMA WindowKept ==
    LimiterTypeOK /\ KeptInv /\ WindowRespected /\ [Next]_vars => WindowRespected'
<1> SUFFICES ASSUME LimiterTypeOK, KeptInv, WindowRespected, [Next]_vars,
                    NEW g \in Hosts, NEW t \in 0..MaxClock
             PROVE  Cardinality(PassedWithin(g, t)') <= Limit
  BY DEF WindowRespected, Limit
<1>0. Cardinality(PassedWithin(g, t)) <= Limit
  BY DEF WindowRespected
<1>1. ASSUME NEW p \in Requests, NEW h \in Hosts, Pass(p, h)
      PROVE  Cardinality(PassedWithin(g, t)') <= Limit
  <2> USE <1>1 DEF Pass, Arrives
  <2>0. p \notin passed
    BY DEF KeptInv
  <2>1. CASE g = h /\ now <= t
    <3>1. PassedWithin(g, t)' \subseteq Recent(h) \cup {p}
      <4> SUFFICES ASSUME NEW q \in PassedWithin(g, t)', q # p PROVE q \in Recent(h)
        OBVIOUS
      <4>1. q \in passed /\ host[q] = h /\ at[q] <= t /\ t < at[q] + Window
        BY <2>1 DEF PassedWithin, LimiterTypeOK
      <4>2. at[q] \in Nat /\ now \in Nat /\ t \in Nat
        BY <4>1 DEF LimiterTypeOK
      <4>3. at[q] + Window > now
        BY <2>1, <4>1, <4>2
      <4> QED
        BY <4>1, <4>3 DEF KeptInv, Recent
    <3>3. /\ IsFiniteSet(Recent(h) \cup {p})
          /\ Cardinality(Recent(h) \cup {p}) <= Limit
      BY OneMoreFits
    <3>4. /\ Cardinality(PassedWithin(g, t)') <= Cardinality(Recent(h) \cup {p})
          /\ IsFiniteSet(PassedWithin(g, t)')
      BY <3>1, <3>3, FS_Subset
    <3> QED
      BY <3>3, <3>4, FS_CardinalityType DEF Limit
  <2>2. CASE g # h \/ ~(now <= t)
    <3>1. PassedWithin(g, t)' = PassedWithin(g, t)
      BY <2>0, <2>2 DEF PassedWithin, LimiterTypeOK
    <3> QED
      BY <1>0, <3>1
  <2> QED
    BY <2>1, <2>2
<1>2. ASSUME NEW p \in Requests, NEW h \in Hosts, TurnAway(p, h)
      PROVE  Cardinality(PassedWithin(g, t)') <= Limit
  <2>1. p \notin passed
    BY <1>2 DEF KeptInv, TurnAway, Arrives
  <2>2. PassedWithin(g, t)' = PassedWithin(g, t)
    BY <1>2, <2>1 DEF PassedWithin, LimiterTypeOK, TurnAway, Arrives
  <2> QED
    BY <1>0, <2>2
<1>3. CASE Tick
  BY <1>0, <1>3 DEF Tick, PassedWithin
<1>4. CASE Forget
  <2>1. PassedWithin(g, t)' = {}
    BY <1>4 DEF Forget, PassedWithin
  <2> QED
    BY <2>1, FS_EmptySet DEF Limit
<1>5. CASE UNCHANGED limiterVars
  BY <1>0, <1>5 DEF limiterVars, PassedWithin
<1> QED
  BY <1>1, <1>2, <1>3, <1>4, <1>5, LimiterSteps DEF vars

(* middleware.py:38-71: for every limit, window and schedule of arrivals,   *)
(* no window holds more than rpm + burst requests of a host.                *)
THEOREM WindowSafe == Spec => []WindowRespected
<1>1. Init => LimiterTypeOK /\ KeptInv /\ WindowRespected
  <2> SUFFICES ASSUME Init PROVE LimiterTypeOK /\ KeptInv /\ WindowRespected
    OBVIOUS
  <2>1. LimiterTypeOK
    BY DEF Init, LimiterInit, LimiterTypeOK
  <2>2. KeptInv
    BY FS_EmptySet DEF Init, LimiterInit, KeptInv, Limit
  <2>3. \A h \in Hosts, t \in 0..MaxClock : PassedWithin(h, t) = {}
    BY DEF Init, LimiterInit, PassedWithin
  <2>4. WindowRespected
    BY <2>3, FS_EmptySet DEF WindowRespected, Limit
  <2> QED
    BY <2>1, <2>2, <2>4
<1>2. LimiterTypeOK /\ KeptInv /\ WindowRespected /\ [Next]_vars
        => (LimiterTypeOK /\ KeptInv /\ WindowRespected)'
  BY LimiterTyped, KeptKept, WindowKept
<1> QED
  BY <1>1, <1>2, PTL DEF Spec
(* An entry is of a request that was let through, by its host and not later *)
(* than now; who was turned away came to now, from a host.                  *)
EntryInv ==
    /\ \A h \in Hosts : \A q \in kept[h] : q \in passed /\ host[q] = h /\ at[q] <= now
    /\ \A q \in passed \cup limited : host[q] \in Hosts /\ at[q] <= now

LEMMA EntryKept == LimiterTypeOK /\ EntryInv /\ [Next]_vars => EntryInv'
<1> SUFFICES ASSUME LimiterTypeOK, EntryInv, [Next]_vars PROVE EntryInv'
  OBVIOUS
<1> USE DEF LimiterTypeOK, EntryInv
<1>1. ASSUME NEW p \in Requests, NEW h \in Hosts, Pass(p, h) PROVE EntryInv'
  BY <1>1 DEF Pass, Arrives, Recent
<1>2. ASSUME NEW p \in Requests, NEW h \in Hosts, TurnAway(p, h) PROVE EntryInv'
  BY <1>2 DEF TurnAway, Arrives, Recent
<1>3. CASE Tick
  BY <1>3 DEF Tick
<1>4. CASE Forget
  BY <1>4 DEF Forget
<1>5. CASE UNCHANGED limiterVars
  BY <1>5 DEF limiterVars
<1> QED
  BY <1>1, <1>2, <1>3, <1>4, <1>5, LimiterSteps DEF vars

(* Its entries are among the requests of the window that ends now, and in   *)
(* the window of a request that was turned away nothing gets less.          *)
LEMMA FullKept ==
    LimiterTypeOK /\ EntryInv /\ LimitedOnlyWhenFull /\ [Next]_vars => LimitedOnlyWhenFull'
<1> SUFFICES ASSUME LimiterTypeOK, EntryInv, LimitedOnlyWhenFull, [Next]_vars,
                    NEW r \in limited'
             PROVE  Cardinality(PassedWithin(host[r], at[r])') >= Limit
  BY DEF LimitedOnlyWhenFull, Limit
<1>0. ASSUME NEW S, NEW U, S \subseteq U, U \subseteq Requests, Cardinality(S) >= Limit
      PROVE  Cardinality(U) >= Limit
  <2>1. IsFiniteSet(U) /\ IsFiniteSet(S) /\ Cardinality(S) <= Cardinality(U)
    BY <1>0, FS_Subset DEF LimiterAssumption
  <2>2. Cardinality(S) \in Nat /\ Cardinality(U) \in Nat
    BY <2>1, FS_CardinalityType
  <2> QED
    BY <1>0, <2>1, <2>2, LimitNat
<1>1. ASSUME r \in limited, host'[r] = host[r], at'[r] = at[r], passed \subseteq passed',
             \A q \in passed : host'[q] = host[q] /\ at'[q] = at[q], passed' \subseteq Requests
      PROVE  Cardinality(PassedWithin(host[r], at[r])') >= Limit
  <2>1. PassedWithin(host[r], at[r]) \subseteq PassedWithin(host[r], at[r])'
    BY <1>1 DEF PassedWithin
  <2>2. PassedWithin(host[r], at[r])' \subseteq Requests
    BY <1>1 DEF PassedWithin
  <2>3. Cardinality(PassedWithin(host[r], at[r])) >= Limit
    BY <1>1 DEF LimitedOnlyWhenFull
  <2> QED
    BY <1>0, <2>1, <2>2, <2>3
<1>2. ASSUME NEW p \in Requests, NEW h \in Hosts, Pass(p, h)
      PROVE  Cardinality(PassedWithin(host[r], at[r])') >= Limit
  BY <1>1, <1>2 DEF Pass, Arrives, EntryInv, LimiterTypeOK
<1>3. ASSUME NEW p \in Requests, NEW h \in Hosts, TurnAway(p, h)
      PROVE  Cardinality(PassedWithin(host[r], at[r])') >= Limit
  <2>1. CASE r = p
    <3>1. host'[r] = h /\ at'[r] = now
      BY <1>3, <2>1 DEF TurnAway, Arrives, LimiterTypeOK
    <3>2. PassedWithin(host[r], at[r])' \subseteq Requests
      BY <1>3 DEF TurnAway, PassedWithin, LimiterTypeOK
    <3>3. Recent(h) \subseteq PassedWithin(host[r], at[r])'
      <4> SUFFICES ASSUME NEW q \in Recent(h) PROVE q \in PassedWithin(host[r], at[r])'
        OBVIOUS
      <4>1. q \in passed /\ host[q] = h /\ at[q] <= now /\ now < at[q] + Window
        BY DEF Recent, EntryInv, LimiterTypeOK
      <4>2. q # p
        BY <1>3, <4>1 DEF TurnAway, Arrives
      <4> QED
        BY <1>3, <3>1, <4>1, <4>2 DEF TurnAway, Arrives, PassedWithin, LimiterTypeOK
    <3> QED
      BY <1>0, <1>3, <3>2, <3>3 DEF TurnAway
  <2>2. CASE r # p
    BY <1>1, <1>3, <2>2 DEF TurnAway, Arrives, EntryInv, LimiterTypeOK
  <2> QED
    BY <2>1, <2>2
<1>4. CASE Tick
  BY <1>1, <1>4 DEF Tick, LimiterTypeOK
<1>5. CASE Forget
  BY <1>5 DEF Forget
<1>6. CASE UNCHANGED limiterVars
  BY <1>1, <1>6 DEF limiterVars, LimiterTypeOK
<1> QED
  BY <1>2, <1>3, <1>4, <1>5, <1>6, LimiterSteps DEF vars

(* middleware.py:52-61: for every limit and window, a client is turned away *)
(* only when its full share was let through in the window that ends then.   *)
THEOREM FairSafe == Spec => []LimitedOnlyWhenFull
<1>1. Init => LimiterTypeOK /\ EntryInv /\ LimitedOnlyWhenFull
  <2> SUFFICES ASSUME Init PROVE LimiterTypeOK /\ EntryInv /\ LimitedOnlyWhenFull
    OBVIOUS
  <2> QED
    BY DEF Init, LimiterInit, LimiterTypeOK, EntryInv, LimitedOnlyWhenFull
<1> QED
  BY <1>1, LimiterTyped, EntryKept, FullKept, PTL DEF Spec
----------------------------------------------------------------------------
(* The part behind the limiter *)

(* Callers come from the configured keys.                                   *)
LEMMA AuthenticatedCaller == Authenticated \subseteq Caller /\ Operators \subseteq Authenticated
BY DEF Authenticated, Operators

DoorTyped == calls \subseteq Calls /\ tasks \in [Tasks -> Rows] /\ event \subseteq Events

(* A step leaves the requests and calls of everybody else alone: a request  *)
(* comes in, is answered, or takes the next step of its call.               *)
LEMMA CallSteps ==
  ASSUME DoorTyped, [Next]_vars
  PROVE  \/ /\ inside \subseteq inside' /\ inside' \subseteq inside \cup passed'
            /\ passed \subseteq passed' /\ calls' = calls
         \/ /\ \E p \in inside : inside' = inside \ {p} /\ calls' = calls \ CallsOf(p)
            /\ UNCHANGED limiterVars
         \/ \E p \in Requests : Submit(p) \/ Validate(p) \/ Call(p)
         \/ inside' = {} /\ calls' = {}
BY DEF Next, Serve, Arrive, Pass, TurnAway, Tick, Reply, Create, ClassifyTask, EvaluatePolicy,
       ApproveTask, CloseTask, Mint, Handle, Answer, Restart, vars, limiterVars

LEMMA CallsTyped == DoorTyped /\ [Next]_vars => calls' \subseteq Calls
<1> SUFFICES ASSUME DoorTyped, [Next]_vars PROVE calls' \subseteq Calls
  OBVIOUS
<1>1. ASSUME NEW p \in Requests, Submit(p) PROVE calls' \subseteq Calls
  BY <1>1, AuthenticatedCaller DEF Submit, Calls, Minted, DoorTyped
<1>2. ASSUME NEW x \in calls, NEW s \in {"lockTask", "adapter"}, Advance(x, s)
      PROVE  calls' \subseteq Calls
  BY <1>2 DEF Advance, Calls, DoorTyped
<1>3. ASSUME NEW p \in Requests, Validate(p) \/ Call(p) PROVE calls' \subseteq Calls
  BY <1>2, <1>3 DEF Validate, Call, CallsOf
<1> QED
  BY <1>1, <1>3, CallSteps DEF DoorTyped

(* A row is written whole when its request is answered by create_task.  In  *)
(* every other step it keeps owner and runtime, a lifetime is only begun,   *)
(* and a row that is not there stays away.                                  *)
SameRow(t) ==
    /\ tasks'[t].owner = tasks[t].owner
    /\ tasks'[t].runtime = tasks[t].runtime
    /\ tasks'[t].expires_at \in {tasks[t].expires_at, now + Ttl}
    /\ tasks[t].status = "absent" => tasks'[t] = tasks[t]

MadeRow(p) ==
    /\ p \in inside /\ inside' = inside \ {p}
    /\ UNCHANGED limiterVars
    /\ event' = {}
    /\ \E c \in Authenticated :
        /\ c.role = "operator" \/ tasks'[p].runtime = c.name
        /\ tasks'[p].owner = c.name
    /\ \A t \in Tasks \ {p} : tasks'[t] = tasks[t]

LEMMA RowSteps ==
  ASSUME LimiterTypeOK, DoorTyped, [Next]_vars
  PROVE  /\ DoorTyped'
         /\ (\A t \in Tasks : SameRow(t)) \/ (\E p \in Requests : MadeRow(p))
<1> USE DEF DoorTyped
<1> DEFINE Same == \A t \in Tasks : SameRow(t)
           Made == \E p \in Requests : MadeRow(p)
<1>1. ASSUME NEW c \in Authenticated, NEW t \in Tasks, NEW s \in Statuses,
             NEW p \in Requests, tasks[t].status # "absent", SetStatus(t, s), Event("move", p, c, t)
      PROVE  DoorTyped' /\ Same
  BY <1>1, CallsTyped, AuthenticatedCaller DEF SetStatus, Event, Events, Rows, SameRow
<1>2. ASSUME NEW p \in Requests, Create(p) PROVE DoorTyped' /\ Made
  <2>1. PICK c \in Authenticated, r \in Names \ {Empty} :
          /\ c.role = "operator" \/ r = c.name
          /\ tasks' = [tasks EXCEPT ![p] = [status |-> "created", owner |-> c.name,
                                            runtime |-> r, expires_at |-> 0]]
    BY <1>2 DEF Create
  <2>2. p \in Tasks /\ c.name \in Names
    BY AuthenticatedCaller DEF Tasks, Caller
  <2>3. event' = {}
    BY <1>2 DEF Create
  <2>4. [status |-> "created", owner |-> c.name, runtime |-> r, expires_at |-> 0] \in Rows
    BY <2>2 DEF Rows, Statuses
  <2>5. DoorTyped'
    BY <2>1, <2>2, <2>3, <2>4, CallsTyped
  <2>6. p \in inside /\ inside' = inside \ {p} /\ UNCHANGED limiterVars
    BY <1>2 DEF Create, Handle, Answer
  <2>7. tasks'[p].owner = c.name /\ tasks'[p].runtime = r
    BY <2>1, <2>2
  <2>8. \A t \in Tasks \ {p} : tasks'[t] = tasks[t]
    BY <2>1
  <2>9. MadeRow(p)
    BY <2>1, <2>3, <2>6, <2>7, <2>8 DEF MadeRow
  <2> QED
    BY <2>5, <2>9
<1>3. ASSUME NEW p \in Requests, ClassifyTask(p) PROVE DoorTyped' /\ Same
  BY <1>1, <1>3 DEF ClassifyTask, Statuses
<1>4. ASSUME NEW p \in Requests, EvaluatePolicy(p) PROVE DoorTyped' /\ Same
  BY <1>1, <1>4 DEF EvaluatePolicy, Statuses
<1>5. ASSUME NEW p \in Requests, ApproveTask(p) PROVE DoorTyped' /\ Same
  BY <1>1, <1>5, AuthenticatedCaller DEF ApproveTask, Statuses
<1>6. ASSUME NEW p \in Requests, CloseTask(p) PROVE DoorTyped' /\ Same
  BY <1>1, <1>6, AuthenticatedCaller DEF CloseTask, Statuses
<1>7. ASSUME NEW p \in Requests, Mint(p) PROVE DoorTyped' /\ Same
  <2>1. PICK c \in Authenticated, t \in Tasks :
          /\ tasks[t].status # "absent"
          /\ tasks' = [tasks EXCEPT ![t].status = "executing", ![t].expires_at = now + Ttl]
          /\ Event("move", p, c, t)
    BY <1>7 DEF Mint
  <2>2. now + Ttl \in Nat
    BY DoorAssumption DEF LimiterTypeOK, DoorAssumption
  <2>3. /\ tasks' = [tasks EXCEPT ![t] = [tasks[t] EXCEPT !.status = "executing",
                                                        !.expires_at = now + Ttl]]
        /\ tasks[t] \in Rows
    BY <2>1
  <2>4. [tasks[t] EXCEPT !.status = "executing", !.expires_at = now + Ttl] \in Rows
    BY <2>2, <2>3 DEF Rows, Statuses
  <2>5. [tasks[t] EXCEPT !.status = "executing", !.expires_at = now + Ttl].owner
          = tasks[t].owner
    BY <2>3 DEF Rows
  <2>6. [tasks[t] EXCEPT !.status = "executing", !.expires_at = now + Ttl].runtime
          = tasks[t].runtime
    BY <2>3 DEF Rows
  <2>8. [tasks[t] EXCEPT !.status = "executing", !.expires_at = now + Ttl].expires_at
          = now + Ttl
    BY <2>3 DEF Rows
  <2>7. event' \subseteq Events
    BY <2>1, AuthenticatedCaller DEF Event, Events
  <2>9. Same
    BY <2>1, <2>3, <2>5, <2>6, <2>8 DEF SameRow
  <2> QED
    BY <2>3, <2>4, <2>7, <2>9, CallsTyped
<1>8. ASSUME NEW p \in Requests, Call(p) PROVE DoorTyped' /\ Same
  BY <1>8, CallsTyped DEF Call, CallsOf, Event, Events, Calls, SameRow
<1>9. ASSUME event' = {} \/ event' = event, UNCHANGED tasks PROVE DoorTyped' /\ Same
  BY <1>9, CallsTyped DEF SameRow
<1> QED
  BY <1>2, <1>3, <1>4, <1>5, <1>6, <1>7, <1>8, <1>9
     DEF Next, Serve, Reply, Arrive, Submit, Validate, Restart, vars

LEMMA DoorInit == Init => LimiterTypeOK /\ DoorTyped
<1> SUFFICES ASSUME Init PROVE LimiterTypeOK /\ DoorTyped
  OBVIOUS
<1>1. LimiterTypeOK
  BY DEF Init, LimiterInit, LimiterTypeOK
<1>2. NoRow \in Rows
  BY DoorAssumption DEF NoRow, Rows, Statuses, DoorAssumption
<1> QED
  BY <1>1, <1>2, DoorAssumption DEF Init, DoorTyped, DoorAssumption

(* Cutting to whole seconds never adds to a lifetime.                       *)
LEMMA ExpCut == ASSUME DoorTyped, NEW t \in Tasks PROVE Exp(t) <= tasks[t].expires_at
<1>1. tasks[t].expires_at \in Nat /\ Second \in Nat \ {0}
  BY DoorAssumption DEF DoorTyped, Rows, DoorAssumption
<1>2. \A n \in Nat, d \in Nat \ {0} : (n \div d) * d <= n
  OBVIOUS
<1>3. Exp(t) \in Int
  BY <1>1 DEF Exp
<1> QED
  BY <1>1, <1>2 DEF Exp

(* What is inside was let through, and an id is new until its request is    *)
(* answered.                                                                *)
FreshIds ==
    /\ inside \subseteq passed
    /\ \A p \in Requests : host[p] = NoHost \/ p \in inside => tasks[p] = NoRow

(* A call under way belongs to a request that is inside, went through the   *)
(* ownership check of the task its capability is of, and came within the    *)
(* lifetime of that capability.                                             *)
Sound(x) ==
    /\ x.by \in Authenticated
    /\ x.cap = x.task /\ Owns(x.by, x.cap)
    /\ at[x.request] < tasks[x.cap].expires_at

CallsSound == \A x \in calls : x.request \in inside /\ Sound(x)

DoorInv == LimiterTypeOK /\ EntryInv /\ DoorTyped /\ FreshIds /\ CallsSound

LEMMA FreshKept ==
  ASSUME LimiterTypeOK, EntryInv, DoorTyped, FreshIds, [Next]_vars
  PROVE  FreshIds'
<1>1. inside' \subseteq passed'
  <2>1. CASE inside' \subseteq inside \cup passed' /\ passed \subseteq passed'
    BY <2>1 DEF FreshIds
  <2>2. CASE (\E p \in inside : inside' = inside \ {p}) /\ UNCHANGED limiterVars
    BY <2>2 DEF FreshIds, limiterVars
  <2>3. CASE \E p \in Requests : Submit(p) \/ Validate(p) \/ Call(p)
    BY <2>3 DEF FreshIds, limiterVars, Submit, Validate, Call
  <2>4. CASE inside' = {}
    BY <2>4
  <2> QED
    BY <2>1, <2>2, <2>3, <2>4, CallSteps
<1>2. ASSUME NEW p \in Requests, host'[p] = NoHost \/ p \in inside'
      PROVE  host[p] = NoHost \/ p \in inside
  BY <1>2, LimiterAssumption
     DEF Next, Serve, Arrive, Pass, TurnAway, Arrives, Tick, Reply, Create, ClassifyTask,
         EvaluatePolicy, ApproveTask, CloseTask, Mint, Submit, Validate, Call, Handle, Answer,
         Restart, Forget, vars, limiterVars, LimiterTypeOK, LimiterAssumption
<1>3. ASSUME NEW p \in Requests, host'[p] = NoHost \/ p \in inside'
      PROVE  tasks'[p] = NoRow
  <2>1. tasks[p] = NoRow /\ p \in Tasks
    BY <1>2, <1>3 DEF FreshIds, Tasks
  <2>2. CASE \A t \in Tasks : SameRow(t)
    BY <2>1, <2>2 DEF SameRow, NoRow
  <2>3. ASSUME NEW q \in Requests, MadeRow(q) PROVE tasks'[p] = NoRow
    <3>1. q \in inside /\ q \notin inside' /\ host' = host
      BY <2>3 DEF MadeRow, limiterVars
    <3>2. host[q] # NoHost
      BY <3>1, LimiterAssumption DEF FreshIds, EntryInv, LimiterAssumption
    <3>3. p # q
      BY <1>3, <3>1, <3>2
    <3> QED
      BY <2>1, <2>3, <3>3 DEF MadeRow
  <2> QED
    BY <2>2, <2>3, RowSteps
<1> QED
  BY <1>1, <1>3 DEF FreshIds

(* Whatever happens to others while it waits, a call under way stays sound. *)
LEMMA SoundKept ==
  ASSUME DoorInv, [Next]_vars, NEW x \in Calls, x.request \in inside, Sound(x),
         at'[x.request] = at[x.request]
  PROVE  Sound(x)'
<1>1. x.cap \in Tasks /\ x.request \in Requests /\ x.by \in Caller
  BY DEF Calls
<1>2. /\ at[x.request] \in Nat /\ at[x.request] <= now /\ now \in Nat
      /\ tasks[x.cap].expires_at \in Nat /\ Ttl \in Nat \ {0}
  BY <1>1, DoorAssumption
     DEF DoorInv, LimiterTypeOK, EntryInv, FreshIds, DoorTyped, Rows, DoorAssumption
<1>3. CASE SameRow(x.cap)
  <2>1. at[x.request] < tasks'[x.cap].expires_at
    BY <1>2, <1>3 DEF SameRow, Sound
  <2> QED
    BY <1>3, <2>1 DEF SameRow, Sound, Owns, Authenticated
<1>4. ASSUME NEW p \in Requests, MadeRow(p) PROVE Sound(x)'
  <2>1. tasks[p].expires_at = 0
    BY <1>4 DEF MadeRow, DoorInv, FreshIds, NoRow
  <2>2. x.cap # p
    BY <1>2, <2>1 DEF Sound
  <2>3. tasks'[x.cap] = tasks[x.cap]
    BY <1>1, <1>4, <2>2 DEF MadeRow
  <2> QED
    BY <2>3 DEF Sound, Owns, Authenticated
<1> QED
  BY <1>1, <1>3, <1>4, RowSteps DEF DoorInv

(* Its claims make a token speak of the task that the request names, and it *)
(* is refused at the end of the lifetime: who submits a call came in time.  *)
LEMMA SubmitSound ==
  ASSUME DoorInv, NEW p \in Requests, Submit(p)
  PROVE  \A x \in calls' : x \in calls \/ (x.request = p /\ Sound(x))
<1>1. PICK c \in Authenticated, t \in Tasks, cap \in Minted, token \in Minted :
        /\ Owns(c, t) /\ TokenValid(token) /\ Bound(t, cap, token)
        /\ calls' = calls \cup {[request |-> p, by |-> c, task |-> t, cap |-> cap,
                                step |-> "lockCap"]}
  BY DEF Submit
<1>2. cap = t /\ token = t
  BY <1>1 DEF Bound
<1>3. at[p] < tasks[t].expires_at
  <2>1. at[p] <= now /\ at[p] \in Nat /\ now \in Nat
    BY DEF Submit, DoorInv, FreshIds, EntryInv, LimiterTypeOK
  <2>2. now < Exp(t) /\ Exp(t) <= tasks[t].expires_at
    BY <1>1, <1>2, ExpCut DEF TokenValid, DoorInv
  <2>3. tasks[t].expires_at \in Nat /\ Exp(t) \in Int
    BY DoorAssumption DEF DoorInv, DoorTyped, Rows, Exp, DoorAssumption
  <2> QED
    BY <2>1, <2>2, <2>3
<1> QED
  BY <1>1, <1>2, <1>3 DEF Sound

LEMMA CallsKept ==
  ASSUME DoorInv, [Next]_vars
  PROVE  CallsSound'
<1> SUFFICES ASSUME NEW x \in calls' PROVE x.request \in inside' /\ Sound(x)'
  BY DEF CallsSound
<1>1. calls \subseteq Calls /\ calls' \subseteq Calls
  BY CallsTyped DEF DoorInv, DoorTyped
<1>2. CASE x \in calls /\ x.request \in inside' /\ UNCHANGED limiterVars
  BY <1>1, <1>2, SoundKept DEF DoorInv, CallsSound, limiterVars
<1>3. CASE /\ inside \subseteq inside' /\ inside' \subseteq inside \cup passed'
           /\ passed \subseteq passed' /\ calls' = calls
  <2>1. x.request \in inside /\ Sound(x) /\ x.request \in Requests
    BY <1>1, <1>3 DEF DoorInv, CallsSound, Calls
  <2>2. CASE at'[x.request] = at[x.request]
    BY <1>1, <1>3, <2>1, <2>2, SoundKept
  <2>3. CASE \E p \in Requests, h \in Hosts : Pass(p, h) \/ TurnAway(p, h)
    <3>1. host[x.request] # NoHost
      BY <2>1, LimiterAssumption DEF DoorInv, FreshIds, EntryInv, LimiterAssumption
    <3>2. at'[x.request] = at[x.request]
      BY <2>1, <2>3, <3>1 DEF Pass, TurnAway, Arrives, DoorInv, LimiterTypeOK
    <3> QED
      BY <2>2, <3>2
  <2>4. CASE Tick \/ UNCHANGED limiterVars
    BY <2>2, <2>4 DEF Tick, limiterVars
  <2>5. CASE Forget
    <3>1. passed' = {}
      BY <2>5 DEF Forget
    <3> QED
      BY <1>3, <2>1, <3>1 DEF DoorInv, FreshIds
  <2> QED
    BY <2>3, <2>4, <2>5, LimiterSteps DEF vars
<1>4. CASE /\ \E p \in inside : inside' = inside \ {p} /\ calls' = calls \ CallsOf(p)
           /\ UNCHANGED limiterVars
  <2>1. x \in calls /\ x.request \in inside'
    BY <1>4 DEF CallsOf, DoorInv, CallsSound
  <2> QED
    BY <1>2, <1>4, <2>1
<1>5. ASSUME NEW p \in Requests, Submit(p) PROVE x.request \in inside' /\ Sound(x)'
  <2>1. UNCHANGED <<limiterVars, inside>> /\ p \in inside
    BY <1>5 DEF Submit
  <2>2. CASE x \in calls
    BY <1>2, <2>1, <2>2 DEF DoorInv, CallsSound
  <2>3. CASE x.request = p /\ Sound(x)
    BY <1>1, <2>1, <2>3, SoundKept DEF limiterVars
  <2> QED
    BY <1>5, <2>2, <2>3, SubmitSound
<1>6. ASSUME NEW p \in Requests, Validate(p) \/ Call(p)
      PROVE  x.request \in inside' /\ Sound(x)'
  <2>1. UNCHANGED <<limiterVars, inside>>
    BY <1>6 DEF Validate, Call
  <2>2. PICK y \in calls : x.request = y.request /\ x.by = y.by /\ x.cap = y.cap /\ x.task = y.task
    BY <1>1, <1>6 DEF Validate, Call, Advance, CallsOf, Calls
  <2>3. y.request \in inside /\ Sound(y)
    BY DEF DoorInv, CallsSound
  <2>4. Sound(x)
    BY <2>2, <2>3 DEF Sound
  <2> QED
    BY <1>1, <2>1, <2>2, <2>3, <2>4, SoundKept DEF limiterVars
<1> QED
  BY <1>3, <1>4, <1>5, <1>6, CallSteps DEF DoorInv

LEMMA DoorInvInit == Init => DoorInv
<1> SUFFICES ASSUME Init PROVE DoorInv
  OBVIOUS
<1>1. LimiterTypeOK /\ DoorTyped
  BY DoorInit
<1>2. EntryInv /\ FreshIds /\ CallsSound
  BY DoorAssumption DEF Init, LimiterInit, EntryInv, FreshIds, CallsSound, Tasks, DoorAssumption
<1> QED
  BY <1>1, <1>2 DEF DoorInv

LEMMA DoorInvKept == DoorInv /\ [Next]_vars => DoorInv'
<1> SUFFICES ASSUME DoorInv, [Next]_vars PROVE DoorInv'
  OBVIOUS
<1>1. LimiterTypeOK' /\ EntryInv'
  BY LimiterTyped, EntryKept DEF DoorInv
<1>2. DoorTyped' /\ FreshIds'
  BY RowSteps, FreshKept DEF DoorInv
<1> QED
  BY <1>1, <1>2, CallsKept DEF DoorInv

(* An event says who did what in this very step; that caller was let        *)
(* through the ownership check, whichever token came along, and a call came *)
(* within the lifetime of its capability.                                   *)
LEMMA EventSteps ==
  ASSUME DoorInv, [Next]_vars
  PROVE  \/ event' = {}
         \/ event' = event /\ UNCHANGED <<limiterVars, tasks>>
         \/ \E p \in Requests, c \in Authenticated, t \in Tasks, k \in {"move", "call"} :
              /\ Event(k, p, c, t) /\ Owns(c, t)
              /\ UNCHANGED limiterVars
              /\ k = "call" => at[p] < tasks[t].expires_at /\ UNCHANGED tasks
<1> DEFINE Acted(p) == \E c \in Authenticated, t \in Tasks, k \in {"move", "call"} :
              /\ Event(k, p, c, t) /\ Owns(c, t)
              /\ UNCHANGED limiterVars
              /\ k = "call" => at[p] < tasks[t].expires_at /\ UNCHANGED tasks
<1>1. ASSUME NEW p \in Requests, ClassifyTask(p) \/ EvaluatePolicy(p) \/ Mint(p)
      PROVE  Acted(p)
  BY <1>1 DEF ClassifyTask, EvaluatePolicy, Mint, Handle, Answer
<1>2. ASSUME NEW p \in Requests, ApproveTask(p) \/ CloseTask(p) PROVE Acted(p)
  <2>1. PICK c \in Operators, t \in Tasks : Event("move", p, c, t)
    BY <1>2 DEF ApproveTask, CloseTask
  <2>2. c \in Authenticated /\ Owns(c, t)
    BY DEF Operators, Owns
  <2>3. UNCHANGED limiterVars
    BY <1>2 DEF ApproveTask, CloseTask, Handle, Answer
  <2> QED
    BY <2>1, <2>2, <2>3
<1>3. ASSUME NEW p \in Requests, Call(p) PROVE Acted(p)
  <2>1. PICK x \in CallsOf(p) : Event("call", p, x.by, x.cap)
    BY <1>3 DEF Call
  <2>2. x \in Calls /\ x.request = p /\ Sound(x)
    BY <2>1 DEF CallsOf, DoorInv, DoorTyped, CallsSound
  <2>3. x.by \in Authenticated /\ x.cap \in Tasks /\ Owns(x.by, x.cap)
    BY <2>2 DEF Sound, Calls
  <2>4. UNCHANGED <<limiterVars, tasks>>
    BY <1>3 DEF Call
  <2> QED
    BY <2>1, <2>2, <2>3, <2>4 DEF Sound
<1>4. ASSUME NEW p \in Requests,
             Reply(p) \/ Create(p) \/ Arrive(p) \/ Submit(p) \/ Validate(p)
      PROVE  event' = {}
  BY <1>4 DEF Reply, Create, Arrive, Submit, Validate
<1> QED
  BY <1>1, <1>2, <1>3, <1>4 DEF Next, Serve, Restart, vars

(* No handler, limiter or restart leaves a variable of FrontDoor outside    *)
(* its type, for any keys, hosts, requests and tasks.                       *)
THEOREM TypeCorrect == Spec => []TypeOK
<1>1. Init => TypeOK
  BY DoorInit DEF Init, TypeOK, DoorTyped
<1>2. TypeOK /\ [Next]_vars => TypeOK'
  <2> SUFFICES ASSUME TypeOK, [Next]_vars PROVE TypeOK'
    OBVIOUS
  <2>1. LimiterTypeOK' /\ DoorTyped'
    BY LimiterTyped, RowSteps DEF TypeOK, DoorTyped
  <2>2. inside' \subseteq Requests
    BY <2>1, CallSteps DEF TypeOK, DoorTyped, LimiterTypeOK, Submit, Validate, Call
  <2> QED
    BY <2>1, <2>2 DEF TypeOK, DoorTyped
<1> QED
  BY <1>1, <1>2, PTL DEF Spec

(* routes.py:50-80 and gateway.py:139-181, for every set of keys, tasks and *)
(* requests: what is done to a task, or called under its capability, is     *)
(* done for an operator or for the runtime that created it.                 *)
THEOREM OwnershipSafe == Spec => []OnlyOwnersAct
<1>1. Init => OnlyOwnersAct
  BY DEF Init, OnlyOwnersAct
<1>2. DoorInv /\ OnlyOwnersAct /\ [Next]_vars => OnlyOwnersAct'
  <2> SUFFICES ASSUME DoorInv, OnlyOwnersAct, [Next]_vars PROVE OnlyOwnersAct'
    OBVIOUS
  <2>1. CASE event' = {}
    BY <2>1 DEF OnlyOwnersAct
  <2>2. CASE event' = event /\ UNCHANGED <<limiterVars, tasks>>
    BY <2>2 DEF OnlyOwnersAct, OwnedBy
  <2>3. ASSUME NEW p \in Requests, NEW c \in Authenticated, NEW t \in Tasks,
               NEW k \in {"move", "call"}, Event(k, p, c, t), Owns(c, t)
        PROVE  OnlyOwnersAct'
    <3>1. tasks'[t].owner = tasks[t].owner
      BY <2>3, RowSteps DEF Event, DoorInv, SameRow, MadeRow
    <3>2. OwnedBy(c, t)'
      BY <2>3, <3>1 DEF Owns, OwnedBy
    <3>3. \A x \in event' : x.by = c /\ x.task = t
      BY <2>3 DEF Event
    <3> QED
      BY <3>2, <3>3 DEF OnlyOwnersAct, OwnedBy
  <2> QED
    BY <2>1, <2>2, <2>3, EventSteps
<1> QED
  BY <1>1, <1>2, DoorInvInit, DoorInvKept, PTL DEF Spec

(* Who created a task is the runtime it names, unless an operator did.      *)
RowsSound ==
    \A t \in Tasks :
        \/ tasks[t].owner \in {Null, Empty, tasks[t].runtime}
        \/ [role |-> "operator", name |-> tasks[t].owner] \in Operators

LEMMA RowsSoundInit == Init => RowsSound
<1> SUFFICES ASSUME Init, NEW t \in Tasks
             PROVE  \/ tasks[t].owner \in {Null, tasks[t].runtime}
                    \/ [role |-> "operator", name |-> tasks[t].owner] \in Operators
  BY DEF RowsSound
<1>1. CASE t \notin OldTasks
  BY <1>1 DEF Init, NoRow
<1>2. CASE t \in OldTasks
  <2>1. tasks[t] = OldRow[t] /\ OldRow[t] \in Rows
    BY <1>2, DoorAssumption DEF Init, DoorAssumption
  <2>2. CASE OldRow[t].owner \in {Null, OldRow[t].runtime}
    BY <2>1, <2>2
  <2>3. ASSUME NEW k \in ApiKeys,
               Entry[k] = [role |-> "operator", name |-> OldRow[t].owner]
        PROVE  [role |-> "operator", name |-> OldRow[t].owner] \in Operators
    <3> DEFINE c == [role |-> "operator", name |-> OldRow[t].owner]
    <3>1. Entry[k].name \in Names
      BY DoorAssumption DEF DoorAssumption
    <3>2. c \in Caller
      BY <2>3, <3>1 DEF Caller
    <3> QED
      BY <2>3, <3>2 DEF Operators, Authenticated
  <2> QED
    BY <1>2, <2>1, <2>2, <2>3, OldRowAssumption DEF OldRowAssumption
<1> QED
  BY <1>1, <1>2

LEMMA RowsSoundKept ==
    LimiterTypeOK /\ DoorTyped /\ RowsSound /\ [Next]_vars => RowsSound'
<1> SUFFICES ASSUME LimiterTypeOK, DoorTyped, RowsSound, [Next]_vars, NEW t \in Tasks
             PROVE  \/ tasks'[t].owner \in {Null, Empty, tasks'[t].runtime}
                    \/ [role |-> "operator", name |-> tasks'[t].owner] \in Operators
  BY DEF RowsSound
<1>1. CASE tasks'[t].owner = tasks[t].owner /\ tasks'[t].runtime = tasks[t].runtime
  BY <1>1 DEF RowsSound
<1>2. ASSUME NEW p \in Requests, MadeRow(p)
      PROVE  \/ tasks'[t].owner \in {Null, Empty, tasks'[t].runtime}
             \/ [role |-> "operator", name |-> tasks'[t].owner] \in Operators
  <2>1. PICK c \in Authenticated : /\ c.role = "operator" \/ tasks'[p].runtime = c.name
                                   /\ tasks'[p].owner = c.name
    BY <1>2 DEF MadeRow
  <2>2. CASE t # p
    BY <1>1, <1>2, <2>2 DEF MadeRow
  <2>3. CASE t = p /\ tasks'[p].runtime = c.name
    BY <2>1, <2>3
  <2>4. CASE t = p /\ c.role = "operator"
    <3>1. c = [role |-> "operator", name |-> c.name]
      BY <2>4, AuthenticatedCaller DEF Caller
    <3> QED
      BY <2>1, <2>4, <3>1 DEF Operators
  <2> QED
    BY <2>1, <2>2, <2>3, <2>4
<1> QED
  BY <1>1, <1>2, RowSteps DEF SameRow

(* routes.py:107-122: a runtime's calls are made under its own runtime id,  *)
(* for all names and keys that do not give an operator a runtime's name.    *)
THEOREM IdentitySafe == Spec => []CallsAsItself
<1>1. Init => CallsAsItself
  BY DEF Init, CallsAsItself
<1>2. DoorInv /\ RowsSound /\ CallsAsItself /\ [Next]_vars => (RowsSound /\ CallsAsItself)'
  <2> SUFFICES ASSUME DoorInv, RowsSound, CallsAsItself, [Next]_vars PROVE CallsAsItself'
    BY RowsSoundKept DEF DoorInv
  <2>1. CASE event' = {}
    BY <2>1 DEF CallsAsItself
  <2>2. CASE event' = event /\ UNCHANGED <<limiterVars, tasks>>
    BY <2>2 DEF CallsAsItself
  <2>3. ASSUME NEW p \in Requests, NEW c \in Authenticated, NEW t \in Tasks,
               NEW k \in {"move", "call"}, Event(k, p, c, t), Owns(c, t)
        PROVE  CallsAsItself'
    <3>1. tasks'[t].owner = tasks[t].owner /\ tasks'[t].runtime = tasks[t].runtime
      BY <2>3, RowSteps DEF Event, DoorInv, SameRow, MadeRow
    <3>2. \A x \in event' : x.by = c /\ x.task = t
      BY <2>3 DEF Event
    <3>3. \/ c.role = "operator" \/ tasks'[t].runtime = c.name
          \/ [role |-> "operator", name |-> c.name] \in Operators
      BY <2>3, <3>1 DEF Owns, RowsSound
    <3> QED
      BY <3>2, <3>3 DEF CallsAsItself
  <2> QED
    BY <2>1, <2>2, <2>3, EventSteps
<1> QED
  BY <1>1, <1>2, DoorInvInit, DoorInvKept, RowsSoundInit, PTL DEF Spec

(* tokens.py:71, 114, gateway.py:139-175, for all lifetimes, resolutions of *)
(* the token and waits between the checks and the call: under a capability  *)
(* calls are made for requests that came before the end of its lifetime.    *)
THEOREM LifetimeSafe == Spec => []ArrivedWithinLifetime
<1>1. Init => ArrivedWithinLifetime
  BY DEF Init, ArrivedWithinLifetime
<1>2. DoorInv /\ ArrivedWithinLifetime /\ [Next]_vars => ArrivedWithinLifetime'
  <2> SUFFICES ASSUME DoorInv, ArrivedWithinLifetime, [Next]_vars
               PROVE  ArrivedWithinLifetime'
    OBVIOUS
  <2>1. CASE event' = {}
    BY <2>1 DEF ArrivedWithinLifetime
  <2>2. CASE event' = event /\ UNCHANGED <<limiterVars, tasks>>
    BY <2>2 DEF ArrivedWithinLifetime, limiterVars
  <2>3. ASSUME NEW p \in Requests, NEW c \in Authenticated, NEW t \in Tasks,
               NEW k \in {"move", "call"}, Event(k, p, c, t), UNCHANGED limiterVars,
               k = "call" => at[p] < tasks[t].expires_at /\ UNCHANGED tasks
        PROVE  ArrivedWithinLifetime'
    BY <2>3 DEF Event, ArrivedWithinLifetime, limiterVars
  <2> QED
    BY <2>1, <2>2, <2>3, EventSteps
<1> QED
  BY <1>1, <1>2, DoorInvInit, DoorInvKept, PTL DEF Spec
=============================================================================
