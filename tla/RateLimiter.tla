---------------------------- MODULE RateLimiter ----------------------------
(* The sliding window of broker/middleware.py.  A broker process keeps, for *)
(* each client host, the times at which it let requests pass; dispatch has  *)
(* no await between looking at them and adding one.  A time is stood for by *)
(* the request it was taken at, so that equal times stay distinct entries.  *)
EXTENDS Naturals, FiniteSets

CONSTANTS Requests,     \* HTTP requests, of whatever client
          Hosts,        \* request.client.host
          NoHost,       \* the host of a request that has not arrived
          Rpm, Burst,   \* what the limiter is configured with
          Window,       \* the length of the window, in ticks of the clock
          MaxClock      \* bound on the clock

ASSUME LimiterAssumption ==
    /\ Rpm \in Nat /\ Burst \in Nat /\ Window \in Nat \ {0} /\ MaxClock \in Nat
    /\ NoHost \notin Hosts
    /\ IsFiniteSet(Requests)

VARIABLES now,      \* time.monotonic()
          host, at, \* where each request came from and when it arrived
          kept,     \* _requests: the entries that were not cleaned out
          passed,   \* requests this process let through to the application
          limited   \* requests this process answered 429
limiterVars == <<now, host, at, kept, passed, limited>>

LimiterTypeOK ==
    /\ now \in 0..MaxClock
    /\ host \in [Requests -> Hosts \cup {NoHost}]
    /\ at \in [Requests -> 0..MaxClock]
    /\ kept \in [Hosts -> SUBSET Requests]
    /\ passed \subseteq Requests
    /\ limited \subseteq Requests

LimiterInit ==
    /\ now = 0
    /\ host = [p \in Requests |-> NoHost]
    /\ at = [p \in Requests |-> 0]
    /\ kept = [h \in Hosts |-> {}]
    /\ passed = {} /\ limited = {}
----------------------------------------------------------------------------
Limit == Rpm + Burst

\* Mutation: an entry of exactly Window ticks ago still counts.
RecentInclusive(h) == {q \in kept[h] : at[q] + Window >= now}

\* The entries that cleaning leaves: t > now - window.
Recent(h) == {q \in kept[h] : at[q] + Window > now}

Arrives(p, h) ==
    /\ host[p] = NoHost
    /\ host' = [host EXCEPT ![p] = h]
    /\ at' = [at EXCEPT ![p] = now]

\* Mutation: count > limit.
PassOneMore(p, h) ==
    /\ Arrives(p, h)
    /\ Cardinality(Recent(h)) <= Limit
    /\ kept' = [kept EXCEPT ![h] = Recent(h) \cup {p}]
    /\ passed' = passed \cup {p}
    /\ UNCHANGED <<now, limited>>

Pass(p, h) ==
    /\ Arrives(p, h)
    /\ Cardinality(Recent(h)) < Limit
    /\ kept' = [kept EXCEPT ![h] = Recent(h) \cup {p}]
    /\ passed' = passed \cup {p}
    /\ UNCHANGED <<now, limited>>

\* 429: the entries are cleaned, the request leaves none.
TurnAway(p, h) ==
    /\ Arrives(p, h)
    /\ Cardinality(Recent(h)) >= Limit
    /\ kept' = [kept EXCEPT ![h] = Recent(h)]
    /\ limited' = limited \cup {p}
    /\ UNCHANGED <<now, passed>>

Tick ==
    /\ now < MaxClock
    /\ now' = now + 1
    /\ UNCHANGED <<host, at, kept, passed, limited>>

\* The entries live in the memory of the process; with them the times of
\* earlier requests lose their meaning.
Forget ==
    /\ kept' = [h \in Hosts |-> {}]
    /\ passed' = {} /\ limited' = {}
    /\ at' = [p \in Requests |-> 0]
    /\ UNCHANGED <<now, host>>

LimiterNext ==
    \/ \E p \in Requests, h \in Hosts : Pass(p, h) \/ TurnAway(p, h)
    \/ Tick \/ Forget

LimiterSpec == LimiterInit /\ [][LimiterNext]_limiterVars
----------------------------------------------------------------------------
(* Properties *)

PassedWithin(h, t) ==
    {p \in passed : host[p] = h /\ at[p] <= t /\ t < at[p] + Window}

\* middleware.py:42-50: wherever a window is laid, one process lets no more
\* than rpm + burst requests of a host arrive in it.
WindowRespected ==
    \A h \in Hosts, t \in 0..MaxClock : Cardinality(PassedWithin(h, t)) <= Limit

\* middleware.py:52-61: who is answered 429 had its full share: as many of
\* its host's requests passed in the window that ends with it.  So a client
\* that stays away for the 60 seconds of Retry-After is let in again, and
\* knocking in vain costs it nothing.
LimitedOnlyWhenFull ==
    \A p \in limited : Cardinality(PassedWithin(host[p], at[p])) >= Limit
=============================================================================
