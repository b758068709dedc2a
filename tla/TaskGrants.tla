----------------------------- MODULE TaskGrants -----------------------------
(* What the task endpoints promise of a task's capabilities however their   *)
(* handlers overlap: without statuses, row locks or requests in flight.  A  *)
(* mint is all or nothing and needs a clearance, a closure leaves nothing   *)
(* usable, and what was withdrawn never comes back; only the word for a     *)
(* withdrawal, revoked or expired, may still be overwritten by a later one. *)
(* TaskLifecycle implements it.                                             *)

CONSTANTS Requests,  \* requests, each of which may mint once
          Systems    \* target systems: one capability for each in a mint

VARIABLES cleared,   \* the policy or an operator let the task pass
          caps,      \* capabilities.status by request and system
          sealed     \* capabilities whose revocation was answered
grantVars == <<cleared, caps, sealed>>

Caps == Requests \X Systems
Active == {c \in Caps : caps[c] = "active"}
Minted == {c \in Caps : caps[c] # "none"}

Init == /\ cleared = FALSE
        /\ caps = [c \in Caps |-> "none"]
        /\ sealed = {}

Clear == /\ cleared' = TRUE
         /\ UNCHANGED <<caps, sealed>>

Grant(r) ==
    /\ cleared
    /\ \A s \in Systems : caps[<<r, s>>] = "none"
    /\ caps' = [c \in Caps |-> IF c[1] = r THEN "active" ELSE caps[c]]
    /\ UNCHANGED <<cleared, sealed>>

Withdrawn(S, verdict) == [c \in Caps |-> IF c \in S THEN verdict ELSE caps[c]]

CloseAll ==
    /\ \E S \in SUBSET Minted, verdict \in {"expired", "revoked"} :
          Active \subseteq S /\ caps' = Withdrawn(S, verdict)
    /\ UNCHANGED <<cleared, sealed>>

Revoke(c) ==
    /\ c \in Minted
    /\ caps' = Withdrawn({c}, "revoked")
    /\ sealed' = sealed \cup {c}
    /\ UNCHANGED cleared

Next == \/ Clear \/ CloseAll
        \/ \E r \in Requests : Grant(r)
        \/ \E c \in Caps : Revoke(c)

Spec == Init /\ [][Next]_grantVars
=============================================================================
