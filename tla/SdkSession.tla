----------------------------- MODULE SdkSession -----------------------------
(* A session of the Python SDK (JITAuthClient.task), and the tools that     *)
(* open one per call: the decorator and the MCP server.  The session drives *)
(* one task through TaskLifecycle, one request after the other, while other *)
(* clients address the same task.  The network may hold a request back      *)
(* until after the SDK has given up on it, and the broker may commit and    *)
(* still answer 500.                                                        *)
EXTENDS TaskLifecycle

CONSTANTS Own         \* the request that the session sends in each step

Steps == {"classify", "evaluate", "approve", "mint"}

ASSUME SessionAssumption ==
    /\ Own \in [Steps -> Requests]
    /\ \A s, z \in Steps : Own[s] = Own[z] => s = z

VARIABLES at,       \* the step whose answer the SDK awaits, or the outcome
          posted,   \* requests on their way to the broker or served by it
          auto,     \* auto_approve with an approver_id (never changes)
          operator  \* the role of its API key (never changes)
sessionVars == <<at, posted, auto, operator>>

(* The codes of the exceptions of task(); "body" is the code inside the     *)
(* async with, "left" its end, "call_failed" an exception of execute in it. *)
Outcomes == {"left", "call_failed", "policy_denied", "approval_required",
             "create_failed", "classify_failed", "policy_failed",
             "approval_failed", "capability_failed", "unexpected"}

SessionTypeOK ==
    /\ TypeOK
    /\ at \in {"create", "body"} \cup Steps \cup Outcomes
    /\ posted \subseteq {"create"} \cup Steps
    /\ auto \in BOOLEAN /\ operator \in BOOLEAN

SessionInit ==
    /\ Init
    /\ at = "create" /\ posted = {"create"}
    /\ auto \in BOOLEAN /\ operator \in BOOLEAN
----------------------------------------------------------------------------
(* The broker *)

\* approve_task wants an operator's key.
Allowed(s) == s = "approve" => operator

(* A request of the session arrives after it was sent, and asks for what    *)
(* its step asks for; other requests are anybody's.                         *)
Serves(p) ==
    /\ Handle(p)
    /\ \A s \in Steps : p = Own[s] /\ pc[p] = "idle" =>
          s \in posted /\ Allowed(s) /\ asks'[p] = s
    /\ UNCHANGED sessionVars

CreatesTask == "create" \in posted /\ Create /\ UNCHANGED sessionVars
----------------------------------------------------------------------------
(* The SDK *)

\* An answer 200 of the broker to the request of step s, or 201 to creation.
Served(s) == IF s = "create" THEN status # "absent" ELSE pc[Own[s]] = "done"

(* A request that the broker answers without a commit: 4xx, as the status   *)
(* is not the expected one or the key is no operator's, or 500 after a roll *)
(* back.                                                                    *)
Rejected(s) ==
    IF s = "create" THEN status = "absent"
    ELSE \/ pc[Own[s]] = "failed"
         \/ pc[Own[s]] = "idle" /\ (status \notin Expected(s) \/ ~Allowed(s))

\* Mutation: an answer other than 200 to the evaluation is taken for its verdict.
FailureOfMixed(s) ==
    CASE s = "create" -> "create_failed"
      [] s = "classify" -> "classify_failed"
      [] s = "evaluate" -> "policy_denied"
      [] s = "approve" -> "approval_failed"
      [] s = "mint" -> "capability_failed"

FailureOf(s) ==
    CASE s = "create" -> "create_failed"
      [] s = "classify" -> "classify_failed"
      [] s = "evaluate" -> "policy_failed"
      [] s = "approve" -> "approval_failed"
      [] s = "mint" -> "capability_failed"

\* Mutation: the SDK approves whatever it is asked to.
AfterApproving(s) ==
    CASE s = "create" -> "classify"
      [] s = "classify" -> "evaluate"
      [] s = "evaluate" -> CASE effect = "deny" -> "policy_denied"
                             [] effect = "require_approval" -> "approve"
                             [] OTHER -> "mint"
      [] s = "approve" -> "mint"
      [] s = "mint" -> "body"

\* Mutation: TaskDeniedError is raised with code=effect.
AfterRawEffect(s) ==
    CASE s = "create" -> "classify"
      [] s = "classify" -> "evaluate"
      [] s = "evaluate" -> CASE effect = "deny" -> effect
                             [] effect = "require_approval" ->
                                    IF auto THEN "approve" ELSE "approval_required"
                             [] OTHER -> "mint"
      [] s = "approve" -> "mint"
      [] s = "mint" -> "body"

\* What follows a step: the SDK knows the denial and the approval by name and
\* takes every other effect for a permission to mint.
After(s) ==
    CASE s = "create" -> "classify"
      [] s = "classify" -> "evaluate"
      [] s = "evaluate" -> CASE effect = "deny" -> "policy_denied"
                             [] effect = "require_approval" ->
                                    IF auto THEN "approve" ELSE "approval_required"
                             [] OTHER -> "mint"
      [] s = "approve" -> "mint"
      [] s = "mint" -> "body"

\* Mutation: the capabilities are asked for together with the approval.
ProceedPipelined(s) ==
    /\ at = s /\ Served(s)
    /\ at' = After(s)
    /\ posted' = posted \cup ({After(s)} \cap Steps)
                   \cup (IF After(s) = "approve" THEN {"mint"} ELSE {})
    /\ UNCHANGED <<vars, auto, operator>>

Proceed(s) ==
    /\ at = s /\ Served(s)
    /\ at' = After(s)
    /\ posted' = posted \cup ({After(s)} \cap Steps)
    /\ UNCHANGED <<vars, auto, operator>>

\* Another status code than the expected one: the request was rejected, or
\* what follows its commit in the handler (a refresh, the tokens) failed.
Fail(s) ==
    /\ at = s
    /\ \/ Rejected(s) /\ posted' = posted \ {s}
       \/ Served(s) /\ UNCHANGED posted
    /\ at' = FailureOf(s)
    /\ UNCHANGED <<vars, auto, operator>>

\* The connection breaks or httpx gives up; the request may still be served.
GiveUp(s) ==
    /\ at = s
    /\ at' = "unexpected"
    /\ UNCHANGED <<vars, posted, auto, operator>>

\* The body of the decorator, and of the MCP server, is one call: it returns,
\* raises an exception of the SDK, or another one.
BodyEnds == {"left", "call_failed", "unexpected"}

\* The context manager calls no endpoint when it ends, whatever happened.
Leave ==
    /\ at = "body"
    /\ at' \in BodyEnds
    /\ UNCHANGED <<vars, posted, auto, operator>>

Session == Leave \/ \E s \in {"create"} \cup Steps : Proceed(s) \/ Fail(s) \/ GiveUp(s)

SessionNext == CreatesTask \/ Session \/ \E p \in Requests : Serves(p)

SessionSpec == SessionInit /\ [][SessionNext]_<<vars, sessionVars>>

\* What an MCP agent is told of its tool call: one task with one action each.
Reply ==
    CASE at = "left" -> "success"
      [] at = "policy_denied" -> "denied"
      [] at = "approval_required" -> "approval_required"
      [] at \in Outcomes -> "execution_error"
      [] OTHER -> "none"
----------------------------------------------------------------------------
(* Properties *)

\* client.py:315-340, server.py:258-279: an outcome that names a verdict is
\* the verdict: a task reported as denied is denied and no capability of it
\* exists, then or ever after; one that waits for an approval was evaluated
\* so, and of itself the session mints nothing for it.
VerdictsTrue ==
    /\ Reply = "denied" => status = "denied" /\ \A c \in Caps : caps[c] = "none"
    /\ Reply = "approval_required" =>
          /\ effect = "require_approval" /\ decisions # {}
          /\ \A s \in Systems : caps[<<Own["mint"], s>>] = "none"

\* client.py:342-361: the body of a session runs with capabilities of its own
\* for every system, minted once the policy, or an operator, had agreed.
BodyAuthorised ==
    at \in {"body", "left", "call_failed"} =>
        /\ \A s \in Systems : caps[<<Own["mint"], s>>] # "none"
        /\ effect # "require_approval" => effect \in {"allow", "allow_reduced"}
        /\ effect = "require_approval" => auto /\ operator /\ Own["approve"] \in approvals

\* client.py:342-368: a session leaves capabilities behind only where it left
\* its body, or could not know what became of its request for them.
LeftoversExplained ==
    (\E s \in Systems : caps[<<Own["mint"], s>>] = "active") =>
        at \in {"mint", "body", "left", "call_failed", "capability_failed", "unexpected"}
=============================================================================
