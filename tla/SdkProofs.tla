----------------------------- MODULE SdkProofs -----------------------------
(* Proofs about a session of the SDK among other clients: it drives the     *)
(* handlers of TaskLifecycle, so what is proved of those holds here, and    *)
(* what it concludes from the answers is true of the task.                  *)
EXTENDS SdkSession, TaskLifecycleProofs

USE LifecycleAssumption, SessionAssumption

(* Every step of a session is one of a handler, or none.                    *)
LEMMA SessionSteps == [SessionNext]_<<vars, sessionVars>> => [Next]_vars
  BY DEF SessionNext, CreatesTask, Session, Leave, Proceed, Fail, GiveUp, Serves,
         Next, sessionVars

(* With any session among its clients the lifecycle is still one: whatever  *)
(* the SDK posts, gives up or asks for again adds no behaviour of a task    *)
(* (client.py:267-368).                                                     *)
THEOREM SessionImplementsLifecycle == SessionSpec => Spec
<1>1. SessionInit => Init
  BY DEF SessionInit
<1> QED
  BY <1>1, SessionSteps, PTL DEF SessionSpec, Spec

LEMMA SessionTyped ==
    SessionTypeOK /\ [SessionNext]_<<vars, sessionVars>> => SessionTypeOK'
<1> SUFFICES ASSUME SessionTypeOK, [SessionNext]_<<vars, sessionVars>>
             PROVE  SessionTypeOK'
  OBVIOUS
<1>0. TypeOK'
  BY Typed, SessionSteps DEF SessionTypeOK
<1> USE DEF SessionTypeOK, sessionVars
<1>1. CASE CreatesTask \/ (\E p \in Requests : Serves(p)) \/ UNCHANGED <<vars, sessionVars>>
  BY <1>0, <1>1 DEF CreatesTask, Serves
<1>2. CASE Leave
  BY <1>0, <1>2 DEF Leave, BodyEnds, Outcomes
<1>3. ASSUME NEW s \in {"create"} \cup Steps, Proceed(s) PROVE SessionTypeOK'
  <2>1. After(s) \in {"body"} \cup Steps \cup Outcomes
    BY DEF After, Steps, Outcomes
  <2> QED
    BY <1>0, <1>3, <2>1 DEF Proceed
<1>4. ASSUME NEW s \in {"create"} \cup Steps, Fail(s) PROVE SessionTypeOK'
  <2>1. FailureOf(s) \in Outcomes
    BY DEF FailureOf, Steps, Outcomes
  <2> QED
    BY <1>0, <1>4, <2>1 DEF Fail
<1>5. ASSUME NEW s \in {"create"} \cup Steps, GiveUp(s) PROVE SessionTypeOK'
  BY <1>0, <1>5 DEF GiveUp, Outcomes
<1> QED
  BY <1>1, <1>2, <1>3, <1>4, <1>5 DEF SessionNext, Session

(* A session stays in one of its steps or outcomes (client.py:267-368).     *)
THEOREM SessionTypeCorrect == SessionSpec => []SessionTypeOK
<1>1. SessionInit => SessionTypeOK
  <2> SUFFICES ASSUME SessionInit PROVE SessionTypeOK
    OBVIOUS
  <2>1. TypeOK
    BY DEF SessionInit, Init, TypeOK, Statuses
  <2> QED
    BY <2>1 DEF SessionInit, SessionTypeOK
<1> QED
  BY <1>1, SessionTyped, PTL DEF SessionSpec
----------------------------------------------------------------------------
(* What the handlers have committed for a request stays, and a request      *)
(* keeps what it asked for.                                                 *)
LEMMA Kept ==
  ASSUME TypeOK, MintedInv, [Next]_vars
  PROVE  /\ effect' = effect
         /\ decisions \subseteq decisions' /\ approvals \subseteq approvals'
         /\ \A c \in Caps : caps[c] # "none" => caps'[c] # "none"
         /\ \A p \in Requests : pc[p] # "idle" => pc'[p] # "idle" /\ asks'[p] = asks[p]
         /\ \A p \in Requests : pc[p] = "done" => pc'[p] = "done"
<1> DEFINE Goal == /\ effect' = effect
                   /\ decisions \subseteq decisions' /\ approvals \subseteq approvals'
                   /\ \A c \in Caps : caps[c] # "none" => caps'[c] # "none"
                   /\ \A p \in Requests : pc[p] # "idle" => pc'[p] # "idle" /\ asks'[p] = asks[p]
                   /\ \A p \in Requests : pc[p] = "done" => pc'[p] = "done"
<1> USE DEF TypeOK, Goto, Flushes
<1>1. CASE Create \/ UNCHANGED vars
  BY <1>1 DEF Create, table, vars
<1>2. ASSUME NEW p \in Requests, Read(p) \/ RevokeRead(p) PROVE Goal
  BY <1>2 DEF Read, RevokeRead, table
<1>3. ASSUME NEW p \in Requests, Classify(p) \/ Sweep(p) \/ RollBack(p) PROVE Goal
  BY <1>3 DEF Classify, Sweep, RollBack, table
<1>4. ASSUME NEW p \in Requests, Evaluate(p) \/ Approve(p) PROVE Goal
  BY <1>4 DEF Evaluate, Approve
<1>5. ASSUME NEW p \in Requests, Mint(p) PROVE Goal
  BY <1>5 DEF Mint
<1>6. ASSUME NEW p \in Requests, Close(p) \/ RevokeCommit(p) PROVE Goal
  BY <1>6 DEF Close, RevokeCommit
<1> QED
  BY <1>1, <1>2, <1>3, <1>4, <1>5, <1>6 DEF Next, Handle

(* A handler that is done has written what it was asked for.                *)
RecordsInv ==
    \A p \in Requests : pc[p] = "done" =>
        /\ asks[p] = "evaluate" => p \in decisions
        /\ asks[p] = "approve" => p \in approvals
        /\ asks[p] = "mint" => \A s \in Systems : caps[<<p, s>>] # "none"

LEMMA RecordsKept == TypeOK /\ MintedInv /\ SweepInv /\ RecordsInv /\ [Next]_vars => RecordsInv'
<1> SUFFICES ASSUME TypeOK, MintedInv, SweepInv, RecordsInv, [Next]_vars,
                    NEW q \in Requests, pc'[q] = "done"
             PROVE  /\ asks'[q] = "evaluate" => q \in decisions'
                    /\ asks'[q] = "approve" => q \in approvals'
                    /\ asks'[q] = "mint" => \A s \in Systems : caps'[<<q, s>>] # "none"
  BY DEF RecordsInv
<1> USE DEF TypeOK, Goto, Flushes
<1>1. CASE pc[q] = "done"
  BY <1>1, Kept DEF RecordsInv, Caps
<1>2. CASE pc[q] # "done"
  <2>1. \/ Classify(q) \/ Evaluate(q) \/ Approve(q) \/ Mint(q) \/ Close(q) \/ RevokeCommit(q)
    BY <1>2 DEF Next, Handle, vars, Create, Read, Classify, Evaluate, Approve, Mint,
                Sweep, Close, RevokeRead, RevokeCommit, RollBack
  <2>2. CASE Classify(q)
    BY <2>2 DEF Classify
  <2>3. CASE Evaluate(q)
    BY <2>3 DEF Evaluate
  <2>4. CASE Approve(q)
    BY <2>4 DEF Approve
  <2>5. CASE Mint(q)
    BY <2>5 DEF Mint, Caps
  <2>6. CASE Close(q)
    BY <2>6 DEF Close, SweepInv
  <2>7. CASE RevokeCommit(q)
    BY <2>7 DEF RevokeCommit
  <2> QED
    BY <2>1, <2>2, <2>3, <2>4, <2>5, <2>6, <2>7
<1> QED
  BY <1>1, <1>2

(* A step of one request leaves the others where they are.                  *)
LEMMA OthersStand ==
  ASSUME TypeOK, NEW p \in Requests, Handle(p), NEW q \in Requests, q # p
  PROVE  pc'[q] = pc[q]
  BY DEF Handle, TypeOK, Goto, Read, Classify, Evaluate, Approve, Mint, Sweep, Close,
         RevokeRead, RevokeCommit, RollBack, Flushes
----------------------------------------------------------------------------
Asked == {"mint", "body", "left", "call_failed", "capability_failed", "unexpected"}

(* What the session knows when it stands where it does: its requests asked  *)
(* for what it wanted, and the answers it has seen were committed.          *)
SessionInv ==
    /\ \A s \in Steps : pc[Own[s]] # "idle" =>
          asks[Own[s]] = s /\ Allowed(s) /\ (s = "mint" => at \in Asked)
    /\ "mint" \in posted => at \in Asked
    /\ at = "approve" => effect = "require_approval" /\ auto
    /\ at \in Asked \ {"unexpected"} /\ effect = "require_approval" =>
          auto /\ operator /\ Own["approve"] \in approvals
    /\ at \in {"body", "left", "call_failed"} =>
          \A s \in Systems : caps[<<Own["mint"], s>>] # "none"
    /\ at = "approval_required" => effect = "require_approval" /\ decisions # {}
    /\ at = "policy_denied" =>
          /\ effect = "deny" /\ pc[Own["evaluate"]] = "done"
          /\ asks[Own["evaluate"]] = "evaluate"

LEMMA SessionKept ==
    /\ SessionTypeOK /\ MintedInv /\ RecordsInv /\ SessionInv
    /\ [SessionNext]_<<vars, sessionVars>>
    => SessionInv'
<1> SUFFICES ASSUME SessionTypeOK, MintedInv, RecordsInv, SessionInv,
                    [SessionNext]_<<vars, sessionVars>>
             PROVE  SessionInv'
  OBVIOUS
<1>0. TypeOK /\ [Next]_vars
  BY SessionSteps DEF SessionTypeOK
<1>a. \A s \in Steps : Own[s] \in Requests
  OBVIOUS
<1>b. \A s \in Systems, r \in Requests : <<r, s>> \in Caps
  BY DEF Caps
<1>1. ASSUME UNCHANGED sessionVars,
             \A s \in Steps : pc[Own[s]] = "idle" /\ pc'[Own[s]] # "idle" =>
                 s \in posted /\ Allowed(s) /\ asks'[Own[s]] = s
      PROVE  SessionInv'
  <2>1. \A s \in Steps : pc'[Own[s]] # "idle" =>
          asks'[Own[s]] = s /\ Allowed(s)' /\ (s = "mint" => at' \in Asked)
    BY <1>0, <1>a, <1>1, Kept DEF SessionInv, Allowed, sessionVars
  <2>2. at \in {"body", "left", "call_failed"} =>
          \A s \in Systems : caps'[<<Own["mint"], s>>] # "none"
    BY <1>0, <1>a, <1>b, Kept DEF SessionInv, Steps
  <2>3. at = "policy_denied" =>
          pc'[Own["evaluate"]] = "done" /\ asks'[Own["evaluate"]] = "evaluate"
    BY <1>0, <1>a, Kept DEF SessionInv, Steps
  <2>4. effect' = effect /\ decisions \subseteq decisions' /\ approvals \subseteq approvals'
    BY <1>0, Kept
  <2> QED
    BY <1>1, <2>1, <2>2, <2>3, <2>4 DEF SessionInv, sessionVars
<1>2. CASE CreatesTask \/ UNCHANGED <<vars, sessionVars>>
  <2>1. UNCHANGED sessionVars /\ pc' = pc
    BY <1>2 DEF CreatesTask, Create, vars
  <2> QED
    BY <1>1, <2>1
<1>3. ASSUME NEW p \in Requests, Serves(p) PROVE SessionInv'
  <2>1. \A s \in Steps : pc[Own[s]] = "idle" /\ pc'[Own[s]] # "idle" => Own[s] = p
    BY <1>0, <1>3, <1>a, OthersStand DEF Serves
  <2> QED
    BY <1>1, <1>3, <2>1 DEF Serves
<1>4. CASE Leave
  BY <1>4 DEF Leave, BodyEnds, SessionInv, Allowed, Asked, vars, table
<1>5. ASSUME NEW s \in {"create"} \cup Steps, Proceed(s) PROVE SessionInv'
  <2> USE <1>5 DEF Proceed, vars, table, Steps
  <2>1. \A z \in Steps : pc[Own[z]] # "idle" =>
          asks[Own[z]] = z /\ Allowed(z)' /\ (z = "mint" => at \in Asked)
    BY DEF SessionInv, Allowed
  <2>2. s # "create" => /\ pc[Own[s]] = "done" /\ asks[Own[s]] = s /\ Allowed(s)
    BY DEF Served, SessionInv
  <2>3. CASE s \in {"create", "classify"}
    BY <2>1, <2>3 DEF SessionInv, After, Asked
  <2>4. CASE s = "evaluate"
    <3>1. decisions # {}
      BY <1>a, <2>2, <2>4 DEF RecordsInv
    <3> QED
      BY <2>1, <2>2, <2>4, <3>1 DEF SessionInv, After, Asked
  <2>5. CASE s = "approve"
    <3>1. Own["approve"] \in approvals /\ operator
      BY <1>a, <2>2, <2>5 DEF RecordsInv, Allowed
    <3> QED
      BY <2>1, <2>5, <3>1 DEF SessionInv, After, Asked
  <2>6. CASE s = "mint"
    <3>1. \A z \in Systems : caps[<<Own["mint"], z>>] # "none"
      BY <1>a, <2>2, <2>6 DEF RecordsInv
    <3> QED
      BY <2>1, <2>6, <3>1 DEF SessionInv, After, Asked
  <2> QED
    BY <2>3, <2>4, <2>5, <2>6
<1>6. ASSUME NEW s \in {"create"} \cup Steps, Fail(s) PROVE SessionInv'
  <2>1. at' = FailureOf(s) /\ at = s /\ posted' \subseteq posted
    BY <1>6 DEF Fail
  <2>2. at' \in {"create_failed", "classify_failed", "policy_failed", "approval_failed",
                 "capability_failed"} /\ (at' = "capability_failed" <=> s = "mint")
    BY <2>1 DEF FailureOf, Steps
  <2>3. at \in Asked <=> s = "mint"
    BY <2>1 DEF Asked, Steps
  <2> QED
    BY <1>6, <2>1, <2>2, <2>3 DEF Fail, vars, table, SessionInv, Allowed, Asked
<1>7. ASSUME NEW s \in {"create"} \cup Steps, GiveUp(s) PROVE SessionInv'
  BY <1>7 DEF GiveUp, vars, table, SessionInv, Allowed, Asked
<1> QED
  BY <1>2, <1>3, <1>4, <1>5, <1>6, <1>7 DEF SessionNext, Session

LEMMA SessionAlways ==
    SessionSpec => [](SessionTypeOK /\ MintedInv /\ SweepInv /\ RecordsInv /\ SessionInv)
<1>1. SessionInit => MintedInv /\ SweepInv /\ RecordsInv /\ SessionInv
  <2> SUFFICES ASSUME SessionInit PROVE MintedInv /\ SweepInv /\ RecordsInv /\ SessionInv
    OBVIOUS
  <2>1. MintedInv
    BY DEF SessionInit, Init, MintedInv
  <2>2. SweepInv /\ RecordsInv
    BY DEF SessionInit, Init, SweepInv, RecordsInv
  <2>3. \A s \in Steps : pc[Own[s]] = "idle"
    BY DEF SessionInit, Init
  <2>4. at = "create" /\ "mint" \notin posted
    BY DEF SessionInit
  <2>5. SessionInv
    BY <2>3, <2>4 DEF SessionInv, Asked
  <2> QED
    BY <2>1, <2>2, <2>5
<1>2. SessionTypeOK => TypeOK
  BY DEF SessionTypeOK
<1> QED
  BY <1>1, <1>2, SessionTypeCorrect, SessionSteps, MintedKept, SweepKept, RecordsKept,
     SessionKept, PTL DEF SessionSpec

(* The body of a session runs with capabilities of its own for every        *)
(* system, minted once the policy, or an operator, had agreed, whatever     *)
(* stale handlers overlap (client.py:342-361).                              *)
THEOREM BodySafe == SessionSpec => []BodyAuthorised
<1>1. MintedInv /\ SessionInv /\ Authorised => BodyAuthorised
  <2> SUFFICES ASSUME SessionInv, Authorised, at \in {"body", "left", "call_failed"}
               PROVE  /\ \A s \in Systems : caps[<<Own["mint"], s>>] # "none"
                      /\ effect # "require_approval" => effect \in {"allow", "allow_reduced"}
                      /\ effect = "require_approval" =>
                            auto /\ operator /\ Own["approve"] \in approvals
    BY DEF BodyAuthorised
  <2>1. PICK s \in Systems : TRUE
    BY DEF LifecycleAssumption
  <2>2. <<Own["mint"], s>> \in Caps
    BY DEF Caps, Steps
  <2>3. \E c \in Caps : caps[c] # "none"
    BY <2>1, <2>2 DEF SessionInv
  <2> QED
    BY <2>3 DEF SessionInv, Authorised, Cleared, Asked
<1> QED
  BY <1>1, SessionAlways, SessionImplementsLifecycle, AuthorisedSafe, PTL

(* Where a session leaves an active capability it had asked for one, and    *)
(* had it or never learned what became of it (client.py:342-368).           *)
THEOREM LeftoversSafe == SessionSpec => []LeftoversExplained
<1>1. MintedInv /\ SessionInv => LeftoversExplained
  <2> SUFFICES ASSUME MintedInv, SessionInv,
                      NEW s \in Systems, caps[<<Own["mint"], s>>] = "active"
               PROVE  at \in Asked
    BY DEF LeftoversExplained, Asked
  <2>1. <<Own["mint"], s>> \in Caps /\ "mint" \in Steps
    BY DEF Caps, Steps
  <2>2. pc[Own["mint"]] = "done"
    BY <2>1 DEF MintedInv
  <2> QED
    BY <2>1, <2>2 DEF SessionInv
<1> QED
  BY <1>1, SessionAlways, PTL
----------------------------------------------------------------------------
(* Without overlapping handlers a denial of the policy is final.            *)
DeniedInv ==
    (\E p \in Requests : pc[p] = "done" /\ asks[p] = "evaluate") /\ effect = "deny"
      => status = "denied"

LEMMA DeniedKept ==
  ASSUME TypeOK, MintedInv, SweepInv, SerialInv, DeniedInv, [Next]_vars
  PROVE  DeniedInv'
<1> SUFFICES ASSUME NEW q \in Requests, pc'[q] = "done", asks'[q] = "evaluate", effect' = "deny"
             PROVE  status' = "denied"
  BY DEF DeniedInv
<1>0. effect = "deny"
  BY Kept
<1> USE DEF TypeOK, Goto, Flushes
<1>1. CASE pc[q] = "done"
  <2>0. status = "denied" /\ asks[q] = "evaluate"
    BY <1>0, <1>1, Kept DEF DeniedInv
  <2> QED
    BY <2>0 DEF Next, Handle, vars, table, Create, Read, Classify, Evaluate, Approve, Mint,
                Sweep, Close, RevokeRead, RevokeCommit, RollBack, SerialInv, InFlight,
                Expected, SweepInv
<1>2. CASE pc[q] # "done"
  <2>1. Classify(q) \/ Evaluate(q) \/ Approve(q) \/ Mint(q) \/ Close(q) \/ RevokeCommit(q)
    BY <1>2 DEF Next, Handle, vars, Create, Read, Classify, Evaluate, Approve, Mint,
                Sweep, Close, RevokeRead, RevokeCommit, RollBack
  <2>2. Evaluate(q)
    BY <2>1 DEF Classify, Evaluate, Approve, Mint, Close, RevokeCommit, SweepInv
  <2> QED
    BY <1>0, <2>2 DEF Evaluate, StatusFor
<1> QED
  BY <1>1, <1>2

(* Unless handlers overlap, an outcome that names a verdict is the verdict: *)
(* what is reported as denied is denied and has no capability               *)
(* (client.py:315-340, server.py:258-279).                                  *)
THEOREM VerdictsSafe == Serial => (SessionSpec => []VerdictsTrue)
<1> SUFFICES ASSUME Serial PROVE SessionSpec => []VerdictsTrue
  OBVIOUS
<1>1. SessionInit => DeniedInv
  BY DEF SessionInit, Init, DeniedInv
<1>2. TypeOK /\ MintedInv /\ SweepInv /\ SerialInv /\ DeniedInv /\ [Next]_vars => DeniedInv'
  BY DeniedKept
<1>3. Spec => [](TypeOK /\ SweepInv /\ SerialInv)
  BY SerialAlways
<1>4. MintedInv /\ SessionInv /\ DeniedInv /\ Authorised => VerdictsTrue
  <2> SUFFICES ASSUME MintedInv, SessionInv, DeniedInv, Authorised PROVE VerdictsTrue
    OBVIOUS
  <2>1. ASSUME Reply = "denied" PROVE status = "denied" /\ \A c \in Caps : caps[c] = "none"
    <3>1. at = "policy_denied"
      BY <2>1 DEF Reply
    <3>2. effect = "deny" /\ pc[Own["evaluate"]] = "done" /\ asks[Own["evaluate"]] = "evaluate"
      BY <3>1 DEF SessionInv
    <3>3. Own["evaluate"] \in Requests
      BY DEF Steps
    <3> QED
      BY <3>2, <3>3 DEF DeniedInv, Authorised, Cleared
  <2>2. ASSUME Reply = "approval_required"
        PROVE  /\ effect = "require_approval" /\ decisions # {}
               /\ \A s \in Systems : caps[<<Own["mint"], s>>] = "none"
    <3>1. at = "approval_required"
      BY <2>2 DEF Reply
    <3>2. pc[Own["mint"]] = "idle"
      BY <3>1 DEF SessionInv, Asked, Steps
    <3>3. \A s \in Systems : <<Own["mint"], s>> \in Caps
      BY DEF Caps, Steps
    <3> QED
      BY <3>1, <3>2, <3>3 DEF SessionInv, MintedInv
  <2> QED
    BY <2>1, <2>2 DEF VerdictsTrue
<1> QED
  BY <1>1, <1>2, <1>3, <1>4, SessionSteps, SessionAlways, SessionImplementsLifecycle,
     AuthorisedSafe, PTL DEF SessionSpec
=============================================================================
