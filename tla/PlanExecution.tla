--------------------------- MODULE PlanExecution ---------------------------
(***************************************************************************)
(* PlanExecutionService.execute: concurrent calls that execute one         *)
(* ExecutionPlan through the policy-enforced executor, coordinated by the  *)
(* rows of PlanCoordination.  A call is a worker; pc[w] names the          *)
(* transaction or external call it makes next.  Any statement may fail, its*)
(* commit may succeed while the answer is lost, and a call may die at any  *)
(* point and leave its rows behind.                                        *)
(***************************************************************************)
EXTENDS PlanCoordination

CONSTANTS
  MaxRetries,       \* max_retries of the coordination services
  RequireApproval   \* revision.require_human_execution_approval

ASSUME ExecutionAssumption ==
  /\ MaxRetries \in Nat \ {0}
  /\ RequireApproval \in BOOLEAN

VARIABLES
  auth,        \* the authorization of the plan's Target, see AuthState
  approved,    \* is the latest exact ExecutionPlanApprovalRecord "approved"?
  pc,          \* next transaction or external call of each call
  handle,      \* fencing_generation of each call's ClaimHandle, 0 for none
  tries,       \* failed attempts in the current retry loop
  out,         \* outcome the call carries, its reply once it is idle
  caseStatus,  \* TestCase.status
  audit,       \* SafetyDecisionRecord rows, see AuditRecord
  requests,    \* history: number of HTTP requests sent for this plan
  sender       \* history: generation of the call that sent the last one

workerVars == <<pc, handle, tries, out>>
vars == <<claim, progress, cancelled, testRun, auth, approved, pc, handle,
          tries, out, caseStatus, audit, requests, sender>>

(* "exact": the Target is enabled and bound to the plan's active revision,  *)
(* and the policy engine allows the request.  "unscoped": bound and active,  *)
(* but a scope, window or method rule denies it.  "invalid": the Target is   *)
(* disabled or bound elsewhere, or the revision was revoked or superseded.   *)
AuthState == {"exact", "unscoped", "invalid"}
PlannedStatus == {"generated", "running", "blocked", "completed", "failed"}

Label == {"idle", "canonical", "precancel", "preauth", "preapproval",
          "acquire", "unavailable", "recheck", "recancel", "prepare",
          "running", "rate", "renew", "refresh", "reapproval", "observe",
          "mark", "network", "finish", "deny", "release", "block",
          "postfail"}

Out == {"none", "succeeded", "failed", "result", "unpersisted", "blocked",
        "denied", "in_doubt", "error"}

(* The audit rows a property tells apart: the decisions that allow a         *)
(* request, the executions that were blocked, and the outcomes committed     *)
(* with a TestRun.  Records of a denied decision, of a lost result and of a  *)
(* failed cleanup are left out: nothing reads them.                          *)
AuditRecord ==
  [stage : {"policy", "execution"},
   outcome : {"allowed", "blocked", "succeeded", "failed"},
   generation : Generation]

TypeOK ==
  /\ RowsTypeOK
  /\ auth \in AuthState
  /\ approved \in BOOLEAN
  /\ pc \in [Worker -> Label]
  /\ handle \in [Worker -> Generation]
  /\ tries \in [Worker -> 0 .. MaxRetries - 1]
  /\ out \in [Worker -> Out]
  /\ caseStatus \in PlannedStatus
  /\ audit \subseteq AuditRecord
  /\ requests \in Nat
  /\ sender \in Generation

Init ==
  /\ RowsInit
  /\ auth = "exact"
  /\ approved = FALSE
  /\ pc = [w \in Worker |-> "idle"]
  /\ handle = [w \in Worker |-> 0]
  /\ tries = [w \in Worker |-> 0]
  /\ out = [w \in Worker |-> "none"]
  /\ caseStatus = "generated"
  /\ audit = {}
  /\ requests = 0
  /\ sender = 0

-----------------------------------------------------------------------------
(* Control of a call                                                       *)

Goto(w, label) == pc' = [pc EXCEPT ![w] = label]

\* Leave a retry loop.
Proceed(w, label) == Goto(w, label) /\ tries' = [tries EXCEPT ![w] = 0]

\* Release the claim first and do after it what o stands for.
ReleaseThen(w, o) == Proceed(w, "release") /\ out' = [out EXCEPT ![w] = o]

BlockedRecord(w) ==
  [stage |-> "execution", outcome |-> "blocked", generation |-> handle[w]]

\* Where a call goes when a coordination service has used up its retries.
GiveUp(w) ==
  \/ pc[w] \in {"precancel", "acquire"} /\ Proceed(w, "block") /\ UNCHANGED out
  \/ pc[w] \in {"recancel", "prepare"} /\ ReleaseThen(w, "blocked")
  \/ pc[w] \in {"renew", "mark"} /\ Proceed(w, "deny") /\ UNCHANGED out

\* One attempt of a retry loop raised: try again, or give up.
AttemptRaises(w) ==
  IF tries[w] + 1 < MaxRetries
  THEN tries' = [tries EXCEPT ![w] = @ + 1] /\ UNCHANGED <<pc, out>>
  ELSE GiveUp(w)

-----------------------------------------------------------------------------
(* Preflight: self.db reads, ended by a commit before the claim            *)

Start(w) ==
  /\ pc[w] = "idle"
  /\ Goto(w, "canonical")
  /\ handle' = [handle EXCEPT ![w] = 0]
  /\ out' = [out EXCEPT ![w] = "none"]
  /\ UNCHANGED <<rowVars, auth, approved, tries, caseStatus, audit, requests, sender>>

\* A plan that already has its canonical result returns it.
CanonicalLookup(w) ==
  /\ pc[w] = "canonical"
  /\ IF testRun # NoRun
     THEN Goto(w, "idle") /\ out' = [out EXCEPT ![w] = "result"]
     ELSE Goto(w, "precancel") /\ UNCHANGED out
  /\ UNCHANGED <<rowVars, auth, approved, handle, tries, caseStatus, audit,
                 requests, sender>>

\* The first get_cancellation, in a session of its own.
PreflightCancellation(w) ==
  /\ pc[w] = "precancel"
  /\ Proceed(w, IF cancelled THEN "block" ELSE "preauth")
  /\ UNCHANGED <<rowVars, auth, approved, handle, out, caseStatus, audit,
                 requests, sender>>

\* Target, revision and provenance checks.
PreflightAuthorization(w) ==
  /\ pc[w] = "preauth"
  /\ Goto(w, IF auth \in {"exact", "unscoped"} THEN "preapproval" ELSE "block")
  /\ UNCHANGED <<rowVars, auth, approved, handle, tries, out, caseStatus,
                 audit, requests, sender>>

\* Approval, then the credential, which lives outside this model and may be
\* unusable at any time.
PreflightApproval(w) ==
  /\ pc[w] = "preapproval"
  /\ \/ /\ RequireApproval => approved
        /\ Goto(w, "acquire")
     \/ Goto(w, "block")
  /\ UNCHANGED <<rowVars, auth, approved, handle, tries, out, caseStatus,
                 audit, requests, sender>>

-----------------------------------------------------------------------------
(* Claim, second look at result and cancellation, progress                 *)

Acquire(w) ==
  /\ pc[w] = "acquire"
  /\ Acquirable
  /\ claim.generation < MaxGeneration
  /\ claim' = AcquiredBy(w)
  /\ \/ /\ handle' = [handle EXCEPT ![w] = claim.generation + 1]
        /\ Proceed(w, "recheck")
        /\ UNCHANGED out
     \/ AttemptRaises(w) /\ UNCHANGED handle   \* committed, answer lost
  /\ UNCHANGED <<progress, cancelled, testRun, auth, approved, caseStatus,
                 audit, requests, sender>>

\* Mutant of AcquireUnavailable: polls until the claim is free.
AcquireWaits(w) ==
  /\ pc[w] = "acquire"
  /\ ~Acquirable
  /\ Proceed(w, "canonical")
  /\ UNCHANGED <<rowVars, auth, approved, handle, out, caseStatus, audit,
                 requests, sender>>

AcquireUnavailable(w) ==
  /\ pc[w] = "acquire"
  /\ ~Acquirable
  /\ Proceed(w, "unavailable")
  /\ UNCHANGED <<rowVars, auth, approved, handle, out, caseStatus, audit,
                 requests, sender>>

\* Somebody else holds the claim: return their result if it is there.  The
\* lookup opens a fresh session and may fail, which blocks as well.
UnavailableLookup(w) ==
  /\ pc[w] = "unavailable"
  /\ \/ /\ testRun # NoRun
        /\ Goto(w, "idle")
        /\ out' = [out EXCEPT ![w] = "result"]
     \/ Goto(w, "block") /\ UNCHANGED out
  /\ UNCHANGED <<rowVars, auth, approved, handle, tries, caseStatus, audit,
                 requests, sender>>

\* With the claim held, look for a result again, in a fresh session.
RecheckCanonical(w) ==
  /\ pc[w] = "recheck"
  /\ \/ testRun # NoRun /\ ReleaseThen(w, "result")
     \/ testRun = NoRun /\ Proceed(w, "recancel") /\ UNCHANGED out
     \/ ReleaseThen(w, "blocked")   \* CanonicalResultLookupError
  /\ UNCHANGED <<rowVars, auth, approved, handle, caseStatus, audit,
                 requests, sender>>

RecheckCancellation(w) ==
  /\ pc[w] = "recancel"
  /\ IF cancelled
     THEN ReleaseThen(w, "blocked")
     ELSE Proceed(w, "prepare") /\ UNCHANGED out
  /\ UNCHANGED <<rowVars, auth, approved, handle, caseStatus, audit,
                 requests, sender>>

PrepareAttempt(w) ==
  /\ pc[w] = "prepare"
  /\ \/ /\ Preparation(w, handle[w]) = "prepared"
        /\ progress' = PreparedProgress(handle[w])
        /\ \/ Proceed(w, "running") /\ UNCHANGED out
           \/ AttemptRaises(w)   \* committed, answer lost
     \/ /\ Preparation(w, handle[w]) = "in_doubt"
        /\ ReleaseThen(w, "in_doubt")
        /\ UNCHANGED progress
     \/ /\ Preparation(w, handle[w]) = "lost"
        /\ ReleaseThen(w, "blocked")
        /\ UNCHANGED progress
  /\ UNCHANGED <<claim, cancelled, testRun, auth, approved, handle,
                 caseStatus, audit, requests, sender>>

\* test_case.status = "running" and the active scopes, one commit; then the
\* executor's first evaluation, of the Target and revision read in preflight
\* (the session keeps them) with these scopes.
SetRunning(w) ==
  /\ pc[w] = "running"
  /\ caseStatus' = "running"
  /\ Goto(w, IF auth = "unscoped" THEN "deny" ELSE "rate")
  /\ UNCHANGED <<rowVars, auth, approved, handle, tries, out, audit,
                 requests, sender>>

-----------------------------------------------------------------------------
(* PolicyEnforcedHTTPExecutor.execute with the callbacks it is given        *)

\* rate_limiter.wait: a slot is reserved and slept for, or the reservation
\* cannot be made.
RateWait(w) ==
  /\ pc[w] = "rate"
  /\ Goto(w, "renew") \/ Goto(w, "deny")
  /\ UNCHANGED <<rowVars, auth, approved, handle, tries, out, caseStatus,
                 audit, requests, sender>>

\* refresh_authorization begins by renewing the lease.
Renew(w) ==
  /\ pc[w] = "renew"
  /\ \/ /\ Current(w, handle[w])
        /\ Proceed(w, "refresh")
     \/ /\ ~Current(w, handle[w])
        /\ Proceed(w, "deny")
  /\ UNCHANGED <<rowVars, auth, approved, handle, out, caseStatus, audit,
                 requests, sender>>

\* The fresh session loads Target, revision and scopes.  The policy engine
\* judges what is loaded here, after the approval has been read as well.  An
\* error of the database is not an ExecutionBlockedError: it leaves the call
\* through the finally clause, with no audit record.
Refresh(w) ==
  /\ pc[w] = "refresh"
  /\ \/ auth = "exact" /\ Proceed(w, "reapproval") /\ UNCHANGED out
     \/ auth # "exact" /\ Proceed(w, "deny") /\ UNCHANGED out
     \/ ReleaseThen(w, "error")
  /\ UNCHANGED <<rowVars, auth, approved, handle, caseStatus, audit,
                 requests, sender>>

\* An approval that was required in preflight must still be the latest
\* decision.
RefreshApproval(w) ==
  /\ pc[w] = "reapproval"
  /\ Goto(w, IF RequireApproval /\ ~approved THEN "deny" ELSE "observe")
  /\ UNCHANGED <<rowVars, auth, approved, handle, tries, out, caseStatus,
                 audit, requests, sender>>

\* Mutant of ObserveAllowed: a failed audit write does not stop the request.
ObserveBestEffort(w) ==
  /\ pc[w] = "observe"
  /\ audit' \in {audit, audit \cup {[stage |-> "policy", outcome |-> "allowed",
                                     generation |-> handle[w]]}}
  /\ Goto(w, "mark")
  /\ UNCHANGED <<rowVars, auth, approved, handle, tries, out, caseStatus,
                 requests, sender>>

\* The observer commits the "allowed" decision before the network is used;
\* without that record the request is blocked.
ObserveAllowed(w) ==
  /\ pc[w] = "observe"
  /\ \/ /\ audit' = audit \cup {[stage |-> "policy", outcome |-> "allowed",
                                  generation |-> handle[w]]}
        /\ Goto(w, "mark") \/ Goto(w, "deny")   \* network_mode is not private
     \/ UNCHANGED audit /\ Goto(w, "deny")
  /\ UNCHANGED <<rowVars, auth, approved, handle, tries, out, caseStatus,
                 requests, sender>>

\* before_network.
MarkNetworkStarted(w) ==
  /\ pc[w] = "mark"
  /\ \/ /\ MayStartNetwork(w, handle[w])
        /\ progress' = StartedProgress
        /\ \/ Proceed(w, "network") /\ UNCHANGED out
           \/ AttemptRaises(w)   \* committed, answer lost
     \/ /\ ~MayStartNetwork(w, handle[w])
        /\ Proceed(w, "deny")
        /\ UNCHANGED <<progress, out>>
  /\ UNCHANGED <<claim, cancelled, testRun, auth, approved, handle,
                 caseStatus, audit, requests, sender>>

\* NetworkGateway.request: refused before anything is sent (admission, kill
\* switch, destination policy, connect), or sent once, with a response or an
\* error.  Every failure is a NetworkGatewayError.
NetworkRequest(w) ==
  /\ pc[w] = "network"
  /\ Goto(w, "finish")
  /\ \/ /\ out' = [out EXCEPT ![w] = "failed"]
        /\ UNCHANGED <<requests, sender>>
     \/ /\ \E o \in Outcome : out' = [out EXCEPT ![w] = o]
        /\ requests' = requests + 1
        /\ sender' = handle[w]
  /\ UNCHANGED <<rowVars, auth, approved, handle, tries, caseStatus, audit>>

-----------------------------------------------------------------------------
(* Results and cleanup                                                     *)

Finished(w) ==
  [stage |-> "execution", outcome |-> out[w], generation |-> handle[w]]

\* _finish: assert_current locks the claim row, and the TestRun, its audit
\* record and the TestCase status commit together.  When the commit's answer
\* is lost the call reports a failure although the result is there.  A
\* second TestRun would violate the unique key: the canonical one is
\* returned.
PersistResult(w) ==
  /\ pc[w] = "finish"
  /\ Current(w, handle[w])
  /\ Goto(w, "release")
  /\ IF testRun = NoRun
     THEN /\ testRun' = [generation |-> handle[w], outcome |-> out[w]]
          /\ caseStatus' = IF out[w] = "succeeded" THEN "completed" ELSE "failed"
          /\ audit' = audit \cup {Finished(w)}
          /\ \E o \in {"result", "unpersisted"} : out' = [out EXCEPT ![w] = o]
     ELSE /\ out' = [out EXCEPT ![w] = "result"]
          /\ UNCHANGED <<testRun, caseStatus, audit>>
  /\ UNCHANGED <<claim, progress, cancelled, auth, approved, handle, tries,
                 requests, sender>>

\* Mutant of ResultLost: the TestCase status is saved without the TestRun.
ResultLostMarksCase(w) ==
  /\ pc[w] = "finish"
  /\ Goto(w, "release")
  /\ out' = [out EXCEPT ![w] = "unpersisted"]
  /\ caseStatus' = "failed"
  /\ UNCHANGED <<rowVars, auth, approved, handle, tries, audit, requests, sender>>

\* The claim was lost, or the transaction failed and was rolled back.
ResultLost(w) ==
  /\ pc[w] = "finish"
  /\ Goto(w, "release")
  /\ out' = [out EXCEPT ![w] = "unpersisted"]
  /\ UNCHANGED <<rowVars, auth, approved, handle, tries, caseStatus, audit,
                 requests, sender>>

\* The handler of ExecutionBlockedError: status and audit record commit
\* together, or the commit raises.
Deny(w) ==
  /\ pc[w] = "deny"
  /\ \/ /\ caseStatus' = "blocked"
        /\ audit' = audit \cup {BlockedRecord(w)}
        /\ ReleaseThen(w, "denied") \/ ReleaseThen(w, "error")
     \/ ReleaseThen(w, "error") /\ UNCHANGED <<caseStatus, audit>>
  /\ UNCHANGED <<rowVars, auth, approved, handle, requests, sender>>

\* What a call does once its claim is released.
AfterRelease(w) ==
  \/ out[w] = "blocked" /\ Proceed(w, "block")
  \/ out[w] = "in_doubt" /\ Proceed(w, "postfail")
  \/ out[w] \notin {"blocked", "in_doubt"} /\ Proceed(w, "idle")

\* _release_claim: a claim that is no longer this call's is left alone.
ReleaseClaim(w) ==
  /\ pc[w] = "release"
  /\ claim' = IF Releasable(w, handle[w]) THEN ReleasedClaim ELSE claim
  /\ AfterRelease(w)
  /\ UNCHANGED <<progress, cancelled, testRun, auth, approved, handle, out,
                 caseStatus, audit, requests, sender>>

\* The release could not be completed, or not be confirmed: the call goes
\* on; if the row kept its owner, the lease frees the claim.
ReleaseFails(w) ==
  /\ pc[w] = "release"
  /\ claim' = claim \/ (Releasable(w, handle[w]) /\ claim' = ReleasedClaim)
  /\ AfterRelease(w)
  /\ UNCHANGED <<progress, cancelled, testRun, auth, approved, handle, out,
                 caseStatus, audit, requests, sender>>

\* _raise_preflight_blocked: raises whether or not its record was written.
Block(w) ==
  /\ pc[w] = "block"
  /\ audit' \in {audit, audit \cup {BlockedRecord(w)}}
  /\ Goto(w, "idle")
  /\ out' = [out EXCEPT ![w] = "blocked"]
  /\ UNCHANGED <<rowVars, auth, approved, handle, tries, caseStatus,
                 requests, sender>>

\* _raise_post_network_failure for a plan that is in doubt.
PostNetworkFailure(w) ==
  /\ pc[w] = "postfail"
  /\ Goto(w, "idle")
  /\ UNCHANGED <<rowVars, auth, approved, handle, tries, out, caseStatus,
                 audit, requests, sender>>

-----------------------------------------------------------------------------
(* Failures and the rest of the platform                                   *)

\* An attempt of a coordination service fails and changes nothing: a lost
\* connection, lock_timeout or statement_timeout.
CoordinationFault(w) ==
  /\ pc[w] \in {"precancel", "acquire", "recancel", "prepare", "renew", "mark"}
  /\ AttemptRaises(w)
  /\ UNCHANGED <<rowVars, auth, approved, handle, caseStatus, audit,
                 requests, sender>>

\* The process dies, or an exception leaves execute() before the try that
\* releases the claim.  The rows stay as they are.
Crash(w) ==
  /\ pc[w] # "idle"
  /\ Proceed(w, "idle")
  /\ handle' = [handle EXCEPT ![w] = 0]
  /\ out' = [out EXCEPT ![w] = "none"]
  /\ UNCHANGED <<rowVars, auth, approved, caseStatus, audit, requests, sender>>

\* record_plan_decision: approval and revocation of the exact plan.
RecordDecision ==
  /\ approved' \in BOOLEAN
  /\ UNCHANGED <<rowVars, auth, workerVars, caseStatus, audit, requests, sender>>

\* Changes to the Target, its scopes and its revision, see AuthState.
AuthorizationChange ==
  /\ auth' \in AuthState \ {auth}
  /\ UNCHANGED <<rowVars, approved, workerVars, caseStatus, audit, requests, sender>>

Step(w) ==
  \/ CanonicalLookup(w) \/ PreflightCancellation(w)
  \/ PreflightAuthorization(w) \/ PreflightApproval(w)
  \/ Acquire(w) \/ AcquireUnavailable(w) \/ UnavailableLookup(w)
  \/ RecheckCanonical(w) \/ RecheckCancellation(w) \/ PrepareAttempt(w)
  \/ SetRunning(w) \/ RateWait(w) \/ Renew(w) \/ Refresh(w)
  \/ RefreshApproval(w) \/ ObserveAllowed(w)
  \/ MarkNetworkStarted(w) \/ NetworkRequest(w)
  \/ PersistResult(w) \/ ResultLost(w) \/ Deny(w)
  \/ ReleaseClaim(w) \/ ReleaseFails(w) \/ Block(w) \/ PostNetworkFailure(w)
  \/ CoordinationFault(w)

Environment ==
  \/ /\ LeaseExpires \/ RequestCancel
     /\ UNCHANGED <<auth, approved, workerVars, caseStatus, audit, requests, sender>>
  \/ RecordDecision
  \/ AuthorizationChange

Next ==
  \/ \E w \in Worker : Start(w) \/ Step(w) \/ Crash(w)
  \/ Environment

Spec == Init /\ [][Next]_vars

\* A call that is running is scheduled until it returns or dies.
FairSpec == Spec /\ \A w \in Worker : WF_vars(Step(w))

-----------------------------------------------------------------------------
(* Properties                                                              *)

\* However calls interleave, fail, die and are repeated, at most one HTTP
\* request is ever sent for the plan: the progress row lets one generation
\* cross the network boundary and nothing moves it back.
AtMostOneRequest == requests <= 1

\* A cancellation that was accepted excludes the network for ever: no
\* request, no started progress row and no result, whichever of
\* request_cancel and mark_network_started takes the plan's lock first.
CancelledNeverSent ==
  cancelled => /\ requests = 0
               /\ progress.phase # "network_started"
               /\ testRun = NoRun

\* The canonical result was written by the generation that crossed the
\* network boundary, and a success by the one that sent the request: a call
\* whose lease was taken over writes nothing.
ResultFromSender ==
  testRun # NoRun =>
    /\ progress = [phase |-> "network_started", generation |-> testRun.generation]
    /\ testRun.outcome = "succeeded" => sender = testRun.generation

\* Before a request is sent, the "allowed" policy decision of that very
\* attempt is committed to the safety audit.
SentIsAudited ==
  sender # 0 => [stage |-> "policy", outcome |-> "allowed",
                 generation |-> sender] \in audit

\* An execution that the audit records as blocked sent nothing, a blocked
\* call that had already crossed the boundary included.
BlockedNeverSent ==
  \A r \in audit :
    r.stage = "execution" /\ r.outcome = "blocked" /\ r.generation # 0
      => sender # r.generation

\* The safety audit tells the truth: what was sent is in it as allowed, and
\* what is in it as blocked was not sent, although the records are committed
\* before and after the request, by calls that may die in between.
AuditTrue == SentIsAudited /\ BlockedNeverSent

\* A call returns a TestRun only when the canonical one exists, and the
\* TestCase is completed or failed only with it.
RepliesAreCanonical ==
  /\ \A w \in Worker : out[w] = "result" => testRun # NoRun
  /\ caseStatus \in {"completed", "failed"} => testRun # NoRun

\* The one stored result is the sender's, and callers are given only it.
ResultTrue == ResultFromSender /\ RepliesAreCanonical

\* The canonical result is never replaced, and a progress row that is past
\* the network boundary never changes: a later attempt cannot reopen it.
BoundaryIsFinal ==
  [][/\ testRun # NoRun => testRun' = testRun
     /\ progress.phase = "network_started" => progress' = progress]_vars

PlanStatus ==
  IF testRun # NoRun THEN "settled"
  ELSE IF progress.phase = "network_started" THEN "crossed"
  ELSE IF cancelled THEN "cancelled"
  ELSE "open"

\* The plan as an operator sees it, see PlanLifecycle: all of the above is one
\* open plan that is cancelled, or crosses the network boundary once, sends at
\* most one request and settles.
Lifecycle == INSTANCE PlanLifecycle WITH
  status <- PlanStatus,
  outcome <- testRun.outcome,
  sent <- requests

\* Execution implements the lifecycle: no interleaving of calls, lease
\* takeovers, lost answers, crashes and cancellations shows anything else.
ImplementsLifecycle == Lifecycle!Spec

\* Every call ends, retry loops included.
CallsEnd == \A w \in Worker : pc[w] # "idle" ~> pc[w] = "idle"
=============================================================================
