----------------------------- MODULE TestCases ------------------------------
(***************************************************************************)
(* The operator's inventory of one Target (identities, resources and the   *)
(* endpoints of an imported description), the BOLA cases generated from    *)
(* it, and their direct execution (services/test_execution.py) beside the  *)
(* execution of exact plans, which writes the same status column.          *)
(*                                                                         *)
(* A case is the key the database holds unique: endpoint, actor and        *)
(* resource; its type follows from them, for neither a resource's owner    *)
(* nor an identity's kind is ever updated.  Every row belongs to one       *)
(* Target: a case never crosses Targets, because only rows of one Target   *)
(* are paired.  Cases of research intents are turned away by reject_case   *)
(* before anything below and belong to Verification.                       *)
(***************************************************************************)
EXTENDS Integers, Sequences, FiniteSets

CONSTANTS Identity, Resource, Endpoint, Locator, Caller,
          AuthType,      \* the kind of each identity
          ResourceType,  \* the type of each resource
          BoundType,     \* the type that the only {..._id} of an endpoint's path names, or None
          Document,      \* what an import can say of an endpoint: the locators it declares
          Body,          \* response bodies: JSON document, matching key, bytes
          MaxStored,     \* MAX_STORED_RESPONSE_BYTES
          MultiProcess,  \* settings.execution_topology is "multi_process"
          HumanApproval, \* the Target's revision requires an approved plan
          MaxRuns, None

ASSUME CaseAssumption ==
  /\ AuthType \in [Identity -> {"none", "anonymous", "bearer"}]
  /\ \A e \in Endpoint : BoundType[e] = None \/ BoundType[e] \in {ResourceType[r] : r \in Resource}
  /\ MultiProcess \in BOOLEAN /\ HumanApproval \in BOOLEAN /\ MaxRuns \in Nat

VARIABLES
  identity,  \* identities that exist
  usable,    \* bearer identities whose stored token can be read
  resource,  \* owner of each resource, or None
  endpoint,  \* locators each endpoint declares, or None
  case,      \* status of each case, or "absent"
  run,       \* test runs, in the order of their ids
  exec,      \* direct executions
  planned,   \* cases a plan execution has under way
  overrun    \* history: cases whose status was overwritten under a direct execution

caseVars == <<identity, usable, resource, endpoint, case, run, exec, planned, overrun>>

Case == [endpoint : Endpoint, actor : Identity, resource : Resource]
CaseStatus == {"absent", "pending", "running", "completed", "failed", "blocked"}
Status == {200, 206, 403, 500}
NoExec == [pc |-> "idle"]

\* A row of test_runs: a response, or an error without one.
TestRun == [case : Case, status : Status \cup {None}, body : Body \cup {None}]

CaseInit ==
  /\ identity = {} /\ usable = {}
  /\ resource = [r \in Resource |-> None] /\ endpoint = [e \in Endpoint |-> None]
  /\ case = [c \in Case |-> "absent"] /\ run = <<>>
  /\ exec = [x \in Caller |-> NoExec] /\ planned = {} /\ overrun = {}

-----------------------------------------------------------------------------
(* Inventory                                                               *)

\* A bearer identity is created with its token.
CreateIdentity(i) ==
  /\ i \notin identity
  /\ identity' = identity \cup {i}
  /\ usable' = usable \cup ({i} \cap {j \in Identity : AuthType[j] = "bearer"})
  /\ UNCHANGED <<resource, endpoint, case, run, exec, planned, overrun>>

\* The stored secret of an identity can no longer be read.
LoseToken(i) ==
  /\ i \in usable
  /\ usable' = usable \ {i}
  /\ UNCHANGED <<identity, resource, endpoint, case, run, exec, planned, overrun>>

UpdateToken(i) ==
  /\ i \in identity \ usable /\ AuthType[i] = "bearer"
  /\ usable' = usable \cup {i}
  /\ UNCHANGED <<identity, resource, endpoint, case, run, exec, planned, overrun>>

CreateResource(r, owner) ==
  /\ resource[r] = None /\ owner \in identity
  /\ resource' = [resource EXCEPT ![r] = owner]
  /\ UNCHANGED <<identity, usable, endpoint, case, run, exec, planned, overrun>>

\* A scan that was refused or failed changes nothing; endpoints the document
\* no longer has are kept.
ImportEndpoint(e, declared) ==
  /\ endpoint[e] # declared
  /\ endpoint' = [endpoint EXCEPT ![e] = declared]
  /\ UNCHANGED <<identity, usable, resource, case, run, exec, planned, overrun>>

-----------------------------------------------------------------------------
(* generators/bola.py                                                      *)

OwnershipRelation(i, r) ==
  IF AuthType[i] = "anonymous" THEN "anonymous"
  ELSE IF i = resource[r] THEN "owner" ELSE "cross_owner"

TestType(c) ==
  [owner |-> "owner_baseline", cross_owner |-> "bola_cross_owner",
   anonymous |-> "anonymous_access"][OwnershipRelation(c.actor, c.resource)]

\* Every endpoint of the model is a GET.
ExpectedStatuses(c) ==
  IF TestType(c) = "owner_baseline" THEN {200}
  ELSE IF TestType(c) = "bola_cross_owner" THEN {403, 404} ELSE {401, 403, 404}

Bindable(e, r) == BoundType[e] # None /\ BoundType[e] = ResourceType[r]

Generated ==
  {c \in Case : /\ endpoint[c.endpoint] # None /\ resource[c.resource] # None
                /\ c.actor \in identity /\ Bindable(c.endpoint, c.resource)}

\* Cases that exist keep the status they have.
GenerateCases ==
  /\ \E c \in Generated : case[c] = "absent"
  /\ case' = [c \in Case |-> IF c \in Generated /\ case[c] = "absent" THEN "pending" ELSE case[c]]
  /\ UNCHANGED <<identity, usable, resource, endpoint, run, exec, planned, overrun>>

-----------------------------------------------------------------------------
(* TestExecutionService.execute                                            *)

\* Bytes past the limit are cut off before the body is stored, and a JSON
\* document that was cut is not one any more.
DecodeBody(b) ==
  IF b.bytes > MaxStored THEN [doc |-> None, key |-> None, bytes |-> MaxStored] ELSE b

InFlight(c) == {x \in Caller : exec[x].pc = "network" /\ exec[x].case = c}

\* The write of a status that does not ask what the status is.
Overwrite(c, status, by) ==
  /\ case' = [case EXCEPT ![c] = status]
  /\ overrun' = overrun \cup (IF InFlight(c) \ by # {} THEN {c} ELSE {})

Authenticates(i) == AuthType[i] = "bearer" => i \in usable

\* Everything is read; the status is the one the claim will ask for.
BeginExecution(x, c) ==
  /\ exec[x] = NoExec /\ case[c] \notin {"absent", "running"}
  /\ ~MultiProcess /\ ~HumanApproval
  /\ Bindable(c.endpoint, c.resource)
  /\ exec' = [exec EXCEPT ![x] = [pc |-> "read", case |-> c, observed |-> case[c]]]
  /\ UNCHANGED <<identity, usable, resource, endpoint, case, run, planned, overrun>>

\* The status goes to "blocked" without a claim; the session writes nothing
\* when "blocked" is what it had read.
CredentialFails(x) ==
  /\ exec[x].pc = "read" /\ ~Authenticates(exec[x].case.actor)
  /\ IF exec[x].observed = "blocked" THEN UNCHANGED <<case, overrun>>
     ELSE Overwrite(exec[x].case, "blocked", {x})
  /\ exec' = [exec EXCEPT ![x] = NoExec]
  /\ UNCHANGED <<identity, usable, resource, endpoint, run, planned>>

\* Mutant of ClaimCase: the update does not compare the status it read.
ClaimUnchecked(x) ==
  /\ exec[x].pc = "read" /\ Authenticates(exec[x].case.actor)
  /\ case' = [case EXCEPT ![exec[x].case] = "running"]
  /\ exec' = [exec EXCEPT ![x] = [pc |-> "network", case |-> @.case]]
  /\ UNCHANGED <<identity, usable, resource, endpoint, run, planned, overrun>>

ClaimCase(x) ==
  /\ exec[x].pc = "read" /\ Authenticates(exec[x].case.actor)
  /\ LET c == exec[x].case IN
       IF case[c] = exec[x].observed
       THEN /\ case' = [case EXCEPT ![c] = "running"]
            /\ exec' = [exec EXCEPT ![x] = [pc |-> "network", case |-> c]]
       ELSE exec' = [exec EXCEPT ![x] = NoExec] /\ UNCHANGED case
  /\ UNCHANGED <<identity, usable, resource, endpoint, run, planned, overrun>>

\* The executor denied the request: no run is stored.
ExecutionBlocked(x) ==
  /\ exec[x].pc = "network"
  /\ Overwrite(exec[x].case, "blocked", {x})
  /\ exec' = [exec EXCEPT ![x] = NoExec]
  /\ UNCHANGED <<identity, usable, resource, endpoint, run, planned>>

ExecutionFails(x) ==
  /\ exec[x].pc = "network" /\ Len(run) < MaxRuns
  /\ run' = Append(run, [case |-> exec[x].case, status |-> None, body |-> None])
  /\ Overwrite(exec[x].case, "failed", {x})
  /\ exec' = [exec EXCEPT ![x] = NoExec]
  /\ UNCHANGED <<identity, usable, resource, endpoint, planned>>

ExecutionSucceeds(x, status, body) ==
  /\ exec[x].pc = "network" /\ Len(run) < MaxRuns
  /\ run' = Append(run, [case |-> exec[x].case, status |-> status, body |-> DecodeBody(body)])
  /\ Overwrite(exec[x].case, "completed", {x})
  /\ exec' = [exec EXCEPT ![x] = NoExec]
  /\ UNCHANGED <<identity, usable, resource, endpoint, planned>>

\* The process dies: the case stays "running".
ExecutionDies(x) ==
  /\ exec[x] # NoExec
  /\ exec' = [exec EXCEPT ![x] = NoExec]
  /\ UNCHANGED <<identity, usable, resource, endpoint, case, run, planned, overrun>>

-----------------------------------------------------------------------------
(* The same column as PlanExecution writes it, under the plan's claim.     *)

\* The claim is the plan's: another plan of the case may be under way.
PlanEnds(c) == c \in planned /\ planned' \in {planned, planned \ {c}}

PlanStarts(c) ==
  /\ case[c] # "absent"
  /\ planned' = planned \cup {c}
  /\ Overwrite(c, "running", {})
  /\ UNCHANGED <<identity, usable, resource, endpoint, run, exec>>

PlanBlocked(c) ==
  /\ PlanEnds(c)
  /\ Overwrite(c, "blocked", {})
  /\ UNCHANGED <<identity, usable, resource, endpoint, run, exec>>

PlanFinishes(c) ==
  /\ PlanEnds(c) /\ Len(run) < MaxRuns
  /\ \/ /\ Overwrite(c, "failed", {})
        /\ run' = Append(run, [case |-> c, status |-> None, body |-> None])
     \/ /\ Overwrite(c, "completed", {})
        /\ \E s \in Status, b \in Body : run' = Append(run, [case |-> c, status |-> s, body |-> DecodeBody(b)])
  /\ UNCHANGED <<identity, usable, resource, endpoint, exec>>

CaseNext ==
  \/ \E i \in Identity : CreateIdentity(i) \/ LoseToken(i) \/ UpdateToken(i)
  \/ \E r \in Resource, i \in Identity : CreateResource(r, i)
  \/ \E e \in Endpoint : \E d \in Document : ImportEndpoint(e, d)
  \/ GenerateCases
  \/ \E x \in Caller :
       \/ \E c \in Case : BeginExecution(x, c)
       \/ CredentialFails(x) \/ ClaimCase(x)
       \/ ExecutionBlocked(x) \/ ExecutionFails(x) \/ ExecutionDies(x)
       \/ \E s \in Status, b \in Body : ExecutionSucceeds(x, s, b)
  \/ \E c \in Case : PlanStarts(c) \/ PlanBlocked(c) \/ PlanFinishes(c)

-----------------------------------------------------------------------------
CaseTypeOK ==
  /\ identity \subseteq Identity /\ usable \subseteq identity
  /\ resource \in [Resource -> Identity \cup {None}]
  /\ endpoint \in [Endpoint -> Document \cup {None}]
  /\ case \in [Case -> CaseStatus] /\ planned \subseteq Case /\ overrun \subseteq Case
  /\ \A k \in DOMAIN run : run[k].case \in Case
  /\ \A x \in Caller : exec[x] = NoExec \/ exec[x].case \in Case

\* Two direct executions of a case are never on the network together, unless
\* a write that did not ask for the status came under one of them: the write
\* of a plan execution, or of an execution that found no credential.  Those
\* writes are the only hole in the claim by status.
OneInFlight == \A c \in Case \ overrun : Cardinality(InFlight(c)) <= 1
=============================================================================
