--------------------------- MODULE PipelineProofs ---------------------------
(***************************************************************************)
(* Theorems about TestCases, AccessFacts and Findings working on one       *)
(* database at the same time, for any inventory and any number of requests *)
(* under way.                                                              *)
(*                                                                         *)
(* EvidenceOfPair is about runs, and holds because runs, and the owner of  *)
(* a resource that has runs, never change; ReportsConfirmed holds because  *)
(* everything a report read stays as it was while the finding is locked.   *)
(* PreviewVouched holds because every verified row, stored or about to be, *)
(* is a human's; PastSettles because a row is stamped with the instant at  *)
(* which its transaction began; InferenceYields because the locators that  *)
(* an inference found free stay free while it holds the endpoint's row.    *)
(*                                                                         *)
(* The last part is about PlanExecution, which runs a planned case.        *)
(***************************************************************************)
EXTENDS PlanExecution, AccessFacts, Findings, FiniteSetTheorems, SequenceTheorems, TLAPS

RunRow == [case : Case, status : Status \cup {None}, body : {DecodeBody(b) : b \in Body} \cup {None}]

\* Rows that were generated, run or claimed belong to resources that have an
\* owner, and every run is one of at most MaxRuns.
CaseInv ==
  /\ case \in [Case -> CaseStatus] /\ resource \in [Resource -> Identity \cup {None}]
  /\ identity \subseteq Identity
  /\ run \in Seq(RunRow) /\ Len(run) <= MaxRuns
  /\ exec = [x \in Caller |-> exec[x]]
  /\ planned \subseteq Case
  /\ \A c \in Case : case[c] # "absent" => resource[c.resource] # None
  /\ \A k \in DOMAIN run : case[run[k].case] # "absent"
  /\ \A c \in planned : case[c] # "absent"
  /\ \A x \in Caller : exec[x] # NoExec =>
       exec[x].pc \in {"read", "network"} /\ exec[x].case \in Case /\ case[exec[x].case] # "absent"

\* The claim by status: who is on the network has set "running", and who only
\* read the case has read something else.
ClaimInv ==
  /\ \A x \in Caller : exec[x].pc = "read" => exec[x].observed # "running"
  /\ \A c \in Case \ overrun : \A x, y \in Caller :
       x \in InFlight(c) /\ y \in InFlight(c) => x = y /\ case[c] = "running"

\* Two runs that were found to be a finding.
Pair(p, b) == p \in DOMAIN run /\ b \in DOMAIN run /\ ValidPair(p, b) /\ Classify(p, b) = "potential_bola"

IsRow(f) == f = [status |-> f.status, baseline |-> f.baseline, confidence |-> f.confidence,
                 evidence |-> f.evidence]

\* What is stored, and what an analysis is about to store.
PairInv ==
  /\ finding = [p \in RunId |-> finding[p]] /\ analyzing = [a \in Analyst |-> analyzing[a]]
  /\ \A p \in RunId : finding[p].status \in FindingStatus
  /\ \A p \in RunId : finding[p] # NoFinding =>
       /\ IsRow(finding[p]) /\ finding[p].status # "none"
       /\ finding[p].baseline # None => Pair(p, finding[p].baseline)
       /\ finding[p].baseline # None /\ finding[p].evidence # None =>
            /\ finding[p].evidence = Evidence(p, finding[p].baseline)
            /\ finding[p].confidence = Confidence(p, finding[p].baseline)
  /\ \A a \in Analyst : analyzing[a] # Idle => Pair(analyzing[a].probe, analyzing[a].baseline)

\* A review under way is of a finding that exists.
ReviewInv ==
  /\ reviewing = [v \in Reviewer |-> reviewing[v]]
  /\ \A v \in Reviewer : reviewing[v] # Idle =>
       /\ reviewing[v].probe \in RunId /\ reviewing[v].status \in ReviewStatus
       /\ finding[reviewing[v].probe] # NoFinding

\* What a report has read is so until it is written: the finding is locked.
ReportInv ==
  /\ reporting = [g \in Reporter |-> reporting[g]] /\ advice = [p \in RunId |-> advice[p]]
  /\ \A g \in Reporter : reporting[g] # Idle =>
       LET p == reporting[g].probe IN
       /\ p \in RunId
       /\ finding[p].status = "confirmed"
       /\ reporting[g].advice = advice[p]
       /\ reporting[g].version = Cardinality(VersionsOf(p)) + 1
       /\ \A h \in Reporter : reporting[h].probe = p => h = g

\* The inductive invariant of the cases and the findings.
IInv == CaseInv /\ ClaimInv /\ PairInv /\ ReviewInv /\ ReportInv

\* A row of the assertions; an observation has no end.
AssertionRow ==
  [resource : Resource, identity : Identity, relationship : Relationship, access : ExpectedAccess,
   provenance : AssertionProvenance, state : {"candidate", "verified", "rejected"},
   window : Window \cup {Always}, at : Nat, source : Nat, reviewed : Nat]

\* A human's own word, an observation, or a verdict on an observation.
Grounded(a) ==
  \/ a.reviewed = 0 /\ a.provenance = "human_verified" /\ a.state = "verified"
  \/ a.reviewed = 0 /\ a.provenance = "observed_baseline" /\ a.state = "candidate"
  \/ /\ a.reviewed \in DOMAIN assertion /\ assertion[a.reviewed].provenance = "observed_baseline"
     /\ a.provenance = "human_verified"

Asserts(o) == tx[o].kind \in {"assert", "derive", "review"}
Locks(o) == tx[o].kind \in {"infer", "bind"}

FactTables ==
  /\ now \in Nat /\ assertion \in Seq(AssertionRow)
  /\ binding = [k \in BindingKey |-> binding[k]] /\ tx = [o \in Operator |-> tx[o]]
  /\ \A o \in Operator : tx[o].kind = "open" => tx[o].at \in Nat

\* Rows that are stored, or about to be, are grounded, and those about to be
\* have the instant at which their transaction began.
RowInv ==
  /\ \A n \in DOMAIN assertion : Grounded(assertion[n])
  /\ \A o \in Operator : Asserts(o) =>
       tx[o].row \in AssertionRow /\ Grounded(tx[o].row) /\ tx[o].at = tx[o].row.at

\* One transaction at a time has an endpoint's row, and the locators that an
\* inference found free are still free.
EndpointInv ==
  /\ \A o, p \in Operator : Locks(o) /\ Locks(p) /\ tx[o].endpoint = tx[p].endpoint => o = p
  /\ \A o \in Operator : tx[o].kind = "infer" =>
       \A l \in tx[o].locators : BindingsAt(tx[o].endpoint, l) = {}

\* The inductive invariant of the facts.
FactInv == FactTables /\ RowInv /\ EndpointInv

-----------------------------------------------------------------------------
(* The composition: the parts of the service work on one database.         *)

\* A database from before findings had a baseline or evidence rows: no
\* request is under way, its inventory is consistent, its bindings are what
\* operators made of them, and its findings name no baseline or have no
\* evidence.
Legacy ==
  /\ CaseInv
  /\ exec = [x \in Caller |-> NoExec] /\ overrun = {}
  /\ finding = [p \in RunId |-> finding[p]]
  /\ \A p \in RunId : finding[p] # NoFinding =>
       /\ IsRow(finding[p]) /\ finding[p].status \in FindingStatus \ {"none"}
       /\ finding[p].baseline # None => Pair(p, finding[p].baseline) /\ finding[p].evidence = None
  /\ advice = [p \in RunId |-> 0] /\ report = {}
  /\ analyzing = [a \in Analyst |-> Idle] /\ reviewing = [v \in Reviewer |-> Idle]
  /\ advising = [d \in Adviser |-> Idle] /\ reporting = [g \in Reporter |-> Idle]
  /\ now = 0 /\ assertion = <<>> /\ tx = [o \in Operator |-> NoTx]
  /\ binding \in [BindingKey -> ReviewState \cup {None}]

PipelineInit == (CaseInit /\ FactInit /\ FindingInit) \/ Legacy

\* An import waits for the transactions that have the endpoint's row.
LocksRespected == \A e \in Endpoint : EndpointLocked(e) => endpoint'[e] = endpoint[e]

PipelineNext ==
  \/ CaseNext /\ LocksRespected /\ UNCHANGED <<factVars, findingVars>>
  \/ (BindingNext \/ AssertionNext) /\ UNCHANGED <<caseVars, findingVars>>
  \/ FindingNext /\ UNCHANGED <<caseVars, factVars>>

pipelineVars == <<caseVars, factVars, findingVars>>

PipelineSpec == PipelineInit /\ [][PipelineNext]_pipelineVars

-----------------------------------------------------------------------------
(* Initial states                                                          *)

LEMMA InitInv == PipelineInit => IInv
<1>1. ASSUME CaseInit, FindingInit PROVE IInv
  <2> USE <1>1 DEF CaseInit, FindingInit
  <2>1. run \in Seq(RunRow) /\ Len(run) <= MaxRuns /\ DOMAIN run = {}
    BY CaseAssumption
  <2>2. CaseInv
    BY <2>1 DEF CaseInv, CaseStatus
  <2>3. ClaimInv
    BY DEF ClaimInv, InFlight, NoExec
  <2>4. PairInv
    BY DEF PairInv, NoFinding, FindingStatus
  <2>5. ReviewInv /\ ReportInv
    BY DEF ReviewInv, ReportInv
  <2> QED
    BY <2>2, <2>3, <2>4, <2>5 DEF IInv
<1>2. ASSUME Legacy PROVE IInv
  <2> USE <1>2 DEF Legacy
  <2>1. ClaimInv
    BY DEF ClaimInv, InFlight, NoExec
  <2>2. PairInv
    BY DEF PairInv, NoFinding, FindingStatus
  <2>3. ReviewInv /\ ReportInv
    BY DEF ReviewInv, ReportInv
  <2> QED
    BY <2>1, <2>2, <2>3 DEF IInv
<1> QED
  BY <1>1, <1>2 DEF PipelineInit

-----------------------------------------------------------------------------
(* Runs stand still                                                        *)

\* Runs are appended, and a resource with a run keeps its owner.
RunsKept ==
  /\ DOMAIN run \subseteq DOMAIN run'
  /\ \A k \in DOMAIN run :
       run'[k] = run[k] /\ resource'[run[k].case.resource] = resource[run[k].case.resource]

\* So what an analysis computes of two runs is the same for ever.
LEMMA PairKept ==
  ASSUME RunsKept, NEW p \in DOMAIN run, NEW b \in DOMAIN run
  PROVE  /\ Pair(p, b) => Pair(p, b)'
         /\ Evidence(p, b)' = Evidence(p, b) /\ Confidence(p, b)' = Confidence(p, b)
<1>1. /\ run'[p] = run[p] /\ run'[b] = run[b] /\ p \in DOMAIN run' /\ b \in DOMAIN run'
      /\ resource'[run[b].case.resource] = resource[run[b].case.resource]
  BY DEF RunsKept
<1>2. TestType(run[b].case)' = TestType(run[b].case)
  BY <1>1 DEF TestType, OwnershipRelation
<1>3. ValidPair(p, b)' <=> ValidPair(p, b)
  BY <1>1, <1>2 DEF ValidPair
<1>4. Classify(p, b)' = Classify(p, b)
  BY <1>1 DEF Classify, Answered
<1>5. Evidence(p, b)' = Evidence(p, b)
  BY <1>1 DEF Evidence, Structured, Excerpt, Fingerprint, Similarity, Bytes
<1>6. Confidence(p, b)' = Confidence(p, b)
  BY <1>1 DEF Confidence
<1> QED
  BY <1>1, <1>3, <1>4, <1>5, <1>6 DEF Pair

LEMMA FindingsKept ==
  ASSUME PairInv, ReviewInv, ReportInv, RunsKept, UNCHANGED findingVars
  PROVE  PairInv' /\ ReviewInv' /\ ReportInv'
<1> USE DEF findingVars
<1>1. ASSUME NEW p \in RunId, finding[p] # NoFinding, finding[p].baseline # None
      PROVE  /\ Pair(p, finding[p].baseline)'
             /\ Evidence(p, finding[p].baseline)' = Evidence(p, finding[p].baseline)
             /\ Confidence(p, finding[p].baseline)' = Confidence(p, finding[p].baseline)
  <2>1. PICK b : b = finding[p].baseline
    OBVIOUS
  <2>2. Pair(p, b) /\ p \in DOMAIN run /\ b \in DOMAIN run
    BY <1>1, <2>1 DEF PairInv, Pair
  <2>3. Pair(p, b)' /\ Evidence(p, b)' = Evidence(p, b) /\ Confidence(p, b)' = Confidence(p, b)
    BY <2>2, PairKept
  <2>4. b = finding'[p].baseline
    BY <2>1
  <2> QED
    BY <2>1, <2>3, <2>4
<1>2. ASSUME NEW a \in Analyst, analyzing[a] # Idle
      PROVE  Pair(analyzing[a].probe, analyzing[a].baseline)'
  <2>1. PICK p, b : p = analyzing[a].probe /\ b = analyzing[a].baseline
    OBVIOUS
  <2>2. Pair(p, b) /\ p \in DOMAIN run /\ b \in DOMAIN run
    BY <1>2, <2>1 DEF PairInv, Pair
  <2>3. Pair(p, b)'
    BY <2>2, PairKept
  <2> QED
    BY <2>1, <2>3
<1>3. PairInv'
  BY <1>1, <1>2 DEF PairInv, IsRow
<1>4. ReviewInv' /\ ReportInv'
  BY DEF ReviewInv, ReportInv, VersionsOf
<1> QED
  BY <1>3, <1>4

-----------------------------------------------------------------------------
(* TestCases' steps                                                        *)

LEMMA InventorySteps ==
  ASSUME IInv,
         \/ \E i \in Identity : CreateIdentity(i) \/ LoseToken(i) \/ UpdateToken(i)
         \/ \E e \in Endpoint : \E d \in Document : ImportEndpoint(e, d)
  PROVE  CaseInv' /\ ClaimInv' /\ RunsKept
<1>1. UNCHANGED <<resource, case, run, exec, planned, overrun>>
  BY DEF CreateIdentity, LoseToken, UpdateToken, ImportEndpoint
<1>2. identity' \subseteq Identity
  BY DEF IInv, CaseInv, CreateIdentity, LoseToken, UpdateToken, ImportEndpoint
<1>3. CaseInv'
  BY <1>1, <1>2 DEF IInv, CaseInv
<1>4. ClaimInv'
  BY <1>1 DEF IInv, ClaimInv, InFlight
<1>5. RunsKept
  BY <1>1 DEF RunsKept
<1> QED
  BY <1>3, <1>4, <1>5

\* A resource that is created has no cases yet.
LEMMA CreateResourceStep ==
  ASSUME IInv, NEW r \in Resource, NEW i \in Identity, CreateResource(r, i)
  PROVE  CaseInv' /\ ClaimInv' /\ RunsKept
<1> USE DEF IInv, CreateResource
<1>1. /\ UNCHANGED <<identity, usable, endpoint, case, run, exec, planned, overrun>>
      /\ resource[r] = None /\ resource' = [resource EXCEPT ![r] = i]
  OBVIOUS
<1>2. /\ resource' \in [Resource -> Identity \cup {None}]
      /\ \A q \in Resource : resource[q] # None => resource'[q] = resource[q]
  BY <1>1 DEF CaseInv
<1>3. \A c \in Case : c.resource \in Resource
  BY DEF Case
<1>4. CaseInv'
  BY <1>1, <1>2, <1>3 DEF CaseInv
<1>5. ClaimInv'
  BY <1>1 DEF ClaimInv, InFlight
<1>6. \A k \in DOMAIN run : run[k].case \in Case /\ resource[run[k].case.resource] # None
  <2>1. \A k \in DOMAIN run : run[k] \in RunRow
    BY ElementOfSeq, LenProperties DEF CaseInv
  <2> QED
    BY <2>1 DEF CaseInv, RunRow
<1>7. RunsKept
  BY <1>1, <1>2, <1>3, <1>6 DEF RunsKept
<1> QED
  BY <1>4, <1>5, <1>7

LEMMA GenerateStep ==
  ASSUME IInv, GenerateCases
  PROVE  CaseInv' /\ ClaimInv' /\ RunsKept
<1> USE DEF IInv
<1>1. /\ UNCHANGED <<identity, usable, resource, endpoint, run, exec, planned, overrun>>
      /\ \A c \in Case : case'[c] = IF c \in Generated /\ case[c] = "absent" THEN "pending" ELSE case[c]
      /\ case' \in [Case -> CaseStatus]
  BY DEF GenerateCases, CaseInv, CaseStatus
<1>2. \A c \in Case : case[c] # "absent" => case'[c] = case[c]
  BY <1>1
<1>3. \A c \in Case : case'[c] # "absent" => resource[c.resource] # None
  BY <1>1 DEF CaseInv, Generated
<1>4. \A k \in DOMAIN run : run[k].case \in Case
  <2>1. \A k \in DOMAIN run : run[k] \in RunRow
    BY ElementOfSeq, LenProperties DEF CaseInv
  <2> QED
    BY <2>1 DEF RunRow
<1>5. CaseInv'
  BY <1>1, <1>2, <1>3, <1>4 DEF CaseInv
<1>6. ClaimInv'
  BY <1>1, <1>2 DEF ClaimInv, InFlight
<1>7. RunsKept
  BY <1>1 DEF RunsKept
<1> QED
  BY <1>5, <1>6, <1>7

\* A step that writes statuses, runs and claims of cases that exist.
LEMMA CaseKept ==
  ASSUME CaseInv, UNCHANGED <<identity, resource>>,
         case' \in [Case -> CaseStatus],
         \A c \in Case : case'[c] # "absent" <=> case[c] # "absent",
         planned' \subseteq Case, \A c \in planned' : case[c] # "absent",
         exec' = [x \in Caller |-> exec'[x]],
         \A x \in Caller : exec'[x] # NoExec =>
           exec'[x].pc \in {"read", "network"} /\ exec'[x].case \in Case /\ case[exec'[x].case] # "absent",
         \/ run' = run
         \/ \E row \in RunRow : /\ run' = Append(run, row) /\ Len(run) < MaxRuns
                                /\ case[row.case] # "absent"
  PROVE  CaseInv' /\ RunsKept
<1>a. run \in Seq(RunRow) /\ Len(run) <= MaxRuns
  BY DEF CaseInv
<1>b. Len(run) \in Nat /\ DOMAIN run = 1 .. Len(run)
  BY <1>a, LenProperties
<1>1. run \in Seq(RunRow) /\ Len(run) \in Nat /\ DOMAIN run = 1 .. Len(run) /\ MaxRuns \in Nat
  BY <1>a, <1>b, CaseAssumption
<1>2. \A k \in DOMAIN run : run[k] \in RunRow /\ run[k].case \in Case
  <2>1. \A k \in DOMAIN run : run[k] \in RunRow
    BY <1>1, ElementOfSeq
  <2> QED
    BY <2>1 DEF RunRow
<1>3. CASE run' = run
  <2>1. RunsKept
    BY <1>3 DEF RunsKept
  <2>2. CaseInv'
    BY <1>1, <1>2, <1>3 DEF CaseInv
  <2> QED
    BY <2>1, <2>2
<1>4. ASSUME NEW row \in RunRow, run' = Append(run, row), Len(run) < MaxRuns, case[row.case] # "absent"
      PROVE  CaseInv' /\ RunsKept
  <2>a. PICK t : t = Append(run, row)
    OBVIOUS
  <2>b. t \in Seq(RunRow) /\ Len(t) = Len(run) + 1
    BY <1>1, <2>a, AppendProperties
  <2>c. (\A k \in 1 .. Len(run) : t[k] = run[k]) /\ t[Len(run) + 1] = row
    BY <1>1, <2>a, AppendProperties
  <2>d. DOMAIN t = 1 .. Len(t)
    BY <2>b, LenProperties, Zenon
  <2>e. run' = t
    BY <1>4, <2>a
  <2>1. /\ run' \in Seq(RunRow) /\ Len(run') = Len(run) + 1
        /\ \A k \in 1 .. Len(run) : run'[k] = run[k]
        /\ run'[Len(run) + 1] = row
    BY <2>b, <2>c, <2>e
  <2>2. DOMAIN run' = 1 .. (Len(run) + 1)
    BY <2>b, <2>d, <2>e
  <2>3. Len(run') <= MaxRuns /\ DOMAIN run \subseteq DOMAIN run'
    <3>1. PICK n \in Nat : n = Len(run)
      BY <1>1
    <3>2. n < MaxRuns
      BY <1>4, <3>1, Zenon
    <3>3. n + 1 <= MaxRuns /\ 1 .. n \subseteq 1 .. (n + 1)
      BY <1>1, <3>2
    <3> QED
      BY <1>1, <2>1, <2>2, <3>1, <3>3
  <2>4. RunsKept
    BY <1>1, <2>1, <2>3 DEF RunsKept
  <2>5. row.case \in Case
    BY DEF RunRow
  <2>6. \A k \in DOMAIN run' : run'[k].case \in Case /\ case[run'[k].case] # "absent"
    <3> SUFFICES ASSUME NEW k \in DOMAIN run' PROVE run'[k].case \in Case /\ case[run'[k].case] # "absent"
      OBVIOUS
    <3>1. CASE k \in DOMAIN run
      BY <1>1, <1>2, <2>1, <3>1 DEF CaseInv
    <3>2. CASE k = Len(run) + 1
      BY <1>4, <2>1, <2>5, <3>2
    <3> QED
      BY <1>1, <2>2, <3>1, <3>2
  <2>7. CaseInv'
    BY <2>1, <2>3, <2>6 DEF CaseInv
  <2> QED
    BY <2>4, <2>7
<1> QED
  BY <1>3, <1>4

LEMMA BeginStep ==
  ASSUME IInv, NEW x \in Caller, NEW c \in Case, BeginExecution(x, c)
  PROVE  CaseInv' /\ ClaimInv' /\ RunsKept
<1> USE DEF IInv
<1> DEFINE e == [pc |-> "read", case |-> c, observed |-> case[c]]
<1>1. /\ UNCHANGED <<identity, resource, case, run, planned, overrun>>
      /\ exec' = [exec EXCEPT ![x] = e] /\ case[c] \notin {"absent", "running"}
  BY DEF BeginExecution
<1>2. e.pc = "read" /\ e.case = c /\ e.observed = case[c]
  OBVIOUS
<1> HIDE DEF e
<1>3. /\ exec' = [y \in Caller |-> exec'[y]] /\ exec'[x] = e
      /\ \A y \in Caller : y # x => exec'[y] = exec[y]
  BY <1>1 DEF CaseInv
<1>4. CaseInv' /\ RunsKept
  <2>1. \A y \in Caller : exec'[y] # NoExec =>
          exec'[y].pc \in {"read", "network"} /\ exec'[y].case \in Case /\ case[exec'[y].case] # "absent"
    BY <1>1, <1>2, <1>3 DEF CaseInv
  <2>2. case' \in [Case -> CaseStatus] /\ planned' \subseteq Case /\ \A d \in planned' : case[d] # "absent"
    BY <1>1 DEF CaseInv
  <2> QED
    BY <1>1, <1>3, <2>1, <2>2, CaseKept
<1>5. ClaimInv'
  BY <1>1, <1>2, <1>3 DEF ClaimInv, InFlight
<1> QED
  BY <1>4, <1>5

\* The claim succeeds only if nobody who has claimed is on the network.
LEMMA ClaimStep ==
  ASSUME IInv, NEW x \in Caller, ClaimCase(x)
  PROVE  CaseInv' /\ ClaimInv' /\ RunsKept
<1> USE DEF IInv
<1>1. /\ UNCHANGED <<identity, resource, run, planned, overrun>> /\ exec[x].pc = "read"
  BY DEF ClaimCase
<1>2. exec[x] # NoExec /\ exec[x].case \in Case /\ case[exec[x].case] # "absent"
  BY <1>1 DEF CaseInv, NoExec
<1>3. PICK c \in Case : c = exec[x].case
  BY <1>2
<1> DEFINE e == [pc |-> "network", case |-> c]
<1>4. e.pc = "network" /\ e.case = c
  OBVIOUS
<1> HIDE DEF e
<1>5. CASE case[c] = exec[x].observed
  <2>1. case' = [case EXCEPT ![c] = "running"] /\ exec' = [exec EXCEPT ![x] = e]
    BY <1>3, <1>5 DEF ClaimCase, e
  <2>2. /\ exec' = [y \in Caller |-> exec'[y]] /\ exec'[x] = e
        /\ \A y \in Caller : y # x => exec'[y] = exec[y]
        /\ case' \in [Case -> CaseStatus] /\ case'[c] = "running"
        /\ \A d \in Case : d # c => case'[d] = case[d]
    BY <2>1 DEF CaseInv, CaseStatus
  <2>3. CaseInv' /\ RunsKept
    <3>1. \A y \in Caller : exec'[y] # NoExec =>
            exec'[y].pc \in {"read", "network"} /\ exec'[y].case \in Case /\ case[exec'[y].case] # "absent"
      BY <1>2, <1>3, <1>4, <2>2 DEF CaseInv
    <3>2. \A d \in Case : case'[d] # "absent" <=> case[d] # "absent"
      BY <1>2, <1>3, <2>2
    <3>3. planned' \subseteq Case /\ \A d \in planned' : case[d] # "absent"
      BY <1>1 DEF CaseInv
    <3> QED
      BY <1>1, <2>2, <3>1, <3>2, <3>3, CaseKept
  <2>4. case[c] # "running"
    BY <1>1, <1>5 DEF ClaimInv
  <2>5. c \notin overrun => InFlight(c) = {}
    BY <2>4 DEF ClaimInv, InFlight
  <2>6. ClaimInv'
    BY <1>1, <1>4, <2>2, <2>5 DEF ClaimInv, InFlight
  <2> QED
    BY <2>3, <2>6
<1>6. CASE case[c] # exec[x].observed
  <2>1. case' = case /\ exec' = [exec EXCEPT ![x] = NoExec]
    BY <1>3, <1>6 DEF ClaimCase
  <2>2. /\ exec' = [y \in Caller |-> exec'[y]] /\ exec'[x] = NoExec
        /\ \A y \in Caller : y # x => exec'[y] = exec[y]
    BY <2>1 DEF CaseInv
  <2>3. CaseInv' /\ RunsKept
    <3>1. \A y \in Caller : exec'[y] # NoExec =>
            exec'[y].pc \in {"read", "network"} /\ exec'[y].case \in Case /\ case[exec'[y].case] # "absent"
      BY <2>2 DEF CaseInv
    <3>2. case' \in [Case -> CaseStatus] /\ planned' \subseteq Case /\ \A d \in planned' : case[d] # "absent"
      BY <1>1, <2>1 DEF CaseInv
    <3> QED
      BY <1>1, <2>1, <2>2, <3>1, <3>2, CaseKept
  <2>4. ClaimInv'
    BY <1>1, <2>1, <2>2 DEF ClaimInv, InFlight, NoExec
  <2> QED
    BY <2>3, <2>4
<1> QED
  BY <1>5, <1>6

LEMMA DiesStep ==
  ASSUME IInv, NEW x \in Caller, ExecutionDies(x)
  PROVE  CaseInv' /\ ClaimInv' /\ RunsKept
<1> USE DEF IInv
<1>1. /\ UNCHANGED <<identity, resource, case, run, planned, overrun>>
      /\ exec' = [exec EXCEPT ![x] = NoExec]
  BY DEF ExecutionDies
<1>2. /\ exec' = [y \in Caller |-> exec'[y]] /\ exec'[x] = NoExec
      /\ \A y \in Caller : y # x => exec'[y] = exec[y]
  BY <1>1 DEF CaseInv
<1>3. CaseInv' /\ RunsKept
  <2>1. \A y \in Caller : exec'[y] # NoExec =>
          exec'[y].pc \in {"read", "network"} /\ exec'[y].case \in Case /\ case[exec'[y].case] # "absent"
    BY <1>2 DEF CaseInv
  <2>2. case' \in [Case -> CaseStatus] /\ planned' \subseteq Case /\ \A d \in planned' : case[d] # "absent"
    BY <1>1 DEF CaseInv
  <2> QED
    BY <1>1, <1>2, <2>1, <2>2, CaseKept
<1>4. ClaimInv'
  BY <1>1, <1>2 DEF ClaimInv, InFlight, NoExec
<1> QED
  BY <1>3, <1>4

\* What every step does that writes a status without asking for it: an
\* execution that ends, one without a credential, and a plan's.  by is the
\* writer's own execution, or none.
LEMMA OverwriteStep ==
  ASSUME IInv, NEW c \in Case, case[c] # "absent", NEW status \in CaseStatus \ {"absent"},
         NEW by \in SUBSET Caller, Overwrite(c, status, by),
         exec' = [x \in Caller |-> exec'[x]],
         \A x \in by : exec'[x] = NoExec,
         \A x \in Caller \ by : exec'[x] = exec[x],
         UNCHANGED <<identity, resource>>,
         planned' \subseteq Case, \A d \in planned' : case[d] # "absent",
         \/ run' = run
         \/ \E row \in RunRow : run' = Append(run, row) /\ Len(run) < MaxRuns /\ row.case = c
  PROVE  CaseInv' /\ ClaimInv' /\ RunsKept
<1> USE DEF IInv
<1>1. /\ case' \in [Case -> CaseStatus] /\ case'[c] = status
      /\ \A d \in Case : d # c => case'[d] = case[d]
      /\ overrun' = overrun \cup (IF InFlight(c) \ by # {} THEN {c} ELSE {})
  BY DEF Overwrite, CaseInv
<1>2. CaseInv' /\ RunsKept
  <2>1. \A x \in Caller : exec'[x] # NoExec =>
          exec'[x].pc \in {"read", "network"} /\ exec'[x].case \in Case /\ case[exec'[x].case] # "absent"
    BY DEF CaseInv
  <2>2. \A d \in Case : case'[d] # "absent" <=> case[d] # "absent"
    BY <1>1
  <2> QED
    BY <1>1, <2>1, <2>2, CaseKept
<1>3. \A x \in Caller : exec'[x].pc = "read" => exec'[x].observed # "running"
  BY DEF ClaimInv, NoExec
<1>4. \A d \in Case : InFlight(d)' \subseteq InFlight(d) \ by
  BY DEF InFlight, NoExec
<1>5. ASSUME NEW d \in Case, d \notin overrun', NEW x \in Caller, NEW y \in Caller,
             x \in InFlight(d)', y \in InFlight(d)'
      PROVE  x = y /\ case'[d] = "running"
  <2>1. x \in InFlight(d) \ by /\ y \in InFlight(d) \ by
    BY <1>4, <1>5
  <2>2. d # c /\ d \notin overrun
    BY <1>1, <1>5, <2>1
  <2> QED
    BY <1>1, <2>1, <2>2 DEF ClaimInv
<1>6. ClaimInv'
  BY <1>3, <1>5 DEF ClaimInv
<1> QED
  BY <1>2, <1>6

\* A direct execution that ends leaves no claim of its own.
LEMMA ExecutionEnds ==
  ASSUME IInv, NEW x \in Caller, NEW status \in CaseStatus \ {"absent"}, exec[x] # NoExec,
         Overwrite(exec[x].case, status, {x}), exec' = [exec EXCEPT ![x] = NoExec],
         UNCHANGED <<identity, resource, planned>>,
         \/ run' = run
         \/ \E row \in RunRow : run' = Append(run, row) /\ Len(run) < MaxRuns /\ row.case = exec[x].case
  PROVE  CaseInv' /\ ClaimInv' /\ RunsKept
<1>1. PICK c \in Case : c = exec[x].case /\ case[c] # "absent"
  BY DEF IInv, CaseInv
<1>2. Overwrite(c, status, {x}) /\ {x} \in SUBSET Caller
  BY <1>1
<1>3. /\ exec' = [y \in Caller |-> exec'[y]]
      /\ \A y \in {x} : exec'[y] = NoExec
      /\ \A y \in Caller \ {x} : exec'[y] = exec[y]
  BY DEF IInv, CaseInv
<1>4. planned' \subseteq Case /\ \A d \in planned' : case[d] # "absent"
  BY DEF IInv, CaseInv
<1>5. \/ run' = run
      \/ \E row \in RunRow : run' = Append(run, row) /\ Len(run) < MaxRuns /\ row.case = c
  BY <1>1
<1> QED
  BY <1>1, <1>2, <1>3, <1>4, <1>5, OverwriteStep

LEMMA NoExecPc == NoExec.pc = "idle"
BY DEF NoExec

LEMMA Rows ==
  ASSUME NEW c \in Case
  PROVE  /\ [case |-> c, status |-> None, body |-> None] \in RunRow
         /\ \A s \in Status, b \in Body : [case |-> c, status |-> s, body |-> DecodeBody(b)] \in RunRow
BY DEF RunRow

LEMMA CredentialStep ==
  ASSUME IInv, NEW x \in Caller, CredentialFails(x)
  PROVE  CaseInv' /\ ClaimInv' /\ RunsKept
<1>1. exec[x] # NoExec /\ UNCHANGED <<identity, resource, run, planned>> /\ exec' = [exec EXCEPT ![x] = NoExec]
  BY NoExecPc DEF CredentialFails
<1>2. CASE exec[x].observed # "blocked"
  <2>1. Overwrite(exec[x].case, "blocked", {x})
    BY <1>2 DEF CredentialFails
  <2>2. "blocked" \in CaseStatus \ {"absent"}
    BY DEF CaseStatus
  <2> QED
    BY <1>1, <2>1, <2>2, ExecutionEnds
<1>3. CASE exec[x].observed = "blocked"
  <2>1. UNCHANGED <<case, overrun>>
    BY <1>3 DEF CredentialFails
  <2>2. /\ exec' = [y \in Caller |-> exec'[y]] /\ exec'[x] = NoExec
        /\ \A y \in Caller : y # x => exec'[y] = exec[y]
    BY <1>1 DEF IInv, CaseInv
  <2>3. CaseInv' /\ RunsKept
    <3>1. \A y \in Caller : exec'[y] # NoExec =>
            exec'[y].pc \in {"read", "network"} /\ exec'[y].case \in Case /\ case[exec'[y].case] # "absent"
      BY <2>2 DEF IInv, CaseInv
    <3>2. case' \in [Case -> CaseStatus] /\ planned' \subseteq Case /\ \A d \in planned' : case[d] # "absent"
      BY <1>1, <2>1 DEF IInv, CaseInv
    <3> QED
      BY <1>1, <2>1, <2>2, <3>1, <3>2, CaseKept DEF IInv
  <2>4. ClaimInv'
    BY <2>1, <2>2 DEF IInv, ClaimInv, InFlight, NoExec
  <2> QED
    BY <2>3, <2>4
<1> QED
  BY <1>2, <1>3

LEMMA ExecutionStep ==
  ASSUME IInv, NEW x \in Caller,
         \/ ExecutionBlocked(x) \/ ExecutionFails(x)
         \/ \E s \in Status, b \in Body : ExecutionSucceeds(x, s, b)
  PROVE  CaseInv' /\ ClaimInv' /\ RunsKept
<1>1. exec[x] # NoExec /\ UNCHANGED <<identity, resource, planned>> /\ exec' = [exec EXCEPT ![x] = NoExec]
  BY NoExecPc DEF ExecutionBlocked, ExecutionFails, ExecutionSucceeds
<1>2. PICK c \in Case : c = exec[x].case
  BY <1>1 DEF IInv, CaseInv
<1>3. {"blocked", "failed", "completed"} \subseteq CaseStatus \ {"absent"}
  BY DEF CaseStatus
<1>4. CASE ExecutionBlocked(x)
  <2>1. Overwrite(exec[x].case, "blocked", {x}) /\ run' = run
    BY <1>4 DEF ExecutionBlocked
  <2> QED
    BY <1>1, <1>3, <2>1, ExecutionEnds
<1>5. CASE ExecutionFails(x)
  <2> DEFINE row == [case |-> c, status |-> None, body |-> None]
  <2>1. row \in RunRow /\ row.case = exec[x].case
    BY <1>2, Rows
  <2>2. Overwrite(exec[x].case, "failed", {x}) /\ run' = Append(run, row) /\ Len(run) < MaxRuns
    BY <1>2, <1>5 DEF ExecutionFails
  <2> HIDE DEF row
  <2> QED
    BY <1>1, <1>3, <2>1, <2>2, ExecutionEnds
<1>6. ASSUME NEW s \in Status, NEW b \in Body, ExecutionSucceeds(x, s, b)
      PROVE  CaseInv' /\ ClaimInv' /\ RunsKept
  <2> DEFINE row == [case |-> c, status |-> s, body |-> DecodeBody(b)]
  <2>1. row \in RunRow /\ row.case = exec[x].case
    BY <1>2, Rows
  <2>2. Overwrite(exec[x].case, "completed", {x}) /\ run' = Append(run, row) /\ Len(run) < MaxRuns
    BY <1>2, <1>6 DEF ExecutionSucceeds
  <2> HIDE DEF row
  <2> QED
    BY <1>1, <1>3, <2>1, <2>2, ExecutionEnds
<1> QED
  BY <1>4, <1>5, <1>6

LEMMA PlanStep ==
  ASSUME IInv, NEW c \in Case, PlanStarts(c) \/ PlanBlocked(c) \/ PlanFinishes(c)
  PROVE  CaseInv' /\ ClaimInv' /\ RunsKept
<1>1. /\ UNCHANGED <<identity, resource, exec>> /\ case[c] # "absent"
      /\ planned' \subseteq planned \cup {c} /\ {} \in SUBSET Caller
  BY DEF IInv, CaseInv, PlanStarts, PlanBlocked, PlanFinishes, PlanEnds
<1>2. planned' \subseteq Case /\ \A d \in planned' : case[d] # "absent"
  BY <1>1 DEF IInv, CaseInv
<1>3. /\ exec' = [y \in Caller |-> exec'[y]]
      /\ \A y \in {} : exec'[y] = NoExec
      /\ \A y \in Caller \ {} : exec'[y] = exec[y]
  BY <1>1 DEF IInv, CaseInv
<1>4. {"running", "blocked", "failed", "completed"} \subseteq CaseStatus \ {"absent"}
  BY DEF CaseStatus
<1>5. PICK status \in CaseStatus \ {"absent"} : Overwrite(c, status, {})
  BY <1>4 DEF PlanStarts, PlanBlocked, PlanFinishes, PlanEnds
<1>6. \/ run' = run
      \/ \E row \in RunRow : run' = Append(run, row) /\ Len(run) < MaxRuns /\ row.case = c
  <2>1. CASE PlanStarts(c) \/ PlanBlocked(c)
    BY <2>1 DEF PlanStarts, PlanBlocked, PlanEnds
  <2>2. ASSUME PlanFinishes(c), run' = Append(run, [case |-> c, status |-> None, body |-> None])
        PROVE  \E row \in RunRow : run' = Append(run, row) /\ Len(run) < MaxRuns /\ row.case = c
    <3> DEFINE row == [case |-> c, status |-> None, body |-> None]
    <3>1. row \in RunRow /\ row.case = c /\ run' = Append(run, row) /\ Len(run) < MaxRuns
      BY <2>2, Rows DEF PlanFinishes, PlanEnds
    <3> HIDE DEF row
    <3> QED
      BY <3>1
  <2>3. ASSUME PlanFinishes(c), NEW s \in Status, NEW b \in Body,
               run' = Append(run, [case |-> c, status |-> s, body |-> DecodeBody(b)])
        PROVE  \E row \in RunRow : run' = Append(run, row) /\ Len(run) < MaxRuns /\ row.case = c
    <3> DEFINE row == [case |-> c, status |-> s, body |-> DecodeBody(b)]
    <3>1. row \in RunRow /\ row.case = c /\ run' = Append(run, row) /\ Len(run) < MaxRuns
      BY <2>3, Rows DEF PlanFinishes, PlanEnds
    <3> HIDE DEF row
    <3> QED
      BY <3>1
  <2>4. CASE PlanFinishes(c)
    BY <2>2, <2>3, <2>4 DEF PlanFinishes
  <2> QED
    BY <2>1, <2>4
<1> QED
  BY <1>1, <1>2, <1>3, <1>5, <1>6, OverwriteStep

LEMMA CaseSteps ==
  ASSUME IInv, CaseNext, UNCHANGED findingVars
  PROVE  IInv'
<1>1. CaseInv' /\ ClaimInv' /\ RunsKept
  BY InventorySteps, CreateResourceStep, GenerateStep, BeginStep, CredentialStep, ClaimStep, DiesStep,
     ExecutionStep, PlanStep DEF CaseNext
<1>2. PairInv' /\ ReviewInv' /\ ReportInv'
  BY <1>1, FindingsKept DEF IInv
<1> QED
  BY <1>1, <1>2 DEF IInv

-----------------------------------------------------------------------------
(* Findings' steps                                                         *)

LEMMA CasesStill ==
  ASSUME CaseInv, ClaimInv, UNCHANGED caseVars
  PROVE  CaseInv' /\ ClaimInv' /\ RunsKept
<1> USE DEF caseVars
<1>1. CaseInv'
  BY DEF CaseInv
<1>2. ClaimInv'
  BY DEF ClaimInv, InFlight
<1>3. RunsKept
  BY DEF RunsKept
<1> QED
  BY <1>1, <1>2, <1>3

LEMMA RunIds ==
  ASSUME CaseInv
  PROVE  DOMAIN run \subseteq RunId /\ 0 \notin RunId
<1>1. run \in Seq(RunRow) /\ Len(run) <= MaxRuns
  BY DEF CaseInv
<1>2. Len(run) \in Nat /\ DOMAIN run = 1 .. Len(run)
  BY <1>1, LenProperties
<1>3. MaxRuns \in Nat
  BY CaseAssumption
<1>4. PICK n \in Nat : n = Len(run) /\ n <= MaxRuns
  BY <1>1, <1>2
<1>5. 1 .. n \subseteq 1 .. MaxRuns /\ 0 \notin 1 .. MaxRuns
  BY <1>3, <1>4
<1> QED
  BY <1>2, <1>4, <1>5 DEF RunId

\* What is stored of a probe: f is its row.
RowOf(p, f) ==
  /\ IsRow(f) /\ f.status \in FindingStatus \ {"none"}
  /\ f.baseline # None => Pair(p, f.baseline)
  /\ f.baseline # None /\ f.evidence # None =>
       f.evidence = Evidence(p, f.baseline) /\ f.confidence = Confidence(p, f.baseline)

LEMMA RowRead ==
  ASSUME PairInv, NEW p \in RunId, finding[p] # NoFinding
  PROVE  RowOf(p, finding[p])
BY DEF PairInv, RowOf

LEMMA PairIntro ==
  ASSUME UNCHANGED caseVars, RunsKept,
         finding' = [p \in RunId |-> finding'[p]], analyzing' = [a \in Analyst |-> analyzing'[a]],
         \A p \in RunId : finding'[p] # NoFinding => \E f : f = finding'[p] /\ RowOf(p, f),
         \A a \in Analyst : analyzing'[a] # Idle =>
           \E p, b : p = analyzing'[a].probe /\ b = analyzing'[a].baseline /\ Pair(p, b)
  PROVE  PairInv'
<1>1. ASSUME NEW p \in RunId, finding'[p] # NoFinding
      PROVE  /\ IsRow(finding[p])' /\ finding'[p].status \in FindingStatus \ {"none"}
             /\ finding'[p].baseline # None => Pair(p, finding[p].baseline)'
             /\ finding'[p].baseline # None /\ finding'[p].evidence # None =>
                  /\ finding'[p].evidence = Evidence(p, finding[p].baseline)'
                  /\ finding'[p].confidence = Confidence(p, finding[p].baseline)'
  <2>1. PICK f : f = finding'[p] /\ RowOf(p, f)
    BY <1>1
  <2>2. PICK b : b = f.baseline
    OBVIOUS
  <2>3. b # None => Pair(p, b) /\ p \in DOMAIN run /\ b \in DOMAIN run
    BY <2>1, <2>2 DEF RowOf, Pair
  <2>4. b # None => Pair(p, b)' /\ Evidence(p, b)' = Evidence(p, b) /\ Confidence(p, b)' = Confidence(p, b)
    BY <2>3, PairKept
  <2>5. b = finding'[p].baseline
    BY <2>1, <2>2
  <2>6. IsRow(finding[p])' /\ finding'[p].status \in FindingStatus \ {"none"}
    BY <2>1 DEF RowOf, IsRow
  <2>7. b # None /\ f.evidence # None => f.evidence = Evidence(p, b) /\ f.confidence = Confidence(p, b)
    BY <2>1, <2>2 DEF RowOf
  <2> QED
    BY <2>1, <2>4, <2>5, <2>6, <2>7
<1>2. ASSUME NEW a \in Analyst, analyzing'[a] # Idle
      PROVE  Pair(analyzing[a].probe, analyzing[a].baseline)'
  <2>1. PICK p, b : p = analyzing'[a].probe /\ b = analyzing'[a].baseline /\ Pair(p, b)
    BY <1>2
  <2>2. p \in DOMAIN run /\ b \in DOMAIN run
    BY <2>1 DEF Pair
  <2>3. Pair(p, b)'
    BY <2>1, <2>2, PairKept
  <2> QED
    BY <2>1, <2>3
<1>3. \A p \in RunId : finding'[p].status \in FindingStatus
  BY <1>1 DEF NoFinding, FindingStatus
<1> QED
  BY <1>1, <1>2, <1>3 DEF PairInv

\* Requests that an analysis, or none, leaves as they were.
LEMMA AnalyzingKept ==
  ASSUME PairInv, NEW a \in Analyst
  PROVE  analyzing[a] # Idle =>
           \E p, b : p = analyzing[a].probe /\ b = analyzing[a].baseline /\ Pair(p, b)
BY DEF PairInv

\* A step that leaves the findings alone, and at most ends analyses.
LEMMA PairStill ==
  ASSUME IInv, UNCHANGED caseVars, UNCHANGED finding, analyzing' = [c \in Analyst |-> analyzing'[c]],
         \A c \in Analyst : analyzing'[c] \in {analyzing[c], Idle}
  PROVE  PairInv'
<1> USE DEF IInv
<1>1. finding' = [q \in RunId |-> finding'[q]]
  BY DEF PairInv
<1>2. \A c \in Analyst : analyzing'[c] # Idle =>
        \E q, d : q = analyzing'[c].probe /\ d = analyzing'[c].baseline /\ Pair(q, d)
  BY AnalyzingKept
<1>3. \A q \in RunId : finding'[q] # NoFinding => \E g : g = finding'[q] /\ RowOf(q, g)
  BY RowRead
<1> QED
  BY <1>1, <1>2, <1>3, CasesStill, PairIntro

LEMMA AnalyzeReadStep ==
  ASSUME IInv, UNCHANGED caseVars, NEW a \in Analyst, NEW p \in DOMAIN run, NEW b \in DOMAIN run,
         AnalyzeRead(a, p, b)
  PROVE  PairInv' /\ ReviewInv' /\ ReportInv'
<1> USE DEF IInv
<1> DEFINE z == [probe |-> p, baseline |-> b]
<1>1. /\ UNCHANGED <<finding, advice, report, reviewing, reporting>>
      /\ analyzing' = [analyzing EXCEPT ![a] = z]
      /\ Pair(p, b)
  BY DEF AnalyzeRead, Pair
<1>2. z.probe = p /\ z.baseline = b
  OBVIOUS
<1> HIDE DEF z
<1>3. /\ analyzing' = [c \in Analyst |-> analyzing'[c]] /\ analyzing'[a] = z
      /\ \A c \in Analyst : c # a => analyzing'[c] = analyzing[c]
  BY <1>1 DEF PairInv
<1>4. \A c \in Analyst : analyzing'[c] # Idle =>
        \E q, d : q = analyzing'[c].probe /\ d = analyzing'[c].baseline /\ Pair(q, d)
  BY <1>1, <1>2, <1>3, AnalyzingKept
<1>5. \A q \in RunId : finding'[q] # NoFinding => \E f : f = finding'[q] /\ RowOf(q, f)
  BY <1>1, RowRead
<1>6. finding' = [q \in RunId |-> finding'[q]]
  BY <1>1 DEF PairInv
<1>7. PairInv'
  BY <1>3, <1>4, <1>5, <1>6, CasesStill, PairIntro
<1>8. ReviewInv' /\ ReportInv'
  BY <1>1 DEF ReviewInv, ReportInv, VersionsOf
<1> QED
  BY <1>7, <1>8

LEMMA StoreFacts ==
  ASSUME NEW f, NEW p, NEW b, Pair(p, b), f # NoFinding => RowOf(p, f)
  PROVE  /\ RowOf(p, StoreFinding(f, p, b))
         /\ StoreFinding(f, p, b).status = IF f = NoFinding THEN "potential" ELSE f.status
<1>1. CASE f = NoFinding
  <2> DEFINE r == [status |-> "potential", baseline |-> b, confidence |-> Confidence(p, b), evidence |-> Evidence(p, b)]
  <2>1. StoreFinding(f, p, b) = r
    BY <1>1 DEF StoreFinding
  <2>2. /\ r.status = "potential" /\ r.baseline = b
        /\ r.confidence = Confidence(p, b) /\ r.evidence = Evidence(p, b) /\ IsRow(r)
    BY DEF IsRow
  <2> HIDE DEF r
  <2>3. RowOf(p, r)
    BY <2>2 DEF RowOf, FindingStatus
  <2> QED
    BY <1>1, <2>1, <2>2, <2>3
<1>2. CASE f # NoFinding /\ BaselineBound(f, b) /\ f.evidence \in {None, Evidence(p, b)}
  <2> DEFINE r == [status |-> f.status, baseline |-> f.baseline, confidence |-> Confidence(p, b),
                   evidence |-> Evidence(p, b)]
  <2>1. IsRow(f) /\ f.status \in FindingStatus \ {"none"} /\ f.baseline = b
    BY <1>2 DEF RowOf, BaselineBound
  <2>2. [f EXCEPT !.confidence = Confidence(p, b), !.evidence = Evidence(p, b)] = r
    <3>1. PICK s, d, c, e : f = [status |-> s, baseline |-> d, confidence |-> c, evidence |-> e]
      BY <2>1 DEF IsRow
    <3>2. PICK x, y : x = Confidence(p, b) /\ y = Evidence(p, b)
      OBVIOUS
    <3> DEFINE q == [f EXCEPT !.confidence = x]
    <3>3. q = [status |-> s, baseline |-> d, confidence |-> x, evidence |-> e]
      BY <3>1
    <3>4. [f EXCEPT !.confidence = x, !.evidence = y] = [q EXCEPT !.evidence = y]
      OBVIOUS
    <3> HIDE DEF q
    <3>5. [q EXCEPT !.evidence = y] = [status |-> s, baseline |-> d, confidence |-> x, evidence |-> y]
      BY <3>3
    <3>6. [f EXCEPT !.confidence = x, !.evidence = y]
            = [status |-> s, baseline |-> d, confidence |-> x, evidence |-> y]
      BY <3>4, <3>5
    <3>7. f.status = s /\ f.baseline = d
      BY <3>1
    <3> QED
      BY <3>2, <3>6, <3>7
  <2>3. StoreFinding(f, p, b) = r
    BY <1>2, <2>2 DEF StoreFinding
  <2>4. /\ r.status = f.status /\ r.baseline = f.baseline
        /\ r.confidence = Confidence(p, b) /\ r.evidence = Evidence(p, b) /\ IsRow(r)
    BY DEF IsRow
  <2> HIDE DEF r
  <2>5. RowOf(p, r)
    BY <2>1, <2>4 DEF RowOf
  <2> QED
    BY <1>2, <2>3, <2>4, <2>5
<1>3. CASE f # NoFinding /\ ~(BaselineBound(f, b) /\ f.evidence \in {None, Evidence(p, b)})
  <2>1. StoreFinding(f, p, b) = f
    BY <1>3 DEF StoreFinding
  <2> QED
    BY <1>3, <2>1
<1> QED
  BY <1>1, <1>2, <1>3

\* No analysis overwrites a status, nor a row a report has locked.
LEMMA AnalyzeCommitStep ==
  ASSUME IInv, UNCHANGED caseVars, NEW a \in Analyst, AnalyzeCommit(a)
  PROVE  PairInv' /\ ReviewInv' /\ ReportInv'
<1> USE DEF IInv
<1>1. analyzing[a].probe # 0 /\ analyzing[a] # Idle
  BY DEF AnalyzeCommit, Idle
<1>2. PICK p, b : p = analyzing[a].probe /\ b = analyzing[a].baseline /\ Pair(p, b)
  BY <1>1, AnalyzingKept
<1>3. p \in RunId
  BY <1>2, RunIds DEF Pair
<1>4. /\ finding' = [finding EXCEPT ![p] = StoreFinding(finding[p], p, b)]
      /\ analyzing' = [analyzing EXCEPT ![a] = Idle]
      /\ finding[p] # NoFinding => ~Locked(p)
      /\ UNCHANGED <<advice, report, reviewing, reporting>>
  BY <1>2 DEF AnalyzeCommit
<1>5. PICK f : f = StoreFinding(finding[p], p, b)
  OBVIOUS
<1>6. RowOf(p, f) /\ f.status = IF finding[p] = NoFinding THEN "potential" ELSE finding[p].status
  BY <1>2, <1>3, <1>5, StoreFacts, RowRead
<1>7. /\ finding' = [q \in RunId |-> finding'[q]] /\ finding'[p] = f
      /\ \A q \in RunId : q # p => finding'[q] = finding[q]
  BY <1>3, <1>4, <1>5 DEF PairInv
<1>8. /\ analyzing' = [c \in Analyst |-> analyzing'[c]] /\ analyzing'[a] = Idle
      /\ \A c \in Analyst : c # a => analyzing'[c] = analyzing[c]
  BY <1>4 DEF PairInv
<1>9. PairInv'
  <2>1. \A c \in Analyst : analyzing'[c] # Idle =>
          \E q, d : q = analyzing'[c].probe /\ d = analyzing'[c].baseline /\ Pair(q, d)
    BY <1>8, AnalyzingKept
  <2>2. \A q \in RunId : finding'[q] # NoFinding => \E g : g = finding'[q] /\ RowOf(q, g)
    BY <1>6, <1>7, RowRead
  <2> QED
    BY <1>7, <1>8, <2>1, <2>2, CasesStill, PairIntro
<1>10. f # NoFinding
  BY <1>6 DEF RowOf, NoFinding
<1>11. ReviewInv'
  BY <1>4, <1>7, <1>10 DEF ReviewInv
<1>12. \A h \in Reporter : reporting[h] # Idle => finding'[reporting[h].probe].status = "confirmed"
  <2>1. \A h \in Reporter : reporting[h] # Idle /\ reporting[h].probe = p => finding[p] = NoFinding
    BY <1>4 DEF Locked
  <2>2. NoFinding.status # "confirmed"
    BY DEF NoFinding
  <2> QED
    BY <1>7, <2>1, <2>2 DEF ReportInv
<1>13. ReportInv'
  BY <1>4, <1>12 DEF ReportInv, VersionsOf
<1> QED
  BY <1>9, <1>11, <1>13

LEMMA ReviewReadStep ==
  ASSUME IInv, UNCHANGED caseVars, NEW v \in Reviewer, NEW p \in RunId, NEW s \in ReviewStatus,
         ReviewRead(v, p, s)
  PROVE  PairInv' /\ ReviewInv' /\ ReportInv'
<1> USE DEF IInv
<1> DEFINE z == [probe |-> p, status |-> s]
<1>1. /\ UNCHANGED <<finding, advice, report, analyzing, reporting>>
      /\ reviewing' = [reviewing EXCEPT ![v] = z]
  BY DEF ReviewRead
<1>2. z.probe = p /\ z.status = s
  OBVIOUS
<1> HIDE DEF z
<1>3. finding[p] # NoFinding
  BY DEF ReviewRead, AllowedNext, NoFinding
<1>4. /\ reviewing' = [w \in Reviewer |-> reviewing'[w]] /\ reviewing'[v] = z
      /\ \A w \in Reviewer : w # v => reviewing'[w] = reviewing[w]
  BY <1>1 DEF ReviewInv
<1>5. ReviewInv'
  BY <1>1, <1>2, <1>3, <1>4 DEF ReviewInv
<1>6. PairInv'
  <2>1. analyzing' = [c \in Analyst |-> analyzing'[c]] /\ \A c \in Analyst : analyzing'[c] \in {analyzing[c], Idle}
    BY <1>1 DEF PairInv
  <2> QED
    BY <1>1, <2>1, PairStill
<1>7. ReportInv'
  BY <1>1 DEF ReportInv, VersionsOf
<1> QED
  BY <1>5, <1>6, <1>7

\* The status of a row a report has locked is not written either.
LEMMA ReviewCommitStep ==
  ASSUME IInv, UNCHANGED caseVars, NEW v \in Reviewer, ReviewCommit(v)
  PROVE  PairInv' /\ ReviewInv' /\ ReportInv'
<1> USE DEF IInv
<1>1. reviewing[v] # Idle /\ UNCHANGED <<advice, report, analyzing, reporting>>
  BY DEF ReviewCommit, Idle
<1>2. PICK p \in RunId, s \in ReviewStatus :
        p = reviewing[v].probe /\ s = reviewing[v].status /\ finding[p] # NoFinding
  BY <1>1 DEF ReviewInv
<1>3. PICK f : f = [finding[p] EXCEPT !.status = s]
  OBVIOUS
<1>4. finding' = [finding EXCEPT ![p] = f] /\ reviewing' = [reviewing EXCEPT ![v] = Idle] /\ ~Locked(p)
  BY <1>2, <1>3 DEF ReviewCommit
<1>5. /\ finding' = [q \in RunId |-> finding'[q]] /\ finding'[p] = f
      /\ \A q \in RunId : q # p => finding'[q] = finding[q]
  BY <1>2, <1>4 DEF PairInv
<1>6. /\ reviewing' = [w \in Reviewer |-> reviewing'[w]] /\ reviewing'[v] = Idle
      /\ \A w \in Reviewer : w # v => reviewing'[w] = reviewing[w]
  BY <1>4 DEF ReviewInv
<1>7. RowOf(p, f) /\ f # NoFinding
  <2>1. PICK e : e = finding[p] /\ RowOf(p, e)
    BY <1>2, RowRead
  <2>2. PICK t, b, c, d : e = [status |-> t, baseline |-> b, confidence |-> c, evidence |-> d]
    BY <2>1 DEF RowOf, IsRow
  <2>3. f = [status |-> s, baseline |-> b, confidence |-> c, evidence |-> d]
    BY <1>3, <2>1, <2>2
  <2>4. IsRow(f) /\ f.status = s /\ f.baseline = e.baseline /\ f.confidence = e.confidence /\ f.evidence = e.evidence
    BY <2>2, <2>3 DEF IsRow
  <2>5. s \in FindingStatus \ {"none"}
    BY <1>2 DEF FindingStatus, ReviewStatus
  <2>6. RowOf(p, f)
    BY <2>1, <2>4, <2>5 DEF RowOf
  <2> QED
    BY <2>4, <2>5, <2>6 DEF NoFinding
<1>8. PairInv'
  <2>1. analyzing' = [c \in Analyst |-> analyzing'[c]]
    BY <1>1 DEF PairInv
  <2>2. \A c \in Analyst : analyzing'[c] # Idle =>
          \E q, d : q = analyzing'[c].probe /\ d = analyzing'[c].baseline /\ Pair(q, d)
    BY <1>1, AnalyzingKept
  <2>3. \A q \in RunId : finding'[q] # NoFinding => \E g : g = finding'[q] /\ RowOf(q, g)
    BY <1>5, <1>7, RowRead
  <2> QED
    BY <1>5, <2>1, <2>2, <2>3, CasesStill, PairIntro
<1>9. ReviewInv'
  BY <1>5, <1>6, <1>7 DEF ReviewInv
<1>10. \A h \in Reporter : reporting[h] # Idle => finding'[reporting[h].probe] = finding[reporting[h].probe]
  BY <1>4, <1>5 DEF Locked, ReportInv
<1>11. ReportInv'
  BY <1>1, <1>10 DEF ReportInv, VersionsOf
<1> QED
  BY <1>8, <1>9, <1>11

\* What reporter g has read of p.
HasRead(g, p) ==
  /\ p = reporting[g].probe /\ finding[p].status = "confirmed" /\ reporting[g].advice = advice[p]
  /\ reporting[g].version = Cardinality(VersionsOf(p)) + 1
  /\ \A h \in Reporter : reporting[h].probe = p => h = g

LEMMA ReportRead ==
  ASSUME ReportInv, NEW g \in Reporter, reporting[g] # Idle
  PROVE  \E p \in RunId : HasRead(g, p)
BY DEF ReportInv, HasRead

LEMMA ReportIntro ==
  ASSUME reporting' = [g \in Reporter |-> reporting'[g]], advice' = [p \in RunId |-> advice'[p]],
         \A g \in Reporter : reporting'[g] # Idle => \E p \in RunId : HasRead(g, p)'
  PROVE  ReportInv'
<1>1. ASSUME NEW g \in Reporter, reporting'[g] # Idle
      PROVE  /\ reporting'[g].probe \in RunId
             /\ finding'[reporting'[g].probe].status = "confirmed"
             /\ reporting'[g].advice = advice'[reporting'[g].probe]
             /\ reporting'[g].version = Cardinality(VersionsOf(reporting[g].probe))' + 1
             /\ \A h \in Reporter : reporting'[h].probe = reporting'[g].probe => h = g
  <2>1. PICK p \in RunId : HasRead(g, p)'
    BY <1>1
  <2>2. VersionsOf(reporting[g].probe)' = VersionsOf(p)'
    BY <2>1 DEF HasRead, VersionsOf
  <2> QED
    BY <2>1, <2>2 DEF HasRead
<1> QED
  BY <1>1 DEF ReportInv

LEMMA AdviseStep ==
  ASSUME IInv, UNCHANGED caseVars, NEW d \in Adviser, AdviseCommit(d) \/ \E p \in RunId : AdviseRead(d, p)
  PROVE  PairInv' /\ ReviewInv' /\ ReportInv'
<1> USE DEF IInv
<1>1. UNCHANGED <<finding, report, analyzing, reviewing, reporting>>
  BY DEF AdviseCommit, AdviseRead
<1>2. PairInv'
  <2>1. analyzing' = [c \in Analyst |-> analyzing'[c]] /\ \A c \in Analyst : analyzing'[c] \in {analyzing[c], Idle}
    BY <1>1 DEF PairInv
  <2> QED
    BY <1>1, <2>1, PairStill
<1>3. ReviewInv'
  BY <1>1 DEF ReviewInv
<1>4. /\ advice' = [p \in RunId |-> advice'[p]]
      /\ \A p \in RunId : Locked(p) => advice'[p] = advice[p]
  BY DEF ReportInv, AdviseCommit, AdviseRead
<1>5. ASSUME NEW g \in Reporter, reporting'[g] # Idle
      PROVE  \E p \in RunId : HasRead(g, p)'
  <2>1. PICK p \in RunId : HasRead(g, p)
    BY <1>1, <1>5, ReportRead
  <2>2. advice'[p] = advice[p]
    BY <1>4, <2>1 DEF HasRead, Locked
  <2>3. VersionsOf(p)' = VersionsOf(p)
    BY <1>1 DEF VersionsOf
  <2>4. HasRead(g, p)'
    BY <1>1, <2>1, <2>2, <2>3 DEF HasRead
  <2> QED
    BY <2>4
<1>6. ReportInv'
  <2>1. reporting' = [g \in Reporter |-> reporting'[g]]
    BY <1>1 DEF ReportInv
  <2> QED
    BY <1>4, <1>5, <2>1, ReportIntro
<1> QED
  BY <1>2, <1>3, <1>6

LEMMA GenerateReadStep ==
  ASSUME IInv, UNCHANGED caseVars, NEW g \in Reporter, NEW p \in RunId, GenerateRead(g, p)
  PROVE  PairInv' /\ ReviewInv' /\ ReportInv'
<1> USE DEF IInv
<1> DEFINE z == [probe |-> p, version |-> Cardinality(VersionsOf(p)) + 1, advice |-> advice[p]]
<1>1. /\ UNCHANGED <<finding, advice, report, analyzing, reviewing>>
      /\ reporting' = [reporting EXCEPT ![g] = z]
      /\ ~Locked(p) /\ finding[p].status = "confirmed"
  BY DEF GenerateRead
<1>2. z.probe = p /\ z.version = Cardinality(VersionsOf(p)) + 1 /\ z.advice = advice[p]
  OBVIOUS
<1> HIDE DEF z
<1>3. PairInv'
  <2>1. analyzing' = [c \in Analyst |-> analyzing'[c]] /\ \A c \in Analyst : analyzing'[c] \in {analyzing[c], Idle}
    BY <1>1 DEF PairInv
  <2> QED
    BY <1>1, <2>1, PairStill
<1>4. ReviewInv'
  BY <1>1 DEF ReviewInv
<1>5. /\ reporting' = [h \in Reporter |-> reporting'[h]] /\ reporting'[g] = z
      /\ \A h \in Reporter : h # g => reporting'[h] = reporting[h]
  BY <1>1 DEF ReportInv
<1>6. \A h \in Reporter : reporting[h].probe # p
  BY <1>1 DEF Locked
<1>7. \A q : VersionsOf(q)' = VersionsOf(q)
  BY <1>1 DEF VersionsOf
<1>8. ASSUME NEW h \in Reporter, reporting'[h] # Idle
      PROVE  /\ reporting'[h].probe \in RunId
             /\ finding'[reporting'[h].probe].status = "confirmed"
             /\ reporting'[h].advice = advice'[reporting'[h].probe]
             /\ reporting'[h].version = Cardinality(VersionsOf(reporting'[h].probe)) + 1
             /\ \A k \in Reporter : reporting'[k].probe = reporting'[h].probe => k = h
  <2>1. CASE h = g
    BY <1>1, <1>2, <1>5, <1>6, <2>1
  <2>2. CASE h # g
    BY <1>1, <1>2, <1>5, <1>6, <1>8, <2>2 DEF ReportInv
  <2> QED
    BY <2>1, <2>2
<1>9. ReportInv'
  BY <1>1, <1>5, <1>8 DEF ReportInv, VersionsOf
<1> QED
  BY <1>3, <1>4, <1>9

\* The report of a probe that nobody else is writing a report of.
LEMMA GenerateCommitStep ==
  ASSUME IInv, UNCHANGED caseVars, NEW g \in Reporter, GenerateCommit(g)
  PROVE  PairInv' /\ ReviewInv' /\ ReportInv'
<1> USE DEF IInv
<1>1. /\ UNCHANGED <<finding, advice, analyzing, reviewing>> /\ reporting[g] # Idle
      /\ reporting' = [reporting EXCEPT ![g] = Idle]
  BY DEF GenerateCommit, Idle
<1>2. PairInv'
  <2>1. analyzing' = [c \in Analyst |-> analyzing'[c]] /\ \A c \in Analyst : analyzing'[c] \in {analyzing[c], Idle}
    BY <1>1 DEF PairInv
  <2> QED
    BY <1>1, <2>1, PairStill
<1>3. ReviewInv'
  BY <1>1 DEF ReviewInv
<1>4. /\ reporting' = [h \in Reporter |-> reporting'[h]] /\ reporting'[g] = Idle
      /\ \A h \in Reporter : h # g => reporting'[h] = reporting[h]
  BY <1>1 DEF ReportInv
<1>5. PICK p \in RunId : p = reporting[g].probe
  BY <1>1 DEF ReportInv
<1>6. \A h \in Reporter : reporting[h].probe = p => h = g
  BY <1>1, <1>5 DEF ReportInv
<1>7. \A q : q # p => {r \in report' : r.finding = q} = {r \in report : r.finding = q}
  <2>1. PICK row : row.finding = p /\ report' \in {report, report \cup {row}}
    <3> DEFINE row == [finding |-> p, version |-> reporting[g].version, advice |-> reporting[g].advice]
    <3>1. row.finding = p
      OBVIOUS
    <3>2. report' \in {report, report \cup {row}}
      BY <1>5 DEF GenerateCommit
    <3> HIDE DEF row
    <3> QED
      BY <3>1, <3>2
  <2> QED
    BY <2>1
<1>8. \A q : q # p => VersionsOf(q)' = VersionsOf(q)
  BY <1>7 DEF VersionsOf
<1>9. ASSUME NEW h \in Reporter, reporting'[h] # Idle
      PROVE  \E q \in RunId : HasRead(h, q)'
  <2>1. h # g /\ reporting'[h] = reporting[h] /\ reporting[h] # Idle
    BY <1>4, <1>9
  <2>2. PICK q \in RunId : HasRead(h, q)
    BY <2>1, ReportRead
  <2>3. q # p
    BY <1>6, <2>1, <2>2 DEF HasRead
  <2>4. VersionsOf(q)' = VersionsOf(q) /\ Idle.probe # q
    BY <1>8, <2>3, RunIds DEF Idle
  <2>5. \A k \in Reporter : reporting'[k].probe = q => k = h
    BY <1>4, <2>2, <2>4 DEF HasRead
  <2>6. HasRead(h, q)'
    BY <1>1, <2>1, <2>2, <2>4, <2>5 DEF HasRead
  <2> QED
    BY <2>6
<1>10. advice' = [q \in RunId |-> advice'[q]]
  BY <1>1 DEF ReportInv
<1>11. ReportInv'
  BY <1>4, <1>9, <1>10, ReportIntro
<1> QED
  BY <1>2, <1>3, <1>11

LEMMA RequestDiesStep ==
  ASSUME IInv, UNCHANGED caseVars, RequestDies
  PROVE  PairInv' /\ ReviewInv' /\ ReportInv'
<1> USE DEF IInv
<1>1. UNCHANGED <<finding, advice, report>>
  BY DEF RequestDies
<1>2. /\ analyzing' = [c \in Analyst |-> analyzing'[c]]
      /\ \A c \in Analyst : analyzing'[c] \in {analyzing[c], Idle}
  BY DEF RequestDies, PairInv
<1>3. /\ reviewing' = [v \in Reviewer |-> reviewing'[v]]
      /\ \A v \in Reviewer : reviewing'[v] \in {reviewing[v], Idle}
  BY DEF RequestDies, ReviewInv
<1>4. /\ reporting' = [g \in Reporter |-> reporting'[g]]
      /\ \A g \in Reporter : reporting'[g] \in {reporting[g], Idle}
  BY DEF RequestDies, ReportInv
<1>5. PairInv'
  BY <1>1, <1>2, PairStill
<1>6. ReviewInv'
  BY <1>1, <1>3 DEF ReviewInv
<1>7. Idle.probe \notin RunId
  BY RunIds DEF Idle
<1>8. ASSUME NEW g \in Reporter, reporting'[g] # Idle
      PROVE  \E p \in RunId : HasRead(g, p)'
  <2>1. PICK p \in RunId : HasRead(g, p)
    BY <1>4, <1>8, ReportRead
  <2>2. VersionsOf(p)' = VersionsOf(p) /\ reporting'[g] = reporting[g] /\ Idle.probe # p
    BY <1>1, <1>4, <1>7, <1>8 DEF VersionsOf
  <2>3. \A h \in Reporter : reporting'[h].probe = p => h = g
    BY <1>4, <2>1, <2>2 DEF HasRead
  <2>4. HasRead(g, p)'
    BY <1>1, <2>1, <2>2, <2>3 DEF HasRead
  <2> QED
    BY <2>4
<1>9. ReportInv'
  <2>1. advice' = [p \in RunId |-> advice'[p]]
    BY <1>1 DEF ReportInv
  <2> QED
    BY <1>4, <1>8, <2>1, ReportIntro
<1> QED
  BY <1>5, <1>6, <1>9

LEMMA FindingSteps ==
  ASSUME IInv, FindingNext, UNCHANGED caseVars
  PROVE  IInv'
<1>1. CaseInv' /\ ClaimInv'
  BY CasesStill DEF IInv
<1>2. PairInv' /\ ReviewInv' /\ ReportInv'
  BY AnalyzeReadStep, AnalyzeCommitStep, ReviewReadStep, ReviewCommitStep, AdviseStep, GenerateReadStep,
     GenerateCommitStep, RequestDiesStep DEF FindingNext
<1> QED
  BY <1>1, <1>2 DEF IInv

-----------------------------------------------------------------------------
(* AccessFacts' steps                                                      *)

LEMMA FactsStill ==
  ASSUME FactInv, UNCHANGED factVars
  PROVE  FactInv'
<1>1. now' = now /\ binding' = binding /\ assertion' = assertion /\ tx' = tx
  BY DEF factVars
<1>2. FactTables'
  BY <1>1 DEF FactInv, FactTables
<1>3. RowInv'
  BY <1>1 DEF FactInv, RowInv, Grounded, Asserts
<1>4. EndpointInv'
  BY <1>1 DEF FactInv, EndpointInv, Locks, BindingsAt
<1> QED
  BY <1>2, <1>3, <1>4 DEF FactInv

LEMMA FactInit0 == PipelineInit => FactInv
<1> SUFFICES ASSUME PipelineInit PROVE FactInv
  OBVIOUS
<1>1. /\ now = 0 /\ assertion = <<>> /\ tx = [o \in Operator |-> NoTx]
      /\ binding = [k \in BindingKey |-> binding[k]]
  BY DEF PipelineInit, FactInit, Legacy
<1>2. \A o \in Operator : tx[o].kind = "none"
  BY <1>1 DEF NoTx
<1>3. FactTables
  <2>1. assertion \in Seq(AssertionRow)
    BY <1>1
  <2> QED
    BY <1>1, <1>2, <2>1 DEF FactTables
<1>4. RowInv
  BY <1>1, <1>2 DEF RowInv, Asserts
<1>5. EndpointInv
  BY <1>2 DEF EndpointInv, Locks
<1> QED
  BY <1>3, <1>4, <1>5 DEF FactInv

\* A transaction ends or begins; the others go on.
LEMMA TxFacts ==
  ASSUME FactTables, NEW o \in Operator, NEW w, tx' = [tx EXCEPT ![o] = w]
  PROVE  /\ tx' = [p \in Operator |-> tx'[p]] /\ tx'[o] = w
         /\ \A p \in Operator : p # o => tx'[p] = tx[p]
  BY DEF FactTables

LEMMA NoTxKind == NoTx.kind = "none"
  BY DEF NoTx

\* A transaction ends without a word on bindings or assertions.
LEMMA RollbackStep ==
  ASSUME FactInv, NEW o \in Operator, tx' = [tx EXCEPT ![o] = NoTx], UNCHANGED <<now, binding, assertion>>
  PROVE  FactInv'
<1> USE DEF FactInv
<1>1. /\ tx' = [p \in Operator |-> tx'[p]] /\ tx'[o].kind = "none"
      /\ \A p \in Operator : p # o => tx'[p] = tx[p]
  BY TxFacts, NoTxKind
<1>2. FactTables'
  BY <1>1 DEF FactTables
<1>3. RowInv'
  BY <1>1 DEF RowInv, Grounded, Asserts
<1>4. EndpointInv'
  <2>1. \A e, l : BindingsAt(e, l)' = BindingsAt(e, l)
    BY DEF BindingsAt
  <2> QED
    BY <1>1, <2>1 DEF EndpointInv, Locks
<1> QED
  BY <1>2, <1>3, <1>4

\* A transaction begins on an endpoint whose row is free.
LEMMA LockStep ==
  ASSUME FactInv, NEW o \in Operator, NEW w, tx' = [tx EXCEPT ![o] = w], UNCHANGED <<now, binding, assertion>>,
         w.kind \in {"infer", "bind"}, ~EndpointLocked(w.endpoint),
         w.kind = "infer" => \A l \in w.locators : BindingsAt(w.endpoint, l) = {}
  PROVE  FactInv'
<1> USE DEF FactInv
<1>1. /\ tx' = [p \in Operator |-> tx'[p]] /\ tx'[o] = w
      /\ \A p \in Operator : p # o => tx'[p] = tx[p]
  BY TxFacts
<1>2. FactTables'
  BY <1>1 DEF FactTables
<1>3. RowInv'
  BY <1>1 DEF RowInv, Grounded, Asserts
<1>4. EndpointInv'
  <2>1. \A e, l : BindingsAt(e, l)' = BindingsAt(e, l)
    BY DEF BindingsAt
  <2>2. \A p \in Operator : Locks(p) => tx[p].endpoint # w.endpoint
    BY DEF EndpointLocked, Locks
  <2>3. \A p \in Operator : tx'[p].kind = "infer" => \A l \in tx'[p].locators : BindingsAt(tx[p].endpoint, l)' = {}
    BY <1>1, <2>1 DEF EndpointInv
  <2>4. \A p, q \in Operator : Locks(p)' /\ Locks(q)' /\ tx'[p].endpoint = tx'[q].endpoint => p = q
    BY <1>1, <2>2 DEF EndpointInv, Locks
  <2> QED
    BY <2>3, <2>4 DEF EndpointInv
<1> QED
  BY <1>2, <1>3, <1>4

\* Bindings change on the endpoint of a transaction that ends, or where
\* there was one already.
LEMMA BindingStep ==
  ASSUME FactInv, NEW o \in Operator, Locks(o), tx' = [tx EXCEPT ![o] = NoTx], UNCHANGED <<now, assertion>>,
         binding' = [k \in BindingKey |-> binding'[k]],
         \A k \in BindingKey : k.endpoint # tx[o].endpoint => binding'[k] = binding[k]
  PROVE  FactInv'
<1> USE DEF FactInv
<1>1. /\ tx' = [p \in Operator |-> tx'[p]] /\ tx'[o].kind = "none"
      /\ \A p \in Operator : p # o => tx'[p] = tx[p]
  BY TxFacts, NoTxKind
<1>2. FactTables'
  BY <1>1 DEF FactTables
<1>3. RowInv'
  BY <1>1 DEF RowInv, Grounded, Asserts
<1>4. EndpointInv'
  <2>1. ASSUME NEW p \in Operator, tx'[p].kind = "infer", NEW l \in tx'[p].locators
        PROVE  BindingsAt(tx[p].endpoint, l)' = {}
    <3>1. p # o /\ tx'[p] = tx[p]
      BY <1>1, <2>1
    <3>2. tx[p].endpoint # tx[o].endpoint /\ BindingsAt(tx[p].endpoint, l) = {}
      BY <2>1, <3>1 DEF EndpointInv, Locks
    <3> QED
      BY <3>1, <3>2 DEF BindingsAt
  <2>2. \A p, q \in Operator : Locks(p)' /\ Locks(q)' /\ tx'[p].endpoint = tx'[q].endpoint => p = q
    BY <1>1 DEF EndpointInv, Locks
  <2> QED
    BY <2>1, <2>2 DEF EndpointInv
<1> QED
  BY <1>2, <1>3, <1>4

LEMMA CreateBindingStep ==
  ASSUME FactInv, NEW o \in Operator, CreateBinding(o)
  PROVE  FactInv'
<1> DEFINE k0 == [endpoint |-> tx[o].endpoint, locator |-> tx[o].locator, provenance |-> "operator_supplied"]
<1>1. /\ Locks(o) /\ tx' = [tx EXCEPT ![o] = NoTx] /\ UNCHANGED <<now, assertion>>
      /\ binding' = [binding EXCEPT ![k0] = IF @ = None THEN tx[o].state ELSE @]
  BY DEF CreateBinding, Locks
<1>2. k0.endpoint = tx[o].endpoint
  OBVIOUS
<1> HIDE DEF k0
<1>3. /\ binding' = [k \in BindingKey |-> binding'[k]]
      /\ \A k \in BindingKey : k.endpoint # tx[o].endpoint => binding'[k] = binding[k]
  BY <1>1, <1>2 DEF FactInv, FactTables
<1> QED
  BY <1>1, <1>3, BindingStep

LEMMA InferStep ==
  ASSUME FactInv, NEW o \in Operator, InferBindings(o)
  PROVE  FactInv'
<1>1. /\ Locks(o) /\ tx' = [tx EXCEPT ![o] = NoTx] /\ UNCHANGED <<now, assertion>>
      /\ binding' = [k \in BindingKey |->
           IF /\ k.endpoint = tx[o].endpoint /\ k.locator \in tx[o].locators
              /\ k.provenance = "openapi_inferred" /\ binding[k] = None
           THEN "candidate" ELSE binding[k]]
  BY DEF InferBindings, Locks
<1>2. /\ binding' = [k \in BindingKey |-> binding'[k]]
      /\ \A k \in BindingKey : k.endpoint # tx[o].endpoint => binding'[k] = binding[k]
  BY <1>1
<1> QED
  BY <1>1, <1>2, BindingStep

LEMMA ReviewBindingStep ==
  ASSUME FactInv, NEW k0 \in BindingKey, NEW state \in ReviewState, ReviewBinding(k0, state)
  PROVE  FactInv'
<1> USE DEF FactInv
<1>1. /\ binding[k0] # None /\ now' = now /\ assertion' = assertion /\ tx' = tx
      /\ binding' = [binding EXCEPT ![k0] = state]
  BY DEF ReviewBinding
<1>2. /\ binding' = [k \in BindingKey |-> binding'[k]]
      /\ \A k \in BindingKey : binding[k] = None => binding'[k] = None
  BY <1>1 DEF FactTables
<1>3. FactTables'
  BY <1>1, <1>2 DEF FactTables
<1>4. RowInv'
  BY <1>1 DEF RowInv, Grounded, Asserts
<1>5. EndpointInv'
  <2>1. \A e, l : BindingsAt(e, l) = {} => BindingsAt(e, l)' = {}
    BY <1>2 DEF BindingsAt
  <2> QED
    BY <1>1, <2>1 DEF EndpointInv, Locks
<1> QED
  BY <1>3, <1>4, <1>5

LEMMA BindingSteps ==
  ASSUME FactInv, BindingNext
  PROVE  FactInv'
<1>1. ASSUME NEW o \in Operator, Rollback(o) PROVE FactInv'
  BY <1>1, RollbackStep DEF Rollback
<1>2. ASSUME NEW o \in Operator, NEW e \in Endpoint, NEW l \in Locator, NEW s \in ReviewState,
             BeginBinding(o, e, l, s)
      PROVE  FactInv'
  <2> DEFINE w == [kind |-> "bind", endpoint |-> e, locator |-> l, state |-> s]
  <2>1. w.kind = "bind" /\ w.endpoint = e
    OBVIOUS
  <2>2. tx' = [tx EXCEPT ![o] = w] /\ UNCHANGED <<now, binding, assertion>> /\ ~EndpointLocked(e)
    BY <1>2 DEF BeginBinding
  <2> HIDE DEF w
  <2> QED
    BY <2>1, <2>2, LockStep
<1>3. ASSUME NEW o \in Operator, NEW e \in Endpoint, NEW inBody \in BOOLEAN, BeginInference(o, e, inBody)
      PROVE  FactInv'
  <2> DEFINE new == {l \in IF inBody THEN DeriveBodyCandidates(e) ELSE DeriveCandidates(e) : BindingsAt(e, l) = {}}
             w == [kind |-> "infer", endpoint |-> e, locators |-> new]
  <2>1. w.kind = "infer" /\ w.endpoint = e /\ \A l \in w.locators : BindingsAt(e, l) = {}
    OBVIOUS
  <2>2. tx' = [tx EXCEPT ![o] = w] /\ UNCHANGED <<now, binding, assertion>> /\ ~EndpointLocked(e)
    BY <1>3 DEF BeginInference
  <2> HIDE DEF w
  <2> QED
    BY <2>1, <2>2, LockStep
<1> QED
  BY <1>1, <1>2, <1>3, CreateBindingStep, InferStep, ReviewBindingStep DEF BindingNext

\* A transaction begins that will store a row.
LEMMA BeginRowStep ==
  ASSUME FactInv, NEW o \in Operator, NEW w, tx' = [tx EXCEPT ![o] = w], UNCHANGED <<now, binding, assertion>>,
         w.kind \in {"assert", "derive", "review"}, w.row \in AssertionRow, Grounded(w.row), w.at = w.row.at
  PROVE  FactInv'
<1> USE DEF FactInv
<1>1. /\ tx' = [p \in Operator |-> tx'[p]] /\ tx'[o] = w
      /\ \A p \in Operator : p # o => tx'[p] = tx[p]
  BY TxFacts
<1>2. FactTables'
  BY <1>1 DEF FactTables
<1>3. \A a : Grounded(a) => Grounded(a)'
  BY DEF Grounded
<1>4. RowInv'
  <2>1. \A n \in DOMAIN assertion' : Grounded(assertion[n])'
    BY DEF RowInv, Grounded
  <2>2. ASSUME NEW p \in Operator, Asserts(p)'
        PROVE  tx'[p].row \in AssertionRow /\ Grounded(tx[p].row)' /\ tx'[p].at = tx'[p].row.at
    <3>1. CASE p = o
      BY <1>1, <3>1 DEF Grounded
    <3>2. CASE p # o
      BY <1>1, <2>2, <3>2 DEF RowInv, Asserts, Grounded
    <3> QED
      BY <3>1, <3>2
  <2> QED
    BY <2>1, <2>2 DEF RowInv
<1>5. EndpointInv'
  <2>1. \A e, l : BindingsAt(e, l)' = BindingsAt(e, l)
    BY DEF BindingsAt
  <2> QED
    BY <1>1, <2>1 DEF EndpointInv, Locks
<1> QED
  BY <1>2, <1>4, <1>5

LEMMA BeginAssertionStep ==
  ASSUME FactInv, CaseInv, NEW o \in Operator, NEW r \in Resource, NEW i \in Identity, NEW p \in Relationship,
         NEW a \in ExpectedAccess, NEW w \in Window, BeginAssertion(o, r, i, p, a, w)
  PROVE  FactInv'
<1> DEFINE row == [resource |-> r, identity |-> i, relationship |-> p, access |-> a,
                   provenance |-> "human_verified", state |-> "verified", window |-> w, at |-> now,
                   source |-> 0, reviewed |-> 0]
           t == [kind |-> "assert", at |-> now, row |-> row]
<1>1. row \in AssertionRow /\ Grounded(row) /\ row.at = now
  BY DEF FactInv, FactTables, AssertionRow, AssertionProvenance, Grounded
<1>2. t.kind = "assert" /\ t.row = row /\ t.at = now
  OBVIOUS
<1>3. tx' = [tx EXCEPT ![o] = t] /\ UNCHANGED <<now, binding, assertion>>
  BY DEF BeginAssertion
<1> HIDE DEF row, t
<1> QED
  BY <1>1, <1>2, <1>3, BeginRowStep

LEMMA BeginDerivationStep ==
  ASSUME FactInv, CaseInv, NEW o \in Operator, NEW k \in DOMAIN run, BeginDerivation(o, k)
  PROVE  FactInv'
<1> DEFINE row == Observed(k, now)
           t == [kind |-> "derive", at |-> now, row |-> row]
<1>1. run[k].case \in Case /\ k \in Nat
  <2>1. run \in Seq(RunRow)
    BY DEF CaseInv
  <2>2. run[k] \in RunRow /\ k \in Nat
    BY <2>1
  <2> QED
    BY <2>2 DEF RunRow
<1>2. run[k].case.resource \in Resource /\ run[k].case.actor \in Identity
  BY <1>1 DEF Case
<1>3. row \in AssertionRow /\ Grounded(row) /\ row.at = now
  BY <1>1, <1>2 DEF FactInv, FactTables, AssertionRow, AssertionProvenance, Grounded, Observed, Relationship, ExpectedAccess
<1>4. t.kind = "derive" /\ t.row = row /\ t.at = now
  OBVIOUS
<1>5. tx' = [tx EXCEPT ![o] = t] /\ UNCHANGED <<now, binding, assertion>>
  BY DEF BeginDerivation
<1> HIDE DEF row, t
<1> QED
  BY <1>3, <1>4, <1>5, BeginRowStep

\* A review's transaction has begun and holds no row yet.
LEMMA OpenReviewStep ==
  ASSUME FactInv, NEW o \in Operator, NEW r \in Resource, OpenReview(o, r)
  PROVE  FactInv'
<1> USE DEF FactInv
<1> DEFINE w == [kind |-> "open", at |-> now, resource |-> r]
<1>1. w.kind = "open" /\ w.at = now
  OBVIOUS
<1>2. tx' = [tx EXCEPT ![o] = w] /\ UNCHANGED <<now, binding, assertion>>
  BY DEF OpenReview
<1> HIDE DEF w
<1>3. /\ tx' = [p \in Operator |-> tx'[p]] /\ tx'[o] = w
      /\ \A p \in Operator : p # o => tx'[p] = tx[p]
  BY <1>2, TxFacts
<1>4. FactTables'
  BY <1>1, <1>2, <1>3 DEF FactTables
<1>5. RowInv'
  BY <1>1, <1>2, <1>3 DEF RowInv, Grounded, Asserts
<1>6. EndpointInv'
  <2>1. \A e, l : BindingsAt(e, l)' = BindingsAt(e, l)
    BY <1>2 DEF BindingsAt
  <2> QED
    BY <1>1, <1>3, <2>1 DEF EndpointInv, Locks
<1> QED
  BY <1>4, <1>5, <1>6

LEMMA BeginReviewStep ==
  ASSUME FactInv, NEW o \in Operator, NEW n \in DOMAIN assertion, NEW d \in {"verify", "reject"}, BeginReview(o, n, d)
  PROVE  FactInv'
<1>1. PICK state \in {"verified", "rejected"} : state = IF d = "verify" THEN "verified" ELSE "rejected"
  OBVIOUS
<1> DEFINE row == Verdict(n, state, tx[o].at)
           t == [kind |-> "review", at |-> tx[o].at, row |-> row]
<1>2. assertion[n] \in AssertionRow /\ n \in Nat /\ tx[o].at \in Nat
  BY DEF FactInv, FactTables, BeginReview
<1>3. /\ row \in AssertionRow /\ row.at = tx[o].at /\ row.reviewed = n /\ row.provenance = "human_verified"
      /\ row.state = state
  BY <1>2 DEF Verdict, AssertionRow, AssertionProvenance
<1>4. Grounded(row)
  <2>1. Grounded(assertion[n]) /\ Reviewable(assertion[n])
    BY DEF FactInv, RowInv, BeginReview
  <2>2. assertion[n].provenance = "observed_baseline"
    BY <2>1 DEF Grounded, Reviewable
  <2> QED
    BY <1>3, <2>2 DEF Grounded
<1>5. t.kind = "review" /\ t.row = row /\ t.at = tx[o].at
  OBVIOUS
<1>6. tx' = [tx EXCEPT ![o] = t] /\ UNCHANGED <<now, binding, assertion>>
  BY <1>1 DEF BeginReview
<1> HIDE DEF row, t
<1> QED
  BY <1>3, <1>4, <1>5, <1>6, BeginRowStep

LEMMA CommitStep ==
  ASSUME FactInv, NEW o \in Operator, CommitAssertion(o)
  PROVE  FactInv'
<1> USE DEF FactInv
<1>1. /\ Asserts(o) /\ tx' = [tx EXCEPT ![o] = NoTx] /\ now' = now /\ binding' = binding
      /\ assertion' \in {assertion, Append(assertion, tx[o].row)}
  BY DEF CommitAssertion, Asserts
<1>2. CASE assertion' = assertion
  BY <1>1, <1>2, RollbackStep
<1>3. CASE assertion' = Append(assertion, tx[o].row)
  <2>1. tx[o].row \in AssertionRow /\ Grounded(tx[o].row)
    BY <1>1 DEF RowInv
  <2>2. assertion \in Seq(AssertionRow)
    BY DEF FactTables
  <2>3. /\ assertion' \in Seq(AssertionRow) /\ DOMAIN assertion \subseteq DOMAIN assertion'
        /\ \A n \in DOMAIN assertion : assertion'[n] = assertion[n]
        /\ \A n \in DOMAIN assertion' : n \in DOMAIN assertion \/ assertion'[n] = tx[o].row
    BY <1>3, <2>1, <2>2
  <2>4. /\ tx' = [p \in Operator |-> tx'[p]] /\ tx'[o].kind = "none"
        /\ \A p \in Operator : p # o => tx'[p] = tx[p]
    BY <1>1, TxFacts, NoTxKind
  <2>5. FactTables'
    BY <1>1, <2>3, <2>4 DEF FactTables
  <2>6. \A a : Grounded(a) => Grounded(a)'
    BY <2>3 DEF Grounded
  <2>7. RowInv'
    <3>1. ASSUME NEW n \in DOMAIN assertion' PROVE Grounded(assertion[n])'
      <4>1. PICK a : a = assertion'[n] /\ Grounded(a)
        BY <2>1, <2>3 DEF RowInv
      <4>2. a.reviewed = 0 \/ a.reviewed \in DOMAIN assertion
        BY <4>1 DEF Grounded
      <4> QED
        BY <2>3, <4>1, <4>2 DEF Grounded
    <3>2. ASSUME NEW p \in Operator, Asserts(p)'
          PROVE  tx'[p].row \in AssertionRow /\ Grounded(tx[p].row)' /\ tx'[p].at = tx'[p].row.at
      <4>1. tx'[p] = tx[p] /\ Asserts(p)
        BY <2>4, <3>2 DEF Asserts
      <4>2. tx[p].row \in AssertionRow /\ Grounded(tx[p].row) /\ tx[p].at = tx[p].row.at
        BY <4>1 DEF RowInv
      <4> QED
        BY <2>3, <4>1, <4>2 DEF Grounded
    <3> QED
      BY <3>1, <3>2 DEF RowInv
  <2>8. EndpointInv'
    <3>1. \A e, l : BindingsAt(e, l)' = BindingsAt(e, l)
      BY <1>1 DEF BindingsAt
    <3> QED
      BY <2>4, <3>1 DEF EndpointInv, Locks
  <2> QED
    BY <2>5, <2>7, <2>8
<1> QED
  BY <1>1, <1>2, <1>3

LEMMA AssertionSteps ==
  ASSUME FactInv, CaseInv, AssertionNext
  PROVE  FactInv'
<1>1. CASE Tick
  <2>1. now' = now + 1 /\ binding' = binding /\ assertion' = assertion /\ tx' = tx
    BY <1>1 DEF Tick
  <2>2. FactTables'
    BY <2>1 DEF FactInv, FactTables
  <2>3. RowInv'
    BY <2>1 DEF FactInv, RowInv, Grounded, Asserts
  <2>4. EndpointInv'
    BY <2>1 DEF FactInv, EndpointInv, Locks, BindingsAt
  <2> QED
    BY <2>2, <2>3, <2>4 DEF FactInv
<1>2. ASSUME NEW o \in Operator, Rollback(o) PROVE FactInv'
  BY <1>2, RollbackStep DEF Rollback
<1> QED
  BY <1>1, <1>2, CommitStep, BeginAssertionStep, BeginDerivationStep, OpenReviewStep, BeginReviewStep
     DEF AssertionNext

LEMMA StepInv == IInv /\ FactInv /\ [PipelineNext]_pipelineVars => (IInv /\ FactInv)'
<1> SUFFICES ASSUME IInv, FactInv, [PipelineNext]_pipelineVars PROVE IInv' /\ FactInv'
  OBVIOUS
<1>1. CASE CaseNext /\ UNCHANGED <<factVars, findingVars>>
  <2>1. UNCHANGED factVars /\ UNCHANGED findingVars
    BY <1>1
  <2> QED
    BY <1>1, <2>1, CaseSteps, FactsStill
<1>2. CASE FindingNext /\ UNCHANGED <<caseVars, factVars>>
  <2>1. UNCHANGED caseVars /\ UNCHANGED factVars
    BY <1>2
  <2> QED
    BY <1>2, <2>1, FindingSteps, FactsStill
<1>3. ASSUME UNCHANGED caseVars, UNCHANGED findingVars PROVE IInv'
  <2>1. CaseInv' /\ ClaimInv' /\ RunsKept
    BY <1>3, CasesStill DEF IInv
  <2> QED
    BY <1>3, <2>1, FindingsKept DEF IInv
<1>4. CASE (BindingNext \/ AssertionNext) /\ UNCHANGED <<caseVars, findingVars>>
  <2>1. UNCHANGED caseVars /\ UNCHANGED findingVars
    BY <1>4
  <2>2. FactInv'
    BY <1>4, BindingSteps, AssertionSteps DEF IInv
  <2> QED
    BY <1>3, <2>1, <2>2
<1>5. CASE UNCHANGED pipelineVars
  <2>1. UNCHANGED caseVars /\ UNCHANGED findingVars /\ UNCHANGED factVars
    BY <1>5 DEF pipelineVars
  <2> QED
    BY <1>3, <2>1, FactsStill
<1> QED
  BY <1>1, <1>2, <1>4, <1>5 DEF PipelineNext

-----------------------------------------------------------------------------
(* Theorems                                                                *)

\* The inductive invariants hold whichever requests, executions and plans
\* work on the database at the same time.
THEOREM Invariance == PipelineSpec => [](IInv /\ FactInv)
BY InitInv, FactInit0, StepInv, PTL DEF PipelineSpec

LEMMA ClaimsAreAlone == IInv => OneInFlight
<1> SUFFICES ASSUME IInv, NEW c \in Case \ overrun PROVE Cardinality(InFlight(c)) <= 1
  BY DEF OneInFlight
<1>1. CASE InFlight(c) = {}
  BY <1>1, FS_EmptySet
<1>2. ASSUME NEW x \in InFlight(c) PROVE Cardinality(InFlight(c)) <= 1
  <2>1. InFlight(c) = {x}
    BY <1>2 DEF IInv, ClaimInv, InFlight
  <2> QED
    BY SMTT(30), <2>1, FS_Singleton
<1> QED
  BY <1>1, <1>2

\* Two direct executions of a case are never on the network together, unless
\* a write that did not ask for the status came under one of them.
THEOREM ClaimExcludes == PipelineSpec => []OneInFlight
BY Invariance, ClaimsAreAlone, PTL

LEMMA PairsStand == IInv => EvidenceOfPair
BY DEF IInv, PairInv, Pair, EvidenceOfPair

\* The evidence of a finding is that of one pair of runs for ever, though
\* cases are generated and executed, and other analyses commit, in between.
THEOREM EvidenceStands == PipelineSpec => []EvidenceOfPair
BY Invariance, PairsStand, PTL

LEMMA ReportWritten ==
  ASSUME IInv, [PipelineNext]_pipelineVars, NEW r \in report' \ report
  PROVE  /\ finding'[r.finding].status = "confirmed" /\ r.advice = advice'[r.finding]
         /\ r.version = Cardinality(VersionsOf(r.finding)) + 1
<1>1. PICK g \in Reporter : GenerateCommit(g)
  BY DEF PipelineNext, pipelineVars, findingVars, FindingNext, AnalyzeRead, AnalyzeCommit, ReviewRead,
         ReviewCommit, AdviseRead, AdviseCommit, GenerateRead, RequestDies
<1>2. reporting[g] # Idle /\ UNCHANGED <<finding, advice>>
  BY <1>1 DEF GenerateCommit, Idle
<1>3. PICK p \in RunId : /\ p = reporting[g].probe /\ finding[p].status = "confirmed"
                         /\ reporting[g].advice = advice[p]
                         /\ reporting[g].version = Cardinality(VersionsOf(p)) + 1
  BY <1>2 DEF IInv, ReportInv
<1>4. r = [finding |-> p, version |-> reporting[g].version, advice |-> reporting[g].advice]
  BY <1>1, <1>3 DEF GenerateCommit
<1>5. r.finding = p /\ r.version = reporting[g].version /\ r.advice = reporting[g].advice
  BY <1>4
<1> QED
  BY <1>2, <1>3, <1>5

\* When a report appears its finding is confirmed, it cites the latest advice
\* and its version is the next one, whoever else works beside it.
THEOREM ReportsAreConfirmed == PipelineSpec => ReportsConfirmed
<1>1. IInv /\ FactInv /\ [PipelineNext]_pipelineVars =>
        [\A r \in report' \ report :
           /\ finding'[r.finding].status = "confirmed" /\ r.advice = advice'[r.finding]
           /\ r.version = Cardinality(VersionsOf(r.finding)) + 1]_<<report>>
  BY ReportWritten
<1> QED
  BY <1>1, Invariance, PTL DEF PipelineSpec, ReportsConfirmed

-----------------------------------------------------------------------------
(* Bindings and assertions                                                 *)

\* An inferred binding appears only by the inference that found no other.
LEMMA InferredAppears ==
  ASSUME FactInv, [PipelineNext]_pipelineVars, NEW k \in BindingKey,
         k.provenance = "openapi_inferred", binding[k] = None, binding'[k] # None
  PROVE  binding[[k EXCEPT !.provenance = "operator_supplied"]] = None
<1>1. BindingNext
  BY DEF PipelineNext, pipelineVars, factVars, AssertionNext, Tick, Rollback, CommitAssertion, BeginAssertion,
         BeginDerivation, OpenReview, BeginReview
<1>2. binding = [m \in BindingKey |-> binding[m]]
  BY DEF FactInv, FactTables
<1>3. ASSUME NEW o \in Operator, CreateBinding(o) PROVE FALSE
  <2> DEFINE k0 == [endpoint |-> tx[o].endpoint, locator |-> tx[o].locator, provenance |-> "operator_supplied"]
  <2>1. binding' = [binding EXCEPT ![k0] = IF @ = None THEN tx[o].state ELSE @]
    BY <1>3 DEF CreateBinding
  <2>2. k0.provenance = "operator_supplied"
    OBVIOUS
  <2> HIDE DEF k0
  <2>3. k # k0
    BY <2>2
  <2> QED
    BY <1>2, <2>1, <2>3
<1>4. ASSUME NEW m \in BindingKey, NEW state \in ReviewState, ReviewBinding(m, state) PROVE FALSE
  BY <1>2, <1>4 DEF ReviewBinding
<1>5. PICK o \in Operator : InferBindings(o)
  BY <1>1, <1>3, <1>4 DEF BindingNext, Rollback, BeginBinding, BeginInference
<1>6. tx[o].kind = "infer" /\ k.endpoint = tx[o].endpoint /\ k.locator \in tx[o].locators
  BY <1>5 DEF InferBindings
<1>7. BindingsAt(k.endpoint, k.locator) = {}
  BY <1>6 DEF FactInv, EndpointInv
<1> DEFINE own == [k EXCEPT !.provenance = "operator_supplied"]
<1>8. own \in BindingKey /\ own.endpoint = k.endpoint /\ own.locator = k.locator
  BY DEF BindingKey, Provenance
<1> HIDE DEF own
<1>9. binding[own] = None
  BY <1>7, <1>8 DEF BindingsAt
<1> QED
  BY <1>9 DEF own

\* An inferred binding never appears for a locator on which an operator has
\* ruled (infer_bindings and create_binding lock the endpoint's row).
THEOREM InferencesYield == PipelineSpec => InferenceYields
<1>1. IInv /\ FactInv /\ [PipelineNext]_pipelineVars =>
        [\A k \in BindingKey :
           k.provenance = "openapi_inferred" /\ binding[k] = None /\ binding'[k] # None
             => binding[[k EXCEPT !.provenance = "operator_supplied"]] = None]_<<binding>>
  BY InferredAppears
<1> QED
  BY <1>1, Invariance, PTL DEF PipelineSpec, InferenceYields

\* A resolution reads the eligible rows and nothing else.
LEMMA ResolutionKept ==
  ASSUME NEW r, NEW i, NEW t, Eligible(r, i, t)' = Eligible(r, i, t),
         \A n \in Eligible(r, i, t) : assertion'[n] = assertion[n]
  PROVE  ResolveAccess(r, i, t)' = ResolveAccess(r, i, t)
<1>1. PICK S : Eligible(r, i, t) = S /\ Eligible(r, i, t)' = S /\ \A n \in S : assertion'[n] = assertion[n]
  OBVIOUS
<1> DEFINE refused == [state |-> "refused", relationship |-> "unspecified", access |-> "unspecified", support |-> {}]
           Fact(rs, as) == IF Cardinality(S) > MaxScanned THEN refused ELSE Resolution(S, rs, as)
<1>2. PICK rs, as : /\ rs = {assertion[n].relationship : n \in S} \ {"unspecified"}
                    /\ as = {assertion[n].access : n \in S} \ {"unspecified"}
  OBVIOUS
<1>3. /\ rs = {assertion'[n].relationship : n \in S} \ {"unspecified"}
      /\ as = {assertion'[n].access : n \in S} \ {"unspecified"}
  BY <1>1, <1>2
<1>4. ResolveAccess(r, i, t) = Fact(rs, as)
  BY <1>1, <1>2 DEF ResolveAccess
<1>5. ResolveAccess(r, i, t)' = Fact(rs, as)
  BY <1>1, <1>3 DEF ResolveAccess
<1> QED
  BY ONLY <1>4, <1>5

LEMMA SettledKept ==
  ASSUME FactInv, [PipelineNext]_pipelineVars, assertion' # assertion,
         NEW r \in Resource, NEW i \in Identity, NEW t \in 0 .. MaxTime, Settled(t)
  PROVE  ResolveAccess(r, i, t)' = ResolveAccess(r, i, t)
<1>1. PICK o \in Operator : CommitAssertion(o)
  BY DEF PipelineNext, pipelineVars, factVars, BindingNext, AssertionNext, Tick, Rollback, CreateBinding,
         InferBindings, BeginBinding, BeginInference, ReviewBinding, BeginAssertion, BeginDerivation,
         OpenReview, BeginReview
<1>2. Asserts(o) /\ assertion' = Append(assertion, tx[o].row)
  BY <1>1 DEF CommitAssertion, Asserts
<1>3. tx[o].row \in AssertionRow /\ t < tx[o].row.at
  BY <1>2 DEF FactInv, RowInv, Settled, Asserts
<1>4. assertion \in Seq(AssertionRow) /\ tx[o].row.at \in Nat /\ t \in Int
  BY <1>3 DEF FactInv, FactTables, AssertionRow
<1>5. /\ Len(assertion) \in Nat /\ DOMAIN assertion = 1 .. Len(assertion)
      /\ DOMAIN assertion' = 1 .. (Len(assertion) + 1)
      /\ \A n \in DOMAIN assertion : assertion'[n] = assertion[n]
      /\ assertion'[Len(assertion) + 1] = tx[o].row
  BY <1>2, <1>3, <1>4
<1>6. ~(tx[o].row.at <= t)
  BY <1>3, <1>4
<1>7. \A n : n \in DOMAIN assertion' <=> n \in DOMAIN assertion \/ n = Len(assertion) + 1
  BY <1>5
<1>8. Eligible(r, i, t)' = Eligible(r, i, t)
  BY <1>5, <1>6, <1>7 DEF Eligible
<1>9. \A n \in Eligible(r, i, t) : assertion'[n] = assertion[n]
  BY <1>5 DEF Eligible
<1> QED
  BY <1>8, <1>9, ResolutionKept

\* What the resolution says of an instant never changes once the instant is
\* over and the transactions that had begun by then have ended
\* (resolve_resource_access, server_default now()).
THEOREM PastIsSettled == PipelineSpec => PastSettles
<1>1. IInv /\ FactInv /\ [PipelineNext]_pipelineVars =>
        [\A r \in Resource, i \in Identity, t \in 0 .. MaxTime :
           Settled(t) => ResolveAccess(r, i, t)' = ResolveAccess(r, i, t)]_<<assertion>>
  BY SettledKept
<1> QED
  BY <1>1, Invariance, PTL DEF PipelineSpec, PastSettles

\* A set of at most one element has no two.
LEMMA AtMostOne ==
  ASSUME NEW S, IsFiniteSet(S), ~(Cardinality(S) > 1), NEW x \in S, NEW y \in S
  PROVE  x = y
<1> SUFFICES ASSUME x # y PROVE FALSE
  OBVIOUS
<1>1. Cardinality({x, y}) = 2 /\ IsFiniteSet({x, y})
  <2>1. IsFiniteSet({x}) /\ Cardinality({x}) = 1
    BY FS_Singleton
  <2>2. {x} \cup {y} = {x, y} /\ y \notin {x}
    OBVIOUS
  <2> QED
    BY <2>1, <2>2, FS_AddElement
<1>2. {x, y} \subseteq S
  OBVIOUS
<1>3. Cardinality({x, y}) <= Cardinality(S) /\ Cardinality(S) \in Nat
  BY <1>2, FS_Subset, FS_CardinalityType
<1> QED
  BY <1>1, <1>3

\* A verified row is vouched for, and a row that is vouched for is verified.
LEMMA VerifiedVouched ==
  ASSUME FactInv, NEW n \in DOMAIN assertion
  PROVE  assertion[n].state = "verified" <=>
           \/ assertion[n].reviewed = 0 /\ assertion[n].provenance = "human_verified"
           \/ /\ assertion[n].reviewed # 0 /\ assertion[n].state = "verified"
              /\ assertion[assertion[n].reviewed].provenance = "observed_baseline"
<1>1. Grounded(assertion[n]) /\ 0 \notin DOMAIN assertion
  BY DEF FactInv, FactTables, RowInv
<1> QED
  BY <1>1 DEF Grounded

\* What a resolved access says of the rows behind it.
LEMMA ResolvedFacts ==
  ASSUME FactInv, NEW r, NEW i, NEW t,
         ResolveAccess(r, i, t).state = "resolved", ResolveAccess(r, i, t).access # "unspecified"
  PROVE  /\ \E n \in Eligible(r, i, t) : assertion[n].access = ResolveAccess(r, i, t).access
         /\ \A n \in Eligible(r, i, t) : assertion[n].access \in {ResolveAccess(r, i, t).access, "unspecified"}
         /\ \A m, n \in Eligible(r, i, t) :
              "unspecified" \notin {assertion[m].relationship, assertion[n].relationship}
                => assertion[m].relationship = assertion[n].relationship
<1> DEFINE rows == Eligible(r, i, t)
           rs == {assertion[n].relationship : n \in rows} \ {"unspecified"}
           as == {assertion[n].access : n \in rows} \ {"unspecified"}
           fact == Resolution(rows, rs, as)
<1>1. ResolveAccess(r, i, t) = fact
  BY DEF ResolveAccess
<1>2. IsFiniteSet(rows)
  <2>1. rows \subseteq 1 .. Len(assertion) /\ Len(assertion) \in Nat
    BY DEF FactInv, FactTables, Eligible
  <2>2. IsFiniteSet(1 .. Len(assertion))
    BY <2>1, FS_Interval
  <2> QED
    BY <2>1, <2>2, FS_Subset
<1> HIDE DEF rows
<1>3. IsFiniteSet(rs) /\ IsFiniteSet(as)
  <2>1. /\ IsFiniteSet({assertion[n].relationship : n \in rows})
        /\ IsFiniteSet({assertion[n].access : n \in rows})
    <3>1. [n \in rows |-> assertion[n].relationship] \in Surjection(rows, {assertion[n].relationship : n \in rows})
      BY DEF Surjection
    <3>2. [n \in rows |-> assertion[n].access] \in Surjection(rows, {assertion[n].access : n \in rows})
      BY DEF Surjection
    <3> QED
      BY <1>2, <3>1, <3>2, FS_Surjection
  <2>2. rs \subseteq {assertion[n].relationship : n \in rows} /\ as \subseteq {assertion[n].access : n \in rows}
    OBVIOUS
  <2> QED
    BY <2>1, <2>2, FS_Subset
<1>4. \A n \in rows : /\ assertion[n].relationship \in rs \cup {"unspecified"}
                      /\ assertion[n].access \in as \cup {"unspecified"}
  OBVIOUS
<1>5. \A v \in as : \E n \in rows : assertion[n].access = v
  OBVIOUS
<1> HIDE DEF rs, as
<1>6. ~(Cardinality(rs) > 1) /\ ~(Cardinality(as) > 1) /\ fact.access = Only(as)
  <2>1. fact.state = "resolved"
    BY <1>1
  <2>2. fact.access = Only(as)
    BY DEF Resolution
  <2>3. fact.state = IF Cardinality(rs) > 1 \/ Cardinality(as) > 1 THEN "conflict"
                     ELSE IF rs = {} /\ as = {} THEN "insufficient" ELSE "resolved"
    BY DEF Resolution
  <2> HIDE DEF fact
  <2> QED
    BY <2>1, <2>2, <2>3
<1>7. Cardinality(as) = 1 /\ Only(as) = CHOOSE v \in as : TRUE
  BY <1>1, <1>6 DEF Only
<1>8. as # {}
  <2>1. Cardinality({}) = 0
    BY FS_EmptySet
  <2>2. Cardinality(as) # 0
    BY <1>7
  <2> QED
    BY ONLY <2>1, <2>2
<1>9. Only(as) \in as
  BY <1>7, <1>8
<1>10. \A v \in as : v = Only(as)
  BY <1>3, <1>6, <1>9, AtMostOne
<1>11. \A v, w \in rs : v = w
  BY <1>3, <1>6, AtMostOne
<1>12. fact.access = Only(as)
  BY <1>6
<1> HIDE DEF fact
<1> QED
  BY <1>1, <1>4, <1>5, <1>9, <1>10, <1>11, <1>12 DEF rows

LEMMA CandidatesVouched == FactInv => PreviewVouched
<1> SUFFICES ASSUME FactInv, NEW e \in Endpoint, NEW k \in {m \in BindingKey : Selectable(e, m)},
                    NEW r \in Resource, NEW i \in identity, NEW t \in 0 .. MaxTime,
                    NEW c \in BindingPreview(e, [m \in {k} |-> r], {i}, t)[k]
             PROVE  /\ \E a \in Vouched(r, i, t) : a.access = c.access
                    /\ \A a \in Vouched(r, i, t) : a.access \in {c.access, "unspecified"}
                    /\ \A a, b \in Vouched(r, i, t) :
                         "unspecified" \notin {a.relationship, b.relationship} => a.relationship = b.relationship
  BY Zenon DEF PreviewVouched
<1>1. c \in MatrixCandidates(e, r, {i}, t)
  <2>1. PICK proposed : proposed = [m \in {k} |-> r]
    OBVIOUS
  <2>2. DOMAIN proposed = {k} /\ proposed[k] = r /\ c \in BindingPreview(e, proposed, {i}, t)[k]
    BY <2>1
  <2>3. Selectable(e, k)
    OBVIOUS
  <2>4. BindingPreview(e, proposed, {i}, t) = [m \in {k} |-> MatrixCandidates(e, proposed[m], {i}, t)]
    BY <2>2, <2>3 DEF BindingPreview
  <2> QED
    BY <2>2, <2>4
<1> DEFINE fact == ResolveAccess(r, i, t)
<1>2. c.access = fact.access /\ CandidateKind(i, fact) # None
  <2> DEFINE all == [j \in {i} |-> ResolveAccess(r, j, t)]
  <2>1. c \in {[identity |-> j, kind |-> CandidateKind(j, all[j]), access |-> all[j].access] :
                j \in {j \in {i} : CandidateKind(j, all[j]) # None}}
    BY <1>1 DEF MatrixCandidates
  <2>2. all[i] = fact
    OBVIOUS
  <2> HIDE DEF all, fact
  <2>3. c = [identity |-> i, kind |-> CandidateKind(i, all[i]), access |-> all[i].access]
        /\ CandidateKind(i, all[i]) # None
    BY <2>1
  <2> QED
    BY <2>2, <2>3
<1>3. fact.state = "resolved" /\ fact.access # "unspecified"
  BY <1>2 DEF CandidateKind
<1>4. \A a : a \in Vouched(r, i, t) <=> \E n \in Eligible(r, i, t) : a = assertion[n]
  BY VerifiedVouched DEF Vouched, Eligible
<1> QED
  BY <1>2, <1>3, <1>4, ResolvedFacts

\* The preview offers a candidate only for an access that a human vouched for
\* and that no other human contradicts at that instant
\* (preview_bola_binding_matrix, resolve_resource_access).
THEOREM PreviewsVouched == PipelineSpec => []PreviewVouched
BY Invariance, CandidatesVouched, PTL

-----------------------------------------------------------------------------
(* The execution of one plan, for any number of calls, generations and     *)
(* retries.                                                                *)

(* The inductive invariant.  The claim row alone does not exclude two calls  *)
(* between acquire and release, because leases expire; what holds is that no *)
(* two calls have one generation, that generations only grow, and that the   *)
(* progress row remembers the one generation that crossed the boundary.      *)

\* Labels before acquire, and labels at which a call has a ClaimHandle.
Early == {"idle", "canonical", "precancel", "preauth", "preapproval",
          "acquire", "unavailable"}
Working == {"recheck", "recancel", "prepare", "running", "rate", "renew",
            "refresh", "reapproval", "observe", "mark", "network", "finish"}

AllowedRecord(g) == [stage |-> "policy", outcome |-> "allowed", generation |-> g]
IsBlockedRecord(r) == r.stage = "execution" /\ r.outcome = "blocked"
StartedBy(g) == [phase |-> "network_started", generation |-> g]

\* Handles are distinct generations that the claim row has issued.
HandleInv ==
  /\ \A w \in Worker : handle[w] <= claim.generation
  /\ \A v, w \in Worker : v # w /\ handle[v] # 0 => handle[v] # handle[w]
  /\ \A w \in Worker : pc[w] \in Working \cup {"deny", "release"} => handle[w] # 0
  /\ \A w \in Worker : pc[w] \in Early \ {"idle"} => handle[w] = 0

\* What a call past the boundary, a request and a result say of the rows.
BoundaryInv ==
  /\ progress.phase = "network_started" => ~cancelled
  /\ \A w \in Worker : pc[w] \in {"network", "finish"} =>
       progress = StartedBy(handle[w]) /\ testRun = NoRun
  /\ \A w \in Worker : pc[w] = "network" => requests = 0
  /\ \A w \in Worker : pc[w] = "finish" =>
       out[w] \in Outcome /\ (out[w] = "succeeded" => sender = handle[w])
  /\ requests \in {0, 1} /\ (requests = 0 <=> sender = 0)
  /\ sender <= claim.generation
  /\ sender # 0 => progress = StartedBy(sender)
  /\ ResultFromSender

\* What the audit says of the calls that are running.
AuditInv ==
  /\ \A w \in Worker : pc[w] \in {"mark", "network", "finish"} =>
       AllowedRecord(handle[w]) \in audit
  /\ SentIsAudited
  /\ \A r \in audit : IsBlockedRecord(r) => r.generation <= claim.generation
  /\ \A r \in audit, w \in Worker :
       IsBlockedRecord(r) /\ pc[w] \in Working => r.generation # handle[w]
  /\ BlockedNeverSent

\* A call that is before the network, or that ends as blocked, sent nothing.
UnsentInv ==
  \A w \in Worker :
    /\ handle[w] # 0
    /\ \/ pc[w] \in (Working \ {"finish"}) \cup {"deny", "block"}
       \/ pc[w] = "release" /\ out[w] = "blocked"
    => sender # handle[w]

PlanInv ==
  /\ TypeOK
  /\ HandleInv
  /\ BoundaryInv
  /\ AuditInv
  /\ UnsentInv
  /\ RepliesAreCanonical

-----------------------------------------------------------------------------
(* The rows                                                                *)

\* Both outcomes of _release_claim keep the generation: the fence survives
\* its owner.
LEMMA ReleaseKeepsGeneration ==
  ASSUME NEW w \in Worker, claim \in Claim, ReleaseClaim(w) \/ ReleaseFails(w)
  PROVE  claim' \in Claim /\ claim'.generation = claim.generation
<1>1. ReleasedClaim \in Claim /\ ReleasedClaim.generation = claim.generation
  BY DEF ReleasedClaim, Claim
<1> QED
  BY <1>1 DEF ReleaseClaim, ReleaseFails

\* The progress row that mark_network_started writes.
LEMMA StartedRow ==
  ASSUME NEW w \in Worker, NEW g \in Generation, progress \in Progress,
         MayStartNetwork(w, g)
  PROVE  StartedProgress = StartedBy(g) /\ StartedProgress \in Progress
BY DEF StartedProgress, StartedBy, MayStartNetwork, PreparedProgress, Progress, Phase

LEMMA ZeroIsTyped == 0 \in Generation /\ 0 \in 0 .. MaxRetries - 1
BY CoordinationAssumption, ExecutionAssumption DEF Generation

-----------------------------------------------------------------------------
(* Each step keeps the invariant                                           *)

LEMMA PlanInit == Init => PlanInv
<1> SUFFICES ASSUME Init PROVE PlanInv
  OBVIOUS
<1> USE DEF Init, RowsInit, NoRun
<1>1. TypeOK
  BY ZeroIsTyped
  DEF TypeOK, RowsTypeOK, Claim, Progress, Phase, Run, AuthState, Label, Out, PlannedStatus
<1>2. HandleInv /\ UnsentInv /\ RepliesAreCanonical
  BY DEF HandleInv, UnsentInv, RepliesAreCanonical, Working
<1>3. BoundaryInv /\ AuditInv
  BY DEF BoundaryInv, AuditInv, ResultFromSender, SentIsAudited, BlockedNeverSent
<1> QED
  BY <1>1, <1>2, <1>3 DEF PlanInv

\* Up to the claim a call has no handle, and nothing but its control changes.
LEMMA PreflightSteps ==
  ASSUME PlanInv, NEW w \in Worker,
         \/ Start(w) \/ CanonicalLookup(w) \/ PreflightCancellation(w)
         \/ PreflightAuthorization(w) \/ PreflightApproval(w)
         \/ AcquireUnavailable(w) \/ UnavailableLookup(w)
  PROVE  PlanInv'
<1> USE DEF PlanInv, TypeOK, Goto, Proceed, rowVars, Start, CanonicalLookup,
            PreflightCancellation, PreflightAuthorization, PreflightApproval,
            AcquireUnavailable, UnavailableLookup
<1>1. TypeOK'
  BY ZeroIsTyped DEF RowsTypeOK, Label, Out
<1>2. HandleInv'
  BY DEF HandleInv, RowsTypeOK, Claim, Generation, Early, Working
<1>3. BoundaryInv'
  BY DEF BoundaryInv, ResultFromSender
<1>4. AuditInv'
  BY DEF AuditInv, SentIsAudited, BlockedNeverSent, Working
<1>5. UnsentInv' /\ RepliesAreCanonical'
  BY DEF UnsentInv, RepliesAreCanonical, HandleInv, Working, Early
<1> QED
  BY <1>1, <1>2, <1>3, <1>4, <1>5

\* Between the claim and the network boundary, and after an outcome that
\* could not be persisted, the other steps change control only.
LEMMA ControlSteps ==
  ASSUME PlanInv, NEW w \in Worker,
         \/ RecheckCanonical(w) \/ RecheckCancellation(w) \/ SetRunning(w)
         \/ RateWait(w) \/ Renew(w) \/ Refresh(w) \/ RefreshApproval(w)
         \/ ResultLost(w) \/ PostNetworkFailure(w)
  PROVE  PlanInv'
<1> USE DEF PlanInv, TypeOK, Goto, Proceed, ReleaseThen, rowVars, RecheckCanonical,
            RecheckCancellation, SetRunning, RateWait, Renew, Refresh,
            RefreshApproval, ResultLost, PostNetworkFailure
<1>1. TypeOK'
  BY ZeroIsTyped DEF RowsTypeOK, Label, Out, PlannedStatus
<1>2. HandleInv'
  BY DEF HandleInv, Early, Working
<1>3. BoundaryInv'
  BY DEF BoundaryInv, ResultFromSender
<1>4. AuditInv'
  BY DEF AuditInv, SentIsAudited, BlockedNeverSent, Working
<1>5. UnsentInv' /\ RepliesAreCanonical'
  BY DEF UnsentInv, RepliesAreCanonical, Working
<1> QED
  BY <1>1, <1>2, <1>3, <1>4, <1>5

\* acquire issues a generation that no handle, no sender and no audit record
\* has, whether or not its answer arrives.
LEMMA AcquireStep ==
  ASSUME PlanInv, NEW w \in Worker, Acquire(w)
  PROVE  PlanInv'
<1> USE DEF PlanInv, TypeOK, RowsTypeOK, Claim, Generation, Goto, Proceed, ReleaseThen,
            AttemptRaises, GiveUp, Acquire, AcquiredBy
<1>1. TypeOK'
  BY CoordinationAssumption, ExecutionAssumption DEF Label
<1>2. HandleInv'
  BY CoordinationAssumption DEF HandleInv, Early, Working
<1>3. BoundaryInv'
  BY DEF BoundaryInv, ResultFromSender
<1>4. AuditInv'
  BY DEF AuditInv, AuditRecord, SentIsAudited, BlockedNeverSent, IsBlockedRecord, Working
<1>5. UnsentInv'
  BY DEF UnsentInv, HandleInv, BoundaryInv, Working, Early
<1>6. RepliesAreCanonical'
  BY DEF RepliesAreCanonical
<1> QED
  BY <1>1, <1>2, <1>3, <1>4, <1>5, <1>6

\* prepare_attempt leaves a row past the boundary alone.
LEMMA PrepareStep ==
  ASSUME PlanInv, NEW w \in Worker, PrepareAttempt(w)
  PROVE  PlanInv'
<1> USE DEF PlanInv, TypeOK, RowsTypeOK, Goto, Proceed, ReleaseThen, AttemptRaises,
            GiveUp, PrepareAttempt, Preparation, PreparedProgress
<1>1. TypeOK'
  BY ExecutionAssumption DEF Label, Out, Progress, Phase
<1>2. HandleInv'
  BY DEF HandleInv, Early, Working
<1>3. BoundaryInv'
  BY DEF BoundaryInv, ResultFromSender, StartedBy
<1>4. AuditInv'
  BY DEF AuditInv, SentIsAudited, BlockedNeverSent, Working
<1>5. UnsentInv' /\ RepliesAreCanonical'
  BY DEF UnsentInv, RepliesAreCanonical, Working
<1> QED
  BY <1>1, <1>2, <1>3, <1>4, <1>5

\* The "allowed" record of this generation is committed before the mark.
LEMMA ObserveStep ==
  ASSUME PlanInv, NEW w \in Worker, ObserveAllowed(w)
  PROVE  PlanInv'
<1> USE DEF PlanInv, TypeOK, Goto, rowVars, ObserveAllowed
<1>1. TypeOK'
  BY DEF RowsTypeOK, Label, AuditRecord
<1>2. HandleInv'
  BY DEF HandleInv, Early, Working
<1>3. BoundaryInv'
  BY DEF BoundaryInv, ResultFromSender
<1>4. AuditInv'
  BY DEF AuditInv, SentIsAudited, BlockedNeverSent, AllowedRecord, IsBlockedRecord, Working
<1>5. UnsentInv' /\ RepliesAreCanonical'
  BY DEF UnsentInv, RepliesAreCanonical, Working
<1> QED
  BY <1>1, <1>2, <1>3, <1>4, <1>5

\* mark_network_started takes the row of this generation over the boundary;
\* no call was past it, nothing was sent and there is no result.
LEMMA MarkStep ==
  ASSUME PlanInv, NEW w \in Worker, MarkNetworkStarted(w)
  PROVE  PlanInv'
<1> USE DEF PlanInv, TypeOK, RowsTypeOK, Goto, Proceed, ReleaseThen, AttemptRaises,
            GiveUp, MarkNetworkStarted
<1>1. TypeOK'
  BY StartedRow, ExecutionAssumption DEF Label, Out
<1>2. HandleInv'
  BY DEF HandleInv, Early, Working
<1>3. BoundaryInv'
  BY StartedRow DEF BoundaryInv, ResultFromSender, MayStartNetwork, PreparedProgress, StartedBy
<1>4. AuditInv'
  BY DEF AuditInv, SentIsAudited, BlockedNeverSent, Working
<1>5. UnsentInv' /\ RepliesAreCanonical'
  BY DEF UnsentInv, RepliesAreCanonical, Working
<1> QED
  BY <1>1, <1>2, <1>3, <1>4, <1>5

\* The request: only the generation in the progress row is at the gateway,
\* and it is there for the first time.
LEMMA NetworkStep ==
  ASSUME PlanInv, NEW w \in Worker, NetworkRequest(w)
  PROVE  PlanInv'
<1> USE DEF PlanInv, TypeOK, Goto, rowVars, NetworkRequest
<1>1. TypeOK'
  BY DEF RowsTypeOK, Label, Out, Outcome
<1>2. HandleInv'
  BY DEF HandleInv, Early, Working
<1>3. BoundaryInv'
  BY DEF HandleInv, BoundaryInv, ResultFromSender, StartedBy, Outcome, Working
<1>4. AuditInv'
  BY DEF AuditInv, SentIsAudited, BlockedNeverSent, AllowedRecord, IsBlockedRecord, Working
<1>5. UnsentInv' /\ RepliesAreCanonical'
  BY DEF HandleInv, UnsentInv, RepliesAreCanonical, Working, Outcome
<1> QED
  BY <1>1, <1>2, <1>3, <1>4, <1>5

\* _finish: the result is this generation's, which crossed the boundary.
LEMMA PersistStep ==
  ASSUME PlanInv, NEW w \in Worker, PersistResult(w)
  PROVE  PlanInv'
<1> USE DEF PlanInv, TypeOK, Goto, PersistResult, Finished
<1>0. testRun = NoRun /\ out[w] \in Outcome
  BY DEF BoundaryInv
<1>1. TypeOK'
  BY <1>0 DEF RowsTypeOK, Run, Label, Out, Outcome, PlannedStatus, AuditRecord
<1>2. HandleInv'
  BY DEF HandleInv, Early, Working
<1>3. BoundaryInv'
  BY <1>0 DEF HandleInv, BoundaryInv, ResultFromSender, StartedBy, NoRun, Outcome, Working
<1>4. AuditInv'
  BY <1>0 DEF AuditInv, SentIsAudited, BlockedNeverSent, AllowedRecord, IsBlockedRecord,
              Working, Outcome
<1>5. UnsentInv' /\ RepliesAreCanonical'
  BY <1>0 DEF UnsentInv, RepliesAreCanonical, Working, NoRun, Outcome
<1> QED
  BY <1>1, <1>2, <1>3, <1>4, <1>5

\* The audit gets a "blocked" record only of a generation that sent nothing
\* and no longer works.
LEMMA BlockedSteps ==
  ASSUME PlanInv, NEW w \in Worker, Deny(w) \/ Block(w)
  PROVE  PlanInv'
<1> USE DEF PlanInv, TypeOK, Goto, Proceed, ReleaseThen, rowVars, Deny, Block, BlockedRecord
<1>1. TypeOK'
  BY ZeroIsTyped DEF RowsTypeOK, Label, Out, PlannedStatus, AuditRecord
<1>2. HandleInv'
  BY DEF HandleInv, Early, Working
<1>3. BoundaryInv'
  BY DEF BoundaryInv, ResultFromSender
<1>4. AuditInv'
  BY DEF AuditInv, HandleInv, UnsentInv, SentIsAudited, BlockedNeverSent, IsBlockedRecord,
         AllowedRecord, Working
<1>5. UnsentInv' /\ RepliesAreCanonical'
  BY DEF UnsentInv, RepliesAreCanonical, Working
<1> QED
  BY <1>1, <1>2, <1>3, <1>4, <1>5

LEMMA ReleaseSteps ==
  ASSUME PlanInv, NEW w \in Worker, ReleaseClaim(w) \/ ReleaseFails(w)
  PROVE  PlanInv'
<1>0. claim' \in Claim /\ claim'.generation = claim.generation
  BY ReleaseKeepsGeneration DEF PlanInv, TypeOK, RowsTypeOK
<1> USE DEF PlanInv, TypeOK, Goto, Proceed, AfterRelease, ReleaseClaim, ReleaseFails
<1>1. TypeOK'
  BY <1>0, ZeroIsTyped DEF RowsTypeOK, Label
<1>2. HandleInv'
  BY <1>0 DEF HandleInv, Early, Working
<1>3. BoundaryInv'
  BY <1>0 DEF BoundaryInv, ResultFromSender
<1>4. AuditInv'
  BY <1>0 DEF AuditInv, SentIsAudited, BlockedNeverSent, Working
<1>5. UnsentInv' /\ RepliesAreCanonical'
  BY DEF UnsentInv, RepliesAreCanonical, Working
<1> QED
  BY <1>1, <1>2, <1>3, <1>4, <1>5

\* Failed attempts and deaths of calls.
LEMMA FaultSteps ==
  ASSUME PlanInv, NEW w \in Worker, CoordinationFault(w) \/ Crash(w)
  PROVE  PlanInv'
<1> USE DEF PlanInv, TypeOK, Goto, Proceed, ReleaseThen, AttemptRaises, GiveUp, rowVars,
            CoordinationFault, Crash
<1>1. TypeOK'
  BY ZeroIsTyped, ExecutionAssumption DEF RowsTypeOK, Label, Out
<1>2. HandleInv'
  BY DEF HandleInv, RowsTypeOK, Claim, Generation, Early, Working
<1>3. BoundaryInv'
  BY DEF BoundaryInv, ResultFromSender
<1>4. AuditInv'
  BY DEF AuditInv, SentIsAudited, BlockedNeverSent, Working
<1>5. UnsentInv' /\ RepliesAreCanonical'
  BY DEF UnsentInv, RepliesAreCanonical, HandleInv, Working, Early
<1> QED
  BY <1>1, <1>2, <1>3, <1>4, <1>5

\* Time, operators and administrators.
LEMMA EnvironmentStep ==
  ASSUME PlanInv, Environment
  PROVE  PlanInv'
<1> USE DEF PlanInv, TypeOK, RowsTypeOK, rowVars, workerVars, Environment, LeaseExpires,
            RequestCancel, RecordDecision, AuthorizationChange
<1>1. claim' \in Claim /\ claim'.generation = claim.generation
  BY DEF Claim
<1>2. TypeOK'
  BY <1>1
<1>3. HandleInv' /\ UnsentInv' /\ RepliesAreCanonical'
  BY <1>1 DEF HandleInv, UnsentInv, RepliesAreCanonical
<1>4. BoundaryInv'
  BY <1>1 DEF BoundaryInv, ResultFromSender, StartedBy
<1>5. AuditInv'
  BY <1>1 DEF AuditInv, SentIsAudited, BlockedNeverSent
<1> QED
  BY <1>2, <1>3, <1>4, <1>5

-----------------------------------------------------------------------------
LEMMA PlanNext == PlanInv /\ [Next]_vars => PlanInv'
<1> SUFFICES ASSUME PlanInv, [Next]_vars PROVE PlanInv'
  OBVIOUS
<1>1. CASE UNCHANGED vars
  BY <1>1
  DEF vars, PlanInv, TypeOK, RowsTypeOK, HandleInv, BoundaryInv, AuditInv, UnsentInv,
      ResultFromSender, SentIsAudited, BlockedNeverSent, RepliesAreCanonical
<1>2. CASE Environment
  BY <1>2, EnvironmentStep
<1>3. ASSUME NEW w \in Worker, Start(w) \/ Step(w) \/ Crash(w)
      PROVE  PlanInv'
  BY <1>3, PreflightSteps, ControlSteps, AcquireStep, PrepareStep, ObserveStep,
     MarkStep, NetworkStep, PersistStep, BlockedSteps, ReleaseSteps, FaultSteps
  DEF Step
<1> QED
  BY <1>1, <1>2, <1>3 DEF Next

\* The inductive invariant holds in every reachable state.
THEOREM PlanInvariance == Spec => []PlanInv
BY PlanInit, PlanNext, PTL DEF Spec

\* Type correctness: generations stay within those acquire issued and no
\* retry loop runs past max_retries.
THEOREM PlanTypes == Spec => []TypeOK
BY PlanInvariance, PTL DEF PlanInv

\* However many calls execute the plan, and whatever fails, at most one HTTP
\* request is sent for it.
THEOREM RequestOnce == Spec => []AtMostOneRequest
<1>1. PlanInv => AtMostOneRequest
  BY DEF PlanInv, BoundaryInv, AtMostOneRequest
<1> QED
  BY <1>1, PlanInvariance, PTL

\* An accepted cancellation excludes the network, a request and a result.
THEOREM CancellationExcludesNetwork == Spec => []CancelledNeverSent
<1>1. PlanInv => CancelledNeverSent
  BY DEF PlanInv, BoundaryInv, CancelledNeverSent, ResultFromSender, StartedBy
<1> QED
  BY <1>1, PlanInvariance, PTL

\* The canonical result is the sender's, a call that lost its lease cannot
\* write it, and callers are given only it.
THEOREM ResultProvenance == Spec => []ResultTrue
BY PlanInvariance, PTL DEF PlanInv, BoundaryInv, ResultTrue

\* The safety audit is complete for what was sent, and its "blocked" records
\* are true.
THEOREM AuditIsTrue == Spec => []AuditTrue
BY PlanInvariance, PTL DEF PlanInv, AuditInv, AuditTrue

-----------------------------------------------------------------------------
(* Steps                                                                   *)

\* What any step does to the two rows that record the crossing.
LEMMA RowSteps ==
  ASSUME PlanInv, [Next]_vars
  PROVE  /\ testRun # NoRun => testRun' = testRun
         /\ progress.phase = "network_started" => progress' = progress
<1>1. CASE UNCHANGED vars \/ Environment
  BY <1>1 DEF vars, Environment, LeaseExpires, RequestCancel, RecordDecision,
              AuthorizationChange, rowVars
<1>2. ASSUME NEW w \in Worker, Start(w) \/ Step(w) \/ Crash(w)
      PROVE  /\ testRun # NoRun => testRun' = testRun
             /\ progress.phase = "network_started" => progress' = progress
  <2>1. CASE PrepareAttempt(w)
    BY <2>1 DEF PrepareAttempt, Preparation
  <2>2. CASE MarkNetworkStarted(w)
    BY <2>2 DEF MarkNetworkStarted, MayStartNetwork, PreparedProgress
  <2>3. CASE PersistResult(w)
    BY <2>3 DEF PersistResult
  <2>4. CASE ~(PrepareAttempt(w) \/ MarkNetworkStarted(w) \/ PersistResult(w))
    BY <1>2, <2>4
    DEF Step, rowVars, Start, CanonicalLookup, PreflightCancellation, PreflightAuthorization,
        PreflightApproval, Acquire, AcquireUnavailable, UnavailableLookup, RecheckCanonical,
        RecheckCancellation, SetRunning, RateWait, Renew, Refresh, RefreshApproval,
        ObserveAllowed, NetworkRequest, ResultLost, Deny, ReleaseClaim, ReleaseFails, Block,
        PostNetworkFailure, CoordinationFault, Crash
  <2> QED
    BY <2>1, <2>2, <2>3, <2>4
<1> QED
  BY <1>1, <1>2 DEF Next

\* Neither the canonical result nor a row past the boundary ever changes.
THEOREM BoundaryFinality == Spec => BoundaryIsFinal
BY PlanInvariance, RowSteps, PTL DEF Spec, BoundaryIsFinal

-----------------------------------------------------------------------------
(* Refinement of PlanLifecycle                                             *)

LEMMA RefinesInit == Init => Lifecycle!Init
BY DEF Init, RowsInit, NoRun, Lifecycle!Init, PlanStatus

\* Steps that leave cancellation, boundary, result and request count alone
\* are not seen by the lifecycle.
LEMMA HiddenStep ==
  ASSUME UNCHANGED <<progress, cancelled, testRun, requests>>
  PROVE  UNCHANGED Lifecycle!lifecycleVars
BY DEF Lifecycle!lifecycleVars, PlanStatus

LEMMA RefinesNext ==
  ASSUME PlanInv, [Next]_vars
  PROVE  [Lifecycle!Next]_(Lifecycle!lifecycleVars)
<1> USE DEF PlanInv, Lifecycle!Next
<1>1. CASE UNCHANGED vars
  BY <1>1, HiddenStep DEF vars
<1>2. CASE Environment
  <2>1. CASE RequestCancel
    BY <2>1, <1>2
    DEF RequestCancel, Environment, LeaseExpires, RecordDecision, AuthorizationChange,
        rowVars, Lifecycle!Cancel, PlanStatus
  <2>2. CASE ~RequestCancel
    BY <2>2, <1>2, HiddenStep
    DEF Environment, LeaseExpires, RecordDecision, AuthorizationChange, rowVars
  <2> QED
    BY <2>1, <2>2
<1>3. ASSUME NEW w \in Worker, Start(w) \/ Step(w) \/ Crash(w)
      PROVE  [Lifecycle!Next]_(Lifecycle!lifecycleVars)
  <2>1. CASE PrepareAttempt(w)
    <3>1. UNCHANGED <<PlanStatus, testRun, requests>>
      BY <2>1 DEF PrepareAttempt, Preparation, PreparedProgress, PlanStatus
    <3> QED
      BY <3>1 DEF Lifecycle!lifecycleVars
  <2>2. CASE MarkNetworkStarted(w) /\ ~MayStartNetwork(w, handle[w])
    BY <2>2, HiddenStep DEF MarkNetworkStarted
  <2>3. CASE MarkNetworkStarted(w) /\ MayStartNetwork(w, handle[w])
    <3>1. StartedProgress.phase = "network_started"
      BY <2>3, StartedRow DEF TypeOK, RowsTypeOK, StartedBy
    <3>2. testRun = NoRun /\ progress.phase = "pre_network" /\ ~cancelled
      BY <2>3 DEF BoundaryInv, ResultFromSender, MayStartNetwork, PreparedProgress
    <3> QED
      BY <2>3, <3>1, <3>2 DEF MarkNetworkStarted, Lifecycle!Cross, PlanStatus
  <2>4. CASE NetworkRequest(w)
    <3>1. requests = 0 /\ PlanStatus = "crossed"
      BY <2>4 DEF NetworkRequest, BoundaryInv, StartedBy, PlanStatus
    <3>2. UNCHANGED rowVars
      BY <2>4 DEF NetworkRequest
    <3>3. CASE requests' = requests + 1
      BY <3>1, <3>2, <3>3 DEF Lifecycle!Send, rowVars, PlanStatus
    <3>4. CASE requests' = requests
      BY <3>2, <3>4, HiddenStep DEF rowVars
    <3> QED
      BY <2>4, <3>3, <3>4 DEF NetworkRequest
  <2>5. CASE PersistResult(w)
    <3>1. /\ testRun = NoRun /\ PlanStatus = "crossed"
          /\ out[w] \in Outcome
          /\ out[w] = "succeeded" => requests = 1
      BY <2>5 DEF PersistResult, HandleInv, BoundaryInv, StartedBy, PlanStatus, Working
    <3>2. testRun' = [generation |-> handle[w], outcome |-> out[w]] /\ testRun' # NoRun
      BY <2>5, <3>1 DEF PersistResult, Outcome, NoRun
    <3> QED
      BY <2>5, <3>1, <3>2 DEF PersistResult, Outcome, Lifecycle!Settle, PlanStatus
  <2>6. CASE ~(\/ PrepareAttempt(w) \/ MarkNetworkStarted(w) \/ NetworkRequest(w)
               \/ PersistResult(w))
    BY <1>3, <2>6, HiddenStep
    DEF Step, rowVars, Start, CanonicalLookup, PreflightCancellation, PreflightAuthorization,
        PreflightApproval, Acquire, AcquireUnavailable, UnavailableLookup, RecheckCanonical,
        RecheckCancellation, SetRunning, RateWait, Renew, Refresh, RefreshApproval,
        ObserveAllowed, ResultLost, Deny, ReleaseClaim, ReleaseFails, Block,
        PostNetworkFailure, CoordinationFault, Crash
  <2> QED
    BY <2>1, <2>2, <2>3, <2>4, <2>5, <2>6
<1> QED
  BY <1>1, <1>2, <1>3 DEF Next

\* Execution implements the plan's lifecycle.
THEOREM Refinement == Spec => ImplementsLifecycle
<1>1. Init => Lifecycle!Init
  BY RefinesInit
<1>2. PlanInv /\ [Next]_vars => [Lifecycle!Next]_(Lifecycle!lifecycleVars)
  BY RefinesNext
<1> QED
  BY <1>1, <1>2, PlanInvariance, PTL DEF Spec, ImplementsLifecycle, Lifecycle!Spec
=============================================================================
