----------------------------- MODULE MCPipeline -----------------------------
(***************************************************************************)
(* Instance of TestCases, AccessFacts and Findings for TLC: one resource   *)
(* with its owner, another bearer and an anonymous identity, one endpoint. *)
(* Behaviours start from four states of the database: an empty Target,     *)
(* for the cases and their execution; a Target with runs, for bindings;    *)
(* the same with a confirmed binding, for assertions; and a cross-owner    *)
(* run with two baselines, for the findings.  Each is explored by the part *)
(* of the service at work on it.                                           *)
(***************************************************************************)
EXTENDS AccessFacts, Findings, TLC

CONSTANTS i1, i2, anon, r1, e1, d1, d2, path, query, body,
          x1, x2, o1, o2, a1, a2, v1, v2, w1, g1, g2

VARIABLE scenario

Kinds == (i1 :> "bearer") @@ (i2 :> "bearer") @@ (anon :> "anonymous")
Types == r1 :> "order"
Bound == e1 :> "order"
Documents == {{path}, {path, query, body}, {query, body}}
Bodies == {[doc |-> d1, key |-> "id", bytes |-> 2], [doc |-> d2, key |-> "id", bytes |-> 3],
           [doc |-> d2, key |-> None, bytes |-> 3], [doc |-> d1, key |-> "id", bytes |-> 9]}
Paths == e1 :> {path}
Locations == (path :> "path") @@ (query :> "query") @@ (body :> "body")
Windows == {Always, [from |-> 1, until |-> 2]}

Same == [doc |-> d1, key |-> "id", bytes |-> 2]
Other == [doc |-> d2, key |-> "id", bytes |-> 3]
CaseOf(i) == [endpoint |-> e1, actor |-> i, resource |-> r1]
RunOf(i, status, b) == [case |-> CaseOf(i), status |-> status, body |-> b]

\* A Target whose cases have run.
Inventory ==
  /\ identity = Identity /\ usable = {i1, i2} /\ resource = (r1 :> i1) /\ endpoint = (e1 :> {path, query, body})
  /\ case = [c \in Case |-> "completed"] /\ exec = [x \in Caller |-> NoExec] /\ planned = {} /\ overrun = {}

PathKey == [endpoint |-> e1, locator |-> path, provenance |-> "operator_supplied"]

\* The owner's baseline answered, or an error, and another identity's probe.
Known ==
  /\ scenario \in {"bindings", "assertions"} /\ Inventory /\ FindingInit
  /\ now = 0 /\ assertion = <<>> /\ tx = [o \in Operator |-> NoTx]
  /\ binding = [k \in BindingKey |-> IF scenario = "assertions" /\ k = PathKey THEN "confirmed" ELSE None]
  /\ run = <<RunOf(i1, 200, Same), RunOf(i1, None, None), RunOf(i2, 200, Same)>>

Old(baseline) == [status |-> "reviewing", baseline |-> baseline, confidence |-> 95, evidence |-> None]

\* The third run is the probe; its finding may be older than the pairing with
\* a baseline, or older than the evidence rows.
Probed ==
  /\ scenario = "findings" /\ Inventory /\ FactInit
  /\ \E probe \in {RunOf(i2, 200, Same), RunOf(i2, 206, [Other EXCEPT !.key = None]), RunOf(i2, 403, Other)} :
       run = <<RunOf(i1, 200, Same), RunOf(i1, 200, Other), probe>>
  /\ \/ FindingInit
     \/ /\ run[3] = RunOf(i2, 200, Same)
        /\ advice = [p \in RunId |-> 0] /\ report = {}
        /\ analyzing = [a \in Analyst |-> Idle] /\ reviewing = [v \in Reviewer |-> Idle]
        /\ advising = [d \in Adviser |-> Idle] /\ reporting = [g \in Reporter |-> Idle]
        /\ \E b \in {None, 2} : finding = [p \in RunId |-> IF p = 3 THEN Old(b) ELSE NoFinding]

MCInit ==
  \/ scenario = "cases" /\ CaseInit /\ FactInit /\ FindingInit
  \/ Known
  \/ Probed

MCNext ==
  /\ UNCHANGED scenario
  /\ \/ scenario = "cases" /\ CaseNext /\ UNCHANGED <<factVars, findingVars>>
     \/ scenario = "bindings" /\ BindingNext /\ UNCHANGED <<caseVars, findingVars>>
     \/ /\ scenario = "bindings" /\ \E e \in Endpoint, d \in Document : ImportUnlocked(e, d)
        /\ UNCHANGED <<factVars, findingVars>>
     \/ scenario = "assertions" /\ AssertionNext /\ UNCHANGED <<caseVars, findingVars>>
     \/ scenario = "findings" /\ FindingNext /\ UNCHANGED <<caseVars, factVars>>

MCSpec == MCInit /\ [][MCNext]_<<scenario, caseVars, factVars, findingVars>>

\* One case at a time is worked on, one bearer at a time is without its
\* token, and only a first run has any but the plain answer.
CaseBound ==
  /\ Cardinality({c \in Case : case[c] \notin {"absent", "pending"}}) <= 1
  /\ Cardinality({i \in identity \ usable : AuthType[i] = "bearer"}) <= 1
  /\ Len(run) <= 2 /\ \A k \in DOMAIN run :
       run[k] \notin {RunOf(run[k].case.actor, None, None), RunOf(run[k].case.actor, 200, Same)}
         => Len(run) = 1 /\ planned = {} /\ \A x \in Caller : exec[x] = NoExec
  /\ resource[r1] \in {None, i1}
  /\ (\E c \in Case : case[c] # "absent") => identity = Identity /\ endpoint[e1] = {path}

Opened == {o \in Operator : tx[o] # NoTx}
Rows == {assertion[n] : n \in DOMAIN assertion} \cup {tx[o].row : o \in {p \in Operator : tx[p].kind \in {"assert", "derive", "review"}}}
Bindings == {k \in BindingKey : binding[k] # None}

Few(S) == Cardinality(S) <= 1

BindingBound ==
  /\ Cardinality(Bindings) <= 3
  /\ \A k \in Bindings : k.locator = query => Few(Bindings)

\* A row that is the owner's, for ever, and says owner.
Plain(a) == a.identity = i1 /\ a.window = Always /\ a.relationship = "owner" /\ a.access # "unspecified"

\* Three plain rows, observations and their reviews, or any other row
\* beside one of these.
AssertionBound ==
  /\ now = 2 => Opened = {}
  /\ Len(assertion) + Cardinality(Opened) <= 3
  /\ LET human == {a \in Rows : a.provenance = "human_verified" /\ a.reviewed = 0} IN
     \A a \in human : ~Plain(a) => Cardinality(Rows) <= 2 /\ Few({b \in human : ~Plain(b)})
                                   /\ (a.identity # i1 => Rows = {a})

Symmetry ==
  Permutations(Caller) \cup Permutations(Operator) \cup Permutations(Analyst)
    \cup Permutations(Reviewer) \cup Permutations(Reporter)

Bounded ==
  CASE scenario = "cases" -> CaseBound
    [] scenario = "bindings" -> BindingBound
    [] scenario = "assertions" -> AssertionBound
    [] OTHER -> TRUE
=============================================================================
