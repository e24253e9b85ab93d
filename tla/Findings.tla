------------------------------ MODULE Findings ------------------------------
(***************************************************************************)
(* From two runs to a report: the deterministic analysis of a cross-owner  *)
(* run against a baseline of the owner (analyzers/bola.py and              *)
(* services/finding_analysis.py), the advisory AI analysis, the human      *)
(* review (routes/findings.py) and the versioned report                    *)
(* (services/security_report.py).                                          *)
(*                                                                         *)
(* A request reads in one step and writes in another: the row it read may  *)
(* have changed.  Only the report keeps the finding locked in between.     *)
(***************************************************************************)
EXTENDS TestCases

CONSTANTS Analyst, Reviewer, Adviser, Reporter,
          MaxAdvice, MaxReports

VARIABLES
  finding,   \* the finding of each probe run, or NoFinding
  advice,    \* how many AI analyses each finding has
  report,    \* reports
  analyzing, reviewing, advising, reporting  \* requests under way

findingVars == <<finding, advice, report, analyzing, reviewing, advising, reporting>>

RunId == 1..MaxRuns
NoFinding == [status |-> "none"]
Idle == [probe |-> 0]

ReviewStatus == {"reviewing", "confirmed", "false_positive"}
FindingStatus == {"none", "potential"} \cup ReviewStatus
SecurityReport == [finding : RunId, version : Nat, advice : Nat]

FindingInit ==
  /\ finding = [p \in RunId |-> NoFinding] /\ advice = [p \in RunId |-> 0] /\ report = {}
  /\ analyzing = [a \in Analyst |-> Idle] /\ reviewing = [v \in Reviewer |-> Idle]
  /\ advising = [d \in Adviser |-> Idle] /\ reporting = [g \in Reporter |-> Idle]

-----------------------------------------------------------------------------
(* analyzers/bola.py                                                       *)

IsSuccess(status) == status \in 200..299

\* Answered(k): the run has a response and no error.
Answered(k) == run[k].status # None

\* The checks of _classify_bola_run in their order.
Classify(p, b) ==
  IF ~Answered(p) \/ ~Answered(b) THEN "inconclusive"
  ELSE IF ~IsSuccess(run[b].status) THEN "inconclusive"
  ELSE IF run[p].status \in {401, 403, 404} THEN "pass"
  ELSE IF ~IsSuccess(run[p].status) \/ run[p].body.doc = None THEN "inconclusive"
  ELSE IF run[b].body.key # None /\ run[p].body.key # None THEN "potential_bola"
  ELSE "inconclusive"

Confidence(p, b) == IF run[p].body.doc = run[b].body.doc THEN 99 ELSE 95

\* A digest is the body itself: no two bodies share one.
Fingerprint(p, b) == [baseline |-> run[b].body, probe |-> run[p].body]

Bytes(body) == IF body = None THEN 0 ELSE body.bytes

Similarity(p, b) ==
  LET x == Bytes(run[p].body)  y == Bytes(run[b].body)
      shorter == IF x < y THEN x ELSE y  longer == IF x < y THEN y ELSE x
  IN  [exact |-> run[p].body = run[b].body,
       bps |-> IF longer = 0 THEN 10000 ELSE (shorter * 10000) \div longer]

Structured(p, b) == [probe |-> p, baseline |-> b, probeStatus |-> run[p].status, baselineStatus |-> run[b].status]

\* The excerpt names the field that matched and never the value.
Excerpt(p, b) == [baseline |-> run[b].body.key, probe |-> run[p].body.key]

\* The rows of a finding's evidence, written in one savepoint; the policy of
\* retention is the same for all.
Evidence(p, b) ==
  [structured |-> Structured(p, b), excerpt |-> Excerpt(p, b),
   fingerprint |-> Fingerprint(p, b), similarity |-> Similarity(p, b)]

-----------------------------------------------------------------------------
(* FindingAnalysisService.analyze_test_run                                 *)

ValidPair(p, b) ==
  /\ p # b /\ TestType(run[b].case) = "owner_baseline"
  /\ run[b].case.endpoint = run[p].case.endpoint
  /\ run[b].case.resource = run[p].case.resource
  /\ run[b].case.actor # run[p].case.actor

\* A finding without a baseline is older than the pairing, and is not
\* completed.
BaselineBound(f, b) == f.baseline = b

FingerprintStands(f, p, b) == f.evidence # None => f.evidence.fingerprint = Fingerprint(p, b)

\* Mutant of Locked: the report reads the finding without locking it.
LockedNever(p) == FALSE

\* A finding is locked while a report of it is written.
Locked(p) == \E g \in Reporter : reporting[g].probe = p

AnalyzeRead(a, p, b) ==
  /\ analyzing[a] = Idle
  /\ TestType(run[p].case) = "bola_cross_owner" /\ ValidPair(p, b)
  /\ finding[p] # NoFinding => BaselineBound(finding[p], b) /\ FingerprintStands(finding[p], p, b)
  /\ Classify(p, b) = "potential_bola"
  /\ analyzing' = [analyzing EXCEPT ![a] = [probe |-> p, baseline |-> b]]
  /\ UNCHANGED <<finding, advice, report, reviewing, advising, reporting>>

\* Mutant of StoreFinding: a later analysis puts its own pair in the row.
StoreReplacing(f, p, b) ==
  [status |-> IF f = NoFinding THEN "potential" ELSE f.status, baseline |-> IF f = NoFinding THEN b ELSE f.baseline,
   confidence |-> Confidence(p, b), evidence |-> Evidence(p, b)]

\* The row and its evidence are inserted if they are not there; otherwise
\* the pair must be the stored one, and only what the rule computes is
\* refreshed: never the status.
StoreFinding(f, p, b) ==
  IF f = NoFinding
  THEN [status |-> "potential", baseline |-> b, confidence |-> Confidence(p, b), evidence |-> Evidence(p, b)]
  ELSE IF BaselineBound(f, b) /\ f.evidence \in {None, Evidence(p, b)}
  THEN [f EXCEPT !.confidence = Confidence(p, b), !.evidence = Evidence(p, b)]
  ELSE f

AnalyzeCommit(a) ==
  LET p == analyzing[a].probe IN
  /\ p # 0 /\ (finding[p] # NoFinding => ~Locked(p))
  /\ finding' = [finding EXCEPT ![p] = StoreFinding(@, p, analyzing[a].baseline)]
  /\ analyzing' = [analyzing EXCEPT ![a] = Idle]
  /\ UNCHANGED <<advice, report, reviewing, advising, reporting>>

-----------------------------------------------------------------------------
(* Review, advice, reports                                                 *)

AllowedNext(status) ==
  CASE status = "potential" -> ReviewStatus
    [] status = "reviewing" -> {"confirmed", "false_positive"}
    [] OTHER -> {}

ReviewRead(v, p, status) ==
  /\ reviewing[v] = Idle /\ status \in AllowedNext(finding[p].status)
  /\ reviewing' = [reviewing EXCEPT ![v] = [probe |-> p, status |-> status]]
  /\ UNCHANGED <<finding, advice, report, analyzing, advising, reporting>>

\* The update asks for the row by its id alone.
ReviewCommit(v) ==
  LET p == reviewing[v].probe IN
  /\ p # 0 /\ ~Locked(p)
  /\ finding' = [finding EXCEPT ![p].status = reviewing[v].status]
  /\ reviewing' = [reviewing EXCEPT ![v] = Idle]
  /\ UNCHANGED <<advice, report, analyzing, advising, reporting>>

\* The provider is asked outside a transaction.
AdviseRead(d, p) ==
  /\ advising[d] = Idle /\ finding[p].status \in {"potential", "reviewing", "confirmed"}
  /\ advising' = [advising EXCEPT ![d] = [probe |-> p]]
  /\ UNCHANGED <<finding, advice, report, analyzing, reviewing, reporting>>

\* The new row refers to the finding, so it waits for the finding's lock.
AdviseCommit(d) ==
  LET p == advising[d].probe IN
  /\ p # 0 /\ ~Locked(p) /\ advice[p] < MaxAdvice
  /\ advice' = [advice EXCEPT ![p] = @ + 1]
  /\ advising' = [advising EXCEPT ![d] = Idle]
  /\ UNCHANGED <<finding, report, analyzing, reviewing, reporting>>

VersionsOf(p) == {r.version : r \in {q \in report : q.finding = p}}

\* The latest analysis and the next version are read under the lock.
GenerateRead(g, p) ==
  /\ reporting[g] = Idle /\ ~Locked(p) /\ finding[p].status = "confirmed"
  /\ Cardinality(report) < MaxReports
  /\ reporting' = [reporting EXCEPT ![g] =
       [probe |-> p, version |-> Cardinality(VersionsOf(p)) + 1, advice |-> advice[p]]]
  /\ UNCHANGED <<finding, advice, report, analyzing, reviewing, advising>>

GenerateCommit(g) ==
  LET p == reporting[g].probe IN
  /\ p # 0
  /\ report' = IF reporting[g].version \in VersionsOf(p) THEN report
               ELSE report \cup {[finding |-> p, version |-> reporting[g].version, advice |-> reporting[g].advice]}
  /\ reporting' = [reporting EXCEPT ![g] = Idle]
  /\ UNCHANGED <<finding, advice, analyzing, reviewing, advising>>

\* A request dies before it commits.
RequestDies ==
  /\ \/ \E a \in Analyst : analyzing[a] # Idle /\ analyzing' = [analyzing EXCEPT ![a] = Idle]
                            /\ UNCHANGED <<reviewing, advising, reporting>>
     \/ \E v \in Reviewer : reviewing[v] # Idle /\ reviewing' = [reviewing EXCEPT ![v] = Idle]
                             /\ UNCHANGED <<analyzing, advising, reporting>>
     \/ \E d \in Adviser : advising[d] # Idle /\ advising' = [advising EXCEPT ![d] = Idle]
                            /\ UNCHANGED <<analyzing, reviewing, reporting>>
     \/ \E g \in Reporter : reporting[g] # Idle /\ reporting' = [reporting EXCEPT ![g] = Idle]
                             /\ UNCHANGED <<analyzing, reviewing, advising>>
  /\ UNCHANGED <<finding, advice, report>>

FindingNext ==
  \/ \E a \in Analyst : AnalyzeCommit(a) \/ \E p, b \in DOMAIN run : AnalyzeRead(a, p, b)
  \/ \E v \in Reviewer : ReviewCommit(v) \/ \E p \in RunId, s \in ReviewStatus : ReviewRead(v, p, s)
  \/ \E d \in Adviser : AdviseCommit(d) \/ \E p \in RunId : AdviseRead(d, p)
  \/ \E g \in Reporter : GenerateCommit(g) \/ \E p \in RunId : GenerateRead(g, p)
  \/ RequestDies

-----------------------------------------------------------------------------
FindingTypeOK ==
  /\ \A p \in RunId : finding[p].status \in FindingStatus
  /\ advice \in [RunId -> 0..MaxAdvice] /\ report \subseteq SecurityReport

\* A finding's evidence is that of one pair for ever: the probe and the
\* baseline it names, of the same endpoint and resource and of different
\* actors, and what the rule says of exactly these runs, however analyses
\* with other baselines come in between.  Rows older than the evidence may
\* have none.
EvidenceOfPair ==
  \A p \in RunId :
    finding[p] # NoFinding /\ finding[p].baseline # None =>
      /\ ValidPair(p, finding[p].baseline)
      /\ Classify(p, finding[p].baseline) = "potential_bola"
      /\ finding[p].evidence # None =>
           /\ finding[p].evidence = Evidence(p, finding[p].baseline)
           /\ finding[p].confidence = Confidence(p, finding[p].baseline)

\* When a report appears its finding is confirmed at that moment, it cites
\* the latest advice there is, and its version is the next one, though
\* reviewers, advisers and other reporters run beside it.
ReportsConfirmed ==
  [][\A r \in report' \ report :
       /\ finding'[r.finding].status = "confirmed" /\ r.advice = advice'[r.finding]
       /\ r.version = Cardinality(VersionsOf(r.finding)) + 1]_<<report>>

\* A terminal review is not reopened.
TerminalReview ==
  [][\A p \in RunId :
       finding[p].status \in {"confirmed", "false_positive"} => finding'[p].status = finding[p].status]_<<finding>>
=============================================================================
