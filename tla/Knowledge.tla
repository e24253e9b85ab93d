----------------------------- MODULE Knowledge ------------------------------
(***************************************************************************)
(* The catalog of rules.  A version of a rule belongs to the context that  *)
(* wrote it, cites observations of that context or is written for every    *)
(* context, and replaces an earlier version.  It is matched to the subject *)
(* of a query only once it was validated, reviewed and published, and      *)
(* while all of that, its sources and its whole line of versions stand.    *)
(*                                                                         *)
(* Every operation takes the catalog's advisory lock and then the lock of  *)
(* its context, and is one step.  Its audit row can only refuse it.        *)
(***************************************************************************)
EXTENDS Observation, RuleChecks

CONSTANTS
  MaxVersions, MaxDecisions, MaxValidations, MaxFeedback,   \* 128, 16, 128 and 128
  MaxSubjects,
  Spans,                   \* how long a decision is meant to stand
  ActorSets, Identity      \* actors of a card; identities of a subject

ASSUME KnowledgeAssumption ==
  /\ {MaxVersions, MaxDecisions, MaxValidations, MaxFeedback, MaxSubjects} \subseteq Nat
  /\ Spans \subseteq Nat \ {0}
  /\ ActorSets \subseteq SUBSET {"anonymous", "bearer"} /\ Identity \subseteq {"missing", "anonymous", "bearer"}

VARIABLES
  version,      \* sequence of rows of rule versions
  decision,     \* version -> its sequence of decisions
  validation,   \* sequence of pieces of evidence
  feedback,     \* sequence of proposals with their reviews
  subject,      \* context -> versions of the subject of its queries
  lastMatch     \* ghost: version -> when it was last given out as a match

catalog == <<version, decision, validation, feedback>>
kvars == <<catalog, subject, lastMatch>>
allvars == <<vars, kvars>>

Version == 1..MaxVersions
VersionRow ==
  [ctx : Ctx, intake : Nat, target : Target, scope : {"project", "reusable_synthetic"},
   sources : SUBSET Id, supersedes : 0..MaxVersions, actors : ActorSets]
Kind == {"review", "reuse", "withdraw", "disable", "publish"}
DecisionRow ==
  [action : Kind, from : Nat, until : Nat, validation : 0..MaxValidations,
   review : 0..MaxDecisions, reuse : 0..MaxDecisions]
ValidationRow == [version : Version, at : Time, until : Nat]
FeedbackRow ==
  [version : Version, validation : 1..MaxValidations, proposal : {"promotion", "correction", "disable"},
   correction : 0..MaxVersions, status : {"pending", "accept", "reject", "invalidate"}]
SubjectRow == [intake : Nat, target : Target, sources : SUBSET Id, identity : Identity]

KnowledgeInit ==
  /\ version = <<>> /\ decision = [v \in Version |-> <<>>]
  /\ validation = <<>> /\ feedback = <<>>
  /\ subject = [c \in Ctx |-> <<>>] /\ lastMatch = [v \in Version |-> 0]

-----------------------------------------------------------------------------
(* What a version depends on                                               *)

Exists(v) == v \in DOMAIN version
Own(c, v) == Exists(v) /\ version[v].ctx = c

\* The rows that a context sees.
Catalog(c) == {v \in DOMAIN version : version[v].ctx = c \/ version[v].scope = "reusable_synthetic"}
Took(ds, kinds) == \E k \in DOMAIN ds : ds[k].action \in kinds
Disabled(ds) == {v \in DOMAIN version : Took(ds[v], {"disable"})}

\* _sources: every cited observation is read again.
Sources(c, sources, t) ==
  \A i \in sources : /\ i \in Rows(c) /\ prep[c][record[i].prep].target = t
                     /\ StateOf(record[i]) = "available" /\ Served(c, i, FALSE)

\* _lineage_eligible: no version that this one replaces, directly or not, is
\* disabled.
LineageEligible(c, v, disabled) ==
  LET sound[u \in DOMAIN version] ==
        LET w == version[u].supersedes
        IN w = 0 \/ (w \in Catalog(c) /\ w \notin disabled /\ sound[w])
  IN sound[v]

Live(c, v) ==
  LET row == version[v] IN
  /\ EligibleContext(c, row.intake) /\ UsableTarget(c, row.target)
  /\ v \notin Disabled(decision) /\ ~Took(decision[v], {"withdraw"})
  /\ LineageEligible(c, v, Disabled(decision))
  /\ Sources(c, row.sources, row.target)

\* When the sources of a live version stop being available.
SourceDeadlines(c, v) == UNION {{record[i].expires, prep[c][record[i].prep].until} : i \in version[v].sources}

Passed == [actors \in ActorSets |-> RunChecks(actors)]

\* qualified: the evidence is about this version, current and, where it has
\* to be, positive; the checks are run again.
Qualified(v, e, positive) ==
  /\ e \in DOMAIN validation /\ validation[e].version = v
  /\ validation[e].at <= now /\ now < validation[e].until
  /\ positive => Passed[version[v].actors]

InWindow(d) == d.from <= now /\ now < d.until

\* Mutant of Cited: the review may be of other evidence.
CitedAnyEvidence(ds, k, kind, e) == k \in DOMAIN ds /\ k < Len(ds) /\ ds[k].action = kind /\ InWindow(ds[k])

\* A decision that the publication rests on.
Cited(ds, k, kind, e) ==
  /\ k \in DOMAIN ds /\ k < Len(ds) /\ ds[k].action = kind /\ InWindow(ds[k])
  /\ kind = "review" => ds[k].validation = e

\* _publication: the last decision publishes, and what it cites stands now.
Publication(v, ds) ==
  /\ ds # <<>> /\ ~Took(ds, {"withdraw", "disable"})
  /\ LET p == Last(ds) IN
     /\ p.action = "publish" /\ InWindow(p) /\ Qualified(v, p.validation, TRUE)
     /\ Cited(ds, p.review, "review", p.validation)
     /\ version[v].scope = "reusable_synthetic" \/ p.reuse # 0 => Cited(ds, p.reuse, "reuse", p.validation)

-----------------------------------------------------------------------------
(* Operations on versions                                                  *)

\* record; the next version of a rule cites everything that this one does.
RecordVersion(c, row) ==
  /\ row.ctx = c /\ Open(c) /\ row.intake = LatestVersion(c)
  /\ EligibleContext(c, row.intake) /\ UsableTarget(c, row.target)
  /\ row.scope = "reusable_synthetic" => row.sources = {}
  /\ row.supersedes # 0 =>
       /\ Own(c, row.supersedes) /\ version[row.supersedes].target = row.target
       /\ version[row.supersedes].scope = row.scope /\ version[row.supersedes].sources \subseteq row.sources
       /\ \A u \in DOMAIN version : version[u].supersedes # row.supersedes
  /\ Sources(c, row.sources, row.target)
  /\ Len(version) < MaxVersions
  /\ version' = Append(version, row)
  /\ UNCHANGED <<vars, decision, validation, feedback, subject, lastMatch>>

\* Mutant of Affected: only the disabled versions themselves.
AffectedDirectly(c, ds) == Catalog(c) \cap Disabled(ds)

\* Versions with a disabled one in their line.
Affected(c, ds) == {v \in Catalog(c) : v \in Disabled(ds) \/ ~LineageEligible(c, v, Disabled(ds))}

\* invalidate_pending
Invalidated(c, ds, fs) ==
  [f \in DOMAIN fs |->
     IF /\ fs[f].status = "pending" /\ Own(c, fs[f].version)
        /\ {fs[f].version, fs[f].correction} \cap Affected(c, ds) # {}
     THEN [fs[f] EXCEPT !.status = "invalidate"] ELSE fs[f]]

\* decide writes d for version v, with the reviews fs as they are then.
Decided(c, v, d, fs) ==
  LET ds == [decision EXCEPT ![v] = Append(@, d)] IN
  /\ Own(c, v) /\ Len(decision[v]) < MaxDecisions /\ v \notin Disabled(decision)
  /\ d.validation # 0 => d.action \in {"review", "reuse", "publish"} /\ Live(c, v) /\ Qualified(v, d.validation, TRUE)
  /\ d.action \in {"review", "reuse", "publish"} =>
       /\ Len(decision[v]) < MaxDecisions - 2 /\ ~Took(decision[v], {"withdraw"})
       /\ EligibleContext(c, version[v].intake) /\ UsableTarget(c, version[v].target)
       /\ Sources(c, version[v].sources, version[v].target)
  /\ d.action = "publish" => d.validation # 0 /\ Publication(v, ds[v])
  /\ decision' = ds
  /\ feedback' = IF d.action = "disable" THEN Invalidated(c, ds, fs) ELSE fs

Decide(c, v, d) ==
  /\ d.action # "publish" => d.review = 0 /\ d.reuse = 0
  /\ IF d.action \in {"withdraw", "disable"} THEN d.from = 0 /\ d.until = 0 ELSE d.from < d.until
  /\ Decided(c, v, d, feedback)
  /\ UNCHANGED <<vars, version, validation, subject, lastMatch>>

ValidateRule(c, v, until) ==
  /\ Own(c, v) /\ Live(c, v) /\ now < until /\ until <= now + Grace
  /\ Len(validation) < MaxValidations
  /\ validation' = Append(validation, [version |-> v, at |-> now, until |-> Min({until} \cup SourceDeadlines(c, v))])
  /\ UNCHANGED <<vars, version, decision, feedback, subject, lastMatch>>

-----------------------------------------------------------------------------
(* Feedback                                                                *)

\* The proposal can be put, shown and reviewed.
Reviewable(c, f) ==
  /\ Own(c, f.version) /\ Live(c, f.version)
  /\ Qualified(f.version, f.validation, f.proposal = "promotion")
  /\ f.correction # 0 => Own(c, f.correction) /\ Live(c, f.correction)

SubmitFeedback(c, f) ==
  /\ f.status = "pending" /\ (f.proposal = "correction") = (f.correction # 0)
  /\ Reviewable(c, f)
  /\ f.correction # 0 => version[f.correction].supersedes = f.version
  /\ Len(feedback) < MaxFeedback
  /\ feedback' = Append(feedback, f)
  /\ UNCHANGED <<vars, version, decision, validation, subject, lastMatch>>

\* review_feedback: an accepted proposal to disable is carried out at once;
\* any other only records the decision.
ReviewFeedback(c, f, verdict) ==
  /\ f \in DOMAIN feedback /\ feedback[f].status = "pending" /\ Reviewable(c, feedback[f])
  /\ LET v == feedback[f].version
         fs == [feedback EXCEPT ![f].status = verdict]
     IN IF verdict = "accept" /\ feedback[f].proposal = "disable"
        THEN Decided(c, v, [action |-> "disable", from |-> 0, until |-> 0, validation |-> 0,
                            review |-> 0, reuse |-> 0], fs)
        ELSE feedback' = fs /\ UNCHANGED decision
  /\ UNCHANGED <<vars, version, validation, subject, lastMatch>>

-----------------------------------------------------------------------------
(* Subjects and queries                                                    *)

\* _qualify of a proposal
SubjectStands(c, p) ==
  /\ EligibleContext(c, p.intake) /\ UsableTarget(c, p.target)
  /\ target[p.target].facts # "gone" /\ Sources(c, p.sources, p.target)

\* record; a correction keeps the target and every source.
RecordSubject(c, p) ==
  /\ Open(c) /\ p.intake = LatestVersion(c) /\ Len(subject[c]) < MaxSubjects
  /\ subject[c] # <<>> => Last(subject[c]).target = p.target /\ Last(subject[c]).sources \subseteq p.sources
  /\ SubjectStands(c, p)
  /\ subject' = [subject EXCEPT ![c] = Append(@, p)]
  /\ UNCHANGED <<vars, catalog, lastMatch>>

\* read: the latest version of the proposal, qualified again.
SubjectAvailable(c) == Open(c) /\ subject[c] # <<>> /\ SubjectStands(c, Last(subject[c]))

\* What the context itself is missing.
ReadinessGaps(c, v) == IF Permitted(c, v) THEN {} ELSE {"permission_missing"}

\* What is missing for a rule to apply, of the subject and of the context.
QueryGaps(c, p) ==
  UNION {IF target[p.target].facts = "present" THEN {} ELSE {"facts_missing"},
         IF p.identity = "bearer" THEN {"session_health_unverified"} ELSE {},
         IF p.identity = "missing" THEN {"identity_missing"} ELSE {},
         IF p.sources = {} THEN {"object_shape_missing"} ELSE {},
         ReadinessGaps(c, p.intake)}

\* Eligibility comes before ranking: a match is one of these.
Matches(c, p) ==
  {v \in Catalog(c) :
     /\ LineageEligible(c, v, Disabled(decision))
     /\ version[v].scope = "project" => version[v].intake = p.intake /\ version[v].target = p.target
     /\ Publication(v, decision[v]) /\ Sources(c, version[v].sources, p.target)
     /\ Applicable(version[v].actors, p.identity, QueryGaps(c, p))}

Retrieve(c) ==
  /\ SubjectAvailable(c)
  /\ LET p == Last(subject[c]) IN
     /\ Matches(c, p) # {}
     /\ lastMatch' = [v \in Version |-> IF v \in Matches(c, p) THEN now ELSE lastMatch[v]]
  /\ UNCHANGED <<vars, catalog, subject>>

\* Inputs of the operators.
Windows == {[from |-> now, until |-> now + s] : s \in Spans}
DecisionInput(v) ==
  {[action |-> a, from |-> 0, until |-> 0, validation |-> 0, review |-> 0, reuse |-> 0] : a \in {"withdraw", "disable"}}
  \cup {[action |-> a, from |-> w.from, until |-> w.until, validation |-> e, review |-> 0, reuse |-> 0] :
          a \in {"review", "reuse"}, w \in Windows, e \in 0..Len(validation)}
  \cup {[action |-> "publish", from |-> w.from, until |-> w.until, validation |-> e, review |-> k, reuse |-> j] :
          w \in Windows, e \in 0..Len(validation), k \in DOMAIN decision[v], j \in 0..Len(decision[v])}

KnowledgeRequest(c) ==
  \/ \E t \in Target, scope \in {"project", "reusable_synthetic"}, sources \in SUBSET Id,
        supersedes \in 0..Len(version), actors \in ActorSets :
       RecordVersion(c, [ctx |-> c, intake |-> IF Open(c) THEN LatestVersion(c) ELSE 0, target |-> t, scope |-> scope,
                         sources |-> sources, supersedes |-> supersedes, actors |-> actors])
  \/ \E v \in DOMAIN version :
       \/ \E d \in DecisionInput(v) : Decide(c, v, d)
       \/ \E until \in {now + Grace} : ValidateRule(c, v, until)
       \/ \E e \in DOMAIN validation, proposal \in {"promotion", "correction", "disable"}, u \in 0..Len(version) :
            SubmitFeedback(c, [version |-> v, validation |-> e, proposal |-> proposal,
                               correction |-> u, status |-> "pending"])
  \/ \E f \in DOMAIN feedback, verdict \in {"accept", "reject"} : ReviewFeedback(c, f, verdict)

SubjectRequest(c) ==
  \/ \E t \in Target, sources \in SUBSET Id, identity \in Identity :
       RecordSubject(c, [intake |-> IF Open(c) THEN LatestVersion(c) ELSE 0, target |-> t,
                         sources |-> sources, identity |-> identity])
  \/ Retrieve(c)

\* Backups are taken of a database whose catalog is still empty.
KnowledgeNext ==
  \/ \E c \in Ctx : KnowledgeRequest(c) \/ SubjectRequest(c)
  \/ ObservationNext /\ UNCHANGED kvars
  \/ version = <<>> /\ subject = [c \in Ctx |-> <<>>] /\ (TakeBackup \/ Restore) /\ UNCHANGED kvars

KnowledgeSpec == Init /\ KnowledgeInit /\ [][KnowledgeNext]_allvars

-----------------------------------------------------------------------------
(* Properties                                                              *)

\* The tables of the catalog have their shapes.
CatalogTypeOK ==
  /\ version \in Seq(VersionRow) /\ validation \in Seq(ValidationRow) /\ feedback \in Seq(FeedbackRow)
  /\ \A v \in Version : decision[v] \in Seq(DecisionRow)
  /\ \A c \in Ctx : subject[c] \in Seq(SubjectRow)

\* The version and all that it replaces: the least set with v in it that is
\* closed under "supersedes".
Line(v) ==
  {u \in DOMAIN version :
     \A S \in SUBSET DOMAIN version :
       v \in S /\ (\A w \in S : version[w].supersedes \in S \cup {0}) => u \in S}

\* A rule is given out as a match only while nobody has disabled it or any
\* version that it replaces, nor withdrawn it, and on evidence that an
\* operator has seen: the rule passes its checks, and its review was made of
\* the very evidence that it was published on, which is current; and every
\* observation that it cites is still there for its own context.
MatchOnEvidence ==
  [][\A v \in Version : lastMatch'[v] > lastMatch[v] =>
       /\ \A u \in Line(v) : ~Took(decision[u], {"disable"})
       /\ ~Took(decision[v], {"withdraw"})
       /\ RunChecks(version[v].actors)
       /\ \E e \in DOMAIN validation :
            /\ validation[e].version = v /\ now < validation[e].until
            /\ \E j, k \in DOMAIN decision[v] :
                 /\ j < k /\ decision[v][j].action = "review" /\ decision[v][k].action = "publish"
                 /\ decision[v][j].validation = e /\ decision[v][k].validation = e
       /\ version[v].sources \cap deleted = {}
       /\ \A i \in version[v].sources : record[i].state = "available" /\ record[i].ctx = version[v].ctx]_allvars

\* No proposal stays pending on a version that is disabled, or that replaces
\* a disabled one; nor one whose correction does.
NoStalePending ==
  \A f \in DOMAIN feedback : feedback[f].status = "pending" =>
    \A v \in {feedback[f].version, feedback[f].correction} \ {0} :
      \A u \in Line(v) : ~Took(decision[u], {"disable"})
=============================================================================
