--------------------------- MODULE Authorization ---------------------------
(***************************************************************************)
(* Who may be tested: authorization profiles and their revisions, the      *)
(* chain from a hostname rule to a Target (candidate evaluation, DNS       *)
(* validation, human decision, enrollment), the bindings of a Target, and  *)
(* the scope policy's decision at execution time.                          *)
(*                                                                         *)
(* A transaction that takes its row locks before it reads is one step.     *)
(* Three operations are several: a DNS validation resolves between two     *)
(* transactions, an enrollment keeps the locks of its profile, revision    *)
(* and origin until it commits, and the execution authorization is loaded  *)
(* by one statement after another.                                         *)
(*                                                                         *)
(* Rules are kept as what they do to the hosts they match.  Evaluations    *)
(* and validations with the same contents are interchangeable, so they are *)
(* sets; a decision has an identity, since one Target is bound to it.      *)
(***************************************************************************)
EXTENDS Naturals, FiniteSets

CONSTANTS
  Profile, Revision, Target, Decision,   \* row ids
  Host,
  Pattern,       \* normalized hostname patterns
  Wildcards,     \* the patterns that begin with "*."
  Covers,        \* the hosts each pattern matches
  Port,          \* what an origin adds to its host: scheme and port
  Worker,        \* requests that validate DNS
  Execution,     \* executions that load their authorization
  Terms,         \* whether a profile's terms allow the request: a set of BOOLEAN
  MaxValidations, MaxByHand, MaxScoped,   \* bounds on the rows of three tables
  None

ASSUME AuthorizationAssumption ==
  /\ Wildcards \subseteq Pattern
  /\ Covers \in [Pattern -> SUBSET Host]
  /\ Terms \subseteq BOOLEAN
  /\ {MaxValidations, MaxByHand, MaxScoped} \subseteq Nat
  /\ None \notin Profile \cup Revision \cup Decision

VARIABLES
  profile,      \* authorization_profiles: [exists, allows]
  revision,     \* authorization_revisions: [profile, number, state, allows]
  rules,        \* asset_hostname_rules of each revision
  evaluations,  \* asset_candidate_evaluations
  validations,  \* asset_candidate_dns_validations
  decision,     \* asset_enrollment_decisions
  target,       \* targets
  scoped,       \* the targets that have an active scope for the request
  resolving,    \* the evaluation each DNS request has read
  enrolling,    \* the enrollment that holds each profile's row lock
  load,         \* what each execution has read of its authorization
  ended         \* history: the revisions that had ended when its load began

vars == <<profile, revision, rules, evaluations, validations, decision, target,
          scoped, resolving, enrolling, load, ended>>
chain == <<rules, evaluations, validations, decision>>
busy == <<resolving, enrolling, load, ended>>

Mode == {"private_local", "external_public_authorized"}
Code == {"included", "not_included", "excluded"}
\* "failed" stands for every code of a chain or a lookup that gave no addresses.
DNS == {"private_local_only", "public_only", "prohibited", "failed"}
Origin == Host \X Port
Rule == [type : {"include", "exclude"}, pattern : Pattern]
Evaluation == [revision : Revision, host : Host, code : Code]
Validation == [revision : Revision, host : Host, dns : DNS]

NoProfile == [exists |-> FALSE, allows |-> FALSE]
NoRevision == [profile |-> None, number |-> 0, state |-> "none", allows |-> FALSE]
NoDecision == [state |-> "none"]
NoTarget == [state |-> "none"]
NoEnrollment == [state |-> "none"]
NoLoad == [pc |-> "idle"]

TypeOK ==
  /\ profile \in [Profile -> [exists : BOOLEAN, allows : BOOLEAN]]
  /\ revision \in [Revision -> [profile : Profile \cup {None}, number : Nat, allows : BOOLEAN,
                                state : {"none", "draft", "active", "superseded", "revoked"}]]
  /\ rules \in [Revision -> SUBSET Rule]
  /\ evaluations \subseteq Evaluation
  /\ validations \subseteq Validation
  /\ \A d \in Decision : decision[d] # NoDecision =>
       decision[d] \in [state : {"approved", "rejected"}, of : validations]
  /\ \A t \in Target : target[t] # NoTarget =>
       target[t] \in [state : {"row"}, origin : Origin, mode : Mode, profile : Profile \cup {None},
                      revision : Revision \cup {None}, decision : Decision \cup {None}]
  /\ scoped \subseteq Target
  /\ resolving \in [Worker -> evaluations \cup {None}]
  \* The row lock of a profile excludes two numbers, and two actives, of one.
  /\ \A r, q \in Revision : r # q /\ revision[r].profile = revision[q].profile /\ revision[r].profile # None =>
       /\ revision[r].number # revision[q].number
       /\ ~(revision[r].state = "active" /\ revision[q].state = "active")

Init ==
  /\ profile = [p \in Profile |-> NoProfile]
  /\ revision = [r \in Revision |-> NoRevision]
  /\ rules = [r \in Revision |-> {}]
  /\ evaluations = {} /\ validations = {}
  /\ decision = [d \in Decision |-> NoDecision]
  /\ target = [t \in Target |-> NoTarget]
  /\ scoped = {}
  /\ resolving = [w \in Worker |-> None]
  /\ enrolling = [p \in Profile |-> NoEnrollment]
  /\ load = [x \in Execution |-> NoLoad]
  /\ ended = [x \in Execution |-> {}]

\* The row locks an enrollment in progress holds until it commits.
ProfileFree(p) == enrolling[p] = NoEnrollment
RevisionFree(r) == \A p \in Profile : ~ProfileFree(p) => enrolling[p].revision # r

-----------------------------------------------------------------------------
(* Profiles and revisions                                                  *)

CreateProfile(p) ==
  /\ ~profile[p].exists
  /\ \E a \in Terms : profile' = [profile EXCEPT ![p] = [exists |-> TRUE, allows |-> a]]
  /\ UNCHANGED <<revision, chain, target, scoped, busy>>

UpdateProfile(p) ==
  /\ profile[p].exists /\ ProfileFree(p)
  /\ \E a \in Terms : profile' = [profile EXCEPT ![p].allows = a]
  /\ UNCHANGED <<revision, chain, target, scoped, busy>>

\* The foreign keys of revisions and targets restrict the deletion.
DeleteProfile(p) ==
  /\ profile[p].exists /\ ProfileFree(p)
  /\ \A r \in Revision : revision[r].profile # p
  /\ \A t \in Target : target[t] # NoTarget => target[t].profile # p
  /\ profile' = [profile EXCEPT ![p] = NoProfile]
  /\ UNCHANGED <<revision, chain, target, scoped, busy>>

\* A draft with a snapshot of the profile, numbered under its row lock.
CreateRevision(p, r) ==
  /\ profile[p].exists /\ ProfileFree(p) /\ revision[r] = NoRevision
  /\ LET of == {q \in Revision : revision[q].profile = p}
     IN revision' = [revision EXCEPT ![r] =
          [profile |-> p, number |-> Cardinality(of) + 1, state |-> "draft", allows |-> profile[p].allows]]
  /\ UNCHANGED <<profile, chain, target, scoped, busy>>

\* Mutant of ActivateRevision: a superseded revision can be activated again.
ReactivateRevision(r) ==
  /\ revision[r].state \in {"draft", "superseded"} /\ ProfileFree(revision[r].profile)
  /\ revision' = [q \in Revision |->
       IF q = r THEN [revision[q] EXCEPT !.state = "active"]
       ELSE IF revision[q].profile = revision[r].profile /\ revision[q].state = "active"
            THEN [revision[q] EXCEPT !.state = "superseded"] ELSE revision[q]]
  /\ UNCHANGED <<profile, chain, target, scoped, busy>>

ActivateRevision(r) ==
  /\ revision[r].state = "draft" /\ ProfileFree(revision[r].profile)
  /\ revision' = [q \in Revision |->
       IF q = r THEN [revision[q] EXCEPT !.state = "active"]
       ELSE IF revision[q].profile = revision[r].profile /\ revision[q].state = "active"
            THEN [revision[q] EXCEPT !.state = "superseded"] ELSE revision[q]]
  /\ UNCHANGED <<profile, chain, target, scoped, busy>>

RevokeRevision(r) ==
  /\ revision[r].state \in {"draft", "active"} /\ ProfileFree(revision[r].profile)
  /\ revision' = [revision EXCEPT ![r].state = "revoked"]
  /\ UNCHANGED <<profile, chain, target, scoped, busy>>

-----------------------------------------------------------------------------
(* From a hostname rule to a decision                                      *)

\* _lock_draft_revision locks the revision's row, not the profile's.
CreateRule(r, rule) ==
  /\ revision[r].state = "draft" /\ RevisionFree(r)
  /\ rule.type = "include" => rule.pattern \in Wildcards
  /\ rule \notin rules[r]
  /\ rules' = [rules EXCEPT ![r] = @ \cup {rule}]
  /\ UNCHANGED <<profile, revision, evaluations, validations, decision, target, scoped, busy>>

DeleteRule(r, rule) ==
  /\ revision[r].state = "draft" /\ RevisionFree(r)
  /\ rule \in rules[r]
  /\ rules' = [rules EXCEPT ![r] = @ \ {rule}]
  /\ UNCHANGED <<profile, revision, evaluations, validations, decision, target, scoped, busy>>

\* match_asset_candidate: an exclusion wins over any inclusion.
Matched(r, h, type) == \E rule \in rules[r] : rule.type = type /\ h \in Covers[rule.pattern]
MatchCandidate(r, h) ==
  IF Matched(r, h, "exclude") THEN "excluded"
  ELSE IF Matched(r, h, "include") THEN "included" ELSE "not_included"

EvaluateCandidate(r, h) ==
  /\ revision[r].state = "active" /\ ProfileFree(revision[r].profile)
  /\ evaluations' = evaluations \cup {[revision |-> r, host |-> h, code |-> MatchCandidate(r, h)]}
  /\ UNCHANGED <<profile, revision, rules, validations, decision, target, scoped, busy>>

\* _load_exact of a DNS validation.
Resolvable(e) == e.code = "included" /\ revision[e.revision].state = "active"

\* The first transaction reads without locks and ends before the resolution.
BeginValidation(w, e) ==
  /\ resolving[w] = None
  /\ Resolvable(e)
  /\ resolving' = [resolving EXCEPT ![w] = e]
  /\ UNCHANGED <<profile, revision, chain, target, scoped, enrolling, load, ended>>

\* Mutant of FinishValidation: what the first transaction read is not read again.
FinishValidationStale(w) ==
  /\ resolving[w] # None
  /\ LET e == resolving[w] IN
       /\ ProfileFree(revision[e.revision].profile)
       /\ \E d \in DNS :
            validations' = validations \cup {[revision |-> e.revision, host |-> e.host, dns |-> d]}
       /\ Cardinality(validations') <= MaxValidations
  /\ resolving' = [resolving EXCEPT ![w] = None]
  /\ UNCHANGED <<profile, revision, rules, evaluations, decision, target, scoped, enrolling, load, ended>>

\* The second checks again under the locks, or refuses.
FinishValidation(w) ==
  /\ resolving[w] # None
  /\ LET e == resolving[w] IN
       IF Resolvable(e)
       THEN /\ ProfileFree(revision[e.revision].profile)
            /\ \E d \in DNS :
                 validations' = validations \cup {[revision |-> e.revision, host |-> e.host, dns |-> d]}
            /\ Cardinality(validations') <= MaxValidations
       ELSE UNCHANGED validations
  /\ resolving' = [resolving EXCEPT ![w] = None]
  /\ UNCHANGED <<profile, revision, rules, evaluations, decision, target, scoped, enrolling, load, ended>>

\* A human decides on any validation, of an ended revision too.  The foreign
\* key takes a lock that an enrollment of the revision excludes.
Decide(d, v) ==
  /\ decision[d] = NoDecision /\ RevisionFree(v.revision)
  /\ \E s \in {"approved", "rejected"} : decision' = [decision EXCEPT ![d] = [state |-> s, of |-> v]]
  /\ UNCHANGED <<profile, revision, rules, evaluations, validations, target, scoped, busy>>

-----------------------------------------------------------------------------
(* Targets                                                                 *)

ModeFor(dns) ==
  CASE dns = "private_local_only" -> "private_local"
    [] dns = "public_only" -> "external_public_authorized"
    [] OTHER -> "none"

\* Mutant of OriginFree: the origin is not locked.
OriginUnlocked(o) == TRUE

\* pg_advisory_xact_lock of the canonical origin.
OriginFree(o) == \A p \in Profile : ~ProfileFree(p) => enrolling[p].origin # o

Enrolled(d) == {t \in Target : target[t] # NoTarget /\ target[t].decision = d}
OwnersOf(o) == {t \in Target : target[t] # NoTarget /\ target[t].origin = o}

\* create_target_from_approved_enrollment, up to its insert: every lock is
\* taken and the origin has no owner yet.
BeginEnrollment(d, port) ==
  /\ decision[d] # NoDecision /\ decision[d].state = "approved"
  /\ LET v == decision[d].of
         p == revision[v.revision].profile
         o == <<v.host, port>>
     IN /\ ProfileFree(p) /\ RevisionFree(v.revision)
        /\ revision[v.revision].state = "active"
        /\ ModeFor(v.dns) \in Mode
        /\ OriginFree(o)
        /\ Enrolled(d) = {} /\ OwnersOf(o) = {}
        /\ enrolling' = [enrolling EXCEPT ![p] =
             [state |-> "locked", decision |-> d, origin |-> o, revision |-> v.revision, mode |-> ModeFor(v.dns)]]
  /\ UNCHANGED <<profile, revision, chain, target, scoped, resolving, load, ended>>

CommitEnrollment(p, t) ==
  /\ enrolling[p] # NoEnrollment /\ target[t] = NoTarget
  /\ target' = [target EXCEPT ![t] =
       [state |-> "row", origin |-> enrolling[p].origin, mode |-> enrolling[p].mode, profile |-> p,
        revision |-> enrolling[p].revision, decision |-> enrolling[p].decision]]
  /\ enrolling' = [enrolling EXCEPT ![p] = NoEnrollment]
  /\ UNCHANGED <<profile, revision, chain, scoped, resolving, load, ended>>

\* The transaction fails and gives its locks back.
AbortEnrollment(p) ==
  /\ enrolling[p] # NoEnrollment
  /\ enrolling' = [enrolling EXCEPT ![p] = NoEnrollment]
  /\ UNCHANGED <<profile, revision, chain, target, scoped, resolving, load, ended>>

ByHand(t) == target[t] # NoTarget /\ target[t].decision = None

\* A Target entered by hand asks no other Target's origin.
CreateTarget(t) ==
  /\ target[t] = NoTarget
  /\ Cardinality({s \in Target : ByHand(s)}) < MaxByHand
  /\ \E o \in Origin, m \in Mode :
       target' = [target EXCEPT ![t] = [state |-> "row", origin |-> o, mode |-> m, profile |-> None,
                                        revision |-> None, decision |-> None]]
  /\ UNCHANGED <<profile, revision, chain, scoped, busy>>

\* Mutant of UpdateNetworkMode: the mode of an enrolled Target can be changed.
UpdateAnyNetworkMode(t) ==
  /\ target[t] # NoTarget
  /\ \E m \in Mode \ {target[t].mode} : target' = [target EXCEPT ![t].mode = m]
  /\ UNCHANGED <<profile, revision, chain, scoped, busy>>

UpdateNetworkMode(t) ==
  /\ ByHand(t)
  /\ \E m \in Mode \ {target[t].mode} : target' = [target EXCEPT ![t].mode = m]
  /\ UNCHANGED <<profile, revision, chain, scoped, busy>>

UpdateTargetProfile(t, p) ==
  /\ ByHand(t) /\ p # target[t].profile
  /\ target[t].revision = None
  /\ p # None => profile[p].exists /\ ProfileFree(p)
  /\ target' = [target EXCEPT ![t].profile = p]
  /\ UNCHANGED <<profile, revision, chain, scoped, busy>>

UpdateTargetRevision(t, r) ==
  /\ ByHand(t) /\ r # target[t].revision
  /\ r # None => /\ RevisionFree(r)
                 /\ target[t].profile # None /\ revision[r].profile = target[t].profile
                 /\ revision[r].state = "active"
  /\ target' = [target EXCEPT ![t].revision = r]
  /\ UNCHANGED <<profile, revision, chain, scoped, busy>>

CreateScope(t) ==
  /\ target[t] # NoTarget /\ t \notin scoped /\ Cardinality(scoped) < MaxScoped
  /\ scoped' = scoped \cup {t}
  /\ UNCHANGED <<profile, revision, chain, target, busy>>

-----------------------------------------------------------------------------
(* load_execution_authorization and ScopePolicyEngine.evaluate             *)

LoadTarget(x, t) ==
  /\ load[x].pc = "idle" /\ target[t] # NoTarget
  /\ load' = [load EXCEPT ![x] = [pc |-> "target", id |-> t, row |-> target[t]]]
  /\ ended' = [ended EXCEPT ![x] = {r \in Revision : revision[r].state \in {"superseded", "revoked"}}]
  /\ UNCHANGED <<profile, revision, chain, target, scoped, resolving, enrolling>>

LoadRevision(x) ==
  /\ load[x].pc = "target"
  /\ LET row == load[x].row IN
       load' = [load EXCEPT ![x] =
         [pc |-> "revision", id |-> @.id, row |-> row,
          revision |-> IF row.revision = None THEN NoRevision ELSE revision[row.revision]]]
  /\ UNCHANGED <<profile, revision, chain, target, scoped, resolving, enrolling, ended>>

\* The checks of evaluate that depend on the rows; allows stands for the
\* window, the automation flag and the method of the revision's snapshot.
Allowed(enabled, row, rev, hasScope) ==
  /\ enabled
  /\ row.revision # None
  /\ row.profile # None => rev.profile = row.profile
  /\ rev.state = "active"
  /\ rev.allows
  /\ hasScope

\* The scopes are read last, and the policy evaluates what was read.  The
\* target's is_enabled, which no code here writes, may be either.
EvaluatePolicy(x) ==
  /\ load[x].pc = "revision"
  /\ \E enabled \in BOOLEAN :
       load' = [load EXCEPT ![x] = [pc |-> "decided", revision |-> @.row.revision,
                                    allowed |-> Allowed(enabled, @.row, @.revision, @.id \in scoped)]]
  /\ UNCHANGED <<profile, revision, chain, target, scoped, resolving, enrolling, ended>>

EndLoad(x) ==
  /\ load[x].pc = "decided"
  /\ load' = [load EXCEPT ![x] = NoLoad]
  /\ ended' = [ended EXCEPT ![x] = {}]
  /\ UNCHANGED <<profile, revision, chain, target, scoped, resolving, enrolling>>

Next ==
  \/ \E p \in Profile :
       \/ CreateProfile(p) \/ UpdateProfile(p) \/ DeleteProfile(p)
       \/ \E r \in Revision : CreateRevision(p, r)
       \/ \E t \in Target : CommitEnrollment(p, t)
       \/ AbortEnrollment(p)
  \/ \E r \in Revision :
       \/ ActivateRevision(r) \/ RevokeRevision(r)
       \/ \E rule \in Rule : CreateRule(r, rule) \/ DeleteRule(r, rule)
       \/ \E h \in Host : EvaluateCandidate(r, h)
  \/ \E w \in Worker : FinishValidation(w) \/ \E e \in evaluations : BeginValidation(w, e)
  \/ \E d \in Decision :
       \/ \E v \in validations : Decide(d, v)
       \/ \E port \in Port : BeginEnrollment(d, port)
  \/ \E t \in Target :
       \/ CreateTarget(t) \/ UpdateNetworkMode(t) \/ CreateScope(t)
       \/ \E p \in Profile \cup {None} : UpdateTargetProfile(t, p)
       \/ \E r \in Revision \cup {None} : UpdateTargetRevision(t, r)
  \/ \E x \in Execution :
       \/ \E t \in Target : LoadTarget(x, t)
       \/ LoadRevision(x) \/ EvaluatePolicy(x) \/ EndLoad(x)

Spec == Init /\ [][Next]_vars

-----------------------------------------------------------------------------
(* Properties                                                              *)

\* A Target that was enrolled is for ever what a human approved: a host that
\* the rules of its revision include, that resolved to the kind of address
\* its network mode allows, under the profile of that revision.  No Target
\* has a revision of a profile other than its own, and what an evaluation
\* said stays what the rules of its revision say.
Provenance ==
  /\ \A e \in evaluations : e.code = MatchCandidate(e.revision, e.host)
  /\ \A t \in Target : target[t] # NoTarget =>
       /\ target[t].revision # None => revision[target[t].revision].profile = target[t].profile
       /\ target[t].decision # None =>
            LET v == decision[target[t].decision].of IN
            /\ decision[target[t].decision].state = "approved"
            /\ v \in validations
            /\ MatchCandidate(v.revision, v.host) = "included"
            /\ target[t].revision = v.revision
            /\ target[t].origin[1] = v.host
            /\ target[t].mode = ModeFor(v.dns)

\* Two enrollments never own one origin, and a decision has one Target,
\* whatever profiles they come from and however they interleave.
OneOwner ==
  \A s, t \in Target :
    s # t /\ target[s] # NoTarget /\ target[t] # NoTarget /\ target[s].decision # None /\ target[t].decision # None
      => target[s].origin # target[t].origin /\ target[s].decision # target[t].decision

\* Evidence and enrollments are recorded only while their revision is active,
\* though DNS was asked, or locks were waited for, in between.
ActiveOnly ==
  [][/\ \A e \in (evaluations' \ evaluations) \cup (validations' \ validations) :
          revision[e.revision].state = "active"
     /\ \A t \in Target : target[t] = NoTarget /\ target'[t] # NoTarget /\ target'[t].decision # None =>
          revision[target'[t].revision].state = "active"]_vars

\* An execution is not allowed under a revision that had ended before it
\* began to load its authorization: ended revisions stay ended, and what is
\* evaluated is the revision the Target was bound to.
EndedNeverAllows ==
  \A x \in Execution : load[x].pc = "decided" /\ load[x].allowed => load[x].revision \notin ended[x]
=============================================================================
