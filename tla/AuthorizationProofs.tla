------------------------ MODULE AuthorizationProofs ------------------------
(***************************************************************************)
(* Theorems about Authorization, for any number of profiles, revisions,    *)
(* decisions, Targets, workers and executions.                             *)
(*                                                                         *)
(* The properties look at Targets and at finished loads; what makes them   *)
(* true happens earlier.  The invariant follows the chain: rules stand     *)
(* still once a revision leaves "draft", so evidence stays true; an        *)
(* enrollment keeps its revision active and its origin without another     *)
(* owner while it holds its locks; ended revisions stay ended while an     *)
(* execution loads its authorization.                                      *)
(***************************************************************************)
EXTENDS Authorization, FiniteSetTheorems, TLAPS

\* Tables are functions of the row id.
Tables ==
  /\ decision = [d \in Decision |-> decision[d]]
  /\ target = [t \in Target |-> target[t]]
  /\ enrolling = [p \in Profile |-> enrolling[p]]
  /\ load = [x \in Execution |-> load[x]]
  /\ ended = [x \in Execution |-> ended[x]]

RevisionsOf(p) == {r \in Revision : revision[r].profile = p}
Ended == {r \in Revision : revision[r].state \in {"superseded", "revoked"}}
Begun == Ended \cup {r \in Revision : revision[r].state = "active"}

\* A revision that exists has a profile and a number among the numbers given.
RevisionInv ==
  /\ \A r \in Revision : revision[r] # NoRevision =>
       revision[r].state # "none" /\ revision[r].profile \in Profile
  /\ \A p \in Profile : /\ IsFiniteSet(RevisionsOf(p))
                        /\ \A r \in RevisionsOf(p) : revision[r].number <= Cardinality(RevisionsOf(p))

\* Evidence is of a revision that has left "draft", whose rules say the same.
EvidenceInv ==
  /\ \A e \in evaluations : e.revision \in Begun /\ e.code = MatchCandidate(e.revision, e.host)
  /\ \A v \in validations : v.revision \in Begun /\ MatchCandidate(v.revision, v.host) = "included"

\* What an enrollment knows while it holds its locks.
LockedBy(p) ==
  LET d == enrolling[p].decision
      v == decision[d].of
  IN /\ d \in Decision /\ decision[d] # NoDecision /\ decision[d].state = "approved"
     /\ enrolling[p].revision = v.revision
     /\ revision[v.revision].profile = p /\ revision[v.revision].state = "active"
     /\ enrolling[p].origin \in Origin /\ enrolling[p].origin[1] = v.host
     /\ enrolling[p].mode = ModeFor(v.dns) /\ enrolling[p].mode \in Mode
     /\ \A t \in Target : target[t] # NoTarget /\ target[t].decision # None =>
          target[t].decision # d /\ target[t].origin # enrolling[p].origin

EnrollmentInv ==
  /\ \A p \in Profile : ~ProfileFree(p) => LockedBy(p)
  /\ \A p, q \in Profile : ~ProfileFree(p) /\ ~ProfileFree(q) /\ p # q =>
       enrolling[p].origin # enrolling[q].origin

\* A Target with a revision has a profile.
TargetInv ==
  \A t \in Target : target[t] # NoTarget =>
    /\ target[t].revision # None => target[t].profile \in Profile
    /\ target[t].decision # None => decision[target[t].decision] # NoDecision

\* A revision that had ended when a load began has ended still, and is not
\* read as active.
LoadInv ==
  \A x \in Execution :
    /\ ended[x] \subseteq Ended
    /\ load[x].pc = "revision" /\ load[x].row.revision # None /\ load[x].revision.state = "active" =>
         load[x].row.revision \notin ended[x]
    /\ load[x].pc = "decided" /\ load[x].allowed => load[x].revision \notin ended[x]

\* The inductive invariant.
IInv == /\ TypeOK /\ Tables /\ RevisionInv /\ EvidenceInv /\ EnrollmentInv
        /\ TargetInv /\ Provenance /\ OneOwner /\ LoadInv

-----------------------------------------------------------------------------
(* Each step keeps the invariant                                           *)

LEMMA InitInv == Init => IInv
<1> SUFFICES ASSUME Init PROVE IInv
  OBVIOUS
<1> USE AuthorizationAssumption DEF Init, NoProfile, NoRevision
<1>1. TypeOK
  BY DEF TypeOK
<1>2. Tables
  BY DEF Tables
<1>3. RevisionInv
  <2>1. \A p \in Profile : RevisionsOf(p) = {}
    BY DEF RevisionsOf
  <2> QED
    BY <2>1, FS_EmptySet DEF RevisionInv
<1>4. EvidenceInv /\ EnrollmentInv /\ TargetInv /\ Provenance /\ OneOwner
  BY DEF EvidenceInv, EnrollmentInv, TargetInv, Provenance, OneOwner, ProfileFree
<1>5. LoadInv
  BY DEF LoadInv, NoLoad
<1> QED
  BY <1>1, <1>2, <1>3, <1>4, <1>5 DEF IInv

\* Steps that touch nothing the invariant reads but the types.
LEMMA ProfileSteps ==
  ASSUME IInv,
         \/ \E p \in Profile : CreateProfile(p) \/ UpdateProfile(p) \/ DeleteProfile(p)
         \/ \E t \in Target : CreateScope(t)
  PROVE  IInv'
<1> USE DEF IInv, CreateProfile, UpdateProfile, DeleteProfile, CreateScope, chain, busy
<1>1. UNCHANGED <<revision, chain, target, busy>>
  OBVIOUS
<1>2. profile' \in [Profile -> [exists : BOOLEAN, allows : BOOLEAN]] /\ scoped' \subseteq Target
  <2>1. CASE \E t \in Target : CreateScope(t)
    BY <2>1 DEF TypeOK
  <2>2. CASE \E p \in Profile : CreateProfile(p) \/ UpdateProfile(p) \/ DeleteProfile(p)
    <3>1. PICK p \in Profile : CreateProfile(p) \/ UpdateProfile(p) \/ DeleteProfile(p)
      BY <2>2
    <3>2. profile[p] \in [exists : BOOLEAN, allows : BOOLEAN]
      BY DEF TypeOK
    <3>3. \A a \in Terms : [profile[p] EXCEPT !.allows = a] \in [exists : BOOLEAN, allows : BOOLEAN]
      BY <3>2, AuthorizationAssumption
    <3>4. \E q \in [exists : BOOLEAN, allows : BOOLEAN] : profile' = [profile EXCEPT ![p] = q]
      <4>1. CASE CreateProfile(p)
        BY <4>1, AuthorizationAssumption
      <4>2. CASE UpdateProfile(p)
        BY <3>3, <4>2
      <4>3. CASE DeleteProfile(p)
        BY <4>3 DEF NoProfile
      <4> QED
        BY <3>1, <4>1, <4>2, <4>3
    <3> QED
      BY <3>1, <3>4 DEF TypeOK
  <2> QED
    BY <2>1, <2>2
<1>3. TypeOK'
  BY <1>1, <1>2 DEF TypeOK
<1>4. Tables' /\ RevisionInv'
  BY <1>1 DEF Tables, RevisionInv, RevisionsOf
<1>5. EvidenceInv' /\ EnrollmentInv'
  <2>1. EvidenceInv'
    BY <1>1 DEF EvidenceInv, Begun, Ended, MatchCandidate, Matched
  <2>2. EnrollmentInv'
    BY <1>1 DEF EnrollmentInv, LockedBy, ProfileFree
  <2> QED
    BY <2>1, <2>2
<1>6. TargetInv' /\ Provenance' /\ OneOwner' /\ LoadInv'
  <2>1. Provenance'
    BY <1>1 DEF Provenance, MatchCandidate, Matched
  <2>2. TargetInv' /\ OneOwner' /\ LoadInv'
    BY <1>1 DEF TargetInv, OneOwner, LoadInv, Ended
  <2> QED
    BY <2>1, <2>2
<1> QED
  BY <1>3, <1>4, <1>5, <1>6

\* What a step on revisions keeps of those that exist.
RevisionsKept ==
  \A r \in Revision :
    /\ revision[r].profile # None => revision'[r].profile = revision[r].profile
    /\ r \in Ended => r \in Ended'
    /\ r \in Begun => r \in Begun'
    /\ revision[r].state = "active" /\ (\E p \in Profile : ~ProfileFree(p) /\ revision[r].profile = p) =>
         revision'[r].state = "active"

\* The rest of the invariant follows from that.
LEMMA RevisionRest ==
  ASSUME IInv, RevisionsKept, TypeOK', RevisionInv', UNCHANGED <<chain, target, busy>>
  PROVE  IInv'
<1> USE DEF IInv, chain, busy
<1>1. Tables' /\ TargetInv' /\ OneOwner'
  BY DEF Tables, TargetInv, OneOwner
<1>2. \A r \in Revision, h \in Host : MatchCandidate(r, h)' = MatchCandidate(r, h)
  BY DEF MatchCandidate, Matched
<1>3. evaluations \subseteq Evaluation /\ validations \subseteq Validation
  BY DEF TypeOK
<1>4. EvidenceInv'
  BY <1>2, <1>3 DEF EvidenceInv, RevisionsKept, Evaluation, Validation
<1>5. EnrollmentInv'
  <2>1. ASSUME NEW p \in Profile, ~ProfileFree(p) PROVE LockedBy(p)'
    <3>1. LockedBy(p) /\ decision[enrolling[p].decision].of \in validations
      BY <2>1 DEF EnrollmentInv, LockedBy, TypeOK
    <3>2. decision[enrolling[p].decision].of.revision \in Revision
      BY <1>3, <3>1 DEF Validation
    <3> QED
      BY <2>1, <3>1, <3>2, AuthorizationAssumption DEF LockedBy, RevisionsKept
  <2> QED
    BY <2>1 DEF EnrollmentInv, ProfileFree
<1>6. Provenance'
  <2>1. \A e \in evaluations : (e.code = MatchCandidate(e.revision, e.host))'
    BY <1>2, <1>3 DEF Provenance, Evaluation
  <2>2. ASSUME NEW t \in Target, target[t] # NoTarget, target[t].revision # None
        PROVE  revision'[target[t].revision].profile = target[t].profile
    BY <2>2, AuthorizationAssumption DEF Provenance, TargetInv, RevisionsKept, TypeOK
  <2>3. ASSUME NEW t \in Target, target[t] # NoTarget, target[t].decision # None
        PROVE  LET v == decision[target[t].decision].of IN
               MatchCandidate(v.revision, v.host)' = MatchCandidate(v.revision, v.host)
    BY <1>2, <1>3, <2>3 DEF Provenance, Validation
  <2> QED
    BY <2>1, <2>2, <2>3 DEF Provenance
<1>7. LoadInv'
  BY DEF LoadInv, RevisionsKept, Ended
<1> QED
  BY <1>1, <1>4, <1>5, <1>6, <1>7

RevisionRow == [profile : Profile \cup {None}, number : Nat, allows : BOOLEAN,
                state : {"none", "draft", "active", "superseded", "revoked"}]

\* A draft gets a number no other revision of its profile has.
LEMMA CreateRevisionStep ==
  ASSUME IInv, NEW p \in Profile, NEW r \in Revision, CreateRevision(p, r)
  PROVE  IInv'
<1> USE DEF IInv
<1> DEFINE n == Cardinality(RevisionsOf(p)) + 1
           row == [profile |-> p, number |-> n, state |-> "draft", allows |-> profile[p].allows]
<1>1. /\ revision[r] = NoRevision /\ revision' = [revision EXCEPT ![r] = row]
      /\ UNCHANGED <<profile, chain, target, scoped, busy>>
  BY DEF CreateRevision, RevisionsOf
<1>2. revision \in [Revision -> RevisionRow] /\ profile[p].allows \in BOOLEAN
  BY DEF TypeOK, RevisionRow
<1>3. n \in Nat /\ IsFiniteSet(RevisionsOf(p)) /\ \A q \in RevisionsOf(p) : revision[q].number < n
  <2>1. IsFiniteSet(RevisionsOf(p)) /\ Cardinality(RevisionsOf(p)) \in Nat
    BY FS_CardinalityType DEF RevisionInv
  <2>2. \A q \in RevisionsOf(p) : revision[q].number \in Nat /\ revision[q].number <= Cardinality(RevisionsOf(p))
    BY <1>2 DEF RevisionInv, RevisionsOf, RevisionRow
  <2> QED
    BY <2>1, <2>2
<1> HIDE DEF n
<1>4. row \in RevisionRow /\ row.profile = p /\ row.number = n /\ row.state = "draft"
  BY <1>2, <1>3 DEF RevisionRow
<1> HIDE DEF row
<1>5. /\ revision' \in [Revision -> RevisionRow] /\ revision'[r] = row
      /\ \A q \in Revision : q # r => revision'[q] = revision[q]
  BY <1>1, <1>2, <1>4
<1>6. revision[r].profile = None /\ revision[r].state = "none"
  BY <1>1 DEF NoRevision
<1>7. /\ RevisionsOf(p)' = RevisionsOf(p) \cup {r} /\ r \notin RevisionsOf(p)
      /\ \A q \in Profile : q # p => RevisionsOf(q)' = RevisionsOf(q)
  BY <1>4, <1>5, <1>6, AuthorizationAssumption DEF RevisionsOf
<1>8. RevisionInv'
  <2>1. IsFiniteSet(RevisionsOf(p)') /\ Cardinality(RevisionsOf(p)') = n
    BY <1>3, <1>7, FS_AddElement DEF n
  <2>2. \A q \in RevisionsOf(p)' : revision'[q].number <= n
    <3>1. \A q \in RevisionsOf(p) : revision'[q] = revision[q] /\ revision[q].number \in Nat
      BY <1>2, <1>5, <1>7 DEF RevisionsOf, RevisionRow
    <3> QED
      BY <1>3, <1>4, <1>5, <1>7, <3>1
  <2>3. \A q \in Profile : q # p => \A k \in RevisionsOf(q) : revision'[k] = revision[k]
    BY <1>5, <1>6, AuthorizationAssumption DEF RevisionsOf
  <2>4. \A q \in Revision : revision'[q] # NoRevision => revision'[q].state # "none" /\ revision'[q].profile \in Profile
    BY <1>4, <1>5 DEF RevisionInv
  <2>5. ASSUME NEW q \in Profile
        PROVE  (/\ IsFiniteSet(RevisionsOf(q))
                /\ \A k \in RevisionsOf(q) : revision[k].number <= Cardinality(RevisionsOf(q)))'
    <3>1. CASE q = p
      BY <2>1, <2>2, <3>1
    <3>2. CASE q # p
      BY <1>7, <2>3, <3>2 DEF RevisionInv
    <3> QED
      BY <3>1, <3>2
  <2> QED
    BY <2>4, <2>5 DEF RevisionInv
<1>9. TypeOK'
  <2>1. \A k, q \in Revision :
          k # q /\ revision'[k].profile = revision'[q].profile /\ revision'[k].profile # None =>
            /\ revision'[k].number # revision'[q].number
            /\ ~(revision'[k].state = "active" /\ revision'[q].state = "active")
    <3> SUFFICES ASSUME NEW k \in Revision, NEW q \in Revision, k # q,
                        revision'[k].profile = revision'[q].profile, revision'[k].profile # None
                 PROVE  /\ revision'[k].number # revision'[q].number
                        /\ ~(revision'[k].state = "active" /\ revision'[q].state = "active")
      OBVIOUS
    <3>1. CASE k # r /\ q # r
      BY <1>5, <3>1 DEF TypeOK
    <3>2. \A m \in Revision : m # r /\ revision'[m].profile = p => revision'[m].number \in Nat /\ revision'[m].number < n
      BY <1>2, <1>3, <1>5 DEF RevisionsOf, RevisionRow
    <3>3. CASE k = r \/ q = r
      BY <1>3, <1>4, <1>5, <3>2, <3>3
    <3> QED
      BY <3>1, <3>3
  <2> QED
    BY <1>1, <1>5, <2>1 DEF TypeOK, RevisionRow, chain, busy
<1>10. RevisionsKept
  BY <1>5, <1>6 DEF RevisionsKept, Begun, Ended
<1> QED
  BY <1>1, <1>8, <1>9, <1>10, RevisionRest

\* Revisions change state and nothing else.
StateStep(r) ==
  \A q \in Revision :
    /\ revision'[q].profile = revision[q].profile /\ revision'[q].number = revision[q].number
    /\ revision'[q].state # revision[q].state =>
         /\ revision[q].profile = revision[r].profile
         /\ \/ revision[q].state = "active" /\ revision'[q].state \in {"superseded", "revoked"}
            \/ q = r /\ revision[q].state = "draft" /\ revision'[q].state \in {"active", "revoked"}
    /\ revision'[r].state = "active" /\ q # r /\ revision[q].profile = revision[r].profile =>
         revision'[q].state # "active"

LEMMA ActivateStates ==
  ASSUME IInv, NEW r \in Revision, ActivateRevision(r)
  PROVE  revision' \in [Revision -> RevisionRow] /\ StateStep(r)
<1> USE DEF IInv
<1>1. revision \in [Revision -> RevisionRow]
  BY DEF TypeOK, RevisionRow
<1>2. \A q \in Revision, k \in {"active", "superseded"} :
        /\ [revision[q] EXCEPT !.state = k] \in RevisionRow
        /\ [revision[q] EXCEPT !.state = k].profile = revision[q].profile
        /\ [revision[q] EXCEPT !.state = k].number = revision[q].number
        /\ [revision[q] EXCEPT !.state = k].state = k
  BY <1>1 DEF RevisionRow
<1>3. \A q \in Revision : revision'[q] =
        IF q = r THEN [revision[q] EXCEPT !.state = "active"]
        ELSE IF revision[q].profile = revision[r].profile /\ revision[q].state = "active"
             THEN [revision[q] EXCEPT !.state = "superseded"] ELSE revision[q]
  BY DEF ActivateRevision
<1>4. revision' \in [Revision -> RevisionRow]
  BY <1>1, <1>2 DEF ActivateRevision
<1>5. revision[r].state = "draft"
  BY DEF ActivateRevision
<1>6. ASSUME NEW q \in Revision
      PROVE  /\ revision'[q].profile = revision[q].profile /\ revision'[q].number = revision[q].number
             /\ revision'[q].state =
                  IF q = r THEN "active"
                  ELSE IF revision[q].profile = revision[r].profile /\ revision[q].state = "active"
                       THEN "superseded" ELSE revision[q].state
  BY <1>2, <1>3
<1>7. StateStep(r)
  BY <1>5, <1>6 DEF StateStep
<1> QED
  BY <1>4, <1>7

LEMMA RevokeStates ==
  ASSUME IInv, NEW r \in Revision, RevokeRevision(r)
  PROVE  revision' \in [Revision -> RevisionRow] /\ StateStep(r)
<1> USE DEF IInv
<1>1. revision \in [Revision -> RevisionRow]
  BY DEF TypeOK, RevisionRow
<1> DEFINE row == [revision[r] EXCEPT !.state = "revoked"]
<1>2. row \in RevisionRow /\ row.profile = revision[r].profile /\ row.number = revision[r].number /\ row.state = "revoked"
  BY <1>1 DEF RevisionRow
<1>3. revision' = [revision EXCEPT ![r] = row] /\ revision[r].state \in {"draft", "active"}
  BY DEF RevokeRevision
<1> HIDE DEF row
<1> QED
  BY <1>1, <1>2, <1>3 DEF StateStep

\* Activation and revocation wait for the enrollment that holds the profile.
LEMMA StateSteps ==
  ASSUME IInv, NEW r \in Revision, ActivateRevision(r) \/ RevokeRevision(r)
  PROVE  IInv'
<1> USE DEF IInv
<1>1. revision' \in [Revision -> RevisionRow] /\ StateStep(r)
  BY ActivateStates, RevokeStates
<1>2. /\ UNCHANGED <<profile, chain, target, scoped, busy>>
      /\ revision[r].state \in {"draft", "active"} /\ ProfileFree(revision[r].profile)
  BY DEF ActivateRevision, RevokeRevision
<1>3. revision \in [Revision -> RevisionRow] /\ revision[r].profile \in Profile
  BY <1>2 DEF TypeOK, RevisionRow, RevisionInv, NoRevision
<1>4. RevisionInv'
  <2>1. \A p \in Profile : RevisionsOf(p)' = RevisionsOf(p)
    BY <1>1 DEF RevisionsOf, StateStep
  <2>2. \A q \in Revision : revision'[q] # NoRevision =>
          revision'[q].state # "none" /\ revision'[q].profile \in Profile
    <3> SUFFICES ASSUME NEW q \in Revision, revision'[q] # NoRevision
                 PROVE  revision'[q].state # "none" /\ revision'[q].profile \in Profile
      OBVIOUS
    <3>1. CASE revision'[q].state # revision[q].state
      BY <1>1, <1>3, <3>1 DEF StateStep
    <3>2. CASE revision'[q].state = revision[q].state /\ revision[q] # NoRevision
      BY <1>1, <3>2 DEF StateStep, RevisionInv
    <3>3. CASE revision'[q].state = revision[q].state /\ revision[q] = NoRevision
      <4>1. q # r
        BY <1>2, <3>3 DEF NoRevision
      <4>2. revision'[q] = revision[q]
        <5>1. CASE ActivateRevision(r)
          <6>1. revision[q].state = "none"
            BY <3>3 DEF NoRevision
          <6> QED
            BY <4>1, <5>1, <6>1 DEF ActivateRevision
        <5>2. CASE RevokeRevision(r)
          BY <1>3, <4>1, <5>2 DEF RevokeRevision
        <5> QED
          BY <5>1, <5>2
      <4> QED
        BY <3>3, <4>2
    <3> QED
      BY <3>1, <3>2, <3>3
  <2>3. \A p \in Profile : \A q \in RevisionsOf(p) : revision'[q].number = revision[q].number
    BY <1>1 DEF StateStep, RevisionsOf
  <2> QED
    BY <2>1, <2>2, <2>3 DEF RevisionInv
<1>5. TypeOK'
  <2>1. \A k, q \in Revision :
          k # q /\ revision'[k].profile = revision'[q].profile /\ revision'[k].profile # None =>
            /\ revision'[k].number # revision'[q].number
            /\ ~(revision'[k].state = "active" /\ revision'[q].state = "active")
    BY <1>1 DEF TypeOK, StateStep
  <2> QED
    BY <1>1, <1>2, <2>1 DEF TypeOK, RevisionRow, chain, busy
<1>6. RevisionsKept
  BY <1>1, <1>2, <1>3, AuthorizationAssumption DEF RevisionsKept, StateStep, Begun, Ended
<1> QED
  BY <1>2, <1>4, <1>5, <1>6, RevisionRest

\* Rules change in a draft, of which there is no evidence.
LEMMA RuleSteps ==
  ASSUME IInv, NEW r \in Revision, NEW rule \in Rule, CreateRule(r, rule) \/ DeleteRule(r, rule)
  PROVE  IInv'
<1> USE DEF IInv, chain, busy
<1>1. /\ UNCHANGED <<profile, revision, evaluations, validations, decision, target, scoped, busy>>
      /\ revision[r].state = "draft" /\ rules' \in [Revision -> SUBSET Rule]
      /\ \A q \in Revision : q # r => rules'[q] = rules[q]
  BY DEF CreateRule, DeleteRule, TypeOK
<1>2. \A q \in Revision : q \in Begun => rules'[q] = rules[q]
  BY <1>1 DEF Begun, Ended
<1>3. \A q \in Revision, h \in Host : q \in Begun => MatchCandidate(q, h)' = MatchCandidate(q, h)
  BY <1>2 DEF MatchCandidate, Matched
<1>4. TypeOK'
  BY <1>1 DEF TypeOK
<1>5. EvidenceInv'
  <2>1. Begun' = Begun
    BY <1>1 DEF Begun, Ended
  <2>2. evaluations \subseteq Evaluation /\ validations \subseteq Validation
    BY DEF TypeOK
  <2> QED
    BY <1>1, <1>3, <2>1, <2>2 DEF EvidenceInv, Evaluation, Validation
<1>6. Tables' /\ RevisionInv' /\ TargetInv' /\ OneOwner' /\ LoadInv'
  BY <1>1 DEF Tables, RevisionInv, RevisionsOf, TargetInv, OneOwner, LoadInv, Ended
<1>7. EnrollmentInv'
  BY <1>1 DEF EnrollmentInv, LockedBy, ProfileFree
<1>8. Provenance'
  <2>1. \A e \in evaluations : (e.code = MatchCandidate(e.revision, e.host))'
    BY <1>1, <1>5 DEF EvidenceInv
  <2>2. \A v \in validations : (MatchCandidate(v.revision, v.host) = "included")'
    BY <1>1, <1>5 DEF EvidenceInv
  <2> QED
    BY <1>1, <2>1, <2>2 DEF Provenance
<1> QED
  BY <1>4, <1>5, <1>6, <1>7, <1>8

\* Evidence is added for an active revision.
LEMMA EvaluateStep ==
  ASSUME IInv, NEW r \in Revision, NEW h \in Host, EvaluateCandidate(r, h)
  PROVE  IInv'
<1> USE DEF IInv, chain, busy
<1> DEFINE e == [revision |-> r, host |-> h, code |-> MatchCandidate(r, h)]
<1>1. /\ UNCHANGED <<profile, revision, rules, validations, decision, target, scoped, busy>>
      /\ revision[r].state = "active" /\ evaluations' = evaluations \cup {e}
  BY DEF EvaluateCandidate
<1>2. MatchCandidate(r, h) \in Code
  BY DEF MatchCandidate, Code
<1>3. e \in Evaluation /\ e.revision = r /\ e.host = h /\ e.code = MatchCandidate(r, h)
  BY <1>2 DEF Evaluation
<1> HIDE DEF e
<1>4. \A q, g : MatchCandidate(q, g)' = MatchCandidate(q, g)
  BY <1>1 DEF MatchCandidate, Matched
<1>5. TypeOK'
  BY <1>1, <1>3 DEF TypeOK
<1>6. Tables' /\ RevisionInv' /\ TargetInv' /\ OneOwner' /\ LoadInv'
  BY <1>1 DEF Tables, RevisionInv, RevisionsOf, TargetInv, OneOwner, LoadInv, Ended
<1>7. EnrollmentInv'
  BY <1>1 DEF EnrollmentInv, LockedBy, ProfileFree
<1>8. EvidenceInv'
  BY <1>1, <1>3, <1>4 DEF EvidenceInv, Begun, Ended
<1>9. Provenance'
  BY <1>1, <1>3, <1>4 DEF Provenance
<1> QED
  BY <1>5, <1>6, <1>7, <1>8, <1>9

LEMMA BeginValidationStep ==
  ASSUME IInv, NEW w \in Worker, NEW e \in evaluations, BeginValidation(w, e)
  PROVE  IInv'
<1> USE DEF IInv, chain, busy, BeginValidation
<1>1. TypeOK'
  BY DEF TypeOK
<1>2. Tables' /\ RevisionInv' /\ TargetInv' /\ OneOwner' /\ LoadInv'
  BY DEF Tables, RevisionInv, RevisionsOf, TargetInv, OneOwner, LoadInv, Ended
<1>3. EnrollmentInv'
  BY DEF EnrollmentInv, LockedBy, ProfileFree
<1>4. EvidenceInv' /\ Provenance'
  BY DEF EvidenceInv, Provenance, Begun, Ended, MatchCandidate, Matched
<1> QED
  BY <1>1, <1>2, <1>3, <1>4

\* What the resolution brought is recorded only if the evaluation still says
\* "included" of a revision that is active now.
LEMMA FinishValidationStep ==
  ASSUME IInv, NEW w \in Worker, FinishValidation(w)
  PROVE  IInv'
<1> USE DEF IInv, chain, busy
<1>1. /\ UNCHANGED <<profile, revision, rules, evaluations, decision, target, scoped, enrolling, load, ended>>
      /\ resolving' = [resolving EXCEPT ![w] = None]
      /\ resolving[w] \in evaluations
  BY DEF FinishValidation, TypeOK
<1>2. /\ validations \subseteq validations' /\ validations' \subseteq Validation
      /\ \A v \in validations' \ validations :
           v.revision \in Begun /\ MatchCandidate(v.revision, v.host) = "included"
  <2>1. validations \subseteq Validation /\ resolving[w] \in Evaluation
    BY <1>1 DEF TypeOK
  <2>2. CASE Resolvable(resolving[w])
    <3>1. PICK d \in DNS : validations' = validations \cup {[revision |-> resolving[w].revision,
                                                             host |-> resolving[w].host, dns |-> d]}
      BY <2>2 DEF FinishValidation
    <3> DEFINE v == [revision |-> resolving[w].revision, host |-> resolving[w].host, dns |-> d]
    <3>2. v \in Validation /\ v.revision = resolving[w].revision /\ v.host = resolving[w].host
      BY <2>1 DEF Evaluation, Validation
    <3>3. v.revision \in Begun /\ MatchCandidate(v.revision, v.host) = "included"
      BY <1>1, <2>2, <3>2 DEF EvidenceInv, Resolvable
    <3> HIDE DEF v
    <3>4. validations' = validations \cup {v}
      BY <3>1 DEF v
    <3> QED
      BY <2>1, <3>2, <3>3, <3>4
  <2>3. CASE ~Resolvable(resolving[w])
    BY <2>1, <2>3 DEF FinishValidation
  <2> QED
    BY <2>2, <2>3
<1>3. TypeOK'
  <2>1. \A d \in Decision : decision'[d] # NoDecision =>
          decision'[d] \in [state : {"approved", "rejected"}, of : validations']
    <3> SUFFICES ASSUME NEW d \in Decision, decision[d] # NoDecision
                 PROVE  decision[d] \in [state : {"approved", "rejected"}, of : validations']
      BY <1>1
    <3>1. decision[d] \in [state : {"approved", "rejected"}, of : validations]
      BY DEF TypeOK
    <3> QED
      BY <1>2, <3>1
  <2> QED
    BY <1>1, <1>2, <2>1 DEF TypeOK
<1>4. Tables' /\ RevisionInv' /\ TargetInv' /\ OneOwner' /\ LoadInv'
  BY <1>1 DEF Tables, RevisionInv, RevisionsOf, TargetInv, OneOwner, LoadInv, Ended
<1>5. EnrollmentInv'
  BY <1>1 DEF EnrollmentInv, LockedBy, ProfileFree
<1>6. \A q, g : MatchCandidate(q, g)' = MatchCandidate(q, g)
  BY <1>1 DEF MatchCandidate, Matched
<1>7. EvidenceInv'
  <2>1. Begun' = Begun
    BY <1>1 DEF Begun, Ended
  <2> QED
    BY <1>1, <1>2, <1>6, <2>1 DEF EvidenceInv
<1>8. Provenance'
  BY <1>1, <1>2, <1>6 DEF Provenance
<1> QED
  BY <1>3, <1>4, <1>5, <1>7, <1>8

LEMMA DecideStep ==
  ASSUME IInv, NEW d \in Decision, NEW v \in validations, Decide(d, v)
  PROVE  IInv'
<1> USE DEF IInv, chain, busy
<1>1. PICK s \in {"approved", "rejected"} : decision' = [decision EXCEPT ![d] = [state |-> s, of |-> v]]
  BY DEF Decide
<1>2. /\ UNCHANGED <<profile, revision, rules, evaluations, validations, target, scoped, busy>>
      /\ decision[d] = NoDecision
  BY DEF Decide
<1>3. /\ decision' = [c \in Decision |-> decision'[c]]
      /\ decision'[d] = [state |-> s, of |-> v]
      /\ \A c \in Decision : c # d => decision'[c] = decision[c]
  BY <1>1 DEF Tables
<1>4. TypeOK'
  <2>1. [state |-> s, of |-> v] \in [state : {"approved", "rejected"}, of : validations]
    OBVIOUS
  <2> QED
    BY <1>2, <1>3, <2>1 DEF TypeOK
<1>5. Tables' /\ RevisionInv' /\ OneOwner' /\ LoadInv'
  BY <1>2, <1>3 DEF Tables, RevisionInv, RevisionsOf, OneOwner, LoadInv, Ended
<1>6. EvidenceInv'
  BY <1>2 DEF EvidenceInv, Begun, Ended, MatchCandidate, Matched
<1>7. \A c \in Decision : decision[c] # NoDecision => decision'[c] = decision[c]
  BY <1>2, <1>3
<1>8. EnrollmentInv'
  <2>1. ASSUME NEW p \in Profile, LockedBy(p) PROVE LockedBy(p)'
    BY <1>2, <1>7, <2>1 DEF LockedBy
  <2> QED
    BY <1>2, <2>1 DEF EnrollmentInv, ProfileFree
<1>9. \A t \in Target : target[t] # NoTarget /\ target[t].decision # None =>
        target[t].decision \in Decision /\ decision'[target[t].decision] = decision[target[t].decision]
  BY <1>7 DEF TargetInv, TypeOK
<1>10. TargetInv'
  BY <1>2, <1>9 DEF TargetInv
<1>11. Provenance'
  BY <1>2, <1>9 DEF Provenance, MatchCandidate, Matched
<1> QED
  BY <1>4, <1>5, <1>6, <1>8, <1>10, <1>11

\* An enrollment takes its locks: nobody owns its origin, and nobody who
\* could is on the way.
LEMMA BeginEnrollmentStep ==
  ASSUME IInv, NEW d \in Decision, NEW port \in Port, BeginEnrollment(d, port)
  PROVE  IInv'
<1> USE DEF IInv, chain, busy
<1> DEFINE v == decision[d].of
           o == <<v.host, port>>
           row == [state |-> "locked", decision |-> d, origin |-> o, revision |-> v.revision,
                   mode |-> ModeFor(v.dns)]
<1>1. decision[d] # NoDecision /\ revision[v.revision].state = "active" /\ v \in validations
  BY DEF BeginEnrollment, TypeOK
<1>2. v.revision \in Revision /\ v.host \in Host
  BY <1>1 DEF TypeOK, Validation
<1>3. PICK p \in Profile : p = revision[v.revision].profile
  BY <1>1, <1>2 DEF RevisionInv, NoRevision
<1>4. /\ UNCHANGED <<profile, revision, chain, target, scoped, resolving, load, ended>>
      /\ enrolling' = [enrolling EXCEPT ![p] = row]
      /\ decision[d].state = "approved" /\ ProfileFree(p) /\ ModeFor(v.dns) \in Mode
      /\ OriginFree(o) /\ Enrolled(d) = {} /\ OwnersOf(o) = {}
  BY <1>3 DEF BeginEnrollment
<1>5. /\ enrolling' = [q \in Profile |-> enrolling'[q]] /\ enrolling'[p] = row
      /\ \A q \in Profile : q # p => enrolling'[q] = enrolling[q]
  BY <1>4 DEF Tables
<1>6. o \in Origin /\ o[1] = v.host
  BY <1>2 DEF Origin
<1>7. row # NoEnrollment /\ row.decision = d /\ row.origin = o /\ row.revision = v.revision /\ row.mode = ModeFor(v.dns)
  <2>1. row.state # NoEnrollment.state
    BY DEF NoEnrollment
  <2> QED
    BY <2>1
<1> HIDE DEF row
<1>8. TypeOK' /\ RevisionInv'
  BY ZenonT(40), <1>4 DEF TypeOK, RevisionInv, RevisionsOf
<1>9. Tables'
  BY <1>4, <1>5 DEF Tables
<1>10. EvidenceInv' /\ Provenance'
  BY <1>4 DEF EvidenceInv, Provenance, Begun, Ended, MatchCandidate, Matched
<1>11. TargetInv' /\ OneOwner' /\ LoadInv'
  BY <1>4 DEF TargetInv, OneOwner, LoadInv, Ended
<1>12. \A t \in Target : target[t] # NoTarget => target[t].decision # d /\ target[t].origin # o
  BY <1>4 DEF Enrolled, OwnersOf
<1>13. EnrollmentInv'
  <2>1. LockedBy(p)'
    BY ZenonT(40), <1>1, <1>3, <1>4, <1>5, <1>6, <1>7, <1>12 DEF LockedBy
  <2>2. ASSUME NEW q \in Profile, q # p, ~ProfileFree(q) PROVE LockedBy(q)'
    <3>1. LockedBy(q) /\ enrolling'[q] = enrolling[q]
      BY <1>5, <2>2 DEF EnrollmentInv
    <3> QED
      BY <1>4, <3>1 DEF LockedBy
  <2>3. \A q \in Profile : q # p => (ProfileFree(q)' <=> ProfileFree(q))
    BY <1>5 DEF ProfileFree
  <2>4. \A q \in Profile : ~ProfileFree(q) => enrolling[q].origin # o
    BY <1>4 DEF OriginFree
  <2>5. \A q, k \in Profile : ~ProfileFree(q)' /\ ~ProfileFree(k)' /\ q # k =>
          enrolling'[q].origin # enrolling'[k].origin
    BY <1>5, <1>7, <2>3, <2>4 DEF EnrollmentInv
  <2> QED
    BY <2>1, <2>2, <2>3, <2>5 DEF EnrollmentInv
<1> QED
  BY <1>8, <1>9, <1>10, <1>11, <1>13

LEMMA AbortEnrollmentStep ==
  ASSUME IInv, NEW p \in Profile, AbortEnrollment(p)
  PROVE  IInv'
<1> USE DEF IInv, chain, busy
<1>1. /\ UNCHANGED <<profile, revision, chain, target, scoped, resolving, load, ended>>
      /\ enrolling' = [enrolling EXCEPT ![p] = NoEnrollment]
  BY DEF AbortEnrollment
<1>2. /\ enrolling' = [q \in Profile |-> enrolling'[q]]
      /\ \A q \in Profile : ~ProfileFree(q)' => enrolling'[q] = enrolling[q] /\ ~ProfileFree(q)
  BY <1>1 DEF Tables, ProfileFree
<1>3. TypeOK' /\ RevisionInv' /\ EvidenceInv' /\ Provenance'
  <2>1. TypeOK' /\ RevisionInv'
    BY <1>1, ZenonT(30) DEF TypeOK, RevisionInv, RevisionsOf
  <2>2. EvidenceInv' /\ Provenance'
    BY <1>1 DEF EvidenceInv, Provenance, Begun, Ended, MatchCandidate, Matched
  <2> QED
    BY <2>1, <2>2
<1>4. Tables'
  BY <1>1, <1>2 DEF Tables
<1>5. TargetInv' /\ OneOwner' /\ LoadInv'
  BY <1>1 DEF TargetInv, OneOwner, LoadInv, Ended
<1>6. ASSUME NEW q \in Profile, ~ProfileFree(q)' PROVE LockedBy(q)'
  <2>1. LockedBy(q) /\ enrolling'[q] = enrolling[q]
    BY <1>2, <1>6 DEF EnrollmentInv
  <2> QED
    BY <1>1, <2>1 DEF LockedBy
<1>7. EnrollmentInv'
  BY <1>2, <1>6 DEF EnrollmentInv
<1> QED
  BY <1>3, <1>4, <1>5, <1>7

TargetRow == [state : {"row"}, origin : Origin, mode : Mode, profile : Profile \cup {None},
              revision : Revision \cup {None}, decision : Decision \cup {None}]

\* The insert of an enrollment: the row is what its locks have kept true.
LEMMA CommitEnrollmentStep ==
  ASSUME IInv, NEW p \in Profile, NEW t \in Target, CommitEnrollment(p, t)
  PROVE  IInv'
<1> USE DEF IInv, chain, busy
<1> DEFINE d == enrolling[p].decision
           v == decision[d].of
           row == [state |-> "row", origin |-> enrolling[p].origin, mode |-> enrolling[p].mode,
                   profile |-> p, revision |-> enrolling[p].revision, decision |-> d]
<1>1. /\ UNCHANGED <<profile, revision, chain, scoped, resolving, load, ended>>
      /\ enrolling' = [enrolling EXCEPT ![p] = NoEnrollment]
      /\ target' = [target EXCEPT ![t] = row]
      /\ target[t] = NoTarget /\ ~ProfileFree(p)
  BY DEF CommitEnrollment, ProfileFree
<1>2. LockedBy(p)
  BY <1>1 DEF EnrollmentInv
<1>3. /\ d \in Decision /\ decision[d] # NoDecision /\ decision[d].state = "approved"
      /\ enrolling[p].revision = v.revision
      /\ revision[v.revision].profile = p /\ revision[v.revision].state = "active"
      /\ enrolling[p].origin \in Origin /\ enrolling[p].origin[1] = v.host
      /\ enrolling[p].mode = ModeFor(v.dns) /\ enrolling[p].mode \in Mode
      /\ \A s \in Target : target[s] # NoTarget /\ target[s].decision # None =>
           target[s].decision # d /\ target[s].origin # enrolling[p].origin
  BY <1>2 DEF LockedBy
<1>4. v \in validations /\ v.revision \in Revision
  BY <1>3 DEF TypeOK, Validation
<1>5. /\ row \in TargetRow /\ row # NoTarget /\ row.origin = enrolling[p].origin
      /\ row.mode = enrolling[p].mode /\ row.profile = p /\ row.revision = v.revision /\ row.decision = d
  <2>1. row.state # NoTarget.state
    BY DEF NoTarget
  <2>2. row # NoTarget
    BY <2>1
  <2> QED
    BY <1>3, <1>4, <2>2 DEF TargetRow
<1> HIDE DEF row
<1>6. /\ target' = [s \in Target |-> target'[s]] /\ target'[t] = row
      /\ \A s \in Target : s # t => target'[s] = target[s]
      /\ enrolling' = [q \in Profile |-> enrolling'[q]]
      /\ \A q \in Profile : ~ProfileFree(q)' => enrolling'[q] = enrolling[q] /\ ~ProfileFree(q) /\ q # p
  BY <1>1 DEF Tables, ProfileFree
<1>7. TypeOK'
  <2>1. \A s \in Target : target'[s] # NoTarget => target'[s] \in TargetRow
    BY <1>5, <1>6 DEF TypeOK, TargetRow
  <2> QED
    BY <1>1, <2>1 DEF TypeOK, TargetRow
<1>8. Tables'
  BY <1>1, <1>6 DEF Tables
<1>9. RevisionInv' /\ LoadInv' /\ EvidenceInv'
  BY <1>1 DEF RevisionInv, RevisionsOf, LoadInv, EvidenceInv, Begun, Ended, MatchCandidate, Matched
<1>10. TargetInv'
  BY <1>1, <1>3, <1>5, <1>6 DEF TargetInv
<1>11. OneOwner'
  <2>1. \A s \in Target : s # t /\ target'[s] # NoTarget /\ target'[s].decision # None =>
          target'[s].decision # row.decision /\ target'[s].origin # row.origin
    BY <1>3, <1>5, <1>6
  <2> QED
    BY <1>6, <2>1 DEF OneOwner
<1>12. Provenance'
  <2>1. \A q, h : MatchCandidate(q, h)' = MatchCandidate(q, h)
    BY <1>1 DEF MatchCandidate, Matched
  <2>2. MatchCandidate(v.revision, v.host) = "included"
    BY <1>4 DEF EvidenceInv
  <2> QED
    BY ZenonT(40), <1>1, <1>3, <1>4, <1>5, <1>6, <2>1, <2>2 DEF Provenance
<1>13. ASSUME NEW q \in Profile, ~ProfileFree(q)' PROVE LockedBy(q)'
  <2>1. LockedBy(q) /\ enrolling'[q] = enrolling[q] /\ q # p
    BY <1>6, <1>13 DEF EnrollmentInv
  <2>2. enrolling[q].origin # enrolling[p].origin
    BY <1>1, <1>6, <1>13 DEF EnrollmentInv
  <2>3. enrolling[q].decision # d
    BY <1>3, <2>1 DEF LockedBy
  <2> QED
    BY <1>1, <1>5, <1>6, <2>1, <2>2, <2>3 DEF LockedBy
<1>14. EnrollmentInv'
  BY <1>6, <1>13 DEF EnrollmentInv
<1> QED
  BY <1>7, <1>8, <1>9, <1>10, <1>11, <1>12, <1>14

\* A Target entered by hand, now or before, has no decision, and its revision
\* is one of its profile.
LEMMA HandRow ==
  ASSUME IInv, NEW t \in Target, NEW row \in TargetRow,
         target' = [target EXCEPT ![t] = row], row.decision = None, row # NoTarget,
         row.revision # None => row.profile \in Profile /\ revision[row.revision].profile = row.profile,
         UNCHANGED <<profile, revision, chain, scoped, busy>>
  PROVE  IInv'
<1> USE DEF IInv, chain, busy
<1>1. /\ target' = [s \in Target |-> target'[s]] /\ target'[t] = row
      /\ \A s \in Target : s # t => target'[s] = target[s]
  BY DEF Tables
<1>2. TypeOK'
  <2>1. \A s \in Target : target'[s] # NoTarget => target'[s] \in TargetRow
    BY <1>1 DEF TypeOK, TargetRow
  <2> QED
    BY <2>1 DEF TypeOK, TargetRow
<1>3. Tables'
  BY <1>1 DEF Tables
<1>4. RevisionInv' /\ LoadInv'
  BY DEF RevisionInv, RevisionsOf, LoadInv, Ended
<1>5. EvidenceInv'
  BY DEF EvidenceInv, Begun, Ended, MatchCandidate, Matched
<1>6. \A s \in Target : target'[s] # NoTarget /\ target'[s].decision # None => target'[s] = target[s]
  BY <1>1
<1>7. EnrollmentInv'
  <2>1. ASSUME NEW p \in Profile, LockedBy(p) PROVE LockedBy(p)'
    BY <1>6, <2>1 DEF LockedBy
  <2> QED
    BY <2>1 DEF EnrollmentInv, ProfileFree
<1>8. TargetInv' /\ OneOwner'
  BY <1>1, <1>6 DEF TargetInv, OneOwner
<1>9. Provenance'
  <2>1. \A q, h : MatchCandidate(q, h)' = MatchCandidate(q, h)
    BY DEF MatchCandidate, Matched
  <2> QED
    BY <1>1, <1>6, <2>1 DEF Provenance
<1> QED
  BY <1>2, <1>3, <1>4, <1>5, <1>7, <1>8, <1>9

LEMMA TargetSteps ==
  ASSUME IInv, NEW t \in Target,
         \/ CreateTarget(t) \/ UpdateNetworkMode(t)
         \/ \E p \in Profile \cup {None} : UpdateTargetProfile(t, p)
         \/ \E r \in Revision \cup {None} : UpdateTargetRevision(t, r)
  PROVE  IInv'
<1> USE DEF IInv
<1>1. UNCHANGED <<profile, revision, chain, scoped, busy>>
  BY DEF CreateTarget, UpdateNetworkMode, UpdateTargetProfile, UpdateTargetRevision
<1>2. CASE CreateTarget(t)
  <2>1. PICK o \in Origin, m \in Mode :
          target' = [target EXCEPT ![t] = [state |-> "row", origin |-> o, mode |-> m, profile |-> None,
                                           revision |-> None, decision |-> None]]
    BY <1>2 DEF CreateTarget
  <2> DEFINE row == [state |-> "row", origin |-> o, mode |-> m, profile |-> None,
                     revision |-> None, decision |-> None]
  <2>2. row \in TargetRow /\ row.decision = None /\ row.revision = None /\ row # NoTarget
    <3>1. row.state # NoTarget.state
      BY DEF NoTarget
    <3>2. row # NoTarget
      BY <3>1
    <3> QED
      BY <3>2 DEF TargetRow
  <2>3. target' = [target EXCEPT ![t] = row]
    BY <2>1
  <2> HIDE DEF row
  <2> QED
    BY <1>1, <2>2, <2>3, HandRow
<1>3. CASE ByHand(t) /\ ~CreateTarget(t)
  <2>1. target[t] \in TargetRow /\ target[t].decision = None
        /\ (target[t].revision # None =>
              target[t].profile \in Profile /\ revision[target[t].revision].profile = target[t].profile)
    BY <1>3 DEF ByHand, TypeOK, TargetRow, TargetInv, Provenance
  <2>2. \A row \in TargetRow : row # NoTarget
    BY DEF TargetRow, NoTarget
  <2>3. CASE UpdateNetworkMode(t)
    <3>1. PICK m \in Mode : target' = [target EXCEPT ![t] = [target[t] EXCEPT !.mode = m]]
      BY <2>3 DEF UpdateNetworkMode
    <3> DEFINE row == [target[t] EXCEPT !.mode = m]
    <3>2. row \in TargetRow /\ row.decision = None /\ row.revision = target[t].revision
          /\ row.profile = target[t].profile
      BY <2>1 DEF TargetRow
    <3>3. target' = [target EXCEPT ![t] = row]
      BY <3>1
    <3> HIDE DEF row
    <3> QED
      BY <1>1, <2>1, <2>2, <3>2, <3>3, HandRow
  <2>4. ASSUME NEW p \in Profile \cup {None}, UpdateTargetProfile(t, p) PROVE IInv'
    <3> DEFINE row == [target[t] EXCEPT !.profile = p]
    <3>1. target' = [target EXCEPT ![t] = row] /\ target[t].revision = None
      BY <2>4 DEF UpdateTargetProfile
    <3>2. row \in TargetRow /\ row.decision = None /\ row.revision = None
      BY <2>1, <3>1 DEF TargetRow
    <3> HIDE DEF row
    <3> QED
      BY <1>1, <2>2, <3>1, <3>2, HandRow
  <2>5. ASSUME NEW r \in Revision \cup {None}, UpdateTargetRevision(t, r) PROVE IInv'
    <3> DEFINE row == [target[t] EXCEPT !.revision = r]
    <3>1. /\ target' = [target EXCEPT ![t] = row]
          /\ r # None => target[t].profile # None /\ revision[r].profile = target[t].profile
      BY <2>5 DEF UpdateTargetRevision
    <3>2. /\ row \in TargetRow /\ row.decision = None /\ row.revision = r /\ row.profile = target[t].profile
          /\ target[t].profile # None => row.profile \in Profile
      BY <2>1 DEF TargetRow
    <3> HIDE DEF row
    <3> QED
      BY <1>1, <2>2, <3>1, <3>2, HandRow
  <2> QED
    BY <1>3, <2>3, <2>4, <2>5
<1> QED
  BY <1>2, <1>3 DEF UpdateNetworkMode, UpdateTargetProfile, UpdateTargetRevision

\* An execution reads: what had ended when it began has ended still.
LEMMA LoadSteps ==
  ASSUME IInv, NEW x \in Execution,
         \/ \E t \in Target : LoadTarget(x, t)
         \/ LoadRevision(x) \/ EvaluatePolicy(x) \/ EndLoad(x)
  PROVE  IInv'
<1> USE DEF IInv, chain, busy
<1>1. UNCHANGED <<profile, revision, chain, target, scoped, resolving, enrolling>>
  BY DEF LoadTarget, LoadRevision, EvaluatePolicy, EndLoad
<1>2. /\ load' = [y \in Execution |-> load'[y]] /\ ended' = [y \in Execution |-> ended'[y]]
      /\ \A y \in Execution : y # x => load'[y] = load[y] /\ ended'[y] = ended[y]
  BY DEF LoadTarget, LoadRevision, EvaluatePolicy, EndLoad, Tables
<1>3. /\ ended'[x] \subseteq Ended
      /\ load'[x].pc = "revision" /\ load'[x].row.revision # None /\ load'[x].revision.state = "active" =>
           load'[x].row.revision \notin ended'[x]
      /\ load'[x].pc = "decided" /\ load'[x].allowed => load'[x].revision \notin ended'[x]
  <2>1. ASSUME NEW t \in Target, LoadTarget(x, t)
        PROVE  load'[x].pc = "target" /\ ended'[x] = Ended
    BY <2>1 DEF LoadTarget, Ended, Tables
  <2>2. CASE LoadRevision(x)
    <3> DEFINE row == load[x].row
               rev == IF row.revision = None THEN NoRevision ELSE revision[row.revision]
    <3>1. load'[x] = [pc |-> "revision", id |-> load[x].id, row |-> row, revision |-> rev] /\ ended' = ended
      BY <2>2 DEF LoadRevision, Tables
    <3>2. load'[x].pc = "revision" /\ load'[x].row = row /\ load'[x].revision = rev
      BY <3>1
    <3>3. row.revision # None /\ rev.state = "active" => row.revision \notin Ended
      BY DEF Ended
    <3> HIDE DEF row, rev
    <3> QED
      BY <3>1, <3>2, <3>3 DEF LoadInv
  <2>3. CASE EvaluatePolicy(x)
    <3> DEFINE l == load[x]
    <3>0. PICK enabled \in BOOLEAN :
            load' = [load EXCEPT ![x] = [pc |-> "decided", revision |-> l.row.revision,
                                         allowed |-> Allowed(enabled, l.row, l.revision, l.id \in scoped)]]
      BY <2>3 DEF EvaluatePolicy
    <3> DEFINE ok == Allowed(enabled, l.row, l.revision, l.id \in scoped)
    <3>1. load'[x] = [pc |-> "decided", revision |-> l.row.revision, allowed |-> ok] /\ ended' = ended
      BY <2>3, <3>0 DEF EvaluatePolicy, Tables
    <3>2. load'[x].pc = "decided" /\ load'[x].revision = l.row.revision /\ (load'[x].allowed <=> ok)
      BY <3>1
    <3>3. ok => l.row.revision \notin ended[x]
      BY <2>3 DEF LoadInv, Allowed, EvaluatePolicy
    <3> HIDE DEF l, ok
    <3> QED
      BY <3>1, <3>2, <3>3 DEF LoadInv
  <2>4. CASE EndLoad(x)
    BY <2>4 DEF EndLoad, NoLoad, Tables
  <2> QED
    BY <2>1, <2>2, <2>3, <2>4
<1>4. TypeOK' /\ RevisionInv'
  BY <1>1, ZenonT(30) DEF TypeOK, RevisionInv, RevisionsOf
<1>5. Tables'
  BY <1>1, <1>2 DEF Tables
<1>6. EvidenceInv' /\ Provenance'
  BY <1>1 DEF EvidenceInv, Provenance, Begun, Ended, MatchCandidate, Matched
<1>7. EnrollmentInv'
  BY <1>1 DEF EnrollmentInv, LockedBy, ProfileFree
<1>8. TargetInv' /\ OneOwner'
  BY <1>1 DEF TargetInv, OneOwner
<1>9. LoadInv'
  <2>1. Ended' = Ended
    BY <1>1 DEF Ended
  <2> QED
    BY <1>2, <1>3, <2>1 DEF LoadInv
<1> QED
  BY <1>4, <1>5, <1>6, <1>7, <1>8, <1>9

LEMMA StepInv == IInv /\ [Next]_vars => IInv'
<1> SUFFICES ASSUME IInv, [Next]_vars PROVE IInv'
  OBVIOUS
<1>1. CASE UNCHANGED vars
  <2> USE <1>1 DEF vars, IInv
  <2>1. TypeOK' /\ Tables' /\ RevisionInv'
    <3>1. TypeOK'
      BY DEF TypeOK
    <3>2. Tables'
      BY DEF Tables
    <3>3. RevisionInv'
      BY DEF RevisionInv, RevisionsOf
    <3> QED
      BY <3>1, <3>2, <3>3
  <2>2. EvidenceInv' /\ Provenance'
    BY ZenonT(30) DEF EvidenceInv, Provenance, Begun, Ended, MatchCandidate, Matched
  <2>3. EnrollmentInv' /\ TargetInv' /\ OneOwner' /\ LoadInv'
    BY DEF EnrollmentInv, LockedBy, ProfileFree, TargetInv, OneOwner, LoadInv, Ended
  <2> QED
    BY <2>1, <2>2, <2>3
<1>2. CASE Next
  BY <1>2, ProfileSteps, CreateRevisionStep, StateSteps, RuleSteps, EvaluateStep,
     BeginValidationStep, FinishValidationStep, DecideStep, BeginEnrollmentStep,
     CommitEnrollmentStep, AbortEnrollmentStep, TargetSteps, LoadSteps DEF Next
<1> QED
  BY <1>1, <1>2

-----------------------------------------------------------------------------
(* Theorems                                                                *)

\* The inductive invariant holds in every reachable state.
THEOREM Invariance == Spec => []IInv
BY InitInv, StepInv, PTL DEF Spec

\* Rows keep their types, the numbers of a profile's revisions are different
\* and one revision of a profile at most is active.
THEOREM TypeCorrectness == Spec => []TypeOK
BY Invariance, PTL DEF IInv

\* An enrolled Target stays what a human approved, and evidence stays what
\* the rules of its revision say.
THEOREM TargetsHaveProvenance == Spec => []Provenance
BY Invariance, PTL DEF IInv

\* Enrollments of any profiles, interleaved in any way, give an origin one
\* owner and a decision one Target.
THEOREM OriginsHaveOneOwner == Spec => []OneOwner
BY Invariance, PTL DEF IInv

\* No execution is allowed under a revision that had ended before the
\* execution began to load its authorization.
THEOREM EndedRevisionsNeverAllow == Spec => []EndedNeverAllows
<1>1. IInv => EndedNeverAllows
  BY DEF IInv, LoadInv, EndedNeverAllows
<1> QED
  BY <1>1, Invariance, PTL

\* Evidence and enrollments are recorded for revisions active at that moment.
THEOREM RecordedWhileActive == Spec => ActiveOnly
<1> DEFINE A == /\ \A e \in (evaluations' \ evaluations) \cup (validations' \ validations) :
                     revision[e.revision].state = "active"
                /\ \A t \in Target : target[t] = NoTarget /\ target'[t] # NoTarget /\ target'[t].decision # None =>
                     revision[target'[t].revision].state = "active"
<1>1. IInv /\ [Next]_vars => [A]_vars
  <2> SUFFICES ASSUME IInv, Next PROVE A
    OBVIOUS
  <2> USE DEF IInv
  <2>1. \A e \in evaluations' \ evaluations : revision[e.revision].state = "active"
    <3> SUFFICES ASSUME evaluations' # evaluations PROVE \A e \in evaluations' \ evaluations : revision[e.revision].state = "active"
      OBVIOUS
    <3>1. \E r \in Revision, h \in Host : EvaluateCandidate(r, h)
      BY DEF Next, chain, busy, CreateProfile, UpdateProfile, DeleteProfile, CreateRevision, CommitEnrollment,
             AbortEnrollment, ActivateRevision, RevokeRevision, CreateRule, DeleteRule, FinishValidation,
             BeginValidation, Decide, BeginEnrollment, CreateTarget, UpdateNetworkMode, CreateScope,
             UpdateTargetProfile, UpdateTargetRevision, LoadTarget, LoadRevision, EvaluatePolicy, EndLoad
    <3> QED
      BY <3>1 DEF EvaluateCandidate
  <2>2. \A v \in validations' \ validations : revision[v.revision].state = "active"
    <3> SUFFICES ASSUME validations' # validations PROVE \A v \in validations' \ validations : revision[v.revision].state = "active"
      OBVIOUS
    <3>1. \E w \in Worker : FinishValidation(w)
      BY DEF Next, chain, busy, CreateProfile, UpdateProfile, DeleteProfile, CreateRevision, CommitEnrollment,
             AbortEnrollment, ActivateRevision, RevokeRevision, CreateRule, DeleteRule, EvaluateCandidate,
             BeginValidation, Decide, BeginEnrollment, CreateTarget, UpdateNetworkMode, CreateScope,
             UpdateTargetProfile, UpdateTargetRevision, LoadTarget, LoadRevision, EvaluatePolicy, EndLoad
    <3> QED
      BY <3>1 DEF FinishValidation, Resolvable
  <2>3. ASSUME NEW t \in Target, target[t] = NoTarget, target'[t] # NoTarget, target'[t].decision # None
        PROVE  revision[target'[t].revision].state = "active"
    <3>1. (\E p \in Profile, s \in Target : CommitEnrollment(p, s)) \/ \E s \in Target : CreateTarget(s)
      BY <2>3 DEF Next, chain, busy, CreateProfile, UpdateProfile, DeleteProfile, CreateRevision,
             AbortEnrollment, ActivateRevision, RevokeRevision, CreateRule, DeleteRule, EvaluateCandidate,
             BeginValidation, FinishValidation, Decide, BeginEnrollment, UpdateNetworkMode, CreateScope, ByHand,
             UpdateTargetProfile, UpdateTargetRevision, LoadTarget, LoadRevision, EvaluatePolicy, EndLoad, Tables
    <3>2. ASSUME NEW p \in Profile, NEW s \in Target, CommitEnrollment(p, s)
          PROVE  revision[target'[t].revision].state = "active"
      <4>1. LockedBy(p) /\ s = t /\ target'[t].revision = enrolling[p].revision
        BY <2>3, <3>2 DEF CommitEnrollment, EnrollmentInv, ProfileFree, Tables
      <4> QED
        BY <4>1 DEF LockedBy
    <3>3. ASSUME NEW s \in Target, CreateTarget(s) PROVE FALSE
      BY <2>3, <3>3 DEF CreateTarget, Tables
    <3> QED
      BY <3>1, <3>2, <3>3
  <2> QED
    BY <2>1, <2>2, <2>3
<1> QED
  BY <1>1, Invariance, PTL DEF Spec, ActiveOnly
=============================================================================
