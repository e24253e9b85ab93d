---------------------------- MODULE AccessFacts -----------------------------
(***************************************************************************)
(* What the operator knows of a Target: which parameters of an endpoint    *)
(* name a resource (endpoint_resource_bindings), which identity may reach  *)
(* which resource (resource_access_assertions), and the offline matrix     *)
(* preview computed from both.                                             *)
(*                                                                         *)
(* A transaction is two steps: its start, whose instant the database       *)
(* stamps on the rows (server_default now()), and its commit, when others  *)
(* see them.                                                               *)
(***************************************************************************)
EXTENDS TestCases

CONSTANTS Operator,   \* concurrent requests
          LocationOf, \* path, query or body, for each locator
          Template,   \* the locators in the path of each endpoint, a part of its key
          Identifier, \* locators whose name or format is an identifier's
          Window,     \* validity windows a payload may give
          MaxTime, MaxAssertions,
          MaxScanned  \* MAX_ASSERTIONS_SCANNED

VARIABLES now, binding, assertion, tx

factVars == <<now, binding, assertion, tx>>

Provenance == {"operator_supplied", "openapi_inferred"}
ReviewState == {"candidate", "confirmed", "rejected"}

\* The key is the table's unique constraint.
BindingKey == [endpoint : Endpoint, locator : Locator, provenance : Provenance]

Relationship == {"owner", "shared", "non_owner", "unspecified"}
ExpectedAccess == {"allowed", "denied", "unspecified"}

\* Only the first and the third have a writer.
AssertionProvenance == {"human_verified", "target_fixture", "observed_baseline", "inferred_candidate"}

\* A row of resource_access_assertions: at is asserted_at, source the run an
\* observation came from and reviewed the candidate a review is about.
Assertion ==
  [resource : Resource, identity : Identity, relationship : Relationship, access : ExpectedAccess,
   provenance : AssertionProvenance, state : {"candidate", "verified", "rejected"},
   window : Window, at : 0..MaxTime, source : Nat, reviewed : Nat]

Always == [from |-> 0, until |-> MaxTime + 1]
NoTx == [kind |-> "none"]

FactInit ==
  /\ now = 0 /\ binding = [k \in BindingKey |-> None] /\ assertion = <<>>
  /\ tx = [o \in Operator |-> NoTx]

Tick == now < MaxTime /\ now' = now + 1 /\ UNCHANGED <<binding, assertion, tx>>

Rollback(o) ==
  /\ tx[o] # NoTx
  /\ tx' = [tx EXCEPT ![o] = NoTx]
  /\ UNCHANGED <<now, binding, assertion>>

-----------------------------------------------------------------------------
(* Resource bindings                                                       *)

BindingsAt(e, l) == {k \in BindingKey : k.endpoint = e /\ k.locator = l /\ binding[k] # None}

\* The endpoint's row is locked from the start of the transaction.
EndpointLocked(e) == \E o \in Operator : tx[o].kind \in {"infer", "bind"} /\ tx[o].endpoint = e

ImportUnlocked(e, declared) == ~EndpointLocked(e) /\ ImportEndpoint(e, declared)

\* A parameter, or a name in the path; body pointers need not be declared.
Declared(e, l) == LocationOf[l] = "body" \/ l \in endpoint[e] \/ l \in Template[e]

\* Mutant of BeginBinding: the endpoint's row is not locked.
BeginBindingUnlocked(o, e, l, state) ==
  /\ tx[o] = NoTx /\ endpoint[e] # None /\ Declared(e, l)
  /\ tx' = [tx EXCEPT ![o] = [kind |-> "bind", endpoint |-> e, locator |-> l, state |-> state]]
  /\ UNCHANGED <<now, binding, assertion>>

BeginBinding(o, e, l, state) ==
  /\ tx[o] = NoTx /\ endpoint[e] # None /\ ~EndpointLocked(e) /\ Declared(e, l)
  /\ tx' = [tx EXCEPT ![o] = [kind |-> "bind", endpoint |-> e, locator |-> l, state |-> state]]
  /\ UNCHANGED <<now, binding, assertion>>

\* A duplicate ends in the constraint's conflict.
CreateBinding(o) ==
  /\ tx[o].kind = "bind"
  /\ LET k == [endpoint |-> tx[o].endpoint, locator |-> tx[o].locator, provenance |-> "operator_supplied"] IN
       binding' = [binding EXCEPT ![k] = IF @ = None THEN tx[o].state ELSE @]
  /\ tx' = [tx EXCEPT ![o] = NoTx]
  /\ UNCHANGED <<now, assertion>>

\* The parameters that look like identifiers, in the query or named in the
\* path as well.
DeriveCandidates(e) == {l \in endpoint[e] \cap Identifier : LocationOf[l] = "query" \/ l \in Template[e]}

\* The pointers of the body's schema that do.
DeriveBodyCandidates(e) == {l \in endpoint[e] \cap Identifier : LocationOf[l] = "body"}

\* The locators that have no binding yet are read under the lock.
BeginInference(o, e, inBody) ==
  /\ tx[o] = NoTx /\ endpoint[e] # None /\ ~EndpointLocked(e)
  /\ LET new == {l \in IF inBody THEN DeriveBodyCandidates(e) ELSE DeriveCandidates(e) : BindingsAt(e, l) = {}} IN
       new # {} /\ tx' = [tx EXCEPT ![o] = [kind |-> "infer", endpoint |-> e, locators |-> new]]
  /\ UNCHANGED <<now, binding, assertion>>

InferBindings(o) ==
  /\ tx[o].kind = "infer"
  /\ binding' = [k \in BindingKey |->
       IF /\ k.endpoint = tx[o].endpoint /\ k.locator \in tx[o].locators
          /\ k.provenance = "openapi_inferred" /\ binding[k] = None
       THEN "candidate" ELSE binding[k]]
  /\ tx' = [tx EXCEPT ![o] = NoTx]
  /\ UNCHANGED <<now, assertion>>

\* Any state may follow any other.
ReviewBinding(k, state) ==
  /\ binding[k] \notin {None, state}
  /\ binding' = [binding EXCEPT ![k] = state]
  /\ UNCHANGED <<now, assertion, tx>>

\* select_bola_binding: asked of the endpoint as it is now.
Selectable(e, k) ==
  /\ endpoint[e] # None /\ k.endpoint = e
  /\ binding[k] = "confirmed"
  /\ \/ LocationOf[k.locator] = "path" /\ k.locator \in Template[e]
     \/ LocationOf[k.locator] = "query" /\ k.locator \in endpoint[e]

-----------------------------------------------------------------------------
(* Access assertions                                                       *)

\* A human's own assertion is verified at once.
BeginAssertion(o, r, i, relationship, access, window) ==
  /\ tx[o] = NoTx /\ resource[r] # None /\ i \in identity
  /\ relationship # "unspecified" \/ access # "unspecified"
  /\ tx' = [tx EXCEPT ![o] = [kind |-> "assert", at |-> now, row |->
       [resource |-> r, identity |-> i, relationship |-> relationship, access |-> access,
        provenance |-> "human_verified", state |-> "verified", window |-> window, at |-> now,
        source |-> 0, reviewed |-> 0]]]
  /\ UNCHANGED <<now, binding, assertion>>

\* load_eligible_source
EligibleSource(k) ==
  /\ TestType(run[k].case) = "owner_baseline"
  /\ run[k].status # None
  /\ run[k].status \in 200..299 /\ run[k].status \in ExpectedStatuses(run[k].case)

Observed(k, at) ==
  [resource |-> run[k].case.resource, identity |-> run[k].case.actor, relationship |-> "unspecified",
   access |-> "allowed", provenance |-> "observed_baseline", state |-> "candidate", window |-> Always,
   at |-> at, source |-> k, reviewed |-> 0]

BeginDerivation(o, k) ==
  /\ tx[o] = NoTx /\ EligibleSource(k)
  /\ tx' = [tx EXCEPT ![o] = [kind |-> "derive", at |-> now, row |-> Observed(k, now)]]
  /\ UNCHANGED <<now, binding, assertion>>

Reviewable(a) == a.state = "candidate" /\ a.provenance \in {"observed_baseline", "inferred_candidate"}

Verdict(n, state, at) ==
  [assertion[n] EXCEPT !.provenance = "human_verified", !.state = state, !.at = at,
                       !.source = 0, !.reviewed = n]

\* The first statement, which asks for the resource, begins the transaction
\* and with it the instant of the row.
OpenReview(o, r) ==
  /\ tx[o] = NoTx /\ resource[r] # None
  /\ tx' = [tx EXCEPT ![o] = [kind |-> "open", at |-> now, resource |-> r]]
  /\ UNCHANGED <<now, binding, assertion>>

\* The second reads and locks the candidate, which may be younger.
BeginReview(o, n, decision) ==
  /\ tx[o].kind = "open" /\ assertion[n].resource = tx[o].resource /\ Reviewable(assertion[n])
  /\ tx' = [tx EXCEPT ![o] = [kind |-> "review", at |-> tx[o].at,
       row |-> Verdict(n, IF decision = "verify" THEN "verified" ELSE "rejected", tx[o].at)]]
  /\ UNCHANGED <<now, binding, assertion>>

\* What the request finds when it has the lock: the row of an earlier one,
\* which it returns or conflicts with, and adds nothing.
Earlier(row) ==
  \E n \in DOMAIN assertion :
    \/ row.source # 0 /\ assertion[n].source = row.source
    \/ row.reviewed # 0 /\ assertion[n].reviewed = row.reviewed

CommitAssertion(o) ==
  /\ tx[o].kind \in {"assert", "derive", "review"}
  /\ Len(assertion) < MaxAssertions
  /\ assertion' = IF Earlier(tx[o].row) THEN assertion ELSE Append(assertion, tx[o].row)
  /\ tx' = [tx EXCEPT ![o] = NoTx]
  /\ UNCHANGED <<now, binding>>

-----------------------------------------------------------------------------
(* resolve_resource_access and plan_bola_matrix                            *)

\* Mutant of Eligible: the instant of the assertion is not compared.
EligibleAnyTime(r, i, t) ==
  {n \in DOMAIN assertion :
     LET a == assertion[n] IN
     /\ a.resource = r /\ a.identity = i /\ a.state = "verified"
     /\ a.window.from <= t /\ t < a.window.until}

Eligible(r, i, t) ==
  {n \in DOMAIN assertion :
     LET a == assertion[n] IN
     /\ a.resource = r /\ a.identity = i /\ a.state = "verified"
     /\ a.at <= t /\ a.window.from <= t /\ t < a.window.until}

Only(values) == IF Cardinality(values) = 1 THEN CHOOSE v \in values : TRUE ELSE "unspecified"

\* Mutant of Resolution: two contrary accesses leave the relationship, and
\* with it a resolved fact.
ResolutionByRelationship(rows, relationships, accesses) ==
  [state |-> IF Cardinality(relationships) > 1 THEN "conflict"
             ELSE IF relationships = {} /\ accesses = {} THEN "insufficient" ELSE "resolved",
   relationship |-> Only(relationships),
   access |-> IF "allowed" \in accesses THEN "allowed" ELSE Only(accesses), support |-> rows]

Resolution(rows, relationships, accesses) ==
  [state |-> IF Cardinality(relationships) > 1 \/ Cardinality(accesses) > 1 THEN "conflict"
             ELSE IF relationships = {} /\ accesses = {} THEN "insufficient" ELSE "resolved",
   relationship |-> Only(relationships), access |-> Only(accesses), support |-> rows]

ResolveAccess(r, i, t) ==
  LET rows == Eligible(r, i, t) IN
  IF Cardinality(rows) > MaxScanned
  THEN [state |-> "refused", relationship |-> "unspecified", access |-> "unspecified", support |-> {}]
  ELSE Resolution(rows, {assertion[n].relationship : n \in rows} \ {"unspecified"},
                        {assertion[n].access : n \in rows} \ {"unspecified"})

CandidateKind(i, fact) ==
  IF fact.state # "resolved" \/ fact.access = "unspecified" THEN None
  ELSE IF AuthType[i] = "anonymous" THEN "anonymous_access"
  ELSE IF fact.relationship = "owner" THEN "owner_access"
  ELSE IF fact.relationship = "shared" THEN "shared_access"
  ELSE IF fact.relationship = "non_owner" THEN "cross_subject_access" ELSE None

\* preview_bola_matrix: a fact over the limit refuses the whole preview.
MatrixCandidates(e, r, ids, t) ==
  LET fact == [i \in ids |-> ResolveAccess(r, i, t)] IN
  IF \/ endpoint[e] = None \/ resource[r] = None \/ ~(ids \subseteq identity)
     \/ \E i \in ids : fact[i].state = "refused"
  THEN {}
  ELSE {[identity |-> i, kind |-> CandidateKind(i, fact[i]), access |-> fact[i].access] :
          i \in {j \in ids : CandidateKind(j, fact[j]) # None}}

\* preview_bola_binding_matrix: one slot has one of the proposed bindings.
BindingPreview(e, proposed, ids, t) ==
  LET keys == DOMAIN proposed
      valid == /\ keys # {} /\ \A k \in keys : Selectable(e, k)
               /\ \A k, m \in keys : k # m => k.locator # m.locator
  IN  IF valid THEN [k \in keys |-> MatrixCandidates(e, proposed[k], ids, t)] ELSE [k \in {} |-> {}]

BindingNext ==
  \/ \E o \in Operator :
       \/ Rollback(o) \/ CreateBinding(o) \/ InferBindings(o)
       \/ \E e \in Endpoint :
            \/ \E l \in Locator, s \in ReviewState : BeginBinding(o, e, l, s)
            \/ \E inBody \in BOOLEAN : BeginInference(o, e, inBody)
  \/ \E k \in BindingKey, s \in ReviewState : ReviewBinding(k, s)

AssertionNext ==
  \/ Tick
  \/ \E o \in Operator :
       \/ Rollback(o) \/ CommitAssertion(o)
       \/ \E r \in Resource, i \in Identity, p \in Relationship, a \in ExpectedAccess, w \in Window :
            BeginAssertion(o, r, i, p, a, w)
       \/ \E k \in DOMAIN run : BeginDerivation(o, k)
       \/ \E r \in Resource : OpenReview(o, r)
       \/ \E n \in DOMAIN assertion, d \in {"verify", "reject"} : BeginReview(o, n, d)

-----------------------------------------------------------------------------
FactTypeOK ==
  /\ now \in 0..MaxTime /\ binding \in [BindingKey -> ReviewState \cup {None}]
  /\ \A n \in DOMAIN assertion : assertion[n] \in Assertion

\* An inferred binding never appears for a locator on which an operator has
\* ruled: inference and the operator's own creation, each of which reads and
\* then writes, exclude each other through the endpoint's row.
InferenceYields ==
  [][\A k \in BindingKey :
       k.provenance = "openapi_inferred" /\ binding[k] = None /\ binding'[k] # None
         => binding[[k EXCEPT !.provenance = "operator_supplied"]] = None]_<<binding>>

\* Instants that no open transaction will stamp on a row it has yet to show.
Settled(t) == t < now /\ \A o \in Operator : tx[o].kind \in {"open", "assert", "derive", "review"} => t < tx[o].at

\* The past settles: what the resolution says of an instant never changes
\* once the instant is over and the transactions that had begun by then have
\* ended.  Later assertions, reviews and rejections do not reach back.
PastSettles ==
  [][\A r \in Resource, i \in Identity, t \in 0..MaxTime :
       Settled(t) => ResolveAccess(r, i, t)' = ResolveAccess(r, i, t)]_<<assertion>>

\* What humans have vouched for at an instant: their own assertions, and the
\* candidates they verified.  An observed baseline alone vouches for nothing.
Vouched(r, i, t) ==
  {a \in {assertion[n] : n \in DOMAIN assertion} :
     /\ a.resource = r /\ a.identity = i /\ a.at <= t /\ a.window.from <= t /\ t < a.window.until
     /\ \/ a.reviewed = 0 /\ a.provenance = "human_verified"
        \/ a.reviewed # 0 /\ a.state = "verified" /\ assertion[a.reviewed].provenance = "observed_baseline"}

\* The preview offers a candidate only for an access a human vouched for,
\* and which no other human contradicts at that instant, be it in what is
\* expected or in who the identity is to the resource.
PreviewVouched ==
  \A e \in Endpoint : \A k \in {m \in BindingKey : Selectable(e, m)} :
  \A r \in Resource : \A i \in identity : \A t \in 0..MaxTime :
    LET vouched == Vouched(r, i, t) IN
    \A c \in BindingPreview(e, [m \in {k} |-> r], {i}, t)[k] :
      /\ \E a \in vouched : a.access = c.access
      /\ \A a \in vouched : a.access \in {c.access, "unspecified"}
      /\ \A a, b \in vouched :
           "unspecified" \notin {a.relationship, b.relationship} => a.relationship = b.relationship
=============================================================================
