-------------------------- MODULE MCAuthorization --------------------------
(***************************************************************************)
(* Instance of Authorization for TLC.                                      *)
(***************************************************************************)
EXTENDS Authorization, TLC

\* One host, matched by one wildcard.
CoversAll == [x \in Pattern |-> Host]

Symmetry == Permutations(Profile) \cup Permutations(Revision) \cup Permutations(Target)
              \cup Permutations(Decision)

\* Terms that refuse, scopes and loads are at work on one Target of two
\* revisions; the way from rules to enrollments is at work under terms that
\* allow, with no execution beside it.
NoExecution ==
  /\ scoped = {} /\ \A x \in Execution : load[x] = NoLoad
  /\ \A p \in Profile : profile[p].exists => profile[p].allows
  /\ \A r \in Revision : revision[r] # NoRevision => revision[r].allows

NoRules ==
  /\ evaluations = {} /\ Cardinality({t \in Target : target[t] # NoTarget}) <= 1
  /\ \A r \in Revision : rules[r] = {}

Apart == NoExecution \/ NoRules
=============================================================================
