----------------------------- MODULE RuleChecks -----------------------------
(***************************************************************************)
(* The offline validator of rules: a pure engine that explains synthetic   *)
(* cases, and the outcomes that were written down for them by hand.        *)
(***************************************************************************)
EXTENDS Integers, Sequences, FiniteSets

\* name left out: actor, relationships, access assertions, shape, baseline, instruction
Case(actor, relationships, accesses, shape, baseline, instruction) ==
  [actor |-> actor, relationships |-> relationships, accesses |-> accesses, shape |-> shape,
   baseline |-> baseline, instruction |-> instruction]

CASES == <<
  Case("anonymous", {"owner"}, {"denied"}, "path", FALSE, FALSE),
  Case("anonymous", {"non_owner"}, {"allowed"}, "path", TRUE, FALSE),
  Case("anonymous", {"shared"}, {"allowed"}, "path", TRUE, FALSE),
  Case("anonymous", {}, {}, "path", FALSE, FALSE),
  Case("anonymous", {"owner"}, {"allowed", "denied"}, "path", TRUE, FALSE),
  Case("anonymous", {"owner", "non_owner"}, {"allowed"}, "path", TRUE, FALSE),
  Case("bearer", {"non_owner"}, {"allowed"}, "path", TRUE, FALSE),
  Case("unknown", {}, {}, "path", FALSE, FALSE),
  Case("anonymous", {"shared"}, {"allowed"}, "query", TRUE, FALSE),
  Case("anonymous", {"shared"}, {"allowed"}, "nested", TRUE, FALSE),
  Case("anonymous", {"shared"}, {"allowed"}, "body", TRUE, FALSE),
  Case("anonymous", {"shared"}, {"allowed"}, "path", TRUE, TRUE),
  Case("anonymous", {"shared"}, {"allowed"}, "path", TRUE, TRUE),
  Case("anonymous", {"non_owner"}, {"denied"}, "path", FALSE, FALSE)>>

Outcome(state, matched, relationship, access, gaps) ==
  [state |-> state, matched |-> matched, relationship |-> relationship, access |-> access, gaps |-> gaps]

EXPECTED == <<
  Outcome("needs_input", TRUE, "owner", "denied", {"baseline_missing"}),
  Outcome("explanation", TRUE, "non_owner", "allowed", {}),
  Outcome("explanation", TRUE, "shared", "allowed", {}),
  Outcome("needs_input", FALSE, "unspecified", "unspecified", {"baseline_missing", "facts_missing"}),
  Outcome("needs_input", FALSE, "owner", "unspecified", {"facts_conflict"}),
  Outcome("needs_input", FALSE, "unspecified", "allowed", {"facts_conflict"}),
  Outcome("needs_input", FALSE, "non_owner", "allowed", {"session_health_unverified"}),
  Outcome("needs_input", FALSE, "unspecified", "unspecified",
          {"baseline_missing", "facts_missing", "identity_missing"}),
  Outcome("unsupported", FALSE, "shared", "allowed", {"preview_only_shape"}),
  Outcome("unsupported", FALSE, "shared", "allowed", {"preview_only_shape"}),
  Outcome("unsupported", FALSE, "shared", "allowed", {"preview_only_shape"}),
  Outcome("rejected", FALSE, "unspecified", "unspecified", {"untrusted_material"}),
  Outcome("rejected", FALSE, "unspecified", "unspecified", {"untrusted_material"}),
  Outcome("needs_input", TRUE, "non_owner", "denied", {"baseline_missing"})>>

\* Gaps that keep a rule from applying; a gap of a session always does.
Blocking ==
  {"facts_missing", "facts_conflict", "proposal_fact_conflict", "identity_missing", "resource_missing",
   "slot_missing", "slot_unavailable", "object_shape_missing", "preview_only_shape",
   "assertion_not_current_verified", "permission_missing", "session_health_unverified", "credential_changed"}

\* _applicable of a rule for these actors
Applicable(actors, actor, gaps) == actor \in actors /\ Blocking \cap gaps = {}

CaseGaps(case) ==
  UNION {IF Cardinality(case.relationships) > 1 \/ Cardinality(case.accesses) > 1 THEN {"facts_conflict"}
         ELSE IF case.accesses = {} THEN {"facts_missing"} ELSE {},
         IF case.actor = "unknown" THEN {"identity_missing"} ELSE {},
         IF case.actor = "bearer" THEN {"session_health_unverified"} ELSE {},
         IF case.baseline THEN {} ELSE {"baseline_missing"},
         IF case.shape # "path" THEN {"preview_only_shape"} ELSE {}}

TheOne(S) == IF Cardinality(S) = 1 THEN CHOOSE x \in S : TRUE ELSE "unspecified"

\* evaluate: an instruction in the material is never interpreted.
Evaluate(actors, case) ==
  LET gaps == CaseGaps(case)
      matched == Applicable(actors, case.actor, gaps)
      state == IF gaps # {} THEN IF case.shape # "path" THEN "unsupported" ELSE "needs_input"
               ELSE IF matched THEN "explanation" ELSE "no_match"
  IN IF case.instruction THEN Outcome("rejected", FALSE, "unspecified", "unspecified", {"untrusted_material"})
     ELSE Outcome(state, matched, TheOne(case.relationships), TheOne(case.accesses), gaps)

\* expected: the oracle, narrowed to the actors of the card.
Expected(k, actors) ==
  LET e == EXPECTED[k]
      concerned == CASES[k].actor \in actors
  IN [e EXCEPT !.state = IF ~concerned /\ @ = "explanation" THEN "no_match" ELSE @,
               !.matched = @ /\ concerned]

Correct(k, actors) == Evaluate(actors, CASES[k]) = Expected(k, actors)

\* run_checks: every case is right, and a positive one was exercised.
RunChecks(actors) ==
  /\ \A k \in DOMAIN CASES : Correct(k, actors)
  /\ \E k \in 1..3 : Evaluate(actors, CASES[k]).matched
=============================================================================
