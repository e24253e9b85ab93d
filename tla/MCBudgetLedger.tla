--------------------------- MODULE MCBudgetLedger ---------------------------
(***************************************************************************)
(* Instance of BudgetLedger for TLC.                                       *)
(***************************************************************************)
EXTENDS BudgetLedger

\* Calls and tasks are interchangeable: no property names one.
Symmetry == Permutations(Call) \cup Permutations(Task)

\* A usage below the reservation, one above it (with the second call's
\* reservation the account exceeds its cap), one whose terminal state proves
\* nothing, one whose count is not known, and one whose cost no column holds.
Finals ==
  {[usage |-> "known", n |-> 1, proved |-> TRUE],
   [usage |-> "known", n |-> 4, proved |-> TRUE],
   [usage |-> "known", n |-> 1, proved |-> FALSE],
   [usage |-> "unknown", n |-> 0, proved |-> TRUE],
   [usage |-> "overflow", n |-> 0, proved |-> TRUE]}

Reserving == {c \in Call : row[c] # NoRow}
Usages(c) == {k \in DOMAIN inventory[c] : inventory[c][k].kind \in {"FINAL", "CONFLICT"}}

Of(kinds) == \A c \in Call : \A k \in Usages(c) : <<inventory[c][k].usage, inventory[c][k].proved>> \in kinds

\* One call with its recovery and a producer that contradicts itself, or with
\* one that reports once and loses its coverage.
Alone ==
  /\ \A c, d \in Call : task[c] = task[d]
  /\ Of({<<"known", TRUE>>, <<"overflow", TRUE>>})
  /\ coverage \/ Reported <= 1

\* Two calls that compete, with one report between them; of two tasks,
\* evidence that proves nothing, and resume_budgets, too.  A cancelled call
\* has no report yet.
Together ==
  /\ coverage /\ Reported <= 1 /\ \A c \in Call : row[c].gen = 1 /\ rec[c].gen = 1
  /\ \A c \in Call : row[c].cancelled => Reports(c) = 0
  /\ \/ \A c, d \in Call : c # d => task[c] # task[d]
     \/ Of({<<"known", TRUE>>}) /\ resume = NoResume
  /\ Of({<<"known", TRUE>>, <<"known", FALSE>>, <<"unknown", TRUE>>})

Regimes == IF Cardinality(Reserving) <= 1 THEN Alone \/ Together ELSE Together
=============================================================================
