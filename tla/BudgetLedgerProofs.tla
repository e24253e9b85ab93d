------------------------- MODULE BudgetLedgerProofs -------------------------
(***************************************************************************)
(* Theorems about BudgetLedger, for any number of calls and tasks, any     *)
(* caps, reservations and reports, and any number of recoveries.           *)
(*                                                                         *)
(* The argument: whatever a transaction does, it does to a working copy of *)
(* the call's row and its two balances.  Core says what every change of    *)
(* the copy keeps (the row and the balances change by the same amounts),   *)
(* Calm what holds again whenever the copy is stored (a balance that goes  *)
(* on is within its cap, one with a doubtful call has stopped).  Loops     *)
(* over observations keep both, and a sum over calls changes by what the   *)
(* one call changes.                                                       *)
(***************************************************************************)
EXTENDS BudgetLedger, FiniteSetTheorems, WellFoundedInduction, TLAPS

-----------------------------------------------------------------------------
(* The inductive invariant                                                 *)

BalanceRow ==
  [settled : 0 .. MaxN, held : 0 .. MaxN, calls : 0 .. CallCap, state : {"ACTIVE", "PAUSED_UNKNOWN", "CANCELLED"}]

RowField ==
  {"state", "held", "actual", "revision", "gen", "closed", "cancelled", "seen", "open", "prefix", "used"}

IsRow(r) == r = [f \in RowField |-> r[f]]

\* The shape of a reservation's row.
RowOK(r) ==
  /\ IsRow(r)
  /\ r.state \in {"NONE", "RESERVED", "ADMITTED", "SEND_INTENT", "IN_DOUBT", "SETTLED", "CONFLICT"}
  /\ r.held \in 0 .. MaxN /\ r.actual \in 0 .. MaxN /\ r.revision \in Nat /\ r.gen \in 1 .. MaxGen
  /\ r.closed \in BOOLEAN /\ r.cancelled \in BOOLEAN
  /\ r.seen \subseteq Tag /\ r.open \subseteq r.seen /\ r.prefix \in Nat /\ r.used \subseteq 2 .. MaxGen

\* An observation; the ones that may settle a call carry a usage.
Obs ==
  {o \in [kind : {"FINAL", "CONFLICT", "WRITE", "CLOSED", "ZERO"},
          usage : {"known", "unknown", "overflow", "none"}, n : Nat, proved : BOOLEAN] :
     o.kind \in {"FINAL", "ZERO"} => o.usage # "none"}
EndpointRow == [known : BOOLEAN, marked : BOOLEAN, accepted : BOOLEAN, closed : BOOLEAN]
RecRow == [pc : {"idle", "read", "post", "done"}, n : Nat, gen : 1 .. MaxGen]

LedgerType ==
  /\ task \in [Call -> Task]
  /\ balance \in [Balance -> BalanceRow]
  /\ row = [c \in Call |-> row[c]] /\ \A c \in Call : RowOK(row[c])

ProducerType ==
  /\ admission \in [Call -> {"none", "open", "closed"}]
  /\ endpoint \in [Call -> EndpointRow] /\ coverage \in BOOLEAN
  /\ inventory \in [Call -> Seq(Obs)]
  /\ rec \in [Call -> RecRow]
  /\ resume \in [on : BOOLEAN, rows : SUBSET Call]

\* Evidence and reconciliations are of calls that are reserved, and cover
\* what the inventory has.
EvidenceInv ==
  \A c \in Call :
    /\ endpoint[c].known \/ endpoint[c].marked \/ endpoint[c].accepted => row[c].state # "NONE"
    /\ inventory[c] # <<>> \/ rec[c].pc # "idle" => row[c].state # "NONE"
    /\ rec[c].n <= Len(inventory[c]) /\ row[c].prefix <= Len(inventory[c])

\* A call that was never settled holds its reservation.
HoldInv ==
  \A c \in Call :
    /\ row[c].state # "NONE" /\ row[c].revision = 0 => row[c].held >= Reserved
    /\ row[c].state = "SETTLED" => row[c].revision > 0
    /\ row[c].revision > 0 => row[c].state # "NONE"

FreezeInv ==
  \A c \in Call :
    row[c].state \in {"IN_DOUBT", "CONFLICT"} => \A b \in BalancesOf(c) : balance[b].state # "ACTIVE"

\* The inductive invariant.
IInv ==
  /\ LedgerType /\ ProducerType /\ EvidenceInv /\ HoldInv /\ FreezeInv
  /\ Conservation /\ ActiveWithinCap

-----------------------------------------------------------------------------
(* Sums over calls                                                         *)

Pick(s) == CHOOSE x \in s : TRUE

\* g sums f over the subsets of S, in the order in which elements are picked.
IsSum(g, f, S) == g = [s \in SUBSET S |-> IF s = {} THEN 0 ELSE f[Pick(s)] + g[s \ {Pick(s)}]]

LEMMA NatSets ==
  ASSUME NEW T, 0 \in T, \A n \in Nat : n \in T => n + 1 \in T
  PROVE  \A n \in Nat : n \in T
<1> DEFINE Bad == Nat \ T
<1>1. ASSUME Bad # {} PROVE FALSE
  <2>1. PICK x \in Bad : \A y \in Bad : ~(<<y, x>> \in OpToRel(<, Nat))
    BY <1>1, WFMin, NatLessThanWellFounded
  <2>2. \A y \in Bad : ~(y < x)
    BY <2>1 DEF OpToRel
  <2>3. x \in Nat /\ x # 0 /\ x \notin T
    BY <2>1
  <2>4. x - 1 \in Nat /\ x - 1 < x
    BY <2>3
  <2>5. x - 1 \in T
    BY <2>2, <2>4
  <2> QED
    BY <2>3, <2>4, <2>5
<1> QED
  BY <1>1

\* What is inherited from the smaller subsets holds of every subset.
LEMMA SubsetInduction ==
  ASSUME NEW S, IsFiniteSet(S), NEW T,
         \A s \in SUBSET S : (\A t \in SUBSET S : t \subseteq s /\ t # s => t \in T) => s \in T
  PROVE  \A s \in SUBSET S : s \in T
<1> DEFINE Bad == (SUBSET S) \ T
<1>1. ASSUME Bad # {} PROVE FALSE
  <2>1. Bad \subseteq FiniteSubsetsOf(S)
    BY FS_Subset DEF FiniteSubsetsOf
  <2>2. IsWellFoundedOn(StrictSubsetOrdering(S), FiniteSubsetsOf(S))
    BY FS_StrictSubsetOrderingWellFounded
  <2> HIDE DEF Bad
  <2>3. PICK s \in Bad : \A t \in Bad : ~(<<t, s>> \in StrictSubsetOrdering(S))
    BY <1>1, <2>1, <2>2, WFMin
  <2>4. s \in SUBSET S /\ s \notin T
    BY DEF Bad
  <2>5. ASSUME NEW t \in SUBSET S, t \subseteq s, t # s, t \notin T PROVE FALSE
    <3>1. t \in Bad
      BY <2>5 DEF Bad
    <3>2. <<t, s>> \in StrictSubsetOrdering(S)
      BY <2>4, <2>5 DEF StrictSubsetOrdering
    <3> QED
      BY <2>3, <3>1, <3>2
  <2> QED
    BY <2>4, <2>5
<1> QED
  BY <1>1

LEMMA PickIn ==
  ASSUME NEW s, s # {}
  PROVE  Pick(s) \in s
BY DEF Pick

\* Every function has its sums.
LEMMA SumExists ==
  ASSUME NEW S, IsFiniteSet(S), NEW f
  PROVE  \E g : IsSum(g, f, S)
<1> DEFINE Upto(k) == {s \in SUBSET S : Cardinality(s) <= k}
           Step(g, s) == IF s = {} THEN 0 ELSE f[Pick(s)] + g[s \ {Pick(s)}]
           T == {k \in Nat : \E g : g = [s \in Upto(k) |-> Step(g, s)]}
<1>1. \A s \in SUBSET S : IsFiniteSet(s) /\ Cardinality(s) \in Nat /\ (Cardinality(s) = 0 <=> s = {})
  BY FS_Subset, FS_CardinalityType, FS_EmptySet
<1>2. \A s \in SUBSET S : s # {} => s \ {Pick(s)} \in SUBSET S /\ Cardinality(s \ {Pick(s)}) = Cardinality(s) - 1
  BY <1>1, PickIn, FS_RemoveElement
<1>3. 0 \in T
  <2> DEFINE g == [s \in Upto(0) |-> 0]
  <2>1. \A s \in Upto(0) : s = {}
    BY <1>1
  <2>2. g = [s \in Upto(0) |-> Step(g, s)]
    BY <2>1
  <2> QED
    BY <2>2
<1>4. ASSUME NEW k \in Nat, k \in T PROVE k + 1 \in T
  <2>1. PICK g : g = [s \in Upto(k) |-> Step(g, s)]
    BY <1>4
  <2> DEFINE h == [s \in Upto(k + 1) |-> IF s \in Upto(k) THEN g[s] ELSE Step(g, s)]
  <2>2. ASSUME NEW s \in Upto(k + 1) PROVE h[s] = Step(h, s)
    <3>1. h[s] = Step(g, s)
      BY <2>1
    <3>2. CASE s = {}
      BY <3>1, <3>2
    <3>3. CASE s # {}
      <4>1. s \ {Pick(s)} \in Upto(k) /\ s \ {Pick(s)} \in Upto(k + 1)
        BY <1>1, <1>2, <3>3
      <4>2. h[s \ {Pick(s)}] = g[s \ {Pick(s)}]
        BY <4>1
      <4> QED
        BY <3>1, <3>3, <4>2
    <3> QED
      BY <3>2, <3>3
  <2>3. h = [s \in Upto(k + 1) |-> Step(h, s)]
    <3> HIDE DEF Step
    <3> QED
      BY <2>2
  <2>4. \E g1 : g1 = [s \in Upto(k + 1) |-> Step(g1, s)]
    <3> HIDE DEF Step, h, Upto
    <3> QED
      BY <2>3
  <2>5. k + 1 \in Nat
    OBVIOUS
  <2> HIDE DEF Step, Upto
  <2> QED
    BY <2>4, <2>5
<1>5. Cardinality(S) \in T
  <2> HIDE DEF T
  <2> QED
    BY <1>3, <1>4, NatSets, FS_CardinalityType
<1>6. PICK g : g = [s \in Upto(Cardinality(S)) |-> Step(g, s)]
  BY <1>5
<1>7. Upto(Cardinality(S)) = SUBSET S
  BY FS_Subset
<1> QED
  BY <1>6, <1>7 DEF IsSum

\* What the picked order does not change: sums are of natural numbers, any
\* element can be taken out, and only the summed values matter.
LEMMA SumFacts ==
  ASSUME NEW S, IsFiniteSet(S), NEW f, \A x \in S : f[x] \in Nat, NEW g, IsSum(g, f, S)
  PROVE  /\ \A s \in SUBSET S : g[s] \in Nat
         /\ \A s \in SUBSET S : \A x \in s : g[s] = f[x] + g[s \ {x}]
         /\ g[{}] = 0
<1>1. \A s \in SUBSET S : g[s] = IF s = {} THEN 0 ELSE f[Pick(s)] + g[s \ {Pick(s)}]
  BY DEF IsSum
<1>2. \A s \in SUBSET S : \A x \in s : s \ {x} \in SUBSET S /\ s \ {x} \subseteq s /\ s \ {x} # s
  OBVIOUS
<1>3. \A s \in SUBSET S : g[s] \in Nat
  <2> DEFINE T == {s \in SUBSET S : g[s] \in Nat}
  <2>1. ASSUME NEW s \in SUBSET S, \A t \in SUBSET S : t \subseteq s /\ t # s => t \in T
        PROVE  s \in T
    <3>1. CASE s = {}
      BY <1>1, <3>1
    <3>2. CASE s # {}
      <4>1. Pick(s) \in s
        BY <3>2, PickIn
      <4>2. PICK a \in Nat, b \in Nat : a = f[Pick(s)] /\ b = g[s \ {Pick(s)}]
        BY <1>2, <2>1, <4>1
      <4>3. g[s] = a + b
        BY <1>1, <3>2, <4>2
      <4> QED
        BY <4>3
    <3> QED
      BY <3>1, <3>2
  <2> HIDE DEF T
  <2>2. \A s \in SUBSET S : s \in T
    BY <2>1, SubsetInduction
  <2> QED
    BY <2>2 DEF T
<1>4. \A s \in SUBSET S : \A x \in s : g[s] = f[x] + g[s \ {x}]
  <2> DEFINE T == {s \in SUBSET S : \A x \in s : g[s] = f[x] + g[s \ {x}]}
  <2>1. ASSUME NEW s \in SUBSET S, \A t \in SUBSET S : t \subseteq s /\ t # s => t \in T
        PROVE  s \in T
    <3>1. ASSUME NEW x \in s PROVE g[s] = f[x] + g[s \ {x}]
      <4>1. PICK p : p = Pick(s)
        OBVIOUS
      <4>2. p \in s /\ g[s] = f[p] + g[s \ {p}]
        BY <1>1, <4>1, PickIn
      <4>3. CASE x = p
        BY <4>2, <4>3
      <4>4. CASE x # p
        <5>1. s \ {p} \in T /\ s \ {x} \in T
          BY <1>2, <2>1, <4>2
        <5>2. g[s \ {p}] = f[x] + g[(s \ {p}) \ {x}]
          BY <4>2, <4>4, <5>1
        <5>3. g[s \ {x}] = f[p] + g[(s \ {x}) \ {p}]
          BY <4>2, <4>4, <5>1
        <5>4. (s \ {p}) \ {x} = (s \ {x}) \ {p} /\ (s \ {p}) \ {x} \in SUBSET S
          OBVIOUS
        <5>5. PICK a \in Nat, b \in Nat, u \in Nat : a = g[(s \ {p}) \ {x}] /\ b = f[x] /\ u = f[p]
          BY <1>3, <4>2, <5>4
        <5>6. g[s \ {p}] = b + a /\ g[s \ {x}] = u + a
          BY <5>2, <5>3, <5>4, <5>5
        <5>7. g[s] = u + (b + a)
          BY <4>2, <5>5, <5>6
        <5>8. u + (b + a) = b + (u + a)
          OBVIOUS
        <5> QED
          BY <5>5, <5>6, <5>7, <5>8
      <4> QED
        BY <4>3, <4>4
    <3> QED
      BY <3>1
  <2> HIDE DEF T
  <2>2. \A s \in SUBSET S : s \in T
    BY <2>1, SubsetInduction
  <2> QED
    BY <2>2 DEF T
<1> QED
  BY <1>1, <1>3, <1>4

LEMMA SameSums ==
  ASSUME NEW S, IsFiniteSet(S), NEW S1, NEW S2, S \subseteq S1, S \subseteq S2,
         NEW f1, NEW f2, \A x \in S : f1[x] = f2[x],
         NEW g1, IsSum(g1, f1, S1), NEW g2, IsSum(g2, f2, S2)
  PROVE  g1[S] = g2[S]
<1> DEFINE T == {s \in SUBSET S : g1[s] = g2[s]}
<1>1. ASSUME NEW s \in SUBSET S, \A t \in SUBSET S : t \subseteq s /\ t # s => t \in T
      PROVE  s \in T
  <2>1. /\ g1[s] = IF s = {} THEN 0 ELSE f1[Pick(s)] + g1[s \ {Pick(s)}]
        /\ g2[s] = IF s = {} THEN 0 ELSE f2[Pick(s)] + g2[s \ {Pick(s)}]
    BY DEF IsSum
  <2>2. CASE s = {}
    BY <2>1, <2>2
  <2>3. CASE s # {}
    <3>1. Pick(s) \in s
      BY <2>3, PickIn
    <3>2. s \ {Pick(s)} \in T
      BY <1>1, <3>1
    <3> QED
      BY <2>1, <2>3, <3>1, <3>2
  <2> QED
    BY <2>2, <2>3
<1> HIDE DEF T
<1>2. \A s \in SUBSET S : s \in T
  BY <1>1, SubsetInduction
<1> QED
  BY <1>2 DEF T

\* The sum of f over S.
Total(f, S) == (CHOOSE g : IsSum(g, f, S))[S]

LEMMA TotalIs ==
  ASSUME NEW S, IsFiniteSet(S), NEW f, NEW g, IsSum(g, f, S)
  PROVE  Total(f, S) = g[S]
<1>1. IsSum(CHOOSE h : IsSum(h, f, S), f, S)
  OBVIOUS
<1>2. PICK h : h = CHOOSE k : IsSum(k, f, S)
  OBVIOUS
<1>3. h[S] = g[S]
  BY <1>1, <1>2, SameSums
<1> QED
  BY <1>2, <1>3 DEF Total

LEMMA TotalSame ==
  ASSUME NEW S, IsFiniteSet(S), NEW f1, NEW f2, \A x \in S : f1[x] = f2[x]
  PROVE  Total(f1, S) = Total(f2, S)
<1>1. PICK g1, g2 : IsSum(g1, f1, S) /\ IsSum(g2, f2, S)
  BY SumExists
<1>2. g1[S] = g2[S]
  BY <1>1, SameSums
<1> QED
  BY <1>1, <1>2, TotalIs

LEMMA TotalTake ==
  ASSUME NEW S, IsFiniteSet(S), NEW f, \A x \in S : f[x] \in Nat
  PROVE  /\ Total(f, S) \in Nat
         /\ \A c \in S : Total(f, S) = f[c] + Total(f, S \ {c}) /\ Total(f, S \ {c}) \in Nat
         /\ S = {} => Total(f, S) = 0
<1>1. PICK g : IsSum(g, f, S)
  BY SumExists
<1>2. /\ \A s \in SUBSET S : g[s] \in Nat
      /\ \A s \in SUBSET S : \A x \in s : g[s] = f[x] + g[s \ {x}]
      /\ g[{}] = 0
  BY <1>1, SumFacts
<1>3. Total(f, S) = g[S]
  BY <1>1, TotalIs
<1>4. ASSUME NEW c \in S PROVE Total(f, S \ {c}) = g[S \ {c}]
  <2>1. IsFiniteSet(S \ {c})
    BY FS_RemoveElement
  <2>2. PICK h : IsSum(h, f, S \ {c})
    BY <2>1, SumExists
  <2>3. h[S \ {c}] = g[S \ {c}]
    <3>1. PICK s : s = S \ {c}
      OBVIOUS
    <3>2. s \subseteq S /\ IsFiniteSet(s) /\ IsSum(h, f, s)
      BY <2>1, <2>2, <3>1
    <3> QED
      BY <1>1, <3>1, <3>2, SameSums
  <2> QED
    BY <2>1, <2>2, <2>3, TotalIs
<1> QED
  BY <1>2, <1>3, <1>4

\* The sums of the ledger, as functions of the rows.
SumHeld(r, S) == MapThenSumSet(LAMBDA c : r[c].held, S)
SumActual(r, S) == MapThenSumSet(LAMBDA c : r[c].actual, S)

LEMMA HeldIsTotal ==
  ASSUME NEW r, NEW S, IsFiniteSet(S)
  PROVE  SumHeld(r, S) = Total([c \in S |-> r[c].held], S)
<1> DEFINE f == [c \in S |-> r[c].held]
           P(g) == g = [s \in SUBSET S |-> IF s = {} THEN 0
                          ELSE r[CHOOSE x \in s : TRUE].held + g[s \ {CHOOSE x \in s : TRUE}]]
<1>1. SumHeld(r, S) = (CHOOSE g : P(g))[S]
  BY DEF SumHeld, MapThenSumSet, MapThenFoldSet
<1>2. ASSUME NEW g PROVE P(g) <=> IsSum(g, f, S)
  <2>1. \A s \in SUBSET S : s # {} => f[Pick(s)] = r[Pick(s)].held
    BY PickIn
  <2> HIDE DEF f
  <2>2. [s \in SUBSET S |-> IF s = {} THEN 0 ELSE f[Pick(s)] + g[s \ {Pick(s)}]]
        = [s \in SUBSET S |-> IF s = {} THEN 0 ELSE r[Pick(s)].held + g[s \ {Pick(s)}]]
    BY <2>1
  <2> QED
    BY <2>2 DEF IsSum, Pick
<1> HIDE DEF P, f
<1>3. \E g : P(g)
  BY <1>2, SumExists
<1>4. P(CHOOSE g : P(g))
  BY <1>3
<1>5. PICK g : g = CHOOSE h : P(h)
  OBVIOUS
<1>6. IsSum(g, f, S)
  BY <1>2, <1>4, <1>5
<1>7. Total(f, S) = g[S]
  BY <1>6, TotalIs
<1> QED
  BY <1>1, <1>5, <1>7 DEF f

LEMMA ActualIsTotal ==
  ASSUME NEW r, NEW S, IsFiniteSet(S)
  PROVE  SumActual(r, S) = Total([c \in S |-> r[c].actual], S)
<1> DEFINE f == [c \in S |-> r[c].actual]
           P(g) == g = [s \in SUBSET S |-> IF s = {} THEN 0
                          ELSE r[CHOOSE x \in s : TRUE].actual + g[s \ {CHOOSE x \in s : TRUE}]]
<1>1. SumActual(r, S) = (CHOOSE g : P(g))[S]
  BY DEF SumActual, MapThenSumSet, MapThenFoldSet
<1>2. ASSUME NEW g PROVE P(g) <=> IsSum(g, f, S)
  <2>1. \A s \in SUBSET S : s # {} => f[Pick(s)] = r[Pick(s)].actual
    BY PickIn
  <2> HIDE DEF f
  <2>2. [s \in SUBSET S |-> IF s = {} THEN 0 ELSE f[Pick(s)] + g[s \ {Pick(s)}]]
        = [s \in SUBSET S |-> IF s = {} THEN 0 ELSE r[Pick(s)].actual + g[s \ {Pick(s)}]]
    BY <2>1
  <2> QED
    BY <2>2 DEF IsSum, Pick
<1> HIDE DEF P, f
<1>3. \E g : P(g)
  BY <1>2, SumExists
<1>4. P(CHOOSE g : P(g))
  BY <1>3
<1>5. PICK g : g = CHOOSE h : P(h)
  OBVIOUS
<1>6. IsSum(g, f, S)
  BY <1>2, <1>4, <1>5
<1>7. Total(f, S) = g[S]
  BY <1>6, TotalIs
<1> QED
  BY <1>1, <1>5, <1>7 DEF f

\* One row changes: the sums change by what it changes.
OneRowChanges(r, q, S, c) ==
  /\ IsFiniteSet(S) /\ c \in S
  /\ \A x \in S : r[x].held \in Nat /\ r[x].actual \in Nat /\ q[x].held \in Nat /\ q[x].actual \in Nat
  /\ \A x \in S : x # c => q[x].held = r[x].held /\ q[x].actual = r[x].actual

LEMMA SumsChange ==
  ASSUME NEW r, NEW q, NEW S, NEW c, OneRowChanges(r, q, S, c)
  PROVE  /\ SumHeld(q, S) = SumHeld(r, S) + q[c].held - r[c].held
         /\ SumActual(q, S) = SumActual(r, S) + q[c].actual - r[c].actual
         /\ SumHeld(r, S) \in Nat /\ SumHeld(r, S) >= r[c].held
         /\ SumActual(r, S) \in Nat /\ SumActual(r, S) >= r[c].actual
<1> DEFINE fr == [x \in S |-> r[x].held]
           fq == [x \in S |-> q[x].held]
           ar == [x \in S |-> r[x].actual]
           aq == [x \in S |-> q[x].actual]
           S1 == S \ {c}
<1> USE DEF OneRowChanges
<1>1. IsFiniteSet(S) /\ IsFiniteSet(S1) /\ c \in S
  BY FS_RemoveElement
<1>2. /\ \A x \in S : fr[x] \in Nat /\ fq[x] \in Nat /\ ar[x] \in Nat /\ aq[x] \in Nat
      /\ \A x \in S1 : fr[x] = fq[x] /\ ar[x] = aq[x]
      /\ fr[c] = r[c].held /\ fq[c] = q[c].held /\ ar[c] = r[c].actual /\ aq[c] = q[c].actual
  OBVIOUS
<1> HIDE DEF fr, fq, ar, aq
<1>3. /\ Total(fr, S) = fr[c] + Total(fr, S1) /\ Total(fr, S1) \in Nat
      /\ Total(fq, S) = fq[c] + Total(fq, S1)
      /\ Total(ar, S) = ar[c] + Total(ar, S1) /\ Total(ar, S1) \in Nat
      /\ Total(aq, S) = aq[c] + Total(aq, S1)
  BY <1>1, <1>2, TotalTake
<1>4. Total(fr, S1) = Total(fq, S1) /\ Total(ar, S1) = Total(aq, S1)
  BY <1>1, <1>2, TotalSame
<1>5. /\ SumHeld(r, S) = Total(fr, S) /\ SumHeld(q, S) = Total(fq, S)
      /\ SumActual(r, S) = Total(ar, S) /\ SumActual(q, S) = Total(aq, S)
  BY <1>1, HeldIsTotal, ActualIsTotal DEF fr, fq, ar, aq
<1> HIDE DEF S1
<1>6. PICK a \in Nat, b \in Nat, u \in Nat, v \in Nat, x \in Nat, y \in Nat :
        a = fr[c] /\ b = fq[c] /\ u = ar[c] /\ v = aq[c] /\ x = Total(fr, S1) /\ y = Total(ar, S1)
  BY <1>2, <1>3
<1>7. /\ SumHeld(r, S) = a + x /\ SumHeld(q, S) = b + x
      /\ SumActual(r, S) = u + y /\ SumActual(q, S) = v + y
  BY <1>3, <1>4, <1>5, <1>6
<1>8. a = r[c].held /\ b = q[c].held /\ u = r[c].actual /\ v = q[c].actual
  BY <1>2, <1>6
<1>9. b + x = (a + x) + b - a /\ v + y = (u + y) + v - u /\ a + x \in Nat /\ a + x >= a /\ u + y \in Nat /\ u + y >= u
  OBVIOUS
<1> QED
  BY <1>7, <1>8, <1>9

\* A call is added.
OneRowJoins(r, q, S, c) ==
  /\ IsFiniteSet(S) /\ c \notin S
  /\ \A x \in S \cup {c} : q[x].held \in Nat /\ q[x].actual \in Nat
  /\ \A x \in S : q[x].held = r[x].held /\ q[x].actual = r[x].actual

LEMMA SumsGrow ==
  ASSUME NEW r, NEW q, NEW S, NEW c, OneRowJoins(r, q, S, c)
  PROVE  /\ SumHeld(q, S \cup {c}) = SumHeld(r, S) + q[c].held
         /\ SumActual(q, S \cup {c}) = SumActual(r, S) + q[c].actual
<1> DEFINE S1 == S \cup {c}
           fr == [x \in S |-> r[x].held]
           fq == [x \in S1 |-> q[x].held]
           ar == [x \in S |-> r[x].actual]
           aq == [x \in S1 |-> q[x].actual]
<1> USE DEF OneRowJoins
<1>1. IsFiniteSet(S) /\ IsFiniteSet(S1) /\ S1 \ {c} = S
  BY FS_AddElement
<1>2. /\ \A x \in S1 : fq[x] \in Nat /\ aq[x] \in Nat
      /\ \A x \in S : fr[x] = fq[x] /\ ar[x] = aq[x]
      /\ fq[c] = q[c].held /\ aq[c] = q[c].actual /\ c \in S1
  OBVIOUS
<1>3. /\ SumHeld(r, S) = Total(fr, S) /\ SumHeld(q, S1) = Total(fq, S1)
      /\ SumActual(r, S) = Total(ar, S) /\ SumActual(q, S1) = Total(aq, S1)
  BY <1>1, HeldIsTotal, ActualIsTotal
<1> HIDE DEF fr, fq, ar, aq, S1
<1>4. /\ Total(fq, S1) = fq[c] + Total(fq, S1 \ {c}) /\ Total(fq, S1 \ {c}) \in Nat
      /\ Total(aq, S1) = aq[c] + Total(aq, S1 \ {c}) /\ Total(aq, S1 \ {c}) \in Nat
  BY <1>1, <1>2, TotalTake
<1>5. Total(fr, S) = Total(fq, S) /\ Total(ar, S) = Total(aq, S)
  BY <1>1, <1>2, TotalSame
<1>6. PICK a \in Nat, b \in Nat, x \in Nat, y \in Nat :
        a = fq[c] /\ b = aq[c] /\ x = Total(fq, S) /\ y = Total(aq, S)
  BY <1>1, <1>2, <1>4
<1>7. /\ SumHeld(q, S1) = a + x /\ SumHeld(r, S) = x
      /\ SumActual(q, S1) = b + y /\ SumActual(r, S) = y
  BY <1>1, <1>3, <1>4, <1>5, <1>6
<1>8. SumHeld(q, S1) = SumHeld(r, S) + q[c].held /\ SumActual(q, S1) = SumActual(r, S) + q[c].actual
  BY <1>2, <1>6, <1>7
<1> QED
  BY <1>8 DEF S1

LEMMA SumsSame ==
  ASSUME NEW r, NEW q, NEW S, IsFiniteSet(S),
         \A x \in S : q[x].held = r[x].held /\ q[x].actual = r[x].actual
  PROVE  SumHeld(q, S) = SumHeld(r, S) /\ SumActual(q, S) = SumActual(r, S)
<1> DEFINE fr == [x \in S |-> r[x].held]
           fq == [x \in S |-> q[x].held]
           ar == [x \in S |-> r[x].actual]
           aq == [x \in S |-> q[x].actual]
<1>1. /\ SumHeld(r, S) = Total(fr, S) /\ SumHeld(q, S) = Total(fq, S)
      /\ SumActual(r, S) = Total(ar, S) /\ SumActual(q, S) = Total(aq, S)
  BY HeldIsTotal, ActualIsTotal
<1>2. \A x \in S : fr[x] = fq[x] /\ ar[x] = aq[x]
  OBVIOUS
<1> HIDE DEF fr, fq, ar, aq
<1>3. Total(fr, S) = Total(fq, S) /\ Total(ar, S) = Total(aq, S)
  BY <1>2, TotalSame
<1> QED
  BY <1>1, <1>3

-----------------------------------------------------------------------------
(* The working copy of a transaction                                       *)

WorkField == {"row", "account", "task", "blocked", "resolving", "found", "result", "failed"}
IsWork(w) == w = [f \in WorkField |-> w[f]]

\* The call's row and its two balances have changed by the same amounts.
Agrees(c, w) ==
  /\ w.account.held - w.row.held = balance[Account].held - row[c].held
  /\ w.task.held - w.row.held = balance[task[c]].held - row[c].held
  /\ w.account.settled - w.row.actual = balance[Account].settled - row[c].actual
  /\ w.task.settled - w.row.actual = balance[task[c]].settled - row[c].actual
  /\ w.account.held >= w.row.held /\ w.task.held >= w.row.held
  /\ w.account.settled >= w.row.actual /\ w.task.settled >= w.row.actual

\* Nothing starts again, and a call that was never settled holds its
\* reservation.
Keeps(c, w) ==
  /\ w.account.state = "ACTIVE" => balance[Account].state = "ACTIVE"
  /\ w.task.state = "ACTIVE" => balance[task[c]].state = "ACTIVE"
  /\ w.row.state # "NONE" /\ w.row.prefix <= Len(inventory[c])
  /\ w.row.revision = 0 => w.row.held >= Reserved
  /\ w.row.state = "SETTLED" => w.row.revision > 0

\* A settlement or a conflict changes only by a decision not used before.
Revises(c, w) ==
  /\ row[c].used \subseteq w.row.used
  /\ w.row.used # row[c].used => row[c].gen > 1
  /\ w.row.used = row[c].used =>
       /\ row[c].revision > 0 => w.row.revision = row[c].revision
       /\ row[c].state = "CONFLICT" => w.row.state = "CONFLICT"
  /\ w.resolving => rec[c].gen \notin w.row.used /\ rec[c].gen = row[c].gen /\ rec[c].gen > 1

\* What every change of the working copy keeps.
Core(c, w) ==
  /\ IsWork(w) /\ RowOK(w.row) /\ w.account \in BalanceRow /\ w.task \in BalanceRow
  /\ Agrees(c, w) /\ Keeps(c, w) /\ Revises(c, w)

\* What holds of the working copy whenever it is stored.
Calm(w) ==
  /\ w.account.state = "ACTIVE" => w.account.settled + w.account.held <= AccountCap
  /\ w.task.state = "ACTIVE" => w.task.settled + w.task.held <= TaskCap
  /\ w.row.state \in {"IN_DOUBT", "CONFLICT"} => w.account.state # "ACTIVE" /\ w.task.state # "ACTIVE"

\* The numbers of a working copy.
LEMMA CoreTypes ==
  ASSUME NEW c, NEW w, Core(c, w)
  PROVE  /\ w.row.held \in Nat /\ w.row.actual \in Nat /\ w.row.held <= MaxN /\ w.row.actual <= MaxN
         /\ w.account.held \in Nat /\ w.account.settled \in Nat /\ w.task.held \in Nat /\ w.task.settled \in Nat
         /\ w.account.held <= MaxN /\ w.account.settled <= MaxN /\ w.task.held <= MaxN /\ w.task.settled <= MaxN
         /\ MaxN \in Nat /\ Reserved \in Nat /\ w.row.revision \in Nat
BY LedgerAssumption DEF Core, RowOK, BalanceRow

\* The row's hold and the two balances' go up together.
WithHeld(w, h) ==
  [w EXCEPT !.row.held = h, !.account.held = @ + h - w.row.held, !.task.held = @ + h - w.row.held]

LEMMA WithHeldFields ==
  ASSUME NEW w, IsWork(w), IsRow(w.row), NEW h
  PROVE  LET v == WithHeld(w, h) IN
         /\ IsWork(v)
         /\ v.row = [w.row EXCEPT !.held = h]
         /\ v.account = [w.account EXCEPT !.held = @ + h - w.row.held]
         /\ v.task = [w.task EXCEPT !.held = @ + h - w.row.held]
         /\ v.blocked = w.blocked /\ v.resolving = w.resolving /\ v.found = w.found
         /\ v.result = w.result /\ v.failed = w.failed
BY DEF WithHeld, IsWork, WorkField

LEMMA WithHeldCore ==
  ASSUME NEW c, NEW w, Core(c, w), NEW h \in Nat, h >= w.row.held,
         w.account.held + h - w.row.held <= MaxN, w.task.held + h - w.row.held <= MaxN
  PROVE  Core(c, WithHeld(w, h))
<1>1. PICK v : v = WithHeld(w, h)
  OBVIOUS
<1>2. /\ IsWork(v)
      /\ v.row = [w.row EXCEPT !.held = h]
      /\ v.account = [w.account EXCEPT !.held = @ + h - w.row.held]
      /\ v.task = [w.task EXCEPT !.held = @ + h - w.row.held]
      /\ v.resolving = w.resolving
  BY <1>1, WithHeldFields DEF Core, RowOK
<1>3. h <= MaxN
  <2>1. w.account.held >= w.row.held
    BY DEF Core, Agrees
  <2> QED
    BY <2>1, CoreTypes
<1>4. /\ IsRow(v.row) /\ v.row.held = h /\ v.row.state = w.row.state /\ v.row.actual = w.row.actual
      /\ v.row.revision = w.row.revision /\ v.row.gen = w.row.gen /\ v.row.closed = w.row.closed
      /\ v.row.cancelled = w.row.cancelled /\ v.row.seen = w.row.seen /\ v.row.open = w.row.open
      /\ v.row.prefix = w.row.prefix /\ v.row.used = w.row.used
  BY <1>2 DEF Core, RowOK, IsRow, RowField
<1>5. RowOK(v.row)
  <2>1. h \in 0 .. MaxN
    BY <1>3, CoreTypes
  <2> QED
    BY <1>4, <2>1 DEF Core, RowOK
<1>6. /\ v.account \in BalanceRow /\ v.account.held = w.account.held + h - w.row.held
      /\ v.account.settled = w.account.settled /\ v.account.state = w.account.state
  <2>1. w.account.held + h - w.row.held \in 0 .. MaxN
    BY CoreTypes
  <2> QED
    BY <1>2, <2>1 DEF Core, BalanceRow
<1>7. /\ v.task \in BalanceRow /\ v.task.held = w.task.held + h - w.row.held
      /\ v.task.settled = w.task.settled /\ v.task.state = w.task.state
  <2>1. w.task.held + h - w.row.held \in 0 .. MaxN
    BY CoreTypes
  <2> QED
    BY <1>2, <2>1 DEF Core, BalanceRow
<1>8. Agrees(c, v)
  BY <1>4, <1>6, <1>7, CoreTypes DEF Core, Agrees
<1>9. Keeps(c, v)
  BY <1>4, <1>6, <1>7, CoreTypes DEF Core, Keeps
<1>10. Revises(c, v)
  BY <1>2, <1>4 DEF Core, Revises
<1> QED
  BY <1>1, <1>2, <1>5, <1>6, <1>7, <1>8, <1>9, <1>10 DEF Core

\* _retain never gives a hold back.
LEMMA RetainCore ==
  ASSUME NEW c, NEW w, Core(c, w), NEW e, e.usage = "known" => e.n \in Nat
  PROVE  /\ Core(c, Retain(w, e))
         /\ Retain(w, e).blocked = w.blocked /\ Retain(w, e).resolving = w.resolving
         /\ Retain(w, e).found = w.found /\ Retain(w, e).failed = w.failed
<1> DEFINE original == Larger(w.row.held, Reserved)
           wanted == IF e.usage = "known" THEN Larger(original, e.n - w.row.actual) ELSE original
           Fits(h) == \A b \in {w.account, w.task} : b.held + h - w.row.held <= MaxN
           held == IF Fits(wanted) THEN wanted ELSE IF Fits(original) THEN original ELSE w.row.held
<1>1. Retain(w, e) = WithHeld(w, held)
  BY DEF Retain, WithHeld
<1>2. original \in Nat /\ original >= w.row.held
  BY CoreTypes DEF Larger
<1>3. wanted \in Nat /\ wanted >= w.row.held
  <2> HIDE DEF original
  <2>1. e.usage = "known" => e.n - w.row.actual \in Int
    BY CoreTypes
  <2> QED
    BY <1>2, <2>1, CoreTypes DEF Larger
<1> HIDE DEF original, wanted
<1>4. /\ held \in Nat /\ held >= w.row.held
      /\ w.account.held + held - w.row.held <= MaxN /\ w.task.held + held - w.row.held <= MaxN
  <2>1. CASE Fits(wanted)
    BY <1>3, <2>1
  <2>2. CASE ~Fits(wanted) /\ Fits(original)
    BY <1>2, <2>2
  <2>3. CASE ~Fits(wanted) /\ ~Fits(original)
    BY <2>3, CoreTypes
  <2> QED
    BY <2>1, <2>2, <2>3
<1> HIDE DEF held
<1>5. Core(c, WithHeld(w, held))
  BY <1>4, WithHeldCore
<1>6. IsWork(w) /\ IsRow(w.row)
  BY DEF Core, RowOK
<1>7. PICK h : h = held
  OBVIOUS
<1>8. /\ WithHeld(w, h).blocked = w.blocked /\ WithHeld(w, h).resolving = w.resolving
      /\ WithHeld(w, h).found = w.found /\ WithHeld(w, h).failed = w.failed
  BY ONLY <1>6, WithHeldFields
<1> QED
  BY <1>1, <1>5, <1>7, <1>8

\* The flags of the loop say nothing of the ledger.
LEMMA FlagCore ==
  ASSUME NEW c, NEW w, Core(c, w), NEW v, IsWork(v), v.row = w.row, v.account = w.account, v.task = w.task,
         v.resolving => w.resolving
  PROVE  Core(c, v) /\ (Calm(w) => Calm(v))
BY DEF Core, Agrees, Keeps, Revises, Calm

\* Another state, evidence or flag of the row, with the same amounts.
LEMMA RowCore ==
  ASSUME NEW c, NEW w, Core(c, w), NEW v, IsWork(v), v.account = w.account, v.task = w.task, v.resolving = w.resolving,
         RowOK(v.row), v.row.held = w.row.held, v.row.actual = w.row.actual, v.row.revision = w.row.revision,
         v.row.prefix = w.row.prefix, v.row.used = w.row.used,
         \/ v.row.state = w.row.state
         \/ v.row.state = "IN_DOUBT" /\ w.row.state # "CONFLICT"
         \/ v.row.state = "CONFLICT"
  PROVE  Core(c, v)
BY DEF Core, Agrees, Keeps, Revises

\* _pause stops both balances.
LEMMA PauseCore ==
  ASSUME NEW c, NEW w, Core(c, w), NEW st \in {"IN_DOUBT", "CONFLICT"}
  PROVE  /\ Core(c, Pause(w, st)) /\ Calm(Pause(w, st))
         /\ Pause(w, st).resolving = w.resolving /\ Pause(w, st).blocked = w.blocked
         /\ Pause(w, st).found = w.found /\ Pause(w, st).failed = w.failed
<1>1. PICK v : v = Pause(w, st)
  OBVIOUS
<1>2. PICK s : s = IF w.row.state = "CONFLICT" THEN "CONFLICT" ELSE st
  OBVIOUS
<1>3. IsWork(w) /\ IsRow(w.row)
  BY DEF Core, RowOK
<1>4. /\ IsWork(v) /\ v.row = [w.row EXCEPT !.state = s]
      /\ v.account = [w.account EXCEPT !.state = Freeze(@)]
      /\ v.task = [w.task EXCEPT !.state = Freeze(@)]
      /\ v.resolving = w.resolving /\ v.blocked = w.blocked /\ v.found = w.found /\ v.failed = w.failed
  BY <1>1, <1>2, <1>3 DEF Pause, IsWork, WorkField
<1>5. /\ IsRow(v.row) /\ v.row.held = w.row.held /\ v.row.state = s /\ v.row.actual = w.row.actual
      /\ v.row.revision = w.row.revision /\ v.row.gen = w.row.gen /\ v.row.closed = w.row.closed
      /\ v.row.cancelled = w.row.cancelled /\ v.row.seen = w.row.seen /\ v.row.open = w.row.open
      /\ v.row.prefix = w.row.prefix /\ v.row.used = w.row.used
  BY <1>3, <1>4 DEF IsRow, RowField
<1>6. RowOK(v.row)
  BY <1>2, <1>5 DEF Core, RowOK
<1>7. Freeze(w.account.state) \in {"PAUSED_UNKNOWN", "CANCELLED"} /\ Freeze(w.task.state) \in {"PAUSED_UNKNOWN", "CANCELLED"}
  BY DEF Freeze
<1>8. /\ v.account \in BalanceRow /\ v.account.held = w.account.held /\ v.account.settled = w.account.settled
      /\ v.account.state # "ACTIVE"
  BY <1>4, <1>7 DEF Core, BalanceRow
<1>9. /\ v.task \in BalanceRow /\ v.task.held = w.task.held /\ v.task.settled = w.task.settled
      /\ v.task.state # "ACTIVE"
  BY <1>4, <1>7 DEF Core, BalanceRow
<1>10. Agrees(c, v)
  BY <1>5, <1>8, <1>9 DEF Core, Agrees
<1>11. Keeps(c, v)
  BY <1>2, <1>5, <1>8, <1>9 DEF Core, Keeps
<1>12. Revises(c, v)
  BY <1>2, <1>4, <1>5 DEF Core, Revises
<1>13. Core(c, v) /\ Calm(v)
  BY <1>4, <1>6, <1>8, <1>9, <1>10, <1>11, <1>12 DEF Core, Calm
<1> QED
  BY <1>1, <1>4, <1>13

LEMMA UnknownCore ==
  ASSUME NEW c, NEW w, Core(c, w)
  PROVE  Core(c, Unknown(w)) /\ Calm(Unknown(w))
<1>1. Plain("NONE").usage # "known"
  BY DEF Plain
<1>2. Core(c, Retain(w, Plain("NONE")))
  BY <1>1, RetainCore
<1> QED
  BY <1>2, PauseCore DEF Unknown

\* _conflict holds and stops, recorded before or not.
LEMMA ConflictCore ==
  ASSUME NEW c, NEW w, Core(c, w), NEW tag \in Tag, NEW e, e.usage = "known" => e.n \in Nat
  PROVE  /\ Core(c, Conflict(w, tag, e)) /\ Calm(Conflict(w, tag, e))
         /\ Conflict(w, tag, e).resolving = w.resolving /\ Conflict(w, tag, e).blocked = w.blocked
         /\ Conflict(w, tag, e).failed = w.failed
<1> DEFINE v == IF tag \in w.row.seen THEN w
                ELSE [w EXCEPT !.row.seen = @ \cup {tag}, !.row.open = @ \cup {tag}]
<1>1. PICK u : u = v
  OBVIOUS
<1>2. Conflict(w, tag, e) = Pause(Retain(u, e), "CONFLICT")
  BY <1>1 DEF Conflict
<1>3. Core(c, u) /\ u.resolving = w.resolving /\ u.blocked = w.blocked /\ u.failed = w.failed
  <2>1. CASE tag \in w.row.seen
    BY <1>1, <2>1
  <2>2. CASE tag \notin w.row.seen
    <3>1. IsWork(w) /\ IsRow(w.row)
      BY DEF Core, RowOK
    <3>2. /\ IsWork(u) /\ u.row = [w.row EXCEPT !.seen = @ \cup {tag}, !.open = @ \cup {tag}]
          /\ u.account = w.account /\ u.task = w.task
          /\ u.resolving = w.resolving /\ u.blocked = w.blocked /\ u.failed = w.failed
      BY <1>1, <2>2, <3>1 DEF IsWork, WorkField
    <3>3. /\ IsRow(u.row) /\ u.row.held = w.row.held /\ u.row.state = w.row.state /\ u.row.actual = w.row.actual
          /\ u.row.revision = w.row.revision /\ u.row.gen = w.row.gen /\ u.row.closed = w.row.closed
          /\ u.row.cancelled = w.row.cancelled
          /\ u.row.seen = w.row.seen \cup {tag} /\ u.row.open = w.row.open \cup {tag}
          /\ u.row.prefix = w.row.prefix /\ u.row.used = w.row.used
      BY <3>1, <3>2 DEF IsRow, RowField
    <3>4. RowOK(u.row)
      BY <3>3 DEF Core, RowOK
    <3> QED
      BY <3>2, <3>3, <3>4, RowCore
  <2> QED
    BY <2>1, <2>2
<1> HIDE DEF v
<1>4. /\ Core(c, Retain(u, e)) /\ Retain(u, e).resolving = w.resolving /\ Retain(u, e).blocked = w.blocked
      /\ Retain(u, e).failed = w.failed
  BY <1>3, RetainCore
<1> QED
  BY <1>2, <1>4, PauseCore

\* What a settlement makes of a balance.
Posted(b, cap, delta, held) ==
  LET p == [b EXCEPT !.settled = @ + delta, !.held = @ - held]
  IN IF p.settled + p.held > cap THEN [p EXCEPT !.state = Freeze(@)] ELSE p

LEMMA PostedFacts ==
  ASSUME NEW b \in BalanceRow, NEW cap \in Nat, NEW delta \in Int, NEW held \in Nat,
         b.settled + delta \in 0 .. MaxN, b.held - held \in 0 .. MaxN
  PROVE  LET p == Posted(b, cap, delta, held) IN
         /\ p \in BalanceRow /\ p.settled = b.settled + delta /\ p.held = b.held - held
         /\ p.state = "ACTIVE" => b.state = "ACTIVE" /\ p.settled + p.held <= cap
<1>1. PICK q : q = [b EXCEPT !.settled = @ + delta, !.held = @ - held]
  OBVIOUS
<1>2. q \in BalanceRow /\ q.settled = b.settled + delta /\ q.held = b.held - held /\ q.state = b.state
  BY <1>1 DEF BalanceRow
<1>3. PICK p : p = Posted(b, cap, delta, held)
  OBVIOUS
<1>4. CASE q.settled + q.held > cap
  <2>1. p = [q EXCEPT !.state = Freeze(@)]
    BY <1>1, <1>3, <1>4 DEF Posted
  <2>2. Freeze(q.state) \in {"PAUSED_UNKNOWN", "CANCELLED"}
    BY DEF Freeze
  <2>3. p \in BalanceRow /\ p.settled = q.settled /\ p.held = q.held /\ p.state # "ACTIVE"
    BY <1>2, <2>1, <2>2 DEF BalanceRow
  <2> QED
    BY <1>2, <1>3, <2>3
<1>5. CASE ~(q.settled + q.held > cap)
  <2>1. p = q
    BY <1>1, <1>3, <1>5 DEF Posted
  <2>2. q.settled + q.held <= cap
    BY <1>2, <1>5 DEF BalanceRow
  <2> QED
    BY <1>2, <1>3, <2>1, <2>2
<1> QED
  BY <1>4, <1>5

LEMMA Shift ==
  \A x \in Nat, y \in Nat, z \in Nat :
    x >= y => (x + (z - y)) - z = x - y /\ x + (z - y) >= z /\ x - y >= 0 /\ (x - y) - 0 = x - y
OBVIOUS

\* A settlement moves what the call holds to what it has used.
LEMMA SettleCore ==
  ASSUME NEW c, NEW w, Core(c, w), NEW e, e.n \in Nat, ~Overflows(w, e),
         NEW n \in Nat, n <= Len(inventory[c]), row[c].gen \in 1 .. MaxGen,
         w.resolving \/ (w.row.revision = 0 /\ w.row.state # "CONFLICT")
  PROVE  LET v == Settle(w, e, n, rec[c].gen) IN Core(c, v) /\ Calm(v) /\ v.failed = w.failed
<1> DEFINE delta == e.n - w.row.actual
           gen == rec[c].gen
<1>1. PICK v : v = Settle(w, e, n, gen)
  OBVIOUS
<1>2. IsWork(w) /\ IsRow(w.row)
  BY DEF Core, RowOK
<1>3. /\ IsWork(v) /\ v.row = Settled(w, e, n, gen)
      /\ v.account = Posted(w.account, AccountCap, delta, w.row.held)
      /\ v.task = Posted(w.task, TaskCap, delta, w.row.held)
      /\ v.resolving = FALSE /\ v.failed = w.failed
  <2>1. PICK a, t, r : /\ a = Posted(w.account, AccountCap, delta, w.row.held)
                       /\ t = Posted(w.task, TaskCap, delta, w.row.held) /\ r = Settled(w, e, n, gen)
    OBVIOUS
  <2>2. v = [w EXCEPT !.account = a, !.task = t, !.row = r, !.resolving = FALSE, !.result = TRUE]
    BY <1>1, <2>1 DEF Settle, Posted
  <2>3. IsWork(v) /\ v.row = r /\ v.account = a /\ v.task = t /\ v.resolving = FALSE /\ v.failed = w.failed
    BY <1>2, <2>2 DEF IsWork, WorkField
  <2> QED
    BY <2>1, <2>3
<1>4. /\ IsRow(v.row) /\ v.row.held = 0 /\ v.row.state = "SETTLED" /\ v.row.actual = e.n
      /\ v.row.revision = w.row.revision + 1 /\ v.row.gen = w.row.gen /\ v.row.closed = w.row.closed
      /\ v.row.cancelled = w.row.cancelled /\ v.row.seen = w.row.seen
      /\ v.row.open = (IF w.resolving THEN {} ELSE w.row.open)
      /\ v.row.prefix = (IF w.resolving THEN n ELSE w.row.prefix)
      /\ v.row.used = (IF w.resolving THEN w.row.used \cup {gen} ELSE w.row.used)
  BY <1>2, <1>3 DEF Settled, IsRow, RowField
<1>5. w.account.settled + delta \in 0 .. MaxN /\ w.task.settled + delta \in 0 .. MaxN
  <2>1. w.account.settled + e.n - w.row.actual \in 0 .. MaxN /\ w.task.settled + e.n - w.row.actual \in 0 .. MaxN
    BY DEF Overflows
  <2> QED
    BY <2>1, CoreTypes
<1>6. w.account.held - w.row.held \in 0 .. MaxN /\ w.task.held - w.row.held \in 0 .. MaxN
  <2>1. w.account.held >= w.row.held /\ w.task.held >= w.row.held
    BY DEF Core, Agrees
  <2> QED
    BY <2>1, CoreTypes
<1>7. e.n <= MaxN
  <2>1. w.account.settled >= w.row.actual
    BY DEF Core, Agrees
  <2> QED
    BY <1>5, <2>1, CoreTypes
<1>8. delta \in Int /\ AccountCap \in Nat /\ TaskCap \in Nat /\ w.row.held \in Nat
  BY CoreTypes, LedgerAssumption
<1>9. /\ v.account \in BalanceRow /\ v.account.settled = w.account.settled + delta
      /\ v.account.held = w.account.held - w.row.held
      /\ v.account.state = "ACTIVE" => w.account.state = "ACTIVE" /\ v.account.settled + v.account.held <= AccountCap
  <2> HIDE DEF delta
  <2>1. w.account \in BalanceRow
    BY DEF Core
  <2> QED
    BY SMTT(30), <1>3, <1>5, <1>6, <1>8, <2>1, PostedFacts
<1>10. /\ v.task \in BalanceRow /\ v.task.settled = w.task.settled + delta
       /\ v.task.held = w.task.held - w.row.held
       /\ v.task.state = "ACTIVE" => w.task.state = "ACTIVE" /\ v.task.settled + v.task.held <= TaskCap
  <2> HIDE DEF delta
  <2>1. w.task \in BalanceRow
    BY DEF Core
  <2> QED
    BY SMTT(30), <1>3, <1>5, <1>6, <1>8, <2>1, PostedFacts
<1>11. w.resolving => gen \notin w.row.used /\ gen = row[c].gen /\ gen > 1
  BY DEF Core, Revises
<1>12. RowOK(v.row)
  <2>1. e.n \in 0 .. MaxN /\ 0 \in 0 .. MaxN /\ w.row.revision + 1 \in Nat
    BY <1>7, CoreTypes
  <2>2. v.row.used \subseteq 2 .. MaxGen
    BY SMTT(30), <1>4, <1>11, LedgerAssumption DEF Core, RowOK
  <2>3. v.row.open \subseteq w.row.seen /\ v.row.prefix \in Nat
    BY <1>4 DEF Core, RowOK
  <2> QED
    BY <1>4, <2>1, <2>2, <2>3 DEF Core, RowOK
<1>13. Agrees(c, v)
  <2>1. /\ w.account.held - w.row.held = balance[Account].held - row[c].held
        /\ w.task.held - w.row.held = balance[task[c]].held - row[c].held
        /\ w.account.settled - w.row.actual = balance[Account].settled - row[c].actual
        /\ w.task.settled - w.row.actual = balance[task[c]].settled - row[c].actual
        /\ w.account.held >= w.row.held /\ w.task.held >= w.row.held
        /\ w.account.settled >= w.row.actual /\ w.task.settled >= w.row.actual
    BY DEF Core, Agrees
  <2>2. /\ v.account.settled - e.n = w.account.settled - w.row.actual
        /\ v.task.settled - e.n = w.task.settled - w.row.actual
        /\ v.account.held - 0 = w.account.held - w.row.held /\ v.task.held - 0 = w.task.held - w.row.held
        /\ v.account.settled >= e.n /\ v.task.settled >= e.n /\ v.account.held >= 0 /\ v.task.held >= 0
    <3>1. PICK as \in Nat, ts \in Nat, ah \in Nat, th \in Nat, ra \in Nat, rh \in Nat, en \in Nat :
            /\ as = w.account.settled /\ ts = w.task.settled /\ ah = w.account.held /\ th = w.task.held
            /\ ra = w.row.actual /\ rh = w.row.held /\ en = e.n
      BY CoreTypes
    <3>2. /\ v.account.settled = as + (en - ra) /\ v.task.settled = ts + (en - ra)
          /\ v.account.held = ah - rh /\ v.task.held = th - rh
      BY <1>9, <1>10, <3>1
    <3>3. ah >= rh /\ th >= rh /\ as >= ra /\ ts >= ra
      BY <2>1, <3>1
    <3>4. /\ (as + (en - ra)) - en = as - ra /\ (ts + (en - ra)) - en = ts - ra
          /\ (ah - rh) - 0 = ah - rh /\ (th - rh) - 0 = th - rh
          /\ as + (en - ra) >= en /\ ts + (en - ra) >= en /\ ah - rh >= 0 /\ th - rh >= 0
      BY ZenonT(40), <3>3, Shift
    <3>5. /\ v.account.settled - en = as - ra /\ v.task.settled - en = ts - ra
          /\ v.account.held - 0 = ah - rh /\ v.task.held - 0 = th - rh
          /\ v.account.settled >= en /\ v.task.settled >= en /\ v.account.held >= 0 /\ v.task.held >= 0
      BY ONLY <3>2, <3>4
    <3> QED
      BY ONLY <3>1, <3>5
  <2> QED
    BY <1>4, <2>1, <2>2 DEF Agrees
<1>14. Keeps(c, v)
  <2>1. v.row.revision > 0 /\ v.row.revision # 0
    BY <1>4, CoreTypes
  <2>2. v.row.prefix <= Len(inventory[c])
    BY <1>4 DEF Core, Keeps
  <2> QED
    BY <1>4, <1>9, <1>10, <2>1, <2>2 DEF Core, Keeps
<1>15. Revises(c, v)
  BY <1>3, <1>4, <1>11 DEF Core, Revises
<1>16. Core(c, v)
  BY <1>3, <1>9, <1>10, <1>12, <1>13, <1>14, <1>15 DEF Core
<1>17. Calm(v)
  BY <1>4, <1>9, <1>10 DEF Calm
<1> QED
  BY <1>1, <1>3, <1>16, <1>17

\* The producer's closing observation closes the row.
LEMMA ClosedCore ==
  ASSUME NEW c, NEW w, Core(c, w), Calm(w)
  PROVE  LET v == [w EXCEPT !.row.closed = TRUE] IN
         Core(c, v) /\ Calm(v) /\ v.resolving = w.resolving /\ v.blocked = w.blocked /\ v.failed = w.failed
<1>1. PICK v : v = [w EXCEPT !.row.closed = TRUE]
  OBVIOUS
<1>2. IsWork(w) /\ IsRow(w.row)
  BY DEF Core, RowOK
<1>3. /\ IsWork(v) /\ v.row = [w.row EXCEPT !.closed = TRUE] /\ v.account = w.account /\ v.task = w.task
      /\ v.resolving = w.resolving /\ v.blocked = w.blocked /\ v.failed = w.failed
  BY <1>1, <1>2 DEF IsWork, WorkField
<1>4. /\ IsRow(v.row) /\ v.row.held = w.row.held /\ v.row.state = w.row.state /\ v.row.actual = w.row.actual
      /\ v.row.revision = w.row.revision /\ v.row.gen = w.row.gen /\ v.row.closed = TRUE
      /\ v.row.cancelled = w.row.cancelled /\ v.row.seen = w.row.seen /\ v.row.open = w.row.open
      /\ v.row.prefix = w.row.prefix /\ v.row.used = w.row.used
  BY <1>2, <1>3 DEF IsRow, RowField
<1>5. RowOK(v.row)
  BY <1>4 DEF Core, RowOK
<1>6. Core(c, v)
  BY <1>3, <1>4, <1>5, RowCore
<1>7. Calm(v)
  BY <1>3, <1>4 DEF Calm
<1> QED
  BY <1>1, <1>3, <1>6, <1>7

\* A transaction starts from a copy that is in order.
LEMMA WorkCore ==
  ASSUME IInv, NEW c \in Call, row[c].state # "NONE"
  PROVE  Core(c, Work(c)) /\ Calm(Work(c))
<1>1. PICK w : w = Work(c)
  OBVIOUS
<1>2. /\ IsWork(w) /\ w.row = row[c] /\ w.account = balance[Account] /\ w.task = balance[task[c]]
      /\ w.resolving = FALSE
  BY <1>1 DEF Work, IsWork, WorkField
<1>3. /\ RowOK(row[c]) /\ Account \in Balance /\ task[c] \in Balance /\ task[c] # Account
      /\ balance[Account] \in BalanceRow /\ balance[task[c]] \in BalanceRow
  BY LedgerAssumption DEF IInv, LedgerType, Balance
<1>4. ASSUME NEW b \in BalancesOf(c) PROVE balance[b].held >= row[c].held /\ balance[b].settled >= row[c].actual
  <2>1. PICK S : S = CallsOf(b)
    OBVIOUS
  <2>2. c \in S /\ S \subseteq Call /\ IsFiniteSet(S)
    BY <2>1, FS_Subset, LedgerAssumption DEF CallsOf
  <2>3. \A x \in S : row[x].held \in Nat /\ row[x].actual \in Nat
    BY <2>2, LedgerAssumption DEF IInv, LedgerType, RowOK
  <2>4. SumHeld(row, S) >= row[c].held /\ SumActual(row, S) >= row[c].actual
    <3>1. OneRowChanges(row, row, S, c)
      BY <2>2, <2>3 DEF OneRowChanges
    <3> QED
      BY <3>1, SumsChange
  <2>5. b \in Balance
    BY <1>3 DEF BalancesOf
  <2>6. balance[b].held = HeldOf(b) /\ balance[b].settled = ActualOf(b)
    BY <2>5 DEF IInv, Conservation
  <2>7. HeldOf(b) = SumHeld(row, S) /\ ActualOf(b) = SumActual(row, S)
    BY <2>1 DEF HeldOf, ActualOf, SumHeld, SumActual, Held, Actual
  <2> QED
    BY <2>4, <2>6, <2>7
<1>5. Agrees(c, w)
  <2>1. /\ balance[Account].held >= row[c].held /\ balance[Account].settled >= row[c].actual
        /\ balance[task[c]].held >= row[c].held /\ balance[task[c]].settled >= row[c].actual
    BY <1>4 DEF BalancesOf
  <2> QED
    BY <1>2, <2>1 DEF Agrees
<1>6. Keeps(c, w)
  BY <1>2 DEF Keeps, IInv, HoldInv, EvidenceInv
<1>7. Revises(c, w)
  BY <1>2 DEF Revises
<1>8. Calm(w)
  <2>1. Cap(Account) = AccountCap /\ Cap(task[c]) = TaskCap
    BY <1>3 DEF Cap
  <2>2. /\ balance[Account].state = "ACTIVE" => balance[Account].settled + balance[Account].held <= AccountCap
        /\ balance[task[c]].state = "ACTIVE" => balance[task[c]].settled + balance[task[c]].held <= TaskCap
    BY <1>3, <2>1 DEF IInv, ActiveWithinCap
  <2>3. row[c].state \in {"IN_DOUBT", "CONFLICT"} => balance[Account].state # "ACTIVE" /\ balance[task[c]].state # "ACTIVE"
    BY DEF IInv, FreezeInv, BalancesOf
  <2> QED
    BY <1>2, <2>2, <2>3 DEF Calm
<1> QED
  BY <1>1, <1>2, <1>3, <1>5, <1>6, <1>7, <1>8 DEF Core

-----------------------------------------------------------------------------
(* The loops over observations                                             *)

\* The bodies of the three loops.
HazardTurn(c, resolving, w, i) ==
  IF Hazard(c, i) # "USAGE_UNKNOWN"
  THEN [Conflict(w, TagOf(Hazard(c, i), i, 0), inventory[c][i]) EXCEPT !.found = ~resolving]
  ELSE IF resolving THEN w ELSE Pause(Retain(w, inventory[c][i]), "IN_DOUBT")

Turn(kind, c, x, at, w, i) ==
  IF kind = "hazard" THEN HazardTurn(c, x, w, i)
  ELSE IF kind = "bound" THEN Retain(w, inventory[c][i])
  ELSE Apply(w, c, x, i, Changed(c) /\ i >= at)

IsLoop(g, kind, c, x, at, S, n, w) ==
  g = [k \in 0 .. n |-> IF k = 0 THEN w
                        ELSE IF k \in S THEN Turn(kind, c, x, at, g[k - 1], k) ELSE g[k - 1]]

LEMMA LoopExists ==
  ASSUME NEW kind, NEW c, NEW x, NEW at, NEW S, NEW w, NEW n \in Nat
  PROVE  \E g : IsLoop(g, kind, c, x, at, S, n, w)
<1> DEFINE T == {m \in Nat : \E g : IsLoop(g, kind, c, x, at, S, m, w)}
<1>1. 0 \in T
  <2> DEFINE g == [k \in 0 .. 0 |-> w]
  <2>1. \A k \in 0 .. 0 : k = 0
    OBVIOUS
  <2>2. IsLoop(g, kind, c, x, at, S, 0, w)
    BY <2>1 DEF IsLoop
  <2> QED
    BY <2>2
<1>2. ASSUME NEW m \in Nat, m \in T PROVE m + 1 \in T
  <2>1. PICK g : IsLoop(g, kind, c, x, at, S, m, w)
    BY <1>2
  <2>2. PICK last : last = IF m + 1 \in S THEN Turn(kind, c, x, at, g[m], m + 1) ELSE g[m]
    OBVIOUS
  <2> DEFINE h == [k \in 0 .. m + 1 |-> IF k = m + 1 THEN last ELSE g[k]]
             Step(f, k) == IF k = 0 THEN w ELSE IF k \in S THEN Turn(kind, c, x, at, f[k - 1], k) ELSE f[k - 1]
  <2>3. ASSUME NEW k \in 0 .. m + 1 PROVE h[k] = Step(h, k)
    <3>1. CASE k = m + 1
      <4>1. h[k] = last /\ k # 0 /\ k - 1 = m /\ h[k - 1] = g[m]
        BY <3>1
      <4> QED
        BY <2>2, <3>1, <4>1
    <3>2. CASE k # m + 1
      <4>1. k \in 0 .. m /\ h[k] = g[k] /\ (k # 0 => h[k - 1] = g[k - 1])
        BY <3>2
      <4>2. g[k] = Step(g, k)
        BY <2>1, <4>1 DEF IsLoop
      <4> QED
        BY <4>1, <4>2
    <3> QED
      BY <3>1, <3>2
  <2>4. h = [k \in 0 .. m + 1 |-> Step(h, k)]
    <3> HIDE DEF Step
    <3> QED
      BY <2>3
  <2>5. IsLoop(h, kind, c, x, at, S, m + 1, w)
    BY <2>4 DEF IsLoop
  <2>6. m + 1 \in Nat
    OBVIOUS
  <2> HIDE DEF h, Step
  <2> QED
    BY <2>5, <2>6
<1> HIDE DEF T
<1>3. n \in T
  BY <1>1, <1>2, NatSets
<1> QED
  BY <1>3 DEF T

\* A working copy in the loops: between the turns it is in order, except that
\* lower bounds are retained before the pause that follows them.
Fine(kind, c, w) == Core(c, w) /\ (kind = "bound" \/ Calm(w))

LEMMA LoopKeeps ==
  ASSUME NEW kind, NEW c, NEW x, NEW at, NEW S, NEW w, NEW n \in Nat, NEW g,
         IsLoop(g, kind, c, x, at, S, n, w), Fine(kind, c, w),
         \A u : \A i \in S \cap (1 .. n) : Fine(kind, c, u) => Fine(kind, c, Turn(kind, c, x, at, u, i))
  PROVE  Fine(kind, c, g[n])
<1> DEFINE T == {m \in Nat : m <= n => Fine(kind, c, g[m])}
<1>1. 0 \in T
  <2>1. g[0] = w
    BY DEF IsLoop
  <2> QED
    BY <2>1
<1>2. ASSUME NEW m \in Nat, m \in T PROVE m + 1 \in T
  <2>1. SUFFICES ASSUME m + 1 <= n PROVE Fine(kind, c, g[m + 1])
    OBVIOUS
  <2>2. Fine(kind, c, g[m])
    BY <1>2, <2>1
  <2>3. m + 1 \in 0 .. n /\ m + 1 # 0 /\ (m + 1) - 1 = m /\ m + 1 \in 1 .. n
    BY <2>1
  <2>4. g[m + 1] = IF m + 1 \in S THEN Turn(kind, c, x, at, g[m], m + 1) ELSE g[m]
    BY <2>3 DEF IsLoop
  <2>5. CASE m + 1 \in S
    BY <2>2, <2>3, <2>4, <2>5
  <2>6. CASE m + 1 \notin S
    BY <2>2, <2>4, <2>6
  <2> QED
    BY <2>5, <2>6
<1> HIDE DEF T
<1>3. n \in T
  BY <1>1, <1>2, NatSets
<1> QED
  BY <1>3 DEF T

LEMMA ObsFacts ==
  ASSUME IInv, NEW c \in Call, NEW i \in 1 .. Len(inventory[c])
  PROVE  /\ inventory[c][i] \in Obs /\ inventory[c][i].n \in Nat
         /\ inventory[c][i].kind \in {"FINAL", "ZERO"} => inventory[c][i].usage \in {"known", "unknown", "overflow"}
<1>1. inventory[c] \in Seq(Obs)
  BY DEF IInv, ProducerType
<1>2. inventory[c][i] \in Obs
  BY <1>1
<1> QED
  BY <1>2 DEF Obs

\* The pass over the hazards.
LEMMA HazardKeeps ==
  ASSUME IInv, NEW c \in Call, NEW i \in 1 .. Len(inventory[c]), Hazard(c, i) # "none",
         NEW r \in BOOLEAN, NEW w, Core(c, w), Calm(w)
  PROVE  Core(c, HazardTurn(c, r, w, i)) /\ Calm(HazardTurn(c, r, w, i))
<1>1. inventory[c][i].n \in Nat
  BY ObsFacts
<1>2. PICK z : z = Hazard(c, i)
  OBVIOUS
<1>3. z \in {"EVENT_CONFLICT", "USAGE_UNKNOWN", "USAGE_OVERFLOW", "FINAL_CONFLICT"}
  BY <1>2 DEF Hazard
<1>4. PICK e : e = inventory[c][i]
  OBVIOUS
<1>5. CASE z # "USAGE_UNKNOWN"
  <2>1. TagOf(z, i, 0) \in Tag
    BY <1>3, <1>5 DEF TagOf, Tag
  <2>2. PICK u : u = Conflict(w, TagOf(z, i, 0), e)
    OBVIOUS
  <2>3. Core(c, u) /\ Calm(u)
    BY <1>1, <1>4, <2>1, <2>2, ConflictCore
  <2>4. PICK v : v = [u EXCEPT !.found = ~r]
    OBVIOUS
  <2>5. IsWork(v) /\ v.row = u.row /\ v.account = u.account /\ v.task = u.task /\ v.resolving = u.resolving
    BY <2>3, <2>4 DEF Core, IsWork, WorkField
  <2>6. HazardTurn(c, r, w, i) = v
    BY <1>2, <1>4, <1>5, <2>2, <2>4 DEF HazardTurn
  <2> QED
    BY <2>3, <2>5, <2>6, FlagCore
<1>6. CASE z = "USAGE_UNKNOWN"
  <2>1. Core(c, Retain(w, e))
    BY <1>1, <1>4, RetainCore
  <2>2. Core(c, Pause(Retain(w, e), "IN_DOUBT")) /\ Calm(Pause(Retain(w, e), "IN_DOUBT"))
    BY <2>1, PauseCore
  <2> QED
    BY <1>2, <1>4, <1>6, <2>2 DEF HazardTurn
<1> QED
  BY <1>5, <1>6

LEMMA StopCore ==
  ASSUME NEW c, NEW w, Core(c, w), Calm(w), NEW v, v = [w EXCEPT !.found = TRUE, !.blocked = TRUE]
  PROVE  Core(c, v) /\ Calm(v)
<1>1. IsWork(v) /\ v.row = w.row /\ v.account = w.account /\ v.task = w.task /\ v.resolving = w.resolving
  BY DEF Core, IsWork, WorkField
<1> QED
  BY <1>1, FlagCore

LEMMA OneFlagCore ==
  ASSUME NEW c, NEW w, Core(c, w), Calm(w), NEW b \in BOOLEAN, NEW v,
         \/ v = [w EXCEPT !.found = b] \/ v = [w EXCEPT !.failed = b]
         \/ v = [w EXCEPT !.result = b] \/ v = [w EXCEPT !.blocked = b]
  PROVE  Core(c, v) /\ Calm(v)
<1>1. IsWork(v) /\ v.row = w.row /\ v.account = w.account /\ v.task = w.task /\ v.resolving = w.resolving
  BY DEF Core, IsWork, WorkField
<1> QED
  BY <1>1, FlagCore

\* One selected observation.
LEMMA ApplyKeeps ==
  ASSUME IInv, NEW c \in Call, NEW i \in 1 .. Len(inventory[c]), NEW n \in Nat, n <= Len(inventory[c]),
         NEW gap \in BOOLEAN, NEW w, Core(c, w), Calm(w)
  PROVE  Core(c, Apply(w, c, n, i, gap)) /\ Calm(Apply(w, c, n, i, gap))
<1>1. PICK e : e = inventory[c][i]
  OBVIOUS
<1>2. e.n \in Nat /\ (e.kind \in {"FINAL", "ZERO"} => e.usage \in {"known", "unknown", "overflow"})
  BY <1>1, ObsFacts
<1>3. PICK v : v = IF e.kind = "CLOSED" THEN [w EXCEPT !.row.closed = TRUE] ELSE w
  OBVIOUS
<1>4. Core(c, v) /\ Calm(v)
  BY <1>3, ClosedCore
<1>5. PICK d : d = Verdict(v, gap, e)
  OBVIOUS
<1>6. PICK a : a = Apply(w, c, n, i, gap)
  OBVIOUS
<1>7. SUFFICES Core(c, a) /\ Calm(a)
  BY <1>6
<1>8. CASE (i <= w.row.prefix /\ ~w.resolving) \/ w.failed
  <2>1. a = w
    BY <1>6, <1>8 DEF Apply
  <2> QED
    BY <2>1
<1>9. CASE ~((i <= w.row.prefix /\ ~w.resolving) \/ w.failed) /\ (e.kind \notin {"FINAL", "ZERO"} \/ v.blocked)
  <2>1. a = v
    BY <1>1, <1>3, <1>6, <1>9 DEF Apply
  <2> QED
    BY <1>4, <2>1
<1>10. CASE ~((i <= w.row.prefix /\ ~w.resolving) \/ w.failed) /\ ~(e.kind \notin {"FINAL", "ZERO"} \/ v.blocked)
  <2>1. e.usage \in {"known", "unknown", "overflow"}
    BY <1>2, <1>10
  <2>2. i \in Nat /\ v.row.revision \in Nat
    BY <1>4, CoreTypes
  <2>3. d \in {"gap", "unproved", "unknown", "overflow", "same", "disputed", "found", "balance", "settle"}
    BY <1>5, <2>1 DEF Verdict
  <2>4. CASE d = "gap"
    <3>1. TagOf("COVERAGE_GAP", i, 0) \in Tag
      BY <2>2 DEF TagOf, Tag
    <3>2. PICK u : u = Conflict(v, TagOf("COVERAGE_GAP", i, 0), e)
      OBVIOUS
    <3>3. Core(c, u) /\ Calm(u)
      BY <1>2, <1>4, <3>1, <3>2, ConflictCore
    <3>4. a = [u EXCEPT !.found = TRUE, !.blocked = TRUE]
      BY <1>1, <1>3, <1>5, <1>6, <1>10, <2>4, <3>2 DEF Apply
    <3> QED
      BY ONLY <3>3, <3>4, StopCore
  <2>5. CASE d = "unproved"
    <3>1. a = [v EXCEPT !.failed = TRUE]
      BY <1>1, <1>3, <1>5, <1>6, <1>10, <2>5 DEF Apply
    <3> QED
      BY ONLY <1>4, <3>1, OneFlagCore
  <2>6. CASE d = "unknown"
    <3>1. a = Pause(Retain(v, e), "IN_DOUBT")
      BY <1>1, <1>3, <1>5, <1>6, <1>10, <2>6 DEF Apply
    <3>2. Core(c, Retain(v, e))
      BY <1>2, <1>4, RetainCore
    <3> QED
      BY <3>1, <3>2, PauseCore
  <2>7. CASE d = "overflow"
    <3>1. TagOf("USAGE_OVERFLOW", i, 0) \in Tag
      BY <2>2 DEF TagOf, Tag
    <3>2. PICK u : u = Conflict(v, TagOf("USAGE_OVERFLOW", i, 0), e)
      OBVIOUS
    <3>3. Core(c, u) /\ Calm(u)
      BY <1>2, <1>4, <3>1, <3>2, ConflictCore
    <3>4. a = [u EXCEPT !.found = TRUE]
      BY <1>1, <1>3, <1>5, <1>6, <1>10, <2>7, <3>2 DEF Apply
    <3> QED
      BY ONLY <3>3, <3>4, OneFlagCore
  <2>8. CASE d = "same"
    <3>1. a = [v EXCEPT !.result = TRUE]
      BY <1>1, <1>3, <1>5, <1>6, <1>10, <2>8 DEF Apply
    <3> QED
      BY ONLY <1>4, <3>1, OneFlagCore
  <2>9. CASE d = "disputed"
    <3>1. TagOf("FINAL_CONFLICT", i, v.row.revision) \in Tag
      BY <2>2 DEF TagOf, Tag
    <3>2. PICK u : u = Conflict(v, TagOf("FINAL_CONFLICT", i, v.row.revision), e)
      OBVIOUS
    <3>3. Core(c, u) /\ Calm(u)
      BY <1>2, <1>4, <3>1, <3>2, ConflictCore
    <3>4. a = [u EXCEPT !.found = TRUE, !.blocked = TRUE]
      BY <1>1, <1>3, <1>5, <1>6, <1>10, <2>9, <3>2 DEF Apply
    <3> QED
      BY ONLY <3>3, <3>4, StopCore
  <2>10. CASE d = "found"
    <3>1. a = [v EXCEPT !.found = TRUE]
      BY <1>1, <1>3, <1>5, <1>6, <1>10, <2>10 DEF Apply
    <3> QED
      BY ONLY <1>4, <3>1, OneFlagCore
  <2>11. CASE d = "balance"
    <3>1. TagOf("BALANCE_OVERFLOW", i, 0) \in Tag
      BY <2>2 DEF TagOf, Tag
    <3>2. PICK u : u = Conflict(v, TagOf("BALANCE_OVERFLOW", i, 0), e)
      OBVIOUS
    <3>3. Core(c, u) /\ Calm(u)
      BY <1>2, <1>4, <3>1, <3>2, ConflictCore
    <3>4. a = [u EXCEPT !.found = TRUE, !.blocked = TRUE]
      BY <1>1, <1>3, <1>5, <1>6, <1>10, <2>11, <3>2 DEF Apply
    <3> QED
      BY ONLY <3>3, <3>4, StopCore
  <2>12. CASE d = "settle"
    <3>1. a = Settle(v, e, n, rec[c].gen)
      BY <1>1, <1>3, <1>5, <1>6, <1>10, <2>12 DEF Apply
    <3>2. ~Overflows(v, e) /\ (v.resolving \/ (~(v.row.revision > 0) /\ v.row.state # "CONFLICT"))
      BY <1>5, <2>1, <2>12 DEF Verdict
    <3>3. v.resolving \/ (v.row.revision = 0 /\ v.row.state # "CONFLICT")
      BY <2>2, <3>2
    <3>4. row[c].gen \in 1 .. MaxGen
      BY DEF IInv, LedgerType, RowOK
    <3> QED
      BY <1>2, <1>4, <3>1, <3>2, <3>3, <3>4, SettleCore
  <2> QED
    BY <2>3, <2>4, <2>5, <2>6, <2>7, <2>8, <2>9, <2>10, <2>11, <2>12
<1> QED
  BY <1>6, <1>8, <1>9, <1>10

LoopOf(kind, c, x, at, S, n, w) == (CHOOSE g : IsLoop(g, kind, c, x, at, S, n, w))[n]

LEMMA LoopOfKeeps ==
  ASSUME NEW kind, NEW c, NEW x, NEW at, NEW S, NEW w, NEW n \in Nat, Fine(kind, c, w),
         \A u : \A i \in S \cap (1 .. n) : Fine(kind, c, u) => Fine(kind, c, Turn(kind, c, x, at, u, i))
  PROVE  Fine(kind, c, LoopOf(kind, c, x, at, S, n, w))
<1>1. PICK g : g = CHOOSE h : IsLoop(h, kind, c, x, at, S, n, w)
  OBVIOUS
<1>2. IsLoop(g, kind, c, x, at, S, n, w)
  BY <1>1, LoopExists
<1>3. Fine(kind, c, g[n])
  BY <1>2, LoopKeeps
<1> QED
  BY <1>1, <1>3 DEF LoopOf

\* What the pass over the hazards computes.
LEMMA HazardPassIs ==
  ASSUME NEW c, NEW n, NEW named
  PROVE  LET resolving == Resolves(c, n, named)
             hard == HardConflict(c, n)
             first == LoopOf("hazard", c, resolving, 0, Hazards(c, n), n, [Work(c) EXCEPT !.resolving = resolving])
             blocked == (Hazards(c, n) # {} \/ hard) /\ ~resolving
             bounds == {i \in row[c].prefix + 1 .. n : inventory[c][i].kind \in {"FINAL", "CONFLICT"}}
             second == IF ~blocked THEN first
                       ELSE [Pause(LoopOf("bound", c, 0, 0, bounds, n, first),
                                   IF hard THEN "CONFLICT" ELSE "IN_DOUBT") EXCEPT !.blocked = TRUE]
         IN HazardPass(c, n, named) = [second EXCEPT !.found = @ \/ (second.row.state = "CONFLICT" /\ ~resolving)]
<1> DEFINE resolving == Resolves(c, n, named)
           hard == HardConflict(c, n)
           S == Hazards(c, n)
           start == [Work(c) EXCEPT !.resolving = resolving]
           P(g) == g = [k \in 0 .. n |-> IF k = 0 THEN start
                          ELSE IF k \in S THEN IF Hazard(c, k) # "USAGE_UNKNOWN"
                                               THEN [Conflict(g[k - 1], TagOf(Hazard(c, k), k, 0), inventory[c][k]) EXCEPT !.found = ~resolving]
                                               ELSE IF resolving THEN g[k - 1] ELSE Pause(Retain(g[k - 1], inventory[c][k]), "IN_DOUBT")
                          ELSE g[k - 1]]
           first == (CHOOSE g : P(g))[n]
           blocked == (S # {} \/ hard) /\ ~resolving
           bounds == {i \in row[c].prefix + 1 .. n : inventory[c][i].kind \in {"FINAL", "CONFLICT"}}
           Q(g) == g = [k \in 0 .. n |-> IF k = 0 THEN first
                          ELSE IF k \in bounds THEN Retain(g[k - 1], inventory[c][k]) ELSE g[k - 1]]
           second == IF ~blocked THEN first
                     ELSE [Pause((CHOOSE g : Q(g))[n], IF hard THEN "CONFLICT" ELSE "IN_DOUBT") EXCEPT !.blocked = TRUE]
<1>1. HazardPass(c, n, named) = [second EXCEPT !.found = @ \/ (second.row.state = "CONFLICT" /\ ~resolving)]
  BY DEF HazardPass, Over
<1>2. ASSUME NEW g PROVE P(g) <=> IsLoop(g, "hazard", c, resolving, 0, S, n, start)
  BY DEF IsLoop, Turn, HazardTurn
<1>3. first = LoopOf("hazard", c, resolving, 0, S, n, start)
  <2> HIDE DEF P
  <2> QED
    BY <1>2 DEF LoopOf
<1> HIDE DEF first
<1>4. ASSUME NEW g PROVE Q(g) <=> IsLoop(g, "bound", c, 0, 0, bounds, n, first)
  BY DEF IsLoop, Turn
<1>5. (CHOOSE g : Q(g))[n] = LoopOf("bound", c, 0, 0, bounds, n, first)
  <2> HIDE DEF Q
  <2> QED
    BY <1>4 DEF LoopOf
<1> QED
  BY <1>1, <1>3, <1>5

LEMMA HazardPassKeeps ==
  ASSUME IInv, NEW c \in Call, row[c].state # "NONE", NEW n \in Nat, n <= Len(inventory[c]),
         NEW named \in BOOLEAN, Owner(c)
  PROVE  Core(c, HazardPass(c, n, named)) /\ Calm(HazardPass(c, n, named))
<1> DEFINE bounds == {i \in row[c].prefix + 1 .. n : inventory[c][i].kind \in {"FINAL", "CONFLICT"}}
<1>1. PICK r \in BOOLEAN : r = Resolves(c, n, named)
  BY DEF Resolves
<1>2. PICK hard \in BOOLEAN : hard = HardConflict(c, n)
  BY DEF HardConflict
<1>3. PICK start : start = [Work(c) EXCEPT !.resolving = r]
  OBVIOUS
<1>4. Core(c, start) /\ Calm(start)
  <2>1. PICK w : w = Work(c)
    OBVIOUS
  <2>2. Core(c, w) /\ Calm(w)
    BY <2>1, WorkCore
  <2>3. /\ IsWork(start) /\ start.row = w.row /\ start.account = w.account /\ start.task = w.task
        /\ start.resolving = r
    BY <1>3, <2>1, <2>2 DEF Core, IsWork, WorkField
  <2>4. w.row = row[c]
    BY <2>1 DEF Work
  <2>5. r => rec[c].gen \notin row[c].used /\ rec[c].gen = row[c].gen /\ rec[c].gen > 1
    BY <1>1 DEF Resolves, Owner
  <2>6. Agrees(c, start) /\ Keeps(c, start) /\ Revises(c, start)
    BY <2>2, <2>3, <2>4, <2>5 DEF Core, Agrees, Keeps, Revises
  <2>7. Core(c, start)
    BY <2>2, <2>3, <2>6 DEF Core
  <2>8. Calm(start)
    BY <2>2, <2>3 DEF Calm
  <2> QED
    BY <2>7, <2>8
<1>5. PICK S : S = Hazards(c, n)
  OBVIOUS
<1>6. PICK first : first = LoopOf("hazard", c, r, 0, S, n, start)
  OBVIOUS
<1>7. Core(c, first) /\ Calm(first)
  <2>1. ASSUME NEW u, NEW i \in S \cap (1 .. n), Fine("hazard", c, u)
        PROVE  Fine("hazard", c, Turn("hazard", c, r, 0, u, i))
    <3>1. i \in 1 .. Len(inventory[c]) /\ Hazard(c, i) # "none"
      <4>1. Len(inventory[c]) \in Nat
        BY DEF IInv, ProducerType
      <4> QED
        BY <1>5, <4>1 DEF Hazards
    <3>2. Core(c, u) /\ Calm(u)
      BY <2>1 DEF Fine
    <3>3. Core(c, HazardTurn(c, r, u, i)) /\ Calm(HazardTurn(c, r, u, i))
      BY <3>1, <3>2, HazardKeeps
    <3> QED
      BY <3>3 DEF Fine, Turn
  <2>2. Fine("hazard", c, start)
    BY <1>4 DEF Fine
  <2>3. Fine("hazard", c, first)
    BY <1>6, <2>1, <2>2, LoopOfKeeps
  <2> QED
    BY <2>3 DEF Fine
<1>8. PICK kept : kept = LoopOf("bound", c, 0, 0, bounds, n, first)
  OBVIOUS
<1>9. Core(c, kept)
  <2>1. ASSUME NEW u, NEW i \in bounds \cap (1 .. n), Fine("bound", c, u)
        PROVE  Fine("bound", c, Turn("bound", c, 0, 0, u, i))
    <3>1. i \in 1 .. Len(inventory[c])
      <4>1. Len(inventory[c]) \in Nat
        BY DEF IInv, ProducerType
      <4> QED
        BY <4>1
    <3>2. inventory[c][i].n \in Nat
      BY <3>1, ObsFacts
    <3>3. Core(c, Retain(u, inventory[c][i]))
      BY <2>1, <3>2, RetainCore DEF Fine
    <3> QED
      BY <3>3 DEF Fine, Turn
  <2>2. Fine("bound", c, first)
    BY <1>7 DEF Fine
  <2> HIDE DEF bounds
  <2>3. Fine("bound", c, kept)
    BY <1>8, <2>1, <2>2, LoopOfKeeps
  <2> QED
    BY <2>3 DEF Fine
<1>10. PICK second : second = IF ~((S # {} \/ hard) /\ ~r) THEN first
                              ELSE [Pause(kept, IF hard THEN "CONFLICT" ELSE "IN_DOUBT") EXCEPT !.blocked = TRUE]
  OBVIOUS
<1>11. Core(c, second) /\ Calm(second)
  <2>1. PICK st \in {"CONFLICT", "IN_DOUBT"} : st = IF hard THEN "CONFLICT" ELSE "IN_DOUBT"
    OBVIOUS
  <2>2. PICK p : p = Pause(kept, st)
    OBVIOUS
  <2>3. Core(c, p) /\ Calm(p)
    BY <1>9, <2>2, PauseCore
  <2>4. second = first \/ second = [p EXCEPT !.blocked = TRUE]
    BY <1>10, <2>1, <2>2
  <2> QED
    BY ONLY <1>7, <2>3, <2>4, OneFlagCore
<1>12. PICK out : out = HazardPass(c, n, named)
  OBVIOUS
<1>13. PICK f : f = (second.found \/ (second.row.state = "CONFLICT" /\ ~r))
  OBVIOUS
<1>14. out = [second EXCEPT !.found = f]
  BY <1>1, <1>2, <1>3, <1>5, <1>6, <1>8, <1>10, <1>12, <1>13, HazardPassIs
<1>15. IsWork(out) /\ out.row = second.row /\ out.account = second.account /\ out.task = second.task /\ out.resolving = second.resolving
  BY <1>11, <1>14 DEF Core, IsWork, WorkField
<1> QED
  BY <1>11, <1>12, <1>15, FlagCore

\* What the transaction of reconcile_v1 computes.
LEMMA TransactionIs ==
  ASSUME NEW c, NEW first, NEW sel, NEW at
  PROVE  LET n == rec[c].n
             last == IF first.resolving /\ Cardinality({i \in sel : IsFinal(c, i)}) > 1
                     THEN [first EXCEPT !.failed = TRUE]
                     ELSE LoopOf("apply", c, n, at, sel, n, first)
         IN Transaction(c, first, sel, at) = IF ~last.result /\ ~last.found /\ last.row.state # "SETTLED"
                                             THEN Pause(last, "IN_DOUBT") ELSE last
<1> DEFINE n == rec[c].n
           P(g) == g = [k \in 0 .. n |-> IF k = 0 THEN first
                          ELSE IF k \in sel THEN Apply(g[k - 1], c, n, k, Changed(c) /\ k >= at) ELSE g[k - 1]]
           last == IF first.resolving /\ Cardinality({i \in sel : IsFinal(c, i)}) > 1
                   THEN [first EXCEPT !.failed = TRUE] ELSE (CHOOSE g : P(g))[n]
<1>1. Transaction(c, first, sel, at) = IF ~last.result /\ ~last.found /\ last.row.state # "SETTLED"
                                       THEN Pause(last, "IN_DOUBT") ELSE last
  BY DEF Transaction, Over
<1>2. ASSUME NEW g PROVE P(g) <=> IsLoop(g, "apply", c, n, at, sel, n, first)
  BY DEF IsLoop, Turn
<1>3. (CHOOSE g : P(g))[n] = LoopOf("apply", c, n, at, sel, n, first)
  <2> HIDE DEF P
  <2> QED
    BY <1>2 DEF LoopOf
<1> QED
  BY <1>1, <1>3

LEMMA TransactionKeeps ==
  ASSUME IInv, NEW c \in Call, NEW first, Core(c, first), Calm(first), NEW sel, NEW at \in Nat
  PROVE  Core(c, Transaction(c, first, sel, at)) /\ Calm(Transaction(c, first, sel, at))
<1>1. PICK n \in Nat : n = rec[c].n
  BY DEF IInv, ProducerType, RecRow
<1>2. n <= Len(inventory[c]) /\ Len(inventory[c]) \in Nat
  BY <1>1 DEF IInv, EvidenceInv, ProducerType
<1>3. PICK loop : loop = LoopOf("apply", c, n, at, sel, n, first)
  OBVIOUS
<1>4. Core(c, loop) /\ Calm(loop)
  <2>1. ASSUME NEW u, NEW i \in sel \cap (1 .. n), Fine("apply", c, u)
        PROVE  Fine("apply", c, Turn("apply", c, n, at, u, i))
    <3>1. i \in 1 .. Len(inventory[c])
      BY <1>2
    <3>2. Core(c, u) /\ Calm(u)
      BY <2>1 DEF Fine
    <3>3. PICK gap \in BOOLEAN : gap = (Changed(c) /\ i >= at)
      BY DEF Changed
    <3>4. Core(c, Apply(u, c, n, i, gap)) /\ Calm(Apply(u, c, n, i, gap))
      BY <1>2, <3>1, <3>2, ApplyKeeps
    <3> QED
      BY <3>3, <3>4 DEF Fine, Turn
  <2>2. Fine("apply", c, first)
    BY DEF Fine
  <2>3. Fine("apply", c, loop)
    BY <1>3, <2>1, <2>2, LoopOfKeeps
  <2> QED
    BY <2>3 DEF Fine
<1>5. PICK last : last = IF first.resolving /\ Cardinality({i \in sel : IsFinal(c, i)}) > 1
                         THEN [first EXCEPT !.failed = TRUE] ELSE loop
  OBVIOUS
<1>6. Core(c, last) /\ Calm(last)
  <2>1. last = loop \/ last = [first EXCEPT !.failed = TRUE]
    BY <1>5
  <2> QED
    BY <1>4, <2>1, OneFlagCore
<1>7. Core(c, Pause(last, "IN_DOUBT")) /\ Calm(Pause(last, "IN_DOUBT"))
  BY <1>6, PauseCore
<1>8. Transaction(c, first, sel, at) \in {last, Pause(last, "IN_DOUBT")}
  BY <1>1, <1>3, <1>5, TransactionIs
<1> QED
  BY <1>6, <1>7, <1>8

-----------------------------------------------------------------------------
(* Storing the working copy                                                *)

Ledger == LedgerType /\ HoldInv /\ FreezeInv /\ Conservation /\ ActiveWithinCap

LEMMA Numbers ==
  ASSUME IInv
  PROVE  /\ \A c \in Call : /\ row[c].held \in Nat /\ row[c].actual \in Nat /\ row[c].revision \in Nat
                            /\ RowOK(row[c]) /\ task[c] \in Task /\ task[c] # Account /\ task[c] \in Balance
         /\ \A b \in Balance : /\ balance[b].held \in Nat /\ balance[b].settled \in Nat /\ balance[b] \in BalanceRow
                               /\ IsFiniteSet(CallsOf(b)) /\ CallsOf(b) \subseteq Call
                               /\ balance[b].held = SumHeld(row, CallsOf(b))
                               /\ balance[b].settled = SumActual(row, CallsOf(b))
         /\ Account \in Balance /\ IsFiniteSet(Call) /\ MaxN \in Nat /\ Reserved \in Nat
<1>1. ASSUME NEW c \in Call
      PROVE  /\ row[c].held \in Nat /\ row[c].actual \in Nat /\ row[c].revision \in Nat
             /\ RowOK(row[c]) /\ task[c] \in Task /\ task[c] # Account /\ task[c] \in Balance
  BY LedgerAssumption DEF IInv, LedgerType, RowOK, Balance
<1>2. ASSUME NEW b \in Balance
      PROVE  /\ balance[b].held \in Nat /\ balance[b].settled \in Nat /\ balance[b] \in BalanceRow
             /\ IsFiniteSet(CallsOf(b)) /\ CallsOf(b) \subseteq Call
  <2>1. balance[b] \in BalanceRow
    BY DEF IInv, LedgerType
  <2>2. balance[b].held \in Nat /\ balance[b].settled \in Nat
    BY <2>1, LedgerAssumption DEF BalanceRow
  <2>3. CallsOf(b) \subseteq Call
    BY DEF CallsOf
  <2> QED
    BY <2>1, <2>2, <2>3, FS_Subset, LedgerAssumption
<1>3. ASSUME NEW b \in Balance
      PROVE  balance[b].held = SumHeld(row, CallsOf(b)) /\ balance[b].settled = SumActual(row, CallsOf(b))
  <2>1. balance[b].held = HeldOf(b) /\ balance[b].settled = ActualOf(b)
    BY DEF IInv, Conservation
  <2>2. HeldOf(b) = SumHeld(row, CallsOf(b)) /\ ActualOf(b) = SumActual(row, CallsOf(b))
    BY DEF HeldOf, ActualOf, SumHeld, SumActual, Held, Actual
  <2> QED
    BY <2>1, <2>2
<1>4. Account \in Balance /\ IsFiniteSet(Call) /\ MaxN \in Nat /\ Reserved \in Nat
  BY LedgerAssumption DEF Balance
<1> QED
  BY <1>1, <1>2, <1>3, <1>4

\* Conservation of the next state, from the sums over the rows.
LEMMA SumsConserve ==
  ASSUME \A b \in Balance : /\ balance'[b].held = SumHeld(row', CallsOf(b)')
                            /\ balance'[b].settled = SumActual(row', CallsOf(b)')
  PROVE  Conservation'
<1>1. ASSUME NEW b \in Balance
      PROVE  balance'[b].held = HeldOf(b)' /\ balance'[b].settled = ActualOf(b)'
  BY DEF HeldOf, ActualOf, SumHeld, SumActual, Held, Actual, MapThenSumSet, MapThenFoldSet
<1> QED
  BY <1>1 DEF Conservation, Balance

\* The copy of a call's transaction replaces its row and its two balances.
LEMMA StoreLedger ==
  ASSUME IInv, NEW c \in Call, row[c].state # "NONE", NEW w, Core(c, w), Calm(w), Store(c, w), task' = task
  PROVE  Ledger'
<1>1. /\ row'[c] = w.row /\ (\A d \in Call : d # c => row'[d] = row[d])
      /\ row' = [d \in Call |-> row'[d]]
  BY DEF Store, IInv, LedgerType
<1>2. /\ balance'[Account] = w.account /\ balance'[task[c]] = w.task
      /\ \A b \in Balance : b \notin BalancesOf(c) => balance'[b] = balance[b]
      /\ balance' \in [Balance -> BalanceRow]
  BY Numbers DEF Store, IInv, LedgerType, BalancesOf, Core
<1>3. RowOK(w.row) /\ w.row.state # "NONE"
  BY DEF Core, Keeps
<1>4. LedgerType'
  <2>1. \A d \in Call : RowOK(row'[d])
    BY <1>1, <1>3, Numbers
  <2>2. task' \in [Call -> Task]
    BY DEF IInv, LedgerType
  <2>3. ASSUME NEW d \in Call PROVE RowOK(row[d])'
    BY <2>1 DEF RowOK, IsRow, RowField
  <2>4. (balance \in [Balance -> BalanceRow])'
    BY <1>2 DEF Balance, BalanceRow
  <2> QED
    BY <1>1, <2>2, <2>3, <2>4 DEF LedgerType
<1>5. HoldInv'
  <2>1. \A d \in Call : /\ row'[d].state # "NONE" /\ row'[d].revision = 0 => row'[d].held >= Reserved
                        /\ row'[d].state = "SETTLED" => row'[d].revision > 0
                        /\ row'[d].revision > 0 => row'[d].state # "NONE"
    BY <1>1, <1>3 DEF Core, Keeps, IInv, HoldInv
  <2> QED
    BY <2>1 DEF HoldInv
<1>6. FreezeInv'
  <2>1. ASSUME NEW d \in Call, row'[d].state \in {"IN_DOUBT", "CONFLICT"}, NEW b \in BalancesOf(d)
        PROVE  balance'[b].state # "ACTIVE"
    <3>1. b \in Balance
      BY Numbers DEF BalancesOf
    <3>2. CASE d = c
      BY <1>1, <1>2, <2>1, <3>2 DEF Calm, BalancesOf
    <3>3. CASE d # c
      <4>1. balance[b].state # "ACTIVE"
        BY <1>1, <2>1, <3>3 DEF IInv, FreezeInv
      <4>2. CASE b \in BalancesOf(c)
        BY <1>2, <4>1, <4>2 DEF Core, Keeps, BalancesOf
      <4>3. CASE b \notin BalancesOf(c)
        BY <1>2, <3>1, <4>1, <4>3
      <4> QED
        BY <4>2, <4>3
    <3> QED
      BY <3>2, <3>3
  <2> QED
    BY <2>1 DEF FreezeInv, BalancesOf
<1>7. Conservation'
  <2>1. ASSUME NEW b \in Balance
        PROVE  /\ balance'[b].held = SumHeld(row', CallsOf(b)')
               /\ balance'[b].settled = SumActual(row', CallsOf(b)')
    <3>1. CallsOf(b)' = CallsOf(b)
      BY <1>1, <1>3 DEF CallsOf, BalancesOf
    <3>2. PICK S : S = CallsOf(b)
      OBVIOUS
    <3>3. /\ IsFiniteSet(S) /\ S \subseteq Call
          /\ balance[b].held = SumHeld(row, S) /\ balance[b].settled = SumActual(row, S)
          /\ \A x \in S : row[x].held \in Nat /\ row[x].actual \in Nat
      BY <3>2, Numbers
    <3>4. w.row.held \in Nat /\ w.row.actual \in Nat
      BY CoreTypes
    <3>5. CASE b \in BalancesOf(c)
      <4>1. c \in S
        BY <3>2, <3>5 DEF CallsOf
      <4>2. \A x \in S : /\ row'[x].held \in Nat /\ row'[x].actual \in Nat
                         /\ x # c => row'[x].held = row[x].held /\ row'[x].actual = row[x].actual
        BY <1>1, <3>3, <3>4
      <4>3. /\ SumHeld(row', S) = SumHeld(row, S) + row'[c].held - row[c].held
            /\ SumActual(row', S) = SumActual(row, S) + row'[c].actual - row[c].actual
        <5>1. OneRowChanges(row, row', S, c)
          BY <3>3, <4>1, <4>2 DEF OneRowChanges
        <5> QED
          BY <5>1, SumsChange
      <4>4. PICK h \in Nat, a \in Nat, wh \in Nat, wa \in Nat, bh \in Nat, bs \in Nat, vh \in Nat, vs \in Nat :
              /\ h = row[c].held /\ a = row[c].actual /\ wh = w.row.held /\ wa = w.row.actual
              /\ bh = balance[b].held /\ bs = balance[b].settled
              /\ vh = balance'[b].held /\ vs = balance'[b].settled
        <5>1. balance'[b] = w.account \/ balance'[b] = w.task
          BY <1>2, <3>5 DEF BalancesOf
        <5> QED
          BY <3>4, <5>1, Numbers, CoreTypes
      <4>5. vh - wh = bh - h /\ vs - wa = bs - a
        BY <1>2, <3>5, <4>4 DEF Core, Agrees, BalancesOf
      <4>6. vh = bh + wh - h /\ vs = bs + wa - a
        BY <4>5
      <4>7. SumHeld(row', S) = bh + wh - h /\ SumActual(row', S) = bs + wa - a
        BY <1>1, <3>3, <4>3, <4>4
      <4> QED
        BY <3>1, <3>2, <4>4, <4>6, <4>7
    <3>6. CASE b \notin BalancesOf(c)
      <4>1. c \notin S /\ balance'[b] = balance[b]
        BY <1>2, <3>2, <3>6 DEF CallsOf
      <4>2. \A x \in S : row'[x].held = row[x].held /\ row'[x].actual = row[x].actual
        BY <1>1, <3>3, <4>1
      <4>3. SumHeld(row', S) = SumHeld(row, S) /\ SumActual(row', S) = SumActual(row, S)
        BY <3>3, <4>2, SumsSame
      <4> QED
        BY <3>1, <3>2, <3>3, <4>1, <4>3
    <3> QED
      BY <3>5, <3>6
  <2> QED
    BY <2>1, SumsConserve
<1>8. ActiveWithinCap'
  <2>1. ASSUME NEW b \in Balance, balance'[b].state = "ACTIVE"
        PROVE  balance'[b].settled + balance'[b].held <= Cap(b)
    <3>1. CASE b = Account
      BY <1>2, <2>1, <3>1 DEF Calm, Cap
    <3>2. CASE b = task[c]
      <4>1. Cap(b) = TaskCap
        BY <3>2, Numbers DEF Cap
      <4> QED
        BY <1>2, <2>1, <3>2, <4>1 DEF Calm
    <3>3. CASE b \notin BalancesOf(c)
      BY <1>2, <2>1, <3>3 DEF IInv, ActiveWithinCap
    <3> QED
      BY <3>1, <3>2, <3>3 DEF BalancesOf
  <2> QED
    BY <2>1 DEF ActiveWithinCap, Balance, Cap
<1> QED
  BY <1>4, <1>5, <1>6, <1>7, <1>8 DEF Ledger

-----------------------------------------------------------------------------
(* Steps                                                                   *)

\* What RevisedByDecision says of one step.
ByDecision ==
  \A c \in Call :
    \/ row[c].revision > 0 /\ row'[c].revision # row[c].revision
    \/ row[c].state = "CONFLICT" /\ row'[c].state # "CONFLICT"
    => row'[c].used # row[c].used /\ row[c].gen > 1

LEMMA LedgerTypeNext ==
  ASSUME task' \in [Call -> Task], balance' \in [Balance -> BalanceRow],
         row' = [c \in Call |-> row'[c]], \A c \in Call : RowOK(row'[c])
  PROVE  LedgerType'
<1>1. ASSUME NEW c \in Call PROVE RowOK(row[c])'
  BY DEF RowOK, IsRow, RowField
<1>2. (balance \in [Balance -> BalanceRow])'
  BY DEF Balance, BalanceRow
<1> QED
  BY <1>1, <1>2 DEF LedgerType

\* A step that moves no money, and reserves and forgets no call, conserves it.
LEMMA QuietConserves ==
  ASSUME IInv, task' = task,
         \A c \in Call : /\ row'[c].held = row[c].held /\ row'[c].actual = row[c].actual
                         /\ row'[c].state # "NONE" <=> row[c].state # "NONE",
         \A b \in Balance : balance'[b].held = balance[b].held /\ balance'[b].settled = balance[b].settled
  PROVE  Conservation'
<1>1. ASSUME NEW b \in Balance
      PROVE  /\ balance'[b].held = SumHeld(row', CallsOf(b)')
             /\ balance'[b].settled = SumActual(row', CallsOf(b)')
  <2>1. CallsOf(b)' = CallsOf(b)
    BY DEF CallsOf, BalancesOf
  <2>2. PICK S : S = CallsOf(b)
    OBVIOUS
  <2>3. /\ IsFiniteSet(S) /\ S \subseteq Call
        /\ balance[b].held = SumHeld(row, S) /\ balance[b].settled = SumActual(row, S)
    BY <2>2, Numbers
  <2>4. \A x \in S : row'[x].held = row[x].held /\ row'[x].actual = row[x].actual
    BY <2>3
  <2>5. SumHeld(row', S) = SumHeld(row, S) /\ SumActual(row', S) = SumActual(row, S)
    BY <2>3, <2>4, SumsSame
  <2> QED
    BY <2>1, <2>2, <2>3, <2>5
<1> QED
  BY <1>1, SumsConserve

LEMMA SameLedger ==
  ASSUME IInv, task' = task, row' = row, balance' = balance
  PROVE  Ledger' /\ ByDecision
<1>1. Conservation'
  BY QuietConserves
<1>2. LedgerType'
  BY LedgerTypeNext DEF IInv, LedgerType
<1>3. HoldInv' /\ FreezeInv' /\ ActiveWithinCap'
  BY DEF IInv, HoldInv, FreezeInv, ActiveWithinCap, BalancesOf, Balance, Cap
<1> QED
  BY <1>1, <1>2, <1>3 DEF Ledger, ByDecision

\* The run and the recovery change a row's state, owner and flags.
LEMMA RowStep ==
  ASSUME IInv, task' = task, balance' = balance, NEW c \in Call, NEW v, row' = [row EXCEPT ![c] = v], RowOK(v),
         row[c].state # "NONE", v.held = row[c].held, v.actual = row[c].actual, v.revision = row[c].revision,
         v.state = row[c].state \/ (v.state \in {"ADMITTED", "SEND_INTENT"} /\ row[c].state # "CONFLICT")
  PROVE  Ledger' /\ ByDecision
<1>1. /\ row'[c] = v /\ (\A d \in Call : d # c => row'[d] = row[d])
      /\ row' = [d \in Call |-> row'[d]]
  BY DEF IInv, LedgerType
<1>2. Conservation'
  BY <1>1, QuietConserves
<1>3. LedgerType'
  <2>1. \A d \in Call : RowOK(row'[d])
    BY <1>1, Numbers
  <2> QED
    BY <1>1, <2>1, LedgerTypeNext DEF IInv, LedgerType
<1>4. HoldInv'
  <2>1. \A d \in Call : /\ row'[d].state # "NONE" /\ row'[d].revision = 0 => row'[d].held >= Reserved
                        /\ row'[d].state = "SETTLED" => row'[d].revision > 0
                        /\ row'[d].revision > 0 => row'[d].state # "NONE"
    BY <1>1 DEF IInv, HoldInv
  <2> QED
    BY <2>1 DEF HoldInv
<1>5. FreezeInv'
  BY <1>1 DEF IInv, FreezeInv, BalancesOf
<1>6. ActiveWithinCap'
  BY DEF IInv, ActiveWithinCap, Balance, Cap
<1>7. ByDecision
  BY <1>1 DEF ByDecision
<1> QED
  BY <1>2, <1>3, <1>4, <1>5, <1>6, <1>7 DEF Ledger

BalanceState == {"ACTIVE", "PAUSED_UNKNOWN", "CANCELLED"}

\* Balances stop, or start again when nothing of them is open.
LEMMA BalanceStep ==
  ASSUME IInv, task' = task, row' = [d \in Call |-> row'[d]],
         \A d \in Call : /\ RowOK(row'[d]) /\ row'[d].state = row[d].state /\ row'[d].held = row[d].held
                         /\ row'[d].actual = row[d].actual /\ row'[d].revision = row[d].revision,
         NEW s, \A b \in Balance : s[b] \in BalanceState,
         balance' = [b \in Balance |-> [balance[b] EXCEPT !.state = s[b]]],
         \A b \in Balance : \/ s[b] = "ACTIVE" => balance[b].state = "ACTIVE"
                            \/ /\ balance[b].settled + balance[b].held <= Cap(b)
                               /\ \A d \in CallsOf(b) : row[d].state = "SETTLED"
  PROVE  Ledger' /\ ByDecision
<1>1. ASSUME NEW b \in Balance
      PROVE  /\ balance'[b] \in BalanceRow /\ balance'[b].state = s[b]
             /\ balance'[b].held = balance[b].held /\ balance'[b].settled = balance[b].settled
  <2>1. balance[b] \in BalanceRow /\ s[b] \in BalanceState
    BY Numbers
  <2>2. balance'[b] = [balance[b] EXCEPT !.state = s[b]]
    OBVIOUS
  <2> QED
    BY <2>1, <2>2 DEF BalanceRow, BalanceState
<1>2. balance' \in [Balance -> BalanceRow]
  BY <1>1
<1>3. Conservation'
  BY <1>1, QuietConserves
<1>4. LedgerType'
  BY <1>2, LedgerTypeNext DEF IInv, LedgerType
<1>5. HoldInv'
  <2>1. \A d \in Call : /\ row'[d].state # "NONE" /\ row'[d].revision = 0 => row'[d].held >= Reserved
                        /\ row'[d].state = "SETTLED" => row'[d].revision > 0
                        /\ row'[d].revision > 0 => row'[d].state # "NONE"
    BY DEF IInv, HoldInv
  <2> QED
    BY <2>1 DEF HoldInv
<1>6. FreezeInv'
  <2>1. ASSUME NEW d \in Call, row'[d].state \in {"IN_DOUBT", "CONFLICT"}, NEW b \in BalancesOf(d)
        PROVE  balance'[b].state # "ACTIVE"
    <3>1. b \in Balance /\ d \in CallsOf(b) /\ row[d].state # "SETTLED"
      BY <2>1, Numbers DEF BalancesOf, CallsOf
    <3>2. balance[b].state # "ACTIVE"
      BY <2>1 DEF IInv, FreezeInv
    <3>3. s[b] = "ACTIVE" => balance[b].state = "ACTIVE"
      BY <3>1
    <3> QED
      BY <1>1, <3>1, <3>2, <3>3
  <2> QED
    BY <2>1 DEF FreezeInv, BalancesOf
<1>7. ActiveWithinCap'
  <2>1. ASSUME NEW b \in Balance, balance'[b].state = "ACTIVE"
        PROVE  balance'[b].settled + balance'[b].held <= Cap(b)
    <3>1. balance[b].state = "ACTIVE" \/ balance[b].settled + balance[b].held <= Cap(b)
      BY <1>1, <2>1
    <3>2. balance[b].settled + balance[b].held <= Cap(b)
      BY <3>1 DEF IInv, ActiveWithinCap
    <3> QED
      BY <1>1, <3>2
  <2> QED
    BY <2>1 DEF ActiveWithinCap, Balance, Cap
<1>8. ByDecision
  BY DEF ByDecision
<1> QED
  BY <1>3, <1>4, <1>5, <1>6, <1>7, <1>8 DEF Ledger

\* The evidence stays of reserved calls.
LEMMA EvidenceKeeps ==
  ASSUME IInv, endpoint' = endpoint, inventory' = inventory,
         \A d \in Call : row[d].state # "NONE" => row'[d].state # "NONE",
         \A d \in Call : row'[d].prefix <= Len(inventory[d]) /\ rec'[d].n <= Len(inventory[d]),
         \A d \in Call : rec'[d].pc # "idle" => row'[d].state # "NONE"
  PROVE  EvidenceInv'
<1>1. \A d \in Call :
        /\ endpoint'[d].known \/ endpoint'[d].marked \/ endpoint'[d].accepted => row'[d].state # "NONE"
        /\ inventory'[d] # <<>> \/ rec'[d].pc # "idle" => row'[d].state # "NONE"
        /\ rec'[d].n <= Len(inventory'[d]) /\ row'[d].prefix <= Len(inventory'[d])
  BY DEF IInv, EvidenceInv
<1> QED
  BY <1>1 DEF EvidenceInv

LEMMA EndsFacts ==
  ASSUME IInv, NEW c \in Call, NEW pc \in {"idle", "post", "done"}, Ends(c, pc)
  PROVE  /\ rec' \in [Call -> RecRow]
         /\ \A d \in Call : rec'[d].n <= Len(inventory[d]) /\ (d # c => rec'[d] = rec[d])
<1>1. \A d \in Call : rec[d] \in RecRow /\ rec[d].n <= Len(inventory[d]) /\ Len(inventory[d]) \in Nat
  BY DEF IInv, ProducerType, EvidenceInv
<1>2. PICK v : v = IF pc = "post" THEN [rec[c] EXCEPT !.pc = pc] ELSE [NoRec EXCEPT !.pc = pc]
  OBVIOUS
<1>3. rec' = [rec EXCEPT ![c] = v]
  BY <1>2 DEF Ends
<1>4. NoRec \in RecRow /\ NoRec.n = 0
  BY LedgerAssumption DEF NoRec, RecRow
<1>5. v \in RecRow /\ v.n <= Len(inventory[c])
  <2>1. CASE pc = "post"
    BY <1>1, <1>2, <2>1 DEF RecRow
  <2>2. CASE pc # "post"
    BY <1>1, <1>2, <1>4, <2>2 DEF RecRow
  <2> QED
    BY <2>1, <2>2
<1>6. rec \in [Call -> RecRow]
  BY DEF IInv, ProducerType
<1> QED
  BY <1>1, <1>3, <1>5, <1>6

\* A transaction of the ledger, by whom it may be.
LEMMA StoreStep ==
  ASSUME IInv, NEW c \in Call, row[c].state # "NONE", NEW w, Core(c, w), Calm(w), Store(c, w),
         UNCHANGED <<task, admission, producer, resume>>,
         \/ UNCHANGED rec
         \/ \E pc \in {"idle", "post", "done"} : Ends(c, pc)
  PROVE  IInv' /\ ByDecision
<1>1. Ledger'
  BY StoreLedger
<1>2. /\ row'[c] = w.row /\ (\A d \in Call : d # c => row'[d] = row[d])
  BY DEF Store, IInv, LedgerType
<1>3. /\ rec' \in [Call -> RecRow]
      /\ \A d \in Call : rec'[d].n <= Len(inventory[d]) /\ (d # c => rec'[d] = rec[d])
  <2>1. CASE UNCHANGED rec
    BY <2>1 DEF IInv, ProducerType, EvidenceInv
  <2>2. CASE \E pc \in {"idle", "post", "done"} : Ends(c, pc)
    BY <2>2, EndsFacts
  <2> QED
    BY <2>1, <2>2
<1>4. ProducerType'
  BY <1>3 DEF IInv, ProducerType, producer, Obs, EndpointRow, RecRow
<1>5. w.row.state # "NONE" /\ w.row.prefix <= Len(inventory[c])
  BY DEF Core, Keeps
<1>6. EvidenceInv'
  <2>1. endpoint' = endpoint /\ inventory' = inventory
    BY DEF producer
  <2>2. \A d \in Call : /\ row[d].state # "NONE" => row'[d].state # "NONE"
                        /\ row'[d].prefix <= Len(inventory[d]) /\ rec'[d].n <= Len(inventory[d])
                        /\ rec'[d].pc # "idle" => row'[d].state # "NONE"
    BY <1>2, <1>3, <1>5 DEF IInv, EvidenceInv
  <2> QED
    BY <2>1, <2>2, EvidenceKeeps
<1>7. ByDecision
  <2>1. Revises(c, w)
    BY DEF Core
  <2> QED
    BY <1>2, <2>1 DEF ByDecision, Revises
<1> QED
  BY <1>1, <1>4, <1>6, <1>7 DEF IInv, Ledger

\* reserve_v1: the reservation is held in both balances.
LEMMA ReserveStep ==
  ASSUME IInv, NEW c \in Call, Reserve(c)
  PROVE  IInv' /\ ByDecision
<1> DEFINE v == [NoRow EXCEPT !.state = "RESERVED", !.held = Reserved]
<1>1. /\ RowOK(v) /\ v.state = "RESERVED" /\ v.held = Reserved /\ v.actual = 0 /\ v.revision = 0 /\ v.prefix = 0
      /\ v.used = {}
  <2>1. PICK q : q = v
    OBVIOUS
  <2>2. /\ IsRow(q) /\ q.state = "RESERVED" /\ q.held = Reserved /\ q.actual = 0 /\ q.revision = 0 /\ q.gen = 1
        /\ q.closed = FALSE /\ q.cancelled = FALSE /\ q.seen = {} /\ q.open = {} /\ q.prefix = 0 /\ q.used = {}
    BY <2>1 DEF NoRow, IsRow, RowField
  <2>3. Reserved \in 0 .. MaxN /\ 0 \in 0 .. MaxN /\ 1 \in 1 .. MaxGen
    <3>1. balance[Account].settled + balance[Account].held + Reserved <= AccountCap
      BY DEF Reserve, BalancesOf, Cap
    <3>2. PICK a \in Nat, b \in Nat : a = balance[Account].settled /\ b = balance[Account].held
      BY Numbers
    <3> QED
      BY <3>1, <3>2, LedgerAssumption
  <2>4. RowOK(q)
    <3>1. q.closed \in BOOLEAN /\ q.cancelled \in BOOLEAN
      BY <2>2
    <3>2. q.seen \subseteq Tag /\ q.open \subseteq q.seen /\ q.used \subseteq 2 .. MaxGen
      BY <2>2
    <3>3. /\ q.state \in {"NONE", "RESERVED", "ADMITTED", "SEND_INTENT", "IN_DOUBT", "SETTLED", "CONFLICT"}
          /\ q.held \in 0 .. MaxN /\ q.actual \in 0 .. MaxN /\ q.revision \in Nat /\ q.gen \in 1 .. MaxGen
          /\ q.prefix \in Nat
      BY <2>2, <2>3
    <3> QED
      BY <2>2, <3>1, <3>2, <3>3 DEF RowOK
  <2> QED
    BY <2>1, <2>2, <2>4
<1> HIDE DEF v
<1>2. /\ row[c].state = "NONE" /\ row'[c] = v /\ (\A d \in Call : d # c => row'[d] = row[d])
      /\ row' = [d \in Call |-> row'[d]]
  BY DEF Reserve, v, IInv, LedgerType
<1>3. UNCHANGED <<task, admission, producer, rec, resume>>
  BY DEF Reserve
<1>4. ASSUME NEW b \in Balance, b \in BalancesOf(c)
      PROVE  /\ balance'[b] \in BalanceRow /\ balance'[b].held = balance[b].held + Reserved
             /\ balance'[b].settled = balance[b].settled /\ balance'[b].state = balance[b].state
             /\ balance'[b].settled + balance'[b].held <= Cap(b)
  <2>1. balance'[b] = [balance[b] EXCEPT !.held = @ + Reserved, !.calls = @ + 1]
    BY <1>4 DEF Reserve
  <2>2. balance[b].settled + balance[b].held + Reserved <= Cap(b) /\ balance[b].calls < CallCap
    BY <1>4 DEF Reserve
  <2>3. balance[b] \in BalanceRow /\ balance[b].held \in Nat /\ balance[b].settled \in Nat
    BY Numbers
  <2>4. balance[b].calls + 1 \in 0 .. CallCap
    <3>1. balance[b].calls \in Nat /\ CallCap \in Nat
      BY <2>3, LedgerAssumption DEF BalanceRow
    <3> QED
      BY <2>2, <3>1
  <2>5. balance[b].held + Reserved \in 0 .. MaxN
    <3>1. Cap(b) \in Nat /\ Cap(b) <= MaxN /\ MaxN \in Nat /\ Reserved \in Nat
      BY LedgerAssumption DEF Cap
    <3> QED
      BY <2>2, <2>3, <3>1
  <2>6. /\ balance'[b] \in BalanceRow /\ balance'[b].held = balance[b].held + Reserved
        /\ balance'[b].settled = balance[b].settled /\ balance'[b].state = balance[b].state
    BY <2>1, <2>3, <2>4, <2>5 DEF BalanceRow
  <2>7. balance[b].settled + (balance[b].held + Reserved) <= Cap(b)
    <3>1. Reserved \in Nat
      BY LedgerAssumption
    <3> QED
      BY <2>2, <2>3, <3>1
  <2> QED
    BY <2>6, <2>7
<1>5. ASSUME NEW b \in Balance, b \notin BalancesOf(c) PROVE balance'[b] = balance[b]
  BY <1>5 DEF Reserve
<1>6. balance' \in [Balance -> BalanceRow]
  <2>1. \A b \in Balance : balance'[b] \in BalanceRow
    BY <1>4, <1>5, Numbers
  <2>2. balance' = [b \in Balance |-> balance'[b]]
    BY DEF Reserve
  <2> QED
    BY <2>1, <2>2
<1>7. LedgerType'
  <2>1. \A d \in Call : RowOK(row'[d])
    BY <1>1, <1>2, Numbers
  <2> QED
    BY <1>2, <1>3, <1>6, <2>1, LedgerTypeNext DEF IInv, LedgerType
<1>8. HoldInv'
  <2>1. Reserved >= Reserved /\ ~(0 > 0)
    BY LedgerAssumption
  <2>2. \A d \in Call : /\ row'[d].state # "NONE" /\ row'[d].revision = 0 => row'[d].held >= Reserved
                        /\ row'[d].state = "SETTLED" => row'[d].revision > 0
                        /\ row'[d].revision > 0 => row'[d].state # "NONE"
    BY <1>1, <1>2, <2>1 DEF IInv, HoldInv
  <2> QED
    BY <2>2 DEF HoldInv
<1>9. FreezeInv'
  <2>1. ASSUME NEW d \in Call, row'[d].state \in {"IN_DOUBT", "CONFLICT"}, NEW b \in BalancesOf(d)
        PROVE  balance'[b].state # "ACTIVE"
    <3>1. d # c
      BY <1>1, <1>2, <2>1
    <3>2. balance[b].state # "ACTIVE" /\ b \in Balance
      BY <1>2, <2>1, <3>1, Numbers DEF IInv, FreezeInv, BalancesOf
    <3> QED
      BY <1>4, <1>5, <3>2
  <2> QED
    BY <1>3, <2>1 DEF FreezeInv, BalancesOf
<1>10. Conservation'
  <2>1. ASSUME NEW b \in Balance
        PROVE  /\ balance'[b].held = SumHeld(row', CallsOf(b)')
               /\ balance'[b].settled = SumActual(row', CallsOf(b)')
    <3>1. PICK S : S = CallsOf(b)
      OBVIOUS
    <3>2. /\ IsFiniteSet(S) /\ S \subseteq Call /\ c \notin S
          /\ balance[b].held = SumHeld(row, S) /\ balance[b].settled = SumActual(row, S)
          /\ \A x \in S : row[x].held \in Nat /\ row[x].actual \in Nat
      BY <1>2, <3>1, Numbers DEF CallsOf
    <3>3. \A x \in S : row'[x].held = row[x].held /\ row'[x].actual = row[x].actual
      BY <1>2, <3>2
    <3>4. CASE b \in BalancesOf(c)
      <4>1. CallsOf(b)' = S \cup {c}
        BY <1>1, <1>2, <1>3, <3>1, <3>4 DEF CallsOf, BalancesOf
      <4>2. \A x \in S \cup {c} : row'[x].held \in Nat /\ row'[x].actual \in Nat
        BY <1>1, <1>2, <3>2, <3>3, LedgerAssumption
      <4>3. SumHeld(row', S \cup {c}) = SumHeld(row, S) + row'[c].held /\ SumActual(row', S \cup {c}) = SumActual(row, S) + row'[c].actual
        <5>1. OneRowJoins(row, row', S, c)
          BY <3>2, <3>3, <4>2 DEF OneRowJoins
        <5> QED
          BY <5>1, SumsGrow
      <4>4. PICK x \in Nat, y \in Nat : x = balance[b].held /\ y = balance[b].settled
        BY Numbers
      <4>5. SumHeld(row', S \cup {c}) = x + Reserved /\ SumActual(row', S \cup {c}) = y + 0
        BY <1>1, <1>2, <3>2, <4>3, <4>4
      <4>6. balance'[b].held = x + Reserved /\ balance'[b].settled = y
        BY <1>4, <3>4, <4>4
      <4>7. y + 0 = y
        OBVIOUS
      <4> QED
        BY <4>1, <4>5, <4>6, <4>7
    <3>5. CASE b \notin BalancesOf(c)
      <4>1. CallsOf(b)' = S
        BY <1>1, <1>2, <1>3, <3>1, <3>5 DEF CallsOf, BalancesOf
      <4>2. SumHeld(row', S) = SumHeld(row, S) /\ SumActual(row', S) = SumActual(row, S)
        BY <3>2, <3>3, SumsSame
      <4> QED
        BY <1>5, <3>2, <3>5, <4>1, <4>2
    <3> QED
      BY <3>4, <3>5
  <2> QED
    BY <2>1, SumsConserve
<1>11. ActiveWithinCap'
  <2>1. ASSUME NEW b \in Balance, balance'[b].state = "ACTIVE"
        PROVE  balance'[b].settled + balance'[b].held <= Cap(b)
    BY <1>4, <1>5, <2>1 DEF IInv, ActiveWithinCap
  <2> QED
    BY <2>1 DEF ActiveWithinCap, Balance, Cap
<1>12. ProducerType'
  BY <1>3 DEF IInv, ProducerType, producer, Obs, EndpointRow, RecRow
<1>13. EvidenceInv'
  <2>1. endpoint' = endpoint /\ inventory' = inventory /\ rec' = rec
    BY <1>3 DEF producer
  <2>2. Len(inventory[c]) \in Nat
    BY DEF IInv, ProducerType
  <2>3. \A d \in Call : /\ row[d].state # "NONE" => row'[d].state # "NONE"
                        /\ row'[d].prefix <= Len(inventory[d]) /\ rec'[d].n <= Len(inventory[d])
                        /\ rec'[d].pc # "idle" => row'[d].state # "NONE"
    BY <1>1, <1>2, <2>1, <2>2 DEF IInv, EvidenceInv
  <2> QED
    BY <2>1, <2>3, EvidenceKeeps
<1>14. ByDecision
  <2>1. ~(row[c].revision > 0) /\ row[c].state # "CONFLICT"
    BY <1>2 DEF IInv, HoldInv
  <2> QED
    BY <1>2, <2>1 DEF ByDecision
<1> QED
  BY <1>7, <1>8, <1>9, <1>10, <1>11, <1>12, <1>13, <1>14 DEF IInv

LEMMA RivalStep ==
  ASSUME IInv, NEW c \in Call, ReserveRival(c)
  PROVE  IInv' /\ ByDecision
<1>1. PICK tag : tag = [reason |-> "CORE_CONFLICT", event |-> 0, revision |-> 0]
  OBVIOUS
<1>2. tag \in Tag
  BY <1>1 DEF Tag
<1>3. PICK w : w = Conflict(Work(c), tag, Plain("NONE"))
  OBVIOUS
<1>4. /\ row[c].state # "NONE" /\ Store(c, w) /\ UNCHANGED <<task, admission, producer, resume>>
      /\ UNCHANGED rec
  BY <1>1, <1>3 DEF ReserveRival
<1>5. Plain("NONE").usage # "known"
  BY DEF Plain
<1>6. Core(c, w) /\ Calm(w)
  BY <1>2, <1>3, <1>4, <1>5, WorkCore, ConflictCore
<1> QED
  BY <1>4, <1>6, StoreStep

LEMMA UnknownWork ==
  ASSUME IInv, NEW c \in Call, row[c].state # "NONE"
  PROVE  Core(c, Unknown(Work(c))) /\ Calm(Unknown(Work(c)))
BY WorkCore, UnknownCore

LEMMA MarkUnknownStep ==
  ASSUME IInv, NEW c \in Call, MarkUnknown(c)
  PROVE  IInv' /\ ByDecision
<1>1. PICK w : w = Unknown(Work(c))
  OBVIOUS
<1>2. /\ row[c].state # "NONE" /\ Store(c, w) /\ UNCHANGED <<task, admission, producer, resume>>
      /\ UNCHANGED rec
  BY <1>1 DEF MarkUnknown
<1> QED
  BY <1>1, <1>2, UnknownWork, StoreStep

LEMMA ReconcileAbortStep ==
  ASSUME IInv, NEW c \in Call, ReconcileAbort(c)
  PROVE  IInv' /\ ByDecision
<1>1. PICK w : w = Unknown(Work(c))
  OBVIOUS
<1>2. row[c].state # "NONE"
  BY DEF ReconcileAbort, IInv, EvidenceInv
<1>3. PICK pc \in {"idle", "post", "done"} : Ends(c, pc)
  BY DEF ReconcileAbort
<1>4. Store(c, w) /\ UNCHANGED <<task, admission, producer, resume>>
  BY <1>1 DEF ReconcileAbort
<1> QED
  BY <1>1, <1>2, <1>3, <1>4, UnknownWork, StoreStep

LEMMA ReconcileAfterStep ==
  ASSUME IInv, NEW c \in Call, ReconcileAfter(c)
  PROVE  IInv' /\ ByDecision
<1>1. PICK w : w = Unknown(Work(c))
  OBVIOUS
<1>2. row[c].state # "NONE"
  BY DEF ReconcileAfter, IInv, EvidenceInv
<1>3. PICK pc \in {"idle", "post", "done"} : Ends(c, pc)
  BY DEF ReconcileAfter
<1>4. UNCHANGED <<task, admission, producer, resume>>
  BY DEF ReconcileAfter
<1>5. CASE Changed(c)
  <2>1. Store(c, w)
    BY <1>1, <1>5 DEF ReconcileAfter
  <2> QED
    BY <1>1, <1>2, <1>3, <1>4, <2>1, UnknownWork, StoreStep
<1>6. CASE ~Changed(c)
  <2>1. row' = row /\ balance' = balance /\ task' = task /\ endpoint' = endpoint /\ inventory' = inventory
    BY <1>4, <1>6 DEF ReconcileAfter, ledger, producer
  <2>2. Ledger' /\ ByDecision
    BY <2>1, SameLedger
  <2>3. /\ rec' \in [Call -> RecRow]
        /\ \A d \in Call : rec'[d].n <= Len(inventory[d]) /\ (d # c => rec'[d] = rec[d])
    BY <1>3, EndsFacts
  <2>4. ProducerType'
    BY <1>4, <2>3 DEF IInv, ProducerType, producer, Obs, EndpointRow, RecRow
  <2>5. EvidenceInv'
    <3>1. \A d \in Call : /\ row'[d].prefix <= Len(inventory[d]) /\ rec'[d].n <= Len(inventory[d])
                          /\ rec'[d].pc # "idle" => row'[d].state # "NONE"
      BY <1>2, <2>1, <2>3 DEF IInv, EvidenceInv
    <3> QED
      BY <2>1, <3>1, EvidenceKeeps
  <2> QED
    BY <2>2, <2>4, <2>5 DEF IInv, Ledger
<1> QED
  BY <1>5, <1>6

\* The transaction of reconcile_v1, by the run or a recovery context.
LEMMA TransactionWork ==
  ASSUME IInv, NEW c \in Call, row[c].state # "NONE", Owner(c), NEW named \in BOOLEAN,
         NEW sel, NEW at \in Moments(c)
  PROVE  LET w == Transaction(c, HazardPass(c, rec[c].n, named), sel, at) IN Core(c, w) /\ Calm(w)
<1>1. PICK n \in Nat : n = rec[c].n
  BY DEF IInv, ProducerType, RecRow
<1>2. n <= Len(inventory[c])
  BY <1>1 DEF IInv, EvidenceInv
<1>3. PICK first : first = HazardPass(c, n, named)
  OBVIOUS
<1>4. Core(c, first) /\ Calm(first)
  BY <1>2, <1>3, HazardPassKeeps
<1>5. at \in Nat
  BY <1>1 DEF Moments
<1> QED
  BY <1>1, <1>3, <1>4, <1>5, TransactionKeeps

LEMMA RunCommitStep ==
  ASSUME IInv, NEW c \in Call, RunCommit(c)
  PROVE  IInv' /\ ByDecision
<1>1. row[c].state # "NONE" /\ Owner(c)
  BY DEF RunCommit, IInv, EvidenceInv
<1>2. PICK at \in Moments(c) :
        LET w == Transaction(c, HazardPass(c, rec[c].n, FALSE), 1 .. rec[c].n, at)
        IN IF w.failed THEN Store(c, Unknown(Work(c))) /\ Ends(c, "done")
           ELSE Store(c, w) /\ Ends(c, IF w.found THEN "idle" ELSE "post")
  BY DEF RunCommit
<1>3. PICK w : w = Transaction(c, HazardPass(c, rec[c].n, FALSE), 1 .. rec[c].n, at)
  OBVIOUS
<1>4. Core(c, w) /\ Calm(w)
  <2>1. PICK named \in BOOLEAN : named = FALSE
    OBVIOUS
  <2> QED
    BY <1>1, <1>3, <2>1, TransactionWork
<1>5. PICK u : u = Unknown(Work(c))
  OBVIOUS
<1>6. Core(c, u) /\ Calm(u)
  BY <1>1, <1>5, UnknownWork
<1>7. PICK v \in {u, w} : Store(c, v)
  BY <1>2, <1>3, <1>5
<1>8. PICK pc \in {"idle", "post", "done"} : Ends(c, pc)
  BY <1>2
<1>9. UNCHANGED <<task, admission, producer, resume>>
  BY DEF RunCommit
<1>10. Core(c, v) /\ Calm(v)
  BY <1>4, <1>6
<1> QED
  BY <1>1, <1>7, <1>8, <1>9, <1>10, StoreStep

LEMMA RecoveryCommitStep ==
  ASSUME IInv, NEW c \in Call, RecoveryCommit(c)
  PROVE  IInv' /\ ByDecision
<1>1. row[c].state # "NONE" /\ Owner(c)
  BY DEF RecoveryCommit, IInv, EvidenceInv
<1>2. PICK named \in BOOLEAN, sel \in SUBSET (1 .. rec[c].n) \ {{}}, at \in Moments(c) :
        LET w == Transaction(c, HazardPass(c, rec[c].n, named), sel, at)
        IN /\ ~w.failed
           /\ Store(c, w)
           /\ Ends(c, IF w.found THEN "idle" ELSE "post")
  BY DEF RecoveryCommit
<1>3. PICK w : w = Transaction(c, HazardPass(c, rec[c].n, named), sel, at)
  OBVIOUS
<1>4. Core(c, w) /\ Calm(w)
  BY <1>1, <1>3, TransactionWork
<1>5. Store(c, w)
  BY <1>2, <1>3
<1>6. PICK pc \in {"idle", "post", "done"} : Ends(c, pc)
  BY <1>2
<1>7. UNCHANGED <<task, admission, producer, resume>>
  BY DEF RecoveryCommit
<1> QED
  BY <1>1, <1>4, <1>5, <1>6, <1>7, StoreStep

\* One field of a row, or its owner, changes.
LEMMA RowFields ==
  ASSUME NEW r, RowOK(r), NEW v,
         \/ \E s \in {"ADMITTED", "SEND_INTENT"} : v = [r EXCEPT !.state = s]
         \/ v = [r EXCEPT !.closed = TRUE]
         \/ r.gen + 1 \in 1 .. MaxGen /\ v = [r EXCEPT !.gen = @ + 1, !.closed = TRUE]
         \/ v = [r EXCEPT !.cancelled = TRUE]
  PROVE  /\ RowOK(v) /\ v.held = r.held /\ v.actual = r.actual /\ v.revision = r.revision /\ v.prefix = r.prefix
         /\ v.state = r.state \/ v.state \in {"ADMITTED", "SEND_INTENT"}
         /\ v = [r EXCEPT !.cancelled = TRUE] => v.state = r.state
         /\ v = [r EXCEPT !.closed = TRUE] => v.state = r.state
         /\ v = [r EXCEPT !.gen = @ + 1, !.closed = TRUE] => v.state = r.state
<1>1. IsRow(r)
  BY DEF RowOK
<1>2. CASE \E s \in {"ADMITTED", "SEND_INTENT"} : v = [r EXCEPT !.state = s]
  <2>1. PICK s \in {"ADMITTED", "SEND_INTENT"} : v = [r EXCEPT !.state = s]
    BY <1>2
  <2>2. /\ IsRow(v) /\ v.held = r.held /\ v.state = s /\ v.actual = r.actual
        /\ v.revision = r.revision /\ v.gen = r.gen /\ v.closed = r.closed /\ v.cancelled = r.cancelled
        /\ v.seen = r.seen /\ v.open = r.open /\ v.prefix = r.prefix /\ v.used = r.used
    BY <1>1, <2>1 DEF IsRow, RowField
  <2>3. RowOK(v)
    BY <2>2 DEF RowOK
  <2>4. /\ v = [r EXCEPT !.cancelled = TRUE] => v.state = r.state
        /\ v = [r EXCEPT !.closed = TRUE] => v.state = r.state
        /\ v = [r EXCEPT !.gen = @ + 1, !.closed = TRUE] => v.state = r.state
    BY <1>1 DEF IsRow, RowField
  <2> QED
    BY <2>2, <2>3, <2>4
<1>3. CASE v = [r EXCEPT !.closed = TRUE]
  <2>1. /\ IsRow(v) /\ v.held = r.held /\ v.state = r.state /\ v.actual = r.actual
        /\ v.revision = r.revision /\ v.gen = r.gen /\ v.closed = TRUE /\ v.cancelled = r.cancelled
        /\ v.seen = r.seen /\ v.open = r.open /\ v.prefix = r.prefix /\ v.used = r.used
    BY <1>1, <1>3 DEF IsRow, RowField
  <2>2. RowOK(v)
    BY <2>1 DEF RowOK
  <2> QED
    BY <2>1, <2>2
<1>4. CASE r.gen + 1 \in 1 .. MaxGen /\ v = [r EXCEPT !.gen = @ + 1, !.closed = TRUE]
  <2>1. /\ IsRow(v) /\ v.held = r.held /\ v.state = r.state /\ v.actual = r.actual
        /\ v.revision = r.revision /\ v.gen = r.gen + 1 /\ v.closed = TRUE /\ v.cancelled = r.cancelled
        /\ v.seen = r.seen /\ v.open = r.open /\ v.prefix = r.prefix /\ v.used = r.used
    BY <1>1, <1>4 DEF IsRow, RowField
  <2>2. RowOK(v)
    BY <1>4, <2>1 DEF RowOK
  <2> QED
    BY <2>1, <2>2
<1>5. CASE v = [r EXCEPT !.cancelled = TRUE]
  <2>1. /\ IsRow(v) /\ v.held = r.held /\ v.state = r.state /\ v.actual = r.actual
        /\ v.revision = r.revision /\ v.gen = r.gen /\ v.closed = r.closed /\ v.cancelled = TRUE
        /\ v.seen = r.seen /\ v.open = r.open /\ v.prefix = r.prefix /\ v.used = r.used
    BY <1>1, <1>5 DEF IsRow, RowField
  <2>2. RowOK(v)
    BY <2>1 DEF RowOK
  <2> QED
    BY <2>1, <2>2
<1> QED
  BY <1>2, <1>3, <1>4, <1>5

\* The rest of the invariant, when only a row and an admission change.
LEMMA RowStepInv ==
  ASSUME IInv, NEW c \in Call, NEW v, row' = [row EXCEPT ![c] = v], v.state # "NONE", v.prefix = row[c].prefix,
         endpoint' \in [Call -> EndpointRow],
         \A d \in Call : \/ endpoint'[d] = endpoint[d]
                         \/ d = c,
         inventory' = inventory, coverage' = coverage, resume' = resume,
         rec' = rec \/ rec' = [rec EXCEPT ![c] = NoRec],
         admission' \in [Call -> {"none", "open", "closed"}]
  PROVE  ProducerType' /\ EvidenceInv'
<1>1. row'[c] = v /\ \A d \in Call : d # c => row'[d] = row[d]
  BY DEF IInv, LedgerType
<1>2. NoRec \in RecRow /\ NoRec.n = 0
  BY LedgerAssumption DEF NoRec, RecRow
<1>3. /\ rec' \in [Call -> RecRow]
      /\ \A d \in Call : rec'[d].n <= Len(inventory[d]) /\ (d # c => rec'[d] = rec[d])
  <2>1. rec \in [Call -> RecRow]
    BY DEF IInv, ProducerType
  <2>2. \A d \in Call : rec[d].n <= Len(inventory[d]) /\ Len(inventory[d]) \in Nat
    BY DEF IInv, ProducerType, EvidenceInv
  <2>3. CASE rec' = rec
    BY <2>1, <2>2, <2>3
  <2>4. CASE rec' = [rec EXCEPT ![c] = NoRec]
    <3>1. rec' \in [Call -> RecRow] /\ rec'[c] = NoRec /\ \A d \in Call : d # c => rec'[d] = rec[d]
      BY <1>2, <2>1, <2>4
    <3>2. 0 <= Len(inventory[c])
      BY <2>2
    <3> QED
      BY <1>2, <2>2, <3>1, <3>2
  <2> QED
    BY <2>3, <2>4
<1>4. ProducerType'
  BY <1>3 DEF IInv, ProducerType, Obs, EndpointRow, RecRow
<1>5. \A d \in Call :
        /\ endpoint'[d].known \/ endpoint'[d].marked \/ endpoint'[d].accepted => row'[d].state # "NONE"
        /\ inventory'[d] # <<>> \/ rec'[d].pc # "idle" => row'[d].state # "NONE"
        /\ rec'[d].n <= Len(inventory'[d]) /\ row'[d].prefix <= Len(inventory'[d])
  BY <1>1, <1>3 DEF IInv, EvidenceInv
<1> QED
  BY <1>4, <1>5 DEF EvidenceInv

LEMMA AdmitStep ==
  ASSUME IInv, NEW c \in Call, Admit(c)
  PROVE  IInv' /\ ByDecision
<1>1. PICK v : v = [row[c] EXCEPT !.state = "ADMITTED"]
  OBVIOUS
<1>2. row' = [row EXCEPT ![c] = v] /\ task' = task /\ balance' = balance /\ row[c].state = "RESERVED"
  BY <1>1 DEF Admit
<1>3. RowOK(row[c])
  BY Numbers
<1>4. v.state = "ADMITTED"
  BY <1>1, <1>3 DEF RowOK, IsRow, RowField
<1>5. RowOK(v) /\ v.held = row[c].held /\ v.actual = row[c].actual /\ v.revision = row[c].revision /\ v.prefix = row[c].prefix
  BY <1>1, <1>3, RowFields
<1>6. Ledger' /\ ByDecision
  BY <1>2, <1>4, <1>5, RowStep
<1>7. admission' \in [Call -> {"none", "open", "closed"}]
  BY DEF Admit, IInv, ProducerType
<1>8. /\ endpoint' \in [Call -> EndpointRow] /\ endpoint' = endpoint /\ inventory' = inventory
      /\ coverage' = coverage /\ resume' = resume /\ rec' = rec
  BY DEF Admit, IInv, ProducerType, producer
<1>9. ProducerType' /\ EvidenceInv'
  BY <1>2, <1>4, <1>5, <1>7, <1>8, RowStepInv
<1> QED
  BY <1>6, <1>9 DEF IInv, Ledger

LEMMA MarkStep ==
  ASSUME IInv, NEW c \in Call, Mark(c)
  PROVE  IInv' /\ ByDecision
<1>1. PICK v : v = [row[c] EXCEPT !.state = "SEND_INTENT"]
  OBVIOUS
<1>2. row' = [row EXCEPT ![c] = v] /\ task' = task /\ balance' = balance /\ row[c].state = "ADMITTED"
  BY <1>1 DEF Mark
<1>3. RowOK(row[c])
  BY Numbers
<1>4. v.state = "SEND_INTENT"
  BY <1>1, <1>3 DEF RowOK, IsRow, RowField
<1>5. RowOK(v) /\ v.held = row[c].held /\ v.actual = row[c].actual /\ v.revision = row[c].revision /\ v.prefix = row[c].prefix
  BY <1>1, <1>3, RowFields
<1>6. Ledger' /\ ByDecision
  BY <1>2, <1>4, <1>5, RowStep
<1>7. endpoint' \in [Call -> EndpointRow] /\ \A d \in Call : d # c => endpoint'[d] = endpoint[d]
  <2>1. endpoint \in [Call -> EndpointRow]
    BY DEF IInv, ProducerType
  <2>2. endpoint' = [endpoint EXCEPT ![c] = [endpoint[c] EXCEPT !.marked = TRUE]]
    BY DEF Mark
  <2>3. [endpoint[c] EXCEPT !.marked = TRUE] \in EndpointRow
    BY <2>1 DEF EndpointRow
  <2> QED
    BY <2>1, <2>2, <2>3
<1>8. /\ inventory' = inventory /\ coverage' = coverage /\ resume' = resume /\ rec' = rec
      /\ admission' \in [Call -> {"none", "open", "closed"}]
  BY DEF Mark, IInv, ProducerType
<1>9. ProducerType' /\ EvidenceInv'
  BY <1>2, <1>4, <1>5, <1>7, <1>8, RowStepInv
<1> QED
  BY <1>6, <1>9 DEF IInv, Ledger

LEMMA FinishStep ==
  ASSUME IInv, NEW c \in Call, Finish(c)
  PROVE  IInv' /\ ByDecision
<1>1. PICK v : v = [row[c] EXCEPT !.closed = TRUE]
  OBVIOUS
<1>2. row' = [row EXCEPT ![c] = v] /\ task' = task /\ balance' = balance
  BY <1>1 DEF Finish
<1>3. RowOK(row[c]) /\ row[c].state # "NONE"
  BY Numbers DEF Finish, IInv, EvidenceInv
<1>4. /\ RowOK(v) /\ v.held = row[c].held /\ v.actual = row[c].actual /\ v.revision = row[c].revision
      /\ v.prefix = row[c].prefix /\ v.state = row[c].state
  BY <1>1, <1>3, RowFields
<1>5. Ledger' /\ ByDecision
  BY <1>2, <1>3, <1>4, RowStep
<1>6. admission' \in [Call -> {"none", "open", "closed"}]
  BY DEF Finish, IInv, ProducerType
<1>7. /\ endpoint' \in [Call -> EndpointRow] /\ endpoint' = endpoint /\ inventory' = inventory
      /\ coverage' = coverage /\ resume' = resume /\ rec' = [rec EXCEPT ![c] = NoRec]
  BY DEF Finish, IInv, ProducerType, producer
<1>8. ProducerType' /\ EvidenceInv'
  BY <1>2, <1>3, <1>4, <1>6, <1>7, RowStepInv
<1> QED
  BY <1>5, <1>8 DEF IInv, Ledger

LEMMA RecoverCallStep ==
  ASSUME IInv, NEW c \in Call, RecoverCall(c)
  PROVE  IInv' /\ ByDecision
<1>1. PICK v : v = [row[c] EXCEPT !.gen = @ + 1, !.closed = TRUE]
  OBVIOUS
<1>2. row' = [row EXCEPT ![c] = v] /\ task' = task /\ balance' = balance /\ row[c].state # "NONE"
  <2>1. row = [d \in Call |-> row[d]] /\ IsRow(row[c])
    BY DEF IInv, LedgerType, RowOK
  <2>2. row' = [row EXCEPT ![c] = [[row[c] EXCEPT !.gen = @ + 1] EXCEPT !.closed = TRUE]]
    BY <2>1 DEF RecoverCall
  <2>3. v = [[row[c] EXCEPT !.gen = @ + 1] EXCEPT !.closed = TRUE]
    BY <1>1
  <2> QED
    BY <2>2, <2>3 DEF RecoverCall
<1>3. RowOK(row[c]) /\ row[c].gen + 1 \in 1 .. MaxGen
  <2>1. row[c].gen < MaxGen /\ RowOK(row[c])
    BY Numbers DEF RecoverCall
  <2>2. row[c].gen \in 1 .. MaxGen /\ MaxGen \in Nat
    BY <2>1, LedgerAssumption DEF RowOK
  <2> QED
    BY <2>1, <2>2
<1>4. /\ RowOK(v) /\ v.held = row[c].held /\ v.actual = row[c].actual /\ v.revision = row[c].revision
      /\ v.prefix = row[c].prefix /\ v.state = row[c].state
  BY <1>1, <1>3, RowFields
<1>5. Ledger' /\ ByDecision
  BY <1>2, <1>3, <1>4, RowStep
<1>6. admission' \in [Call -> {"none", "open", "closed"}]
  BY DEF RecoverCall, IInv, ProducerType
<1>7. /\ endpoint' \in [Call -> EndpointRow] /\ endpoint' = endpoint /\ inventory' = inventory
      /\ coverage' = coverage /\ resume' = resume /\ rec' = rec
  BY DEF RecoverCall, IInv, ProducerType, producer
<1>8. ProducerType' /\ EvidenceInv'
  BY <1>2, <1>4, <1>6, <1>7, RowStepInv
<1> QED
  BY <1>5, <1>8 DEF IInv, Ledger

LEMMA QuietRest ==
  ASSUME IInv, \A d \in Call : row'[d].state = row[d].state /\ row'[d].prefix = row[d].prefix,
         admission' = admission, producer' = producer, rec' = rec,
         resume' \in [on : BOOLEAN, rows : SUBSET Call]
  PROVE  ProducerType' /\ EvidenceInv'
<1>1. ProducerType'
  BY DEF IInv, ProducerType, producer, Obs, EndpointRow, RecRow
<1>2. endpoint' = endpoint /\ inventory' = inventory
  BY DEF producer
<1>3. \A d \in Call : /\ row'[d].prefix <= Len(inventory[d]) /\ rec'[d].n <= Len(inventory[d])
                      /\ rec'[d].pc # "idle" => row'[d].state # "NONE"
  BY DEF IInv, EvidenceInv
<1> QED
  BY <1>1, <1>2, <1>3, EvidenceKeeps

LEMMA StateOnly ==
  ASSUME NEW b \in BalanceRow
  PROVE  /\ [b EXCEPT !.state = b.state] = b /\ b.state \in BalanceState
         /\ Freeze(b.state) \in BalanceState /\ Freeze(b.state) # "ACTIVE"
BY DEF BalanceRow, BalanceState, Freeze

LEMMA CancelStep ==
  ASSUME IInv, NEW c \in Call, Cancel(c)
  PROVE  IInv' /\ ByDecision
<1> DEFINE s == [b \in Balance |-> IF b = task[c] THEN "CANCELLED" ELSE balance[b].state]
<1>1. /\ UNCHANGED <<task, admission, producer, rec, resume>>
      /\ row' = [d \in Call |-> IF d \in CallsOf(task[c]) THEN [row[d] EXCEPT !.cancelled = TRUE] ELSE row[d]]
      /\ balance' = [balance EXCEPT ![task[c]].state = "CANCELLED"]
  BY DEF Cancel
<1>2. ASSUME NEW d \in Call
      PROVE  /\ RowOK(row'[d]) /\ row'[d].state = row[d].state /\ row'[d].held = row[d].held
             /\ row'[d].actual = row[d].actual /\ row'[d].revision = row[d].revision /\ row'[d].prefix = row[d].prefix
  <2>1. RowOK(row[d])
    BY Numbers
  <2>2. row'[d] = row[d] \/ row'[d] = [row[d] EXCEPT !.cancelled = TRUE]
    BY <1>1
  <2> QED
    BY ZenonT(40), <2>1, <2>2, RowFields
<1>3. balance' = [b \in Balance |-> [balance[b] EXCEPT !.state = s[b]]]
  <2>1. \A b \in Balance : balance[b] \in BalanceRow /\ [balance[b] EXCEPT !.state = balance[b].state] = balance[b]
    BY Numbers, StateOnly
  <2>2. balance = [b \in Balance |-> balance[b]] /\ task[c] \in Balance
    BY Numbers DEF IInv, LedgerType
  <2>3. \A b \in Balance : balance'[b] = [balance[b] EXCEPT !.state = s[b]]
    BY <1>1, <2>1, <2>2
  <2>4. balance' = [b \in Balance |-> balance'[b]]
    BY <1>1, <2>2
  <2> QED
    BY <2>3, <2>4
<1>4. \A b \in Balance : s[b] \in BalanceState /\ (s[b] = "ACTIVE" => balance[b].state = "ACTIVE")
  <2>1. \A b \in Balance : balance[b].state \in BalanceState
    BY Numbers, StateOnly
  <2> QED
    BY <2>1 DEF BalanceState
<1> HIDE DEF s
<1>5. row' = [d \in Call |-> row'[d]]
  BY <1>1
<1>6. Ledger' /\ ByDecision
  BY <1>1, <1>2, <1>3, <1>4, <1>5, BalanceStep
<1>7. resume' \in [on : BOOLEAN, rows : SUBSET Call]
  BY <1>1 DEF IInv, ProducerType
<1>8. ProducerType' /\ EvidenceInv'
  BY <1>1, <1>2, <1>7, QuietRest
<1> QED
  BY <1>6, <1>8 DEF IInv, Ledger

\* Steps that change the states of balances and nothing else of the ledger.
LEMMA StatesStep ==
  ASSUME IInv, UNCHANGED <<task, row, admission, producer, rec>>,
         resume' \in [on : BOOLEAN, rows : SUBSET Call],
         NEW s, \A b \in Balance : s[b] \in BalanceState,
         balance' = [b \in Balance |-> [balance[b] EXCEPT !.state = s[b]]],
         \A b \in Balance : \/ s[b] = "ACTIVE" => balance[b].state = "ACTIVE"
                            \/ /\ balance[b].settled + balance[b].held <= Cap(b)
                               /\ \A d \in CallsOf(b) : row[d].state = "SETTLED"
  PROVE  IInv' /\ ByDecision
<1>1. /\ row' = [d \in Call |-> row'[d]]
      /\ \A d \in Call : /\ RowOK(row'[d]) /\ row'[d].state = row[d].state /\ row'[d].held = row[d].held
                         /\ row'[d].actual = row[d].actual /\ row'[d].revision = row[d].revision
                         /\ row'[d].prefix = row[d].prefix
  BY DEF IInv, LedgerType
<1>2. Ledger' /\ ByDecision
  BY <1>1, BalanceStep
<1>3. ProducerType' /\ EvidenceInv'
  BY <1>1, QuietRest
<1> QED
  BY <1>2, <1>3 DEF IInv, Ledger

LEMMA InventoryStep ==
  ASSUME IInv, Inventory
  PROVE  IInv' /\ ByDecision
<1> DEFINE Stops(b) == Mismatch \/ \E c \in CallsOf(b) : row[c].state # "SETTLED" \/ Doubted(c)
           s == [b \in Balance |-> IF Stops(b) THEN Freeze(balance[b].state) ELSE balance[b].state]
<1>1. \A b \in Balance : /\ [balance[b] EXCEPT !.state = balance[b].state] = balance[b]
                         /\ balance[b].state \in BalanceState
                         /\ Freeze(balance[b].state) \in BalanceState /\ Freeze(balance[b].state) # "ACTIVE"
  BY Numbers, StateOnly
<1>2. balance' = [b \in Balance |-> IF Stops(b) THEN [balance[b] EXCEPT !.state = Freeze(@)] ELSE balance[b]]
  BY DEF Inventory
<1> HIDE DEF Stops
<1>3. balance' = [b \in Balance |-> [balance[b] EXCEPT !.state = s[b]]]
  BY <1>1, <1>2
<1>4. \A b \in Balance : s[b] \in BalanceState /\ (s[b] = "ACTIVE" => balance[b].state = "ACTIVE")
  BY <1>1
<1>5. resume' \in [on : BOOLEAN, rows : SUBSET Call]
  <2>1. NoResume \in [on : BOOLEAN, rows : SUBSET Call]
    BY DEF NoResume
  <2>2. [on |-> TRUE, rows |-> {c \in Call : row[c].state # "NONE"}] \in [on : BOOLEAN, rows : SUBSET Call]
    OBVIOUS
  <2> QED
    BY <2>1, <2>2 DEF Inventory
<1>6. UNCHANGED <<task, row, admission, producer, rec>>
  BY DEF Inventory
<1> HIDE DEF s
<1> QED
  BY <1>3, <1>4, <1>5, <1>6, StatesStep

LEMMA ResumeStep ==
  ASSUME IInv, NEW S, Resume(S)
  PROVE  IInv' /\ ByDecision
<1> DEFINE s == [b \in Balance |-> IF b \in S THEN "ACTIVE" ELSE balance[b].state]
<1>1. \A b \in Balance : /\ [balance[b] EXCEPT !.state = balance[b].state] = balance[b]
                         /\ balance[b].state \in BalanceState
  BY Numbers, StateOnly
<1>2. balance' = [b \in Balance |-> IF b \in S THEN [balance[b] EXCEPT !.state = "ACTIVE"] ELSE balance[b]]
  BY DEF Resume
<1>3. balance' = [b \in Balance |-> [balance[b] EXCEPT !.state = s[b]]]
  BY <1>1, <1>2
<1>4. \A b \in Balance : s[b] \in BalanceState
  BY <1>1 DEF BalanceState
<1>5. ASSUME NEW b \in Balance
      PROVE  \/ s[b] = "ACTIVE" => balance[b].state = "ACTIVE"
             \/ /\ balance[b].settled + balance[b].held <= Cap(b)
                /\ \A d \in CallsOf(b) : row[d].state = "SETTLED"
  <2>1. CASE b \in S
    <3>1. balance[b].held = 0 /\ balance[b].settled <= Cap(b) /\ \A d \in CallsOf(b) : row[d].state = "SETTLED"
      BY <2>1 DEF Resume, Resumable
    <3>2. balance[b].settled \in Nat
      BY Numbers
    <3> QED
      BY <3>1, <3>2
  <2>2. CASE b \notin S
    BY <2>2
  <2> QED
    BY <2>1, <2>2
<1>6. resume' \in [on : BOOLEAN, rows : SUBSET Call]
  BY DEF Resume, NoResume
<1>7. UNCHANGED <<task, row, admission, producer, rec>>
  BY DEF Resume
<1> HIDE DEF s
<1> QED
  BY <1>3, <1>4, <1>5, <1>6, <1>7, StatesStep

LEMMA PauseAdmissionStep ==
  ASSUME IInv, PauseAdmission
  PROVE  IInv' /\ ByDecision
<1> DEFINE s == [b \in Balance |-> Freeze(balance[b].state)]
<1>1. \A b \in Balance : Freeze(balance[b].state) \in BalanceState /\ Freeze(balance[b].state) # "ACTIVE"
  BY Numbers, StateOnly
<1>2. balance' = [b \in Balance |-> [balance[b] EXCEPT !.state = s[b]]]
  BY DEF PauseAdmission
<1>3. \A b \in Balance : s[b] \in BalanceState /\ (s[b] = "ACTIVE" => balance[b].state = "ACTIVE")
  BY <1>1
<1>4. UNCHANGED <<task, row, admission, producer, rec>> /\ resume' \in [on : BOOLEAN, rows : SUBSET Call]
  BY DEF PauseAdmission, IInv, ProducerType
<1> HIDE DEF s
<1> QED
  BY <1>2, <1>3, <1>4, StatesStep

\* Steps of the producer and the bookkeeping of reconciliations.
LEMMA EvidenceStep ==
  ASSUME IInv, UNCHANGED <<task, ledger>>, NEW c \in Call, row[c].state # "NONE",
         NEW q \in Seq(Obs), Len(inventory[c]) <= Len(q), inventory' = [inventory EXCEPT ![c] = q],
         endpoint' \in [Call -> EndpointRow], \A d \in Call : d # c => endpoint'[d] = endpoint[d],
         UNCHANGED <<admission, coverage, rec, resume>>
  PROVE  IInv' /\ ByDecision
<1>1. row' = row /\ balance' = balance
  BY DEF ledger
<1>2. Ledger' /\ ByDecision
  BY <1>1, SameLedger
<1>3. inventory \in [Call -> Seq(Obs)]
  BY DEF IInv, ProducerType
<1>4. /\ inventory' \in [Call -> Seq(Obs)] /\ inventory'[c] = q
      /\ \A d \in Call : d # c => inventory'[d] = inventory[d]
  BY <1>3
<1>5. Len(inventory[c]) <= Len(q) /\ Len(q) \in Nat /\ Len(inventory[c]) \in Nat
  BY <1>3
<1>6. ProducerType'
  BY <1>4 DEF IInv, ProducerType, Obs, EndpointRow, RecRow
<1>7. \A d \in Call : rec[d].n \in Nat /\ row[d].prefix \in Nat
  BY Numbers DEF IInv, ProducerType, RecRow, RowOK
<1>8. \A d \in Call : rec'[d].n <= Len(inventory'[d]) /\ row'[d].prefix <= Len(inventory'[d])
  <2>1. rec[c].n <= Len(q) /\ row[c].prefix <= Len(q)
    <3>1. rec[c].n <= Len(inventory[c]) /\ row[c].prefix <= Len(inventory[c])
      BY DEF IInv, EvidenceInv
    <3> QED
      BY <1>5, <1>7, <3>1
  <2> QED
    BY <1>1, <1>4, <2>1 DEF IInv, EvidenceInv
<1>9. \A d \in Call :
        /\ endpoint'[d].known \/ endpoint'[d].marked \/ endpoint'[d].accepted => row'[d].state # "NONE"
        /\ inventory'[d] # <<>> \/ rec'[d].pc # "idle" => row'[d].state # "NONE"
  BY <1>1, <1>4 DEF IInv, EvidenceInv
<1>10. EvidenceInv'
  BY <1>8, <1>9 DEF EvidenceInv
<1> QED
  BY <1>2, <1>6, <1>10 DEF IInv, Ledger

LEMMA Observations ==
  /\ Plain("WRITE") \in Obs /\ Plain("CLOSED") \in Obs /\ Zero \in Obs
  /\ \A f \in Final : Event("FINAL", f) \in Obs /\ Event("CONFLICT", f) \in Obs
<1>1. ASSUME NEW k \in {"FINAL", "CONFLICT", "WRITE", "CLOSED", "ZERO"},
             NEW u \in {"known", "unknown", "overflow", "none"}, NEW n \in Nat, NEW p \in BOOLEAN,
             k \in {"FINAL", "ZERO"} => u # "none"
      PROVE  [kind |-> k, usage |-> u, n |-> n, proved |-> p] \in Obs
  BY <1>1 DEF Obs
<1>2. Plain("WRITE") \in Obs /\ Plain("CLOSED") \in Obs /\ Zero \in Obs
  <2>1. PICK p \in BOOLEAN : p = TRUE
    OBVIOUS
  <2> QED
    BY <1>1, <2>1 DEF Plain, Zero
<1>3. ASSUME NEW f \in Final, NEW k \in {"FINAL", "CONFLICT"} PROVE Event(k, f) \in Obs
  <2>1. f.usage \in {"known", "unknown", "overflow"} /\ f.n \in Nat /\ f.proved \in BOOLEAN
    BY LedgerAssumption
  <2> QED
    BY <1>1, <2>1 DEF Event
<1> QED
  BY <1>2, <1>3

LEMMA Longer ==
  ASSUME NEW s \in Seq(Obs), NEW es \in Seq(Obs)
  PROVE  s \o es \in Seq(Obs) /\ Len(s) <= Len(s \o es)
<1>1. s \o es \in Seq(Obs) /\ Len(s \o es) = Len(s) + Len(es) /\ Len(s) \in Nat /\ Len(es) \in Nat
  OBVIOUS
<1> QED
  BY <1>1

LEMMA EndpointFlag ==
  ASSUME IInv, NEW c \in Call, NEW f \in {"known", "accepted", "closed"},
         endpoint' = [endpoint EXCEPT ![c] = [endpoint[c] EXCEPT ![f] = TRUE]]
  PROVE  endpoint' \in [Call -> EndpointRow] /\ \A d \in Call : d # c => endpoint'[d] = endpoint[d]
<1>1. endpoint \in [Call -> EndpointRow]
  BY DEF IInv, ProducerType
<1>2. [endpoint[c] EXCEPT ![f] = TRUE] \in EndpointRow
  BY <1>1 DEF EndpointRow
<1> QED
  BY <1>1, <1>2

LEMMA RegisterStep ==
  ASSUME IInv, NEW c \in Call, Register(c)
  PROVE  IInv' /\ ByDecision
<1>1. inventory \in [Call -> Seq(Obs)]
  BY DEF IInv, ProducerType
<1>2. PICK q \in Seq(Obs) : q = inventory[c] /\ Len(inventory[c]) <= Len(q)
  BY <1>1
<1>3. /\ row[c].state # "NONE" /\ UNCHANGED <<task, ledger>> /\ UNCHANGED <<admission, coverage, rec, resume>>
      /\ inventory' = [inventory EXCEPT ![c] = q]
  BY <1>1, <1>2 DEF Register
<1>4. endpoint' \in [Call -> EndpointRow] /\ \A d \in Call : d # c => endpoint'[d] = endpoint[d]
  <2>1. endpoint' = [endpoint EXCEPT ![c] = [endpoint[c] EXCEPT !["known"] = TRUE]]
    BY DEF Register
  <2> QED
    BY <2>1, EndpointFlag
<1> QED
  BY <1>2, <1>3, <1>4, EvidenceStep

LEMMA SendStep ==
  ASSUME IInv, NEW c \in Call, Send(c)
  PROVE  IInv' /\ ByDecision
<1>1. PICK old \in Seq(Obs) : old = inventory[c]
  BY DEF IInv, ProducerType
<1>2. PICK fs \in Seq(Obs) : inventory' = [inventory EXCEPT ![c] = (inventory[c] \o <<Plain("WRITE")>>) \o fs]
  <2>1. PICK fs \in {<<>>} \cup {<<Event("FINAL", f)>> :
                                   f \in {g \in Final : g.usage = "known" /\ Reported < MaxReports}} :
          inventory' = [inventory EXCEPT ![c] = @ \o <<Plain("WRITE")>> \o fs]
    BY DEF Send
  <2>2. CASE fs = <<>>
    <3>1. fs \in Seq(Obs)
      BY <2>2
    <3> QED
      BY <2>1, <3>1
  <2>3. CASE fs # <<>>
    <3>1. PICK f \in Final : fs = <<Event("FINAL", f)>>
      BY <2>1, <2>3
    <3>2. fs \in Seq(Obs)
      BY <3>1, Observations
    <3> QED
      BY <2>1, <3>2
  <2> QED
    BY <2>2, <2>3
<1>3. PICK mid \in Seq(Obs) : mid = old \o <<Plain("WRITE")>> /\ Len(old) <= Len(mid)
  <2>1. <<Plain("WRITE")>> \in Seq(Obs)
    BY Observations
  <2> QED
    BY <2>1, Longer
<1>4. PICK q \in Seq(Obs) : q = mid \o fs /\ Len(mid) <= Len(q)
  BY Longer
<1>5. Len(inventory[c]) <= Len(q) /\ inventory' = [inventory EXCEPT ![c] = q]
  <2>1. Len(old) \in Nat /\ Len(mid) \in Nat /\ Len(q) \in Nat
    OBVIOUS
  <2>2. Len(old) <= Len(q)
    BY <1>3, <1>4, <2>1
  <2> QED
    BY <1>1, <1>2, <1>3, <1>4, <2>2
<1>6. row[c].state # "NONE" /\ UNCHANGED <<task, ledger>> /\ UNCHANGED <<admission, coverage, rec, resume>>
  BY DEF Send, IInv, EvidenceInv
<1>7. endpoint' \in [Call -> EndpointRow] /\ \A d \in Call : d # c => endpoint'[d] = endpoint[d]
  <2>1. endpoint' = [endpoint EXCEPT ![c] = [endpoint[c] EXCEPT !["accepted"] = TRUE]]
    BY DEF Send
  <2> QED
    BY <2>1, EndpointFlag
<1> QED
  BY <1>5, <1>6, <1>7, EvidenceStep

LEMMA CloseCallStep ==
  ASSUME IInv, NEW c \in Call, CloseCall(c)
  PROVE  IInv' /\ ByDecision
<1>1. PICK es : /\ es = IF ~coverage THEN <<>> ELSE IF endpoint[c].accepted THEN <<Plain("CLOSED")>>
                        ELSE <<Plain("CLOSED"), Zero>>
                /\ inventory' = [inventory EXCEPT ![c] = inventory[c] \o es]
  BY DEF CloseCall, Observe
<1>2. es \in Seq(Obs)
  <2>1. <<>> \in Seq(Obs) /\ <<Plain("CLOSED")>> \in Seq(Obs) /\ <<Plain("CLOSED"), Zero>> \in Seq(Obs)
    BY Observations
  <2> QED
    BY <1>1, <2>1
<1>3. PICK q \in Seq(Obs) : q = inventory[c] \o es /\ Len(inventory[c]) <= Len(q)
  <2>1. inventory[c] \in Seq(Obs)
    BY DEF IInv, ProducerType
  <2> QED
    BY <1>2, <2>1, Longer
<1>4. row[c].state # "NONE" /\ UNCHANGED <<task, ledger>> /\ UNCHANGED <<admission, coverage, rec, resume>>
  BY DEF CloseCall, IInv, EvidenceInv
<1>5. endpoint' \in [Call -> EndpointRow] /\ \A d \in Call : d # c => endpoint'[d] = endpoint[d]
  <2>1. endpoint' = [endpoint EXCEPT ![c] = [endpoint[c] EXCEPT !["closed"] = TRUE]]
    BY DEF CloseCall
  <2> QED
    BY <2>1, EndpointFlag
<1> QED
  BY <1>1, <1>3, <1>4, <1>5, EvidenceStep

LEMMA LateUsageStep ==
  ASSUME IInv, NEW c \in Call, LateUsage(c)
  PROVE  IInv' /\ ByDecision
<1>1. PICK e \in Obs : inventory' = [inventory EXCEPT ![c] = inventory[c] \o <<e>>]
  BY Observations DEF LateUsage, Observe
<1>2. PICK q \in Seq(Obs) : q = inventory[c] \o <<e>> /\ Len(inventory[c]) <= Len(q)
  <2>1. inventory[c] \in Seq(Obs) /\ <<e>> \in Seq(Obs)
    BY DEF IInv, ProducerType
  <2> QED
    BY <2>1, Longer
<1>3. row[c].state # "NONE" /\ UNCHANGED <<task, ledger>> /\ UNCHANGED <<admission, coverage, rec, resume>>
  BY DEF LateUsage, IInv, EvidenceInv
<1>4. endpoint' \in [Call -> EndpointRow] /\ \A d \in Call : d # c => endpoint'[d] = endpoint[d]
  BY DEF LateUsage, IInv, ProducerType
<1> QED
  BY <1>1, <1>2, <1>3, <1>4, EvidenceStep

LEMMA LoseCoverageStep ==
  ASSUME IInv, LoseCoverage
  PROVE  IInv' /\ ByDecision
<1>1. /\ task' = task /\ row' = row /\ balance' = balance /\ endpoint' = endpoint /\ inventory' = inventory
      /\ rec' = rec /\ admission' = admission /\ resume' = resume
  BY DEF LoseCoverage, ledger
<1>2. coverage' \in BOOLEAN
  BY DEF LoseCoverage
<1>3. Ledger' /\ ByDecision
  BY <1>1, SameLedger
<1>4. ProducerType'
  BY <1>1, <1>2 DEF IInv, ProducerType, Obs, EndpointRow, RecRow
<1>5. EvidenceInv'
  BY <1>1 DEF IInv, EvidenceInv
<1> QED
  BY <1>3, <1>4, <1>5 DEF IInv, Ledger

\* Only a reconciliation's bookkeeping, or that of resume_budgets, changes.
LEMMA RecStep ==
  ASSUME IInv, UNCHANGED <<task, ledger, admission, producer>>,
         resume' \in [on : BOOLEAN, rows : SUBSET Call], rec' \in [Call -> RecRow],
         \A d \in Call : rec'[d].n <= Len(inventory[d]) /\ (rec'[d].pc # "idle" => row[d].state # "NONE")
  PROVE  IInv' /\ ByDecision
<1>1. /\ task' = task /\ row' = row /\ balance' = balance /\ endpoint' = endpoint /\ inventory' = inventory
      /\ coverage' = coverage
  BY DEF ledger, producer
<1>2. Ledger' /\ ByDecision
  BY <1>1, SameLedger
<1>3. ProducerType'
  BY <1>1 DEF IInv, ProducerType, Obs, EndpointRow, RecRow
<1>4. EvidenceInv'
  <2>1. \A d \in Call : row'[d].prefix <= Len(inventory[d])
    BY <1>1 DEF IInv, EvidenceInv
  <2> QED
    BY <1>1, <2>1, EvidenceKeeps
<1> QED
  BY <1>2, <1>3, <1>4 DEF IInv, Ledger

LEMMA ReconcileReadStep ==
  ASSUME IInv, NEW c \in Call, ReconcileRead(c)
  PROVE  IInv' /\ ByDecision
<1>1. PICK v : v = [pc |-> "read", n |-> Len(inventory[c]), gen |-> row[c].gen]
  OBVIOUS
<1>2. v \in RecRow /\ v.n = Len(inventory[c])
  <2>1. Len(inventory[c]) \in Nat /\ row[c].gen \in 1 .. MaxGen
    BY Numbers DEF IInv, ProducerType, RowOK
  <2> QED
    BY <1>1, <2>1 DEF RecRow
<1>3. rec \in [Call -> RecRow] /\ rec' = [rec EXCEPT ![c] = v]
  BY <1>1 DEF ReconcileRead, IInv, ProducerType
<1>4. row[c].state # "NONE"
  BY DEF ReconcileRead, IInv, EvidenceInv
<1>5. rec' \in [Call -> RecRow] /\ rec'[c] = v /\ \A d \in Call : d # c => rec'[d] = rec[d]
  BY <1>2, <1>3
<1>6. \A d \in Call : rec'[d].n <= Len(inventory[d]) /\ (rec'[d].pc # "idle" => row[d].state # "NONE")
  <2>1. Len(inventory[c]) <= Len(inventory[c])
    BY DEF IInv, ProducerType
  <2> QED
    BY <1>2, <1>4, <1>5, <2>1 DEF IInv, EvidenceInv
<1>7. UNCHANGED <<task, ledger, admission, producer>> /\ resume' \in [on : BOOLEAN, rows : SUBSET Call]
  BY DEF ReconcileRead, IInv, ProducerType
<1> QED
  BY <1>5, <1>6, <1>7, RecStep

LEMMA ReconcileLostStep ==
  ASSUME IInv, NEW c \in Call, ReconcileLost(c)
  PROVE  IInv' /\ ByDecision
<1>1. /\ rec' \in [Call -> RecRow]
      /\ \A d \in Call : rec'[d].n <= Len(inventory[d]) /\ (d # c => rec'[d] = rec[d])
  <2>1. Ends(c, "idle")
    BY DEF ReconcileLost
  <2> QED
    BY <2>1, EndsFacts
<1>2. row[c].state # "NONE"
  BY DEF ReconcileLost, IInv, EvidenceInv
<1>3. UNCHANGED <<task, ledger, admission, producer>> /\ resume' \in [on : BOOLEAN, rows : SUBSET Call]
  BY DEF ReconcileLost, IInv, ProducerType
<1>4. \A d \in Call : rec'[d].pc # "idle" => row[d].state # "NONE"
  BY <1>1, <1>2 DEF IInv, EvidenceInv
<1> QED
  BY <1>1, <1>3, <1>4, RecStep

LEMMA QuietStep ==
  ASSUME IInv, ResumeDenied \/ UNCHANGED vars
  PROVE  IInv' /\ ByDecision
<1>1. UNCHANGED <<task, ledger, admission, producer>> /\ rec' = rec
  BY DEF ResumeDenied, vars, ledger, producer
<1>2. resume' \in [on : BOOLEAN, rows : SUBSET Call]
  <2>1. NoResume \in [on : BOOLEAN, rows : SUBSET Call]
    BY DEF NoResume
  <2> QED
    BY <2>1 DEF ResumeDenied, vars, IInv, ProducerType
<1>3. /\ rec' \in [Call -> RecRow]
      /\ \A d \in Call : rec'[d].n <= Len(inventory[d]) /\ (rec'[d].pc # "idle" => row[d].state # "NONE")
  BY <1>1 DEF IInv, ProducerType, EvidenceInv
<1> QED
  BY <1>1, <1>2, <1>3, RecStep

LEMMA StepInv == IInv /\ [Next]_vars => IInv' /\ ByDecision
<1>1. SUFFICES ASSUME IInv, [Next]_vars PROVE IInv' /\ ByDecision
  OBVIOUS
<1>2. ASSUME NEW c \in Call,
             \/ Reserve(c) \/ ReserveRival(c) \/ Register(c) \/ Admit(c) \/ Mark(c) \/ Send(c)
             \/ MarkUnknown(c) \/ Finish(c) \/ CloseCall(c) \/ LateUsage(c)
      PROVE  IInv' /\ ByDecision
  BY <1>1, <1>2, ReserveStep, RivalStep, RegisterStep, AdmitStep, MarkStep, SendStep, MarkUnknownStep,
     FinishStep, CloseCallStep, LateUsageStep
<1>3. ASSUME NEW c \in Call,
             \/ ReconcileRead(c) \/ ReconcileAbort(c) \/ ReconcileLost(c)
             \/ RunCommit(c) \/ RecoveryCommit(c) \/ ReconcileAfter(c)
             \/ RecoverCall(c) \/ Cancel(c)
      PROVE  IInv' /\ ByDecision
  BY <1>1, <1>3, ReconcileReadStep, ReconcileAbortStep, ReconcileLostStep, RunCommitStep, RecoveryCommitStep,
     ReconcileAfterStep, RecoverCallStep, CancelStep
<1>4. ASSUME NEW S, Resume(S) PROVE IInv' /\ ByDecision
  BY <1>1, <1>4, ResumeStep
<1>5. CASE LoseCoverage
  BY <1>1, <1>5, LoseCoverageStep
<1>6. CASE Inventory
  BY <1>1, <1>6, InventoryStep
<1>7. CASE PauseAdmission
  BY <1>1, <1>7, PauseAdmissionStep
<1>8. CASE ResumeDenied \/ UNCHANGED vars
  BY <1>1, <1>8, QuietStep
<1> QED
  BY <1>1, <1>2, <1>3, <1>4, <1>5, <1>6, <1>7, <1>8 DEF Next

LEMMA InitInv == Init => IInv
<1>1. SUFFICES ASSUME Init PROVE IInv
  OBVIOUS
<1>2. ASSUME NEW c \in Call
      PROVE  /\ RowOK(row[c]) /\ row[c].state = "NONE" /\ row[c].revision = 0 /\ row[c].prefix = 0
  <2>1. PICK q : q = row[c]
    OBVIOUS
  <2>2. q = NoRow
    BY <1>1, <2>1 DEF Init
  <2>3. /\ IsRow(q) /\ q.state = "NONE" /\ q.held = 0 /\ q.actual = 0 /\ q.revision = 0 /\ q.gen = 1
        /\ q.closed = FALSE /\ q.cancelled = FALSE /\ q.seen = {} /\ q.open = {} /\ q.prefix = 0 /\ q.used = {}
    BY <2>2 DEF NoRow, IsRow, RowField
  <2>4. 0 \in 0 .. MaxN /\ 1 \in 1 .. MaxGen
    BY LedgerAssumption
  <2>5. q.closed \in BOOLEAN /\ q.cancelled \in BOOLEAN
    BY <2>3
  <2>6. q.seen \subseteq Tag /\ q.open \subseteq q.seen /\ q.used \subseteq 2 .. MaxGen
    BY <2>3
  <2>7. /\ q.state \in {"NONE", "RESERVED", "ADMITTED", "SEND_INTENT", "IN_DOUBT", "SETTLED", "CONFLICT"}
        /\ q.held \in 0 .. MaxN /\ q.actual \in 0 .. MaxN /\ q.revision \in Nat /\ q.gen \in 1 .. MaxGen
        /\ q.prefix \in Nat
    BY <2>3, <2>4
  <2>8. RowOK(q)
    BY <2>3, <2>5, <2>6, <2>7 DEF RowOK
  <2> QED
    BY <2>1, <2>3, <2>8
<1>3. ASSUME NEW b \in Balance
      PROVE  balance[b] \in BalanceRow /\ balance[b].settled = 0 /\ balance[b].held = 0
  <2>1. balance[b] = [settled |-> 0, held |-> 0, calls |-> 0, state |-> "ACTIVE"]
    BY <1>1 DEF Init
  <2>2. 0 \in 0 .. MaxN /\ 0 \in 0 .. CallCap
    BY LedgerAssumption
  <2> QED
    BY <2>1, <2>2 DEF BalanceRow
<1>4. LedgerType
  BY <1>1, <1>2, <1>3 DEF LedgerType, Init
<1>5. ProducerType
  <2>1. endpoint \in [Call -> EndpointRow]
    <3>1. [known |-> FALSE, marked |-> FALSE, accepted |-> FALSE, closed |-> FALSE] \in EndpointRow
      BY DEF EndpointRow
    <3> QED
      BY <1>1, <3>1 DEF Init
  <2>2. NoRec \in RecRow /\ NoResume \in [on : BOOLEAN, rows : SUBSET Call]
    BY LedgerAssumption DEF NoRec, RecRow, NoResume
  <2>3. inventory \in [Call -> Seq(Obs)]
    BY <1>1 DEF Init
  <2>4. coverage \in BOOLEAN
    BY <1>1 DEF Init
  <2> QED
    BY <1>1, <2>1, <2>2, <2>3, <2>4 DEF ProducerType, Init
<1>6. EvidenceInv
  <2>1. ASSUME NEW c \in Call
        PROVE  /\ ~endpoint[c].known /\ ~endpoint[c].marked /\ ~endpoint[c].accepted
               /\ inventory[c] = <<>> /\ rec[c].pc = "idle" /\ rec[c].n = 0 /\ Len(inventory[c]) = 0
    BY <1>1 DEF Init, NoRec
  <2> QED
    BY <1>2, <2>1 DEF EvidenceInv
<1>7. HoldInv /\ FreezeInv
  BY <1>2 DEF HoldInv, FreezeInv
<1>8. Conservation
  <2>1. ASSUME NEW b \in Balance PROVE balance[b].held = HeldOf(b) /\ balance[b].settled = ActualOf(b)
    <3>1. PICK S : S = CallsOf(b)
      OBVIOUS
    <3>2. S = {}
      BY <1>2, <3>1 DEF CallsOf
    <3>3. IsFiniteSet(S)
      BY <3>2, FS_EmptySet
    <3>4. SumHeld(row, S) = 0 /\ SumActual(row, S) = 0
      <4>1. SumHeld(row, S) = Total([c \in S |-> row[c].held], S) /\ SumActual(row, S) = Total([c \in S |-> row[c].actual], S)
        BY <3>3, HeldIsTotal, ActualIsTotal
      <4>2. PICK f, g : f = [c \in S |-> row[c].held] /\ g = [c \in S |-> row[c].actual]
        OBVIOUS
      <4>3. Total(f, S) = 0 /\ Total(g, S) = 0
        BY <3>2, <3>3, TotalTake
      <4> QED
        BY <4>1, <4>2, <4>3
    <3>5. HeldOf(b) = SumHeld(row, S) /\ ActualOf(b) = SumActual(row, S)
      BY <3>1 DEF HeldOf, ActualOf, SumHeld, SumActual, Held, Actual
    <3> QED
      BY <1>3, <3>4, <3>5
  <2> QED
    BY <2>1 DEF Conservation
<1>9. ActiveWithinCap
  <2>1. \A b \in Balance : Cap(b) \in Nat
    BY LedgerAssumption DEF Cap
  <2> QED
    BY <1>3, <2>1 DEF ActiveWithinCap
<1> QED
  BY <1>4, <1>5, <1>6, <1>7, <1>8, <1>9 DEF IInv

-----------------------------------------------------------------------------
(* Theorems                                                                *)

\* The inductive invariant holds in every reachable state: every action, with
\* the whole of a reconciliation's loops, keeps it.
THEOREM Invariance == Spec => []IInv
<1>1. Init => IInv
  BY InitInv
<1>2. IInv /\ [Next]_vars => IInv'
  BY StepInv
<1> QED
  BY <1>1, <1>2, PTL DEF Spec

\* Types: amounts stay within the columns, calls within the call cap, used
\* decisions are recovery generations, and a retired prefix never runs ahead
\* of the producer's inventory.
THEOREM TypeCorrectness == Spec => []TypeOK
<1>1. IInv => TypeOK
  <2>1. SUFFICES ASSUME IInv PROVE TypeOK
    OBVIOUS
  <2>2. ASSUME NEW c \in Call
        PROVE  /\ row[c].state \in {"NONE", "RESERVED", "ADMITTED", "SEND_INTENT", "IN_DOUBT", "SETTLED", "CONFLICT"}
               /\ row[c].held \in 0 .. MaxN /\ row[c].actual \in 0 .. MaxN
               /\ row[c].revision \in Nat /\ row[c].gen \in 1 .. MaxGen
               /\ row[c].closed \in BOOLEAN /\ row[c].cancelled \in BOOLEAN
               /\ row[c].seen \subseteq Tag /\ row[c].open \subseteq row[c].seen
               /\ row[c].prefix \in 0 .. Len(inventory[c])
               /\ row[c].used \subseteq 2 .. MaxGen
    <3>1. RowOK(row[c])
      BY <2>1, Numbers
    <3>2. row[c].prefix <= Len(inventory[c]) /\ Len(inventory[c]) \in Nat /\ row[c].prefix \in Nat
      BY <2>1, <3>1 DEF IInv, EvidenceInv, ProducerType, RowOK
    <3>3. row[c].prefix \in 0 .. Len(inventory[c])
      BY <3>2
    <3> QED
      BY <3>1, <3>3 DEF RowOK
  <2>3. LedgerType /\ ProducerType
    BY <2>1 DEF IInv
  <2> QED
    BY <2>2, <2>3 DEF TypeOK, LedgerType, ProducerType, BalanceRow, EndpointRow, RecRow
<1> QED
  BY <1>1, Invariance, PTL

\* Money is neither lost nor made, whatever is retained, settled, revised or
\* doubted, and however many calls share a balance.
THEOREM MoneyConserved == Spec => []Conservation
<1>1. IInv => Conservation
  BY DEF IInv
<1> QED
  BY <1>1, Invariance, PTL

\* A scope that admits calls is within its cap.
THEOREM ActiveScopesWithinCap == Spec => []ActiveWithinCap
<1>1. IInv => ActiveWithinCap
  BY DEF IInv
<1> QED
  BY <1>1, Invariance, PTL

\* A call that was never settled keeps its reservation held, and a call in
\* doubt or in conflict stops both its scopes.
THEOREM DoubtFreezes == Spec => []UnresolvedFreezes
<1>1. IInv => UnresolvedFreezes
  BY DEF IInv, HoldInv, FreezeInv, UnresolvedFreezes
<1> QED
  BY <1>1, Invariance, PTL

\* A settlement is revised, and a conflict left, only by a recovery decision
\* that has not settled the call before.
THEOREM RevisionsByDecision == Spec => RevisedByDecision
<1>1. IInv /\ [Next]_vars =>
        [\A c \in Call :
           \/ row[c].revision > 0 /\ row'[c].revision # row[c].revision
           \/ row[c].state = "CONFLICT" /\ row'[c].state # "CONFLICT"
           => /\ row'[c].used # row[c].used
              /\ row[c].gen > 1]_vars
  BY StepInv DEF ByDecision
<1> QED
  BY <1>1, Invariance, PTL DEF Spec, RevisedByDecision
=============================================================================
