------------------------- MODULE ResearchTaskProofs -------------------------
(***************************************************************************)
(* Theorems about ResearchTask, for any tasks, plans, intents, operators   *)
(* and limits, and any number of versions and events.                      *)
(*                                                                         *)
(* What is held follows from the approvals among the events, and events    *)
(* are never taken back; plans of different tasks differ because a new     *)
(* version is compared with every version of the other tasks; a budget is  *)
(* decided once, so the last decision on an approved version is its first. *)
(***************************************************************************)
EXTENDS ResearchTask, FiniteSetTheorems, WellFoundedInduction, TLAPS

-----------------------------------------------------------------------------
(* The inductive invariant                                                 *)

\* The tables are functions, their columns sequences within their limits.
Tables ==
  /\ version = [n \in Number |-> version[n]] /\ event = [n \in Number |-> event[n]]
  /\ held = [n \in Number |-> held[n]] /\ view = [o \in Operator |-> view[o]]
  /\ \A n \in Number :
       /\ version[n] \in Seq(VersionRow) /\ Len(version[n]) <= MaxVersions
       /\ event[n] \in Seq(EventRow) /\ Len(event[n]) <= MaxEvents
       /\ held[n] \in Seq(Plan)

\* Events and views are of versions that exist.
HistoryInv ==
  /\ \A n \in Number : \A k \in DOMAIN event[n] : event[n][k].version \in DOMAIN version[n]
  /\ \A o \in Operator : view[o] # NoView => view[o].version \in DOMAIN version[view[o].number]

\* A plan is a member of the versions of one task.
MembersApart ==
  \A m, n \in Number : m # n =>
    \A u \in DOMAIN version[m], v \in DOMAIN version[n] :
      ToSet(version[m][u].members) \cap ToSet(version[n][v].members) = {}

\* An approval is the first thing decided of its version.
FirstDecision(es) ==
  \A k \in DOMAIN es : es[k].kind = "approved" =>
    \A j \in 1 .. (k - 1) : es[j].version = es[k].version => es[j].kind \notin {"approved", "revoked", "paused"}

DecisionInv == \A n \in Number : FirstDecision(event[n])

\* The inductive invariant.
IInv ==
  /\ TypeOK /\ Tables /\ HistoryInv /\ MembersApart /\ DecisionInv
  /\ LiabilityCovered /\ met \subseteq fault

-----------------------------------------------------------------------------
(* Operators                                                               *)

LEMMA NatSets ==
  ASSUME NEW T, 0 \in T, \A n \in Nat : n \in T => n + 1 \in T
  PROVE  \A n \in Nat : n \in T
<1> DEFINE Bad == Nat \ T
<1>1. ASSUME Bad # {} PROVE FALSE
  <2>1. PICK x \in Bad : \A y \in Bad : ~(<<y, x>> \in OpToRel(<, Nat))
    BY <1>1, WFMin, NatLessThanWellFounded
  <2>2. \A y \in Bad : ~(y < x)
    BY <2>1 DEF OpToRel
  <2>3. x \in Nat /\ x # 0 /\ x \notin T
    BY <2>1
  <2>4. x - 1 \in Nat /\ x - 1 < x
    BY <2>3
  <2>5. x - 1 \in T
    BY <2>2, <2>4
  <2> QED
    BY <2>3, <2>4, <2>5
<1> QED
  BY <1>1

\* A set of positions has a last one, which Max finds.
LEMMA MaxFacts ==
  ASSUME NEW n \in Nat, NEW S, S \subseteq 1 .. n, S # {}
  PROVE  Max(S) \in S /\ \A k \in S : k <= Max(S)
<1> DEFINE T == {n - k : k \in S}
<1>1. T \subseteq Nat /\ T # {}
  <2>1. \A k \in S : k \in 1 .. n /\ n - k \in Nat
    OBVIOUS
  <2> QED
    BY <2>1
<1>2. PICK x \in T : \A y \in T : ~(<<y, x>> \in OpToRel(<, Nat))
  BY <1>1, WFMin, NatLessThanWellFounded
<1>3. \A y \in T : ~(y < x)
  BY <1>1, <1>2 DEF OpToRel
<1>4. PICK k \in S : x = n - k
  BY <1>2
<1>5. \A j \in S : k >= j
  <2> SUFFICES ASSUME NEW j \in S PROVE k >= j
    OBVIOUS
  <2>1. ~(n - j < x)
    BY <1>3
  <2> QED
    BY <1>4, <2>1
<1> HIDE DEF T
<1> QED
  BY <1>5 DEF Max

\* The least of the ends is one of them.
LEMMA MinIsNat ==
  ASSUME NEW S, S \subseteq Nat, S # {}
  PROVE  Min(S) \in Nat
<1>1. PICK x \in S : \A y \in S : ~(<<y, x>> \in OpToRel(<, Nat))
  BY WFMin, NatLessThanWellFounded
<1>2. \A y \in S : x <= y
  <2> SUFFICES ASSUME NEW y \in S PROVE x <= y
    OBVIOUS
  <2>1. ~(y < x)
    BY <1>1 DEF OpToRel
  <2> QED
    BY <2>1
<1> QED
  BY <1>2 DEF Min

LEMMA MemberFacts ==
  ASSUME NEW s \in MemberList
  PROVE  s \in Seq(Plan) /\ s # <<>> /\ IsInjective(s)
<1>1. PICK k \in 0 .. Cardinality(Plan) : s \in [1 .. k -> Plan]
  BY DEF MemberList, SeqOf
<1> QED
  BY <1>1 DEF MemberList

LEMMA PrefixFacts ==
  ASSUME NEW P, NEW s \in Seq(P), NEW k \in DOMAIN s
  PROVE  \A j \in 1 .. k : s[j] \in P
  OBVIOUS

LEMMA ToSetFacts ==
  ASSUME NEW P, NEW s \in Seq(P), NEW x \in P
  PROVE  /\ ToSet(s) \subseteq P
         /\ ToSet(Append(s, x)) = ToSet(s) \cup {x}
         /\ IsInjective(s) /\ x \notin ToSet(s) => IsInjective(Append(s, x))
<1>1. ToSet(s) \subseteq P
  BY DEF ToSet
<1>2. ToSet(Append(s, x)) = ToSet(s) \cup {x}
  <2>1. /\ Len(Append(s, x)) = Len(s) + 1 /\ DOMAIN Append(s, x) = 1 .. (Len(s) + 1)
        /\ DOMAIN s = 1 .. Len(s) /\ Len(s) \in Nat
        /\ Append(s, x)[Len(s) + 1] = x /\ \A i \in 1 .. Len(s) : Append(s, x)[i] = s[i]
    OBVIOUS
  <2>2. ASSUME NEW y \in ToSet(Append(s, x)) PROVE y \in ToSet(s) \cup {x}
    <3>1. PICK i \in 1 .. (Len(s) + 1) : y = Append(s, x)[i]
      BY <2>1, <2>2 DEF ToSet
    <3>2. i \in 1 .. Len(s) \/ i = Len(s) + 1
      BY <2>1
    <3> QED
      BY <2>1, <3>1, <3>2 DEF ToSet
  <2>3. ASSUME NEW y \in ToSet(s) \cup {x} PROVE y \in ToSet(Append(s, x))
    <3>1. CASE y = x
      BY <2>1, <3>1 DEF ToSet
    <3>2. CASE y \in ToSet(s)
      <4>1. PICK i \in 1 .. Len(s) : y = s[i]
        BY <2>1, <3>2 DEF ToSet
      <4>2. i \in 1 .. (Len(s) + 1)
        BY <2>1
      <4> QED
        BY <2>1, <4>1, <4>2 DEF ToSet
    <3> QED
      BY <2>3, <3>1, <3>2
  <2> QED
    BY <2>2, <2>3
<1>3. ASSUME IsInjective(s), x \notin ToSet(s) PROVE IsInjective(Append(s, x))
  BY <1>3 DEF IsInjective, ToSet
<1> QED
  BY <1>1, <1>2, <1>3

\* A sequence without repetitions is as long as its set is large.
LEMMA InjectiveLength ==
  ASSUME NEW P, NEW s \in Seq(P), IsInjective(s)
  PROVE  IsFiniteSet(ToSet(s)) /\ Cardinality(ToSet(s)) = Len(s)
<1>1. s \in Bijection(1 .. Len(s), ToSet(s))
  BY DEF IsInjective, ToSet, Bijection, Injection, Surjection
<1>2. ExistsBijection(1 .. Len(s), ToSet(s))
  BY <1>1 DEF ExistsBijection
<1>3. IsFiniteSet(1 .. Len(s)) /\ Cardinality(1 .. Len(s)) = Len(s)
  <2>1. Len(s) \in Nat
    OBVIOUS
  <2>2. /\ IsFiniteSet(1 .. Len(s))
        /\ Cardinality(1 .. Len(s)) = IF 1 > Len(s) THEN 0 ELSE Len(s) - 1 + 1
    BY <2>1, FS_Interval
  <2> QED
    BY <2>1, <2>2
<1> QED
  BY <1>2, <1>3, FS_Bijection

\* g[k] is what is held after the first k members were given their slots.
IsAllocation(g, hs, s, n) ==
  g = [k \in 0 .. n |-> IF k = 0 THEN hs ELSE IF s[k] \in ToSet(hs) THEN g[k - 1] ELSE Append(g[k - 1], s[k])]

LEMMA AllocationExists ==
  ASSUME NEW hs, NEW s, NEW n \in Nat
  PROVE  \E g : IsAllocation(g, hs, s, n)
<1> DEFINE T == {m \in Nat : \E g : IsAllocation(g, hs, s, m)}
<1>1. 0 \in T
  <2> DEFINE g == [k \in 0 .. 0 |-> hs]
  <2>1. \A k \in 0 .. 0 : k = 0
    OBVIOUS
  <2>2. IsAllocation(g, hs, s, 0)
    BY <2>1 DEF IsAllocation
  <2> QED
    BY <2>2
<1>2. ASSUME NEW m \in Nat, m \in T PROVE m + 1 \in T
  <2>1. PICK g : IsAllocation(g, hs, s, m)
    BY <1>2
  <2>2. PICK last : last = IF s[m + 1] \in ToSet(hs) THEN g[m] ELSE Append(g[m], s[m + 1])
    OBVIOUS
  <2> DEFINE h == [k \in 0 .. m + 1 |-> IF k = m + 1 THEN last ELSE g[k]]
             Turn(f, k) == IF k = 0 THEN hs ELSE IF s[k] \in ToSet(hs) THEN f[k - 1] ELSE Append(f[k - 1], s[k])
  <2>3. ASSUME NEW k \in 0 .. m + 1 PROVE h[k] = Turn(h, k)
    <3>1. CASE k = m + 1
      <4>1. h[k] = last /\ k # 0 /\ k - 1 = m /\ h[k - 1] = g[m]
        BY <3>1
      <4> QED
        BY <2>2, <3>1, <4>1
    <3>2. CASE k # m + 1
      <4>1. k \in 0 .. m /\ h[k] = g[k] /\ (k # 0 => h[k - 1] = g[k - 1])
        BY <3>2
      <4>2. g[k] = Turn(g, k)
        BY <2>1, <4>1 DEF IsAllocation
      <4> QED
        BY <4>1, <4>2
    <3> QED
      BY <3>1, <3>2
  <2>4. h = [k \in 0 .. m + 1 |-> Turn(h, k)]
    <3> HIDE DEF Turn
    <3> QED
      BY <2>3
  <2>5. IsAllocation(h, hs, s, m + 1)
    BY <2>4 DEF IsAllocation
  <2>6. m + 1 \in Nat
    OBVIOUS
  <2> HIDE DEF h, Turn
  <2> QED
    BY <2>5, <2>6
<1> HIDE DEF T
<1>3. n \in T
  BY <1>1, <1>2, NatSets
<1> QED
  BY <1>3 DEF T

\* _allocate gives each member that is not held a slot of its own.
LEMMA AllocatedFacts ==
  ASSUME NEW hs \in Seq(Plan), NEW s \in Seq(Plan), IsInjective(hs), IsInjective(s)
  PROVE  /\ Allocated(hs, s) \in Seq(Plan) /\ IsInjective(Allocated(hs, s))
         /\ ToSet(Allocated(hs, s)) = ToSet(hs) \cup ToSet(s)
<1>1. PICK g : g = CHOOSE f : IsAllocation(f, hs, s, Len(s))
  OBVIOUS
<1>2. Len(s) \in Nat /\ DOMAIN s = 1 .. Len(s) /\ \A i \in 1 .. Len(s) : s[i] \in Plan
  OBVIOUS
<1>3. IsAllocation(g, hs, s, Len(s))
  BY <1>1, <1>2, AllocationExists
<1>4. Allocated(hs, s) = g[Len(s)]
  BY <1>1 DEF Allocated, IsAllocation
<1> DEFINE First(m) == {s[i] : i \in 1 .. m}
           Good(m) == g[m] \in Seq(Plan) /\ IsInjective(g[m]) /\ ToSet(g[m]) = ToSet(hs) \cup First(m)
           T == {m \in Nat : m <= Len(s) => Good(m)}
<1>5. 0 \in T
  <2>1. g[0] = hs
    BY <1>2, <1>3 DEF IsAllocation
  <2>2. First(0) = {}
    OBVIOUS
  <2> QED
    BY <2>1, <2>2
<1>6. ASSUME NEW m \in Nat, m \in T PROVE m + 1 \in T
  <2>1. SUFFICES ASSUME m + 1 <= Len(s) PROVE Good(m + 1)
    OBVIOUS
  <2>2. Good(m)
    BY SMTT(30), <1>2, <1>6, <2>1
  <2>3. m + 1 \in 0 .. Len(s) /\ m + 1 # 0 /\ (m + 1) - 1 = m /\ m + 1 \in 1 .. Len(s)
    BY <1>2, <2>1
  <2>4. g[m + 1] = IF s[m + 1] \in ToSet(hs) THEN g[m] ELSE Append(g[m], s[m + 1])
    BY <1>3, <2>3 DEF IsAllocation
  <2>5. First(m + 1) = First(m) \cup {s[m + 1]}
    <3>1. \A i : i \in 1 .. m + 1 <=> i \in 1 .. m \/ i = m + 1
      OBVIOUS
    <3> QED
      BY <3>1
  <2>6. s[m + 1] \notin First(m)
    BY <1>2, <2>3 DEF IsInjective
  <2> HIDE DEF First
  <2>7. CASE s[m + 1] \in ToSet(hs)
    BY <2>2, <2>4, <2>5, <2>7
  <2>8. CASE s[m + 1] \notin ToSet(hs)
    <3>1. s[m + 1] \in Plan /\ s[m + 1] \notin ToSet(g[m])
      BY <1>2, <2>2, <2>3, <2>6, <2>8
    <3>2. /\ ToSet(Append(g[m], s[m + 1])) = ToSet(g[m]) \cup {s[m + 1]}
          /\ IsInjective(Append(g[m], s[m + 1])) /\ Append(g[m], s[m + 1]) \in Seq(Plan)
      BY <2>2, <3>1, ToSetFacts
    <3> QED
      BY <2>2, <2>4, <2>5, <2>8, <3>2
  <2> QED
    BY <2>7, <2>8
<1>7. Len(s) \in T
  <2> HIDE DEF T
  <2> QED
    BY <1>2, <1>5, <1>6, NatSets
<1>8. First(Len(s)) = ToSet(s)
  BY <1>2 DEF ToSet
<1> QED
  BY <1>2, <1>4, <1>7, <1>8

-----------------------------------------------------------------------------
(* Facts used throughout                                                   *)

LEMMA TaskFacts ==
  ASSUME IInv, NEW n \in Number
  PROVE  /\ Len(version[n]) \in Nat /\ DOMAIN version[n] = 1 .. Len(version[n])
         /\ Len(event[n]) \in Nat /\ DOMAIN event[n] = 1 .. Len(event[n])
         /\ \A v \in DOMAIN version[n] :
              /\ v \in 1 .. MaxVersions /\ version[n][v] \in VersionRow /\ version[n][v].limit \in Nat
              /\ version[n][v].members \in Seq(Plan) /\ IsInjective(version[n][v].members)
              /\ ToSet(version[n][v].members) \subseteq Plan
         /\ \A k \in DOMAIN event[n] : event[n][k] \in EventRow
<1>1. version[n] \in Seq(VersionRow) /\ event[n] \in Seq(EventRow) /\ Len(version[n]) <= MaxVersions
  BY DEF IInv, Tables
<1>2. ASSUME NEW v \in DOMAIN version[n]
      PROVE  /\ v \in 1 .. MaxVersions /\ version[n][v] \in VersionRow /\ version[n][v].limit \in Nat
             /\ version[n][v].members \in Seq(Plan) /\ IsInjective(version[n][v].members)
             /\ ToSet(version[n][v].members) \subseteq Plan
  <2>1. version[n][v] \in VersionRow /\ v \in 1 .. MaxVersions
    BY <1>1, TaskAssumption
  <2>2. version[n][v].members \in MemberList /\ version[n][v].limit \in Limits
    BY <2>1 DEF VersionRow
  <2>3. version[n][v].members \in Seq(Plan) /\ IsInjective(version[n][v].members)
    BY <2>2, MemberFacts
  <2>4. ToSet(version[n][v].members) \subseteq Plan
    BY <2>3 DEF ToSet
  <2> QED
    BY <2>1, <2>2, <2>3, <2>4, TaskAssumption
<1> QED
  BY <1>1, <1>2

LEMMA ViewFacts ==
  ASSUME NEW n \in Number, NEW v \in 1 .. MaxVersions, NEW vs, NEW es \in Seq(EventRow), Len(es) <= MaxEvents,
         NEW hs, NEW q \in BOOLEAN
  PROVE  /\ ViewOf(n, v, vs, es, hs, q) \in View
         /\ ViewOf(n, v, vs, es, hs, q).number = n /\ ViewOf(n, v, vs, es, hs, q).version = v
<1>1. StateOf(es, v, Len(vs)) \in State
  BY DEF StateOf, State
<1>2. Len(es) \in 0 .. MaxEvents
  BY TaskAssumption
<1>3. (/\ StateOf(es, v, Len(vs)) = "budget_approved" /\ q
       /\ Len(hs) <= vs[v].limit /\ ToSet(vs[v].members) \subseteq ToSet(hs)) \in BOOLEAN
  OBVIOUS
<1> QED
  BY <1>1, <1>2, <1>3 DEF ViewOf, View

\* What is found is of intents.
LEMMA FoundFacts ==
  ASSUME NEW n \in Number, NEW s \in Seq(Plan), NEW limit
  PROVE  Found(n, s, limit) \subseteq Intent
<1>1. \A k \in DOMAIN s : IntentOf[s[k]] \in Intent
  BY TaskAssumption
<1> QED
  BY <1>1 DEF Found, Overdue

LEMMA LiabilityFrame ==
  ASSUME LiabilityCovered, version' = version, event' = event, held' = held
  PROVE  LiabilityCovered'
  BY ZenonT(40) DEF LiabilityCovered, Exists, Latest, Holds

\* The tables of versions, events, holds and views stand still.
LEMMA FrameStep ==
  ASSUME IInv, UNCHANGED <<version, event, held, view>>
  PROVE  /\ Tables' /\ HistoryInv' /\ MembersApart' /\ DecisionInv' /\ LiabilityCovered'
         /\ \A n \in Number :
              /\ \A v \in DOMAIN version'[n] : version'[n][v] \in VersionRow
              /\ \A k \in DOMAIN event'[n] : event'[n][k] \in EventRow
              /\ ToSet(held'[n]) \subseteq Plan
         /\ \A o \in Operator : view'[o] = NoView \/ view'[o] \in View
<1> USE DEF IInv
<1>1. Tables' /\ HistoryInv'
  BY DEF Tables, HistoryInv
<1>2. MembersApart' /\ DecisionInv'
  BY DEF MembersApart, DecisionInv, FirstDecision
<1>3. LiabilityCovered'
  BY LiabilityFrame
<1>4. /\ \A n \in Number :
           /\ \A v \in DOMAIN version'[n] : version'[n][v] \in VersionRow
           /\ \A k \in DOMAIN event'[n] : event'[n][k] \in EventRow
           /\ ToSet(held'[n]) \subseteq Plan
      /\ \A o \in Operator : view'[o] = NoView \/ view'[o] \in View
  BY DEF TypeOK
<1> QED
  BY <1>1, <1>2, <1>3, <1>4

-----------------------------------------------------------------------------
(* Each step keeps the invariant                                           *)

LEMMA InitInv == Init => IInv
<1> SUFFICES ASSUME Init PROVE IInv
  OBVIOUS
<1> USE TaskAssumption DEF Init
<1>1. TypeOK
  BY DEF TypeOK, ToSet
<1>2. Tables
  BY DEF Tables
<1>3. HistoryInv /\ MembersApart /\ DecisionInv
  BY DEF HistoryInv, MembersApart, DecisionInv, FirstDecision
<1>4. LiabilityCovered
  BY DEF LiabilityCovered, Exists, Latest, Holds, IsInjective, ToSet
<1> QED
  BY <1>1, <1>2, <1>3, <1>4 DEF IInv

LEMMA AroundSteps ==
  ASSUME IInv, Tick \/ SetBack \/ ChangePermission \/ (\E n \in Number, v \in 1 .. MaxVersions : ClockDisorder(n, v))
                 \/ (\E p \in Plan : CancelPlan(p)) \/ UNCHANGED vars
  PROVE  IInv'
<1> USE TaskAssumption
<1>1. UNCHANGED <<version, event, held, view>>
  BY DEF Tick, SetBack, ChangePermission, ClockDisorder, CancelPlan, vars
<1>2. fault' \subseteq Intent /\ fault \subseteq fault' /\ met' = met
  <2>1. ASSUME NEW n \in Number, NEW v \in 1 .. MaxVersions, ClockDisorder(n, v)
        PROVE  fault' \subseteq Intent /\ fault \subseteq fault' /\ met' = met
    <3>1. PICK k \in DOMAIN version[n][v].members :
            fault' = fault \cup {IntentOf[version[n][v].members[j]] : j \in 1 .. k}
      BY <2>1 DEF ClockDisorder
    <3>2. v \in DOMAIN version[n] /\ met' = met
      BY <2>1 DEF ClockDisorder
    <3>3. version[n][v].members \in Seq(Plan)
      BY <3>2, TaskFacts
    <3>4. \A j \in 1 .. k : IntentOf[version[n][v].members[j]] \in Intent
      <4>1. \A j \in 1 .. k : version[n][v].members[j] \in Plan
        BY <3>3, PrefixFacts
      <4> QED
        BY <4>1
    <3> QED
      BY <3>1, <3>2, <3>4 DEF IInv, TypeOK
  <2> QED
    BY <2>1 DEF Tick, SetBack, ChangePermission, CancelPlan, vars, IInv, TypeOK
<1>3. /\ now' \in Int /\ setBack' \in 0 .. MaxSetBack /\ trouble' \in 0 .. MaxTrouble
      /\ permission' \in [digest : Nat, stands : BOOLEAN] /\ cancelled' \subseteq Plan
  BY DEF Tick, SetBack, ChangePermission, ClockDisorder, CancelPlan, vars, Disturb, IInv, TypeOK
<1>4. TypeOK'
  BY <1>1, <1>2, <1>3, FrameStep DEF IInv, TypeOK
<1> QED
  BY <1>1, <1>2, <1>4, FrameStep DEF IInv

-----------------------------------------------------------------------------
(* Histories that grow                                                     *)

\* What the approvals among the events es of the versions vs give the task.
Approved(vs, es) ==
  UNION {ToSet(vs[es[k].version].members) : k \in {j \in DOMAIN es : es[j].kind = "approved"}}

LEMMA InApproved ==
  ASSUME NEW vs, NEW es, NEW x
  PROVE  x \in Approved(vs, es) <=>
           \E k \in DOMAIN es : es[k].kind = "approved" /\ x \in ToSet(vs[es[k].version].members)
  BY Zenon DEF Approved

LEMMA AppendFacts ==
  ASSUME NEW P, NEW s \in Seq(P), NEW x \in P
  PROVE  /\ Append(s, x) \in Seq(P) /\ Len(Append(s, x)) = Len(s) + 1 /\ Len(s) \in Nat
         /\ DOMAIN s = 1 .. Len(s) /\ DOMAIN Append(s, x) = 1 .. (Len(s) + 1)
         /\ Append(s, x)[Len(s) + 1] = x /\ \A i \in 1 .. Len(s) : Append(s, x)[i] = s[i]
         /\ \A i : i \in DOMAIN Append(s, x) <=> i \in DOMAIN s \/ i = Len(s) + 1
  OBVIOUS

\* Another event adds what it approves.
LEMMA ApprovedByEvent ==
  ASSUME NEW vs, NEW es \in Seq(EventRow), NEW e \in EventRow
  PROVE  Approved(vs, Append(es, e)) =
           Approved(vs, es) \cup (IF e.kind = "approved" THEN ToSet(vs[e.version].members) ELSE {})
<1> DEFINE new == Append(es, e)
<1>1. /\ \A i : i \in DOMAIN new <=> i \in DOMAIN es \/ i = Len(es) + 1
      /\ new[Len(es) + 1] = e /\ \A i \in DOMAIN es : new[i] = es[i]
  BY AppendFacts
<1> HIDE DEF new
<1>2. ASSUME NEW x PROVE x \in Approved(vs, new) <=>
             x \in Approved(vs, es) \/ (e.kind = "approved" /\ x \in ToSet(vs[e.version].members))
  <2>1. x \in Approved(vs, new) <=>
          \E k \in DOMAIN new : new[k].kind = "approved" /\ x \in ToSet(vs[new[k].version].members)
    BY InApproved
  <2>2. x \in Approved(vs, es) <=>
          \E k \in DOMAIN es : es[k].kind = "approved" /\ x \in ToSet(vs[es[k].version].members)
    BY InApproved
  <2> QED
    BY <1>1, <2>1, <2>2, Zenon
<1>3. Approved(vs, new) = Approved(vs, es) \cup (IF e.kind = "approved" THEN ToSet(vs[e.version].members) ELSE {})
  BY <1>2
<1> QED
  BY <1>3 DEF new

\* Another version takes nothing away and gives nothing.
LEMMA ApprovedByVersion ==
  ASSUME NEW vs \in Seq(VersionRow), NEW row \in VersionRow, NEW es,
         \A k \in DOMAIN es : es[k].version \in DOMAIN vs
  PROVE  Approved(Append(vs, row), es) = Approved(vs, es)
<1>1. \A v \in DOMAIN vs : Append(vs, row)[v] = vs[v]
  BY AppendFacts
<1> DEFINE new == Append(vs, row)
<1> HIDE DEF new
<1>2. ASSUME NEW x PROVE x \in Approved(new, es) <=> x \in Approved(vs, es)
  <2>1. x \in Approved(new, es) <=>
          \E k \in DOMAIN es : es[k].kind = "approved" /\ x \in ToSet(new[es[k].version].members)
    BY InApproved
  <2>2. x \in Approved(vs, es) <=>
          \E k \in DOMAIN es : es[k].kind = "approved" /\ x \in ToSet(vs[es[k].version].members)
    BY InApproved
  <2>3. \A k \in DOMAIN es : new[es[k].version] = vs[es[k].version]
    BY <1>1 DEF new
  <2> QED
    BY <2>1, <2>2, <2>3, Zenon
<1> QED
  BY <1>2 DEF new

LEMMA DecisionByEvent ==
  ASSUME NEW es \in Seq(EventRow), NEW e \in EventRow, FirstDecision(es),
         e.kind = "approved" => Undecided(es, e.version)
  PROVE  FirstDecision(Append(es, e))
<1> DEFINE new == Append(es, e)
<1>1. /\ \A i : i \in DOMAIN new <=> i \in DOMAIN es \/ i = Len(es) + 1
      /\ new[Len(es) + 1] = e /\ \A i \in DOMAIN es : new[i] = es[i]
      /\ DOMAIN es = 1 .. Len(es) /\ Len(es) \in Nat
  BY AppendFacts
<1> HIDE DEF new
<1>2. ASSUME NEW k \in DOMAIN new, new[k].kind = "approved", NEW j \in 1 .. (k - 1), new[j].version = new[k].version
      PROVE  new[j].kind \notin {"approved", "revoked", "paused"}
  <2>1. j \in DOMAIN es /\ new[j] = es[j]
    BY <1>1
  <2>2. CASE k \in DOMAIN es
    BY <1>1, <1>2, <2>1, <2>2 DEF FirstDecision
  <2>3. CASE k = Len(es) + 1
    <3>1. e.kind = "approved" /\ es[j].version = e.version
      BY <1>1, <1>2, <2>1, <2>3
    <3> QED
      BY <2>1, <3>1 DEF Undecided, EventsOf
  <2> QED
    BY <1>1, <2>2, <2>3
<1>3. FirstDecision(new)
  BY <1>2 DEF FirstDecision
<1> QED
  BY <1>3 DEF new

\* The type invariant follows from the tables.
LEMMA TablesType ==
  ASSUME IInv, Tables', UNCHANGED facts, fault' \subseteq Intent, met' \subseteq fault',
         \A o \in Operator : view'[o] = NoView \/ view'[o] \in View
  PROVE  TypeOK'
<1>1. ASSUME NEW n \in Number
      PROVE  /\ \A v \in DOMAIN version'[n] : version'[n][v] \in VersionRow
             /\ \A k \in DOMAIN event'[n] : event'[n][k] \in EventRow
             /\ ToSet(held'[n]) \subseteq Plan
  <2>1. version'[n] \in Seq(VersionRow) /\ event'[n] \in Seq(EventRow) /\ held'[n] \in Seq(Plan)
    BY DEF Tables
  <2> QED
    BY <2>1 DEF ToSet
<1>2. /\ now' \in Int /\ setBack' \in 0 .. MaxSetBack /\ trouble' \in 0 .. MaxTrouble
      /\ permission' \in [digest : Nat, stands : BOOLEAN] /\ cancelled' \subseteq Plan
  BY DEF IInv, TypeOK, facts
<1> QED
  BY <1>1, <1>2 DEF TypeOK

LEMMA CurrentFacts ==
  ASSUME IInv, NEW o \in Operator, Current(o)
  PROVE  /\ view[o].number \in Number /\ view[o].version \in DOMAIN version[view[o].number]
         /\ view[o].version = Len(version[view[o].number])
         /\ \A k \in DOMAIN event[view[o].number] : event[view[o].number][k].kind # "cancelled"
<1>1. view[o] # NoView
  BY DEF Current
<1>2. view[o] \in View
  BY <1>1 DEF IInv, TypeOK
<1>3. view[o].version \in DOMAIN version[view[o].number]
  BY <1>1 DEF IInv, HistoryInv
<1> QED
  BY <1>2, <1>3 DEF Current, Latest, View

LEMMA QualifyFacts ==
  ASSUME IInv, NEW n \in Number, NEW v \in DOMAIN version[n], Qualify(n, version[n][v])
  PROVE  fault' \subseteq Intent /\ met' \subseteq fault'
<1>1. Found(n, version[n][v].members, version[n][v].limit) \subseteq Intent
  BY FoundFacts, TaskFacts
<1> QED
  BY <1>1 DEF Qualify, RecordFaults, QualifyFaults, IInv, TypeOK

-----------------------------------------------------------------------------
(* Operations                                                              *)

\* An operation that writes nothing but faults.
LEMMA RefusedStep ==
  ASSUME IInv, UNCHANGED <<facts, version, event, held, view>>, fault' \subseteq Intent, met' \subseteq fault'
  PROVE  IInv'
<1>1. Tables' /\ \A o \in Operator : view'[o] = NoView \/ view'[o] \in View
  BY FrameStep
<1>2. TypeOK'
  BY <1>1, TablesType
<1> QED
  BY <1>2, FrameStep DEF IInv

\* A view that an operator is given, and the others keep theirs.
LEMMA GivenView ==
  ASSUME IInv, NEW o \in Operator, NEW w \in View, view' = [view EXCEPT ![o] = w],
         w.version \in DOMAIN version'[w.number],
         \A n \in Number : DOMAIN version[n] \subseteq DOMAIN version'[n]
  PROVE  /\ view' = [p \in Operator |-> view'[p]]
         /\ \A p \in Operator : view'[p] = NoView \/ view'[p] \in View
         /\ \A p \in Operator : view'[p] # NoView => view'[p].version \in DOMAIN version'[view'[p].number]
<1>1. \A p \in Operator : view'[p] = IF p = o THEN w ELSE view[p]
  BY DEF IInv, Tables
<1>2. view' = [p \in Operator |-> view'[p]]
  BY DEF IInv, Tables
<1>3. \A p \in Operator : view[p] = NoView \/ (view[p] \in View /\ view[p].number \in Number)
  BY DEF IInv, TypeOK, View
<1>4. \A p \in Operator : view[p] # NoView => view[p].version \in DOMAIN version[view[p].number]
  BY DEF IInv, HistoryInv
<1> QED
  BY <1>1, <1>2, <1>3, <1>4

LEMMA InspectStep ==
  ASSUME IInv, NEW o \in Operator, NEW n \in Number, NEW v \in 1 .. MaxVersions, InspectTask(o, n, v)
  PROVE  IInv'
<1> DEFINE w == ViewOf(n, v, version[n], event[n], held[n], Qualifies(n, version[n][v]))
<1>1. /\ v \in DOMAIN version[n] /\ Qualify(n, version[n][v]) /\ view' = [view EXCEPT ![o] = w]
      /\ UNCHANGED facts /\ version' = version /\ event' = event /\ held' = held
  BY DEF InspectTask
<1>2. fault' \subseteq Intent /\ met' \subseteq fault'
  BY <1>1, QualifyFacts
<1>3. Qualifies(n, version[n][v]) \in BOOLEAN /\ event[n] \in Seq(EventRow) /\ Len(event[n]) <= MaxEvents
  BY DEF Qualifies, IInv, Tables
<1>4. w \in View /\ w.number = n /\ w.version = v
  BY <1>3, ViewFacts
<1> HIDE DEF w
<1>5. /\ view' = [p \in Operator |-> view'[p]]
      /\ \A p \in Operator : view'[p] = NoView \/ view'[p] \in View
      /\ \A p \in Operator : view'[p] # NoView => view'[p].version \in DOMAIN version'[view'[p].number]
  BY <1>1, <1>4, GivenView
<1>6. Tables' /\ HistoryInv'
  BY <1>1, <1>5 DEF Tables, HistoryInv, IInv
<1>7. MembersApart' /\ DecisionInv'
  BY ZenonT(40), <1>1 DEF MembersApart, DecisionInv, FirstDecision, IInv
<1>8. LiabilityCovered'
  BY <1>1, LiabilityFrame DEF IInv
<1> QED
  BY <1>1, <1>2, <1>5, <1>6, <1>7, <1>8, TablesType DEF IInv

\* An event is added to task n, with what the task then holds.
LEMMA EventStep ==
  ASSUME IInv, NEW o \in Operator, NEW n \in Number, NEW v \in DOMAIN version[n], v = Len(version[n]),
         NEW kind \in Kind, NEW hs \in Seq(Plan), NEW q \in BOOLEAN,
         CanAppend(event[n], version[n][v].at),
         UNCHANGED facts, version' = version,
         event' = [event EXCEPT ![n] = Appended(event[n], v, kind)],
         held' = [held EXCEPT ![n] = hs],
         view' = [view EXCEPT ![o] = ViewOf(n, v, version[n], Appended(event[n], v, kind), hs, q)],
         fault' \subseteq Intent, met' \subseteq fault',
         IsInjective(hs), Len(hs) <= version[n][v].limit,
         kind = "approved" => Undecided(event[n], v),
         ToSet(hs) = Holds(n) \cup (IF kind = "approved" THEN ToSet(version[n][v].members) ELSE {})
  PROVE  IInv'
<1> DEFINE e == [kind |-> kind, version |-> v, at |-> now]
           es == Append(event[n], e)
           w == ViewOf(n, v, version[n], es, hs, q)
<1>1. e \in EventRow /\ e.kind = kind /\ e.version = v
  <2>1. now \in Int
    BY DEF IInv, TypeOK
  <2>2. v \in 1 .. MaxVersions
    BY TaskFacts
  <2> QED
    BY <2>1, <2>2 DEF EventRow
<1>2. es = Appended(event[n], v, kind)
  BY DEF Appended
<1>3. event[n] \in Seq(EventRow) /\ Len(event[n]) < MaxEvents
  BY DEF CanAppend, IInv, Tables
<1> HIDE DEF e
<1>4. /\ es \in Seq(EventRow) /\ Len(es) = Len(event[n]) + 1 /\ Len(event[n]) \in Nat
      /\ \A i : i \in DOMAIN es <=> i \in DOMAIN event[n] \/ i = Len(event[n]) + 1
      /\ es[Len(event[n]) + 1] = e /\ \A i \in DOMAIN event[n] : es[i] = event[n][i]
  BY <1>1, <1>3, AppendFacts
<1>5. FirstDecision(es)
  BY <1>1, <1>3, DecisionByEvent DEF IInv, DecisionInv
<1>6. Approved(version[n], es) =
        Approved(version[n], event[n]) \cup (IF kind = "approved" THEN ToSet(version[n][v].members) ELSE {})
  <2>1. Approved(version[n], es) =
          Approved(version[n], event[n]) \cup (IF e.kind = "approved" THEN ToSet(version[n][e.version].members) ELSE {})
    BY <1>1, <1>3, ApprovedByEvent
  <2> QED
    BY <1>1, <2>1
<1> HIDE DEF es
<1>7. w \in View /\ w.number = n /\ w.version = v
  <2>1. Len(es) <= MaxEvents /\ v \in 1 .. MaxVersions
    BY <1>3, <1>4, TaskFacts, TaskAssumption
  <2> QED
    BY <1>4, <2>1, ViewFacts
<1>8. view' = [view EXCEPT ![o] = w] /\ event' = [event EXCEPT ![n] = es]
  BY <1>2
<1> HIDE DEF w
<1>9. /\ view' = [p \in Operator |-> view'[p]]
      /\ \A p \in Operator : view'[p] = NoView \/ view'[p] \in View
      /\ \A p \in Operator : view'[p] # NoView => view'[p].version \in DOMAIN version'[view'[p].number]
  <2>1. w.version \in DOMAIN version'[w.number] /\ \A m \in Number : DOMAIN version[m] \subseteq DOMAIN version'[m]
    BY <1>7
  <2>2. o \in Operator
    OBVIOUS
  <2> QED
    BY ONLY IInv, <1>7, <1>8, <2>1, <2>2, GivenView
<1>10. /\ \A m \in Number : event'[m] = IF m = n THEN es ELSE event[m]
       /\ \A m \in Number : held'[m] = IF m = n THEN hs ELSE held[m]
       /\ event' = [m \in Number |-> event'[m]] /\ held' = [m \in Number |-> held'[m]]
  BY <1>8 DEF IInv, Tables
<1>11. Tables'
  <2>1. \A m \in Number : /\ event'[m] \in Seq(EventRow) /\ Len(event'[m]) <= MaxEvents
                          /\ held'[m] \in Seq(Plan)
    <3>1. Len(es) <= MaxEvents
      BY <1>3, <1>4, TaskAssumption
    <3> QED
      BY <1>4, <1>10, <3>1 DEF IInv, Tables
  <2>2. /\ version' = [m \in Number |-> version'[m]]
        /\ \A m \in Number : version'[m] \in Seq(VersionRow) /\ Len(version'[m]) <= MaxVersions
    BY DEF IInv, Tables
  <2> QED
    BY <1>9, <1>10, <2>1, <2>2 DEF Tables
<1>12. HistoryInv'
  <2>1. \A m \in Number : \A k \in DOMAIN event'[m] : event'[m][k].version \in DOMAIN version'[m]
    BY <1>1, <1>4, <1>10 DEF IInv, HistoryInv
  <2> QED
    BY <1>9, <2>1 DEF HistoryInv
<1>13. MembersApart'
  BY ZenonT(40) DEF IInv, MembersApart
<1>14. DecisionInv'
  BY <1>5, <1>10 DEF IInv, DecisionInv, FirstDecision
<1>15. LiabilityCovered'
  <2>1. /\ \A m \in Number : IsInjective(held[m])
        /\ \A m \in Number : Exists(m) => Len(held[m]) <= version[m][Latest(m)].limit
        /\ \A m \in Number : ToSet(held[m]) = Approved(version[m], event[m])
        /\ \A l, m \in Number : l # m => ToSet(held[l]) \cap ToSet(held[m]) = {}
    BY DEF IInv, LiabilityCovered, Holds, Approved
  <2>2. ASSUME NEW m \in Number
        PROVE  /\ IsInjective(held'[m]) /\ (version'[m] # <<>> => Len(held'[m]) <= version'[m][Len(version'[m])].limit)
               /\ ToSet(held'[m]) = Approved(version'[m], event'[m])
    BY <1>6, <1>10, <2>1 DEF Exists, Latest, Holds
  <2>3. ASSUME NEW m \in Number, m # n PROVE ToSet(hs) \cap ToSet(held[m]) = {}
    <3>1. ASSUME kind = "approved" PROVE ToSet(version[n][v].members) \cap ToSet(held[m]) = {}
      <4> SUFFICES ASSUME NEW p \in ToSet(version[n][v].members), p \in ToSet(held[m]) PROVE FALSE
        OBVIOUS
      <4>1. PICK k \in DOMAIN event[m] : p \in ToSet(version[m][event[m][k].version].members)
        BY <2>1, InApproved
      <4>2. event[m][k].version \in DOMAIN version[m]
        BY <4>1 DEF IInv, HistoryInv
      <4> QED
        BY <2>3, <4>1, <4>2 DEF IInv, MembersApart
    <3> QED
      BY <2>1, <2>3, <3>1 DEF Holds
  <2>4. \A l, m \in Number : l # m => ToSet(held'[l]) \cap ToSet(held'[m]) = {}
    BY <1>10, <2>1, <2>3
  <2> QED
    BY <2>2, <2>4 DEF LiabilityCovered, Holds, Approved, Exists, Latest
<1> QED
  BY <1>9, <1>11, <1>12, <1>13, <1>14, <1>15, TablesType DEF IInv

LEMMA ApproveStep ==
  ASSUME IInv, NEW o \in Operator, ApproveBudget(o)
  PROVE  IInv'
<1> DEFINE n == view[o].number
           v == view[o].version
           row == version[n][v]
           hs == Allocated(held[n], row.members)
<1>1. Current(o) /\ Undecided(event[n], v) /\ UNCHANGED <<facts, version>>
  BY DEF ApproveBudget
<1>2. n \in Number /\ v \in DOMAIN version[n] /\ v = Len(version[n])
  BY <1>1, CurrentFacts
<1>3. CASE /\ Qualifies(n, row) /\ Len(hs) <= row.limit /\ CanAppend(event[n], row.at)
           /\ held' = [held EXCEPT ![n] = hs] /\ event' = [event EXCEPT ![n] = Appended(event[n], v, "approved")]
           /\ view' = [view EXCEPT ![o] = ViewOf(n, v, version[n], Appended(event[n], v, "approved"), hs, TRUE)]
           /\ UNCHANGED <<fault, met>>
  <2>1. held[n] \in Seq(Plan) /\ IsInjective(held[n]) /\ row.members \in Seq(Plan) /\ IsInjective(row.members)
    BY <1>2, TaskFacts DEF IInv, Tables, LiabilityCovered
  <2>2. hs \in Seq(Plan) /\ IsInjective(hs) /\ ToSet(hs) = Holds(n) \cup ToSet(row.members)
    BY <2>1, AllocatedFacts DEF Holds
  <2>3. fault' \subseteq Intent /\ met' \subseteq fault' /\ "approved" \in Kind /\ TRUE \in BOOLEAN
    BY <1>3 DEF IInv, TypeOK, Kind
  <2> HIDE DEF n, v, hs
  <2>4. UNCHANGED facts /\ version' = version /\ CanAppend(event[n], version[n][v].at) /\ Len(hs) <= version[n][v].limit
    BY <1>1, <1>3
  <2>5. o \in Operator
    OBVIOUS
  <2> QED
    BY ONLY IInv, <1>1, <1>2, <1>3, <2>2, <2>3, <2>4, <2>5, EventStep
<1>4. CASE Qualify(n, row) /\ UNCHANGED <<held, event, view>>
  <2>1. fault' \subseteq Intent /\ met' \subseteq fault'
    BY <1>2, <1>4, QualifyFacts
  <2> QED
    BY <1>1, <1>4, <2>1, RefusedStep
<1> QED
  BY <1>3, <1>4 DEF ApproveBudget

LEMMA WithdrawStep ==
  ASSUME IInv, NEW o \in Operator, Current(o), NEW kind \in {"revoked", "paused", "cancelled"}, Withdraw(o, kind)
  PROVE  IInv'
<1> DEFINE n == view[o].number
           v == view[o].version
           q == Qualifies(n, version[n][v])
<1>1. n \in Number /\ v \in DOMAIN version[n] /\ v = Len(version[n])
  BY CurrentFacts
<1>2. /\ CanAppend(event[n], version[n][v].at) /\ Qualify(n, version[n][v])
      /\ event' = [event EXCEPT ![n] = Appended(event[n], v, kind)]
      /\ view' = [view EXCEPT ![o] = ViewOf(n, v, version[n], Appended(event[n], v, kind), held[n], q)]
      /\ UNCHANGED facts /\ version' = version /\ held' = held
  BY DEF Withdraw
<1>3. fault' \subseteq Intent /\ met' \subseteq fault'
  BY <1>1, <1>2, QualifyFacts
<1>4. kind \in Kind /\ kind # "approved" /\ q \in BOOLEAN /\ o \in Operator
  BY DEF Kind, Qualifies
<1> HIDE DEF n, v, q
<1>5. held' = [held EXCEPT ![n] = held[n]] /\ held[n] \in Seq(Plan) /\ IsInjective(held[n])
  BY <1>1, <1>2 DEF IInv, Tables, LiabilityCovered
<1>6. Len(held[n]) <= version[n][v].limit
  BY <1>1 DEF IInv, LiabilityCovered, Exists, Latest
<1>7. ToSet(held[n]) = Holds(n) \cup (IF kind = "approved" THEN ToSet(version[n][v].members) ELSE {})
  BY <1>4 DEF Holds
<1> QED
  BY ONLY IInv, <1>1, <1>2, <1>3, <1>4, <1>5, <1>6, <1>7, EventStep

\* What create_version has to bring for the invariant to be kept.
LEMMA CreateStep ==
  ASSUME IInv, NEW o \in Operator, NEW n \in Number, NEW s \in MemberList, NEW limit \in Limits,
         CreateVersion(o, n, s, limit)
  PROVE  IInv'
<1> DEFINE row == [members |-> s, limit |-> limit, permission |-> permission.digest, at |-> now, until |-> SnapshotEnd(s)]
           vs == Append(version[n], row)
           e == [kind |-> "version_created", version |-> Len(vs), at |-> now]
           es == Append(event[n], e)
           w == ViewOf(n, Len(vs), vs, es, held[n], TRUE)
<1>1. /\ UNCHANGED facts /\ held' = held
      /\ Exists(n) => Latest(n) < MaxVersions
  BY DEF CreateVersion
<1>2. s \in Seq(Plan) /\ s # <<>> /\ IsInjective(s)
  BY MemberFacts
<1>3. CASE Found(n, s, limit) # {} /\ RecordFaults(Found(n, s, limit)) /\ met' = met \cup Found(n, s, limit)
           /\ UNCHANGED <<version, event, view>>
  <2>1. Found(n, s, limit) \subseteq Intent
    BY <1>2, FoundFacts
  <2>2. fault' \subseteq Intent /\ met' \subseteq fault'
    BY <1>3, <2>1 DEF RecordFaults, IInv, TypeOK
  <2> QED
    BY <1>1, <1>3, <2>2, RefusedStep
<1>4. CASE /\ SnapshotHolds(n, s, limit) /\ CanAppend(event[n], now) /\ Retained(n, s) <= limit
           /\ version' = [version EXCEPT ![n] = vs] /\ event' = [event EXCEPT ![n] = es]
           /\ view' = [view EXCEPT ![o] = w] /\ UNCHANGED <<fault, met>>
  <2>1. row \in VersionRow /\ row.members = s /\ row.limit = limit
    <3>1. SnapshotEnd(s) \in Int
      <4> DEFINE S == {End[IntentOf[p]] : p \in ToSet(s)}
      <4>1. \A p \in ToSet(s) : p \in Plan /\ IntentOf[p] \in Intent /\ End[IntentOf[p]] \in Nat
        BY <1>2, TaskAssumption DEF ToSet
      <4>2. s[1] \in ToSet(s)
        BY <1>2 DEF ToSet
      <4>3. S \subseteq Nat /\ S # {}
        BY <4>1, <4>2
      <4> HIDE DEF S
      <4>4. Min(S) \in Nat
        BY <4>3, MinIsNat
      <4> QED
        BY <4>4 DEF S, SnapshotEnd
    <3>2. permission.digest \in Nat /\ now \in Int
      BY DEF IInv, TypeOK
    <3> QED
      BY <3>1, <3>2 DEF VersionRow
  <2>2. version[n] \in Seq(VersionRow) /\ event[n] \in Seq(EventRow) /\ Len(event[n]) < MaxEvents
    BY <1>4 DEF CanAppend, IInv, Tables
  <2> HIDE DEF row
  <2>3. /\ vs \in Seq(VersionRow) /\ Len(vs) = Len(version[n]) + 1 /\ Len(version[n]) \in Nat
        /\ DOMAIN version[n] = 1 .. Len(version[n]) /\ DOMAIN vs = 1 .. Len(vs)
        /\ \A i : i \in DOMAIN vs <=> i \in DOMAIN version[n] \/ i = Len(vs)
        /\ vs[Len(vs)] = row /\ \A i \in DOMAIN version[n] : vs[i] = version[n][i]
    BY <2>1, <2>2, AppendFacts
  <2>4. Len(vs) \in 1 .. MaxVersions
    BY <1>1, <2>2, <2>3, TaskAssumption DEF Exists, Latest
  <2>5. Approved(vs, event[n]) = Approved(version[n], event[n])
    BY <2>1, <2>2, ApprovedByVersion DEF IInv, HistoryInv
  <2> HIDE DEF vs
  <2>6. e \in EventRow /\ e.kind = "version_created" /\ e.version = Len(vs)
    BY <2>4 DEF EventRow, Kind, IInv, TypeOK
  <2> HIDE DEF e
  <2>7. /\ es \in Seq(EventRow) /\ Len(es) = Len(event[n]) + 1 /\ Len(event[n]) \in Nat
        /\ \A i : i \in DOMAIN es <=> i \in DOMAIN event[n] \/ i = Len(event[n]) + 1
        /\ es[Len(event[n]) + 1] = e /\ \A i \in DOMAIN event[n] : es[i] = event[n][i]
    BY <2>2, <2>6, AppendFacts
  <2>8. FirstDecision(es)
    BY <2>2, <2>6, DecisionByEvent DEF IInv, DecisionInv
  <2>9. Approved(vs, es) = Approved(vs, event[n])
    <3>1. Approved(vs, es) =
            Approved(vs, event[n]) \cup (IF e.kind = "approved" THEN ToSet(vs[e.version].members) ELSE {})
      BY ONLY <2>2, <2>6, ApprovedByEvent
    <3> QED
      BY <2>6, <3>1
  <2> HIDE DEF es
  <2>10. w \in View /\ w.number = n /\ w.version = Len(vs)
    <3>1. Len(es) <= MaxEvents
      BY <2>2, <2>7, TaskAssumption
    <3>2. \A v \in 1 .. MaxVersions, q \in BOOLEAN :
            /\ ViewOf(n, v, vs, es, held[n], q) \in View
            /\ ViewOf(n, v, vs, es, held[n], q).number = n /\ ViewOf(n, v, vs, es, held[n], q).version = v
      BY <2>7, <3>1, ViewFacts
    <3> QED
      BY <2>4, <3>2
  <2> HIDE DEF w
  <2>11. /\ \A m \in Number : version'[m] = IF m = n THEN vs ELSE version[m]
         /\ \A m \in Number : event'[m] = IF m = n THEN es ELSE event[m]
         /\ version' = [m \in Number |-> version'[m]] /\ event' = [m \in Number |-> event'[m]]
    BY <1>4 DEF IInv, Tables
  <2>12. /\ view' = [p \in Operator |-> view'[p]]
         /\ \A p \in Operator : view'[p] = NoView \/ view'[p] \in View
         /\ \A p \in Operator : view'[p] # NoView => view'[p].version \in DOMAIN version'[view'[p].number]
    <3>1. w.version \in DOMAIN version'[w.number] /\ \A m \in Number : DOMAIN version[m] \subseteq DOMAIN version'[m]
      BY <2>3, <2>4, <2>10, <2>11
    <3>2. o \in Operator
      OBVIOUS
    <3> QED
      BY ONLY IInv, <1>4, <2>10, <3>1, <3>2, GivenView
  <2>13. Tables'
    <3>1. \A m \in Number : /\ event'[m] \in Seq(EventRow) /\ Len(event'[m]) <= MaxEvents
                            /\ version'[m] \in Seq(VersionRow) /\ Len(version'[m]) <= MaxVersions
      <4>1. Len(es) <= MaxEvents /\ Len(vs) <= MaxVersions
        BY <2>2, <2>4, <2>7, TaskAssumption
      <4> QED
        BY <2>3, <2>7, <2>11, <4>1 DEF IInv, Tables
    <3>2. held' = [m \in Number |-> held'[m]] /\ \A m \in Number : held'[m] \in Seq(Plan)
      BY <1>1 DEF IInv, Tables
    <3> QED
      BY <2>11, <2>12, <3>1, <3>2 DEF Tables
  <2>14. HistoryInv'
    <3>1. \A m \in Number : \A k \in DOMAIN event'[m] : event'[m][k].version \in DOMAIN version'[m]
      <4> SUFFICES ASSUME NEW m \in Number, NEW k \in DOMAIN event'[m] PROVE event'[m][k].version \in DOMAIN version'[m]
        OBVIOUS
      <4>1. CASE m # n
        BY <2>11, <4>1 DEF IInv, HistoryInv
      <4>2. CASE m = n
        <5>1. k \in DOMAIN event[n] \/ k = Len(event[n]) + 1
          BY <2>7, <2>11, <4>2
        <5>2. ASSUME k \in DOMAIN event[n] PROVE event[n][k].version \in DOMAIN vs /\ es[k] = event[n][k]
          BY <2>3, <2>7, <5>2 DEF IInv, HistoryInv
        <5>3. Len(vs) \in DOMAIN vs
          BY <2>3
        <5> QED
          BY <2>6, <2>7, <2>11, <4>2, <5>1, <5>2, <5>3
      <4> QED
        BY <4>1, <4>2
    <3> QED
      BY <2>12, <3>1 DEF HistoryInv
  <2>15. MembersApart'
    <3>1. ASSUME NEW m \in Number, m # n, NEW u \in DOMAIN version[m]
          PROVE  ToSet(version[m][u].members) \cap ToSet(s) = {}
      <4>1. \A k \in DOMAIN s : Unbound(n, s[k])
        BY <1>4 DEF SnapshotHolds, MemberHolds
      <4> QED
        BY <3>1, <4>1 DEF Unbound, ToSet
    <3>2. ASSUME NEW l \in Number, NEW m \in Number, l # m, NEW u \in DOMAIN version'[l], NEW v \in DOMAIN version'[m]
          PROVE  ToSet(version'[l][u].members) \cap ToSet(version'[m][v].members) = {}
      <4>1. \A x \in Number : \A y \in DOMAIN version'[x] :
              \/ y \in DOMAIN version[x] /\ version'[x][y] = version[x][y]
              \/ x = n /\ version'[x][y].members = s
        BY <2>1, <2>3, <2>11
      <4>2. \A x, y \in Number : x # y => \A a \in DOMAIN version[x], b \in DOMAIN version[y] :
              ToSet(version[x][a].members) \cap ToSet(version[y][b].members) = {}
        BY DEF IInv, MembersApart
      <4>3. CASE l # n /\ m # n
        BY <3>2, <4>1, <4>2, <4>3
      <4>4. CASE l = n
        BY <3>1, <3>2, <4>1, <4>2, <4>4
      <4>5. CASE m = n
        BY <3>1, <3>2, <4>1, <4>2, <4>5
      <4> QED
        BY <4>3, <4>4, <4>5
    <3> QED
      BY <3>2 DEF MembersApart
  <2>16. DecisionInv'
    BY <2>8, <2>11 DEF IInv, DecisionInv, FirstDecision
  <2>17. LiabilityCovered'
    <3>1. /\ \A m \in Number : IsInjective(held[m])
          /\ \A m \in Number : Exists(m) => Len(held[m]) <= version[m][Latest(m)].limit
          /\ \A m \in Number : ToSet(held[m]) = Approved(version[m], event[m])
          /\ \A l, m \in Number : l # m => ToSet(held[l]) \cap ToSet(held[m]) = {}
      BY DEF IInv, LiabilityCovered, Holds, Approved
    <3>2. Len(held[n]) <= limit
      <4>1. held[n] \in Seq(Plan) /\ IsInjective(held[n])
        BY <3>1 DEF IInv, Tables
      <4>2. IsFiniteSet(ToSet(held[n])) /\ Cardinality(ToSet(held[n])) = Len(held[n])
        BY <4>1, InjectiveLength
      <4>3. IsFiniteSet(ToSet(s))
        BY <1>2, InjectiveLength
      <4>4. IsFiniteSet(ToSet(held[n]) \cup ToSet(s))
        BY <4>2, <4>3, FS_Union
      <4>5. /\ Cardinality(ToSet(held[n])) <= Cardinality(ToSet(held[n]) \cup ToSet(s))
        BY <4>4, FS_Subset
      <4>6. Cardinality(ToSet(held[n]) \cup ToSet(s)) \in Nat /\ Len(held[n]) \in Nat
        BY <4>1, <4>4, FS_CardinalityType
      <4>7. Cardinality(ToSet(held[n]) \cup ToSet(s)) <= limit
        BY <1>4 DEF Retained, Holds
      <4> QED
        BY <4>2, <4>5, <4>6, <4>7, TaskAssumption
    <3>3. ASSUME NEW m \in Number
          PROVE  version'[m] # <<>> => Len(held'[m]) <= version'[m][Len(version'[m])].limit
      BY <1>1, <2>1, <2>3, <2>11, <3>1, <3>2 DEF Exists, Latest
    <3>4. ASSUME NEW m \in Number
          PROVE  ToSet(held'[m]) = Approved(version'[m], event'[m])
      BY <1>1, <2>5, <2>9, <2>11, <3>1
    <3> QED
      BY <1>1, <3>1, <3>3, <3>4 DEF LiabilityCovered, Holds, Approved, Exists, Latest
  <2>18. TypeOK'
    <3>1. fault' \subseteq Intent /\ met' \subseteq fault'
      BY <1>4 DEF IInv, TypeOK
    <3> QED
      BY <1>1, <2>12, <2>13, <3>1, TablesType
  <2> QED
    BY <1>4, <2>13, <2>14, <2>15, <2>16, <2>17, <2>18 DEF IInv
<1> QED
  BY <1>3, <1>4 DEF CreateVersion, Appended

LEMMA StepInv == IInv /\ [Next]_vars => IInv'
<1> SUFFICES ASSUME IInv, [Next]_vars PROVE IInv'
  OBVIOUS
<1>1. ASSUME NEW o \in Operator, TaskRequest(o) PROVE IInv'
  <2>1. ASSUME NEW n \in Number, NEW s \in MemberList, NEW limit \in Limits, CreateVersion(o, n, s, limit) PROVE IInv'
    BY <2>1, CreateStep
  <2>2. ASSUME NEW n \in Number, NEW v \in 1 .. MaxVersions, InspectTask(o, n, v) PROVE IInv'
    BY <2>2, InspectStep
  <2>3. CASE ApproveBudget(o)
    BY <2>3, ApproveStep
  <2>4. CASE RevokeBudget(o)
    BY <2>4, WithdrawStep DEF RevokeBudget
  <2>5. ASSUME NEW action \in Action, Transition(o, action) PROVE IInv'
    <3>1. PICK kind \in {"revoked", "paused", "cancelled"} : kind = IF action = "pause" THEN "paused" ELSE "cancelled"
      OBVIOUS
    <3>2. Current(o) /\ Withdraw(o, kind)
      BY <2>5, <3>1 DEF Transition
    <3> QED
      BY <3>2, WithdrawStep
  <2> QED
    BY <1>1, <2>1, <2>2, <2>3, <2>4, <2>5 DEF TaskRequest
<1> QED
  BY <1>1, AroundSteps DEF Next

-----------------------------------------------------------------------------
(* The views that operators are given                                      *)

\* The view v of a task n as it stands after the step, qualified or not.
Shown(o, n, v, q) ==
  /\ n \in Number /\ v \in DOMAIN version'[n] /\ q \in BOOLEAN
  /\ view'[o] = ViewOf(n, v, version'[n], event'[n], held'[n], q)
  /\ q => \A p \in ToSet(version'[n][v].members) : IntentOf[p] \notin fault

\* A qualified version has no member whose intent is faulted.
LEMMA QualifiedFacts ==
  ASSUME NEW n, NEW s, NEW limit, SnapshotHolds(n, s, limit)
  PROVE  \A p \in ToSet(s) : IntentOf[p] \notin fault
<1>1. \A k \in DOMAIN s : IntentOf[s[k]] \notin fault
  BY DEF SnapshotHolds, MemberHolds
<1> QED
  BY <1>1 DEF ToSet

\* Only the operator of the request is given a view.
LEMMA OwnView ==
  ASSUME IInv, NEW o \in Operator, NEW u \in Operator, NEW w, view' = [view EXCEPT ![u] = w], Given(o)
  PROVE  o = u /\ view'[o] = w
  BY DEF Given, IInv, Tables

\* A view that is given shows the task as the step leaves it.
LEMMA GivenFacts ==
  ASSUME IInv, [Next]_vars, NEW o \in Operator, Given(o)
  PROVE  \E n, v, q : Shown(o, n, v, q)
<1>1. PICK u \in Operator : TaskRequest(u)
  BY DEF Next, Tick, SetBack, ChangePermission, ClockDisorder, CancelPlan, vars, Given
<1>2. ASSUME NEW n \in Number, NEW s \in MemberList, NEW limit \in Limits, CreateVersion(u, n, s, limit)
      PROVE  \E m, v, q : Shown(o, m, v, q)
  <2> DEFINE row == [members |-> s, limit |-> limit, permission |-> permission.digest, at |-> now, until |-> SnapshotEnd(s)]
             vs == Append(version[n], row)
             es == Appended(event[n], Len(vs), "version_created")
             w == ViewOf(n, Len(vs), vs, es, held[n], TRUE)
  <2>1. /\ SnapshotHolds(n, s, limit) /\ held' = held
        /\ version' = [version EXCEPT ![n] = vs] /\ event' = [event EXCEPT ![n] = es]
        /\ view' = [view EXCEPT ![u] = w]
    BY <1>2 DEF CreateVersion, Given
  <2>2. Len(vs) \in DOMAIN vs /\ vs[Len(vs)].members = s
    BY DEF IInv, Tables
  <2> HIDE DEF vs, es
  <2>3. view'[o] = w
    BY <2>1, OwnView
  <2>4. version'[n] = vs /\ event'[n] = es /\ held'[n] = held[n]
    BY <2>1 DEF IInv, Tables
  <2>5. \A p \in ToSet(s) : IntentOf[p] \notin fault
    BY <2>1, QualifiedFacts
  <2>6. Shown(o, n, Len(vs), TRUE)
    BY <2>2, <2>3, <2>4, <2>5 DEF Shown
  <2> QED
    BY <2>6
<1>3. ASSUME NEW n \in Number, NEW v \in 1 .. MaxVersions, InspectTask(u, n, v)
      PROVE  \E m, x, q : Shown(o, m, x, q)
  <2> DEFINE q == Qualifies(n, version[n][v])
             w == ViewOf(n, v, version[n], event[n], held[n], q)
  <2>1. /\ v \in DOMAIN version[n] /\ view' = [view EXCEPT ![u] = w]
        /\ version' = version /\ event' = event /\ held' = held
    BY <1>3 DEF InspectTask
  <2>2. view'[o] = w
    BY <2>1, OwnView
  <2>3. q \in BOOLEAN /\ (q => \A p \in ToSet(version[n][v].members) : IntentOf[p] \notin fault)
    BY QualifiedFacts DEF Qualifies
  <2> HIDE DEF q
  <2>4. Shown(o, n, v, q)
    BY <2>1, <2>2, <2>3 DEF Shown
  <2> QED
    BY <2>4
<1>4. ASSUME ApproveBudget(u) PROVE \E m, x, q : Shown(o, m, x, q)
  <2> DEFINE n == view[u].number
             v == view[u].version
             row == version[n][v]
             hs == Allocated(held[n], row.members)
             es == Appended(event[n], v, "approved")
             w == ViewOf(n, v, version[n], es, hs, TRUE)
  <2>1. /\ Qualifies(n, row) /\ version' = version /\ Current(u)
        /\ held' = [held EXCEPT ![n] = hs] /\ event' = [event EXCEPT ![n] = es]
        /\ view' = [view EXCEPT ![u] = w]
    BY <1>4 DEF ApproveBudget, Given
  <2>2. n \in Number /\ v \in DOMAIN version[n]
    BY <2>1, CurrentFacts
  <2> HIDE DEF n, v, hs, es
  <2>3. view'[o] = w
    BY <2>1, OwnView
  <2>4. version'[n] = version[n] /\ event'[n] = es /\ held'[n] = hs
    BY <2>1, <2>2 DEF IInv, Tables
  <2>5. \A p \in ToSet(row.members) : IntentOf[p] \notin fault
    BY <2>1, QualifiedFacts DEF Qualifies
  <2>6. Shown(o, n, v, TRUE)
    BY <2>2, <2>3, <2>4, <2>5 DEF Shown
  <2> QED
    BY <2>6
<1>5. ASSUME Current(u), NEW kind, Withdraw(u, kind) PROVE \E m, x, q : Shown(o, m, x, q)
  <2> DEFINE n == view[u].number
             v == view[u].version
             es == Appended(event[n], v, kind)
             q == Qualifies(n, version[n][v])
             w == ViewOf(n, v, version[n], es, held[n], q)
  <2>1. /\ version' = version /\ held' = held
        /\ event' = [event EXCEPT ![n] = es] /\ view' = [view EXCEPT ![u] = w]
    BY <1>5 DEF Withdraw
  <2>2. n \in Number /\ v \in DOMAIN version[n]
    BY <1>5, CurrentFacts
  <2>3. q \in BOOLEAN /\ (q => \A p \in ToSet(version[n][v].members) : IntentOf[p] \notin fault)
    BY QualifiedFacts DEF Qualifies
  <2> HIDE DEF n, v, q, es
  <2>4. view'[o] = w
    BY <2>1, OwnView
  <2>5. version'[n] = version[n] /\ event'[n] = es /\ held'[n] = held[n]
    BY <2>1, <2>2 DEF IInv, Tables
  <2>6. Shown(o, n, v, q)
    BY <2>2, <2>3, <2>4, <2>5 DEF Shown
  <2> QED
    BY <2>6
<1>6. CASE RevokeBudget(u)
  BY <1>5, <1>6 DEF RevokeBudget
<1>7. ASSUME NEW action \in Action, Transition(u, action) PROVE \E m, x, q : Shown(o, m, x, q)
  BY <1>5, <1>7 DEF Transition
<1> QED
  BY <1>1, <1>2, <1>3, <1>4, <1>6, <1>7 DEF TaskRequest

\* The state budget_approved: the latest version, decided once.
LEMMA ApprovedState ==
  ASSUME NEW es \in Seq(EventRow), NEW v, NEW last, FirstDecision(es), StateOf(es, v, last) = "budget_approved"
  PROVE  /\ v = last /\ ~EventsOf(es, v, {"revoked", "paused"})
         /\ \A k \in DOMAIN es : es[k].kind # "cancelled"
<1> DEFINE decisions == {k \in DOMAIN es : es[k].version = v /\ es[k].kind \in {"approved", "revoked"}}
<1>1. /\ v = last /\ ~EventsOf(es, v, {"paused"}) /\ \A k \in DOMAIN es : es[k].kind # "cancelled"
      /\ decisions # {} /\ es[Max(decisions)].kind = "approved"
  BY DEF StateOf
<1>2. Len(es) \in Nat /\ DOMAIN es = 1 .. Len(es)
  OBVIOUS
<1>3. Max(decisions) \in decisions /\ \A k \in decisions : k <= Max(decisions)
  <2>1. decisions \subseteq 1 .. Len(es)
    BY <1>2
  <2> HIDE DEF decisions
  <2> QED
    BY <1>1, <1>2, <2>1, MaxFacts
<1>4. PICK m : m = Max(decisions)
  OBVIOUS
<1>5. m \in DOMAIN es /\ es[m].version = v /\ es[m].kind = "approved" /\ \A k \in decisions : k <= m
  BY <1>1, <1>3, <1>4
<1>6. ASSUME NEW j \in DOMAIN es, es[j].version = v, es[j].kind = "revoked" PROVE FALSE
  <2>1. j \in decisions
    BY <1>6
  <2>2. j <= m /\ j # m
    BY <1>5, <1>6, <2>1
  <2>3. j \in 1 .. (m - 1)
    BY <1>2, <1>5, <2>2
  <2> QED
    BY <1>5, <1>6, <2>3 DEF FirstDecision
<1> QED
  BY <1>1, <1>6 DEF EventsOf

-----------------------------------------------------------------------------
(* Theorems                                                                *)

\* The inductive invariant holds in every reachable state.
THEOREM Invariance == Spec => []IInv
  BY InitInv, StepInv, PTL DEF Spec

\* Every table and every view keeps its shape.
THEOREM TypeCorrectness == Spec => []TypeOK
<1>1. IInv => TypeOK
  BY DEF IInv
<1> QED
  BY <1>1, Invariance, PTL

\* Requests that were approved stay held: by one task, once, within the limit
\* of its latest version, whatever is revoked, paused, cancelled or drafted
\* afterwards (_allocate and create_version of the task service).
THEOREM LiabilityHeld == Spec => []LiabilityCovered
<1>1. IInv => LiabilityCovered
  BY DEF IInv
<1> QED
  BY <1>1, Invariance, PTL

\* A view says that a budget is current only of the latest version, which
\* nobody has revoked, paused or cancelled (_view, decide_budget).
THEOREM WithdrawalsStay == Spec => WithdrawnStays
<1>1. ASSUME IInv, IInv', [Next]_vars, NEW o \in Operator, Given(o), view'[o].budget
      PROVE  /\ view'[o].version = Len(version'[view'[o].number])
             /\ ~EventsOf(event'[view'[o].number], view'[o].version, {"revoked", "paused"})
             /\ \A k \in DOMAIN event'[view'[o].number] : event'[view'[o].number][k].kind # "cancelled"
  <2>1. PICK n, v, q : Shown(o, n, v, q)
    BY <1>1, GivenFacts
  <2>2. n \in Number /\ view'[o] = ViewOf(n, v, version'[n], event'[n], held'[n], q)
    BY <2>1 DEF Shown
  <2>3. view'[o].number = n /\ view'[o].version = v /\ StateOf(event'[n], v, Len(version'[n])) = "budget_approved"
    BY <1>1, <2>2 DEF ViewOf
  <2>4. event'[n] \in Seq(EventRow) /\ FirstDecision(event'[n])
    BY <1>1, <2>2 DEF IInv, Tables, DecisionInv, FirstDecision
  <2> QED
    BY <2>3, <2>4, ApprovedState
<1>2. IInv /\ IInv' /\ [Next]_vars =>
        [\A o \in Operator : Given(o) /\ view'[o].budget =>
           LET n == view'[o].number
               v == view'[o].version
           IN /\ v = Len(version'[n])
              /\ ~EventsOf(event'[n], v, {"revoked", "paused"})
              /\ \A k \in DOMAIN event'[n] : event'[n][k].kind # "cancelled"]_vars
  BY <1>1
<1> QED
  BY <1>2, Invariance, PTL DEF Spec, WithdrawnStays

\* An intent that was met after its end is never shown as current again, also
\* when the clock is set back: its fault is on record before the refusal
\* (_snapshot, Clock.invalidate).
THEOREM ExpiriesStay == Spec => ExpiryStays
<1>1. ASSUME IInv, [Next]_vars, NEW o \in Operator, Given(o), view'[o].dependencies
      PROVE  \A p \in ToSet(version'[view'[o].number][view'[o].version].members) : IntentOf[p] \notin met
  <2>1. PICK n, v, q : Shown(o, n, v, q)
    BY <1>1, GivenFacts
  <2>2. view'[o] = ViewOf(n, v, version'[n], event'[n], held'[n], q)
    BY <2>1 DEF Shown
  <2>3. view'[o].number = n /\ view'[o].version = v /\ q
    BY <1>1, <2>2 DEF ViewOf
  <2>4. met \subseteq fault
    BY <1>1 DEF IInv
  <2> QED
    BY <2>1, <2>3, <2>4 DEF Shown
<1>2. IInv /\ [Next]_vars =>
        [\A o \in Operator : Given(o) /\ view'[o].dependencies =>
           \A p \in ToSet(version'[view'[o].number][view'[o].version].members) : IntentOf[p] \notin met]_vars
  BY <1>1
<1> QED
  BY <1>2, Invariance, PTL DEF Spec, ExpiryStays
=============================================================================
