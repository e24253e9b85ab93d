--------------------------- MODULE GatewayProofs ---------------------------
(***************************************************************************)
(* Theorems about the two limits under which requests leave: the admission *)
(* of calls to the network (NetworkAdmission), for any number of calls,    *)
(* Targets and slots and for both controllers, and the rate limiters       *)
(* (RateReservation), for any number of callers, any intervals and any     *)
(* length of a behaviour.  The specifications share no variable; each has  *)
(* its own invariant.                                                      *)
(*                                                                         *)
(* SwitchStops is not inductive: it says nothing of a call that has        *)
(* resolved its destination and not connected yet.  Nor is PermitHeld: a   *)
(* call must be known to have a slot from the moment it has the lock, and  *)
(* to hold nothing before.  LimitHolds counts permits, and holds because   *)
(* the permits in force are locks of different slots, none beyond the      *)
(* limit under which it was granted.                                       *)
(*                                                                         *)
(* RateHolds compares a count of requests with the clock, and no step      *)
(* shows why the count is right.  RateInv does: each request that has left *)
(* stands for a slot of its own that has come and that no caller is still  *)
(* waiting for.                                                            *)
(***************************************************************************)
EXTENDS NetworkAdmission, RateReservation, FiniteSetTheorems, SequenceTheorems, TLAPS

-----------------------------------------------------------------------------
(* Admission: the inductive invariant                                      *)

\* A call knows of a slot exactly from the lock to its release, and a slot
\* that it was admitted with, and whose session lives, is locked in its name.
SlotInv ==
  \A c \in Call :
    /\ granted[c] # 0 => slot[c] # 0 /\ lock[slot[c]] = c /\ slot[c] <= granted[c]
    /\ pc[c] \in {"idle", "check", "limit", "try", "poll"} => slot[c] = 0
    /\ pc[c] \in {"acquired", "recheck"} => slot[c] # 0 /\ granted[c] = 0
    /\ Admitted(c) => slot[c] # 0

\* Where a call stands between its resolution and its connection, the
\* history already has every moment at which the network was enabled.
SwitchInv ==
  \A c \in Call :
    /\ connected[c] => pc[c] = "open"
    /\ pc[c] = "resolved" /\ Enabled(target[c]) => enabledSince[c]
    /\ pc[c] \in {"connect", "open"} => enabledSince[c]

\* The inductive invariant.
IInv == TypeOK /\ SlotInv /\ NoPermitLeak /\ SwitchInv

-----------------------------------------------------------------------------
(* Each step keeps the invariant                                           *)

LEMMA InitInv == Init => IInv
<1> SUFFICES ASSUME Init PROVE IInv
  OBVIOUS
<1> USE AdmissionAssumption DEF Init, NoScan, Slot
<1>1. TypeOK
  BY DEF TypeOK
<1>2. SlotInv /\ NoPermitLeak
  BY DEF SlotInv, NoPermitLeak, Admitted
<1>3. SwitchInv
  BY DEF SwitchInv
<1> QED
  BY <1>1, <1>2, <1>3 DEF IInv

\* Steps that move a call and neither its lock nor its slot.
LEMMA ControlSteps ==
  ASSUME IInv, NEW c \in Call,
         \/ Request(c) \/ CheckEnabled(c) \/ ReadLimit(c) \/ ScanFails(c) \/ Poll(c)
         \/ DeadlinePasses(c) \/ Timeout(c) \/ InTime(c) \/ Recheck(c) \/ RecheckDenies(c)
  PROVE  IInv'
<1> USE AdmissionAssumption
    DEF IInv, Goto, controls, Request, CheckEnabled, ReadLimit, ScanFails, Poll,
        DeadlinePasses, Timeout, InTime, Recheck, RecheckDenies
<1>1. TypeOK'
  <2>1. CASE ReadLimit(c)
    <3>1. [next |-> 1, limit |-> maximum] \in [next : 1 .. Slots + 1, limit : 0 .. Slots]
      BY DEF TypeOK, Slot
    <3> QED
      BY <2>1, <3>1 DEF TypeOK
  <2>2. CASE DeadlinePasses(c)
    BY <2>2 DEF TypeOK
  <2>3. CASE \/ Request(c) \/ CheckEnabled(c) \/ ScanFails(c) \/ Poll(c)
             \/ Timeout(c) \/ InTime(c) \/ Recheck(c) \/ RecheckDenies(c)
    <3>1. PICK p \in {"check", "limit", "poll", "release", "recheck", "admitted"} :
            pc' = [pc EXCEPT ![c] = p]
      BY <2>3
    <3>2. UNCHANGED <<controls, lock, target, slot, scan, expired, connected, enabledSince>>
      BY <2>3
    <3>3. granted' \in [Call -> 0 .. Slots]
      BY <2>3 DEF TypeOK, Slot
    <3> QED
      BY <3>1, <3>2, <3>3 DEF TypeOK
  <2> QED
    BY <2>1, <2>2, <2>3
<1>2. lock' = lock /\ slot' = slot
  OBVIOUS
<1>3. \A d \in Call :
        /\ pc'[d] \in {"idle", "check", "limit", "try", "poll"} => slot[d] = 0
        /\ pc'[d] \in {"acquired", "recheck", "admitted", "resolved", "connect", "open"} => slot[d] # 0
        /\ pc'[d] \in {"acquired", "recheck"} => granted'[d] = 0
        /\ granted'[d] # 0 => slot[d] # 0 /\ lock[slot[d]] = d /\ slot[d] <= granted'[d]
  <2>1. CASE Recheck(c)
    BY <2>1 DEF SlotInv, Admitted, TypeOK, HasSession
  <2>2. CASE ~Recheck(c)
    <3>1. granted' = granted
      BY <2>2
    <3> QED
      BY <2>2, <3>1 DEF SlotInv, Admitted, TypeOK
  <2> QED
    BY <2>1, <2>2
<1>4. SlotInv' /\ NoPermitLeak'
  BY <1>2, <1>3 DEF SlotInv, NoPermitLeak, Admitted
<1>5. SwitchInv'
  BY DEF SwitchInv, Enabled, TypeOK
<1> QED
  BY <1>1, <1>4, <1>5

\* The gateway's steps under the permit.
LEMMA GatewaySteps ==
  ASSUME IInv, NEW c \in Call,
         \/ Resolve(c) \/ ConnectCheck(c) \/ GatewayDenies(c) \/ Connect(c)
         \/ ConnectFails(c) \/ Respond(c)
  PROVE  IInv'
<1> USE DEF IInv, Goto, controls, Resolve, ConnectCheck, GatewayDenies, Connect,
            ConnectFails, Respond
<1>1. TypeOK'
  BY DEF TypeOK, Enabled
<1>2. SlotInv' /\ NoPermitLeak'
  BY DEF SlotInv, NoPermitLeak, Admitted, TypeOK
<1>3. SwitchInv'
  BY DEF SwitchInv, Enabled, TypeOK
<1> QED
  BY <1>1, <1>2, <1>3

\* A permit is taken.
LEMMA AcquireSteps ==
  ASSUME IInv, NEW c \in Call, TrySlot(c) \/ AcquirePermit(c)
  PROVE  IInv'
<1> USE AdmissionAssumption DEF IInv, Goto, controls, Slot
<1>1. CASE TrySlot(c) /\ lock[scan[c].next] # Free
  <2>1. TypeOK'
    <3>1. scan[c] \in [next : 1 .. Slots + 1, limit : 0 .. Slots]
      BY DEF TypeOK
    <3>2. [scan[c] EXCEPT !.next = @ + 1] \in [next : 1 .. Slots + 1, limit : 0 .. Slots]
      BY <1>1, <3>1 DEF TrySlot
    <3>3. scan' = [scan EXCEPT ![c] = [scan[c] EXCEPT !.next = @ + 1]]
      BY <1>1, <3>1 DEF TrySlot, TypeOK
    <3> QED
      BY <1>1, <3>2, <3>3 DEF TypeOK, TrySlot
  <2>2. SlotInv' /\ NoPermitLeak' /\ SwitchInv'
    BY <1>1 DEF SlotInv, NoPermitLeak, SwitchInv, Admitted, Enabled, TypeOK, TrySlot
  <2> QED
    BY <2>1, <2>2
<1>2. CASE AcquirePermit(c) \/ (TrySlot(c) /\ lock[scan[c].next] = Free)
  <2>1. PICK s \in Slot :
          /\ lock[s] = Free /\ pc[c] \in {"try", "poll"}
          /\ lock' = [lock EXCEPT ![s] = c] /\ slot' = [slot EXCEPT ![c] = s]
          /\ pc' = [pc EXCEPT ![c] = IF pc[c] = "try" THEN "acquired" ELSE "recheck"]
          /\ UNCHANGED <<controls, target, scan, expired, connected, enabledSince, granted>>
    BY <1>2 DEF TrySlot, AcquirePermit, TypeOK
  <2>2. slot[c] = 0 /\ granted[c] = 0 /\ \A r \in Slot : lock[r] # c
    BY <2>1 DEF SlotInv, NoPermitLeak, TypeOK
  <2>3. TypeOK'
    BY <2>1 DEF TypeOK
  <2>4. SlotInv'
    BY <2>1, <2>2 DEF SlotInv, Admitted, TypeOK
  <2>5. NoPermitLeak'
    BY <2>1, <2>2 DEF NoPermitLeak, TypeOK
  <2>6. SwitchInv'
    BY <2>1 DEF SwitchInv, Enabled, TypeOK
  <2> QED
    BY <2>3, <2>4, <2>5, <2>6
<1> QED
  BY <1>1, <1>2

\* A call ends and leaves its slot free, orphaned or never taken.
LEMMA EndSteps ==
  ASSUME IInv, NEW c \in Call,
         \/ CheckDenies(c) \/ TryAnswerLost(c) \/ CoordinationFails(c)
         \/ Release(c) \/ ReleaseFails(c) \/ Crash(c)
  PROVE  IInv'
<1> USE AdmissionAssumption DEF IInv, Goto, Reset, NoScan, controls, Slot
<1>1. Reset(c) /\ UNCHANGED <<controls, target>>
  BY DEF CheckDenies, TryAnswerLost, CoordinationFails, Release, ReleaseFails, Crash
<1>2. /\ lock' \in [Slot -> Call \cup {Free, Orphan}]
      /\ \A s \in Slot : lock'[s] # lock[s] => lock[s] \in {c, Free} /\ lock'[s] \in {Free, Orphan}
      /\ \A s \in Slot : lock'[s] # c
  <2>1. CASE CheckDenies(c)
    BY <2>1 DEF CheckDenies, TypeOK, SlotInv, NoPermitLeak
  <2>2. CASE TryAnswerLost(c)
    BY <2>2 DEF TryAnswerLost, TypeOK, SlotInv, NoPermitLeak
  <2>3. CASE CoordinationFails(c) \/ ReleaseFails(c) \/ Crash(c)
    <3>1. lock' = Orphaned(c)
      BY <2>3 DEF CoordinationFails, ReleaseFails, Crash
    <3>2. \A s \in Slot : lock'[s] = IF lock[s] = c THEN Orphan ELSE lock[s]
      BY <3>1 DEF Orphaned
    <3> QED
      BY <3>1, <3>2 DEF Orphaned, TypeOK
  <2>4. CASE Release(c)
    BY <2>4 DEF Release, TypeOK, SlotInv, NoPermitLeak
  <2> QED
    BY <2>1, <2>2, <2>3, <2>4
<1>3. TypeOK'
  BY <1>1, <1>2 DEF TypeOK
<1>4. SlotInv'
  BY <1>1, <1>2 DEF SlotInv, Admitted, TypeOK
<1>5. NoPermitLeak'
  BY <1>1, <1>2 DEF NoPermitLeak, TypeOK
<1>6. SwitchInv'
  BY <1>1 DEF SwitchInv, Enabled, TypeOK
<1> QED
  BY <1>3, <1>4, <1>5, <1>6

\* The server and the operators.
LEMMA AroundSteps ==
  ASSUME IInv,
         \/ \E s \in Slot : SessionEnds(s)
         \/ \E c \in Call : SessionLost(c)
         \/ \E enabled \in BOOLEAN : SetGlobal(enabled)
         \/ \E t \in Target : DisableTarget(t) \/ EnableTarget(t)
         \/ \E m \in Slot : SetMaximum(m)
  PROVE  IInv'
<1> USE AdmissionAssumption
    DEF IInv, controls, SessionEnds, SessionLost, SetGlobal, DisableTarget, EnableTarget, SetMaximum, Witness
<1>1. TypeOK'
  <2>1. CASE \E c \in Call : SessionLost(c)
    <3>1. PICK c \in Call : SessionLost(c)
      BY <2>1
    <3>2. /\ lock' = [lock EXCEPT ![slot[c]] = Free] /\ granted' = [granted EXCEPT ![c] = 0]
          /\ UNCHANGED <<controls, pc, target, slot, scan, expired, connected, enabledSince>>
      BY <3>1
    <3>3. 0 \in 0 .. Slots
      OBVIOUS
    <3> QED
      BY <3>2, <3>3 DEF TypeOK
  <2>2. CASE ~\E c \in Call : SessionLost(c)
    <3>1. granted' = granted
      BY <2>2
    <3> QED
      BY <2>2, <3>1 DEF TypeOK, Enabled
  <2> QED
    BY <2>1, <2>2
<1>2. SlotInv'
  <2>1. pc' = pc /\ slot' = slot
    OBVIOUS
  <2>2. \A c \in Call : slot[c] # 0 => slot[c] \in Slot
    BY DEF TypeOK, Slot
  <2>3. \A c \in Call : granted'[c] # 0 => granted'[c] = granted[c] /\ lock'[slot[c]] = lock[slot[c]]
    <3>1. CASE \E s \in Slot : SessionEnds(s)
      BY <2>2, <3>1 DEF SlotInv, TypeOK
    <3>2. CASE \E c \in Call : SessionLost(c)
      <4>1. PICK d \in Call : SessionLost(d)
        BY <3>2
      <4>2. granted' = [granted EXCEPT ![d] = 0] /\ lock' = [lock EXCEPT ![slot[d]] = Free] /\ lock[slot[d]] = d
        BY <4>1 DEF HasSession
      <4> QED
        BY <2>2, <4>2 DEF SlotInv, TypeOK
    <3>3. CASE lock' = lock /\ granted' = granted
      BY <3>3
    <3> QED
      BY <3>1, <3>2, <3>3
  <2>4. \A c \in Call : granted[c] = 0 => granted'[c] = 0
    BY DEF TypeOK
  <2> QED
    BY <2>1, <2>3, <2>4 DEF SlotInv, Admitted
<1>3. NoPermitLeak'
  <2>1. slot' = slot /\ \A s \in Slot : lock'[s] # lock[s] => lock'[s] = Free
    BY DEF TypeOK
  <2> QED
    BY <2>1 DEF NoPermitLeak
<1>4. SwitchInv'
  BY DEF SwitchInv, Enabled, TypeOK
<1> QED
  BY <1>1, <1>2, <1>3, <1>4

LEMMA StepInv == IInv /\ [Next]_vars => IInv'
<1> SUFFICES ASSUME IInv, [Next]_vars PROVE IInv'
  OBVIOUS
<1>1. CASE UNCHANGED vars
  BY <1>1 DEF vars, controls, IInv, TypeOK, SlotInv, NoPermitLeak, SwitchInv, Admitted, Enabled
<1>2. CASE Next
  BY <1>2, ControlSteps, GatewaySteps, AcquireSteps, EndSteps, AroundSteps DEF Next, Step
<1> QED
  BY <1>1, <1>2

-----------------------------------------------------------------------------
(* Theorems                                                                *)

\* The inductive invariant holds in every reachable state.
THEOREM Invariance == Spec => []IInv
BY InitInv, StepInv, PTL DEF Spec

\* Variables keep their types.
THEOREM TypeCorrectness == Spec => []TypeOK
BY Invariance, PTL DEF IInv

\* A call connects only if the network was enabled for its Target after its
\* destination was resolved: a switch thrown while it waited stops it.
THEOREM SwitchesStop == Spec => []SwitchStops
<1>1. IInv => SwitchStops
  BY DEF IInv, SwitchInv, SwitchStops
<1> QED
  BY <1>1, Invariance, PTL

\* An admitted call holds the lock of its own slot unless the server has
\* ended its session, and no lock is held in the name of a call that does not
\* know of it, whatever was lost, timed out or invalidated.
THEOREM PermitsHeld == Spec => [](PermitHeld /\ NoPermitLeak)
<1>1. IInv => PermitHeld /\ NoPermitLeak
  BY DEF IInv, TypeOK, SlotInv, PermitHeld, Slot
<1> QED
  BY <1>1, Invariance, PTL

\* Some call has the highest slot.
LEMMA HighestSlot ==
  ASSUME IInv, Counted # {}
  PROVE  \E c \in Counted : \A d \in Counted : slot[d] <= slot[c]
<1> DEFINE Room == {Slots - slot[c] : c \in Counted}
<1>1. Slots \in Nat /\ \A c \in Counted : slot[c] \in 0 .. Slots
  BY AdmissionAssumption DEF IInv, TypeOK, Counted
<1>2. Room \subseteq Nat /\ Room # {}
  BY <1>1
<1>3. PICK x \in Room : \A y \in Room : ~(<<y, x>> \in OpToRel(<, Nat))
  BY <1>2, WFMin, NatLessThanWellFounded
<1>4. \A y \in Room : ~(y < x)
  BY <1>2, <1>3 DEF OpToRel
<1>5. PICK c \in Counted : x = Slots - slot[c]
  OBVIOUS
<1>6. ASSUME NEW d \in Counted PROVE slot[d] <= slot[c]
  <2>1. Slots - slot[d] \in Room
    OBVIOUS
  <2>2. ~(Slots - slot[d] < Slots - slot[c])
    BY <1>4, <1>5, <2>1
  <2> HIDE DEF Room
  <2> QED
    BY <1>1, <2>2
<1> QED
  BY <1>6

\* The calls with a permit are never more than the largest of the limits under
\* which they were admitted, though limits change and sessions are lost while
\* calls wait, scan and run.
THEOREM LimitKept == Spec => []LimitHolds
<1>1. IInv => LimitHolds
  <2> SUFFICES ASSUME IInv, Counted # {}
               PROVE  \E c \in Counted : Cardinality(Counted) <= granted[c]
    BY DEF LimitHolds
  <2>1. PICK c \in Counted : \A d \in Counted : slot[d] <= slot[c]
    BY HighestSlot
  <2>2. \A d \in Counted : /\ d \in Call /\ slot[d] \in 1 .. Slots /\ lock[slot[d]] = d
                           /\ slot[d] <= granted[d] /\ granted[d] \in Nat
    BY DEF IInv, TypeOK, SlotInv, Counted
  <2> DEFINE n == slot[c]
             f == [d \in Counted |-> slot[d]]
  <2>3. n \in Nat /\ n >= 1 /\ n <= granted[c] /\ granted[c] \in Nat
    BY <2>2
  <2>4. f \in [Counted -> 1 .. n] /\ \A d, e \in Counted : f[d] = f[e] => d = e
    BY <2>1, <2>2, <2>3
  <2>5. f \in Injection(Counted, 1 .. n)
    BY <2>4 DEF Injection, IsInjective
  <2>6. IsFiniteSet(1 .. n) /\ Cardinality(1 .. n) = n
    <3> HIDE DEF n
    <3>1. n \in Int /\ 1 \in Int
      BY <2>3
    <3>2. IsFiniteSet(1 .. n) /\ Cardinality(1 .. n) = IF 1 > n THEN 0 ELSE n - 1 + 1
      BY <3>1, FS_Interval
    <3> QED
      BY <2>3, <3>2
  <2> HIDE DEF f, n
  <2>7. IsFiniteSet(Counted) /\ Cardinality(Counted) <= Cardinality(1 .. n)
    BY <2>5, <2>6, FS_Injection
  <2>8. Cardinality(Counted) \in Nat
    BY <2>7, FS_CardinalityType
  <2> QED
    BY <2>3, <2>6, <2>7, <2>8
<1> QED
  BY <1>1, Invariance, PTL

-----------------------------------------------------------------------------
(* Rate limiters: the inductive invariant                                  *)

Index == 1 .. Len(reserved)

\* From a slot to the k-th after it at least k platform intervals pass.
PlatformSpacing ==
  \A i, j \in Index :
    i <= j => reserved[i].slot + (j - i) * PlatformInterval <= reserved[j].slot

\* No call has an interval below the platform's.
IntervalInv ==
  /\ \A i \in Index : reserved[i].interval >= PlatformInterval
  /\ \A c \in Caller : turn[c] # "idle" => call[c].interval >= PlatformInterval

\* The row, or the dictionary's entry, follows the last reservation.
MarkInv ==
  IF reserved = << >> THEN mark = Never
  ELSE LET last == reserved[Len(reserved)] IN
       mark = last.slot + (IF durable THEN last.interval ELSE 0)

\* Between its upsert and its commit a caller has the row to itself, and the
\* slot it will commit is not before the row's mark.
LockInv ==
  \A c \in Caller : turn[c] = "commit" =>
    durable /\ rowLock = c /\ call[c].slot >= mark

\* A call that goes on has attempts left.
AttemptInv ==
  \A c \in Caller :
    /\ turn[c] = "idle" => attempts[c] = 0
    /\ turn[c] \in {"reserve", "commit"} => attempts[c] < MaxRetries

\* The caller has a slot and has not sent.
Pending(c) == turn[c] \in {"answered", "sleep"}

\* Callers with a slot have different reserved slots, and neither the delay
\* nor the sleep ends before the slot.
PendingInv ==
  /\ \A c \in Caller : Pending(c) => \E i \in Index : reserved[i].slot = call[c].slot
  /\ \A c, d \in Caller : Pending(c) /\ Pending(d) /\ c # d => call[c].slot # call[d].slot
  /\ \A c \in Caller : turn[c] = "answered" => call[c].slot <= now + call[c].delay
  /\ \A c \in Caller : turn[c] = "sleep" => call[c].slot <= call[c].wake

\* The slots that have come and that nobody is waiting for.
Spent == {i \in Index : /\ reserved[i].slot <= now
                        /\ \A c \in Caller : Pending(c) => call[c].slot # reserved[i].slot}

\* A request that has left has spent a slot of its own.
SentInv == ~early /\ sent <= Cardinality(Spent)

\* The inductive invariant.
RateInv == /\ RateTypeOK /\ SlotSpacing /\ PlatformSpacing /\ IntervalInv /\ MarkInv
        /\ LockInv /\ AttemptInv /\ PendingInv /\ SentInv

-----------------------------------------------------------------------------
(* Facts about sequences of reservations                                   *)

Reservations == [slot : Nat, interval : Nat \ {0}]

LEMMA ReservedFacts ==
  ASSUME RateTypeOK
  PROVE  /\ Len(reserved) \in Nat
         /\ \A i \in Index : reserved[i] \in Reservations
         /\ \A i \in Index : reserved[i].slot \in Nat /\ reserved[i].interval \in Nat
         /\ reserved # << >> => Len(reserved) \in Index
<1>1. reserved \in Seq(Reservations)
  BY DEF RateTypeOK, Reservations
<1>2. Len(reserved) \in Nat /\ \A i \in Index : reserved[i] \in Reservations
  BY <1>1, LenProperties, ElementOfSeq DEF Index
<1>3. \A r \in Reservations : r.slot \in Nat /\ r.interval \in Nat
  BY DEF Reservations
<1>4. reserved # << >> => Len(reserved) \in Index
  BY <1>1, <1>2, EmptySeq DEF Index
<1> QED
  BY <1>2, <1>3, <1>4

\* One more interval is one more platform interval.
LEMMA OneMore == \A k \in Nat : (k + 1) * PlatformInterval = k * PlatformInterval + PlatformInterval
BY RateAssumption

LEMMA Multiple == \A k \in Nat : k * PlatformInterval \in Nat
BY RateAssumption

\* Both limiters reserve slot t with the interval v.
Reserves(t, v) ==
  /\ t \in Nat /\ v \in Nat /\ v >= PlatformInterval
  /\ reserved # << >> =>
       LET last == reserved[Len(reserved)] IN
       last.slot + (IF durable THEN last.interval ELSE v) <= t
  /\ reserved' = Append(reserved, [slot |-> t, interval |-> v])
  /\ mark' = t + (IF durable THEN v ELSE 0)
  /\ durable' = durable

\* A reservation keeps the spacing, and its slot is after every other one.
LEMMA ReservationSpaced ==
  ASSUME RateInv, NEW t, NEW v, Reserves(t, v)
  PROVE  /\ reserved' \in Seq(Reservations)
         /\ Len(reserved') = Len(reserved) + 1
         /\ \A i \in Index : reserved'[i] = reserved[i] /\ reserved[i].slot < t
         /\ reserved'[Len(reserved) + 1].slot = t
         /\ SlotSpacing' /\ PlatformSpacing' /\ MarkInv'
         /\ \A i \in Index' : reserved'[i].interval >= PlatformInterval
<1> USE DEF RateInv
<1> DEFINE n == Len(reserved)
           r == [slot |-> t, interval |-> v]
<1>1. r \in Reservations /\ r.slot = t /\ r.interval = v
  BY RateAssumption DEF Reserves, Reservations
<1>2. reserved \in Seq(Reservations)
  BY DEF RateTypeOK, Reservations
<1>3. /\ reserved' \in Seq(Reservations) /\ reserved' # << >>
      /\ Len(reserved') = n + 1
      /\ \A i \in Index : reserved'[i] = reserved[i]
      /\ reserved'[n + 1] = r
  BY <1>1, <1>2, AppendProperties DEF Reserves, Index
<1>4. /\ n \in Nat
      /\ \A i \in Index : reserved[i].slot \in Nat /\ reserved[i].interval \in Nat
      /\ reserved # << >> => n \in Index
  BY ReservedFacts
<1>5. \A i \in Index : n \in Index /\ i <= n
  BY <1>4 DEF Index
<1>6. PlatformInterval \in Nat \ {0} /\ t \in Nat /\ v \in Nat /\ v >= PlatformInterval
  BY RateAssumption DEF Reserves
<1>7. \A i \in Index :
        /\ reserved[n].slot + PlatformInterval <= t
        /\ reserved[n].slot + (IF durable THEN reserved[n].interval ELSE v) <= t
  <2> SUFFICES ASSUME NEW i \in Index
               PROVE  /\ reserved[n].slot + PlatformInterval <= t
                      /\ reserved[n].slot + (IF durable THEN reserved[n].interval ELSE v) <= t
    OBVIOUS
  <2>1. reserved # << >>
    BY <1>2, EmptySeq DEF Index
  <2>2. reserved[n].slot + (IF durable THEN reserved[n].interval ELSE v) <= t
    BY <2>1 DEF Reserves
  <2>3. reserved[n].interval >= PlatformInterval
    BY <1>5 DEF IntervalInv
  <2> QED
    BY <1>4, <1>5, <1>6, <2>2, <2>3
<1>8. \A i \in Index : reserved[i].slot + (n - i) * PlatformInterval <= reserved[n].slot
  BY <1>5 DEF PlatformSpacing
<1>9. \A i \in Index : /\ reserved[i].slot + (n + 1 - i) * PlatformInterval <= t
                       /\ reserved[i].slot <= reserved[n].slot
                       /\ reserved[i].slot < t
  <2> SUFFICES ASSUME NEW i \in Index
               PROVE  /\ reserved[i].slot + (n + 1 - i) * PlatformInterval <= t
                      /\ reserved[i].slot <= reserved[n].slot
                      /\ reserved[i].slot < t
    OBVIOUS
  <2> DEFINE k == n - i
  <2>1. k \in Nat /\ n + 1 - i = k + 1
    BY <1>4, <1>5 DEF Index
  <2>2. reserved[i].slot + k * PlatformInterval <= reserved[n].slot
    BY <1>8
  <2>3. (k + 1) * PlatformInterval = k * PlatformInterval + PlatformInterval
        /\ k * PlatformInterval \in Nat
    BY <2>1, OneMore, Multiple
  <2>4. reserved[n].slot + PlatformInterval <= t
    BY <1>7
  <2>5. reserved[i].slot \in Nat /\ reserved[n].slot \in Nat
    BY <1>4, <1>5
  <2> DEFINE w == k * PlatformInterval
             a == reserved[i].slot
             z == reserved[n].slot
  <2>6. (n + 1 - i) * PlatformInterval = w + PlatformInterval
    BY <2>1, <2>3
  <2>7. w \in Nat /\ a \in Nat /\ z \in Nat /\ a + w <= z /\ z + PlatformInterval <= t
    BY <2>2, <2>3, <2>4, <2>5
  <2> HIDE DEF k, w, a, z
  <2>8. a + (w + PlatformInterval) <= t /\ a <= z /\ a < t
    BY <1>6, <2>7
  <2> QED
    BY <2>6, <2>8 DEF a, z
<1>10. Index' = Index \cup {n + 1} /\ n + 1 \notin Index
  BY <1>3, <1>4 DEF Index
<1>11. PlatformSpacing'
  <2> SUFFICES ASSUME NEW i \in Index', NEW j \in Index', i <= j
               PROVE  reserved'[i].slot + (j - i) * PlatformInterval <= reserved'[j].slot
    BY RateAssumption DEF PlatformSpacing
  <2>1. CASE i \in Index /\ j \in Index
    BY <1>3, <2>1 DEF PlatformSpacing
  <2>2. CASE i \in Index /\ j = n + 1
    BY <1>1, <1>3, <1>9, <2>2
  <2>3. CASE i = n + 1
    <3>1. j = i /\ j - i = 0
      BY <1>4, <1>10, <2>3 DEF Index
    <3>2. 0 * PlatformInterval = 0
      BY <1>6
    <3> QED
      BY <1>1, <1>3, <1>6, <2>3, <3>1, <3>2
  <2> QED
    BY <1>10, <2>1, <2>2, <2>3
<1>12. SlotSpacing'
  <2> SUFFICES ASSUME NEW i \in Index', NEW j \in Index', i < j
               PROVE  reserved'[i].slot + (IF durable THEN reserved'[i].interval ELSE reserved'[j].interval)
                        <= reserved'[j].slot
    BY DEF SlotSpacing, Index, Reserves
  <2>1. CASE i \in Index /\ j \in Index
    BY <1>3, <2>1 DEF SlotSpacing, Index
  <2>2. CASE i \in Index /\ j = n + 1
    <3>1. CASE i = n
      BY <1>1, <1>3, <1>7, <2>2, <3>1
    <3>2. CASE i < n
      <4>1. durable => reserved[i].slot + reserved[i].interval <= reserved[n].slot
        BY <1>5, <2>2, <3>2 DEF SlotSpacing, Index
      <4>2. /\ reserved[i].slot \in Nat /\ reserved[n].slot \in Nat
            /\ reserved[i].interval \in Nat /\ reserved[n].interval \in Nat
            /\ reserved[i].slot <= reserved[n].slot
        BY <1>4, <1>5, <1>9, <2>2
      <4>3. reserved[n].slot + (IF durable THEN reserved[n].interval ELSE v) <= t
        BY <1>7, <2>2
      <4>4. reserved[i].slot + (IF durable THEN reserved[i].interval ELSE v) <= t
        BY SMTT(30), <1>6, <4>1, <4>2, <4>3
      <4> QED
        BY <1>1, <1>3, <2>2, <4>4
    <3> QED
      BY <1>4, <1>5, <2>2, <3>1, <3>2 DEF Index
  <2>3. i # n + 1
    BY <1>4, <1>10 DEF Index
  <2> QED
    BY <1>10, <2>1, <2>2, <2>3
<1>13. MarkInv'
  BY <1>1, <1>3 DEF MarkInv, Reserves
<1>14. \A i \in Index' : reserved'[i].interval >= PlatformInterval
  BY <1>1, <1>3, <1>6, <1>10 DEF IntervalInv
<1> QED
  BY <1>1, <1>3, <1>9, <1>11, <1>12, <1>13, <1>14

-----------------------------------------------------------------------------
(* Counting                                                                *)

LEMMA SpentFinite ==
  ASSUME Len(reserved) \in Nat
  PROVE  IsFiniteSet(Spent) /\ Cardinality(Spent) \in Nat /\ Cardinality(Spent) <= Len(reserved)
<1>1. IsFiniteSet(Index) /\ Cardinality(Index) = Len(reserved)
  BY SMTT(30), FS_Interval DEF Index
<1>2. Spent \in SUBSET Index
  BY DEF Spent
<1> QED
  BY <1>1, <1>2, FS_Subset, FS_CardinalityType

\* A step that lets no request leave keeps every spent slot spent, if the
\* callers that come to wait do so for slots that are new.
LEMMA SpentKept ==
  ASSUME RateInv, Len(reserved') \in Nat, Len(reserved) <= Len(reserved'),
         \A i \in Index : reserved'[i] = reserved[i],
         now \in Nat, now' \in Nat, now <= now',
         \A c \in Caller : Pending(c)' =>
           \/ Pending(c) /\ call'[c].slot = call[c].slot
           \/ \A i \in Index : call'[c].slot # reserved[i].slot,
         sent' = sent, early' = early
  PROVE  SentInv'
<1>1. Len(reserved) \in Nat /\ \A i \in Index : reserved[i].slot \in Nat
  BY ReservedFacts DEF RateInv
<1>2. Index \subseteq Index'
  BY <1>1 DEF Index
<1>3. \A i \in Index : reserved[i].slot <= now => reserved[i].slot <= now'
  BY <1>1
<1>4. Spent \subseteq Spent'
  BY <1>2, <1>3 DEF Spent
<1>5. /\ IsFiniteSet(Spent) /\ Cardinality(Spent) \in Nat
      /\ IsFiniteSet(Spent') /\ Cardinality(Spent') \in Nat
  <2>1. IsFiniteSet(Index') /\ Spent' \in SUBSET Index'
    BY FS_Interval DEF Index, Spent
  <2> QED
    BY <1>1, <2>1, SpentFinite, FS_Subset, FS_CardinalityType
<1>6. Cardinality(Spent) <= Cardinality(Spent')
  BY <1>4, <1>5, FS_Subset
<1> QED
  BY <1>5, <1>6 DEF RateInv, SentInv, RateTypeOK

-----------------------------------------------------------------------------
(* Each step keeps the invariant                                           *)

LEMMA RateInitInv == RateInit => RateInv
<1> SUFFICES ASSUME RateInit PROVE RateInv
  OBVIOUS
<1>1. Len(reserved) = 0 /\ Index = {} /\ reserved \in Seq(Reservations)
  BY EmptySeq DEF RateInit, Index
<1>2. NoCall \in [interval : Nat \ {0}, slot : Nat, delay : Nat, wake : Nat]
  BY DEF NoCall
<1>3. RateTypeOK
  <2>1. reserved \in Seq([slot : Nat, interval : Nat \ {0}])
    BY <1>1 DEF Reservations
  <2>2. attempts \in [Caller -> 0 .. MaxRetries]
    BY RateAssumption DEF RateInit
  <2>3. call \in [Caller -> [interval : Nat \ {0}, slot : Nat, delay : Nat, wake : Nat]]
    BY <1>2 DEF RateInit
  <2> QED
    BY <2>1, <2>2, <2>3 DEF RateInit, RateTypeOK
<1>4. SlotSpacing /\ PlatformSpacing /\ IntervalInv /\ MarkInv
  BY <1>1 DEF RateInit, SlotSpacing, PlatformSpacing, IntervalInv, MarkInv, Index
<1>5. LockInv /\ AttemptInv /\ PendingInv
  BY RateAssumption DEF RateInit, LockInv, AttemptInv, PendingInv, Pending
<1>6. SentInv
  BY <1>1, SpentFinite DEF RateInit, SentInv
<1> QED
  BY <1>3, <1>4, <1>5, <1>6 DEF RateInv

\* Steps that reserve nothing, send nothing and leave the clock alone.
LEMMA WaitStep ==
  ASSUME RateInv, NEW c \in Caller, NEW requested \in Interval, Wait(c, requested)
  PROVE  RateInv'
<1> USE DEF RateInv
<1> DEFINE e == EffectiveInterval(requested)
<1>1. e \in Nat \ {0} /\ e >= PlatformInterval
  BY RateAssumption DEF EffectiveInterval, Larger
<1> HIDE DEF e
<1>2. /\ [NoCall EXCEPT !.interval = e] \in [interval : Nat \ {0}, slot : Nat, delay : Nat, wake : Nat]
      /\ [NoCall EXCEPT !.interval = e].interval = e
  BY <1>1 DEF NoCall
<1>3. /\ turn[c] = "idle" /\ turn' = [turn EXCEPT ![c] = "reserve"]
      /\ call' = [call EXCEPT ![c] = [NoCall EXCEPT !.interval = e]]
      /\ UNCHANGED <<durable, now, mark, rowLock, attempts, reserved, sent, early>>
  BY DEF Wait, e
<1>4. RateTypeOK'
  BY <1>2, <1>3 DEF RateTypeOK
<1>5. SlotSpacing' /\ PlatformSpacing' /\ MarkInv'
  BY <1>3 DEF SlotSpacing, PlatformSpacing, MarkInv, Index
<1>6. IntervalInv'
  BY <1>1, <1>2, <1>3 DEF IntervalInv, RateTypeOK, Index
<1>7. LockInv' /\ AttemptInv'
  BY SMTT(30), <1>3, RateAssumption DEF LockInv, AttemptInv, RateTypeOK
<1>8. PendingInv'
  BY <1>3 DEF PendingInv, Pending, Index, RateTypeOK
<1>9. SentInv'
  BY <1>3, SpentKept, ReservedFacts DEF Pending, RateTypeOK
<1> QED
  BY <1>4, <1>5, <1>6, <1>7, <1>8, <1>9

LEMMA TickStep ==
  ASSUME RateInv, Tick
  PROVE  RateInv'
<1> USE DEF RateInv
<1>1. now \in Nat /\ now' = now + 1
      /\ UNCHANGED <<durable, mark, rowLock, turn, call, attempts, reserved, sent, early>>
  BY DEF Tick, RateTypeOK
<1>2. RateTypeOK'
  BY <1>1 DEF RateTypeOK
<1>3. SlotSpacing' /\ PlatformSpacing' /\ MarkInv' /\ IntervalInv' /\ LockInv' /\ AttemptInv'
  BY <1>1 DEF SlotSpacing, PlatformSpacing, MarkInv, IntervalInv, LockInv, AttemptInv, Index
<1>4. PendingInv'
  <2>1. \A c \in Caller : call[c].slot \in Nat /\ call[c].delay \in Nat
    BY DEF RateTypeOK
  <2> QED
    BY <1>1, <2>1 DEF PendingInv, Pending, Index
<1>5. SentInv'
  BY <1>1, SpentKept, ReservedFacts DEF Pending
<1> QED
  BY <1>2, <1>3, <1>4, <1>5

LEMMA SleepStep ==
  ASSUME RateInv, NEW c \in Caller, Sleep(c)
  PROVE  RateInv'
<1> USE DEF RateInv, Sleep
<1> DEFINE r == [call[c] EXCEPT !.wake = now + call[c].delay, !.delay = 0]
<1>1. call[c] \in [interval : Nat \ {0}, slot : Nat, delay : Nat, wake : Nat] /\ now \in Nat
  BY DEF RateTypeOK
<1>2. /\ r \in [interval : Nat \ {0}, slot : Nat, delay : Nat, wake : Nat]
      /\ r.slot = call[c].slot /\ r.interval = call[c].interval /\ r.wake = now + call[c].delay
  <2> DEFINE q == [call[c] EXCEPT !.wake = now + call[c].delay]
  <2>1. /\ q \in [interval : Nat \ {0}, slot : Nat, delay : Nat, wake : Nat]
        /\ q.slot = call[c].slot /\ q.interval = call[c].interval /\ q.wake = now + call[c].delay
    BY <1>1
  <2>2. r = [q EXCEPT !.delay = 0]
    OBVIOUS
  <2> HIDE DEF q, r
  <2> QED
    BY <2>1, <2>2
<1>3. call' = [call EXCEPT ![c] = r]
  OBVIOUS
<1> HIDE DEF r
<1>4. /\ call' \in [Caller -> [interval : Nat \ {0}, slot : Nat, delay : Nat, wake : Nat]]
      /\ \A d \in Caller : call'[d].slot = call[d].slot /\ call'[d].interval = call[d].interval
      /\ \A d \in Caller : d # c => call'[d] = call[d]
      /\ call'[c].wake = now + call[c].delay
  BY ZenonT(40), <1>2, <1>3 DEF RateTypeOK
<1>5. /\ \A d \in Caller : d # c => turn'[d] = turn[d]
      /\ turn[c] = "answered" /\ turn'[c] = "sleep"
      /\ UNCHANGED <<durable, now, mark, rowLock, attempts, reserved, sent, early>>
  BY DEF RateTypeOK
<1>6. RateTypeOK'
  BY <1>4 DEF RateTypeOK
<1>7. SlotSpacing' /\ PlatformSpacing' /\ MarkInv'
  BY <1>5 DEF SlotSpacing, PlatformSpacing, MarkInv, Index
<1>8. IntervalInv' /\ LockInv' /\ AttemptInv'
  BY <1>4, <1>5 DEF IntervalInv, LockInv, AttemptInv, Index
<1>9. \A d \in Caller : Pending(d)' <=> Pending(d)
  BY <1>5 DEF Pending
<1>10. PendingInv'
  BY <1>4, <1>5, <1>9 DEF PendingInv, Index
<1>11. SentInv'
  <2>1. now \in Nat /\ now <= now'
    BY <1>1, <1>5
  <2> QED
    BY <1>4, <1>5, <1>9, <2>1, SpentKept, ReservedFacts
<1> QED
  BY <1>6, <1>7, <1>8, <1>10, <1>11

LEMMA RefusedStep ==
  ASSUME RateInv, NEW c \in Caller, Refused(c)
  PROVE  RateInv'
<1> USE DEF RateInv, Refused
<1>1. RateTypeOK'
  BY RateAssumption DEF RateTypeOK, NoCall
<1>2. SlotSpacing' /\ PlatformSpacing' /\ MarkInv'
  BY DEF SlotSpacing, PlatformSpacing, MarkInv, Index
<1>3. IntervalInv' /\ LockInv' /\ AttemptInv'
  BY RateAssumption DEF IntervalInv, LockInv, AttemptInv, RateTypeOK, Index
<1>4. PendingInv'
  BY DEF PendingInv, Pending, Index, RateTypeOK
<1>5. SentInv'
  BY SpentKept, ReservedFacts DEF Pending, RateTypeOK
<1> QED
  BY <1>1, <1>2, <1>3, <1>4, <1>5

\* A request leaves: its slot has come, and nobody else waits for it.
LEMMA ReturnStep ==
  ASSUME RateInv, NEW c \in Caller, Return(c)
  PROVE  RateInv'
<1> USE DEF RateInv, Return
<1>1. RateTypeOK'
  BY RateAssumption DEF RateTypeOK, NoCall
<1>2. SlotSpacing' /\ PlatformSpacing' /\ MarkInv'
  BY DEF SlotSpacing, PlatformSpacing, MarkInv, Index
<1>3. IntervalInv' /\ LockInv' /\ AttemptInv'
  BY RateAssumption DEF IntervalInv, LockInv, AttemptInv, RateTypeOK, Index
<1>4. PendingInv'
  BY DEF PendingInv, Pending, Index, RateTypeOK
<1>5. SentInv'
  <2>1. PICK i \in Index : reserved[i].slot = call[c].slot
    BY DEF PendingInv, Pending
  <2>2. call[c].slot \in Nat /\ call[c].wake \in Nat /\ now \in Nat /\ sent \in Nat
    BY DEF RateTypeOK
  <2>3. call[c].slot <= now
    BY <2>2 DEF PendingInv
  <2>4. i \notin Spent
    BY <2>1 DEF Spent, Pending
  <2>5. i \in Spent'
    BY <2>1, <2>3, SMTT(30) DEF Spent, Index, Pending, PendingInv, RateTypeOK
  <2>6. Spent \subseteq Spent'
    BY DEF Spent, Index, Pending, RateTypeOK
  <2>7. /\ IsFiniteSet(Spent) /\ Cardinality(Spent) \in Nat
        /\ IsFiniteSet(Spent') /\ Cardinality(Spent') \in Nat
    <3>1. IsFiniteSet(Index)
      BY FS_Interval, ReservedFacts DEF Index
    <3>2. Spent' \in SUBSET Index
      BY DEF Index, Spent
    <3> QED
      BY <3>1, <3>2, ReservedFacts, SpentFinite, FS_Subset, FS_CardinalityType
  <2>8. Cardinality(Spent \cup {i}) = Cardinality(Spent) + 1
    BY <2>4, <2>7, FS_AddElement
  <2>9. Cardinality(Spent \cup {i}) <= Cardinality(Spent')
    BY <2>5, <2>6, <2>7, FS_Subset
  <2>10. ~early'
    <3>1. ~(now < call[c].slot) /\ ~early
      BY <2>2, <2>3 DEF SentInv
    <3> QED
      BY <3>1, Zenon
  <2> QED
    BY <2>2, <2>7, <2>8, <2>9, <2>10 DEF SentInv
<1> QED
  BY <1>1, <1>2, <1>3, <1>4, <1>5

\* The upsert: the caller has the row lock, and a slot that waits for the mark.
LEMMA UpdateStep ==
  ASSUME RateInv, NEW c \in Caller, Update(c)
  PROVE  RateInv'
<1> USE DEF RateInv, Update
<1> DEFINE t == RowSlot
           r == [call[c] EXCEPT !.slot = t]
<1>1. t \in Nat /\ t >= mark
  BY DEF RowSlot, Larger, RateTypeOK, Never
<1>2. call[c] \in [interval : Nat \ {0}, slot : Nat, delay : Nat, wake : Nat]
  BY DEF RateTypeOK
<1> HIDE DEF t
<1>3. /\ r \in [interval : Nat \ {0}, slot : Nat, delay : Nat, wake : Nat]
      /\ r.slot = t /\ r.interval = call[c].interval
  BY <1>1, <1>2
<1>4. call' = [call EXCEPT ![c] = r]
  BY DEF t
<1> HIDE DEF r
<1>5. /\ \A d \in Caller : d # c => turn'[d] = turn[d] /\ call'[d] = call[d]
      /\ turn[c] = "reserve" /\ turn'[c] = "commit" /\ call'[c] = r
      /\ rowLock = NoCaller /\ rowLock' = c /\ durable
      /\ UNCHANGED <<durable, now, mark, attempts, reserved, sent, early>>
  BY <1>4 DEF RateTypeOK
<1>6. RateTypeOK'
  BY <1>3, <1>4 DEF RateTypeOK
<1>7. SlotSpacing' /\ PlatformSpacing' /\ MarkInv'
  BY <1>5 DEF SlotSpacing, PlatformSpacing, MarkInv, Index
<1>8. IntervalInv' /\ AttemptInv'
  BY <1>3, <1>5 DEF IntervalInv, AttemptInv, Index
<1>9. LockInv'
  BY <1>1, <1>3, <1>5, RateAssumption DEF LockInv
<1>10. \A d \in Caller : Pending(d)' <=> Pending(d)
  BY <1>5 DEF Pending
<1>11. PendingInv'
  BY <1>5, <1>10 DEF PendingInv, Index, Pending
<1>12. SentInv'
  <2>1. now \in Nat /\ now <= now'
    BY <1>5 DEF RateTypeOK
  <2> QED
    BY <1>5, <1>10, <2>1, SpentKept, ReservedFacts DEF Pending
<1> QED
  BY <1>6, <1>7, <1>8, <1>9, <1>11, <1>12

\* A failed attempt is counted, and the call goes on only if attempts are left.
LEMMA FailedAttempt ==
  ASSUME RateTypeOK, AttemptInv, NEW c \in Caller, AttemptFails(c), turn[c] \in {"reserve", "commit"}
  PROVE  /\ attempts' \in [Caller -> 0 .. MaxRetries] /\ AttemptInv'
         /\ turn' \in [Caller -> {"idle", "reserve", "commit", "answered", "sleep", "failed"}]
         /\ turn'[c] \in {"reserve", "failed"}
         /\ \A d \in Caller : d # c => turn'[d] = turn[d]
<1>1. attempts[c] \in Nat /\ attempts[c] < MaxRetries /\ MaxRetries \in Nat
  BY RateAssumption DEF RateTypeOK, AttemptInv
<1>2. /\ attempts' = [attempts EXCEPT ![c] = attempts[c] + 1]
      /\ turn' = [turn EXCEPT ![c] = IF attempts[c] + 1 < MaxRetries THEN "reserve" ELSE "failed"]
  BY DEF AttemptFails
<1>3. attempts' \in [Caller -> 0 .. MaxRetries]
  BY <1>1, <1>2 DEF RateTypeOK
<1>4. /\ turn' \in [Caller -> {"idle", "reserve", "commit", "answered", "sleep", "failed"}]
      /\ turn'[c] \in {"reserve", "failed"}
      /\ turn'[c] = "reserve" => attempts[c] + 1 < MaxRetries
      /\ \A d \in Caller : d # c => turn'[d] = turn[d]
  BY <1>2 DEF RateTypeOK
<1>5. AttemptInv'
  BY <1>2, <1>4 DEF AttemptInv, RateTypeOK
<1> QED
  BY <1>3, <1>4, <1>5

LEMMA RolledBackStep ==
  ASSUME RateInv, NEW c \in Caller, RolledBack(c)
  PROVE  RateInv'
<1> USE DEF RateInv
<1>1. /\ turn[c] \in {"reserve", "commit"} /\ AttemptFails(c) /\ durable
      /\ rowLock' = IF rowLock = c THEN NoCaller ELSE rowLock
      /\ UNCHANGED <<durable, now, mark, call, reserved, sent, early>>
  BY DEF RolledBack
<1>2. /\ attempts' \in [Caller -> 0 .. MaxRetries] /\ AttemptInv'
      /\ turn' \in [Caller -> {"idle", "reserve", "commit", "answered", "sleep", "failed"}]
      /\ turn'[c] \in {"reserve", "failed"}
      /\ \A d \in Caller : d # c => turn'[d] = turn[d]
  BY <1>1, FailedAttempt
<1>3. RateTypeOK'
  BY <1>1, <1>2 DEF RateTypeOK
<1>4. SlotSpacing' /\ PlatformSpacing' /\ MarkInv'
  BY <1>1 DEF SlotSpacing, PlatformSpacing, MarkInv, Index
<1>5. IntervalInv' /\ LockInv'
  BY <1>1, <1>2 DEF IntervalInv, LockInv, Index
<1>6. \A d \in Caller : Pending(d)' <=> Pending(d)
  BY <1>1, <1>2 DEF Pending
<1>7. PendingInv'
  BY <1>1, <1>2, <1>6 DEF PendingInv, Index
<1>8. SentInv'
  <2>1. now \in Nat /\ now <= now'
    BY <1>1 DEF RateTypeOK
  <2> QED
    BY <1>1, <1>6, <2>1, SpentKept, ReservedFacts
<1> QED
  BY <1>2, <1>3, <1>4, <1>5, <1>7, <1>8

\* What is left to show of a step that reserves t, once the reservation itself
\* is spaced: the caller waits for t or has lost its answer, and no other
\* caller holds the row.
LEMMA ReservedStep ==
  ASSUME RateInv, NEW c \in Caller, NEW t, NEW v, Reserves(t, v), RateTypeOK', AttemptInv',
         \A d \in Caller : d # c => turn'[d] = turn[d] /\ call'[d] = call[d] /\ turn[d] # "commit",
         turn'[c] \in {"reserve", "answered", "failed"},
         call'[c].interval >= PlatformInterval,
         turn'[c] = "answered" => call'[c].slot = t /\ t <= now + call'[c].delay,
         now' = now, sent' = sent, early' = early
  PROVE  RateInv'
<1> USE DEF RateInv
<1>1. /\ Len(reserved') = Len(reserved) + 1
      /\ \A i \in Index : reserved'[i] = reserved[i] /\ reserved[i].slot < t
      /\ reserved'[Len(reserved) + 1].slot = t
      /\ SlotSpacing' /\ PlatformSpacing' /\ MarkInv'
      /\ \A i \in Index' : reserved'[i].interval >= PlatformInterval
  BY ReservationSpaced
<1>2. Len(reserved) \in Nat /\ \A i \in Index : reserved[i].slot \in Nat
  BY ReservedFacts
<1>3. Index' = Index \cup {Len(reserved) + 1}
  BY <1>1, <1>2 DEF Index
<1>4. t \in Nat /\ now \in Nat /\ \A i \in Index : reserved[i].slot # t
  <2>1. t \in Nat /\ now \in Nat
    BY DEF Reserves, RateTypeOK
  <2> QED
    BY <1>1, <1>2, <2>1
<1>5. IntervalInv'
  BY <1>1 DEF IntervalInv
<1>6. LockInv'
  BY DEF LockInv
<1>7. PendingInv'
  <2>1. \A d \in Caller : d # c => (Pending(d)' <=> Pending(d))
    BY DEF Pending
  <2>2. Pending(c)' => turn'[c] = "answered" /\ call'[c].slot = t
    BY DEF Pending
  <2>3. \A d \in Caller : Pending(d)' => \E i \in Index' : reserved'[i].slot = call'[d].slot
    BY <1>1, <1>3, <2>1, <2>2 DEF PendingInv
  <2>4. \A d \in Caller : d # c /\ Pending(d)' => call'[d].slot # t
    BY <1>4, <2>1 DEF PendingInv
  <2>5. \A d, e \in Caller : Pending(d)' /\ Pending(e)' /\ d # e => call'[d].slot # call'[e].slot
    BY <2>1, <2>2, <2>4 DEF PendingInv
  <2>6. /\ \A d \in Caller : turn'[d] = "answered" => call'[d].slot <= now' + call'[d].delay
        /\ \A d \in Caller : turn'[d] = "sleep" => call'[d].slot <= call'[d].wake
    BY DEF PendingInv
  <2> QED
    BY <2>3, <2>5, <2>6 DEF PendingInv
<1>8. SentInv'
  <2>1. Len(reserved') \in Nat /\ Len(reserved) <= Len(reserved') /\ now <= now'
    BY <1>1, <1>2, <1>4
  <2>2. \A d \in Caller : Pending(d)' =>
          \/ Pending(d) /\ call'[d].slot = call[d].slot
          \/ \A i \in Index : call'[d].slot # reserved[i].slot
    BY <1>4 DEF Pending
  <2> QED
    BY <1>1, <1>4, <2>1, <2>2, SpentKept
<1> QED
  BY <1>1, <1>5, <1>6, <1>7, <1>8

\* In memory: the slot follows the last one by the interval of this call.
LEMMA ReserveInMemoryStep ==
  ASSUME RateInv, NEW c \in Caller, ReserveInMemory(c)
  PROVE  RateInv'
<1> USE DEF RateInv
<1> DEFINE v == call[c].interval
           t == MemorySlot(v)
           q == [call[c] EXCEPT !.slot = t]
           r == [q EXCEPT !.delay = t - now]
<1>1. /\ call[c] \in [interval : Nat \ {0}, slot : Nat, delay : Nat, wake : Nat]
      /\ now \in Nat /\ mark \in Nat \cup {Never}
  BY DEF RateTypeOK
<1>2. v \in Nat \ {0} /\ v >= PlatformInterval
  BY <1>1 DEF IntervalInv, ReserveInMemory
<1>3. /\ ~durable /\ turn[c] = "reserve" /\ turn' = [turn EXCEPT ![c] = "answered"]
      /\ mark' = t /\ reserved' = Append(reserved, [slot |-> t, interval |-> v])
      /\ UNCHANGED <<durable, now, rowLock, attempts, sent, early>>
      /\ call' = [call EXCEPT ![c] = r]
  BY DEF ReserveInMemory
<1> HIDE DEF v
<1>4. t \in Nat /\ t >= now /\ (mark # Never => mark + v <= t)
  BY <1>1, <1>2 DEF MemorySlot, Larger, Never
<1> HIDE DEF t
<1>5. q \in [interval : Nat \ {0}, slot : Nat, delay : Nat, wake : Nat]
      /\ q.slot = t /\ q.interval = v
  BY <1>1, <1>4 DEF v
<1> HIDE DEF q
<1>6. r \in [interval : Nat \ {0}, slot : Nat, delay : Nat, wake : Nat]
      /\ r.slot = t /\ r.interval = v /\ r.delay = t - now
  BY <1>1, <1>4, <1>5
<1> HIDE DEF r
<1>7. Reserves(t, v)
  <2>1. reserved # << >> => mark = reserved[Len(reserved)].slot /\ mark # Never
    <3>1. reserved # << >> => reserved[Len(reserved)].slot \in Nat
      BY ReservedFacts
    <3> QED
      BY <1>3, <3>1 DEF MarkInv, Never
  <2>2. reserved # << >> => reserved[Len(reserved)].slot + v <= t
    BY <1>4, <2>1
  <2> QED
    BY <1>2, <1>3, <1>4, <2>2 DEF Reserves
<1>8. RateTypeOK'
  <2>1. reserved' \in Seq(Reservations)
    BY <1>7, ReservationSpaced
  <2> QED
    BY <1>3, <1>4, <1>6, <2>1 DEF RateTypeOK, Reservations
<1>9. /\ \A d \in Caller : d # c => turn'[d] = turn[d] /\ call'[d] = call[d]
      /\ turn'[c] = "answered" /\ call'[c] = r
  BY <1>3 DEF RateTypeOK
<1>10. AttemptInv' /\ \A d \in Caller : turn[d] # "commit"
  BY <1>3, <1>9 DEF AttemptInv, LockInv
<1>11. t <= now + r.delay
  BY <1>1, <1>4, <1>6
<1> QED
  BY <1>2, <1>3, <1>6, <1>7, <1>8, <1>9, <1>10, <1>11, ReservedStep

\* A commit reserves the slot the upsert computed.
LEMMA CommittedReserves ==
  ASSUME RateInv, NEW c \in Caller, turn[c] = "commit", Committed(c), durable' = durable
  PROVE  /\ Reserves(call[c].slot, call[c].interval)
         /\ reserved' \in Seq(Reservations) /\ mark' \in Nat
         /\ call[c].interval >= PlatformInterval
         /\ \A d \in Caller : d # c => turn[d] # "commit"
<1> USE DEF RateInv
<1>1. call[c].slot \in Nat /\ call[c].interval \in Nat
  BY DEF RateTypeOK
<1>2. durable /\ call[c].slot >= mark /\ call[c].interval >= PlatformInterval
  BY DEF LockInv, IntervalInv
<1>3. reserved # << >> => reserved[Len(reserved)].slot + reserved[Len(reserved)].interval <= call[c].slot
  BY <1>2 DEF MarkInv
<1>4. Reserves(call[c].slot, call[c].interval)
  BY <1>1, <1>2, <1>3 DEF Reserves, Committed
<1> QED
  BY <1>1, <1>2, <1>4, ReservationSpaced DEF LockInv, Committed

LEMMA CommitStep ==
  ASSUME RateInv, NEW c \in Caller, Commit(c)
  PROVE  RateInv'
<1> USE DEF RateInv
<1> DEFINE w == Larger(0, call[c].slot - now)
           r == [call[c] EXCEPT !.delay = w]
<1>1. /\ turn[c] = "commit" /\ Committed(c) /\ rowLock' = NoCaller
      /\ call' = [call EXCEPT ![c] = r] /\ turn' = [turn EXCEPT ![c] = "answered"]
      /\ UNCHANGED <<durable, now, attempts, sent, early>>
  BY DEF Commit
<1>2. /\ Reserves(call[c].slot, call[c].interval)
      /\ reserved' \in Seq(Reservations) /\ mark' \in Nat
      /\ call[c].interval >= PlatformInterval
      /\ \A d \in Caller : d # c => turn[d] # "commit"
  BY <1>1, CommittedReserves
<1>3. /\ call[c] \in [interval : Nat \ {0}, slot : Nat, delay : Nat, wake : Nat] /\ now \in Nat
      /\ call[c].slot \in Nat
  BY DEF RateTypeOK
<1>4. w \in Nat /\ call[c].slot <= now + w
  BY <1>3 DEF Larger
<1> HIDE DEF w
<1>5. r \in [interval : Nat \ {0}, slot : Nat, delay : Nat, wake : Nat]
      /\ r.slot = call[c].slot /\ r.interval = call[c].interval /\ r.delay = w
  BY <1>3, <1>4
<1> HIDE DEF r
<1>6. RateTypeOK'
  BY <1>1, <1>2, <1>5 DEF RateTypeOK, Reservations
<1>7. /\ \A d \in Caller : d # c => turn'[d] = turn[d] /\ call'[d] = call[d]
      /\ turn'[c] = "answered" /\ call'[c] = r
  BY <1>1 DEF RateTypeOK
<1>8. AttemptInv'
  BY <1>1, <1>7 DEF AttemptInv
<1> QED
  BY <1>1, <1>2, <1>4, <1>5, <1>6, <1>7, <1>8, ReservedStep

LEMMA AnswerLostStep ==
  ASSUME RateInv, NEW c \in Caller, AnswerLost(c)
  PROVE  RateInv'
<1> USE DEF RateInv
<1>1. /\ turn[c] = "commit" /\ Committed(c) /\ AttemptFails(c) /\ rowLock' = NoCaller
      /\ UNCHANGED <<durable, now, call, sent, early>>
  BY DEF AnswerLost
<1>2. /\ Reserves(call[c].slot, call[c].interval)
      /\ reserved' \in Seq(Reservations) /\ mark' \in Nat
      /\ call[c].interval >= PlatformInterval
      /\ \A d \in Caller : d # c => turn[d] # "commit"
  BY <1>1, CommittedReserves
<1>3. /\ attempts' \in [Caller -> 0 .. MaxRetries] /\ AttemptInv'
      /\ turn' \in [Caller -> {"idle", "reserve", "commit", "answered", "sleep", "failed"}]
      /\ turn'[c] \in {"reserve", "failed"}
      /\ \A d \in Caller : d # c => turn'[d] = turn[d]
  BY <1>1, FailedAttempt
<1>4. RateTypeOK'
  BY <1>1, <1>2, <1>3 DEF RateTypeOK, Reservations
<1> QED
  BY <1>1, <1>2, <1>3, <1>4, ReservedStep

LEMMA RateStepInv == RateInv /\ [RateNext]_rateVars => RateInv'
<1> SUFFICES ASSUME RateInv, [RateNext]_rateVars PROVE RateInv'
  OBVIOUS
<1>1. CASE UNCHANGED rateVars
  BY <1>1 DEF rateVars, RateInv, RateTypeOK, SlotSpacing, PlatformSpacing, IntervalInv, MarkInv, LockInv,
              AttemptInv, PendingInv, SentInv, Spent, Pending, Index
<1>2. CASE RateNext
  BY <1>2, TickStep, WaitStep, ReserveInMemoryStep, UpdateStep, CommitStep, RolledBackStep,
     AnswerLostStep, SleepStep, ReturnStep, RefusedStep DEF RateNext
<1> QED
  BY <1>1, <1>2

-----------------------------------------------------------------------------
(* Theorems                                                                *)

\* The inductive invariant holds in every reachable state.
THEOREM RateInvariance == RateSpec => []RateInv
BY RateInitInv, RateStepInv, PTL DEF RateSpec

\* Variables keep their types.
THEOREM RateTypes == RateSpec => []RateTypeOK
BY RateInvariance, PTL DEF RateInv

\* The slots are spaced and the requests that have left keep to them: whatever
\* fails, is retried or is delayed, no request is early and the platform's
\* average rate is never exceeded.  The k-th request cannot have left before
\* the k-th slot, since fewer than k slots have come before it.
THEOREM RateKept == RateSpec => []RateHolds
<1>1. RateInv => RateHolds
  <2> SUFFICES ASSUME RateInv PROVE RateHolds
    OBVIOUS
  <2> USE DEF RateInv
  <2>1. /\ Len(reserved) \in Nat /\ sent \in Nat /\ now \in Nat
        /\ \A i \in Index : reserved[i].slot \in Nat
        /\ PlatformInterval \in Nat \ {0}
    BY ReservedFacts, RateAssumption DEF RateTypeOK
  <2>2. ASSUME sent > 0
        PROVE  reserved[1].slot + (sent - 1) * PlatformInterval <= now
    <3>1. IsFiniteSet(Spent) /\ Cardinality(Spent) \in Nat /\ Cardinality(Spent) <= Len(reserved)
      BY <2>1, SpentFinite
    <3>2. sent \in Index /\ 1 \in Index /\ 1 <= sent
      BY <2>1, <2>2, <3>1 DEF SentInv, Index
    <3>3. reserved[1].slot + (sent - 1) * PlatformInterval <= reserved[sent].slot
      BY <3>2 DEF PlatformSpacing
    <3>4. reserved[sent].slot <= now
      <4> SUFFICES ASSUME now < reserved[sent].slot PROVE FALSE
        BY <2>1, <3>2
      <4>1. \A i \in Index : sent <= i => reserved[sent].slot <= reserved[i].slot
        <5> SUFFICES ASSUME NEW i \in Index, sent <= i PROVE reserved[sent].slot <= reserved[i].slot
          OBVIOUS
        <5>1. i - sent \in Nat
          BY <2>1, <3>2 DEF Index
        <5>2. (i - sent) * PlatformInterval \in Nat
          BY <5>1, Multiple
        <5>3. reserved[sent].slot + (i - sent) * PlatformInterval <= reserved[i].slot
          BY <3>2 DEF PlatformSpacing
        <5> HIDE DEF RateInv
        <5> QED
          BY <2>1, <3>2, <5>2, <5>3, SMTT(30)
      <4>2. Spent \subseteq 1 .. (sent - 1)
        BY <2>1, <3>2, <4>1 DEF Spent, Index
      <4>3. IsFiniteSet(1 .. (sent - 1)) /\ Cardinality(1 .. (sent - 1)) = sent - 1
        <5>1. sent - 1 \in Nat
          BY <2>1, <2>2
        <5>2. /\ IsFiniteSet(1 .. (sent - 1))
              /\ Cardinality(1 .. (sent - 1)) = IF 1 > sent - 1 THEN 0 ELSE (sent - 1) - 1 + 1
          BY <5>1, FS_Interval
        <5> QED
          BY <5>1, <5>2
      <4>4. Cardinality(Spent) <= sent - 1
        BY <4>2, <4>3, FS_Subset
      <4> QED
        BY <2>1, <3>1, <4>4 DEF SentInv
    <3>5. (sent - 1) * PlatformInterval \in Nat
      <4>1. sent - 1 \in Nat
        BY <2>1, <2>2
      <4> QED
        BY <4>1, Multiple
    <3> QED
      BY <2>1, <3>2, <3>3, <3>4, <3>5
  <2> QED
    BY <2>2 DEF RateHolds, AverageRate, SentInv
<1> QED
  BY <1>1, RateInvariance, PTL
=============================================================================
