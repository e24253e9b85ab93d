---------------------------- MODULE BrokerProofs ----------------------------
(***************************************************************************)
(* Theorems about Broker, for any number of starts, restored journals,     *)
(* invalidations and usages.                                               *)
(*                                                                         *)
(* The argument: something is appended only when journal, memory and       *)
(* witness hold the same events, so whatever the broker's memory says of   *)
(* its own events is then true of the witness; and the memory that a start *)
(* makes from a journal says no less than the events of that journal.      *)
(***************************************************************************)
EXTENDS Broker, FiniteSetTheorems, NaturalsInduction, SequenceTheorems, TLAPS

Field == {"up", "events", "acks", "failed", "wire", "state", "generation", "closed", "binding", "expiry",
          "ticket", "permit", "consumed", "readStarted", "socket", "request", "lock", "count", "preparing",
          "receiving", "ops"}

IsMem(m) == m = [f \in Field |-> m[f]]

Settled == {"COMMITTED", "ROLLED_BACK"}

\* An invalidation of o, or its disposition, is among the events.
HasBarrier(events, o) == \E i \in 1 .. Len(events) : events[i].kind = "BARRIER" /\ events[i].op = o
HasDisposition(events, o) == \E i \in 1 .. Len(events) : events[i].kind = "DISPOSITION" /\ events[i].op = o

\* What the events of a journal or of the witness are like.
Plain(e) == e.kind \notin {"BARRIER", "DISPOSITION"} => e.op = NoOp /\ e.outcome = "NONE"
WellFormed(events) ==
  \A i \in 1 .. Len(events) :
    /\ Plain(events[i])
    /\ events[i].kind = "BARRIER" => events[i].op \in Op
    /\ events[i].kind = "DISPOSITION" =>
         /\ events[i].op \in Op /\ events[i].outcome \in Settled
         /\ \E j \in 1 .. Len(events) : j < i /\ events[j].kind = "BARRIER" /\ events[j].op = events[i].op

TypeInv ==
  /\ IsMem(b) /\ b.events \in Seq(Event) /\ b.generation \in Nat
  /\ file \in [events : Seq(Event), acks : Nat, torn : BOOLEAN] /\ w \in Seq(Event)
  /\ epoch \in 1 .. MaxEpoch

\* The journal is a prefix of the witness, or one event ahead of it.
JournalInv ==
  /\ WellFormed(file.events)
  /\ Len(file.events) <= Len(w) + 1
  /\ \A i \in 1 .. Len(file.events) : i <= Len(w) => file.events[i] = w[i]

\* What the broker's memory knows is in its events.
MemoryInv ==
  LET kinds == Kinds(b.events) IN
  /\ b.expiry # "none" => "BINDING" \in kinds
  /\ b.permit # NoPermit => "PERMIT" \in kinds
  /\ b.lock \in {"intent", "written"} \/ b.count # "none" => "INTENT" \in kinds
  /\ b.lock = "outcome" => "PEER_RESPONSE" \in kinds

\* And the events are in its memory.
EventsInv ==
  LET kinds == Kinds(b.events) IN
  /\ "INTENT" \in kinds => b.consumed
  /\ "BARRIER" \in kinds => b.state # "OPEN"

OpsInv ==
  /\ b.ops = [o \in Op |-> b.ops[o]]
  /\ \A o \in Op : b.ops[o] # "NONE" => HasBarrier(b.events, o)
  /\ ~b.failed => \A o \in Op : HasDisposition(b.events, o) => b.ops[o] \in Settled

SentInv ==
  /\ sent \in {0, 1} /\ (sent = 1 => "INTENT" \in Kinds(w))
  /\ b.lock = "intent" => sent = 0

\* The inductive invariant.
IInv ==
  /\ TypeInv /\ JournalInv /\ Readable(w) /\ BarrierFences
  /\ MemoryInv /\ EventsInv /\ OpsInv /\ SentInv /\ LiabilityFloor

-----------------------------------------------------------------------------
(* Operators                                                               *)

\* A set of positions has a last one: Started looks for it.
LEMMA LastPosition ==
  ASSUME NEW n \in Nat, NEW S, S \subseteq 1 .. n, S # {}
  PROVE  \E i \in S : \A j \in S : j <= i
<1> DEFINE T == {n - i : i \in S}
<1>1. T \subseteq Nat /\ T # {}
  <2>1. \A i \in S : n - i \in Nat
    OBVIOUS
  <2> QED
    BY <2>1
<1> HIDE DEF T
<1>2. PICK x \in T : \A y \in T : ~(<<y, x>> \in OpToRel(<, Nat))
  BY <1>1, WFMin, NatLessThanWellFounded
<1>3. \A y \in T : ~(y < x)
  BY <1>1, <1>2 DEF OpToRel
<1>4. PICK i \in S : x = n - i
  BY DEF T
<1>5. \A j \in S : ~(n - j < n - i)
  BY <1>3, <1>4 DEF T
<1> QED
  BY <1>5

LEMMA SeqFacts ==
  ASSUME NEW s \in Seq(Event)
  PROVE  Len(s) \in Nat /\ \A i \in 1 .. Len(s) : s[i] \in Event
BY LenProperties, ElementOfSeq

\* t is s with the event e at its end.
Grows(s, t, e) ==
  /\ Len(s) \in Nat /\ Len(t) = Len(s) + 1
  /\ \A i \in 1 .. Len(s) : t[i] = s[i]
  /\ t[Len(s) + 1] = e

LEMMA AppendGrows ==
  ASSUME NEW s \in Seq(Event), NEW e \in Event
  PROVE  Append(s, e) \in Seq(Event) /\ Grows(s, Append(s, e), e)
BY AppendProperties, SeqFacts DEF Grows

LEMMA GrowsIndex ==
  ASSUME NEW s, NEW t, NEW e, Grows(s, t, e)
  PROVE  /\ \A i \in 1 .. Len(t) : (i \in 1 .. Len(s) /\ t[i] = s[i]) \/ (i = Len(s) + 1 /\ t[i] = e)
         /\ \A i \in 1 .. Len(s) : i \in 1 .. Len(t) /\ t[i] = s[i] /\ i < Len(s) + 1
         /\ Len(s) + 1 \in 1 .. Len(t) /\ t[Len(s) + 1] = e
<1>1. PICK n \in Nat : n = Len(s) /\ Len(t) = n + 1
  BY DEF Grows
<1>2. /\ \A i \in 1 .. n + 1 : i \in 1 .. n \/ i = n + 1
      /\ \A i \in 1 .. n : i \in 1 .. n + 1 /\ i < n + 1
      /\ n + 1 \in 1 .. n + 1
  OBVIOUS
<1> QED
  BY <1>1, <1>2 DEF Grows

LEMMA GrowsSets ==
  ASSUME NEW s, NEW t, NEW e, Grows(s, t, e)
  PROVE  /\ Kinds(t) = Kinds(s) \cup {e.kind}
         /\ \A o : HasBarrier(t, o) <=> HasBarrier(s, o) \/ (e.kind = "BARRIER" /\ e.op = o)
         /\ \A o : HasDisposition(t, o) <=> HasDisposition(s, o) \/ (e.kind = "DISPOSITION" /\ e.op = o)
<1>1. Kinds(t) = Kinds(s) \cup {e.kind}
  BY GrowsIndex DEF Kinds
<1>2. \A o : HasBarrier(t, o) <=> HasBarrier(s, o) \/ (e.kind = "BARRIER" /\ e.op = o)
  BY GrowsIndex DEF HasBarrier
<1>3. \A o : HasDisposition(t, o) <=> HasDisposition(s, o) \/ (e.kind = "DISPOSITION" /\ e.op = o)
  BY GrowsIndex DEF HasDisposition
<1> QED
  BY <1>1, <1>2, <1>3

LEMMA GrowsBefore ==
  ASSUME NEW s, NEW t, NEW e, Grows(s, t, e), NEW first, NEW second, Before(s, first, second),
         e.kind = second => first \in Kinds(s)
  PROVE  Before(t, first, second)
<1> SUFFICES ASSUME NEW j \in 1 .. Len(t), t[j].kind = second
             PROVE  \E i \in 1 .. j - 1 : t[i].kind = first
  BY DEF Before
<1>1. PICK n \in Nat : n = Len(s) /\ Len(t) = n + 1
  BY DEF Grows
<1>2. CASE j \in 1 .. n /\ t[j] = s[j]
  <2>1. PICK i \in 1 .. j - 1 : s[i].kind = first
    BY <1>1, <1>2 DEF Before
  <2>2. i \in 1 .. n
    BY <1>2
  <2> QED
    BY <1>1, <2>1, <2>2 DEF Grows
<1>3. CASE j = n + 1 /\ t[j] = e
  <2>1. PICK i \in 1 .. n : s[i].kind = first
    BY <1>1, <1>3 DEF Kinds
  <2>2. i \in 1 .. j - 1 /\ t[i] = s[i]
    BY <1>1, <1>3 DEF Grows
  <2> QED
    BY <2>1, <2>2
<1> QED
  BY <1>1, <1>2, <1>3, GrowsIndex

LEMMA GrowsOnce ==
  ASSUME NEW s, NEW t, NEW e, Grows(s, t, e), NEW kind, AtMostOnce(s, kind),
         e.kind = kind => kind \notin Kinds(s)
  PROVE  AtMostOnce(t, kind)
<1>1. \A i \in 1 .. Len(s) : s[i].kind \in Kinds(s)
  BY DEF Kinds
<1> QED
  BY <1>1, GrowsIndex DEF AtMostOnce

\* An event that recovery can read after the events s, if it is a new one.
Follows(s, e) ==
  /\ e.kind = "PERMIT" => "BINDING" \in Kinds(s)
  /\ e.kind = "INTENT" => "PERMIT" \in Kinds(s)
  /\ e.kind = "PEER_RESPONSE" => "INTENT" \in Kinds(s)
  /\ e.kind = "FINAL_USAGE" => "PEER_RESPONSE" \in Kinds(s)

LEMMA GrowsReadable ==
  ASSUME NEW s, NEW t, NEW e, Grows(s, t, e), Readable(s), Follows(s, e),
         e.kind \in {"BINDING", "PERMIT"} => e.kind \notin Kinds(s)
  PROVE  Readable(t)
BY GrowsBefore, GrowsOnce DEF Readable, Follows

\* An event that a barrier does not keep out, and no second disposition.
MayFollow(s, e) ==
  /\ e.kind \in {"BOOTSTRAP", "BINDING", "PERMIT", "INTENT"} => "BARRIER" \notin Kinds(s)
  /\ e.kind = "DISPOSITION" => ~HasDisposition(s, e.op)

Fences(events) ==
  \A i, j \in 1 .. Len(events) :
    /\ i < j /\ events[i].kind = "BARRIER" => events[j].kind \notin {"BOOTSTRAP", "BINDING", "PERMIT", "INTENT"}
    /\ events[i].kind = "DISPOSITION" /\ events[j].kind = "DISPOSITION" /\ events[i].op = events[j].op
         => events[i].outcome = events[j].outcome

LEMMA GrowsFences ==
  ASSUME NEW s, NEW t, NEW e, Grows(s, t, e), Fences(s), MayFollow(s, e)
  PROVE  Fences(t)
<1>1. \A i \in 1 .. Len(s) : s[i].kind \in Kinds(s)
  BY DEF Kinds
<1>2. \A i \in 1 .. Len(s) : s[i].kind = "DISPOSITION" => HasDisposition(s, s[i].op)
  BY DEF HasDisposition
<1>3. \A i \in 1 .. Len(t) : i <= Len(s) + 1 /\ ~(Len(s) + 1 < i)
  <2>1. PICK n \in Nat : n = Len(s) /\ Len(t) = n + 1
    BY DEF Grows
  <2> QED
    BY <2>1
<1> SUFFICES ASSUME NEW i \in 1 .. Len(t), NEW j \in 1 .. Len(t)
             PROVE  /\ i < j /\ t[i].kind = "BARRIER" => t[j].kind \notin {"BOOTSTRAP", "BINDING", "PERMIT", "INTENT"}
                    /\ t[i].kind = "DISPOSITION" /\ t[j].kind = "DISPOSITION" /\ t[i].op = t[j].op
                         => t[i].outcome = t[j].outcome
  BY DEF Fences
<1>4. CASE i \in 1 .. Len(s) /\ t[i] = s[i] /\ j \in 1 .. Len(s) /\ t[j] = s[j]
  BY <1>4 DEF Fences
<1>5. CASE i \in 1 .. Len(s) /\ t[i] = s[i] /\ j = Len(s) + 1 /\ t[j] = e
  BY <1>1, <1>2, <1>5 DEF MayFollow
<1>6. CASE i = Len(s) + 1 /\ t[i] = e /\ j \in 1 .. Len(s) /\ t[j] = s[j]
  BY <1>2, <1>3, <1>6 DEF MayFollow
<1>7. CASE i = Len(s) + 1 /\ t[i] = e /\ j = Len(s) + 1 /\ t[j] = e
  BY <1>3, <1>7
<1> QED
  BY <1>4, <1>5, <1>6, <1>7, GrowsIndex

\* An event whose fields suit its kind.
Suits(s, e) ==
  /\ Plain(e) /\ (e.kind = "BARRIER" => e.op \in Op)
  /\ e.kind = "DISPOSITION" => e.op \in Op /\ e.outcome \in Settled /\ HasBarrier(s, e.op)

LEMMA GrowsWellFormed ==
  ASSUME NEW s, NEW t, NEW e, Grows(s, t, e), WellFormed(s), Suits(s, e)
  PROVE  WellFormed(t)
<1> SUFFICES ASSUME NEW i \in 1 .. Len(t)
             PROVE  /\ Plain(t[i]) /\ (t[i].kind = "BARRIER" => t[i].op \in Op)
                    /\ t[i].kind = "DISPOSITION" =>
                         /\ t[i].op \in Op /\ t[i].outcome \in Settled
                         /\ \E j \in 1 .. Len(t) : j < i /\ t[j].kind = "BARRIER" /\ t[j].op = t[i].op
  BY DEF WellFormed
<1>1. CASE i \in 1 .. Len(s) /\ t[i] = s[i]
  BY <1>1, GrowsIndex DEF WellFormed
<1>2. CASE i = Len(s) + 1 /\ t[i] = e
  BY <1>2, GrowsIndex DEF Suits, HasBarrier
<1> QED
  BY <1>1, <1>2, GrowsIndex

-----------------------------------------------------------------------------
(* A start, and what an attempt to append leaves                           *)

\* The memory that a start makes of a journal.
LEMMA StartedFacts ==
  ASSUME NEW f, f.events \in Seq(Event), WellFormed(f.events)
  PROVE  LET m == Started(f)  kinds == Kinds(f.events) IN
         /\ IsMem(m) /\ m.events = f.events /\ m.acks = f.acks /\ m.failed = FALSE
         /\ m.state = "RECOVERY_REQUIRED" /\ m.expiry = "none" /\ m.lock = "free" /\ m.count = "none"
         /\ m.generation \in Nat /\ m.ticket = 0
         /\ m.permit # NoPermit => "PERMIT" \in kinds
         /\ "INTENT" \in kinds => m.consumed
         /\ m.ops = [o \in Op |-> m.ops[o]]
         /\ \A o \in Op : m.ops[o] # "NONE" => HasBarrier(f.events, o)
         /\ \A o \in Op : HasDisposition(f.events, o) => m.ops[o] \in Settled
<1> DEFINE indices(kind) == {i \in 1 .. Len(f.events) : f.events[i].kind = kind}
           last(is) == f.events[CHOOSE i \in is : \A j \in is : j <= i]
           of(kind, o) == {i \in indices(kind) : f.events[i].op = o}
           m == Started(f)
<1>1. /\ m.events = f.events /\ m.acks = f.acks /\ m.failed = FALSE
      /\ m.state = "RECOVERY_REQUIRED" /\ m.expiry = "none" /\ m.lock = "free" /\ m.count = "none"
      /\ m.ticket = 0 /\ m.consumed = ("INTENT" \in Kinds(f.events))
  BY DEF Started
<1>2. IsMem(m)
  <2> DEFINE g == IF indices("BARRIER") = {} THEN 1 ELSE last(indices("BARRIER")).generation
             p == IF indices("PERMIT") = {} THEN NoPermit
                  ELSE [epoch |-> last(indices("PERMIT")).epoch, generation |-> last(indices("PERMIT")).generation]
             o == [x \in Op |-> IF of("BARRIER", x) = {} THEN "NONE"
                               ELSE IF of("DISPOSITION", x) = {} THEN "PENDING"
                               ELSE last(of("DISPOSITION", x)).outcome]
             c == f.events # << >>
             d == "BINDING" \in Kinds(f.events)
             i == "INTENT" \in Kinds(f.events)
  <2>1. m = [up |-> TRUE, events |-> f.events, acks |-> f.acks, failed |-> FALSE, wire |-> TRUE,
             state |-> "RECOVERY_REQUIRED", generation |-> g, closed |-> c, binding |-> d,
             expiry |-> "none", ticket |-> 0, permit |-> p, consumed |-> i, readStarted |-> FALSE,
             socket |-> FALSE, request |-> "none", lock |-> "free", count |-> "none",
             preparing |-> FALSE, receiving |-> "no", ops |-> o]
    BY DEF Started
  <2> HIDE DEF m, g, p, o, c, d, i
  <2> QED
    BY <2>1 DEF IsMem, Field
<1>3. m.generation = IF indices("BARRIER") = {} THEN 1 ELSE last(indices("BARRIER")).generation
  BY DEF Started
<1>4. m.permit = IF indices("PERMIT") = {} THEN NoPermit
                 ELSE [epoch |-> last(indices("PERMIT")).epoch, generation |-> last(indices("PERMIT")).generation]
  BY DEF Started
<1>5. m.ops = [o \in Op |-> IF of("BARRIER", o) = {} THEN "NONE"
                            ELSE IF of("DISPOSITION", o) = {} THEN "PENDING"
                            ELSE last(of("DISPOSITION", o)).outcome]
  BY DEF Started
<1>6. Len(f.events) \in Nat /\ \A i \in 1 .. Len(f.events) : f.events[i] \in Event
  BY SeqFacts
<1>7. ASSUME NEW is, is \subseteq 1 .. Len(f.events), is # {}
      PROVE  \E i \in is : last(is) = f.events[i]
  <2>1. \E i \in is : \A j \in is : j <= i
    BY <1>6, <1>7, LastPosition
  <2> QED
    BY <2>1
<1>8. m.generation \in Nat
  <2>1. CASE indices("BARRIER") # {}
    <3>1. PICK i \in indices("BARRIER") : last(indices("BARRIER")) = f.events[i]
      BY <1>7, <2>1
    <3>2. f.events[i].generation \in Nat
      BY <1>6 DEF Event
    <3> QED
      BY <1>3, <2>1, <3>1, <3>2
  <2> QED
    BY <1>3, <2>1
<1>9. m.permit # NoPermit => "PERMIT" \in Kinds(f.events)
  BY <1>4 DEF Kinds
<1>10. ASSUME NEW o \in Op
       PROVE  /\ m.ops[o] # "NONE" => HasBarrier(f.events, o)
              /\ HasDisposition(f.events, o) => m.ops[o] \in Settled
  <2> HIDE DEF m
  <2>0. m.ops[o] = IF of("BARRIER", o) = {} THEN "NONE"
                   ELSE IF of("DISPOSITION", o) = {} THEN "PENDING"
                   ELSE last(of("DISPOSITION", o)).outcome
    BY <1>5
  <2>1. m.ops[o] # "NONE" => HasBarrier(f.events, o)
    BY <2>0 DEF HasBarrier
  <2>2. ASSUME HasDisposition(f.events, o) PROVE m.ops[o] \in Settled
    <3>1. of("DISPOSITION", o) # {}
      BY <2>2 DEF HasDisposition
    <3>2. of("BARRIER", o) # {}
      BY <2>2 DEF HasDisposition, WellFormed
    <3>3. PICK i \in of("DISPOSITION", o) : last(of("DISPOSITION", o)) = f.events[i]
      BY <1>7, <3>1
    <3>4. f.events[i].outcome \in Settled
      BY DEF WellFormed
    <3> QED
      BY <2>0, <3>1, <3>2, <3>3, <3>4
  <2> QED
    BY <2>1, <2>2
<1>11. m.ops = [o \in Op |-> m.ops[o]]
  BY <1>5
<1> HIDE DEF m
<1> QED
  BY <1>1, <1>2, <1>8, <1>9, <1>10, <1>11 DEF m

\* Either nothing is written, or the event is at the end of the journal and
\* perhaps of the witness.
LEMMA Outcomes ==
  ASSUME file \in [events : Seq(Event), acks : Nat, torn : BOOLEAN], NEW e, NEW r \in Appended(e)
  PROVE  \/ /\ r.w = w /\ r.events = b.events /\ r.acks = b.acks
            /\ r.file \in [events : Seq(Event), acks : Nat, torn : BOOLEAN]
            /\ r.file.events = file.events /\ r.file.acks = file.acks
            /\ ~r.failed => ~b.failed
            /\ r.ok => \E i \in 1 .. Len(b.events) : SameId(b.events[i], e)
         \/ /\ Coverage /\ ~ \E i \in 1 .. Len(b.events) : SameId(b.events[i], e)
            /\ r.events = Append(b.events, e) /\ r.acks \in {b.acks, b.acks + 1}
            /\ \E torn \in BOOLEAN : r.file = [events |-> r.events, acks |-> r.acks, torn |-> torn]
            /\ r.w \in {w, Append(w, e)}
            /\ ~r.failed => r.ok
<1> DEFINE grown == Append(b.events, e)
           rows(acks, torn) == [events |-> grown, acks |-> acks, torn |-> torn]
<1>1. \/ r = Unwritten(FALSE)
      \/ r = Unwritten(TRUE) /\ \E i \in 1 .. Len(b.events) : SameId(b.events[i], e)
      \/ r = Result(file, w, b.events, b.acks, TRUE, TRUE, FALSE)
      \/ r = Result([file EXCEPT !.torn = TRUE], w, b.events, b.acks, TRUE, TRUE, FALSE)
      \/ /\ Coverage /\ ~ \E i \in 1 .. Len(b.events) : SameId(b.events[i], e)
         /\ \/ r = Result(rows(b.acks, FALSE), w, grown, b.acks, TRUE, FALSE, FALSE)
            \/ r = Result(rows(b.acks, FALSE), Append(w, e), grown, b.acks, TRUE, FALSE, FALSE)
            \/ r = Result(rows(b.acks, TRUE), Append(w, e), grown, b.acks, TRUE, TRUE, FALSE)
            \/ r = Result(rows(b.acks + 1, FALSE), Append(w, e), grown, b.acks + 1, FALSE, TRUE, TRUE)
  BY DEF Appended
<1> HIDE DEF grown
<1>2. CASE r = Unwritten(FALSE)
  BY <1>2 DEF Unwritten, Result
<1>3. CASE r = Unwritten(TRUE) /\ \E i \in 1 .. Len(b.events) : SameId(b.events[i], e)
  BY <1>3 DEF Unwritten, Result
<1>4. CASE r = Result(file, w, b.events, b.acks, TRUE, TRUE, FALSE)
  BY <1>4 DEF Result
<1>5. CASE r = Result([file EXCEPT !.torn = TRUE], w, b.events, b.acks, TRUE, TRUE, FALSE)
  BY <1>5 DEF Result
<1>6. CASE /\ Coverage /\ ~ \E i \in 1 .. Len(b.events) : SameId(b.events[i], e)
           /\ r = Result(rows(b.acks, FALSE), w, grown, b.acks, TRUE, FALSE, FALSE)
  BY <1>6 DEF Result, grown
<1>7. CASE /\ Coverage /\ ~ \E i \in 1 .. Len(b.events) : SameId(b.events[i], e)
           /\ r = Result(rows(b.acks, FALSE), Append(w, e), grown, b.acks, TRUE, FALSE, FALSE)
  BY <1>7 DEF Result, grown
<1>8. CASE /\ Coverage /\ ~ \E i \in 1 .. Len(b.events) : SameId(b.events[i], e)
           /\ r = Result(rows(b.acks, TRUE), Append(w, e), grown, b.acks, TRUE, TRUE, FALSE)
  BY <1>8 DEF Result, grown
<1>9. CASE /\ Coverage /\ ~ \E i \in 1 .. Len(b.events) : SameId(b.events[i], e)
           /\ r = Result(rows(b.acks + 1, FALSE), Append(w, e), grown, b.acks + 1, FALSE, TRUE, TRUE)
  BY <1>9 DEF Result, grown
<1> QED
  BY <1>1, <1>2, <1>3, <1>4, <1>5, <1>6, <1>7, <1>8, <1>9

\* What every event that the broker appends must be like.
Fits(e) == Follows(b.events, e) /\ MayFollow(b.events, e) /\ Suits(b.events, e)

LEMMA AppendStep ==
  ASSUME IInv, NEW e \in Event, NEW r \in Appended(e), Stored(r), Coverage => Fits(e)
  PROVE  /\ file' \in [events : Seq(Event), acks : Nat, torn : BOOLEAN] /\ w' \in Seq(Event)
         /\ r.events \in Seq(Event)
         /\ JournalInv' /\ Readable(w)' /\ BarrierFences'
         /\ Kinds(w) \subseteq Kinds(w)'
         /\ Kinds(b.events) \subseteq Kinds(r.events) /\ Kinds(r.events) \subseteq Kinds(b.events) \cup {e.kind}
         /\ r.ok => e.kind \in Kinds(r.events) /\ (e.kind = "BARRIER" => HasBarrier(r.events, e.op))
         /\ \A o : HasBarrier(b.events, o) => HasBarrier(r.events, o)
         /\ \A o : HasDisposition(r.events, o) =>
              HasDisposition(b.events, o) \/ (e.kind = "DISPOSITION" /\ e.op = o /\ (r.ok \/ r.failed))
         /\ ~r.failed => ~b.failed
<1> USE DEF IInv
<1>1. /\ file \in [events : Seq(Event), acks : Nat, torn : BOOLEAN] /\ w \in Seq(Event) /\ b.events \in Seq(Event)
      /\ WellFormed(file.events) /\ Len(w) \in Nat
  BY SeqFacts DEF TypeInv, JournalInv
<1>2. w' = r.w /\ file' = r.file
  BY DEF Stored
<1>3. CASE /\ r.w = w /\ r.events = b.events /\ r.acks = b.acks
           /\ r.file \in [events : Seq(Event), acks : Nat, torn : BOOLEAN]
           /\ r.file.events = file.events /\ r.file.acks = file.acks
           /\ ~r.failed => ~b.failed
           /\ r.ok => \E i \in 1 .. Len(b.events) : SameId(b.events[i], e)
  <2>1. w' = w /\ file'.events = file.events
    BY <1>2, <1>3
  <2>2. JournalInv'
    BY <2>1 DEF JournalInv, WellFormed
  <2>3. Readable(w)' /\ BarrierFences' /\ Kinds(w)' = Kinds(w)
    BY <2>1 DEF Readable, BarrierFences, AtMostOnce, Before, Kinds
  <2>4. r.ok => e.kind \in Kinds(r.events) /\ (e.kind = "BARRIER" => HasBarrier(r.events, e.op))
    BY <1>3 DEF SameId, Kinds, HasBarrier
  <2> QED
    BY <1>1, <1>2, <1>3, <2>1, <2>2, <2>3, <2>4
<1>4. CASE /\ Coverage /\ ~ \E i \in 1 .. Len(b.events) : SameId(b.events[i], e)
           /\ r.events = Append(b.events, e) /\ r.acks \in {b.acks, b.acks + 1}
           /\ \E torn \in BOOLEAN : r.file = [events |-> r.events, acks |-> r.acks, torn |-> torn]
           /\ r.w \in {w, Append(w, e)}
           /\ ~r.failed => r.ok
  <2>1. w = b.events /\ file.events = b.events /\ file.acks = b.acks /\ ~b.failed /\ Fits(e) /\ Readable(w)
    BY <1>4 DEF Coverage, Intact
  <2>2. PICK t : t = Append(b.events, e) /\ t \in Seq(Event) /\ Grows(b.events, t, e)
    BY <1>1, AppendGrows
  <2>3. /\ r.events = t /\ file'.events = t /\ w' \in {w, t}
        /\ file' \in [events : Seq(Event), acks : Nat, torn : BOOLEAN]
    BY <1>1, <1>2, <1>4, <2>1, <2>2
  <2>4. e.kind \in {"BINDING", "PERMIT"} => e.kind \notin Kinds(b.events)
    <3>1. ASSUME e.kind \in {"BINDING", "PERMIT"}, NEW i \in 1 .. Len(b.events), b.events[i].kind = e.kind
          PROVE  FALSE
      <4>1. Plain(b.events[i]) /\ Plain(e)
        BY <1>1, <2>1 DEF WellFormed, Fits, Suits
      <4>2. SameId(b.events[i], e)
        BY <3>1, <4>1 DEF Plain, SameId
      <4> QED
        BY <1>4, <4>2
    <3> QED
      BY <3>1 DEF Kinds
  <2>5. Readable(t)
    BY <2>1, <2>2, <2>4, GrowsReadable DEF Fits
  <2>6. Fences(t)
    <3>1. Fences(w)
      BY DEF BarrierFences, Fences
    <3> QED
      BY <2>1, <2>2, <3>1, GrowsFences DEF Fits
  <2>7. WellFormed(t)
    BY <1>1, <2>1, <2>2, GrowsWellFormed DEF Fits
  <2>8. Readable(w)'
    BY <2>1, <2>3, <2>5
  <2>9. BarrierFences'
    BY <2>3, <2>6 DEF BarrierFences, Fences
  <2>10. JournalInv'
    <3>1. WellFormed(file.events)'
      BY <2>3, <2>7 DEF WellFormed
    <3>2. PICK n \in Nat : n = Len(w) /\ Len(t) = n + 1
      BY <1>1, <2>1, <2>2 DEF Grows
    <3>3. (w' = w \/ w' = t) /\ \A i \in 1 .. n : t[i] = w[i]
      BY <2>1, <2>2, <2>3, <3>2 DEF Grows
    <3>4. Len(file'.events) <= Len(w') + 1
      BY <2>3, <3>2, <3>3
    <3>5. \A i \in 1 .. Len(file'.events) : i <= Len(w') => file'.events[i] = w'[i]
      BY <2>3, <3>2, <3>3
    <3> QED
      BY <3>1, <3>4, <3>5 DEF JournalInv
  <2>11. Kinds(t) = Kinds(b.events) \cup {e.kind}
    BY <2>2, GrowsSets
  <2>12. Kinds(w) \subseteq Kinds(w)'
    BY <2>1, <2>3, <2>11
  <2>13. /\ \A o : HasBarrier(t, o) <=> HasBarrier(b.events, o) \/ (e.kind = "BARRIER" /\ e.op = o)
         /\ \A o : HasDisposition(t, o) <=> HasDisposition(b.events, o) \/ (e.kind = "DISPOSITION" /\ e.op = o)
    BY <2>2, GrowsSets
  <2>14. w' \in Seq(Event) /\ r.events \in Seq(Event)
    BY <1>1, <2>2, <2>3
  <2> QED
    BY <1>4, <2>1, <2>3, <2>8, <2>9, <2>10, <2>11, <2>12, <2>13, <2>14
<1> QED
  BY <1>1, <1>3, <1>4, Outcomes

LEMMA AfterFields ==
  ASSUME NEW m, IsMem(m), NEW r
  PROVE  LET a == After(m, r) IN
         /\ IsMem(a) /\ a.events = r.events /\ a.failed = r.failed
         /\ a.state = IF r.ok THEN m.state ELSE "RECOVERY_REQUIRED"
         /\ a.generation = m.generation /\ a.expiry = m.expiry /\ a.permit = m.permit
         /\ a.consumed = m.consumed /\ a.lock = m.lock /\ a.count = m.count /\ a.ops = m.ops
<1> DEFINE a == After(m, r)
<1>1. IsMem(a)
  BY DEF After, IsMem, Field
<1>2. a.events = r.events /\ a.failed = r.failed /\ a.state = IF r.ok THEN m.state ELSE "RECOVERY_REQUIRED"
  BY DEF After, IsMem, Field
<1>3. /\ a.generation = m.generation /\ a.expiry = m.expiry /\ a.permit = m.permit
      /\ a.consumed = m.consumed /\ a.lock = m.lock /\ a.count = m.count /\ a.ops = m.ops
  BY DEF After, IsMem, Field
<1> QED
  BY <1>1, <1>2, <1>3

-----------------------------------------------------------------------------
(* Steps that append an event, and steps that do not                       *)

\* The flags of the memory m, once the event e was tried with the outcome r.
FlagsAfter(m, e, r) ==
  LET done(kind) == e.kind = kind /\ r.ok IN
  /\ m.expiry # "none" => b.expiry # "none" \/ done("BINDING")
  /\ m.permit # NoPermit => b.permit # NoPermit \/ done("PERMIT")
  /\ m.lock \in {"intent", "written"} \/ m.count # "none" =>
       b.lock \in {"intent", "written"} \/ b.count # "none" \/ done("INTENT")
  /\ m.lock = "outcome" => b.lock = "outcome" \/ done("PEER_RESPONSE")
  /\ b.consumed \/ e.kind = "INTENT" => m.consumed
  /\ m.state = "OPEN" => (b.state = "OPEN" \/ "BARRIER" \notin Kinds(b.events)) /\ e.kind # "BARRIER"

\* Its table of operations.
OpsAfter(m, e, r) ==
  /\ m.ops = [o \in Op |-> m.ops[o]]
  /\ e.kind = "DISPOSITION" /\ r.ok => m.ops[e.op] \in Settled
  /\ \A o \in Op :
       \/ m.ops[o] = b.ops[o]
       \/ e.kind = "BARRIER" /\ e.op = o /\ r.ok /\ b.ops[o] = "NONE"
       \/ e.kind = "DISPOSITION" /\ e.op = o /\ r.ok /\ b.ops[o] # "NONE"

LEMMA Recorded ==
  ASSUME IInv, NEW e \in Event, NEW r \in Appended(e), Stored(r), Coverage => Fits(e),
         NEW m, b' = m, IsMem(m), m.events = r.events, m.failed = r.failed, m.generation \in Nat,
         FlagsAfter(m, e, r), OpsAfter(m, e, r), m.lock = "intent" => sent = 0,
         UNCHANGED <<epoch, sent, short>>
  PROVE  IInv'
<1> USE DEF IInv
<1>1. /\ file' \in [events : Seq(Event), acks : Nat, torn : BOOLEAN] /\ w' \in Seq(Event)
      /\ r.events \in Seq(Event)
      /\ JournalInv' /\ Readable(w)' /\ BarrierFences'
      /\ Kinds(w) \subseteq Kinds(w)'
      /\ Kinds(b.events) \subseteq Kinds(r.events) /\ Kinds(r.events) \subseteq Kinds(b.events) \cup {e.kind}
      /\ r.ok => e.kind \in Kinds(r.events) /\ (e.kind = "BARRIER" => HasBarrier(r.events, e.op))
      /\ \A o : HasBarrier(b.events, o) => HasBarrier(r.events, o)
      /\ \A o : HasDisposition(r.events, o) =>
           HasDisposition(b.events, o) \/ (e.kind = "DISPOSITION" /\ e.op = o /\ (r.ok \/ r.failed))
      /\ ~r.failed => ~b.failed
  BY AppendStep
<1>2. TypeInv'
  BY <1>1 DEF TypeInv
<1>3. MemoryInv'
  BY <1>1 DEF MemoryInv, FlagsAfter
<1>4. EventsInv'
  BY <1>1 DEF EventsInv, FlagsAfter
<1>5. OpsInv'
  <2>1. \A o \in Op : m.ops[o] # "NONE" => HasBarrier(r.events, o)
    BY <1>1 DEF OpsInv, OpsAfter
  <2>2. ASSUME ~m.failed, NEW o \in Op, HasDisposition(r.events, o)
        PROVE  m.ops[o] \in Settled
    <3>1. CASE HasDisposition(b.events, o)
      <4>1. b.ops[o] \in Settled
        BY <1>1, <2>2, <3>1 DEF OpsInv
      <4>2. m.ops[o] = b.ops[o] \/ (e.kind = "DISPOSITION" /\ e.op = o /\ r.ok)
        BY <4>1 DEF OpsAfter, Settled
      <4> QED
        BY <4>1, <4>2 DEF OpsAfter
    <3>2. CASE e.kind = "DISPOSITION" /\ e.op = o /\ (r.ok \/ r.failed)
      BY <2>2, <3>2 DEF OpsAfter
    <3> QED
      BY <1>1, <2>2, <3>1, <3>2
  <2> QED
    BY <2>1, <2>2 DEF OpsInv, OpsAfter
<1>6. SentInv'
  BY <1>1 DEF SentInv
<1>7. LiabilityFloor'
  BY DEF LiabilityFloor
<1> QED
  BY <1>1, <1>2, <1>3, <1>4, <1>5, <1>6, <1>7

LEMMA Quiet ==
  ASSUME IInv, UNCHANGED <<file, w, epoch>>,
         NEW m, b' = m, IsMem(m), m.events = b.events, m.failed = b.failed, m.generation \in Nat, m.ops = b.ops,
         m.expiry # "none" => b.expiry # "none",
         m.permit # NoPermit => b.permit # NoPermit,
         m.lock \in {"intent", "written"} \/ m.count # "none" => b.lock \in {"intent", "written"} \/ b.count # "none",
         m.lock = "outcome" => b.lock = "outcome",
         b.consumed => m.consumed,
         m.state = "OPEN" => b.state = "OPEN",
         SentInv', LiabilityFloor'
  PROVE  IInv'
<1> USE DEF IInv
<1>1. TypeInv'
  BY DEF TypeInv
<1>2. JournalInv' /\ Readable(w)' /\ BarrierFences'
  BY DEF JournalInv, BarrierFences
<1>3. MemoryInv'
  BY DEF MemoryInv
<1>4. EventsInv'
  BY DEF EventsInv
<1>5. OpsInv'
  BY DEF OpsInv
<1> QED
  BY <1>1, <1>2, <1>3, <1>4, <1>5

LEMMA EvtFacts ==
  ASSUME TypeInv, NEW kind \in Kind
  PROVE  /\ Evt(kind) \in Event /\ Evt(kind).kind = kind /\ Evt(kind).op = NoOp /\ Evt(kind).outcome = "NONE"
         /\ Plain(Evt(kind))
BY DEF TypeInv, Evt, Event, Disposition, Plain

LEMMA PlainFits ==
  ASSUME IInv, NEW e, e.kind \notin {"BARRIER", "DISPOSITION"}, Plain(e), Follows(b.events, e),
         e.kind \in {"BOOTSTRAP", "BINDING", "PERMIT", "INTENT"} => "BARRIER" \notin Kinds(b.events)
  PROVE  /\ Fits(e)
         /\ \A m, r : m.ops = b.ops => OpsAfter(m, e, r)
<1>1. Fits(e)
  BY DEF Fits, MayFollow, Suits
<1>2. \A m, r : m.ops = b.ops => OpsAfter(m, e, r)
  BY DEF OpsAfter, IInv, OpsInv
<1> QED
  BY <1>1, <1>2

\* What an open broker knows of its events.
LEMMA OpenFacts ==
  ASSUME IInv
  PROVE  /\ b.state = "OPEN" => "BARRIER" \notin Kinds(b.events)
         /\ b.expiry # "none" => "BINDING" \in Kinds(b.events)
         /\ b.permit # NoPermit => "PERMIT" \in Kinds(b.events)
         /\ b.lock \in {"intent", "written"} \/ b.count # "none" => "INTENT" \in Kinds(b.events)
         /\ b.lock = "outcome" => "PEER_RESPONSE" \in Kinds(b.events)
         /\ "INTENT" \in Kinds(b.events) => b.consumed
         /\ IsMem(b) /\ b.generation \in Nat
BY DEF IInv, EventsInv, MemoryInv, TypeInv

LEMMA BootstrapStep ==
  ASSUME IInv, Bootstrap
  PROVE  IInv'
<1> DEFINE e == Evt("BOOTSTRAP")
<1>1. PICK r \in Appended(e) :
        Stored(r) /\ b' = [After(b, r) EXCEPT !.state = IF r.ok THEN "OPEN" ELSE @]
  BY DEF Bootstrap
<1>2. e \in Event /\ e.kind = "BOOTSTRAP" /\ Plain(e)
  BY EvtFacts DEF IInv, Kind
<1> HIDE DEF e
<1>3. Kinds(b.events) = {}
  BY DEF Bootstrap, Kinds
<1>4. Fits(e) /\ \A m : m.ops = b.ops => OpsAfter(m, e, r)
  BY <1>2, <1>3, PlainFits DEF Follows
<1>5. PICK a : a = After(b, r)
  OBVIOUS
<1>6. PICK m : m = [a EXCEPT !.state = IF r.ok THEN "OPEN" ELSE @]
  OBVIOUS
<1>7. /\ IsMem(a) /\ a.events = r.events /\ a.failed = r.failed
      /\ a.state = IF r.ok THEN b.state ELSE "RECOVERY_REQUIRED"
      /\ a.generation = b.generation /\ a.expiry = b.expiry /\ a.permit = b.permit
      /\ a.consumed = b.consumed /\ a.lock = b.lock /\ a.count = b.count /\ a.ops = b.ops
  BY ZenonT(40), <1>5, AfterFields, OpenFacts
<1>8. IsMem(m) /\ m.events = a.events /\ m.failed = a.failed
  BY <1>6, <1>7 DEF IsMem, Field
<1>9. /\ m.generation = a.generation /\ m.expiry = a.expiry /\ m.permit = a.permit
      /\ m.consumed = a.consumed /\ m.lock = a.lock /\ m.count = a.count /\ m.ops = a.ops
  BY <1>6, <1>7 DEF IsMem, Field
<1>10. FlagsAfter(m, e, r)
  BY <1>2, <1>3, <1>7, <1>9, OpenFacts DEF FlagsAfter
<1>11. b' = m /\ (m.lock = "intent" => sent = 0) /\ m.generation \in Nat /\ UNCHANGED <<epoch, sent, short>>
  BY <1>1, <1>5, <1>6, <1>7, <1>9, OpenFacts DEF IInv, SentInv, Bootstrap
<1> QED
  BY <1>1, <1>2, <1>4, <1>7, <1>8, <1>9, <1>10, <1>11, Recorded

LEMMA BindStep ==
  ASSUME IInv, Bind
  PROVE  IInv'
<1> DEFINE e == Evt("BINDING")
<1>1. PICK r \in Appended(e) :
        /\ Stored(r)
        /\ b' = [After(b, r) EXCEPT !.binding = TRUE, !.expiry = IF r.ok THEN "armed" ELSE @]
  BY DEF Bind
<1>2. e \in Event /\ e.kind = "BINDING" /\ Plain(e)
  BY EvtFacts DEF IInv, Kind
<1> HIDE DEF e
<1>3. "BARRIER" \notin Kinds(b.events)
  BY OpenFacts DEF Bind, Open
<1>4. Fits(e) /\ \A m : m.ops = b.ops => OpsAfter(m, e, r)
  BY <1>2, <1>3, PlainFits DEF Follows
<1>5. PICK a : a = After(b, r)
  OBVIOUS
<1>6. PICK m : m = [a EXCEPT !.binding = TRUE, !.expiry = IF r.ok THEN "armed" ELSE @]
  OBVIOUS
<1>7. /\ IsMem(a) /\ a.events = r.events /\ a.failed = r.failed
      /\ a.state = IF r.ok THEN b.state ELSE "RECOVERY_REQUIRED"
      /\ a.generation = b.generation /\ a.expiry = b.expiry /\ a.permit = b.permit
      /\ a.consumed = b.consumed /\ a.lock = b.lock /\ a.count = b.count /\ a.ops = b.ops
  BY <1>5, AfterFields, OpenFacts, ZenonT(30)
<1>8. IsMem(m) /\ m.events = a.events /\ m.failed = a.failed
  BY <1>6, <1>7 DEF IsMem, Field
<1>9. /\ m.generation = a.generation /\ m.expiry = (IF r.ok THEN "armed" ELSE a.expiry) /\ m.permit = a.permit
      /\ m.state = a.state /\ m.consumed = a.consumed /\ m.lock = a.lock /\ m.count = a.count /\ m.ops = a.ops
  BY <1>6, <1>7 DEF IsMem, Field
<1>10. FlagsAfter(m, e, r)
  BY <1>2, <1>3, <1>7, <1>9, OpenFacts DEF FlagsAfter
<1>11. b' = m /\ (m.lock = "intent" => sent = 0) /\ m.generation \in Nat /\ UNCHANGED <<epoch, sent, short>>
  BY <1>1, <1>5, <1>6, <1>7, <1>9, OpenFacts DEF IInv, SentInv, Bind
<1> QED
  BY <1>1, <1>2, <1>4, <1>7, <1>8, <1>9, <1>10, <1>11, Recorded

LEMMA AuthorizeStep ==
  ASSUME IInv, Authorize
  PROVE  IInv'
<1> DEFINE e == Permitted
<1>1. PICK r \in Appended(e) :
        /\ Stored(r)
        /\ b' = [After(b, r) EXCEPT !.permit = IF r.ok THEN [epoch |-> epoch, generation |-> b.generation] ELSE @]
  BY DEF Authorize
<1>2. e \in Event /\ e.kind = "PERMIT" /\ Plain(e)
  <2>1. PICK x : x = Evt("PERMIT")
    OBVIOUS
  <2>2. x \in Event /\ x.kind = "PERMIT" /\ Plain(x)
    BY <2>1, EvtFacts DEF IInv, Kind
  <2>3. e = [x EXCEPT !.generation = b.generation]
    BY <2>1 DEF Permitted
  <2> QED
    BY <2>2, <2>3, OpenFacts DEF Event, Plain
<1> HIDE DEF e
<1>3. "BARRIER" \notin Kinds(b.events) /\ "BINDING" \in Kinds(b.events)
  BY OpenFacts DEF Authorize, Current, Open
<1>4. Fits(e) /\ \A m : m.ops = b.ops => OpsAfter(m, e, r)
  BY <1>2, <1>3, PlainFits DEF Follows
<1>5. PICK a : a = After(b, r)
  OBVIOUS
<1>6. PICK m : m = [a EXCEPT !.permit = IF r.ok THEN [epoch |-> epoch, generation |-> b.generation] ELSE @]
  OBVIOUS
<1>7. /\ IsMem(a) /\ a.events = r.events /\ a.failed = r.failed
      /\ a.state = IF r.ok THEN b.state ELSE "RECOVERY_REQUIRED"
      /\ a.generation = b.generation /\ a.expiry = b.expiry /\ a.permit = b.permit
      /\ a.consumed = b.consumed /\ a.lock = b.lock /\ a.count = b.count /\ a.ops = b.ops
  BY ZenonT(40), <1>5, AfterFields, OpenFacts
<1>8. IsMem(m) /\ m.events = a.events /\ m.failed = a.failed
  BY <1>6, <1>7 DEF IsMem, Field
<1>9. /\ m.generation = a.generation /\ m.expiry = a.expiry /\ (r.ok \/ m.permit = a.permit)
      /\ m.state = a.state /\ m.consumed = a.consumed /\ m.lock = a.lock /\ m.count = a.count /\ m.ops = a.ops
  BY <1>6, <1>7 DEF IsMem, Field
<1>10. FlagsAfter(m, e, r)
  BY <1>2, <1>3, <1>7, <1>9, OpenFacts DEF FlagsAfter
<1>11. b' = m /\ (m.lock = "intent" => sent = 0) /\ m.generation \in Nat /\ UNCHANGED <<epoch, sent, short>>
  BY <1>1, <1>5, <1>6, <1>7, <1>9, OpenFacts DEF IInv, SentInv, Authorize
<1> QED
  BY <1>1, <1>2, <1>4, <1>7, <1>8, <1>9, <1>10, <1>11, Recorded

\* The one intent: an unspent permit means that no intent was ever witnessed.
LEMMA WriteIntentStep ==
  ASSUME IInv, WriteIntent
  PROVE  IInv'
<1> DEFINE e == Evt("INTENT")
<1>1. PICK r \in Appended(e) :
        /\ Stored(r)
        /\ b' = [After(b, r) EXCEPT !.consumed = TRUE, !.lock = IF r.ok THEN "intent" ELSE "free"]
  BY DEF WriteIntent
<1>2. e \in Event /\ e.kind = "INTENT" /\ Plain(e)
  BY EvtFacts DEF IInv, Kind
<1> HIDE DEF e
<1>3. "BARRIER" \notin Kinds(b.events) /\ "PERMIT" \in Kinds(b.events)
  <2>1. b.state = "OPEN" /\ b.permit = [epoch |-> epoch, generation |-> b.generation]
    BY DEF WriteIntent, MayWrite, Current, Open
  <2>2. b.permit # NoPermit
    BY <2>1, BrokerAssumption DEF NoPermit, IInv, TypeInv
  <2> QED
    BY <2>1, <2>2, OpenFacts
<1>4. Fits(e) /\ \A m : m.ops = b.ops => OpsAfter(m, e, r)
  BY <1>2, <1>3, PlainFits DEF Follows
<1>5. PICK a : a = After(b, r)
  OBVIOUS
<1>6. PICK m : m = [a EXCEPT !.consumed = TRUE, !.lock = IF r.ok THEN "intent" ELSE "free"]
  OBVIOUS
<1>7. /\ IsMem(a) /\ a.events = r.events /\ a.failed = r.failed
      /\ a.state = IF r.ok THEN b.state ELSE "RECOVERY_REQUIRED"
      /\ a.generation = b.generation /\ a.expiry = b.expiry /\ a.permit = b.permit
      /\ a.consumed = b.consumed /\ a.lock = b.lock /\ a.count = b.count /\ a.ops = b.ops
  BY <1>5, AfterFields, OpenFacts, ZenonT(30)
<1>8. IsMem(m) /\ m.events = a.events /\ m.failed = a.failed
  BY <1>6, <1>7 DEF IsMem, Field
<1>9. /\ m.generation = a.generation /\ m.expiry = a.expiry /\ m.permit = a.permit /\ m.state = a.state
      /\ m.consumed = TRUE /\ m.lock = (IF r.ok THEN "intent" ELSE "free") /\ m.count = a.count /\ m.ops = a.ops
  BY <1>6, <1>7 DEF IsMem, Field
<1>10. FlagsAfter(m, e, r)
  BY <1>2, <1>3, <1>7, <1>9, OpenFacts DEF FlagsAfter
<1>11. sent = 0
  <2>1. ~b.consumed /\ w = b.events
    BY DEF WriteIntent, MayWrite, Current, Open, Coverage
  <2> QED
    BY <2>1, OpenFacts DEF IInv, SentInv
<1>12. b' = m /\ m.generation \in Nat /\ UNCHANGED <<epoch, sent, short>>
  BY <1>1, <1>5, <1>6, <1>7, <1>9, OpenFacts DEF WriteIntent
<1> QED
  BY <1>1, <1>2, <1>4, <1>7, <1>8, <1>9, <1>10, <1>11, <1>12, Recorded

LEMMA ResponseStep ==
  ASSUME IInv, Response
  PROVE  IInv'
<1> DEFINE e == Evt("PEER_RESPONSE")
<1>1. PICK known \in BOOLEAN, r \in Appended(e) :
        /\ Stored(r)
        /\ b' = [After(b, r) EXCEPT !.receiving = "ending", !.lock = IF r.ok /\ known THEN "outcome" ELSE "free"]
  BY DEF Response
<1>2. e \in Event /\ e.kind = "PEER_RESPONSE" /\ Plain(e)
  BY EvtFacts DEF IInv, Kind
<1> HIDE DEF e
<1>3. "INTENT" \in Kinds(b.events)
  BY OpenFacts DEF Response
<1>4. Fits(e) /\ \A m : m.ops = b.ops => OpsAfter(m, e, r)
  BY <1>2, <1>3, PlainFits DEF Follows
<1>5. PICK a : a = After(b, r)
  OBVIOUS
<1>6. PICK m : m = [a EXCEPT !.receiving = "ending", !.lock = IF r.ok /\ known THEN "outcome" ELSE "free"]
  OBVIOUS
<1>7. /\ IsMem(a) /\ a.events = r.events /\ a.failed = r.failed
      /\ a.state = IF r.ok THEN b.state ELSE "RECOVERY_REQUIRED"
      /\ a.generation = b.generation /\ a.expiry = b.expiry /\ a.permit = b.permit
      /\ a.consumed = b.consumed /\ a.lock = b.lock /\ a.count = b.count /\ a.ops = b.ops
  BY <1>5, AfterFields, OpenFacts, ZenonT(30)
<1>8. IsMem(m) /\ m.events = a.events /\ m.failed = a.failed
  BY <1>6, <1>7 DEF IsMem, Field
<1>9. /\ m.generation = a.generation /\ m.expiry = a.expiry /\ m.permit = a.permit /\ m.state = a.state
      /\ m.consumed = a.consumed /\ m.lock = (IF r.ok /\ known THEN "outcome" ELSE "free")
      /\ m.count = a.count /\ m.ops = a.ops
  BY <1>6, <1>7 DEF IsMem, Field
<1>10. FlagsAfter(m, e, r)
  BY <1>2, <1>3, <1>7, <1>9, OpenFacts DEF FlagsAfter
<1>11. b' = m /\ m.lock # "intent" /\ m.generation \in Nat /\ UNCHANGED <<epoch, sent, short>>
  BY <1>1, <1>5, <1>6, <1>7, <1>9, OpenFacts DEF Response
<1> QED
  BY <1>1, <1>2, <1>4, <1>7, <1>8, <1>9, <1>10, <1>11, Recorded

LEMMA FinalUsageStep ==
  ASSUME IInv, FinalUsage
  PROVE  IInv'
<1>1. PICK u \in Usage : \E r \in Appended([Evt("FINAL_USAGE") EXCEPT !.usage = u]) :
        Stored(r) /\ b' = [After(b, r) EXCEPT !.lock = "free"]
  BY DEF FinalUsage
<1> DEFINE e == [Evt("FINAL_USAGE") EXCEPT !.usage = u]
<1>2. PICK r \in Appended(e) : Stored(r) /\ b' = [After(b, r) EXCEPT !.lock = "free"]
  BY <1>1
<1>3. e \in Event /\ e.kind = "FINAL_USAGE" /\ Plain(e)
  <2>1. PICK x : x = Evt("FINAL_USAGE")
    OBVIOUS
  <2>2. x \in Event /\ x.kind = "FINAL_USAGE" /\ Plain(x)
    BY <2>1, EvtFacts DEF IInv, Kind
  <2>3. e = [x EXCEPT !.usage = u]
    BY <2>1
  <2> HIDE DEF e
  <2> QED
    BY <2>2, <2>3, BrokerAssumption DEF Event, Plain
<1> HIDE DEF e
<1>4. "PEER_RESPONSE" \in Kinds(b.events)
  BY OpenFacts DEF FinalUsage
<1>5. Fits(e) /\ \A m : m.ops = b.ops => OpsAfter(m, e, r)
  BY <1>3, <1>4, PlainFits DEF Follows
<1>6. PICK a : a = After(b, r)
  OBVIOUS
<1>7. PICK m : m = [a EXCEPT !.lock = "free"]
  OBVIOUS
<1>8. /\ IsMem(a) /\ a.events = r.events /\ a.failed = r.failed
      /\ a.state = IF r.ok THEN b.state ELSE "RECOVERY_REQUIRED"
      /\ a.generation = b.generation /\ a.expiry = b.expiry /\ a.permit = b.permit
      /\ a.consumed = b.consumed /\ a.lock = b.lock /\ a.count = b.count /\ a.ops = b.ops
  BY ZenonT(40), <1>6, AfterFields, OpenFacts
<1>9. IsMem(m) /\ m.events = a.events /\ m.failed = a.failed
  BY <1>7, <1>8 DEF IsMem, Field
<1>10. /\ m.generation = a.generation /\ m.expiry = a.expiry /\ m.permit = a.permit /\ m.state = a.state
       /\ m.consumed = a.consumed /\ m.lock = "free" /\ m.count = a.count /\ m.ops = a.ops
  BY <1>7, <1>8 DEF IsMem, Field
<1>11. FlagsAfter(m, e, r)
  BY <1>3, <1>8, <1>10, OpenFacts DEF FlagsAfter
<1>12. b' = m /\ m.lock # "intent" /\ m.generation \in Nat /\ UNCHANGED <<epoch, sent, short>>
  BY <1>2, <1>6, <1>7, <1>8, <1>10, OpenFacts DEF FinalUsage
<1> QED
  BY <1>2, <1>3, <1>5, <1>8, <1>9, <1>10, <1>11, <1>12, Recorded

\* How write leaves the memory a of its last append.
LEMMA WriteRecordStep ==
  ASSUME IInv, WriteRecord
  PROVE  IInv'
<1> DEFINE free(m) == [m EXCEPT !.lock = "free"]
           end(m) == IF b.count = "full" THEN [free(m) EXCEPT !.request = IF b.socket THEN "none" ELSE @]
                     ELSE CloseSocket([free(m) EXCEPT !.state = "RECOVERY_REQUIRED"])
           Same(x, a) == /\ IsMem(x) /\ x.events = a.events /\ x.failed = a.failed /\ x.generation = a.generation
                         /\ x.expiry = a.expiry /\ x.permit = a.permit /\ x.lock = "free" /\ x.count = a.count
                         /\ x.consumed = a.consumed /\ x.ops = a.ops /\ x.state \in {a.state, "RECOVERY_REQUIRED"}
<1>1. UNCHANGED <<epoch, rollbacks, sent, short>> /\ b.lock = "written"
  BY DEF WriteRecord
<1>2. ASSUME NEW a, IsMem(a) PROVE Same(free(a), a) /\ Same(end(a), a)
  <2>1. PICK f : f = free(a)
    OBVIOUS
  <2>2. Same(f, a)
    BY <1>2, <2>1 DEF IsMem, Field
  <2>3. CASE b.count = "full"
    <3>1. PICK q : q = IF b.socket THEN "none" ELSE f.request
      OBVIOUS
    <3>2. end(a) = [f EXCEPT !.request = q]
      BY <2>1, <2>3, <3>1
    <3>3. q \in {"none", f.request}
      BY <3>1
    <3> HIDE DEF end, free
    <3> QED
      BY <2>1, <2>2, <3>2, <3>3 DEF IsMem, Field
  <2>4. CASE b.count # "full"
    <3>1. PICK x : x = [f EXCEPT !.state = "RECOVERY_REQUIRED"]
      OBVIOUS
    <3>2. end(a) = [x EXCEPT !.socket = FALSE]
      BY <2>1, <2>4, <3>1 DEF CloseSocket
    <3> HIDE DEF end, free
    <3>3. Same(x, a)
      BY <2>2, <3>1 DEF IsMem, Field
    <3>4. Same(end(a), a)
      BY <3>2, <3>3 DEF IsMem, Field
    <3> QED
      BY <2>1, <2>2, <3>4
  <2> QED
    BY <2>3, <2>4
<1>3. ASSUME Coverage PROVE IInv'
  <2> DEFINE e == Evt("LOCAL_WRITE")
  <2>1. PICK r \in Appended(e) : Stored(r) /\ b' = IF r.ok THEN end(After(b, r)) ELSE free(After(b, r))
    BY <1>3 DEF WriteRecord
  <2>2. e \in Event /\ e.kind = "LOCAL_WRITE" /\ Plain(e)
    BY EvtFacts DEF IInv, Kind
  <2> HIDE DEF e
  <2>3. Fits(e) /\ \A m : m.ops = b.ops => OpsAfter(m, e, r)
    BY <2>2, PlainFits DEF Follows
  <2>4. PICK a : a = After(b, r)
    OBVIOUS
  <2>5. /\ IsMem(a) /\ a.events = r.events /\ a.failed = r.failed
        /\ a.state = IF r.ok THEN b.state ELSE "RECOVERY_REQUIRED"
        /\ a.generation = b.generation /\ a.expiry = b.expiry /\ a.permit = b.permit
        /\ a.consumed = b.consumed /\ a.lock = b.lock /\ a.count = b.count /\ a.ops = b.ops
    BY <2>4, AfterFields, OpenFacts, ZenonT(30)
  <2>6. PICK m : m = IF r.ok THEN end(a) ELSE free(a)
    OBVIOUS
  <2>7. /\ IsMem(m) /\ m.events = a.events /\ m.failed = a.failed /\ m.generation = a.generation
        /\ m.expiry = a.expiry /\ m.permit = a.permit /\ m.lock = "free" /\ m.count = a.count
        /\ m.consumed = a.consumed /\ m.ops = a.ops /\ m.state \in {a.state, "RECOVERY_REQUIRED"}
    BY <1>2, <2>5, <2>6
  <2>8. b' = m
    BY <2>1, <2>4, <2>6
  <2> HIDE DEF end, free
  <2>9. FlagsAfter(m, e, r)
    BY <1>1, <2>2, <2>5, <2>7, OpenFacts DEF FlagsAfter
  <2> QED
    BY <1>1, <2>1, <2>2, <2>3, <2>5, <2>7, <2>8, <2>9, Recorded, OpenFacts
<1>4. ASSUME ~Coverage PROVE IInv'
  <2>1. b' = end(b) /\ UNCHANGED <<file, w>>
    BY <1>4 DEF WriteRecord
  <2>2. PICK m : m = end(b)
    OBVIOUS
  <2>3. /\ IsMem(m) /\ m.events = b.events /\ m.failed = b.failed /\ m.generation = b.generation
        /\ m.expiry = b.expiry /\ m.permit = b.permit /\ m.lock = "free" /\ m.count = b.count
        /\ m.consumed = b.consumed /\ m.ops = b.ops /\ m.state \in {b.state, "RECOVERY_REQUIRED"}
    BY <1>2, <2>2, OpenFacts
  <2>4. b' = m
    BY <2>1, <2>2
  <2> HIDE DEF end
  <2>5. SentInv' /\ LiabilityFloor'
    BY <1>1, <2>1, <2>3, <2>4 DEF IInv, SentInv, LiabilityFloor
  <2> QED
    BY <1>1, <2>1, <2>3, <2>4, <2>5, Quiet, OpenFacts
<1> QED
  BY <1>3, <1>4

\* The common end of receive, close_call and the expiry thread, on the memory
\* that each of them has marked closed.
LEMMA ClosingStep ==
  ASSUME IInv, b.lock = "free", NEW c, Closing(c), IsMem(c), c.events = b.events, c.failed = b.failed,
         c.generation = b.generation, c.permit = b.permit, c.consumed = b.consumed, c.lock = b.lock,
         c.count = b.count, c.ops = b.ops, c.expiry # "none" => b.expiry # "none",
         c.state = "OPEN" => b.state = "OPEN"
  PROVE  IInv'
<1>1. UNCHANGED <<epoch, rollbacks, sent, short>>
  BY DEF Closing
<1>2. ASSUME NEW a, IsMem(a), NEW m, m = CloseSocket(a)
      PROVE  /\ IsMem(m) /\ m.events = a.events /\ m.failed = a.failed /\ m.generation = a.generation
             /\ m.expiry = a.expiry /\ m.permit = a.permit /\ m.lock = a.lock /\ m.count = a.count
             /\ m.consumed = a.consumed /\ m.ops = a.ops /\ m.state = a.state
  BY <1>2 DEF CloseSocket, IsMem, Field
<1>3. ASSUME Coverage PROVE IInv'
  <2> DEFINE e == Evt("CLOSED")
  <2>1. PICK r \in Appended(e) : Stored(r) /\ b' = CloseSocket(After(c, r))
    BY <1>3 DEF Closing
  <2>2. e \in Event /\ e.kind = "CLOSED" /\ Plain(e)
    BY EvtFacts DEF IInv, Kind
  <2> HIDE DEF e
  <2>3. Fits(e) /\ \A m : m.ops = b.ops => OpsAfter(m, e, r)
    BY <2>2, PlainFits DEF Follows
  <2>4. PICK a : a = After(c, r)
    OBVIOUS
  <2>5. /\ IsMem(a) /\ a.events = r.events /\ a.failed = r.failed
        /\ a.state = IF r.ok THEN c.state ELSE "RECOVERY_REQUIRED"
        /\ a.generation = c.generation /\ a.expiry = c.expiry /\ a.permit = c.permit
        /\ a.consumed = c.consumed /\ a.lock = c.lock /\ a.count = c.count /\ a.ops = c.ops
    <3>1. IsMem(c)
      OBVIOUS
    <3> QED
      BY ONLY <2>4, <3>1, AfterFields, ZenonT(40)
  <2>6. PICK m : m = CloseSocket(a)
    OBVIOUS
  <2>7. /\ IsMem(m) /\ m.events = a.events /\ m.failed = a.failed /\ m.generation = a.generation
        /\ m.expiry = a.expiry /\ m.permit = a.permit /\ m.lock = a.lock /\ m.count = a.count
        /\ m.consumed = a.consumed /\ m.ops = a.ops /\ m.state = a.state
    BY <1>2, <2>5, <2>6
  <2>8. b' = m
    BY <2>1, <2>4, <2>6
  <2>9. FlagsAfter(m, e, r)
    BY <2>2, <2>5, <2>7, OpenFacts DEF FlagsAfter
  <2> QED
    BY <1>1, <2>1, <2>2, <2>3, <2>5, <2>7, <2>8, <2>9, Recorded, OpenFacts
<1>4. ASSUME ~Coverage PROVE IInv'
  <2>1. b' = CloseSocket(c) /\ UNCHANGED <<file, w>>
    BY <1>4 DEF Closing
  <2>2. PICK m : m = CloseSocket(c)
    OBVIOUS
  <2>3. /\ IsMem(m) /\ m.events = c.events /\ m.failed = c.failed /\ m.generation = c.generation
        /\ m.expiry = c.expiry /\ m.permit = c.permit /\ m.lock = c.lock /\ m.count = c.count
        /\ m.consumed = c.consumed /\ m.ops = c.ops /\ m.state = c.state
    BY <1>2, <2>2
  <2>4. b' = m
    BY <2>1, <2>2
  <2>5. SentInv' /\ LiabilityFloor'
    BY <1>1, <2>1, <2>3, <2>4 DEF IInv, SentInv, LiabilityFloor
  <2> QED
    BY <1>1, <2>1, <2>3, <2>4, <2>5, Quiet, OpenFacts
<1> QED
  BY <1>3, <1>4

LEMMA EndSteps ==
  ASSUME IInv, ReceiveFinally \/ CloseCall \/ Expire
  PROVE  IInv'
<1>1. IsMem(b)
  BY OpenFacts
<1>2. CASE ReceiveFinally
  <2>1. PICK c : c = [b EXCEPT !.closed = TRUE, !.receiving = "no"]
    OBVIOUS
  <2>2. /\ IsMem(c) /\ c.events = b.events /\ c.failed = b.failed /\ c.generation = b.generation
        /\ c.permit = b.permit /\ c.consumed = b.consumed /\ c.lock = b.lock /\ c.count = b.count
        /\ c.ops = b.ops /\ c.expiry = b.expiry /\ c.state = b.state
    BY <1>1, <2>1 DEF IsMem, Field
  <2>3. b.lock = "free" /\ Closing(c)
    BY <1>2, <2>1 DEF ReceiveFinally, Ready
  <2> QED
    BY <2>2, <2>3, ClosingStep
<1>3. CASE CloseCall
  <2>1. PICK c : c = [b EXCEPT !.closed = TRUE]
    OBVIOUS
  <2>2. /\ IsMem(c) /\ c.events = b.events /\ c.failed = b.failed /\ c.generation = b.generation
        /\ c.permit = b.permit /\ c.consumed = b.consumed /\ c.lock = b.lock /\ c.count = b.count
        /\ c.ops = b.ops /\ c.expiry = b.expiry /\ c.state = b.state
    BY <1>1, <2>1 DEF IsMem, Field
  <2>3. b.lock = "free" /\ Closing(c)
    BY <1>3, <2>1 DEF CloseCall, Ready
  <2> QED
    BY <2>2, <2>3, ClosingStep
<1>4. CASE Expire
  <2>1. PICK c : c = [b EXCEPT !.state = "CLOSED", !.closed = TRUE, !.ticket = 0, !.expiry = "done"]
    OBVIOUS
  <2>2. /\ IsMem(c) /\ c.events = b.events /\ c.failed = b.failed /\ c.generation = b.generation
        /\ c.permit = b.permit /\ c.consumed = b.consumed /\ c.lock = b.lock /\ c.count = b.count
        /\ c.ops = b.ops /\ c.state = "CLOSED"
    BY <1>1, <2>1 DEF IsMem, Field
  <2>3. b.lock = "free" /\ Closing(c) /\ b.expiry = "due"
    BY <1>4, <2>1 DEF Expire, Ready
  <2> QED
    BY <2>2, <2>3, ClosingStep
<1> QED
  BY <1>2, <1>3, <1>4

\* The memory a after an answer about o.
Answered(a, o, v) == [a EXCEPT !.ops[o] = v]

LEMMA OpsField ==
  ASSUME NEW a, IsMem(a), a.ops = [p \in Op |-> a.ops[p]], NEW o \in Op, NEW v,
         NEW m, m = Answered(a, o, v)
  PROVE  /\ IsMem(m) /\ m.events = a.events /\ m.failed = a.failed /\ m.generation = a.generation
         /\ m.expiry = a.expiry /\ m.permit = a.permit /\ m.lock = a.lock /\ m.count = a.count
         /\ m.consumed = a.consumed /\ m.state = a.state
         /\ m.ops = [p \in Op |-> m.ops[p]]
         /\ m.ops[o] = v
         /\ \A p \in Op : p # o => m.ops[p] = a.ops[p]
<1>1. PICK q : q = [a.ops EXCEPT ![o] = v]
  OBVIOUS
<1>2. m = [a EXCEPT !.ops = q]
  BY <1>1 DEF Answered
<1>3. /\ IsMem(m) /\ m.events = a.events /\ m.failed = a.failed /\ m.generation = a.generation
      /\ m.expiry = a.expiry /\ m.permit = a.permit /\ m.lock = a.lock /\ m.count = a.count
      /\ m.consumed = a.consumed /\ m.state = a.state /\ m.ops = q
  BY ONLY <1>2, IsMem(a) DEF IsMem, Field
<1>4. /\ q = [p \in Op |-> q[p]] /\ q[o] = v
      /\ \A p \in Op : p # o => q[p] = a.ops[p]
  <2>1. PICK z : z = a.ops
    OBVIOUS
  <2>2. z = [p \in Op |-> z[p]] /\ q = [z EXCEPT ![o] = v]
    BY <1>1, <2>1
  <2>3. q = [p \in Op |-> IF p = o THEN v ELSE z[p]]
    BY ONLY <2>2
  <2> QED
    BY ONLY <2>1, <2>3, o \in Op
<1> QED
  BY ONLY <1>3, <1>4

LEMMA FencedFields ==
  ASSUME NEW m, IsMem(m), NEW c, c = Fenced(m)
  PROVE  /\ IsMem(c) /\ c.events = m.events /\ c.failed = m.failed /\ c.generation = m.generation + 1
         /\ c.expiry = m.expiry /\ c.permit = m.permit /\ c.lock = m.lock /\ c.count = m.count
         /\ c.consumed = m.consumed /\ c.ops = m.ops /\ c.state = "CLOSED"
<1>1. PICK x : x = [m EXCEPT !.state = "CLOSED", !.generation = @ + 1, !.ticket = 0, !.closed = m.binding]
  OBVIOUS
<1>2. c = [x EXCEPT !.socket = FALSE]
  BY <1>1 DEF Fenced, CloseSocket
<1>3. /\ IsMem(x) /\ x.events = m.events /\ x.failed = m.failed /\ x.generation = m.generation + 1
      /\ x.expiry = m.expiry /\ x.permit = m.permit /\ x.lock = m.lock /\ x.count = m.count
      /\ x.consumed = m.consumed /\ x.ops = m.ops /\ x.state = "CLOSED"
  BY ONLY <1>1, IsMem(m) DEF IsMem, Field
<1>4. /\ IsMem(c) /\ c.events = x.events /\ c.failed = x.failed /\ c.generation = x.generation
      /\ c.expiry = x.expiry /\ c.permit = x.permit /\ c.lock = x.lock /\ c.count = x.count
      /\ c.consumed = x.consumed /\ c.ops = x.ops /\ c.state = x.state
  BY ONLY <1>2, <1>3 DEF IsMem, Field
<1> QED
  BY ONLY <1>3, <1>4

LEMMA InvalidateStep ==
  ASSUME IInv, NEW o \in Op, Invalidate(o)
  PROVE  IInv'
<1>1. UNCHANGED <<epoch, rollbacks, sent, short>> /\ b.ops[o] = "NONE" /\ b.lock = "free"
  BY DEF Invalidate, Ready
<1>2. PICK c : c = Fenced(b)
  OBVIOUS
<1>3. /\ IsMem(c) /\ c.events = b.events /\ c.failed = b.failed /\ c.generation = b.generation + 1
      /\ c.expiry = b.expiry /\ c.permit = b.permit /\ c.lock = b.lock /\ c.count = b.count
      /\ c.consumed = b.consumed /\ c.ops = b.ops /\ c.state = "CLOSED"
  BY <1>2, FencedFields, OpenFacts
<1>4. c.generation \in Nat
  BY <1>3, OpenFacts
<1>5. ASSUME \E r \in Appended(Barrier(o)) :
               Stored(r) /\ b' = [After(Fenced(b), r) EXCEPT !.ops[o] = IF r.ok THEN "PENDING" ELSE @]
      PROVE  IInv'
  <2> DEFINE e == Barrier(o)
  <2>1. PICK r \in Appended(e) :
          Stored(r) /\ b' = [After(c, r) EXCEPT !.ops[o] = IF r.ok THEN "PENDING" ELSE @]
    BY <1>2, <1>5
  <2>2. e \in Event /\ e.kind = "BARRIER" /\ e.op = o
    <3>1. PICK x : x = Evt("BARRIER")
      OBVIOUS
    <3>2. x \in Event /\ x.kind = "BARRIER"
      BY <3>1, EvtFacts DEF IInv, Kind
    <3>3. PICK g : g = b.generation + 1
      OBVIOUS
    <3>4. e = [x EXCEPT !.op = o, !.generation = g] /\ g \in Nat
      BY <3>1, <3>3, OpenFacts DEF Barrier
    <3> HIDE DEF e
    <3>5. PICK y : y = [x EXCEPT !.op = o]
      OBVIOUS
    <3>6. y \in Event /\ y.kind = "BARRIER" /\ y.op = o
      BY <3>2, <3>5 DEF Event
    <3>7. e = [y EXCEPT !.generation = g]
      BY <3>2, <3>4, <3>5 DEF Event
    <3> QED
      BY <3>4, <3>6, <3>7 DEF Event
  <2> HIDE DEF e
  <2>3. Fits(e)
    BY <2>2 DEF Fits, Follows, MayFollow, Suits, Plain
  <2>4. PICK a : a = After(c, r)
    OBVIOUS
  <2>5. /\ IsMem(a) /\ a.events = r.events /\ a.failed = r.failed
        /\ a.state = (IF r.ok THEN c.state ELSE "RECOVERY_REQUIRED")
        /\ a.generation = c.generation /\ a.expiry = c.expiry /\ a.permit = c.permit
        /\ a.consumed = c.consumed /\ a.lock = c.lock /\ a.count = c.count /\ a.ops = c.ops
    <3>1. IsMem(c)
      BY <1>3
    <3> QED
      BY ONLY <2>4, <3>1, AfterFields, ZenonT(40)
  <2>6. PICK m : m = [a EXCEPT !.ops[o] = IF r.ok THEN "PENDING" ELSE @]
    OBVIOUS
  <2>7. a.ops = [p \in Op |-> a.ops[p]]
    BY <1>3, <2>5 DEF IInv, OpsInv
  <2>8. /\ IsMem(m) /\ m.events = a.events /\ m.failed = a.failed /\ m.generation = a.generation
        /\ m.expiry = a.expiry /\ m.permit = a.permit /\ m.lock = a.lock /\ m.count = a.count
        /\ m.consumed = a.consumed /\ m.state = a.state
        /\ m.ops = [p \in Op |-> m.ops[p]]
        /\ m.ops[o] = (IF r.ok THEN "PENDING" ELSE a.ops[o])
        /\ \A p \in Op : p # o => m.ops[p] = a.ops[p]
    <3>1. PICK v : v = IF r.ok THEN "PENDING" ELSE a.ops[o]
      OBVIOUS
    <3>2. IsMem(a) /\ m = Answered(a, o, v)
      BY <2>5, <2>6, <3>1 DEF Answered
    <3>3. /\ IsMem(m) /\ m.events = a.events /\ m.failed = a.failed /\ m.generation = a.generation
          /\ m.expiry = a.expiry /\ m.permit = a.permit /\ m.lock = a.lock /\ m.count = a.count
          /\ m.consumed = a.consumed /\ m.state = a.state
          /\ m.ops = [p \in Op |-> m.ops[p]]
          /\ m.ops[o] = v
          /\ \A p \in Op : p # o => m.ops[p] = a.ops[p]
      BY ONLY <2>7, <3>2, o \in Op, OpsField
    <3> QED
      BY <3>1, <3>3
  <2>9. OpsAfter(m, e, r)
    BY <1>1, <1>3, <2>2, <2>5, <2>8 DEF OpsAfter
  <2>10. FlagsAfter(m, e, r)
    BY <1>3, <2>2, <2>5, <2>8, OpenFacts DEF FlagsAfter
  <2>11. b' = m
    BY <2>1, <2>4, <2>6
  <2> QED
    BY <1>1, <1>3, <1>4, <2>1, <2>2, <2>3, <2>5, <2>8, <2>9, <2>10, <2>11, Recorded
<1>6. ASSUME b' = Fenced(b), UNCHANGED <<file, w>>
      PROVE  IInv'
  <2>1. b' = c
    BY <1>2, <1>6
  <2>2. SentInv' /\ LiabilityFloor'
    BY <1>1, <1>3, <1>6, <2>1 DEF IInv, SentInv, LiabilityFloor
  <2> QED
    BY <1>1, <1>3, <1>4, <1>6, <2>1, <2>2, Quiet, OpenFacts
<1> QED
  BY <1>5, <1>6 DEF Invalidate

\* The first disposition: with coverage the memory has not lost an earlier one.
LEMMA DisposeStep ==
  ASSUME IInv, NEW o \in Op, NEW outcome \in Settled, Dispose(o, outcome)
  PROVE  IInv'
<1> DEFINE e == Disposed(o, outcome)
<1>1. PICK r \in Appended(e) : Stored(r) /\ b' = [After(b, r) EXCEPT !.ops[o] = IF r.ok THEN outcome ELSE @]
  BY DEF Dispose
<1>2. e \in Event /\ e.kind = "DISPOSITION" /\ e.op = o /\ e.outcome = outcome
  <2>1. PICK x : x = Evt("DISPOSITION")
    OBVIOUS
  <2>2. x \in Event /\ x.kind = "DISPOSITION"
    BY <2>1, EvtFacts DEF IInv, Kind
  <2>3. e = [x EXCEPT !.op = o, !.outcome = outcome]
    BY <2>1 DEF Disposed
  <2> HIDE DEF e
  <2>4. PICK y : y = [x EXCEPT !.op = o]
    OBVIOUS
  <2>5. y \in Event /\ y.kind = "DISPOSITION" /\ y.op = o
    BY <2>2, <2>4 DEF Event
  <2>6. e = [y EXCEPT !.outcome = outcome]
    BY <2>2, <2>3, <2>4 DEF Event
  <2> QED
    BY <2>5, <2>6 DEF Event, Disposition, Settled
<1> HIDE DEF e
<1>3. b.ops[o] = "PENDING" /\ b.lock = "free" /\ UNCHANGED <<epoch, rollbacks, sent, short>>
  BY DEF Dispose, Ready
<1>4. ASSUME Coverage PROVE Fits(e)
  <2>1. HasBarrier(b.events, o)
    BY <1>3 DEF IInv, OpsInv
  <2>2. ~HasDisposition(b.events, o)
    BY <1>3, <1>4 DEF IInv, OpsInv, Coverage, Settled
  <2> QED
    BY <1>2, <2>1, <2>2 DEF Fits, Follows, MayFollow, Suits, Plain
<1>5. PICK a : a = After(b, r)
  OBVIOUS
<1>6. /\ IsMem(a) /\ a.events = r.events /\ a.failed = r.failed
      /\ a.state = IF r.ok THEN b.state ELSE "RECOVERY_REQUIRED"
      /\ a.generation = b.generation /\ a.expiry = b.expiry /\ a.permit = b.permit
      /\ a.consumed = b.consumed /\ a.lock = b.lock /\ a.count = b.count /\ a.ops = b.ops
  BY <1>5, AfterFields, OpenFacts, ZenonT(30)
<1>7. PICK m : m = [a EXCEPT !.ops[o] = IF r.ok THEN outcome ELSE @]
  OBVIOUS
<1>8. a.ops = [p \in Op |-> a.ops[p]]
  BY <1>6 DEF IInv, OpsInv
<1>9. /\ IsMem(m) /\ m.events = a.events /\ m.failed = a.failed /\ m.generation = a.generation
      /\ m.expiry = a.expiry /\ m.permit = a.permit /\ m.lock = a.lock /\ m.count = a.count
      /\ m.consumed = a.consumed /\ m.state = a.state
      /\ m.ops = [p \in Op |-> m.ops[p]]
      /\ m.ops[o] = (IF r.ok THEN outcome ELSE a.ops[o])
      /\ \A p \in Op : p # o => m.ops[p] = a.ops[p]
  <2>1. PICK v : v = IF r.ok THEN outcome ELSE a.ops[o]
    OBVIOUS
  <2>2. IsMem(a) /\ m = Answered(a, o, v)
    BY <1>6, <1>7, <2>1 DEF Answered
  <2>3. /\ IsMem(m) /\ m.events = a.events /\ m.failed = a.failed /\ m.generation = a.generation
        /\ m.expiry = a.expiry /\ m.permit = a.permit /\ m.lock = a.lock /\ m.count = a.count
        /\ m.consumed = a.consumed /\ m.state = a.state
        /\ m.ops = [p \in Op |-> m.ops[p]]
        /\ m.ops[o] = v
        /\ \A p \in Op : p # o => m.ops[p] = a.ops[p]
    BY ONLY <1>8, <2>2, o \in Op, OpsField
  <2> QED
    BY <2>1, <2>3
<1>10. OpsAfter(m, e, r)
  BY <1>2, <1>3, <1>6, <1>9 DEF OpsAfter
<1>11. FlagsAfter(m, e, r)
  BY <1>2, <1>6, <1>9, OpenFacts DEF FlagsAfter
<1>12. b' = m
  BY <1>1, <1>5, <1>7
<1> QED
  BY <1>1, <1>2, <1>3, <1>4, <1>6, <1>9, <1>10, <1>11, <1>12, Recorded, OpenFacts

\* A change of the memory that loses and claims nothing.
LEMMA Harmless ==
  ASSUME IInv, UNCHANGED <<file, w, epoch, sent, short>>,
         NEW m, b' = m, IsMem(m), m.events = b.events, m.failed = b.failed, m.generation = b.generation, m.ops = b.ops,
         m.expiry # "none" => b.expiry # "none", m.permit = b.permit, m.lock = b.lock, m.count = b.count,
         m.consumed = b.consumed, m.state = "OPEN" => b.state = "OPEN"
  PROVE  IInv'
<1>1. SentInv' /\ LiabilityFloor'
  BY DEF IInv, SentInv, LiabilityFloor
<1> QED
  BY <1>1, Quiet, OpenFacts

LEMMA HarmlessSteps ==
  ASSUME IInv,
         \/ Prepare \/ Prepared \/ PrepareFails \/ TicketFor \/ Receive \/ ReceiveFails
         \/ Deadline \/ ExpireGivesUp \/ (\E o \in Op : InvalidateConflict(o)) \/ WitnessLost
  PROVE  IInv'
<1> DEFINE Same(m) ==
      /\ IsMem(m) /\ m.events = b.events /\ m.failed = b.failed /\ m.generation = b.generation /\ m.ops = b.ops
      /\ m.permit = b.permit /\ m.lock = b.lock /\ m.count = b.count /\ m.consumed = b.consumed
      /\ m.expiry # "none" => b.expiry # "none"
      /\ m.state = "OPEN" => b.state = "OPEN"
<1>1. IsMem(b)
  BY OpenFacts
<1>2. UNCHANGED <<file, w, epoch, sent, short>>
  BY DEF Prepare, Prepared, PrepareFails, TicketFor, Receive, ReceiveFails, Deadline, ExpireGivesUp,
         InvalidateConflict, WitnessLost
<1>3. \E m : b' = m /\ Same(m)
  <2>1. CASE Prepare
    <3>1. PICK m : m = [b EXCEPT !.request = "marked", !.preparing = TRUE]
      OBVIOUS
    <3>2. Same(m)
      BY <1>1, <3>1 DEF IsMem, Field
    <3> QED
      BY <2>1, <3>1, <3>2 DEF Prepare
  <2>2. CASE Prepared
    <3>1. PICK m : m = [b EXCEPT !.preparing = FALSE, !.socket = TRUE, !.request = "ready"]
      OBVIOUS
    <3>2. Same(m)
      BY <1>1, <3>1 DEF IsMem, Field
    <3>3. PICK n : n = [b EXCEPT !.preparing = FALSE]
      OBVIOUS
    <3>4. Same(n)
      BY <1>1, <3>3 DEF IsMem, Field
    <3>5. b' = m \/ b' = n
      BY <2>2, <3>1, <3>3 DEF Prepared
    <3> QED
      BY <3>2, <3>4, <3>5
  <2>3. CASE PrepareFails
    <3>1. PICK m : m = [b EXCEPT !.preparing = FALSE]
      OBVIOUS
    <3>2. Same(m)
      BY <1>1, <3>1 DEF IsMem, Field
    <3> QED
      BY <2>3, <3>1, <3>2 DEF PrepareFails
  <2>4. CASE TicketFor
    <3>1. PICK m : m = [b EXCEPT !.ticket = b.generation]
      OBVIOUS
    <3>2. Same(m)
      BY <1>1, <3>1 DEF IsMem, Field
    <3> QED
      BY <2>4, <3>1, <3>2 DEF TicketFor
  <2>5. CASE Receive
    <3>1. PICK m : m = [b EXCEPT !.readStarted = TRUE, !.receiving = "waiting"]
      OBVIOUS
    <3>2. Same(m)
      BY <1>1, <3>1 DEF IsMem, Field
    <3> QED
      BY <2>5, <3>1, <3>2 DEF Receive
  <2>6. CASE ReceiveFails
    <3>1. PICK m : m = [b EXCEPT !.receiving = "ending"]
      OBVIOUS
    <3>2. Same(m)
      BY <1>1, <3>1 DEF IsMem, Field
    <3> QED
      BY <2>6, <3>1, <3>2 DEF ReceiveFails
  <2>7. CASE Deadline
    <3>1. PICK m : m = [b EXCEPT !.expiry = "due"]
      OBVIOUS
    <3>2. b.expiry # "none"
      BY <2>7 DEF Deadline
    <3>3. Same(m)
      BY <1>1, <3>1, <3>2 DEF IsMem, Field
    <3> QED
      BY <2>7, <3>1, <3>3 DEF Deadline
  <2>8. CASE ExpireGivesUp
    <3>1. PICK m : m = [b EXCEPT !.expiry = "done"]
      OBVIOUS
    <3>2. b.expiry # "none"
      BY <2>8 DEF ExpireGivesUp
    <3>3. Same(m)
      BY <1>1, <3>1, <3>2 DEF IsMem, Field
    <3> QED
      BY <2>8, <3>1, <3>3 DEF ExpireGivesUp
  <2>9. CASE \E o \in Op : InvalidateConflict(o)
    <3>1. PICK m : m = [b EXCEPT !.state = "RECOVERY_REQUIRED"]
      OBVIOUS
    <3>2. Same(m)
      BY <1>1, <3>1 DEF IsMem, Field
    <3> QED
      BY <2>9, <3>1, <3>2 DEF InvalidateConflict
  <2>10. CASE WitnessLost
    <3>1. PICK m : m = [b EXCEPT !.wire = FALSE]
      OBVIOUS
    <3>2. Same(m)
      BY <1>1, <3>1 DEF IsMem, Field
    <3> QED
      BY <2>10, <3>1, <3>2 DEF WitnessLost
  <2> QED
    BY <2>1, <2>2, <2>3, <2>4, <2>5, <2>6, <2>7, <2>8, <2>9, <2>10
<1> QED
  BY <1>2, <1>3, Harmless

\* The one send, after the one intent.
LEMMA WriteSendStep ==
  ASSUME IInv, WriteSend
  PROVE  IInv'
<1>1. b.lock = "intent" /\ UNCHANGED <<file, w, epoch, rollbacks, short>> /\ IsMem(b) /\ b.generation \in Nat
  BY OpenFacts DEF WriteSend
<1>2. sent = 0 /\ "INTENT" \in Kinds(b.events)
  BY <1>1, OpenFacts DEF IInv, SentInv
<1>3. SentInv' \/ b'.lock = "intent"
  <2>1. CASE Current /\ sent' = sent + 1
    BY <1>1, <1>2, <2>1 DEF Current, Open, Coverage, SentInv
  <2>2. CASE UNCHANGED sent
    BY <1>1, <1>2, <2>2 DEF IInv, SentInv
  <2> QED
    BY <2>1, <2>2 DEF WriteSend
<1>4. \E m : /\ b' = m /\ IsMem(m) /\ m.events = b.events /\ m.failed = b.failed /\ m.generation = b.generation
             /\ m.ops = b.ops /\ m.expiry = b.expiry /\ m.permit = b.permit /\ m.consumed = b.consumed
             /\ m.lock = "written" /\ m.state \in {b.state, "RECOVERY_REQUIRED"}
  <2>1. ASSUME NEW count, b' = [b EXCEPT !.lock = "written", !.count = count]
        PROVE  <1>4!:
    <3>1. PICK m : m = [b EXCEPT !.lock = "written", !.count = count]
      OBVIOUS
    <3>2. /\ IsMem(m) /\ m.events = b.events /\ m.failed = b.failed /\ m.generation = b.generation
          /\ m.ops = b.ops /\ m.expiry = b.expiry /\ m.permit = b.permit /\ m.consumed = b.consumed
          /\ m.lock = "written" /\ m.state = b.state
      BY <1>1, <3>1 DEF IsMem, Field
    <3> QED
      BY <2>1, <3>1, <3>2
  <2>2. ASSUME NEW count, b' = CloseSocket([b EXCEPT !.lock = "written", !.count = count, !.state = "RECOVERY_REQUIRED"])
        PROVE  <1>4!:
    <3>1. PICK x : x = [b EXCEPT !.lock = "written", !.count = count, !.state = "RECOVERY_REQUIRED"]
      OBVIOUS
    <3>2. PICK m : m = [x EXCEPT !.socket = FALSE]
      OBVIOUS
    <3>3. /\ IsMem(x) /\ x.events = b.events /\ x.failed = b.failed /\ x.generation = b.generation
          /\ x.ops = b.ops /\ x.expiry = b.expiry /\ x.permit = b.permit /\ x.consumed = b.consumed
          /\ x.lock = "written" /\ x.state = "RECOVERY_REQUIRED"
      BY <1>1, <3>1 DEF IsMem, Field
    <3>4. /\ IsMem(m) /\ m.events = x.events /\ m.failed = x.failed /\ m.generation = x.generation
          /\ m.ops = x.ops /\ m.expiry = x.expiry /\ m.permit = x.permit /\ m.consumed = x.consumed
          /\ m.lock = x.lock /\ m.state = x.state
      BY <3>2, <3>3 DEF IsMem, Field
    <3>5. b' = m
      BY <2>2, <3>1, <3>2 DEF CloseSocket
    <3> QED
      BY <3>3, <3>4, <3>5
  <2>3. ASSUME b' = CloseSocket([b EXCEPT !.lock = "written", !.state = "RECOVERY_REQUIRED"])
        PROVE  <1>4!:
    <3>1. PICK x : x = [b EXCEPT !.lock = "written", !.state = "RECOVERY_REQUIRED"]
      OBVIOUS
    <3>2. PICK m : m = [x EXCEPT !.socket = FALSE]
      OBVIOUS
    <3>3. /\ IsMem(x) /\ x.events = b.events /\ x.failed = b.failed /\ x.generation = b.generation
          /\ x.ops = b.ops /\ x.expiry = b.expiry /\ x.permit = b.permit /\ x.consumed = b.consumed
          /\ x.lock = "written" /\ x.state = "RECOVERY_REQUIRED"
      BY <1>1, <3>1 DEF IsMem, Field
    <3>4. /\ IsMem(m) /\ m.events = x.events /\ m.failed = x.failed /\ m.generation = x.generation
          /\ m.ops = x.ops /\ m.expiry = x.expiry /\ m.permit = x.permit /\ m.consumed = x.consumed
          /\ m.lock = x.lock /\ m.state = x.state
      BY <3>2, <3>3 DEF IsMem, Field
    <3>5. b' = m
      BY <2>3, <3>1, <3>2 DEF CloseSocket
    <3> QED
      BY <3>3, <3>4, <3>5
  <2>4. \/ \E count \in {"none", "partial", "full"} :
             \/ b' = [b EXCEPT !.lock = "written", !.count = count]
             \/ b' = CloseSocket([b EXCEPT !.lock = "written", !.count = count, !.state = "RECOVERY_REQUIRED"])
        \/ b' = CloseSocket([b EXCEPT !.lock = "written", !.state = "RECOVERY_REQUIRED"])
    BY DEF WriteSend
  <2> QED
    BY <2>1, <2>2, <2>3, <2>4
<1>5. LiabilityFloor'
  BY <1>1 DEF IInv, LiabilityFloor
<1> QED
  BY <1>1, <1>3, <1>4, <1>5, Quiet

-----------------------------------------------------------------------------
(* Snapshots and failures                                                  *)

LEMMA LiabilityNat ==
  ASSUME NEW s \in Seq(Event)
  PROVE  /\ Liability(s) \in Nat
         /\ "BINDING" \in Kinds(s) => Liability(s) >= Reserved
<1> DEFINE finals == {i \in 1 .. Len(s) : s[i].kind = "FINAL_USAGE"}
           bound == IF "BINDING" \in Kinds(s) THEN Reserved ELSE 0
           u == s[CHOOSE i \in finals : TRUE].usage
<1>1. bound \in Nat /\ ("BINDING" \in Kinds(s) => bound = Reserved) /\ Reserved \in Nat
  BY BrokerAssumption
<1>2. finals # {} => u \in Nat
  BY SeqFacts DEF Event
<1>3. Liability(s) = IF finals = {} THEN bound ELSE Larger(bound, u)
  BY DEF Liability
<1> HIDE DEF finals, bound, u
<1> QED
  BY <1>1, <1>2, <1>3 DEF Larger

\* What is written was bound before.
LEMMA IntentBound ==
  ASSUME NEW s \in Seq(Event), Readable(s), "INTENT" \in Kinds(s)
  PROVE  "BINDING" \in Kinds(s)
<1>1. PICK n \in Nat : n = Len(s)
  BY SeqFacts
<1>2. PICK k \in 1 .. n : s[k].kind = "INTENT"
  BY <1>1 DEF Kinds
<1>3. PICK j \in 1 .. k - 1 : s[j].kind = "PERMIT"
  BY <1>1, <1>2 DEF Readable, Before
<1>4. j \in 1 .. n
  BY <1>2
<1>5. PICK i \in 1 .. j - 1 : s[i].kind = "BINDING"
  BY <1>1, <1>3, <1>4 DEF Readable, Before
<1>6. i \in 1 .. n
  BY <1>4
<1> QED
  BY <1>1, <1>5, <1>6 DEF Kinds

LEMMA SnapshotStep ==
  ASSUME IInv, Snapshot
  PROVE  IInv'
<1>1. UNCHANGED <<file, w, epoch, rollbacks, sent>> /\ IsMem(b) /\ b.generation \in Nat
  BY OpenFacts DEF Snapshot
<1>2. PICK m : m = [b EXCEPT !.state = IF Coverage THEN @ ELSE "RECOVERY_REQUIRED"]
  OBVIOUS
<1>3. b' = m
  BY <1>2 DEF Snapshot
<1>4. /\ IsMem(m) /\ m.events = b.events /\ m.failed = b.failed /\ m.generation = b.generation /\ m.ops = b.ops
      /\ m.expiry = b.expiry /\ m.permit = b.permit /\ m.lock = b.lock /\ m.count = b.count
      /\ m.consumed = b.consumed /\ m.state \in {b.state, "RECOVERY_REQUIRED"}
  BY <1>1, <1>2 DEF IsMem, Field
<1>5. SentInv'
  BY <1>1, <1>3, <1>4 DEF IInv, SentInv
<1>6. LiabilityFloor'
  <2>1. SUFFICES ASSUME b.wire, sent > 0 PROVE ~(Floor < Larger(Reserved, Liability(w)))
    BY DEF Snapshot, IInv, LiabilityFloor
  <2>2. Readable(w) /\ w \in Seq(Event) /\ b.events \in Seq(Event) /\ sent = 1
    BY <2>1 DEF IInv, TypeInv, SentInv
  <2>3. "BINDING" \in Kinds(w)
    BY <2>2, IntentBound DEF IInv, SentInv
  <2>4. PICK x \in Nat, y \in Nat : x = Liability(b.events) /\ y = Liability(w) /\ y >= Reserved
    BY <2>2, <2>3, LiabilityNat
  <2>5. Floor = Larger(x, y)
    BY <2>1, <2>2, <2>4 DEF Floor
  <2> QED
    BY <2>4, <2>5, BrokerAssumption DEF Larger
<1> QED
  BY <1>1, <1>3, <1>4, <1>5, <1>6, Quiet

\* A start from any journal whose events are in order.
LEMMA FreshMemory ==
  ASSUME IInv, UNCHANGED <<file, w, sent, short>>, epoch' \in 1 .. MaxEpoch,
         NEW f, f.events \in Seq(Event), WellFormed(f.events), NEW m, IsMem(m), b' = m,
         m.events = f.events, m.generation \in Nat, m.state = "RECOVERY_REQUIRED", m.expiry = "none",
         m.lock = "free", m.count = "none", m.permit # NoPermit => "PERMIT" \in Kinds(f.events),
         "INTENT" \in Kinds(f.events) => m.consumed, m.ops = [o \in Op |-> m.ops[o]],
         \A o \in Op : m.ops[o] # "NONE" => HasBarrier(f.events, o),
         \A o \in Op : HasDisposition(f.events, o) => m.ops[o] \in Settled
  PROVE  IInv'
<1> USE DEF IInv
<1>1. TypeInv'
  BY DEF TypeInv
<1>2. JournalInv' /\ Readable(w)' /\ BarrierFences'
  BY DEF JournalInv, BarrierFences
<1>3. MemoryInv' /\ EventsInv' /\ OpsInv'
  BY DEF MemoryInv, EventsInv, OpsInv
<1>4. SentInv' /\ LiabilityFloor'
  BY DEF SentInv, LiabilityFloor
<1> QED
  BY <1>1, <1>2, <1>3, <1>4

LEMMA EmptyFileFacts == EmptyFile.events = << >> /\ << >> \in Seq(Event) /\ WellFormed(<< >>) /\ Kinds(<< >>) = {}
BY DEF EmptyFile, WellFormed, Kinds

LEMMA CrashStep ==
  ASSUME IInv, Crash
  PROVE  IInv'
<1>1. PICK f : f = EmptyFile
  OBVIOUS
<1>2. f.events = << >> /\ f.events \in Seq(Event) /\ WellFormed(f.events)
  BY <1>1, EmptyFileFacts
<1>3. PICK s : s = Started(f)
  OBVIOUS
<1>4. /\ IsMem(s) /\ s.events = f.events /\ s.state = "RECOVERY_REQUIRED" /\ s.expiry = "none" /\ s.lock = "free"
      /\ s.count = "none" /\ s.generation \in Nat /\ (s.permit # NoPermit => "PERMIT" \in Kinds(f.events))
      /\ "INTENT" \in Kinds(f.events) => s.consumed
      /\ s.ops = [o \in Op |-> s.ops[o]]
      /\ \A o \in Op : s.ops[o] # "NONE" => HasBarrier(f.events, o)
      /\ \A o \in Op : HasDisposition(f.events, o) => s.ops[o] \in Settled
  BY <1>2, <1>3, StartedFacts
<1>5. PICK m : m = [s EXCEPT !.up = FALSE]
  OBVIOUS
<1>6. /\ IsMem(m) /\ m.events = s.events /\ m.state = s.state /\ m.expiry = s.expiry /\ m.lock = s.lock
      /\ m.count = s.count /\ m.generation = s.generation /\ m.permit = s.permit
      /\ m.consumed = s.consumed /\ m.ops = s.ops
  BY <1>4, <1>5 DEF IsMem, Field
<1>7. b' = m /\ UNCHANGED <<file, w, sent, short>> /\ epoch' \in 1 .. MaxEpoch
  BY <1>1, <1>3, <1>5 DEF Crash, IInv, TypeInv
<1> QED
  BY <1>2, <1>4, <1>6, <1>7, FreshMemory, ZenonT(30)

LEMMA RestartStep ==
  ASSUME IInv, Restart
  PROVE  IInv'
<1>1. file.events \in Seq(Event) /\ WellFormed(file.events)
  BY DEF IInv, TypeInv, JournalInv
<1>2. PICK f : f = file
  OBVIOUS
<1>3. PICK s : s = Started(f)
  OBVIOUS
<1>4. /\ IsMem(s) /\ s.events = f.events /\ s.state = "RECOVERY_REQUIRED" /\ s.expiry = "none" /\ s.lock = "free"
      /\ s.count = "none" /\ s.generation \in Nat /\ (s.permit # NoPermit => "PERMIT" \in Kinds(f.events))
      /\ "INTENT" \in Kinds(f.events) => s.consumed
      /\ s.ops = [o \in Op |-> s.ops[o]]
      /\ \A o \in Op : s.ops[o] # "NONE" => HasBarrier(f.events, o)
      /\ \A o \in Op : HasDisposition(f.events, o) => s.ops[o] \in Settled
  BY <1>1, <1>2, <1>3, StartedFacts
<1>5. epoch' \in 1 .. MaxEpoch
  BY BrokerAssumption DEF Restart, IInv, TypeInv
<1>6. b' = s /\ UNCHANGED <<file, w, sent, short>>
  BY <1>2, <1>3 DEF Restart
<1> QED
  BY <1>1, <1>2, <1>4, <1>5, <1>6, FreshMemory

\* A prefix of a journal is a journal.
LEMMA RollBackStep ==
  ASSUME IInv, RollBackJournal
  PROVE  IInv'
<1> USE DEF IInv
<1>1. PICK n \in 0 .. Len(file.events), a \in 0 .. file.acks :
        file' = [events |-> SubSeq(file.events, 1, n), acks |-> a, torn |-> FALSE]
  BY DEF RollBackJournal
<1>2. UNCHANGED <<w, b, epoch, sent, short>>
  BY DEF RollBackJournal
<1>3. file.events \in Seq(Event) /\ Len(file.events) \in Nat /\ file.acks \in Nat /\ Len(w) \in Nat
  BY SeqFacts DEF TypeInv
<1>4. PICK s : s = SubSeq(file.events, 1, n)
  OBVIOUS
<1>5. n \in Nat /\ a \in Nat /\ n <= Len(file.events)
  BY <1>3
<1>6. s \in Seq(Event) /\ Len(s) = n /\ \A i \in 1 .. n : s[i] = file.events[i]
  <2>1. \A i \in 1 .. n : i \in 1 .. Len(file.events)
    BY <1>3, <1>5
  <2>2. s \in Seq(Event) /\ Len(s) = (IF 1 <= n THEN n - 1 + 1 ELSE 0)
        /\ \A i \in 1 .. n - 1 + 1 : s[i] = file.events[1 + i - 1]
    BY <1>3, <1>4, <1>5, <2>1, SubSeqProperties
  <2> QED
    BY <1>5, <2>2
<1>7. file'.events = s /\ file' \in [events : Seq(Event), acks : Nat, torn : BOOLEAN]
  BY <1>1, <1>4, <1>5, <1>6
<1>8. TypeInv'
  BY <1>2, <1>7 DEF TypeInv
<1>9. WellFormed(s)
  <2>1. \A i \in 1 .. n : i \in 1 .. Len(file.events) /\ \A j \in 1 .. Len(file.events) : j < i => j \in 1 .. n
    BY <1>3, <1>5
  <2> QED
    BY SMTT(30), <1>6, <2>1 DEF JournalInv, WellFormed
<1>10. JournalInv'
  <2>1. n <= Len(w) + 1 /\ \A i \in 1 .. n : i \in 1 .. Len(file.events)
    BY <1>3, <1>5 DEF JournalInv
  <2> QED
    BY <1>2, <1>6, <1>7, <1>9, <2>1 DEF JournalInv
<1>11. Readable(w)' /\ BarrierFences' /\ LiabilityFloor' /\ SentInv'
  BY <1>2 DEF BarrierFences, LiabilityFloor, SentInv
<1>12. MemoryInv' /\ EventsInv' /\ OpsInv'
  BY <1>2 DEF MemoryInv, EventsInv, OpsInv
<1> QED
  BY <1>8, <1>10, <1>11, <1>12

-----------------------------------------------------------------------------
(* Theorems                                                                *)

LEMMA InitInv == Init => IInv
<1> SUFFICES ASSUME Init PROVE IInv
  OBVIOUS
<1>1. PICK f : f = EmptyFile
  OBVIOUS
<1>2. f.events = << >> /\ f.events \in Seq(Event) /\ WellFormed(f.events) /\ Kinds(f.events) = {}
  BY <1>1, EmptyFileFacts
<1>3. b = Started(f)
  BY <1>1 DEF Init
<1>4. /\ IsMem(b) /\ b.events = f.events /\ b.state = "RECOVERY_REQUIRED" /\ b.expiry = "none" /\ b.lock = "free"
      /\ b.count = "none" /\ b.generation \in Nat /\ (b.permit # NoPermit => "PERMIT" \in Kinds(f.events))
      /\ b.ops = [o \in Op |-> b.ops[o]]
      /\ \A o \in Op : b.ops[o] # "NONE" => HasBarrier(f.events, o)
      /\ \A o \in Op : HasDisposition(f.events, o) => b.ops[o] \in Settled
  BY <1>2, <1>3, StartedFacts
<1>5. file = f /\ w = << >> /\ epoch = 1 /\ sent = 0 /\ short = FALSE
  BY <1>1 DEF Init
<1>6. TypeInv
  BY <1>1, <1>2, <1>4, <1>5, BrokerAssumption DEF TypeInv, EmptyFile
<1>7. JournalInv /\ Readable(w) /\ BarrierFences
  BY <1>2, <1>5 DEF JournalInv, Readable, AtMostOnce, Before, BarrierFences
<1>8. MemoryInv /\ EventsInv /\ OpsInv
  BY <1>2, <1>4 DEF MemoryInv, EventsInv, OpsInv
<1>9. SentInv /\ LiabilityFloor
  BY <1>4, <1>5 DEF SentInv, LiabilityFloor
<1> QED
  BY <1>6, <1>7, <1>8, <1>9 DEF IInv

LEMMA StepInv == IInv /\ [Next]_vars => IInv'
<1> SUFFICES ASSUME IInv, [Next]_vars PROVE IInv'
  OBVIOUS
<1>1. CASE Bootstrap \/ Bind \/ Authorize
  BY <1>1, BootstrapStep, BindStep, AuthorizeStep
<1>2. CASE WriteIntent \/ WriteSend \/ WriteRecord
  BY <1>2, WriteIntentStep, WriteSendStep, WriteRecordStep
<1>3. CASE Response \/ FinalUsage
  BY <1>3, ResponseStep, FinalUsageStep
<1>4. CASE ReceiveFinally \/ CloseCall \/ Expire
  BY <1>4, EndSteps
<1>5. CASE \/ Prepare \/ Prepared \/ PrepareFails \/ TicketFor \/ Receive \/ ReceiveFails
           \/ Deadline \/ ExpireGivesUp \/ (\E o \in Op : InvalidateConflict(o)) \/ WitnessLost
  BY <1>5, HarmlessSteps
<1>6. CASE \E o \in Op : Invalidate(o)
  BY <1>6, InvalidateStep
<1>7. CASE \E o \in Op : \E outcome \in {"COMMITTED", "ROLLED_BACK"} : Dispose(o, outcome)
  BY <1>7, DisposeStep DEF Settled
<1>8. CASE Snapshot
  BY <1>8, SnapshotStep
<1>9. CASE Crash \/ Restart \/ RollBackJournal
  BY <1>9, CrashStep, RestartStep, RollBackStep
<1>10. CASE UNCHANGED vars
  <2>1. UNCHANGED <<file, w, b, epoch, sent, short>>
    BY <1>10 DEF vars
  <2> QED
    BY <2>1 DEF IInv, TypeInv, JournalInv, BarrierFences, MemoryInv, EventsInv, OpsInv, SentInv, LiabilityFloor
<1> QED
  BY <1>1, <1>2, <1>3, <1>4, <1>5, <1>6, <1>7, <1>8, <1>9, <1>10 DEF Next

\* The invariant holds in every life of the broker.
THEOREM Invariance == Spec => []IInv
BY InitInv, StepInv, PTL DEF Spec

\* Sequences that agree as far as both go: one is a prefix of the other.
LEMMA PrefixOf ==
  ASSUME NEW s \in Seq(Event), NEW t \in Seq(Event), Len(s) <= Len(t), \A i \in 1 .. Len(s) : s[i] = t[i]
  PROVE  IsPrefixOf(s, t)
<1>1. Len(s) \in Nat /\ Len(t) \in Nat
  BY SeqFacts
<1>2. PICK n \in Nat : n = Len(s)
  BY <1>1
<1>3. PICK u : u = SubSeq(t, 1, n)
  OBVIOUS
<1>4. u \in Seq(Event) /\ Len(u) = n /\ \A i \in 1 .. n : u[i] = t[i]
  <2>1. \A i \in 1 .. n : i \in 1 .. Len(t)
    BY <1>1, <1>2
  <2>2. u \in Seq(Event) /\ Len(u) = (IF 1 <= n THEN n - 1 + 1 ELSE 0)
        /\ \A i \in 1 .. n - 1 + 1 : u[i] = t[1 + i - 1]
    BY <1>2, <1>3, <2>1, SubSeqProperties
  <2> QED
    BY <2>2
<1>5. s = u
  BY <1>2, <1>4, SeqEqual
<1> QED
  BY <1>2, <1>3, <1>5 DEF IsPrefixOf

\* The provider is written to at most once, whatever is killed or restored,
\* and never before the witness has the intent.
THEOREM WrittenOnce == Spec => []WriteOnce
<1>1. IInv => WriteOnce
  BY DEF IInv, SentInv, WriteOnce
<1> QED
  BY <1>1, Invariance, PTL

\* The journal and the witness never fork.
THEOREM NeverForks == Spec => []NoFork
<1>1. IInv => NoFork
  <2> SUFFICES ASSUME IInv PROVE NoFork
    OBVIOUS
  <2>1. file.events \in Seq(Event) /\ w \in Seq(Event) /\ Len(file.events) \in Nat /\ Len(w) \in Nat
    BY SeqFacts DEF IInv, TypeInv
  <2>2. Len(file.events) <= Len(w) + 1 /\ \A i \in 1 .. Len(file.events) : i <= Len(w) => file.events[i] = w[i]
    BY DEF IInv, JournalInv
  <2>3. CASE Len(file.events) <= Len(w)
    <3>1. \A i \in 1 .. Len(file.events) : file.events[i] = w[i]
      BY <2>1, <2>2, <2>3
    <3>2. IsPrefixOf(file.events, w)
      BY <2>1, <2>3, <3>1, PrefixOf
    <3> QED
      BY <2>2, <3>2 DEF NoFork, IInv
  <2>4. CASE Len(w) <= Len(file.events)
    <3>1. \A i \in 1 .. Len(w) : w[i] = file.events[i]
      BY <2>1, <2>2, <2>4
    <3>2. IsPrefixOf(w, file.events)
      BY <2>1, <2>4, <3>1, PrefixOf
    <3> QED
      BY <2>2, <3>2 DEF NoFork, IInv
  <2> QED
    BY <2>1, <2>3, <2>4
<1> QED
  BY <1>1, Invariance, PTL

\* Nothing of a call follows an invalidation that the witness holds, and an
\* invalidation is disposed of one way only.
THEOREM InvalidationFences == Spec => []BarrierFences
<1>1. IInv => BarrierFences
  BY DEF IInv
<1> QED
  BY <1>1, Invariance, PTL

\* No snapshot reports less than the witness can prove of a written call.
THEOREM SnapshotsCover == Spec => []LiabilityFloor
<1>1. IInv => LiabilityFloor
  BY DEF IInv
<1> QED
  BY <1>1, Invariance, PTL
=============================================================================
