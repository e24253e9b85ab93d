------------------------------- MODULE Broker -------------------------------
(***************************************************************************)
(* The W3 broker B: the process that owns the provider connection of one   *)
(* call, its private journal J, and the append-only witness W elsewhere.   *)
(* B may be killed between any two steps and started again; J may be put   *)
(* back to an earlier prefix (a restored disk); the link to W may fail.    *)
(* W alone never goes back.                                                *)
(*                                                                         *)
(* Controller calls arrive in any order, from up to four threads.  Every   *)
(* section under the lock A is one step, except that write is several, so  *)
(* that a crash or a lost journal can fall between its intent, its send    *)
(* and its record.  Records are their kind and the few fields the code     *)
(* tells apart; the hash chain of J and W is equality of sequences.        *)
(***************************************************************************)
EXTENDS Naturals, Sequences, FiniteSets

CONSTANTS
  Op,             \* invalidation operation ids
  NoOp,
  MaxOperations,  \* how many the broker remembers (64 in the code)
  Reserved,       \* tokens reserved for the call, by its binding
  Usage,          \* possible totals of a final usage report
  MaxGeneration,  \* bound on the acceptance generations of one life
  MaxEpoch,       \* bound on the starts of the broker
  MaxRollbacks    \* bound on the times J is put back

ASSUME BrokerAssumption ==
  /\ NoOp \notin Op
  /\ MaxOperations \in Nat
  /\ Reserved \in Nat \ {0}
  /\ Usage \subseteq Nat
  /\ MaxGeneration \in Nat \ {0}
  /\ MaxEpoch \in Nat \ {0} /\ MaxRollbacks \in Nat

VARIABLES
  file,       \* J on disk: its events, how many have their ack row, a torn tail?
  w,          \* the events the witness holds
  b,          \* the memory of the broker process
  epoch,      \* how often it has been started
  rollbacks,  \* how often J was put back
  sent,       \* history: socket writes that reached the provider
  short       \* history: has a snapshot reported less than W could prove?

vars == <<file, w, b, epoch, rollbacks, sent, short>>

Kind == {"BOOTSTRAP", "BINDING", "PERMIT", "INTENT", "LOCAL_WRITE",
         "PEER_RESPONSE", "FINAL_USAGE", "CLOSED", "BARRIER", "DISPOSITION"}
Disposition == {"NONE", "PENDING", "COMMITTED", "ROLLED_BACK"}
Event == [kind : Kind, op : Op \cup {NoOp}, outcome : Disposition,
          usage : Nat, epoch : 1 .. MaxEpoch, generation : Nat]

Evt(kind) == [kind |-> kind, op |-> NoOp, outcome |-> "NONE", usage |-> 0,
              epoch |-> epoch, generation |-> 0]
Permitted == [Evt("PERMIT") EXCEPT !.generation = b.generation]
Barrier(o) == [Evt("BARRIER") EXCEPT !.op = o, !.generation = b.generation + 1]
Disposed(o, outcome) == [Evt("DISPOSITION") EXCEPT !.op = o, !.outcome = outcome]

Kinds(events) == {events[i].kind : i \in 1 .. Len(events)}
SameId(d, e) == d.kind = e.kind /\ d.op = e.op /\ d.outcome = e.outcome

NoPermit == [epoch |-> 0, generation |-> 0]
Permit == [epoch : 0 .. MaxEpoch, generation : Nat]

-----------------------------------------------------------------------------
(* recovery.py: the floor that the retained events prove                   *)

Before(events, first, second) ==
  \A j \in 1 .. Len(events) : events[j].kind = second =>
    \E i \in 1 .. j - 1 : events[i].kind = first

AtMostOnce(events, kind) ==
  \A i, j \in 1 .. Len(events) : events[i].kind = kind /\ events[j].kind = kind => i = j

\* liability(events) does not raise CONFLICT.
Readable(events) ==
  /\ AtMostOnce(events, "BINDING") /\ AtMostOnce(events, "PERMIT")
  /\ Before(events, "BINDING", "PERMIT")
  /\ Before(events, "PERMIT", "INTENT")
  /\ Before(events, "INTENT", "PEER_RESPONSE")
  /\ Before(events, "PEER_RESPONSE", "FINAL_USAGE")

Larger(x, y) == IF x >= y THEN x ELSE y

\* Reserved once bound, and the final usage if that is more.
Liability(events) ==
  LET finals == {i \in 1 .. Len(events) : events[i].kind = "FINAL_USAGE"}
      bound == IF "BINDING" \in Kinds(events) THEN Reserved ELSE 0 IN
  IF finals = {} THEN bound
  ELSE Larger(bound, events[CHOOSE i \in finals : TRUE].usage)

-----------------------------------------------------------------------------
(* journal.py: Journal, Witness, Observations                              *)

\* J on disk is what the process wrote: same length, same bytes.
Intact == file = [events |-> b.events, acks |-> b.acks, torn |-> FALSE]

\* Mutant of Coverage: the witness is not asked.
CoverageLocal == ~b.failed /\ Intact /\ Len(b.events) = b.acks

\* Observations.coverage: J is whole, every event has its ack, and the status
\* W answers now is the one these events have.
Coverage ==
  /\ ~b.failed /\ Intact /\ Len(b.events) = b.acks
  /\ b.wire /\ w = b.events /\ Readable(w)

\* What an attempt to append may leave: J, W, and the memory of both.
Result(f, ww, events, acks, failed, wire, ok) ==
  [file |-> f, w |-> ww, events |-> events, acks |-> acks,
   failed |-> failed, wire |-> wire, ok |-> ok]

Unwritten(ok) == Result(file, w, b.events, b.acks, b.failed, b.wire, ok)

\* Witness.append takes an event only at the end of the chain it holds.
WitnessTakes == w = b.events

\* Observations.append.  Without coverage nothing is tried.  A known event id
\* is answered from memory.  Otherwise: J (nothing, a torn record, or all of
\* it), W (not reached, or its ack lost), the ack row in J (torn, or whole).
Appended(e) ==
  LET grown == Append(b.events, e)
      rows(acks, torn) == [events |-> grown, acks |-> acks, torn |-> torn] IN
  IF ~Coverage THEN {Unwritten(FALSE)}
  ELSE IF \E i \in 1 .. Len(b.events) : SameId(b.events[i], e) THEN {Unwritten(TRUE)}
  ELSE { Result(file, w, b.events, b.acks, TRUE, TRUE, FALSE),
         Result([file EXCEPT !.torn = TRUE], w, b.events, b.acks, TRUE, TRUE, FALSE),
         Result(rows(b.acks, FALSE), w, grown, b.acks, TRUE, FALSE, FALSE) }
       \cup
       ( IF WitnessTakes
         THEN { Result(rows(b.acks, FALSE), Append(w, e), grown, b.acks, TRUE, FALSE, FALSE),
                Result(rows(b.acks, TRUE), Append(w, e), grown, b.acks, TRUE, TRUE, FALSE),
                Result(rows(b.acks + 1, FALSE), Append(w, e), grown, b.acks + 1, FALSE, TRUE, TRUE) }
         ELSE {} )

\* The memory m after the outcome r: Broker._append closes the broker when it
\* raises.
After(m, r) ==
  [m EXCEPT !.events = r.events, !.acks = r.acks, !.failed = r.failed, !.wire = r.wire,
            !.state = IF r.ok THEN @ ELSE "RECOVERY_REQUIRED"]

Stored(r) == file' = r.file /\ w' = r.w

-----------------------------------------------------------------------------
(* Broker.__init__                                                         *)

\* What the constructor makes of the rows it finds.
Started(f) ==
  LET indices(kind) == {i \in 1 .. Len(f.events) : f.events[i].kind = kind}
      last(is) == f.events[CHOOSE i \in is : \A j \in is : j <= i] IN
  [up |-> TRUE, events |-> f.events, acks |-> f.acks, failed |-> FALSE, wire |-> TRUE,
   state |-> "RECOVERY_REQUIRED",
   generation |-> IF indices("BARRIER") = {} THEN 1 ELSE last(indices("BARRIER")).generation,
   closed |-> f.events # << >>, binding |-> "BINDING" \in Kinds(f.events),
   expiry |-> "none", ticket |-> 0,
   permit |-> IF indices("PERMIT") = {} THEN NoPermit
              ELSE [epoch |-> last(indices("PERMIT")).epoch,
                    generation |-> last(indices("PERMIT")).generation],
   consumed |-> "INTENT" \in Kinds(f.events), readStarted |-> FALSE,
   socket |-> FALSE, request |-> "none", lock |-> "free", count |-> "none",
   preparing |-> FALSE, receiving |-> "no",
   ops |-> [o \in Op |->
     LET of(kind) == {i \in indices(kind) : f.events[i].op = o} IN
     IF of("BARRIER") = {} THEN "NONE"
     ELSE IF of("DISPOSITION") = {} THEN "PENDING"
     ELSE last(of("DISPOSITION")).outcome]]

EmptyFile == [events |-> << >>, acks |-> 0, torn |-> FALSE]

Init ==
  /\ file = EmptyFile
  /\ w = << >>
  /\ epoch = 1
  /\ b = Started(EmptyFile)
  /\ rollbacks = 0
  /\ sent = 0
  /\ short = FALSE

TypeOK ==
  /\ file \in [events : Seq(Event), acks : Nat, torn : BOOLEAN]
  /\ w \in Seq(Event)
  /\ b.state \in {"RECOVERY_REQUIRED", "OPEN", "CLOSED"}
  /\ b.acks \in {Len(b.events), Len(b.events) - 1}
  /\ b.permit \in Permit /\ b.ticket \in Nat
  /\ b.ops \in [Op -> Disposition]
  /\ Cardinality({o \in Op : b.ops[o] # "NONE"}) <= MaxOperations
  /\ b.lock \in {"free", "intent", "written", "outcome"}
  /\ epoch \in 1 .. MaxEpoch
  /\ sent \in Nat

-----------------------------------------------------------------------------
(* The call: bootstrap, bind, prepare, ticket, authorize, write, receive   *)

Ready == b.up /\ b.lock = "free"
Open == b.state = "OPEN" /\ Coverage
Current == Open /\ ~b.closed /\ b.expiry = "armed"

Bootstrap ==
  /\ Ready /\ b.events = << >> /\ ~b.binding /\ Coverage
  /\ \E r \in Appended(Evt("BOOTSTRAP")) :
       /\ Stored(r)
       /\ b' = [After(b, r) EXCEPT !.state = IF r.ok THEN "OPEN" ELSE @]
  /\ UNCHANGED <<epoch, rollbacks, sent, short>>

\* A second bind of the same call finds its binding and changes nothing.
Bind ==
  /\ Ready /\ Open /\ ~b.binding
  /\ \E r \in Appended(Evt("BINDING")) :
       /\ Stored(r)
       /\ b' = [After(b, r) EXCEPT !.binding = TRUE, !.expiry = IF r.ok THEN "armed" ELSE @]
  /\ UNCHANGED <<epoch, rollbacks, sent, short>>

\* Preparation is marked before A is left for the credential and TLS.
Prepare ==
  /\ Ready /\ b.binding /\ Current
  /\ ~b.socket /\ b.request = "none" /\ b.permit = NoPermit
  /\ b' = [b EXCEPT !.request = "marked", !.preparing = TRUE]
  /\ UNCHANGED <<file, w, epoch, rollbacks, sent, short>>

\* The connection is kept only if the call is still current.
Prepared ==
  /\ Ready /\ b.preparing
  /\ b' = IF Current THEN [b EXCEPT !.preparing = FALSE, !.socket = TRUE, !.request = "ready"]
          ELSE [b EXCEPT !.preparing = FALSE]
  /\ UNCHANGED <<file, w, epoch, rollbacks, sent, short>>

PrepareFails ==
  /\ b.up /\ b.preparing
  /\ b' = [b EXCEPT !.preparing = FALSE]
  /\ UNCHANGED <<file, w, epoch, rollbacks, sent, short>>

TicketFor ==
  /\ Ready /\ Current
  /\ b.binding /\ b.ticket = 0 /\ b.permit = NoPermit /\ b.socket
  /\ b' = [b EXCEPT !.ticket = b.generation]
  /\ UNCHANGED <<file, w, epoch, rollbacks, sent, short>>

Authorize ==
  /\ Ready /\ Current
  /\ b.ticket = b.generation /\ b.permit = NoPermit
  /\ \E r \in Appended(Permitted) :
       /\ Stored(r)
       /\ b' = [After(b, r) EXCEPT
                  !.permit = IF r.ok THEN [epoch |-> epoch, generation |-> b.generation] ELSE @]
  /\ UNCHANGED <<epoch, rollbacks, sent, short>>

\* Mutant of MayWrite: a spent permit writes again.
MayWriteAgain ==
  /\ Current /\ b.socket
  /\ b.permit = [epoch |-> epoch, generation |-> b.generation]

MayWrite ==
  /\ Current /\ ~b.consumed /\ b.socket
  /\ b.permit = [epoch |-> epoch, generation |-> b.generation]

\* write takes A, spends the permit and has the intent witnessed.
WriteIntent ==
  /\ Ready /\ MayWrite
  /\ \E r \in Appended(Evt("INTENT")) :
       /\ Stored(r)
       /\ b' = [After(b, r) EXCEPT !.consumed = TRUE, !.lock = IF r.ok THEN "intent" ELSE "free"]
  /\ UNCHANGED <<epoch, rollbacks, sent, short>>

CloseSocket(m) == [m EXCEPT !.socket = FALSE]

\* The one send, of all or of a part of the request, if the call is current
\* after the append; an exception closes the connection and the broker.
WriteSend ==
  /\ b.up /\ b.lock = "intent"
  /\ \/ /\ Current
        /\ sent' = sent + 1
        /\ \E count \in {"none", "partial", "full"}, late \in BOOLEAN :
             b' = IF late \/ count = "none"
                  THEN CloseSocket([b EXCEPT !.lock = "written", !.count = count,
                                             !.state = "RECOVERY_REQUIRED"])
                  ELSE [b EXCEPT !.lock = "written", !.count = count]
     \/ /\ b' = CloseSocket([b EXCEPT !.lock = "written", !.state = "RECOVERY_REQUIRED"])
        /\ UNCHANGED sent
  /\ UNCHANGED <<file, w, epoch, rollbacks, short>>

\* The finally of write: LOCAL_WRITE if there is coverage, and anything short
\* of the whole request closes the broker.  If that append raises, nothing
\* after it runs; if the send had raised, the request is kept.
WriteRecord ==
  LET free(m) == [m EXCEPT !.lock = "free"]
      end(m) == IF b.count = "full" THEN [free(m) EXCEPT !.request = IF b.socket THEN "none" ELSE @]
                ELSE CloseSocket([free(m) EXCEPT !.state = "RECOVERY_REQUIRED"]) IN
  /\ b.up /\ b.lock = "written"
  /\ IF Coverage
     THEN \E r \in Appended(Evt("LOCAL_WRITE")) :
            Stored(r) /\ b' = IF r.ok THEN end(After(b, r)) ELSE free(After(b, r))
     ELSE b' = end(b) /\ UNCHANGED <<file, w>>
  /\ UNCHANGED <<epoch, rollbacks, sent, short>>

\* receive waits for the response without A.
Receive ==
  /\ Ready /\ b.consumed /\ ~b.readStarted /\ b.socket
  /\ b' = [b EXCEPT !.readStarted = TRUE, !.receiving = "waiting"]
  /\ UNCHANGED <<file, w, epoch, rollbacks, sent, short>>

\* A complete response came over a connection the request was written to.
\* If its usage is known, A is kept for the next append.
Response ==
  /\ Ready /\ b.receiving = "waiting" /\ b.count = "full"
  /\ \E known \in BOOLEAN : \E r \in Appended(Evt("PEER_RESPONSE")) :
       /\ Stored(r)
       /\ b' = [After(b, r) EXCEPT !.receiving = "ending",
                                  !.lock = IF r.ok /\ known THEN "outcome" ELSE "free"]
  /\ UNCHANGED <<epoch, rollbacks, sent, short>>

FinalUsage ==
  /\ b.up /\ b.lock = "outcome"
  /\ \E u \in Usage : \E r \in Appended([Evt("FINAL_USAGE") EXCEPT !.usage = u]) :
       /\ Stored(r)
       /\ b' = [After(b, r) EXCEPT !.lock = "free"]
  /\ UNCHANGED <<epoch, rollbacks, sent, short>>

\* The response is malformed, late or cut off.
ReceiveFails ==
  /\ b.up /\ b.receiving = "waiting"
  /\ b' = [b EXCEPT !.receiving = "ending"]
  /\ UNCHANGED <<file, w, epoch, rollbacks, sent, short>>

\* The common end of receive, close_call and _expire.
Closing(m) ==
  /\ IF Coverage
     THEN \E r \in Appended(Evt("CLOSED")) : Stored(r) /\ b' = CloseSocket(After(m, r))
     ELSE b' = CloseSocket(m) /\ UNCHANGED <<file, w>>
  /\ UNCHANGED <<epoch, rollbacks, sent, short>>

ReceiveFinally ==
  /\ Ready /\ b.receiving = "ending"
  /\ Closing([b EXCEPT !.closed = TRUE, !.receiving = "no"])

CloseCall ==
  /\ Ready /\ b.binding
  /\ Closing([b EXCEPT !.closed = TRUE])

\* The clock passes the expiry of the binding.
Deadline ==
  /\ b.up /\ b.expiry = "armed"
  /\ b' = [b EXCEPT !.expiry = "due"]
  /\ UNCHANGED <<file, w, epoch, rollbacks, sent, short>>

\* The thread that bind started.
Expire ==
  /\ Ready /\ b.expiry = "due"
  /\ Closing([b EXCEPT !.state = "CLOSED", !.closed = TRUE, !.ticket = 0, !.expiry = "done"])

\* ... which gives up if A is not free within three seconds.
ExpireGivesUp ==
  /\ b.up /\ b.lock # "free" /\ b.expiry = "due"
  /\ b' = [b EXCEPT !.expiry = "done"]
  /\ UNCHANGED <<file, w, epoch, rollbacks, sent, short>>

-----------------------------------------------------------------------------
(* Invalidation, disposition, snapshot                                     *)

\* Mutant of Fenced: the generation moves, the rest stays open.
FencedLate(m) == [m EXCEPT !.generation = @ + 1, !.ticket = 0]

\* What invalidate does before it writes anything.
Fenced(m) ==
  CloseSocket([m EXCEPT !.state = "CLOSED", !.generation = @ + 1, !.ticket = 0,
                        !.closed = m.binding])

Invalidate(o) ==
  /\ Ready /\ b.ops[o] = "NONE" /\ b.generation < MaxGeneration
  /\ IF Cardinality({p \in Op : b.ops[p] # "NONE"}) < MaxOperations
     THEN \E r \in Appended(Barrier(o)) :
            /\ Stored(r)
            /\ b' = [After(Fenced(b), r) EXCEPT !.ops[o] = IF r.ok THEN "PENDING" ELSE @]
     ELSE b' = Fenced(b) /\ UNCHANGED <<file, w>>
  /\ UNCHANGED <<epoch, rollbacks, sent, short>>

\* A repeated operation id with another request; the same request only reads.
InvalidateConflict(o) ==
  /\ Ready /\ b.ops[o] # "NONE"
  /\ b' = [b EXCEPT !.state = "RECOVERY_REQUIRED"]
  /\ UNCHANGED <<file, w, epoch, rollbacks, sent, short>>

\* An operation that is disposed of keeps its outcome: the same one is only
\* read, another is refused.
Dispose(o, outcome) ==
  /\ Ready /\ b.ops[o] = "PENDING"
  /\ \E r \in Appended(Disposed(o, outcome)) :
       /\ Stored(r)
       /\ b' = [After(b, r) EXCEPT !.ops[o] = IF r.ok THEN outcome ELSE @]
  /\ UNCHANGED <<epoch, rollbacks, sent, short>>

\* Mutant of Floor: only the journal is read.
FloorLocal == Liability(b.events)

\* The floor a snapshot reports: the larger of what J holds and W answers.
\* (The process also remembers earlier answers, which can only raise it.)
Floor ==
  Larger(Liability(b.events), IF b.wire /\ Readable(w) THEN Liability(w) ELSE 0)

Snapshot ==
  /\ Ready /\ Readable(b.events)
  /\ b' = [b EXCEPT !.state = IF Coverage THEN @ ELSE "RECOVERY_REQUIRED"]
  /\ short' = (short \/ (b.wire /\ sent > 0 /\ Floor < Larger(Reserved, Liability(w))))
  /\ UNCHANGED <<file, w, epoch, rollbacks, sent>>

-----------------------------------------------------------------------------
(* Failures                                                                *)

\* A witness call fails: WitnessClient closes its connection for good.
WitnessLost ==
  /\ b.up /\ b.wire
  /\ b' = [b EXCEPT !.wire = FALSE]
  /\ UNCHANGED <<file, w, epoch, rollbacks, sent, short>>

\* The process dies with all it knew; its socket closes.
Crash ==
  /\ b.up
  /\ b' = [Started(EmptyFile) EXCEPT !.up = FALSE]
  /\ UNCHANGED <<file, w, epoch, rollbacks, sent, short>>

\* A torn record keeps Journal from opening.
Restart ==
  /\ ~b.up /\ epoch < MaxEpoch
  /\ ~file.torn
  /\ epoch' = epoch + 1
  /\ b' = Started(file)
  /\ UNCHANGED <<file, w, rollbacks, sent, short>>

\* J is put back to an earlier state, under a running broker or a dead one.
RollBackJournal ==
  /\ rollbacks < MaxRollbacks
  /\ rollbacks' = rollbacks + 1
  /\ \E n \in 0 .. Len(file.events), a \in 0 .. file.acks :
       /\ a = n \/ a + 1 = n
       /\ file' = [events |-> SubSeq(file.events, 1, n), acks |-> a, torn |-> FALSE]
  /\ UNCHANGED <<w, b, epoch, sent, short>>

Next ==
  \/ Bootstrap \/ Bind \/ Prepare \/ Prepared \/ PrepareFails \/ TicketFor \/ Authorize
  \/ WriteIntent \/ WriteSend \/ WriteRecord
  \/ Receive \/ Response \/ FinalUsage \/ ReceiveFails \/ ReceiveFinally
  \/ CloseCall \/ Deadline \/ Expire \/ ExpireGivesUp
  \/ \E o \in Op :
       \/ Invalidate(o) \/ InvalidateConflict(o)
       \/ \E outcome \in {"COMMITTED", "ROLLED_BACK"} : Dispose(o, outcome)
  \/ Snapshot
  \/ WitnessLost \/ Crash \/ Restart \/ RollBackJournal

Spec == Init /\ [][Next]_vars

-----------------------------------------------------------------------------
(* Properties                                                              *)

IsPrefixOf(s, t) == Len(s) <= Len(t) /\ s = SubSeq(t, 1, Len(s))

\* The provider is written to at most once, over all lives of the broker and
\* all restored journals, and only after the intent is with the witness:
\* however B crashes and whatever becomes of J, W knows a request may have
\* been sent.
WriteOnce == sent <= 1 /\ (sent > 0 => "INTENT" \in Kinds(w))

\* J and W never fork: one is a prefix of the other, J is at most the one
\* event ahead that W has not confirmed, and W stays readable for recovery.
NoFork ==
  /\ IsPrefixOf(file.events, w) \/ IsPrefixOf(w, file.events)
  /\ Len(file.events) <= Len(w) + 1
  /\ Readable(w)

\* Once an invalidation is with the witness, no binding, permit or intent
\* follows it, not even one whose call had begun before; and it is disposed
\* of one way only, also when the ack of its disposition was lost and the
\* broker started again from an older journal.
BarrierFences ==
  \A i, j \in 1 .. Len(w) :
    /\ i < j /\ w[i].kind = "BARRIER" => w[j].kind \notin {"BOOTSTRAP", "BINDING", "PERMIT", "INTENT"}
    /\ w[i].kind = "DISPOSITION" /\ w[j].kind = "DISPOSITION" /\ w[i].op = w[j].op
         => w[i].outcome = w[j].outcome

\* A snapshot taken while W answers never reports less than W can prove for a
\* call that was written, though J may have lost the binding and the usage.
LiabilityFloor == ~short
=============================================================================
