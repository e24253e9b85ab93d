-------------------------- MODULE RateReservation --------------------------
(***************************************************************************)
(* The two rate limiters an executor may be given, for one key (a Target): *)
(* InMemoryRateLimiter, a dictionary behind a thread lock, and             *)
(* PostgresRateLimiter, a row of rate_reservation_states updated by one    *)
(* upsert.  A call reserves a slot, sleeps until the slot and returns; the *)
(* caller then sends its request.                                          *)
(*                                                                         *)
(* Rates become intervals (1 / rate) in whole units of time, so that       *)
(* min(platform rate, requested rate) is the larger of two intervals.      *)
(* There is one clock: the database's clock_timestamp(), or the process's  *)
(* monotonic clock.  A worker may be delayed between any two steps.        *)
(***************************************************************************)
EXTENDS Integers, Sequences, FiniteSets

CONSTANTS
  Caller,            \* threads, or workers of several processes
  NoCaller,
  Interval,          \* the intervals callers request
  PlatformInterval,  \* 1 / requests_per_second of the platform
  MaxRetries,        \* max_retries of reserve_delay
  MaxReservations,   \* bound on the slots a behaviour reserves
  MaxTime            \* bound on the clock

ASSUME RateAssumption ==
  /\ NoCaller \notin Caller
  /\ Interval \subseteq Nat \ {0}
  /\ PlatformInterval \in Nat \ {0}
  /\ MaxRetries \in Nat \ {0}
  /\ MaxReservations \in Nat
  /\ MaxTime \in Nat

VARIABLES
  durable,    \* built with PostgresRateLimiter? (else InMemoryRateLimiter)
  now,        \* the clock
  mark,       \* next_allowed_at of the row, or _last_reserved_at[key]; -1: none
  rowLock,    \* who holds the row lock of the upsert until its commit
  turn,       \* where each caller stands in its call
  call,       \* [interval, slot, delay, wake] of each caller's current call
  attempts,   \* attempts of reserve_delay that have failed
  reserved,   \* history: the slots reserved, in order, with their intervals
  sent,       \* history: how many requests have left
  early       \* history: has one left before its slot?

rateVars == <<durable, now, mark, rowLock, turn, call, attempts, reserved, sent, early>>

Never == -1
NoCall == [interval |-> 1, slot |-> 0, delay |-> 0, wake |-> 0]

RateTypeOK ==
  /\ durable \in BOOLEAN
  /\ now \in Nat
  /\ mark \in Nat \cup {Never}
  /\ rowLock \in Caller \cup {NoCaller}
  /\ turn \in [Caller -> {"idle", "reserve", "commit", "answered", "sleep", "failed"}]
  /\ call \in [Caller -> [interval : Nat \ {0}, slot : Nat, delay : Nat, wake : Nat]]
  /\ attempts \in [Caller -> 0 .. MaxRetries]
  /\ reserved \in Seq([slot : Nat, interval : Nat \ {0}])
  /\ sent \in Nat
  /\ early \in BOOLEAN

RateInit ==
  /\ durable \in BOOLEAN
  /\ now = 0
  /\ mark = Never
  /\ rowLock = NoCaller
  /\ turn = [c \in Caller |-> "idle"]
  /\ call = [c \in Caller |-> NoCall]
  /\ attempts = [c \in Caller |-> 0]
  /\ reserved = << >>
  /\ sent = 0
  /\ early = FALSE

Larger(a, b) == IF a >= b THEN a ELSE b

\* effective_rate = min(platform, requested), as an interval.
EffectiveInterval(requested) == Larger(PlatformInterval, requested)

Wait(c, requested) ==
  /\ turn[c] = "idle"
  /\ turn' = [turn EXCEPT ![c] = "reserve"]
  /\ call' = [call EXCEPT ![c] = [NoCall EXCEPT !.interval = EffectiveInterval(requested)]]
  /\ UNCHANGED <<durable, now, mark, rowLock, attempts, reserved, sent, early>>

-----------------------------------------------------------------------------
(* InMemoryRateLimiter                                                     *)

\* Mutant of MemorySlot: the slot is the time of the call.
MemorySlotNow(interval) == now

\* max(now, last_reserved + minimum_interval); the first call of a key finds
\* no entry and is due at once.
MemorySlot(interval) ==
  IF mark = Never THEN now ELSE Larger(now, mark + interval)

\* The critical section of wait.
ReserveInMemory(c) ==
  LET due == MemorySlot(call[c].interval) IN
  /\ ~durable
  /\ turn[c] = "reserve"
  /\ Len(reserved) < MaxReservations
  /\ mark' = due
  /\ call' = [call EXCEPT ![c].slot = due, ![c].delay = due - now]
  /\ reserved' = Append(reserved, [slot |-> due, interval |-> call[c].interval])
  /\ turn' = [turn EXCEPT ![c] = "answered"]
  /\ UNCHANGED <<durable, now, rowLock, attempts, sent, early>>

-----------------------------------------------------------------------------
(* PostgresRateLimiter                                                     *)

\* GREATEST(next_allowed_at, clock_timestamp()); the row that is inserted has
\* the slot clock_timestamp().
RowSlot == Larger(mark, now)

\* INSERT ... ON CONFLICT DO UPDATE has the row lock and reads the clock.
Update(c) ==
  /\ durable
  /\ turn[c] = "reserve"
  /\ rowLock = NoCaller
  /\ Len(reserved) < MaxReservations
  /\ rowLock' = c
  /\ call' = [call EXCEPT ![c].slot = RowSlot]
  /\ turn' = [turn EXCEPT ![c] = "commit"]
  /\ UNCHANGED <<durable, now, mark, attempts, reserved, sent, early>>

\* The row and the history when c's transaction commits.
Committed(c) ==
  /\ mark' = call[c].slot + call[c].interval
  /\ reserved' = Append(reserved, [slot |-> call[c].slot, interval |-> call[c].interval])

\* RETURNING reads the clock again, the transaction commits and the caller
\* has the delay.
Commit(c) ==
  /\ turn[c] = "commit"
  /\ Committed(c)
  /\ call' = [call EXCEPT ![c].delay = Larger(0, call[c].slot - now)]
  /\ rowLock' = NoCaller
  /\ turn' = [turn EXCEPT ![c] = "answered"]
  /\ UNCHANGED <<durable, now, attempts, sent, early>>

\* An attempt of the retry loop raises: the loop goes round, or
\* RateLimitCoordinationError ends the call.
AttemptFails(c) ==
  /\ attempts' = [attempts EXCEPT ![c] = @ + 1]
  /\ turn' = [turn EXCEPT ![c] = IF attempts[c] + 1 < MaxRetries THEN "reserve" ELSE "failed"]

\* The connection, the lock_timeout or the statement_timeout fails before
\* the commit: the row is as it was.
RolledBack(c) ==
  /\ durable
  /\ turn[c] \in {"reserve", "commit"}
  /\ AttemptFails(c)
  /\ rowLock' = IF rowLock = c THEN NoCaller ELSE rowLock
  /\ UNCHANGED <<durable, now, mark, call, reserved, sent, early>>

\* The transaction commits and its answer is lost: the slot is spent.
AnswerLost(c) ==
  /\ turn[c] = "commit"
  /\ Committed(c)
  /\ AttemptFails(c)
  /\ rowLock' = NoCaller
  /\ UNCHANGED <<durable, now, call, sent, early>>

-----------------------------------------------------------------------------
(* The rest of wait, and the clock                                         *)

\* sleep(delay), which may start later than the delay was computed.
Sleep(c) ==
  /\ turn[c] = "answered"
  /\ call' = [call EXCEPT ![c].wake = now + call[c].delay, ![c].delay = 0]
  /\ turn' = [turn EXCEPT ![c] = "sleep"]
  /\ UNCHANGED <<durable, now, mark, rowLock, attempts, reserved, sent, early>>

\* wait returns, and the caller sends its request.
Return(c) ==
  /\ turn[c] = "sleep"
  /\ now >= call[c].wake
  /\ sent' = sent + 1
  /\ early' = (early \/ now < call[c].slot)
  /\ turn' = [turn EXCEPT ![c] = "idle"]
  /\ call' = [call EXCEPT ![c] = NoCall]
  /\ attempts' = [attempts EXCEPT ![c] = 0]
  /\ UNCHANGED <<durable, now, mark, rowLock, reserved>>

\* The caller sees RateLimitCoordinationError and sends nothing.
Refused(c) ==
  /\ turn[c] = "failed"
  /\ turn' = [turn EXCEPT ![c] = "idle"]
  /\ call' = [call EXCEPT ![c] = NoCall]
  /\ attempts' = [attempts EXCEPT ![c] = 0]
  /\ UNCHANGED <<durable, now, mark, rowLock, reserved, sent, early>>

Tick ==
  /\ now < MaxTime
  /\ now' = now + 1
  /\ UNCHANGED <<durable, mark, rowLock, turn, call, attempts, reserved, sent, early>>

RateNext ==
  \/ Tick
  \/ \E c \in Caller :
       \/ \E requested \in Interval : Wait(c, requested)
       \/ ReserveInMemory(c)
       \/ Update(c) \/ Commit(c) \/ RolledBack(c) \/ AnswerLost(c)
       \/ Sleep(c) \/ Return(c) \/ Refused(c)

RateSpec == RateInit /\ [][RateNext]_rateVars

-----------------------------------------------------------------------------
(* Properties                                                              *)

\* Slots are handed out in order and never closer than the minimum interval:
\* after a reservation of the shared row the next slot waits for the interval
\* of the EARLIER call, in memory for that of the LATER one; both are at
\* least the platform's.  Lost answers, retries and rollbacks included.
SlotSpacing ==
  \A i, j \in 1 .. Len(reserved) : i < j =>
    reserved[i].slot + (IF durable THEN reserved[i].interval ELSE reserved[j].interval)
      <= reserved[j].slot

\* No request leaves before the slot of its call, however long the caller was
\* delayed between the statement that computed the delay and its sleep.  Late
\* callers may bunch up, but from the first slot on the requests that have
\* left never exceed what the platform's rate allows for the time that has
\* passed.
AverageRate ==
  /\ ~early
  /\ sent > 0 => reserved[1].slot + (sent - 1) * PlatformInterval <= now

\* The limiter keeps its promise: the slots are spaced, and what leaves keeps
\* to them, for callers of the shared row and in memory alike.
RateHolds == SlotSpacing /\ AverageRate
=============================================================================
