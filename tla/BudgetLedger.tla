---------------------------- MODULE BudgetLedger ----------------------------
(***************************************************************************)
(* Budget accounting of the W2 research calls: BudgetStore                 *)
(* (ai/w2/accounting.py), driven by one CallRuntime per call               *)
(* (ai/w2/w1_bridge.py) and by Recovery (ai/w2/recovery.py), against an    *)
(* independent producer of observations (ai/w2/fake_authority.py).         *)
(*                                                                         *)
(* A call holds its reservation in two balances, the account's and its     *)
(* task's, until evidence of what it used settles it.  The producer may    *)
(* append evidence between any two steps of a reconciliation, contradict   *)
(* what it said, or lose its coverage; an owner may pause and be replaced  *)
(* by a recovery decision.                                                 *)
(*                                                                         *)
(* Tokens and microdollars follow the same code and are one amount here.   *)
(* A refusal changes nothing, so deadlines, validity windows, the second   *)
(* between two admissions, the authority's gate and its cancellation latch *)
(* are left out: they only disable steps.  One account, one deployment,    *)
(* one policy period; the calls of a task share one case.                  *)
(* A database transaction is one step: it holds the account's row lock.    *)
(***************************************************************************)
EXTENDS Integers, Sequences, FiniteSets, SequencesExt

CONSTANTS
  Call,         \* reservation keys
  Task,
  Account,      \* the balance all calls share
  Reserved,     \* reserved amount of a call's core
  AccountCap,   \* token_cap / cost_cap of the account's policy
  TaskCap,      \* the same of each task's policy
  CallCap,      \* call_cap of both
  MaxN,         \* the largest amount a column holds (2^63 - 1)
  Final,        \* [usage, n, proved] of the finals the endpoint may report
  MaxReports,   \* bound on the finals and conflicts reported for all calls
  MaxGen,       \* bound on owner generations: MaxGen - 1 recoveries of a call
  MaxReconciling,  \* bound on the reconciliations in progress at once
  CoverageMayFail  \* may the producer lose its coverage?

ASSUME LedgerAssumption ==
  /\ IsFiniteSet(Call)
  /\ Account \notin Task
  /\ {Reserved, AccountCap, TaskCap, CallCap, MaxN, MaxReports, MaxGen, MaxReconciling}
       \subseteq Nat
  /\ CoverageMayFail \in BOOLEAN
  /\ Reserved > 0 /\ MaxGen > 0
  /\ MaxN >= AccountCap /\ MaxN >= TaskCap
  /\ Final \subseteq [usage : {"known", "unknown", "overflow"}, n : Nat, proved : BOOLEAN]

VARIABLES
  task,       \* the task of each call
  balance,    \* research_ai_budget_balance
  row,        \* research_ai_reservation, with the call's conflicts and decisions
  admission,  \* research_ai_admission: none, open or closed
  endpoint,   \* what the producer knows of each call
  inventory,  \* the producer's observations of each call, append-only
  coverage,   \* does the producer's journal still agree with its witness?
  rec,        \* a reconciliation of each call in progress
  resume      \* the calls that resume_budgets in progress has read

vars == <<task, balance, row, admission, endpoint, inventory, coverage, rec, resume>>

ledger == <<balance, row>>
producer == <<endpoint, inventory, coverage>>

Balance == {Account} \cup Task
Cap(b) == IF b = Account THEN AccountCap ELSE TaskCap
BalancesOf(c) == {Account, task[c]}
CallsOf(b) == {c \in Call : row[c].state # "NONE" /\ b \in BalancesOf(c)}

NoRow == [state |-> "NONE", held |-> 0, actual |-> 0, revision |-> 0, gen |-> 1,
          closed |-> FALSE, cancelled |-> FALSE,
          seen |-> {}, open |-> {}, prefix |-> 0, used |-> {}]

NoResume == [on |-> FALSE, rows |-> {}]

NoRec == [pc |-> "idle", n |-> 0, gen |-> 1]

\* An observation: FINAL_USAGE and CONFLICT carry a usage, the others none.
Event(kind, f) == [kind |-> kind, usage |-> f.usage, n |-> f.n, proved |-> f.proved]
Plain(kind) == [kind |-> kind, usage |-> "none", n |-> 0, proved |-> TRUE]
Zero == [kind |-> "ZERO", usage |-> "known", n |-> 0, proved |-> TRUE]

\* A conflict row: the reason, the incoming observation and the revision of
\* the settlement it disputes (0: none).
Tag == [reason : {"CORE_CONFLICT", "EVENT_CONFLICT", "USAGE_OVERFLOW", "FINAL_CONFLICT",
                  "COVERAGE_GAP", "BALANCE_OVERFLOW"},
        event : Nat, revision : Nat]

TypeOK ==
  /\ task \in [Call -> Task]
  /\ balance \in [Balance -> [settled : 0 .. MaxN, held : 0 .. MaxN, calls : 0 .. CallCap,
                              state : {"ACTIVE", "PAUSED_UNKNOWN", "CANCELLED"}]]
  /\ \A c \in Call :
       /\ row[c].state \in {"NONE", "RESERVED", "ADMITTED", "SEND_INTENT",
                            "IN_DOUBT", "SETTLED", "CONFLICT"}
       /\ row[c].held \in 0 .. MaxN /\ row[c].actual \in 0 .. MaxN
       /\ row[c].revision \in Nat /\ row[c].gen \in 1 .. MaxGen
       /\ row[c].closed \in BOOLEAN /\ row[c].cancelled \in BOOLEAN
       /\ row[c].seen \subseteq Tag /\ row[c].open \subseteq row[c].seen
       /\ row[c].prefix \in 0 .. Len(inventory[c])
       /\ row[c].used \subseteq 2 .. MaxGen
  /\ admission \in [Call -> {"none", "open", "closed"}]
  /\ coverage \in BOOLEAN
  /\ endpoint \in [Call -> [known : BOOLEAN, marked : BOOLEAN, accepted : BOOLEAN, closed : BOOLEAN]]
  /\ rec \in [Call -> [pc : {"idle", "read", "post", "done"}, n : Nat, gen : 1 .. MaxGen]]
  /\ resume \in [on : BOOLEAN, rows : SUBSET Call]

Init ==
  /\ task \in [Call -> Task]
  /\ balance = [b \in Balance |-> [settled |-> 0, held |-> 0, calls |-> 0, state |-> "ACTIVE"]]
  /\ row = [c \in Call |-> NoRow]
  /\ admission = [c \in Call |-> "none"]
  /\ endpoint = [c \in Call |-> [known |-> FALSE, marked |-> FALSE, accepted |-> FALSE,
                                 closed |-> FALSE]]
  /\ inventory = [c \in Call |-> <<>>]
  /\ coverage = TRUE
  /\ rec = [c \in Call |-> NoRec]
  /\ resume = NoResume

-----------------------------------------------------------------------------
(***************************************************************************)
(* The working copy of one transaction: the locked reservation, its two    *)
(* balances and, while it reconciles, the loop's flags.                    *)
(***************************************************************************)
Work(c) == [row |-> row[c], account |-> balance[Account], task |-> balance[task[c]],
            blocked |-> FALSE, resolving |-> FALSE, found |-> FALSE,
            result |-> FALSE, failed |-> FALSE]

Larger(a, b) == IF a > b THEN a ELSE b

\* Mutant of Retain: the task's balance is forgotten.
RetainAccountOnly(w, e) ==
  LET held == Larger(w.row.held, Reserved)
  IN [w EXCEPT !.row.held = held, !.account.held = @ + held - w.row.held]

\* _retain: hold at least the reservation, and what a known usage adds.
Retain(w, e) ==
  LET original == Larger(w.row.held, Reserved)
      wanted   == IF e.usage = "known" THEN Larger(original, e.n - w.row.actual) ELSE original
      Fits(h)  == \A b \in {w.account, w.task} : b.held + h - w.row.held <= MaxN
      held     == IF Fits(wanted) THEN wanted ELSE IF Fits(original) THEN original ELSE w.row.held
  IN [w EXCEPT !.row.held = held,
               !.account.held = @ + held - w.row.held,
               !.task.held = @ + held - w.row.held]

Freeze(state) == IF state = "CANCELLED" THEN "CANCELLED" ELSE "PAUSED_UNKNOWN"

\* Mutant of Pause: only the account stops.
PauseAccountOnly(w, state) ==
  [w EXCEPT !.row.state = IF @ = "CONFLICT" THEN "CONFLICT" ELSE state,
            !.account.state = Freeze(@)]

\* _pause: never downgrades a conflict or a cancellation.
Pause(w, state) ==
  [w EXCEPT !.row.state = IF @ = "CONFLICT" THEN "CONFLICT" ELSE state,
            !.account.state = Freeze(@),
            !.task.state = Freeze(@)]

\* _conflict: recorded once, but it holds and pauses every time.
Conflict(w, tag, e) ==
  LET v == IF tag \in w.row.seen THEN w
           ELSE [w EXCEPT !.row.seen = @ \cup {tag}, !.row.open = @ \cup {tag}]
  IN Pause(Retain(v, e), "CONFLICT")

Unknown(w) == Pause(Retain(w, Plain("NONE")), "IN_DOUBT")

Store(c, w) ==
  /\ row' = [row EXCEPT ![c] = w.row]
  /\ balance' = [balance EXCEPT ![Account] = w.account, ![task[c]] = w.task]

\* _balances(active=True)
Active(c) == \A b \in BalancesOf(c) :
  /\ balance[b].state = "ACTIVE"
  /\ balance[b].settled + balance[b].held <= Cap(b)

-----------------------------------------------------------------------------
(***************************************************************************)
(* The run of a call, generation 1 of its owner.                           *)
(***************************************************************************)
Reserve(c) ==
  /\ row[c].state = "NONE"
  /\ Active(c)
  /\ \A b \in BalancesOf(c) :
       /\ balance[b].settled + balance[b].held + Reserved <= Cap(b)
       /\ balance[b].calls < CallCap
  /\ LET case == CallsOf(task[c])
     IN Cardinality(case) < 2 /\ \A d \in case : row[d].state = "SETTLED"
  /\ row' = [row EXCEPT ![c] = [NoRow EXCEPT !.state = "RESERVED", !.held = Reserved]]
  /\ balance' = [b \in Balance |->
                   IF b \in BalancesOf(c)
                   THEN [balance[b] EXCEPT !.held = @ + Reserved, !.calls = @ + 1]
                   ELSE balance[b]]
  /\ UNCHANGED <<task, admission, producer, rec, resume>>

\* reserve_v1 of the same question under another core: the first call is in
\* conflict, and no second reservation is made.
ReserveRival(c) ==
  /\ row[c].state # "NONE"
  /\ Active(c)
  /\ Store(c, Conflict(Work(c), [reason |-> "CORE_CONFLICT", event |-> 0, revision |-> 0],
                       Plain("NONE")))
  /\ UNCHANGED <<task, admission, producer, rec, resume>>

\* register_reserved follows the commit of reserve_v1.
Register(c) ==
  /\ row[c].state # "NONE" /\ coverage /\ ~endpoint[c].known
  /\ endpoint' = [endpoint EXCEPT ![c].known = TRUE]
  /\ UNCHANGED <<task, ledger, admission, inventory, coverage, rec, resume>>

Admit(c) ==
  /\ coverage /\ endpoint[c].known /\ ~endpoint[c].closed
  /\ Active(c)
  /\ row[c].state = "RESERVED" /\ row[c].gen = 1 /\ ~row[c].cancelled /\ ~row[c].closed
  /\ \A d \in Call : admission[d] # "open"
  /\ row' = [row EXCEPT ![c].state = "ADMITTED"]
  /\ admission' = [admission EXCEPT ![c] = "open"]
  /\ UNCHANGED <<task, balance, producer, rec, resume>>

\* begin_send: an acceptance ticket, the marker's transaction, then a permit.
Mark(c) ==
  /\ coverage /\ ~endpoint[c].marked /\ ~endpoint[c].closed
  /\ Active(c)
  /\ row[c].state = "ADMITTED" /\ row[c].gen = 1 /\ ~row[c].cancelled
  /\ admission[c] = "open"
  /\ row' = [row EXCEPT ![c].state = "SEND_INTENT"]
  /\ endpoint' = [endpoint EXCEPT ![c].marked = TRUE]
  /\ UNCHANGED <<task, balance, admission, inventory, coverage, rec, resume>>

Reports(c) ==
  Cardinality({i \in DOMAIN inventory[c] : inventory[c][i].kind \in {"FINAL", "CONFLICT"}})
Reported == MapThenSumSet(Reports, Call)

\* consume_write_v1: the permit of the marker is spent; the endpoint may know
\* the final usage at once.
Send(c) ==
  /\ coverage /\ endpoint[c].marked /\ ~endpoint[c].accepted
  /\ ~endpoint[c].closed
  /\ endpoint' = [endpoint EXCEPT ![c].accepted = TRUE]
  /\ \E fs \in {<<>>} \cup {<<Event("FINAL", f)>> :
                              f \in {g \in Final : g.usage = "known" /\ Reported < MaxReports}} :
       inventory' = [inventory EXCEPT ![c] = @ \o <<Plain("WRITE")>> \o fs]
  /\ UNCHANGED <<task, ledger, admission, coverage, rec, resume>>

\* An exception of the run (a lost answer, a refused step) ends in mark_unknown.
MarkUnknown(c) ==
  /\ row[c].state # "NONE" /\ row[c].gen = 1
  /\ Store(c, Unknown(Work(c)))
  /\ UNCHANGED <<task, admission, producer, rec, resume>>

Finish(c) ==
  /\ rec[c].pc = "done" /\ rec[c].gen = 1
  /\ coverage /\ endpoint[c].closed
  /\ row[c].gen = 1
  /\ row' = [row EXCEPT ![c].closed = TRUE]
  /\ admission' = [admission EXCEPT ![c] = IF @ = "open" THEN "closed" ELSE @]
  /\ rec' = [rec EXCEPT ![c] = NoRec]
  /\ UNCHANGED <<task, balance, producer, resume>>

-----------------------------------------------------------------------------
(***************************************************************************)
(* The producer: one critical section per step.                            *)
(***************************************************************************)
Observe(c, es) == inventory' = [inventory EXCEPT ![c] = @ \o es]

\* close_call: only a covered journal may say that the stream closed and, if
\* nothing was accepted, that nothing was used.
CloseCall(c) ==
  /\ endpoint[c].known /\ ~endpoint[c].closed
  /\ endpoint' = [endpoint EXCEPT ![c].closed = TRUE]
  /\ Observe(c, IF ~coverage THEN <<>>
                ELSE IF endpoint[c].accepted THEN <<Plain("CLOSED")>>
                ELSE <<Plain("CLOSED"), Zero>>)
  /\ UNCHANGED <<task, ledger, admission, coverage, rec, resume>>

\* late_usage: a final under a fresh identity, or, under one already used with
\* other contents, a conflict that keeps the incoming usage visible.
LateUsage(c) ==
  /\ coverage /\ endpoint[c].accepted
  /\ Reported < MaxReports
  /\ \E f \in Final :
       \/ Observe(c, <<Event("FINAL", f)>>)
       \/ /\ \E e \in Range(inventory[c]) : e.kind = "FINAL" /\ e # Event("FINAL", f)
          /\ Event("CONFLICT", f) \notin Range(inventory[c])
          /\ Observe(c, <<Event("CONFLICT", f)>>)
  /\ UNCHANGED <<task, ledger, admission, endpoint, coverage, rec, resume>>

\* A failed append leaves the journal and its witness apart for good.
LoseCoverage ==
  /\ CoverageMayFail /\ coverage
  /\ coverage' = FALSE
  /\ UNCHANGED <<task, ledger, admission, endpoint, inventory, rec, resume>>

-----------------------------------------------------------------------------
(***************************************************************************)
(* reconcile_v1, by the run or by a recovery context.  The inventory only  *)
(* grows, so its first rec[c].n observations are the ones that were read.  *)
(***************************************************************************)
ReconcileRead(c) ==
  /\ rec[c].pc \in {"idle", "done"}
  /\ Cardinality({d \in Call : rec[d].pc \in {"read", "post"}}) < MaxReconciling
  /\ inventory[c] # <<>>
  /\ rec' = [rec EXCEPT ![c] = [pc |-> "read", n |-> Len(inventory[c]), gen |-> row[c].gen]]
  /\ UNCHANGED <<task, ledger, admission, producer, resume>>

Changed(c) == ~coverage \/ Len(inventory[c]) # rec[c].n
Owner(c) == rec[c].gen = row[c].gen
Ends(c, pc) == rec' = [rec EXCEPT ![c] = IF pc = "post" THEN [@ EXCEPT !.pc = pc]
                                         ELSE [NoRec EXCEPT !.pc = pc]]

\* A missing acknowledgement, or an inventory that grew since it was read.
ReconcileAbort(c) ==
  /\ rec[c].pc = "read" /\ Owner(c) /\ Changed(c)
  /\ Store(c, Unknown(Work(c)))
  /\ Ends(c, IF rec[c].gen = 1 THEN "done" ELSE "idle")
  /\ UNCHANGED <<task, admission, producer, resume>>

\* OWNER_LOST: a recovery has replaced the caller.
ReconcileLost(c) ==
  /\ rec[c].pc \in {"read", "post"} /\ ~Owner(c)
  /\ Ends(c, "idle")
  /\ UNCHANGED <<task, ledger, admission, producer, resume>>

\* evidence_hazards: what in the inventory after the retired prefix forbids a
\* settlement.  A final is compared with the last known one before it, or with
\* what was settled.
KnownBefore(c, i) ==
  {j \in row[c].prefix + 1 .. i - 1 :
     inventory[c][j].kind = "FINAL" /\ inventory[c][j].usage = "known"}

Differs(c, i) ==
  IF KnownBefore(c, i) # {}
  THEN inventory[c][Max(KnownBefore(c, i))].n # inventory[c][i].n
  ELSE row[c].revision > 0 /\ row[c].actual # inventory[c][i].n

Hazard(c, i) ==
  LET e == inventory[c][i] IN
  CASE e.kind = "CONFLICT" -> "EVENT_CONFLICT"
    [] e.kind = "FINAL" /\ e.usage = "unknown" -> "USAGE_UNKNOWN"
    [] e.kind = "FINAL" /\ e.usage = "overflow" -> "USAGE_OVERFLOW"
    [] e.kind = "FINAL" /\ e.usage = "known" /\ Differs(c, i) -> "FINAL_CONFLICT"
    [] OTHER -> "none"

\* The loop over the observations of S, in the inventory's order.
Over(S, n, Body(_, _), w) ==
  LET after[k \in 0 .. n] == IF k = 0 THEN w
                             ELSE IF k \in S THEN Body(after[k - 1], k) ELSE after[k - 1]
  IN after[n]

Hazards(c, n) == {i \in row[c].prefix + 1 .. n : Hazard(c, i) # "none"}

HardConflict(c, n) ==
  \/ row[c].state = "CONFLICT"
  \/ row[c].open # {}
  \/ \E i \in Hazards(c, n) : Hazard(c, i) # "USAGE_UNKNOWN"

\* Mutant of Resolves: a decision that has settled the call may settle it again.
ResolvesAgain(c, n, named) ==
  /\ rec[c].gen > 1
  /\ Hazards(c, n) # {} \/ HardConflict(c, n) \/ row[c].state # "SETTLED"
  /\ HardConflict(c, n) => named

\* One decision resolves once; a hard conflict needs it named explicitly.
Resolves(c, n, named) ==
  /\ rec[c].gen > 1
  /\ Hazards(c, n) # {} \/ HardConflict(c, n) \/ row[c].state # "SETTLED"
  /\ HardConflict(c, n) => named
  /\ rec[c].gen \notin row[c].used

TagOf(reason, i, revision) == [reason |-> reason, event |-> i, revision |-> revision]

\* The pass over the hazards, and over every known lower bound when blocked.
HazardPass(c, n, named) ==
  LET resolving == Resolves(c, n, named)
      hard == HardConflict(c, n)
      One(w, i) ==
        LET e == inventory[c][i] IN
        IF Hazard(c, i) # "USAGE_UNKNOWN"
        THEN [Conflict(w, TagOf(Hazard(c, i), i, 0), e) EXCEPT !.found = ~resolving]
        ELSE IF resolving THEN w ELSE Pause(Retain(w, e), "IN_DOUBT")
      first == Over(Hazards(c, n), n, One, [Work(c) EXCEPT !.resolving = resolving])
      blocked == (Hazards(c, n) # {} \/ hard) /\ ~resolving
      bounds == {i \in row[c].prefix + 1 .. n : inventory[c][i].kind \in {"FINAL", "CONFLICT"}}
      Bound(w, i) == Retain(w, inventory[c][i])
      second == IF ~blocked THEN first
                ELSE [Pause(Over(bounds, n, Bound, first),
                            IF hard THEN "CONFLICT" ELSE "IN_DOUBT") EXCEPT !.blocked = TRUE]
  IN [second EXCEPT !.found = @ \/ (second.row.state = "CONFLICT" /\ ~resolving)]

\* What a settlement writes to the call's row.
Settled(w, e, n, gen) ==
  [w.row EXCEPT !.state = "SETTLED", !.actual = e.n, !.held = 0, !.revision = @ + 1,
                !.open = IF w.resolving THEN {} ELSE @,
                !.prefix = IF w.resolving THEN n ELSE @,
                !.used = IF w.resolving THEN @ \cup {gen} ELSE @]

\* Mutant of Settle: a scope over its cap goes on.
SettleUncapped(w, e, n, gen) ==
  LET Post(b) == [b EXCEPT !.settled = @ + e.n - w.row.actual, !.held = @ - w.row.held]
  IN [w EXCEPT !.account = Post(@), !.task = Post(@), !.row = Settled(w, e, n, gen),
               !.resolving = FALSE, !.result = TRUE]

\* The settlement of one final: the hold is released, what was used is posted,
\* and a scope over its cap stops.
Settle(w, e, n, gen) ==
  LET delta == e.n - w.row.actual
      Post(b, cap) ==
        LET p == [b EXCEPT !.settled = @ + delta, !.held = @ - w.row.held]
        IN IF p.settled + p.held > cap THEN [p EXCEPT !.state = Freeze(@)] ELSE p
  IN [w EXCEPT !.account = Post(@, AccountCap),
               !.task = Post(@, TaskCap),
               !.row = Settled(w, e, n, gen),
               !.resolving = FALSE,
               !.result = TRUE]

Overflows(w, e) ==
  \E b \in {w.account, w.task} : b.settled + e.n - w.row.actual \notin 0 .. MaxN

\* What the loop does with a final that nothing blocks; the checks in order.
\* gap: the loop finds that the producer has changed.
Verdict(w, gap, e) ==
  IF gap THEN "gap"
  ELSE IF ~e.proved THEN "unproved"
  ELSE IF e.usage # "known" THEN e.usage
  ELSE IF w.resolving THEN IF Overflows(w, e) THEN "balance" ELSE "settle"
  ELSE IF w.row.revision > 0
       THEN IF e.n = w.row.actual /\ w.row.state = "SETTLED" THEN "same" ELSE "disputed"
  ELSE IF w.row.state = "CONFLICT" THEN "found"
  ELSE IF Overflows(w, e) THEN "balance" ELSE "settle"

\* One selected observation.  Finals settle, everything else only informs.
Apply(w, c, n, i, gap) ==
  LET e == inventory[c][i]
      v == IF e.kind = "CLOSED" THEN [w EXCEPT !.row.closed = TRUE] ELSE w
      verdict == Verdict(v, gap, e)
      Stop(u) == [u EXCEPT !.found = TRUE, !.blocked = TRUE]
  IN CASE \/ i <= w.row.prefix /\ ~w.resolving
          \/ w.failed -> w
       [] OTHER ->
          IF e.kind \notin {"FINAL", "ZERO"} \/ v.blocked THEN v
          ELSE CASE verdict = "gap"      -> Stop(Conflict(v, TagOf("COVERAGE_GAP", i, 0), e))
                 [] verdict = "unproved" -> [v EXCEPT !.failed = TRUE]
                 [] verdict = "unknown"  -> Pause(Retain(v, e), "IN_DOUBT")
                 [] verdict = "overflow" ->
                      [Conflict(v, TagOf("USAGE_OVERFLOW", i, 0), e) EXCEPT !.found = TRUE]
                 [] verdict = "same"     -> [v EXCEPT !.result = TRUE]
                 [] verdict = "disputed" ->
                      Stop(Conflict(v, TagOf("FINAL_CONFLICT", i, v.row.revision), e))
                 [] verdict = "found"    -> [v EXCEPT !.found = TRUE]
                 [] verdict = "balance"  -> Stop(Conflict(v, TagOf("BALANCE_OVERFLOW", i, 0), e))
                 [] verdict = "settle"   -> Settle(v, e, n, rec[c].gen)

IsFinal(c, i) == inventory[c][i].kind \in {"FINAL", "ZERO"}

\* The transaction of reconcile_v1 over the selected observations.  Only the
\* ledger is locked: a change of the producer shows from observation at on.
\* first: what the pass over the hazards left.
Transaction(c, first, sel, at) ==
  LET n == rec[c].n
      finals == {i \in sel : IsFinal(c, i)}
      Next1(w, i) == Apply(w, c, n, i, Changed(c) /\ i >= at)
      last == IF first.resolving /\ Cardinality(finals) > 1
              THEN [first EXCEPT !.failed = TRUE]
              ELSE Over(sel, n, Next1, first)
  IN IF ~last.result /\ ~last.found /\ last.row.state # "SETTLED"
     THEN Pause(last, "IN_DOUBT") ELSE last

\* Only at a final does the loop look at the producer again.
Moments(c) ==
  {rec[c].n + 1} \cup IF Changed(c) THEN {i \in 1 .. rec[c].n : IsFinal(c, i)} ELSE {}

\* The run passes every observation and no decision.  A failed transaction
\* rolls back, and the run then marks the call unknown.
RunCommit(c) ==
  /\ rec[c].pc = "read" /\ rec[c].gen = 1 /\ Owner(c)
  /\ \E at \in Moments(c) :
       LET w == Transaction(c, HazardPass(c, rec[c].n, FALSE), 1 .. rec[c].n, at)
       IN IF w.failed THEN Store(c, Unknown(Work(c))) /\ Ends(c, "done")
          ELSE Store(c, w) /\ Ends(c, IF w.found THEN "idle" ELSE "post")
  /\ UNCHANGED <<task, admission, producer, resume>>

\* A recovery context selects observations and may name its decision.
RecoveryCommit(c) ==
  /\ rec[c].pc = "read" /\ rec[c].gen > 1 /\ Owner(c)
  /\ \E named \in BOOLEAN :
       LET first == HazardPass(c, rec[c].n, named)
       IN \E sel \in SUBSET (1 .. rec[c].n) \ {{}}, at \in Moments(c) :
            LET w == Transaction(c, first, sel, at)
            IN /\ ~w.failed
               /\ Store(c, w)
               /\ Ends(c, IF w.found THEN "idle" ELSE "post")
  /\ UNCHANGED <<task, admission, producer, resume>>

\* After the commit the inventory is read once more.
ReconcileAfter(c) ==
  /\ rec[c].pc = "post" /\ Owner(c)
  /\ IF Changed(c) THEN Store(c, Unknown(Work(c))) ELSE UNCHANGED ledger
  /\ Ends(c, IF rec[c].gen = 1 THEN "done" ELSE "idle")
  /\ UNCHANGED <<task, admission, producer, resume>>

-----------------------------------------------------------------------------
(***************************************************************************)
(* Recovery.                                                               *)
(***************************************************************************)
\* recover_call: the producer has said that the stream closed; the decision
\* takes the call from its owner.
RecoverCall(c) ==
  /\ row[c].state # "NONE" /\ row[c].gen < MaxGen
  /\ endpoint[c].known /\ endpoint[c].closed /\ coverage
  /\ Plain("CLOSED") \in Range(inventory[c])
  /\ row' = [row EXCEPT ![c].gen = @ + 1, ![c].closed = TRUE]
  /\ admission' = [admission EXCEPT ![c] = IF @ = "open" THEN "closed" ELSE @]
  /\ UNCHANGED <<task, balance, producer, rec, resume>>

Cancel(c) ==
  /\ row[c].state # "NONE"
  /\ balance' = [balance EXCEPT ![task[c]].state = "CANCELLED"]
  /\ row' = [d \in Call |-> IF d \in CallsOf(task[c]) THEN [row[d] EXCEPT !.cancelled = TRUE]
                            ELSE row[d]]
  /\ UNCHANGED <<task, admission, producer, rec, resume>>

Held(c) == row[c].held
Actual(c) == row[c].actual
HeldOf(b) == MapThenSumSet(Held, CallsOf(b))
ActualOf(b) == MapThenSumSet(Actual, CallsOf(b))

\* What evidence keeps a call unresolved for _inventory and resume_budgets.
Doubted(c) == row[c].open # {} \/ Hazards(c, Len(inventory[c])) # {}

\* _inventory: compares the ledger with the producer's calls and with itself,
\* and pauses every scope of a call that is not resolved.
Mismatch ==
  \/ \E c \in Call : (row[c].state # "NONE") # endpoint[c].known
  \/ \E b \in Balance :
       \/ balance[b].held # HeldOf(b) \/ balance[b].settled # ActualOf(b)
       \/ balance[b].calls < Cardinality(CallsOf(b))

Inventory ==
  /\ ~resume.on
  /\ \A c \in Call : row[c].state # "NONE" => endpoint[c].known
  /\ balance' = [b \in Balance |->
                   IF Mismatch \/ \E c \in CallsOf(b) : row[c].state # "SETTLED" \/ Doubted(c)
                   THEN [balance[b] EXCEPT !.state = Freeze(@)] ELSE balance[b]]
  /\ resume' = IF Mismatch \/ ~coverage THEN NoResume
               ELSE [on |-> TRUE, rows |-> {c \in Call : row[c].state # "NONE"}]
  /\ UNCHANGED <<task, row, admission, producer, rec>>

Resumable(b) ==
  /\ balance[b].state \in {"ACTIVE", "PAUSED_UNKNOWN"}
  /\ balance[b].held = 0
  /\ balance[b].settled <= Cap(b) /\ balance[b].calls <= CallCap
  /\ \A c \in CallsOf(b) : row[c].state = "SETTLED" /\ admission[c] # "open"
  /\ \A c \in CallsOf(b) \cap resume.rows : ~Doubted(c)

\* resume_budgets, after its inventory: the only way back to ACTIVE.  Other
\* steps may come between the two transactions.
Resume(S) ==
  /\ resume.on
  /\ \A b \in S : Resumable(b)
  /\ balance' = [b \in Balance |-> IF b \in S THEN [balance[b] EXCEPT !.state = "ACTIVE"]
                                   ELSE balance[b]]
  /\ resume' = NoResume
  /\ UNCHANGED <<task, row, admission, producer, rec>>

ResumeDenied ==
  /\ resume.on
  /\ resume' = NoResume
  /\ UNCHANGED <<task, ledger, admission, producer, rec>>

\* pause_admission: the answer of a lifecycle barrier is uncertain.
PauseAdmission ==
  /\ \E b \in Balance : balance[b].state = "ACTIVE"
  /\ balance' = [b \in Balance |-> [balance[b] EXCEPT !.state = Freeze(@)]]
  /\ UNCHANGED <<task, row, admission, producer, rec, resume>>

Next ==
  \/ \E c \in Call :
       \/ Reserve(c) \/ ReserveRival(c) \/ Register(c) \/ Admit(c) \/ Mark(c) \/ Send(c)
       \/ MarkUnknown(c) \/ Finish(c) \/ CloseCall(c) \/ LateUsage(c)
       \/ ReconcileRead(c) \/ ReconcileAbort(c) \/ ReconcileLost(c)
       \/ RunCommit(c) \/ RecoveryCommit(c) \/ ReconcileAfter(c)
       \/ RecoverCall(c) \/ Cancel(c)
  \/ \E t \in Task : \E S \in {{Account}, {t}, {Account, t}} : Resume(S)
  \/ ResumeDenied \/ LoseCoverage \/ Inventory \/ PauseAdmission

Spec == Init /\ [][Next]_vars

-----------------------------------------------------------------------------
\* Money is neither lost nor made: through retained lower bounds, settlements,
\* their revisions and doubt after a settlement, the account's and each task's
\* balance stay the sums of what their calls hold and have used.
Conservation ==
  \A b \in Balance : balance[b].held = HeldOf(b) /\ balance[b].settled = ActualOf(b)

\* A scope that admits calls is within its cap: when one call's settlement
\* overruns its reservation, the shared account stops, and neither a later
\* settlement nor resume_budgets lets it go on above the cap.
ActiveWithinCap ==
  \A b \in Balance :
    balance[b].state = "ACTIVE" => balance[b].settled + balance[b].held <= Cap(b)

\* A call that was never settled keeps at least its reservation held, and a
\* call in doubt or in conflict stops both its scopes until it is settled.
UnresolvedFreezes ==
  \A c \in Call :
    /\ row[c].state \notin {"NONE", "SETTLED"} /\ row[c].revision = 0 => row[c].held >= Reserved
    /\ row[c].state \in {"IN_DOUBT", "CONFLICT"} =>
         \A b \in BalancesOf(c) : balance[b].state # "ACTIVE"

\* A settlement is revised, and a conflict left, only by a recovery decision
\* that has not settled the call before.
RevisedByDecision ==
  [][\A c \in Call :
       \/ row[c].revision > 0 /\ row'[c].revision # row[c].revision
       \/ row[c].state = "CONFLICT" /\ row'[c].state # "CONFLICT"
       => /\ row'[c].used # row[c].used
          /\ row[c].gen > 1]_vars
=============================================================================
