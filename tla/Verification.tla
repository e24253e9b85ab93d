---------------------------- MODULE Verification ----------------------------
(***************************************************************************)
(* Research verification of one context: operators record manifests of     *)
(* requests, decide their budget, confirm how responses are read, convert  *)
(* them to intents with one exact plan per role, and approve the plans; a  *)
(* dispatcher sends each plan's request at most once; witnesses of         *)
(* baseline and probe become one pair.                                     *)
(*                                                                         *)
(* The manifest has the actions baseline (with a bearer credential, so it  *)
(* needs a health check first), probe (anonymous) and health_baseline.     *)
(* What a snapshot pins is abstracted to the credential's version, the     *)
(* hold generation of the source observation and the mapping's version.    *)
(* The wall clock can be set back; the monotonic clock cannot.             *)
(***************************************************************************)
EXTENDS Integers, FiniteSets, FiniteSetsExt

CONSTANTS
  Manifest,      \* versions of the manifest, 1..n
  Intent,        \* intent rows, 1..n in the order of their conversion
  Number,        \* intent numbers
  Dispatcher,    \* processes that dispatch
  Expected,      \* "allowed" or "denied": the probe actor's expected access
  ManifestLife, IntentLife, HealthLife, PairWindow, ResponseLife,
  MaxTime,       \* bound of the monotonic clock
  MaxSetBack,    \* how far the wall clock can be set back
  MaxFacts,      \* bound of each counter of facts
  MaxDecisions,  \* decisions per manifest and per plan (MAX_DECISIONS, 16)
  MaxTrouble     \* bound of the events that disturb an orderly verification

ASSUME LivesAssumption ==
  /\ {ManifestLife, IntentLife, HealthLife, PairWindow, ResponseLife} \subseteq Nat \ {0}
  /\ MaxTime \in Nat /\ MaxSetBack \in Nat /\ MaxFacts \in Nat /\ MaxDecisions \in Nat /\ MaxTrouble \in Nat
  /\ Expected \in {"allowed", "denied"}

VARIABLES
  wall, mono,    \* server UTC and the boot's monotonic clock
  trouble,       \* disturbing events so far
  facts,         \* [cred, hold, held, permitted, mapping, confirmed]
  manifest,      \* manifest -> row or None
  budget,        \* manifest -> [n, approved]: decisions so far and the latest
  contract,      \* manifest -> [mark, until] or None
  selection,     \* manifest -> health intent selected or None
  intent,        \* intent -> row or None
  fault,         \* intents with a durable clock or expiry fault
  approval,      \* plan -> [n, approved]
  cancelled, bound,   \* plans cancelled, plans that a task holds
  started,       \* plans whose network marker is committed
  attempt,       \* plan -> mark of the committed attempt or None
  witness,       \* plan -> row or None
  pair,          \* intent -> row or None
  permit,        \* dispatcher that holds the context's advisory permit or None
  lock,          \* dispatcher whose sending transaction holds the locks or None
  disp,          \* dispatcher -> its local state
  sent,          \* ghost: plan -> the requests that left
  refused,       \* ghost: intents that some operation found expired
  disturbed      \* ghost: manifests recorded before a hold or a rotation

clocks == <<wall, mono, trouble>>
rows == <<manifest, budget, contract, selection, intent, approval, cancelled, bound, pair>>
runs == <<started, attempt, witness, permit, lock, disp, sent>>
vars == <<clocks, facts, rows, fault, runs, refused, disturbed>>

None == [state |-> "none"]
Idle == [pc |-> "idle"]

Role == {"baseline", "probe", "health"}
Plan == Intent \X Role
Purpose == {"business", "health_baseline"}
RolesOf(p) == IF p = "business" THEN {"baseline", "probe"} ELSE {"health"}
\* The manifest's action that a plan of the purpose and role consumes.
SlotOf(p, r) == IF r = "health" THEN p ELSE r

\* One more disturbing event, when the condition holds.
Count(c) == trouble' = trouble + (IF c THEN 1 ELSE 0) /\ trouble' <= MaxTrouble

Undecided == [n |-> 0, approved |-> FALSE]
Decide(s, ok) == [n |-> s.n + 1, approved |-> ok]
Exists(i) == intent[i] # None
Plans(i) == {<<i, r>> : r \in RolesOf(intent[i].purpose)}

Init ==
  /\ wall = MaxSetBack /\ mono = 0 /\ trouble = 0
  /\ facts = [cred |-> 0, hold |-> 0, held |-> FALSE, permitted |-> TRUE, mapping |-> 1, confirmed |-> TRUE]
  /\ manifest = [m \in Manifest |-> None]
  /\ budget = [m \in Manifest |-> Undecided]
  /\ contract = [m \in Manifest |-> None]
  /\ selection = [m \in Manifest |-> None]
  /\ intent = [i \in Intent |-> None]
  /\ fault = {} /\ refused = {} /\ disturbed = {}
  /\ approval = [p \in Plan |-> Undecided]
  /\ cancelled = {} /\ bound = {} /\ started = {}
  /\ attempt = [p \in Plan |-> None]
  /\ witness = [p \in Plan |-> None]
  /\ pair = [i \in Intent |-> None]
  /\ permit = None /\ lock = None
  /\ disp = [d \in Dispatcher |-> Idle]
  /\ sent = [p \in Plan |-> 0]

-----------------------------------------------------------------------------
(* Clocks and marks                                                        *)

Mark == [at |-> wall, ns |-> mono]

\* _check of a mark against an end: neither clock extends a deadline.
Before(mark, end) == wall < end /\ mono - mark.ns < end - mark.at
NotEarlier(mark) == wall >= mark.at

Within(mark, seconds) == NotEarlier(mark) /\ Before(mark, mark.at + seconds)

Tick ==
  /\ mono < MaxTime
  /\ mono' = mono + 1 /\ wall' = wall + 1
  /\ UNCHANGED <<trouble, facts, rows, fault, runs, refused, disturbed>>

\* Someone corrects the wall clock.
SetBack ==
  /\ wall - mono > 0
  /\ wall' = wall - 1
  /\ Count(TRUE)
  /\ UNCHANGED <<mono, facts, rows, fault, runs, refused, disturbed>>

-----------------------------------------------------------------------------
(* What intents depend on                                                  *)

\* Mutant of Snapshot: only what is available now is pinned.
SnapshotNow == [cred |-> facts.cred, mapping |-> facts.mapping]

\* Mapping, actor and manifest snapshots: the credential's version, each
\* source's hold generation and the mapping's version are pinned.
Snapshot == [cred |-> facts.cred, hold |-> facts.hold, mapping |-> facts.mapping]

\* _base, _mapping and _actor succeed: the permission stands, the latest
\* mapping is confirmed and the source can be read.
Eligible == facts.permitted /\ facts.confirmed /\ ~facts.held

LatestManifest(m) == manifest[m] # None /\ \A n \in Manifest : manifest[n] # None => n <= m

\* _manifest: the latest version, in its window, with an unchanged snapshot.
InWindow(row) == row.at <= wall /\ wall < row.until
ManifestHolds(m) ==
  /\ LatestManifest(m) /\ InWindow(manifest[m])
  /\ Eligible /\ manifest[m].snapshot = Snapshot

\* Facts change in transactions of their own, which the locks of a sending
\* transaction exclude.
ChangePermission ==
  /\ lock = None
  /\ facts' = [facts EXCEPT !.permitted = ~@]
  /\ Count(TRUE)
  /\ UNCHANGED <<wall, mono, rows, fault, runs, refused, disturbed>>

RotateCredential ==
  /\ lock = None /\ facts.cred < MaxFacts
  /\ facts' = [facts EXCEPT !.cred = @ + 1]
  /\ disturbed' = disturbed \cup {m \in Manifest : manifest[m] # None}
  /\ Count(TRUE)
  /\ UNCHANGED <<wall, mono, rows, fault, runs, refused>>

Hold ==
  /\ lock = None /\ ~facts.held /\ facts.hold < MaxFacts
  /\ facts' = [facts EXCEPT !.held = TRUE, !.hold = @ + 1]
  /\ disturbed' = disturbed \cup {m \in Manifest : manifest[m] # None}
  /\ Count(TRUE)
  /\ UNCHANGED <<wall, mono, rows, fault, runs, refused>>

ReleaseHold ==
  /\ lock = None /\ facts.held
  /\ facts' = [facts EXCEPT !.held = FALSE]
  /\ UNCHANGED <<clocks, rows, fault, runs, refused, disturbed>>

ConfirmMapping ==
  /\ lock = None /\ facts.permitted /\ facts.mapping <= MaxFacts
  /\ \E c \in BOOLEAN : facts' = [facts EXCEPT !.mapping = @ + 1, !.confirmed = c]
  /\ Count(TRUE)
  /\ UNCHANGED <<wall, mono, rows, fault, runs, refused, disturbed>>

-----------------------------------------------------------------------------
(* Manifest, budget, contract                                              *)

RecordManifest(m) ==
  /\ lock = None /\ manifest[m] = None
  /\ \A n \in Manifest : n < m => manifest[n] # None /\ wall >= manifest[n].at
  /\ Eligible
  /\ manifest' = [manifest EXCEPT ![m] = [state |-> "row", at |-> wall, until |-> wall + ManifestLife, snapshot |-> Snapshot]]
  /\ Count(m > 1)
  /\ UNCHANGED <<wall, mono, facts, budget, contract, selection, intent, approval, cancelled, bound, pair, fault, runs, refused, disturbed>>

\* decide_budget appends a decision on a manifest that holds.
DecideBudget(m) ==
  /\ lock = None /\ ManifestHolds(m) /\ budget[m].n < MaxDecisions
  /\ \E ok \in BOOLEAN : budget' = [budget EXCEPT ![m] = Decide(@, ok)] /\ Count(budget[m].n > 0 \/ ~ok)
  /\ UNCHANGED <<wall, mono, facts, manifest, contract, selection, intent, approval, cancelled, bound, pair, fault, runs, refused, disturbed>>

\* confirm: one contract per manifest.
Confirm(m) ==
  /\ lock = None /\ ManifestHolds(m) /\ contract[m] = None
  /\ contract' = [contract EXCEPT ![m] = [state |-> "row", mark |-> Mark, until |-> manifest[m].until]]
  /\ UNCHANGED <<clocks, facts, manifest, budget, selection, intent, approval, cancelled, bound, pair, fault, runs, refused, disturbed>>

ContractTime(m) == NotEarlier(contract[m].mark) /\ Before(contract[m].mark, contract[m].until)

-----------------------------------------------------------------------------
(* Intents                                                                 *)

LatestIntent(i) ==
  \A j \in Intent : Exists(j) /\ intent[j].number = intent[i].number => j <= i

\* bind_clock: the durable fault of the exact intent is checked first.
Unfaulted(i) == i \notin fault

\* What read asks of an intent before it asks for its health: the pinned
\* decision on the budget must still be the latest.
Stands(i) ==
  LET m == intent[i].manifest IN
  /\ LatestIntent(i) /\ Unfaulted(i)
  /\ ManifestHolds(m) /\ budget[m].approved /\ intent[i].budget = budget[m]
  /\ contract[m] # None

OwnTime(i) == InWindow(intent[i]) /\ ContractTime(intent[i].manifest)

\* _healthy: the original health intent is current, its plan is still
\* approved, and its evidence is fresh on both clocks.
HealthEnd(h) ==
  LET w == witness[<<h, "health">>] IN
  Min({intent[h].until, contract[intent[h].manifest].until, w.until, w.send.at + HealthLife})
HealthHolds(h) ==
  LET w == witness[<<h, "health">>] IN
  /\ intent[h].purpose = "health_baseline"
  /\ w # None /\ w.outcome = "healthy" /\ w.temporal = "qualified"
  /\ Stands(h)
  /\ approval[<<h, "health">>].approved /\ <<h, "health">> \notin cancelled
  /\ intent[h].snapshot.cred = facts.cred
HealthTime(h) ==
  LET w == witness[<<h, "health">>] IN
  /\ OwnTime(h) /\ NotEarlier(w.send) /\ NotEarlier(w.complete) /\ NotEarlier(w.clock)
  /\ Within(w.send, HealthLife) /\ Before(w.send, HealthEnd(h))

\* business_boundary: a recorded baseline narrows its intent.
PairTime(i) ==
  LET b == witness[<<i, "baseline">>] IN b # None => Within(b.complete, PairWindow)

\* current_intent without the clocks; then the intents that the clocks fault.
Facts(i) ==
  /\ Stands(i)
  /\ intent[i].purpose = "business" =>
       /\ selection[intent[i].manifest] = intent[i].health
       /\ HealthHolds(intent[i].health.id)
TimeFaults(i) ==
  IF ~OwnTime(i) THEN {i}
  ELSE IF intent[i].purpose = "business" /\ ~HealthTime(intent[i].health.id) THEN {i, intent[i].health.id}
  ELSE IF intent[i].purpose = "business" /\ ~PairTime(i) THEN {i} ELSE {}
CurrentIntent(i) == Exists(i) /\ Facts(i) /\ TimeFaults(i) = {}

\* Clock.invalidate: the fault commits in a transaction of its own.
RecordFaults(s) == fault' = fault \cup s

\* Any operation on an intent that finds it out of its time.
ObserveExpiry(i) ==
  /\ lock = None /\ Exists(i) /\ LatestIntent(i) /\ Unfaulted(i)
  /\ \/ ~InWindow(intent[i]) /\ RecordFaults({i}) /\ refused' = refused \cup {i}
     \/ /\ Facts(i) /\ TimeFaults(i) # {}
        /\ RecordFaults(TimeFaults(i)) /\ refused' = refused \cup TimeFaults(i)
  /\ UNCHANGED <<clocks, facts, rows, runs, disturbed>>

\* Mutant of Unconsumed: a manifest can fund a second intent.
UnconsumedAlways(m, p) == TRUE

Unconsumed(m, p) == \A j \in Intent : Exists(j) => ~(intent[j].manifest = m /\ intent[j].purpose = p)

\* convert: one intent per manifest and purpose, with a plan for each role.
Convert(i, n, m, p) ==
  /\ lock = None /\ ~Exists(i) /\ \A j \in Intent : j < i => Exists(j)
  /\ ManifestHolds(m) /\ budget[m].approved /\ contract[m] # None /\ ContractTime(m)
  /\ \A j \in Intent : Exists(j) /\ intent[j].number = n => wall >= intent[j].at
  /\ p = "business" =>
       /\ selection[m] # None
       /\ HealthHolds(selection[m].id) /\ HealthTime(selection[m].id)
  /\ Unconsumed(m, p)
  /\ intent' = [intent EXCEPT ![i] =
       [state |-> "row", number |-> n, purpose |-> p, manifest |-> m, budget |-> budget[m], snapshot |-> Snapshot,
        at |-> wall, health |-> IF p = "business" THEN selection[m] ELSE None,
        until |-> Min({manifest[m].until, wall + IntentLife}
                      \cup (IF p = "business" THEN {HealthEnd(selection[m].id)} ELSE {}))]]
  /\ UNCHANGED <<clocks, facts, manifest, budget, contract, selection, approval, cancelled, bound, pair, fault, runs, refused, disturbed>>

\* select_health: one selection per manifest, of evidence that holds now.
SelectHealth(m, h) ==
  /\ lock = None /\ Exists(h) /\ selection[m] = None
  /\ ManifestHolds(m) /\ contract[m] # None /\ ContractTime(m)
  /\ HealthHolds(h) /\ HealthTime(h)
  /\ selection' = [selection EXCEPT ![m] = [state |-> "row", id |-> h]]
  /\ UNCHANGED <<clocks, facts, manifest, budget, contract, intent, approval, cancelled, bound, pair, fault, runs, refused, disturbed>>

\* approve: decisions on an exact plan of a current intent.
Approve(i, r) ==
  /\ lock = None /\ CurrentIntent(i) /\ <<i, r>> \in Plans(i)
  /\ approval[<<i, r>>].n < MaxDecisions
  /\ \E ok \in BOOLEAN :
       approval' = [approval EXCEPT ![<<i, r>>] = Decide(@, ok)] /\ Count(approval[<<i, r>>].n > 0 \/ ~ok)
  /\ UNCHANGED <<wall, mono, facts, manifest, budget, contract, selection, intent, cancelled, bound, pair, fault, runs, refused, disturbed>>

\* request_cancel of a plan that has not crossed the network boundary.
Cancel(i, r) ==
  /\ lock = None /\ Exists(i) /\ <<i, r>> \in Plans(i) \ (started \cup cancelled)
  /\ cancelled' = cancelled \cup {<<i, r>>}
  /\ Count(TRUE)
  /\ UNCHANGED <<wall, mono, facts, manifest, budget, contract, selection, intent, approval, bound, pair, fault, runs, refused, disturbed>>

\* A task version takes the plan of a current intent as a member.
BindTask(i, r) ==
  /\ lock = None /\ CurrentIntent(i) /\ <<i, r>> \in Plans(i) \ (cancelled \cup bound)
  /\ bound' = bound \cup {<<i, r>>}
  /\ Count(TRUE)
  /\ UNCHANGED <<wall, mono, facts, manifest, budget, contract, selection, intent, approval, cancelled, pair, fault, runs, refused, disturbed>>

-----------------------------------------------------------------------------
(* Dispatch of one plan                                                    *)

\* Dispatch.validate.
Dispatchable(i, r) ==
  /\ CurrentIntent(i) /\ <<i, r>> \notin bound
  /\ approval[<<i, r>>].approved /\ <<i, r>> \notin cancelled
  /\ r = "probe" =>
       LET b == witness[<<i, "baseline">>] IN
       /\ b # None /\ b.outcome = "object_read" /\ b.temporal = "qualified"
       /\ approval[<<i, "baseline">>].approved /\ <<i, "baseline">> \notin cancelled
       /\ Within(b.complete, PairWindow)

At(d, pc) == disp[d].pc = pc
Job(d) == <<disp[d].intent, disp[d].role>>

\* context_permit, the claim and the validation that precedes the wait.
Begin(d, i, r) ==
  /\ At(d, "idle") /\ permit = None /\ lock = None
  /\ Exists(i) /\ <<i, r>> \in Plans(i) \ started
  /\ Dispatchable(i, r)
  /\ permit' = [state |-> "held", by |-> d]
  /\ disp' = [disp EXCEPT ![d] = [pc |-> "waiting", intent |-> i, role |-> r]]
  /\ UNCHANGED <<clocks, facts, rows, fault, started, attempt, witness, lock, sent, refused, disturbed>>

\* before_network: the durable marker comes first.
MarkStarted(d) ==
  /\ At(d, "waiting") /\ Job(d) \notin started \cup cancelled
  /\ started' = started \cup {Job(d)}
  /\ disp' = [disp EXCEPT ![d].pc = "marked"]
  /\ UNCHANGED <<clocks, facts, rows, fault, attempt, witness, permit, lock, sent, refused, disturbed>>

\* A slot of the manifest is consumed by its first committed attempt.
SlotFree(i, r) ==
  \A j \in Intent : Exists(j) /\ intent[j].manifest = intent[i].manifest =>
    \A q \in Plans(j) :
      attempt[q] # None => SlotOf(intent[j].purpose, q[2]) # SlotOf(intent[i].purpose, r)

\* Mutant of LockAndCheck: the checks run without the locks.
CheckUnlocked(d) ==
  /\ At(d, "marked") /\ lock = None
  /\ Dispatchable(Job(d)[1], Job(d)[2]) /\ SlotFree(Job(d)[1], Job(d)[2])
  /\ disp' = [disp EXCEPT ![d].pc = "locked"]
  /\ UNCHANGED <<clocks, facts, rows, fault, started, attempt, witness, permit, lock, sent, refused, disturbed>>

\* sending: one transaction takes the context's, the tables' and the plan's
\* locks and validates again.
LockAndCheck(d) ==
  /\ At(d, "marked") /\ lock = None
  /\ Dispatchable(Job(d)[1], Job(d)[2]) /\ SlotFree(Job(d)[1], Job(d)[2])
  /\ lock' = [state |-> "held", by |-> d]
  /\ disp' = [disp EXCEPT ![d].pc = "locked"]
  /\ UNCHANGED <<clocks, facts, rows, fault, started, attempt, witness, permit, sent, refused, disturbed>>

\* The last sample of the clock, then the bytes are written.
Send(d) ==
  /\ At(d, "locked") /\ TimeFaults(Job(d)[1]) = {}
  /\ sent' = [sent EXCEPT ![Job(d)] = @ + 1]
  /\ disp' = [disp EXCEPT ![d] = [pc |-> "sent", intent |-> @.intent, role |-> @.role, send |-> Mark]]
  /\ UNCHANGED <<clocks, facts, rows, fault, started, attempt, witness, permit, lock, refused, disturbed>>

\* The transaction is over: its locks are free.
Unlock(d) == lock' = IF lock # None /\ lock.by = d THEN None ELSE lock

\* The clock of the sending transaction runs out before the bytes are written,
\* or after: the attempt is rolled back, the marker and the fault stay.
SendTooLate(d) ==
  /\ disp[d].pc \in {"locked", "sent"} /\ TimeFaults(Job(d)[1]) # {}
  /\ RecordFaults(TimeFaults(Job(d)[1])) /\ refused' = refused \cup TimeFaults(Job(d)[1])
  /\ disp' = [disp EXCEPT ![d] = Idle] /\ Unlock(d)
  /\ permit' = IF permit # None /\ permit.by = d THEN None ELSE permit
  /\ UNCHANGED <<clocks, facts, rows, started, attempt, witness, sent, disturbed>>

CommitAttempt(d) ==
  /\ At(d, "sent") /\ TimeFaults(Job(d)[1]) = {}
  /\ attempt' = [attempt EXCEPT ![Job(d)] = [state |-> "row", prepared |-> disp[d].send]]
  /\ disp' = [disp EXCEPT ![d].pc = "committed"]
  /\ Unlock(d)
  /\ UNCHANGED <<clocks, facts, rows, fault, started, witness, permit, sent, refused, disturbed>>

\* interpret of research_response_semantics.  A response is what the
\* interpreter tells apart: readable (bounded bytes of plain JSON that hold an
\* object), its fields, and whether their values are the expected ones.
Response ==
  [readable : BOOLEAN, fields : SUBSET {"object", "identity", "authenticated", "error", "other"},
   object : BOOLEAN, identity : BOOLEAN, denied : BOOLEAN, status : {200, 403, 500}]
Identity == {"identity", "authenticated"}
Interpret(x, bearer, purpose) ==
  LET allowed == {"object", "error"} \cup (IF bearer THEN Identity ELSE {})
      needsIdentity == bearer /\ (purpose = "health" \/ x.fields \cap (Identity \cup {"error"}) # {})
  IN IF ~(x.readable /\ x.fields \subseteq allowed /\ "object" \in x.fields /\ x.object) THEN "inconclusive"
     ELSE IF needsIdentity /\ ~(Identity \subseteq x.fields /\ x.identity) THEN "inconclusive"
     ELSE IF purpose = "health" THEN
       IF bearer /\ x.status = 200 /\ x.fields = Identity \cup {"object"} THEN "healthy" ELSE "inconclusive"
     ELSE IF x.status = 200 /\ "error" \notin x.fields THEN "object_read"
     ELSE IF x.status = 403 /\ "error" \in x.fields /\ x.denied THEN "business_denied"
     ELSE "inconclusive"

\* What a response can come to, by the role of the request.
Outcomes ==
  [r \in Role |-> {Interpret(x, r # "probe", IF r = "health" THEN "health" ELSE "business") : x \in Response}]

\* completed: the response is interpreted; a clock that has run out, or a
\* slow answer, leaves no qualified result.
Complete(d) ==
  LET i == Job(d)[1]
      late == mono - disp[d].send.ns >= ResponseLife
      out == TimeFaults(i) # {}
  IN /\ At(d, "committed")
     /\ \E o \in Outcomes[disp[d].role] :
          disp' = [disp EXCEPT ![d] =
            [pc |-> "completed", intent |-> i, role |-> @.role, send |-> @.send, complete |-> Mark, response |-> o,
             temporal |-> IF late THEN "network_incomplete"
                          ELSE IF out THEN "clock_or_deadline_invalid" ELSE "qualified"]]
     /\ RecordFaults(TimeFaults(i)) /\ refused' = refused \cup TimeFaults(i)
     /\ UNCHANGED <<clocks, facts, rows, started, attempt, witness, permit, lock, sent, disturbed>>

\* No response arrived: persist_result itself marks the completion, with a
\* clock that is bound to no intent.
NoResponse(d) ==
  /\ At(d, "committed")
  /\ disp' = [disp EXCEPT ![d] =
       [pc |-> "completed", intent |-> @.intent, role |-> @.role, send |-> @.send, complete |-> Mark,
        response |-> "inconclusive", temporal |-> "network_incomplete"]]
  /\ UNCHANGED <<clocks, facts, rows, fault, started, attempt, witness, permit, lock, sent, refused, disturbed>>

\* persist_result validates everything again in check_db, a session of its
\* own, whose locks are free before the witness is written.
Revalidate(d) ==
  LET i == Job(d)[1]
      faults == IF Facts(i) THEN TimeFaults(i) ELSE {}
  IN /\ At(d, "completed") /\ lock = None
     /\ disp' = [disp EXCEPT ![d].pc = "validated",
                             ![d].temporal = IF Dispatchable(i, disp[d].role) THEN @ ELSE "dependency_unavailable"]
     /\ RecordFaults(faults) /\ refused' = refused \cup faults
     /\ UNCHANGED <<clocks, facts, rows, started, attempt, witness, permit, lock, sent, disturbed>>

WitnessEnd(d, i) ==
  Min({intent[i].until, contract[intent[i].manifest].until} \cup
      (CASE disp[d].role = "health" -> {disp[d].send.at + HealthLife}
         [] disp[d].role = "baseline" -> {disp[d].complete.at + PairWindow}
         [] disp[d].role = "probe" -> {witness[<<i, "baseline">>].complete.at + PairWindow}))

\* check_mark of the send by the clock of the result.
InTime(d, i) == NotEarlier(disp[d].send) /\ Before(disp[d].send, WitnessEnd(d, i))
Temporal(d, i) ==
  IF InTime(d, i) /\ disp[d].send.at <= disp[d].complete.at /\ NotEarlier(disp[d].complete)
  THEN disp[d].temporal ELSE "clock_or_deadline_invalid"

Done(d) ==
  /\ disp' = [disp EXCEPT ![d] = Idle]
  /\ permit' = IF permit # None /\ permit.by = d THEN None ELSE permit

\* The run and its witness commit together; after the validation only the
\* clocks are looked at again.
Persist(d) ==
  LET i == Job(d)[1]
      t == Temporal(d, i)
      faults == IF InTime(d, i) THEN {} ELSE {i}
  IN /\ At(d, "validated") /\ lock = None
     /\ t = "qualified" => TimeFaults(i) = {}
     /\ witness' = [witness EXCEPT ![Job(d)] =
          [state |-> "row", send |-> disp[d].send, complete |-> disp[d].complete, clock |-> Mark, temporal |-> t,
           outcome |-> IF t = "qualified" THEN disp[d].response ELSE "inconclusive", until |-> WitnessEnd(d, i)]]
     /\ RecordFaults(faults) /\ refused' = refused \cup faults
     /\ Done(d)
     /\ UNCHANGED <<clocks, facts, rows, started, attempt, lock, sent, disturbed>>

\* The last check of the dispatch's own clock fails: the result is rolled
\* back, the fault and the attempt stay.
PersistTooLate(d) ==
  LET i == Job(d)[1]
  IN /\ At(d, "validated") /\ lock = None
     /\ Temporal(d, i) = "qualified" /\ TimeFaults(i) # {}
     /\ RecordFaults(TimeFaults(i)) /\ refused' = refused \cup TimeFaults(i)
     /\ Done(d)
     /\ UNCHANGED <<clocks, facts, rows, started, attempt, witness, lock, sent, disturbed>>

\* Any failure, refusal or crash of a dispatcher: its transaction rolls back,
\* its locks and its permit are gone, what has committed stays.
Fail(d) ==
  /\ disp[d].pc # "idle"
  /\ disp' = [disp EXCEPT ![d] = Idle] /\ Unlock(d)
  /\ permit' = IF permit # None /\ permit.by = d THEN None ELSE permit
  /\ Count(TRUE)
  /\ UNCHANGED <<wall, mono, facts, rows, fault, started, attempt, witness, sent, refused, disturbed>>

\* The session of the permit is lost; the dispatcher does not notice.
LosePermit ==
  /\ permit # None /\ permit' = None
  /\ Count(TRUE)
  /\ UNCHANGED <<wall, mono, facts, rows, fault, started, attempt, witness, lock, disp, sent, refused, disturbed>>

-----------------------------------------------------------------------------
(* Pairs                                                                   *)

\* Mutant of PairOutcome: an expected denial accuses.
PairOutcomeSwapped(expected, b, p) ==
  IF b # "object_read" THEN "inconclusive"
  ELSE IF p = "object_read" THEN IF expected = "allowed" THEN "allowed" ELSE "expected_denial"
  ELSE IF p = "business_denied" /\ expected = "denied" THEN "suspected_violation"
  ELSE "inconclusive"

\* pair_outcome of research_response_semantics.
PairOutcome(expected, b, p) ==
  IF b # "object_read" THEN "inconclusive"
  ELSE IF p = "object_read" THEN IF expected = "allowed" THEN "allowed" ELSE "suspected_violation"
  ELSE IF p = "business_denied" /\ expected = "denied" THEN "expected_denial"
  ELSE "inconclusive"

Qualified(p) ==
  /\ witness[p] # None /\ witness[p].temporal = "qualified" /\ NotEarlier(witness[p].clock)
  /\ approval[p].approved /\ p \notin cancelled

PairHolds(i, probed) ==
  LET b == witness[<<i, "baseline">>]
      p == witness[<<i, "probe">>]
  IN /\ CurrentIntent(i) /\ intent[i].purpose = "business"
     /\ Qualified(<<i, "baseline">>) /\ Within(b.complete, PairWindow)
     /\ b.outcome = "object_read" <=> probed
     /\ probed => /\ Qualified(<<i, "probe">>)
                  /\ p.send.at >= b.complete.at /\ p.send.ns >= b.complete.ns

\* verify_pair: one pair per intent; a retry finds it.
VerifyPair(i, probed) ==
  LET result == PairOutcome(Expected, witness[<<i, "baseline">>].outcome,
                            IF probed THEN witness[<<i, "probe">>].outcome ELSE "none")
  IN /\ lock = None /\ Exists(i) /\ pair[i] = None /\ PairHolds(i, probed)
     /\ pair' = [pair EXCEPT ![i] = [state |-> "row", probed |-> probed, outcome |-> result]]
     /\ UNCHANGED <<clocks, facts, manifest, budget, contract, selection, intent, approval, cancelled, bound, fault, runs, refused, disturbed>>

\* What operators ask through the routes of intents, and of verification.
IntentRequest ==
  \/ ConfirmMapping
  \/ \E m \in Manifest :
       \/ RecordManifest(m) \/ DecideBudget(m)
       \/ \E i \in Intent, n \in Number, p \in Purpose : Convert(i, n, m, p)
VerificationRequest ==
  \/ \E m \in Manifest : Confirm(m) \/ \E h \in Intent : SelectHealth(m, h)
  \/ \E i \in Intent :
       \/ \E r \in Role : Approve(i, r) \/ \E d \in Dispatcher : Begin(d, i, r)
       \/ \E probed \in BOOLEAN : VerifyPair(i, probed)

Next ==
  \/ Tick \/ SetBack
  \/ ChangePermission \/ RotateCredential \/ Hold \/ ReleaseHold
  \/ IntentRequest \/ VerificationRequest
  \/ \E i \in Intent : ObserveExpiry(i) \/ \E r \in Role : Cancel(i, r) \/ BindTask(i, r)
  \/ LosePermit
  \/ \E d \in Dispatcher :
       \/ MarkStarted(d) \/ LockAndCheck(d) \/ Send(d) \/ SendTooLate(d) \/ CommitAttempt(d)
       \/ Complete(d) \/ NoResponse(d) \/ Revalidate(d) \/ Persist(d) \/ PersistTooLate(d) \/ Fail(d)

Spec == Init /\ [][Next]_vars

-----------------------------------------------------------------------------
(* Properties                                                              *)

\* The rows of the tables.
Marks == [at : Int, ns : Nat]
Pinned == [cred : Nat, hold : Nat, mapping : Nat]
Decisions == [n : 0..MaxDecisions, approved : BOOLEAN]
ManifestRow == [state : {"row"}, at : Int, until : Int, snapshot : Pinned]
ContractRow == [state : {"row"}, mark : Marks, until : Int]
SelectionRow == [state : {"row"}, id : Intent]
IntentRow ==
  [state : {"row"}, number : Number, purpose : Purpose, manifest : Manifest, budget : Decisions, snapshot : Pinned,
   at : Int, health : SelectionRow \cup {None}, until : Int]
AttemptRow == [state : {"row"}, prepared : Marks]
WitnessRow ==
  [state : {"row"}, send : Marks, complete : Marks, clock : Marks, until : Int,
   temporal : {"qualified", "dependency_unavailable", "network_incomplete", "clock_or_deadline_invalid"},
   outcome : {"healthy", "object_read", "business_denied", "inconclusive"}]
PairRow ==
  [state : {"row"}, probed : BOOLEAN, outcome : {"inconclusive", "allowed", "suspected_violation", "expected_denial"}]

\* Each table holds rows of its shape, one per key.
TypeOK ==
  /\ manifest \in [Manifest -> ManifestRow \cup {None}]
  /\ budget \in [Manifest -> Decisions] /\ approval \in [Plan -> Decisions]
  /\ contract \in [Manifest -> ContractRow \cup {None}]
  /\ selection \in [Manifest -> SelectionRow \cup {None}]
  /\ intent \in [Intent -> IntentRow \cup {None}]
  /\ attempt \in [Plan -> AttemptRow \cup {None}]
  /\ witness \in [Plan -> WitnessRow \cup {None}]
  /\ pair \in [Intent -> PairRow \cup {None}]
  /\ fault \subseteq Intent /\ {cancelled, bound, started} \subseteq SUBSET Plan

SentPlans == {p \in Plan : sent[p] > 0}

\* However often a dispatch is retried, however it fails and whoever else
\* dispatches, one slot of a reviewed manifest costs at most one request.
OneRequestPerSlot ==
  /\ \A p \in Plan : sent[p] <= 1
  /\ \A p, q \in SentPlans :
       /\ intent[p[1]].manifest = intent[q[1]].manifest
       /\ SlotOf(intent[p[1]].purpose, p[2]) = SlotOf(intent[q[1]].purpose, q[2])
       => p = q

\* The plans whose request leaves in a step.
Leaving == {p \in Plan : sent'[p] > sent[p]}

\* Bytes leave only for a plan that is approved, not cancelled and not in a
\* task's hands at that very moment, on a budget whose decision still stands,
\* though all of that was checked in an earlier step; a probe's after its
\* baseline has read the object, and less than the pair window after it on
\* the clock that nobody can set.
SentUnderTerms ==
  [][\A p \in Leaving :
       LET m == intent[p[1]].manifest
           b == witness[<<p[1], "baseline">>]
       IN /\ approval[p].approved /\ p \notin cancelled \cup bound
          /\ facts.permitted /\ budget[m].approved /\ intent[p[1]].budget = budget[m]
          /\ p[2] = "probe" => /\ b # None /\ b.outcome = "object_read"
                               /\ mono - b.complete.ns < PairWindow]_vars

\* The intents that a step relies on: to send their request, to pair their
\* witnesses, or as evidence of health, selected or taken over by a new intent.
Relied ==
  {p[1] : p \in Leaving}
  \cup {i \in Intent : pair[i] = None /\ pair'[i] # None}
  \cup {selection'[m].id : m \in {n \in Manifest : selection[n] = None /\ selection'[n] # None}}
  \cup {intent'[i].health.id : i \in {j \in Intent : ~Exists(j) /\ intent'[j] # None /\ intent'[j].purpose = "business"}}

\* Once an operation has found an intent out of its time, nothing relies on
\* the intent any more, even if the wall clock is set back.  Nor on an intent
\* built on a source that was held, or on a credential that was rotated:
\* releasing the hold does not bring it back.  A hold or a rotation between
\* the last validation of a result and its commit leaves a qualified witness
\* of such an intent; it qualifies no health, no dispatch and no pair.
EndingIsFinal == [][\A i \in Relied : i \notin refused /\ intent[i].manifest \notin disturbed]_vars

\* A pair accuses only on two qualified reads of the object, taken under one
\* credential in that order; and it is never revised.
PairIsEvidence ==
  [][\A i \in Intent :
       /\ pair[i] # None => pair'[i] = pair[i]
       /\ pair[i] = None /\ pair'[i] # None /\ pair'[i].outcome = "suspected_violation" =>
            LET b == witness[<<i, "baseline">>]
                p == witness[<<i, "probe">>]
            IN /\ b.temporal = "qualified" /\ p.temporal = "qualified"
               /\ b.outcome = "object_read" /\ p.outcome = "object_read"
               /\ b.complete.ns <= p.send.ns /\ p.send.ns - b.complete.ns < PairWindow
               /\ intent[i].snapshot = Snapshot]_vars
=============================================================================
