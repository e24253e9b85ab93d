---------------------------- MODULE ResearchTask ----------------------------
(***************************************************************************)
(* Local tasks of one research context.  A task is a sequence of immutable *)
(* versions, each an ordered list of exact plans under a request limit;    *)
(* approving a version's budget holds one request per plan for ever.       *)
(* Operators act on what they last read: a command names a version and the *)
(* number of events it expects, and is stale when either has moved on.     *)
(*                                                                         *)
(* Every operation locks the context, so an operation is one step.  The    *)
(* plans belong to verified intents, whose expiry is recorded durably by   *)
(* whoever meets it, in a transaction of its own.                          *)
(***************************************************************************)
EXTENDS Integers, Sequences, FiniteSets, FiniteSetsExt, SequencesExt

CONSTANTS
  Number,         \* numbers of tasks
  Plan, Intent,
  IntentOf,       \* plan -> its intent
  Needs,          \* plan -> the plans that it depends on
  End,            \* intent -> when it ends
  Limits,         \* limits of target requests that operators ask for
  Cap,            \* the intake's budget of target requests
  Operator,
  MaxTasks, MaxVersions, MaxEvents,   \* 128, 16 and 64 in the code
  MaxTime, MaxSetBack,
  MaxTrouble      \* bound of the events that disturb the tasks

ASSUME TaskAssumption ==
  /\ IntentOf \in [Plan -> Intent] /\ Needs \in [Plan -> SUBSET Plan] /\ End \in [Intent -> Nat]
  /\ Limits \subseteq Nat \ {0} /\ Cap \in Nat
  /\ {MaxTasks, MaxVersions, MaxEvents, MaxTime, MaxSetBack, MaxTrouble} \subseteq Nat
  /\ MaxVersions > 0

VARIABLES
  now,            \* server UTC
  setBack,        \* how far it has been set back
  trouble,        \* disturbing events so far
  permission,     \* [digest, stands]: what _base reads
  fault,          \* intents with a durable fault
  cancelled,      \* plans with a cancellation row
  version,        \* task -> sequence of version rows with their members
  event,          \* task -> sequence of events
  held,           \* task -> plans in the order of their slots
  view,           \* operator -> the last view it was given
  met             \* ghost: intents that some operation met after their end

vars == <<now, setBack, trouble, permission, fault, cancelled, version, event, held, view, met>>
facts == <<now, setBack, trouble, permission, cancelled>>

\* Shapes of the rows and of the commands.
MemberList == {s \in SeqOf(Plan, Cardinality(Plan)) : s # <<>> /\ IsInjective(s)}
VersionRow == [members : MemberList, limit : Limits, permission : Nat, at : Int, until : Int]
Kind == {"version_created", "approved", "revoked", "paused", "cancelled"}
EventRow == [kind : Kind, version : 1..MaxVersions, at : Int]
State == {"awaiting_budget_approval", "budget_approved", "budget_revoked", "paused", "cancelled", "superseded"}
View ==
  [number : Number, version : 1..MaxVersions, sequence : 0..MaxEvents, state : State,
   dependencies : BOOLEAN, budget : BOOLEAN]
NoView == [number |-> 0]
Action == {"pause", "cancel", "start", "resume", "dispatch"}

Init ==
  /\ now = MaxSetBack /\ setBack = 0 /\ trouble = 0
  /\ permission = [digest |-> 0, stands |-> TRUE]
  /\ fault = {} /\ cancelled = {} /\ met = {}
  /\ version = [n \in Number |-> <<>>]
  /\ event = [n \in Number |-> <<>>]
  /\ held = [n \in Number |-> <<>>]
  /\ view = [o \in Operator |-> NoView]

-----------------------------------------------------------------------------
(* What a version depends on                                               *)

Exists(n) == version[n] # <<>>
Latest(n) == Len(version[n])
Holds(n) == ToSet(held[n])
EventsOf(es, v, kinds) == \E k \in DOMAIN es : es[k].version = v /\ es[k].kind \in kinds

\* A plan that is a member of any version of another task is taken.
Unbound(n, p) ==
  \A m \in Number \ {n} : \A v \in DOMAIN version[m] : p \notin ToSet(version[m][v].members)

\* One turn of _snapshot's loop; the intent is asked first.
Met(p) == IntentOf[p] \notin fault /\ now >= End[IntentOf[p]]
MemberHolds(n, s, k) ==
  /\ IntentOf[s[k]] \notin fault /\ now < End[IntentOf[s[k]]]
  /\ s[k] \notin cancelled /\ Unbound(n, s[k])
  /\ \A p \in Needs[s[k]] : \E j \in 1..(k - 1) : s[j] = p

\* The intents whose end the loop meets: it stops at the first member that
\* does not hold.
Overdue(n, s) ==
  {IntentOf[s[k]] : k \in {j \in DOMAIN s : Met(s[j]) /\ \A i \in 1..(j - 1) : MemberHolds(n, s, i)}}

SnapshotEnd(s) == Min({End[IntentOf[p]] : p \in ToSet(s)})
SnapshotHolds(n, s, limit) ==
  /\ permission.stands /\ limit <= Cap /\ Len(s) <= limit
  /\ \A k \in DOMAIN s : MemberHolds(n, s, k)

\* The intents that a snapshot of these members finds out of their time.
Found(n, s, limit) ==
  IF permission.stands /\ limit <= Cap /\ Len(s) <= limit THEN Overdue(n, s) ELSE {}

\* Clock.invalidate of the children: faults outlive the refusal.
RecordFaults(found) == fault' = fault \cup found

\* Mutant of QualifyFaults: the task's own window is asked before the intents.
QualifyWindowFirst(n, row) ==
  IF row.at <= now /\ now < row.until THEN Found(n, row.members, row.limit) ELSE {}

\* _qualify: the intents are asked before the task's own window, so that
\* their expiry is recorded.
QualifyFaults(n, row) == Found(n, row.members, row.limit)
Qualifies(n, row) ==
  /\ SnapshotHolds(n, row.members, row.limit)
  /\ row.permission = permission.digest
  /\ row.at <= now /\ now < row.until

\* A qualification records what it finds; the ghost remembers what was there.
Qualify(n, row) ==
  RecordFaults(QualifyFaults(n, row)) /\ met' = met \cup Found(n, row.members, row.limit)

-----------------------------------------------------------------------------
(* Views                                                                   *)

\* The state of version v with the events es, when "last" is the latest one.
StateOf(es, v, last) ==
  LET decisions == {k \in DOMAIN es : es[k].version = v /\ es[k].kind \in {"approved", "revoked"}}
  IN IF \E k \in DOMAIN es : es[k].kind = "cancelled" THEN "cancelled"
     ELSE IF v # last THEN "superseded"
     ELSE IF EventsOf(es, v, {"paused"}) THEN "paused"
     ELSE IF decisions = {} THEN "awaiting_budget_approval"
     ELSE IF es[Max(decisions)].kind = "approved" THEN "budget_approved"
     ELSE "budget_revoked"

\* _view of version v, with what the operation has written so far.
ViewOf(n, v, vs, es, hs, qualified) ==
  [number |-> n, version |-> v, sequence |-> Len(es), state |-> StateOf(es, v, Len(vs)), dependencies |-> qualified,
   budget |-> /\ StateOf(es, v, Len(vs)) = "budget_approved" /\ qualified
              /\ Len(hs) <= vs[v].limit /\ ToSet(vs[v].members) \subseteq ToSet(hs)]

\* _append: events are in the order of the clock.
Appended(es, v, kind) == Append(es, [kind |-> kind, version |-> v, at |-> now])
CanAppend(es, at) == Len(es) < MaxEvents /\ now >= at /\ (es # <<>> => now >= Last(es).at)

\* _current: the command names the latest version and counts the events.
Current(o) ==
  /\ view[o] # NoView
  /\ LET n == view[o].number IN
     /\ view[o].version = Latest(n) /\ view[o].sequence = Len(event[n])
     /\ ~ \E k \in DOMAIN event[n] : event[n][k].kind = "cancelled"

-----------------------------------------------------------------------------
(* Operations                                                              *)

\* Mutant of Retained: a new draft forgets what older versions hold.
RetainedMembers(n, s) == Cardinality(ToSet(s))

\* Holds survive every version and count against the new limit.
Retained(n, s) == Cardinality(Holds(n) \cup ToSet(s))

\* create_version; the first version makes the task.
CreateVersion(o, n, s, limit) ==
  /\ IF Exists(n) THEN view[o] # NoView /\ view[o].number = n /\ Current(o) /\ Latest(n) < MaxVersions
     ELSE Cardinality({m \in Number : Exists(m)}) < MaxTasks
  /\ LET row == [members |-> s, limit |-> limit, permission |-> permission.digest,
                 at |-> now, until |-> SnapshotEnd(s)]
         vs == Append(version[n], row)
         es == Appended(event[n], Len(vs), "version_created")
     IN IF /\ SnapshotHolds(n, s, limit) /\ CanAppend(event[n], now)
           /\ Retained(n, s) <= limit
        THEN /\ version' = [version EXCEPT ![n] = vs] /\ event' = [event EXCEPT ![n] = es]
             /\ view' = [view EXCEPT ![o] = ViewOf(n, Len(vs), vs, es, held[n], TRUE)]
             /\ UNCHANGED <<fault, met>>
        ELSE /\ Found(n, s, limit) # {} /\ RecordFaults(Found(n, s, limit)) /\ met' = met \cup Found(n, s, limit)
             /\ UNCHANGED <<version, event, view>>
  /\ UNCHANGED <<facts, held>>

\* inspect_task: every version stays readable; a failed qualification is
\* caught, and the view says so.
InspectTask(o, n, v) ==
  /\ v \in DOMAIN version[n]
  /\ Qualify(n, version[n][v])
  /\ view' = [view EXCEPT ![o] = ViewOf(n, v, version[n], event[n], held[n], Qualifies(n, version[n][v]))]
  /\ UNCHANGED <<facts, version, event, held>>

\* Mutant of Undecided: only a budget that is approved now refuses another approval.
UndecidedNow(es, v) == StateOf(es, v, v) # "budget_approved"

\* Re-approval after any withdrawal requires a reviewable version.
Undecided(es, v) == ~EventsOf(es, v, {"approved", "revoked", "paused"})

\* _allocate: one slot for each member that the task does not hold yet.
Allocated(hs, s) ==
  LET slots[k \in 0..Len(s)] ==
        IF k = 0 THEN hs ELSE IF s[k] \in ToSet(hs) THEN slots[k - 1] ELSE Append(slots[k - 1], s[k])
  IN slots[Len(s)]

\* decide_budget with the decision "approved".
ApproveBudget(o) ==
  /\ Current(o)
  /\ LET n == view[o].number
         v == view[o].version
         row == version[n][v]
         hs == Allocated(held[n], row.members)
         es == Appended(event[n], v, "approved")
     IN /\ Undecided(event[n], v)
        /\ IF Qualifies(n, row) /\ Len(hs) <= row.limit /\ CanAppend(event[n], row.at)
           THEN /\ held' = [held EXCEPT ![n] = hs] /\ event' = [event EXCEPT ![n] = es]
                /\ view' = [view EXCEPT ![o] = ViewOf(n, v, version[n], es, hs, TRUE)]
                /\ UNCHANGED <<fault, met>>
           ELSE /\ Found(n, row.members, row.limit) # {} /\ Qualify(n, row)
                /\ UNCHANGED <<held, event, view>>
  /\ UNCHANGED <<facts, version>>

\* An event without a new qualification; the view qualifies by itself.
Withdraw(o, kind) ==
  LET n == view[o].number
      v == view[o].version
      es == Appended(event[n], v, kind)
  IN /\ CanAppend(event[n], version[n][v].at)
     /\ event' = [event EXCEPT ![n] = es]
     /\ Qualify(n, version[n][v])
     /\ view' = [view EXCEPT ![o] = ViewOf(n, v, version[n], es, held[n], Qualifies(n, version[n][v]))]
     /\ UNCHANGED <<facts, version, held>>

RevokeBudget(o) ==
  /\ Current(o) /\ EventsOf(event[view[o].number], view[o].version, {"approved"})
  /\ Withdraw(o, "revoked")

\* transition; start, resume and dispatch are always refused.
Transition(o, action) ==
  /\ Current(o) /\ action \in {"pause", "cancel"}
  /\ Withdraw(o, IF action = "pause" THEN "paused" ELSE "cancelled")

\* The commands of the router, each in one transaction.
TaskRequest(o) ==
  \/ \E n \in Number, s \in MemberList, limit \in Limits : CreateVersion(o, n, s, limit)
  \/ \E n \in Number, v \in 1..MaxVersions : InspectTask(o, n, v)
  \/ ApproveBudget(o) \/ RevokeBudget(o)
  \/ \E action \in Action : Transition(o, action)

-----------------------------------------------------------------------------
(* What happens around the tasks                                           *)

Disturb == trouble < MaxTrouble /\ trouble' = trouble + 1

Tick ==
  /\ now - MaxSetBack + setBack < MaxTime /\ now' = now + 1
  /\ UNCHANGED <<setBack, trouble, permission, fault, cancelled, version, event, held, view, met>>

SetBack ==
  /\ Disturb /\ setBack < MaxSetBack /\ now' = now - 1 /\ setBack' = setBack + 1
  /\ UNCHANGED <<permission, fault, cancelled, version, event, held, view, met>>

\* The clock goes back while an operation reads a task: the parent's failure
\* faults every intent that it has asked.
ClockDisorder(n, v) ==
  /\ Disturb /\ setBack < MaxSetBack /\ now' = now - 1 /\ setBack' = setBack + 1
  /\ v \in DOMAIN version[n] /\ permission.stands
  /\ \E k \in DOMAIN version[n][v].members :
       /\ \A j \in 1..(k - 1) : MemberHolds(n, version[n][v].members, j)
       /\ fault' = fault \cup {IntentOf[version[n][v].members[j]] : j \in 1..k}
  /\ UNCHANGED <<permission, cancelled, version, event, held, view, met>>

\* The authorization ends, comes back, or its terms change, perhaps to what
\* they were before.
ChangePermission ==
  /\ Disturb
  /\ \E digest \in 0..(permission.digest + 1), stands \in BOOLEAN :
       permission' = [digest |-> digest, stands |-> stands] /\ permission' # permission
  /\ UNCHANGED <<now, setBack, fault, cancelled, version, event, held, view, met>>

CancelPlan(p) ==
  /\ Disturb /\ p \notin cancelled /\ cancelled' = cancelled \cup {p}
  /\ UNCHANGED <<now, setBack, permission, fault, version, event, held, view, met>>

Next ==
  \/ \E o \in Operator : TaskRequest(o)
  \/ Tick \/ SetBack \/ ChangePermission
  \/ \E n \in Number, v \in 1..MaxVersions : ClockDisorder(n, v)
  \/ \E p \in Plan : CancelPlan(p)

Spec == Init /\ [][Next]_vars

-----------------------------------------------------------------------------
(* Properties                                                              *)

\* Every table and every view has its shape.
TypeOK ==
  /\ now \in Int /\ setBack \in 0..MaxSetBack /\ trouble \in 0..MaxTrouble
  /\ permission \in [digest : Nat, stands : BOOLEAN]
  /\ fault \subseteq Intent /\ met \subseteq Intent /\ cancelled \subseteq Plan
  /\ \A n \in Number :
       /\ \A v \in DOMAIN version[n] : version[n][v] \in VersionRow
       /\ \A k \in DOMAIN event[n] : event[n][k] \in EventRow
       /\ ToSet(held[n]) \subseteq Plan
  /\ \A o \in Operator : view[o] = NoView \/ view[o] \in View

\* A request that was approved once stays held: by one task only, once, also
\* after the budget is revoked, the task is cancelled or a later version
\* leaves the plan out; and the latest version's limit always covers it.
LiabilityCovered ==
  /\ \A n \in Number :
       /\ IsInjective(held[n])
       /\ Exists(n) => Len(held[n]) <= version[n][Latest(n)].limit
       /\ Holds(n) = UNION {ToSet(version[n][event[n][k].version].members) :
                              k \in {j \in DOMAIN event[n] : event[n][j].kind = "approved"}}
  /\ \A m, n \in Number : m # n => Holds(m) \cap Holds(n) = {}

\* The views that a step gives to operators.
Given(o) == view'[o] # view[o] /\ view'[o] # NoView

\* An operator who is told that a budget is current is told so of the latest
\* version, which nobody has revoked, paused or cancelled; approving it again
\* after a withdrawal is impossible.
WithdrawnStays ==
  [][\A o \in Operator : Given(o) /\ view'[o].budget =>
       LET n == view'[o].number
           v == view'[o].version
       IN /\ v = Len(version'[n])
          /\ ~EventsOf(event'[n], v, {"revoked", "paused"})
          /\ \A k \in DOMAIN event'[n] : event'[n][k].kind # "cancelled"]_vars

\* Once an operation on a task has met an intent after its end, no view ever
\* says again that the dependencies of a version with its plans are current,
\* even if the clock is set back.
ExpiryStays ==
  [][\A o \in Operator : Given(o) /\ view'[o].dependencies =>
       \A p \in ToSet(version'[view'[o].number][view'[o].version].members) : IntentOf[p] \notin met]_vars
=============================================================================
