---------------------------- MODULE Observation -----------------------------
(***************************************************************************)
(* Research contexts and the synthetic observations imported into them.    *)
(*                                                                         *)
(* A context owns its targets until it is closed.  An operator prepares an *)
(* import, accepts observations under the preparation, reads, holds,       *)
(* deletes and quarantines them, and maintains the context: a process      *)
(* serves nothing until somebody reconciled the context in its lifetime,   *)
(* because the database may have been restored to an older state.          *)
(*                                                                         *)
(* Every operation takes the context's row lock first and ends in one      *)
(* transaction, so it is one step.  Its event is written in the same       *)
(* transaction: a full event log refuses the operation whole, which is a   *)
(* step that changes nothing, so the log is left out.                      *)
(***************************************************************************)
EXTENDS Integers, Sequences, FiniteSets, FiniteSetsExt, SequencesExt

CONSTANTS
  Ctx, Target, Ref,   \* contexts, targets and references of preparations
  Material,           \* canonical payloads
  BatchOf,            \* material -> its batch reference
  EntriesOf,          \* material -> the entry references in it
  Retention,          \* how long an accepted observation is available
  MaxWindow,          \* 30 days, of a preparation and of a hold
  Keep, Grace,        \* 90 days of tombstones, one day to purge a payload
  MaxIds,             \* bound of the observations accepted
  MaxCorrections,     \* bound of the corrections of a context
  MaxTime,
  MaxTrouble          \* bound of changes around the contexts, and of restarts

ASSUME ObservationAssumption ==
  /\ {Retention, MaxWindow, Keep, Grace} \subseteq Nat \ {0}
  /\ {MaxIds, MaxCorrections, MaxTime, MaxTrouble} \subseteq Nat /\ MaxTime > 0

VARIABLES
  now,        \* server UTC; 0 stands for a NULL time
  boot,       \* BOOT_TOKEN of the running process
  trouble,    \* changes around the contexts so far
  target,     \* target -> [origin, local, digest, stands, facts]
  ctx,        \* context -> [versions, targets, closed]
  prep,       \* context -> reference -> preparation row
  record,     \* id -> record row with its payload
  nextId,     \* the next id of a record
  control,    \* context -> recovery token, 0 for NULL
  backup,     \* a copy of the database, or NoRow
  lastRead,   \* ghost: id -> when its payload was last given out
  deleted     \* ghost: ids that an operator deleted

vars == <<now, boot, trouble, target, ctx, prep, record, nextId, control, backup, lastRead, deleted>>
around == <<now, boot, trouble, target, backup>>

NoRow == [none |-> TRUE]
Id == 1..MaxIds
Time == 0..MaxTime

\* Rows of the tables.
IntakeVersion == [eligible : BOOLEAN, snapshot : [Target -> Nat]]
ContextRow == [versions : Seq(IntakeVersion), targets : SUBSET Target, closed : Time]
PreparationRow == [target : Target, version : Nat \ {0}, until : Nat, origin : Nat, revoked : Time]
RecordRow ==
  [ctx : Ctx, prep : Ref, material : Material, corrects : 0..MaxIds, expires : Nat,
   state : {"available", "quarantined", "deleted"}, unavailable : Nat,
   holdStart : Time, holdUntil : Nat, payload : BOOLEAN]
TargetRow == [origin : Nat, local : BOOLEAN, digest : Nat, stands : BOOLEAN, facts : {"present", "gap", "gone"}]

Init ==
  /\ now = 1 /\ boot = 1 /\ trouble = 0 /\ backup = NoRow
  /\ target = [t \in Target |-> [origin |-> 0, local |-> TRUE, digest |-> 0, stands |-> TRUE, facts |-> "present"]]
  /\ ctx = [c \in Ctx |-> NoRow] /\ prep = [c \in Ctx |-> [r \in Ref |-> NoRow]]
  /\ record = [i \in Id |-> NoRow] /\ nextId = 1 /\ control = [c \in Ctx |-> 0]
  /\ lastRead = [i \in Id |-> 0] /\ deleted = {}

-----------------------------------------------------------------------------
(* Contexts                                                                *)

Open(c) == ctx[c] # NoRow /\ ctx[c].closed = 0
LatestVersion(c) == Len(ctx[c].versions)

\* The partial unique index of active associations.
Owned(t) == \E c \in Ctx : Open(c) /\ t \in ctx[c].targets

\* _append: the intake names local targets; what authorizes them is digested.
Intake(eligible) == [eligible |-> eligible, snapshot |-> [t \in Target |-> target[t].digest]]
Appendable(ts) == \A t \in ts : target[t].local

\* The permission of a version stands while the revision does and nothing
\* in it has changed since the version was recorded.
Permitted(c, v) ==
  \A t \in ctx[c].targets : target[t].stands /\ ctx[c].versions[v].snapshot[t] = target[t].digest

CreateContext(c, ts, eligible) ==
  /\ ctx[c] = NoRow /\ \A t \in ts : ~Owned(t) /\ Appendable(ts)
  /\ ctx' = [ctx EXCEPT ![c] = [versions |-> <<Intake(eligible)>>, targets |-> ts, closed |-> 0]]
  /\ UNCHANGED <<around, nextId, prep, record, control, lastRead, deleted>>

\* The targets of a context never change.
CorrectContext(c, eligible) ==
  /\ Open(c) /\ LatestVersion(c) <= MaxCorrections /\ Appendable(ctx[c].targets)
  /\ ctx' = [ctx EXCEPT ![c].versions = Append(@, Intake(eligible))]
  /\ UNCHANGED <<around, nextId, prep, record, control, lastRead, deleted>>

CloseContext(c) ==
  /\ Open(c) /\ ctx' = [ctx EXCEPT ![c].closed = now]
  /\ UNCHANGED <<around, nextId, prep, record, control, lastRead, deleted>>

-----------------------------------------------------------------------------
(* What an observation depends on                                          *)

Rows(c) == {i \in Id : record[i] # NoRow /\ record[i].ctx = c}

EligibleContext(c, v) == Open(c) /\ LatestVersion(c) = v /\ ctx[c].versions[v].eligible
UsableTarget(c, t) == Open(c) /\ t \in ctx[c].targets /\ target[t].local

\* _state
StateOf(row) ==
  IF row.state # "available" THEN row.state
  ELSE IF now < row.holdUntil THEN "held"
  ELSE IF now >= row.expires THEN "expired"
  ELSE "available"

\* When the row's unavailability counts from, a hold that ran out included.
Settled(row) ==
  LET since == IF row.unavailable = 0 THEN row.expires ELSE row.unavailable
  IN Max({since, row.holdUntil})

\* Work that is overdue stops new use of the context.
Overdue(row) ==
  row.payload /\ now >= row.holdUntil /\ StateOf(row) # "available" /\ now >= Settled(row) + Grace

\* Mutant of Control: any token opens the context.
ControlAnyToken(c) == control[c] # 0 /\ \A i \in Rows(c) : ~Overdue(record[i])

\* _control
Control(c) == control[c] = boot /\ \A i \in Rows(c) : ~Overdue(record[i])

LivePreparation(c, r) ==
  LET p == prep[c][r] IN
  /\ p # NoRow /\ p.revoked = 0 /\ EligibleContext(c, p.version)
  /\ UsableTarget(c, p.target) /\ target[p.target].origin = p.origin
  /\ Control(c) /\ now < p.until

\* _mark_unavailable: the earliest cause counts, except that a hold which
\* ended keeps its end.
MarkUnavailable(row, at, endHold) ==
  LET first == Min({at, row.expires} \cup ({row.unavailable} \ {0}))
      since == IF row.holdStart # 0 /\ row.holdUntil = 0 /\ row.unavailable # 0 THEN row.unavailable ELSE first
      ended == endHold /\ row.holdUntil # 0 /\ row.holdStart <= at
  IN [row EXCEPT !.unavailable = IF ended THEN Max({since, Min({row.holdUntil, at})}) ELSE since,
                 !.holdUntil = IF endHold THEN 0 ELSE @]

\* _recorded_unavailability: the context's closure, then the preparation's
\* revocation, found on a row some time later.
RecordedUnavailability(row) ==
  LET closed == ctx[row.ctx].closed
      revoked == prep[row.ctx][row.prep].revoked
      one == IF closed = 0 THEN row
             ELSE MarkUnavailable([row EXCEPT !.state = "quarantined"], Min({closed, revoked} \ {0}), FALSE)
  IN IF revoked = 0 THEN one
     ELSE MarkUnavailable([one EXCEPT !.state = "quarantined"], revoked, TRUE)

-----------------------------------------------------------------------------
(* Operations                                                              *)

PreparationInput == [ref : Ref, target : Target, until : (now + 1)..(now + MaxWindow)]
Prepare(c, r, t, until) ==
  /\ ctx[c] # NoRow /\ EligibleContext(c, LatestVersion(c)) /\ UsableTarget(c, t) /\ Control(c)
  /\ now < until /\ until <= now + MaxWindow /\ prep[c][r] = NoRow
  /\ prep' = [prep EXCEPT ![c][r] = [target |-> t, version |-> LatestVersion(c), until |-> until,
                                    origin |-> target[t].origin, revoked |-> 0]]
  /\ UNCHANGED <<around, nextId, ctx, record, control, lastRead, deleted>>

\* A batch that is there is only reported, to a retry of the same import.
SameBatch(c, m) == {i \in Rows(c) : BatchOf[record[i].material] = BatchOf[m]}
Reusing(c, m) == {i \in Rows(c) : EntriesOf[record[i].material] \cap EntriesOf[m] # {}}

Accept(c, r, m, corrects) ==
  /\ LivePreparation(c, r) /\ SameBatch(c, m) = {}
  /\ Reusing(c, m) # {} => corrects \in Reusing(c, m)
  /\ corrects # 0 => corrects \in Rows(c)
  /\ nextId \in Id /\ nextId' = nextId + 1
  /\ record' = [record EXCEPT ![nextId] =
       [ctx |-> c, prep |-> r, material |-> m, corrects |-> corrects, expires |-> now + Retention,
        state |-> "available", unavailable |-> 0, holdStart |-> 0, holdUntil |-> 0, payload |-> TRUE]]
  /\ UNCHANGED <<around, ctx, prep, control, lastRead, deleted>>

\* read: who gets the payload; the other answers are receipts.
Served(c, i, reviewed) ==
  /\ i \in Rows(c) /\ Open(c) /\ StateOf(record[i]) \in {"available", "held"}
  /\ LivePreparation(c, record[i].prep) /\ record[i].payload
  /\ StateOf(record[i]) = "held" => reviewed

Read(c, i, reviewed) ==
  /\ Served(c, i, reviewed) /\ lastRead' = [lastRead EXCEPT ![i] = now]
  /\ UNCHANGED <<around, nextId, ctx, prep, record, control, deleted>>

\* lifecycle, one action for each command.
Hold(c, i, until) ==
  /\ Served(c, i, TRUE) /\ now < until /\ until <= now + MaxWindow
  /\ record' = [record EXCEPT ![i].holdStart = now, ![i].holdUntil = until]
  /\ UNCHANGED <<around, nextId, ctx, prep, control, lastRead, deleted>>

Release(c, i) ==
  /\ i \in Rows(c)
  /\ LET row == RecordedUnavailability(record[i])
         ended == IF row.state # "available" \/ now >= row.expires THEN MarkUnavailable(row, now, TRUE) ELSE row
     IN /\ row.holdUntil # 0 /\ row.holdStart <= now /\ now < row.holdUntil
        /\ record' = [record EXCEPT ![i] = [ended EXCEPT !.holdUntil = 0]]
  /\ UNCHANGED <<around, nextId, ctx, prep, control, lastRead, deleted>>

Delete(c, i) ==
  /\ i \in Rows(c)
  /\ record' = [record EXCEPT ![i] =
       MarkUnavailable([RecordedUnavailability(@) EXCEPT !.state = "deleted"], now, FALSE)]
  /\ deleted' = deleted \cup {i}
  /\ UNCHANGED <<around, nextId, ctx, prep, control, lastRead>>

Quarantine(c, i) ==
  /\ i \in Rows(c)
  /\ record' = [record EXCEPT ![i] =
       MarkUnavailable([RecordedUnavailability(@) EXCEPT !.state = "quarantined"], now, TRUE)]
  /\ UNCHANGED <<around, nextId, ctx, prep, control, lastRead, deleted>>

RevokePreparation(c, r) ==
  /\ prep[c][r] # NoRow /\ prep[c][r].revoked = 0
  /\ prep' = [prep EXCEPT ![c][r].revoked = now]
  /\ UNCHANGED <<around, nextId, ctx, record, control, lastRead, deleted>>

-----------------------------------------------------------------------------
(* Maintenance                                                             *)

\* suspend, and rotate_audit of a full event log.
Suspend(c) ==
  /\ ctx[c] # NoRow /\ control' = [control EXCEPT ![c] = 0]
  /\ UNCHANGED <<around, nextId, ctx, prep, record, lastRead, deleted>>

\* What reconcile still accepts of a row that no recorded cause ended.
Sound(c, row) ==
  LET p == prep[c][row.prep] IN
  /\ EligibleContext(c, p.version) /\ UsableTarget(c, p.target) /\ target[p.target].origin = p.origin
  /\ now < p.until \/ StateOf(row) = "held"
  /\ row.payload

\* One turn of reconcile's loop; an operator replays the deletions it knows.
Judged(c, i) ==
  LET replayed == IF i \in deleted THEN MarkUnavailable([record[i] EXCEPT !.state = "deleted"], now, FALSE)
                  ELSE record[i]
      known == RecordedUnavailability(replayed)
  IN IF StateOf(known) \in {"available", "held"} /\ ~Sound(c, known)
     THEN MarkUnavailable([known EXCEPT !.state = "quarantined"], now, TRUE) ELSE known

\* Mutant of Purged: an expired hold does not count.
PurgedIgnoringHold(row) ==
  IF StateOf(row) = "available" \/ now < row.holdUntil THEN row
  ELSE LET since == IF row.unavailable = 0 THEN row.expires ELSE row.unavailable
       IN IF now >= since + Keep THEN NoRow ELSE [row EXCEPT !.unavailable = since, !.payload = FALSE]

\* The payload goes when nothing holds it, the tombstone after its time.
Purged(row) ==
  IF StateOf(row) = "available" \/ now < row.holdUntil THEN row
  ELSE IF now >= Settled(row) + Keep THEN NoRow
  ELSE [row EXCEPT !.unavailable = Settled(row), !.payload = FALSE]

\* Preparations that ended long ago and have no record any more.
Spent(c, r, rows) ==
  LET p == prep[c][r] IN
  /\ p # NoRow /\ now >= (IF p.revoked # 0 THEN p.revoked ELSE p.until) + Keep
  /\ \A i \in Id : rows[i] # NoRow => rows[i].ctx # c \/ rows[i].prep # r

Reconcile(c) ==
  /\ ctx[c] # NoRow
  /\ LET rows == [i \in Id |-> IF i \in Rows(c) THEN Purged(Judged(c, i)) ELSE record[i]]
     IN /\ record' = rows
        /\ prep' = [prep EXCEPT ![c] = [r \in Ref |-> IF Spent(c, r, rows) THEN NoRow ELSE prep[c][r]]]
  /\ control' = [control EXCEPT ![c] = IF Open(c) THEN boot ELSE 0]
  /\ UNCHANGED <<around, nextId, ctx, lastRead, deleted>>

-----------------------------------------------------------------------------
(* Around the contexts                                                     *)

Disturb == trouble < MaxTrouble /\ trouble' = trouble + 1

Tick ==
  /\ now < MaxTime /\ now' = now + 1
  /\ UNCHANGED <<nextId, boot, trouble, target, ctx, prep, record, control, backup, lastRead, deleted>>

Restart ==
  /\ Disturb /\ boot' = boot + 1
  /\ UNCHANGED <<nextId, now, target, ctx, prep, record, control, backup, lastRead, deleted>>

\* The routes of targets, revisions, identities and resources.
ChangeTarget(t) ==
  /\ Disturb
  /\ \/ target' = [target EXCEPT ![t].origin = @ + 1]
     \/ target' = [target EXCEPT ![t].local = ~@]
     \/ \E stands \in BOOLEAN : target' = [target EXCEPT ![t].digest = @ + 1, ![t].stands = stands]
     \/ \E facts \in {"gap", "gone"} : target' = [target EXCEPT ![t].facts = facts]
  /\ UNCHANGED <<nextId, now, boot, ctx, prep, record, control, backup, lastRead, deleted>>

TakeBackup ==
  /\ backup = NoRow
  /\ backup' = [ctx |-> ctx, prep |-> prep, record |-> record,
               nextId |-> nextId, control |-> control, lastRead |-> lastRead]
  /\ UNCHANGED <<nextId, now, boot, trouble, target, ctx, prep, record, control, lastRead, deleted>>

\* The database goes back; every context is suspended before it is exposed,
\* or the process that serves it is a new one.
Restore ==
  /\ Disturb /\ backup # NoRow
  /\ ctx' = backup.ctx /\ prep' = backup.prep /\ record' = backup.record
  /\ nextId' = backup.nextId /\ lastRead' = backup.lastRead
  /\ deleted' = {i \in deleted : backup.record[i] # NoRow}
  /\ \/ boot' = boot + 1 /\ control' = backup.control
     \/ boot' = boot /\ control' = [c \in Ctx |-> 0]
  /\ UNCHANGED <<now, target, backup>>

\* The routes, each one command in one transaction.
ContextRequest(c) ==
  \/ \E ts \in SUBSET Target \ {{}}, eligible \in BOOLEAN : CreateContext(c, ts, eligible)
  \/ \E eligible \in BOOLEAN : CorrectContext(c, eligible)
  \/ CloseContext(c)

ObservationRequest(c) ==
  \/ \E p \in PreparationInput : Prepare(c, p.ref, p.target, p.until)
  \/ \E r \in Ref, m \in Material, corrects \in 0..MaxIds : Accept(c, r, m, corrects)
  \/ \E i \in Id, reviewed \in BOOLEAN : Read(c, i, reviewed)
  \/ \E i \in Id, until \in {now + 1, now + MaxWindow} : Hold(c, i, until)
  \/ \E i \in Id : Release(c, i) \/ Delete(c, i) \/ Quarantine(c, i)
  \/ \E r \in Ref : RevokePreparation(c, r)
  \/ Suspend(c) \/ Reconcile(c)

ObservationNext ==
  \/ \E c \in Ctx : ContextRequest(c) \/ ObservationRequest(c)
  \/ Tick \/ Restart \/ \E t \in Target : ChangeTarget(t)

Next == ObservationNext \/ TakeBackup \/ Restore

Spec == Init /\ [][Next]_vars

-----------------------------------------------------------------------------
(* Properties                                                              *)

\* Every table has its shape.
TypeOK ==
  /\ now \in 1..MaxTime /\ nextId \in 1..(MaxIds + 1) /\ boot \in Nat /\ trouble \in 0..MaxTrouble
  /\ target \in [Target -> TargetRow]
  /\ \A c \in Ctx :
       /\ ctx[c] = NoRow \/ ctx[c] \in ContextRow
       /\ \A r \in Ref : prep[c][r] = NoRow \/ prep[c][r] \in PreparationRow
  /\ \A i \in Id : record[i] = NoRow \/ record[i] \in RecordRow
  /\ control \in [Ctx -> Nat] /\ lastRead \in [Id -> Time] /\ deleted \subseteq Id

\* The payload of an observation is given out only while its context is open
\* and owns the target alone, its preparation stands, and nobody deleted the
\* observation, a deletion that the restored database has forgotten included.
ServedIsLive ==
  [][\A i \in Id : lastRead'[i] > lastRead[i] =>
       LET row == record'[i] IN
       /\ i \notin deleted /\ row.state = "available" /\ row.payload
       /\ prep'[row.ctx][row.prep].revoked = 0
       /\ {c \in Ctx : ctx'[c] # NoRow /\ ctx'[c].closed = 0
                       /\ prep'[row.ctx][row.prep].target \in ctx'[c].targets} = {row.ctx}]_vars

\* The tombstone of an observation outlives the last time that its payload
\* was readable by the whole retention, however holds, deletions,
\* revocations and closures were interleaved.
TombstoneKept ==
  [][\A i \in Id : record[i] # NoRow /\ record'[i] = NoRow /\ lastRead[i] # 0 /\ trouble' = trouble =>
       now >= lastRead[i] + Keep]_vars
=============================================================================
