------------------------- MODULE VerificationProofs -------------------------
(***************************************************************************)
(* Theorems about Verification, for any number of manifests, intents,      *)
(* dispatchers and decisions, any lives of the rows and any clock.         *)
(*                                                                         *)
(* The argument: the durable marker lets one dispatcher work on a plan;    *)
(* the locks of its sending transaction keep what was checked true until   *)
(* the bytes leave; and whoever ends an intent leaves a durable fault, or  *)
(* a snapshot that no longer equals what the intent's manifest pinned.     *)
(***************************************************************************)
EXTENDS Verification, TLAPS

-----------------------------------------------------------------------------
(* The inductive invariant                                                 *)

Waiting == [pc : {"waiting", "marked", "locked"}, intent : Intent, role : Role]
Sending == [pc : {"sent", "committed"}, intent : Intent, role : Role, send : Marks]
Ended ==
  [pc : {"completed", "validated"}, intent : Intent, role : Role, send : Marks, complete : Marks,
   response : {"healthy", "object_read", "business_denied", "inconclusive"},
   temporal : {"qualified", "dependency_unavailable", "network_incomplete", "clock_or_deadline_invalid"}]

FactsRow == [cred : Nat, hold : Nat, held : BOOLEAN, permitted : BOOLEAN, mapping : Nat, confirmed : BOOLEAN]

TypeInv ==
  /\ TypeOK
  /\ wall \in Int /\ mono \in Nat /\ facts \in FactsRow
  /\ disp \in [Dispatcher -> {Idle} \cup Waiting \cup Sending \cup Ended]
  /\ lock \in {None} \cup [state : {"held"}, by : Dispatcher]
  /\ sent \in [Plan -> Nat]

Busy(d) == disp[d].pc # "idle"
\* The dispatcher has committed the plan's marker, and holds the locks.
Working(d) == disp[d].pc \in {"marked", "locked", "sent", "committed", "completed", "validated"}
Locking(d) == disp[d].pc \in {"locked", "sent"}

\* A manifest pins no newer facts than there are; one recorded before a hold
\* or a rotation pins older ones.
ManifestInv ==
  \A m \in Manifest :
    /\ manifest[m] # None =>
         manifest[m].snapshot.cred <= facts.cred /\ manifest[m].snapshot.hold <= facts.hold
    /\ m \in disturbed =>
         /\ manifest[m] # None
         /\ manifest[m].snapshot.cred < facts.cred \/ manifest[m].snapshot.hold < facts.hold

\* An intent carries its manifest's snapshot, and a business intent the
\* health evidence that was selected; one intent per manifest and purpose.
IntentInv ==
  /\ \A m \in Manifest : selection[m] # None => Exists(selection[m].id)
  /\ \A i \in Intent : Exists(i) =>
       /\ manifest[intent[i].manifest] # None /\ contract[intent[i].manifest] # None
       /\ intent[i].snapshot = manifest[intent[i].manifest].snapshot
       /\ intent[i].purpose = "business" =>
            /\ intent[i].health # None /\ Exists(intent[i].health.id)
            /\ intent[intent[i].health.id].purpose = "health_baseline"
            /\ witness[<<intent[i].health.id, "health">>] # None

OneIntent ==
  \A i, j \in Intent :
    Exists(i) /\ Exists(j) /\ intent[i].manifest = intent[j].manifest /\ intent[i].purpose = intent[j].purpose
    => i = j

\* A plan that a dispatcher works on is a plan of its intent, marked by this
\* dispatcher and not yet witnessed.
DispInv ==
  /\ \A d \in Dispatcher : Busy(d) =>
       /\ Exists(disp[d].intent) /\ disp[d].role \in RolesOf(intent[disp[d].intent].purpose)
       /\ disp[d].role = "probe" => witness[<<disp[d].intent, "baseline">>] # None
       /\ Working(d) => Job(d) \in started /\ witness[Job(d)] = None
       /\ disp[d].pc \in {"sent", "committed", "completed", "validated"} => disp[d].send.ns <= mono
  /\ \A d, e \in Dispatcher : Working(d) /\ Working(e) /\ Job(d) = Job(e) => d = e

WitnessInv == \A p \in Plan : witness[p] # None => p \in started /\ witness[p].send.ns <= mono

SentInv ==
  /\ \A p \in Plan :
       /\ sent[p] <= 1
       /\ sent[p] > 0 => p \in started /\ Exists(p[1]) /\ p[2] \in RolesOf(intent[p[1]].purpose)
  /\ \A d \in Dispatcher : disp[d].pc \in {"marked", "locked"} => sent[Job(d)] = 0

\* What the locks keep as it was checked.
Terms(d) ==
  LET i == disp[d].intent
      m == intent[i].manifest
      b == witness[<<i, "baseline">>]
  IN /\ approval[Job(d)].approved /\ Job(d) \notin cancelled \cup bound
     /\ facts.permitted /\ budget[m].approved /\ intent[i].budget = budget[m]
     /\ disp[d].role = "probe" => b # None /\ b.outcome = "object_read"
     /\ i \notin fault /\ m \notin disturbed

LockInv ==
  \A d \in Dispatcher : Locking(d) => lock # None /\ lock.by = d /\ Terms(d)

\* The inductive invariant.
IInv ==
  /\ TypeInv /\ ManifestInv /\ IntentInv /\ OneIntent /\ DispInv /\ WitnessInv /\ SentInv /\ LockInv
  /\ refused \subseteq fault

-----------------------------------------------------------------------------
(* Facts used throughout                                                   *)

\* What the type invariant says of one row.
LEMMA RowTypes ==
  ASSUME TypeInv
  PROVE  /\ \A m \in Manifest : manifest[m] # None => manifest[m] \in ManifestRow
         /\ \A m \in Manifest : selection[m] # None => selection[m] \in SelectionRow
         /\ \A m \in Manifest : contract[m] # None => contract[m] \in ContractRow
         /\ \A i \in Intent : Exists(i) => intent[i] \in IntentRow
         /\ \A p \in Plan : witness[p] # None => witness[p] \in WitnessRow
BY DEF TypeInv, TypeOK, Exists

\* A row is never None.
LEMMA NotNone ==
  /\ None \notin ManifestRow /\ None \notin SelectionRow /\ None \notin ContractRow /\ None \notin IntentRow
  /\ None \notin WitnessRow /\ None \notin PairRow /\ None \notin AttemptRow
  /\ \A d : [state |-> "held", by |-> d] # None
<1>1. None.state = "none"
  BY DEF None
<1>2. \A x \in ManifestRow \cup SelectionRow \cup ContractRow : x.state = "row"
  BY DEF ManifestRow, SelectionRow, ContractRow
<1>3. \A x \in IntentRow : x.state = "row"
  BY DEF IntentRow
<1>4. \A x \in WitnessRow : x.state = "row"
  BY DEF WitnessRow
<1>5. \A x \in PairRow \cup AttemptRow : x.state = "row"
  BY DEF PairRow, AttemptRow
<1>6. \A d : [state |-> "held", by |-> d].state = "held"
  OBVIOUS
<1> QED
  BY <1>1, <1>2, <1>3, <1>4, <1>5, <1>6

LEMMA DispTypes ==
  ASSUME TypeInv, NEW d \in Dispatcher
  PROVE  /\ disp[d].pc \in {"idle", "waiting", "marked", "locked", "sent", "committed", "completed", "validated"}
         /\ disp[d].pc = "idle" => disp[d] = Idle
         /\ disp[d].pc \in {"waiting", "marked", "locked"} => disp[d] \in Waiting
         /\ disp[d].pc \in {"sent", "committed"} => disp[d] \in Sending
         /\ disp[d].pc \in {"completed", "validated"} => disp[d] \in Ended
         /\ Busy(d) => disp[d].intent \in Intent /\ disp[d].role \in Role /\ Job(d) \in Plan
         /\ Busy(d) => Job(d)[1] = disp[d].intent /\ Job(d)[2] = disp[d].role
<1> DEFINE x == disp[d]
<1>1. x \in {Idle} \cup Waiting \cup Sending \cup Ended
  BY DEF TypeInv
<1>2. Job(d) = <<x.intent, x.role>> /\ (Busy(d) <=> x.pc # "idle")
  BY DEF Job, Busy
<1> HIDE DEF x
<1>3. CASE x = Idle
  BY <1>2, <1>3 DEF Idle, x
<1>4. CASE x \in Waiting
  BY <1>2, <1>4 DEF Waiting, x, Plan
<1>5. CASE x \in Sending
  BY <1>2, <1>5 DEF Sending, x, Plan
<1>6. CASE x \in Ended
  BY <1>2, <1>6 DEF Ended, x, Plan
<1> QED
  BY <1>1, <1>3, <1>4, <1>5, <1>6

\* Nobody holds the locks: no sending transaction is open.
LEMMA NoLocking ==
  ASSUME IInv, lock = None
  PROVE  \A d \in Dispatcher : ~Locking(d)
BY DEF IInv, LockInv

\* A transaction that takes the locks for a moment and leaves the runs alone.
LEMMA Frame ==
  ASSUME IInv, lock = None, UNCHANGED runs, mono' = mono,
         TypeInv', ManifestInv', IntentInv', OneIntent', refused' \subseteq fault',
         \A i \in Intent : Exists(i) => intent'[i] = intent[i]
  PROVE  IInv'
<1>1. UNCHANGED <<started, witness, lock, disp, sent>>
  BY DEF runs
<1>2. \A i \in Intent : Exists(i) => Exists(i)' /\ intent'[i] = intent[i]
  BY DEF Exists
<1>3. DispInv'
  <2>1. \A d \in Dispatcher : Busy(d) => disp[d].intent \in Intent
    BY DispTypes DEF IInv
  <2> QED
    BY <1>1, <1>2, <2>1 DEF IInv, DispInv, Busy, Working, Job
<1>4. WitnessInv'
  BY <1>1 DEF IInv, WitnessInv
<1>5. SentInv'
  <2>1. \A p \in Plan : p[1] \in Intent
    BY DEF Plan
  <2> QED
    BY <1>1, <1>2, <2>1 DEF IInv, SentInv, Job
<1>6. LockInv'
  BY <1>1, NoLocking DEF LockInv, Locking
<1> QED
  BY <1>3, <1>4, <1>5, <1>6 DEF IInv

-----------------------------------------------------------------------------
(* Clocks and facts                                                        *)

LEMMA ClockSteps ==
  ASSUME IInv, Tick \/ SetBack
  PROVE  IInv'
<1>1. /\ wall \in Int /\ mono \in Nat /\ wall' \in Int /\ mono' \in Nat /\ mono <= mono'
      /\ UNCHANGED <<facts, rows, fault, runs, refused, disturbed>>
  <2>1. wall \in Int /\ mono \in Nat
    BY DEF IInv, TypeInv
  <2>2. UNCHANGED <<facts, rows, fault, runs, refused, disturbed>>
    BY DEF Tick, SetBack
  <2>3. (wall' = wall + 1 /\ mono' = mono + 1) \/ (wall' = wall - 1 /\ mono' = mono)
    BY DEF Tick, SetBack
  <2> QED
    BY <2>1, <2>2, <2>3
<1>2. UNCHANGED <<facts, manifest, budget, contract, selection, intent, approval, cancelled, bound, pair>>
      /\ UNCHANGED <<fault, started, attempt, witness, permit, lock, disp, sent, refused, disturbed>>
  BY <1>1 DEF rows, runs
<1>3. TypeInv'
  BY <1>1, <1>2 DEF IInv, TypeInv, TypeOK
<1>4. ManifestInv' /\ IntentInv' /\ OneIntent'
  BY <1>2 DEF IInv, ManifestInv, IntentInv, OneIntent, Exists
<1>5. DispInv'
  <2>1. \A d \in Dispatcher : disp[d].pc \in {"sent", "committed", "completed", "validated"} => disp[d].send.ns \in Nat
    BY DispTypes DEF IInv, Sending, Ended, Marks
  <2>2. \A d \in Dispatcher : disp[d].pc \in {"sent", "committed", "completed", "validated"} /\ disp[d].send.ns <= mono
          => disp[d].send.ns <= mono'
    BY <1>1, <2>1
  <2> QED
    BY <1>2, <2>2 DEF IInv, DispInv, Busy, Working, Job, Exists
<1>6. WitnessInv'
  <2>1. \A p \in Plan : witness[p] # None => witness[p].send.ns \in Nat
    BY RowTypes DEF IInv, WitnessRow, Marks
  <2> QED
    BY <1>1, <1>2, <2>1 DEF IInv, WitnessInv
<1>7. SentInv' /\ LockInv' /\ refused' \subseteq fault'
  BY <1>2 DEF IInv, SentInv, LockInv, Locking, Terms, Job, Exists
<1> QED
  BY <1>3, <1>4, <1>5, <1>6, <1>7 DEF IInv

\* Facts change; every manifest that is there pins what was true before.
LEMMA FactSteps ==
  ASSUME IInv, ChangePermission \/ RotateCredential \/ Hold \/ ReleaseHold \/ ConfirmMapping
  PROVE  IInv'
<1>1. lock = None /\ UNCHANGED <<wall, mono, rows, fault, runs, refused>>
  BY DEF ChangePermission, RotateCredential, Hold, ReleaseHold, ConfirmMapping, clocks
<1>2. UNCHANGED <<manifest, budget, contract, selection, intent, approval, cancelled, bound, pair>>
      /\ UNCHANGED <<fault, started, attempt, witness, permit, lock, disp, sent, refused>>
  BY <1>1 DEF rows, runs
<1>3. facts \in FactsRow
  BY DEF IInv, TypeInv
<1>4. /\ facts' \in FactsRow /\ facts'.cred >= facts.cred /\ facts'.hold >= facts.hold
      /\ \/ UNCHANGED disturbed
         \/ /\ facts'.cred > facts.cred \/ facts'.hold > facts.hold
            /\ disturbed' = disturbed \cup {m \in Manifest : manifest[m] # None}
  <2>1. PICK f \in FactsRow : f = facts
    BY <1>3
  <2>2. \/ \E c \in BOOLEAN : facts' = [f EXCEPT !.permitted = c] /\ UNCHANGED disturbed
        \/ facts' = [f EXCEPT !.cred = f.cred + 1] /\ disturbed' = disturbed \cup {m \in Manifest : manifest[m] # None}
        \/ facts' = [f EXCEPT !.held = TRUE, !.hold = f.hold + 1]
           /\ disturbed' = disturbed \cup {m \in Manifest : manifest[m] # None}
        \/ facts' = [f EXCEPT !.held = FALSE] /\ UNCHANGED disturbed
        \/ \E c \in BOOLEAN : facts' = [f EXCEPT !.mapping = f.mapping + 1, !.confirmed = c] /\ UNCHANGED disturbed
    <3>1. CASE ChangePermission
      BY <2>1, <3>1 DEF ChangePermission, FactsRow
    <3>2. CASE RotateCredential
      BY <2>1, <3>2 DEF RotateCredential, FactsRow
    <3>3. CASE Hold
      BY <2>1, <3>3 DEF Hold, FactsRow
    <3>4. CASE ReleaseHold
      BY <2>1, <3>4 DEF ReleaseHold
    <3>5. CASE ConfirmMapping
      BY <2>1, <3>5 DEF ConfirmMapping, FactsRow
    <3> QED
      BY <3>1, <3>2, <3>3, <3>4, <3>5
  <2>3. /\ f = [cred |-> f.cred, hold |-> f.hold, held |-> f.held, permitted |-> f.permitted,
                 mapping |-> f.mapping, confirmed |-> f.confirmed]
        /\ f.cred \in Nat /\ f.hold \in Nat /\ f.held \in BOOLEAN /\ f.permitted \in BOOLEAN
        /\ f.mapping \in Nat /\ f.confirmed \in BOOLEAN
    BY DEF FactsRow
  <2>4. ASSUME NEW a \in Nat, NEW h \in Nat, NEW u \in BOOLEAN, NEW v \in BOOLEAN, NEW x \in Nat, NEW y \in BOOLEAN
        PROVE  [cred |-> a, hold |-> h, held |-> u, permitted |-> v, mapping |-> x, confirmed |-> y] \in FactsRow
    BY DEF FactsRow
  <2>5. PICK g : g = facts'
    OBVIOUS
  <2>6. CASE \E c \in BOOLEAN : g = [f EXCEPT !.permitted = c] /\ UNCHANGED disturbed
    <3>1. PICK c \in BOOLEAN : g = [f EXCEPT !.permitted = c]
      BY <2>6
    <3>2. g = [cred |-> f.cred, hold |-> f.hold, held |-> f.held, permitted |-> c,
               mapping |-> f.mapping, confirmed |-> f.confirmed]
      BY <2>3, <3>1
    <3>3. g \in FactsRow
      BY <2>3, <2>4, <3>2
    <3> QED
      BY <2>1, <2>3, <2>5, <2>6, <3>2, <3>3
  <2>7. CASE g = [f EXCEPT !.cred = f.cred + 1] /\ disturbed' = disturbed \cup {m \in Manifest : manifest[m] # None}
    <3>1. g = [cred |-> f.cred + 1, hold |-> f.hold, held |-> f.held, permitted |-> f.permitted,
               mapping |-> f.mapping, confirmed |-> f.confirmed]
      BY <2>3, <2>7
    <3>2. g \in FactsRow
      BY <2>3, <2>4, <3>1
    <3> QED
      BY <2>1, <2>3, <2>5, <2>7, <3>1, <3>2
  <2>8. CASE /\ g = [f EXCEPT !.held = TRUE, !.hold = f.hold + 1]
             /\ disturbed' = disturbed \cup {m \in Manifest : manifest[m] # None}
    <3>1. g = [cred |-> f.cred, hold |-> f.hold + 1, held |-> TRUE, permitted |-> f.permitted,
               mapping |-> f.mapping, confirmed |-> f.confirmed]
      BY <2>3, <2>8
    <3>2. f.hold + 1 \in Nat /\ TRUE \in BOOLEAN
      BY <2>3
    <3>3. g \in FactsRow
      BY <2>3, <2>4, <3>1, <3>2
    <3> QED
      BY <2>1, <2>3, <2>5, <2>8, <3>1, <3>3
  <2>9. CASE g = [f EXCEPT !.held = FALSE] /\ UNCHANGED disturbed
    <3>1. g = [cred |-> f.cred, hold |-> f.hold, held |-> FALSE, permitted |-> f.permitted,
               mapping |-> f.mapping, confirmed |-> f.confirmed]
      BY <2>3, <2>9
    <3>2. g \in FactsRow
      BY <2>3, <2>4, <3>1
    <3> QED
      BY <2>1, <2>3, <2>5, <2>9, <3>1, <3>2
  <2>10. CASE \E c \in BOOLEAN : g = [f EXCEPT !.mapping = f.mapping + 1, !.confirmed = c] /\ UNCHANGED disturbed
    <3>1. PICK c \in BOOLEAN : g = [f EXCEPT !.mapping = f.mapping + 1, !.confirmed = c]
      BY <2>10
    <3>2. g = [cred |-> f.cred, hold |-> f.hold, held |-> f.held, permitted |-> f.permitted,
               mapping |-> f.mapping + 1, confirmed |-> c]
      BY <2>3, <3>1
    <3>3. g \in FactsRow
      BY <2>3, <2>4, <3>2
    <3> QED
      BY <2>1, <2>3, <2>5, <2>10, <3>2, <3>3
  <2> QED
    BY <2>2, <2>5, <2>6, <2>7, <2>8, <2>9, <2>10
<1>5. TypeInv'
  BY <1>1, <1>2, <1>4 DEF IInv, TypeInv, TypeOK
<1>6. ManifestInv'
  <2>1. \A m \in Manifest : manifest[m] # None =>
          manifest[m].snapshot.cred \in Nat /\ manifest[m].snapshot.hold \in Nat
    BY RowTypes DEF IInv, ManifestRow, Pinned
  <2>2. facts.cred \in Nat /\ facts.hold \in Nat /\ facts'.cred \in Nat /\ facts'.hold \in Nat
    BY <1>3, <1>4 DEF FactsRow
  <2> QED
    BY <1>2, <1>4, <2>1, <2>2 DEF IInv, ManifestInv
<1>7. IntentInv' /\ OneIntent' /\ refused' \subseteq fault'
  BY <1>2 DEF IInv, IntentInv, OneIntent, Exists
<1> QED
  BY <1>1, <1>2, <1>5, <1>6, <1>7, Frame

-----------------------------------------------------------------------------
(* Rows                                                                    *)

LEMMA SnapshotType ==
  ASSUME TypeInv
  PROVE  /\ Snapshot \in Pinned /\ Snapshot.cred = facts.cred /\ Snapshot.hold = facts.hold
         /\ Mark \in Marks /\ Mark.at = wall /\ Mark.ns = mono
         /\ wall \in Int /\ mono \in Nat /\ facts.cred \in Nat /\ facts.hold \in Nat
BY DEF TypeInv, FactsRow, Snapshot, Pinned, Mark, Marks

LEMMA DecideType ==
  ASSUME NEW s \in Decisions, s.n < MaxDecisions, NEW ok \in BOOLEAN
  PROVE  Decide(s, ok) \in Decisions
BY LivesAssumption DEF Decisions, Decide

\* The least of up to four times is a time.
LEMMA MinTime ==
  ASSUME NEW x \in Int, NEW y \in Int, NEW z \in Int, NEW u \in Int
  PROVE  Min({x, y, z, u}) \in Int
<1>1. \E v \in {x, y, z, u} : \A t \in {x, y, z, u} : v <= t
  <2>1. CASE x <= y /\ x <= z /\ x <= u
    BY <2>1
  <2>2. CASE y <= x /\ y <= z /\ y <= u
    BY <2>2
  <2>3. CASE z <= x /\ z <= y /\ z <= u
    BY <2>3
  <2>4. CASE u <= x /\ u <= y /\ u <= z
    BY <2>4
  <2> QED
    BY <2>1, <2>2, <2>3, <2>4
<1>2. Min({x, y, z, u}) \in {x, y, z, u}
  BY <1>1 DEF Min
<1> QED
  BY <1>2

LEMMA HealthEndType ==
  ASSUME IInv, NEW h \in Intent, Exists(h), contract[intent[h].manifest] # None, witness[<<h, "health">>] # None
  PROVE  HealthEnd(h) \in Int
<1>1. intent[h] \in IntentRow /\ <<h, "health">> \in Plan
  BY RowTypes DEF IInv, Plan, Role
<1>2. intent[h].until \in Int /\ intent[h].manifest \in Manifest
  BY <1>1 DEF IntentRow
<1>3. contract[intent[h].manifest].until \in Int
  BY <1>2, RowTypes DEF IInv, ContractRow
<1>4. witness[<<h, "health">>].until \in Int /\ witness[<<h, "health">>].send.at \in Int
  BY <1>1, RowTypes DEF IInv, WitnessRow, Marks
<1>5. witness[<<h, "health">>].send.at + HealthLife \in Int
  BY <1>4, LivesAssumption
<1> QED
  BY <1>2, <1>3, <1>4, <1>5, MinTime DEF HealthEnd

\* What the clocks of an intent can fault.
LEMMA FaultsType ==
  ASSUME IInv, NEW i \in Intent, Exists(i)
  PROVE  /\ TimeFaults(i) \subseteq Intent
         /\ TimeFaults(i) \subseteq {i, intent[i].health.id}
         /\ intent[i].purpose # "business" => TimeFaults(i) \subseteq {i}
<1>1. intent[i].purpose = "business" => intent[i].health.id \in Intent
  <2>1. intent[i] \in IntentRow
    BY RowTypes DEF IInv
  <2>2. intent[i].purpose = "business" => intent[i].health \in SelectionRow
    BY <2>1 DEF IInv, IntentInv, IntentRow
  <2> QED
    BY <2>2 DEF SelectionRow
<1> QED
  BY <1>1 DEF TimeFaults

LEMMA RecordManifestStep ==
  ASSUME IInv, NEW m \in Manifest, RecordManifest(m)
  PROVE  IInv'
<1> DEFINE row == [state |-> "row", at |-> wall, until |-> wall + ManifestLife, snapshot |-> Snapshot]
<1>1. /\ lock = None /\ manifest[m] = None /\ manifest' = [manifest EXCEPT ![m] = row]
      /\ UNCHANGED <<wall, mono, facts, budget, contract, selection, intent, approval, cancelled, bound, pair>>
      /\ UNCHANGED <<fault, runs, refused, disturbed>>
  BY DEF RecordManifest
<1>2. UNCHANGED <<started, attempt, witness, permit, lock, disp, sent>>
  BY <1>1 DEF runs
<1>3. row \in ManifestRow /\ row.snapshot = Snapshot
  BY SnapshotType, LivesAssumption DEF IInv, ManifestRow
<1> HIDE DEF row
<1>4. manifest' \in [Manifest -> ManifestRow \cup {None}]
  BY <1>1, <1>3 DEF IInv, TypeInv, TypeOK
<1>5. TypeInv'
  BY <1>1, <1>2, <1>4 DEF IInv, TypeInv, TypeOK
<1>6. manifest'[m] = row /\ row # None /\ \A n \in Manifest : n # m => manifest'[n] = manifest[n]
  BY <1>1, <1>3, NotNone DEF IInv, TypeInv, TypeOK
<1>7. ManifestInv'
  <2>1. m \notin disturbed
    BY <1>1 DEF IInv, ManifestInv
  <2>2. row.snapshot.cred <= facts.cred /\ row.snapshot.hold <= facts.hold
    BY <1>3, SnapshotType DEF IInv
  <2> QED
    BY <1>1, <1>6, <2>1, <2>2 DEF IInv, ManifestInv
<1>8. IntentInv'
  <2>1. \A i \in Intent : Exists(i) => intent[i].manifest \in Manifest
    BY RowTypes DEF IInv, IntentRow
  <2>2. \A i \in Intent : Exists(i) => manifest'[intent[i].manifest] = manifest[intent[i].manifest]
    BY <1>1, <1>6, <2>1 DEF IInv, IntentInv
  <2> QED
    BY <1>1, <1>2, <2>2 DEF IInv, IntentInv, Exists
<1>9. OneIntent' /\ refused' \subseteq fault'
  BY <1>1 DEF IInv, OneIntent, Exists
<1> QED
  BY <1>1, <1>5, <1>7, <1>8, <1>9, Frame

LEMMA DecisionSteps ==
  ASSUME IInv,
         \/ \E m \in Manifest : DecideBudget(m) \/ Confirm(m)
         \/ \E i \in Intent, r \in Role : Approve(i, r) \/ Cancel(i, r) \/ BindTask(i, r)
         \/ \E i \in Intent, probed \in BOOLEAN : VerifyPair(i, probed)
  PROVE  IInv'
<1>1. /\ lock = None
      /\ UNCHANGED <<wall, mono, facts, manifest, selection, intent, fault, runs, refused, disturbed>>
  BY DEF DecideBudget, Confirm, Approve, Cancel, BindTask, VerifyPair, clocks
<1>2. UNCHANGED <<started, attempt, witness, permit, lock, disp, sent>>
  BY <1>1 DEF runs
<1>3. /\ budget' \in [Manifest -> Decisions] /\ approval' \in [Plan -> Decisions]
      /\ contract' \in [Manifest -> ContractRow \cup {None}]
      /\ pair' \in [Intent -> PairRow \cup {None}]
      /\ cancelled' \subseteq Plan /\ bound' \subseteq Plan
  <2>1. /\ budget \in [Manifest -> Decisions] /\ approval \in [Plan -> Decisions]
        /\ contract \in [Manifest -> ContractRow \cup {None}]
        /\ pair \in [Intent -> PairRow \cup {None}]
        /\ cancelled \subseteq Plan /\ bound \subseteq Plan
    BY DEF IInv, TypeInv, TypeOK
  <2>2. ASSUME NEW m \in Manifest, DecideBudget(m) PROVE <1>3!:
    <3>1. PICK ok \in BOOLEAN : budget' = [budget EXCEPT ![m] = Decide(@, ok)]
      BY <2>2 DEF DecideBudget
    <3>2. Decide(budget[m], ok) \in Decisions
      BY <2>1, <2>2, DecideType DEF DecideBudget
    <3>3. UNCHANGED <<contract, approval, cancelled, bound, pair>>
      BY <2>2 DEF DecideBudget
    <3> QED
      BY <2>1, <3>1, <3>2, <3>3
  <2>3. ASSUME NEW m \in Manifest, Confirm(m) PROVE <1>3!:
    <3> DEFINE row == [state |-> "row", mark |-> Mark, until |-> manifest[m].until]
    <3>1. contract' = [contract EXCEPT ![m] = row] /\ UNCHANGED <<budget, approval, cancelled, bound, pair>>
      BY <2>3 DEF Confirm
    <3>2. manifest[m].until \in Int
      BY <2>3, RowTypes DEF IInv, Confirm, ManifestHolds, LatestManifest, ManifestRow
    <3>3. row \in ContractRow
      BY <3>2, SnapshotType DEF IInv, ContractRow
    <3> HIDE DEF row
    <3> QED
      BY <2>1, <3>1, <3>3
  <2>4. ASSUME NEW i \in Intent, NEW r \in Role, Approve(i, r) PROVE <1>3!:
    <3>1. PICK ok \in BOOLEAN : approval' = [approval EXCEPT ![<<i, r>>] = Decide(@, ok)]
      BY <2>4 DEF Approve
    <3>2. <<i, r>> \in Plan
      BY DEF Plan
    <3>3. Decide(approval[<<i, r>>], ok) \in Decisions
      BY <2>1, <2>4, <3>2, DecideType DEF Approve
    <3>4. UNCHANGED <<budget, contract, cancelled, bound, pair>>
      BY <2>4 DEF Approve
    <3> QED
      BY <2>1, <3>1, <3>2, <3>3, <3>4
  <2>5. ASSUME NEW i \in Intent, NEW r \in Role, Cancel(i, r) \/ BindTask(i, r) PROVE <1>3!:
    <3>1. <<i, r>> \in Plan
      BY DEF Plan
    <3> QED
      BY <2>1, <2>5, <3>1 DEF Cancel, BindTask
  <2>6. ASSUME NEW i \in Intent, NEW probed \in BOOLEAN, VerifyPair(i, probed) PROVE <1>3!:
    <3> DEFINE result == PairOutcome(Expected, witness[<<i, "baseline">>].outcome,
                                     IF probed THEN witness[<<i, "probe">>].outcome ELSE "none")
               row == [state |-> "row", probed |-> probed, outcome |-> result]
    <3>1. pair' = [pair EXCEPT ![i] = row] /\ UNCHANGED <<budget, contract, approval, cancelled, bound>>
      BY <2>6 DEF VerifyPair, clocks
    <3>2. result \in {"inconclusive", "allowed", "suspected_violation", "expected_denial"}
      BY DEF PairOutcome
    <3> HIDE DEF result
    <3>3. row \in PairRow
      BY <3>2 DEF PairRow
    <3> HIDE DEF row
    <3> QED
      BY <2>1, <3>1, <3>3
  <2> QED
    BY <2>2, <2>3, <2>4, <2>5, <2>6
<1>4. TypeInv'
  BY <1>1, <1>2, <1>3 DEF IInv, TypeInv, TypeOK
<1>5. \A m \in Manifest : contract[m] # None => contract'[m] # None
  <2>1. ASSUME NEW m \in Manifest, contract[m] = None, NEW row, contract' = [contract EXCEPT ![m] = row]
        PROVE  \A n \in Manifest : contract[n] # None => contract'[n] # None
    BY <2>1 DEF IInv, TypeInv, TypeOK
  <2>2. ASSUME NEW m \in Manifest, Confirm(m)
        PROVE  \A n \in Manifest : contract[n] # None => contract'[n] # None
    BY <2>1, <2>2 DEF Confirm
  <2> QED
    BY <2>2 DEF DecideBudget, Approve, Cancel, BindTask, VerifyPair
<1>6. \A i \in Intent : Exists(i) => intent[i].manifest \in Manifest
  BY RowTypes DEF IInv, IntentRow
<1>7. ManifestInv' /\ IntentInv' /\ OneIntent' /\ refused' \subseteq fault'
  BY <1>1, <1>2, <1>5, <1>6 DEF IInv, ManifestInv, IntentInv, OneIntent, Exists
<1> QED
  BY <1>1, <1>4, <1>7, Frame

LEMMA SelectHealthStep ==
  ASSUME IInv, NEW m \in Manifest, NEW h \in Intent, SelectHealth(m, h)
  PROVE  IInv'
<1> DEFINE row == [state |-> "row", id |-> h]
<1>1. /\ lock = None /\ Exists(h) /\ selection' = [selection EXCEPT ![m] = row]
      /\ UNCHANGED <<wall, mono, facts, manifest, budget, contract, intent, approval, cancelled, bound, pair>>
      /\ UNCHANGED <<fault, runs, refused, disturbed>>
  BY DEF SelectHealth, clocks
<1>2. UNCHANGED <<started, attempt, witness, permit, lock, disp, sent>>
  BY <1>1 DEF runs
<1>3. row \in SelectionRow /\ row.id = h
  BY DEF SelectionRow
<1> HIDE DEF row
<1>4. /\ selection' \in [Manifest -> SelectionRow \cup {None}]
      /\ \A n \in Manifest : selection'[n] = IF n = m THEN row ELSE selection[n]
  BY <1>1, <1>3 DEF IInv, TypeInv, TypeOK
<1>5. TypeInv'
  BY <1>1, <1>2, <1>4 DEF IInv, TypeInv, TypeOK
<1>6. ManifestInv' /\ IntentInv' /\ OneIntent' /\ refused' \subseteq fault'
  BY <1>1, <1>2, <1>3, <1>4 DEF IInv, ManifestInv, IntentInv, OneIntent, Exists
<1> QED
  BY <1>1, <1>5, <1>6, Frame

\* The one intent of a manifest and a purpose.
LEMMA ConvertStep ==
  ASSUME IInv, NEW i \in Intent, NEW n \in Number, NEW m \in Manifest, NEW p \in Purpose, Convert(i, n, m, p)
  PROVE  IInv'
<1> DEFINE until == Min({manifest[m].until, wall + IntentLife}
                        \cup (IF p = "business" THEN {HealthEnd(selection[m].id)} ELSE {}))
           health == IF p = "business" THEN selection[m] ELSE None
           row == [state |-> "row", number |-> n, purpose |-> p, manifest |-> m, budget |-> budget[m],
                   snapshot |-> Snapshot, at |-> wall, health |-> health, until |-> until]
<1>1. /\ lock = None /\ ~Exists(i) /\ intent' = [intent EXCEPT ![i] = row]
      /\ UNCHANGED <<wall, mono, facts, manifest, budget, contract, selection, approval, cancelled, bound, pair>>
      /\ UNCHANGED <<fault, runs, refused, disturbed>>
  BY DEF Convert, clocks
<1>2. UNCHANGED <<started, attempt, witness, permit, lock, disp, sent>>
  BY <1>1 DEF runs
<1>3. manifest[m] # None /\ manifest[m].snapshot = Snapshot /\ contract[m] # None
  BY DEF Convert, ManifestHolds, LatestManifest
<1>4. ASSUME p = "business"
      PROVE  /\ selection[m] \in SelectionRow /\ selection[m].id \in Intent /\ Exists(selection[m].id)
             /\ intent[selection[m].id].purpose = "health_baseline"
             /\ witness[<<selection[m].id, "health">>] # None
             /\ HealthEnd(selection[m].id) \in Int
  <2>1. selection[m] # None /\ HealthHolds(selection[m].id)
    BY <1>4 DEF Convert
  <2>2. selection[m] \in SelectionRow /\ selection[m].id \in Intent /\ Exists(selection[m].id)
    BY <2>1, RowTypes DEF IInv, IntentInv, SelectionRow
  <2>3. /\ intent[selection[m].id].purpose = "health_baseline" /\ witness[<<selection[m].id, "health">>] # None
        /\ contract[intent[selection[m].id].manifest] # None
    BY <2>1 DEF HealthHolds, Stands
  <2> QED
    BY <2>2, <2>3, HealthEndType
<1>5. until \in Int
  <2>1. PICK a \in Int, t \in Int : a = manifest[m].until /\ t = wall + IntentLife
    BY <1>3, RowTypes, SnapshotType, LivesAssumption DEF IInv, ManifestRow
  <2>2. CASE p = "business"
    <3>1. PICK c \in Int : c = HealthEnd(selection[m].id)
      BY <1>4, <2>2
    <3>2. until = Min({a, t, c, c})
      <4>1. {a, t} \cup {c} = {a, t, c, c}
        OBVIOUS
      <4> QED
        BY <2>1, <2>2, <3>1, <4>1
    <3> QED
      BY <3>2, MinTime
  <2>3. CASE p # "business"
    <3>1. until = Min({a, t, t, t})
      <4>1. {a, t} \cup {} = {a, t, t, t}
        OBVIOUS
      <4> QED
        BY <2>1, <2>3, <4>1
    <3> QED
      BY <3>1, MinTime
  <2> QED
    BY <2>2, <2>3
<1> HIDE DEF until
<1>6. row \in IntentRow
  <2>1. budget[m] \in Decisions /\ wall \in Int /\ Snapshot \in Pinned
    BY SnapshotType DEF IInv, TypeInv, TypeOK
  <2>2. health \in SelectionRow \cup {None}
    BY <1>4
  <2> HIDE DEF health
  <2> QED
    BY <1>5, <2>1, <2>2 DEF IntentRow
<1>7. row.manifest = m /\ row.purpose = p /\ row.snapshot = Snapshot /\ row.health = health
  OBVIOUS
<1> HIDE DEF row
<1>8. /\ intent' \in [Intent -> IntentRow \cup {None}]
      /\ intent'[i] = row /\ \A j \in Intent : j # i => intent'[j] = intent[j]
  BY <1>1, <1>6 DEF IInv, TypeInv, TypeOK
<1>9. TypeInv'
  BY <1>1, <1>2, <1>8 DEF IInv, TypeInv, TypeOK
<1>10. /\ \A j \in Intent : Exists(j) => j # i /\ Exists(j)' /\ intent'[j] = intent[j]
       /\ \A j \in Intent : Exists(j)' => j = i \/ Exists(j)
  BY <1>1, <1>8 DEF Exists
<1>11. IntentInv'
  <2>1. \A k \in Manifest : selection'[k] # None => selection[k].id \in Intent /\ Exists(selection[k].id)
    BY <1>1, RowTypes DEF IInv, IntentInv, SelectionRow
  <2>2. ASSUME NEW j \in Intent, Exists(j)
        PROVE  /\ manifest'[intent'[j].manifest] # None /\ contract'[intent'[j].manifest] # None
               /\ intent'[j].snapshot = manifest'[intent'[j].manifest].snapshot
               /\ intent'[j].purpose = "business" =>
                    /\ intent'[j].health # None /\ Exists(intent[j].health.id) /\ intent[j].health.id \in Intent
                    /\ intent'[intent'[j].health.id].purpose = "health_baseline"
                    /\ witness'[<<intent'[j].health.id, "health">>] # None
    <3>1. intent'[j] = intent[j]
      BY <1>10, <2>2
    <3>2. intent[j] \in IntentRow
      BY <2>2, RowTypes DEF IInv
    <3>3. intent[j].purpose = "business" => intent[j].health.id \in Intent /\ Exists(intent[j].health.id)
      BY <2>2, <3>2 DEF IInv, IntentInv, IntentRow, SelectionRow
    <3> QED
      BY <1>1, <1>2, <1>10, <2>2, <3>1, <3>3 DEF IInv, IntentInv
  <2>3. /\ manifest'[row.manifest] # None /\ contract'[row.manifest] # None /\ row.snapshot = manifest'[row.manifest].snapshot
        /\ row.purpose = "business" =>
             /\ row.health # None /\ Exists(row.health.id) /\ row.health.id \in Intent
             /\ intent'[row.health.id].purpose = "health_baseline"
             /\ witness'[<<row.health.id, "health">>] # None
    BY <1>1, <1>2, <1>3, <1>4, <1>7, <1>10, NotNone
  <2> QED
    BY <1>1, <1>8, <1>10, <2>1, <2>2, <2>3 DEF IntentInv
<1>12. OneIntent'
  <2>1. \A j \in Intent : Exists(j) => ~(intent[j].manifest = m /\ intent[j].purpose = p)
    BY DEF Convert, Unconsumed
  <2> QED
    BY <1>7, <1>8, <1>10, <2>1 DEF IInv, OneIntent
<1>13. ManifestInv' /\ refused' \subseteq fault'
  BY <1>1 DEF IInv, ManifestInv
<1> QED
  BY <1>1, <1>9, <1>10, <1>11, <1>12, <1>13, Frame

LEMMA ObserveExpiryStep ==
  ASSUME IInv, NEW i \in Intent, ObserveExpiry(i)
  PROVE  IInv'
<1>1. /\ lock = None /\ UNCHANGED <<wall, mono, facts, rows, runs, disturbed>>
      /\ \/ fault' = fault \cup {i} /\ refused' = refused \cup {i}
         \/ fault' = fault \cup TimeFaults(i) /\ refused' = refused \cup TimeFaults(i)
  BY DEF ObserveExpiry, clocks, RecordFaults
<1>2. UNCHANGED <<manifest, budget, contract, selection, intent, approval, cancelled, bound, pair>>
      /\ UNCHANGED <<started, attempt, witness, permit, lock, disp, sent>>
  BY <1>1 DEF rows, runs
<1>3. TimeFaults(i) \subseteq Intent
  BY FaultsType DEF ObserveExpiry
<1>4. fault' \subseteq Intent /\ refused' \subseteq fault'
  BY <1>1, <1>3 DEF IInv, TypeInv, TypeOK
<1>5. TypeInv'
  BY <1>1, <1>2, <1>4 DEF IInv, TypeInv, TypeOK
<1>6. ManifestInv' /\ IntentInv' /\ OneIntent'
  BY <1>1, <1>2 DEF IInv, ManifestInv, IntentInv, OneIntent, Exists
<1> QED
  BY <1>1, <1>2, <1>4, <1>5, <1>6, Frame

-----------------------------------------------------------------------------
(* Dispatch                                                                *)

\* One dispatcher moves.
LEMMA Moved ==
  ASSUME TypeInv, NEW d \in Dispatcher, NEW x, disp' = [disp EXCEPT ![d] = x]
  PROVE  /\ disp'[d] = x /\ \A e \in Dispatcher : e # d => disp'[e] = disp[e]
         /\ x \in {Idle} \cup Waiting \cup Sending \cup Ended
              => disp' \in [Dispatcher -> {Idle} \cup Waiting \cup Sending \cup Ended]
BY DEF TypeInv

LEMMA SetPc ==
  ASSUME TypeInv, NEW d \in Dispatcher, NEW pc, NEW x, x = [disp[d] EXCEPT !.pc = pc],
         \/ disp[d].pc \in {"waiting", "marked"} /\ pc \in {"marked", "locked"}
         \/ disp[d].pc = "sent" /\ pc = "committed"
  PROVE  /\ x \in Waiting \cup Sending /\ x.pc = pc /\ x.intent = disp[d].intent /\ x.role = disp[d].role
         /\ disp[d].pc = "sent" => x \in Sending /\ x.send = disp[d].send
<1>1. CASE disp[d] \in Waiting /\ pc \in {"marked", "locked"}
  BY <1>1 DEF Waiting
<1>2. CASE disp[d] \in Sending /\ pc = "committed"
  BY <1>2 DEF Sending
<1> QED
  BY <1>1, <1>2, DispTypes

\* What a dispatcher's step leaves alone.
Around == <<wall, mono, facts, manifest, budget, contract, selection, intent, approval, cancelled, bound, pair, disturbed>>

LEMMA AroundKept ==
  ASSUME IInv, UNCHANGED Around, UNCHANGED witness
  PROVE  ManifestInv' /\ IntentInv' /\ OneIntent'
BY DEF Around, IInv, ManifestInv, IntentInv, OneIntent, Exists

LEMMA AroundTypes ==
  ASSUME IInv, UNCHANGED Around,
         disp' \in [Dispatcher -> {Idle} \cup Waiting \cup Sending \cup Ended],
         lock' \in {None} \cup [state : {"held"}, by : Dispatcher],
         sent' \in [Plan -> Nat], fault' \subseteq Intent, started' \subseteq Plan,
         attempt' \in [Plan -> AttemptRow \cup {None}], witness' \in [Plan -> WitnessRow \cup {None}]
  PROVE  TypeInv'
BY DEF Around, IInv, TypeInv, TypeOK

\* The dispatcher keeps its plan, which it has marked.
LEMMA Advance ==
  ASSUME IInv, NEW d \in Dispatcher, Working(d), NEW x, disp' = [disp EXCEPT ![d] = x],
         x.intent = disp[d].intent, x.role = disp[d].role,
         x.pc \in {"marked", "locked", "sent", "committed", "completed", "validated"},
         x.pc \in {"sent", "committed", "completed", "validated"} => x.send.ns <= mono,
         UNCHANGED <<mono, intent, started, witness>>
  PROVE  DispInv'
<1>1. disp'[d] = x /\ \A e \in Dispatcher : e # d => disp'[e] = disp[e]
  BY Moved DEF IInv
<1>2. \A e \in Dispatcher : Job(e)' = Job(e)
  BY <1>1 DEF Job
<1>3. \A e \in Dispatcher : Working(e)' => Working(e)
  BY <1>1 DEF Working
<1>4. \A e \in Dispatcher : Busy(e)' => Busy(e)
  BY <1>1 DEF Busy, Working
<1>5. ASSUME NEW e \in Dispatcher, Busy(e)'
      PROVE  /\ Exists(disp[e].intent)' /\ disp'[e].role \in RolesOf(intent'[disp'[e].intent].purpose)
             /\ disp'[e].role = "probe" => witness'[<<disp'[e].intent, "baseline">>] # None
             /\ Working(e)' => Job(e)' \in started' /\ witness'[Job(e)'] = None
             /\ disp'[e].pc \in {"sent", "committed", "completed", "validated"} => disp'[e].send.ns <= mono'
  <2>1. disp'[e].intent = disp[e].intent /\ disp'[e].role = disp[e].role
    BY <1>1
  <2>2. disp'[e].pc \in {"sent", "committed", "completed", "validated"} => disp'[e].send.ns <= mono'
    BY <1>1, <1>4, <1>5 DEF IInv, DispInv
  <2>3. /\ Exists(disp[e].intent) /\ disp[e].role \in RolesOf(intent[disp[e].intent].purpose)
        /\ disp[e].role = "probe" => witness[<<disp[e].intent, "baseline">>] # None
        /\ Working(e) => Job(e) \in started /\ witness[Job(e)] = None
    BY <1>4, <1>5 DEF IInv, DispInv
  <2>4. Exists(disp[e].intent)' /\ disp'[e].role \in RolesOf(intent'[disp'[e].intent].purpose)
    BY <2>1, <2>3 DEF Exists
  <2>5. disp'[e].role = "probe" => witness'[<<disp'[e].intent, "baseline">>] # None
    BY <2>1, <2>3
  <2>6. Working(e)' => Job(e)' \in started' /\ witness'[Job(e)'] = None
    BY <1>2, <1>3, <2>3
  <2> QED
    BY <2>2, <2>4, <2>5, <2>6
<1>6. \A e, f \in Dispatcher : Working(e)' /\ Working(f)' /\ Job(e)' = Job(f)' => e = f
  BY <1>2, <1>3 DEF IInv, DispInv
<1> QED
  BY <1>5, <1>6 DEF DispInv

\* What the locks keep true while other dispatchers move.
LEMMA TermsKept ==
  ASSUME UNCHANGED Around, UNCHANGED witness, NEW e, disp'[e].intent = disp[e].intent, disp'[e].role = disp[e].role,
         Terms(e), disp[e].intent \notin fault'
  PROVE  Terms(e)'
BY DEF Around, Terms, Job

LEMMA MarkStartedStep ==
  ASSUME IInv, NEW d \in Dispatcher, MarkStarted(d)
  PROVE  IInv'
<1>1. PICK x : x = [disp[d] EXCEPT !.pc = "marked"]
  OBVIOUS
<1>2. /\ disp[d].pc = "waiting" /\ Job(d) \notin started /\ started' = started \cup {Job(d)}
      /\ disp' = [disp EXCEPT ![d] = x]
      /\ UNCHANGED Around /\ UNCHANGED <<fault, attempt, witness, lock, sent, refused>>
  BY <1>1 DEF MarkStarted, At, clocks, rows, Around
<1>3. x \in Waiting \cup Sending /\ x.pc = "marked" /\ x.intent = disp[d].intent /\ x.role = disp[d].role
  BY <1>1, <1>2, SetPc DEF IInv
<1>4. /\ disp'[d] = x /\ \A e \in Dispatcher : e # d => disp'[e] = disp[e]
      /\ disp' \in [Dispatcher -> {Idle} \cup Waiting \cup Sending \cup Ended]
  BY <1>2, <1>3, Moved DEF IInv
<1>5. Busy(d) /\ Job(d) \in Plan
  BY <1>2, DispTypes DEF IInv, Busy
<1>6. UNCHANGED <<mono, intent>>
  BY <1>2 DEF Around
<1>7. TypeInv'
  <2>1. started' \subseteq Plan
    BY <1>2, <1>5 DEF IInv, TypeInv, TypeOK
  <2> QED
    BY <1>2, <1>4, <2>1, AroundTypes DEF IInv, TypeInv, TypeOK
<1>8. ManifestInv' /\ IntentInv' /\ OneIntent'
  BY <1>2, AroundKept
<1>9. \A e \in Dispatcher : Job(e)' = Job(e) /\ (Busy(e)' <=> Busy(e)) /\ (Working(e)' <=> Working(e) \/ e = d)
  BY <1>2, <1>3, <1>4 DEF Job, Busy, Working
<1>10. \A e \in Dispatcher : Working(e) => Job(e) # Job(d)
  BY <1>2 DEF IInv, DispInv, Working, Busy
<1>11. DispInv'
  <2>1. ASSUME NEW e \in Dispatcher, Busy(e)'
        PROVE  /\ Exists(disp[e].intent)' /\ disp'[e].role \in RolesOf(intent'[disp'[e].intent].purpose)
               /\ disp'[e].role = "probe" => witness'[<<disp'[e].intent, "baseline">>] # None
               /\ Working(e)' => Job(e)' \in started' /\ witness'[Job(e)'] = None
               /\ disp'[e].pc \in {"sent", "committed", "completed", "validated"} => disp'[e].send.ns <= mono'
    <3>1. disp'[e].intent = disp[e].intent /\ disp'[e].role = disp[e].role
      BY <1>3, <1>4
    <3>2. witness[Job(d)] = None
      BY <1>2, <1>5 DEF IInv, WitnessInv
    <3>3. disp'[e].pc \in {"sent", "committed", "completed", "validated"} => disp'[e] = disp[e]
      BY <1>3, <1>4
    <3>4. /\ Exists(disp[e].intent) /\ disp[e].role \in RolesOf(intent[disp[e].intent].purpose)
          /\ disp[e].role = "probe" => witness[<<disp[e].intent, "baseline">>] # None
          /\ Working(e) => Job(e) \in started /\ witness[Job(e)] = None
          /\ disp[e].pc \in {"sent", "committed", "completed", "validated"} => disp[e].send.ns <= mono
      BY <1>9, <2>1 DEF IInv, DispInv
    <3>5. Exists(disp[e].intent)' /\ disp'[e].role \in RolesOf(intent'[disp'[e].intent].purpose)
      BY <1>6, <3>1, <3>4 DEF Exists
    <3>6. disp'[e].role = "probe" => witness'[<<disp'[e].intent, "baseline">>] # None
      BY <1>2, <3>1, <3>4
    <3>7. Working(e)' => Job(e)' \in started' /\ witness'[Job(e)'] = None
      BY <1>2, <1>9, <3>2, <3>4
    <3>8. disp'[e].pc \in {"sent", "committed", "completed", "validated"} => disp'[e].send.ns <= mono'
      BY <1>6, <3>3, <3>4
    <3> QED
      BY <3>5, <3>6, <3>7, <3>8
  <2>2. \A e, f \in Dispatcher : Working(e)' /\ Working(f)' /\ Job(e)' = Job(f)' => e = f
    BY <1>9, <1>10 DEF IInv, DispInv
  <2> QED
    BY <2>1, <2>2 DEF DispInv
<1>12. WitnessInv'
  BY <1>2, <1>6 DEF IInv, WitnessInv
<1>13. SentInv'
  <2>1. sent[Job(d)] = 0
    BY <1>2, <1>5 DEF IInv, SentInv, TypeInv
  <2>2. \A e \in Dispatcher : disp'[e].pc \in {"marked", "locked"} => sent'[Job(e)'] = 0
    BY <1>2, <1>4, <1>9, <2>1 DEF IInv, SentInv
  <2> QED
    BY <1>2, <1>6, <2>2 DEF IInv, SentInv, Exists
<1>14. LockInv'
  <2>1. \A e \in Dispatcher : Locking(e)' => Locking(e) /\ disp'[e] = disp[e]
    BY <1>3, <1>4 DEF Locking
  <2> QED
    BY <1>2, <2>1, TermsKept DEF IInv, LockInv, Terms
<1> QED
  BY <1>2, <1>7, <1>8, <1>11, <1>12, <1>13, <1>14 DEF IInv

LEMMA BeginStep ==
  ASSUME IInv, NEW d \in Dispatcher, NEW i \in Intent, NEW r \in Role, Begin(d, i, r)
  PROVE  IInv'
<1>1. PICK x : x = [pc |-> "waiting", intent |-> i, role |-> r]
  OBVIOUS
<1>2. /\ disp[d].pc = "idle" /\ lock = None /\ Exists(i) /\ <<i, r>> \in Plans(i) /\ Dispatchable(i, r)
      /\ disp' = [disp EXCEPT ![d] = x]
      /\ UNCHANGED Around /\ UNCHANGED <<fault, started, attempt, witness, lock, sent, refused>>
  BY <1>1 DEF Begin, At, clocks, rows, Around
<1>3. x \in Waiting /\ x.pc = "waiting" /\ x.intent = i /\ x.role = r
  BY <1>1 DEF Waiting
<1>4. /\ disp'[d] = x /\ \A e \in Dispatcher : e # d => disp'[e] = disp[e]
      /\ disp' \in [Dispatcher -> {Idle} \cup Waiting \cup Sending \cup Ended]
  BY <1>2, <1>3, Moved DEF IInv
<1>5. UNCHANGED <<mono, intent>>
  BY <1>2 DEF Around
<1>6. TypeInv'
  BY <1>2, <1>4, AroundTypes DEF IInv, TypeInv, TypeOK
<1>7. ManifestInv' /\ IntentInv' /\ OneIntent'
  BY <1>2, AroundKept
<1>8. r \in RolesOf(intent[i].purpose) /\ (r = "probe" => witness[<<i, "baseline">>] # None)
  BY <1>2 DEF Plans, Dispatchable
<1>9. /\ \A e \in Dispatcher : e # d => Job(e)' = Job(e) /\ (Working(e)' <=> Working(e)) /\ (Busy(e)' <=> Busy(e))
      /\ ~Working(d)'
  BY <1>3, <1>4 DEF Job, Working, Busy
<1>10. DispInv'
  <2>1. ASSUME NEW e \in Dispatcher, Busy(e)', e # d
        PROVE  /\ Exists(disp[e].intent)' /\ disp'[e].role \in RolesOf(intent'[disp'[e].intent].purpose)
               /\ disp'[e].role = "probe" => witness'[<<disp'[e].intent, "baseline">>] # None
               /\ Working(e)' => Job(e)' \in started' /\ witness'[Job(e)'] = None
               /\ disp'[e].pc \in {"sent", "committed", "completed", "validated"} => disp'[e].send.ns <= mono'
    <3>1. disp'[e] = disp[e] /\ Busy(e)
      BY <1>4, <1>9, <2>1
    <3> QED
      BY <1>2, <1>5, <1>9, <2>1, <3>1 DEF IInv, DispInv, Exists
  <2>2. /\ Exists(disp[d].intent)' /\ disp'[d].role \in RolesOf(intent'[disp'[d].intent].purpose)
        /\ disp'[d].role = "probe" => witness'[<<disp'[d].intent, "baseline">>] # None
        /\ disp'[d].pc = "waiting"
    BY <1>2, <1>3, <1>4, <1>5, <1>8 DEF Exists
  <2>3. \A e, f \in Dispatcher : Working(e)' /\ Working(f)' /\ Job(e)' = Job(f)' => e = f
    BY <1>9 DEF IInv, DispInv
  <2> QED
    BY <1>9, <2>1, <2>2, <2>3 DEF DispInv
<1>11. WitnessInv'
  BY <1>2, <1>5 DEF IInv, WitnessInv
<1>12. SentInv'
  <2>1. \A e \in Dispatcher : disp'[e].pc \in {"marked", "locked"} => sent'[Job(e)'] = 0
    BY <1>2, <1>3, <1>4, <1>9 DEF IInv, SentInv
  <2> QED
    BY <1>2, <1>5, <2>1 DEF IInv, SentInv, Exists
<1>13. LockInv'
  <2>1. \A e \in Dispatcher : ~Locking(e)'
    BY <1>2, <1>3, <1>4, NoLocking DEF Locking
  <2> QED
    BY <2>1 DEF LockInv
<1> QED
  BY <1>2, <1>6, <1>7, <1>10, <1>11, <1>12, <1>13 DEF IInv

\* What holds of an intent that is current.
LEMMA StandsFacts ==
  ASSUME IInv, NEW i \in Intent, Exists(i), Stands(i)
  PROVE  LET m == intent[i].manifest IN
         /\ i \notin fault /\ i \notin refused /\ m \notin disturbed
         /\ manifest[m].snapshot = Snapshot /\ intent[i].snapshot = Snapshot
         /\ facts.permitted /\ budget[m].approved /\ intent[i].budget = budget[m]
<1> DEFINE m == intent[i].manifest
<1>1. i \notin fault /\ ManifestHolds(m) /\ budget[m].approved /\ intent[i].budget = budget[m]
  BY DEF Stands, Unfaulted
<1>2. manifest[m] # None /\ manifest[m].snapshot = Snapshot /\ facts.permitted
  BY <1>1 DEF ManifestHolds, LatestManifest, Eligible
<1>3. m \in Manifest
  BY RowTypes DEF IInv, IntentRow
<1>4. m \notin disturbed
  <2>1. PICK s : s = manifest[m].snapshot
    OBVIOUS
  <2>2. s.cred = facts.cred /\ s.hold = facts.hold /\ facts.cred \in Nat /\ facts.hold \in Nat
    BY <1>2, <2>1, SnapshotType DEF IInv
  <2> QED
    BY <1>3, <2>1, <2>2 DEF IInv, ManifestInv
<1>5. intent[i].snapshot = Snapshot
  BY <1>2 DEF IInv, IntentInv
<1>6. i \notin refused
  BY <1>1 DEF IInv
<1> QED
  BY <1>1, <1>2, <1>4, <1>5, <1>6

LEMMA CurrentFacts ==
  ASSUME IInv, NEW i \in Intent, CurrentIntent(i)
  PROVE  LET m == intent[i].manifest IN
         /\ Exists(i) /\ i \notin fault /\ i \notin refused /\ m \notin disturbed
         /\ manifest[m].snapshot = Snapshot /\ intent[i].snapshot = Snapshot
         /\ facts.permitted /\ budget[m].approved /\ intent[i].budget = budget[m]
         /\ TimeFaults(i) = {}
<1>1. Exists(i) /\ Stands(i) /\ TimeFaults(i) = {}
  BY DEF CurrentIntent, Facts
<1> QED
  BY <1>1, StandsFacts

\* The locks are taken on a plan that may be sent.
LEMMA LockAndCheckStep ==
  ASSUME IInv, NEW d \in Dispatcher, LockAndCheck(d)
  PROVE  IInv'
<1>1. PICK x : x = [disp[d] EXCEPT !.pc = "locked"]
  OBVIOUS
<1>2. /\ disp[d].pc = "marked" /\ lock = None /\ lock' = [state |-> "held", by |-> d]
      /\ Dispatchable(Job(d)[1], Job(d)[2])
      /\ disp' = [disp EXCEPT ![d] = x]
      /\ UNCHANGED Around /\ UNCHANGED <<fault, started, attempt, witness, sent, refused>>
  BY <1>1 DEF LockAndCheck, At, clocks, rows, Around
<1>3. x \in Waiting \cup Sending /\ x.pc = "locked" /\ x.intent = disp[d].intent /\ x.role = disp[d].role
  BY <1>1, <1>2, SetPc DEF IInv
<1>4. /\ disp'[d] = x /\ \A e \in Dispatcher : e # d => disp'[e] = disp[e]
      /\ disp' \in [Dispatcher -> {Idle} \cup Waiting \cup Sending \cup Ended]
  BY <1>2, <1>3, Moved DEF IInv
<1>5. UNCHANGED <<mono, intent>>
  BY <1>2 DEF Around
<1>6. /\ Working(d) /\ disp[d].intent \in Intent /\ disp[d].role \in Role
      /\ Job(d) = <<disp[d].intent, disp[d].role>> /\ Job(d)[1] = disp[d].intent /\ Job(d)[2] = disp[d].role
  BY <1>2, DispTypes DEF IInv, Busy, Working, Job
<1>7. TypeInv'
  BY <1>2, <1>4, AroundTypes DEF IInv, TypeInv, TypeOK
<1>8. ManifestInv' /\ IntentInv' /\ OneIntent'
  BY <1>2, AroundKept
<1>9. DispInv'
  BY <1>2, <1>3, <1>5, <1>6, Advance
<1>10. WitnessInv'
  BY <1>2, <1>5 DEF IInv, WitnessInv
<1>11. SentInv'
  <2>1. \A e \in Dispatcher : Job(e)' = Job(e)
    BY <1>3, <1>4 DEF Job
  <2>2. \A e \in Dispatcher : disp'[e].pc \in {"marked", "locked"} => sent'[Job(e)'] = 0
    BY <1>2, <1>4, <2>1 DEF IInv, SentInv
  <2> QED
    BY <1>2, <1>5, <2>2 DEF IInv, SentInv, Exists
<1>12. Terms(d)
  <2>1. CurrentIntent(disp[d].intent)
    BY <1>2, <1>6 DEF Dispatchable
  <2>2. LET m == intent[disp[d].intent].manifest IN
        /\ disp[d].intent \notin fault /\ m \notin disturbed
        /\ facts.permitted /\ budget[m].approved /\ intent[disp[d].intent].budget = budget[m]
    BY <1>6, <2>1, CurrentFacts
  <2>3. /\ approval[Job(d)].approved /\ Job(d) \notin cancelled \cup bound
        /\ disp[d].role = "probe" => witness[<<disp[d].intent, "baseline">>] # None
                                     /\ witness[<<disp[d].intent, "baseline">>].outcome = "object_read"
    BY <1>2, <1>6 DEF Dispatchable
  <2> QED
    BY <2>2, <2>3 DEF Terms
<1>13. LockInv'
  <2>1. \A e \in Dispatcher : Locking(e)' => e = d
    BY <1>2, <1>4, NoLocking DEF Locking
  <2>2. disp[d].intent \notin fault'
    BY <1>2, <1>12 DEF Terms
  <2>3. Terms(d)'
    BY <1>2, <1>3, <1>4, <1>12, <2>2, TermsKept
  <2>4. lock' # None /\ lock'.by = d
    BY <1>2, NotNone
  <2> QED
    BY <2>1, <2>3, <2>4 DEF LockInv
<1> QED
  BY <1>2, <1>7, <1>8, <1>9, <1>10, <1>11, <1>13 DEF IInv

\* The one request of a plan.
LEMMA SendStep ==
  ASSUME IInv, NEW d \in Dispatcher, Send(d)
  PROVE  IInv'
<1>1. PICK x : x = [pc |-> "sent", intent |-> disp[d].intent, role |-> disp[d].role, send |-> Mark]
  OBVIOUS
<1>2. /\ disp[d].pc = "locked" /\ sent' = [sent EXCEPT ![Job(d)] = @ + 1]
      /\ disp' = [disp EXCEPT ![d] = x]
      /\ UNCHANGED Around /\ UNCHANGED <<fault, started, attempt, witness, lock, refused>>
  BY <1>1 DEF Send, At, clocks, rows, Around
<1>3. Working(d) /\ Busy(d) /\ disp[d].intent \in Intent /\ disp[d].role \in Role /\ Job(d) \in Plan
  BY <1>2, DispTypes DEF IInv, Busy, Working
<1>4. /\ x \in Sending /\ x.pc = "sent" /\ x.intent = disp[d].intent /\ x.role = disp[d].role
      /\ x.send = Mark /\ x.send.ns <= mono
  BY <1>1, <1>3, SnapshotType DEF IInv, Sending
<1>5. /\ disp'[d] = x /\ \A e \in Dispatcher : e # d => disp'[e] = disp[e]
      /\ disp' \in [Dispatcher -> {Idle} \cup Waiting \cup Sending \cup Ended]
  BY <1>2, <1>4, Moved DEF IInv
<1>6. UNCHANGED <<mono, intent>>
  BY <1>2 DEF Around
<1>7. sent[Job(d)] = 0
  BY <1>2 DEF IInv, SentInv
<1>8. /\ sent' \in [Plan -> Nat] /\ sent'[Job(d)] = 1
      /\ \A p \in Plan : p # Job(d) => sent'[p] = sent[p]
  BY <1>2, <1>3, <1>7 DEF IInv, TypeInv
<1>9. TypeInv'
  BY <1>2, <1>5, <1>8, AroundTypes DEF IInv, TypeInv, TypeOK
<1>10. ManifestInv' /\ IntentInv' /\ OneIntent'
  BY <1>2, AroundKept
<1>11. DispInv'
  BY <1>2, <1>3, <1>4, <1>6, Advance
<1>12. WitnessInv'
  BY <1>2, <1>6 DEF IInv, WitnessInv
<1>13. SentInv'
  <2>1. \A e \in Dispatcher : Job(e)' = Job(e)
    BY <1>4, <1>5 DEF Job
  <2>2. ASSUME NEW e \in Dispatcher, disp'[e].pc \in {"marked", "locked"}
        PROVE  sent'[Job(e)'] = 0
    <3>1. e # d /\ disp[e].pc \in {"marked", "locked"}
      BY <1>4, <1>5, <2>2
    <3>2. Job(e) # Job(d) /\ Job(e) \in Plan
      BY <1>3, <3>1, DispTypes DEF IInv, DispInv, Working, Busy
    <3> QED
      BY <1>8, <2>1, <3>1, <3>2 DEF IInv, SentInv
  <2>3. Job(d) \in started /\ Exists(Job(d)[1]) /\ Job(d)[2] \in RolesOf(intent[Job(d)[1]].purpose)
    BY <1>3, DispTypes DEF IInv, DispInv
  <2>4. ASSUME NEW p \in Plan
        PROVE  /\ sent'[p] <= 1
               /\ sent'[p] > 0 => p \in started /\ Exists(p[1]) /\ p[2] \in RolesOf(intent[p[1]].purpose)
    BY <1>8, <2>3 DEF IInv, SentInv
  <2> QED
    BY <1>2, <1>6, <2>2, <2>4 DEF SentInv, Exists
<1>14. LockInv'
  <2>1. \A e \in Dispatcher : Locking(e)' => Locking(e)
    BY <1>2, <1>5 DEF Locking
  <2>2. \A e \in Dispatcher : disp'[e].intent = disp[e].intent /\ disp'[e].role = disp[e].role
    BY <1>4, <1>5
  <2> QED
    BY <1>2, <2>1, <2>2, TermsKept DEF IInv, LockInv, Terms
<1> QED
  BY <1>2, <1>9, <1>10, <1>11, <1>12, <1>13, <1>14 DEF IInv

\* Whoever holds the locks is alone with them, and frees them.
LEMMA Unlocked ==
  ASSUME IInv, NEW d \in Dispatcher, Unlock(d)
  PROVE  /\ lock' \in {None} \cup [state : {"held"}, by : Dispatcher]
         /\ Locking(d) => \A e \in Dispatcher : e # d => ~Locking(e)
         /\ \A e \in Dispatcher : e # d /\ Locking(e) => lock' = lock
BY DEF IInv, TypeInv, LockInv, Unlock

LEMMA CommitAttemptStep ==
  ASSUME IInv, NEW d \in Dispatcher, CommitAttempt(d)
  PROVE  IInv'
<1>1. PICK x : x = [disp[d] EXCEPT !.pc = "committed"]
  OBVIOUS
<1>2. PICK a : a = [state |-> "row", prepared |-> disp[d].send]
  OBVIOUS
<1>3. /\ disp[d].pc = "sent" /\ attempt' = [attempt EXCEPT ![Job(d)] = a] /\ Unlock(d)
      /\ disp' = [disp EXCEPT ![d] = x]
      /\ UNCHANGED Around /\ UNCHANGED <<fault, started, witness, sent, refused>>
  BY <1>1, <1>2 DEF CommitAttempt, At, clocks, rows, Around
<1>4. x \in Sending /\ x.pc = "committed" /\ x.intent = disp[d].intent /\ x.role = disp[d].role /\ x.send = disp[d].send
  BY <1>1, <1>3, SetPc DEF IInv
<1>5. /\ disp'[d] = x /\ \A e \in Dispatcher : e # d => disp'[e] = disp[e]
      /\ disp' \in [Dispatcher -> {Idle} \cup Waiting \cup Sending \cup Ended]
  BY <1>3, <1>4, Moved DEF IInv
<1>6. UNCHANGED <<mono, intent>>
  BY <1>3 DEF Around
<1>7. Working(d) /\ Busy(d) /\ Locking(d) /\ Job(d) \in Plan /\ disp[d].send \in Marks
  BY <1>3, DispTypes DEF IInv, Busy, Working, Locking, Sending
<1>8. a \in AttemptRow
  BY <1>2, <1>7 DEF AttemptRow
<1>9. TypeInv'
  <2>1. attempt' \in [Plan -> AttemptRow \cup {None}]
    BY <1>3, <1>7, <1>8 DEF IInv, TypeInv, TypeOK
  <2> QED
    BY <1>3, <1>5, <2>1, AroundTypes, Unlocked DEF IInv, TypeInv, TypeOK
<1>10. ManifestInv' /\ IntentInv' /\ OneIntent'
  BY <1>3, AroundKept
<1>11. DispInv'
  <2>1. x.send.ns <= mono
    BY <1>3, <1>4, <1>7 DEF IInv, DispInv
  <2> QED
    BY <1>3, <1>4, <1>6, <1>7, <2>1, Advance
<1>12. WitnessInv'
  BY <1>3, <1>6 DEF IInv, WitnessInv
<1>13. SentInv'
  <2>1. \A e \in Dispatcher : Job(e)' = Job(e)
    BY <1>4, <1>5 DEF Job
  <2>2. \A e \in Dispatcher : disp'[e].pc \in {"marked", "locked"} => sent'[Job(e)'] = 0
    BY <1>3, <1>4, <1>5, <2>1 DEF IInv, SentInv
  <2> QED
    BY <1>3, <1>6, <2>2 DEF IInv, SentInv, Exists
<1>14. LockInv'
  <2>1. \A e \in Dispatcher : ~Locking(e)'
    <3>1. \A e \in Dispatcher : e # d => ~Locking(e)
      BY <1>3, <1>7, Unlocked
    <3> QED
      BY <1>4, <1>5, <3>1 DEF Locking
  <2> QED
    BY <2>1 DEF LockInv
<1> QED
  BY <1>3, <1>9, <1>10, <1>11, <1>12, <1>13, <1>14 DEF IInv

\* Two dispatchers that have marked their plans work on different intents,
\* and neither on the health intent that the other's stands on.
LEMMA OtherIntents ==
  ASSUME IInv, NEW d \in Dispatcher, NEW e \in Dispatcher, d # e, Working(d), Working(e)
  PROVE  /\ disp[e].intent # disp[d].intent
         /\ intent[disp[d].intent].purpose = "business" => disp[e].intent # intent[disp[d].intent].health.id
<1>1. /\ Busy(d) /\ Busy(e)
      /\ disp[d].intent \in Intent /\ disp[e].intent \in Intent
      /\ Job(d) = <<disp[d].intent, disp[d].role>> /\ Job(e) = <<disp[e].intent, disp[e].role>>
  BY DispTypes DEF IInv, Busy, Working, Job
<1>2. /\ Exists(disp[d].intent) /\ disp[d].role \in RolesOf(intent[disp[d].intent].purpose)
      /\ disp[d].role = "probe" => witness[<<disp[d].intent, "baseline">>] # None
      /\ witness[Job(d)] = None
      /\ disp[e].role \in RolesOf(intent[disp[e].intent].purpose)
      /\ disp[e].role = "probe" => witness[<<disp[e].intent, "baseline">>] # None
      /\ witness[Job(e)] = None
      /\ Job(d) # Job(e)
  BY <1>1 DEF IInv, DispInv
<1>3. disp[e].intent # disp[d].intent
  BY <1>1, <1>2 DEF RolesOf
<1>4. ASSUME intent[disp[d].intent].purpose = "business", disp[e].intent = intent[disp[d].intent].health.id
      PROVE  FALSE
  <2>1. intent[disp[e].intent].purpose = "health_baseline" /\ witness[<<disp[e].intent, "health">>] # None
    BY <1>1, <1>2, <1>4 DEF IInv, IntentInv
  <2> QED
    BY <1>1, <1>2, <2>1 DEF RolesOf
<1> QED
  BY <1>3, <1>4

\* A dispatcher whose request has been answered, or not, moves on; it records
\* no fault of an intent whose request another is sending.
LEMMA EndedStep ==
  ASSUME IInv, NEW d \in Dispatcher, Working(d), NEW x \in Ended, disp' = [disp EXCEPT ![d] = x],
         x.intent = disp[d].intent, x.role = disp[d].role, x.send.ns <= mono,
         UNCHANGED Around, UNCHANGED <<started, attempt, witness, lock, sent>>,
         NEW s \in SUBSET Intent, fault' = fault \cup s, refused' = refused \cup s,
         \A e \in Dispatcher : e # d /\ Locking(e) => disp[e].intent \notin s
  PROVE  IInv'
<1>1. x.pc \in {"completed", "validated"}
  BY DEF Ended
<1>2. /\ disp'[d] = x /\ \A e \in Dispatcher : e # d => disp'[e] = disp[e]
      /\ disp' \in [Dispatcher -> {Idle} \cup Waiting \cup Sending \cup Ended]
  BY Moved DEF IInv
<1>3. UNCHANGED <<mono, intent>>
  BY DEF Around
<1>4. TypeInv'
  <2>1. fault' \subseteq Intent
    BY DEF IInv, TypeInv, TypeOK
  <2> QED
    BY <1>2, <2>1, AroundTypes DEF IInv, TypeInv, TypeOK
<1>5. ManifestInv' /\ IntentInv' /\ OneIntent'
  BY AroundKept
<1>6. DispInv'
  BY <1>1, <1>3, Advance
<1>7. WitnessInv'
  BY <1>3 DEF IInv, WitnessInv
<1>8. SentInv'
  <2>1. \A e \in Dispatcher : Job(e)' = Job(e)
    BY <1>2 DEF Job
  <2>2. \A e \in Dispatcher : disp'[e].pc \in {"marked", "locked"} => sent'[Job(e)'] = 0
    BY <1>1, <1>2, <2>1 DEF IInv, SentInv
  <2> QED
    BY <1>3, <2>2 DEF IInv, SentInv, Exists
<1>9. LockInv'
  <2>1. ASSUME NEW e \in Dispatcher, Locking(e)' PROVE lock' # None /\ lock'.by = e /\ Terms(e)'
    <3>1. e # d /\ Locking(e) /\ disp'[e] = disp[e]
      BY <1>1, <1>2, <2>1 DEF Locking
    <3>2. lock # None /\ lock.by = e /\ Terms(e)
      BY <3>1 DEF IInv, LockInv
    <3>3. disp[e].intent \notin fault'
      BY <3>1, <3>2 DEF Terms
    <3>4. Terms(e)'
      BY <3>1, <3>2, <3>3, TermsKept
    <3> QED
      BY <3>2, <3>4
  <2> QED
    BY <2>1 DEF LockInv
<1>10. refused' \subseteq fault'
  BY DEF IInv
<1> QED
  BY <1>4, <1>5, <1>6, <1>7, <1>8, <1>9, <1>10 DEF IInv

\* What is known of a dispatcher whose request has left.
LEMMA AfterSend ==
  ASSUME IInv, NEW d \in Dispatcher, disp[d].pc \in {"committed", "completed", "validated"}
  PROVE  /\ Working(d) /\ Busy(d) /\ Job(d)[1] = disp[d].intent /\ disp[d].intent \in Intent /\ Job(d) \in Plan
         /\ disp[d].role \in Role /\ disp[d].send \in Marks /\ disp[d].send.ns <= mono
         /\ Exists(disp[d].intent) /\ Job(d) \in started /\ witness[Job(d)] = None
<1>1. /\ Working(d) /\ Busy(d) /\ Job(d)[1] = disp[d].intent /\ disp[d].intent \in Intent /\ Job(d) \in Plan
      /\ disp[d].role \in Role
  BY DispTypes DEF IInv, Busy, Working
<1>2. disp[d].send \in Marks
  BY DispTypes DEF IInv, Sending, Ended
<1> QED
  BY <1>1, <1>2 DEF IInv, DispInv

\* The response is read, on whatever the clocks say by then.
LEMMA CompleteStep ==
  ASSUME IInv, NEW d \in Dispatcher, Complete(d)
  PROVE  IInv'
<1> DEFINE i == Job(d)[1]
<1>1. PICK o \in Outcomes[disp[d].role] :
        disp' = [disp EXCEPT ![d] =
            [pc |-> "completed", intent |-> i, role |-> @.role, send |-> @.send, complete |-> Mark, response |-> o,
             temporal |-> IF mono - disp[d].send.ns >= ResponseLife THEN "network_incomplete"
                          ELSE IF TimeFaults(i) # {} THEN "clock_or_deadline_invalid" ELSE "qualified"]]
  BY DEF Complete
<1>2. PICK t \in {"qualified", "network_incomplete", "clock_or_deadline_invalid"} :
        t = IF mono - disp[d].send.ns >= ResponseLife THEN "network_incomplete"
            ELSE IF TimeFaults(i) # {} THEN "clock_or_deadline_invalid" ELSE "qualified"
  OBVIOUS
<1>3. PICK x : x = [pc |-> "completed", intent |-> i, role |-> disp[d].role, send |-> disp[d].send,
                    complete |-> Mark, response |-> o, temporal |-> t]
  OBVIOUS
<1>4. /\ disp[d].pc = "committed" /\ fault' = fault \cup TimeFaults(i) /\ refused' = refused \cup TimeFaults(i)
      /\ UNCHANGED Around /\ UNCHANGED <<started, attempt, witness, lock, sent>>
  BY DEF Complete, At, RecordFaults, clocks, rows, Around
<1>5. disp' = [disp EXCEPT ![d] = x]
  BY <1>1, <1>2, <1>3
<1>6. /\ Working(d) /\ i = disp[d].intent /\ i \in Intent /\ disp[d].role \in Role
      /\ disp[d].send \in Marks /\ Exists(i) /\ disp[d].send.ns <= mono
  BY <1>4, AfterSend
<1>7. o \in {"healthy", "object_read", "business_denied", "inconclusive"}
  <2>1. PICK y \in Response : o = Interpret(y, disp[d].role # "probe", IF disp[d].role = "health" THEN "health" ELSE "business")
    BY <1>1, <1>6 DEF Outcomes
  <2> QED
    BY <2>1 DEF Interpret
<1>8. TimeFaults(i) \in SUBSET Intent
  BY <1>6, FaultsType
<1> HIDE DEF i
<1>9. x \in Ended /\ x.intent = disp[d].intent /\ x.role = disp[d].role /\ x.send.ns <= mono
  <2>1. Mark \in Marks
    BY SnapshotType DEF IInv
  <2> QED
    BY <1>3, <1>6, <1>7, <2>1 DEF Ended
<1>10. ASSUME NEW e \in Dispatcher, e # d, Locking(e) PROVE disp[e].intent \notin TimeFaults(i)
  <2>1. Working(e)
    BY <1>10 DEF Locking, Working
  <2> QED
    BY <1>6, <1>10, <2>1, OtherIntents, FaultsType
<1> QED
  BY <1>4, <1>5, <1>6, <1>8, <1>9, <1>10, EndedStep

\* No response arrives: no clock of an intent is asked.
LEMMA NoResponseStep ==
  ASSUME IInv, NEW d \in Dispatcher, NoResponse(d)
  PROVE  IInv'
<1>1. PICK x : x = [pc |-> "completed", intent |-> disp[d].intent, role |-> disp[d].role, send |-> disp[d].send,
                    complete |-> Mark, response |-> "inconclusive", temporal |-> "network_incomplete"]
  OBVIOUS
<1>2. PICK s \in SUBSET Intent : s = {}
  OBVIOUS
<1>3. /\ disp[d].pc = "committed" /\ disp' = [disp EXCEPT ![d] = x]
      /\ fault' = fault \cup s /\ refused' = refused \cup s
      /\ UNCHANGED Around /\ UNCHANGED <<started, attempt, witness, lock, sent>>
  BY <1>1, <1>2 DEF NoResponse, At, clocks, rows, Around
<1>4. /\ Working(d) /\ disp[d].intent \in Intent /\ disp[d].role \in Role
      /\ disp[d].send \in Marks /\ disp[d].send.ns <= mono
  BY <1>3, AfterSend
<1>5. x \in Ended /\ x.intent = disp[d].intent /\ x.role = disp[d].role /\ x.send.ns <= mono
  <2>1. Mark \in Marks
    BY SnapshotType DEF IInv
  <2> QED
    BY <1>1, <1>4, <2>1 DEF Ended
<1> QED
  BY <1>2, <1>3, <1>4, <1>5, EndedStep

\* The last validation of a result, in a session of its own.
LEMMA RevalidateStep ==
  ASSUME IInv, NEW d \in Dispatcher, Revalidate(d)
  PROVE  IInv'
<1> DEFINE i == Job(d)[1]
<1>1. PICK s : s = IF Facts(i) THEN TimeFaults(i) ELSE {}
  OBVIOUS
<1>2. PICK t : t = IF Dispatchable(i, disp[d].role) THEN disp[d].temporal ELSE "dependency_unavailable"
  OBVIOUS
<1>3. /\ disp[d].pc = "completed" /\ lock = None
      /\ fault' = fault \cup s /\ refused' = refused \cup s
      /\ UNCHANGED Around /\ UNCHANGED <<started, attempt, witness, lock, sent>>
  BY <1>1 DEF Revalidate, At, RecordFaults, clocks, rows, Around
<1>4. PICK x : x = [disp[d] EXCEPT !.pc = "validated", !.temporal = t]
  OBVIOUS
<1>5. disp' = [disp EXCEPT ![d] = x]
  BY <1>2, <1>4 DEF Revalidate
<1>6. Working(d) /\ i = disp[d].intent /\ i \in Intent /\ Exists(i) /\ disp[d].send.ns <= mono
  BY <1>3, AfterSend
<1>7. s \in SUBSET Intent
  BY <1>1, <1>6, FaultsType
<1>8. x \in Ended /\ x.intent = disp[d].intent /\ x.role = disp[d].role /\ x.send.ns <= mono
  <2>1. PICK y \in Ended : y = disp[d]
    BY <1>3, DispTypes DEF IInv
  <2>2. t \in {"qualified", "dependency_unavailable", "network_incomplete", "clock_or_deadline_invalid"}
    BY <1>2, <2>1 DEF Ended
  <2>3. x = [y EXCEPT !.pc = "validated", !.temporal = t]
    BY <1>4, <2>1
  <2>4. x \in Ended /\ x.intent = y.intent /\ x.role = y.role /\ x.send = y.send
    BY <2>2, <2>3 DEF Ended
  <2> QED
    BY <1>6, <2>1, <2>4
<1>9. \A e \in Dispatcher : ~Locking(e)
  BY <1>3, NoLocking
<1> QED
  BY <1>3, <1>5, <1>6, <1>7, <1>8, <1>9, EndedStep

\* A dispatcher gives its plan up: its locks are free, what committed stays,
\* and at most it has recorded the faults of its own intent.
LEMMA GiveUpStep ==
  ASSUME IInv, NEW d \in Dispatcher, disp' = [disp EXCEPT ![d] = Idle], Unlock(d),
         UNCHANGED Around, UNCHANGED <<started, attempt, witness, sent>>,
         NEW s, s \subseteq Intent, s # {} => Locking(d) \/ lock = None,
         fault' = fault \cup s, refused' \subseteq refused \cup s
  PROVE  IInv'
<1>1. /\ disp'[d] = Idle /\ \A e \in Dispatcher : e # d => disp'[e] = disp[e]
      /\ disp' \in [Dispatcher -> {Idle} \cup Waiting \cup Sending \cup Ended]
  BY Moved DEF IInv
<1>2. UNCHANGED <<mono, intent>>
  BY DEF Around
<1>3. TypeInv'
  <2>1. fault' \subseteq Intent
    BY DEF IInv, TypeInv, TypeOK
  <2> QED
    BY <1>1, <2>1, AroundTypes, Unlocked DEF IInv, TypeInv, TypeOK
<1>4. ManifestInv' /\ IntentInv' /\ OneIntent'
  BY AroundKept
<1>5. /\ Idle.pc = "idle" /\ ~Busy(d)' /\ ~Working(d)' /\ ~Locking(d)'
      /\ \A e \in Dispatcher : e # d =>
           /\ Job(e)' = Job(e) /\ (Busy(e)' <=> Busy(e)) /\ (Working(e)' <=> Working(e)) /\ (Locking(e)' <=> Locking(e))
  BY <1>1 DEF Idle, Busy, Working, Locking, Job
<1>6. DispInv'
  <2>1. ASSUME NEW e \in Dispatcher, Busy(e)'
        PROVE  /\ Exists(disp[e].intent)' /\ disp'[e].role \in RolesOf(intent'[disp'[e].intent].purpose)
               /\ disp'[e].role = "probe" => witness'[<<disp'[e].intent, "baseline">>] # None
               /\ Working(e)' => Job(e)' \in started' /\ witness'[Job(e)'] = None
               /\ disp'[e].pc \in {"sent", "committed", "completed", "validated"} => disp'[e].send.ns <= mono'
    <3>1. e # d /\ disp'[e] = disp[e] /\ Busy(e)
      BY <1>1, <1>5, <2>1
    <3> QED
      BY <1>2, <1>5, <3>1 DEF IInv, DispInv, Exists
  <2>2. \A e, f \in Dispatcher : Working(e)' /\ Working(f)' /\ Job(e)' = Job(f)' => e = f
    BY <1>5 DEF IInv, DispInv
  <2> QED
    BY <2>1, <2>2 DEF DispInv
<1>7. WitnessInv'
  BY <1>2 DEF IInv, WitnessInv
<1>8. SentInv'
  <2>1. \A e \in Dispatcher : disp'[e].pc \in {"marked", "locked"} => sent'[Job(e)'] = 0
    BY <1>1, <1>5 DEF IInv, SentInv
  <2> QED
    BY <1>2, <2>1 DEF IInv, SentInv, Exists
<1>9. LockInv'
  <2>1. ASSUME NEW e \in Dispatcher, Locking(e)' PROVE lock' # None /\ lock'.by = e /\ Terms(e)'
    <3>1. e # d /\ Locking(e) /\ disp'[e] = disp[e]
      BY <1>1, <1>5, <2>1
    <3>2. lock # None /\ lock.by = e /\ Terms(e) /\ lock' = lock
      BY <3>1, Unlocked DEF IInv, LockInv
    <3>3. ~Locking(d)
      BY <3>1, Unlocked
    <3>4. disp[e].intent \notin fault'
      BY <3>2, <3>3 DEF Terms
    <3>5. Terms(e)'
      BY <3>1, <3>2, <3>4, TermsKept
    <3> QED
      BY <3>2, <3>5
  <2> QED
    BY <2>1 DEF LockInv
<1>10. refused' \subseteq fault'
  BY DEF IInv
<1> QED
  BY <1>3, <1>4, <1>6, <1>7, <1>8, <1>9, <1>10 DEF IInv

LEMMA GiveUpSteps ==
  ASSUME IInv, NEW d \in Dispatcher, SendTooLate(d) \/ PersistTooLate(d) \/ Fail(d)
  PROVE  IInv'
<1>1. /\ disp' = [disp EXCEPT ![d] = Idle] /\ Unlock(d)
      /\ UNCHANGED Around /\ UNCHANGED <<started, attempt, witness, sent>>
  BY DEF SendTooLate, PersistTooLate, Fail, Done, Unlock, Around, clocks, rows
<1>2. CASE SendTooLate(d)
  <2>1. /\ Locking(d) /\ fault' = fault \cup TimeFaults(Job(d)[1])
        /\ refused' = refused \cup TimeFaults(Job(d)[1])
    BY <1>2 DEF SendTooLate, Locking, RecordFaults
  <2>2. Busy(d)
    BY <2>1 DEF Locking, Busy
  <2>3. Job(d)[1] \in Intent /\ Exists(Job(d)[1])
    BY <2>2, DispTypes DEF IInv, DispInv
  <2>4. TimeFaults(Job(d)[1]) \subseteq Intent
    BY <2>3, FaultsType
  <2> QED
    BY <1>1, <2>1, <2>4, GiveUpStep
<1>3. CASE PersistTooLate(d)
  <2>1. /\ disp[d].pc = "validated" /\ lock = None /\ fault' = fault \cup TimeFaults(Job(d)[1])
        /\ refused' = refused \cup TimeFaults(Job(d)[1])
    BY <1>3 DEF PersistTooLate, At, RecordFaults
  <2>2. Job(d)[1] \in Intent /\ Exists(Job(d)[1])
    BY <2>1, AfterSend
  <2>3. TimeFaults(Job(d)[1]) \subseteq Intent
    BY <2>2, FaultsType
  <2> QED
    BY <1>1, <2>1, <2>3, GiveUpStep
<1>4. CASE Fail(d)
  <2>1. PICK s : s = {}
    OBVIOUS
  <2>2. fault' = fault \cup s /\ refused' \subseteq refused \cup s /\ s \subseteq Intent /\ ~(s # {})
    BY <1>4, <2>1 DEF Fail
  <2> QED
    BY <1>1, <2>2, GiveUpStep
<1> QED
  BY <1>2, <1>3, <1>4

\* What ends a witness is a time.
LEMMA WitnessEndType ==
  ASSUME IInv, NEW d \in Dispatcher, disp[d].pc = "validated"
  PROVE  WitnessEnd(d, disp[d].intent) \in Int
<1> DEFINE i == disp[d].intent
           r == disp[d].role
<1>1. disp[d] \in Ended /\ Busy(d)
  BY DispTypes DEF IInv, Busy
<1>2. i \in Intent /\ r \in Role /\ disp[d].send.at \in Int /\ disp[d].complete.at \in Int
  BY <1>1 DEF Ended, Marks
<1>3. Exists(i) /\ (r = "probe" => witness[<<i, "baseline">>] # None)
  BY <1>1 DEF IInv, DispInv
<1>4. intent[i].until \in Int /\ intent[i].manifest \in Manifest
  BY <1>2, <1>3, RowTypes DEF IInv, IntentRow
<1>5. contract[intent[i].manifest].until \in Int
  BY <1>2, <1>3, <1>4, RowTypes DEF IInv, IntentInv, ContractRow
<1>6. r = "probe" => witness[<<i, "baseline">>].complete.at \in Int
  BY <1>2, <1>3, RowTypes DEF IInv, WitnessRow, Marks, Plan, Role
<1>7. PICK a \in Int, c \in Int : a = intent[i].until /\ c = contract[intent[i].manifest].until
  BY <1>4, <1>5
<1>8. PICK t \in Int :
        {t} = CASE r = "health" -> {disp[d].send.at + HealthLife}
                [] r = "baseline" -> {disp[d].complete.at + PairWindow}
                [] r = "probe" -> {witness[<<i, "baseline">>].complete.at + PairWindow}
  <2>1. HealthLife \in Int /\ PairWindow \in Int
    BY LivesAssumption
  <2>2. CASE r = "health"
    <3>1. disp[d].send.at + HealthLife \in Int
      BY <1>2, <2>1
    <3> QED
      BY <2>2, <3>1
  <2>3. CASE r = "baseline"
    <3>1. disp[d].complete.at + PairWindow \in Int
      BY <1>2, <2>1
    <3> QED
      BY <2>3, <3>1
  <2>4. CASE r = "probe"
    <3>1. witness[<<i, "baseline">>].complete.at + PairWindow \in Int
      BY <1>6, <2>1, <2>4
    <3> QED
      BY <2>4, <3>1
  <2> QED
    BY <1>2, <2>2, <2>3, <2>4 DEF Role
<1>9. {a, c} \cup {t} = {a, c, t, t}
  OBVIOUS
<1>10. WitnessEnd(d, i) = Min({a, c, t, t})
  BY <1>7, <1>8, <1>9 DEF WitnessEnd
<1> QED
  BY <1>10, MinTime

\* The witness of a plan, on whatever still holds by then.
LEMMA PersistStep ==
  ASSUME IInv, NEW d \in Dispatcher, Persist(d)
  PROVE  IInv'
<1> DEFINE i == Job(d)[1]
           faults == IF InTime(d, i) THEN {} ELSE {i}
<1>1. PICK t : t = Temporal(d, i)
  OBVIOUS
<1>2. PICK o : o = IF t = "qualified" THEN disp[d].response ELSE "inconclusive"
  OBVIOUS
<1>3. PICK w : w = [state |-> "row", send |-> disp[d].send, complete |-> disp[d].complete, clock |-> Mark,
                    temporal |-> t, outcome |-> o, until |-> WitnessEnd(d, i)]
  OBVIOUS
<1>4. /\ disp[d].pc = "validated" /\ lock = None /\ lock' = lock
      /\ fault' = fault \cup faults /\ refused' = refused \cup faults
      /\ disp' = [disp EXCEPT ![d] = Idle]
      /\ UNCHANGED Around /\ UNCHANGED <<started, attempt, sent>>
  BY DEF Persist, At, RecordFaults, Done, clocks, rows, Around
<1>5. witness' = [witness EXCEPT ![Job(d)] = w]
  BY <1>1, <1>2, <1>3 DEF Persist
<1>6. /\ Working(d) /\ Busy(d) /\ i = disp[d].intent /\ i \in Intent /\ Job(d) \in Plan /\ disp[d] \in Ended
  BY <1>4, DispTypes DEF IInv, Busy, Working
<1>7. /\ disp[d].send \in Marks /\ disp[d].complete \in Marks
      /\ disp[d].response \in {"healthy", "object_read", "business_denied", "inconclusive"}
      /\ disp[d].temporal \in {"qualified", "dependency_unavailable", "network_incomplete", "clock_or_deadline_invalid"}
  BY <1>6 DEF Ended
<1>8. Exists(i) /\ disp[d].send.ns <= mono /\ Job(d) \in started /\ witness[Job(d)] = None
  BY <1>4, <1>6 DEF IInv, DispInv
<1>9. w \in WitnessRow /\ w # None /\ w.send = disp[d].send
  <2>1. WitnessEnd(d, i) \in Int /\ Mark \in Marks
    BY <1>4, <1>6, WitnessEndType, SnapshotType DEF IInv
  <2>2. t \in {"qualified", "dependency_unavailable", "network_incomplete", "clock_or_deadline_invalid"}
    BY <1>1, <1>7 DEF Temporal
  <2>3. o \in {"healthy", "object_read", "business_denied", "inconclusive"}
    BY <1>2, <1>7
  <2>4. w \in WitnessRow /\ w.send = disp[d].send
    BY <1>3, <1>7, <2>1, <2>2, <2>3 DEF WitnessRow
  <2> QED
    BY <2>4, NotNone
<1>10. faults \subseteq Intent
  BY <1>6
<1> HIDE DEF i, faults
<1>11. /\ disp'[d] = Idle /\ \A e \in Dispatcher : e # d => disp'[e] = disp[e]
       /\ disp' \in [Dispatcher -> {Idle} \cup Waiting \cup Sending \cup Ended]
  BY <1>4, Moved DEF IInv
<1>12. /\ witness' \in [Plan -> WitnessRow \cup {None}] /\ witness'[Job(d)] = w
       /\ \A p \in Plan : p # Job(d) => witness'[p] = witness[p]
  BY <1>5, <1>6, <1>9 DEF IInv, TypeInv, TypeOK
<1>13. UNCHANGED <<mono, intent, manifest, contract, selection, disturbed, facts>>
  BY <1>4 DEF Around
<1>14. TypeInv'
  <2>1. fault' \subseteq Intent
    BY <1>4, <1>10 DEF IInv, TypeInv, TypeOK
  <2> QED
    BY <1>4, <1>11, <1>12, <2>1, AroundTypes DEF IInv, TypeInv, TypeOK
<1>15. \A p \in Plan : witness[p] # None => witness'[p] # None
  BY <1>9, <1>12
<1>16. ManifestInv' /\ IntentInv' /\ OneIntent'
  <2>1. ManifestInv' /\ OneIntent'
    BY <1>13 DEF IInv, ManifestInv, OneIntent, Exists
  <2>2. ASSUME NEW j \in Intent, Exists(j), intent[j].purpose = "business"
        PROVE  witness'[<<intent[j].health.id, "health">>] # None
    <3>1. intent[j].health # None /\ witness[<<intent[j].health.id, "health">>] # None /\ intent[j] \in IntentRow
      BY <2>2, RowTypes DEF IInv, IntentInv
    <3>2. intent[j].health.id \in Intent
      BY <3>1 DEF IntentRow, SelectionRow
    <3>3. <<intent[j].health.id, "health">> \in Plan
      BY <3>2 DEF Plan, Role
    <3> QED
      BY <1>15, <3>1, <3>3
  <2>3. IntentInv'
    BY <1>13, <2>2 DEF IInv, IntentInv, Exists
  <2> QED
    BY <2>1, <2>3
<1>17. /\ Idle.pc = "idle" /\ ~Busy(d)' /\ ~Working(d)'
       /\ \A e \in Dispatcher : e # d =>
            Job(e)' = Job(e) /\ (Busy(e)' <=> Busy(e)) /\ (Working(e)' <=> Working(e))
  BY <1>11 DEF Idle, Busy, Working, Job
<1>18. DispInv'
  <2>1. ASSUME NEW e \in Dispatcher, Busy(e)'
        PROVE  /\ Exists(disp[e].intent)' /\ disp'[e].role \in RolesOf(intent'[disp'[e].intent].purpose)
               /\ disp'[e].role = "probe" => witness'[<<disp'[e].intent, "baseline">>] # None
               /\ Working(e)' => Job(e)' \in started' /\ witness'[Job(e)'] = None
               /\ disp'[e].pc \in {"sent", "committed", "completed", "validated"} => disp'[e].send.ns <= mono'
    <3>1. e # d /\ disp'[e] = disp[e] /\ Busy(e)
      BY <1>11, <1>17, <2>1
    <3>2. disp[e].intent \in Intent /\ Job(e) \in Plan /\ <<disp[e].intent, "baseline">> \in Plan
      BY <3>1, DispTypes DEF IInv, Plan, Role
    <3>3. /\ Exists(disp[e].intent) /\ disp[e].role \in RolesOf(intent[disp[e].intent].purpose)
          /\ disp[e].role = "probe" => witness[<<disp[e].intent, "baseline">>] # None
          /\ Working(e) => Job(e) \in started /\ witness[Job(e)] = None /\ Job(e) # Job(d)
          /\ disp[e].pc \in {"sent", "committed", "completed", "validated"} => disp[e].send.ns <= mono
      BY <1>6, <3>1 DEF IInv, DispInv
    <3>4. Exists(disp[e].intent)' /\ disp'[e].role \in RolesOf(intent'[disp'[e].intent].purpose)
      BY <1>13, <3>1, <3>3 DEF Exists
    <3>5. disp'[e].role = "probe" => witness'[<<disp'[e].intent, "baseline">>] # None
      BY <1>15, <3>1, <3>2, <3>3
    <3>6. Working(e)' => Job(e)' \in started' /\ witness'[Job(e)'] = None
      BY <1>4, <1>12, <1>17, <3>1, <3>2, <3>3
    <3>7. disp'[e].pc \in {"sent", "committed", "completed", "validated"} => disp'[e].send.ns <= mono'
      BY <1>13, <3>1, <3>3
    <3> QED
      BY <3>4, <3>5, <3>6, <3>7
  <2>2. \A e, f \in Dispatcher : Working(e)' /\ Working(f)' /\ Job(e)' = Job(f)' => e = f
    BY <1>17 DEF IInv, DispInv
  <2> QED
    BY <2>1, <2>2 DEF DispInv
<1>19. WitnessInv'
  BY <1>4, <1>8, <1>9, <1>12, <1>13 DEF IInv, WitnessInv
<1>20. SentInv'
  <2>1. \A e \in Dispatcher : disp'[e].pc \in {"marked", "locked"} => sent'[Job(e)'] = 0
    BY <1>4, <1>11, <1>17 DEF IInv, SentInv
  <2> QED
    BY <1>4, <1>13, <2>1 DEF IInv, SentInv, Exists
<1>21. LockInv'
  <2>1. \A e \in Dispatcher : ~Locking(e)'
    BY <1>4, <1>11, <1>17, NoLocking DEF Locking
  <2> QED
    BY <2>1 DEF LockInv
<1> QED
  BY <1>4, <1>14, <1>16, <1>18, <1>19, <1>20, <1>21 DEF IInv

-----------------------------------------------------------------------------
(* The invariant                                                           *)

LEMMA InitInv == Init => IInv
<1> SUFFICES ASSUME Init PROVE IInv
  OBVIOUS
<1>1. Undecided \in Decisions
  BY LivesAssumption DEF Undecided, Decisions
<1>2. TypeOK
  BY <1>1 DEF Init, TypeOK
<1>3. facts \in FactsRow
  BY DEF Init, FactsRow
<1>4. TypeInv
  BY <1>2, <1>3, LivesAssumption DEF Init, TypeInv
<1>5. ManifestInv /\ IntentInv /\ OneIntent
  BY DEF Init, ManifestInv, IntentInv, OneIntent, Exists
<1>6. \A d \in Dispatcher : disp[d].pc = "idle"
  BY DEF Init, Idle
<1>7. DispInv /\ LockInv /\ WitnessInv /\ SentInv
  BY <1>6 DEF Init, DispInv, LockInv, WitnessInv, SentInv, Busy, Working, Locking
<1> QED
  BY <1>4, <1>5, <1>7 DEF Init, IInv

\* A step that leaves everything but the permit and the count of troubles.
LEMMA LosePermitStep ==
  ASSUME IInv, LosePermit \/ UNCHANGED vars
  PROVE  IInv'
<1>1. UNCHANGED Around /\ UNCHANGED <<fault, started, attempt, witness, lock, disp, sent, refused>>
  BY DEF LosePermit, vars, clocks, rows, runs, Around
<1>2. TypeInv'
  BY <1>1, AroundTypes DEF IInv, TypeInv, TypeOK
<1>3. ManifestInv' /\ IntentInv' /\ OneIntent'
  BY <1>1, AroundKept
<1>4. UNCHANGED <<mono, intent, facts, budget, approval, cancelled, bound, disturbed>>
  BY <1>1 DEF Around
<1>5. DispInv' /\ WitnessInv' /\ SentInv'
  BY <1>1, <1>4 DEF IInv, DispInv, WitnessInv, SentInv, Busy, Working, Job, Exists
<1>6. LockInv'
  BY <1>1, <1>4 DEF IInv, LockInv, Locking, Terms, Job
<1> QED
  BY <1>1, <1>2, <1>3, <1>5, <1>6 DEF IInv

LEMMA StepInv == IInv /\ [Next]_vars => IInv'
<1> SUFFICES ASSUME IInv, [Next]_vars PROVE IInv'
  OBVIOUS
<1>1. CASE Tick \/ SetBack
  BY <1>1, ClockSteps
<1>2. CASE ChangePermission \/ RotateCredential \/ Hold \/ ReleaseHold \/ ConfirmMapping
  BY <1>2, FactSteps
<1>3. CASE \E m \in Manifest : RecordManifest(m)
  BY <1>3, RecordManifestStep
<1>4. CASE \/ \E m \in Manifest : DecideBudget(m) \/ Confirm(m)
           \/ \E i \in Intent, r \in Role : Approve(i, r) \/ Cancel(i, r) \/ BindTask(i, r)
           \/ \E i \in Intent, probed \in BOOLEAN : VerifyPair(i, probed)
  BY <1>4, DecisionSteps
<1>5. CASE \E m \in Manifest, i \in Intent, n \in Number, p \in Purpose : Convert(i, n, m, p)
  BY <1>5, ConvertStep
<1>6. CASE \E m \in Manifest, h \in Intent : SelectHealth(m, h)
  BY <1>6, SelectHealthStep
<1>7. CASE \E i \in Intent : ObserveExpiry(i)
  BY <1>7, ObserveExpiryStep
<1>8. CASE LosePermit \/ UNCHANGED vars
  BY <1>8, LosePermitStep
<1>9. CASE \E d \in Dispatcher, i \in Intent, r \in Role : Begin(d, i, r)
  BY <1>9, BeginStep
<1>10. CASE \E d \in Dispatcher : MarkStarted(d) \/ LockAndCheck(d) \/ Send(d)
  BY <1>10, MarkStartedStep, LockAndCheckStep, SendStep
<1>11. CASE \E d \in Dispatcher : SendTooLate(d) \/ PersistTooLate(d) \/ Fail(d)
  BY <1>11, GiveUpSteps
<1>12. CASE \E d \in Dispatcher : CommitAttempt(d) \/ Complete(d) \/ NoResponse(d) \/ Revalidate(d) \/ Persist(d)
  BY <1>12, CommitAttemptStep, CompleteStep, NoResponseStep, RevalidateStep, PersistStep
<1> QED
  BY <1>1, <1>2, <1>3, <1>4, <1>5, <1>6, <1>7, <1>8, <1>9, <1>10, <1>11, <1>12
     DEF Next, IntentRequest, VerificationRequest

\* Every reachable state of research verification satisfies the inductive
\* invariant: markers, locks, faults and snapshots agree with the dispatchers.
THEOREM Invariance == Spec => []IInv
<1>1. Init => IInv
  BY InitInv
<1>2. IInv /\ [Next]_vars => IInv'
  BY StepInv
<1> QED
  BY <1>1, <1>2, PTL DEF Spec

\* Each table of manifests, decisions, contracts, intents, attempts, witnesses
\* and pairs holds rows of its shape, one per key.
THEOREM TypeCorrectness == Spec => []TypeOK
<1>1. IInv => TypeOK
  BY DEF IInv, TypeInv
<1> QED
  BY <1>1, Invariance, PTL

\* However often a dispatch is retried, fails or crashes, and whoever else
\* dispatches, one slot of a reviewed manifest costs at most one request: the
\* durable marker commits before the bytes, and a manifest funds one intent.
THEOREM SlotSentOnce == Spec => []OneRequestPerSlot
<1>1. IInv => OneRequestPerSlot
  <2> SUFFICES ASSUME IInv PROVE OneRequestPerSlot
    OBVIOUS
  <2>1. \A p \in Plan : sent[p] <= 1
    BY DEF IInv, SentInv
  <2>2. ASSUME NEW p \in SentPlans, NEW q \in SentPlans,
               intent[p[1]].manifest = intent[q[1]].manifest,
               SlotOf(intent[p[1]].purpose, p[2]) = SlotOf(intent[q[1]].purpose, q[2])
        PROVE  p = q
    <3>1. /\ p \in Plan /\ Exists(p[1]) /\ p[2] \in RolesOf(intent[p[1]].purpose)
          /\ q \in Plan /\ Exists(q[1]) /\ q[2] \in RolesOf(intent[q[1]].purpose)
      BY DEF IInv, SentInv, SentPlans
    <3>2. /\ p[1] \in Intent /\ q[1] \in Intent /\ p = <<p[1], p[2]>> /\ q = <<q[1], q[2]>>
          /\ intent[p[1]].purpose \in Purpose /\ intent[q[1]].purpose \in Purpose
      BY <3>1, RowTypes DEF IInv, Plan, IntentRow
    <3>3. intent[p[1]].purpose = intent[q[1]].purpose /\ p[2] = q[2]
      BY <2>2, <3>1, <3>2 DEF SlotOf, RolesOf, Purpose
    <3>4. p[1] = q[1]
      BY <2>2, <3>1, <3>2, <3>3 DEF IInv, OneIntent
    <3> QED
      BY <3>2, <3>3, <3>4
  <2> QED
    BY <2>1, <2>2 DEF OneRequestPerSlot
<1> QED
  BY <1>1, Invariance, PTL

-----------------------------------------------------------------------------
(* What a step may never do                                                *)

\* The step of each table: requests leave in Send, pairs are written by
\* VerifyPair, selections by SelectHealth and intents by Convert.
LEMMA WhoWrites ==
  ASSUME [Next]_vars
  PROVE  /\ UNCHANGED sent \/ \E d \in Dispatcher : Send(d)
         /\ UNCHANGED pair \/ \E i \in Intent, probed \in BOOLEAN : VerifyPair(i, probed)
         /\ UNCHANGED selection \/ \E m \in Manifest, h \in Intent : SelectHealth(m, h)
         /\ UNCHANGED intent \/ \E m \in Manifest, i \in Intent, n \in Number, p \in Purpose : Convert(i, n, m, p)
<1>1. CASE Tick \/ SetBack \/ ChangePermission \/ RotateCredential \/ Hold \/ ReleaseHold \/ ConfirmMapping
  BY <1>1 DEF Tick, SetBack, ChangePermission, RotateCredential, Hold, ReleaseHold, ConfirmMapping, rows, runs
<1>2. CASE \E m \in Manifest : RecordManifest(m) \/ DecideBudget(m) \/ Confirm(m)
  BY <1>2 DEF RecordManifest, DecideBudget, Confirm, runs
<1>3. CASE \E m \in Manifest, i \in Intent, n \in Number, p \in Purpose : Convert(i, n, m, p)
  BY <1>3, ZenonT(30) DEF Convert, runs
<1>4. CASE \E m \in Manifest, h \in Intent : SelectHealth(m, h)
  BY <1>4 DEF SelectHealth, runs
<1>5. CASE \E i \in Intent, r \in Role : Approve(i, r) \/ Cancel(i, r) \/ BindTask(i, r)
  BY <1>5 DEF Approve, Cancel, BindTask, runs
<1>6. CASE \E i \in Intent, probed \in BOOLEAN : VerifyPair(i, probed)
  BY <1>6 DEF VerifyPair, runs
<1>7. CASE \E i \in Intent : ObserveExpiry(i)
  BY <1>7 DEF ObserveExpiry, rows, runs
<1>8. CASE LosePermit \/ UNCHANGED vars
  BY <1>8 DEF LosePermit, vars, rows, runs
<1>9. CASE \E d \in Dispatcher, i \in Intent, r \in Role : Begin(d, i, r)
  BY <1>9 DEF Begin, rows
<1>10. CASE \E d \in Dispatcher : MarkStarted(d) \/ LockAndCheck(d) \/ Send(d)
  BY <1>10 DEF MarkStarted, LockAndCheck, Send, rows
<1>11. CASE \E d \in Dispatcher : SendTooLate(d) \/ PersistTooLate(d) \/ Fail(d)
  BY <1>11 DEF SendTooLate, PersistTooLate, Fail, rows
<1>12. CASE \E d \in Dispatcher : CommitAttempt(d) \/ Complete(d) \/ NoResponse(d) \/ Revalidate(d) \/ Persist(d)
  BY <1>12 DEF CommitAttempt, Complete, NoResponse, Revalidate, Persist, rows
<1> QED
  BY <1>1, <1>2, <1>3, <1>4, <1>5, <1>6, <1>7, <1>8, <1>9, <1>10, <1>11, <1>12
     DEF Next, IntentRequest, VerificationRequest

\* The plan whose request leaves is the sending dispatcher's, under its terms.
LEMMA LeavingTerms ==
  ASSUME IInv, [Next]_vars, NEW p \in Leaving
  PROVE  \E d \in Dispatcher : Locking(d) /\ Terms(d) /\ p = Job(d) /\ TimeFaults(disp[d].intent) = {}
<1>1. p \in Plan /\ sent'[p] > sent[p]
  BY DEF Leaving
<1>2. sent[p] \in Nat
  BY <1>1 DEF IInv, TypeInv
<1>3. PICK d \in Dispatcher : Send(d)
  BY <1>1, <1>2, WhoWrites
<1>4. disp[d].pc = "locked" /\ sent' = [sent EXCEPT ![Job(d)] = @ + 1] /\ TimeFaults(Job(d)[1]) = {}
  BY <1>3 DEF Send, At
<1>5. Locking(d) /\ Job(d) \in Plan /\ Job(d)[1] = disp[d].intent
  BY <1>4, DispTypes DEF IInv, Locking, Busy
<1>6. p = Job(d)
  BY <1>1, <1>2, <1>4, <1>5 DEF IInv, TypeInv
<1> QED
  BY <1>4, <1>5, <1>6 DEF IInv, LockInv

\* Within a window of a mark, on the clock that nobody can set.
LEMMA WithinMono ==
  ASSUME TypeInv, NEW mark \in Marks, NEW seconds \in Nat, Within(mark, seconds)
  PROVE  mono - mark.ns < seconds /\ wall < mark.at + seconds
<1>1. mark.at \in Int /\ mark.ns \in Nat /\ mono \in Nat /\ wall \in Int
  BY DEF Marks, TypeInv
<1>2. wall < mark.at + seconds /\ mono - mark.ns < (mark.at + seconds) - mark.at
  BY DEF Within, Before
<1> QED
  BY <1>1, <1>2

\* Bytes leave only for a plan that is approved, not cancelled and in no
\* task's hands at that very moment, on a budget whose decision still stands,
\* though Dispatch.validate ran in an earlier step; a probe's only after its
\* baseline has read the object, and within the pair window of it on the
\* monotonic clock.
THEOREM TermsAtSend == Spec => SentUnderTerms
<1> DEFINE Kept ==
      \A p \in Leaving :
         LET m == intent[p[1]].manifest
             b == witness[<<p[1], "baseline">>]
         IN /\ approval[p].approved /\ p \notin cancelled \cup bound
            /\ facts.permitted /\ budget[m].approved /\ intent[p[1]].budget = budget[m]
            /\ p[2] = "probe" => /\ b # None /\ b.outcome = "object_read"
                                 /\ mono - b.complete.ns < PairWindow
<1>1. IInv /\ [Next]_vars => Kept
  <2> SUFFICES ASSUME IInv, [Next]_vars, NEW p \in Leaving
               PROVE  LET m == intent[p[1]].manifest
                          b == witness[<<p[1], "baseline">>]
                      IN /\ approval[p].approved /\ p \notin cancelled \cup bound
                         /\ facts.permitted /\ budget[m].approved /\ intent[p[1]].budget = budget[m]
                         /\ p[2] = "probe" => /\ b # None /\ b.outcome = "object_read"
                                              /\ mono - b.complete.ns < PairWindow
    OBVIOUS
  <2>1. PICK d \in Dispatcher : Locking(d) /\ Terms(d) /\ p = Job(d) /\ TimeFaults(disp[d].intent) = {}
    BY LeavingTerms
  <2>2. /\ Busy(d) /\ p[1] = disp[d].intent /\ p[2] = disp[d].role /\ disp[d].intent \in Intent
        /\ Exists(disp[d].intent) /\ disp[d].role \in RolesOf(intent[disp[d].intent].purpose)
    <3>1. Busy(d)
      BY <2>1 DEF Locking, Busy
    <3> QED
      BY <2>1, <3>1, DispTypes DEF IInv, DispInv
  <2>3. /\ approval[p].approved /\ p \notin cancelled \cup bound /\ facts.permitted
        /\ budget[intent[p[1]].manifest].approved /\ intent[p[1]].budget = budget[intent[p[1]].manifest]
        /\ p[2] = "probe" => witness[<<p[1], "baseline">>] # None
                             /\ witness[<<p[1], "baseline">>].outcome = "object_read"
    BY <2>1, <2>2 DEF Terms
  <2>4. ASSUME p[2] = "probe" PROVE mono - witness[<<p[1], "baseline">>].complete.ns < PairWindow
    <3>1. intent[p[1]].purpose = "business"
      BY <2>2, <2>4 DEF RolesOf
    <3>2. PairTime(p[1])
      BY <2>1, <2>2, <3>1 DEF TimeFaults
    <3>3. Within(witness[<<p[1], "baseline">>].complete, PairWindow)
      BY <2>3, <2>4, <3>2 DEF PairTime
    <3>4. witness[<<p[1], "baseline">>].complete \in Marks
      BY <2>2, <2>3, <2>4, RowTypes DEF IInv, Plan, Role, WitnessRow
    <3>5. PairWindow \in Nat
      BY LivesAssumption
    <3> QED
      BY <3>3, <3>4, <3>5, WithinMono DEF IInv
  <2> QED
    BY <2>3, <2>4
<1> QED
  BY <1>1, Invariance, PTL DEF Spec, SentUnderTerms

\* Once an operation has found an intent out of its time, or the source it
\* stands on was held or the credential rotated, no request of the intent is
\* sent, no pair is written for it and its health evidence is neither selected
\* nor taken over by a new intent, even if the wall clock is set back, the hold
\* is released, or a witness of it was committed as qualified: the fault is
\* durable, and the pinned snapshot never equals the current one again.
THEOREM EndedStaysEnded == Spec => EndingIsFinal
<1> DEFINE Kept == \A i \in Relied : i \notin refused /\ intent[i].manifest \notin disturbed
<1>1. IInv /\ [Next]_vars => Kept
  <2> SUFFICES ASSUME IInv, [Next]_vars, NEW i \in Relied
               PROVE  i \notin refused /\ intent[i].manifest \notin disturbed
    OBVIOUS
  <2>1. CASE \E p \in Leaving : i = p[1]
    <3>1. PICK p \in Leaving : i = p[1]
      BY <2>1
    <3>2. PICK d \in Dispatcher : Locking(d) /\ Terms(d) /\ p = Job(d)
      BY LeavingTerms
    <3>3. p[1] = disp[d].intent
      BY <3>2 DEF Job
    <3> QED
      BY <3>1, <3>2, <3>3 DEF Terms, IInv
  <2>2. CASE i \in Intent /\ pair[i] = None /\ pair'[i] # None
    <3>1. PICK j \in Intent, probed \in BOOLEAN : VerifyPair(j, probed)
      BY <2>2, WhoWrites
    <3>2. PICK row : pair' = [pair EXCEPT ![j] = row]
      BY <3>1 DEF VerifyPair
    <3>3. i = j /\ CurrentIntent(j)
      <4>1. i = j
        BY <2>2, <3>2 DEF IInv, TypeInv, TypeOK
      <4> QED
        BY <3>1, <4>1 DEF VerifyPair, PairHolds
    <3> QED
      BY <3>3, CurrentFacts
  <2>3. CASE \E m \in Manifest : selection[m] = None /\ selection'[m] # None /\ i = selection'[m].id
    <3>1. PICK m \in Manifest : selection[m] = None /\ selection'[m] # None /\ i = selection'[m].id
      BY <2>3
    <3>2. PICK n \in Manifest, h \in Intent : SelectHealth(n, h)
      BY <3>1, WhoWrites
    <3>3. PICK row : row = [state |-> "row", id |-> h]
      OBVIOUS
    <3>4. selection' = [selection EXCEPT ![n] = row] /\ Exists(h) /\ Stands(h)
      BY <3>2, <3>3 DEF SelectHealth, HealthHolds
    <3>5. selection'[m] = row
      BY <3>1, <3>4 DEF IInv, TypeInv, TypeOK
    <3>6. i = h
      BY <3>1, <3>3, <3>5
    <3> QED
      BY <3>4, <3>6, StandsFacts
  <2>4. CASE \E j \in Intent : ~Exists(j) /\ intent'[j] # None /\ intent'[j].purpose = "business" /\ i = intent'[j].health.id
    <3>1. PICK j \in Intent :
            ~Exists(j) /\ intent'[j] # None /\ intent'[j].purpose = "business" /\ i = intent'[j].health.id
      BY <2>4
    <3>2. PICK m \in Manifest, k \in Intent, n \in Number, p \in Purpose : Convert(k, n, m, p)
      BY <3>1, WhoWrites DEF Exists
    <3> DEFINE until == Min({manifest[m].until, wall + IntentLife}
                            \cup (IF p = "business" THEN {HealthEnd(selection[m].id)} ELSE {}))
               health == IF p = "business" THEN selection[m] ELSE None
    <3>3. PICK row : row = [state |-> "row", number |-> n, purpose |-> p, manifest |-> m, budget |-> budget[m],
                            snapshot |-> Snapshot, at |-> wall, health |-> health, until |-> until]
      OBVIOUS
    <3>4. intent' = [intent EXCEPT ![k] = row]
      BY <3>2, <3>3 DEF Convert
    <3>5. row.purpose = p /\ row.health = health
      BY <3>3
    <3>6. intent'[j] = row
      BY <3>1, <3>4 DEF IInv, TypeInv, TypeOK, Exists
    <3>7. p = "business" /\ i = selection[m].id
      BY <3>1, <3>5, <3>6
    <3>8. selection[m] # None /\ Stands(i)
      BY <3>2, <3>7 DEF Convert, HealthHolds
    <3>9. i \in Intent /\ Exists(i)
      BY <3>7, <3>8, RowTypes DEF IInv, IntentInv, SelectionRow
    <3> QED
      BY <3>8, <3>9, StandsFacts
  <2> QED
    BY <2>1, <2>2, <2>3, <2>4 DEF Relied
<1> QED
  BY <1>1, Invariance, PTL DEF Spec, EndingIsFinal

\* A pair is never revised, and verify_pair accuses only on two qualified
\* reads of the object, the probe's sent after the baseline's response and
\* within the pair window of it, under the credential, the mapping and the
\* source that the intent pinned and that still stand.
THEOREM AccusationsStand == Spec => PairIsEvidence
<1> DEFINE Kept ==
      \A i \in Intent :
         /\ pair[i] # None => pair'[i] = pair[i]
         /\ pair[i] = None /\ pair'[i] # None /\ pair'[i].outcome = "suspected_violation" =>
              LET b == witness[<<i, "baseline">>]
                  p == witness[<<i, "probe">>]
              IN /\ b.temporal = "qualified" /\ p.temporal = "qualified"
                 /\ b.outcome = "object_read" /\ p.outcome = "object_read"
                 /\ b.complete.ns <= p.send.ns /\ p.send.ns - b.complete.ns < PairWindow
                 /\ intent[i].snapshot = Snapshot
<1>1. IInv /\ [Next]_vars => Kept
  <2> SUFFICES ASSUME IInv, [Next]_vars, NEW i \in Intent, pair'[i] # pair[i]
               PROVE  /\ pair[i] = None
                      /\ pair'[i].outcome = "suspected_violation" =>
                           LET b == witness[<<i, "baseline">>]
                               p == witness[<<i, "probe">>]
                           IN /\ b.temporal = "qualified" /\ p.temporal = "qualified"
                              /\ b.outcome = "object_read" /\ p.outcome = "object_read"
                              /\ b.complete.ns <= p.send.ns /\ p.send.ns - b.complete.ns < PairWindow
                              /\ intent[i].snapshot = Snapshot
    OBVIOUS
  <2>1. PICK j \in Intent, probed \in BOOLEAN : VerifyPair(j, probed)
    BY WhoWrites
  <2> DEFINE b == witness[<<i, "baseline">>]
             p == witness[<<i, "probe">>]
             second == IF probed THEN witness[<<j, "probe">>].outcome ELSE "none"
             result == PairOutcome(Expected, witness[<<j, "baseline">>].outcome, second)
             row == [state |-> "row", probed |-> probed, outcome |-> result]
  <2>2. pair' = [pair EXCEPT ![j] = row] /\ row.outcome = result
    BY <2>1 DEF VerifyPair
  <2> HIDE DEF row
  <2>3. i = j /\ pair[i] = None /\ PairHolds(i, probed) /\ pair'[i] = row
    <3>1. i = j /\ pair'[i] = row
      BY <2>2 DEF IInv, TypeInv, TypeOK
    <3> QED
      BY <2>1, <3>1 DEF VerifyPair
  <2>4. ASSUME row.outcome = "suspected_violation"
        PROVE  /\ b.temporal = "qualified" /\ p.temporal = "qualified"
               /\ b.outcome = "object_read" /\ p.outcome = "object_read"
               /\ b.complete.ns <= p.send.ns /\ p.send.ns - b.complete.ns < PairWindow
               /\ intent[i].snapshot = Snapshot
    <3>1. probed /\ b.outcome = "object_read"
      <4>1. PICK v : v = b.outcome
        OBVIOUS
      <4>2. PairOutcome(Expected, v, second) = "suspected_violation" /\ (v = "object_read" <=> probed)
        BY <2>2, <2>3, <2>4, <4>1 DEF PairHolds
      <4> QED
        BY <4>1, <4>2 DEF PairOutcome
    <3>2. p.outcome = "object_read"
      <4>1. PICK v : v = p.outcome
        OBVIOUS
      <4>2. PairOutcome(Expected, "object_read", v) = "suspected_violation"
        BY <2>2, <2>3, <2>4, <3>1, <4>1
      <4> QED
        BY <4>1, <4>2 DEF PairOutcome
    <3>3. /\ CurrentIntent(i) /\ Qualified(<<i, "baseline">>) /\ Within(b.complete, PairWindow)
          /\ Qualified(<<i, "probe">>) /\ p.send.ns >= b.complete.ns
      BY <2>3, <3>1 DEF PairHolds
    <3>4. b # None /\ b.temporal = "qualified" /\ p # None /\ p.temporal = "qualified"
      BY <3>3 DEF Qualified
    <3>5. <<i, "baseline">> \in Plan /\ <<i, "probe">> \in Plan
      BY DEF Plan, Role
    <3>6. b.complete \in Marks /\ b.complete.ns \in Nat /\ p.send.ns \in Nat /\ p.send.ns <= mono /\ mono \in Nat
      BY <3>4, <3>5, RowTypes DEF IInv, WitnessRow, Marks, WitnessInv, TypeInv
    <3>7. mono - b.complete.ns < PairWindow /\ PairWindow \in Nat
      BY <3>3, <3>6, WithinMono, LivesAssumption DEF IInv
    <3>8. b.complete.ns <= p.send.ns /\ p.send.ns - b.complete.ns < PairWindow
      <4> HIDE DEF b, p
      <4> QED
        BY <3>3, <3>6, <3>7
    <3>9. intent[i].snapshot = Snapshot
      BY <3>3, CurrentFacts
    <3> QED
      BY <3>1, <3>2, <3>4, <3>8, <3>9
  <2> QED
    BY <2>3, <2>4
<1> QED
  BY <1>1, Invariance, PTL DEF Spec, PairIsEvidence
=============================================================================
