---------------------------- MODULE MCKnowledge -----------------------------
(***************************************************************************)
(* Instance of Knowledge for TLC.  Behaviours start from the empty         *)
(* database, for the life of the observations of one context, or from two  *)
(* contexts that each have an accepted observation and a subject on it,    *)
(* for the catalog.                                                        *)
(***************************************************************************)
EXTENDS Knowledge, TLC

CONSTANTS c1, c2, t1, t2, r1, m1, m2

Batch == [m \in Material |-> m]
Entries == [m \in Material |-> {1}]
Cards == {{"anonymous"}, {"bearer"}}
TargetOf == [c \in Ctx |-> IF c = c1 THEN t1 ELSE t2]

Prepared ==
  /\ now = 1 /\ boot = 1 /\ trouble = 0 /\ backup = NoRow /\ deleted = {} /\ nextId = 3
  /\ target = [t \in Target |-> [origin |-> 0, local |-> TRUE, digest |-> 0, stands |-> TRUE, facts |-> "present"]]
  /\ ctx = [c \in Ctx |-> [versions |-> <<Intake(TRUE)>>, targets |-> {TargetOf[c]}, closed |-> 0]]
  /\ prep = [c \in Ctx |-> [r \in Ref |->
               [target |-> TargetOf[c], version |-> 1, until |-> 1 + MaxWindow, origin |-> 0, revoked |-> 0]]]
  /\ record = [i \in Id |->
       [ctx |-> IF i = 1 THEN c1 ELSE c2, prep |-> r1, material |-> m1, corrects |-> 0, expires |-> 1 + Retention,
        state |-> "available", unavailable |-> 0, holdStart |-> 0, holdUntil |-> 0, payload |-> TRUE]]
  /\ control = [c \in Ctx |-> 1] /\ lastRead = [i \in Id |-> 0]
  /\ version = <<>> /\ decision = [v \in Version |-> <<>>]
  /\ validation = <<>> /\ feedback = <<>> /\ lastMatch = [v \in Version |-> 0]
  /\ subject = [c \in Ctx |-> <<[intake |-> 1, target |-> TargetOf[c], sources |-> {IF c = c1 THEN 1 ELSE 2},
                                identity |-> "anonymous"]>>]

MCSpec == ((Init /\ KnowledgeInit) \/ Prepared) /\ [][KnowledgeNext]_allvars

Known == {c \in Ctx : ctx[c] # NoRow}
Held == \E i \in Id : record[i] # NoRow /\ record[i].holdStart # 0
Corrected == \E c \in Known : Len(ctx[c].versions) > 1
Closed == \E c \in Known : ctx[c].closed # 0
Revoked == \E c \in Ctx, r \in Ref : prep[c][r] # NoRow /\ prep[c][r].revoked # 0
Short == \E c \in Ctx, r \in Ref : prep[c][r] # NoRow /\ prep[c][r].until < 1 + MaxWindow
Changes == Cardinality({k \in 1..4 : <<Corrected, Closed, Revoked, deleted # {}>>[k]})

\* One context, and a second only to take over the target of the first.
ObservationBound ==
  /\ nextId = 1 => now = 1
  /\ \A c \in Known : ctx[c].versions[1].eligible /\ ctx[c].targets = {t1}
  /\ c2 \in Known => c1 \in Known /\ ctx[c1].closed = 1 /\ now <= 2 /\ ~Held /\ Changes <= 1
  /\ c2 \in Known => trouble = 0 /\ backup = NoRow /\ nextId <= 2
  /\ target[t2] = [origin |-> 0, local |-> TRUE, digest |-> 0, stands |-> TRUE, facts |-> "present"]
  /\ Corrected => ~Closed /\ ~Revoked
  /\ nextId > 2 => now <= 2 /\ trouble = 0 /\ backup = NoRow /\ ~Held /\ Changes <= 1
  /\ backup # NoRow \/ trouble # 0 => now <= 2 /\ ~Held /\ Changes <= 1
  /\ Short => trouble = 0 /\ backup = NoRow /\ ~Held /\ Changes <= 1
  /\ Changes <= 2
  /\ version = <<>> /\ (\A c \in Ctx : Len(subject[c]) <= 1)
  /\ \A c \in Ctx : subject[c] # <<>> => now = 1 /\ ~Held /\ Changes = 0 /\ trouble = 0 /\ nextId = 2

Decisions == Len(FlattenSeq([v \in Version |-> decision[v]]))

\* How many things of the first context have changed.
Disturbed ==
  Cardinality({k \in 1..5 : <<Corrected, Closed, Revoked, record[1] = NoRow \/ record[1].state # "available",
                              control[c1] # 1>>[k]}) + trouble

\* Only the first context writes; a rule for bearers is the only one.
CatalogBound ==
  /\ now <= 2 /\ ~Held /\ Disturbed <= 1 /\ lastRead = [i \in Id |-> 0]
  /\ control[c2] = 1 /\ ctx[c2].closed = 0 /\ Len(ctx[c2].versions) = 1 /\ prep[c2][r1].revoked = 0
  /\ record[2] # NoRow /\ record[2].state = "available"
  /\ \A c \in Ctx : ctx[c].targets = {TargetOf[c]} /\ Len(subject[c]) = 1
  /\ \A v \in DOMAIN version :
       /\ version[v].ctx = c1 /\ (version[v].actors = {"bearer"} => Len(version) = 1)
       /\ v = 2 => version[v].supersedes = 1
       /\ version[v].scope = "project" => ~Took(decision[v], {"reuse"})
  /\ Decisions <= 4 /\ (Decisions = 4 => \E v \in Version : Took(decision[v], {"withdraw", "disable"}))
  /\ Disturbed > 0 => Decisions <= 2 /\ Len(version) <= 1 /\ feedback = <<>>
  /\ feedback # <<>> => Decisions <= 1
  /\ Len(version) = 2 => now = 1 /\ Decisions <= 3 /\ Len(decision[1]) <= 1

Bound == IF \A c \in Ctx : ctx[c] # NoRow /\ Cardinality(Known) = 2 /\ ctx[c].targets = {TargetOf[c]} THEN CatalogBound ELSE ObservationBound
=============================================================================
