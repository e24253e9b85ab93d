-------------------------- MODULE KnowledgeProofs ---------------------------
(***************************************************************************)
(* Theorems about Observation and Knowledge, for any contexts, targets,    *)
(* preparations, payloads and rules, and any retention, holds and limits.  *)
(*                                                                         *)
(* A backup is a whole database of an earlier moment, so what holds of the *)
(* running database is said of any database and holds of the backup too.   *)
(* The rest is about the times on a row, which only ever move in the       *)
(* directions that keep its tombstone, and about lines of versions, which  *)
(* stay inside one context.                                                *)
(***************************************************************************)
EXTENDS Knowledge, WellFoundedInduction, TLAPS

-----------------------------------------------------------------------------
(* The inductive invariant                                                 *)

\* The tables of a database are functions to rows; a context has a version.
Tables(cx, pr, rec, nid, ctl, lr) ==
  /\ cx \in [Ctx -> ContextRow \cup {NoRow}] /\ \A c \in Ctx : cx[c] # NoRow => cx[c].versions # <<>>
  /\ pr \in [Ctx -> [Ref -> PreparationRow \cup {NoRow}]]
  /\ rec \in [Id -> RecordRow \cup {NoRow}]
  /\ nid \in 1 .. (MaxIds + 1) /\ ctl \in [Ctx -> Nat] /\ lr \in [Id -> Time]

\* No target is owned by two open contexts.
Apart(cx) ==
  \A c, d \in Ctx :
    /\ cx[c] # NoRow /\ cx[c].closed = 0 /\ cx[d] # NoRow /\ cx[d].closed = 0 /\ c # d
    => cx[c].targets \cap cx[d].targets = {}

\* A record has its context and its preparation, and an id given out before.
References(cx, pr, rec, nid) ==
  \A i \in Id : rec[i] # NoRow =>
    /\ i < nid /\ cx[rec[i].ctx] # NoRow /\ pr[rec[i].ctx][rec[i].prep] # NoRow

\* Nothing was read in the future, and nothing of an id not given out yet.
Reads(nid, lr, t) == \A i \in Id : lr[i] <= t /\ (i >= nid => lr[i] = 0)

\* The times of the row count its unavailability from no earlier than read.
Outlives(row, read) ==
  \/ read <= row.holdUntil
  \/ row.unavailable = 0 /\ read <= row.expires
  \/ /\ row.unavailable # 0 /\ read <= row.unavailable
     /\ read <= row.expires \/ (row.holdStart # 0 /\ row.holdUntil = 0)

\* A row was last read, and held, before its context closed and before its
\* preparation was revoked; one that no cause has ended but that is marked
\* unavailable has run out for good.
RowInv(row, closed, revoked, read, t) ==
  /\ read <= t /\ row.holdStart <= t
  /\ closed # 0 => read <= closed
  /\ revoked # 0 => read <= revoked /\ row.holdStart <= revoked
  /\ row.holdUntil # 0 => row.holdStart # 0
  /\ row.state = "available" /\ row.unavailable # 0 => row.expires <= t /\ row.holdUntil <= t
  /\ Outlives(row, read)

Histories(cx, pr, rec, lr, t) ==
  \A i \in Id : rec[i] # NoRow =>
    RowInv(rec[i], cx[rec[i].ctx].closed, pr[rec[i].ctx][rec[i].prep].revoked, lr[i], t)

\* What holds of the database and of its backup.
Database(cx, pr, rec, nid, ctl, lr, t, b) ==
  /\ Tables(cx, pr, rec, nid, ctl, lr) /\ Apart(cx) /\ References(cx, pr, rec, nid)
  /\ Reads(nid, lr, t) /\ Histories(cx, pr, rec, lr, t)
  /\ \A c \in Ctx : ctl[c] <= b

World ==
  /\ now \in 1 .. MaxTime /\ boot \in Nat \ {0} /\ trouble \in 0 .. MaxTrouble
  /\ target \in [Target -> TargetRow]

\* A deletion is on the record wherever the running process serves it.
Deletions ==
  /\ deleted \subseteq Id
  /\ \A i \in deleted :
       /\ i < nextId
       /\ record[i] # NoRow /\ control[record[i].ctx] = boot => record[i].state # "available"

Backup ==
  backup # NoRow =>
    /\ Database(backup.ctx, backup.prep, backup.record, backup.nextId, backup.control, backup.lastRead, now, boot)
    /\ \A i \in Id : backup.lastRead[i] <= lastRead[i]

\* The inductive invariant of the observations.
ObservationInv ==
  World /\ Database(ctx, prep, record, nextId, control, lastRead, now, boot) /\ Deletions /\ Backup

-----------------------------------------------------------------------------
(* Numbers                                                                 *)

\* The least of some times is one of them.
LEMMA MinFacts ==
  ASSUME NEW S, S \subseteq Nat, S # {}
  PROVE  Min(S) \in S /\ \A y \in S : Min(S) <= y
<1>1. PICK x \in S : \A y \in S : ~(<<y, x>> \in OpToRel(<, Nat))
  BY WFMin, NatLessThanWellFounded
<1>2. \A y \in S : x <= y
  <2> SUFFICES ASSUME NEW y \in S PROVE x <= y
    OBVIOUS
  <2>1. ~(y < x)
    BY <1>1 DEF OpToRel
  <2> QED
    BY <2>1
<1> QED
  BY <1>2 DEF Min

LEMMA MaxOfTwo ==
  ASSUME NEW a \in Nat, NEW b \in Nat
  PROVE  Max({a, b}) \in Nat /\ Max({a, b}) >= a /\ Max({a, b}) >= b /\ Max({a, b}) \in {a, b}
<1>1. \E x \in {a, b} : \A y \in {a, b} : x >= y
  <2>1. CASE a >= b
    BY <2>1
  <2>2. CASE b >= a
    BY <2>2
  <2> QED
    BY <2>1, <2>2
<1> QED
  BY <1>1 DEF Max

LEMMA NoRowIsNoRow == NoRow \notin RecordRow /\ NoRow \notin PreparationRow /\ NoRow \notin ContextRow
<1>1. \A x \in RecordRow : x # NoRow
  BY DEF RecordRow, NoRow
<1>2. \A x \in PreparationRow : x # NoRow
  BY DEF PreparationRow, NoRow
<1>3. \A x \in ContextRow : x # NoRow
  BY DEF ContextRow, NoRow
<1> QED
  BY <1>1, <1>2, <1>3

-----------------------------------------------------------------------------
(* Rows of records                                                         *)

\* What marking a row leaves alone.
LEMMA MarkFacts ==
  ASSUME NEW row \in RecordRow, NEW at \in Nat, NEW endHold \in BOOLEAN, NEW m,
         m = MarkUnavailable(row, at, endHold)
  PROVE  /\ m \in RecordRow /\ m.ctx = row.ctx /\ m.prep = row.prep /\ m.expires = row.expires
         /\ m.holdStart = row.holdStart /\ m.payload = row.payload /\ m.state = row.state
         /\ m.holdUntil = IF endHold THEN 0 ELSE row.holdUntil
<1> DEFINE S == {at, row.expires} \cup ({row.unavailable} \ {0})
           first == Min(S)
           since == IF row.holdStart # 0 /\ row.holdUntil = 0 /\ row.unavailable # 0 THEN row.unavailable ELSE first
           ended == endHold /\ row.holdUntil # 0 /\ row.holdStart <= at
           low == Min({row.holdUntil, at})
           un == IF ended THEN Max({since, low}) ELSE since
           hold == IF endHold THEN 0 ELSE row.holdUntil
<1>1. m = [row EXCEPT !.unavailable = un, !.holdUntil = hold]
  BY DEF MarkUnavailable
<1>2. row.expires \in Nat /\ row.unavailable \in Nat /\ row.holdUntil \in Nat
  BY DEF RecordRow
<1>3. S \subseteq Nat /\ S # {}
  BY <1>2
<1>4. first \in Nat
  BY <1>3, MinFacts
<1>5. low \in Nat
  <2>1. {row.holdUntil, at} \subseteq Nat /\ {row.holdUntil, at} # {}
    BY <1>2
  <2> QED
    BY <2>1, MinFacts
<1>6. since \in Nat
  BY <1>2, <1>4
<1>7. un \in Nat /\ hold \in Nat
  BY <1>2, <1>5, <1>6, MaxOfTwo
<1>8. hold = IF endHold THEN 0 ELSE row.holdUntil
  OBVIOUS
<1> HIDE DEF un, hold
<1>9. m \in RecordRow
  BY <1>1, <1>7 DEF RecordRow
<1> QED
  BY <1>1, <1>8, <1>9 DEF RecordRow

\* Marking a row unavailable at a time after it was last read, and ending a
\* hold that had begun, keeps its tombstone long enough.
LEMMA MarkOutlives ==
  ASSUME NEW row \in RecordRow, NEW at \in Nat, NEW endHold \in BOOLEAN, NEW read \in Nat,
         read <= at, endHold => row.holdStart <= at, row.holdUntil # 0 => row.holdStart # 0,
         Outlives(row, read)
  PROVE  Outlives(MarkUnavailable(row, at, endHold), read)
<1> DEFINE S == {at, row.expires} \cup ({row.unavailable} \ {0})
           first == Min(S)
           since == IF row.holdStart # 0 /\ row.holdUntil = 0 /\ row.unavailable # 0 THEN row.unavailable ELSE first
           ended == endHold /\ row.holdUntil # 0 /\ row.holdStart <= at
           low == Min({row.holdUntil, at})
           un == IF ended THEN Max({since, low}) ELSE since
           hold == IF endHold THEN 0 ELSE row.holdUntil
           m == [row EXCEPT !.unavailable = un, !.holdUntil = hold]
<1>1. MarkUnavailable(row, at, endHold) = m
  BY DEF MarkUnavailable
<1>2. row.expires \in Nat /\ row.unavailable \in Nat /\ row.holdUntil \in Nat
  BY DEF RecordRow
<1>3. S \subseteq Nat /\ S # {}
  BY <1>2
<1>4. first \in S /\ first \in Nat
  BY <1>3, MinFacts
<1>5. low \in {row.holdUntil, at} /\ low \in Nat
  <2>1. {row.holdUntil, at} \subseteq Nat /\ {row.holdUntil, at} # {}
    BY <1>2
  <2> QED
    BY <2>1, MinFacts
<1>6. since \in Nat
  BY <1>2, <1>4
<1>7. un \in Nat /\ un >= since /\ (ended => un >= low)
  BY <1>5, <1>6, MaxOfTwo
<1>8. row.holdStart \in Nat
  BY DEF RecordRow, Time
<1>9. m.unavailable = un /\ m.holdUntil = hold /\ m.expires = row.expires /\ m.holdStart = row.holdStart
  BY DEF RecordRow
<1>10. first = at \/ first = row.expires \/ (first = row.unavailable /\ row.unavailable # 0)
  BY <1>4
<1> HIDE DEF first, low, un, m, S
<1>11. CASE read <= row.holdUntil
  <2>1. CASE ~endHold \/ read = 0
    <3>1. hold = row.holdUntil \/ read = 0
      BY <2>1
    <3>2. hold \in Nat
      BY <1>2
    <3> QED
      BY <1>1, <1>2, <1>7, <1>8, <1>9, <1>11, <3>1, <3>2 DEF Outlives
  <2>2. CASE endHold /\ read # 0
    <3>1. ended /\ row.holdStart # 0
      BY <1>2, <1>11, <2>2
    <3>2. read <= un
      BY <1>2, <1>5, <1>7, <1>11, <3>1
    <3> QED
      BY <1>1, <1>2, <1>7, <1>8, <1>9, <3>1, <3>2, <2>2 DEF Outlives
  <2> QED
    BY <2>1, <2>2
<1>12. CASE row.unavailable = 0 /\ read <= row.expires
  <2>1. read <= first
    BY <1>2, <1>10, <1>12
  <2>2. read <= un
    BY <1>2, <1>4, <1>6, <1>7, <1>12, <2>1
  <2> QED
    BY <1>1, <1>2, <1>7, <1>9, <1>12, <2>2 DEF Outlives
<1>13. CASE row.unavailable # 0 /\ read <= row.unavailable /\ read <= row.expires
  <2>1. read <= first
    BY <1>2, <1>10, <1>13
  <2>2. read <= un
    BY <1>2, <1>4, <1>6, <1>7, <1>13, <2>1
  <2> QED
    BY <1>1, <1>2, <1>7, <1>9, <1>13, <2>2 DEF Outlives
<1>14. CASE row.unavailable # 0 /\ read <= row.unavailable /\ row.holdStart # 0 /\ row.holdUntil = 0
  <2>1. un = row.unavailable /\ hold = 0
    BY <1>14 DEF un
  <2> QED
    BY <1>1, <1>9, <1>14, <2>1 DEF Outlives
<1> QED
  BY <1>1, <1>11, <1>12, <1>13, <1>14 DEF Outlives

\* The columns of a row that no change of its availability touches.
Kin(a, b) ==
  a.ctx = b.ctx /\ a.prep = b.prep /\ a.expires = b.expires /\ a.holdStart = b.holdStart /\ a.payload = b.payload

LEMMA EndedFacts ==
  ASSUME NEW row \in RecordRow, NEW st \in {"quarantined", "deleted"}, NEW closed \in Nat, NEW revoked \in Nat,
         NEW read \in Nat, RowInv(row, closed, revoked, read, now)
  PROVE  /\ [row EXCEPT !.state = st] \in RecordRow /\ Kin([row EXCEPT !.state = st], row)
         /\ [row EXCEPT !.state = st].state = st /\ st # "available"
         /\ RowInv([row EXCEPT !.state = st], closed, revoked, read, now)
<1> DEFINE r == [row EXCEPT !.state = st]
<1>1. r \in RecordRow
  BY DEF RecordRow
<1>2. /\ r.state = st /\ Kin(r, row) /\ r.unavailable = row.unavailable /\ r.holdUntil = row.holdUntil
  BY DEF RecordRow, Kin
<1> HIDE DEF r
<1>3. RowInv(r, closed, revoked, read, now)
  BY <1>2 DEF RowInv, Outlives, Kin
<1> QED
  BY <1>1, <1>2, <1>3 DEF r

LEMMA MarkRow ==
  ASSUME NEW row \in RecordRow, row.state # "available", NEW closed \in Nat, NEW revoked \in Nat,
         NEW read \in Nat, RowInv(row, closed, revoked, read, now), now \in Nat,
         NEW at \in Nat, NEW endHold \in BOOLEAN, read <= at, endHold => row.holdStart <= at
  PROVE  /\ MarkUnavailable(row, at, endHold) \in RecordRow /\ Kin(MarkUnavailable(row, at, endHold), row)
         /\ MarkUnavailable(row, at, endHold).state = row.state
         /\ RowInv(MarkUnavailable(row, at, endHold), closed, revoked, read, now)
<1> DEFINE m == MarkUnavailable(row, at, endHold)
<1>1. Outlives(m, read)
  BY MarkOutlives DEF RowInv
<1> HIDE DEF m
<1>2. /\ m \in RecordRow /\ Kin(m, row) /\ m.state = row.state
      /\ m.holdUntil = IF endHold THEN 0 ELSE row.holdUntil
  BY MarkFacts DEF m, Kin
<1>3. m.holdUntil # 0 => m.holdStart # 0
  BY <1>2 DEF RowInv, Kin
<1>4. RowInv(m, closed, revoked, read, now)
  BY <1>1, <1>2, <1>3 DEF RowInv, Kin
<1> QED
  BY <1>2, <1>4 DEF m

\* A row that is ended for a cause found now.
LEMMA EndNow ==
  ASSUME NEW row \in RecordRow, row.state # "available", NEW closed \in Nat, NEW revoked \in Nat,
         NEW read \in Nat, RowInv(row, closed, revoked, read, now), now \in Nat, NEW endHold \in BOOLEAN
  PROVE  /\ MarkUnavailable(row, now, endHold) \in RecordRow /\ Kin(MarkUnavailable(row, now, endHold), row)
         /\ MarkUnavailable(row, now, endHold).state = row.state
         /\ RowInv(MarkUnavailable(row, now, endHold), closed, revoked, read, now)
<1>1. read <= now /\ row.holdStart <= now
  BY DEF RowInv
<1> QED
  BY <1>1, MarkRow

\* Causes that are found on a row later.
LEMMA RecordedFacts ==
  ASSUME NEW row \in RecordRow, now \in Nat, NEW read \in Nat,
         ctx[row.ctx] \in ContextRow, prep[row.ctx][row.prep] \in PreparationRow,
         RowInv(row, ctx[row.ctx].closed, prep[row.ctx][row.prep].revoked, read, now)
  PROVE  /\ RecordedUnavailability(row) \in RecordRow /\ Kin(RecordedUnavailability(row), row)
         /\ RecordedUnavailability(row).state = "available" => RecordedUnavailability(row) = row
         /\ row.state # "available" => RecordedUnavailability(row).state # "available"
         /\ RowInv(RecordedUnavailability(row), ctx[row.ctx].closed, prep[row.ctx][row.prep].revoked, read, now)
<1> DEFINE closed == ctx[row.ctx].closed
           revoked == prep[row.ctx][row.prep].revoked
           at == Min({closed, revoked} \ {0})
           q == [row EXCEPT !.state = "quarantined"]
           one == IF closed = 0 THEN row ELSE MarkUnavailable(q, at, FALSE)
           p == [one EXCEPT !.state = "quarantined"]
           two == IF revoked = 0 THEN one ELSE MarkUnavailable(p, revoked, TRUE)
<1>1. closed \in Nat /\ revoked \in Nat
  BY DEF ContextRow, PreparationRow, Time
<1>2. RecordedUnavailability(row) = two
  BY DEF RecordedUnavailability
<1>3. RowInv(row, closed, revoked, read, now)
  OBVIOUS
<1> HIDE DEF closed, revoked
<1>4. /\ q \in RecordRow /\ Kin(q, row) /\ q.state # "available" /\ RowInv(q, closed, revoked, read, now)
  BY <1>1, <1>3, EndedFacts
<1>5. closed # 0 => at \in Nat /\ read <= at
  <2> SUFFICES ASSUME closed # 0 PROVE at \in Nat /\ read <= at
    OBVIOUS
  <2>1. {closed, revoked} \ {0} \subseteq Nat /\ {closed, revoked} \ {0} # {}
    BY <1>1
  <2>2. at \in {closed, revoked} \ {0}
    BY <2>1, MinFacts
  <2> QED
    BY <1>1, <1>3, <2>2 DEF RowInv
<1> HIDE DEF at, q
<1>6. ASSUME closed # 0
      PROVE  one \in RecordRow /\ Kin(one, q) /\ one.state = q.state /\ RowInv(one, closed, revoked, read, now)
  <2>1. one = MarkUnavailable(q, at, FALSE)
    BY <1>6
  <2> HIDE DEF one
  <2>2. PICK endHold \in BOOLEAN : endHold = FALSE
    OBVIOUS
  <2>3. one = MarkUnavailable(q, at, endHold) /\ (endHold => q.holdStart <= at)
    BY <2>1, <2>2
  <2> QED
    BY <1>1, <1>4, <1>5, <1>6, <2>3, MarkRow
<1>7. /\ one \in RecordRow /\ Kin(one, row) /\ RowInv(one, closed, revoked, read, now)
      /\ one.state = "available" => one = row
      /\ row.state # "available" => one.state # "available"
  BY <1>3, <1>4, <1>6 DEF Kin
<1> HIDE DEF one
<1>8. /\ p \in RecordRow /\ Kin(p, one) /\ p.state # "available" /\ RowInv(p, closed, revoked, read, now)
  BY <1>1, <1>7, EndedFacts
<1> HIDE DEF p
<1>9. revoked # 0 => read <= revoked /\ p.holdStart <= revoked
  BY <1>8 DEF RowInv
<1>10. ASSUME revoked # 0
       PROVE  two \in RecordRow /\ Kin(two, p) /\ two.state = p.state /\ RowInv(two, closed, revoked, read, now)
  <2>1. two = MarkUnavailable(p, revoked, TRUE)
    BY <1>10
  <2> HIDE DEF two
  <2>2. PICK endHold \in BOOLEAN : endHold = TRUE
    OBVIOUS
  <2>3. two = MarkUnavailable(p, revoked, endHold) /\ (endHold => p.holdStart <= revoked)
    BY <1>9, <1>10, <2>1, <2>2
  <2> QED
    BY <1>1, <1>8, <1>9, <1>10, <2>3, MarkRow
<1>11. /\ two \in RecordRow /\ Kin(two, row) /\ RowInv(two, closed, revoked, read, now)
       /\ two.state = "available" => two = row
       /\ row.state # "available" => two.state # "available"
  BY <1>7, <1>8, <1>10 DEF Kin
<1> HIDE DEF two
<1> QED
  BY <1>2, <1>11 DEF closed, revoked

\* What is purged was not read for as long as its tombstone is kept.
LEMMA PurgedFacts ==
  ASSUME NEW row \in RecordRow, now \in Nat, NEW closed \in Nat, NEW revoked \in Nat, NEW read \in Nat,
         RowInv(row, closed, revoked, read, now)
  PROVE  \/ Purged(row) = NoRow /\ now >= read + Keep
         \/ /\ Purged(row) \in RecordRow /\ Purged(row).ctx = row.ctx /\ Purged(row).prep = row.prep
            /\ Purged(row).state = row.state /\ RowInv(Purged(row), closed, revoked, read, now)
<1> DEFINE since == IF row.unavailable = 0 THEN row.expires ELSE row.unavailable
           s == Settled(row)
           r == [row EXCEPT !.unavailable = s, !.payload = FALSE]
<1>1. /\ row.expires \in Nat /\ row.unavailable \in Nat /\ row.holdUntil \in Nat /\ row.holdStart \in Nat
      /\ Keep \in Nat
  BY ObservationAssumption DEF RecordRow, Time
<1>2. s \in Nat /\ s >= since /\ s >= row.holdUntil
  <2>1. since \in Nat
    BY <1>1
  <2> HIDE DEF since
  <2>2. s = Max({since, row.holdUntil})
    BY DEF Settled, since
  <2> QED
    BY <1>1, <2>1, <2>2, MaxOfTwo
<1>3. read <= s
  BY <1>1, <1>2 DEF RowInv, Outlives
<1> HIDE DEF s
<1>4. CASE StateOf(row) = "available" \/ now < row.holdUntil
  <2>1. Purged(row) = row
    BY <1>4 DEF Purged
  <2> QED
    BY <2>1
<1>5. CASE ~(StateOf(row) = "available" \/ now < row.holdUntil) /\ now >= s + Keep
  <2>1. Purged(row) = NoRow
    BY <1>5 DEF Purged, s
  <2> QED
    BY <1>1, <1>2, <1>3, <1>5, <2>1
<1>6. CASE ~(StateOf(row) = "available" \/ now < row.holdUntil) /\ ~(now >= s + Keep)
  <2>1. Purged(row) = r
    BY <1>6 DEF Purged, s
  <2>2. r \in RecordRow
    BY <1>2 DEF RecordRow
  <2>3. /\ r.ctx = row.ctx /\ r.prep = row.prep /\ r.state = row.state /\ r.expires = row.expires
        /\ r.holdStart = row.holdStart /\ r.holdUntil = row.holdUntil /\ r.unavailable = s
    BY DEF RecordRow
  <2> HIDE DEF r
  <2>4. now >= row.holdUntil /\ (row.state = "available" => now >= row.expires)
    BY <1>1, <1>6 DEF StateOf
  <2>5. Outlives(r, read)
    BY <1>1, <1>2, <1>3, <2>3 DEF RowInv, Outlives
  <2>6. RowInv(r, closed, revoked, read, now)
    BY <1>1, <2>3, <2>4, <2>5 DEF RowInv
  <2> QED
    BY <2>1, <2>2, <2>3, <2>6
<1> QED
  BY <1>4, <1>5, <1>6

\* One turn of the loop of reconcile; a deletion stays one, or a quarantine.
LEMMA JudgedFacts ==
  ASSUME NEW c, NEW i, NEW row \in RecordRow, record[i] = row, row.ctx = c, now \in Nat, NEW read \in Nat,
         ctx[c] \in ContextRow, prep[c][row.prep] \in PreparationRow,
         RowInv(row, ctx[c].closed, prep[c][row.prep].revoked, read, now)
  PROVE  /\ Judged(c, i) \in RecordRow /\ Judged(c, i).ctx = c /\ Judged(c, i).prep = row.prep
         /\ i \in deleted => Judged(c, i).state # "available"
         /\ RowInv(Judged(c, i), ctx[c].closed, prep[c][row.prep].revoked, read, now)
<1> DEFINE closed == ctx[c].closed
           revoked == prep[c][row.prep].revoked
           marked == [row EXCEPT !.state = "deleted"]
           gone == MarkUnavailable(marked, now, FALSE)
           replayed == IF i \in deleted THEN gone ELSE row
           known == RecordedUnavailability(replayed)
           ended == [known EXCEPT !.state = "quarantined"]
           away == MarkUnavailable(ended, now, TRUE)
<1>1. Judged(c, i) = IF StateOf(known) \in {"available", "held"} /\ ~Sound(c, known) THEN away ELSE known
  BY DEF Judged
<1>2. closed \in Nat /\ revoked \in Nat
  BY DEF ContextRow, PreparationRow, Time
<1> HIDE DEF closed, revoked
<1>3. gone \in RecordRow /\ Kin(gone, row) /\ gone.state = "deleted" /\ RowInv(gone, closed, revoked, read, now)
  <2>1. RowInv(row, closed, revoked, read, now)
    BY DEF closed, revoked
  <2>2. PICK endHold \in BOOLEAN : endHold = FALSE
    OBVIOUS
  <2>3. gone = MarkUnavailable(marked, now, endHold)
    BY <2>2
  <2>4. /\ marked \in RecordRow /\ Kin(marked, row) /\ marked.state = "deleted"
        /\ RowInv(marked, closed, revoked, read, now)
    BY <1>2, <2>1, EndedFacts
  <2> HIDE DEF gone, marked
  <2>5. gone \in RecordRow /\ Kin(gone, marked) /\ gone.state = "deleted" /\ RowInv(gone, closed, revoked, read, now)
    BY <1>2, <2>3, <2>4, EndNow
  <2> QED
    BY <2>4, <2>5 DEF Kin
<1> HIDE DEF gone, marked
<1>4. /\ replayed \in RecordRow /\ Kin(replayed, row) /\ RowInv(replayed, closed, revoked, read, now)
      /\ i \in deleted => replayed.state # "available"
  <2>1. RowInv(row, closed, revoked, read, now)
    BY DEF closed, revoked
  <2>2. CASE i \in deleted
    BY <1>3, <2>2
  <2>3. CASE i \notin deleted
    BY <2>1, <2>3 DEF Kin
  <2> QED
    BY <2>2, <2>3
<1> HIDE DEF replayed
<1>5. replayed.ctx = c /\ replayed.prep = row.prep
  BY <1>4 DEF Kin
<1>6. /\ known \in RecordRow /\ Kin(known, replayed) /\ RowInv(known, closed, revoked, read, now)
      /\ i \in deleted => known.state # "available"
  BY <1>4, <1>5, RecordedFacts DEF closed, revoked
<1> HIDE DEF known
<1>7. away \in RecordRow /\ Kin(away, known) /\ away.state = "quarantined" /\ RowInv(away, closed, revoked, read, now)
  <2>1. PICK endHold \in BOOLEAN : endHold = TRUE
    OBVIOUS
  <2>2. away = MarkUnavailable(ended, now, endHold)
    BY <2>1
  <2>3. /\ ended \in RecordRow /\ Kin(ended, known) /\ ended.state = "quarantined"
        /\ RowInv(ended, closed, revoked, read, now)
    BY <1>2, <1>6, EndedFacts
  <2> HIDE DEF away, ended
  <2>4. away \in RecordRow /\ Kin(away, ended) /\ away.state = "quarantined" /\ RowInv(away, closed, revoked, read, now)
    BY <1>2, <2>2, <2>3, EndNow
  <2> QED
    BY <2>3, <2>4 DEF Kin
<1> HIDE DEF away, ended
<1>8. Judged(c, i) \in {away, known}
  BY <1>1
<1>9. /\ Judged(c, i) \in RecordRow /\ Kin(Judged(c, i), known) /\ RowInv(Judged(c, i), closed, revoked, read, now)
      /\ i \in deleted => Judged(c, i).state # "available"
  BY <1>6, <1>7, <1>8 DEF Kin
<1> QED
  BY <1>5, <1>6, <1>9 DEF Kin, closed, revoked

\* What a read finds out about the row.
LEMMA ServedFacts ==
  ASSUME ObservationInv, NEW c \in Ctx, NEW i \in Id, NEW reviewed, Served(c, i, reviewed)
  PROVE  /\ record[i] \in RecordRow /\ record[i].ctx = c /\ record[i].state = "available" /\ record[i].payload
         /\ record[i].unavailable = 0 /\ (now < record[i].expires \/ now < record[i].holdUntil)
         /\ i \notin deleted /\ Open(c) /\ control[c] = boot
         /\ prep[c][record[i].prep] \in PreparationRow /\ prep[c][record[i].prep].revoked = 0
         /\ prep[c][record[i].prep].target \in ctx[c].targets
<1>1. i \in Rows(c) /\ record[i] \in RecordRow /\ record[i].ctx = c
  BY NoRowIsNoRow DEF Served, Rows, ObservationInv, Database, Tables
<1>2. StateOf(record[i]) \in {"available", "held"} /\ record[i].payload /\ LivePreparation(c, record[i].prep) /\ Open(c)
  BY DEF Served
<1>3. record[i].state = "available"
  BY <1>1, <1>2 DEF StateOf, RecordRow
<1>4. /\ prep[c][record[i].prep] # NoRow /\ prep[c][record[i].prep].revoked = 0 /\ control[c] = boot
      /\ prep[c][record[i].prep].target \in ctx[c].targets
  BY <1>2 DEF LivePreparation, Control, UsableTarget
<1>5. prep[c][record[i].prep] \in PreparationRow
  BY <1>1, <1>4 DEF ObservationInv, Database, Tables, RecordRow
<1>6. i \notin deleted
  BY <1>1, <1>3, <1>4, NoRowIsNoRow DEF ObservationInv, Deletions
<1>7. /\ record[i].expires \in Nat /\ record[i].holdUntil \in Nat /\ record[i].unavailable \in Nat /\ now \in Nat
  BY <1>1 DEF RecordRow, ObservationInv, World
<1>8. now < record[i].expires \/ now < record[i].holdUntil
  BY <1>2, <1>3, <1>7 DEF StateOf
<1>10. record[i].unavailable # 0 => record[i].expires <= now /\ record[i].holdUntil <= now
  BY <1>1, <1>3, NoRowIsNoRow DEF ObservationInv, Database, Histories, RowInv
<1>11. record[i].unavailable = 0
  BY <1>7, <1>8, <1>10
<1> QED
  BY <1>1, <1>2, <1>3, <1>4, <1>5, <1>6, <1>8, <1>11

-----------------------------------------------------------------------------
(* Steps on the database                                                   *)

\* What holds of a database goes on holding of it later.
LEMMA LaterDatabase ==
  ASSUME NEW cx, NEW pr, NEW rec, NEW nid, NEW ctl, NEW lr, NEW t \in Nat, NEW b \in Nat, NEW u \in Nat, NEW d \in Nat,
         Database(cx, pr, rec, nid, ctl, lr, t, b), t <= u, b <= d
  PROVE  Database(cx, pr, rec, nid, ctl, lr, u, d)
<1>1. Tables(cx, pr, rec, nid, ctl, lr)
  BY DEF Database
<1>2. Reads(nid, lr, u)
  BY <1>1 DEF Database, Reads, Tables, Time
<1>3. \A c \in Ctx : ctl[c] <= d
  BY <1>1 DEF Database, Tables
<1>4. Histories(cx, pr, rec, lr, u)
  <2> SUFFICES ASSUME NEW i \in Id, rec[i] # NoRow
               PROVE  RowInv(rec[i], cx[rec[i].ctx].closed, pr[rec[i].ctx][rec[i].prep].revoked, lr[i], u)
    BY DEF Histories
  <2>1. RowInv(rec[i], cx[rec[i].ctx].closed, pr[rec[i].ctx][rec[i].prep].revoked, lr[i], t)
    BY DEF Database, Histories
  <2>2. rec[i] \in RecordRow /\ lr[i] \in Nat
    BY <1>1 DEF Tables, Time
  <2>3. rec[i].expires \in Nat /\ rec[i].holdUntil \in Nat /\ rec[i].holdStart \in Nat
    BY <2>2 DEF RecordRow, Time
  <2> QED
    BY <2>1, <2>2, <2>3 DEF RowInv
<1> QED
  BY <1>1, <1>2, <1>3, <1>4 DEF Database

LEMMA BackupKept ==
  ASSUME ObservationInv, backup' = backup, now' \in Nat, now <= now', boot' \in Nat, boot <= boot',
         lastRead' \in [Id -> Time], \A i \in Id : lastRead[i] <= lastRead'[i]
  PROVE  Backup'
<1> SUFFICES ASSUME backup # NoRow
             PROVE  /\ Database(backup.ctx, backup.prep, backup.record, backup.nextId, backup.control,
                                backup.lastRead, now', boot')
                    /\ \A i \in Id : backup.lastRead[i] <= lastRead'[i]
  BY DEF Backup
<1>1. /\ Database(backup.ctx, backup.prep, backup.record, backup.nextId, backup.control, backup.lastRead, now, boot)
      /\ \A i \in Id : backup.lastRead[i] <= lastRead[i]
  BY DEF ObservationInv, Backup
<1>2. now \in Nat /\ boot \in Nat
  BY DEF ObservationInv, World
<1>3. Database(backup.ctx, backup.prep, backup.record, backup.nextId, backup.control, backup.lastRead, now', boot')
  BY <1>1, <1>2, LaterDatabase
<1>4. backup.lastRead \in [Id -> Time] /\ lastRead \in [Id -> Time]
  BY <1>1 DEF ObservationInv, Database, Tables
<1>5. \A i \in Id : backup.lastRead[i] <= lastRead'[i]
  BY <1>1, <1>4 DEF Time
<1> QED
  BY <1>3, <1>5

\* The rows that the database has.
LEMMA RowFacts ==
  ASSUME ObservationInv, NEW i \in Id, record[i] # NoRow
  PROVE  /\ record[i] \in RecordRow /\ record[i].ctx \in Ctx /\ record[i].prep \in Ref
         /\ ctx[record[i].ctx] \in ContextRow /\ prep[record[i].ctx][record[i].prep] \in PreparationRow
         /\ ctx[record[i].ctx].closed \in Nat /\ prep[record[i].ctx][record[i].prep].revoked \in Nat
         /\ lastRead[i] \in Nat /\ now \in Nat /\ i < nextId
         /\ RowInv(record[i], ctx[record[i].ctx].closed, prep[record[i].ctx][record[i].prep].revoked, lastRead[i], now)
<1>1. /\ Tables(ctx, prep, record, nextId, control, lastRead) /\ References(ctx, prep, record, nextId)
      /\ Histories(ctx, prep, record, lastRead, now)
  BY DEF ObservationInv, Database
<1>2. record[i] \in RecordRow /\ record[i].ctx \in Ctx /\ record[i].prep \in Ref
  BY <1>1 DEF Tables, RecordRow
<1>3. /\ ctx[record[i].ctx] \in ContextRow /\ prep[record[i].ctx][record[i].prep] \in PreparationRow /\ i < nextId
  BY <1>1, <1>2 DEF Tables, References
<1>4. /\ ctx[record[i].ctx].closed \in Nat /\ prep[record[i].ctx][record[i].prep].revoked \in Nat
  BY <1>3 DEF ContextRow, PreparationRow, Time
<1>5. lastRead[i] \in Nat /\ now \in Nat
  BY <1>1 DEF Tables, Time, ObservationInv, World
<1> QED
  BY <1>1, <1>2, <1>3, <1>4, <1>5 DEF Histories

\* No row goes away in the step.
Stays == \A i \in Id : record[i] # NoRow => record'[i] # NoRow

\* A row is replaced by another state of it.
LEMMA RowChanged ==
  ASSUME ObservationInv, NEW i \in Id, record[i] # NoRow, NEW r \in RecordRow,
         r.ctx = record[i].ctx, r.prep = record[i].prep,
         RowInv(r, ctx[r.ctx].closed, prep[r.ctx][r.prep].revoked, lastRead[i], now),
         record' = [record EXCEPT ![i] = r],
         \/ deleted' = deleted /\ (r.state = "available" => record[i].state = "available")
         \/ deleted' = deleted \cup {i} /\ r.state # "available",
         UNCHANGED <<around, nextId, ctx, prep, control, lastRead>>
  PROVE  ObservationInv' /\ Stays
<1> USE DEF around
<1>1. World'
  BY DEF ObservationInv, World
<1>2. Backup'
  <2>1. now \in Nat /\ boot \in Nat /\ lastRead \in [Id -> Time]
    BY DEF ObservationInv, World, Database, Tables
  <2>2. \A j \in Id : lastRead[j] <= lastRead[j]
    BY <2>1 DEF Time
  <2> QED
    BY <2>1, <2>2, BackupKept
<1>3. Tables(ctx, prep, record', nextId, control, lastRead)
  BY DEF ObservationInv, Database, Tables
<1>4. record'[i] = r /\ \A j \in Id : j # i => record'[j] = record[j]
  BY DEF ObservationInv, Database, Tables
<1>5. References(ctx, prep, record', nextId)
  <2>1. References(ctx, prep, record, nextId)
    BY DEF ObservationInv, Database
  <2>2. i < nextId /\ ctx[r.ctx] # NoRow /\ prep[r.ctx][r.prep] # NoRow
    BY <2>1 DEF References
  <2>3. ASSUME NEW j \in Id, record'[j] # NoRow
        PROVE  j < nextId /\ ctx[record'[j].ctx] # NoRow /\ prep[record'[j].ctx][record'[j].prep] # NoRow
    <3>1. CASE j = i
      BY <1>4, <2>2, <3>1
    <3>2. CASE j # i
      <4>1. record'[j] = record[j]
        BY <1>4, <3>2
      <4> QED
        BY <2>1, <2>3, <4>1 DEF References
    <3> QED
      BY <3>1, <3>2
  <2> QED
    BY <2>3 DEF References
<1>6. Histories(ctx, prep, record', lastRead, now)
  BY <1>4 DEF ObservationInv, Database, Histories
<1>7. Database(ctx, prep, record', nextId, control, lastRead, now, boot)
  BY <1>3, <1>5, <1>6 DEF ObservationInv, Database
<1>8. Deletions'
  <2>1. i < nextId
    BY RowFacts
  <2> QED
    BY <1>4, <2>1 DEF ObservationInv, Deletions
<1>9. Stays
  BY <1>4, NoRowIsNoRow DEF Stays
<1> QED
  BY <1>1, <1>2, <1>7, <1>8, <1>9 DEF ObservationInv

\* A context is opened, corrected or closed.
LEMMA ContextChanged ==
  ASSUME ObservationInv, NEW c \in Ctx, NEW row \in ContextRow, row.versions # <<>>,
         ctx' = [ctx EXCEPT ![c] = row], Apart(ctx'),
         ctx[c] # NoRow => row.closed = ctx[c].closed \/ row.closed = now,
         UNCHANGED <<around, nextId, prep, record, control, lastRead, deleted>>
  PROVE  ObservationInv'
<1> USE DEF around
<1>1. World'
  BY DEF ObservationInv, World
<1>2. Backup'
  <2>1. now \in Nat /\ boot \in Nat /\ lastRead \in [Id -> Time]
    BY DEF ObservationInv, World, Database, Tables
  <2>2. \A j \in Id : lastRead[j] <= lastRead[j]
    BY <2>1 DEF Time
  <2> QED
    BY <2>1, <2>2, BackupKept
<1>3. Tables(ctx', prep, record, nextId, control, lastRead)
  BY DEF ObservationInv, Database, Tables
<1>4. ctx'[c] = row /\ row # NoRow /\ \A d \in Ctx : d # c => ctx'[d] = ctx[d]
  BY NoRowIsNoRow DEF ObservationInv, Database, Tables
<1>5. References(ctx', prep, record, nextId)
  BY <1>4, RowFacts DEF ObservationInv, Database, References
<1>6. Histories(ctx', prep, record, lastRead, now)
  <2> SUFFICES ASSUME NEW i \in Id, record[i] # NoRow
               PROVE  RowInv(record[i], ctx'[record[i].ctx].closed, prep[record[i].ctx][record[i].prep].revoked,
                             lastRead[i], now)
    BY DEF Histories
  <2>1. /\ RowInv(record[i], ctx[record[i].ctx].closed, prep[record[i].ctx][record[i].prep].revoked, lastRead[i], now)
        /\ record[i].ctx \in Ctx /\ ctx[record[i].ctx] # NoRow
    BY RowFacts, NoRowIsNoRow
  <2>2. \/ ctx'[record[i].ctx].closed = ctx[record[i].ctx].closed
        \/ ctx'[record[i].ctx].closed = now
    BY <1>4, <2>1
  <2> QED
    BY <2>1, <2>2 DEF RowInv
<1>7. Database(ctx', prep, record, nextId, control, lastRead, now, boot)
  BY <1>3, <1>5, <1>6 DEF ObservationInv, Database
<1>8. Deletions'
  BY DEF ObservationInv, Deletions
<1> QED
  BY <1>1, <1>2, <1>7, <1>8 DEF ObservationInv

\* A preparation is made or revoked.
LEMMA PreparationChanged ==
  ASSUME ObservationInv, NEW c \in Ctx, NEW r \in Ref, NEW p \in PreparationRow, prep' = [prep EXCEPT ![c][r] = p],
         prep[c][r] # NoRow => p.revoked = now,
         UNCHANGED <<around, nextId, ctx, record, control, lastRead, deleted>>
  PROVE  ObservationInv'
<1> USE DEF around
<1>1. World'
  BY DEF ObservationInv, World
<1>2. Backup'
  <2>1. now \in Nat /\ boot \in Nat /\ lastRead \in [Id -> Time]
    BY DEF ObservationInv, World, Database, Tables
  <2>2. \A j \in Id : lastRead[j] <= lastRead[j]
    BY <2>1 DEF Time
  <2> QED
    BY <2>1, <2>2, BackupKept
<1>3. Tables(ctx, prep', record, nextId, control, lastRead)
  BY DEF ObservationInv, Database, Tables
<1>4. prep'[c][r] = p /\ p # NoRow /\ \A d \in Ctx, q \in Ref : d # c \/ q # r => prep'[d][q] = prep[d][q]
  BY NoRowIsNoRow DEF ObservationInv, Database, Tables
<1>5. References(ctx, prep', record, nextId)
  BY <1>4, RowFacts DEF ObservationInv, Database, References
<1>6. Histories(ctx, prep', record, lastRead, now)
  <2> SUFFICES ASSUME NEW i \in Id, record[i] # NoRow
               PROVE  RowInv(record[i], ctx[record[i].ctx].closed, prep'[record[i].ctx][record[i].prep].revoked,
                             lastRead[i], now)
    BY DEF Histories
  <2>1. /\ RowInv(record[i], ctx[record[i].ctx].closed, prep[record[i].ctx][record[i].prep].revoked, lastRead[i], now)
        /\ record[i].ctx \in Ctx /\ record[i].prep \in Ref /\ prep[record[i].ctx][record[i].prep] # NoRow
    BY RowFacts, NoRowIsNoRow
  <2>2. \/ prep'[record[i].ctx][record[i].prep].revoked = prep[record[i].ctx][record[i].prep].revoked
        \/ prep'[record[i].ctx][record[i].prep].revoked = now
    BY <1>4, <2>1
  <2> QED
    BY <2>1, <2>2 DEF RowInv
<1>7. Database(ctx, prep', record, nextId, control, lastRead, now, boot)
  BY <1>3, <1>5, <1>6 DEF ObservationInv, Database
<1>8. Deletions'
  BY DEF ObservationInv, Deletions
<1> QED
  BY <1>1, <1>2, <1>7, <1>8 DEF ObservationInv

\* A row that an operator ends now, with what is known of it first.
LEMMA EndedRow ==
  ASSUME ObservationInv, NEW i \in Id, record[i] # NoRow, NEW st \in {"quarantined", "deleted"},
         NEW endHold \in BOOLEAN, NEW m,
         m = MarkUnavailable([RecordedUnavailability(record[i]) EXCEPT !.state = st], now, endHold)
  PROVE  /\ m \in RecordRow /\ m.ctx = record[i].ctx /\ m.prep = record[i].prep /\ m.state = st
         /\ RowInv(m, ctx[m.ctx].closed, prep[m.ctx][m.prep].revoked, lastRead[i], now)
<1> DEFINE row == record[i]
           known == RecordedUnavailability(row)
           ended == [known EXCEPT !.state = st]
           closed == ctx[row.ctx].closed
           revoked == prep[row.ctx][row.prep].revoked
<1>1. /\ row \in RecordRow /\ now \in Nat /\ lastRead[i] \in Nat
      /\ ctx[row.ctx] \in ContextRow /\ prep[row.ctx][row.prep] \in PreparationRow
      /\ closed \in Nat /\ revoked \in Nat /\ RowInv(row, closed, revoked, lastRead[i], now)
  BY RowFacts
<1>2. m = MarkUnavailable(ended, now, endHold)
  OBVIOUS
<1>3. known \in RecordRow /\ Kin(known, row) /\ RowInv(known, closed, revoked, lastRead[i], now)
  BY <1>1, RecordedFacts
<1> HIDE DEF row, known, closed, revoked
<1>4. /\ ended \in RecordRow /\ Kin(ended, known) /\ ended.state = st /\ st # "available"
      /\ RowInv(ended, closed, revoked, lastRead[i], now)
  BY <1>1, <1>3, EndedFacts
<1> HIDE DEF ended
<1>5. m \in RecordRow /\ Kin(m, ended) /\ m.state = st /\ RowInv(m, closed, revoked, lastRead[i], now)
  BY <1>1, <1>2, <1>4, EndNow
<1>6. m.ctx = row.ctx /\ m.prep = row.prep
  BY <1>3, <1>4, <1>5 DEF Kin
<1> QED
  BY <1>4, <1>5, <1>6 DEF row, closed, revoked

LEMMA DeleteStep ==
  ASSUME ObservationInv, NEW c \in Ctx, NEW i \in Id, Delete(c, i)
  PROVE  ObservationInv' /\ Stays
<1> DEFINE m == MarkUnavailable([RecordedUnavailability(record[i]) EXCEPT !.state = "deleted"], now, FALSE)
<1>1. record[i] # NoRow
  BY DEF Delete, Rows
<1>2. record' = [record EXCEPT ![i] = m]
  BY DEF Delete
<1>3. PICK endHold \in BOOLEAN :
        m = MarkUnavailable([RecordedUnavailability(record[i]) EXCEPT !.state = "deleted"], now, endHold)
  OBVIOUS
<1> HIDE DEF m
<1>4. /\ m \in RecordRow /\ m.ctx = record[i].ctx /\ m.prep = record[i].prep /\ m.state = "deleted"
      /\ RowInv(m, ctx[m.ctx].closed, prep[m.ctx][m.prep].revoked, lastRead[i], now)
  BY ZenonT(40), <1>1, <1>3, EndedRow
<1>5. deleted' = deleted \cup {i} /\ UNCHANGED <<around, nextId, ctx, prep, control, lastRead>>
  BY DEF Delete
<1> QED
  BY <1>1, <1>2, <1>4, <1>5, RowChanged

LEMMA QuarantineStep ==
  ASSUME ObservationInv, NEW c \in Ctx, NEW i \in Id, Quarantine(c, i)
  PROVE  ObservationInv' /\ Stays
<1> DEFINE m == MarkUnavailable([RecordedUnavailability(record[i]) EXCEPT !.state = "quarantined"], now, TRUE)
<1>1. record[i] # NoRow
  BY DEF Quarantine, Rows
<1>2. record' = [record EXCEPT ![i] = m]
  BY DEF Quarantine
<1>3. PICK endHold \in BOOLEAN :
        m = MarkUnavailable([RecordedUnavailability(record[i]) EXCEPT !.state = "quarantined"], now, endHold)
  OBVIOUS
<1> HIDE DEF m
<1>4. /\ m \in RecordRow /\ m.ctx = record[i].ctx /\ m.prep = record[i].prep /\ m.state = "quarantined"
      /\ RowInv(m, ctx[m.ctx].closed, prep[m.ctx][m.prep].revoked, lastRead[i], now)
  BY ZenonT(40), <1>1, <1>3, EndedRow
<1>5. deleted' = deleted /\ UNCHANGED <<around, nextId, ctx, prep, control, lastRead>>
  BY DEF Quarantine
<1> QED
  BY <1>1, <1>2, <1>4, <1>5, RowChanged

LEMMA HoldStep ==
  ASSUME ObservationInv, NEW c \in Ctx, NEW i \in Id, NEW until \in Nat, Hold(c, i, until)
  PROVE  ObservationInv' /\ Stays
<1> DEFINE row == record[i]
           m == [row EXCEPT !.holdStart = now, !.holdUntil = until]
<1>1. /\ row \in RecordRow /\ row.ctx = c /\ row.state = "available" /\ row.unavailable = 0
      /\ i \notin deleted /\ Open(c) /\ prep[c][row.prep].revoked = 0
  <2>1. PICK reviewed : Served(c, i, reviewed)
    BY DEF Hold
  <2> QED
    BY <2>1, ServedFacts
<1>2. row # NoRow
  BY <1>1, NoRowIsNoRow
<1>3. record' = [record EXCEPT ![i] = m]
  BY DEF Hold, ObservationInv, Database, Tables
<1>4. now \in 1 .. MaxTime /\ MaxTime \in Nat
  BY ObservationAssumption DEF ObservationInv, World
<1>5. m \in RecordRow
  <2>1. row \in RecordRow /\ now \in Time /\ until \in Nat
    BY <1>1, <1>4 DEF Time
  <2> HIDE DEF row
  <2> QED
    BY <2>1 DEF RecordRow
<1>6. /\ m.ctx = row.ctx /\ m.prep = row.prep /\ m.state = row.state /\ m.unavailable = 0 /\ m.holdStart = now
      /\ m.holdUntil = until
  BY <1>1 DEF RecordRow
<1>7. now < until
  BY DEF Hold
<1>8. lastRead[i] \in Nat /\ lastRead[i] <= now
  BY <1>2, RowFacts DEF RowInv
<1>9. ctx[c].closed = 0
  BY <1>1 DEF Open
<1> HIDE DEF m
<1>10. RowInv(m, ctx[m.ctx].closed, prep[m.ctx][m.prep].revoked, lastRead[i], now)
  BY <1>1, <1>4, <1>6, <1>7, <1>8, <1>9 DEF RowInv, Outlives
<1>11. deleted' = deleted /\ UNCHANGED <<around, nextId, ctx, prep, control, lastRead>>
  BY DEF Hold
<1> QED
  BY <1>1, <1>2, <1>3, <1>5, <1>6, <1>10, <1>11, RowChanged

LEMMA ReleaseStep ==
  ASSUME ObservationInv, NEW c \in Ctx, NEW i \in Id, Release(c, i)
  PROVE  ObservationInv' /\ Stays
<1> DEFINE old == record[i]
           closed == ctx[old.ctx].closed
           revoked == prep[old.ctx][old.prep].revoked
           read == lastRead[i]
           row == RecordedUnavailability(old)
           over == row.state # "available" \/ now >= row.expires
           marked == MarkUnavailable(row, now, TRUE)
           ended == IF over THEN marked ELSE row
           m == [ended EXCEPT !.holdUntil = 0]
<1>1. record[i] # NoRow
  BY DEF Release, Rows
<1>2. /\ row.holdUntil # 0 /\ row.holdStart <= now /\ now < row.holdUntil
      /\ record' = [record EXCEPT ![i] = m]
      /\ deleted' = deleted /\ UNCHANGED <<around, nextId, ctx, prep, control, lastRead>>
  BY DEF Release
<1>3. /\ old \in RecordRow /\ now \in Nat /\ read \in Nat
      /\ ctx[old.ctx] \in ContextRow /\ prep[old.ctx][old.prep] \in PreparationRow
      /\ closed \in Nat /\ revoked \in Nat /\ RowInv(old, closed, revoked, read, now)
  BY <1>1, RowFacts
<1>4. /\ row \in RecordRow /\ Kin(row, old) /\ RowInv(row, closed, revoked, read, now)
      /\ row.state = "available" => row = old
      /\ old.state # "available" => row.state # "available"
  BY <1>3, RecordedFacts
<1>5. i \in deleted /\ record[i].state = "available" => control[record[i].ctx] # boot
  BY <1>1 DEF ObservationInv, Deletions
<1> HIDE DEF row, old, closed, revoked, read
<1>6. /\ marked \in RecordRow /\ Kin(marked, row) /\ marked.state = row.state /\ marked.holdUntil = 0
      /\ Outlives(marked, read)
  <2>1. PICK endHold \in BOOLEAN : endHold = TRUE
    OBVIOUS
  <2>2. marked = MarkUnavailable(row, now, endHold)
    BY <2>1
  <2> HIDE DEF marked
  <2>3. read <= now /\ (endHold => row.holdStart <= now) /\ (row.holdUntil # 0 => row.holdStart # 0)
        /\ Outlives(row, read)
    BY <1>2, <1>4 DEF RowInv
  <2>4. Outlives(marked, read)
    BY <1>3, <1>4, <2>2, <2>3, MarkOutlives
  <2>5. /\ marked \in RecordRow /\ marked.ctx = row.ctx /\ marked.prep = row.prep /\ marked.expires = row.expires
        /\ marked.holdStart = row.holdStart /\ marked.payload = row.payload /\ marked.state = row.state
        /\ marked.holdUntil = IF endHold THEN 0 ELSE row.holdUntil
    BY <1>3, <1>4, <2>2, MarkFacts
  <2> QED
    BY <2>1, <2>4, <2>5 DEF Kin
<1> HIDE DEF marked
<1>7. row.expires \in Nat /\ row.unavailable \in Nat /\ row.holdUntil \in Nat /\ row.holdStart \in Nat
  BY <1>4 DEF RecordRow, Time
<1>8. ended \in RecordRow /\ Kin(ended, row) /\ ended.state = row.state
  BY <1>4, <1>6 DEF Kin
<1>9. /\ m \in RecordRow /\ Kin(m, ended) /\ m.state = ended.state /\ m.unavailable = ended.unavailable
      /\ m.holdUntil = 0
  BY <1>8 DEF RecordRow, Kin
<1>10. read <= now /\ (row.state = "available" /\ row.unavailable # 0 => row.holdUntil <= now)
  BY <1>4 DEF RowInv
<1>11. Outlives(m, read)
  <2>1. CASE over
    <3>1. ended = marked
      BY <2>1
    <3>2. marked.expires = m.expires /\ marked.holdStart = m.holdStart /\ m.unavailable = marked.unavailable
      BY <1>9, <3>1 DEF Kin
    <3> QED
      BY <1>6, <1>9, <3>2 DEF Outlives
  <2>2. CASE ~over
    <3>1. ended = row /\ row.state = "available" /\ now < row.expires
      BY <1>3, <1>7, <2>2
    <3>2. row.unavailable = 0
      BY <1>2, <1>3, <1>7, <1>10, <3>1
    <3>3. m.unavailable = 0 /\ m.expires = row.expires
      BY <1>9, <3>1, <3>2 DEF Kin
    <3>4. read <= row.expires
      BY <1>3, <1>7, <1>10, <3>1
    <3> QED
      BY <3>3, <3>4 DEF Outlives
  <2> QED
    BY <2>1, <2>2
<1>12. m.state = "available" /\ m.unavailable # 0 => m.expires <= now
  <2>1. CASE over
    BY <1>3, <1>7, <1>8, <1>9, <2>1 DEF Kin
  <2>2. CASE ~over
    <3>1. ended = row /\ row.state = "available"
      BY <2>2
    <3>2. row.unavailable = 0
      BY <1>2, <1>3, <1>7, <1>10, <3>1
    <3> QED
      BY <1>9, <3>1, <3>2
  <2> QED
    BY <2>1, <2>2
<1> HIDE DEF m, ended
<1>13. m.holdStart = row.holdStart /\ m.ctx = old.ctx /\ m.prep = old.prep
  BY <1>4, <1>8, <1>9 DEF Kin
<1>14. RowInv(m, closed, revoked, read, now)
  BY <1>3, <1>4, <1>9, <1>11, <1>12, <1>13 DEF RowInv
<1>15. m.state = "available" => old.state = "available"
  BY <1>4, <1>8, <1>9
<1> QED
  BY <1>1, <1>2, <1>9, <1>13, <1>14, <1>15, RowChanged DEF old, closed, revoked, read

LEMMA CreateContextStep ==
  ASSUME ObservationInv, NEW c \in Ctx, NEW ts \in SUBSET Target, NEW eligible \in BOOLEAN,
         CreateContext(c, ts, eligible)
  PROVE  ObservationInv'
<1> DEFINE row == [versions |-> <<Intake(eligible)>>, targets |-> ts, closed |-> 0]
<1>1. Intake(eligible) \in IntakeVersion
  BY DEF Intake, IntakeVersion, ObservationInv, World, TargetRow
<1>2. row \in ContextRow
  <2>1. 0 \in Time
    BY ObservationAssumption DEF Time
  <2>2. <<Intake(eligible)>> \in Seq(IntakeVersion)
    BY <1>1
  <2> QED
    BY <2>1, <2>2 DEF ContextRow
<1>3. ctx' = [ctx EXCEPT ![c] = row] /\ ctx[c] = NoRow /\ \A t \in ts : ~Owned(t)
  BY DEF CreateContext
<1>4. row.targets = ts /\ row.closed = 0 /\ row.versions # <<>>
  OBVIOUS
<1> HIDE DEF row
<1>5. Apart(ctx')
  <2>1. ctx'[c] = row /\ \A d \in Ctx : d # c => ctx'[d] = ctx[d]
    BY <1>3 DEF ObservationInv, Database, Tables
  <2>2. Apart(ctx)
    BY DEF ObservationInv, Database
  <2> SUFFICES ASSUME NEW d \in Ctx, NEW e \in Ctx, ctx'[d] # NoRow, ctx'[d].closed = 0,
                      ctx'[e] # NoRow, ctx'[e].closed = 0, d # e
               PROVE  ctx'[d].targets \cap ctx'[e].targets = {}
    BY DEF Apart
  <2>3. CASE d # c /\ e # c
    BY <2>1, <2>2, <2>3 DEF Apart
  <2>4. CASE d = c
    <3>1. Open(e)
      BY <2>1, <2>4 DEF Open
    <3>2. \A t \in ts : t \notin ctx[e].targets
      BY <1>3, <3>1 DEF Owned
    <3> QED
      BY <1>4, <2>1, <2>4, <3>2
  <2>5. CASE e = c
    <3>1. Open(d)
      BY <2>1, <2>5 DEF Open
    <3>2. \A t \in ts : t \notin ctx[d].targets
      BY <1>3, <3>1 DEF Owned
    <3> QED
      BY <1>4, <2>1, <2>5, <3>2
  <2> QED
    BY <2>3, <2>4, <2>5
<1>6. UNCHANGED <<around, nextId, prep, record, control, lastRead, deleted>>
  BY DEF CreateContext
<1> QED
  BY <1>2, <1>3, <1>4, <1>5, <1>6, ContextChanged

LEMMA CorrectContextStep ==
  ASSUME ObservationInv, NEW c \in Ctx, NEW eligible \in BOOLEAN, CorrectContext(c, eligible)
  PROVE  ObservationInv'
<1> DEFINE old == ctx[c]
           vs == Append(old.versions, Intake(eligible))
           row == [old EXCEPT !.versions = vs]
<1>1. Intake(eligible) \in IntakeVersion
  BY DEF Intake, IntakeVersion, ObservationInv, World, TargetRow
<1>2. old \in ContextRow /\ old # NoRow
  BY DEF CorrectContext, Open, ObservationInv, Database, Tables
<1>3. ctx' = [ctx EXCEPT ![c] = row]
  BY DEF CorrectContext, ObservationInv, Database, Tables
<1>4. /\ row \in ContextRow /\ row.targets = old.targets /\ row.closed = old.closed /\ row.versions # <<>>
  <2>1. old.versions \in Seq(IntakeVersion)
    BY <1>2 DEF ContextRow
  <2>2. vs \in Seq(IntakeVersion) /\ Len(vs) = Len(old.versions) + 1 /\ Len(old.versions) \in Nat
    BY <1>1, <2>1
  <2>3. vs # <<>>
    BY <2>2
  <2> HIDE DEF old, vs
  <2> QED
    BY <1>2, <2>2, <2>3 DEF ContextRow
<1> HIDE DEF row
<1>5. Apart(ctx')
  <2>1. ctx'[c] = row /\ \A d \in Ctx : d # c => ctx'[d] = ctx[d]
    BY <1>3 DEF ObservationInv, Database, Tables
  <2>2. Apart(ctx)
    BY DEF ObservationInv, Database
  <2> QED
    BY <1>2, <1>4, <2>1, <2>2 DEF Apart
<1>6. UNCHANGED <<around, nextId, prep, record, control, lastRead, deleted>>
  BY DEF CorrectContext
<1> QED
  BY <1>3, <1>4, <1>5, <1>6, ContextChanged

LEMMA CloseContextStep ==
  ASSUME ObservationInv, NEW c \in Ctx, CloseContext(c)
  PROVE  ObservationInv'
<1> DEFINE old == ctx[c]
           row == [old EXCEPT !.closed = now]
<1>1. now \in Time /\ now # 0
  BY ObservationAssumption DEF ObservationInv, World, Time
<1>2. old \in ContextRow /\ old # NoRow /\ old.versions # <<>>
  BY DEF CloseContext, Open, ObservationInv, Database, Tables
<1>3. ctx' = [ctx EXCEPT ![c] = row]
  BY DEF CloseContext, ObservationInv, Database, Tables
<1>4. row \in ContextRow /\ row.closed = now /\ row.versions # <<>>
  <2> HIDE DEF old
  <2> QED
    BY <1>1, <1>2 DEF ContextRow
<1> HIDE DEF row
<1>5. Apart(ctx')
  <2>1. ctx'[c] = row /\ \A d \in Ctx : d # c => ctx'[d] = ctx[d]
    BY <1>3 DEF ObservationInv, Database, Tables
  <2>2. Apart(ctx)
    BY DEF ObservationInv, Database
  <2> QED
    BY <1>1, <1>4, <2>1, <2>2 DEF Apart
<1>6. UNCHANGED <<around, nextId, prep, record, control, lastRead, deleted>>
  BY DEF CloseContext
<1> QED
  BY <1>3, <1>4, <1>5, <1>6, ContextChanged

LEMMA PrepareStep ==
  ASSUME ObservationInv, NEW c \in Ctx, NEW r \in Ref, NEW t \in Target, NEW until \in Nat, Prepare(c, r, t, until)
  PROVE  ObservationInv'
<1> DEFINE p == [target |-> t, version |-> LatestVersion(c), until |-> until, origin |-> target[t].origin, revoked |-> 0]
<1>1. ctx[c] \in ContextRow
  BY DEF Prepare, ObservationInv, Database, Tables
<1>2. LatestVersion(c) \in Nat \ {0}
  <2>1. ctx[c].versions \in Seq(IntakeVersion)
    BY <1>1 DEF ContextRow
  <2>2. ctx[c].versions # <<>>
    BY DEF Prepare, ObservationInv, Database, Tables
  <2> QED
    BY <2>1, <2>2 DEF LatestVersion
<1>3. p \in PreparationRow
  <2>1. 0 \in Time
    BY ObservationAssumption DEF Time
  <2>2. target[t].origin \in Nat
    BY DEF ObservationInv, World, TargetRow
  <2> QED
    BY <1>2, <2>1, <2>2 DEF PreparationRow
<1>4. prep' = [prep EXCEPT ![c][r] = p] /\ prep[c][r] = NoRow
  BY DEF Prepare
<1>5. UNCHANGED <<around, nextId, ctx, record, control, lastRead, deleted>>
  BY DEF Prepare
<1> HIDE DEF p
<1> QED
  BY <1>3, <1>4, <1>5, PreparationChanged

LEMMA RevokePreparationStep ==
  ASSUME ObservationInv, NEW c \in Ctx, NEW r \in Ref, RevokePreparation(c, r)
  PROVE  ObservationInv'
<1> DEFINE old == prep[c][r]
           p == [old EXCEPT !.revoked = now]
<1>1. old \in PreparationRow
  BY DEF RevokePreparation, ObservationInv, Database, Tables
<1>2. now \in Time
  BY ObservationAssumption DEF ObservationInv, World, Time
<1>3. prep' = [prep EXCEPT ![c][r] = p]
  BY DEF RevokePreparation, ObservationInv, Database, Tables
<1>4. p \in PreparationRow /\ p.revoked = now
  <2> HIDE DEF old
  <2> QED
    BY <1>1, <1>2 DEF PreparationRow
<1>5. UNCHANGED <<around, nextId, ctx, record, control, lastRead, deleted>>
  BY DEF RevokePreparation
<1> HIDE DEF p
<1> QED
  BY <1>3, <1>4, <1>5, PreparationChanged

LEMMA AcceptStep ==
  ASSUME ObservationInv, NEW c \in Ctx, NEW r \in Ref, NEW m \in Material, NEW corrects \in 0 .. MaxIds,
         Accept(c, r, m, corrects)
  PROVE  ObservationInv'
<1> USE DEF around
<1> DEFINE row == [ctx |-> c, prep |-> r, material |-> m, corrects |-> corrects, expires |-> now + Retention,
                   state |-> "available", unavailable |-> 0, holdStart |-> 0, holdUntil |-> 0, payload |-> TRUE]
<1>1. /\ nextId \in Id /\ nextId' = nextId + 1 /\ record' = [record EXCEPT ![nextId] = row]
      /\ UNCHANGED <<around, ctx, prep, control, lastRead, deleted>> /\ LivePreparation(c, r)
  BY DEF Accept
<1>2. now \in Nat /\ boot \in Nat /\ Retention \in Nat /\ MaxIds \in Nat /\ lastRead \in [Id -> Time] /\ 0 \in Time
  BY ObservationAssumption DEF ObservationInv, World, Database, Tables, Time
<1>3. row \in RecordRow
  BY <1>2 DEF RecordRow
<1>4. World'
  BY <1>1 DEF ObservationInv, World
<1>5. Backup'
  <2>1. \A j \in Id : lastRead[j] <= lastRead[j]
    BY <1>2 DEF Time
  <2> QED
    BY <1>1, <1>2, <2>1, BackupKept
<1>6. /\ row.ctx = c /\ row.prep = r /\ row.unavailable = 0 /\ row.holdStart = 0 /\ row.holdUntil = 0
      /\ row.expires \in Nat
  BY <1>2
<1> HIDE DEF row
<1>7. record'[nextId] = row /\ \A j \in Id : j # nextId => record'[j] = record[j]
  BY <1>1 DEF ObservationInv, Database, Tables
<1>8. Tables(ctx, prep, record', nextId', control, lastRead)
  BY <1>1, <1>2, <1>3 DEF ObservationInv, Database, Tables, Id
<1>9. ctx[c] # NoRow /\ prep[c][r] # NoRow
  BY <1>1 DEF LivePreparation, EligibleContext, Open
<1>10. References(ctx, prep, record', nextId')
  <2>1. nextId \in Nat /\ nextId < nextId + 1 /\ \A j \in Id : j < nextId => j < nextId + 1
    BY <1>1, <1>2 DEF Id
  <2> QED
    BY <1>1, <1>6, <1>7, <1>9, <2>1 DEF ObservationInv, Database, References
<1>11. Reads(nextId', lastRead, now)
  BY <1>1, <1>2 DEF ObservationInv, Database, Reads, Id
<1>12. Histories(ctx, prep, record', lastRead, now)
  <2>1. lastRead[nextId] = 0
    <3>1. nextId >= nextId
      BY <1>1, <1>2 DEF Id
    <3> QED
      BY <1>1, <3>1 DEF ObservationInv, Database, Reads
  <2>2. ctx[c].closed \in Nat /\ prep[c][r].revoked \in Nat
    BY <1>9 DEF ObservationInv, Database, Tables, ContextRow, PreparationRow, Time
  <2>3. RowInv(row, ctx[c].closed, prep[c][r].revoked, lastRead[nextId], now)
    BY <1>2, <1>6, <2>1, <2>2 DEF RowInv, Outlives
  <2> QED
    BY <1>6, <1>7, <2>3 DEF ObservationInv, Database, Histories
<1>13. Database(ctx, prep, record', nextId', control, lastRead, now, boot)
  BY <1>8, <1>10, <1>11, <1>12 DEF ObservationInv, Database
<1>14. Deletions'
  <2>1. \A i \in deleted : i \in Id /\ i < nextId
    BY DEF ObservationInv, Deletions
  <2>2. \A i \in deleted : i # nextId /\ i < nextId'
    BY <1>1, <1>2, <2>1 DEF Id
  <2> QED
    BY <1>1, <1>7, <2>1, <2>2 DEF ObservationInv, Deletions
<1> QED
  BY <1>1, <1>4, <1>5, <1>13, <1>14 DEF ObservationInv

LEMMA ReadStep ==
  ASSUME ObservationInv, NEW c \in Ctx, NEW i \in Id, NEW reviewed, Read(c, i, reviewed)
  PROVE  ObservationInv'
<1> USE DEF around
<1>1. /\ lastRead' = [lastRead EXCEPT ![i] = now]
      /\ UNCHANGED <<around, nextId, ctx, prep, record, control, deleted>>
  BY DEF Read
<1>2. /\ record[i] \in RecordRow /\ record[i].ctx = c /\ record[i].unavailable = 0
      /\ (now < record[i].expires \/ now < record[i].holdUntil)
      /\ Open(c) /\ prep[c][record[i].prep].revoked = 0
  BY ServedFacts DEF Read
<1>3. now \in Nat /\ now \in Time /\ boot \in Nat /\ lastRead \in [Id -> Time] /\ record[i] # NoRow
  BY <1>2, NoRowIsNoRow, ObservationAssumption DEF ObservationInv, World, Database, Tables, Time
<1>4. lastRead' \in [Id -> Time] /\ lastRead'[i] = now /\ \A j \in Id : j # i => lastRead'[j] = lastRead[j]
  BY <1>1, <1>3
<1>5. \A j \in Id : lastRead[j] <= now /\ lastRead[j] \in Nat
  BY <1>3 DEF ObservationInv, Database, Reads, Time
<1>6. \A j \in Id : lastRead[j] <= lastRead'[j] /\ lastRead'[j] <= now
  BY <1>3, <1>4, <1>5
<1>7. World' /\ Backup' /\ Deletions'
  <2>1. Backup'
    BY <1>1, <1>3, <1>4, <1>6, BackupKept
  <2> QED
    BY <1>1, <2>1 DEF ObservationInv, World, Deletions
<1>8. Reads(nextId, lastRead', now)
  <2>1. i < nextId /\ nextId \in Nat
    BY <1>3, RowFacts DEF ObservationInv, Database, Tables
  <2>2. \A j \in Id : j >= nextId => j # i
    BY <2>1 DEF Id
  <2> QED
    BY <1>4, <1>6, <2>2 DEF ObservationInv, Database, Reads
<1>9. Histories(ctx, prep, record, lastRead', now)
  <2>1. ctx[c].closed = 0
    BY <1>2 DEF Open
  <2>2. RowInv(record[i], ctx[c].closed, prep[c][record[i].prep].revoked, lastRead[i], now)
    BY <1>2, <1>3, RowFacts
  <2>3. record[i].expires \in Nat /\ record[i].holdUntil \in Nat
    BY <1>2 DEF RecordRow
  <2>4. RowInv(record[i], ctx[c].closed, prep[c][record[i].prep].revoked, now, now)
    BY <1>2, <1>3, <2>1, <2>2, <2>3 DEF RowInv, Outlives
  <2> QED
    BY <1>2, <1>4, <2>4 DEF ObservationInv, Database, Histories
<1>10. Database(ctx, prep, record, nextId, control, lastRead', now, boot)
  BY <1>4, <1>8, <1>9 DEF ObservationInv, Database, Tables
<1> QED
  BY <1>1, <1>7, <1>10 DEF ObservationInv

LEMMA SuspendStep ==
  ASSUME ObservationInv, NEW c \in Ctx, Suspend(c)
  PROVE  ObservationInv'
<1> USE DEF around
<1>1. /\ control' = [control EXCEPT ![c] = 0]
      /\ UNCHANGED <<around, nextId, ctx, prep, record, lastRead, deleted>>
  BY DEF Suspend
<1>2. now \in Nat /\ boot \in Nat /\ lastRead \in [Id -> Time] /\ control \in [Ctx -> Nat] /\ boot # 0
  BY DEF ObservationInv, World, Database, Tables
<1>3. \A d \in Ctx : control'[d] \in {0, control[d]}
  BY <1>1, <1>2
<1>4. World' /\ Backup'
  <2>1. \A j \in Id : lastRead[j] <= lastRead[j]
    BY <1>2 DEF Time
  <2>2. Backup'
    BY <1>1, <1>2, <2>1, BackupKept
  <2> QED
    BY <1>1, <2>2 DEF ObservationInv, World
<1>5. Deletions'
  <2>1. \A i \in deleted : record[i] # NoRow => record[i].ctx \in Ctx
    BY RowFacts DEF ObservationInv, Deletions
  <2> QED
    BY <1>1, <1>2, <1>3, <2>1 DEF ObservationInv, Deletions
<1>6. Database(ctx, prep, record, nextId, control', lastRead, now, boot)
  <2>1. control' \in [Ctx -> Nat] /\ \A d \in Ctx : control'[d] <= boot
    BY <1>1, <1>2, <1>3 DEF ObservationInv, Database
  <2> QED
    BY <2>1 DEF ObservationInv, Database, Tables
<1> QED
  BY <1>1, <1>4, <1>5, <1>6 DEF ObservationInv

\* Every row of the context that reconcile leaves is judged and not purged.
LEMMA ReconciledRow ==
  ASSUME ObservationInv, NEW c \in Ctx, NEW i \in Rows(c)
  PROVE  \/ Purged(Judged(c, i)) = NoRow /\ now >= lastRead[i] + Keep
         \/ /\ Purged(Judged(c, i)) \in RecordRow /\ Purged(Judged(c, i)).ctx = c
            /\ Purged(Judged(c, i)).prep = record[i].prep
            /\ i \in deleted => Purged(Judged(c, i)).state # "available"
            /\ RowInv(Purged(Judged(c, i)), ctx[c].closed, prep[c][record[i].prep].revoked, lastRead[i], now)
<1>1. i \in Id /\ record[i] # NoRow /\ record[i].ctx = c
  BY DEF Rows
<1>2. /\ record[i] \in RecordRow /\ ctx[c] \in ContextRow /\ prep[c][record[i].prep] \in PreparationRow
      /\ ctx[c].closed \in Nat /\ prep[c][record[i].prep].revoked \in Nat
      /\ lastRead[i] \in Nat /\ now \in Nat
      /\ RowInv(record[i], ctx[c].closed, prep[c][record[i].prep].revoked, lastRead[i], now)
  BY <1>1, RowFacts
<1> DEFINE j == Judged(c, i)
<1>3. /\ j \in RecordRow /\ j.ctx = c /\ j.prep = record[i].prep /\ (i \in deleted => j.state # "available")
      /\ RowInv(j, ctx[c].closed, prep[c][record[i].prep].revoked, lastRead[i], now)
  BY <1>1, <1>2, JudgedFacts
<1> HIDE DEF j
<1>4. \/ Purged(j) = NoRow /\ now >= lastRead[i] + Keep
      \/ /\ Purged(j) \in RecordRow /\ Purged(j).ctx = j.ctx /\ Purged(j).prep = j.prep
         /\ Purged(j).state = j.state
         /\ RowInv(Purged(j), ctx[c].closed, prep[c][record[i].prep].revoked, lastRead[i], now)
  BY <1>2, <1>3, PurgedFacts
<1> QED
  BY <1>3, <1>4 DEF j

LEMMA ReconcileStep ==
  ASSUME ObservationInv, NEW c \in Ctx, Reconcile(c)
  PROVE  ObservationInv'
<1> USE DEF around
<1> DEFINE after(i) == IF i \in Rows(c) THEN Purged(Judged(c, i)) ELSE record[i]
<1>1. /\ record' = [i \in Id |-> after(i)]
      /\ prep' = [prep EXCEPT ![c] = [r \in Ref |-> IF Spent(c, r, record') THEN NoRow ELSE prep[c][r]]]
      /\ control' = [control EXCEPT ![c] = IF Open(c) THEN boot ELSE 0]
      /\ UNCHANGED <<around, nextId, ctx, lastRead, deleted>>
  BY DEF Reconcile
<1>2. now \in Nat /\ boot \in Nat /\ lastRead \in [Id -> Time] /\ control \in [Ctx -> Nat] /\ boot # 0
  BY DEF ObservationInv, World, Database, Tables
<1>3. \A i \in Id : record'[i] = after(i)
  BY <1>1
<1>4. \A i \in Id : i \in Rows(c) =>
        \/ record'[i] = NoRow
        \/ /\ record'[i] \in RecordRow /\ record'[i].ctx = c /\ record'[i].prep = record[i].prep
           /\ i \in deleted => record'[i].state # "available"
           /\ RowInv(record'[i], ctx[c].closed, prep[c][record[i].prep].revoked, lastRead[i], now)
  BY <1>3, ReconciledRow
<1>5. \A i \in Id : i \notin Rows(c) => record'[i] = record[i]
  BY <1>3
<1> HIDE DEF after
<1>6. \A i \in Id : record'[i] \in RecordRow \cup {NoRow}
  BY <1>4, <1>5 DEF ObservationInv, Database, Tables
<1>7. \A d \in Ctx : d # c => prep'[d] = prep[d] /\ control'[d] = control[d]
  BY <1>1 DEF ObservationInv, Database, Tables
<1>8. \A r \in Ref : prep'[c][r] = IF Spent(c, r, record') THEN NoRow ELSE prep[c][r]
  BY <1>1 DEF ObservationInv, Database, Tables
<1>9. control' \in [Ctx -> Nat] /\ \A d \in Ctx : control'[d] <= boot
  BY <1>1, <1>2 DEF ObservationInv, Database
<1>10. prep' \in [Ctx -> [Ref -> PreparationRow \cup {NoRow}]]
  <2>1. [r \in Ref |-> IF Spent(c, r, record') THEN NoRow ELSE prep[c][r]] \in [Ref -> PreparationRow \cup {NoRow}]
    BY DEF ObservationInv, Database, Tables
  <2> QED
    BY <1>1, <2>1 DEF ObservationInv, Database, Tables
<1>11. Tables(ctx, prep', record', nextId, control', lastRead)
  <2>1. record' \in [Id -> RecordRow \cup {NoRow}]
    BY <1>1, <1>6
  <2> QED
    BY <1>9, <1>10, <2>1 DEF ObservationInv, Database, Tables
<1>12. ASSUME NEW i \in Id, record'[i] # NoRow
       PROVE  /\ record[i] # NoRow /\ record'[i].ctx = record[i].ctx /\ record'[i].prep = record[i].prep
              /\ prep'[record[i].ctx][record[i].prep] = prep[record[i].ctx][record[i].prep]
              /\ RowInv(record'[i], ctx[record[i].ctx].closed, prep[record[i].ctx][record[i].prep].revoked,
                        lastRead[i], now)
  <2>1. CASE i \in Rows(c)
    <3>1. record[i] # NoRow /\ record[i].ctx = c
      BY <2>1 DEF Rows
    <3>2. /\ record'[i].ctx = c /\ record'[i].prep = record[i].prep
          /\ RowInv(record'[i], ctx[c].closed, prep[c][record[i].prep].revoked, lastRead[i], now)
      BY <1>4, <1>12, <2>1
    <3>3. record[i].prep \in Ref
      BY <3>1, RowFacts
    <3>4. ~Spent(c, record[i].prep, record')
      BY <1>12, <3>2 DEF Spent
    <3> QED
      BY <1>8, <3>1, <3>2, <3>3, <3>4
  <2>2. CASE i \notin Rows(c)
    <3>1. record'[i] = record[i] /\ record[i].ctx # c
      BY <1>5, <1>12, <2>2 DEF Rows
    <3> QED
      BY <1>7, <1>12, <3>1, RowFacts
  <2> QED
    BY <2>1, <2>2
<1>13. References(ctx, prep', record', nextId)
  BY <1>12 DEF ObservationInv, Database, References
<1>14. Histories(ctx, prep', record', lastRead, now)
  BY <1>12 DEF Histories
<1>15. Database(ctx, prep', record', nextId, control', lastRead, now, boot)
  BY <1>9, <1>11, <1>13, <1>14 DEF ObservationInv, Database
<1>16. World' /\ Backup'
  <2>1. \A j \in Id : lastRead[j] <= lastRead[j]
    BY <1>2 DEF Time
  <2>2. Backup'
    BY <1>1, <1>2, <2>1, BackupKept
  <2> QED
    BY <1>1, <2>2 DEF ObservationInv, World
<1>17. Deletions'
  <2>1. ASSUME NEW i \in deleted, record'[i] # NoRow, control'[record'[i].ctx] = boot
        PROVE  record'[i].state # "available"
    <3>1. i \in Id
      BY DEF ObservationInv, Deletions
    <3>2. CASE i \in Rows(c)
      BY <1>4, <2>1, <3>1, <3>2
    <3>3. CASE i \notin Rows(c)
      <4>1. record'[i] = record[i] /\ record[i].ctx # c
        BY <1>5, <2>1, <3>1, <3>3 DEF Rows
      <4>2. record[i].ctx \in Ctx
        BY <2>1, <3>1, <4>1, RowFacts
      <4>3. control[record[i].ctx] = boot
        BY <1>7, <2>1, <4>1, <4>2
      <4> QED
        BY <2>1, <4>1, <4>3 DEF ObservationInv, Deletions
    <3> QED
      BY <3>2, <3>3
  <2> QED
    BY <1>1, <2>1 DEF ObservationInv, Deletions
<1> QED
  BY <1>1, <1>15, <1>16, <1>17 DEF ObservationInv

LEMMA TickStep ==
  ASSUME ObservationInv, Tick
  PROVE  ObservationInv'
<1>1. now' = now + 1 /\ UNCHANGED <<nextId, boot, trouble, target, ctx, prep, record, control, backup, lastRead, deleted>>
  BY DEF Tick
<1>2. now \in Nat /\ boot \in Nat /\ lastRead \in [Id -> Time] /\ now' \in Nat /\ now <= now'
  BY <1>1 DEF ObservationInv, World, Database, Tables
<1>3. World'
  BY <1>1, ObservationAssumption DEF ObservationInv, World, Tick
<1>4. Backup'
  <2>1. \A j \in Id : lastRead[j] <= lastRead[j]
    BY <1>2 DEF Time
  <2> QED
    BY <1>1, <1>2, <2>1, BackupKept
<1>5. Database(ctx, prep, record, nextId, control, lastRead, now', boot)
  <2>1. Database(ctx, prep, record, nextId, control, lastRead, now, boot) /\ boot <= boot
    BY <1>2 DEF ObservationInv
  <2> QED
    BY <1>2, <2>1, LaterDatabase
<1>6. Deletions'
  BY <1>1 DEF ObservationInv, Deletions
<1> QED
  BY <1>1, <1>3, <1>4, <1>5, <1>6 DEF ObservationInv

\* A new process has reconciled no context.
LEMMA RestartStep ==
  ASSUME ObservationInv, Restart
  PROVE  ObservationInv'
<1>1. /\ boot' = boot + 1 /\ trouble < MaxTrouble /\ trouble' = trouble + 1
      /\ UNCHANGED <<nextId, now, target, ctx, prep, record, control, backup, lastRead, deleted>>
  BY DEF Restart, Disturb
<1>2. now \in Nat /\ boot \in Nat /\ lastRead \in [Id -> Time] /\ boot' \in Nat /\ boot <= boot' /\ control \in [Ctx -> Nat]
  BY <1>1 DEF ObservationInv, World, Database, Tables
<1>3. World'
  BY <1>1, ObservationAssumption DEF ObservationInv, World
<1>4. Backup'
  <2>1. now <= now /\ \A j \in Id : lastRead[j] <= lastRead[j]
    BY <1>2 DEF Time
  <2> QED
    BY <1>1, <1>2, <2>1, BackupKept
<1>5. Database(ctx, prep, record, nextId, control, lastRead, now, boot')
  <2>1. Database(ctx, prep, record, nextId, control, lastRead, now, boot) /\ now <= now
    BY <1>2 DEF ObservationInv
  <2> QED
    BY <1>2, <2>1, LaterDatabase
<1>6. Deletions'
  <2>1. \A c \in Ctx : control[c] # boot'
    BY <1>1, <1>2 DEF ObservationInv, Database
  <2>2. \A i \in deleted : record[i] # NoRow => record[i].ctx \in Ctx
    BY RowFacts DEF ObservationInv, Deletions
  <2> QED
    BY <1>1, <2>1, <2>2 DEF ObservationInv, Deletions
<1> QED
  BY <1>1, <1>3, <1>4, <1>5, <1>6 DEF ObservationInv

LEMMA ChangeTargetStep ==
  ASSUME ObservationInv, NEW t \in Target, ChangeTarget(t)
  PROVE  ObservationInv'
<1>1. /\ trouble < MaxTrouble /\ trouble' = trouble + 1
      /\ UNCHANGED <<nextId, now, boot, ctx, prep, record, control, backup, lastRead, deleted>>
  BY DEF ChangeTarget, Disturb
<1>2. now \in Nat /\ boot \in Nat /\ lastRead \in [Id -> Time]
  BY DEF ObservationInv, World, Database, Tables
<1>3. World'
  <2>1. target[t] \in TargetRow
    BY DEF ObservationInv, World
  <2>2. target' \in [Target -> TargetRow]
    <3>1. CASE target' = [target EXCEPT ![t].origin = @ + 1]
      BY <2>1, <3>1 DEF ObservationInv, World, TargetRow
    <3>2. CASE target' = [target EXCEPT ![t].local = ~@]
      BY <2>1, <3>2 DEF ObservationInv, World, TargetRow
    <3>3. CASE \E stands \in BOOLEAN : target' = [target EXCEPT ![t].digest = @ + 1, ![t].stands = stands]
      <4>1. PICK stands \in BOOLEAN : target' = [target EXCEPT ![t].digest = @ + 1, ![t].stands = stands]
        BY <3>3
      <4> DEFINE old == target[t]
                 d == old.digest + 1
                 row == [old EXCEPT !.digest = d, !.stands = stands]
      <4>2. target' = [target EXCEPT ![t] = row]
        BY <4>1 DEF ObservationInv, World
      <4>3. row \in TargetRow
        <5>1. old \in TargetRow /\ d \in Nat
          BY <2>1 DEF TargetRow
        <5>2. PICK b \in BOOLEAN : b = stands
          BY <4>1
        <5>3. row = [old EXCEPT !.digest = d, !.stands = b]
          BY <5>2
        <5> HIDE DEF old, d, row
        <5> QED
          BY <5>1, <5>3 DEF TargetRow
      <4> HIDE DEF row
      <4> QED
        BY <4>2, <4>3 DEF ObservationInv, World
    <3>4. CASE \E facts \in {"gap", "gone"} : target' = [target EXCEPT ![t].facts = facts]
      BY <2>1, <3>4 DEF ObservationInv, World, TargetRow
    <3> QED
      BY <3>1, <3>2, <3>3, <3>4 DEF ChangeTarget
  <2> QED
    BY <1>1, <2>2, ObservationAssumption DEF ObservationInv, World
<1>4. Backup'
  <2>1. now <= now /\ boot <= boot /\ \A j \in Id : lastRead[j] <= lastRead[j]
    BY <1>2 DEF Time
  <2> QED
    BY <1>1, <1>2, <2>1, BackupKept
<1>5. Deletions'
  BY <1>1 DEF ObservationInv, Deletions
<1> QED
  BY <1>1, <1>3, <1>4, <1>5 DEF ObservationInv

LEMMA TakeBackupStep ==
  ASSUME ObservationInv, TakeBackup
  PROVE  ObservationInv'
<1>1. /\ backup' = [ctx |-> ctx, prep |-> prep, record |-> record,
                    nextId |-> nextId, control |-> control, lastRead |-> lastRead]
      /\ UNCHANGED <<nextId, now, boot, trouble, target, ctx, prep, record, control, lastRead, deleted>>
  BY DEF TakeBackup
<1>2. /\ backup'.ctx = ctx /\ backup'.prep = prep /\ backup'.record = record
      /\ backup'.nextId = nextId /\ backup'.control = control /\ backup'.lastRead = lastRead
  BY <1>1
<1>3. lastRead \in [Id -> Time]
  BY DEF ObservationInv, Database, Tables
<1>4. \A i \in Id : lastRead[i] <= lastRead[i]
  BY <1>3 DEF Time
<1>5. Backup'
  BY <1>1, <1>2, <1>4 DEF ObservationInv, Backup
<1> QED
  BY <1>1, <1>5 DEF ObservationInv, World, Deletions

\* The database goes back, and no context is served before it is reconciled.
LEMMA RestoreStep ==
  ASSUME ObservationInv, Restore
  PROVE  ObservationInv'
<1>1. /\ trouble < MaxTrouble /\ trouble' = trouble + 1 /\ backup # NoRow
      /\ ctx' = backup.ctx /\ prep' = backup.prep /\ record' = backup.record
      /\ nextId' = backup.nextId /\ lastRead' = backup.lastRead
      /\ deleted' = {i \in deleted : backup.record[i] # NoRow}
      /\ UNCHANGED <<now, target, backup>>
      /\ \/ boot' = boot + 1 /\ control' = backup.control
         \/ boot' = boot /\ control' = [c \in Ctx |-> 0]
  BY DEF Restore, Disturb
<1>2. /\ Database(backup.ctx, backup.prep, backup.record, backup.nextId, backup.control, backup.lastRead, now, boot)
      /\ now \in Nat /\ boot \in Nat \ {0}
  BY <1>1 DEF ObservationInv, Backup, World
<1>3. boot' \in Nat \ {0} /\ boot <= boot' /\ now <= now
  BY <1>1, <1>2
<1>4. Database(backup.ctx, backup.prep, backup.record, backup.nextId, backup.control, backup.lastRead, now, boot')
  BY <1>2, <1>3, LaterDatabase
<1>5. World'
  BY <1>1, <1>3, ObservationAssumption DEF ObservationInv, World
<1>6. backup.lastRead \in [Id -> Time]
  BY <1>2 DEF Database, Tables
<1>7. Backup'
  <2>1. \A i \in Id : backup.lastRead[i] <= backup.lastRead[i]
    BY <1>6 DEF Time
  <2> QED
    BY <1>1, <1>4, <2>1 DEF Backup
<1>8. /\ control' \in [Ctx -> Nat] /\ \A c \in Ctx : control'[c] < boot'
  <2>1. backup.control \in [Ctx -> Nat] /\ \A c \in Ctx : backup.control[c] <= boot
    BY <1>2 DEF Database, Tables
  <2> QED
    BY <1>1, <1>2, <2>1
<1>9. Database(backup.ctx, backup.prep, backup.record, backup.nextId, control', backup.lastRead, now, boot')
  <2>1. \A c \in Ctx : control'[c] <= boot'
    BY <1>3, <1>8
  <2> QED
    BY <1>4, <1>8, <2>1 DEF Database, Tables
<1>10. Deletions'
  <2>1. deleted \subseteq Id
    BY DEF ObservationInv, Deletions
  <2>2. \A i \in deleted' : i \in Id /\ backup.record[i] # NoRow
    BY <1>1, <2>1
  <2>3. \A i \in Id : backup.record[i] # NoRow => i < backup.nextId /\ backup.record[i].ctx \in Ctx
    BY <1>2 DEF Database, References, Tables, RecordRow
  <2>4. \A c \in Ctx : control'[c] # boot'
    BY <1>3, <1>8
  <2> QED
    BY <1>1, <2>1, <2>2, <2>3, <2>4 DEF Deletions
<1> QED
  BY <1>1, <1>5, <1>7, <1>9, <1>10 DEF ObservationInv

LEMMA ObservationInit ==
  Init => ObservationInv
<1> SUFFICES ASSUME Init PROVE ObservationInv
  OBVIOUS
<1> USE DEF Init
<1>1. World
  BY ObservationAssumption DEF World, TargetRow
<1>2. Tables(ctx, prep, record, nextId, control, lastRead)
  BY ObservationAssumption DEF Tables, Time
<1>3. Database(ctx, prep, record, nextId, control, lastRead, now, boot)
  BY <1>2 DEF Database, Apart, References, Reads, Histories
<1> QED
  BY <1>1, <1>3 DEF ObservationInv, Deletions, Backup

\* A step of an operator at a context.
LEMMA RequestStep ==
  ASSUME ObservationInv, NEW c \in Ctx, ContextRequest(c) \/ ObservationRequest(c)
  PROVE  /\ ObservationInv'
         /\ \A i \in Id : lastRead'[i] > lastRead[i] => \E reviewed \in BOOLEAN : Read(c, i, reviewed)
         /\ Stays \/ Reconcile(c)
<1>1. lastRead \in [Id -> Time] /\ now \in Nat /\ MaxWindow \in Nat
  BY ObservationAssumption DEF ObservationInv, Database, Tables, World
<1>2. \A i \in Id : ~(lastRead[i] > lastRead[i])
  BY <1>1 DEF Time
<1>3. CASE \E ts \in SUBSET Target \ {{}}, eligible \in BOOLEAN : CreateContext(c, ts, eligible)
  <2>1. PICK ts \in SUBSET Target, eligible \in BOOLEAN : CreateContext(c, ts, eligible)
    BY <1>3
  <2>2. lastRead' = lastRead /\ record' = record
    BY <2>1 DEF CreateContext
  <2> QED
    BY <1>2, <2>1, <2>2, CreateContextStep DEF Stays
<1>4. CASE \E eligible \in BOOLEAN : CorrectContext(c, eligible)
  <2>1. PICK eligible \in BOOLEAN : CorrectContext(c, eligible)
    BY <1>4
  <2>2. lastRead' = lastRead /\ record' = record
    BY <2>1 DEF CorrectContext
  <2> QED
    BY <1>2, <2>1, <2>2, CorrectContextStep DEF Stays
<1>5. CASE CloseContext(c)
  <2>1. lastRead' = lastRead /\ record' = record
    BY <1>5 DEF CloseContext
  <2> QED
    BY <1>2, <1>5, <2>1, CloseContextStep DEF Stays
<1>6. CASE \E p \in PreparationInput : Prepare(c, p.ref, p.target, p.until)
  <2>1. PICK p \in PreparationInput : Prepare(c, p.ref, p.target, p.until)
    BY <1>6
  <2>2. p.ref \in Ref /\ p.target \in Target /\ p.until \in Nat
    BY <1>1 DEF PreparationInput
  <2>3. lastRead' = lastRead /\ record' = record
    BY <2>1 DEF Prepare
  <2> QED
    BY <1>2, <2>1, <2>2, <2>3, PrepareStep DEF Stays
<1>7. CASE \E r \in Ref, m \in Material, corrects \in 0 .. MaxIds : Accept(c, r, m, corrects)
  <2>1. PICK r \in Ref, m \in Material, corrects \in 0 .. MaxIds : Accept(c, r, m, corrects)
    BY <1>7
  <2>2. lastRead' = lastRead
    BY <2>1 DEF Accept
  <2>3. Stays
    <3>1. record \in [Id -> RecordRow \cup {NoRow}] /\ nextId \in Id
      BY <2>1 DEF Accept, ObservationInv, Database, Tables
    <3>2. \A i \in Id : i # nextId => record'[i] = record[i]
      BY <2>1, <3>1 DEF Accept
    <3>3. record[nextId] = NoRow
      <4>1. nextId \in Nat /\ ~(nextId < nextId)
        BY <3>1, ObservationAssumption DEF Id
      <4> QED
        BY <3>1, <4>1, RowFacts
    <3> QED
      BY <3>2, <3>3 DEF Stays
  <2> QED
    BY <1>2, <2>1, <2>2, <2>3, AcceptStep
<1>8. CASE \E i \in Id, reviewed \in BOOLEAN : Read(c, i, reviewed)
  <2>1. PICK i \in Id, reviewed \in BOOLEAN : Read(c, i, reviewed)
    BY <1>8
  <2>2. lastRead' = [lastRead EXCEPT ![i] = now] /\ record' = record
    BY <2>1 DEF Read
  <2>3. \A j \in Id : lastRead'[j] > lastRead[j] => j = i
    BY <1>1, <1>2, <2>2
  <2> QED
    BY <2>1, <2>2, <2>3, ReadStep DEF Stays
<1>9. CASE \E i \in Id, until \in {now + 1, now + MaxWindow} : Hold(c, i, until)
  <2>1. PICK i \in Id, until \in {now + 1, now + MaxWindow} : Hold(c, i, until)
    BY <1>9
  <2>2. lastRead' = lastRead /\ until \in Nat
    BY <1>1, <2>1 DEF Hold
  <2> QED
    BY <1>2, <2>1, <2>2, HoldStep
<1>10. CASE \E i \in Id : Release(c, i) \/ Delete(c, i) \/ Quarantine(c, i)
  <2>1. PICK i \in Id : Release(c, i) \/ Delete(c, i) \/ Quarantine(c, i)
    BY <1>10
  <2>2. lastRead' = lastRead
    BY <2>1 DEF Release, Delete, Quarantine
  <2> QED
    BY <1>2, <2>1, <2>2, ReleaseStep, DeleteStep, QuarantineStep
<1>11. CASE \E r \in Ref : RevokePreparation(c, r)
  <2>1. PICK r \in Ref : RevokePreparation(c, r)
    BY <1>11
  <2>2. lastRead' = lastRead /\ record' = record
    BY <2>1 DEF RevokePreparation
  <2> QED
    BY <1>2, <2>1, <2>2, RevokePreparationStep DEF Stays
<1>12. CASE Suspend(c)
  <2>1. lastRead' = lastRead /\ record' = record
    BY <1>12 DEF Suspend
  <2> QED
    BY <1>2, <1>12, <2>1, SuspendStep DEF Stays
<1>13. CASE Reconcile(c)
  <2>1. lastRead' = lastRead
    BY <1>13 DEF Reconcile
  <2> QED
    BY <1>2, <1>13, <2>1, ReconcileStep
<1> QED
  BY <1>3, <1>4, <1>5, <1>6, <1>7, <1>8, <1>9, <1>10, <1>11, <1>12, <1>13 DEF ContextRequest, ObservationRequest

\* Only a read makes the time of a read later, and only reconcile drops rows
\* of a database that nobody replaces.
LEMMA ObservationStep ==
  ASSUME ObservationInv, Next \/ UNCHANGED vars
  PROVE  /\ ObservationInv'
         /\ \A i \in Id : lastRead'[i] > lastRead[i] => \E c \in Ctx, reviewed \in BOOLEAN : Read(c, i, reviewed)
         /\ trouble' = trouble => Stays \/ \E c \in Ctx : Reconcile(c)
<1>1. lastRead \in [Id -> Time] /\ trouble \in Nat
  BY ObservationAssumption DEF ObservationInv, Database, Tables, World
<1>2. \A i \in Id : ~(lastRead[i] > lastRead[i])
  BY <1>1 DEF Time
<1>3. CASE \E c \in Ctx : ContextRequest(c) \/ ObservationRequest(c)
  BY <1>3, RequestStep
<1>4. CASE Tick
  <2>1. lastRead' = lastRead /\ record' = record
    BY <1>4 DEF Tick
  <2> QED
    BY <1>2, <1>4, <2>1, TickStep DEF Stays
<1>5. CASE Restart
  <2>1. lastRead' = lastRead /\ record' = record
    BY <1>5 DEF Restart
  <2> QED
    BY <1>2, <1>5, <2>1, RestartStep DEF Stays
<1>6. CASE \E t \in Target : ChangeTarget(t)
  <2>1. lastRead' = lastRead /\ record' = record
    BY <1>6 DEF ChangeTarget
  <2> QED
    BY <1>2, <1>6, <2>1, ChangeTargetStep DEF Stays
<1>7. CASE TakeBackup
  <2>1. lastRead' = lastRead /\ record' = record
    BY <1>7 DEF TakeBackup
  <2> QED
    BY <1>2, <1>7, <2>1, TakeBackupStep DEF Stays
<1>8. CASE Restore
  <2>1. trouble' # trouble
    BY <1>1, <1>8 DEF Restore, Disturb
  <2>2. lastRead' = backup.lastRead /\ backup # NoRow
    BY <1>8 DEF Restore
  <2>3. \A i \in Id : backup.lastRead[i] <= lastRead[i]
    BY <2>2 DEF ObservationInv, Backup
  <2>4. backup.lastRead \in [Id -> Time]
    BY <2>2 DEF ObservationInv, Backup, Database, Tables
  <2>5. \A i \in Id : ~(lastRead'[i] > lastRead[i])
    BY <1>1, <2>2, <2>3, <2>4 DEF Time
  <2> QED
    BY <1>8, <2>1, <2>5, RestoreStep
<1>9. CASE UNCHANGED vars
  <2>1. lastRead' = lastRead /\ record' = record
    BY <1>9 DEF vars
  <2>2. ObservationInv'
    BY <1>9 DEF vars, ObservationInv, World, Deletions, Backup
  <2> QED
    BY <1>2, <2>1, <2>2 DEF Stays
<1> QED
  BY <1>3, <1>4, <1>5, <1>6, <1>7, <1>8, <1>9 DEF Next, ObservationNext

-----------------------------------------------------------------------------
(* Lines of versions                                                       *)

\* Line, of any table of versions.
LineOf(vs, v) ==
  {u \in DOMAIN vs :
     \A S \in SUBSET DOMAIN vs : v \in S /\ (\A w \in S : vs[w].supersedes \in S \cup {0}) => u \in S}

\* A version replaces none, or one of its own context.
Lines(vs) ==
  \A v \in DOMAIN vs : vs[v].supersedes # 0 =>
    vs[v].supersedes \in DOMAIN vs /\ vs[vs[v].supersedes].ctx = vs[v].ctx

LEMMA LineIsLineOf ==
  ASSUME NEW v
  PROVE  Line(v) = LineOf(version, v)
  BY DEF Line, LineOf

\* The line is closed, and inside every closed set that its version is in.
LEMMA LineFacts ==
  ASSUME NEW vs, Lines(vs), NEW v \in DOMAIN vs
  PROVE  /\ v \in LineOf(vs, v) /\ LineOf(vs, v) \subseteq DOMAIN vs
         /\ \A w \in LineOf(vs, v) : vs[w].supersedes \in LineOf(vs, v) \cup {0}
<1>1. v \in LineOf(vs, v) /\ LineOf(vs, v) \subseteq DOMAIN vs
  BY DEF LineOf
<1>2. ASSUME NEW w \in LineOf(vs, v), vs[w].supersedes # 0
      PROVE  vs[w].supersedes \in LineOf(vs, v)
  <2>1. w \in DOMAIN vs /\ vs[w].supersedes \in DOMAIN vs
    BY <1>2 DEF LineOf, Lines
  <2> SUFFICES ASSUME NEW S \in SUBSET DOMAIN vs, v \in S, \A x \in S : vs[x].supersedes \in S \cup {0}
               PROVE  vs[w].supersedes \in S
    BY <2>1 DEF LineOf
  <2>2. w \in S
    BY DEF LineOf
  <2> QED
    BY <1>2, <2>2
<1> QED
  BY <1>1, <1>2

LEMMA LineWithin ==
  ASSUME NEW vs, NEW v, NEW S \in SUBSET DOMAIN vs, v \in S, \A w \in S : vs[w].supersedes \in S \cup {0}
  PROVE  LineOf(vs, v) \subseteq S
  BY DEF LineOf

\* The line of a version is the version, and the line of what it replaces.
LEMMA LineSplit ==
  ASSUME NEW vs, Lines(vs), NEW v \in DOMAIN vs, NEW w, w = vs[v].supersedes
  PROVE  LineOf(vs, v) = {v} \cup (IF w = 0 THEN {} ELSE LineOf(vs, w))
<1> DEFINE rest == IF w = 0 THEN {} ELSE LineOf(vs, w)
           S == {v} \cup rest
<1>1. CASE w = 0
  <2>1. {v} \in SUBSET DOMAIN vs /\ \A x \in {v} : vs[x].supersedes \in {v} \cup {0}
    BY <1>1
  <2>2. LineOf(vs, v) \subseteq {v}
    BY <2>1, LineWithin
  <2> QED
    BY <1>1, <2>2, LineFacts
<1>2. CASE w # 0
  <2>1. w \in DOMAIN vs
    BY <1>2 DEF Lines
  <2>2. /\ w \in LineOf(vs, w) /\ LineOf(vs, w) \subseteq DOMAIN vs
        /\ \A x \in LineOf(vs, w) : vs[x].supersedes \in LineOf(vs, w) \cup {0}
    BY <2>1, LineFacts
  <2>3. LineOf(vs, v) \subseteq {v} \cup LineOf(vs, w)
    <3> DEFINE T == {v} \cup LineOf(vs, w)
    <3>1. T \in SUBSET DOMAIN vs /\ v \in T /\ \A x \in T : vs[x].supersedes \in T \cup {0}
      BY <2>2
    <3> HIDE DEF T
    <3>2. LineOf(vs, v) \subseteq T
      BY <3>1, LineWithin
    <3> QED
      BY <3>2 DEF T
  <2>4. /\ v \in LineOf(vs, v) /\ LineOf(vs, v) \subseteq DOMAIN vs
        /\ \A x \in LineOf(vs, v) : vs[x].supersedes \in LineOf(vs, v) \cup {0}
    BY LineFacts
  <2>5. w \in LineOf(vs, v)
    BY <1>2, <2>4
  <2>6. LineOf(vs, w) \subseteq LineOf(vs, v)
    BY <2>4, <2>5, LineWithin
  <2> QED
    BY <1>2, <2>3, <2>4, <2>6
<1> QED
  BY <1>1, <1>2

\* An eligible version that is not disabled itself has no disabled version in
\* its line.  The recursion of LineageEligible has a solution, which says of
\* each version that every replacement in its line is seen and not disabled.
LEMMA EligibleLine ==
  ASSUME Lines(version), NEW c, NEW v \in DOMAIN version, NEW D, v \notin D, LineageEligible(c, v, D)
  PROVE  LineOf(version, v) \cap D = {}
<1> DEFINE Fine(w) == w = 0 \/ (w \in Catalog(c) /\ w \notin D)
           P(g) == g = [u \in DOMAIN version |->
                          LET w == version[u].supersedes
                          IN w = 0 \/ (w \in Catalog(c) /\ w \notin D /\ g[w])]
           s == [u \in DOMAIN version |-> \A x \in LineOf(version, u) : Fine(version[x].supersedes)]
<1>1. (CHOOSE g : P(g))[v]
  BY DEF LineageEligible
<1>2. P(s)
  <2> SUFFICES ASSUME NEW u \in DOMAIN version, NEW w, w = version[u].supersedes
               PROVE  (\A x \in LineOf(version, u) : Fine(version[x].supersedes))
                      <=> (w = 0 \/ (w \in Catalog(c) /\ w \notin D /\ s[w]))
    OBVIOUS
  <2>1. LineOf(version, u) = {u} \cup (IF w = 0 THEN {} ELSE LineOf(version, w))
    BY LineSplit
  <2>2. CASE w = 0
    BY <2>1, <2>2
  <2>3. CASE w # 0
    <3>1. w \in DOMAIN version
      BY <2>3 DEF Lines
    <3>2. s[w] = \A x \in LineOf(version, w) : Fine(version[x].supersedes)
      BY <3>1
    <3> HIDE DEF s
    <3> QED
      BY <2>1, <2>3, <3>2
  <2> QED
    BY <2>2, <2>3
<1>3. P(CHOOSE g : P(g))
  BY <1>2
<1>4. PICK g : g = CHOOSE h : P(h)
  OBVIOUS
<1>5. P(g) /\ g[v]
  BY <1>1, <1>3, <1>4
<1>6. \A u \in DOMAIN version : g[u] =>
        \/ version[u].supersedes = 0
        \/ /\ version[u].supersedes \in DOMAIN version /\ version[u].supersedes \notin D
           /\ g[version[u].supersedes]
  BY <1>5 DEF Catalog
<1> DEFINE S == {u \in DOMAIN version : g[u] /\ u \notin D}
<1>7. S \in SUBSET DOMAIN version /\ v \in S /\ \A w \in S : version[w].supersedes \in S \cup {0}
  BY <1>5, <1>6
<1> HIDE DEF S
<1>8. LineOf(version, v) \subseteq S
  BY <1>7, LineWithin
<1> QED
  BY <1>8 DEF S

\* A new version is in no line of the ones before it.
LEMMA LineAppended ==
  ASSUME NEW R, NEW vs \in Seq(R), NEW row \in R, Lines(vs), NEW v \in DOMAIN vs
  PROVE  LineOf(Append(vs, row), v) \subseteq LineOf(vs, v)
<1> DEFINE ws == Append(vs, row)
           S == LineOf(vs, v)
<1>1. DOMAIN vs \subseteq DOMAIN ws /\ \A u \in DOMAIN vs : ws[u] = vs[u]
  OBVIOUS
<1> HIDE DEF ws
<1>2. S \in SUBSET DOMAIN ws /\ v \in S /\ \A w \in S : ws[w].supersedes \in S \cup {0}
  BY <1>1, LineFacts
<1> HIDE DEF S
<1>3. LineOf(ws, v) \subseteq S
  BY <1>2, LineWithin
<1> QED
  BY <1>3 DEF S, ws

\* A line stays in its context.
LEMMA LineContext ==
  ASSUME NEW vs, Lines(vs), NEW v \in DOMAIN vs
  PROVE  \A u \in LineOf(vs, v) : vs[u].ctx = vs[v].ctx
<1> DEFINE S == {u \in DOMAIN vs : vs[u].ctx = vs[v].ctx}
<1>1. S \in SUBSET DOMAIN vs /\ v \in S /\ \A w \in S : vs[w].supersedes \in S \cup {0}
  BY DEF Lines
<1> HIDE DEF S
<1>2. LineOf(vs, v) \subseteq S
  BY <1>1, LineWithin
<1> QED
  BY <1>2 DEF S

-----------------------------------------------------------------------------
(* The invariant of the catalog                                            *)

\* The tables are functions, within their limits.
CatalogTables ==
  /\ CatalogTypeOK
  /\ decision \in [Version -> Seq(DecisionRow)] /\ subject \in [Ctx -> Seq(SubjectRow)]
  /\ lastMatch \in [Version -> Nat]
  /\ Len(version) <= MaxVersions /\ Len(validation) <= MaxValidations
  /\ \A v \in Version : Len(decision[v]) <= MaxDecisions

\* A version for every context cites nothing.
Scopes(vs) == \A v \in DOMAIN vs : vs[v].scope = "reusable_synthetic" => vs[v].sources = {}

\* A proposal is about versions of one context.
Proposals(vs, fs) ==
  \A f \in DOMAIN fs :
    /\ fs[f].version \in DOMAIN vs
    /\ fs[f].correction # 0 =>
         fs[f].correction \in DOMAIN vs /\ vs[fs[f].correction].ctx = vs[fs[f].version].ctx

\* No version of the line is disabled.
Clear(vs, ds, v) == \A u \in LineOf(vs, v) : ~Took(ds[u], {"disable"})

Pending(vs, ds, fs) ==
  \A f \in DOMAIN fs : fs[f].status = "pending" =>
    Clear(vs, ds, fs[f].version) /\ (fs[f].correction # 0 => Clear(vs, ds, fs[f].correction))

KnowledgeInv ==
  /\ CatalogTables /\ Lines(version) /\ Scopes(version)
  /\ Proposals(version, feedback) /\ Pending(version, decision, feedback)

\* The inductive invariant.
IInv == ObservationInv /\ KnowledgeInv

LEMMA CatalogDomains ==
  ASSUME CatalogTables
  PROVE  /\ DOMAIN version = 1 .. Len(version) /\ Len(version) \in Nat /\ DOMAIN version \subseteq Version
         /\ DOMAIN validation = 1 .. Len(validation) /\ Len(validation) \in Nat
         /\ DOMAIN validation \subseteq 1 .. MaxValidations
         /\ \A v \in DOMAIN version : version[v] \in VersionRow /\ v # 0
<1>1. version \in Seq(VersionRow) /\ validation \in Seq(ValidationRow) /\ Len(version) <= MaxVersions
      /\ Len(validation) <= MaxValidations /\ MaxVersions \in Nat /\ MaxValidations \in Nat
  BY KnowledgeAssumption DEF CatalogTables, CatalogTypeOK
<1>2. /\ DOMAIN version = 1 .. Len(version) /\ Len(version) \in Nat
      /\ DOMAIN validation = 1 .. Len(validation) /\ Len(validation) \in Nat
      /\ \A v \in DOMAIN version : version[v] \in VersionRow
  BY <1>1
<1> QED
  BY <1>1, <1>2 DEF Version

LEMMA PendingIsNotStale ==
  ASSUME KnowledgeInv
  PROVE  NoStalePending
<1> SUFFICES ASSUME NEW f \in DOMAIN feedback, feedback[f].status = "pending",
                    NEW v \in {feedback[f].version, feedback[f].correction} \ {0}, NEW u \in Line(v)
             PROVE  ~Took(decision[u], {"disable"})
  BY DEF NoStalePending
<1>1. Clear(version, decision, v)
  BY DEF KnowledgeInv, Pending
<1> QED
  BY <1>1, LineIsLineOf DEF Clear

LEMMA TookAppended ==
  ASSUME NEW R, NEW ds \in Seq(R), NEW d \in R, NEW kinds
  PROVE  Took(Append(ds, d), kinds) <=> Took(ds, kinds) \/ d.action \in kinds
<1>1. /\ DOMAIN ds = 1 .. Len(ds) /\ Len(ds) \in Nat /\ DOMAIN Append(ds, d) = 1 .. (Len(ds) + 1)
      /\ Append(ds, d)[Len(ds) + 1] = d /\ \A k \in 1 .. Len(ds) : Append(ds, d)[k] = ds[k]
  OBVIOUS
<1>2. ASSUME Took(Append(ds, d), kinds) PROVE Took(ds, kinds) \/ d.action \in kinds
  <2>1. PICK k \in 1 .. (Len(ds) + 1) : Append(ds, d)[k].action \in kinds
    BY <1>1, <1>2 DEF Took
  <2>2. CASE k = Len(ds) + 1
    BY <1>1, <2>1, <2>2
  <2>3. CASE k # Len(ds) + 1
    <3>1. k \in 1 .. Len(ds)
      BY <1>1, <2>1, <2>3
    <3> QED
      BY <1>1, <2>1, <3>1 DEF Took
  <2> QED
    BY <2>2, <2>3
<1>3. ASSUME Took(ds, kinds) PROVE Took(Append(ds, d), kinds)
  <2>1. PICK k \in 1 .. Len(ds) : ds[k].action \in kinds
    BY <1>1, <1>3 DEF Took
  <2>2. k \in DOMAIN Append(ds, d)
    BY <1>1, <2>1
  <2> QED
    BY <1>1, <2>1, <2>2 DEF Took
<1>4. ASSUME d.action \in kinds PROVE Took(Append(ds, d), kinds)
  <2>1. Len(ds) + 1 \in DOMAIN Append(ds, d)
    BY <1>1
  <2> QED
    BY <1>1, <1>4, <2>1 DEF Took
<1> QED
  BY <1>2, <1>3, <1>4

-----------------------------------------------------------------------------
(* Steps on the catalog                                                    *)

\* A decision, with the reviews as they are then.
LEMMA DecidedStep ==
  ASSUME KnowledgeInv, NEW c \in Ctx, NEW v \in DOMAIN version, NEW d \in DecisionRow,
         NEW fs \in Seq(FeedbackRow), Proposals(version, fs), Pending(version, decision, fs),
         Decided(c, v, d, fs), UNCHANGED <<version, validation, subject, lastMatch>>
  PROVE  KnowledgeInv'
<1> DEFINE ds == [decision EXCEPT ![v] = Append(decision[v], d)]
<1>1. /\ decision' = ds /\ Own(c, v) /\ Len(decision[v]) < MaxDecisions
      /\ feedback' = IF d.action = "disable" THEN Invalidated(c, ds, fs) ELSE fs
  BY DEF Decided
<1>2. /\ decision \in [Version -> Seq(DecisionRow)] /\ v \in Version /\ decision[v] \in Seq(DecisionRow)
      /\ \A u \in Version : Len(decision[u]) <= MaxDecisions
  BY CatalogDomains DEF KnowledgeInv, CatalogTables
<1>3. /\ ds \in [Version -> Seq(DecisionRow)] /\ \A u \in Version : Len(ds[u]) <= MaxDecisions
      /\ ds[v] = Append(decision[v], d) /\ \A u \in Version : u # v => ds[u] = decision[u]
  <2>1. Append(decision[v], d) \in Seq(DecisionRow) /\ Len(Append(decision[v], d)) = Len(decision[v]) + 1
    BY <1>2
  <2>2. MaxDecisions \in Nat /\ Len(decision[v]) \in Nat
    BY <1>2, KnowledgeAssumption
  <2>3. Len(Append(decision[v], d)) <= MaxDecisions
    BY <1>1, <2>1, <2>2
  <2>4. ds \in [Version -> Seq(DecisionRow)] /\ ds[v] = Append(decision[v], d)
    BY <1>2, <2>1
  <2> QED
    BY <1>2, <2>3, <2>4
<1> HIDE DEF ds
<1>4. \A u \in Version : Took(ds[u], {"disable"}) <=>
        Took(decision[u], {"disable"}) \/ (u = v /\ d.action = "disable")
  <2>1. Took(Append(decision[v], d), {"disable"}) <=> Took(decision[v], {"disable"}) \/ d.action = "disable"
    BY <1>2, TookAppended
  <2> QED
    BY <1>3, <2>1
<1>5. /\ DOMAIN version \subseteq Version /\ Lines(version) /\ \A x \in DOMAIN version : LineOf(version, x) \subseteq DOMAIN version
  BY CatalogDomains, LineFacts DEF KnowledgeInv
<1>6. CASE d.action # "disable"
  <2>1. feedback' = fs
    BY <1>1, <1>6
  <2>2. \A x \in DOMAIN version : Clear(version, decision, x) => Clear(version, ds, x)
    BY <1>4, <1>5, <1>6 DEF Clear
  <2>3. Pending(version, ds, fs)
    BY <2>2 DEF Pending, Proposals
  <2>4. CatalogTables'
    BY <1>1, <1>3, <2>1 DEF KnowledgeInv, CatalogTables, CatalogTypeOK
  <2> QED
    BY <1>1, <2>1, <2>3, <2>4 DEF KnowledgeInv
<1>7. CASE d.action = "disable"
  <2> DEFINE gs == Invalidated(c, ds, fs)
  <2>1. feedback' = gs
    BY <1>1, <1>7
  <2>2. DOMAIN gs = DOMAIN fs /\ DOMAIN fs = 1 .. Len(fs) /\ Len(fs) \in Nat
    BY DEF Invalidated
  <2>3. \A f \in DOMAIN fs :
          /\ gs[f] \in FeedbackRow /\ gs[f].version = fs[f].version /\ gs[f].correction = fs[f].correction
          /\ gs[f].status = "pending" =>
               /\ fs[f].status = "pending"
               /\ Own(c, fs[f].version) => {fs[f].version, fs[f].correction} \cap Affected(c, ds) = {}
    <3> SUFFICES ASSUME NEW f \in DOMAIN fs
                 PROVE  /\ gs[f] \in FeedbackRow /\ gs[f].version = fs[f].version
                        /\ gs[f].correction = fs[f].correction
                        /\ gs[f].status = "pending" =>
                             /\ fs[f].status = "pending"
                             /\ Own(c, fs[f].version) => {fs[f].version, fs[f].correction} \cap Affected(c, ds) = {}
      OBVIOUS
    <3> DEFINE row == fs[f]
               hit == /\ row.status = "pending" /\ Own(c, row.version)
                      /\ {row.version, row.correction} \cap Affected(c, ds) # {}
    <3>1. row \in FeedbackRow
      OBVIOUS
    <3>2. gs[f] = IF hit THEN [row EXCEPT !.status = "invalidate"] ELSE row
      BY DEF Invalidated
    <3>3. CASE hit
      <4>1. gs[f] = [row EXCEPT !.status = "invalidate"]
        BY <3>2, <3>3
      <4> HIDE DEF row, gs
      <4>2. gs[f] \in FeedbackRow /\ gs[f].version = row.version /\ gs[f].correction = row.correction
            /\ gs[f].status = "invalidate"
        BY <3>1, <4>1 DEF FeedbackRow
      <4> QED
        BY <4>2 DEF row
    <3>4. CASE ~hit
      BY <3>1, <3>2, <3>4
    <3> QED
      BY <3>3, <3>4
  <2> HIDE DEF gs
  <2>4. gs \in Seq(FeedbackRow)
    BY <2>1, <2>2, <2>3 DEF Invalidated, gs
  <2>5. Proposals(version, gs)
    BY <2>2, <2>3 DEF Proposals
  <2>6. ASSUME NEW x \in Catalog(c), x \notin Affected(c, ds)
        PROVE  Clear(version, ds, x)
    <3>1. x \in DOMAIN version /\ x \notin Disabled(ds) /\ LineageEligible(c, x, Disabled(ds))
      BY <2>6 DEF Affected, Catalog
    <3>2. LineOf(version, x) \cap Disabled(ds) = {}
      BY <1>5, <3>1, EligibleLine
    <3> QED
      BY <1>5, <3>1, <3>2 DEF Clear, Disabled
  <2>7. ASSUME NEW x \in DOMAIN version, version[x].ctx # c, Clear(version, decision, x)
        PROVE  Clear(version, ds, x)
    <3>1. \A u \in LineOf(version, x) : u # v
      BY <1>1, <1>5, <2>7, LineContext DEF Own
    <3> QED
      BY <1>4, <1>5, <2>7, <3>1 DEF Clear
  <2>8. Pending(version, ds, gs)
    <3> SUFFICES ASSUME NEW f \in DOMAIN fs, gs[f].status = "pending"
                 PROVE  /\ Clear(version, ds, fs[f].version)
                        /\ fs[f].correction # 0 => Clear(version, ds, fs[f].correction)
      BY <2>2, <2>3 DEF Pending
    <3>1. /\ fs[f].version \in DOMAIN version /\ fs[f].status = "pending"
          /\ Clear(version, decision, fs[f].version)
          /\ fs[f].correction # 0 =>
               /\ fs[f].correction \in DOMAIN version
               /\ version[fs[f].correction].ctx = version[fs[f].version].ctx
               /\ Clear(version, decision, fs[f].correction)
      BY <2>3 DEF Proposals, Pending
    <3>2. CASE version[fs[f].version].ctx = c
      <4>1. {fs[f].version, fs[f].correction} \cap Affected(c, ds) = {}
        BY <2>3, <3>1, <3>2 DEF Own, Exists
      <4>2. fs[f].version \in Catalog(c) /\ (fs[f].correction # 0 => fs[f].correction \in Catalog(c))
        BY <3>1, <3>2 DEF Catalog
      <4> QED
        BY <2>6, <4>1, <4>2
    <3>3. CASE version[fs[f].version].ctx # c
      BY <2>7, <3>1, <3>3
    <3> QED
      BY <3>2, <3>3
  <2>9. CatalogTables'
    BY <1>1, <1>3, <2>1, <2>4 DEF KnowledgeInv, CatalogTables, CatalogTypeOK
  <2> QED
    BY <1>1, <2>1, <2>5, <2>8, <2>9 DEF KnowledgeInv
<1> QED
  BY <1>6, <1>7

LEMMA DecideStep ==
  ASSUME IInv, NEW c \in Ctx, NEW v \in DOMAIN version, NEW d \in DecisionInput(v), Decide(c, v, d)
  PROVE  KnowledgeInv'
<1>1. now \in Nat /\ Spans \subseteq Nat /\ \A w \in Windows : w.from \in Nat /\ w.until \in Nat
  BY KnowledgeAssumption DEF IInv, ObservationInv, World, Windows
<1>2. /\ Len(validation) \in Nat /\ 0 .. Len(validation) \subseteq 0 .. MaxValidations /\ 0 \in 0 .. MaxDecisions
      /\ DOMAIN decision[v] \subseteq 0 .. MaxDecisions /\ 0 .. Len(decision[v]) \subseteq 0 .. MaxDecisions
      /\ 0 \in 0 .. MaxValidations
  <2>1. v \in Version /\ Len(validation) \in Nat /\ Len(validation) <= MaxValidations
        /\ Len(decision[v]) <= MaxDecisions /\ decision[v] \in Seq(DecisionRow)
    BY CatalogDomains DEF IInv, KnowledgeInv, CatalogTables
  <2>2. MaxValidations \in Nat /\ MaxDecisions \in Nat
    BY KnowledgeAssumption
  <2> QED
    BY <2>1, <2>2
<1>3. d \in DecisionRow
  <2>1. CASE d \in {[action |-> a, from |-> 0, until |-> 0, validation |-> 0, review |-> 0, reuse |-> 0] :
                      a \in {"withdraw", "disable"}}
    BY <1>2, <2>1 DEF DecisionRow, Kind
  <2>2. CASE d \in {[action |-> a, from |-> w.from, until |-> w.until, validation |-> e, review |-> 0, reuse |-> 0] :
                      a \in {"review", "reuse"}, w \in Windows, e \in 0 .. Len(validation)}
    <3>1. PICK a \in {"review", "reuse"}, w \in Windows, e \in 0 .. Len(validation) :
            d = [action |-> a, from |-> w.from, until |-> w.until, validation |-> e, review |-> 0, reuse |-> 0]
      BY <2>2
    <3> QED
      BY <1>1, <1>2, <3>1 DEF DecisionRow, Kind
  <2>3. CASE d \in {[action |-> "publish", from |-> w.from, until |-> w.until, validation |-> e, review |-> k, reuse |-> j] :
                      w \in Windows, e \in 0 .. Len(validation), k \in DOMAIN decision[v], j \in 0 .. Len(decision[v])}
    <3>1. PICK w \in Windows, e \in 0 .. Len(validation), k \in DOMAIN decision[v], j \in 0 .. Len(decision[v]) :
            d = [action |-> "publish", from |-> w.from, until |-> w.until, validation |-> e, review |-> k, reuse |-> j]
      BY <2>3
    <3> QED
      BY <1>1, <1>2, <3>1 DEF DecisionRow, Kind
  <2> QED
    BY <2>1, <2>2, <2>3 DEF DecisionInput
<1>4. feedback \in Seq(FeedbackRow) /\ Proposals(version, feedback) /\ Pending(version, decision, feedback)
  BY DEF IInv, KnowledgeInv, CatalogTables, CatalogTypeOK
<1>5. Decided(c, v, d, feedback) /\ UNCHANGED <<version, validation, subject, lastMatch>>
  BY DEF Decide
<1> QED
  BY <1>3, <1>4, <1>5, DecidedStep DEF IInv

LEMMA RecordVersionStep ==
  ASSUME IInv, NEW c \in Ctx, NEW row \in VersionRow, RecordVersion(c, row)
  PROVE  KnowledgeInv'
<1> DEFINE vs == Append(version, row)
<1>1. /\ row.ctx = c /\ (row.scope = "reusable_synthetic" => row.sources = {})
      /\ (row.supersedes # 0 => row.supersedes \in DOMAIN version /\ version[row.supersedes].ctx = c)
      /\ Len(version) < MaxVersions /\ version' = vs
      /\ UNCHANGED <<decision, validation, feedback, subject, lastMatch>>
  BY DEF RecordVersion, Own, Exists
<1>2. version \in Seq(VersionRow) /\ Len(version) \in Nat /\ MaxVersions \in Nat
  BY CatalogDomains, KnowledgeAssumption DEF IInv, KnowledgeInv, CatalogTables, CatalogTypeOK
<1>3. /\ vs \in Seq(VersionRow) /\ Len(vs) = Len(version) + 1
      /\ DOMAIN version = 1 .. Len(version) /\ DOMAIN vs = 1 .. (Len(version) + 1)
      /\ vs[Len(version) + 1] = row /\ \A u \in DOMAIN version : vs[u] = version[u]
  BY <1>2
<1>4. \A u \in DOMAIN vs : u \in DOMAIN version \/ vs[u] = row
  BY <1>2, <1>3
<1>5. DOMAIN version \subseteq DOMAIN vs
  BY <1>2, <1>3
<1>6. \A v \in DOMAIN version : LineOf(vs, v) \subseteq LineOf(version, v)
  BY <1>2, LineAppended DEF IInv, KnowledgeInv
<1> HIDE DEF vs
<1>7. Lines(vs) /\ Scopes(vs)
  BY <1>1, <1>3, <1>4, <1>5 DEF IInv, KnowledgeInv, Lines, Scopes
<1>8. Proposals(vs, feedback)
  BY <1>3, <1>5 DEF IInv, KnowledgeInv, Proposals
<1>9. Pending(vs, decision, feedback)
  <2>1. \A v \in DOMAIN version : Clear(version, decision, v) => Clear(vs, decision, v)
    BY <1>6 DEF Clear
  <2> QED
    BY <2>1 DEF IInv, KnowledgeInv, Proposals, Pending
<1>10. CatalogTables'
  BY <1>1, <1>2, <1>3 DEF IInv, KnowledgeInv, CatalogTables, CatalogTypeOK
<1> QED
  BY <1>1, <1>7, <1>8, <1>9, <1>10 DEF KnowledgeInv

LEMMA ValidateRuleStep ==
  ASSUME IInv, NEW c \in Ctx, NEW v \in DOMAIN version, NEW until \in Nat, ValidateRule(c, v, until)
  PROVE  KnowledgeInv'
<1> DEFINE S == {until} \cup SourceDeadlines(c, v)
           row == [version |-> v, at |-> now, until |-> Min(S)]
<1>1. /\ Live(c, v) /\ Len(validation) < MaxValidations /\ validation' = Append(validation, row)
      /\ UNCHANGED <<version, decision, feedback, subject, lastMatch>>
  BY DEF ValidateRule
<1>2. S \subseteq Nat /\ S # {}
  <2> SUFFICES ASSUME NEW i \in version[v].sources
               PROVE  record[i].expires \in Nat /\ prep[c][record[i].prep].until \in Nat
    BY DEF SourceDeadlines
  <2>1. Served(c, i, FALSE) /\ i \in Id
    BY <1>1 DEF Live, Sources, Rows
  <2>2. PICK reviewed : Served(c, i, reviewed)
    BY <2>1
  <2>3. record[i] \in RecordRow /\ prep[c][record[i].prep] \in PreparationRow
    BY <2>1, <2>2, ServedFacts DEF IInv
  <2> QED
    BY <2>3 DEF RecordRow, PreparationRow
<1>3. Min(S) \in Nat
  BY <1>2, MinFacts
<1>4. row \in ValidationRow
  <2>1. now \in Time /\ v \in Version
    BY CatalogDomains, ObservationAssumption DEF IInv, KnowledgeInv, ObservationInv, World, Time
  <2> HIDE DEF S
  <2> QED
    BY <1>3, <2>1 DEF ValidationRow
<1> HIDE DEF row
<1>5. validation \in Seq(ValidationRow) /\ MaxValidations \in Nat
  BY KnowledgeAssumption DEF IInv, KnowledgeInv, CatalogTables, CatalogTypeOK
<1>6. validation' \in Seq(ValidationRow) /\ Len(validation') <= MaxValidations
  BY <1>1, <1>4, <1>5
<1> QED
  BY <1>1, <1>6 DEF IInv, KnowledgeInv, CatalogTables, CatalogTypeOK

LEMMA LiveIsClear ==
  ASSUME KnowledgeInv, NEW c \in Ctx, NEW v \in DOMAIN version, Live(c, v)
  PROVE  Clear(version, decision, v)
<1>1. v \notin Disabled(decision) /\ LineageEligible(c, v, Disabled(decision)) /\ Lines(version)
  BY DEF Live, KnowledgeInv
<1>2. LineOf(version, v) \cap Disabled(decision) = {}
  BY <1>1, EligibleLine
<1>3. LineOf(version, v) \subseteq DOMAIN version
  BY <1>1, LineFacts
<1> QED
  BY <1>2, <1>3 DEF Clear, Disabled

LEMMA SubmitFeedbackStep ==
  ASSUME KnowledgeInv, NEW c \in Ctx, NEW f \in FeedbackRow, SubmitFeedback(c, f)
  PROVE  KnowledgeInv'
<1> DEFINE fs == Append(feedback, f)
<1>1. feedback' = fs /\ Reviewable(c, f) /\ UNCHANGED <<version, decision, validation, subject, lastMatch>>
  BY DEF SubmitFeedback
<1>2. /\ f.version \in DOMAIN version /\ version[f.version].ctx = c /\ Clear(version, decision, f.version)
      /\ f.correction # 0 =>
           /\ f.correction \in DOMAIN version /\ version[f.correction].ctx = c
           /\ Clear(version, decision, f.correction)
  BY <1>1, LiveIsClear DEF Reviewable, Own, Exists
<1>3. feedback \in Seq(FeedbackRow)
  BY DEF KnowledgeInv, CatalogTables, CatalogTypeOK
<1>4. fs \in Seq(FeedbackRow) /\ \A g \in DOMAIN fs : fs[g] = f \/ (g \in DOMAIN feedback /\ fs[g] = feedback[g])
  BY <1>3
<1> HIDE DEF fs
<1>5. Proposals(version, fs)
  BY <1>2, <1>4 DEF KnowledgeInv, Proposals
<1>6. Pending(version, decision, fs)
  BY <1>2, <1>4 DEF KnowledgeInv, Pending
<1> QED
  BY <1>1, <1>4, <1>5, <1>6 DEF KnowledgeInv, CatalogTables, CatalogTypeOK

LEMMA ReviewFeedbackStep ==
  ASSUME KnowledgeInv, NEW c \in Ctx, NEW f \in DOMAIN feedback, NEW verdict \in {"accept", "reject"},
         ReviewFeedback(c, f, verdict)
  PROVE  KnowledgeInv'
<1> DEFINE row == feedback[f]
           fs == [feedback EXCEPT ![f].status = verdict]
           d == [action |-> "disable", from |-> 0, until |-> 0, validation |-> 0, review |-> 0, reuse |-> 0]
<1>1. feedback \in Seq(FeedbackRow) /\ row \in FeedbackRow
  BY DEF KnowledgeInv, CatalogTables, CatalogTypeOK
<1>2. /\ UNCHANGED <<version, validation, subject, lastMatch>>
      /\ \/ Decided(c, row.version, d, fs)
         \/ feedback' = fs /\ decision' = decision
  BY DEF ReviewFeedback
<1>3. [row EXCEPT !.status = verdict] \in FeedbackRow
  <2> HIDE DEF row
  <2> QED
    BY <1>1 DEF FeedbackRow
<1>4. fs = [feedback EXCEPT ![f] = [row EXCEPT !.status = verdict]]
  BY <1>1
<1>5. fs \in Seq(FeedbackRow) /\ DOMAIN fs = DOMAIN feedback
  BY <1>1, <1>3, <1>4
<1>6. \A g \in DOMAIN feedback :
        /\ fs[g].version = feedback[g].version /\ fs[g].correction = feedback[g].correction
        /\ fs[g].status = "pending" => feedback[g].status = "pending"
  <2>1. \A g \in DOMAIN feedback : g # f => fs[g] = feedback[g]
    BY <1>1
  <2>2. fs[f] = [row EXCEPT !.status = verdict]
    BY <1>1, <1>4
  <2> HIDE DEF row, fs
  <2>3. fs[f].version = row.version /\ fs[f].correction = row.correction /\ fs[f].status = verdict
    BY <1>1, <2>2 DEF FeedbackRow
  <2> QED
    BY <2>1, <2>3 DEF row
<1> HIDE DEF fs
<1>7. Proposals(version, fs) /\ Pending(version, decision, fs)
  BY <1>5, <1>6 DEF KnowledgeInv, Proposals, Pending
<1>8. CASE Decided(c, row.version, d, fs)
  <2>1. row.version \in DOMAIN version
    BY DEF KnowledgeInv, Proposals
  <2>2. d \in DecisionRow
    BY KnowledgeAssumption DEF DecisionRow, Kind
  <2> HIDE DEF d, row
  <2> QED
    BY <1>2, <1>5, <1>7, <1>8, <2>1, <2>2, DecidedStep
<1>9. CASE feedback' = fs /\ decision' = decision
  BY <1>2, <1>5, <1>7, <1>9 DEF KnowledgeInv, CatalogTables, CatalogTypeOK
<1> QED
  BY <1>2, <1>8, <1>9

LEMMA RecordSubjectStep ==
  ASSUME KnowledgeInv, NEW c \in Ctx, NEW p \in SubjectRow, RecordSubject(c, p)
  PROVE  KnowledgeInv'
<1>1. subject' = [subject EXCEPT ![c] = Append(subject[c], p)] /\ UNCHANGED <<catalog, lastMatch>>
  BY DEF RecordSubject
<1>2. subject \in [Ctx -> Seq(SubjectRow)]
  BY DEF KnowledgeInv, CatalogTables
<1>3. Append(subject[c], p) \in Seq(SubjectRow)
  BY <1>2
<1>4. subject' \in [Ctx -> Seq(SubjectRow)]
  BY <1>1, <1>2, <1>3
<1> QED
  BY <1>1, <1>4 DEF KnowledgeInv, CatalogTables, CatalogTypeOK, catalog

LEMMA RetrieveStep ==
  ASSUME IInv, NEW c \in Ctx, Retrieve(c)
  PROVE  KnowledgeInv'
<1>1. /\ lastMatch' = [v \in Version |-> IF v \in Matches(c, Last(subject[c])) THEN now ELSE lastMatch[v]]
      /\ UNCHANGED <<catalog, subject>>
  BY DEF Retrieve
<1>2. now \in Nat /\ lastMatch \in [Version -> Nat]
  BY DEF IInv, ObservationInv, World, KnowledgeInv, CatalogTables
<1>3. lastMatch' \in [Version -> Nat]
  BY <1>1, <1>2
<1> QED
  BY <1>1, <1>3 DEF IInv, KnowledgeInv, CatalogTables, CatalogTypeOK, catalog

\* A request about rules leaves the observations alone.
LEMMA KnowledgeRequestStep ==
  ASSUME IInv, NEW c \in Ctx, KnowledgeRequest(c)
  PROVE  KnowledgeInv' /\ UNCHANGED <<vars, lastMatch>>
<1>1. /\ Len(version) \in Nat /\ DOMAIN version = 1 .. Len(version) /\ DOMAIN version \subseteq Version
      /\ DOMAIN validation \subseteq 1 .. MaxValidations /\ 0 .. Len(version) \subseteq 0 .. MaxVersions
  <2>1. CatalogTables /\ Len(version) <= MaxVersions /\ MaxVersions \in Nat
    BY KnowledgeAssumption DEF IInv, KnowledgeInv, CatalogTables
  <2> QED
    BY <2>1, CatalogDomains
<1>2. (IF Open(c) THEN LatestVersion(c) ELSE 0) \in Nat
  <2>1. CASE Open(c)
    <3>1. ctx[c] \in ContextRow
      BY <2>1 DEF Open, IInv, ObservationInv, Database, Tables
    <3>2. ctx[c].versions \in Seq(IntakeVersion)
      BY <3>1 DEF ContextRow
    <3> QED
      BY <2>1, <3>2 DEF LatestVersion
  <2> QED
    BY <2>1
<1>3. CASE \E t \in Target, scope \in {"project", "reusable_synthetic"}, sources \in SUBSET Id,
              supersedes \in 0 .. Len(version), actors \in ActorSets :
             RecordVersion(c, [ctx |-> c, intake |-> IF Open(c) THEN LatestVersion(c) ELSE 0, target |-> t,
                               scope |-> scope, sources |-> sources, supersedes |-> supersedes, actors |-> actors])
  <2> DEFINE n == IF Open(c) THEN LatestVersion(c) ELSE 0
  <2>1. PICK t \in Target, scope \in {"project", "reusable_synthetic"}, sources \in SUBSET Id,
             supersedes \in 0 .. Len(version), actors \in ActorSets :
               RecordVersion(c, [ctx |-> c, intake |-> n, target |-> t, scope |-> scope, sources |-> sources,
                                 supersedes |-> supersedes, actors |-> actors])
    BY <1>3
  <2> DEFINE row == [ctx |-> c, intake |-> n, target |-> t, scope |-> scope, sources |-> sources,
                     supersedes |-> supersedes, actors |-> actors]
  <2>2. n \in Nat /\ supersedes \in 0 .. MaxVersions
    BY <1>1, <1>2, <2>1
  <2> HIDE DEF n
  <2>3. row \in VersionRow
    BY <2>1, <2>2 DEF VersionRow
  <2>4. RecordVersion(c, row)
    BY <2>1
  <2> HIDE DEF row
  <2>5. KnowledgeInv'
    BY <2>3, <2>4, RecordVersionStep
  <2> QED
    BY <2>4, <2>5 DEF RecordVersion
<1>4. CASE \E v \in DOMAIN version : \E d \in DecisionInput(v) : Decide(c, v, d)
  <2>1. PICK v \in DOMAIN version : \E d \in DecisionInput(v) : Decide(c, v, d)
    BY <1>4
  <2>2. PICK d \in DecisionInput(v) : Decide(c, v, d)
    BY <2>1
  <2>3. KnowledgeInv'
    BY <2>2, DecideStep
  <2> QED
    BY <2>2, <2>3 DEF Decide
<1>5. CASE \E v \in DOMAIN version : \E until \in {now + Grace} : ValidateRule(c, v, until)
  <2>1. PICK v \in DOMAIN version : \E until \in {now + Grace} : ValidateRule(c, v, until)
    BY <1>5
  <2>2. PICK until \in {now + Grace} : ValidateRule(c, v, until)
    BY <2>1
  <2>3. until \in Nat
    BY ObservationAssumption DEF IInv, ObservationInv, World
  <2>4. KnowledgeInv'
    BY <2>2, <2>3, ValidateRuleStep
  <2> QED
    BY <2>2, <2>4 DEF ValidateRule
<1>6. CASE \E v \in DOMAIN version :
             \E e \in DOMAIN validation, proposal \in {"promotion", "correction", "disable"}, u \in 0 .. Len(version) :
               SubmitFeedback(c, [version |-> v, validation |-> e, proposal |-> proposal,
                                  correction |-> u, status |-> "pending"])
  <2>1. PICK v \in DOMAIN version :
             \E e \in DOMAIN validation, proposal \in {"promotion", "correction", "disable"}, u \in 0 .. Len(version) :
               SubmitFeedback(c, [version |-> v, validation |-> e, proposal |-> proposal,
                                  correction |-> u, status |-> "pending"])
    BY <1>6
  <2>2. PICK e \in DOMAIN validation, proposal \in {"promotion", "correction", "disable"}, u \in 0 .. Len(version) :
               SubmitFeedback(c, [version |-> v, validation |-> e, proposal |-> proposal,
                                  correction |-> u, status |-> "pending"])
    BY <2>1
  <2> DEFINE f == [version |-> v, validation |-> e, proposal |-> proposal, correction |-> u, status |-> "pending"]
  <2>3. f \in FeedbackRow
    BY <1>1, <2>2 DEF FeedbackRow
  <2>4. SubmitFeedback(c, f)
    BY <2>2
  <2> HIDE DEF f
  <2>5. KnowledgeInv'
    BY <2>3, <2>4, SubmitFeedbackStep DEF IInv
  <2> QED
    BY <2>4, <2>5 DEF SubmitFeedback
<1>7. CASE \E f \in DOMAIN feedback, verdict \in {"accept", "reject"} : ReviewFeedback(c, f, verdict)
  <2>1. PICK f \in DOMAIN feedback, verdict \in {"accept", "reject"} : ReviewFeedback(c, f, verdict)
    BY <1>7
  <2>2. KnowledgeInv'
    BY <2>1, ReviewFeedbackStep DEF IInv
  <2> QED
    BY <2>1, <2>2 DEF ReviewFeedback
<1> QED
  BY <1>3, <1>4, <1>5, <1>6, <1>7 DEF KnowledgeRequest

LEMMA SubjectRequestStep ==
  ASSUME IInv, NEW c \in Ctx, SubjectRequest(c)
  PROVE  KnowledgeInv' /\ UNCHANGED vars /\ (UNCHANGED lastMatch \/ Retrieve(c))
<1> DEFINE n == IF Open(c) THEN LatestVersion(c) ELSE 0
<1>1. n \in Nat
  <2>1. CASE Open(c)
    <3>1. ctx[c] \in ContextRow
      BY <2>1 DEF Open, IInv, ObservationInv, Database, Tables
    <3>2. ctx[c].versions \in Seq(IntakeVersion)
      BY <3>1 DEF ContextRow
    <3> QED
      BY <2>1, <3>2 DEF LatestVersion
  <2> QED
    BY <2>1
<1>2. CASE Retrieve(c)
  BY <1>2, RetrieveStep DEF Retrieve
<1>3. CASE ~Retrieve(c)
  <2>1. PICK t \in Target, sources \in SUBSET Id, identity \in Identity :
          RecordSubject(c, [intake |-> n, target |-> t, sources |-> sources, identity |-> identity])
    BY <1>3 DEF SubjectRequest
  <2> DEFINE p == [intake |-> n, target |-> t, sources |-> sources, identity |-> identity]
  <2> HIDE DEF n
  <2>2. p \in SubjectRow /\ RecordSubject(c, p)
    BY <1>1, <2>1 DEF SubjectRow
  <2> HIDE DEF p
  <2>3. KnowledgeInv'
    BY <2>2, RecordSubjectStep DEF IInv
  <2> QED
    BY <2>2, <2>3 DEF RecordSubject
<1> QED
  BY <1>2, <1>3

LEMMA StepInv ==
  ASSUME IInv, KnowledgeNext \/ UNCHANGED allvars
  PROVE  /\ IInv' /\ (Next \/ UNCHANGED vars)
         /\ UNCHANGED lastMatch \/ \E c \in Ctx : Retrieve(c) /\ UNCHANGED vars
<1>1. CASE \E c \in Ctx : KnowledgeRequest(c) \/ SubjectRequest(c)
  <2>1. /\ KnowledgeInv' /\ UNCHANGED vars
        /\ UNCHANGED lastMatch \/ \E c \in Ctx : Retrieve(c) /\ UNCHANGED vars
    BY <1>1, KnowledgeRequestStep, SubjectRequestStep
  <2>2. ObservationInv'
    BY <2>1, ObservationStep DEF IInv
  <2> QED
    BY <2>1, <2>2 DEF IInv
<1>2. CASE Next /\ UNCHANGED kvars
  <2>1. ObservationInv'
    BY <1>2, ObservationStep DEF IInv
  <2>2. KnowledgeInv' /\ UNCHANGED lastMatch
    BY <1>2 DEF IInv, kvars, catalog, KnowledgeInv, CatalogTables, CatalogTypeOK
  <2> QED
    BY <1>2, <2>1, <2>2 DEF IInv
<1>3. CASE UNCHANGED allvars
  <2>1. UNCHANGED vars /\ UNCHANGED kvars
    BY <1>3 DEF allvars
  <2>2. ObservationInv'
    BY <2>1, ObservationStep DEF IInv
  <2>3. KnowledgeInv' /\ UNCHANGED lastMatch
    BY <2>1 DEF IInv, kvars, catalog, KnowledgeInv, CatalogTables, CatalogTypeOK
  <2> QED
    BY <2>1, <2>2, <2>3 DEF IInv
<1> QED
  BY <1>1, <1>2, <1>3 DEF KnowledgeNext, Next

LEMMA InitInv ==
  Init /\ KnowledgeInit => IInv
<1> SUFFICES ASSUME Init, KnowledgeInit PROVE IInv
  OBVIOUS
<1>1. ObservationInv
  BY ObservationInit
<1>2. CatalogTables
  BY KnowledgeAssumption DEF KnowledgeInit, CatalogTables, CatalogTypeOK
<1>3. DOMAIN version = {} /\ DOMAIN feedback = {}
  BY DEF KnowledgeInit
<1> QED
  BY <1>1, <1>2, <1>3 DEF IInv, KnowledgeInv, Lines, Scopes, Proposals, Pending

-----------------------------------------------------------------------------
(* Theorems                                                                *)

\* The inductive invariant holds of observations and rules together, through
\* backups, restores and restarts.
THEOREM Invariance == KnowledgeSpec => []IInv
<1>1. IInv /\ [KnowledgeNext]_allvars => IInv'
  BY StepInv
<1> QED
  BY <1>1, InitInv, PTL DEF KnowledgeSpec

\* The tables of contexts, observations and rules keep their shapes.
THEOREM TypeCorrectness == KnowledgeSpec => [](TypeOK /\ CatalogTypeOK)
<1>1. IInv => TypeOK
  <2> SUFFICES ASSUME IInv PROVE TypeOK
    OBVIOUS
  <2>1. World /\ Tables(ctx, prep, record, nextId, control, lastRead) /\ deleted \subseteq Id
    BY DEF IInv, ObservationInv, Database, Deletions
  <2> QED
    BY <2>1 DEF TypeOK, World, Tables
<1>2. IInv => CatalogTypeOK
  BY DEF IInv, KnowledgeInv, CatalogTables
<1> QED
  BY <1>1, <1>2, Invariance, PTL

\* No proposal waits for a review that invalidate_pending should have ended:
\* none is about a version with a disabled one in its line.
THEOREM NoneStale == KnowledgeSpec => []NoStalePending
<1>1. IInv => NoStalePending
  BY PendingIsNotStale DEF IInv
<1> QED
  BY <1>1, Invariance, PTL

LEMMA ServedStep ==
  ASSUME IInv, KnowledgeNext \/ UNCHANGED allvars, NEW i \in Id, lastRead'[i] > lastRead[i]
  PROVE  LET row == record'[i] IN
         /\ i \notin deleted /\ row.state = "available" /\ row.payload
         /\ prep'[row.ctx][row.prep].revoked = 0
         /\ {c \in Ctx : ctx'[c] # NoRow /\ ctx'[c].closed = 0
                         /\ prep'[row.ctx][row.prep].target \in ctx'[c].targets} = {row.ctx}
<1>1. ObservationInv /\ (Next \/ UNCHANGED vars)
  BY StepInv DEF IInv
<1>2. PICK c \in Ctx, reviewed \in BOOLEAN : Read(c, i, reviewed)
  BY <1>1, ObservationStep
<1>3. Served(c, i, reviewed) /\ UNCHANGED <<ctx, prep, record>>
  BY <1>2 DEF Read
<1>4. /\ record[i].ctx = c /\ record[i].state = "available" /\ record[i].payload
      /\ i \notin deleted /\ Open(c) /\ prep[c][record[i].prep].revoked = 0
      /\ prep[c][record[i].prep].target \in ctx[c].targets
  BY <1>1, <1>3, ServedFacts
<1> DEFINE t == prep[c][record[i].prep].target
<1>5. \A d \in Ctx : ctx[d] # NoRow /\ ctx[d].closed = 0 /\ t \in ctx[d].targets => d = c
  <2>1. Apart(ctx) /\ ctx[c] # NoRow /\ ctx[c].closed = 0
    BY <1>1, <1>4 DEF ObservationInv, Database, Open
  <2> QED
    BY <1>4, <2>1 DEF Apart
<1>6. {d \in Ctx : ctx[d] # NoRow /\ ctx[d].closed = 0 /\ t \in ctx[d].targets} = {c}
  BY <1>4, <1>5 DEF Open
<1> QED
  BY <1>3, <1>4, <1>6

\* The payload of an observation is given out only while its context is open
\* and owns the target alone, its preparation is not revoked, and nobody
\* deleted it, whatever a restored database has forgotten.
THEOREM ServingIsLive == KnowledgeSpec => ServedIsLive
<1>1. IInv /\ [KnowledgeNext]_allvars =>
        [\A i \in Id : lastRead'[i] > lastRead[i] =>
           LET row == record'[i] IN
           /\ i \notin deleted /\ row.state = "available" /\ row.payload
           /\ prep'[row.ctx][row.prep].revoked = 0
           /\ {c \in Ctx : ctx'[c] # NoRow /\ ctx'[c].closed = 0
                           /\ prep'[row.ctx][row.prep].target \in ctx'[c].targets} = {row.ctx}]_vars
  BY ServedStep
<1> QED
  BY <1>1, Invariance, PTL DEF KnowledgeSpec, ServedIsLive

LEMMA TombstoneStep ==
  ASSUME IInv, KnowledgeNext \/ UNCHANGED allvars,
         NEW i \in Id, record[i] # NoRow, record'[i] = NoRow, trouble' = trouble
  PROVE  now >= lastRead[i] + Keep
<1>1. ObservationInv /\ (Next \/ UNCHANGED vars)
  BY StepInv DEF IInv
<1>2. PICK c \in Ctx : Reconcile(c)
  BY <1>1, ObservationStep DEF Stays
<1>3. record'[i] = IF i \in Rows(c) THEN Purged(Judged(c, i)) ELSE record[i]
  BY <1>2 DEF Reconcile
<1>4. i \in Rows(c) /\ Purged(Judged(c, i)) = NoRow
  BY <1>3
<1> QED
  BY <1>1, <1>4, ReconciledRow, NoRowIsNoRow

\* Reconcile drops a tombstone only when the payload was last readable the
\* whole retention ago, for every interleaving of holds, releases,
\* deletions, quarantines, revocations and closures.
THEOREM TombstonesKept == KnowledgeSpec => TombstoneKept
<1>1. IInv /\ [KnowledgeNext]_allvars =>
        [\A i \in Id : record[i] # NoRow /\ record'[i] = NoRow /\ lastRead[i] # 0 /\ trouble' = trouble =>
           now >= lastRead[i] + Keep]_vars
  BY TombstoneStep
<1> QED
  BY <1>1, Invariance, PTL DEF KnowledgeSpec, TombstoneKept

LEMMA MatchStep ==
  ASSUME IInv, KnowledgeNext \/ UNCHANGED allvars, NEW v \in Version, lastMatch'[v] > lastMatch[v]
  PROVE  /\ \A u \in Line(v) : ~Took(decision[u], {"disable"})
         /\ ~Took(decision[v], {"withdraw"})
         /\ RunChecks(version[v].actors)
         /\ \E e \in DOMAIN validation :
              /\ validation[e].version = v /\ now < validation[e].until
              /\ \E j, k \in DOMAIN decision[v] :
                   /\ j < k /\ decision[v][j].action = "review" /\ decision[v][k].action = "publish"
                   /\ decision[v][j].validation = e /\ decision[v][k].validation = e
         /\ version[v].sources \cap deleted = {}
         /\ \A i \in version[v].sources : record[i].state = "available" /\ record[i].ctx = version[v].ctx
<1>1. lastMatch \in [Version -> Nat] /\ CatalogTables /\ Lines(version) /\ Scopes(version)
  BY DEF IInv, KnowledgeInv, CatalogTables
<1>2. ~(lastMatch[v] > lastMatch[v])
  BY <1>1
<1>3. PICK c \in Ctx : Retrieve(c)
  BY <1>2, StepInv
<1> DEFINE p == Last(subject[c])
<1>4. v \in Matches(c, p)
  <2>1. lastMatch'[v] = IF v \in Matches(c, p) THEN now ELSE lastMatch[v]
    BY <1>3 DEF Retrieve
  <2> QED
    BY <1>2, <2>1
<1> HIDE DEF p
<1>5. /\ v \in Catalog(c) /\ LineageEligible(c, v, Disabled(decision)) /\ Publication(v, decision[v])
      /\ Sources(c, version[v].sources, p.target)
  BY <1>4 DEF Matches
<1>6. v \in DOMAIN version /\ version[v] \in VersionRow
  BY <1>1, <1>5, CatalogDomains DEF Catalog
<1> DEFINE ds == decision[v]
           last == Last(ds)
<1>7. /\ ds # <<>> /\ ~Took(ds, {"withdraw", "disable"})
      /\ last.action = "publish" /\ Qualified(v, last.validation, TRUE)
      /\ Cited(ds, last.review, "review", last.validation)
  BY <1>5 DEF Publication
<1>8. ~Took(ds, {"withdraw"}) /\ ~Took(ds, {"disable"})
  BY <1>7 DEF Took
<1>9. \A u \in Line(v) : ~Took(decision[u], {"disable"})
  <2>1. v \notin Disabled(decision)
    BY <1>8 DEF Disabled
  <2>2. LineOf(version, v) \cap Disabled(decision) = {} /\ LineOf(version, v) \subseteq DOMAIN version
    BY <1>1, <1>5, <1>6, <2>1, EligibleLine, LineFacts
  <2> QED
    BY <2>2, LineIsLineOf DEF Disabled
<1>10. RunChecks(version[v].actors)
  <2>1. Passed[version[v].actors]
    BY <1>7 DEF Qualified
  <2>2. version[v].actors \in ActorSets
    BY <1>6 DEF VersionRow
  <2> QED
    BY <2>1, <2>2 DEF Passed
<1>11. ds \in Seq(DecisionRow) /\ Len(ds) \in DOMAIN ds /\ last = ds[Len(ds)]
  <2>1. ds \in Seq(DecisionRow)
    BY <1>1 DEF CatalogTables
  <2> HIDE DEF ds
  <2> QED
    BY <1>7, <2>1 DEF Last
<1> DEFINE e == last.validation
<1>12. e \in DOMAIN validation /\ validation[e].version = v /\ now < validation[e].until
  BY <1>7 DEF Qualified
<1>13. /\ last.review \in DOMAIN ds /\ last.review < Len(ds) /\ ds[last.review].action = "review"
       /\ ds[last.review].validation = e
  BY <1>7 DEF Cited
<1>14. \A i \in version[v].sources : i \notin deleted /\ record[i].state = "available" /\ record[i].ctx = version[v].ctx
  <2> SUFFICES ASSUME NEW i \in version[v].sources
               PROVE  i \notin deleted /\ record[i].state = "available" /\ record[i].ctx = version[v].ctx
    OBVIOUS
  <2>1. Served(c, i, FALSE) /\ i \in Id
    BY <1>5 DEF Sources, Rows
  <2>2. PICK reviewed : Served(c, i, reviewed)
    BY <2>1
  <2>3. i \notin deleted /\ record[i].state = "available" /\ record[i].ctx = c
    BY <2>1, <2>2, ServedFacts DEF IInv
  <2>4. version[v].ctx = c
    BY <1>1, <1>5, <1>6 DEF Catalog, Scopes
  <2> QED
    BY <2>3, <2>4
<1>15. \E x \in DOMAIN validation :
         /\ validation[x].version = v /\ now < validation[x].until
         /\ \E j, k \in DOMAIN decision[v] :
              /\ j < k /\ decision[v][j].action = "review" /\ decision[v][k].action = "publish"
              /\ decision[v][j].validation = x /\ decision[v][k].validation = x
  BY <1>7, <1>11, <1>12, <1>13
<1> HIDE DEF e, last, ds
<1> QED
  BY <1>8, <1>9, <1>10, <1>14, <1>15 DEF ds

\* A rule is given out as a match only while nothing in its line is disabled
\* and it is not withdrawn, on current evidence that it passes and that its
\* review and its publication both cite, and with every observation that it
\* cites still available in its own context.
THEOREM MatchesOnEvidence == KnowledgeSpec => MatchOnEvidence
<1>1. IInv /\ [KnowledgeNext]_allvars =>
        [\A v \in Version : lastMatch'[v] > lastMatch[v] =>
           /\ \A u \in Line(v) : ~Took(decision[u], {"disable"})
           /\ ~Took(decision[v], {"withdraw"})
           /\ RunChecks(version[v].actors)
           /\ \E e \in DOMAIN validation :
                /\ validation[e].version = v /\ now < validation[e].until
                /\ \E j, k \in DOMAIN decision[v] :
                     /\ j < k /\ decision[v][j].action = "review" /\ decision[v][k].action = "publish"
                     /\ decision[v][j].validation = e /\ decision[v][k].validation = e
           /\ version[v].sources \cap deleted = {}
           /\ \A i \in version[v].sources : record[i].state = "available" /\ record[i].ctx = version[v].ctx]_allvars
  <2> SUFFICES ASSUME IInv, [KnowledgeNext]_allvars, NEW v \in Version, lastMatch'[v] > lastMatch[v]
               PROVE  /\ \A u \in Line(v) : ~Took(decision[u], {"disable"})
                      /\ ~Took(decision[v], {"withdraw"})
                      /\ RunChecks(version[v].actors)
                      /\ \E e \in DOMAIN validation :
                           /\ validation[e].version = v /\ now < validation[e].until
                           /\ \E j, k \in DOMAIN decision[v] :
                                /\ j < k /\ decision[v][j].action = "review" /\ decision[v][k].action = "publish"
                                /\ decision[v][j].validation = e /\ decision[v][k].validation = e
                      /\ version[v].sources \cap deleted = {}
                      /\ \A i \in version[v].sources :
                           record[i].state = "available" /\ record[i].ctx = version[v].ctx
    OBVIOUS
  <2> QED
    BY MatchStep
<1> QED
  BY <1>1, Invariance, PTL DEF KnowledgeSpec, MatchOnEvidence
=============================================================================
