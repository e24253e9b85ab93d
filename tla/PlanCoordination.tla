-------------------------- MODULE PlanCoordination --------------------------
(***************************************************************************)
(* The PostgreSQL rows that coordinate the execution of one ExecutionPlan, *)
(* and the SQL statements that read and write them: the claim (owner,      *)
(* fencing generation, lease), the progress row that records whether the   *)
(* network boundary may have been crossed, the cancellation row and the    *)
(* canonical TestRun.                                                      *)
(*                                                                         *)
(* Every statement runs in a transaction that locks the rows it depends on *)
(* (FOR UPDATE, or the row lock of INSERT ... ON CONFLICT and UPDATE), so  *)
(* each is one atomic step.  Database time is abstracted to the one thing  *)
(* the statements ask of it: whether the lease has passed                  *)
(* (lease_expires_at > clock_timestamp()).                                 *)
(***************************************************************************)
EXTENDS Naturals

CONSTANTS
  Worker,         \* the execute() calls; each has an owner id of its own
  NoOwner,        \* SQL NULL in the owner_id column
  MaxGeneration   \* bound on the fencing generations a behaviour issues

ASSUME CoordinationAssumption ==
  /\ NoOwner \notin Worker
  /\ MaxGeneration \in Nat \ {0}

VARIABLES
  claim,      \* execution_plan_claims: generation 0 stands for "no row"
  progress,   \* execution_plan_progress: phase "no_record" for "no row"
  cancelled,  \* is there an execution_plan_cancellations row?
  testRun     \* the test_runs row of this plan (execution_plan_id is unique)

rowVars == <<claim, progress, cancelled, testRun>>

Generation == 0 .. MaxGeneration
Phase == {"no_record", "pre_network", "network_started"}
Outcome == {"succeeded", "failed"}

Claim == [owner : Worker \cup {NoOwner}, generation : Generation, live : BOOLEAN]
Progress == [phase : Phase, generation : Generation]

NoRun == [generation |-> 0, outcome |-> "none"]
Run == [generation : Generation, outcome : Outcome] \cup {NoRun}

RowsTypeOK ==
  /\ claim \in Claim
  /\ progress \in Progress
  /\ cancelled \in BOOLEAN
  /\ testRun \in Run

RowsInit ==
  /\ claim = [owner |-> NoOwner, generation |-> 0, live |-> FALSE]
  /\ progress = [phase |-> "no_record", generation |-> 0]
  /\ cancelled = FALSE
  /\ testRun = NoRun

-----------------------------------------------------------------------------
(* ExecutionPlanClaimService                                               *)

\* The WHERE of acquire's ON CONFLICT ... DO UPDATE; a missing row is
\* inserted, and has no owner here.
Acquirable == claim.owner = NoOwner \/ ~claim.live

\* The row acquire writes: a first row has generation 1, a takeover adds 1.
AcquiredBy(w) == [owner |-> w, generation |-> claim.generation + 1, live |-> TRUE]

\* The condition that assert_current, renew, prepare_attempt and
\* mark_network_started put on the claim row.
Current(w, g) == claim.owner = w /\ claim.generation = g /\ claim.live

\* The WHERE of release: the lease may have expired already.
Releasable(w, g) == claim.owner = w /\ claim.generation = g

ReleasedClaim == [claim EXCEPT !.owner = NoOwner, !.live = FALSE]

\* clock_timestamp() passes lease_expires_at.
LeaseExpires ==
  /\ claim.live
  /\ claim' = [claim EXCEPT !.live = FALSE]
  /\ UNCHANGED <<progress, cancelled, testRun>>

-----------------------------------------------------------------------------
(* ExecutionPlanProgressService                                            *)

\* Mutant of Preparation: ON CONFLICT without its WHERE on the phase.
PreparationReopens(w, g) == IF Current(w, g) THEN "prepared" ELSE "lost"

\* The classification prepare_attempt's single statement returns.
Preparation(w, g) ==
  IF ~Current(w, g) THEN "lost"
  ELSE IF \/ progress.phase = "no_record"
          \/ progress.phase = "pre_network" /\ progress.generation <= g
       THEN "prepared"
  ELSE IF progress.phase = "network_started" THEN "in_doubt"
  ELSE "lost"

PreparedProgress(g) == [phase |-> "pre_network", generation |-> g]

\* Mutant of MayStartNetwork: the cancellation is not read under the lock.
MayStartCancelled(w, g) == Current(w, g) /\ progress = PreparedProgress(g)

\* What mark_network_started requires after it has locked the plan row: the
\* claim is current, there is no cancellation, and the progress row is this
\* generation's and still before the network.
MayStartNetwork(w, g) ==
  /\ Current(w, g)
  /\ ~cancelled
  /\ progress = PreparedProgress(g)

StartedProgress == [progress EXCEPT !.phase = "network_started"]

-----------------------------------------------------------------------------
(* ExecutionPlanCancellationService                                        *)

\* request_cancel, under the lock of the plan row, which
\* mark_network_started takes as well.  A plan with a result, or whose
\* network boundary may have been crossed, is refused and nothing changes;
\* a repeated request finds its row and changes nothing.
RequestCancel ==
  /\ ~cancelled
  /\ testRun = NoRun
  /\ progress.phase # "network_started"
  /\ cancelled' = TRUE
  /\ UNCHANGED <<claim, progress, testRun>>
=============================================================================
