# Verification of the AI API security testing platform

TLA+ models of the parts of the platform that coordinate work and keep evidence: who may send the
one request of a plan, at what rate and under which network controls; how the budgets and the broker
of the research calls account for what may have been used; who is authorized, and on which evidence;
and how research and testing get from observations and cases to rules, pairs, findings and reports.
Every definition is translated from the code under `backend/app/`; `PROJECT.json` maps each to its
lines.

## 1. The system

A FastAPI backend with one trusted operator tests APIs for broken object level authorization.
Everything it coordinates is in PostgreSQL: several worker processes may run the same plan, and
any of them may die, pause past a lease or lose the answer of a commit.

| Part | State | Operations | Hard behaviour | What makes it correct |
|---|---|---|---|---|
| Plan claim (`execution_plan_claim.py`) | owner, fencing generation, lease | acquire, assert_current, renew, release | takeover of a paused owner, lost answers | a generation has one owner; generations only grow |
| Plan progress (`execution_plan_progress.py`) | phase, generation | prepare_attempt, mark_network_started | crash on either side of the request | the boundary is crossed once and never back |
| Plan cancellation (`execution_plan_cancellation.py`) | a row | request_cancel, state | race with the marker | cancelled or crossed, never both |
| Plan execution (`plan_execution.py`, `executors/http.py`) | test run, case status, audit rows | execute and its cleanups | all of the above, revoked authorization, lost commits | one request, one canonical result, a true audit |
| Rate limiters (`executors/rate_limit.py`) | next slot per key | reserve_delay, wait | concurrent upserts, retries, late sleepers | spacing of slots, average rate |
| Network controls (`network_safety/`) | switches, limit, advisory locks | admission, request, set_* | deadlines, lost sessions, changes under way | no leak, switches stop, limit holds |
| W3 broker (`ai/w3/broker/`) | journal J, witness W, process memory | bind, prepare, authorize, write, receive, close, invalidate, disposition, snapshot | partial appends, restarts on old journals | one witnessed write, no fork, liability floor |
| W2 ledger (`ai/w2/accounting.py`, `w1_bridge.py`, `recovery.py`, `fake_authority.py`) | balances, reservations, admissions, observations | reserve, admit, mark, reconcile, recover, cancel, inventory, resume | evidence that grows or contradicts itself at any moment, replaced owners | conservation, caps, doubt freezes, decisions used once |
| W2 writer barrier (`guard.py`, `lifecycle.py`) | G lock, fence, gate | mutation, invalidate, resolve, reopen | unknown commits, lost lock sessions | no send across an unresolved writer |
| Authorization, targets, enrollment | revisions, rules, candidates, decisions | create, transition, enroll | stale provenance, two active revisions | one active revision; an origin has one enrolled Target |
| Research contexts and observations (`research_context.py`, `research_observation.py`) | contexts, preparations, observations with payloads and tombstones, recovery token | prepare, accept, read, hold, delete, quarantine, purge, close, maintain | a database restored to an older state, holds against expiry | only live payloads are served; tombstones outlive the last read |
| Research knowledge (`research_knowledge.py`, `research_rule_*.py`) | rule versions, decisions, validations, proposals | record, validate, review, publish, disable, match, feedback | sources and replaced versions that go away after publication | a match rests on current evidence; no proposal waits on a disabled line |
| Research intents and verification (`research_intent.py`, `research_verification*.py`) | manifests, budget decisions, intents, plans, attempts, witnesses, pairs, faults | record, decide, convert, approve, dispatch, verify_pair | lost permits, waits between check and send, a wall clock set back | one request per slot, under terms that stand; expiry is final; a pair is evidence |
| Research tasks (`research_task.py`) | versions, events, allocations | create_version, decide_budget, transition, inspect | stale operators, two tasks for one plan | what was approved stays held; what was withdrawn stays so |
| Inventory, cases, direct execution (`test_execution.py`, `generators/bola.py`) | identities, resources, endpoints, case status, runs | import, generate, execute | two executions and a plan on one case | one execution in flight |
| Bindings and access assertions (`endpoint_resource_bindings.py`, `resource_access_*.py`) | bindings, assertions with instants | bind, infer, review, assert, observe, resolve, preview | inference against the operator, commits after their instant | inference yields; the past settles; previews are vouched for |
| Findings and reports (`finding_analysis.py`, `routes/findings.py`, `security_report.py`) | findings, evidence, advice, reports | analyse, review, advise, report | all at once on one finding | evidence of one pair; reports of confirmed findings; terminal reviews stay (they do not: section 3) |
| Parsers, adapter, sandbox | none of their own | pure functions, I/O | input size | |

Plan execution calls the limiter, then the gateway, which takes a permit; the audit row is written
between the policy decision and the marker. The W2 runtime reserves in the ledger, registers the
call with the producer, admits, marks and sends; a reconciliation reads the producer's observations
and settles. Recovery and writers share the G lock and the producer's gate.

`PROJECT.json` lists every part with its status, and every hazard at its line with the properties
that cover it.

## 2. Modules

| Module | Models | Extends / uses |
|---|---|---|
| `PlanCoordination` | the rows of one plan and the SQL statements on them | |
| `PlanExecution` | `PlanExecutionService.execute`, one worker per call | extends `PlanCoordination`; refines `PlanLifecycle` |
| `PlanLifecycle` | what a plan promises: open, then cancelled or crossed, one request, one outcome | |
| `RateReservation` | both rate limiters for one key | |
| `NetworkAdmission` | both network controllers and the gateway's request | |
| `Broker` | the broker process of one call, J and W | |
| `BudgetLedger` | the ledger, the call runtime, the producer and recovery | |
| `Authorization` | profiles, revisions, the enrollment chain, Targets, the load and the policy's decision | |
| `Verification` | manifests, intents, dispatch, witnesses and pairs of one context | |
| `ResearchTask` | the tasks of one context | |
| `Observation` | contexts and observations | |
| `RuleChecks` | the rule engine and the written outcomes of its cases: pure operators | |
| `Knowledge` | the catalog of rules, over the observations it cites | extends `Observation`, `RuleChecks` |
| `TestCases` | inventory of a Target, generated cases, direct execution | |
| `AccessFacts` | bindings, assertions, resolution, preview | extends `TestCases` |
| `Findings` | analysis, advice, review, reports, over the runs of the cases | extends `TestCases` |
| `BrokerProofs`, `BudgetLedgerProofs`, `AuthorizationProofs`, `VerificationProofs`, `ResearchTaskProofs`, `KnowledgeProofs` | theorems about a module and their proofs (section 4) | each extends its module |
| `GatewayProofs` | theorems about what stands between a request and the network | extends `NetworkAdmission`, `RateReservation` |
| `PipelineProofs` | theorems about `TestCases`, `AccessFacts` and `Findings` at work on one database (`PipelineSpec`), and about the execution of a planned case | extends `AccessFacts`, `Findings`, `PlanExecution` |
| `MC*` | instances for TLC: symmetry sets, initial databases, the finals of the producer, state constraints; `MCPipeline` composes `AccessFacts` and `Findings` | extends its modules |

How state and actions correspond to the code:

* **PlanExecution.** `pc[w]` is the next transaction or external call of a call of `execute`;
  each SQL statement is one step because it runs under the row locks it needs. Each retry loop has
  three outcomes per attempt: done, failed, done with a lost answer. `Die` is a process that stops
  anywhere. The lease clock is `claim.live`, which may turn false at any time. Safety checks are a
  verdict of `auth`, which the environment changes at any time.
* **RateReservation.** The upsert and its commit are two steps under the row lock; the delay is
  computed in the statement and slept later, from an explicit clock `now`.
* **NetworkAdmission.** A permit is an advisory lock on a slot. An invalidated session keeps its
  lock (`Orphan`) until the server ends it. The server may also end the session of a call that is
  running (`SessionLost`): the code holds an idle session over the request and notices the loss only
  at the unlock, so another call may have the slot meanwhile. `enabledSince` (was the network
  enabled since this call's resolution?) and `granted` (the limit the call was admitted under, 0 when
  its session is gone) are history variables.
* **Broker.** Sections under the lock A are steps; the write is three (intent, bytes, record). An
  append may stop after J, after W, or lose its answer. `Restart` reads J again, `RollBackJournal`
  puts an older J back.
* **BudgetLedger.** A database transaction is a step; a working copy of the locked rows is folded
  over the observations exactly as the loop does, pauses and overwrites included. A reconciliation
  is read, transaction, check after the commit; the producer may change between them and, inside
  the transaction, before any final. Tokens and microdollars are one amount. `used`, `open` and
  `prefix` are the decisions, unresolved conflicts and retired observations that the event table
  encodes.

* **Authorization.** A transaction that locks its rows before it reads is a step. Three operations
  are several: a DNS validation (two transactions around the resolution), an enrollment (its locks
  are held from `BeginEnrollment` to its commit, and disable whatever would wait for them), and the
  load of an execution's authorization (Target, revision, scopes and policy). Whether the Target is
  enabled is free in each evaluation, since nothing here depends on it. A retry that finds its own
  Target changes nothing and is no step. `ended` is a history variable: the revisions that had
  ended when a load began.

* **Verification.** An operation under the context's lock is a step. A dispatch is several: the
  session permit, validation, the marker, the transaction at the boundary inside the gateway (the
  plan's row lock, the checks, the attempt and the send), the response or its absence
  (`Complete`, `NoResponse`), the last validation in a session of its own (`Revalidate`), and the
  witness with the run (`Persist`), which looks at the clocks again and at nothing else, and is rolled
  back when the dispatch's own clock has run out (`PersistTooLate`). Two clocks run: `wall`,
  which can be set back, and `mono`. An operation that meets an ending records a fault in a
  transaction of its own, whatever becomes of the operation. Snapshots pin the versions of the
  credential, the hold and the mapping. A hold or a rotation between the last validation and the
  witness leaves a qualified witness of a disturbed intent; `EndingIsFinal` says what protects from it:
  no request, pair, health selection or conversion relies on such an intent. Permission and credential
  change at any time, to anything their routes can make of them.
* **ResearchTask.** An operator's view is a variable: commands name the version and the number of
  events the operator last saw. A changed permission may return to a digest it had before.
* **Observation, Knowledge.** `boot` is the process's token, `control` the token a context was
  reconciled under; a backup can be taken and restored. After a restore the operator's list names
  every deletion, as the documented procedure requires: an assumption on the operator, since the
  request's default is an empty list. A preparation may end at any instant of its allowed window. `deleted`, `lastRead` and `lastMatch` are
  history variables. The engine of `RuleChecks` is a pure operator: validation evaluates it on the
  fourteen written cases.
* **TestCases, AccessFacts, Findings.** The direct execution reads, claims by a conditional update,
  sends and stores in separate steps; plan executions, several of one case at once if they are of
  different plans, are a second writer of the status. A transaction of facts is its start, whose
  instant is stamped on its rows, and its commit; a review of an assertion reads its candidate in
  between, so it may be stamped before it. A path is named by a parameter of the imported document or
  by the endpoint's own path (`Template`), and each check asks for the one the code asks for. An
  identity is active once it exists, as nothing deactivates one. A review of a finding is a read and
  a write, as in the route; only the report holds the row lock between the two.

Definitions whose comment starts with "Mutant of" are deliberately wrong variants. They are used in
no specification; `PROJECT.json` pairs each with the property that detects it.

## 3. Runs

| Run | Bounds | Shows |
|---|---|---|
| `plan_execution_safety` | 2 calls, 2 generations, 2 tries per loop | one request, cancellation excludes it, true results and audit, and refinement of `PlanLifecycle` |
| `plan_execution_live` | 2 calls, 1 generation | every call ends |
| `rate_reservation` | 2 callers, 3 reservations, intervals 1 and 3 against a platform interval of 2, time to 7, both limiters | spacing of slots, no early request, average rate |
| `network_admission` | 2 calls, 1 target, 2 slots, both controllers | switches stop, permits stay within a limit, draining, slots come back, with sessions that end under running calls |
| `broker` | 1 call, 2 lives, 1 restored journal, 2 operations of which the broker remembers 1 | one witnessed write, one history, barriers, liability |
| `budget_ledger` | 2 calls in 1 account, 2 tasks, 5 kinds of finals, 2 reports, 1 recovery; `Regimes` below | conservation, caps, doubt freezes, revisions need a fresh decision |
| `authorization` | 2 profiles, 2 revisions, 2 Targets (at most 1 by hand), 2 decisions, 2 validations, 1 host, 1 pattern, 1 origin, 1 execution; `Apart` below | ended revisions never authorize, provenance, one owner of an origin, only active revisions enroll |
| `verification` | 2 manifests, 2 intents, 2 dispatchers, 3 actions, time to 2, manifests that live for 2, the clock set back by 1, 1 disturbance | one request per slot, terms stand at the send, nothing relies on what has ended, pairs are evidence |
| `research_task` | 2 operators, 2 tasks, 2 plans, 2 versions, 4 events, 1 disturbance, the clock set back by 1 | liability stays covered, withdrawals and expiries stay |
| `knowledge` | 2 contexts, 2 targets, 2 observations, 2 rule versions, 5 decisions, time to 5; `Bound` below | served payloads are live, tombstones kept, no stale proposals, matches on evidence |
| `pipeline` | 1 resource, 1 endpoint, 3 identities, 2 of every concurrent request, 3 runs; `Bounded` below | the six properties of cases, facts and findings |
| `review_terminal` | as `pipeline` | violation expected: see below |

`review_terminal` shows a divergence. The product contract
(`docs/research-assistant-product-contract.md:143`) says that a terminal review is not reopened, and
the route's table of transitions says so for a request that runs alone. But the route reads the
finding without a lock, checks the transition in memory and updates the row by its id: of two
reviewers who read a finding in review, the later replaces the other's terminal status.

The type invariant of each module is stated for its proofs; no run lists it, since the properties
above say more.

Why the bounds are enough for the cases that matter. Two calls and two generations give a paused
owner and the one that replaces it; the theorems below remove these bounds. Three reservations give
a gap on both sides of a slot and one spent slot of a lost answer. Two slots and two calls give a
full pool when the limit is lowered to one. Two lives of the broker are one restart on a restored
journal; the second operation is refused because only one is remembered. In the ledger the amounts
are chosen against each other: a reservation is 2, caps are 4, a final is 1 or 4, so one call
refunds, one overruns, and the overrun together with the other's reservation exceeds the account.
Two profiles with a revision each, and two decisions, let two enrollments hold different row locks
and meet at the origin; two revisions of one profile supersede each other. One recovery of a call is a decision, its reuse, and contradictions that arrive before and after it.

Two dispatchers are one that lost its permit and one that took it; two intents of one manifest
compete for a slot; the disturbance is any one of a rotation, a hold, a revocation, a cancellation, a
task's binding or a lost permit, at any step, the one between the last validation and the witness
included; a manifest that lives for 2 can run out at just that step. Two operators with views of two tasks meet each other's
versions and withdrawals. Time 5 is acceptance, a hold, its end, the grace and the tombstone's end.

Four runs restrict their product of independent parts by a state constraint, each part whole:

* `Regimes` (`budget_ledger`): one call with its recovery and a producer that contradicts itself or
  loses its coverage, or two calls that compete with one report between them.
* `Apart` (`authorization`): executions with revisions and scopes on one Target, or the enrollment
  chain without executions.
* `Bound` (`knowledge`): the observations of one context (and of a second that takes its target over)
  from an empty database, or the catalog over two contexts that have an observation each. A
  preparation shorter than its window is explored without holds, backups and a second disturbance.
* `Bounded` (`pipeline`): cases, bindings, assertions or findings, each from a database in which the
  part has its inputs.

`research_task` leaves out a permission that changes its terms while it does not stand, since nobody
reads them then.

`CHECK_DEADLOCK FALSE` is set where the bounds themselves stop the model (the clock, the
reservations, the epochs, the reports, the rows of each table); the plan and network runs check deadlock.

Fairness is used in two runs only. `plan_execution_live`: weak fairness of a call's own next step,
because a call is a thread that runs until it returns; nothing is assumed of locks, because every
statement has a timeout and counts as a failed attempt. `network_admission`: weak fairness of a
call's own steps, of its deadline, which is a clock, and of the server ending a session whose client
is gone. No fairness is assumed of operators, switches or other processes.

## 4. Proofs

Eight modules hold theorems. Each proves its results for every value of the constants, from the
named assumption of the module it is about and nothing else. Every specification has a theorem
`Invariance` (`RateInvariance`, `PlanInvariance` where a module is about two specifications), that its
inductive invariant `IInv` (`RateInv`, `PlanInv`) holds in every reachable state; the properties follow
from it.
The assumptions say that bounds are numbers, that functions have their types and that
"none" is no row; calls of the ledger are finitely many. `LedgerAssumption` adds that a reservation is not
zero (the code refuses one), that a call starts in generation 1, and that caps fit the column.
`TaskAssumption` adds that a task may have a version, and `ObservationAssumption` that the clock may
show a time.

| Module | Theorems | What they say, with no bound on the instance |
|---|---|---|
| `PipelineProofs`, of `PlanExecution` | `PlanTypes`, `RequestOnce`, `CancellationExcludesNetwork`, `ResultProvenance`, `AuditIsTrue`, `BoundaryFinality`, `Refinement` | every property of `plan_execution_safety`, and that `PlanExecution` implements `PlanLifecycle` |
| `PipelineProofs`, of `PipelineSpec` | `ClaimExcludes`, `EvidenceStands`, `ReportsAreConfirmed`, `PreviewsVouched`, `PastIsSettled`, `InferencesYield` | every property of `pipeline` |
| `GatewayProofs`, of `NetworkAdmission` | `SwitchesStop`, `PermitsHeld`, `LimitKept` | a call connects only if the network was on after its resolution; an admitted call holds its slot unless the server has ended its session; the calls that hold one are never more than a limit one of them was admitted under |
| `GatewayProofs`, of `RateReservation` | `RateTypes`, `RateKept` | spacing, no early request and the average rate, for both limiters |
| `BrokerProofs` | `WrittenOnce`, `NeverForks`, `InvalidationFences`, `SnapshotsCover` | all four invariants of `broker`, for any number of lives and restored journals |
| `BudgetLedgerProofs` | `TypeCorrectness`, `MoneyConserved`, `ActiveScopesWithinCap`, `DoubtFreezes`, `RevisionsByDecision` | all four properties of `budget_ledger` |
| `AuthorizationProofs` | `TypeCorrectness` (with one active revision per profile), `TargetsHaveProvenance`, `OriginsHaveOneOwner`, `EndedRevisionsNeverAllow`, `RecordedWhileActive` | all four properties of `authorization` |
| `VerificationProofs` | `TypeCorrectness`, `SlotSentOnce`, `TermsAtSend`, `EndedStaysEnded`, `AccusationsStand` | all four properties of `verification` |
| `ResearchTaskProofs` | `TypeCorrectness`, `LiabilityHeld`, `WithdrawalsStay`, `ExpiriesStay` | all three properties of `research_task` |
| `KnowledgeProofs` | `TypeCorrectness`, `NoneStale`, `ServingIsLive`, `TombstonesKept`, `MatchesOnEvidence` | all four properties of `knowledge` |

Why each property needs more than itself:

* **Plan execution.** Leases expire, so two workers may be between acquire and release at once, and
  mutual exclusion, the obvious invariant, is false. `IInv` says instead that handles are distinct
  generations issued by the claim row (`HandleInv`); that a worker at or past the request is the
  generation in the progress row, with nothing cancelled and no result yet (`BoundaryInv`); that a
  worker about to cross has its allow record and a blocked generation no longer works (`AuditInv`);
  and that workers before the boundary or ending as blocked are not the sender (`UnsentInv`).
  `RowSteps` adds what any step does to the two rows that record the crossing, from which
  `BoundaryFinality` and the refinement follow.
* **Network admission.** A switch may change after it was read. `SwitchInv` ties each place between
  the resolution and the connection to what has been seen enabled since; `SlotInv` says that a call
  knows its slot from the lock to its release, has been granted a limit only with a slot within it,
  and holds the lock as long as it counts as granted; `NoPermitLeak` that no lock is held in the name
  of a call that does not know of it. `LimitKept` counts: the calls granted hold different slots, none
  beyond the largest of their limits. Calls whose session the server has ended are on top of that:
  neither the code nor the model bounds them.
* **Rate.** The spacing of the slots is not enough for the average, because a lost answer spends a
  slot that no request uses. `PendingInv` gives each waiting caller the slot it was granted,
  `AttemptInv` and `LockInv` the statement under way, `MarkInv` the row's mark, and `SentInv` counts: each
  request sent has spent a slot of its own.
* **Broker.** After a restart the memory is rebuilt from the journal, which may be an old copy.
  `JournalInv` says that the journal is a prefix of the witness or one event ahead of it, with
  the same events as far as both go; `MemoryInv`, `EventsInv` and `OpsInv` that the process's memory
  (permits, intents, invalidations and what became of them) says what its events say, and the other
  way round; `Readable(w)` that a start can read the witness. Events are appended only where
  journal, memory and witness agree, which is why neither side forks.
* **Ledger.** A transaction changes a working copy of the call's row and of its two balances, in
  loops over the observations. `Core` is what every change of the copy keeps (row and balances change
  by the same amounts), `Calm` what holds again when the copy is stored (a scope that goes on is
  within its cap, one with a doubtful call has stopped); both are kept by each reaction, then by each
  turn of a loop, then by the loop. `HoldInv` says a call never settled holds its reservation;
  `FreezeInv` that doubt stops both scopes; `EvidenceInv` that evidence is of a reserved call. The
  loops and the sums over calls are recursive functions. Their induction is taken from the
  well-founded order of the naturals with the set of failing turns as its argument (`NatSets`,
  `SubsetInduction`), so that no theorem with an operator parameter is used; `SumsChange`, `SumsGrow`
  and `SumsSame` say how a sum over calls changes with one call.
* **Authorization.** `Provenance` and `OneOwner` relate Targets to rows that other transactions
  wrote. `EvidenceInv` says that evaluations and validations agree with the rules of a revision that
  has left draft; `EnrollmentInv` what an enrollment knows while it holds its locks: its decision is
  approved, its revision active, and no other Target or enrollment has its origin; `TargetInv` that
  a Target's decision and profile exist. `RevisionInv` says that revisions belong to
  profiles and take their numbers in turn; `LoadInv` that a revision which had ended when a load
  began has ended still and is not read as active.
* **Findings.** `PairInv` says that the runs behind a finding are a pair, including in the memory
  of an analysis under way; `CaseInv` that a run's case and its resource's owner stay; `ClaimInv` that
  a direct execution on the network is alone and its case says "running", unless it was overrun;
  `ReviewInv` and `ReportInv` what a review and a report have read. `PipelineSpec`
  starts from an empty database or from any consistent one without requests under way whose
  findings are older than baselines or evidence rows (`Legacy`).
* **Access facts.** A row is worked out in one transaction and stored in another step. `RowInv` says
  that a row, stored or about to be, is a human's own word, an observation, or a human's verdict on an
  observation, and that one about to be stored carries the instant at which its transaction began;
  `EndpointInv` that one transaction at a time has an endpoint's row, and that the locators an
  inference found free are free still. An import that changes an endpoint waits for that row
  (`LocksRespected` of the composition).
* **Verification.** Terms are checked in one step and relied on in the next. `LockInv` says which
  terms stand from then on because the dispatcher holds the locks; `DispInv` that a plan under way was
  marked by one dispatcher and has no witness yet; `WitnessInv` and `SentInv` that a request or a
  witness has its marker, and that a marked plan has not been sent before its turn; `IntentInv` and
  `OneIntent` that intents carry the snapshot of their manifest, one per manifest and purpose;
  `ManifestInv` that a manifest recorded before a hold or a rotation pins older facts; and every
  refused intent has its durable fault.
* **Research tasks.** What a version needs is reckoned from all versions and events of the task, so
  `LiabilityCovered` needs what histories look like: events and views are of versions that exist
  (`HistoryInv`), a plan is a member of the versions of one task only (`MembersApart`), an approval is
  the first decision of its version (`DecisionInv`). Plans are allocated one after the other; the
  allocation's recursive function is shown to keep what was held and to add each plan that is missing
  once (`AllocatedFacts`), by the induction used for the ledger. `ExpiriesStay`
  rests on the durable fault that every expired intent has left (`met \subseteq fault`).
* **Knowledge.** A restore puts an old database in the place of the running one. What holds of the
  tables is therefore said of any database (`Database`) and kept for the running one and for its
  backup, whose reads are not later than the real ones (`Backup`). `RowInv` relates the times on a row
  (expiry, hold, unavailability) to the last read and to the closing of its context and the revocation
  of its preparation: whichever of them counts, it is no earlier than the read (`Outlives`), which is
  what the deletion of a tombstone needs. `Deletions` says that the running process, which
  replays deletions before it serves a context, serves none of what was deleted. In the catalog,
  versions replace versions of their own context (`Lines`), so a disabling, which
  looks at one context, reaches every proposal whose line it is on (`Pending`). The code follows a line in a
  loop; `LineOf` is the least closed set, and what the loop finds eligible is shown to have nothing
  disabled in that set (`EligibleLine`), from a solution of the recursion in closed form.

Only model-checked:

* liveness (`CallsEnd`, `StopDrains`, `SlotsReturn`): fairness and ENABLED are outside the prover's
  reach;
* in `Broker`, the part of `TypeOK` that bounds the operations the broker remembers and its
  acknowledgements; the proofs use `TypeInv`, which is the rest.

## 5. Not modelled

Hashing, canonical encoding, parsing, encryption, redaction, process launch, TLS and sandboxing.
Row contents of immutable records (plans, manifests, evidence), and the wording of reports and
advice. In the ledger: installing policies, the limits of 56 and 64 events, mismatched copies of one
observation, the append-only completion and terminal records, the second between two admissions,
`restore_liability` and `reopen`. In the research services: the size limits of requests and scans,
and audit logs that are full, which refuse an operation whole. The response cache of W3, the
preparation of W2 calls and the adapter of proposals change no coordination state of their own.
Parts of the system with status `not_modelled` in `PROJECT.json` give their reason. Targets entered
by hand look for no other owner of their origin, so `OneOwner` is about enrollments only. Direct
executions exclude each other only by the case's status, which two other writers do not ask for;
`OneInFlight` names them.

## 6. Plan

Done, in this order: plan execution with its abstract lifecycle and proofs; the rate limiters;
network admission; the broker; the ledger; authorization and enrollment; research verification and
tasks; observations and knowledge; cases, access facts, findings and reports; the proofs of section 4.

Next:

1. Proofs: a refinement of an abstract ledger by `BudgetLedger`; the bounds on the broker's
   operations and acknowledgements.
2. `WriterBarrier`: the G lock, `Mutation` with its evidence of an unknown commit, the producer's
   gate, the recovery fence, `reopen` and `restore_liability`; evidence that arrives while the gate
   is reopened.
3. Plans approved under a revision that is then superseded: compose `Authorization` with
   `PlanExecution`, whose verdicts are free choices today.
4. Pure operators against reference definitions: scope policy and destination classes.
