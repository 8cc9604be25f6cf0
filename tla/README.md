# Toss-trading: formal models and proofs

TLA+ models of the stateful core of this paper-trading system, the TLC
configurations that check them, and proofs checked by TLAPS. Every definition
is translated from the TypeScript under `src/` (paths below are relative to
`src/` of the repository); `PROJECT.json` names for each one the lines it
stands for.

## 1. Inventory

The program observes markets, asks an AI provider for a *virtual* decision, and
applies it to a paper portfolio kept in files. Nothing trades with money: the
only order path is a dry-run router. Most processes are one-shot command-line
runs that share a data directory, so concurrency is mostly **between
processes, through files and lock files**. Within one process the event loop
interleaves at every `await`.

### Parts and how they interact

| Part | State | Operations | Hard behaviour | What makes it correct |
|---|---|---|---|---|
| Paper portfolio store (`storage/virtualPortfolioFileStore.ts`, `virtualPortfolioRevisionJournal.ts`) | projection file, revision journal, portfolio lock directory | `read`, `readSnapshot`, `write`, `withExclusiveUpdate`, `withExclusiveSnapshotUpdate`, `withLoggedPreparedApplication` | several processes, errors at each write, crashes, torn lines, locks nobody takes over | history stays readable, updates rest on what was observed, errors that invite a retry have done nothing |
| Execution log batch (`storage/paperExecutionLogLocks.ts`, `jsonlStore.ts`) | three JSONL logs, one lock directory each | batch of several locks, append, lone append | lock order, dirty batches, failing release | no wait cycle, torn or unfinished records stay locked |
| Prepared application, plan, receipt (`paper/executionModels/v1/paper/preparedApplication.ts`, `storage/paperApplicationLogReceipts.ts`) | write-once files named by hash | prepare, complete, verify on every read | agreement of two orders of the same records | a committed application verifies for ever |
| Decision pipeline (`workflows/paperDecisionPipeline.ts`, `paperRunOnce.ts`) | none of its own | one run: read, packet, observe, decide, apply | the provider thinks while others write | one application per observed revision |
| Scheduler (`scheduler/paperRunScheduler.ts`) | state file, temporary file, lock file with TTL | one-shot `run` around the pipeline | stale-lock takeover, read before lock, failure paths | daily limit, backoff, mutual exclusion |
| Token session (`broker/tossOpenApiAuthClient.ts`, `tossOpenApiReadOnlyHttpClient.ts`, `tossOpenApiCalendarNetworkTransport.ts`) | cached lease, pending issue, generation | `getTokenLease`, `invalidateTokenLease`, request with one retry | callbacks in any order, failing issues, late refusals | one issue at a time, newer token on retry, no needless issue |
| Dry-run router (`order/dryRunShadowState.ts`, `dryRunOrderRouter.ts`, `risk/liveRiskAuthority.ts`) | handles on frozen snapshots, approvals | create, reserve, complete, time out, reconcile, route | a caller who reuses handles and approvals | linear history, one validation per order, approvals used once |
| Provider process (`ai/processRunner.ts`, `codexCliDecisionProvider.ts`, `runBudget.ts`) | timers, buffers, failure reason, budget | `run`, `decide` | timer, limits, pipe errors, exit and close race | one result, true of the child; decisions from whole outputs only; every call answered |
| Simulation admission (`api/paperSimulationRuns.ts`, `storage/paperSimulation*.ts`) | run in flight per server, directory and evidence log per simulation | create, record failure, read without a lock | reservation before an await, release by the runner, reader without lock | one run per server, a runner only behind its acceptance, reports are current |
| Local operations server (`api/*`) | none beyond the run in flight | routes, readers, view models | little | unit tests |
| Opening capacity journal (`portfolio/openingCapacityReservationEventFiles.ts`) | two-line journal entries, pending barrier, lock | `append`, verified reads | a failure between the two lines | readers see complete entries or refuse |
| Opening capacity document (`portfolio/bucketOpeningCapacityStateFiles.ts`) | document, append-only lock generations | compare-and-set `refresh` | claim of the next generation, torn release markers | mutual exclusion, no lost refresh, idempotent retry |
| Valuation application (`portfolio/bucketValuationApplicationFiles.ts` and the single repositories) | three logs, two state documents, a pending transaction, four locks | `apply`, `readSnapshot`, roll-forward | crash anywhere in the application | all or nothing once the transaction is durable |
| Mandates, strategies, turnover, plans, risk decisions (`portfolio/*Files.ts`) | append-only files, one lock each | append, strict replay | bindings across repositories | replay accepts what was appended |
| Policies and activation (`portfolio/runtimePortfolioPolicy*.ts`) | three append-only files | append, consistent read | three files read while they grow | a snapshot is closed under references |
| Replay and batch replay (`workflows/historical*.ts`, `replay/*`) | manifest, run records, progress | sequential loop per batch | a reader during a batch, a batch started twice | progress agrees with records |
| Collectors, market packets, analytics, reports, calendar evidence, MCP tools, CLI, dashboards | files of their own, or none | parsing, arithmetic, rendering | little | unit tests |

Calls: the CLI starts the scheduler, which calls `runPaperDecisionOnce`, which
reads the store, appends to the logs, calls the provider process, and applies
through log batch *and* portfolio lock. MCP tools and the server read the same
store with its plain reads. Token session, router and the `portfolio/*`
repositories are separate islands: they share no file with the run.

`PROJECT.json` lists all of these under `components` (with what is left out and
why) and, under `hazards`, the places where the code is hard to test.

## 2. Plan

The order is by what would hurt most if it were wrong.

1. **PaperApplication** (with `PreparedApplication`): store, logs and runs, as one
   module, because the properties are about their composition. Abstract
   specification: `PortfolioLedger`. Proof of the inductive invariant. *Done.*
2. **PaperScheduler**: the gate before a run. *Done.*
3. **TossSession**: token session, with proofs. *Done.*
4. **DryRunShadow**: router and shadow state, refining a table of orders without
   handles (`ShadowOrders`). *Done.*
5. **ValuationApplication**: pending transaction and roll-forward under crashes,
   refining an atomic application of one valuation (`ValuationLedger`); the locks
   it shares with the single repositories. Proof of the inductive invariant. *Done.*
6. **OpeningCapacity**: the reservation journal with its barrier and two-line
   entries, and the state document with its lock generations and compare-and-set,
   in one module because the document is recomputed from the journal. Theorems:
   mutual exclusion, the journal, stable projections, what was acknowledged. *Done.*
7. **DecisionProcess**: one child process against timers, limits and events, with the
   budget of the provider; theorems about the result. *Done.*
8. **SimulationAdmission**: slot, identity, evidence, readers; theorems. *Done.*
9. Theorems about the router, the refinement of `ShadowOrders` among them. *Done.*
10. The script of a decision of any length against the suffix its receipt demands,
    and that no receipt is ever refused. *Done.*
11. Left for later: **PolicySnapshot** (three append-only files read as one
    generation), **LogBatch** (the in-process queues of one batch), mandates and
    rebalance plans (they repeat the file protocol of valuation), batch replay;
    the measures behind the liveness that section 6 lists as only model-checked.

## 3. What is modelled

### 3.1 PreparedApplication, PaperApplication

One module holds the store, the logs and the processes that use them: paper
runs (`Runs`), plain writers (`Writers`), updates that compare the value
(`ValueUpdates`) or value and revision (`SnapshotUpdates`). Files are variables:
`projection`, `journal`, `log`, `intent`, `plan`, `receipt`. Locks are
`portfolioLock` and `logLock`; they are never taken over, as in the code. A run
walks through

    packetWait packetRead auditWait auditing snapshotWait snapshotRead deciding
    logWait applyWait applyCheck intent plan apply seal stage journal rename
    unlock unlogs

and each label is one I/O operation with what the code decides right after it.
`PreparedApplication` holds the data: which records an application appends in
which order (`ApplicationScript`, from the pipeline) and which suffix each log
must show (`ExpectedSuffix`, from the receipt). The two are translated
separately so that a disagreement would show: a run whose logs do not have the
suffix can never seal (`CompleteLogs`) and stays behind its barrier.

Any operation may fail, leaving nothing, a torn line, or all of what it wrote
(an error after the write, such as fsync). `CleanFailure`, `FencedFailure`,
`AuditFailure`, `EntryFailure`, `LogInitFailure`, `ReleaseFailure` are the error
paths of the code, which differ in the locks they leave. `Crash` stops a process
in any of its steps, its locks remaining.

Abstractions: a portfolio is a model value; a revision hash is the position,
value and application it covers; a log prefix is identified by its length
(logs only grow); what the order engine computes is any portfolio value.

`PortfolioLedger` is what the store promises: one list of revisions, appended in
one step by a client who is entitled to. `PaperApplicationLedger` maps files to
it: intact journal entries are the ledger, so that the commit point is the
journal append and not the rename.

`PaperApplicationInvariants` names the inductive invariant (section 6).

### 3.2 PaperScheduler

One invocation per process with one time, taken when it starts. `ReadState` and
`StateOnDay` are `readState` with its gates; `ReadLock`, `RemoveStaleLock`,
`CreateLock` are the three file operations of the takeover;
`OpenTemp`/`FillTemp`/`RenameTemp` are the JSON store's write with its one
temporary path, including a rename that moves a file another process is still
filling. `FinishJob`, `Catch` and the `IoError` family follow the try, catch and
finally blocks. The job itself completes, fails or throws.

### 3.3 TossSession

The fields of `TossOpenApiAuthClient`, the sequence of all issues, and requests
that go `idle -> waiting -> sent -> retrying -> ... -> ended`. A step is the code
between two awaits. `Drained` says that the continuations queued when a promise
settles run before the answer to anything that is sent later, as the microtask
queue does. Time is a bounded clock, so that expiry before and after the safety
margin occurs. Generations end at `MaxGeneration`, as at
`Number.MAX_SAFE_INTEGER` in the code.

### 3.4 DryRunShadow

Handles are a sequence; minting appends, consuming deactivates. Reservation,
the three transitions, approvals and routing are one action each; all of it is
synchronous, so an action is one call. Risk evaluation is reduced to which
intent and authority belong together, which are approved and which intents are
the same order.

`ShadowOrders` is what a caller may rely on: per lineage one status of each
order, changed in one step and never backwards, permits that are good for one
attempt, and the results given out; it has neither handles nor snapshots, so
there is no old state to act on. `DryRunShadowOrders` maps the router to it: the
orders of a lineage are the records of its one active handle.

### 3.5 ValuationApplication

Processes are one-shot valuation runs (`Runs`: read a snapshot, read the
evidence, apply) and callers of the three single repositories (`Markers`,
`EquityWriters`, `PositionWriters`: read a snapshot, append to it). Each call takes its locks one by one
(`Needs`), recovers what an earlier call left, works and gives back what it
holds. A label of `pc` is one durable file operation. `file[l]` is a log with the
line a broken append may have torn; `doc[l]` the state document projected from a log;
`application` and `single[l]` the transaction files.

The aggregate transaction decides: once it is on disk, `Validate` and the
`RollForward` actions complete it, in this call or a later one. The transaction
of a single repository does not: its `Restored` keeps a whole line and undoes
anything less. Every operation may fail with part of its effect (`Break`), or its
process may die; `ClearLock` is the operator who removes a dead process's lock
(the documentation leaves that to him). A failed call may be repeated with the same
record or event.

Abstractions: a hash of a prefix is the prefix, an event is its origin, its
predecessor and its time; amounts and prices are left out, so that a valuation
always changes what it values. All positions are active.

`ValuationLedger` promises that a valuation enters the three logs in one step and
only if it was computed from the heads it replaces; `ValuationApplicationLedger`
maps the files to it: a pending application counts as entered.
`ValuationApplicationInvariants` names the inductive invariant.

### 3.6 OpeningCapacity

`Appenders` append one reservation event each to the journal: lock, check, raise
the barrier (`RaiseBarrier`), the entry line, the commit line, lift the barrier,
unlock. `Refreshers` and `Publishers` replace the state document under the lock of
generations: `List` and `Inspect` find the last generation, `Claim` creates the
next one, `WriteOwner` and `Release` write its two files, and between them the
document is read, verified (`Verified`), a projection computed (`Resolve`) and put
in its place if the document is still the expected one and the snapshot newer
(`Decide`, `Advances`). A publication keeps the sources locked until the document
is written.

Abstractions: of the sources only the journal is modelled; a projection is the
set of events it counts; the hash of a document is the document and an owner token
the number of its generation. The clock never goes back. A plain read of the
document is a refresh that stops after reading.

Worth knowing, though no property calls it wrong: an event committed with the very
time of a stored snapshot makes every later read refuse the document
(`Unambiguous`). The code prefers that to a projection nobody can recompute;
`ProjectionsStable` says that as long as a document is accepted, its projections
are what they were.

### 3.7 DecisionProcess

One call of `decide()` after the other. `run` is the closure of the runner
(`settled`, `exited`, `failure`, bytes received, armed timers, signals asked for and
delivered, termination, code); the runner's functions are operators on it
(`Stop`, `Collect`, `RequestSignal`, `Finish`), and every callback is one action.
The child, its descendants that inherited its pipes (`heir`) and the clock are
external: they may do what the operating system allows. Armed timers may fire at
any moment, so that each race of timers and events occurs. A valid decision is a
number of bytes, so that a prefix of the output may be one.

### 3.8 SimulationAdmission

A request takes the slot of its server, reserves its identity (`mkdir`), creates
or reads the runtime marker, persists its input, and appends its acceptance; its
runner resolves, or rejects and appends the failure; then the slot is released.
Both appends are `Lock`, `Write`, `Sync`, `Unlock` on the log of the identity.
Requests to different servers, or one after the other, may choose the same
identity. Any step may fail, leaving the barrier or not as
`withPaperExecutionLogBatch` does, and a server may crash and restart with an
empty slot. Readers take no lock: `FirstProbe`, `ReadFile`, `SecondProbe`, `Match`.

Worth knowing: a crash between creating the runtime marker and filling it makes
every later admission fail with 503 (`Stopped`), until an operator intervenes.
Nothing wrong is ever accepted.

## 4. What each run checks

State counts are those of TLC.

| Run | Instance | Checks |
|---|---|---|
| `runs` | 2 runs, 2 portfolios, decisions `<<>>` and reject/fill/no-op, fairness; 189 k states | `EffectsFenced`, `OneApplicationPerRevision`, `RetryableMeansUnapplied`, `NeverStuck`, `NoWaitCycle`, `EveryStartEnds` |
| `ledger` | run, plain writer, snapshot update; 315 k | `HistoryReadable`, `AppendsOntoObserved` (ABA included), `ImplementsLedger`: the files refine `PortfolioLedger` |
| `scheduler_alone` | 3 invocations one after another, two days; 910 k | `WithinDailyLimit`, `StateReadable`, `BackoffHeld` |
| `scheduler_limit` | 2 concurrent invocations | `WithinDailyLimit` is **violated** (finding 1) |
| `scheduler_takeover` | 3 invocations, abandoned lock | `OneAtATime` is **violated** (finding 2) |
| `session` | 3 requests, 2 generations, fairness; 295 k | `SingleFlight`, `SettledIssueForgotten`, `RetryIsNewer`, `CacheIsConservative`, `IssueJustified`, `EveryRequestEnds` |
| `valuation_mixed` | run, equity and position writer, 2 positions, 1 fault; 1.4 M | `Recoverable`, `OneJournal`, `LocksGivenBack`, `ImplementsLedger`: the files refine `ValuationLedger` |
| `valuation_retries` | run and a marker of its valuation, 2 faults, 2 calls each, fairness; 145 k | `AcknowledgedIsCommitted`, `EveryCallEnds` |
| `opening_capacity` | refresh, publication, append, 2 portfolios, 1 fault; 3.4 M | `OneOwner`, `JournalSound`, `ProjectionsStable`, `AcknowledgedStands` |
| `decision_process` | 2 days, one run a day, streams one byte over their limits, fairness; 240 k | `AcceptedIsWhole`, `TerminationTold`, `EveryCallAnswered` |
| `simulation_admission` | 2 servers, 3 requests, 2 identities, a reader, 1 fault, fairness; 452 k | `RunsAreAccepted`, `SlotTellsTheRun`, `ReportsAreCurrent`, `SlotComesFree` |
| `dry_run_router` | 5 handles, 2 approvals, 3 evaluations; 113 k | `LineageIsLinear`, `AuditExplainsRecords`, `ValidatedOnce`, `ApprovalSpentOnce`, `ImplementsOrders`: the router refines `ShadowOrders` |

The type invariant of every module is proved (section 6) and not checked again
by a run.

`CHECK_DEADLOCK FALSE`, except in `decision_process`: processes end, requests end,
and the bounds on handles and on the clock stop the rest. A provider can always be
called again, or refuses: there TLC checks deadlock.

Definitions marked `Defect:` or `Mutant of` in the modules are plausible bugs; with
one of them in place of the definition after it, the property named in
`PROJECT.json` (`mutants`) fails in its run.

### Findings

1. **The daily limit is checked before the lock.** `run` reads the state and
   compares `runsUsed` with the limit (`paperRunScheduler.ts` 120-125), takes the
   lock (129) and charges from the copy read earlier (135). Two invocations with
   one run left both start their job, the second once the first has released the
   lock. The runbook (`docs/runbooks/ai-paper-trading-runbook.md` 123) and the
   tests promise the limit for all invocations that share the paths.
2. **The takeover of a stale lock removes the path, not the lock it judged.**
   `removeStaleLock` (321-344) reads, compares and unlinks. Of two invocations
   that read the same expired lock, the second unlinks the lock the first has
   created since.

### Bounds, and why they are enough

- *Store*: each process performs one operation, so that journal and logs are
  bounded without a cap. A retry is another process. Two runs race; in `ledger` a
  writer and a snapshot update make the value change and return (ABA). Two portfolio
  values are the least with which a change can be told from none. A decision
  with every kind of step, and one without any, exercise each log's suffix.
  Updates that compare the value alone (`ValueUpdates`) are in the module and the
  proofs; no run instantiates them.
- *Scheduler*: a limit of 1 or 2 and three invocations exceed it; `MaxClock`
  reaches the second day; a backoff of 3 ticks spans the change of day; the TTL
  of 2 is shorter than the day, so that locks expire.
- *Session*: three requests are the least for one to resume late while another
  starts an issue and a third is refused. Two generations reach exhaustion.
  A lifetime of 2 and a margin of 1 let a cached token become unusable, and a slow
  issue deliver one that already is.
- *Router*: five handles let two lineages live at once and one of them reach
  `reconciled` and be reserved again.
- *Valuation*: two positions make the position append one of several lines, so that
  some but not all may be written. A run against a writer of each kind moves
  every head between its two critical sections; two faults break a call and its
  recovery. Equal and later times lie on both sides of the comparisons.
- *Opening capacity*: one process of each kind meets the two others in every state
  of the lock, the document and the journal; a fault and a retry repeat a call on
  what its failure left. Two times are an earlier and a later one, or a tie.
- *Provider process*: a byte more than the limit is the least that overflows; one
  byte of the answer is less than the limit, so that a prefix parses. Two days
  renew the budget once.
- *Admission*: two requests of one server share its slot, a third of another server
  shares the identities; two identities tell a conflict from none.
- Symmetry is used for invocations, portfolios of the opening capacity, scenarios
  and the two interchangeable evaluations, in safety runs only.

## 5. Assumptions

*Fairness.* `PaperApplication`: `WF_vars(Step(p))` per process. The event loop
runs every continuation, waiting for a lock ends at a deadline
(`virtualPortfolioFileStore.ts` 181, `paperExecutionLogLocks.ts` 129), and the
provider's process has a timeout. Nothing obliges a process to start, fail or
crash. `TossSession`: `WF_vars` on each request's continuation and on the settling
of an issue, because both transports end every exchange after 10 s. The token
service need not grant anything. `ValuationApplication`: `WF_vars(Proceed(p))`, since
every wait for a lock has a deadline (`bucketValuationApplicationFiles.ts` 1207);
nobody has to repeat a call or clear a lock. `DecisionProcess`: `WF_vars` on the
timers, on the error event of a child that could not be started, and on the
continuation of the awaiting call, all of the parent's event loop; nothing is
assumed of the child. `SimulationAdmission`: `WF_vars(Step(r))`, since the server
goes on, a runner settles, and waits for a barrier have deadlines
(`paperExecutionLogLocks.ts` 123-132). The scheduler, the router and the opening
capacity have safety properties only, and no fairness.

*Time.* `Timely` in `PaperScheduler` is not guaranteed by the code as a whole: the
default provider timeout (300 s, `cli/codexDecisionEnv.ts` 41-42) is shorter than
the default lock TTL (900 s, `cli/paperSchedulerRun.ts`). It is assumed only in the
two runs that show findings, which need no longer invocation; `scheduler_alone` lets an invocation outlive its lock. `Alone` is
the way the scheduler is meant to be started, one invocation at a time.

*Files.* Exclusive create, `mkdir`, `rename` and `unlink` are atomic. A crash is
that of a process, not of the machine: what has been written stays. Nobody
edits the files by hand; locks are removed by hand only where `ClearLock` says so,
after their process is gone.

## 6. What is proved

Each `*Proofs` module proves about the module it extends, for **every** number of
processes, portfolios, decisions, requests, limits and lifetimes, from the named
assumptions on the constants alone (distinct null values, disjoint kinds of
processes, decisions that are sequences of steps, natural numbers);
for the scheduler also from `Alone` where a theorem says so. `PROJECT.json` lists the
theorems with the property of a run that each states. Type correctness is proved for
every component. Every safety property that a run checks is proved, but for the two
that the findings refute: of these `WithinDailyLimit` is proved for the scheduler
used alone, and `OneAtATime` is what `Alone` asks.

### Store

`EffectsFenced` and `RetryableMeansUnapplied` are not inductive: whether an effect
may be on disk depends on where its run is and which locks it holds. `Discipline`
adds that, in six parts:

- `ValuesInv`: the values later steps need exist;
- `LocksInv`: a process inside a locked section owns its locks;
- `ProgressInv`: what a run can have written by each step, and that it counts as
  dirty from its first append;
- `ReleaseInv`: a run that gives locks back has committed, or has done nothing,
  and gives the audit log back last;
- `TornInv`: a torn line lies behind the lock of a process that is gone;
- `FenceInv`: effects without their revision lie behind all the locks.

`Init => TypeOK /\ Discipline`, and one lemma per action shows that it is kept.
Theorems: `DisciplineHolds`, `TypeCorrect`, `EffectsAreFenced`, `RetriesAreSafe`.

`HoldersInv` says where the holder of a lock can be. Then whoever waits in a cycle
waits for a log that ranks above the ones it holds, or for the portfolio, whose holder
does not wait at all; three logs leave no room for a cycle (`NeverAWaitCycle`).

`History` says what is in the files, in five parts: every entry verifies, and a torn
line is last and its store `Blocked` for good (`ChainInv`); the projection is the
head but between append and rename (`HeadInv`); what was compared under the lock
still holds at the append (`CheckedInv`); intent, plan and receipt are there when
they are referred to (`RecordsInv`); a committed run is linked to what it saw, and
one that has only begun has seen all that is committed (`SeenInv`). It is kept
because a step of one process leaves the others and their records alone and
lets the logs only grow (`Concerns`), so that what verified goes on to verify
(`EntryStands`), and because nobody unblocks a store (`BlockedStays`). Theorems:
`HistoryAlwaysReadable`, `OnlyOneApplication`, `AppendsAreEntitled`, and the refinement
`StoreImplementsLedger`: the journal append is the commit of `PortfolioLedger`, the
snapshot read its observation, all else, a torn append and the rename included, a
stutter. The assumption these need beyond the others is `RecordAssumption`: the
nulls that stand for a missing record or revision are none.

`ScriptMatchesSuffix` is about data: for a decision of any length, what the pipeline
appends to one log (`OnLog` of `ApplicationScript`) is the suffix the receipt demands
of it (`ExpectedSuffix`). `FlattenSeq` is a recursive function, so nothing is known of
it until a function with its equations is shown to exist (`PartialExists`); then it
is the last of the partial concatenations (`FlattenIsLast`) and takes one more
sequence at its end (`FlattenAppend`). Both sides grow alike with one more step
(`StepOnLog`, `SuffixAppend`). Induction over the length is the statement that a set
of naturals closed under successor is all of them, from the least element outside
it (`NaturalsAllIn`), since the induction theorems of the library take an operator.
The same lemmas give the types of the script, which no assumption states any more.

`AppliedInv` carries this through the run: while it applies, each log is what its
plan found, followed by the effects done so far. Other runs cannot write
meanwhile, because it holds all log locks (`OthersKeep`). At the last effect
all of the script is done, so the receipt is written: `SealsAreNeverRefused`.

`CourseInv` says what a run has before it: an intent file that is not there yet, a
log lock it still lacks or still has, and after "stale" nothing but its notice. With
it two theorems stand behind `EveryStartEnds`. `HeadwayAlways`: each step lowers the
pair of `Stage` and `Rest` (effects to append, locks to take or to give back) of one
process and leaves that of all others, so finitely many processes take finitely many
steps. `NobodyIsStuck`: what a live process needs for its next step is there; its
reads verify, its plan finds no torn line, its receipt agrees, and for a lock that is
taken it has its deadline. The step from the two to "ends", which needs fairness, is
left to TLC.

### Token session

`SessionDiscipline` has three parts. `SharingInv`: an issue in flight is the pending
one, and somebody awaits it. `GenerationInv`: generations in use are at most the
newest, and the cache holds the newest or nothing. `RetryInv`: nothing a refused
request may still be given carries its refused generation. The critical step is
`Refuse`: once everything settled has resumed (`Drained`), a pending issue is still
in flight and will get a generation of its own. Theorems: `DisciplineHolds`,
`IssuesAreShared`, `SettledIssuesAreForgotten`, `RetriesUseNewerTokens`; the types
follow (`TypesAlways`).

`LeaseInv` ties the times of issues and cache: an issue is granted no earlier than it
was started and carries a lease only once it has one; the cached lease ends no later
than its token; the lease of the newest generation is the cached one, or that
generation has been refused. Theorems:
`CacheAlwaysConservative`, `IssuesAreJustified`.

### Scheduler

Types hold however invocations overlap (`TypesAlways`). The limit and the backoff do
not, as the findings show; they are proved under `Alone`, for any limit, times and
number of invocations, whatever fails or dies. `AloneInv`: at most one invocation is
under way (`Solitary`); the file counts the jobs of its day and holds a reported
failure until its backoff is over (`DiskInv`); and per invocation, what it is about to
rename is what it means to write (`Writes`), what it has read counts every job
started since but its own (`Counts`), and it comes after the backoff
(`ComesAfter`). That a later time is of no earlier day is a lemma (`DayMonotone`).
`Alone` does not ask an invocation to end before its lock expires. Theorems: `AloneHolds`,
`LimitHoldsAlone`, `StateReadableAlone`, `BackoffHoldsAlone`.

### Valuation

`Recoverable` is what makes a crash harmless, and is not inductive: that the files
fit a pending transaction depends on who may have written since. `Discipline`
adds that a process inside its operation holds its locks (`Locking`), so that
two calls inside are on different logs and an aggregate call is alone
(`Exclusion`); and, per process, how much of its transaction is on disk at each
step (`AggregateStage`, `SingleStage`). A lemma per action shows that it is kept; most of
them need only that the others' logs are untouched. Theorems: `DisciplineHolds`,
`RecoveryNeverStuck`, `NeverTwoJournals`, `LocksAlwaysGivenBack`.

`Contents` says what is in the logs: whole sequences with a last event of every
position (`Sound`), transactions of one line in the single repositories
(`OneLine`), and, of a call that has decided but not committed, that the logs are
still those it decided on (`Decided`). A log has a head of every position without any
induction over it, because a new line is itself the head of its position. With
`Contents` every step is one of `ValuationLedger` or a stutter: the transaction file
is the commit of a valuation, the complete line that of anything else; what a roll
forward writes is committed already, and what a recovery cuts off never was
(`RepositoriesImplementLedger`).

`Records` says why success may be believed. No mark, no event of a valuation and no
change of a position by one writer is in the logs twice (`Distinct`): a run commits
only what has no event yet (`Fresh`), and an event names its process, the origin or a
stored mark. What a call was told of was entered (`Entered`) and stays, since
committed logs only grow (`Told`). Theorems: `ContentsHold`,
`RepositoriesImplementLedger`, `AcknowledgedAlwaysCommitted`, `TypesAlways`. They
assume besides that no process is a mark (`RecordAssumption`): event kinds are kept apart
in the code by their types.

`HeadwayAlways` stands behind `EveryCallEnds`. Each step lowers the triple of `Calls`
(calls the process may still make, in how many parts), `Stage` and `Rest` (locks to take or to
give back) of one process and leaves that of all others. A pending transaction found
on entry is rolled forward through the same stages as one's own; it ranks above them,
because what a call commits is always its own (`CommitsItsOwn`), so that a recovery leads
to the call's work and never to another recovery.

### Opening capacity

Five layers, each resting on those before it. `Roles`: who can be where. `Locking`:
a generation is the business of one process until it is released, and what is
released stays so, hence `OneOwner`. `Journaling`: where an append stands by the
file and the barrier. `Projecting`: every document in a file or in a hand is what
its snapshots yield; events of the past do not change (`EventsStand`), since the
clock does not go back. `Acknowledging`: whose projection a stored one is, and what the one inside
has in its hands. Theorems: `TypesAlways`, `OneOwnerAlways`, `JournalAlwaysSound`,
`ProjectionsAlwaysStable`, `AcknowledgedAlwaysStands`.

### Decision process

That a termination tells the truth needs what the deadlines mean: a deadline is
set only behind the request it is the deadline of, and that request is spared
only to a child seen to exit (`Deadlines`). `Reported` then ties each termination
to the child, and `Answered` a decision to the whole output. Theorems:
`TypesAlways`, `TerminationAlwaysTold`, `AcceptedIsAlwaysWhole`.

### Simulation admission

From creating the directory until it is done a request owns its identity, alone,
and finds on disk exactly what it left (`Owners`); what an owner that died leaves
is an acceptance, perhaps with its failure, or nothing (`Shaped`); what was
answered is on disk (`Kept`). `Readings`: a log never goes back behind what a
reader saw. Theorems: `TypesAlways`, `SlotAlwaysTellsTheRun`, `RunsAlwaysAccepted`,
`ReportsAlwaysCurrent`.

### Router

`Lineages`: a lineage is named after its first handle and only its last handle is
active, so that minting continues the longest audit. `StillReserved`: what was
validated is reserved for whoever may still act in the lineage. Theorems:
`TypesAlways`, `LineagesAlwaysLinear`, `AlwaysValidatedOnce`,
`ApprovalAlwaysSpentOnce`.

`AuditAlwaysExplains`: the events of an identity in the audit of a snapshot number its
record's version, and the last of them is its status; one more event is one more
element, behind all others. The invariant behind it (`Told`) also says that a
tombstone stands exactly where the status has left "created", which is what
`assertSnapshotConsistency` (`dryRunShadowState.ts` 430-456) asks of every snapshot
the code mints: that assertion never fails. `RouterImplementsOrders` is the refinement of
`ShadowOrders`: an operation on the active handle of a lineage advances one order
or stutters; one on an old handle consumes its approval and nothing else; a result
says "reserved" exactly when its own step reserved the order.

### Only model-checked

Liveness under fairness (`EveryStartEnds`, `EveryRequestEnds`, `EveryCallEnds`,
`EveryCallAnswered`, `SlotComesFree`): the prover knows neither `ENABLED` nor `WF`.
What does not need these is proved for `EveryStartEnds` (`HeadwayAlways`,
`NobodyIsStuck`), and the well-founded descent for `EveryCallEnds` (`HeadwayAlways`).

## 7. What is not modelled

Within the modelled parts:

- `withLockedSnapshot` (its callback writes another component's files) and
  `withPreparedApplication` (used by tests only);
- removal of lock directories by hand, which the documentation declares
  unsupported, and a machine crash that brings back a deleted lock;
- `MARKET_PACKET_WARNING` audits: further lone appends of the form modelled;
- the queues of concurrent appends within one batch: the pipeline awaits each;
- the arithmetic of the order engine, and the contents of packets and prompts;
- in a valuation: amounts, units and prices, epochs and their initialisation,
  root events and closed positions, and the content of the price evidence;
- in the opening capacity: what a plain read does beyond a refresh, explicit
  recovery by an operator, the publication log, and the sources other than the
  journal of reservations;
- in the decision process: a provider that is disabled or configured with
  invalid limits, a child without pipes, the prompt and the failure summary;
- in the admission: what a request and its input contain and their readers, and
  file links;
- a clock that goes backwards;
- building and validating API requests and answers, and sockets;
- the rules of the risk evaluation, and the checks for plain data objects.

The components that have no module yet, with the reason or the planned module,
are listed in `PROJECT.json` with status `not_modelled`; hazards without a property
say why.

## 8. Running

    tlc -workers 2 -config PaperApplication_runs.cfg MCPaperApplication.tla
    tlapm PaperApplicationProofs.tla

Every `.cfg` is named after its module; `PROJECT.json` pairs them. The MC modules
hold the constants a configuration cannot write and the symmetries.
