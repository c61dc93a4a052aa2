# A verification of the investment system

TLA+ modules, TLC configurations and TLAPS proofs about the programs in this
repository.  Every definition follows the Python source; `PROJECT.json` names
the lines each one stands for.

## The system

Three products share one checkout.

| Part | Code | State it keeps | Operations |
|---|---|---|---|
| Portfolio | `src/src/portfolio` | one SQLite ledger: accounts, `ledger_entries` (append-only), cash snapshots, cost rebases, prices, K-lines | opening snapshot, statement preview and apply, historical statements, transfers, rebases; a dashboard that replays the ledger |
| Review sync | `src/src/investment_review/sync_service.py`, `fee_estimation.py` | none of its own; writes the sidecar | `sync`, `status`, `project_fees` |
| Review sidecar | `src/src/investment_review/store.py` | a second SQLite file: `trade_events`, `ingest_runs`, fee profiles, projections and corrections, decisions, `review_runs` and their status events, operation checkpoints, hypotheses, protocols | append-only inserts, each in its own transaction |
| Review automation | `src/src/portfolio/review_integration.py` | a lease (thread lock and OS file lock), a worker thread with its wake event and pending triggers, runs and status events in the sidecar | `enqueue`, `run_once`, `request`, `start`, `stop`, `status`, the post-commit hook |
| Review runner | `review_runner.py`, `operation_review.py`, `review_checkpoint.py` | artefact files and a receipt per run, run and status rows, checkpoints | `run`: one review per scope |
| Review dashboard | `portfolio/investment_review_service.py`, `episode_reviews.py` | revision files, link files, locks of one process | `correct_fee`, `correct_review`, `create_decision`, `link_decision`; reading |
| Periodic reports | `periodic_runner.py`, `periodic_reports.py` | one JSON status record, report rows, a worker thread | `run_once`, `request`, `start`, `stop` |
| Market context | `market_context_adapter.py` | a file cache with leases, a request budget per run | reserve, settle, resolve, recheck |
| Hypotheses and protocols | `behavior_*.py` | append-only human review events in the sidecar | propose, review, observe |
| Ingest | `src/src/ingest` | a source-health ledger file, a circuit breaker | acquire, record success or failure, route |
| Research | `src/src/research`, `report`, `quality`, `scoring`, scripts | files | batch document production |

How they interact.  The CLI commits a statement to the ledger and then, outside
that transaction, calls `trigger_post_commit_review_sync`: it syncs the sidecar
and enqueues a catch-up run.  The dashboard process holds a worker that wakes
up at an interval or on request, syncs when `status()` is not healthy, plans,
and runs the scopes.  The CLI can run a cycle too, and people record decisions
in the sidecar directly.  These are separate processes; they share two SQLite
files and one lock file.

What is hard is what happens between the transactions: no operation above is one
transaction, the post-commit hook goes on without the lease when it is busy, the
source moves under every reader, dates have a resolution of one second, any
process may die at any point, and the automation has to recover from all of it
without a person.  `PROJECT.json` lists these hazards line by line.

What makes each part correct:

- automation: one cycle at a time; a completed review is about exactly one
  reconciled cutoff; a terminal run stays terminal; crash leftovers are closed
  and only they are; the current input is reviewed in the end;
- sync: the sidecar always is one version of the ledger; success means the
  sidecar is current and its fees are there; one move of the source is retried;
  after a failure the next call heals;
- ledger: statements are idempotent, a replay in date order gives the positions
  that were previewed, no entry sells what is not held;
- review runs: a completed run is about one version of everything it read, and a
  retry comes to the same bytes;
- review dashboard: what was answered stays true, chains do not fork, the effective
  fee is the last one;
- periodic reports: no day and no instrument is left out, a run is about one version
  of the portfolio;
- market context: the request cap holds, nothing is asked twice, and a resolution is
  the same for everybody who gets it;
- ingest: a circuit opens after the threshold and closes again after its time.

## The modules

| Module | What it is |
|---|---|
| `CatchUpRuns` | the automation's run ledger with consumers, producers, decisions and a moving market |
| `CatchUpRuns_proofs` | its theorems |
| `MCCatchUpRuns` | its instances for TLC, one half of the environment at a time |
| `SourceSync` | `ReviewSyncService.sync` with several callers, a ledger that grows or is edited, exceptions and crashes |
| `SourceSync_proofs` | its theorems, the refinement of `SourceMirror` among them |
| `SourceMirror` | what the sidecar promises about the ledger; `SourceSync` implements it |
| `MCSourceSync` | its instance for TLC |
| `PositionAccounting` | the replays of `accounting.py` as functions of a ledger, and what they promise |
| `PositionAccounting_proofs` | that they promise it for every ledger |
| `PortfolioLedger` | one account of `PortfolioStore`: openings, statements, history, cost anchors and cash, by several callers |
| `PortfolioLedger_proofs` | its theorems |
| `MCPortfolioLedger` | its instance for TLC |
| `ReviewWorker` | the automation's worker thread with `request`, `start` and `stop`; its theorem is in `CatchUpRuns_proofs` |
| `ReviewRun`, `ReviewRun_proofs` | `ReviewRunner.run` by several processes, over files that are never replaced |
| `ReviewCommands`, `ReviewCommands_proofs` | the dashboard's four write commands, their locks and their repetition; the theorem about `MCServices` is here too |
| `MarketCache`, `MarketCache_proofs` | the resolution of market requirements: leases, shared entries, the request budget |
| `PeriodicReports`, `PeriodicReports_proofs` | the daily reports and summaries of `PeriodicReportRunner.run_once` |
| `MCServices` | these five together for TLC, one at a time |
| `MCReviewRun` | `ReviewRun` alone, for its counterexample |

`CatchUpRuns` and `SourceSync` meet in `SourceMirror`: the first takes the sync
inside a plan for one step of it, the second implements it.  `PortfolioLedger`
is the source that both of them read; a booking there is their `Commit`.

### CatchUpRuns

A run is named by a hash of its input, so in the model a run is its input, a
`Key`: the cutoff its sync reconciled, the sidecar projection read afterwards and
the frozen market manifest.  `runs` and `events` are the tables `review_runs` and
`review_run_status_events`; a run's status is that of its newest event
(`Current`).  The ledger is append-only, so a version of it is a number; a
projection is the version the sidecar has been synced to and the number of
decisions recorded in it.

Each actor is a process with a program counter and its locals in `task`.

| Code | Actions |
|---|---|
| `trigger_post_commit_review_sync`, `_default_post_commit_sync` | `Commit`, `PostCommitSync` |
| `enqueue`, the lease with 50 ms | `EnterEnqueue` (takes a free lease, goes on without a busy one) |
| `run_once`, the lease with 120 s | `Acquire` (waiting is not being scheduled; a timeout leaves the caller idle) |
| `_prepare_plan` | `Reconcile`, then `Project`: the cutoff and the projection are two reads |
| `_supersede_stale_pending` | `ListStale`, then `DateClosing` and `InsertClosing` for each run, `StaleClosed` |
| `_ensure_run` | `Ensure`, `Create`, `ReadBack` |
| `_append_status` | a `Date...` action that computes the date and an `Insert...` action that inserts, or `InsertRefused` |
| `_run_once_local` | `DateRunning`, `InsertRunning`, `RunScope` for each scope, `Reverify`, `Compare`, `DateFinal`, `InsertFinal` |
| `_worker`, `_block_continuous_drift` | `retryUsed`, `InsertFinal`, `AcquireToBlock`, `Recheck`, `DateBlocked`, `InsertBlocked` |
| exceptions, deaths of a process | `Abort`; the failing branches of `PostCommitSync`, `RunScope`, `Reverify` |

Abstractions.  `list_review_runs` reads run by run and is one step here.  The
clock never goes back.  `_local_state`, receipts and the health summary are
not modelled, since no other operation reads them.  `request`, `start` and `stop`
are `ReviewWorker`'s, what a scope does is `ReviewRun`'s: a consumer here may
start a cycle at any time, and a scope reads the sidecar once.  The sync inside a plan is one step, because `SourceSync` shows
what it comes to.  The key's file hash is the ledger's version: any write to the
portfolio file counts as a commit.  The event's `seen` is not a column: it records
what the scopes read, for the property.

### SourceSync

A caller takes a snapshot (`Start`), opens a run (`OpenRun`), imports it in one
transaction (`Import`), reads the sidecar back (`Verify`), saves the fee plan in
another transaction (`SaveFees`), takes a second snapshot (`Confirm`), and closes
the run (`Finish`) or goes round once more (`Retry`).  `Raise` is any exception
and `Crash` the death of the process.  `Commit` is a statement of the portfolio,
which only ever appends; `Edit` is a row changed or deleted by hand, as the sync
tests do, and is external to the program.

The fee projection of a trade is reduced to what its identity depends on: the
row and the actual samples known at its date (`FeePlan`).  Two projections of one
trade at one date are refused (`FeeConflict`).  `open` and `last` are what
`status()` computes from the runs: the newest run by creation that has a terminal
status.  `previous` is the import that `import_events` compares a snapshot with;
when two imports finish within one second (`Ties`) the order is that of their
random ids, so either may be taken for the last.

Not modelled: the schema and mapping checks of a snapshot, instruments, dry runs,
fee amounts, fee corrections, `project_fees`.

### PositionAccounting

Pure functions, one security at a time.  `PositionState` is
`build_position_states` (a replay that raises is not `ok`), `CycleReplay` and
`RealizedPnl` are `build_closed_position_cycles`, `LedgerCycles` is
`build_ledger_cycles`.  A row's `amount` is the money it moves: gross and fees of
a trade are one number, since the code only ever adds them.  A closed cycle is
closed at the end of a day on which nothing is held (`DayEnd`), so a position that
is sold and bought back within a day is one cycle.  Counts of trades, prices and
`portfolio_totals` are left out.  There is one reference: cash flow, which has no
cycles and no cost (`Balanced`), and the views against one another (`Agree`).

### PortfolioLedger

`baseline`, `entries`, `anchors` and `cash` are the tables `accounts`,
`ledger_entries`, `position_cost_rebases` and `cash_balance_snapshots` of one
account.  A connection of the store reads without a lock until its first INSERT:
an operation therefore is one step for each connection, or for the reads before
that INSERT, and one for the transaction.

| Code | Actions |
|---|---|
| `baseline_date` in both previews, and the checks on the batch alone | `CheckStatement`, `CheckHistory` |
| the second connection of the previews | `PreviewStatement`, `PreviewHistory` |
| the transaction of `apply_statement`, with the cash snapshot | `ApplyStatement`, `ApplyRefused` |
| the transaction of `apply_historical_closed_statement` | `ApplyHistory`, `ApplyRefused` |
| `apply_opening_snapshot`, its SELECTs and its transaction | `CheckOpening`; `ApplyOpening`, `OpeningRefused` |
| `record_position_cost_rebases` | `RecordCostAnchor` |
| `set_cash_balance`: the time, then the row | `DateCash`; `InsertCash` |
| `recalculate_cash_from_ledger`: the reads, then the row | `ProjectCash`; `InsertCash` |
| `utc_now` | `Tick` |

`Replays` is the replay inside every transaction, over `OrderedLedger`, which
sorts as `_ordered_ledger` does: by date, time, rebases last, and then by the id
as text.  The previews sort by number (`PreviewOrder`); that difference is
finding 3.  `CashProjection` and `WithSnapshot` are `_statement_cash_projection`
and `_write_statement_cash_snapshot`.

Abstractions.  A row is its content, because that is what `dedupe_key` hashes; a
batch that was parsed is an input.  A dead process or an exception is a transaction
that is rolled back, that is, a caller that takes no further step.  Ids of the
account follow one another: the ids of other accounts lie before `FirstId`.
Anchors are numbered in the order of `recorded_at`, so a tie within a second,
which the code breaks by a random id, is one of the two orders.  The reads of
`recalculate_cash_from_ledger` are one step.  The cash a projection hashes is the
set of rows behind it.  `seen` and `raced` are not in the code: `seen` is the ledger a preview
looked at, `raced` says that an opening was committed on a check that no longer
held.  `at` is `created_at`.  `SnapshotLedger` and `SnapshotCash` are what `build_snapshot`
reads as of a day and of a knowledge cutoff; its rows are sorted by id as a number
and have no rebases (finding 7).  The revision it stores is a copy of what it has
read, appended only when the hash is new, and is no state of the model.  Not
modelled: `record_included_statement`, transfers, prices and K-lines, the
performance report, migration.

### ReviewWorker

`triggers`, `wake` and `stop` are `_pending_triggers` (under its lock) and the two
events.  `request` is `Request` and `SetWake`, since it sets the event after it has
left the lock; `stop` sets both (`StopWorker`, `SetWake`), `start` is `StartWorker`
and `RequestAtStart`.  One turn of the loop is `LoopTop`, `WaitEnds` (woken, or the
interval is over), `ClearWake`, `CheckStop`, `TakeTriggers`, and the end of a cycle:
`CycleEnds`, or `CycleDrifts` with `WakeSelf`.  What a cycle does is `CatchUpRuns`.
A `stop` whose join times out leaves the old thread running, and `start` reports
`already running`.

### ReviewRun

| Code (`review_runner.py`) | Actions |
|---|---|
| the first hash and the preflight key | `BeginRun` |
| dry sync, health, sync | `Preview`, `Health`, `Sync`, `DieInSync` |
| projection, reconstructions, key | `Project`, `BindKey` |
| `_existing_terminal_receipt`, `save_review_run` | `ReplayReceipt`, `EnterRun`, `Register` |
| `_append_status`: the time, then the row | `Stamp`; `AppendStatus`, `AppendRefused` |
| fee stage, artefacts, gates, receipt | `Fee`, `BuildArtifacts`, `Gate`, `WriteReceipt` |
| the exception handler; an exception in a stage; the end of a process | `Handle`; `StageRaises`; `DieInRun` |

A run is named by its key, which is a record of what the key hashes.  An artefact is
the version of the file and the projection it was built from; all files of a run
directory are one, because each is created or compared in the same way.  A version
of the file is two counters, trades and the rest, as reviews and syncs read
the trades only and hash all of it.  `sidecar.marked` is the reviewability marker, with
which the key covers reconstructions as well and attempts ask for market context;
`requests`, how often an attempt has asked, is in its receipt and not in its key.  `stable` is history.  Cutoffs are one pair; a run
that is `partial` is completed too; dry runs, validators, the operation checkpoints
and the catalog that reads finished runs are left out.

### ReviewCommands

A request is received by a thread of some dashboard process (`Receive`) and may be
sent again, also changed under the same id; `Die` is the process or an exception of
the database.  `CheckParent`, `FindCorrection`, `CheckCurrent` and
`InsertCorrection` are the SELECTs of `correct_fee` and `append_fee_correction` and
the INSERT; none of the SELECTs takes a write lock.  `ReadChain`, `WriteRevision`
and `VerifyRevision` are `correct_review` under `_revision_lock`, a lock of one
process; a revision is the sequence of requests it came from, as its content id
hashes them.  `FindDecision` and `AddDecision` are `create_decision`;
`ReadDecision`, `ListLinks` and `CreateLink` are `retrospective_context`.  `acked`
is history: what answers said.  Text fields, reading, and the execution links of
decisions are left out.

### MarketCache

`Look`, `ReadRows`, `CheckSource` and `Cover` are the part of
`resolve_market_context_v2` before a provider is asked, under the lease that
`Enter` takes; `Reserve`, `Acquire`, `Gateway`, `Persist` and `Settle` the
controlled fallback with `MarketRequestBudget`; `Freeze` is `_create_or_compare`.
`Fault` is an exception, `Crash` the end of a process.  The provider is external:
it may make any number of the attempts it was allowed, and may fail to say how many.
An entry proves one of two versions of a row, or nothing; entries that contradict each
other prove nothing.  The model covers any number of components for a requirement; in
production no caller passes `provider_requests`, so at most one is asked for.  Hashes,
canonical forms, the projections of a resolution and the v1 contract are left out.

### PeriodicReports

`PriceDay` is `refresh-prices`: a day is a trading day from its first closing price on, and
days get theirs in any order.  `late` is history: the days that got theirs when a later one
was stored or in a run's plan.  `Begin` and `Plan` read the clock, the prices and the stored
days; `NextDay` is the first that is left; `Build` and
`Save` alternate for each report of a day, the portfolio's first; `CheckAfter`
compares the file's hash; `ReadWindow` and `Aggregate` make the summaries; `Finish`
writes the status.  `RunFails` is an exception, `ProcessEnds` the end of the process:
the dashboard's worker is a daemon thread.  A report is its identity and the version
it was built from.  The coordinator around it has `ReviewWorker`'s loop without a
trigger set and is not modelled again.

### MCServices

The five services share no state in these models, so one run checks them side by
side: the initial state says which of them runs, and the others stand still.  Their
symmetric processes are exchanged all at once, which is sound because only one
service moves, no property names a process, and none is a liveness property.

## The runs

| Run | Instance | What it shows |
|---|---|---|
| `catchup_safety` | 2 consumers, 2 scopes; either 1 producer, 1 commit, 1 fault, or 2 decisions, 2 markets | safety of the run ledger, drift, retry and block, and that the current input settles, as a review if enqueues are leased |
| `catchup_supersede` | 1 consumer, 1 producer, 1 commit | a counterexample, finding 1 |
| `sync_safety` | 2 callers, 2 trades, 1 edit, 1 exception | the sidecar mirrors the ledger |
| `sync_heals` | 2 callers, 2 trades, 1 exception, 1 crash, ties | sync becomes healthy again |
| `sync_backdated` | 2 callers, 2 trades in any order | a counterexample, finding 2 |
| `ledger_safety` | 2 callers, 4 operations, 1 second, 2 securities, 4 days | safety of the portfolio ledger |
| `ledger_preview` | 1 caller, 2 operations | a counterexample, finding 3 |
| `ledger_history` | 1 caller, 2 operations | a counterexample, finding 4 |
| `ledger_snapshot` | 1 caller, 2 operations | a counterexample, finding 7 |
| `services` | five instances (bounds below) | safety of the dashboard's commands, market context, periodic reports, the worker and review runs |
| `periodic_missing` | the same, periodic reports | a counterexample, finding 5 |
| `review_retry` | 1 process, 2 attempts, 1 mishap, no market requests | a counterexample, finding 6 |

`OneCycleAtATime`: two processes are never both in a cycle.  `NoMixedCutoff`: a
run recorded as complete has read one version of the sidecar only, the one its
key names, and that version is the reconciled cutoff, although the plan reads the
two separately and every scope reads again.  `StalePendingClosed`: while a cycle
runs nothing else is left running or failed.  `AttemptsInOrder`: attempt numbers
follow the dates across crashes and processes.  `OnlyLeaselessEnqueueReopens`: a
terminal run changes its status only through the insert of a producer that
enqueues without the lease.  `StableInputSettles`, `LeasedEnqueuesAreReviewed`:
when everything stops moving, the run of the current input gets a terminal status
and keeps it, and it is a completed review if every enqueue had the lease and the
market did not move back; without the first premise the third sentence is false,
which is finding 1, and without the second a run that was closed as superseded is
the current one again.
`DriftBlockIsObsolete`: the block written after two drifts, for which the lease is
taken anew, never hits the current input.

`MirrorsSource`: the sidecar goes from one version of the ledger to a larger one,
never through a mixture, whatever snapshots interleave and whatever was edited;
it is the abstract specification `SourceMirror`.  `SuccessIsCurrent`: at its
confirmation a successful call leaves the whole ledger and its fee plan in the
sidecar.  `BlockedOnlyIfMovedTwice`: the data blocker is recorded only after two
moves.  `HealthyHasFees`: an exception between import and fee plan shows up in
`status()`, also when the runs of two callers finish in another order than they
were created.  `SyncRecovers`: the automation gets its reconciled cutoff.

`EveryDayReplays`: whatever is booked, twice or at once, no day's report ever meets
a sale of what is not held; reports replay a prefix, which no transaction does.  Nor
does a snapshot of any day and cutoff, if the ids of tied rows are as long as each other: it
replays them in the order of the numbers, the transactions in that of the text, and
without that premise the property is false.  `OnlyMisfitsBlock`: cost anchors are
recorded without a replay and may stop every later one, but only while one counts
whose quantity is not what the trades hold on its day.  `BooksBalance`, `CyclesAgree`: on every day of
every ledger that arises, realised profit, income and remaining cost add up to the
cash flow, and three separately written replays agree on cycles and profit.
`BaselineSplits`: what keeps a trade from being counted twice, in the opening and
in a statement, holds unless an opening is committed on a stale check.
`StatementShowsCash`: after a booking the balance in front is the one the ledger
calls for, although balances are ordered by date, second and rowid and a projection
is compared only with the last calculated one.  `OlderHistoryLeavesPositions`:
booking an older, self-contained history moves no position of today; at the
baseline's own day it does (finding 4).  `PastStaysKnown`: a snapshot that is rebuilt
for an older day and cutoff finds the same trades and the same balance, whatever
was imported since, for any day; the exception it names is a confirmed balance,
which is dated before its caller gets to the database.

`ServiceTypes`: the shapes of the four services that store something, and that no two rows share what they are
looked up by.  `EffectiveFeeIsLast`: two corrections may supersede the same parent,
because the check takes no lock; still, as of any date and cutoff, the effective fee
is one that nothing visible supersedes.  `AnswersStayTrue`: whatever is repeated,
changed under the same id or handled by two processes at once, an answer only ever
reports what is stored and stays so.  `OneProcessKeepsChain`: one dashboard, with any
threads and deaths, keeps a review's chain readable.

`CapHolds`, `NothingLeaks`: threads share a budget of attempts and slots with
providers that do not say what they used; no run ever sends more than its cap, and
errors give everything back.  `AskedOnce`, `ToldIsFrozen`, `NoConflict`: leases and
create-only files make one answer of what threads, runs and crashed runs resolve.
`NamesItsSource`: a resolution's rows are of the version it names.

`NoDaySkipped`: over two processes and interruptions anywhere, and with prices in any
order, no trading day before a stored one is left out, unless it got its prices when a
later one was stored or planned; such a day is never visited again.  `OneVersionPerRun`: a run
that goes on to summaries has built its reports from one version.

`NothingOverslept`: the worker never sleeps an interval over a request or a stop.

`CompletedIsOfItsKey`: what a completed run's only receipt is about is exactly what
its key is the hash of, although it reads the file many times while trades and
prices are written.  `CompletedIsNotRerun`: no attempt works on a run that has been
completed since before the attempt began.  `EqualWorkEqualReceipt`: attempts of one
run that had the same work to do and asked the market equally often come to the same
bytes; without the first premise it is false (finding 6), and without the second as well.

Bounds of the ledger.  Two callers are every pair that races; `MaxOps` = 4 allows
an opening, two imports at once and a correction or a balance before, between or
after them.  `MaxClock` = 1 gives equal and different seconds.  `FirstId` = 8 puts
the ids 9 and 10 into the second batch; `IdDigits` only bounds the sort key.  The
four batches of `MCStatements` cover a round trip within a day, a sell-out with a
dividend, a fee without a position, a purchase that cash does not cover, and a
history; the two anchors of one day differ in quantity, so that one of them
does not fit and the other replaces it.  Callers are
symmetric, no property of that run names one or is a liveness property.
`CHECK_DEADLOCK FALSE`: operations are bounded, so every behaviour stops.

Bounds of the run ledger and of sync.  Two processes and one lease-less producer suffice for every two-party
race of the ledger; a third party is the market or a decision.  `HalfSpec` has two
kinds of initial states, each with the bounds of the other spent.  `CommitsMove`: one
commit gives the drift and both orders of keys.  `SidecarMoves`: two drifts in a row,
for the block, need two decisions; the market moves once, and the ledger may be
empty (and then stays so: `EmptyStaysEmpty` constrains the commits, which no fairness
asks for).  A drift by a decision beside a commit is left to the proofs of
that run's safety properties, which have no bounds.  Two scopes show what one and three would:
a change between them.  One fault makes a crash leftover or a failing scope at any
point; the counter bounds the depth, not the place.  Two trades give a snapshot
and a larger one, a fee sample and its target, and with an edit a third version.

Bounds of the services.  Commands: two threads of one dashboard and one of another,
three requests of which one may die, two ids and two times for corrections: two
writers race with each other and with a repetition, and a third row is superseded.
Market context: two threads on three runs, two with a provider; three requirements,
one with two components, one of the system perspective; 3 attempts per run of up to 2
each, 1 slot, 2 calls, 2 faults: the budget runs out in the middle of a resolution,
entries are shared, contradict each other and outlive a crash.  Periodic reports: two
processes, 3 days with different instruments that get their prices in any order, one
trade, 2 runs, 1 interruption: a run that is interrupted and one beside or after it, and
a day that is priced before, between or after those around it are stored.  The worker: two
callers, 4 commands, 4 cycles, enough for a stop that times out, a start beside it and
a request during both.  Review runs: two processes, 2 calls, 1 write or decision, 1
mishap, 2 seconds, 0 or 1 market requests, with the marker or without: one attempt fails
anywhere and the other runs beside or after it.
`CHECK_DEADLOCK FALSE`: all of these are bounded, so every behaviour stops.

Fairness.  A live call goes on (`WF` of its next step), which is what an operating
system gives a thread; the worker's loop comes back every interval, so a consumer
whose turn it is takes a free lease, and the planner calls `sync` as long as
`status()` is not healthy.  No commit, edit, decision, market change, exception or
crash is fair.  The lease's waiting is weakly fair only: that is enough, because
in those runs no other consumer holds it again and again for ever.

## Findings

1. A newer run is closed as superseded (`catchup_supersede`).  A consumer plans;
   a producer commits, finds the lease busy and queues the newer input without
   it; the consumer lists pending runs, finds one with another key, and blocks it.
   The key is the current input's, and a blocked run is never run again until the
   input changes.
2. A back-dated trade stops sync for good (`sync_backdated`).  Projections are
   dated with the trade's own time, so an actual fee that is committed later with
   an earlier date changes a projection that is saved, and the fee plan is
   refused from then on.
3. A statement previews and does not apply (`ledger_preview`).  Rows without a time
   are replayed in the order of `str(entry_id)`: the sale with id 10 comes before
   the purchase with id 9.  The transaction is rolled back, so nothing is lost, but
   the same file is refused again and again; it would be accepted one id later.
4. History changes positions (`ledger_history`).  A historical batch that ends on
   the baseline's day is accepted and becomes part of the opening's cycle, so its
   profit is taken off the cost of what is held.
5. A report is missing for ever (`periodic_missing`).  The next run starts after the
   last day of the portfolio, whose report is stored first; a run that ends before it
   has stored those of the instruments leaves them out, and the docstring at
   `periodic_runner.py:170` says "Generate missing daily reports".  A trading day that
   gets its first prices after a later one was reported is left out in the same way.
6. A retry cannot write its receipt (`review_retry`).  The receipt holds what the sync
   stage of the attempt did.  An attempt that imports events and ends between its
   receipt and its status leaves a receipt that says `reconciled`; the retry has the
   same key, finds everything reconciled, and its receipt is refused as an immutable
   artefact.  The run stays blocked until its inputs change.  The market request counts in the receipt
   have the same effect: a retry that finds the market frozen asks less.  The test
   `test_retry_after_terminal_ledger_failure_reuses_same_receipt_bytes` syncs before
   the first attempt, so it does not meet the case.
7. A snapshot is not what the report shows (`ledger_snapshot`).  `build_snapshot` reads
   `ledger_entries` alone, `show --as-of` replays the reviewed cost rebases as well, so
   after a reviewed anchor the two differ in cost; PORTFOLIO_TRACKER.md:199 says that
   `snapshot` stores the result of the replay.  It also replays tied rows in the order of
   their numbers, where every other replay has the text order, so that a snapshot of rows
   whose ids cross a power of ten may be refused though the report of its day is not.

Seen while modelling, with no line that says otherwise: a crash between the import
and the fee plan leaves `status()` healthy without fees, and a run blocked for
drift, or closed as superseded, stays blocked when its input comes back later (a
decision is never undone, but the market context may be unavailable and return); a reviewed rebase whose quantity
does not fit makes every replay fail, and any reviewed rebase makes the preview of
a historical batch raise a `TypeError`; two real fills that are equal in every
column are booked as one, and in a historical batch that shares a row with the
ledger the rest no longer ends with nothing.  A sync whose snapshot is older than one
imported meanwhile is told that the source removed rows, and fails without the one
retry that the comment at `sync_service.py:770` allows for; the next call heals it.
Two fee corrections may supersede one parent, and two dashboards may fork a review's
chain.  A range of daily reports that is refused because the file moved keeps the
reports it has stored; a shorter summary stays beside the later one of its week; a
resolution for want of budget is frozen like any other; a periodic request during a
run is dropped.  A review attempt that fails while it looks up or replays a completed
run appends `failed` or `blocked` to that run, which then is completed no more until
it is retried; a snapshot build that comes back to an earlier state returns the
earlier revision, so the latest revision of a day need not be its present state, and
builds with different cutoffs share the numbers; without the reviewability marker, a call whose first hash predates the
file that its sync read comes to an existing run and fails on its receipt.

## The proofs

`CatchUpRuns_proofs` proves for all sets of processes and markets and all bounds:

- `Typing`: `Spec => []TypeOK`, one lemma per action.
- `MutualExclusion`: `Spec => []OneCycleAtATime`.  The property is not inductive:
  `InCycle` says where a consumer is, not why it is alone.  `LeaseInv` adds that
  a consumer anywhere from its plan to its final event holds the lease, also on
  the second way in, through the drift block.
- `UnmixedCutoffs`: `Spec => []NoMixedCutoff`.  The invariant `CutoffInv` says
  that the sidecar is not ahead of the source, that nothing an actor remembers
  (cutoffs, projections, what its scopes have seen) is ahead of the sidecar, that
  these grow in the order in which they were read, and that every completed event,
  held or recorded, read one version.  Equal ends leave no room in between: if the
  last comparison finds the planned cutoff and the planned projection, every scope
  between them read that version.
- `DriftBlocks`: `Spec => DriftBlockIsObsolete`.  What a consumer was found to have
  drifted from is left behind: its key's cutoff is below the ledger, or its decisions
  are fewer than there are, and both only grow (`DriftInv`).
- `StaleClosings` (`Spec => []StalePendingClosed`), `AttemptOrder`
  (`Spec => []AttemptsInOrder`) and `OnlyLeaselessReopens`
  (`Spec => OnlyLeaselessEnqueueReopens`), from one invariant, `LedgerInv`.  The rows of
  a run have different dates and one of them is the newest (`RowsInv`); attempts grow
  with the dates and none is ahead of the number of starts (`AttemptInv`); the holder of
  the lease knows which runs are terminal, which are still to be closed, and the number
  of its attempt (`Knows`).  A producer without the lease inserts queued rows only, and
  none of this knowledge is about those.
- `LeasedClosings`: `Spec /\ [](EnqueuesAreLeased /\ flips < 2) =>
  ClosedInputsAreSuperseded`, the property of which `catchup_supersede` is a
  counterexample.  While every planner has the lease, plans and runs come in one order:
  no run is ahead of the plan that may close it (`PlanOrder`), so if one of the runs it closes were the
  current input's, the plan would be too, and a plan does not close its own run.  The
  second premise is needed because a market that was left can come back.

`PortfolioLedger_proofs` proves for all callers, openings, statements, anchors and
balances and all bounds:

- `LedgerTyped`: `Spec => []LedgerTypeOK`.  Ids are counted, so the invariant adds
  that the ledger is finite, and that a caller that opens holds an opening (the
  baseline is the date of its first row).
- `BaselineSplit`: `Spec => []BaselineSplits`.  The property says nothing of batches
  on their way nor of a ledger without a baseline, so it is not inductive.
  `AllChecked` says what each caller's check has established, against the baseline
  it read; `BaselineInv` adds that, until an opening is committed on a stale check,
  everyone on the way has read the current baseline, and that history exists only
  with a baseline.  An opening on a check that holds finds no rows but openings.
- `PastKept`: `Spec => PastStaysKnown`.  Rows are dated by the clock of their
  transaction and the clock only grows, so what is inserted later lies behind every
  cutoff that is over; `CashListed` adds that a caller about to insert a balance holds
  exactly one.
- `MoneyAccounted` (`Spec => []BooksBalance`) and `ViewsAgree` (`Spec => []CyclesAgree`).
  What they say of a replay is proved for every sequence of rows, in
  `PositionAccounting_proofs`, as `ReplayBalances` and `ReplaysAgree`.  A replay is a
  recursive function over the places of its rows; each is shown to be a run, in which
  every state follows from the one before by `PositionStep`, `CycleStep` or `LedgerStep`, and
  statements about it are inductions over the places (`UpTo`, by the least
  counterexample).  `Together` is the joint invariant of the three runs: they hold the same
  quantity, the remaining cost is what the open cycle has spent and not got back, the
  profit so far is that of the closed cycles, and the last ledger cycle is open when the
  position is.  What is left is that the sorted ledger is a sequence of all its rows:
  keys of rows are compared place by place (`LexOrder`), no two are equal because ids
  differ and numbers that differ have texts that differ (`IdsInv`, `TextsDiffer`), and a
  finite set with such an order can be numbered (`Ranking`, `Sorting`).
- `DaysReplay`: `Spec => []EveryDayReplays`.  What a booking has checked is the whole
  ledger with the anchors of its moment, and the property is about every day's ledger
  without anchors.  The inductive invariant `LedgerReplays` is that the whole ledger without
  anchors is accepted.  `WithinAccepted` leads from the one to the other and from there to
  every day: a sequence that is accepted is accepted up to every place, and when its
  rebases are left out, because they move no quantity.  For the snapshots `KnownReplays` keeps that of what
  was known at any second: what is booked is dated now, so an earlier second's ledger stays, and a
  later one's is the ledger that was checked.  A snapshot lists the rows of a security whose
  ids are of equal length as that ledger does (`SnapshotAccepted`).
- `CashTyped` (`Spec => []TypeOK`): a projection always finds a snapshot to start from, the
  sum over the later flows is an integer (`FlowSumType`, an induction over the set that is left),
  and a negative one is refused.
- `StatementCashShown`: `Spec => StatementShowsCash`.  Snapshots are not inserted in the order
  in which they are shown.  `CashInv` says why the latest one calculated still is in front
  when it has to be: none is of a later second than now, and none that was calculated is of a
  later day than the last flow, so a new one is the last of its kind; and no confirmed
  balance is of a later day than the one the projection starts from.
- `OlderHistoryHarmless`: `Spec => OlderHistoryLeavesPositions`, which compares two replays
  whose rows are merged differently.  Both ledgers are parted on the baseline's day: the
  rows before it are listed before the rest (`SortedSplit`, `DayParts`), and the rest is the
  same.  A replay ends with what its rows have bought less what they have sold, whatever
  their order (`QtyIsUnits`: one unit for each share, counted as a set, so that sets of rows add
  up); a self-contained batch adds nothing to it (`BatchBalances`), so on the eve both
  ledgers hold nothing.  Who holds nothing at the end of a day has no cost left and no open
  cycle (`NothingLeft`), and from two such states the same rows lead to the same position
  (`RunsOn`).

- `CleanPreview`: `Spec => []CleanPreviewBooks`, on finding 3.  A batch that a preview
  accepted can be booked as long as the ledger is what the preview saw, if none of its rows
  shares security, date and time with a booked one, and booked or new entries that share them have
  ids of as many digits.  The invariant `PreviewInv` keeps for each caller that
  the batch replayed on the ledger it saw: rows are only added, so an equal version is an equal
  ledger.  The preview sorts the batch's rows by their places and the ledger by the ids
  they get; places and ids grow together, so the two sortings are one (`PairsOrder`), unless
  text and number order of ids differ.
- `SnapshotShows`: `Spec => []CleanSnapshot`, on finding 7.  A snapshot without a cutoff
  has of a security what `show --as-of` replays for that day, unless a cost anchor of that security
  counts by then or tied entries of it have ids of different lengths.  Both
  ledgers' rows of the security are the same in the same order (`CutAtDay`, `DayOfSorted`),
  and `OwnReplay` (in `PositionAccounting_proofs`) says that a replay of a security
  depends on nothing else.  The same theorem is why the module may replay one security at a time
  where `build_position_states` does all of them in one pass.

These assume `InputAssumption`: dates are positive numbers, statements are rows of
trades, openings are non-empty and of one date, amounts are integers, which the code
checks or parses.

The theorems of the run ledger assume `CatchUpConstants`, which TLC evaluates in every run of the module:
disjoint processes, a holder that is nobody, natural bounds, at least one scope
and one market.  The invariants were model-checked before they were proved.

`SourceSync_proofs` proves for all callers, trades and bounds:

- `SyncTyped`: `Spec => []TypeOK`, with the runs that are open listed once each.
- `Mirrors`: `~ Ties \/ MaxEdits = 0` implies `Spec => MirrorsSource`, the
  refinement of `SourceMirror`.  `VersionInv`: every snapshot is a published version; if
  nothing was edited the versions form a chain, so an import on top of another leaves the
  larger; if no two imports tie, the rows the next import compares itself with are those
  of the sidecar, so rows that were removed are noticed.  The hypothesis excludes the case
  where neither argument holds: among imports of one second the order is by random ids,
  the comparison may be with the older one, and after a row was deleted by hand the
  sidecar can come to hold rows that no version had together.
- `SuccessCurrent` (`Spec => SuccessIsCurrent`) and `BlockedTwice`
  (`Spec => BlockedOnlyIfMovedTwice`).  `Progress`: what a caller has copied stays there, and
  its first attempt knows of no move of the source, its second of at most one.
- `HealthyComplete`: `Spec /\ [][EndsRecorded]_vars => []HealthyHasFees`.  `FeesInv`: if
  rows are in the sidecar without their projections, then the last closed run failed and
  none that succeeds is waiting, or the run that brought the rows is open and behind
  every run that waits to close as succeeded (`Owner`); and no run that has yet to import can
  add rows behind a later one (`OutrunImports`).  `EndsRecorded` is a premise on behaviours:
  every call that ends has its status saved.  Without it the property is false: a
  process that dies between the import and the fee plan, or an exception while the
  failure is recorded, leaves a healthy status without fees (see the findings).  TLC
  checks the property with the exceptions that are recorded.
- `PlansNeverClash`: `~ Backdated /\ Spec => []PlansFit`, on finding 2.  If every commit is
  later than what is booked, then, until a row is edited by hand, no version of the
  ledger has a fee plan that conflicts with a saved projection.  `PlanInv`: what one
  version has and an earlier one has not is later than all of the earlier one, so a
  trade's samples are the same in every version, and every saved projection is of a version.

`CatchUpRuns_proofs` also proves, of `ReviewWorker`, `NoLostWakeUp`:
`WorkerSpec => []NothingOverslept`.  The invariant covers the steps in between: whenever the worker sleeps or is about to, work
that is there has the event set, or has a caller that is about to set it.

`MarketCache_proofs` proves `OneResolution`, `SameToAll`, `SourceNamed` and
`NotAskedAgain`, from `MarketConstants` and `ResolutionConstants` (sorts of the
constants, no component wanted twice).  Behind all of them is that two threads that
hold a lease have different requirements, so what a thread has seen unresolved under
its lease stays so until it freezes it; for `SourceNamed`, versions only grow, so equal
hashes before and after a read mean that the rows in between are of that version.
`WithinCap`, `NoLeak` and `MarketTyped` are about `CapHolds`, `NothingLeaks` and
`MarketTypes`.  `BudgetInv` says what the counters of a run are at every moment: what is
reserved is the sum of what its threads have reserved, what is taken of the slots is the
number of its threads that hold one, and what was sent is paid for or charged to a thread
that has not settled.  A sum over threads is the cardinality of a set of tokens, one
for each unit a thread holds, so that a step adds or removes one thread's tokens; there may
be infinitely many threads, since at any time only finitely many hold tokens.

`ReviewRun_proofs` proves `RunTyped`, `OneVersionPerReceipt`
(`RunSpec => []CompletedIsOfItsKey`) and `NeverRerun`
(`RunSpec => []CompletedIsNotRerun`), from `RunConstants`.  `RunInv` orders what an
attempt holds: its first hash is at most the version the sync read, that is at most
what the artefacts were built from, and that is at most the present file; the gate
finds the last equal to the first, so all are equal.  Create-or-compare keeps one set of
artefacts and one receipt in each directory, and a completed event names a receipt
that is there.  `NotRerun` adds that what a call remembers as completed is completed,
and that an attempt enters a run only when it finds it otherwise.  `EqualReceipts`
(`RunSpec => []EqualWorkEqualReceipt`): a run has one registered row, whose trigger all its
attempts and receipts carry (`Owned`), and its artefacts are one set; so what is left to
differ in a receipt is what the attempt did in its sync and how often it asked the market,
which is the property's premise.

`ReviewCommands_proofs` proves `AnswersTrue` (`CommandSpec => []AnswersStayTrue`) and
`LastFeeEffective` (`CommandSpec => []EffectiveFeeIsLast`), from `CommandConstants`.
Rows and files are only ever added, and ids are unique; a row on its way to the INSERT
keeps following its parent, because the parent is there and nothing else gets its id.
`OneProcessChain` proves `CommandSpec => []OneProcessKeepsChain`: a thread that is to write
a revision holds its process's lock, and what it has read is still the chain's longest
revision unless another process has written (`ChainInv`).  `CommandTyped` proves
`CommandTypes`, with its counts of rows per id.  `ServicesTyped` is about the composition
`MCServices`: `Spec => []ServiceTypes`.  Each service shows only behaviours of its own
there (`EachRunsItself`), so its type invariant, and every other theorem about it, holds.

`PeriodicReports_proofs` proves `ReportTypes` (`PeriodicTypes`), `NoGaps`
(`PeriodicSpec => []NoDaySkipped`) and `OneVersion` (`PeriodicSpec => []OneVersionPerRun`),
from `PeriodicConstants`.  A day priced in time that lies before one a run has still to do is
stored, or the run has it to do as well, now and whatever the other processes store and
whichever days get prices meanwhile (`DayInv`); as a run stores its first day first, none is left out; whatever was read since the first hash is a version from it on, so a hash that is
found unchanged leaves one version (`SeenInv`).  `OneDayEach`
(`PeriodicSpec => []OneDayPerInterruption`) bounds finding 5: the days that lack an
instrument's report are at most as many as the interruptions, so races and refused ranges leave none.
What a run has counted as stored of its day is stored (`CountInv`), and only an interruption leaves
a day half stored.

What stays with TLC:

- liveness (`StableInputSettles`, `LeasedEnqueuesAreReviewed`, `SyncRecovers`) and
  `ENABLED`, which the prover does not handle;
- `OnlyMisfitsBlock`, of which only what `DaysReplay` needs is proved: that without
  anchors the ledger replays;
- `MirrorsSource` with ties and edits at once, and `HealthyHasFees` without its
  premise, where they are false.

## Not modelled

- Behaviour hypotheses and observation protocols: append-only human review events of
  the sidecar, of one process, with the checks that `ReviewCommands` has for decisions.
- `record_included_statement`, transfers, the storing of snapshots, the performance
  report and migrations of the portfolio ledger; parsing of statements and quotes.
- Operation checkpoints and the catalog of finished runs; the contents of reviews.
- The health ledger of ingest: `execute_adapter_run_queue`, which records successes and
  failures, and `should_attempt` are called by tests only; the programs read the ledger
  to choose sources, or save an empty one.
- The text of reports, reviews and narratives, canonical forms and hashes, provenance
  validation, vendor data, rendering, and the research pipeline.

Most of the repository's lines are of the last kind: they transform and validate data
in one pass, with no protocol between actors and no state that outlives the call.  That is
why the mapped lines are a small share of the whole although every part with
concurrent or persistent state is listed above; a model of the rest would be a second
implementation of it.
