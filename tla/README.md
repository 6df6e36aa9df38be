# Verification of the Motis quant terminal

TLA+ modules for the concurrent core of the terminal: the durable job queue that runs all
research work, the signal discovery sessions it serves, the live execution of a trading route (its
scheduler, its wakes, its orders, its pause rules), and the four simulators that decide which trades
a candidate is credited with.
TLC checks them on small instances; TLAPS proves the main safety properties for all values of
the constants. `PROJECT.json` lists components, runs, mutants, hazards and theorems, and maps
every definition to the lines it models.

Paths: `A` is `src/apps/api/src/quant_terminal_api`, `W` is `src/apps/worker/src/quant_terminal_worker`.

## 1. The system

| part | state it keeps | operations | module |
|---|---|---|---|
| Job queue: `A/repositories/runtime.py` 76-366, `A/job_dispatch.py`, `W/celery_tasks.py`, `celery_app.py`, `jobs.py` | table `jobs`, Celery messages, heartbeat threads | enqueue, dispatch, claim, heartbeat, requeue, complete, fail, cancel | `JobLease`, `JobQueue` |
| Route scheduler: `W/execution/scheduler.py`, `A/main.py` 2501-2631 | dictionary `_timers`, `scheduler_status`, `archived` | start, stop, archive, delete, promote, resume, timer thread | `RouteScheduler` |
| Route cycle: `W/execution/{lifecycle,wake_runner,decision_cadence,canonical_signal_admission,order_submission}.py`, `W/adapters/okx.py` | `risk_limits` (decision cursor), `wake_runs`, `owner_states`, `live_signal_observations`, orders and position at the exchange | cycle, wake, manual submit | `LiveRoute` |
| Pause rules (`wake_runner.py` 575-1145) | counters and deadlines in `risk_limits` | update from exchange closes, entry check | `PauseRules` |
| Signal discovery (`runtime.py` 40-66, 1213-1365; `main.py` 1100-1560; `jobs.py` 330-1200; `W/signal_discovery`) | `signal_discovery_sessions`, checkpoint, atlas, brackets and target files | atlas, approve, freeze, walk forward, attach, evaluate, hand off, delete | `DiscoverySession` |
| Trade simulators (`W/stage3/{grid_search,pyramid}.py`, `W/stage4/{realized_expectancy,portfolio_backtest}.py`) | legs, stop, exit of one trade | a candle, the cutoff, the end of the data | `TradeReplay` |
| Wake times (`lifecycle.py` 114-173) | `next_wake_at` | aligned candle close plus grace | left open by `RouteScheduler` |
| Signal pools (`runtime.py` 557-1083, `W/ingestion/signal_pool_extension.py`) | `signal_sets`, `signals`, coverage | extend, replace, canonicalise, delete with blockers | opportunities of `LiveRoute` only |
| Stage 0-4 research (`main.py` 1578-2365, 2751-3080; `W/stage0..4`) | `stage1_research_sessions`, artifact files | score, promote, grid search, expectancy | the trades only, in `TradeReplay` |
| Bundles and promotion (`main.py` 2366-2402) | `execution_bundles`, bundle files | materialise, promote | row reset only, in `RouteScheduler` |
| Market data, ingestion, engines, strategies, training, front ends, migrations | files, caches | downloads, numerics, display | not modelled (section 11) |

How they interact. Requests enqueue jobs; a job is a row and, with the Celery backend, a
message naming it; a worker claims the row and heartbeats while it executes. Jobs extend signal
pools and produce the bundles that promotion turns into a route. A started route has a timer in
the API process. Its thread runs a cycle: warm the data, extend the pool, snapshot the exchange,
decide, record a wake, submit its order intent. Operators start, stop, wake and submit by hand
in request threads of the same process.

What is hard. The database runs at READ COMMITTED and most repository methods SELECT, test in
Python and UPDATE by primary key, so another transaction comes in between. Celery acknowledges
late, so messages are redelivered. Cycles work on a copy of the route document that they read at
their start, and write back whole JSON columns. A call to the exchange can fail after it took
effect. Threads die with the process between any two transactions.

What makes each part correct:

* queue: one live worker per job, no job lost, settled jobs stay settled, one active job per scope;
* scheduler: a running route is always woken again, a stopped one soon never;
* cycle: an opportunity is entered at most once and only in time, none is skipped unseen, a
  position always finds an owner state and a protection order again;
* pause rules: what is saved is a function of the closes, no entry in a pause the cycle could know of;
* sessions: files and row agree at every status, whatever dies in between; a running status ends;
  only an accepted evaluation of the frozen target is handed off;
* simulators: a candidate is credited by one stage with the trades the next one replays.

## 2. Plan

1. `JobLease`, `JobQueue`, proofs and refinement — done.
2. `LiveRoute`: the wake and the orders, proofs — done for one intent per wake.
3. `RouteScheduler`, proofs — done.
4. `DiscoverySession`: the transition table, the jobs that crash and resume, the files, proofs — done.
5. `PauseRules`, proofs — done.
6. `TradeReplay`, proofs — done for one trade.

Worth doing next: a composition of `RouteScheduler` and `LiveRoute` (a duplicate chain of timers is a
second cycle thread; a promotion resets the cursor under a cycle); `SignalPool`, for the deletion that
races a new user of the pool; the choice of the next signal in Stage 4 and in the portfolio.

## 3. Job queue

Rows are `1..MaxJobs`; `status`, `scope`, `lockedBy` are columns. `lock_expires_at` and
`heartbeat_at` are always written together, so one age `beat` stands for both, counted in ticks:
a row is expired when `beat > LockPeriod` (900 s in the code), cancellable when stale after
`StalePeriod` (60 s). `messages[j]` counts the Celery messages of a row. Claims are one step (they
lock the row); `EnqueueSelect`/`EnqueueInsert`, `CancelSelect`/`CancelUpdate`,
`BeatSelect`/`BeatUpdate` and `FinishSelect`/`FinishUpdate` are the two halves of the methods that do
not. An enqueue also requeues expired rows (`EnqueueRequeue`), inside its own transaction: `Held`
rows are updated but not yet visible. `RaiseBeforeClaim` is Celery's `task_failure` handler, which
fails the job of a task that raised before claiming. `Redeliver` is the broker's visibility timeout.

Runs:

* `celery` (2 jobs, 2 workers, 1 API thread, 1 fault): types, `FreshWorkerOwnsClaim`,
  `RunningIsReclaimable`, `OneActivePerScope`, `NoResurrection`, `ImplementsLease`.
* `database` (polling, 1 fault): `ExclusiveExecution` and `EveryJobSettles`: every poll requeues
  expired rows, so a crash only delays a job.
* `retry` (Celery, 2 faults, a client that asks again): `EveryJobSettles` though messages are lost or
  skipped, and `FreshWorkerOwnsClaim` though the row is dispatched again and again.

Without a retrying client the Celery backend can strand a job: the message redelivered after a
crash finds the lock not yet expired and is skipped. That is why `EveryJobSettles` is checked with
faults only where the backend polls or a client retries.

Two promises hold with a premise only. `OneActivePerScope` needs a single thread that enqueues:
`enqueue_job` selects and inserts without a lock or a unique index (`models.py:56` is a plain index), so
two requests for one scope can both insert; `test_runtime_repository.py:304` states deduplication for
calls one after the other. And `cancel_job` tests the status it selected and updates by key: a claim
in between is overwritten, and a job a worker has just started is cancelled
(`test_runtime_repository.py:400` says only queued jobs are). The model has both interleavings.

Bounds: two jobs give a requeue something to requeue besides the job at hand; two workers are
needed for a takeover; one fault is a crash, a lapse, a lost dispatch or an error at any step, and
`retry` has two. `LockPeriod = 1` and `StalePeriod = 0` keep lock longer than stale and stale longer
than a transaction. `MaxMessages` bounds enqueues of one row, not redeliveries.

## 4. Live route

One route with account mode `live` and a pinned decision cadence. Opportunities are numbered by
timestamp; `latest` is the newest at or before the last confirmed candle, `stale` the newest whose
late arrival grace is over. A cycle is a thread with a program counter: `BeginCycle` reads the route,
`TakeSnapshot` the exchange, `LoadPending` the pool; `ConsumeExpired`, then `ManagePosition`, `Flat`
or `ConsumeBlocked`, then `SelectSkip`/`SelectEntry`, each observation followed by `Persist`, which
writes the cursor from the thread's copy; `RecordWake`; then `AutoSubmit`, `CancelProtection`,
`Place`, `PostFill` or `EnsureProtection`, `StoreResult`, `CreateOwner`. `ManualSubmit` enters the same
path from a request thread. `orders[w]` is the exchange's record of the client order id of wake `w`:
once seen it is refused again. `Place` may fail before or after the order was accepted. `Raise` ends a
thread at any step, `Crash` ends all of them. Gates and `auto_submit` are read as found on or off
when `SwitchesTurn`, so operators may turn them between any two reads.

A wake row keeps one intent: `ENTER`, `ADD` (completion or pyramid), `EXIT`, `PROTECT`; its result is
abstracted to `answered`, because nothing in the code tells `submitted` from `submission_failed`
except the reader. `Management` is the order of `_run_position_management`: exits, then missing
protection, then adds. `Unresolved` is the case without a protection policy, a fault.

Runs (one fault each: crash, raised error or failed call anywhere):

* `live_orders`: one cycle thread, one manual submission, two intents, one signal, gates that turn.
  `TypeOK`, `EnteredOnce`. The same wake is submitted by both threads and retried after a crash.
* `live_cursor`: two signals, three intents. `NothingSkippedSilently`, `NoLateEntry`. Two signals let one
  expire while the other is entered, skipped or blocked. The load does not fail here: when the first
  load of the pending signals raises and the second one in the same wake succeeds, the select branch
  does not test the grace and a late opportunity is entered (`wake_runner.py` 407, 1271), against
  `test_execution_wake_runner.py:282`. `live_orders` has failing loads.
* `live_progress`: `OneOpenOwner`, `PositionGetsOwner`, `PositionGetsProtected`, gates open.
* `live_overlap` (violated): a manual wake beside the timer's cycle; both find no earlier entry.

Bounds: one episode is a position that opens, loses or gets protection and closes; a second only
reuses cleared state. `MaxWakes` counts intents that still matter: rows whose order is dead and
that nobody holds are reused (`Free`), entries never, so the duplicate test always sees them.
Deadlock is not checked: when all rows are taken and may not be reused a cycle cannot record.
`live_progress` would show that as a violated liveness property, and does not.

Fairness in `FairSpec`: the scheduler starts cycles again and again (which `RouteScheduler`'s
`KeepsWaking` shows for a running route), threads run on, and reduce-only market orders fill. No
fairness is assumed of entries, faults, new signals, or anything an operator does.

## 5. Route scheduler

`entry` is the route's slot in `_timers`; every timer and request is a program counter. `Fire` is the
timer thread starting, `Pop` drops whatever entry is there, `Load` and `Reload` test the row,
`Cycle` is `run_cycle` with its `except`, `Cancel` and `Register` are the two critical sections of
`_schedule`. The endpoints are split at each dictionary access and transaction. When a timer fires
is left open, so `next_wake_at` is not a variable.

`route_scheduler` (two timers, two requests, one fault, deadlock checked):

* `RunningIsScheduled`: a running route has a timer, or a start or stop under way, unless a database
  error killed a thread (`lost`; the code has no remedy for that but start or a restart).
* `EntryIsAlive`: the dictionary never refers to a timer that ended.
* `KeepsWaking`: a route that stays running is woken for ever, once no request is in progress.
* `StoppedDrains`: a route that stays stopped loses every timer, including those that a race of two
  schedules dropped from the dictionary. The code does create such orphans: a fired timer pops the
  entry of a newer one, and a running route then has two chains. They are harmless to the scheduler,
  but they are the second cycle thread of `live_overlap`.

Fairness: timers fire and threads run on. Faults and operators are not fair. Two timers suffice for
an orphan beside the registered one, two requests for a start racing a stop, archive or delete.

## 6. Signal discovery session

One session: `row` is its record in the database, `disk` its directory, `job` the active job of its
scope, `worker` the process that executes it, `request` the API threads. `update_signal_discovery_session`
selects the row, tests the transition (`Transitions` is `_SIGNAL_DISCOVERY_TRANSITIONS`) and updates by
key, so each update is a check and a write; `Legal` and `TargetFree` are the tests. Files are written
through a temporary file and a rename, so each is one step: `WritePart` and `WriteCheckpoint` for
every risk value, `WriteLabels`, `WriteFeasibility`, `WriteRows` and `WriteContract` of the brackets,
`CreateFile` of the target, `Replay`. `Begin` to `Publish` are the jobs of `W/jobs.py`, `Raise` any error in
them, `Fail`/`FailWrite` the handler that records it, `Crash` the end of the process; the job then runs
again from `Begin`. Contents are compared, never computed: evidence is the fingerprint of the data,
a policy stands for the target coordinates and the bracket rows made from it.

`discovery` (one request thread, two risks, two data contents, two candidates, two policy revisions,
two faults):

* `CheckpointCovered`: the checkpoint names only parts that are on disk.
* `ReadyMeansPublished`: past the atlas, every final file is there and has the row's evidence.
* `FrozenFileAgrees`: the row's target is the one in `frozen_target.json`.
* `ReplayIsOfTarget`: what candidates are evaluated on is a replay of the frozen target.
* `HandoffWasAccepted`: what is handed to Stage 0 had an accepted evaluation, of that candidate.
* `RunningEnds`: a running status ends, unless the job was cancelled, its last error could not be
  recorded or the session was deleted (`abandoned`, `wiped`).

`discovery_frozen` (two request threads, violated): `FrozenBracketsKept`. An approval that passed its
status test before a freeze writes its brackets after it.

With two threads `HandoffWasAccepted` is violated, too (`DiscoveryFrozen.cfg` with this invariant shows it in a
minute). A second attach tests the status while the first candidate waits for its evaluation, and writes
between the test and the write of the evaluation's result: `update_signal_discovery_session` takes no lock,
and a candidate may be attached again. The row then holds the second candidate beside the verdict on the
first, is accepted, and the second, never evaluated, is handed off, though `main.py:1566` says "Only accepted
candidates can be handed off". No fault is needed, only a request that outlasts the evaluation.

Fairness is `WF_vars(WorkerStep)`: the job is claimed again after a crash and its worker runs on, which
`EveryJobSettles` and `FreshWorkerOwnsClaim` of the queue provide; nothing is assumed of requests. That
there is one worker is `ExclusiveExecution`. The run has one request thread because the code promises
no more: an attach or a delete that passed its test before another request's update can overwrite
it. The theorems say which properties hold for any number of them. Bounds: two risks let a worker
die between two parts; two contents of the data make a checkpoint stale; two revisions let an
approval follow another; `MaxSessions` is one, since a deleted session leaves nothing but `wiped`.

## 7. Pause rules

`closes` is the exchange's history, `rules` the document in `risk_limits`. A cycle copies the document at
`Start`, reads the last `Page` closes at `Snapshot` (or none, when the query fails), updates the three
rules, saving the whole copy each time, and looks the pauses up in its copy at `Check`. A close stands
for the fills of one exit, so the filters on side and reduce-only, the fees and partial fills are
left out; closes are named by their order, as the code names them by fill id and time.

`pause` (two threads, three closes, a page of two, two hours, one fault):

* `LossStateIsHistory`: as long as no close left the page unseen, the saved state of the rule for
  losses is the one its last processed close implies, whoever overwrote whom.
* `WinsCountedOnce`: the rule for wins counts no close twice; it may miss one, because it counts only in
  the cycle that closes the owner state.
* `NoEntryInPause`: no position is opened in a pause the cycle could know of.

Two threads are what overwriting takes; a third close is what pushes one off a page of two, and what
distinguishes a series of two from its restart. A counter is not reset when its pause triggers: a
third loss in a row starts another pause. The state's own record names `"counter_reset":
"on_opposite_result_or_trigger"` (`realized_expectancy.py` 470), and the Stage 4 replay does reset (347).

## 8. Trade simulators

`TradeReplay` gives one signal and one sequence of candles to the four simulators at once: the grid
search and the pyramid search of Stage 3, the replay of Stage 4 and the portfolio backtest. Each
operator `...Candle` is the body of one simulator's loop in the order of its code. Prices are distances
from the reference price in the direction of the trade, so a SHORT is the same trade, and
percentages of different prices add up; the average weighted by notional is then the plain one. A
candle is a low, a high, a close between them and the sign of its body. `WindowCandle` reaches all
four, `LateCandle` the portfolio only, `Gap` is a missing candle, `Cutoff` and `DataEnds` end the loops.

`trade_replay` (every candle over ten prices, three candles to the cutoff and one after it, one or two
legs, with and without breakeven and protection):

* `GridMatchesStage4`, `PyramidMatchesStage4`: a candidate of one leg, or without protection, is replayed
  by Stage 4 with the same stop at every candle, the same legs and the same exits.
* `PyramidNeverOverstates`: the pyramid search books a leg that a breakeven stop closed above its entry
  as a loss; otherwise it books what Stage 4 gains. So it errs on one side only.
* `PortfolioMatchesStage4`: a plain candidate ends in the portfolio as in Stage 4, except that the
  portfolio closes at the candle of the cutoff before it looks at the levels.
* `PortfolioExitsNoLater`: it protects and tests the new stop on the same candle, Stage 4 on the next;
  it may be out earlier, never later.

The levels are chosen so that the trigger lies below the target and the protected stop between
entry and trigger, and one candle can reach both. With pyramid legs the portfolio follows other rules
(shared target, next leg at a multiple of the step from the average), and no agreement is claimed. Nor
is one of the choice of signals: Stage 4 skips a signal that is not after the last exit
(`realized_expectancy.py` 351), the portfolio opens it on the candle that closed the position.

## 9. Findings

`live_overlap` and `discovery_frozen` show places where the code does not do what its docs state;
`PROJECT.json` quotes the lines. Sections 3, 4 and 6 name four more, next to the runs that need their
premise.

## 10. Proofs

All for any value of the constants, from the named assumptions of each module.

`JobQueueProofs`. `FreshWorkerOwnsClaim` is not inductive: it needs the clock. `ClaimInv` adds that the
age of a claimed row never passes the time its worker has been quiet, so the lock cannot expire
before the worker counts as silent; `RunningIsReclaimable` is needed for the requeue. `IInv` is the
conjunction of `TypeOK`, `RunningIsReclaimable` and `ClaimInv`. From it: `TypeCorrect`,
`RunningReclaimable`, `FreshOwnership`, `Exclusivity` (two live workers would both be named by
`locked_by`), `SettledForGood`. `Deduplication` proves `OneActivePerScope` when a single API thread
serves enqueues, with an invariant that the scope a request is about to insert stays free.

`JobQueueRefinement`. Every step maps to a step of `JobLease` or a stutter: requeues to `Reclaim`,
claims to `Grant`, lapses and crashes to `Release`, results and cancels to `Settle`. `NoGhosts` is
added: requests and workers refer to rows that were inserted.

`LiveRouteProofs`. `TInv` strengthens `TypeOK` with what each step may assume of a thread's record (a
submitting thread has a wake, a managing one a position). `NothingSkipped`: `SkipInv` says that every
copy of the cursor, the value about to be persisted, and the signal of each entry are covered by
observations; so a slow cycle that writes an older cursor cannot break the property. `EntersOnce`: for
a single cycle thread, `OnceInv` says that a pending entry is the thread's own, comes after every
recorded one, and that recorded entries have distinct signals; a second order of one wake is refused by
its client order id. The premise is an assumption of the theorem, and `live_overlap` shows why.

In the same module, `EntersInTime` (`NoLateEntry`, any number of threads): `LateInv` says that a thread that
chooses an entry has consumed all expired opportunities it loaded; it assumes `LoadMayFail = FALSE`,
because the second load skips the test. `OwnsOnce` (`OneOpenOwner`): `OwnerInv` says that no owner state
is open between the choice of an entry and the creation of its owner state. The premise `OneThread`, one
cycle thread and no manual submission, is needed: a manual submission between a position's adoption and
`create_owner_state` leaves two.

`RouteSchedulerProofs`. The three invariants are inductive with `TypeOK`. The argument for
`AlwaysScheduled`: whoever ends a chain saw the row not running, or cancelled it on the way to stopping
it or to registering another timer.

`DiscoverySessionProofs`. `CheckpointCovered` and `ReadyMeansPublished` for any number of requests, risks,
policies, sessions and faults. The invariant says for every step of the worker what is on disk by
then, and for every request which statuses its check has seen; a request that writes a status past
the atlas saw one past the atlas, and only the directory's removal takes files away.

`DiscoveryTargetProofs`, for one request at a time (`OneAtATime`): two freezes that overlap both find no
file and the second overwrites the first. `FrozenFileKept`: a file is created only for a row without a
target (`TargetInv`). `ReplayKept`: `ReplayInv` says who has seen a replay of the row's target: the row
past its walk-forward, a request that attaches, a worker that evaluates, accepts or hands off; a
walk-forward worker holds the target of the row, which never changes once it is set. `HandoffsWereAccepted`
rests on two invariants that need neither the directory nor the history `wiped`. `ScopeInv` keeps the job
and the one thread apart: a thread that is about to attach, to freeze or to ask for an evaluation found a
status at which the active job, if any, can no longer begin, or is an evaluation that has its result.
`VerdictInv` follows the verdict from there: while an evaluation is under way the row has the candidate and
target it works on; an accepted evaluation in the row is of the row's candidate and target (`Backed`), and
so is the one in the copy an export works on. With two threads the first part fails: section 6 shows how.

`TradeReplayProofs`, for any levels, any window and any set of prices. `GridInv` states that the Stage 4
trade of one leg is the grid's, record for record; `SoonerInv` that the portfolio is protected and out
no later; `PlainInv` the ways two plain trades can differ. They are proved together, one lemma per action
and simulator (`OneCandle`, `PortfolioOneCandle`, ...). `PyramidAgrees` is for any number of legs: `Alike`
relates the two records leg by leg, and each of the two halves of a candle, and the hard exit, keeps it.
`PyramidBooksNoMore` adds `Scored`: the books of the search are at most the gains of the legs it has closed,
and equal to them while the stop is the initial one, below every entry. A candle books for each leg what
that leg gains or less, so the proof needs sums: the library's fold is the value of a function defined by
choosing members, which `FoldExists` shows to exist and `FoldsAgree` to be unique on every finite set;
from there a sum does not depend on the order (`TotalWithout`), ignores zeros (`TotalOfPart`) and respects
`<=` (`TotalsAtMost`). Each is proved by a smallest counterexample (`Smallest`), since the library's
induction theorems take an operator. `RecordsTyped` is `TypeOK` of the four simulators.

`PauseRulesProofs`, for any number of cycles, limits and page. `IInv` says of every copy of the three
rules, the one in the row and those the cycles carry, that it is true of the closes up to the one it
processed last (`RouteFits`); so it does not matter which copy a slower cycle writes over which, and an
older copy is still one to count on from. `CycleFits` gives what the order of the steps gives: a cycle's
copy is never ahead of its page, and reaches the page's end at the rule's step. `RulesTyped`,
`LossesAreHistory`, `WinsAreCountedOnce` and `EntriesKnowPauses` follow. A run of losses is split at the
close processed last, the wins of a page at the close after it; the finite sets they count are intervals.

Only model-checked: the liveness properties (`EveryJobSettles`, `PositionGetsOwner`,
`PositionGetsProtected`, `KeepsWaking`, `StoppedDrains`, `RunningEnds`), which need fairness. Every
invariant and action property of the passing runs is proved.

## 11. Not modelled, and why

Protection prices, sizes and legs of a live position: numbers the properties above do not tell apart.
Routes without a pinned cadence and paper routes: they take the other branch of the scan and have no
cursor. Wakes with several intents: the built-in decisions make one. A manual submission that creates
an owner state after a cycle adopted the position: the code then has two, and no doc denies it.
Truncation of client order ids (64 characters): ids are unique per wake here. The duplicate test reads
the last 25 and 100 wakes only; `MaxWakes` is below that. Signal pools: bulk SQL; a pool is deleted after
its blockers were read in another transaction, so a new user of it can lose it. Fees, slippage,
leverage, cash, adverse fills, ATR levels and the timeout policy `zero` of the simulators. Market data,
ingestion, engines, strategies, scoring and training: transformations of files and floating point
series without concurrent state. Front ends keep no state the properties depend on. Migrations
run once, offline.
