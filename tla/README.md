# ExitMe: formal models of the trading back end

ExitMe keeps a portfolio that follows a mechanical strategy. It computes a daily
order sheet, sends the sheet to the broker (KIS) at 09:01 without anybody
watching, registers the executions in a ledger after the close, and shows all of
it on a dashboard. This directory holds TLA+ models of the back end
(`apps/api/app`), the TLC runs that check them, and TLAPS proofs.

Line numbers below are those of `src/apps/api/app/`, unless a path is given.

## 1. Inventory

| Component | Source | State | Model |
|---|---|---|---|
| Unattended execution | `autoexec.py` | `portfolios.params.auto_exec` (JSON: paused, streak, last run, skip date), `broker_orders` rows with mode=auto, account flags, Redis keys of the day lock, the retry lock and the 08:45 balance | `AutoExec`, `DayOrders` |
| Broker accounts and order routes | `broker.py` | `broker_orders` of reservations and manual orders, `broker_syncs` | `Orders`; import of executions in `Ledger` |
| KIS client | `services/kis_client.py` | per-second counters in Redis, a client per request | `Access`; paging in `Market` |
| KIS token cache | `services/kis_auth.py` | token in process and in Redis | `Access`, `TokenDay` |
| Portfolio ledger | `portfolios.py` | `trade_transactions`, `position_lots` | `Ledger` |
| Dashboard, snapshots | `dashboard.py`, `services/snapshot_repair.py` | `portfolio_snapshots` | in `Ledger`: when they are taken and repaired |
| Order sheet and freeze | `signals.py` | `portfolio_plans` (one per portfolio and day), frozen mark | `Sheet`; live TF and LTM sheets in `Trend` |
| Lots and tags | `lots.py` | none (pure) | `Planner`, `Ledger` |
| Strategy engine | `strategy/*` | regime automaton, simulated account | `Planner`, `Trend`, `Amounts` |
| Backtest jobs | `backtests.py`, `worker.py:270-360` | `backtest_runs` rows, Redis snapshot key and channel | `BacktestJob` |
| Worker and schedule | `worker.py` | Celery queues (`acks_late`), beat times | its tasks, in the modules of the components |
| Manual journal | `mjournal.py` | journals, entries, links | `Journal` |
| Cash check | `cashcheck.py`, `broker.py:940-1010` | last comparison in `params` | `CashCheck` |
| Market data, signals | `services/ingest.py`, `services/calendar.py`, `signals.py:46-195` | bars, trading days, `signal_snapshots` | `Market` |
| Notification, activity | `notify.py`, `activity.py` | `user_settings.notify`, log table | `Notify` |
| Authentication, settings | `auth.py`, `settings.py` | sessions, preferences | the notify settings only |
| Quotes, pre-open watch, regime view | `quotes.py`, `preopen_watch.py`, `regime_view.py` | caches | none |
| Chat assistant | `chat.py` | conversation | none |
| Models, database, start-up | `models.py`, `db.py`, `main.py` | schema, session factory | session semantics, unique indexes |
| Web client | `apps/web` | browser state | its requests are the users' actions |

### How they interact

* **Celery** delivers the 09:01 run, the 09:15 watchdog, the ingest and signal
  batches, the 07:00 token task, the post-close sync, the status messages and
  the backtests. Tasks are acknowledged late (`worker.py:29`), so a worker that
  dies makes its task come again, and two deliveries can overlap.
* **HTTP handlers** run at the same time as the tasks, each in its own database
  session. Sessions are created with `expire_on_commit=False` and
  `autoflush=False` (`db.py`) and nothing locks a portfolio row, so a session
  works on the JSON state it loaded first and writes the whole of it back.
* **Redis** carries the only mutual exclusion between processes, the day lock
  (6 hours, never released) and the retry lock (60 seconds, never released), and
  the shared token and rate counters. An error of Redis counts as having a lock
  and as being below a limit.
* **The broker** changes at once, the database at the commit. Between the two a
  process can die, time out, or be overtaken.
* The **ledger** learns of executions only when they are imported, normally after
  the close. The unattended run compares the account with the ledger before it
  orders; the journal and the cash check compare their own books with the account.
* The **order sheet** is computed from the last collected bar and the ledger
  before a cutoff; the unattended run freezes it, screens show it.
* The **backtest** and the live sheets use the same strategy code in part, and
  code of their own in part.

### What is hard here

1. Two deliveries, a watchdog and a user's request interleave between any two
   calls to the broker or Redis.
2. State is read, minutes of broker calls follow, and the stale copy is written back.
3. A crash or a lost answer leaves an order at the broker that no row mentions.
4. Locks that outlive, or are outlived by, the work they protect.
5. Partial executions: what is cancelled, reordered and imported afterwards.
6. A budget and a failure counter carried along a loop with many early exits.
7. A ledger kept step by step and also replayed from the start, by concurrent requests
   and with trades dated back; a journal whose holdings are computed in three ways.
8. Data that is stored once and never corrected, judged final by a clock that
   has moved since it was fetched.
9. Two implementations of one strategy, simulated and live.
10. Marks, checks and settings kept in one JSON value by several writers.

`PROJECT.json` lists each place under `hazards`, with the properties that watch
it. Some more of the same kind are told in section 9.

### What makes each component correct

* Unattended execution: the sheet is executed once a day; a line is never
  ordered above its plan by all deliveries and requests together; an order at the
  broker is on record; the day ends with a record; buys stay within the daily cap.
* Order routes: a line is not reserved twice; a final status tells what became of
  the order; an execution is imported once and completely.
* Ledger: lots, cash, cost and profit agree; step by step and replayed are the
  same; a sell once accepted can always be replayed; the past is shown as executed.
* Order sheet: a day's row stays after its cutoff; what is shown on the day is
  what was sent; an old sheet is not passed off as due.
* KIS access: no order is taken twice; no call waits for ever; one issue a day.
* Strategy: one wallet; every share offered, none twice; leverage bounded and gone
  with its market; fees kept; the live account as simulated.
* Backtest jobs: one result per job, of the bars its fingerprint names; a finished
  job stays so; it ends and its watcher hears of it.
* Market data: only final bars, no holes; one current signal version a day.
* Journal: the three ways to compute a holding agree; imports fill the gap once.
* Cash check: corrections add up to what moved outside; stages and settings do
  not undo each other. Notification: a message once.

## 2. Plan

The project keeps itself to twelve runs and forty properties, so that a run stays
below five minutes and the proofs of a module below a quarter of an hour. That is why components whose state is disjoint share
a run (section 7): a behaviour belongs to one of them, the others rest.

| Step | Module | Abstract specification or reference | Proof |
|---|---|---|---|
| 1 done | `AutoExec`, `AutoExecMC`: one day of one portfolio | `DayOrders`, refined | `AutoExecProofs` |
| 2 done | `BacktestJob`, `BacktestJobMC`: one job | | `WorkerProofs` |
| 3 done | `Ledger`, `LedgerMC`: transactions, lots, snapshots, import | the replay | `LedgerProofs` |
| 4 done | `Sheet`, `SheetMC`: compute, store, freeze, show | | `OrdersProofs` |
| 5 done | `Orders`, `OrdersMC`: reservations, manual orders, syncs, cancels | | `OrdersProofs` |
| 6 done | `Access`, `TokenDay`: counters, tokens, repeats | | `OrdersProofs` |
| 7 done | `Planner`, `Trend`, `Amounts`, `PlannerMC`, `StrategyMC`: the formulas | the simulation, for the live account | `StrategyProofs`, `LiveProofs` |
| 8 done | `Market`, `DailyMC`: bars and signals | | `WorkerProofs` |
| 9 done | `Journal`, `CashCheck`, `Notify`, `AccountMC` | first in first out, for the sums | `AccountProofs` |
| 10 done | `Sums`: sums over finite sets; with it the cap, the ledger's and the journal's books, the cash check, `AutoExec` implements `DayOrders` | | in the modules above |
| 11 left | minute bars and adjustment factors in `Market`; several instruments in `Ledger` and `Journal`; several portfolios in one run of `AutoExec` | | |

## 3. Unattended execution: `AutoExec`, `DayOrders`

### Processes and state

`Beat` are the deliveries of the 09:01 task, `Watch` those of the watchdog,
`User` the HTTP requests. A delivery that crashed and came again is another
member of `Beat` or `Watch`. A watchdog runs whatever has no record and then
retries transient failures (`retry_transient`); `op` says which job a process is in.

| Variable | In the code |
|---|---|
| `phase` | the clock: before 09:00, to 09:05 (08:45 balance usable), to 09:30 (late limit), to 15:30, closed |
| `flags` | `account.auto_exec.{buy,sell}` |
| `pf` | `portfolio.params["auto_exec"]`, committed |
| `row` | `broker_orders` rows of the day, committed; a key is a batch of rows and a line of the sheet |
| `imported` | quantity of an order registered in the ledger |
| `dayLock`, `retryLock`, `cached` | the Redis keys |
| `accepted`, `live`, `oqty`, `filled` | orders at the broker (external) |
| `seen` | a session's copy of `pf`, written back as a whole by its commit |
| `allowed` | the flags a session read |
| `draft` | rows a session created or changed and has not committed |
| `todo`, `tally`, `batch` | the loop of `_place_lines`: lines left, budget spent and failure streak, the rows it fills |
| `runs` | history: batches made by the day's run |

A session's rows become visible at `Commit` or `UserCommit`; broker and Redis
change at once. `Crash(p)` drops the session and leaves the broker and the locks.

### Actions

| Actions | Code |
|---|---|
| `Load`, `EnterAlreadyRan`, `EnterLate`, `EnterLocked`, `EnterExecute` | `run_auto_execution`, the loop over portfolios and its early returns; `_acquire_run_lock` |
| `PlanError`, `PlanFinish`, `PlanGo` | `_execute_portfolio` up to the rows: stale sheet, manual, paused, skipped, empty |
| `OpenMissing`, `CheckBalance`, `PlaceSkip`, `PlaceAccepted`, `PlaceRejected`, `PlaceLostAck`, `Commit` | `_place_lines`, shared by run and retry |
| `WatchReload`, `WatchRetry`, `WatchIdle`, `RetryRequest`, `ReorderRequest`, `RetryLocked`, `RetryStart` | `retry_transient`, `retry_auto_exec`, `reorder_line`, `_retry_lines` |
| `SkipRequest`, `UnskipRequest`, `ResumeRequest`, `FlagRequest`, `UserCommit` | the switches, with `cancel_live_auto_orders` |
| `CancelRequest` | `broker.py`: cancel of a regular order, the row brought up to date first |
| `SyncRequest`, `Import` | `sync_auto_orders`; registration of executions |
| `Tick`, `Prefetch`, `Fill`, `ExpireRetryLock` | clock, 08:45 task, executions, life of the retry lock |

Data is abstracted to what the properties tell apart: a line has a side, a code,
a planned quantity, a price for the budget and its place in the sending order.
The order sheet is an input (`today`, `other` day, `empty`, or it fails). The
buyable inquiry and the deposit fallback are any quantity from 0 up to what the
cap leaves.

`DayOrders` is the promise to a reader who does not want to know of sessions or
locks: the day is started once; a line is ordered only after that, only when
nothing of it is at the market or executed, and never above the plan.
`PromiseKept` maps `started` to the day lock and `standing` to the quantity of
each line that is live or executed (`Exposure`).

### Bounds

`MaxBatch` bounds how often rows are created in a day; it guards `NewRows`. Two
batches let a run and one retry overlap, three a run and two retries, which is
the least that lets two retries compete after a run. One or two lines of
quantity one or two are enough for the loop, the order, the cap and partial
executions. Two deliveries of the run and one of the watchdog cover redelivery
on both sides of a crash; a third would repeat an early return. Deliveries and
requests are interchangeable, and `redelivery` and `requests` use that symmetry
(no liveness is checked there).

The passing runs check a property in the setting the code can keep it in.
`requests` has quantities of one (no partial execution) and no crash or lost
answer, because each of these violates `NotOverexposed`; `unattended` has no
crash and no failing sheet, because both, after the lock, leave the day without a
record until somebody acts. Section 9 says what breaks.

### Fairness

`FairSpec` has weak fairness of the clock, of each worker and of the steps of a
request that was begun. Celery takes every task from its queue and calls have
timeouts, so a worker that can step does; a request that holds a session runs to
its end. No user has to ask for anything, the broker owes no execution, no fault
is ever due, and the order of processes is left open.

## 4. Orders, ledger, sheet

### Rows of orders: `Orders`

`rows` are the committed `broker_orders` rows of one day's sheet, `book` the
orders at the broker, `req` what each request is doing. Phases are the evening
before, the session, the evening after, the next session and its evening.

| Actions | Code |
|---|---|
| `BeginReserve`, `Ask`, `Flush`, `CommitReserve` | `reserve_broker_orders`: active rows read once, a call per line, a flush per row, one commit |
| `PlaceManual`, `CommitManual` | `place_manual_kis_order` |
| `CancelReserved`, `CancelRegular`, `CancelAtBroker`, `CommitCancel` | `cancel_broker_order`, `cancel_regular_order` |
| `BeginSync`, `CommitSync` | the screen's refresh and the post-close task: `sync_orders`, `sync_auto_orders` |
| `Die` | a process that dies between the broker and its commit |
| `NextPhase`, `Execute` | the broker |

The partial unique index on reserved rows (`alembic/versions/0019`) makes a
second concurrent reservation fail at its flush, after the broker accepted it,
and takes back all rows of that request; `Flush` models both the failure and the
wait for an uncommitted row. SQLAlchemy writes the columns a session changed,
hence `Written`. History: `excused` are the lines of requests that overlapped,
lost an answer, died or had their rows taken back by a refused flush; `settled`
says that the task has looked at everything
after the close with nothing else under way. One of several sets of requests
(`Casts`) takes part in a behaviour: two reservations and the task, a reservation
beside a cancel, a screen and the task, a manual order beside a cancel, a screen
and the task. Two lines and two shares an order are the least for a refusal in
the middle and a partial execution.

### Ledger: `Ledger`

Time runs in half days, `2d-1` up to the close of day `d` and `2d` its evening;
`txs`, `lots`, `snaps` are the tables, `req` what a request has read and
computed. Registering a deposit, withdrawal or purchase depends on nothing it
read and is one step (`Register`). A sell reads the lots and writes the new
quantities at its commit (`BeginSell`, `CommitSell`). A deletion or an import
replays all transactions, deletes the lots it sees and commits new ones
(`BeginDelete`, `BeginImport`, `CommitRebuild`), waits behind another rebuild that
holds the same rows, and fails on the unique order number or a missing row
(`Fail`). `Snapped` is the refresh of today's snapshot, which every request ends
with; `TakeSnapshot` the evening batch, `Repair` `recompute_snapshots_asof`.
`CreateFromBacktest` seeds a portfolio with a deposit and purchases dated back to any
closed days, numbered in any order that follows their dates.

`Sale` is first in first out with preferred lots, used by registration, replay
(`Replay`) and by the sheet (`StateBefore`, which prefers the tagged lots).
`Series` is the equity curve. History: `raced` (two requests that rewrite lots
overlapped), `backdated`, `early` (orders imported before their day's close).

Bounds: two requests, three instants (a day, its evening, the next day), three
transactions, three lots, one purchase and one sell by hand and one of each at
the broker, executed in two parts. A race is looked at only up to the rebuild
that ends it (`Explored`): what the code promises of the lots after a race is
nothing, until a rebuild of all.

### Sheet: `Sheet`

Thirds of days (before 09:00, to 15:30, after), `bars` the last bar collected,
`plans` the `portfolio_plans` rows, per request `started` (its `now`), `sheet`
(what it computed: a sheet is the bar and the trades it was computed from) and
`read` (the row it found). `Compute`, `Note`, `ReadRow`, `Commit` are the four stages of
`compute_order_sheet`: the note "not made yet" is made of the clock once the sheet is
computed (`signals.py:371`) and nobody asks again when the row is read (`:401`) and stored
(`:433`). So `NotStaleSilently` judges an answer by the moment its request began and by
what other requests have stored by its end, and does not claim that it is still due when
it arrives. The executor freezes what it computed. A second insert of a day's
row fails on the unique key. A day's row may follow the ledger up to the cutoff,
judged by the day at the write and the hour at the beginning (`StillOpen`).
Three days with a holiday on the second, one trade dated now or two thirds
back, two requests of two screens and the executor; `KR` and `US` are both initial states. The
two calls of `_plan_pending` in one expression are one step. A request may run while two thirds of a day begin (`Lasts`), so
across any boundary of the code and the next one; without this bound the properties hold
too, over ten times as many states (tried with trades dated a third back).

## 5. Access to the broker: `Access`, `TokenDay`

`Access` follows every call of a reader and a writer with one key and account
from the counters (`Throttle`, INCR per second, key then account) over the token
(`Token`, `Issue`, `Store`, `WakeUp`) to the request and its repeats (`Send`). Time
is what is left of each interval; `Second` is the only step that takes time.
Intervals are scaled down but keep their order (`AccessAssumption`: the broker's
gap between issues is shorter than a batch's nap, and both fit a token's life).
Redis may fail at any time and stays away.

Fairness: weak fairness of each call's steps and of `Second`. Every HTTP call has
a timeout and a sleep is a sleep, so a call that can step does, and time passes.
That is enough for `CallEnds`: the deadline at a counter, the bounded repeats and
the one nap each run out.

`TokenDay` follows the keys of the accounts and of the environment over two days
and a bit, in eighths of a day: the 07:00 task issues for every key in use that
has no good token (`Warm`), any other call issues if it finds none (`CallIssues`),
accounts come, change keys and go, Redis may be wiped. `IssuedOnce` has one
exception besides the wipe, see section 9. The evening session ends, and the margin of a
token is over, before the day is (`TokenDayAssumption`).

## 6. Strategy, market data, jobs, journal, cash, messages

### Strategy: `Planner`, `Trend`

`Planner` is one RAVG simulation with a live ledger beside it. `MakePlan` is the
evening's `plan()` (reduction, take-profits, small entry, grid, both leverage
tracks, the cap); `Trade` fills it on the next bar in the code's order (market
sells, market buys, limit buys, take-profits) and converts lots when the regime
changes, and takes the day's fee from the cash; `rows` are the lots of a live account with the same fills, tagged when
bought, and `LiveLots` what `lots.py` rebuilds of them. `strayed` is history: a
take-profit was sold beside a lot whose price is no longer its tag, or that is
offered at another. A bar is one of six kinds that put the averages, the volatility
target and the gap where the branches are. Rates are in twentieths and prices whole, so no rounding is added to the code's
`int()`; the fee is one rate for both funds, rounded up to a unit, and does not tell calendar
days apart. Five bars from six kinds, three sets of flags, simulation starting at bar 1 or,
with all rules on, at bar 3; without seed lots, or with holdings worth some twenty-five
times the cash.

The fee has no floor (`backtest.py:340`): an account that is fully invested has less than
no cash the next day, and plans on with it. `fees` is history, what was charged since the
fills last left the cash at zero or more, and `BuysWithinWallet` says that nothing but the
fees makes the cash negative. With a unit per 20 of value (`HoldDiv`) and that seed TLC
meets cash below zero, plans with purchases made from it, those purchases filled from the
proceeds of a reduction, and a shortage that goes on for more than a day. `Solvent` is a bound: an account whose fees have
eaten all it holds is not planned for. There the code orders the sale of more shares
than are held; no state of the instance comes near.

`Trend` is TF and LTM: a state machine at each close, orders at the next open, a
daily fee that is put off while the cash lacks. `LiveTF` and `LiveLTM` are what
the order sheet of a live account computes with code of its own
(`signals.py:500-760`), so `LiveSheetAgrees` compares two implementations. Seven
bars of four kinds are enough to enter, be shocked, recover and leave. `brought` are the
shares a simulation is opened with (`initial_lots`), of the fund and, in LTM, of the pair
(`ltm.py:128-132`, `backtests.py:64`): none, one share of the pair, or a holding of the
fund with a few shares of the pair. The last two lie within the band of the
exposures 0 and 1, so TLC meets a first judgement that needs no trade, one at which
the simulation trades and the live sheet does not, and seeds of both funds that the band
keeps. A seed inside the band may outlive a judgement that does not allow
it: `LeftAlone` names that state, and `LeverageFollowsJudgement` excepts nothing else.
`OutOfTrend` excepts an account of LTM that has never traded (`Untouched`).

### Market data: `Market`

Quarters of days. `BeginIngest` and `CommitIngest` are the ingest batch (fetch,
then one commit), `BeginView` and `CommitView` a journal's chart that fills in
what it misses, `ComputeSignal`, `ReadVersions`, `Record` the signal batch. A bar
is "final" or "early", and `Over` is the code's own judgement with the clock of
the commit. `straddled` records the rows that were on their way at the tick that
ended their session: those the code cannot tell. Three casts (a pair and two signal
batches; US bars by two ingest batches; a batch and a view of an unregistered
share), three days with a closed second day, pages of one day.

### Backtest jobs: `BacktestJob`

`BacktestJob` follows one row from `create_backtest` to its end. `Delivery` are
deliveries of `run_backtest_job`: the task is acknowledged late, so it comes
again after its worker died (`Mortal`), or, with `Overlap`, while it still runs
(Redis hands out a task anew that is not acknowledged within an hour;
`worker.py:285` reckons with it). `data` is the version of the price bars,
`fprint` the one the row names, `result` the one its figures come from.

`Begin`, `Load`, `Progress`, `Computed`, `Store` are the parts of the task
between its commits and Redis calls; `Break`, `PublishError` lead to its
handlers `SettleFailed`, `SettleCanceled`, which run outside any try of their
own. `Announce` and `Announced` are the two halves of `publish` (snapshot key,
channel), `Subscribe` and `ReadSnap` the two halves of the socket's start.
`DeleteRead` and `DeleteCommit` are apart because nothing locks the row between.

The code selects the row for update a second time before it stores the result,
to give up if another delivery was faster. The session still holds the row with
the status it wrote itself, and without `populate_existing` SQLAlchemy leaves
attributes that are not expired as they are, so the test compares the
session's own RUNNING. The model therefore has no such branch.

Two deliveries, two versions of the bars, two progress callbacks, one delete and
one browser are enough: a third delivery would find the same states of the row,
and browsers do not affect each other. Fairness: the route sends its task,
workers work, a socket that is open is served. Assumed: a job and its cancel end
within the hour the Redis keys live.

### Journal, cash check, messages: `Journal`, `CashCheck`, `Notify`

`Journal`: executions have numbers of their own, which an imported entry keeps; entries by hand (`AddBuy`, `BeginSell`, `CommitSell`, `DeleteEntry`),
from the account's executions (`BeginImport`, `CommitImport`, by the user or the
15:45 task) and from its balance (`ShowHoldings`, `ImportHoldings`). A holding is
computed as in the overview (`Book`), the curve (`CurveLots`) and the checks
(`Position`). `causes` and `clean` are history. One instrument under two names,
two executions, three entries, two keepers, one of four sets of habits.

`CashCheck`: the post-close task in its stages (import, orders and pause, cash),
each failing for itself with a rollback that reloads, beside users who refresh,
align, change a setting or resume. `params` is one value, each session writes
its copy. `hasty` marks a correction whose check met incomplete books, or two at
once; nothing is promised after it (`Explored`).

`Notify`: deliveries of the 16:40 and 20:20 tasks beside a settings screen or a
session that logs an event. The mark of a phase lives in the JSON value all of
them write, committed after all messages have gone. `slips` counts what can cost
a mark. Bot token and message text are left out.

## 7. Runs

| Run | Instance | What it shows |
|---|---|---|
| `redelivery` | 2 deliveries, 1 watchdog, a buy and a sell, all failures but the outage of Redis | the sheet is executed once (`OneRunADay`); the run never sends a line twice or above plan (`RunWithinPlan`), after any crash, refusal, lost answer, failing sheet, drift of the account |
| `requests` | 1 delivery, 2 requests of any of nine kinds, quantities of one, rate-limit refusals, failing cancels | all processes together never stand above a line's plan (`NotOverexposed`); no live order is lost from the records (`OnRecord`); every step is one of `DayOrders` (`PromiseKept`) |
| `cap` | watchdog and 1 retry, two buys of different price under a cap that clips both, outage of Redis, slow retry, crashes | one execution of `_place_lines` stays within the cap (`CapPerBatch`) |
| `unattended` | delivery, watchdog, 1 retry of the user, quantity two in parts, fairness | the day gets a record that stays (`DayIsRecorded`); every accepted order gets a row (`OrdersAreRecorded`) |
| `backtest` | 2 deliveries, the first may die, no overlap, progress messages may fail, cancel, delete, ingest, fairness | `DoneStays`, `ResultMatchesData`, `JobEnds` (with: a cancel of a queued job is obeyed, also after a redelivery), `WatcherLearns` (a browser hears the end whenever it connects) |
| `ledger` | two requests, section 4 | executions enter once and completely (`FillOnce`, `ImportIsComplete`), lots, cash, cost and profit agree (`BooksBalance`), step by step is the replay and the replay never stops (`IncrementalIsReplay`), snapshots and curve tell what was executed (`HistoryTrue`) |
| `strategy` | `Planner`, `Trend` or `Market` in a behaviour, section 6 | `EveryShareOffered`, `BuysWithinWallet` (with fees that overdraw the cash), `RegimeIsHistory`, `LiveUntilStrayed` of RAVG; `LeverageBounded`, `LeverageLeaves` of all formulas; `FeesAreOwed`, `LiveSheetAgrees` of TF and LTM; `BarsFinal`, `SignalTrue` of the collection |
| `sheet` | `Sheet`, `Access` or `TokenDay` in a behaviour, sections 4 and 5, fairness of `Access` | `PlanSettles`, `ShownAsSent`, `NotStaleSilently`; `TakenOnce`, `CallEnds`; `IssuedOnce` |
| `account` | `Orders`, `Journal`, `CashCheck` or `Notify` in a behaviour | `ReservedOnce`, `FinalStatusTrue`; `BooksAgree`, `GapFilledOnce`; `AlignExact`, `NothingUndone`; `ToldOnce` |
| `lot_replay` | violation of `LiveEqualsBacktest` | a take-profit of a lot bought in a bull market takes other lots in the live account |
| `partial_forgotten` | violation of `FilledStays` | the next day's sync wipes a partial execution from its row |
| `late_exit` | violation of `LiveExitsInTime` | a live TF account exits one session after the simulation |

`CHECK_DEADLOCK` is off throughout: a day, a job and a series end, and nothing
happens after that. The joint runs lose nothing, as the parts share no state: a
behaviour of the joint module is one of a part. In `account` the maker and
screen requests are interchangeable and the run uses it; `strategy` does so with
batches; `sheet` has liveness and uses no symmetry.

## 8. Proofs

TLAPS proves the theorems below for every value of the constants. Each uses the
named assumption of its module (`LedgerAssumption` and the like) and what the
last column adds. A proof has an inductive invariant, a lemma for each group of
actions, and the theorems that draw the properties from it.

| Theorem | Module | States | Besides |
|---|---|---|---|
| `TypeCorrect` | `AutoExecProofs` | `TypeOK` | |
| `InvHolds`, `RunsOnce`, `RunStaysWithinPlan` | `AutoExecProofs` | `IInv`, `OneRunADay`, `RunWithinPlan` | Redis keeps answering (`"redis_down" \notin Faults`) |
| `CapHolds` | `AutoExecProofs` | `CapPerBatch` | |
| `LiveOrdersOnRecord` | `AutoExecProofs` | `OnRecord` | no crash, no lost answer |
| `NeverOverexposed`, `DayOrdersKept` | `AutoExecProofs` | `NotOverexposed`, `PromiseKept` | `Orderly`: no crash, lost answer, outage of Redis or retry slower than its lock; quantities of one if lines may be reordered |
| `JobTypeCorrect` | `WorkerProofs` | `TypeOK` | |
| `JobInvHolds`, `ResultsMatch`, `NothingPartial`, `DoneIsFinal` | `WorkerProofs` | `IInv`, `ResultMatchesData`, `NoPartialResult`, `DoneStays` | `Calm`: deliveries do not overlap, the message of a result does not raise |
| `ExecutionsEnterOnce`, `ImportsBringAll` | `LedgerProofs` | `FillOnce`, `ImportIsComplete` | |
| `LedgerHolds`, `BooksBalanced`, `SellsReplayed`, `HistoryIsTrue` | `LedgerProofs` | `LedgerInv`, `BooksBalance`, `SellsReplay`, `HistoryTrue` | |
| `ReplayHolds`, `StepsAreReplay` | `LedgerProofs` | `ReplayInv`, `IncrementalIsReplay` | |
| `ReservedOnceAlways`, `StatusesAreTrue` | `OrdersProofs` | `ReservedOnce`, `FinalStatusTrue` | |
| `PlansSettle`, `SentIsShown`, `DueIsShown` | `OrdersProofs` | `PlanSettles`, `ShownAsSent`, `NotStaleSilently` | |
| `OrdersTakenOnce`, `TokensIssuedOnce` | `OrdersProofs` | `TakenOnce`, `IssuedOnce` | |
| `BarsAreFinal`, `SignalsAreTrue` | `WorkerProofs` | `BarsFinal`, `SignalTrue` | |
| `TrendSafe`, `FeesOwed` | `StrategyProofs` | `TrendInv`, `FeesAreOwed` | |
| `CalmNeeded`, `TrendLeft`, `JudgementFollowed` | `StrategyProofs` | `LeverageNeedsCalm`, `OutOfTrend`, `LeverageFollowsJudgement` | |
| `RegimeTrue` | `StrategyProofs` | `RegimeIsHistory` | |
| `PlannerSafe` | `StrategyProofs` | `PlannerInv` | |
| `SharesOffered`, `WalletKept` | `StrategyProofs` | `EveryShareOffered`, `BuysWithinWallet` | |
| `CapKept`, `Liquidated` | `StrategyProofs` | `LeverageCapped`, `NoLeverageOutsideBull` | |
| `LeverageIsBounded`, `LeverageIsLeft` | `StrategyProofs` | `LeverageBounded`, `LeverageLeaves`, of all three formulas | |
| `LiveFollows` | `LiveProofs` | `LiveInv`, `LiveUntilStrayed` | |
| `BooksMatch`, `ImportsFillGap` | `AccountProofs` | `BooksAgree`, `GapFilledOnce` | |
| `CorrectionsExact` | `AccountProofs` | `AlignExact` | `TellingSums`: no two sets of executions differ by what may be moved outside |
| `SettingsKept` | `AccountProofs` | `NothingUndone` | |
| `StatusToldOnce` | `AccountProofs` | `ToldOnce` | |

### The arguments

**`AutoExecProofs`.** "One row per line" is not inductive: it depends on which
process may still create rows. `IInv` has three parts. `OpInv`: a process that
plans is in a run, one that locks is in a retry. `RunInv`: one process at most is
past the day lock, only while the key is set, and until it makes its rows there
is no run; whoever places orders owns the only batch of the run or a batch that
is not the run's. `OrderInv`: two processes never work on one batch, a line still
on a list has no order in that batch, no order is above its plan. A redelivered
run is turned away by the key; a crash in the loop loses the list with the
session. Six lemmas follow the groups of actions (`RunningInv`, `PlacingInv`,
`RetryingInv`, `WatchingInv`, `RequestingInv`, `EnvironmentInv`). The assumption is
needed because `_acquire_run_lock` returns True on any error of Redis
(`autoexec.py:445`).

*The cap* (`Budget`): what a session counts in `tally` covers what the broker took in
its batch, and the count is at most the cap before each order. A rejection, or an
answer that was lost, leaves the count higher than the orders and never lower.

*On record* (`RowInv`, `Believed`): a batch is written by the session that made it, and
two sessions never work on rows of one batch; an order that is live is partly open, and
every session that holds something of it holds a live status.

*Exposure and the refinement* (`Clear`, over `Known`). One process at most places, the
run or a retry that holds the lock (`Turns`). A key is empty if nothing of it is at the
market or executed. Rows of a later batch exist only where all earlier ones of the line
are empty (`Superseded`), an order has a row (`Rowed`), and what a retry read is still
true of what it is about to send (`ToSend`, `ToLock`, `Truthful`): between its reading
and its lock nobody places who could change it. Hence one key of a line at most is not
empty (`OneEach`), which bounds the sum `Exposure` by the plan; and a step that sends
finds the line free, as `DayOrders` asks. Section 9 tells what the conditions of
`Orderly` keep out.

**`LedgerProofs`.** What an import is about to add holds each order number once,
and its commit fails if one of them has arrived meanwhile, so the table stays
unique; the profits a replay writes leave everything else of a row. A row must
be known to have an order number at all for this, which is why the invariant
speaks of the rows' fields. That an import is complete (`Whole`): it holds of each
order the quantity executed when it asked, and unless it asked before the close of
the order's day (`early`) nothing executes after that (`WholeStays`), so the commit
brings all of it.

*The books* (`LedgerInv`). The statement is about the lots, which are rewritten in place
by sells and as a whole by rebuilds, so the invariant speaks of every request in flight
as well: a request no other has disturbed is the only one that rewrites lots, still finds
the lots it read, and what it is about to write agrees with the transactions there will be
when it commits (`AsRead`); the rows it is to add are well formed and its own (`Recorded`,
`Apart`). `Agree` says of the lots, unless `raced`, that their shares are those bought and
not sold, and of cost and gain that they add up. For a rebuild this is a fact of
`Replay`, a recursive function over the rows in their order: a lemma per row, then the
least row at which it fails. `Sale` takes lots in an order of preference; that it
takes what is sold, at the cost of what it takes, is a sum over the lots taken. That
every sell is found again when trades are dated back is why a deletion or an import that
loses one is refused.

*Step by step is the replay* (`ReplayInv`). A lot has a number, and entering trades one by
one numbers lots otherwise than a rebuild, so the two are compared up to a renaming that
keeps the order (`InStep`). A row that is newest adds its step at the end of the replay;
a sale takes the same shares of lots that differ in numbers only (`SameLots`). Trades
out of the order of dates, and races, are what the property excepts.

**`WorkerProofs`.** *Bars and signals.* Rows in flight are final or were on their way at the
close of their session, US rows reach back to the last stored bar, and there is no hole
below the newest bar. For the signals (`SignalTrue`): the versions of a date are
numbered from one and the last is the current one (`Chain`); a batch about to
record has seen the first of them, and the unique index lets it write only if it
has seen them all, so that it adds the next. A judgement always has bars because
the pair shares the first day (`DayZero`).

*Jobs.* The invariant says what a delivery holds of the row at each of its steps, and that
a row which is DONE has no delivery able to write to it. Both halves of `Calm` are needed:
two overlapping deliveries store twice, and a result whose message raises is turned into
FAILED (`worker.py:335`).

**`StrategyProofs`.** *TF and LTM* (`TrendInv`). An account is `Even`: a record of amounts that are not negative,
whose cash less what it owes is the capital, the trades and the fees; every sale, purchase
and fee keeps it so, because a purchase is cut down to the cash (`Affordable`) and a sale to
the holding. `PlanLeaves` tells what the plan of the last close leaves after the next open:
no leverage unless the target is 2, and nothing at all when the trend is left. A plan
that is empty because the exposure is within the band leaves it too, since a target that
has not turned stood there the evening before; unless nothing has been traded yet of the
shares brought along (`Idle`), which the judgements so far have found within the band
(`LeftAlone`). `ShocksKept` compares each drop with the bar up to
which leverage is blocked. A simulation that starts late has judged and not traded
(`Untraded`), which is where such an account comes from.

*The regime of RAVG* (`RegimeInv`). `RegimeIsHistory` speaks of a recursive function of the
series, and the state of its last value. That such a function exists (`HistoryExists`),
and that two series that begin alike have the same one as far as they agree
(`HistoriesAgree`), are shown by a least counterexample; then a bar of the warm-up, a plan
and a trade each move the invariant by one bar or not at all.

*The plans of RAVG* (`PlannerInv`). A plan is a concatenation of seven parts, and what is
said of it is about sums over all of them. So each part is known by four totals of its
orders (`Totals`): shares of the fund sold, of the pair sold, of the pair bought, and money
spent; totals add up when parts are joined (`TotalsJoin`). For each part they are bounded by
what `plan()` has at that point: the reduction by the fund held; the take-profits by exactly
what the reduction left, lot by lot (`OffersUpto`), the ladder losing nothing
(`Ranks`: the largest remainders get one each); the entry, the ladder of buys and the two
tracks by what is left of one wallet (`Bought`); the tracks by the target; the cap by the
excess. `PlanMade` is what comes of it: sells are covered, all of the fund is offered in a
neutral market, purchases fit the wallet, whatever the sign of the cash, holdings after the plan exceed the target by no more
than band or a share (`Cut`), and a plan that forces leverage out buys none and begins with
the sale of all of it (`LiquidateFirst`).

That must still be true when the plan is filled. `PlanCurrent`: a plan that stands was made
for the lots and the bar as they are. `Trade` takes the orders one after the other in four
passes (`Pass`); each fill keeps an account whole (`FillKeeps`): a sale takes from the lots no
more than they have and leaves no empty one (`TakeLeaves`), a purchase is only made with the
cash for it, so no fill lowers cash that is negative (`Funds`): what is missing was missing
before, or is the fee of the day. The liquidation is the first order of the first pass, so it meets the holding it
was made for and takes every lot (`FillLiquidates`), and no later order brings leverage back
(`PassKeeps`). The conversion on a turn of the regime changes prices and kinds, no quantity.
Of the bars the proofs need prices that are not zero, those of the lowest step included
(`PlannerAssumption`).

*Two sides* (used by `LiveProofs`). The live account keeps rows, the simulation lots, and a
sale takes them by different rules: lots in passes by kind, rows first those tagged as the
order and then the others. What a pass takes is fixed by which places it may take from
(`TakeOrder`, `TakePaired`). The sides are `Level` when what is held of the fund, of the
strategic leverage and of each tactical kind agrees, and lots and rows of one tactical kind
come before those of the other on both. Sales and purchases keep them so (`LevelSold`,
`LevelBought`); a sale in the one order of kinds is what makes the quantity left of each kind
the same.

*All formulas* (`StrategyInv`). A behaviour of `StrategyMC` is a simulation of one formula
beside the other at rest, which has no plan or no bars.

**`LiveProofs`.** `LiveUntilStrayed` compares two accounts kept by different code
(`backtest.py` and `lots.py`), lot by lot. Its invariant `LiveInv` has these parts.
`Lined`: the sides are level, and lots are in the order of their numbers. `PlanFits`: the
orders of a plan that stands are in the order of the passes, each fits the lots
(`Ranked`), and its take-profits offer of each lot what the reduction leaves of it
(`Earmarked`). `Twinned`: without a seed, and until a take-profit has strayed, each lot has
its row at the same place; they agree in instrument, quantity, price and tag, and kind and
price of the lot are where the path of the row through the regimes leads (`Path`,
`Twin`). `NoneYet` and `RegimeHeld`: there is nothing to replay before the first plan, and the
regime of the last evening is on record.

`PlanRanks` shows that a plan fits. The fills are then followed order by order and pass by
pass: in the first three, twins are sold at the same places, because an order of a kind
names the same places on both sides (`SalePaired`). In the fourth, a take-profit names a lot
by number in the simulation and by price in the live ledger. When every lot is on its tag
and offered at it (`OnTag`) both name the same place: the orders of a lot offer together
exactly what it holds (`Owed`), so of several lots with one price an earlier one is gone
when the next is reached, and the first row of the price is the one meant. `Stray` is the
only other case. In the evening a conversion turns a lot as the replay turns its row
(`TwinsTurned`), and a row is rebuilt as its path says (`RebuiltFund`), so
`SameLots` follows.

This proof corrected the model: `strayed` once looked only for a lot whose price is not its
tag. A core lot is offered on a ladder, and the conversion of the same evening can give it a
price equal to its tag, so that its orders carry other prices than the lot; with a larger
capital TLC then finds the live account on other lots. `OffTag` covers both.

**`AccountProofs`.** *Messages* are counted against credit: what is in the inbox plus
the deliveries about to send is at most the number of slips plus one, and that one
is backed by the mark, by a sender, or by a delivery that has not committed its
mark. Each step pays for the message it allows.

*The cash check* (`CashInv`): every difference that is stored, loaded or reported is the
one between a set of executions and the corrections at a moment that is named. That a
correction made later is still right needs the ledger to be the one of the check, and
the code compares its cash only; `TellingSums` says that the cash tells. It holds when
amounts of executions are multiples of something larger than what is moved outside, as in
the instance, and without it the theorem is false: a sale and a deposit of the same
amount look alike.

*The journal* (`JournalInv`). A position, the overview and the curve are three folds over
the entries. The proof states once, of any finite set of entries, what each of them is as a
sum (`BooksHold`), by a smallest set for which it fails; the curve's lots are a recursive
function over the order of entries. Sales are `SalesCovered` as long as no cause is named,
and then the three agree (`AgreesNext`). A request holds rows that were covered when it
computed them, unless it warned or something changed in between (`Worked`).
*Imports* (`GapInv`): each imported row stands for one execution known to the broker, no
two for the same, so the net of rows and the net of executions are one sum (`FillsMatch`);
what is missing at an import of the balance is then exactly the opening shares.

**`OrdersProofs`.** That the broker holds one reservation of a line and somebody
knows it needs the table, the drafts of the running requests and the broker's book
together. Two requests for a line are excused (`Apart`), so a request that reserves
has either read the row of a reservation or made it itself (`Seen`); that it read
it needs that before the session the row of a reservation which is not cancelled
is still `reserved` (`Waits`), hence that no sync or cancel in flight writes
another status over it. `Known` says where the row of each reservation is: in the
table or in a draft. Only `Ask` before the session adds a reservation that counts;
`QuietKeeps` covers every other step.

That no final status lies (`TruthInv`) is true of what is in flight as well: what a
draft, a sync or a cancel is about to write is true of the order from the moment it
was read, and stays so, because executions only grow and an order that is over stays
as it is (`Steady`, `Ended`). What a row says of its order (`Says`) and the quantity
it counts (`Counts`) are kept apart, for a sync writes the columns apart. Once the
task has looked at everything and nothing else was under way, nothing in flight
holds anything about an order of the day that differs from its row (`Quiet`), so
what each row then tells (`Tells`) stays until the next session.

*The sheet.* The row the executor wrote equals the sheet it sent until
somebody may write it again; a request that could still write began before 09:00;
and the executor never freezes a day twice while it is not over. That a sheet without the
note is that of the first session not over needs the least element of a set of days, a
lemma of its own, and two facts of each request: the bars it read are of sessions that were
over when it began (`Held`), and its note was made no earlier (`NoteTrue`). A later day's row
was computed from stored bars, and bars are stored of sessions that are over (`RowsDated`).

*`Access` and `TokenDay`.* A writer's call that is not over has not been taken by the broker;
only a refusal, which takes nothing, is repeated. A key served today was
left by a run of today with a token that does not end before its margin (`WarmedAt`), so
that whoever looks before the evening session is over finds one; the arithmetic of days
and times of day is in two lemmas.

**`Sums`.** The sum of a function over a finite set, for which the community module has a
recursive definition and no theorem. That the recursion has a solution is shown with a
smallest set that has none; out of it follow that a member may be taken out, that sums are
monotone, additive over disjoint sets and over functions, and unchanged by a one-to-one
renaming. Induction over data is done with a least or smallest counterexample throughout,
since the induction theorems of the library take operators.

### What is only model-checked

* `DayIsRecorded`, `OrdersAreRecorded`, `JobEnds`, `WatcherLearns` and `CallEnds`
  are liveness under fairness, which is out of the prover's reach.
* `LiveSheetAgrees` is true of the bars of the instance and not of arbitrary ones: a price
  that moves far enough in a day drives the two implementations apart.

## 9. Where code and documentation part

Three disagreements have a run that shows them (`findings` in `PROJECT.json`):
`lot_replay`, `partial_forgotten` and `late_exit`. The others below were met while
modelling. They are either outside the setting of a passing run, which then says
so, or told only here.

### Unattended execution

* A flag turned off during the run does not stop it: it is read before the sheet
  is computed and used to the last line (`autoexec.py:878`, against line 9).
* A pause is overwritten: skip, resume and the run's own record write the whole
  JSON value they loaded (`:215`, `:404`, against line 15). In the same way a late
  write of the run erases a skip, though `:416` says that the day then stays manual.
* The retry lock lives 60 seconds (`:1079`), a retry may sleep and ask longer
  (`:1072`). Two retries that compete for a line exceed its plan; so does a retry
  delivered again (`:635`, against `:621`).
* A lost answer marks an order that was accepted as failed (`:1042`), and the
  retry sends it again (against line 19). A crash before the commit leaves orders
  without rows (`:572`, against line 17). These two and partial executions that are
  reordered (`:1134`, `:1170`) are what breaks `NotOverexposed`.
* The cap holds for one call of `_place_lines` (`:989`) and reads as a daily one
  (line 13). A streak of failures is reset by one acceptance (`:1040`).
* A retry after an execution that is not imported compares the account with an
  older ledger (`:972`) and stops the portfolio.
* A sheet that fails after the day lock was taken, or a crash there, leaves a lock
  without a record: the run is not repeated that day.
* `_manual_lock` and `_acquire_run_lock` pass when Redis does not answer.

### Orders and ledger

* Two concurrent reservations: the second fails at its flush after the broker
  accepted it, and the rows of its other lines go with it.
* `sync_auto_orders` fetches the executions of today only and applies them to
  rows of other days (the run `partial_forgotten`). A reservation taken after 15:40
  trades in the next session and is judged by its old date.
* The 09:01 executor never looks at reservation rows (`autoexec.py:865-925`), the
  comment at `broker.py:822` says otherwise.
* The cancel of a regular order misses an execution between sync and cancel. The
  screen's refresh commits only if a status changed.
* Two refreshes that overlap can leave a filled row with fewer shares than were
  executed: only the columns a session changed are written, and no sync looks at a
  filled row again (`broker.py:622`, `:638`, `autoexec.py:1221`). `FinalStatusTrue`
  says the quantity of every row but a filled one.
* A withdrawal is checked against the cash of now, so one dated back makes a later
  deletion or import fail with 409.
* `_state_before` says it uses the same first in first out; a tagged sell prefers
  tagged lots there, and in no other replay.
* A partial execution imported during the day is never completed. An imported
  trade that was deleted comes back with the next import. An execution entered
  by hand and imported counts twice.
* An import does not refresh today's snapshot; a deposit dated back makes a profit
  that is not one; `executed_at.date()` is compared with days of the Korean clock.
* Two concurrent rebuilds can leave lots twice (`raced`). Deleting a portfolio
  leaves the user's total of the day as it was.
* A portfolio made from a backtest shows an equity curve above cash plus holdings
  (`portfolios.py:725`, against `:746`).

### Sheet, access, tokens

* An executor with old bars freezes the row of a past day again. A request begun
  before 09:00 that still runs after 09:01 writes over the frozen row.
* The note "not made yet" is made before the row is read and stored (`signals.py:371`,
  `:401`, `:433`): a request that runs across 15:30 shows the sheet of a session gone by
  without it.
* `_plan_pending` uses the Korean clock for US sheets, which carry the note from 15:30 on
  though their session has not begun. The answer for a frozen day mixes orders of the row
  with indicators computed anew.
* A token issued longer after the 07:00 task's time of day than its margin is kept
  by the next day's task and ends in that day's session, against `worker.py:79-84`
  and `:398`. `IssuedOnce` excepts it.

### Strategy and market data

* A live LTM sheet lacks the rule for a fresh switch (`signals.py:712` has the band only,
  `ltm.py:211` also `switched`), against "trend switches and leverage on/off at once"
  (`ltm.py:10`), "all cash and first entry at once" (`signals.py:679`) and "the rules are
  here only" (`ltm.py:65`). Later it makes no difference in the instance, where the exposure the
  last judgement left and one that has turned are further apart than the band. At the first judgement of a
  simulation it does: with holdings inside the band, `prev is None` trades them to the last
  share and the live sheet leaves them. `LiveSheetAgrees` excepts that one close, and
  there only a sheet without orders; prices that jump far in a day would show more.
* What the band covers is not sold: an account of LTM opened with a few shares (an exposure
  off its target by less than a tenth of it, or of a half) keeps them through judgements
  of 0 or 1, against "off is all cash" (`ltm.py:5`), if no switch is seen at or after
  its first bar (`ltm.py:128`, `:212`).
* RAVG takes its daily fee without a floor (`backtest.py:340`), and the cash goes below
  zero while all is invested. LTM and TF were corrected for this (`ltm.py:124`,
  `THROUGHLINE/HISTORY.md:349`).
* A live TF sheet buys with left-over cash while holding and values leveraged shares at the
  close of the plain one.
* A failed batch does not queue the signal and is not repeated that day; a task
  that is late past midnight works on the new day. The gap check looks only at
  days one of the pair has (`backtests.py:106`). MISSING may displace an OK on replay.

### Jobs, journal, cash check, messages

* Redis refusing the message of a stored result turns a finished job into FAILED
  with a result (`worker.py:335`): adding `"DONE"` to `PublishFails` in
  `backtest.cfg` shows it. A worker that dies after that commit leaves the browser
  waiting (`:291`). Overlapping deliveries both store (`:322`, against `:318`). A queued
  job may be deleted while it starts (`backtests.py:387`).
* Journal: the overview skips a sale of more than is held, the checks count it
  negative, the curve clears in part; deletion is unchecked; executions that grow
  later are never updated; a closed journal still receives imports (against
  `mjournal.py:507`); an import of the balance uses quantities shown earlier; a
  second journal on the same account counts twice.
* Cash check: a check made when the import failed leads to a correction that the
  later import counts again; the task pauses anew what a user resumed.
* Event messages go out before their commit. Executions registered between 16:40
  and 16:45 are told by neither message. The 16:40 task ignores holidays.

## 10. Not modelled

* **Unattended execution**: several portfolios in one run (they share the
  account's cash and the day lock), the status views, message texts, a sheet that
  fails inside a retry.
* **Dashboard**: routes that only read, manual assets, benchmark curve. When its
  snapshots are taken and repaired is part of `Ledger`.
* **Broker and KIS client**: parsing of answers, read-only inquiries, quotes.
* **Portfolio**: XIRR, display fields, portfolios of several instruments.
* **Strategy**: `ltv.py` and `laoer.py`, used by research code only; indicators and
  figures of a result. **Market data**: minute bars, adjustment factors, seeding of
  instruments, live quotes.
* **Worker**: the calendar of the beat beyond the times the models use, the log
  sweep, the pre-open polling.
* **Authentication, settings**: sessions, preferences, resetting assets: each is
  one read and one write of a row.
* **Quotes, pre-open watch, regime view, chat**: caches and answers that write no
  state the other parts read. **Web client**: its requests are the users' actions.
* **Migrations** other than the unique indexes the models use.
