------------------------------- MODULE AutoExec -------------------------------
(***************************************************************************)
(* One trading day of unattended execution for one domestic portfolio      *)
(* (apps/api/app/autoexec.py, with the order routes of broker.py).         *)
(*                                                                         *)
(* Processes: deliveries of the two Celery tasks (the 09:01 run and the    *)
(* 09:15 watchdog) and HTTP requests of the user.  Each has a database     *)
(* session of its own.  Sessions do not refresh what they loaded (db.py:   *)
(* expire_on_commit=False), so a process works on the copy `seen` of the   *)
(* portfolio's JSON state that it read first, and its commit writes that   *)
(* whole copy back.  Rows it creates or changes stay in `draft` until the  *)
(* commit; calls to the broker take effect at once.                        *)
(***************************************************************************)
EXTENDS Integers, FiniteSets, FiniteSetsExt

CONSTANTS
    Line,        \* lines of the day's order sheet
    Buys,        \* the buy lines; the others are sells
    GapLines,    \* buy lines subject to the gap rule (grid and boot)
    Code,        \* [Line -> instrument code]
    Rank,        \* [Line -> Nat] order in which _place_lines sends them
    PlanQty,     \* [Line -> planned quantity]
    Price,       \* [Line -> price used for the budget]
    Base,        \* [code -> holding before the open, ledger and account]
    Cap,         \* daily_buy_cap_pct applied to equity; 0 = no cap
    Beat,        \* deliveries of auto_execute_open (09:01)
    Watch,       \* deliveries of auto_exec_watchdog (09:15)
    User,        \* HTTP requests of the user
    Requests,    \* which operations the user may ask for
    PlanOutcomes,\* what the order sheet may turn out to be: today, other, empty
    Faults,      \* what may go wrong (see the actions)
    MaxBatch     \* bound: number of times rows are created in the day

Worker == Beat \cup Watch
Proc == Worker \cup User
Side == {"buy", "sell"}
SideOf(l) == IF l \in Buys THEN "buy" ELSE "sell"
Codes == {Code[l] : l \in Line}
Batch == 1..MaxBatch
\* A BrokerOrder row is the row of its line in one batch; an order at the
\* broker is named by the row that sent it.
Key == Batch \X Line

ASSUME LineAssumption ==
    /\ IsFiniteSet(Line)
    /\ Buys \subseteq Line
    /\ GapLines \subseteq Buys
    /\ Rank \in [Line -> Nat]
    /\ \A l, m \in Line : Rank[l] = Rank[m] => l = m
    /\ PlanQty \in [Line -> Nat \ {0}]
    /\ Price \in [Line -> Nat \ {0}]
    /\ Base \in [Codes -> Nat]
    /\ Cap \in Nat
ASSUME ProcAssumption ==
    /\ Beat \cap Watch = {}
    /\ Worker \cap User = {}
    /\ MaxBatch \in Nat

\* Clock: before 09:00, 09:00-09:05 (the 08:45 balance is still used),
\* 09:05-09:30 (late limit of the run), until the close, after 15:30.
Pre == 0
Early == 1
Morning == 2
Day == 3
Closed == 4

AllRequests == {"retry", "reorder", "skip", "unskip", "resume", "flag",
                "cancel", "sync", "import"}
Status == {"none", "skipped", "skipped_api", "skipped_gap", "submitted",
           "partial", "filled", "unfilled", "cancelled", "failed", "failed_rate"}
LiveStatus == {"submitted", "partial"}                        \* LIVE_AUTO
\* Mutant: lines that are at the market are retried too.
RetryableLive == {"failed", "failed_rate", "skipped", "skipped_api", "submitted"}
Retryable == {"failed", "failed_rate", "skipped", "skipped_api"}
Reorderable == Retryable \cup {"cancelled"}
Transient == {"skipped_api", "failed_rate"}
Notes == {"none", "ran", "late", "stale_plan", "manual", "paused",
          "skipped_user", "no_orders"}
PfState == [paused : BOOLEAN, streak : Nat, last : Notes, skip : BOOLEAN]
FailStreakPause == 2

VARIABLES
    phase,      \* the clock
    flags,      \* account switches auto_exec.{buy, sell}
    pf,         \* params.auto_exec of the portfolio
    row,        \* committed broker_orders rows of the day (mode=auto)
    imported,   \* quantity of each order's fills registered in the ledger
    dayLock, retryLock, cached,     \* Redis: day lock, retry lock, balance
    accepted, live, oqty, filled,   \* orders at the broker
    drift, gap, \* the day: account and ledger already differ; the open is low
    nbatch,     \* batches of rows flushed so far
    runs,       \* history: batches created by the day's run
    pc, op, at, seen, allowed, batch, draft, todo, tally  \* per process

shared == <<flags, pf, row, imported>>
redis == <<dayLock, retryLock, cached>>
broker == <<accepted, live, oqty, filled>>
local == <<pc, op, at, seen, allowed, batch, draft, todo, tally>>
env == <<drift, gap>>
vars == <<phase, shared, redis, broker, env, nbatch, runs, local>>

NoDraft == [k \in Key |-> "none"]
NoState == [paused |-> FALSE, streak |-> 0, last |-> "none", skip |-> FALSE]
NoFlags == [s \in Side |-> FALSE]
NoTally == [running |-> 0, streak |-> 0, stop |-> FALSE]

Init ==
    /\ phase = Pre
    /\ flags \in [Side -> BOOLEAN]
    /\ pf = NoState
    /\ row = NoDraft
    /\ imported = [k \in Key |-> 0]
    /\ dayLock = FALSE /\ retryLock = FALSE /\ cached = FALSE
    /\ accepted = {} /\ live = {}
    /\ oqty = [k \in Key |-> 0] /\ filled = [k \in Key |-> 0]
    /\ drift \in (IF "drift" \in Faults THEN BOOLEAN ELSE {FALSE})
    /\ gap \in (IF GapLines = {} THEN {FALSE} ELSE BOOLEAN)
    /\ nbatch = 0 /\ runs = {}
    /\ pc = [p \in Proc |-> "new"]
    /\ op = [p \in Proc |-> IF p \in Worker THEN "run" ELSE "idle"]
    /\ at = [p \in Proc |-> Pre]
    /\ seen = [p \in Proc |-> NoState]
    /\ allowed = [p \in Proc |-> NoFlags]
    /\ batch = [p \in Proc |-> 0]
    /\ draft = [p \in Proc |-> NoDraft]
    /\ todo = [p \in Proc |-> {}]
    /\ tally = [p \in Proc |-> NoTally]

-----------------------------------------------------------------------------
(* Helpers. *)

AnyOn(f) == f["buy"] \/ f["sell"]

\* Mutant: the first row of a line counts instead of the last.
FirstStatus(l) ==
    LET made == {b \in Batch : row[<<b, l>>] # "none"}
    IN  IF made = {} THEN "none" ELSE row[<<Min(made), l>>]

\* Rows of a line are read in id order; the last one counts.
LatestStatus(l) ==
    LET made == {b \in Batch : row[<<b, l>>] # "none"}
    IN  IF made = {} THEN "none" ELSE row[<<Max(made), l>>]

\* retryable_rows: lines whose latest row is in `statuses`, direction on.
LinesIn(statuses, on) ==
    {l \in Line : LatestStatus(l) \in statuses /\ on[SideOf(l)]}

\* Mutant: the run rolls its rows back before it writes the JSON state.
FlushedRetryOnly(p) ==
    [k \in Key |-> IF op[p] # "run" /\ draft[p][k] # "none" THEN draft[p][k] ELSE row[k]]

\* What a commit leaves of the rows: the session's changes over the table.
Flushed(p) == [k \in Key |-> IF draft[p][k] # "none" THEN draft[p][k] ELSE row[k]]

Goto(p, label) == pc' = [pc EXCEPT ![p] = label]

\* p leaves what it was doing and drops its session.  A watchdog that is done
\* with the run goes on to its second job.
Leave(p, label) ==
    /\ Goto(p, label)
    /\ op' = [op EXCEPT ![p] = IF label = "judged" THEN "retry" ELSE @]
    /\ at' = [at EXCEPT ![p] = Pre]
    /\ seen' = [seen EXCEPT ![p] = NoState]
    /\ allowed' = [allowed EXCEPT ![p] = NoFlags]
    /\ batch' = [batch EXCEPT ![p] = 0]
    /\ draft' = [draft EXCEPT ![p] = NoDraft]
    /\ todo' = [todo EXCEPT ![p] = {}]
    /\ tally' = [tally EXCEPT ![p] = NoTally]
AfterRun(p) == IF p \in Watch /\ op[p] = "run" THEN "judged" ELSE "done"

\* Signed quantity of the orders of code c, by `units` (fills or imports).
Net(c, units) ==
    MapThenSumSet(LAMBDA k : IF k[2] \in Buys THEN units[k] ELSE 0 - units[k],
                  {k \in accepted : Code[k[2]] = c})

Ledger(c) == Base[c] + Net(c, imported)

\* The balance a process works with: the 08:45 copy, a fresh one, or, when
\* the query fails, the ledger itself.
BalanceViews(p) ==
    IF at[p] = Early /\ cached THEN {"cache"}
    ELSE {"fresh"} \cup (IF "balance_down" \in Faults THEN {"ledger"} ELSE {})
Held(c, view) ==
    CASE view = "cache"  -> Base[c]
      [] view = "fresh"  -> Base[c] + Net(c, filled)
      [] view = "ledger" -> Ledger(c)
Mismatch(view) ==
    /\ view # "ledger"
    /\ drift \/ \E c \in Codes : Held(c, view) # Ledger(c)

\* Status the executions of the day give a live row (sync_auto_orders).
Synced(k) ==
    IF filled[k] >= oqty[k] THEN "filled"
    ELSE IF filled[k] > 0 THEN "partial"
    ELSE IF phase = Closed THEN "unfilled" ELSE "submitted"
LiveRows == {k \in Key : row[k] \in LiveStatus}

\* Quantity of line l that is at the market or already executed.
Exposure(l) ==
    MapThenSumSet(LAMBDA k : IF k \in live THEN oqty[k] ELSE filled[k],
                  {k \in accepted : k[2] = l})

-----------------------------------------------------------------------------
(* Environment: clock, 08:45 balance, executions. *)

\* Regular orders lapse at the close.
Tick ==
    /\ phase < Closed
    /\ phase' = phase + 1
    /\ live' = IF phase' = Closed THEN {} ELSE live
    /\ UNCHANGED <<shared, redis, accepted, oqty, filled, env, nbatch, runs, local>>

\* 08:45: the balance of a portfolio that will trade goes to Redis.
Prefetch ==
    /\ phase = Pre /\ ~cached
    /\ ~pf.paused /\ AnyOn(flags)
    /\ cached' = TRUE
    /\ UNCHANGED <<phase, shared, dayLock, retryLock, broker, env, nbatch, runs, local>>

Fill(k) ==
    /\ k \in live
    /\ filled' = [filled EXCEPT ![k] = @ + 1]
    /\ live' = IF filled'[k] = oqty[k] THEN live \ {k} ELSE live
    /\ UNCHANGED <<phase, shared, redis, accepted, oqty, env, nbatch, runs, local>>

\* The retry lock lives 60 seconds and nobody releases it.  A retry that read
\* its rows less than 60 seconds ago is over by then, unless it is slow.
ExpireRetryLock ==
    /\ retryLock
    /\ \/ "slow_retry" \in Faults
       \/ \A p \in Proc : ~(op[p] = "retry" /\ pc[p] \in {"locking", "open", "place"})
    /\ retryLock' = FALSE
    /\ UNCHANGED <<phase, shared, dayLock, cached, broker, env, nbatch, runs, local>>

\* Mutant: the day lock is released when its holder dies.
CrashReleasesLock(p) ==
    /\ "crash" \in Faults
    /\ pc[p] \notin {"new", "done"}
    /\ Leave(p, "done")
    /\ dayLock' = FALSE
    /\ UNCHANGED <<phase, shared, retryLock, cached, broker, env, nbatch, runs>>

\* The process dies: its session is rolled back, its locks stay.
Crash(p) ==
    /\ "crash" \in Faults
    /\ pc[p] \notin {"new", "done"}
    /\ Leave(p, "done")
    /\ UNCHANGED <<phase, shared, redis, broker, env, nbatch, runs>>

-----------------------------------------------------------------------------
(* The run: run_auto_execution and _execute_portfolio. *)

Load(w) ==
    /\ pc[w] = "new"
    /\ phase >= IF w \in Beat THEN Early ELSE Morning
    /\ Goto(w, "loaded")
    /\ at' = [at EXCEPT ![w] = phase]
    /\ seen' = [seen EXCEPT ![w] = pf]
    /\ UNCHANGED <<phase, shared, redis, broker, env, nbatch, runs,
                   op, allowed, batch, draft, todo, tally>>

EnterAlreadyRan(w) ==
    /\ pc[w] = "loaded" /\ seen[w].last # "none"
    /\ Leave(w, AfterRun(w))
    /\ UNCHANGED <<phase, shared, redis, broker, env, nbatch, runs>>

\* Mutant: a late run leaves without a record.
EnterLateSilent(w) ==
    /\ pc[w] = "loaded" /\ seen[w].last = "none" /\ at[w] >= Day
    /\ Leave(w, AfterRun(w))
    /\ UNCHANGED <<phase, shared, redis, broker, env, nbatch, runs>>

\* After 09:30 the day is only recorded as late.
EnterLate(w) ==
    /\ pc[w] = "loaded" /\ seen[w].last = "none" /\ at[w] >= Day
    /\ pf' = [seen[w] EXCEPT !.last = "late"]
    /\ Leave(w, AfterRun(w))
    /\ UNCHANGED <<phase, flags, row, imported, redis, broker, env, nbatch, runs>>

EnterLocked(w) ==
    /\ pc[w] = "loaded" /\ seen[w].last = "none" /\ at[w] < Day
    /\ dayLock
    /\ Leave(w, AfterRun(w))
    /\ UNCHANGED <<phase, shared, redis, broker, env, nbatch, runs>>

\* SET NX on the day's key; any Redis error counts as success.
AcquireDayLock ==
    \/ ~dayLock /\ dayLock' = TRUE
    \/ "redis_down" \in Faults /\ UNCHANGED dayLock

EnterExecute(w) ==
    /\ pc[w] = "loaded" /\ seen[w].last = "none" /\ at[w] < Day
    /\ AcquireDayLock
    /\ allowed' = [allowed EXCEPT ![w] = flags]
    /\ Goto(w, "plan")
    /\ UNCHANGED <<phase, shared, retryLock, cached, broker, env, nbatch, runs,
                   op, at, seen, batch, draft, todo, tally>>

\* The order sheet could not be computed: rollback, nothing is recorded.
PlanError(w) ==
    /\ pc[w] = "plan" /\ "plan_error" \in Faults
    /\ Leave(w, AfterRun(w))
    /\ UNCHANGED <<phase, shared, redis, broker, env, nbatch, runs>>

Verdict(w, outcome) ==
    IF outcome = "other" THEN "stale_plan"
    ELSE IF ~AnyOn(allowed[w]) THEN "manual"
    ELSE IF seen[w].paused THEN "paused"
    ELSE IF seen[w].skip THEN "skipped_user"
    ELSE IF outcome = "empty" THEN "no_orders"
    ELSE "ran"

PlanFinish(w, outcome) ==
    /\ pc[w] = "plan" /\ Verdict(w, outcome) # "ran"
    /\ pf' = [seen[w] EXCEPT !.last = Verdict(w, outcome)]
    /\ Leave(w, AfterRun(w))
    /\ UNCHANGED <<phase, flags, row, imported, redis, broker, env, nbatch, runs>>

\* New rows, all "skipped" until something else happens to them.
NewRows(p, lines) ==
    /\ nbatch < MaxBatch
    /\ nbatch' = nbatch + 1
    /\ batch' = [batch EXCEPT ![p] = nbatch + 1]
    /\ draft' = [draft EXCEPT ![p] =
            [k \in Key |-> IF k[1] = nbatch + 1 /\ k[2] \in lines THEN "skipped" ELSE @[k]]]
    /\ tally' = [tally EXCEPT ![p].streak = seen[p].streak]
    /\ Goto(p, "open")

PlanGo(w, outcome) ==
    /\ pc[w] = "plan" /\ Verdict(w, outcome) = "ran"
    /\ NewRows(w, Line)
    /\ runs' = runs \cup {nbatch + 1}
    /\ todo' = [todo EXCEPT ![w] = {l \in Line : allowed[w][SideOf(l)]}]
    /\ UNCHANGED <<phase, shared, redis, broker, env, op, at, seen, allowed>>

-----------------------------------------------------------------------------
(* _place_lines, shared by the run and by retries. *)

\* Row k of p's session gets a status; `lines` of p's batch get one.
Mark(p, lines, status) ==
    draft' = [draft EXCEPT ![p] =
        [k \in Key |-> IF k[1] = batch[p] /\ k[2] \in lines THEN status ELSE @[k]]]

\* The opening price cannot be read: every candidate is skipped, cause "api".
OpenMissing(p) ==
    /\ pc[p] = "open" /\ todo[p] # {} /\ "open_none" \in Faults
    /\ Mark(p, todo[p], "skipped_api")
    /\ todo' = [todo EXCEPT ![p] = {}]
    /\ Goto(p, "place")
    /\ UNCHANGED <<phase, shared, redis, broker, env, nbatch, runs,
                   op, at, seen, allowed, batch, tally>>

\* Gap rule, then the account against the ledger (a difference stops the
\* portfolio), then sells the holding does not cover.
CheckBalance(p, view) ==
    LET dropped == IF gap THEN todo[p] \cap GapLines ELSE {}
        keep    == todo[p] \ dropped
        clash   == keep # {} /\ Mismatch(view)
        short   == {l \in keep \ Buys : PlanQty[l] > Held(Code[l], view)}
    IN  /\ pc[p] = "open"
        /\ Mark(p, dropped, "skipped_gap")
        /\ todo' = [todo EXCEPT ![p] = IF clash THEN {} ELSE keep \ short]
        /\ tally' = [tally EXCEPT ![p].stop = clash]
        /\ Goto(p, "place")
        /\ UNCHANGED <<phase, shared, redis, broker, env, nbatch, runs,
                       op, at, seen, allowed, batch>>

IsNext(p, l) == l \in todo[p] /\ \A m \in todo[p] : Rank[l] <= Rank[m]

\* Daily cap: what is left of this batch's budget clips a buy.
Room(p, l) ==
    IF l \notin Buys \/ Cap = 0 THEN PlanQty[l]
    ELSE Min({PlanQty[l], (Cap - tally[p].running) \div Price[l]})

\* Orderable quantity 0 (cap, buyable inquiry or deposit fallback): the row
\* stays "skipped".
PlaceSkip(p, l) ==
    /\ pc[p] = "place" /\ IsNext(p, l) /\ l \in Buys
    /\ todo' = [todo EXCEPT ![p] = @ \ {l}]
    /\ UNCHANGED <<phase, shared, redis, broker, env, nbatch, runs,
                   pc, op, at, seen, allowed, batch, draft, tally>>

\* The quantity sent: a sell goes out whole, a buy is clipped to what the cap
\* and the buyable inquiry (or the deposit) leave.
Sendable(p, l) == IF l \in Buys THEN 1..Room(p, l) ELSE {PlanQty[l]}
\* Mutant: what was sent is not added to the budget.
SpentNothing(p, l, q) == tally[p].running
Spent(p, l, q) == tally[p].running + IF l \in Buys THEN q * Price[l] ELSE 0

\* Mutant: the line stays on the list and is sent again.
SentAgain(p, l, q, status, streak) ==
    /\ pc[p] = "place" /\ IsNext(p, l) /\ q \in Sendable(p, l)
    /\ Mark(p, {l}, status)
    /\ tally' = [tally EXCEPT ![p].running = Spent(p, l, q), ![p].streak = streak]
    /\ UNCHANGED <<phase, shared, redis, filled, env, nbatch, runs,
                   pc, op, at, seen, allowed, batch, todo>>

Sent(p, l, q, status, streak) ==
    /\ pc[p] = "place" /\ IsNext(p, l) /\ q \in Sendable(p, l)
    /\ Mark(p, {l}, status)
    /\ todo' = [todo EXCEPT ![p] = @ \ {l}]
    /\ tally' = [tally EXCEPT ![p].running = Spent(p, l, q), ![p].streak = streak]
    /\ UNCHANGED <<phase, shared, redis, filled, env, nbatch, runs,
                   pc, op, at, seen, allowed, batch>>

Accept(k, q) ==
    /\ phase < Closed
    /\ accepted' = accepted \cup {k}
    /\ live' = live \cup {k}
    /\ oqty' = [oqty EXCEPT ![k] = @ + q]

PlaceAccepted(p, l, q) ==
    /\ Sent(p, l, q, "submitted", 0)
    /\ Accept(<<batch[p], l>>, q)

\* The broker refuses; for the call-rate limit the line may be tried again.
PlaceRejected(p, l, q, status) ==
    /\ \/ status = "failed" /\ ("reject" \in Faults \/ phase = Closed)
       \/ status = "failed_rate" /\ "reject_rate" \in Faults
    /\ Sent(p, l, q, status, tally[p].streak + 1)
    /\ UNCHANGED <<accepted, live, oqty>>

\* The order reached the broker but its answer did not come back.
PlaceLostAck(p, l, q) ==
    /\ "lost_ack" \in Faults
    /\ Sent(p, l, q, "failed", tally[p].streak + 1)
    /\ Accept(<<batch[p], l>>, q)

\* One commit: all rows of the session and the whole JSON state.
Commit(p) ==
    /\ pc[p] = "place" /\ todo[p] = {}
    /\ row' = Flushed(p)
    /\ pf' = [seen[p] EXCEPT
            !.streak = tally[p].streak,
            !.paused = @ \/ tally[p].stop \/ tally[p].streak >= FailStreakPause,
            !.last = IF op[p] = "run" THEN "ran" ELSE @]
    /\ Leave(p, AfterRun(p))
    /\ UNCHANGED <<phase, flags, imported, redis, broker, env, nbatch, runs>>

-----------------------------------------------------------------------------
(* retry_auto_exec: the watchdog's second job, the user's retry and reorder. *)

\* The reasons to refuse a retry (409), given the state and flags it read.
MayRetry(state, on, now) ==
    /\ AnyOn(on) /\ ~state.paused /\ ~state.skip /\ state.last # "none"
    /\ now \in Early..Day

\* The rows are read and the guards checked; the lock comes later.
ReadRows(p, state, now, lines) ==
    /\ MayRetry(state, flags, now) /\ lines # {}
    /\ todo' = [todo EXCEPT ![p] = lines]
    /\ seen' = [seen EXCEPT ![p] = state]
    /\ at' = [at EXCEPT ![p] = now]
    /\ op' = [op EXCEPT ![p] = "retry"]
    /\ Goto(p, "locking")
    /\ UNCHANGED <<phase, shared, redis, broker, env, nbatch, runs,
                   allowed, batch, draft, tally>>

\* retry_transient loads the portfolio again after the run.
WatchReload(w) ==
    /\ pc[w] = "judged"
    /\ seen' = [seen EXCEPT ![w] = pf]
    /\ at' = [at EXCEPT ![w] = phase]
    /\ Goto(w, "asked")
    /\ UNCHANGED <<phase, shared, redis, broker, env, nbatch, runs,
                   op, allowed, batch, draft, todo, tally>>

WatchRetry(w) ==
    /\ pc[w] = "asked"
    /\ ReadRows(w, seen[w], at[w], LinesIn(Transient, flags))

WatchIdle(w) ==
    /\ pc[w] = "asked"
    /\ ~MayRetry(seen[w], flags, at[w]) \/ LinesIn(Transient, flags) = {}
    /\ Leave(w, "done")
    /\ UNCHANGED <<phase, shared, redis, broker, env, nbatch, runs>>

RetryRequest(u) ==
    /\ pc[u] = "new" /\ "retry" \in Requests
    /\ ReadRows(u, pf, phase, LinesIn(Retryable, flags))

\* One line, the user's cancelled lines included.
ReorderRequest(u, l) ==
    /\ pc[u] = "new" /\ "reorder" \in Requests
    /\ ReadRows(u, pf, phase, LinesIn(Reorderable, flags) \cap {l})

RetryLocked(p) ==
    /\ pc[p] = "locking" /\ retryLock
    /\ Leave(p, "done")
    /\ UNCHANGED <<phase, shared, redis, broker, env, nbatch, runs>>

AcquireRetryLock ==
    \/ ~retryLock /\ retryLock' = TRUE
    \/ "redis_down" \in Faults /\ UNCHANGED retryLock

\* Every line is tried again with its whole planned quantity.
RetryStart(p) ==
    /\ pc[p] = "locking"
    /\ AcquireRetryLock
    /\ NewRows(p, todo[p])
    /\ UNCHANGED <<phase, shared, dayLock, cached, broker, env, runs,
                   op, at, seen, allowed, todo>>

-----------------------------------------------------------------------------
(* The user's other requests.  Each loads, calls the broker, and commits. *)

\* Mutant: rows become "cancelled" whether or not the broker cancelled.
CancelUnchecked(u, ks) ==
    \E gone \in (IF "cancel_fail" \in Faults THEN SUBSET (ks \cap live)
                                           ELSE {ks \cap live}) :
        /\ live' = live \ gone
        /\ draft' = [draft EXCEPT ![u] =
                        [k \in Key |-> IF k \in ks THEN "cancelled" ELSE @[k]]]

\* cancel_live_auto_orders on rows ks: those the broker still has are
\* cancelled; a failing call leaves its row as it was.
CancelAtBroker(u, ks) ==
    \E gone \in (IF "cancel_fail" \in Faults THEN SUBSET (ks \cap live)
                                           ELSE {ks \cap live}) :
        /\ live' = live \ gone
        /\ draft' = [draft EXCEPT ![u] =
                        [k \in Key |-> IF k \in gone THEN "cancelled" ELSE @[k]]]

Begin(u, name) ==
    /\ pc[u] = "new" /\ name \in Requests
    /\ op' = [op EXCEPT ![u] = name]
    /\ seen' = [seen EXCEPT ![u] = pf]
    /\ Goto(u, "writing")
    /\ UNCHANGED <<phase, shared, redis, accepted, oqty, filled, env, nbatch, runs,
                   at, batch, todo, tally>>

\* Give the day back to the user; from 09:00 on also cancel what is live.
SkipRequest(u) ==
    /\ Begin(u, "skip")
    /\ CancelAtBroker(u, IF phase >= Early THEN LiveRows ELSE {})
    /\ UNCHANGED allowed

UnskipRequest(u) ==
    /\ Begin(u, "unskip")
    /\ phase = Pre /\ pf.skip
    /\ UNCHANGED <<live, draft, allowed>>

ResumeRequest(u) ==
    /\ Begin(u, "resume")
    /\ UNCHANGED <<live, draft, allowed>>

\* New account flags; orders of a direction turned off are cancelled.
FlagRequest(u, new) ==
    /\ Begin(u, "flag")
    /\ CancelAtBroker(u, {k \in LiveRows : flags[SideOf(k[2])] /\ ~new[SideOf(k[2])]})
    /\ allowed' = [allowed EXCEPT ![u] = new]

\* Cancel one order: its row is brought up to date first, and only an order
\* that is still live goes to the broker.
CancelRequest(u, k) ==
    /\ pc[u] = "new" /\ "cancel" \in Requests
    /\ row[k] \in LiveStatus
    /\ row' = [row EXCEPT ![k] = Synced(k)]
    /\ IF Synced(k) \in LiveStatus /\ k \in live
       THEN /\ live' = live \ {k}
            /\ draft' = [draft EXCEPT ![u][k] = "cancelled"]
            /\ op' = [op EXCEPT ![u] = "cancel"]
            /\ Goto(u, "writing")
       ELSE Goto(u, "done") /\ UNCHANGED <<live, draft, op>>
    /\ UNCHANGED <<phase, flags, pf, imported, redis, accepted, oqty, filled, env,
                   nbatch, runs, at, seen, allowed, batch, todo, tally>>

\* sync_auto_orders: read the live rows and the executions, then write.
SyncRequest(u) ==
    /\ Begin(u, "sync")
    /\ draft' = [draft EXCEPT ![u] =
            [k \in Key |-> IF k \in LiveRows /\ Synced(k) # row[k] THEN Synced(k) ELSE @[k]]]
    /\ UNCHANGED <<live, allowed>>

\* Executions enter the ledger, each order once (broker_ref is unique).
Import(u) ==
    /\ pc[u] = "new" /\ "import" \in Requests
    /\ imported' = [k \in Key |-> IF imported[k] = 0 THEN filled[k] ELSE imported[k]]
    /\ Goto(u, "done")
    /\ UNCHANGED <<phase, flags, pf, row, redis, broker, env, nbatch, runs,
                   op, at, seen, allowed, batch, draft, todo, tally>>

\* The commit of a request: its rows, the whole JSON state if it changed that,
\* the flags if it changed those.
UserCommit(u) ==
    /\ pc[u] = "writing"
    /\ row' = Flushed(u)
    /\ pf' = CASE op[u] = "skip"   -> [seen[u] EXCEPT !.skip = TRUE]
               [] op[u] = "unskip" -> [seen[u] EXCEPT !.skip = FALSE]
               [] op[u] = "resume" -> [seen[u] EXCEPT !.paused = FALSE, !.streak = 0]
               [] OTHER            -> pf
    /\ flags' = IF op[u] = "flag" THEN allowed[u] ELSE flags
    /\ Leave(u, "done")
    /\ UNCHANGED <<phase, imported, redis, broker, env, nbatch, runs>>

-----------------------------------------------------------------------------
Placing(p) ==
    \/ OpenMissing(p)
    \/ \E view \in BalanceViews(p) : CheckBalance(p, view)
    \/ \E l \in todo[p] :
          \/ PlaceSkip(p, l)
          \/ \E q \in Sendable(p, l) :
                \/ PlaceAccepted(p, l, q) \/ PlaceLostAck(p, l, q)
                \/ \E s \in {"failed", "failed_rate"} : PlaceRejected(p, l, q, s)
    \/ Commit(p)
Retrying(p) == RetryLocked(p) \/ RetryStart(p)
Running(w) ==
    \/ Load(w) \/ EnterAlreadyRan(w) \/ EnterLate(w) \/ EnterLocked(w)
    \/ EnterExecute(w) \/ PlanError(w)
    \/ \E o \in PlanOutcomes : PlanFinish(w, o) \/ PlanGo(w, o)
Watching(w) == WatchReload(w) \/ WatchRetry(w) \/ WatchIdle(w)
Requesting(u) ==
    \/ RetryRequest(u) \/ \E l \in Line : ReorderRequest(u, l)
    \/ SkipRequest(u) \/ UnskipRequest(u) \/ ResumeRequest(u)
    \/ \E new \in [Side -> BOOLEAN] : FlagRequest(u, new)
    \/ \E k \in Key : CancelRequest(u, k)
    \/ SyncRequest(u) \/ Import(u) \/ UserCommit(u)
WorkerStep(w) == Running(w) \/ Watching(w) \/ Retrying(w) \/ Placing(w)
UserStep(u) == Requesting(u) \/ Retrying(u) \/ Placing(u)

Next ==
    \/ Tick \/ Prefetch \/ ExpireRetryLock
    \/ \E k \in Key : Fill(k)
    \/ \E w \in Worker : WorkerStep(w)
    \/ \E u \in User : UserStep(u)
    \/ \E p \in Proc : Crash(p)

Spec == Init /\ [][Next]_vars

\* The clock runs, workers take their tasks and a request that was begun runs to
\* its end; nobody has to ask for anything, and the broker owes no execution.
Fairness ==
    /\ WF_vars(Tick)
    /\ \A w \in Worker : WF_vars(WorkerStep(w))
    /\ \A u \in User : WF_vars(Retrying(u) \/ Placing(u) \/ UserCommit(u))
FairSpec == Spec /\ Fairness

-----------------------------------------------------------------------------
(* Properties. *)

States == {"new", "loaded", "plan", "open", "place", "judged", "asked",
           "locking", "writing", "done"}

DayType ==
    /\ phase \in Pre..Closed /\ drift \in BOOLEAN /\ gap \in BOOLEAN
    /\ nbatch \in 0..MaxBatch /\ runs \subseteq 1..nbatch
StoreType ==
    /\ flags \in [Side -> BOOLEAN] /\ pf \in PfState
    /\ row \in [Key -> Status] /\ imported \in [Key -> Nat]
    /\ dayLock \in BOOLEAN /\ retryLock \in BOOLEAN /\ cached \in BOOLEAN
BrokerType ==
    /\ accepted \subseteq Key /\ live \subseteq accepted
    /\ oqty \in [Key -> Nat] /\ filled \in [Key -> Nat]
LocalType ==
    /\ pc \in [Proc -> States]
    /\ op \in [Proc -> {"run", "idle"} \cup AllRequests]
    /\ at \in [Proc -> Pre..Closed]
    /\ seen \in [Proc -> PfState]
    /\ allowed \in [Proc -> [Side -> BOOLEAN]]
    /\ batch \in [Proc -> 0..nbatch]
    /\ \A p \in Proc : pc[p] \in {"open", "place"} => batch[p] # 0
    /\ draft \in [Proc -> [Key -> Status]]
    /\ todo \in [Proc -> SUBSET Line]
    /\ tally \in [Proc -> [running : Nat, streak : Nat, stop : BOOLEAN]]

\* Every variable keeps its type; runs and processes only have batches that
\* were created, and an order that is live was accepted.
TypeOK == DayType /\ StoreType /\ BrokerType /\ LocalType

InRun(w) == op[w] = "run" /\ pc[w] \in {"plan", "open", "place"}

\* The order sheet is executed at most once a day, however often and in
\* whatever order the two tasks are delivered, crash and are delivered again.
OneRunADay == \A b, c \in runs : b = c

\* The day's run sends a line once: what it has ordered of a line never
\* exceeds the planned quantity, whatever fails in between.
RunWithinPlan ==
    \A j, k \in accepted :
        j[1] \in runs /\ k[1] \in runs /\ j[2] = k[2]
            => j = k /\ oqty[k] <= PlanQty[k[2]]

\* Run, watchdog retry, user retries and reorders together never have more of
\* a line at the market or executed than the plan asks for.
NotOverexposed == \A l \in Line : Exposure(l) <= PlanQty[l]

\* Why OneRunADay and RunWithinPlan hold, in inductive form.
\* A task runs; a retry holds lines it read.
OpInv ==
    /\ \A w \in Worker : pc[w] = "new" => op[w] = "run"
    /\ \A p \in Proc : pc[p] \in {"loaded", "plan"} => op[p] = "run"
    /\ \A p \in Proc : pc[p] = "locking" => op[p] = "retry"
\* At most one process is past the day lock, and only while the lock is taken;
\* the run's batch is its own.
RunInv ==
    /\ \A v, w \in Proc : InRun(v) /\ InRun(w) => v = w
    /\ ~dayLock => runs = {} /\ \A w \in Proc : ~InRun(w)
    /\ \A w \in Proc : pc[w] = "plan" => runs = {}
    /\ \A w \in Proc : pc[w] \in {"open", "place"} =>
          IF op[w] = "run" THEN runs = {batch[w]} ELSE batch[w] \notin runs
    /\ OneRunADay
\* Two processes never work on one batch; a line still to be sent has no order
\* in its batch; an order never exceeds the plan.
OrderInv ==
    /\ \A v, w \in Proc :
          /\ {pc[v], pc[w]} \subseteq {"open", "place"}
          /\ batch[v] = batch[w]
          => v = w
    /\ \A w \in Proc : pc[w] \in {"open", "place"} =>
          \A l \in todo[w] : <<batch[w], l>> \notin accepted
    /\ \A k \in accepted : k[1] <= nbatch
    /\ \A k \in Key : IF k \in accepted THEN oqty[k] <= PlanQty[k[2]] ELSE oqty[k] = 0
IInv == OpInv /\ RunInv /\ OrderInv

Cost(ks) == MapThenSumSet(LAMBDA k : oqty[k] * Price[k[2]],
                          {k \in ks : k[2] \in Buys})

\* The buys one execution of _place_lines sends stay within the daily cap, with
\* any mix of clipping, rejections and lost answers.
CapPerBatch ==
    Cap > 0 => \A b \in Batch : Cost({k \in accepted : k[1] = b}) <= Cap

\* An order that is live at the broker has a live row, committed or about to be
\* committed: the screen, the cancel routes and the post-close sync find it.
OnRecord ==
    \A k \in live : row[k] \in LiveStatus \/ \E p \in Proc : draft[p][k] \in LiveStatus

\* The day gets a record: the 09:01 run or the watchdog writes one and no
\* later commit of another session takes it away.
DayIsRecorded == <>[](pf.last # "none")

\* Every order that reached the broker gets a committed row.
OrdersAreRecorded ==
    \A k \in Key : (k \in accepted) ~> (row[k] # "none")

-----------------------------------------------------------------------------
(* AutoExec implements DayOrders. *)

Promise == INSTANCE DayOrders WITH
    started <- dayLock,
    standing <- [l \in Line |-> Exposure(l)]

\* Every step of every process is, for the orders of the day, one of the steps
\* DayOrders allows: an order of a line goes out only under the day lock and
\* only while nothing of that line is at the market or executed.
PromiseKept == Promise!Spec
=============================================================================
