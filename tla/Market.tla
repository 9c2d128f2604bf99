-------------------------------- MODULE Market --------------------------------
(* Collected bars and the daily signal: the ingest batch (worker.py, services/ingest.py)
   fetches the day's bars and stores those that are final, a journal's view fills in what
   it misses (mjournal.py), and a batch whose instruments all succeeded queues the signal
   batch (signals.py), which judges the common days of the pair and records a version.

   Time is counted in quarters of a day: before 09:00 (the US session of the day before is
   over), to 15:30, to 20:00, and the evening. A bar is a value: that of the finished
   session ("final"), or that of a session still running ("early"). *)
EXTENDS Integers, FiniteSets, FiniteSetsExt

CONSTANTS
    Pair,      \* the two funds of the model
    Stock,     \* Korean shares, which trade until 20:00
    Foreign,   \* US funds
    Casts,     \* bound: what is registered at the start, and which tasks take part
    LastDate, Closed,  \* bound: days of a behaviour; those without trading
    Refused,   \* rows <<instrument, day>> the validation refuses
    PageDays,      \* days in one page of US bars
    Slack,     \* days a journal's view leaves alone at either end
    Batch, Viewer, Signal,    \* concurrent tasks and requests
    MaxRuns, MaxViews         \* bounds: batches, views

ASSUME MarketAssumption ==
    /\ Pair \intersect Stock = {} /\ (Pair \union Stock) \intersect Foreign = {}
    /\ LastDate \in Nat \ {0} /\ Closed \subseteq 1..LastDate /\ PageDays \in Nat \ {0} /\ Slack \in Nat
    /\ \A cast \in Casts : cast.known \subseteq Pair \union Stock \union Foreign

VARIABLES
    time,      \* quarters of days gone
    known,     \* registered instruments
    staff,     \* the tasks and requests that take part
    table,      \* stored: instrument |-> day |-> "none", "final" or "early"
    calendar,  \* TRUE once trading_calendar covers the days
    runs, views,  \* batches and views so far
    task,      \* per batch or view: what it fetched
    queued,   \* queued signal batches, per target
    judged,    \* per signal batch: what it computed and which versions it saw
    snaps,     \* signal_snapshots
    straddled  \* history: rows in flight when their session ended

marketVars == <<time, known, staff, table, calendar, runs, views, task, queued, judged, snaps, straddled>>

Instruments == Pair \union Stock \union Foreign
Dates == 0..LastDate
Now == time \div 4
NoTask == [at |-> "idle", scope |-> "none", day |-> 0, rows |-> {}, ok |-> TRUE]
NoSignal == [at |-> "idle", target |-> 0, date |-> 0, status |-> "none", used |-> {}, prev |-> {}]


MarketStart(cast) ==
    /\ time = 4 /\ known = cast.known /\ staff = cast.staff /\ calendar = FALSE /\ runs = 0 /\ views = 0
    /\ table = [i \in Instruments |-> [d \in Dates |-> IF d = 0 /\ i \in known THEN "final" ELSE "none"]]
    /\ task = [t \in Batch \union Viewer |-> NoTask]
    /\ queued = [d \in Dates |-> 0] /\ judged = [g \in Signal |-> NoSignal]
    /\ snaps = {} /\ straddled = {}

MarketInit == \E cast \in Casts : MarketStart(cast)

-----------------------------------------------------------------------------
(* The sources *)

\* KIS lists the day itself before and during its session.
Shown(i, d) == d \in 1..LastDate \ Closed /\ time >= 4 * d + (IF i \in Foreign THEN 2 ELSE 0)
Ended(i, d) == time >= IF i \in Foreign THEN 4 * (d + 1) ELSE IF i \in Stock THEN 4 * d + 3 ELSE 4 * d + 2
Row(i, d) == [inst |-> i, day |-> d, final |-> Ended(i, d)]
Rows(i, ds) == {Row(i, d) : d \in {e \in ds : Shown(i, e)}}

Present(i) == {d \in Dates : table[i][d] # "none"}

\* What changes nothing stored: a tick of the clock may end sessions whose rows are in flight.
TimePasses == /\ time < 4 * LastDate + 4 /\ time' = time + 1
        /\ straddled' = straddled \union
              {<<r.inst, r.day>> : r \in {x \in UNION {task[t].rows : t \in DOMAIN task} : ~x.final}}
        /\ UNCHANGED <<known, staff, table, calendar, runs, views, task, queued, judged, snaps>>

\* At 06:00 once a week, for the next 120 days.
RefreshCalendar == /\ ~calendar /\ time % 4 = 0 /\ calendar' = TRUE
                   /\ UNCHANGED <<time, known, staff, table, runs, views, task, queued, judged, snaps, straddled>>

-----------------------------------------------------------------------------
(* upsert_daily_bars: rows that are final now and valid, where there is none yet. *)

\* Mutant: every Korean instrument is final at 15:30.
OverAtClose(i, d) == IF i \in Foreign THEN Now > d ELSE Now > d \/ (Now = d /\ time % 4 >= 2)
\* market_session_state, bar_is_final: a day gone by in its market, or today after hours;
\* the US day of now ends with the fourth quarter.
Over(i, d) == Now > d \/ (Now = d /\ i \notin Foreign /\ time % 4 >= IF i \in Stock THEN 3 ELSE 2)

\* validate_bar
Valid(r) == <<r.inst, r.day>> \notin Refused
Kept(rows) == {r \in rows : Over(r.inst, r.day) /\ Valid(r)}

Upserted(rows) ==
    [i \in Instruments |-> [d \in Dates |->
        IF table[i][d] = "none" /\ \E r \in Kept(rows) : r.inst = i /\ r.day = d
        THEN IF \E r \in Kept(rows) : r.inst = i /\ r.day = d /\ r.final THEN "final" ELSE "early"
        ELSE table[i][d]]]

-----------------------------------------------------------------------------
(* daily_ingest *)

InScope(i, scope) == (scope = "stocks") = (i \in Stock)

\* Mutant: pages are kept as they come.
WholeOrPages(newest, whole) == newest
\* ingest_us_daily: the days after the last stored one, newest page first; nothing is
\* stored when a page fails.
WholeOrNothing(newest, whole) == IF whole THEN newest ELSE {}

AfterLast(i) == {d \in Dates : Shown(i, d) /\ d > Max(Present(i))}
Newest(ds, pages) == {d \in ds : Cardinality({e \in ds : e > d}) < pages * PageDays}

Fetch(i, day, answer, pages) ==
    IF i \in Foreign
    THEN LET ds == AfterLast(i) IN
         Rows(i, WholeOrNothing(IF answer = "error" THEN Newest(ds, pages) ELSE ds, answer # "error"))
    ELSE IF answer \in {"ok", "late error"} THEN Rows(i, {day}) ELSE {}

Failed(answer) == answer \in {"error", "late error"}
Answers(i) == IF i \in Foreign THEN {"ok", "error"} ELSE {"ok", "none", "error", "late error"}

\* The target is the day the task runs on; a day the calendar lists as closed is skipped.
\* Each instrument answers, has nothing, or fails (KIS and pykrx, or afterwards its minutes).
BeginIngest(t) ==
    /\ task[t] = NoTask /\ runs < MaxRuns /\ runs' = runs + 1
    /\ Now <= LastDate /\ ~(calendar /\ Now \in Closed)
    /\ \E scope \in {"regular", "stocks"}, pages \in 0..1 :
          LET covered == {i \in known : InScope(i, scope)} IN
          \E answer \in [covered -> UNION {Answers(i) : i \in covered}] :
             /\ \A i \in covered : answer[i] \in Answers(i)
             /\ task' = [task EXCEPT ![t] =
                  [at |-> "fetched", scope |-> scope, day |-> Now,
                   rows |-> UNION {Fetch(i, Now, answer[i], pages) : i \in covered},
                   ok |-> \A i \in covered : ~Failed(answer[i])]]
    /\ UNCHANGED <<time, known, staff, table, calendar, views, queued, judged, snaps, straddled>>

\* One commit for all; only a batch without failures queues the signal of its day.
CommitIngest(t) ==
    /\ task[t].at = "fetched"
    /\ table' = Upserted(task[t].rows)
    /\ queued' = IF task[t].ok THEN [queued EXCEPT ![task[t].day] = @ + 1] ELSE queued
    /\ task' = [task EXCEPT ![t] = NoTask]
    /\ UNCHANGED <<time, staff, known, calendar, runs, views, judged, snaps, straddled>>

\* Nothing was committed; the message comes again.
IngestDies(t) ==
    /\ task[t].at = "fetched" /\ task' = [task EXCEPT ![t] = NoTask] /\ runs' = runs - 1
    /\ UNCHANGED <<time, known, staff, table, calendar, views, queued, judged, snaps, straddled>>

-----------------------------------------------------------------------------
(* _ensure_daily_bars, for a chart or a valuation of the last days *)

Needed(i, from) ==
    LET have == {d \in Present(i) : from <= d /\ d <= Now} IN
    IF have = {} THEN from..Now
    ELSE (IF Min(have) > from + Slack THEN from..(Min(have) - 1) ELSE {})
         \union (IF Max(have) < Now - Slack THEN (Max(have) + 1)..Now ELSE {})

\* From where: a chart from the first entry on, a valuation the last days of what has no
\* close at all.
Asked(i) == IF Present(i) = {} THEN {0, Now} ELSE {0}

\* An instrument nobody registered is registered as a share when a client can be made.
BeginView(v) ==
    /\ task[v] = NoTask /\ views < MaxViews /\ views' = views + 1 /\ Now <= LastDate
    /\ \E i \in (known \union Stock) \ Foreign : \E from \in Asked(i) :
          /\ Needed(i, from) # {} /\ known' = known \union {i}
          /\ task' = [task EXCEPT ![v] = [NoTask EXCEPT !.at = "fetched", !.rows = Rows(i, Needed(i, from))]]
    /\ UNCHANGED <<time, staff, table, calendar, runs, queued, judged, snaps, straddled>>

CommitView(v) ==
    /\ task[v].at = "fetched"
    /\ table' = Upserted(task[v].rows)
    /\ task' = [task EXCEPT ![v] = NoTask]
    /\ UNCHANGED <<time, staff, known, calendar, runs, views, queued, judged, snaps, straddled>>

-----------------------------------------------------------------------------
(* daily_signal *)

\* load_aligned_bars: the days both have, unless one has a day in between the other lacks.
Common == {d \in Dates : \A i \in Pair : table[i][d] # "none"}
Gaps == {d \in Dates \ Common : /\ \E i \in Pair : table[i][d] # "none"
                               /\ \E e, f \in Common : e < d /\ d < f}
Aligned == Pair \subseteq known /\ Common # {} /\ Gaps = {}

\* Mutant: a replay of an earlier day uses all there is.
CutNothing(ds, target) == ds
\* As of the target: later bars are not used.
Cut(ds, target) == {d \in ds : d <= target}

Judgements(target) ==
    IF ~Aligned \/ Max(Common) < target
    THEN {[at |-> "judged", target |-> target, date |-> target, status |-> "MISSING", used |-> {}, prev |-> {}]}
    ELSE {[at |-> "judged", target |-> target, date |-> Max(Cut(Common, target)), status |-> st,
           used |-> Cut(Common, target), prev |-> {}] : st \in {"OK", "FAILED"}}

ComputeSignal(g) ==
    /\ judged[g] = NoSignal
    /\ \E target \in Dates :
          /\ Cardinality({h \in Signal : judged[h] # NoSignal /\ judged[h].target = target}) < queued[target]
          /\ \E j \in Judgements(target) : judged' = [judged EXCEPT ![g] = j]
    /\ UNCHANGED <<time, known, staff, table, calendar, runs, views, task, queued, snaps, straddled>>

Versions(d) == {s \in snaps : s.date = d}

\* _record reads the versions of its date; of a queue's batches those of one date count.
ReadVersions(g) ==
    /\ judged[g].at = "judged"
    /\ judged' = [judged EXCEPT ![g].at = "read", ![g].prev = Versions(judged[g].date)]
    /\ UNCHANGED <<time, known, staff, table, calendar, runs, views, task, queued, snaps, straddled>>

\* Mutant: no unique index.
NeverTwo(j) == FALSE
\* One current version a date: the index refuses a second, and the whole batch with it.
Two(j) == \E s \in Versions(j.date) : s.current /\ \A q \in j.prev : q.version # s.version

Snapshot(j) == [date |-> j.date, version |-> Cardinality(j.prev) + 1, current |-> TRUE,
                status |-> j.status, used |-> j.used]

\* A refused batch is tried again.
Record(g) ==
    LET j == judged[g]
        replaced == {s \in Versions(j.date) : \E q \in j.prev : q.version = s.version} IN
    /\ j.at = "read"
    /\ IF Two(j) THEN UNCHANGED <<snaps, queued>>
       ELSE /\ snaps' = (snaps \ replaced) \union {[s EXCEPT !.current = FALSE] : s \in replaced}
                        \union {Snapshot(j)}
            /\ queued' = [queued EXCEPT ![j.target] = @ - 1]
    /\ judged' = [judged EXCEPT ![g] = NoSignal]
    /\ UNCHANGED <<time, known, staff, table, calendar, runs, views, task, straddled>>

MarketNext == \/ TimePasses \/ RefreshCalendar
              \/ \E t \in Batch \intersect staff : BeginIngest(t) \/ CommitIngest(t) \/ IngestDies(t)
              \/ \E v \in Viewer \intersect staff : BeginView(v) \/ CommitView(v)
              \/ \E g \in Signal \intersect staff : ComputeSignal(g) \/ ReadVersions(g) \/ Record(g)

MarketSpec == MarketInit /\ [][MarketNext]_marketVars

-----------------------------------------------------------------------------
(* Properties *)

\* What is stored is never changed or filled in later (ON CONFLICT DO NOTHING, US bars from
\* the last stored day on), so neither may go wrong once: no bar is of an unfinished session,
\* whatever asks for it and when, but a row that was on its way at the very close; and the US
\* bars have no hole up to their last day but what the validation refused, through failed
\* pages, dead batches and batches side by side.
BarsFinal ==
    /\ \A i \in Instruments, d \in Dates : table[i][d] = "early" => <<i, d>> \in straddled
    /\ \A i \in Foreign \intersect known : \A d \in 1..Max(Present(i)) \ Closed :
          d \in Present(i) \/ <<i, d>> \in Refused

\* Of every day with a signal exactly one version is current, the last one; an OK signal
\* used the bars up to its own day and no later one; and a batch for a day leaves the
\* versions of later days alone.
SignalTrue ==
    [][/\ \A s \in snaps' : \E c \in snaps' :
             /\ c.date = s.date /\ c.current /\ c.version >= s.version
             /\ \A t \in snaps' : t.date = s.date /\ t # c => ~t.current /\ t.version # c.version
       /\ \A s \in snaps' : s.status = "OK" => s.used # {} /\ Max(s.used) = s.date
       /\ \A g \in Signal : judged[g].at = "read" /\ judged'[g] = NoSignal =>
             \A s \in snaps' \ snaps : s.date <= judged[g].target]_marketVars
=============================================================================
