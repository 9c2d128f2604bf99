-------------------------------- MODULE Sheet --------------------------------
(* The order sheet of one portfolio and its daily snapshot (signals.py): a screen, the
   chat or the 09:01 executor computes the sheet from the latest bars and the ledger
   before the cutoff, reads the day's portfolio_plans row, and commits the row it
   decided on. A sheet is what it was computed from: the last bar and the trades seen.

   Time is counted in thirds of a day: before 09:00, 09:00 to 15:30, after 15:30. *)
EXTENDS Integers, Sequences

CONSTANTS
    Screens,     \* concurrent requests that show the sheet
    Executor,    \* the 09:01 task
    LastDay,     \* bound: days of a behaviour
    Weekend,     \* days the weekday rule closes, for every market
    Holiday,     \* days the calendar lists as closed, for KR
    Backdate,    \* how long before its registration a trade may have been executed
    MaxTrade,    \* bound: registrations
    MaxShown,    \* bound: requests of the screens
    Lasts        \* bound: thirds of a day that may begin while a request is running

ASSUME SheetAssumption ==
    /\ Executor \notin Screens
    /\ LastDay \in Nat \ {0} /\ MaxTrade \in Nat /\ MaxShown \in Nat /\ Lasts \in Nat
    /\ Backdate \subseteq Nat /\ Weekend \subseteq 1..LastDay /\ Holiday \subseteq 1..LastDay

VARIABLES
    market,      \* KR or US
    clock,       \* thirds of days gone
    bars,        \* day of the last bar; 0: the seed
    trades,      \* registered trades: moment of execution of each
    plans,       \* portfolio_plans: day |-> payload
    pc, started, \* per request: its stage; its now, whether the day was sent, and its note
    sheet, read, \* per request: its computation, the row it read
    asked,       \* requests of the screens so far
    ran,         \* last day of the executor (its marker and its lock)
    sent,        \* history: day |-> the sheet the executor froze
    unfrozen     \* history: days whose frozen row a request from before 09:00 replaced

sheetVars == <<market, clock, bars, trades, plans, pc, started, sheet, read, asked, ran, sent, unfrozen>>
request == <<pc, started, sheet, read, asked, ran, sent, unfrozen>>

Requests == Screens \union {Executor}
Days == 1..(LastDay + 4)
NoRow == [base |-> 0, seen |-> {}, frozen |-> FALSE, made |-> FALSE]
NotBegun == [at |-> 0, sent |-> FALSE, late |-> FALSE]

Today == clock \div 3
FreezeAt(d) == 3 * d + 1
Shut(d) == d \in Weekend \/ (market = "KR" /\ d \in Holiday)
\* _next_exec_day: the first day after the bar that is not closed.
NextExecDay(d) == CHOOSE e \in Days : /\ e > d /\ ~Shut(e)
                                      /\ \A f \in Days : f > d /\ f < e => Shut(f)
Cutoff(d) == IF market = "KR" THEN FreezeAt(d) ELSE 3 * d
\* Mutant: a sheet of today is never pending.
PendingPast(d) == d < Today
\* _plan_pending asks the KOSPI clock for every market.
Pending(d) == ~(d > Today \/ (d = Today /\ clock % 3 < 2))

SheetInit ==
    /\ market \in {"KR", "US"} /\ clock = 3 /\ bars = 0 /\ trades = <<>>
    /\ plans = [d \in Days |-> NoRow] /\ sent = [d \in Days |-> NoRow]
    /\ pc = [r \in Requests |-> "idle"] /\ started = [r \in Requests |-> NotBegun]
    /\ sheet = [r \in Requests |-> NoRow] /\ read = [r \in Requests |-> NoRow]
    /\ asked = 0 /\ ran = 0 /\ unfrozen = {}

-----------------------------------------------------------------------------
(* The world: the clock, the collected bars, the registered trades. *)

Tick == /\ clock < 3 * LastDay + 2 /\ clock' = clock + 1
        /\ \A r \in Requests : pc[r] # "idle" => clock < started[r].at + Lasts
        /\ UNCHANGED <<market, bars, trades, plans, request>>

\* A bar is stored when its session is over: 15:30 for KR, the next morning for US.
OverAt(d, t) == IF market = "KR" THEN t >= 3 * d + 2 ELSE t >= 3 * (d + 1)
SessionOver(d) == OverAt(d, clock)
Ingest == /\ \E d \in 1..LastDay : bars < d /\ ~Shut(d) /\ SessionOver(d) /\ bars' = d
          /\ UNCHANGED <<market, clock, trades, plans, request>>

\* A fill, a deposit or a withdrawal, executed now or earlier.
Register == /\ Len(trades) < MaxTrade
            /\ \E back \in Backdate : trades' = Append(trades, clock - back)
            /\ UNCHANGED <<market, clock, bars, plans, request>>

-----------------------------------------------------------------------------
(* A request: compute, add the note, read the row, commit. *)

\* _state_before: the trades executed before the cutoff.
Before(cutoff) == {i \in DOMAIN trades : trades[i] < cutoff}

\* market_context, _state_before and plan(); the executor runs once, on an open day.
Compute(r) ==
    LET d == NextExecDay(bars) IN
    /\ pc[r] = "idle"
    /\ IF r = Executor
         THEN market = "KR" /\ ~Shut(Today) /\ clock % 3 = 1 /\ ran < Today /\ ran' = Today /\ UNCHANGED asked
         ELSE asked < MaxShown /\ asked' = asked + 1 /\ UNCHANGED ran
    /\ started' = [started EXCEPT ![r] = [at |-> clock, sent |-> sent[d].made, late |-> FALSE]]
    /\ sheet' = [sheet EXCEPT ![r] = [base |-> bars, seen |-> Before(Cutoff(d)),
                                      frozen |-> r = Executor, made |-> TRUE]]
    /\ pc' = [pc EXCEPT ![r] = "computed"]
    /\ UNCHANGED <<market, clock, bars, trades, plans, read, sent, unfrozen>>

Target(r) == NextExecDay(sheet[r].base)

\* The note is made of the clock of this moment and of the bars read before; nothing asks
\* again when the row is read and stored.
Note(r) ==
    /\ pc[r] = "computed"
    /\ started' = [started EXCEPT ![r].late = Pending(Target(r))]
    /\ pc' = [pc EXCEPT ![r] = "noted"]
    /\ UNCHANGED <<market, clock, bars, trades, plans, sheet, read, asked, ran, sent, unfrozen>>

ReadRow(r) ==
    /\ pc[r] = "noted"
    /\ read' = [read EXCEPT ![r] = plans[Target(r)]]
    /\ pc' = [pc EXCEPT ![r] = "read"]
    /\ UNCHANGED <<market, clock, bars, trades, plans, started, sheet, asked, ran, sent, unfrozen>>

\* Mutant: the whole execution day.
StillOpenAllDay(r) == Target(r) >= Today
\* May the row still follow the ledger? The day is the day of the write, the hour the
\* one the request began at.
StillOpen(r) == Target(r) > Today \/ (market = "KR" /\ started[r].at < FreezeAt(Target(r)))

Writes(r) == r = Executor \/ ~read[r].made \/ (~read[r].frozen /\ StillOpen(r))

\* Mutant: always the computation.
AnswerComputed(r) == sheet[r]
\* What the request answers: the frozen row as it is, otherwise its own computation.
Answer(r) == IF r # Executor /\ read[r].frozen THEN read[r] ELSE sheet[r]

\* The second insert of a day's row fails on the unique key and with it the request.
Collides(r) == ~read[r].made /\ plans[Target(r)].made
Fails(r) == Writes(r) /\ Collides(r)
Commits(r) == pc[r] = "read" /\ pc'[r] = "idle"

Commit(r) ==
    LET d == Target(r) IN
    /\ pc[r] = "read"
    /\ pc' = [pc EXCEPT ![r] = "idle"]
    /\ plans' = IF Writes(r) /\ ~Fails(r) THEN [plans EXCEPT ![d] = sheet[r]] ELSE plans
    /\ sent' = IF r = Executor /\ ~Fails(r) THEN [sent EXCEPT ![d] = sheet[r]] ELSE sent
    /\ unfrozen' = IF plans[d].frozen /\ ~plans'[d].frozen THEN unfrozen \union {d} ELSE unfrozen
    /\ sheet' = [sheet EXCEPT ![r] = NoRow] /\ read' = [read EXCEPT ![r] = NoRow]
    /\ started' = [started EXCEPT ![r] = NotBegun]
    /\ UNCHANGED <<market, clock, bars, trades, asked, ran>>

SheetNext == \/ Tick \/ Ingest \/ Register
             \/ \E r \in Requests : Compute(r) \/ Note(r) \/ ReadRow(r) \/ Commit(r)

SheetSpec == SheetInit /\ [][SheetNext]_sheetVars

-----------------------------------------------------------------------------
(* Properties *)

\* A row that is replaced after its cutoff is replaced by the executor, or for KR by a
\* request that began before 09:00 and is still running.
Settles ==
    \A d \in Days : plans[d].made /\ plans'[d] # plans[d] /\ clock >= Cutoff(d) =>
       \E r \in Requests : /\ Commits(r) /\ Target(r) = d
                           /\ r = Executor \/ (market = "KR" /\ started[r].at < FreezeAt(d))
\* "The plan of that morning is kept": once the cutoff has passed, screens, retries, late
\* bars and backdated trades leave a day's row as it is.
PlanSettles == [][Settles]_sheetVars

ShowsSent ==
    \A r \in Screens :
       Commits(r) /\ ~Fails(r) /\ started[r].sent /\ Target(r) = Today /\ Today \notin unfrozen =>
          Answer(r) = sent[Today]
\* Whoever looks on the day itself after the executor has frozen the sheet sees the orders
\* that were sent, though the ledger may have changed since (unless a request from before
\* 09:00 has written over the frozen row).
ShownAsSent == [][ShowsSent]_sheetVars

ShowsDue ==
    \A r \in Requests :
       Commits(r) /\ ~Fails(r) /\ ~started[r].late =>
          LET d == Target(r)
              at == started[r].at
          IN  /\ ~OverAt(d, at) /\ \A e \in 1..LastDay : ~Shut(e) /\ ~OverAt(e, at) => d <= e
              /\ \A e \in Days : e > d /\ plans[e].made => SessionOver(d)
\* A sheet answered without the note "not made yet" is the one of the first session that was
\* not over when the request began, whatever bars, holidays and other requests came between
\* its bars, its note and its answer; and if the sheet of a later day has been made by then,
\* it is only because that session ended while the request was running.
NotStaleSilently == [][ShowsDue]_sheetVars
=============================================================================
