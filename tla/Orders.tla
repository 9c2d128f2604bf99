-------------------------------- MODULE Orders --------------------------------
(* The broker_orders rows of one day's sheet and the orders at the broker: reservations
   accepted from the evening before, regular orders of the day (sent by hand; those of
   the unattended run are in AutoExec), cancels, and the two syncs that set the final
   status: the screen's refresh and the task after the close (broker.py, with
   sync_auto_orders of autoexec.py).

   Phases: 0 the evening before the day; 1 its session; 2 the evening after; 3 the next
   session; 4 its evening. All rows have the day as plan_date. *)
EXTENDS Integers, Sequences, FiniteSets, SequencesExt

CONSTANTS
    Line,      \* lines of the sheet
    Asks,      \* sequences of lines a user may ask to reserve
    Maker,     \* reservation requests
    Trader,    \* direct order requests
    Canceller, \* cancel requests
    Screen,    \* refreshes of the order list
    Batch,     \* the task after the close
    Casts,     \* sets of requests; one of them takes part
    Qty,       \* shares of every order
    LastPhase, \* bound: 2 or 4
    Unsure     \* may requests die, or answers of the broker be lost?

ASSUME OrdersAssumption ==
    /\ Qty \in Nat \ {0} /\ LastPhase \in 0..4 /\ Unsure \in BOOLEAN
    /\ Asks \subseteq Seq(Line)

VARIABLES
    phase,
    rows,      \* committed rows; the id is the index
    book,      \* orders at the broker; the number is the index
    req,       \* per request: what it is doing
    excused,   \* history: lines with overlapping requests, a lost answer, a death or refused row
    settled    \* history: the task has looked at every order after the day's close

ordersVars == <<phase, rows, book, req, excused, settled>>

Request == Maker \union Trader \union Canceller \union Screen \union {Batch}
Idle == [op |-> "idle"]
Done == [op |-> "done"]

\* broker_orders: status reserved, submitted, partial, filled, unfilled, cancelled, failed.
Row(l, mode, status, no) == [line |-> l, mode |-> mode, status |-> status, no |-> no, filled |-> 0]
\* An order at the broker: a reservation waits for the session it trades in.
Order(l, kind, day) ==
    [line |-> l, kind |-> kind, state |-> IF kind = "reserve" THEN "waiting" ELSE "live",
     day |-> day, exec |-> 0]
Active == {"reserved", "submitted", "partial"}

SessionOf(p) == (p + 1) \div 2   \* 1 for phases 1 and 2, 2 for 3 and 4
InSession == phase \in {1, 3}
\* Mutant: the session counts as over while it runs.
DayBegun(p) == p >= 1
DayOver(p) == p >= 2
\* reservation_window, with body.date not before today: until 07:30, or after 15:40 of
\* the day itself, when the broker takes the order for the next session.
WindowOpen == phase \in {0, 2}

OrdersInit ==
    /\ phase = 0 /\ rows = <<>> /\ book = <<>> /\ settled = FALSE /\ excused = {}
    /\ \E cast \in Casts : req = [r \in Request |-> IF r \in cast THEN Idle ELSE Done]

-----------------------------------------------------------------------------
(* The broker (external). *)

\* Opening a session turns its reservations into live orders; closing it ends them. (The
\* task of the evening is done before the next session.)
NextPhase ==
    /\ phase < LastPhase /\ phase' = phase + 1
    /\ phase = 2 => req[Batch].op # "sync"
    /\ book' = [n \in DOMAIN book |->
          IF book[n].state = "waiting" /\ InSession' /\ book[n].day = SessionOf(phase')
          THEN [book[n] EXCEPT !.state = "live"]
          ELSE IF book[n].state = "live" /\ ~InSession' THEN [book[n] EXCEPT !.state = "over"]
          ELSE book[n]]
    /\ UNCHANGED <<rows, req, excused, settled>>

Execute ==
    /\ \E n \in DOMAIN book :
          /\ book[n].state = "live"
          /\ book' = [book EXCEPT ![n].exec = @ + 1,
                                  ![n].state = IF book[n].exec + 1 = Qty THEN "over" ELSE @]
    /\ UNCHANGED <<phase, rows, req, excused, settled>>

-----------------------------------------------------------------------------
(* reserve_broker_orders *)


\* Mutant: a reservation that still waits does not count.
ActiveAtMarket == {rows[i].line : i \in {i \in DOMAIN rows : rows[i].status \in Active \ {"reserved"}}}
ActiveLines == {rows[i].line : i \in {i \in DOMAIN rows : rows[i].status \in Active}}

\* Lines of a request that another running request names too.
Contested(r, ls) == {l \in ls : \E q \in Maker \ {r} : req[q].op = "reserve" /\ l \in req[q].asked}

\* The rows that are active are read once, before the first call to the broker.
BeginReserve(r) ==
    /\ req[r] = Idle /\ WindowOpen
    /\ \E ls \in Asks :
          /\ req' = [req EXCEPT ![r] = [op |-> "reserve", asked |-> ToSet(ls), todo |-> ls,
                                        active |-> ActiveLines, draft |-> <<>>, flushed |-> TRUE]]
          /\ excused' = excused \union Contested(r, ToSet(ls))
    /\ UNCHANGED <<phase, rows, book, settled>>

\* A line is dealt with: its row awaits the flush.
Noted(q, row, active) ==
    [q EXCEPT !.todo = Tail(@), !.active = active, !.draft = Append(@, row), !.flushed = FALSE]

\* One line: skipped when active, else sent; accepted, refused or (Unsure) accepted
\* without the answer arriving, which is recorded as a failure.
Ask(r) ==
    /\ req[r].op = "reserve" /\ req[r].todo # <<>> /\ req[r].flushed
    /\ LET l == Head(req[r].todo)
           accepted == Append(book, Order(l, "reserve", IF phase = 0 THEN 1 ELSE 2))
           Note(row, active) == req' = [req EXCEPT ![r] = Noted(@, row, active)]
       IN \/ /\ l \in req[r].active
             /\ req' = [req EXCEPT ![r].todo = Tail(@)]
             /\ UNCHANGED <<book, excused>>
          \/ /\ l \notin req[r].active /\ WindowOpen
             /\ book' = accepted
             /\ Note(Row(l, "reserve", "reserved", Len(accepted)), req[r].active \union {l})
             /\ UNCHANGED excused
          \/ /\ l \notin req[r].active
             /\ Note(Row(l, "reserve", "failed", 0), req[r].active)
             /\ \/ UNCHANGED <<book, excused>>
                \/ Unsure /\ WindowOpen /\ book' = accepted /\ excused' = excused \union {l}
    /\ UNCHANGED <<phase, rows, settled>>

Reserved(rs, l) == \E i \in DOMAIN rs : rs[i].line = l /\ rs[i].status = "reserved"

\* Lines of rows a request has not committed.
Drafted(r) == {req[r].draft[i].line : i \in DOMAIN req[r].draft}

\* The flush meets uq_broker_orders_active_line: a committed reserved row of the same line
\* fails the request and takes back all its rows, the orders of which stay with the broker;
\* an uncommitted one makes it wait.
Flush(r) ==
    /\ req[r].op = "reserve" /\ ~req[r].flushed
    /\ LET new == Last(req[r].draft) IN
       IF new.status = "reserved" /\ Reserved(rows, new.line)
       THEN req' = [req EXCEPT ![r] = Done] /\ excused' = excused \union Drafted(r)
       ELSE /\ new.status = "reserved" =>
                 \A q \in Maker \ {r} :
                    req[q].op = "reserve" /\ req[q].flushed => ~Reserved(req[q].draft, new.line)
            /\ req' = [req EXCEPT ![r].flushed = TRUE] /\ UNCHANGED excused
    /\ UNCHANGED <<phase, rows, book, settled>>

CommitReserve(r) ==
    /\ req[r].op = "reserve" /\ req[r].todo = <<>> /\ req[r].flushed
    /\ rows' = rows \o req[r].draft
    /\ req' = [req EXCEPT ![r] = Done]
    /\ UNCHANGED <<phase, book, excused, settled>>

\* The process dies: what was sent stays with the broker, the rows are gone.
Die(r) ==
    /\ Unsure /\ req[r].op \in {"reserve", "trade"}
    /\ req' = [req EXCEPT ![r] = Done]
    /\ excused' = excused \union Drafted(r)
    /\ UNCHANGED <<phase, rows, book, settled>>

-----------------------------------------------------------------------------
(* place_manual_kis_order: only in the session; the checks of money and shares before it
   may refuse it, which leaves nothing behind. *)

PlaceManual(r) ==
    /\ req[r] = Idle /\ phase = 1
    /\ \E l \in Line :
          \/ /\ book' = Append(book, Order(l, "manual", 1))
             /\ req' = [req EXCEPT ![r] = [op |-> "trade", draft |-> <<Row(l, "manual", "submitted", Len(book'))>>]]
          \/ /\ req' = [req EXCEPT ![r] = [op |-> "trade", draft |-> <<Row(l, "manual", "failed", 0)>>]]
             /\ book' = IF Unsure THEN Append(book, Order(l, "manual", 1)) ELSE book
    /\ UNCHANGED <<phase, rows, excused, settled>>

CommitManual(r) ==
    /\ req[r].op = "trade"
    /\ rows' = rows \o req[r].draft
    /\ req' = [req EXCEPT ![r] = Done]
    /\ UNCHANGED <<phase, book, excused, settled>>

-----------------------------------------------------------------------------
(* The two syncs. *)

\* list_reserved_orders up to the later of plan_date and today.
Listed(n, p) == n # 0 /\ book[n].day <= (IF p <= 2 THEN 1 ELSE 2)

\* sync_orders: the reservations by their number.
SyncReserved(row, p) ==
    LET o == book[row.no]
        st == IF o.state = "cancelled" THEN "cancelled"
              ELSE IF o.exec >= Qty THEN "filled" ELSE IF o.exec > 0 THEN "partial"
              ELSE IF DayOver(p) THEN "unfilled" ELSE "reserved"
    IN IF Listed(row.no, p) THEN [row EXCEPT !.status = st, !.filled = o.exec] ELSE row

\* sync_auto_orders: the executions of today by order number.
SyncRegular(row, p) ==
    LET q == IF row.no # 0 /\ book[row.no].day = SessionOf(p) THEN book[row.no].exec ELSE 0
        st == IF q >= Qty THEN "filled" ELSE IF q > 0 THEN "partial"
              ELSE IF ~InSession THEN "unfilled" ELSE "submitted"
    IN [row EXCEPT !.status = st, !.filled = q]

\* Mutant: a row once partial is never looked at again.
SyncedOnce(row, p, resv, reg) ==
    IF row.mode = "reserve" /\ row.status = "reserved" /\ resv THEN SyncReserved(row, p)
    ELSE IF row.mode = "manual" /\ row.status = "submitted" /\ reg THEN SyncRegular(row, p)
    ELSE row
\* A row after a sync whose two lookups did or did not succeed.
Synced(row, p, resv, reg) ==
    IF row.mode = "reserve" /\ row.status \in {"reserved", "partial"} /\ resv THEN SyncReserved(row, p)
    ELSE IF row.mode = "manual" /\ row.status \in {"submitted", "partial"} /\ reg THEN SyncRegular(row, p)
    ELSE row

Alone(r) == \A q \in Request \ {r} : req[q].op \in {"idle", "done"}

BeginSync(r) ==
    /\ req[r] = Idle /\ rows # <<>>
    /\ r = Batch => phase \in {2, 4}
    /\ \E resv, reg \in BOOLEAN :
          req' = [req EXCEPT ![r] =
                    [op |-> "sync", was |-> rows, full |-> resv /\ reg /\ phase = 2 /\ Alone(r),
                     new |-> [i \in DOMAIN rows |-> Synced(rows[i], phase, resv, reg)]]]
    /\ UNCHANGED <<phase, rows, book, excused, settled>>

\* Only the columns the sync changed are written.
Written(now, was, new) ==
    [now EXCEPT !.status = IF new.status # was.status THEN new.status ELSE @,
                !.filled = IF new.filled # was.filled THEN new.filled ELSE @]

\* The screen's refresh commits only when some status changed, the task always.
CommitSync(r) ==
    /\ req[r].op = "sync"
    /\ LET was == req[r].was new == req[r].new IN
       rows' = IF r = Batch \/ \E i \in DOMAIN was : new[i].status # was[i].status
               THEN [i \in DOMAIN rows |->
                       IF i \in DOMAIN was THEN Written(rows[i], was[i], new[i]) ELSE rows[i]]
               ELSE rows
    /\ settled' = (settled \/ (r = Batch /\ req[r].full /\ Alone(r) /\ rows = req[r].was))
    /\ req' = [req EXCEPT ![r] = Idle]
    /\ UNCHANGED <<phase, book, excused>>

-----------------------------------------------------------------------------
(* cancel_broker_order and cancel_regular_order *)

Cancelled(n) == [book EXCEPT ![n].state = "cancelled"]

\* A reservation goes straight to the broker, who refuses once it has become an order.
CancelReserved(r) ==
    /\ req[r] = Idle
    /\ \E i \in DOMAIN rows :
          /\ rows[i].mode = "reserve" /\ rows[i].status \in {"reserved", "partial"}
          /\ book[rows[i].no].state = "waiting" /\ book' = Cancelled(rows[i].no)
          /\ \/ req' = [req EXCEPT ![r] = [op |-> "cancel", row |-> i, filled |-> {}]]
             \/ Unsure /\ req' = [req EXCEPT ![r] = Done]
    /\ UNCHANGED <<phase, rows, excused, settled>>

\* A regular order is brought up to date first; what is filled or over is refused.
CancelRegular(r) ==
    /\ req[r] = Idle
    /\ \E i \in DOMAIN rows :
          LET row == SyncRegular(rows[i], phase) IN
          /\ rows[i].mode = "manual" /\ rows[i].status \in {"submitted", "partial"}
          /\ rows' = IF row.status # rows[i].status THEN [rows EXCEPT ![i] = row] ELSE rows
          /\ req' = [req EXCEPT ![r] = IF row.status \in {"submitted", "partial"}
                       THEN [op |-> "withdraw", row |-> i,
                             filled |-> IF row.status = rows[i].status /\ row.filled # rows[i].filled
                                        THEN {row.filled} ELSE {}] ELSE Done]
    /\ UNCHANGED <<phase, book, excused, settled>>

CancelAtBroker(r) ==
    /\ req[r].op = "withdraw"
    /\ LET n == rows[req[r].row].no IN
       IF book[n].state = "live"
       THEN book' = Cancelled(n) /\ req' = [req EXCEPT ![r].op = "cancel"]
       ELSE req' = [req EXCEPT ![r] = Done] /\ UNCHANGED book
    /\ UNCHANGED <<phase, rows, excused, settled>>

CommitCancel(r) ==
    /\ req[r].op = "cancel"
    /\ LET i == req[r].row new == req[r].filled IN
       rows' = [rows EXCEPT ![i].status = "cancelled",
                            ![i].filled = IF new = {} THEN @ ELSE CHOOSE q \in new : TRUE]
    /\ req' = [req EXCEPT ![r] = Done]
    /\ UNCHANGED <<phase, book, excused, settled>>

OrdersNext ==
    \/ NextPhase \/ Execute
    \/ \E r \in Maker : BeginReserve(r) \/ Ask(r) \/ Flush(r) \/ CommitReserve(r)
    \/ \E r \in Trader : PlaceManual(r) \/ CommitManual(r)
    \/ \E r \in Maker \union Trader : Die(r)
    \/ \E r \in Canceller : CancelReserved(r) \/ CancelRegular(r) \/ CancelAtBroker(r) \/ CommitCancel(r)
    \/ \E r \in Screen \union {Batch} : BeginSync(r) \/ CommitSync(r)

OrdersSpec == OrdersInit /\ [][OrdersNext]_ordersVars

-----------------------------------------------------------------------------
(* Properties *)

\* "No second acceptance of the same line" (reserve_broker_orders): for the day of the
\* sheet the broker holds one reservation of a line at most and the table or the running
\* request knows it, through cancels, refusals and asking again; excepted are two requests
\* for the line at the same time, a lost answer, and rows lost before the commit (a death,
\* or a row of another line refused by the table).
ReservedOnce ==
    LET Held == {n \in DOMAIN book : book[n].kind = "reserve" /\ book[n].day = 1
                                       /\ book[n].state # "cancelled" /\ book[n].line \notin excused}
        Drafts == UNION {ToSet(req[r].draft) : r \in {r \in Maker : req[r].op = "reserve"}}
    IN /\ \A m \in Held : \E row \in ToSet(rows) \union Drafts : row.no = m
       /\ \A m, n \in Held : book[m].line = book[n].line => m = n

\* A final status never lies, whichever sync or cancel wrote it last: "filled" is all
\* shares, "unfilled" is none and none to come, and a reservation shown cancelled is
\* cancelled. (Orders of the day itself: a reservation taken after its close trades in
\* the next session, and the sync of that session judges it by the old date.) After the
\* task has looked at everything once the session was over, and nothing else was under
\* way, each row tells all that became of its order. Only the quantity of a row that is
\* filled may be one of before: refreshes that overlap write the columns they changed, and
\* no sync looks at it again.
FinalStatusTrue ==
    \A i \in DOMAIN rows :
       LET o == book[rows[i].no] IN
       rows[i].no # 0 /\ o.day = 1 /\ phase <= 2 =>
          /\ CASE rows[i].status = "filled"    -> o.exec = Qty
               [] rows[i].status = "unfilled"  -> o.exec = 0 /\ o.state \in {"over", "cancelled"}
               [] rows[i].status = "cancelled" -> o.state = "cancelled" \/ o.exec = Qty
               [] OTHER -> TRUE
          /\ settled /\ phase = 2 /\ rows[i].status # "cancelled" =>
               /\ rows[i].status = "filled" \/ rows[i].filled = o.exec
               /\ rows[i].status = (IF o.exec = Qty THEN "filled" ELSE IF o.exec > 0 THEN "partial"
                                    ELSE IF o.state = "cancelled" /\ o.kind = "reserve" THEN "cancelled"
                                    ELSE "unfilled")

\* "Final: filled, partial, unfilled, cancelled" (models.py): once the day is over, shares
\* recorded as executed stay recorded.
FilledStays ==
    [][\A i \in DOMAIN rows : DayOver(phase) => rows'[i].filled >= rows[i].filled]_ordersVars
=============================================================================
