------------------------------ MODULE OrdersProofs ------------------------------
(***************************************************************************)
(* The orders of an account, the sheet of the day, and what stands between  *)
(* them and the broker.                                                     *)
(*                                                                          *)
(* Orders: the broker holds one reservation of a line at most, and the      *)
(* table or a running request knows it.  Two requests for one line are      *)
(* excused, so a request that reserves has either read the row of a         *)
(* reservation or made it itself; and before the session the row of a       *)
(* reservation counts as active.  And no final status lies: what a row says *)
(* of its order and what it counts stay true because an order that is over  *)
(* stays as it is.                                                          *)
(*                                                                          *)
(* Sheet: its row settles at the cutoff, who looks on the day itself sees   *)
(* what was sent, and an old sheet is never shown as due.  The second needs *)
(* the invariant: a row the executor wrote is the row it sent until a       *)
(* request marks the day as unfrozen, and the executor never writes a day   *)
(* twice while that day is not over.                                        *)
(*                                                                          *)
(* Access: each order is carried out once at most; the only answers that    *)
(* are tried again are refusals.                                            *)
(*                                                                          *)
(* TokenDay: what the morning's task served needs no issue before the       *)
(* evening is over, a matter of times modulo a day.                         *)
(***************************************************************************)
EXTENDS Orders, Sheet, Access, TokenDay, Sums, SequenceTheorems, TLAPS

Statuses == {"reserved", "submitted", "partial", "filled", "unfilled", "cancelled", "failed"}
RowSet == [line : Line, mode : {"reserve", "manual"}, status : Statuses, no : Nat, filled : Nat]
OrderSet == [line : Line, kind : {"reserve", "manual"}, day : {1, 2}, exec : Nat,
             state : {"waiting", "live", "over", "cancelled"}]

BookOk == /\ phase \in 0..4 /\ book \in Seq(OrderSet)
          /\ phase = 0 => \A n \in 1..Len(book) : book[n].kind = "reserve" =>
                           book[n].exec = 0 /\ book[n].state \in {"waiting", "cancelled"}

\* A row and its order.
Tied(row) == /\ row \in RowSet /\ row.no \in 0..Len(book)
             /\ row.no = 0 => row.status = "failed"
             /\ row.no # 0 => book[row.no].line = row.line /\ book[row.no].kind = row.mode
\* Before the session the row of a reservation waits, unless the order is cancelled.
Waits(row) == phase = 0 /\ row.no # 0 /\ row.mode = "reserve" =>
                 row.status = "reserved" \/ book[row.no].state = "cancelled"
RowsOk == rows \in Seq(RowSet) /\ \A i \in 1..Len(rows) : Tied(rows[i]) /\ Waits(rows[i])

\* What a request holds, by what it is doing.
Drafts(q) == q.draft \in Seq(RowSet) /\ \A i \in 1..Len(q.draft) : Tied(q.draft[i])
Reserving(q) ==
    /\ q \in [op : {"reserve"}, asked : SUBSET Line, todo : Seq(Line), active : SUBSET Line,
              draft : Seq(RowSet), flushed : BOOLEAN]
    /\ \A i \in 1..Len(q.todo) : q.todo[i] \in q.asked
    /\ \A i \in 1..Len(q.draft) :
          /\ Tied(q.draft[i]) /\ q.draft[i].line \in q.asked
          /\ q.draft[i].no # 0 => q.draft[i].status = "reserved" /\ q.draft[i].line \in q.active
Trading(q) ==
    /\ q \in [op : {"trade"}, draft : Seq(RowSet)]
    /\ \A i \in 1..Len(q.draft) : Tied(q.draft[i]) /\ q.draft[i].mode = "manual"
Syncing(q) ==
    /\ q.op = "sync" /\ q.was \in Seq(RowSet) /\ q.new \in Seq(RowSet)
    /\ Len(q.was) <= Len(rows) /\ Len(q.new) = Len(q.was)
    /\ \A i \in 1..Len(q.was) : q.new[i].status # q.was[i].status =>
          /\ rows[i].no # 0
          /\ phase = 0 /\ rows[i].mode = "reserve" => book[rows[i].no].state = "cancelled"
Cancelling(q) ==
    /\ q \in [op : {"withdraw", "cancel"}, row : Nat, filled : SUBSET Nat]
    /\ q.row \in 1..Len(rows) /\ rows[q.row].no # 0
    /\ q.op = "cancel" => book[rows[q.row].no].state = "cancelled"
Holds(r, q) == \/ q \in {Idle, Done}
               \/ Reserving(q) /\ r \in Maker
               \/ Trading(q) \/ Syncing(q) \/ Cancelling(q)
RequestsOk == DOMAIN req = Request /\ \A r \in Request : Holds(r, req[r])

Standing(n) == /\ n \in 1..Len(book) /\ book[n].kind = "reserve" /\ book[n].day = 1
               /\ book[n].state # "cancelled" /\ book[n].line \notin excused

\* Two requests for a line are excused.
Apart == \A r, q \in Maker : req[r].op = "reserve" /\ req[q].op = "reserve" /\ r # q =>
            \A l \in req[r].asked : l \in req[q].asked => l \in excused
\* Who reserves has read the rows of the reservations of its lines.
Seen == \A r \in Maker : phase = 0 /\ req[r].op = "reserve" =>
           \A i \in 1..Len(rows) : Standing(rows[i].no) /\ rows[i].line \in req[r].asked => rows[i].line \in req[r].active
Known == \A n \in 1..Len(book) : Standing(n) =>
            \/ \E i \in 1..Len(rows) : rows[i].no = n
            \/ \E r \in Maker : req[r].op = "reserve" /\ \E i \in 1..Len(req[r].draft) : req[r].draft[i].no = n
Unique == \A m, n \in 1..Len(book) : Standing(m) /\ Standing(n) /\ book[m].line = book[n].line => m = n

Claims == Apart /\ Seen /\ Known /\ Unique
OrdersInv == BookOk /\ RowsOk /\ RequestsOk /\ Claims

-----------------------------------------------------------------------------
(* What stays when the broker, the table or other requests move on. *)

\* Orders are added and change their state, a cancelled one for good; rows are added and
\* change their status.
Onward ==
    /\ book' \in Seq(OrderSet) /\ Len(book') >= Len(book)
    /\ \A n \in 1..Len(book) : /\ book'[n].line = book[n].line /\ book'[n].kind = book[n].kind
                               /\ book'[n].day = book[n].day
                               /\ book[n].state = "cancelled" => book'[n].state = "cancelled"
    /\ rows' \in Seq(RowSet) /\ Len(rows') >= Len(rows)
    /\ \A i \in 1..Len(rows) : /\ rows'[i].no = rows[i].no /\ rows'[i].line = rows[i].line
                               /\ rows'[i].mode = rows[i].mode
    /\ phase' = 0 => phase = 0

\* The lengths of the broker's book and of the table.
LEMMA Lengths ==
    ASSUME OrdersInv
    PROVE  Len(book) \in Nat /\ Len(rows) \in Nat /\ DOMAIN book = 1..Len(book) /\ DOMAIN rows = 1..Len(rows)
  BY LenProperties DEF OrdersInv, BookOk, RowsOk

\* While the book goes onward a row stays tied to its order, and goes on waiting for it.
LEMMA TiedStays ==
    ASSUME OrdersInv, Onward, NEW row, Tied(row)
    PROVE  Tied(row)' /\ (Waits(row) => Waits(row)')
<1>1. Len(book) \in Nat /\ Len(book') \in Nat
  BY Lengths, LenProperties DEF Onward
<1>2. row.no # 0 => row.no \in 1..Len(book)
  BY <1>1 DEF Tied
<1> QED BY <1>1, <1>2 DEF Tied, Waits, Onward

\* What a request holds stays well formed.
LEMMA HoldsStays ==
    ASSUME OrdersInv, Onward, NEW r, NEW q, Holds(r, q)
    PROVE  Holds(r, q)'
<1>0. /\ Len(book) \in Nat /\ Len(rows) \in Nat /\ Len(rows') \in Nat
      /\ \A i \in 1..Len(rows) : rows[i].no # 0 => rows[i].no \in 1..Len(book)
  BY Lengths, LenProperties DEF Onward, OrdersInv, RowsOk, Tied
<1>1. CASE q \in {Idle, Done}
  BY <1>1 DEF Holds, Idle, Done
<1>2. CASE Reserving(q) /\ r \in Maker
  <2>1. \A i \in 1..Len(q.draft) : Tied(q.draft[i])'
    BY <1>2, TiedStays DEF Reserving
  <2> QED BY <1>2, <2>1 DEF Holds, Reserving
<1>3. CASE Trading(q)
  <2>1. \A i \in 1..Len(q.draft) : Tied(q.draft[i])'
    BY <1>3, TiedStays DEF Trading
  <2> QED BY <1>3, <2>1 DEF Holds, Trading
<1>4. CASE Syncing(q)
  <2>1. Len(q.was) \in Nat
    BY <1>4, LenProperties DEF Syncing
  <2>2. ASSUME NEW i \in 1..Len(q.was), q.new[i].status # q.was[i].status
        PROVE  rows'[i].no # 0 /\ (phase' = 0 /\ rows'[i].mode = "reserve" => book'[rows'[i].no].state = "cancelled")
    <3>1. i \in 1..Len(rows)
      BY <1>0, <1>4, <2>1 DEF Syncing
    <3>2. rows'[i].no = rows[i].no /\ rows'[i].mode = rows[i].mode /\ rows[i].no # 0 /\ rows[i].no \in 1..Len(book)
      BY <1>0, <1>4, <2>2, <3>1 DEF Syncing, Onward
    <3>3. phase' = 0 /\ rows[i].mode = "reserve" => book[rows[i].no].state = "cancelled"
      BY <1>4, <2>2, <3>1 DEF Syncing, Onward
    <3> QED BY <3>2, <3>3 DEF Onward
  <2>3. Len(q.was) <= Len(rows')
    BY <1>0, <1>4, <2>1 DEF Syncing, Onward
  <2>4. Syncing(q)'
    BY <1>4, <2>2, <2>3 DEF Syncing
  <2> QED BY <2>4 DEF Holds
<1>5. CASE Cancelling(q)
  BY <1>0, <1>5 DEF Holds, Cancelling, Onward
<1> QED BY <1>1, <1>2, <1>3, <1>4, <1>5 DEF Holds

\* One request steps.
LEMMA RequestSteps ==
    ASSUME OrdersInv, Onward, NEW r \in Request, NEW q, req' = [req EXCEPT ![r] = q], Holds(r, q)'
    PROVE  RequestsOk'
<1>1. DOMAIN req' = Request /\ \A x \in Request : req'[x] = IF x = r THEN q ELSE req[x]
  BY DEF OrdersInv, RequestsOk
<1>2. SUFFICES ASSUME NEW x \in Request PROVE Holds(x, req[x])'
  BY <1>1 DEF RequestsOk
<1>3. PICK new : new = req'[x]
  OBVIOUS
<1>4. CASE x = r
  BY <1>1, <1>3, <1>4 DEF Holds, Idle, Done, Reserving, Trading, Syncing, Cancelling
<1>5. CASE x # r
  <2>1. new = req[x]
    BY <1>1, <1>3, <1>5
  <2>2. Holds(x, new)'
    BY <2>1, HoldsStays DEF OrdersInv, RequestsOk
  <2>3. Holds(x, new)' => Holds(x, req[x])'
    <3>1. Reserving(new)' => Reserving(req[x])'
      BY <1>3 DEF Reserving
    <3>2. Trading(new)' => Trading(req[x])'
      BY <1>3 DEF Trading
    <3>3. Syncing(new)' => Syncing(req[x])'
      BY <1>3 DEF Syncing
    <3>4. Cancelling(new)' => Cancelling(req[x])'
      BY <1>3 DEF Cancelling
    <3> QED BY <1>3, <3>1, <3>2, <3>3, <3>4 DEF Holds, Idle, Done
  <2> QED BY <2>2, <2>3
<1> QED BY <1>4, <1>5

\* No reservation comes that counts, and none is given up; the rows added are of other orders.
LEMMA QuietKeeps ==
    ASSUME OrdersInv, Onward, RowsOk', RequestsOk', excused \subseteq excused',
           \A n \in Len(book)+1..Len(book') : ~Standing(n)',
           \A i \in Len(rows)+1..Len(rows') : rows'[i].mode # "reserve",
           \A x \in Maker : req'[x].op = "reserve" => /\ req[x].op = "reserve" /\ req'[x].asked = req[x].asked
                                                     /\ req[x].active \subseteq req'[x].active,
           \A x \in Maker : req[x].op = "reserve" =>
               /\ req'[x].op = "reserve"
               /\ \A i \in 1..Len(req[x].draft) : \E j \in 1..Len(req'[x].draft) :
                     req'[x].draft[j].no = req[x].draft[i].no
    PROVE  Claims'
<1>0. Len(book) \in Nat /\ Len(rows) \in Nat /\ Len(rows') \in Nat /\ Len(book') \in Nat
  BY Lengths, LenProperties DEF Onward
<1>1. ASSUME NEW n, Standing(n)'
      PROVE  Standing(n) /\ book'[n].line = book[n].line
  <2>1. n \in 1..Len(book)
    BY <1>0, <1>1 DEF Standing
  <2> QED BY <1>1, <2>1 DEF Standing, Onward
<1>2. Apart'
  BY DEF OrdersInv, Claims, Apart
<1>3. Seen'
  <2> SUFFICES ASSUME NEW r \in Maker, phase' = 0, req'[r].op = "reserve", NEW i \in 1..Len(rows'),
                      NEW n, n = rows'[i].no, Standing(n)', rows'[i].line \in req'[r].asked
               PROVE  rows'[i].line \in req'[r].active
    BY DEF Seen, Standing
  <2>1. rows'[i].mode = "reserve"
    BY <1>0 DEF RowsOk, Tied, Standing
  <2>2. i \in 1..Len(rows)
    BY <1>0, <2>1
  <2>3. rows'[i].no = rows[i].no /\ rows'[i].line = rows[i].line
    BY <2>2 DEF Onward
  <2>4. Standing(n) /\ n = rows[i].no
    BY <1>1, <2>3
  <2> QED BY <2>2, <2>3, <2>4 DEF OrdersInv, Claims, Seen, Onward
<1>4. Known'
  <2> SUFFICES ASSUME NEW n \in 1..Len(book'), Standing(n)'
               PROVE  \/ \E i \in 1..Len(rows') : rows'[i].no = n
                      \/ \E r \in Maker : req'[r].op = "reserve" /\ \E i \in 1..Len(req'[r].draft) : req'[r].draft[i].no = n
    BY DEF Known
  <2>1. Standing(n)
    BY <1>1
  <2>2. CASE \E i \in 1..Len(rows) : rows[i].no = n
    BY <1>0, <2>2 DEF Onward
  <2>3. CASE \E r \in Maker : req[r].op = "reserve" /\ \E i \in 1..Len(req[r].draft) : req[r].draft[i].no = n
    BY <2>3
  <2> QED BY <2>1, <2>2, <2>3 DEF OrdersInv, Claims, Known, Standing
<1>5. Unique'
  BY <1>1 DEF OrdersInv, Claims, Unique, Standing
<1> QED BY <1>2, <1>3, <1>4, <1>5 DEF Claims

-----------------------------------------------------------------------------
(* The broker and the requests that make no reservation. *)

\* A sequence rewritten in place.
LEMMA Rewritten ==
    ASSUME NEW S, NEW s \in Seq(S), NEW T, NEW f, DOMAIN f = DOMAIN s, f = [i \in DOMAIN f |-> f[i]],
           \A i \in DOMAIN s : f[i] \in T
    PROVE  f \in Seq(T) /\ Len(f) = Len(s)
<1>1. Len(s) \in Nat /\ DOMAIN s = 1..Len(s)
  BY LenProperties
<1>2. f \in [1..Len(s) -> T]
  BY <1>1
<1>3. f \in Seq(T)
  BY <1>1, <1>2, SeqDef
<1> QED BY <1>1, <1>3, LenProperties

\* The table and the broker stand still.
LEMMA StandStill ==
    ASSUME OrdersInv, UNCHANGED <<phase, rows, book>>
    PROVE  Onward /\ BookOk' /\ RowsOk'
<1>1. Onward
  BY Lengths DEF Onward, OrdersInv, BookOk, RowsOk
<1>2. BookOk'
  BY DEF OrdersInv, BookOk
<1>3. RowsOk'
  BY DEF OrdersInv, RowsOk, Tied, Waits
<1> QED BY <1>1, <1>2, <1>3

\* Only the broker moves.
LEMMA BookMoves ==
    ASSUME OrdersInv, UNCHANGED rows, BookOk', phase' = 0 => phase = 0, Len(book') >= Len(book),
           \A n \in 1..Len(book) : /\ book'[n].line = book[n].line /\ book'[n].kind = book[n].kind
                                   /\ book'[n].day = book[n].day
                                   /\ book[n].state = "cancelled" => book'[n].state = "cancelled"
    PROVE  Onward /\ RowsOk'
<1>1. Onward
  BY Lengths DEF Onward, BookOk, OrdersInv, RowsOk
<1>2. ASSUME NEW i \in 1..Len(rows) PROVE Tied(rows[i])' /\ Waits(rows[i])'
  <2>1. PICK old : old = rows[i]
    OBVIOUS
  <2>2. Tied(old)' /\ Waits(old)'
    BY <1>1, <2>1, TiedStays DEF OrdersInv, RowsOk
  <2> QED BY <2>1, <2>2 DEF Tied, Waits
<1>3. RowsOk'
  BY <1>2 DEF OrdersInv, RowsOk
<1> QED BY <1>1, <1>3

\* All requests stand still.
LEMMA RequestsStand ==
    ASSUME OrdersInv, Onward, UNCHANGED req
    PROVE  RequestsOk'
<1> SUFFICES ASSUME NEW x \in Request PROVE Holds(x, req[x])'
  BY DEF OrdersInv, RequestsOk
<1>1. PICK old : old = req[x]
  OBVIOUS
<1>2. Holds(x, old)'
  BY <1>1, HoldsStays DEF OrdersInv, RequestsOk
<1>3. req'[x] = old
  BY <1>1
<1> QED BY <1>2, <1>3 DEF Holds, Idle, Done, Reserving, Trading, Syncing, Cancelling

\* A phase of the day and an execution at the broker keep the invariant.
LEMMA BrokerKeeps ==
    ASSUME OrdersInv, NextPhase \/ Execute
    PROVE  OrdersInv'
<1>1. /\ Len(book') = Len(book) /\ BookOk' /\ (phase' = 0 => phase = 0)
      /\ \A n \in 1..Len(book) : /\ book'[n].line = book[n].line /\ book'[n].kind = book[n].kind
                                 /\ book'[n].day = book[n].day
                                 /\ book[n].state = "cancelled" => book'[n].state = "cancelled"
  <2>1. CASE NextPhase
    <3>1. DOMAIN book' = DOMAIN book /\ book' = [n \in DOMAIN book' |-> book'[n]] /\ phase' \in 1..4
      BY <2>1, OrdersAssumption DEF NextPhase, OrdersAssumption, OrdersInv, BookOk
    <3>2. ASSUME NEW n \in DOMAIN book
          PROVE  /\ book'[n] \in OrderSet /\ book'[n].line = book[n].line /\ book'[n].kind = book[n].kind
                 /\ book'[n].day = book[n].day
                 /\ book[n].state = "cancelled" => book'[n].state = "cancelled"
      <4>1. book[n] \in OrderSet
        BY Lengths, ElementOfSeq DEF OrdersInv, BookOk
      <4>2. book'[n] \in {book[n], [book[n] EXCEPT !.state = "live"], [book[n] EXCEPT !.state = "over"]}
            /\ (book[n].state = "cancelled" => book'[n] = book[n])
        BY <2>1 DEF NextPhase
      <4> QED BY <4>1, <4>2 DEF OrderSet
    <3>3. book' \in Seq(OrderSet) /\ Len(book') = Len(book)
      BY <3>1, <3>2, Rewritten DEF OrdersInv, BookOk
    <3> QED BY <3>1, <3>2, <3>3, Lengths DEF BookOk
  <2>2. CASE Execute
    <3>1. PICK n \in DOMAIN book :
              /\ book[n].state = "live"
              /\ book' = [book EXCEPT ![n].exec = @ + 1,
                                      ![n].state = IF book[n].exec + 1 = Qty THEN "over" ELSE @]
      BY <2>2 DEF Execute
    <3>2. n \in 1..Len(book) /\ book[n] \in OrderSet
      BY Lengths, ElementOfSeq DEF OrdersInv, BookOk
    <3>3. /\ DOMAIN book' = DOMAIN book /\ book' = [j \in DOMAIN book' |-> book'[j]]
          /\ \A j \in DOMAIN book : j # n => book'[j] = book[j]
      BY <3>1
    <3>4. /\ book'[n] \in OrderSet /\ book'[n].line = book[n].line
          /\ book'[n].kind = book[n].kind /\ book'[n].day = book[n].day
      BY <3>1, <3>2 DEF OrderSet
    <3>5. book' \in Seq(OrderSet) /\ Len(book') = Len(book)
      <4>1. \A j \in DOMAIN book : book'[j] \in OrderSet
        BY <3>3, <3>4, Lengths, ElementOfSeq DEF OrdersInv, BookOk
      <4> QED BY <3>3, <4>1, Rewritten DEF OrdersInv, BookOk
    <3>6. phase = 0 => book[n].kind # "reserve"
      BY <3>1, <3>2 DEF OrdersInv, BookOk
    <3>7. phase' = phase
      BY <2>2 DEF Execute
    <3>8. BookOk'
      BY <3>3, <3>4, <3>5, <3>6, <3>7, Lengths DEF OrdersInv, BookOk
    <3> QED BY <3>1, <3>3, <3>4, <3>5, <3>7, <3>8, Lengths
  <2> QED BY <2>1, <2>2
<1>2. UNCHANGED <<rows, req, excused>>
  BY DEF NextPhase, Execute
<1>3. Onward /\ RowsOk'
  BY <1>1, <1>2, BookMoves, Lengths
<1>4. RequestsOk'
  BY <1>2, <1>3, RequestsStand
<1>5. Claims'
  <2>1. /\ \A n \in Len(book)+1..Len(book') : ~Standing(n)'
        /\ \A i \in Len(rows)+1..Len(rows') : rows'[i].mode # "reserve"
    BY <1>1, <1>2, Lengths
  <2>2. excused \subseteq excused'
    BY <1>2
  <2> QED BY <1>2, <1>3, <1>4, <2>1, <2>2, QuietKeeps
<1> QED BY <1>1, <1>3, <1>4, <1>5 DEF OrdersInv

\* A step of one request that touches no reservation in the making.
LEMMA OneStep ==
    ASSUME OrdersInv, Onward, BookOk', RowsOk', NEW r \in Request, NEW q, req' = [req EXCEPT ![r] = q],
           Holds(r, q)', req[r].op # "reserve", q.op # "reserve", excused' = excused,
           \A n \in Len(book)+1..Len(book') : book'[n].kind # "reserve",
           \A i \in Len(rows)+1..Len(rows') : rows'[i].mode # "reserve"
    PROVE  OrdersInv'
<1>1. RequestsOk'
  BY RequestSteps
<1>2. \A x \in Request : req'[x] = IF x = r THEN q ELSE req[x]
  BY DEF OrdersInv, RequestsOk
<1>3. Maker \subseteq Request
  BY DEF Request
<1>4. \A n \in Len(book)+1..Len(book') : ~Standing(n)'
  BY DEF Standing
<1>5. /\ \A x \in Maker : req'[x].op = "reserve" => /\ req[x].op = "reserve" /\ req'[x].asked = req[x].asked
                                                     /\ req[x].active \subseteq req'[x].active
      /\ \A x \in Maker : req[x].op = "reserve" => req'[x].op = "reserve" /\ req'[x].draft = req[x].draft
  BY <1>2, <1>3
<1>6. Claims'
  BY <1>1, <1>4, <1>5, QuietKeeps
<1> QED BY <1>1, <1>6 DEF OrdersInv

\* Rows appended to the table.
LEMMA Appended ==
    ASSUME OrdersInv, NEW new \in Seq(RowSet), rows' = rows \o new, UNCHANGED <<phase, book>>,
           \A i \in 1..Len(new) : Tied(new[i]) /\ Waits(new[i])
    PROVE  /\ Onward /\ BookOk' /\ RowsOk' /\ Len(rows') = Len(rows) + Len(new) /\ Len(new) \in Nat
           /\ \A i \in 1..Len(rows') : rows'[i] = IF i <= Len(rows) THEN rows[i] ELSE new[i - Len(rows)]
<1>1. /\ rows' \in Seq(RowSet) /\ Len(rows') = Len(rows) + Len(new) /\ Len(new) \in Nat /\ Len(rows) \in Nat
      /\ \A i \in 1..Len(rows') : rows'[i] = IF i <= Len(rows) THEN rows[i] ELSE new[i - Len(rows)]
  BY ConcatProperties, LenProperties DEF OrdersInv, RowsOk
<1>2. BookOk'
  BY DEF OrdersInv, BookOk
<1>3. Onward
  BY <1>1, Lengths DEF Onward, OrdersInv, BookOk
<1>4. ASSUME NEW i \in 1..Len(rows') PROVE Tied(rows[i])' /\ Waits(rows[i])'
  <2>1. PICK row : row = rows'[i]
    OBVIOUS
  <2>2. Tied(row) /\ Waits(row)
    <3>1. CASE i <= Len(rows)
      BY <1>1, <2>1, <3>1 DEF OrdersInv, RowsOk
    <3>2. CASE ~(i <= Len(rows))
      <4>1. i - Len(rows) \in 1..Len(new)
        BY <1>1, <3>2
      <4> QED BY <1>1, <2>1, <3>2, <4>1
    <3> QED BY <3>1, <3>2
  <2>3. Tied(row)' /\ Waits(row)'
    BY <1>3, <2>2, TiedStays
  <2> QED BY <2>1, <2>3 DEF Tied, Waits
<1>5. RowsOk'
  BY <1>1, <1>4 DEF RowsOk
<1> QED BY <1>1, <1>2, <1>3, <1>5

\* A manual order keeps it, sent and stored.
LEMMA ManualKeeps ==
    ASSUME OrdersInv, NEW r \in Trader, PlaceManual(r) \/ CommitManual(r)
    PROVE  OrdersInv'
<1>0. r \in Request
  BY DEF Request
<1>1. CASE PlaceManual(r)
  <2>1. PICK l \in Line : \E no \in {0, Len(book')}, status \in {"submitted", "failed"} :
            /\ book' = Append(book, Order(l, "manual", 1)) \/ book' = book
            /\ no # 0 => status = "submitted" /\ book' = Append(book, Order(l, "manual", 1))
            /\ no = 0 => status = "failed"
            /\ req' = [req EXCEPT ![r] = [op |-> "trade", draft |-> <<Row(l, "manual", status, no)>>]]
    <3>1. PICK l \in Line :
            \/ /\ book' = Append(book, Order(l, "manual", 1))
               /\ req' = [req EXCEPT ![r] = [op |-> "trade", draft |-> <<Row(l, "manual", "submitted", Len(book'))>>]]
            \/ /\ req' = [req EXCEPT ![r] = [op |-> "trade", draft |-> <<Row(l, "manual", "failed", 0)>>]]
               /\ book' = IF Unsure THEN Append(book, Order(l, "manual", 1)) ELSE book
      BY <1>1 DEF PlaceManual
    <3>2. Order(l, "manual", 1) \in OrderSet
      BY DEF Order, OrderSet
    <3>3. book' = Append(book, Order(l, "manual", 1)) => Len(book') # 0
      BY <3>2, AppendProperties, Lengths DEF OrdersInv, BookOk
    <3> QED BY <3>1, <3>3
  <2>2. PICK no \in {0, Len(book')}, status \in {"submitted", "failed"} :
            /\ book' = Append(book, Order(l, "manual", 1)) \/ book' = book
            /\ no # 0 => status = "submitted" /\ book' = Append(book, Order(l, "manual", 1))
            /\ no = 0 => status = "failed"
            /\ req' = [req EXCEPT ![r] = [op |-> "trade", draft |-> <<Row(l, "manual", status, no)>>]]
    BY <2>1
  <2>3. Order(l, "manual", 1) \in OrderSet /\ Order(l, "manual", 1).line = l /\ Order(l, "manual", 1).kind = "manual"
    BY DEF Order, OrderSet
  <2>4. /\ UNCHANGED <<phase, rows, excused>> /\ phase = 1 /\ req[r] = Idle
    BY <1>1 DEF PlaceManual
  <2>5. /\ book' \in Seq(OrderSet) /\ Len(book') \in {Len(book), Len(book) + 1}
        /\ \A n \in 1..Len(book) : book'[n] = book[n]
        /\ \A n \in Len(book)+1..Len(book') : book'[n] = Order(l, "manual", 1)
        /\ no # 0 => no = Len(book) + 1 /\ no = Len(book')
    <3>1. book \in Seq(OrderSet) /\ Len(book) \in Nat
      BY Lengths DEF OrdersInv, BookOk
    <3>2. CASE book' = Append(book, Order(l, "manual", 1))
      <4>1. /\ book' \in Seq(OrderSet) /\ Len(book') = Len(book) + 1
            /\ \A n \in 1..Len(book) : book'[n] = book[n]
            /\ book'[Len(book) + 1] = Order(l, "manual", 1)
        BY <2>3, <3>1, <3>2, AppendProperties
      <4> QED BY <2>2, <3>1, <4>1
    <3>3. CASE book' = book
      <4>1. book' \in Seq(OrderSet) /\ Len(book') = Len(book)
        BY <3>1, <3>3
      <4>2. Len(book)+1..Len(book') = {}
        BY <3>1, <4>1
      <4>3. no # 0 => no = Len(book) + 1 /\ no = Len(book')
        <5>1. no # 0 => book' = Append(book, Order(l, "manual", 1))
          BY <2>2
        <5>2. Len(Append(book, Order(l, "manual", 1))) = Len(book) + 1
          BY <2>3, <3>1, AppendProperties
        <5> QED BY <3>1, <3>3, <5>1, <5>2, <4>1
      <4> QED BY <3>1, <3>3, <4>1, <4>2, <4>3
    <3> QED BY <2>2, <3>2, <3>3
  <2>6. BookOk'
    BY <2>4, <2>5 DEF BookOk
  <2>7. Onward /\ RowsOk'
    BY <2>4, <2>5, <2>6, BookMoves, Lengths
  <2>8. PICK row : row = Row(l, "manual", status, no)
    OBVIOUS
  <2>9. Tied(row)' /\ row \in RowSet /\ row.mode = "manual"
    <3>1. row \in RowSet /\ row.line = l /\ row.mode = "manual" /\ row.no = no /\ row.status = status
      <4>1. no \in Nat
        BY <2>2, <2>5, Lengths
      <4>2. status \in Statuses
        BY DEF Statuses
      <4> QED BY <2>8, <4>1, <4>2 DEF Row, RowSet
    <3>2. no \in 0..Len(book') /\ (no # 0 => book'[no] = Order(l, "manual", 1))
      BY <2>2, <2>5, Lengths
    <3> QED BY <2>2, <2>3, <3>1, <3>2 DEF Tied
  <2>10. PICK q : q = [op |-> "trade", draft |-> <<row>>]
    OBVIOUS
  <2>11. Holds(r, q)'
    <3>1. q.draft \in Seq(RowSet) /\ Len(q.draft) = 1 /\ q.draft[1] = row
      BY <2>9, <2>10
    <3>2. \A i \in 1..Len(q.draft) : q.draft[i] = row
      BY <3>1
    <3>3. q \in [op : {"trade"}, draft : Seq(RowSet)]
      BY <2>10, <3>1
    <3>4. Trading(q)'
      BY <2>9, <3>2, <3>3 DEF Trading, Tied
    <3> QED BY <3>4 DEF Holds
  <2>12. req' = [req EXCEPT ![r] = q] /\ req[r].op # "reserve" /\ q.op # "reserve"
    BY <2>2, <2>4, <2>8, <2>10 DEF Idle
  <2>13. /\ \A n \in Len(book)+1..Len(book') : book'[n].kind # "reserve"
         /\ \A i \in Len(rows)+1..Len(rows') : rows'[i].mode # "reserve"
    BY <2>3, <2>4, <2>5, Lengths
  <2>14. excused' = excused
    BY <2>4
  <2> QED BY <1>0, <2>6, <2>7, <2>11, <2>12, <2>13, <2>14, OneStep
<1>2. CASE CommitManual(r)
  <2>1. /\ req[r].op = "trade" /\ rows' = rows \o req[r].draft /\ req' = [req EXCEPT ![r] = Done]
        /\ UNCHANGED <<phase, book, excused>>
    BY <1>2 DEF CommitManual
  <2>2. Trading(req[r])
    BY <1>0, <2>1 DEF OrdersInv, RequestsOk, Holds, Idle, Done, Reserving, Syncing, Cancelling
  <2>3. PICK new : new = req[r].draft
    OBVIOUS
  <2>4. new \in Seq(RowSet) /\ \A i \in 1..Len(new) : Tied(new[i]) /\ Waits(new[i]) /\ new[i].mode = "manual"
    BY <2>2, <2>3 DEF Trading, Waits
  <2>5. /\ Onward /\ BookOk' /\ RowsOk' /\ Len(rows') = Len(rows) + Len(new) /\ Len(new) \in Nat
        /\ \A i \in 1..Len(rows') : rows'[i] = IF i <= Len(rows) THEN rows[i] ELSE new[i - Len(rows)]
    BY <2>1, <2>3, <2>4, Appended
  <2>6. \A i \in Len(rows)+1..Len(rows') : rows'[i].mode # "reserve"
    <3>1. ASSUME NEW i \in Len(rows)+1..Len(rows') PROVE rows'[i].mode # "reserve"
      <4>1. i - Len(rows) \in 1..Len(new) /\ i \in 1..Len(rows') /\ ~(i <= Len(rows))
        BY <2>5, Lengths
      <4> QED BY <2>4, <2>5, <4>1
    <3> QED BY <3>1
  <2>7. Holds(r, Done)' /\ Done.op # "reserve"
    BY DEF Holds, Done
  <2>8. /\ \A n \in Len(book)+1..Len(book') : book'[n].kind # "reserve"
        /\ req[r].op # "reserve" /\ excused' = excused
    BY <2>1, Lengths
  <2> QED BY <1>0, <2>1, <2>5, <2>6, <2>7, <2>8, OneStep
<1> QED BY <1>1, <1>2

\* A sync of a manual row writes its status and its quantity only.
LEMMA SyncedRegular ==
    ASSUME OrdersInv, NEW row, row.no \in 0..Len(book)
    PROVE  \E st \in Statuses, n \in Nat : SyncRegular(row, phase) = [row EXCEPT !.status = st, !.filled = n]
<1> DEFINE q == IF row.no # 0 /\ book[row.no].day = SessionOf(phase) THEN book[row.no].exec ELSE 0
           st == IF q >= Qty THEN "filled" ELSE IF q > 0 THEN "partial"
                 ELSE IF ~InSession THEN "unfilled" ELSE "submitted"
<1>1. SyncRegular(row, phase) = [row EXCEPT !.status = st, !.filled = q]
  BY DEF SyncRegular
<1>2. st \in Statuses
  <2> HIDE DEF q
  <2> QED BY DEF Statuses
<1>3. q \in Nat
  <2>1. row.no # 0 => row.no \in 1..Len(book)
    BY Lengths
  <2>2. row.no # 0 => book[row.no] \in OrderSet
    BY <2>1, ElementOfSeq DEF OrdersInv, BookOk
  <2> QED BY <2>2 DEF OrderSet
<1> HIDE DEF q, st
<1> QED BY <1>1, <1>2, <1>3

\* A row after a sync: its status is another only if there is an order, and before the
\* session, for a reservation, only if that is cancelled.
LEMMA SyncedRow ==
    ASSUME OrdersInv, NEW row, Tied(row), Waits(row), NEW resv, NEW reg
    PROVE  LET new == Synced(row, phase, resv, reg) IN
           /\ new \in RowSet
           /\ new.status # row.status =>
                 /\ row.no # 0
                 /\ phase = 0 /\ row.mode = "reserve" => book[row.no].state = "cancelled"
<1>0. /\ row \in RowSet /\ row.no \in 0..Len(book) /\ Qty \in Nat \ {0} /\ Len(book) \in Nat
      /\ row.no = 0 => row.status = "failed"
      /\ row.no # 0 => row.no \in 1..Len(book) /\ book[row.no] \in OrderSet /\ book[row.no].kind = row.mode
  BY OrdersAssumption, Lengths, ElementOfSeq DEF OrdersAssumption, Tied, OrdersInv, BookOk, RowSet
<1>1. CASE row.mode = "reserve" /\ row.status \in {"reserved", "partial"} /\ resv
  <2>1. Synced(row, phase, resv, reg) = SyncReserved(row, phase) /\ row.no # 0
    BY <1>0, <1>1 DEF Synced
  <2>2. \E st \in Statuses, n \in Nat : SyncReserved(row, phase) \in {row, [row EXCEPT !.status = st, !.filled = n]}
    <3> DEFINE st == IF book[row.no].state = "cancelled" THEN "cancelled"
                     ELSE IF book[row.no].exec >= Qty THEN "filled" ELSE IF book[row.no].exec > 0 THEN "partial"
                     ELSE IF DayOver(phase) THEN "unfilled" ELSE "reserved"
    <3>1. st \in Statuses /\ book[row.no].exec \in Nat
      BY <1>0, <2>1 DEF Statuses, OrderSet
    <3>2. SyncReserved(row, phase) \in {row, [row EXCEPT !.status = st, !.filled = book[row.no].exec]}
      BY DEF SyncReserved
    <3> HIDE DEF st
    <3> QED BY <3>1, <3>2
  <2>3. SyncReserved(row, phase) \in RowSet
    BY <1>0, <2>2 DEF RowSet
  <2>4. phase = 0 /\ book[row.no].state # "cancelled" => SyncReserved(row, phase).status = row.status
    <3> SUFFICES ASSUME phase = 0, book[row.no].state # "cancelled"
                 PROVE  SyncReserved(row, phase).status = row.status
      OBVIOUS
    <3>1. row.status = "reserved" /\ book[row.no].exec = 0
      BY <1>0, <1>1, <2>1 DEF Waits, OrdersInv, BookOk
    <3> QED BY <1>0, <3>1 DEF SyncReserved, DayOver, RowSet
  <2> QED BY <2>1, <2>3, <2>4
<1>2. CASE row.mode = "manual" /\ row.status \in {"submitted", "partial"} /\ reg
  <2>1. Synced(row, phase, resv, reg) = SyncRegular(row, phase) /\ row.no # 0
    BY <1>0, <1>2 DEF Synced
  <2>2. \E st \in Statuses, n \in Nat : SyncRegular(row, phase) = [row EXCEPT !.status = st, !.filled = n]
    BY <1>0, SyncedRegular
  <2> QED BY <1>0, <1>2, <2>1, <2>2 DEF RowSet
<1>3. CASE Synced(row, phase, resv, reg) = row
  BY <1>0, <1>3
<1> QED BY <1>1, <1>2, <1>3 DEF Synced

\* A table in which rows change status and quantity only.
LEMMA RowsChange ==
    ASSUME OrdersInv, UNCHANGED <<phase, book>>, DOMAIN rows' = DOMAIN rows,
           rows' = [i \in DOMAIN rows' |-> rows'[i]],
           \A i \in DOMAIN rows :
              /\ rows'[i] \in RowSet /\ rows'[i].no = rows[i].no /\ rows'[i].line = rows[i].line
              /\ rows'[i].mode = rows[i].mode
              /\ \/ rows'[i].status = rows[i].status
                 \/ /\ rows[i].no # 0
                    /\ phase = 0 /\ rows[i].mode = "reserve" => book[rows[i].no].state = "cancelled"
    PROVE  Onward /\ BookOk' /\ RowsOk' /\ Len(rows') = Len(rows)
<1>1. rows' \in Seq(RowSet) /\ Len(rows') = Len(rows)
  BY Rewritten DEF OrdersInv, RowsOk
<1>2. Onward
  BY <1>1, Lengths DEF Onward, OrdersInv, BookOk
<1>3. BookOk'
  BY DEF OrdersInv, BookOk
<1>4. ASSUME NEW i \in 1..Len(rows') PROVE Tied(rows[i])' /\ Waits(rows[i])'
  <2>1. i \in DOMAIN rows /\ Tied(rows[i]) /\ Waits(rows[i])
    BY <1>1, <1>4, Lengths DEF OrdersInv, RowsOk
  <2> QED BY <2>1 DEF Tied, Waits
<1> QED BY <1>1, <1>2, <1>3, <1>4 DEF RowsOk

\* A sync keeps it, begun and stored.
LEMMA SyncKeeps ==
    ASSUME OrdersInv, NEW r \in Screen \union {Batch}, BeginSync(r) \/ CommitSync(r)
    PROVE  OrdersInv'
<1>0. r \in Request
  BY DEF Request
<1>1. CASE BeginSync(r)
  <2>1. PICK resv, reg \in BOOLEAN :
          req' = [req EXCEPT ![r] =
                    [op |-> "sync", was |-> rows, full |-> resv /\ reg /\ phase = 2 /\ Alone(r),
                     new |-> [i \in DOMAIN rows |-> Synced(rows[i], phase, resv, reg)]]]
    BY <1>1 DEF BeginSync
  <2>2. PICK new : new = [i \in DOMAIN rows |-> Synced(rows[i], phase, resv, reg)]
    OBVIOUS
  <2>3. PICK q : q = [op |-> "sync", was |-> rows, full |-> resv /\ reg /\ phase = 2 /\ Alone(r), new |-> new]
    OBVIOUS
  <2>4. req' = [req EXCEPT ![r] = q] /\ req[r] = Idle /\ UNCHANGED <<phase, rows, book, excused>>
    BY <1>1, <2>1, <2>2, <2>3 DEF BeginSync
  <2>5. \A i \in DOMAIN rows :
          /\ new[i] \in RowSet
          /\ new[i].status # rows[i].status =>
                 /\ rows[i].no # 0
                 /\ phase = 0 /\ rows[i].mode = "reserve" => book[rows[i].no].state = "cancelled"
    BY <2>2, SyncedRow, Lengths DEF OrdersInv, RowsOk
  <2>6. new \in Seq(RowSet) /\ Len(new) = Len(rows)
    <3>1. DOMAIN new = DOMAIN rows /\ new = [i \in DOMAIN new |-> new[i]]
      BY <2>2
    <3> QED BY <2>5, <3>1, Rewritten DEF OrdersInv, RowsOk
  <2>7. q.op = "sync" /\ q.was = rows /\ q.new = new
    BY <2>3
  <2>8. Syncing(q)
    BY <2>5, <2>6, <2>7, Lengths DEF Syncing, OrdersInv, RowsOk
  <2>9. Onward /\ BookOk' /\ RowsOk'
    BY <2>4, StandStill
  <2>10. Holds(r, q)'
    BY <2>8, <2>9, HoldsStays DEF Holds
  <2>11. /\ \A n \in Len(book)+1..Len(book') : book'[n].kind # "reserve"
         /\ \A i \in Len(rows)+1..Len(rows') : rows'[i].mode # "reserve"
    BY <2>4, Lengths
  <2>12. req[r].op # "reserve" /\ q.op # "reserve" /\ excused' = excused
    BY <2>4, <2>7 DEF Idle
  <2> QED BY <1>0, <2>4, <2>9, <2>10, <2>11, <2>12, OneStep
<1>2. CASE CommitSync(r)
  <2>1. PICK was, new : was = req[r].was /\ new = req[r].new
    OBVIOUS
  <2>2. /\ req[r].op = "sync" /\ req' = [req EXCEPT ![r] = Idle] /\ UNCHANGED <<phase, book, excused>>
        /\ \/ rows' = rows
           \/ rows' = [i \in DOMAIN rows |-> IF i \in DOMAIN was THEN Written(rows[i], was[i], new[i]) ELSE rows[i]]
    BY <1>2, <2>1 DEF CommitSync
  <2>3. Syncing(req[r])
    BY <1>0, <2>2 DEF OrdersInv, RequestsOk, Holds, Idle, Done, Reserving, Trading, Cancelling
  <2>4. /\ was \in Seq(RowSet) /\ new \in Seq(RowSet) /\ DOMAIN was = 1..Len(was) /\ DOMAIN new = 1..Len(was)
        /\ \A i \in DOMAIN was : new[i].status # was[i].status =>
              /\ rows[i].no # 0
              /\ phase = 0 /\ rows[i].mode = "reserve" => book[rows[i].no].state = "cancelled"
    BY <2>1, <2>3, LenProperties DEF Syncing
  <2>5. ASSUME NEW i \in DOMAIN rows
        PROVE  /\ rows'[i] \in RowSet /\ rows'[i].no = rows[i].no /\ rows'[i].line = rows[i].line
               /\ rows'[i].mode = rows[i].mode
               /\ \/ rows'[i].status = rows[i].status
                  \/ /\ rows[i].no # 0
                     /\ phase = 0 /\ rows[i].mode = "reserve" => book[rows[i].no].state = "cancelled"
    <3>1. rows[i] \in RowSet
      BY Lengths, ElementOfSeq DEF OrdersInv, RowsOk
    <3>2. CASE rows'[i] = rows[i]
      BY <3>1, <3>2
    <3>3. CASE i \in DOMAIN was /\ rows'[i] = Written(rows[i], was[i], new[i])
      <4>1. was[i] \in RowSet /\ new[i] \in RowSet
        BY <2>4, <3>3, ElementOfSeq
      <4>2. PICK st, n : /\ rows'[i] = [rows[i] EXCEPT !.status = st, !.filled = n]
                         /\ st = IF new[i].status # was[i].status THEN new[i].status ELSE rows[i].status
                         /\ n = IF new[i].filled # was[i].filled THEN new[i].filled ELSE rows[i].filled
        BY <3>1, <3>3 DEF Written
      <4>3. st \in Statuses /\ n \in Nat
        BY <3>1, <4>1, <4>2 DEF RowSet
      <4> QED BY <2>4, <3>1, <3>3, <4>2, <4>3 DEF RowSet
    <3> QED BY <2>2, <3>2, <3>3
  <2>6. DOMAIN rows' = DOMAIN rows /\ rows' = [i \in DOMAIN rows' |-> rows'[i]]
    BY <2>2, Lengths, LenProperties DEF OrdersInv, RowsOk
  <2>7. Onward /\ BookOk' /\ RowsOk' /\ Len(rows') = Len(rows)
    BY <2>2, <2>5, <2>6, RowsChange
  <2>8. Holds(r, Idle)' /\ Idle.op # "reserve" /\ req[r].op # "reserve" /\ excused' = excused
    BY <2>2 DEF Holds, Idle
  <2>9. /\ \A n \in Len(book)+1..Len(book') : book'[n].kind # "reserve"
        /\ \A i \in Len(rows)+1..Len(rows') : rows'[i].mode # "reserve"
    BY <2>2, <2>7, Lengths
  <2> QED BY <1>0, <2>2, <2>7, <2>8, <2>9, OneStep
<1> QED BY <1>1, <1>2

\* The broker cancels an order.
LEMMA CancelledMoves ==
    ASSUME OrdersInv, NEW n \in 1..Len(book), book' = Cancelled(n), UNCHANGED <<phase, rows>>
    PROVE  Onward /\ BookOk' /\ RowsOk' /\ Len(book') = Len(book) /\ book'[n].state = "cancelled"
<1>1. PICK o : o = [book[n] EXCEPT !.state = "cancelled"]
  OBVIOUS
<1>2. book[n] \in OrderSet
  BY ElementOfSeq DEF OrdersInv, BookOk
<1>3. /\ o \in OrderSet /\ o.state = "cancelled" /\ o.line = book[n].line /\ o.kind = book[n].kind
      /\ o.day = book[n].day /\ o.exec = book[n].exec
  BY <1>1, <1>2 DEF OrderSet
<1>4. book' = [book EXCEPT ![n] = o]
  BY <1>1 DEF Cancelled
<1>5. /\ book' \in Seq(OrderSet) /\ Len(book') = Len(book)
      /\ \A j \in 1..Len(book) : book'[j] = IF j = n THEN o ELSE book[j]
  BY <1>3, <1>4, ExceptSeq DEF OrdersInv, BookOk
<1>6. BookOk'
  BY <1>3, <1>5 DEF OrdersInv, BookOk
<1>7. /\ \A j \in 1..Len(book) : /\ book'[j].line = book[j].line /\ book'[j].kind = book[j].kind
                                 /\ book'[j].day = book[j].day
                                 /\ book[j].state = "cancelled" => book'[j].state = "cancelled"
      /\ book'[n].state = "cancelled"
  BY <1>3, <1>5
<1>8. Onward /\ RowsOk'
  BY <1>5, <1>6, <1>7, BookMoves, Lengths
<1> QED BY <1>5, <1>6, <1>7, <1>8

\* A cancellation keeps it up to the answer of the broker.
LEMMA CancelBegins ==
    ASSUME OrdersInv, NEW r \in Canceller, CancelReserved(r) \/ CancelAtBroker(r)
    PROVE  OrdersInv'
<1>0. r \in Request /\ UNCHANGED <<phase, rows, excused>>
  BY DEF Request, CancelReserved, CancelAtBroker
<1>1. CASE CancelReserved(r)
  <2>1. PICK i \in DOMAIN rows :
          /\ rows[i].mode = "reserve" /\ rows[i].status \in {"reserved", "partial"}
          /\ book' = Cancelled(rows[i].no)
          /\ \/ req' = [req EXCEPT ![r] = [op |-> "cancel", row |-> i, filled |-> {}]]
             \/ req' = [req EXCEPT ![r] = Done]
    BY <1>1 DEF CancelReserved
  <2>2. i \in 1..Len(rows) /\ rows[i].no # 0 /\ rows[i].no \in 1..Len(book)
    BY <2>1, Lengths DEF OrdersInv, RowsOk, Tied
  <2>3. Onward /\ BookOk' /\ RowsOk' /\ Len(book') = Len(book) /\ book'[rows[i].no].state = "cancelled"
    BY <1>0, <2>1, <2>2, CancelledMoves
  <2>4. PICK q \in {[op |-> "cancel", row |-> i, filled |-> {}], Done} : req' = [req EXCEPT ![r] = q]
    BY <2>1
  <2>5. Holds(r, q)' /\ q.op # "reserve"
    <3>1. CASE q = Done
      BY <3>1 DEF Holds, Done
    <3>2. CASE q = [op |-> "cancel", row |-> i, filled |-> {}]
      <4>1. q \in [op : {"withdraw", "cancel"}, row : Nat, filled : SUBSET Nat] /\ q.row = i /\ q.op = "cancel"
        BY <2>2, <3>2, Lengths
      <4>2. Cancelling(q)'
        BY <1>0, <2>2, <2>3, <4>1 DEF Cancelling
      <4> QED BY <4>1, <4>2 DEF Holds
    <3> QED BY <2>4, <3>1, <3>2
  <2>6. /\ \A n \in Len(book)+1..Len(book') : book'[n].kind # "reserve"
        /\ \A j \in Len(rows)+1..Len(rows') : rows'[j].mode # "reserve"
        /\ req[r].op # "reserve" /\ excused' = excused
    BY <1>0, <1>1, <2>3, Lengths DEF CancelReserved, Idle
  <2> QED BY <1>0, <2>3, <2>4, <2>5, <2>6, OneStep
<1>2. CASE CancelAtBroker(r)
  <2>1. req[r].op = "withdraw"
    BY <1>2 DEF CancelAtBroker
  <2>2. Cancelling(req[r])
    BY <1>0, <2>1 DEF OrdersInv, RequestsOk, Holds, Idle, Done, Reserving, Trading, Syncing
  <2>3. PICK i : i = req[r].row
    OBVIOUS
  <2>4. i \in 1..Len(rows) /\ rows[i].no # 0 /\ rows[i].no \in 1..Len(book)
    BY <2>2, <2>3, Lengths DEF Cancelling, OrdersInv, RowsOk, Tied
  <2>5. CASE book[rows[i].no].state = "live"
    <3>1. book' = Cancelled(rows[i].no) /\ req' = [req EXCEPT ![r].op = "cancel"]
      BY <1>2, <2>3, <2>5 DEF CancelAtBroker
    <3>2. Onward /\ BookOk' /\ RowsOk' /\ Len(book') = Len(book) /\ book'[rows[i].no].state = "cancelled"
      BY <1>0, <2>4, <3>1, CancelledMoves
    <3>3. PICK q : q = [req[r] EXCEPT !.op = "cancel"]
      OBVIOUS
    <3>4. req' = [req EXCEPT ![r] = q]
      BY <3>1, <3>3
    <3>5. q \in [op : {"withdraw", "cancel"}, row : Nat, filled : SUBSET Nat] /\ q.row = i /\ q.op = "cancel"
      BY <2>2, <2>3, <3>3 DEF Cancelling
    <3>6. Cancelling(q)'
      BY <1>0, <2>4, <3>2, <3>5 DEF Cancelling
    <3>7. Holds(r, q)' /\ q.op # "reserve"
      BY <3>5, <3>6 DEF Holds
    <3>8. /\ \A n \in Len(book)+1..Len(book') : book'[n].kind # "reserve"
          /\ \A j \in Len(rows)+1..Len(rows') : rows'[j].mode # "reserve"
          /\ req[r].op # "reserve" /\ excused' = excused
      BY <1>0, <2>1, <3>2, Lengths
    <3> QED BY <1>0, <3>2, <3>4, <3>7, <3>8, OneStep
  <2>6. CASE book[rows[i].no].state # "live"
    <3>1. req' = [req EXCEPT ![r] = Done] /\ UNCHANGED book
      BY <1>2, <2>3, <2>6 DEF CancelAtBroker
    <3>2. Onward /\ BookOk' /\ RowsOk'
      BY <1>0, <3>1, StandStill
    <3>3. Holds(r, Done)' /\ Done.op # "reserve"
      BY DEF Holds, Done
    <3>4. /\ \A n \in Len(book)+1..Len(book') : book'[n].kind # "reserve"
          /\ \A j \in Len(rows)+1..Len(rows') : rows'[j].mode # "reserve"
          /\ req[r].op # "reserve" /\ excused' = excused
      BY <1>0, <2>1, <3>1, Lengths
    <3> QED BY <1>0, <3>1, <3>2, <3>3, <3>4, OneStep
  <2> QED BY <2>5, <2>6
<1> QED BY <1>1, <1>2

\* A cancellation keeps it when it is stored.
LEMMA CancelEnds ==
    ASSUME OrdersInv, NEW r \in Canceller, CancelRegular(r) \/ CommitCancel(r)
    PROVE  OrdersInv'
<1>0. r \in Request /\ UNCHANGED <<phase, book, excused>>
  BY DEF Request, CancelRegular, CommitCancel
<1>1. CASE CancelRegular(r)
  <2>1. PICK i \in DOMAIN rows :
          LET row == SyncRegular(rows[i], phase) IN
          /\ rows[i].mode = "manual" /\ rows[i].status \in {"submitted", "partial"}
          /\ rows' = IF row.status # rows[i].status THEN [rows EXCEPT ![i] = row] ELSE rows
          /\ req' = [req EXCEPT ![r] = IF row.status \in {"submitted", "partial"}
                       THEN [op |-> "withdraw", row |-> i,
                             filled |-> IF row.status = rows[i].status /\ row.filled # rows[i].filled
                                        THEN {row.filled} ELSE {}] ELSE Done]
    BY <1>1 DEF CancelRegular
  <2>2. PICK row : row = SyncRegular(rows[i], phase)
    OBVIOUS
  <2>3. i \in 1..Len(rows) /\ rows[i] \in RowSet /\ rows[i].no # 0 /\ rows[i].no \in 0..Len(book)
    BY <2>1, Lengths DEF OrdersInv, RowsOk, Tied
  <2>4. /\ row \in RowSet /\ row.no = rows[i].no /\ row.line = rows[i].line /\ row.mode = rows[i].mode
    <3>1. PICK st \in Statuses, n \in Nat : row = [rows[i] EXCEPT !.status = st, !.filled = n]
      BY <2>2, <2>3, SyncedRegular
    <3> QED BY <2>3, <3>1 DEF RowSet
  <2>5. rows' = [rows EXCEPT ![i] = row] \/ rows' = rows
    BY <2>1, <2>2
  <2>6. Onward /\ BookOk' /\ RowsOk' /\ Len(rows') = Len(rows) /\ rows'[i].no = rows[i].no
    <3>1. DOMAIN rows' = DOMAIN rows /\ rows' = [j \in DOMAIN rows' |-> rows'[j]]
      BY <2>5, Lengths, LenProperties DEF OrdersInv, RowsOk
    <3>2. ASSUME NEW j \in DOMAIN rows
          PROVE  /\ rows'[j] \in RowSet /\ rows'[j].no = rows[j].no /\ rows'[j].line = rows[j].line
                 /\ rows'[j].mode = rows[j].mode
                 /\ \/ rows'[j].status = rows[j].status
                    \/ /\ rows[j].no # 0
                       /\ phase = 0 /\ rows[j].mode = "reserve" => book[rows[j].no].state = "cancelled"
      <4>1. rows[j] \in RowSet
        BY Lengths, ElementOfSeq DEF OrdersInv, RowsOk
      <4>2. CASE rows'[j] = rows[j]
        BY <4>1, <4>2
      <4>3. CASE j = i /\ rows'[j] = row
        BY <2>1, <2>3, <2>4, <4>3
      <4> QED BY <2>5, <4>2, <4>3
    <3>3. Onward /\ BookOk' /\ RowsOk' /\ Len(rows') = Len(rows)
      BY <1>0, <3>1, <3>2, RowsChange
    <3> QED BY <2>1, <3>2, <3>3
  <2>7. PICK q, tally :
          /\ req' = [req EXCEPT ![r] = q] /\ tally \in {{row.filled}, {}}
          /\ q \in {[op |-> "withdraw", row |-> i, filled |-> tally], Done}
    BY <2>1, <2>2
  <2>8. Holds(r, q)' /\ q.op # "reserve"
    <3>1. CASE q = Done
      BY <3>1 DEF Holds, Done
    <3>2. CASE q = [op |-> "withdraw", row |-> i, filled |-> tally]
      <4>1. tally \subseteq Nat
        BY <2>4, <2>7 DEF RowSet
      <4>2. q \in [op : {"withdraw", "cancel"}, row : Nat, filled : SUBSET Nat] /\ q.row = i /\ q.op = "withdraw"
        BY <2>3, <3>2, <4>1, Lengths
      <4>3. Cancelling(q)'
        BY <2>3, <2>6, <4>2 DEF Cancelling
      <4> QED BY <4>2, <4>3 DEF Holds
    <3> QED BY <2>7, <3>1, <3>2
  <2>9. /\ \A n \in Len(book)+1..Len(book') : book'[n].kind # "reserve"
        /\ \A j \in Len(rows)+1..Len(rows') : rows'[j].mode # "reserve"
        /\ req[r].op # "reserve" /\ excused' = excused
    BY <1>0, <1>1, <2>6, Lengths DEF CancelRegular, Idle
  <2> QED BY <1>0, <2>6, <2>7, <2>8, <2>9, OneStep
<1>2. CASE CommitCancel(r)
  <2>1. PICK i, new : i = req[r].row /\ new = req[r].filled
    OBVIOUS
  <2>2. /\ req[r].op = "cancel" /\ req' = [req EXCEPT ![r] = Done]
        /\ rows' = [rows EXCEPT ![i].status = "cancelled",
                                ![i].filled = IF new = {} THEN @ ELSE CHOOSE q \in new : TRUE]
    BY <1>2, <2>1 DEF CommitCancel
  <2>3. Cancelling(req[r])
    BY <1>0, <2>2 DEF OrdersInv, RequestsOk, Holds, Idle, Done, Reserving, Trading, Syncing
  <2>4. i \in 1..Len(rows) /\ rows[i].no # 0 /\ book[rows[i].no].state = "cancelled" /\ new \subseteq Nat
    BY <2>1, <2>2, <2>3 DEF Cancelling
  <2>5. PICK n : n = CHOOSE q \in new : TRUE
    OBVIOUS
  <2>6. new # {} => n \in Nat
    BY <2>4, <2>5, Zenon
  <2>7. /\ rows' = [rows EXCEPT ![i].status = "cancelled", ![i].filled = IF new = {} THEN @ ELSE n]
    BY <2>2, <2>5
  <2>8. DOMAIN rows' = DOMAIN rows /\ rows' = [j \in DOMAIN rows' |-> rows'[j]]
    BY <2>7, Lengths, LenProperties DEF OrdersInv, RowsOk
  <2>9. ASSUME NEW j \in DOMAIN rows
        PROVE  /\ rows'[j] \in RowSet /\ rows'[j].no = rows[j].no /\ rows'[j].line = rows[j].line
               /\ rows'[j].mode = rows[j].mode
               /\ \/ rows'[j].status = rows[j].status
                  \/ /\ rows[j].no # 0
                     /\ phase = 0 /\ rows[j].mode = "reserve" => book[rows[j].no].state = "cancelled"
    <3>1. rows[j] \in RowSet
      BY Lengths, ElementOfSeq DEF OrdersInv, RowsOk
    <3>2. CASE j # i
      BY <2>7, <3>1, <3>2
    <3>3. CASE j = i
      <4>1. PICK m \in Nat : rows'[i] = [rows[i] EXCEPT !.status = "cancelled", !.filled = m]
        BY <2>6, <2>7, <3>1, <3>3 DEF RowSet
      <4> QED BY <2>4, <3>1, <3>3, <4>1 DEF RowSet, Statuses
    <3> QED BY <3>2, <3>3
  <2>10. Onward /\ BookOk' /\ RowsOk' /\ Len(rows') = Len(rows)
    BY <1>0, <2>8, <2>9, RowsChange
  <2>11. Holds(r, Done)' /\ Done.op # "reserve"
    BY DEF Holds, Done
  <2>12. /\ \A m \in Len(book)+1..Len(book') : book'[m].kind # "reserve"
         /\ \A j \in Len(rows)+1..Len(rows') : rows'[j].mode # "reserve"
         /\ req[r].op # "reserve" /\ excused' = excused
    BY <1>0, <2>2, <2>10, Lengths
  <2> QED BY <1>0, <2>2, <2>10, <2>11, <2>12, OneStep
<1> QED BY <1>1, <1>2

-----------------------------------------------------------------------------
(* Reserving. *)

\* Who reserves is a request that may, and holds drafts.
LEMMA ReservingIs ==
    ASSUME OrdersInv, NEW r \in Request, req[r].op = "reserve"
    PROVE  Reserving(req[r]) /\ r \in Maker
  BY DEF OrdersInv, RequestsOk, Holds, Idle, Done, Trading, Syncing, Cancelling

\* What counts as held is what it was, less what is excused since.
LEMMA HeldStays ==
    ASSUME UNCHANGED book, excused \subseteq excused', NEW n, Standing(n)'
    PROVE  Standing(n) /\ book[n].line \notin excused'
  BY DEF Standing

\* A reservation keeps it when it begins.
LEMMA BeginReserveKeeps ==
    ASSUME OrdersInv, NEW r \in Maker, BeginReserve(r)
    PROVE  OrdersInv'
<1>0. r \in Request /\ req[r] = Idle /\ UNCHANGED <<phase, rows, book>>
  BY DEF Request, BeginReserve
<1>1. PICK ls \in Asks :
          /\ req' = [req EXCEPT ![r] = [op |-> "reserve", asked |-> ToSet(ls), todo |-> ls,
                                        active |-> ActiveLines, draft |-> <<>>, flushed |-> TRUE]]
          /\ excused' = excused \union Contested(r, ToSet(ls))
  BY DEF BeginReserve
<1>2. PICK q : q = [op |-> "reserve", asked |-> ToSet(ls), todo |-> ls,
                    active |-> ActiveLines, draft |-> <<>>, flushed |-> TRUE]
  OBVIOUS
<1>3. Onward /\ BookOk' /\ RowsOk'
  BY <1>0, StandStill
<1>4. ls \in Seq(Line) /\ ToSet(ls) \subseteq Line /\ \A i \in 1..Len(ls) : ls[i] \in ToSet(ls)
  <2>1. ls \in Seq(Line) /\ DOMAIN ls = 1..Len(ls)
    BY OrdersAssumption, LenProperties DEF OrdersAssumption
  <2> QED BY <2>1, ElementOfSeq DEF ToSet
<1>5. ActiveLines \subseteq Line
  <2>1. \A i \in DOMAIN rows : rows[i].line \in Line
    BY Lengths, ElementOfSeq DEF OrdersInv, RowsOk, Tied, RowSet
  <2> QED BY <2>1 DEF ActiveLines
<1>6. Reserving(q)
  <2>1. <<>> \in Seq(RowSet) /\ Len(<<>>) = 0
    OBVIOUS
  <2>2. q.draft = <<>> /\ q.todo = ls /\ q.asked = ToSet(ls)
    BY <1>2
  <2>3. q \in [op : {"reserve"}, asked : SUBSET Line, todo : Seq(Line), active : SUBSET Line,
               draft : Seq(RowSet), flushed : BOOLEAN]
    BY <1>2, <1>4, <1>5, <2>1
  <2>4. \A i \in 1..Len(q.draft) : FALSE
    BY <2>1, <2>2
  <2> QED BY <1>4, <2>2, <2>3, <2>4 DEF Reserving
<1>7. RequestsOk'
  <2>1. Holds(r, q)'
    BY <1>3, <1>6, HoldsStays DEF Holds
  <2> QED BY <1>0, <1>1, <1>2, <1>3, <2>1, RequestSteps
<1>8. /\ \A x \in Request : req'[x] = IF x = r THEN q ELSE req[x]
      /\ q.op = "reserve" /\ q.asked = ToSet(ls) /\ q.active = ActiveLines /\ req[r].op # "reserve"
      /\ excused' = excused \union Contested(r, ToSet(ls)) /\ Maker \subseteq Request
  <2>1. req' = [req EXCEPT ![r] = q] /\ DOMAIN req = Request
    BY <1>1, <1>2 DEF OrdersInv, RequestsOk
  <2>2. q.op = "reserve" /\ q.asked = ToSet(ls) /\ q.active = ActiveLines
    BY <1>2
  <2>3. req[r].op # "reserve" /\ Maker \subseteq Request
    BY <1>0 DEF Idle, Request
  <2>4. \A x \in Request : req'[x] = IF x = r THEN q ELSE req[x]
    BY <2>1
  <2> QED BY <1>1, <2>2, <2>3, <2>4
<1>9. Apart'
  <2> SUFFICES ASSUME NEW x \in Maker, NEW y \in Maker, req'[x].op = "reserve", req'[y].op = "reserve", x # y,
                      NEW l, l \in req'[x].asked, l \in req'[y].asked
               PROVE  l \in excused'
    BY DEF Apart
  <2>1. CASE x # r /\ y # r
    BY <1>8, <2>1 DEF OrdersInv, Claims, Apart
  <2>2. CASE x = r
    BY <1>8, <2>2 DEF Contested
  <2>3. CASE y = r
    BY <1>8, <2>3 DEF Contested
  <2> QED BY <2>1, <2>2, <2>3
<1>10. Seen'
  <2> SUFFICES ASSUME NEW x \in Maker, phase = 0, req'[x].op = "reserve", NEW i \in 1..Len(rows),
                      Standing(rows[i].no), rows[i].line \in req'[x].asked
               PROVE  rows[i].line \in req'[x].active
    BY <1>0, <1>8, HeldStays DEF Seen, Standing
  <2>1. CASE x # r
    BY <1>8, <2>1 DEF OrdersInv, Claims, Seen
  <2>2. CASE x = r
    <3>1. rows[i].no # 0 /\ rows[i].mode = "reserve" /\ book[rows[i].no].state # "cancelled"
      BY DEF Standing, OrdersInv, RowsOk, Tied
    <3>2. rows[i].status = "reserved"
      BY <3>1 DEF OrdersInv, RowsOk, Waits
    <3>3. i \in DOMAIN rows
      BY Lengths
    <3>4. rows[i].line \in ActiveLines
      BY <3>2, <3>3 DEF ActiveLines, Active
    <3> QED BY <1>8, <2>2, <3>4
  <2> QED BY <2>1, <2>2
<1>11. Known' /\ Unique'
  BY <1>0, <1>8 DEF OrdersInv, Claims, Known, Unique, Standing
<1> QED BY <1>3, <1>7, <1>9, <1>10, <1>11 DEF OrdersInv, Claims

\* The rows of a request are lost, their lines excused.
LEMMA LosingKeeps ==
    ASSUME OrdersInv, NEW r \in Request, req[r].op \in {"reserve", "trade"}, req' = [req EXCEPT ![r] = Done],
           excused' = excused \union Drafted(r), UNCHANGED <<phase, rows, book>>
    PROVE  OrdersInv'
<1>1. Onward /\ BookOk' /\ RowsOk'
  BY StandStill
<1>2. RequestsOk'
  <2>1. Holds(r, Done)'
    BY DEF Holds, Done
  <2> QED BY <1>1, <2>1, RequestSteps
<1>3. /\ \A x \in Request : req'[x] = IF x = r THEN Done ELSE req[x]
      /\ Done.op # "reserve" /\ Maker \subseteq Request
  BY DEF OrdersInv, RequestsOk, Done, Request
<1>4. Apart' /\ Seen' /\ Unique'
  BY <1>3 DEF OrdersInv, Claims, Apart, Seen, Unique, Standing
<1>5. Known'
  <2> SUFFICES ASSUME NEW n \in 1..Len(book), Standing(n)'
               PROVE  \/ \E i \in 1..Len(rows) : rows[i].no = n
                      \/ \E x \in Maker : req'[x].op = "reserve" /\ \E i \in 1..Len(req'[x].draft) : req'[x].draft[i].no = n
    BY DEF Known
  <2>1. Standing(n) /\ book[n].line \notin Drafted(r)
    BY HeldStays
  <2>2. CASE \E i \in 1..Len(rows) : rows[i].no = n
    BY <2>2
  <2>3. ASSUME NEW x \in Maker, req[x].op = "reserve", NEW i \in 1..Len(req[x].draft), req[x].draft[i].no = n
        PROVE  x # r
    <3> SUFFICES ASSUME x = r PROVE FALSE
      OBVIOUS
    <3>1. Reserving(req[r])
      BY <2>3, ReservingIs
    <3>2. Tied(req[r].draft[i]) /\ i \in DOMAIN req[r].draft
      BY <2>3, <3>1, LenProperties DEF Reserving
    <3>3. n # 0
      BY Lengths
    <3>4. book[n].line = req[r].draft[i].line
      BY <2>3, <3>2, <3>3 DEF Tied
    <3> QED BY <2>1, <3>2, <3>4 DEF Drafted
  <2> QED BY <1>3, <2>1, <2>2, <2>3 DEF OrdersInv, Claims, Known
<1> QED BY <1>1, <1>2, <1>4, <1>5 DEF OrdersInv, Claims

\* The drafts written before the commit keep it.
LEMMA FlushKeeps ==
    ASSUME OrdersInv, NEW r \in Maker, Flush(r)
    PROVE  OrdersInv'
<1>0. r \in Request /\ UNCHANGED <<phase, rows, book>> /\ req[r].op = "reserve" /\ Reserving(req[r])
  BY ReservingIs DEF Request, Flush
<1>1. CASE req' = [req EXCEPT ![r] = Done] /\ excused' = excused \union Drafted(r)
  BY <1>0, <1>1, LosingKeeps
<1>2. CASE req' = [req EXCEPT ![r].flushed = TRUE] /\ excused' = excused
  <2>1. PICK q : q = [req[r] EXCEPT !.flushed = TRUE]
    OBVIOUS
  <2>2. req' = [req EXCEPT ![r] = q]
    BY <1>2, <2>1
  <2>3. /\ q.op = "reserve" /\ q.draft = req[r].draft /\ q.asked = req[r].asked /\ q.active = req[r].active
        /\ q.todo = req[r].todo
        /\ q \in [op : {"reserve"}, asked : SUBSET Line, todo : Seq(Line), active : SUBSET Line,
                  draft : Seq(RowSet), flushed : BOOLEAN]
    BY <1>0, <2>1 DEF Reserving
  <2>4. Reserving(q)
    BY <1>0, <2>3 DEF Reserving
  <2>5. Onward /\ BookOk' /\ RowsOk'
    BY <1>0, StandStill
  <2>6. Holds(r, q)'
    BY <2>4, <2>5, HoldsStays DEF Holds
  <2>7. RequestsOk'
    BY <1>0, <2>2, <2>5, <2>6, RequestSteps
  <2>8. \A x \in Maker : req'[x] = IF x = r THEN q ELSE req[x]
    BY <2>2 DEF OrdersInv, RequestsOk, Request
  <2>9. /\ \A n \in Len(book)+1..Len(book') : ~Standing(n)'
        /\ \A i \in Len(rows)+1..Len(rows') : rows'[i].mode # "reserve"
        /\ excused \subseteq excused'
    BY <1>0, <1>2, Lengths
  <2>10. /\ \A x \in Maker : req'[x].op = "reserve" => /\ req[x].op = "reserve" /\ req'[x].asked = req[x].asked
                                                       /\ req[x].active \subseteq req'[x].active
         /\ \A x \in Maker : req[x].op = "reserve" => req'[x].op = "reserve" /\ req'[x].draft = req[x].draft
    BY <1>0, <2>3, <2>8
  <2>11. Claims'
    BY <2>5, <2>7, <2>9, <2>10, QuietKeeps
  <2> QED BY <2>5, <2>7, <2>11 DEF OrdersInv
<1> QED BY <1>1, <1>2 DEF Flush

\* The commit of a reservation keeps it.
LEMMA CommitReserveKeeps ==
    ASSUME OrdersInv, NEW r \in Maker, CommitReserve(r)
    PROVE  OrdersInv'
<1>0. /\ r \in Request /\ UNCHANGED <<phase, book, excused>> /\ req[r].op = "reserve" /\ Reserving(req[r])
      /\ rows' = rows \o req[r].draft /\ req' = [req EXCEPT ![r] = Done]
  BY ReservingIs DEF Request, CommitReserve
<1>1. PICK new : new = req[r].draft
  OBVIOUS
<1>2. new \in Seq(RowSet) /\ \A i \in 1..Len(new) : Tied(new[i]) /\ Waits(new[i]) /\ new[i].line \in req[r].asked
  BY <1>0, <1>1 DEF Reserving, Waits
<1>3. /\ Onward /\ BookOk' /\ RowsOk' /\ Len(rows') = Len(rows) + Len(new) /\ Len(new) \in Nat
      /\ \A i \in 1..Len(rows') : rows'[i] = IF i <= Len(rows) THEN rows[i] ELSE new[i - Len(rows)]
  BY <1>0, <1>1, <1>2, Appended
<1>4. RequestsOk'
  <2>1. Holds(r, Done)'
    BY DEF Holds, Done
  <2> QED BY <1>0, <1>3, <2>1, RequestSteps
<1>5. /\ \A x \in Maker : req'[x] = IF x = r THEN Done ELSE req[x]
      /\ Done.op # "reserve"
  BY <1>0 DEF OrdersInv, RequestsOk, Done, Request
<1>6. Apart' /\ Unique'
  BY <1>0, <1>5 DEF OrdersInv, Claims, Apart, Unique, Standing
<1>7. Seen'
  <2> SUFFICES ASSUME NEW x \in Maker, phase = 0, req'[x].op = "reserve", NEW i \in 1..Len(rows'),
                      NEW n, n = rows'[i].no, Standing(n), rows'[i].line \in req'[x].asked
               PROVE  rows'[i].line \in req'[x].active
    BY <1>0 DEF Seen, Standing
  <2>1. x # r /\ req'[x] = req[x] /\ req[x].op = "reserve"
    BY <1>5
  <2>2. CASE i <= Len(rows)
    <3>1. i \in 1..Len(rows) /\ rows'[i] = rows[i]
      BY <1>3, <2>2, Lengths
    <3> QED BY <2>1, <3>1 DEF OrdersInv, Claims, Seen
  <2>3. CASE ~(i <= Len(rows))
    <3>1. i - Len(rows) \in 1..Len(new) /\ rows'[i] = new[i - Len(rows)]
      BY <1>3, <2>3, Lengths
    <3>2. PICK row : row = rows'[i]
      OBVIOUS
    <3>3. Tied(row) /\ row.line \in req[r].asked /\ row.line \in req[x].asked /\ row.no = n
      BY <1>2, <2>1, <3>1, <3>2
    <3>4. row.line \in excused
      BY <1>0, <2>1, <3>3 DEF OrdersInv, Claims, Apart
    <3>5. book[n].line = row.line
      BY <3>3, Lengths DEF Tied, Standing
    <3> QED BY <3>4, <3>5 DEF Standing
  <2> QED BY <2>2, <2>3
<1>8. Known'
  <2> SUFFICES ASSUME NEW n \in 1..Len(book), Standing(n)
               PROVE  \/ \E i \in 1..Len(rows') : rows'[i].no = n
                      \/ \E x \in Maker : req'[x].op = "reserve" /\ \E i \in 1..Len(req'[x].draft) : req'[x].draft[i].no = n
    BY <1>0 DEF Known, Standing
  <2>1. CASE \E i \in 1..Len(rows) : rows[i].no = n
    <3>1. PICK i \in 1..Len(rows) : rows[i].no = n
      BY <2>1
    <3>2. i \in 1..Len(rows') /\ rows'[i] = rows[i]
      BY <1>3, <3>1, Lengths
    <3> QED BY <3>1, <3>2
  <2>2. ASSUME NEW x \in Maker, req[x].op = "reserve", NEW i \in 1..Len(req[x].draft), req[x].draft[i].no = n
        PROVE  \/ \E j \in 1..Len(rows') : rows'[j].no = n
               \/ req'[x].op = "reserve" /\ req'[x].draft[i].no = n /\ i \in 1..Len(req'[x].draft)
    <3>1. CASE x # r
      BY <1>5, <2>2, <3>1
    <3>2. CASE x = r
      <4>1. i \in 1..Len(new) /\ new[i].no = n
        BY <1>1, <2>2, <3>2
      <4>2. i + Len(rows) \in 1..Len(rows') /\ ~(i + Len(rows) <= Len(rows)) /\ (i + Len(rows)) - Len(rows) = i
        BY <1>3, <4>1, Lengths
      <4>3. rows'[i + Len(rows)] = new[i]
        BY <1>3, <4>2
      <4> QED BY <4>1, <4>2, <4>3
    <3> QED BY <3>1, <3>2
  <2> QED BY <2>1, <2>2 DEF OrdersInv, Claims, Known
<1> QED BY <1>3, <1>4, <1>6, <1>7, <1>8 DEF OrdersInv, Claims

\* The row is of the line it comes to.
Answers(r, row, active) ==
    /\ req[r].op = "reserve" /\ req[r].todo # <<>> /\ row.line = Head(req[r].todo)
    /\ active \subseteq Line /\ req[r].active \subseteq active
    /\ row.no # 0 => row.status = "reserved" /\ row.line \in active

\* A request that has asked for one line more holds one draft more.
LEMMA AskedHolds ==
    ASSUME OrdersInv, NEW r \in Request, BookOk', Onward, NEW row, Tied(row)', NEW active,
           Answers(r, row, active), NEW q, q = Noted(req[r], row, active)
    PROVE  /\ Holds(r, q)' /\ q.op = "reserve" /\ q.asked = req[r].asked /\ q.active = active
           /\ Len(req[r].draft) \in Nat /\ Len(q.draft) = Len(req[r].draft) + 1
           /\ \A i \in 1..Len(req[r].draft) : q.draft[i] = req[r].draft[i]
           /\ q.draft[Len(req[r].draft) + 1] = row
<1>0. /\ req[r].op = "reserve" /\ req[r].todo # <<>> /\ row.line = Head(req[r].todo)
      /\ active \in SUBSET Line /\ req[r].active \subseteq active
      /\ row.no # 0 => row.status = "reserved" /\ row.line \in active
  BY DEF Answers
<1>1. Reserving(req[r]) /\ r \in Maker
  BY <1>0, ReservingIs
<1>2. row \in RowSet
  BY DEF Tied
<1>3. /\ q.op = "reserve" /\ q.asked = req[r].asked /\ q.active = active /\ q.todo = Tail(req[r].todo)
      /\ q.draft = Append(req[r].draft, row) /\ q.flushed = FALSE
      /\ DOMAIN q = {"op", "asked", "todo", "active", "draft", "flushed"}
  BY <1>1 DEF Reserving, Noted
<1>4. /\ q.draft \in Seq(RowSet) /\ Len(req[r].draft) \in Nat /\ Len(q.draft) = Len(req[r].draft) + 1
      /\ \A i \in 1..Len(req[r].draft) : q.draft[i] = req[r].draft[i]
      /\ q.draft[Len(req[r].draft) + 1] = row
  BY <1>1, <1>2, <1>3, AppendProperties, LenProperties DEF Reserving
<1>5. /\ q.todo \in Seq(Line) /\ Len(req[r].todo) \in Nat /\ Len(q.todo) = Len(req[r].todo) - 1
      /\ \A i \in 1..Len(q.todo) : q.todo[i] = req[r].todo[i + 1]
      /\ row.line = req[r].todo[1] /\ Len(req[r].todo) > 0
  BY <1>0, <1>1, <1>3, HeadTailProperties, LenProperties, EmptySeq DEF Reserving
<1>6. \A i \in 1..Len(q.todo) : q.todo[i] \in q.asked
  <2>1. ASSUME NEW i \in 1..Len(q.todo) PROVE i + 1 \in 1..Len(req[r].todo)
    BY <1>5
  <2> QED BY <1>1, <1>3, <1>5, <2>1 DEF Reserving
<1>7. row.line \in q.asked
  BY <1>0, <1>1, <1>3, <1>5 DEF Reserving
<1>8. ASSUME NEW i \in 1..Len(q.draft)
      PROVE  /\ Tied(q.draft[i])' /\ q.draft[i].line \in q.asked
             /\ q.draft[i].no # 0 => q.draft[i].status = "reserved" /\ q.draft[i].line \in q.active
  <2>1. CASE i \in 1..Len(req[r].draft)
    <3>1. PICK old : old = req[r].draft[i]
      OBVIOUS
    <3>2. /\ Tied(old) /\ old.line \in q.asked /\ q.draft[i] = old
          /\ old.no # 0 => old.status = "reserved" /\ old.line \in q.active
      BY <1>0, <1>1, <1>3, <1>4, <2>1, <3>1 DEF Reserving
    <3>3. Tied(old)'
      BY <3>2, TiedStays
    <3> QED BY <3>2, <3>3
  <2>2. CASE i \notin 1..Len(req[r].draft)
    <3>1. i = Len(req[r].draft) + 1
      BY <1>4, <2>2
    <3> QED BY <1>0, <1>3, <1>4, <1>7, <3>1
  <2> QED BY <2>1, <2>2
<1>9. q \in [op : {"reserve"}, asked : SUBSET Line, todo : Seq(Line), active : SUBSET Line,
             draft : Seq(RowSet), flushed : BOOLEAN]
  <2>1. q = [op |-> q.op, asked |-> q.asked, todo |-> q.todo, active |-> q.active, draft |-> q.draft,
             flushed |-> q.flushed]
    BY <1>1 DEF Reserving, Noted
  <2> HIDE DEF Reserving
  <2>2. req[r].asked \in SUBSET Line
    BY <1>1 DEF Reserving
  <2> QED BY <1>0, <1>3, <1>4, <1>5, <2>1, <2>2
<1>10. Reserving(q)'
  BY <1>6, <1>8, <1>9 DEF Reserving
<1> QED BY <1>1, <1>3, <1>4, <1>10 DEF Holds

\* The broker takes one more order, which has executed nothing.
LEMMA OrderTaken ==
    ASSUME OrdersInv, NEW o \in OrderSet, o.exec = 0, o.state = "waiting", book' = Append(book, o),
           UNCHANGED <<phase, rows>>
    PROVE  /\ Onward /\ BookOk' /\ RowsOk' /\ Len(book') = Len(book) + 1 /\ book'[Len(book) + 1] = o
           /\ \A n \in 1..Len(book) : book'[n] = book[n]
<1>1. /\ book' \in Seq(OrderSet) /\ Len(book') = Len(book) + 1 /\ book'[Len(book) + 1] = o
      /\ \A n \in 1..Len(book) : book'[n] = book[n]
  BY AppendProperties DEF OrdersInv, BookOk
<1>2. \A n \in 1..Len(book') : n \in 1..Len(book) \/ n = Len(book) + 1
  BY <1>1, Lengths
<1>3. BookOk'
  BY <1>1, <1>2 DEF OrdersInv, BookOk
<1>4. Onward /\ RowsOk'
  BY <1>1, <1>3, BookMoves, Lengths
<1> QED BY <1>1, <1>3, <1>4

\* A line dealt with, without a reservation that counts.
LEMMA AskedQuiet ==
    ASSUME OrdersInv, NEW r \in Maker, BookOk', Onward, RowsOk',
           UNCHANGED rows, excused \subseteq excused', \A n \in Len(book)+1..Len(book') : ~Standing(n)',
           NEW row, Tied(row)', NEW active, Answers(r, row, active), NEW q, q = Noted(req[r], row, active),
           req' = [req EXCEPT ![r] = q]
    PROVE  OrdersInv'
<1>0. /\ r \in Request /\ Maker \subseteq Request /\ req[r].op = "reserve"
      /\ req[r].active \subseteq active
  BY DEF Request, Answers
<1>1. /\ Holds(r, q)' /\ q.op = "reserve" /\ q.asked = req[r].asked /\ q.active = active
      /\ Len(req[r].draft) \in Nat /\ Len(q.draft) = Len(req[r].draft) + 1
      /\ \A i \in 1..Len(req[r].draft) : q.draft[i] = req[r].draft[i]
  BY <1>0, AskedHolds
<1>2. RequestsOk'
  BY <1>0, <1>1, RequestSteps
<1>3. \A x \in Maker : req'[x] = IF x = r THEN q ELSE req[x]
  BY <1>0 DEF OrdersInv, RequestsOk
<1>4. \A x \in Maker : req'[x].op = "reserve" => /\ req[x].op = "reserve" /\ req'[x].asked = req[x].asked
                                                 /\ req[x].active \subseteq req'[x].active
  BY <1>0, <1>1, <1>3
<1>5. \A x \in Maker : req[x].op = "reserve" =>
          /\ req'[x].op = "reserve"
          /\ \A i \in 1..Len(req[x].draft) : \E j \in 1..Len(req'[x].draft) : req'[x].draft[j].no = req[x].draft[i].no
  <2>1. \A i \in 1..Len(req[r].draft) : i \in 1..Len(q.draft) /\ q.draft[i].no = req[r].draft[i].no
    BY <1>1
  <2> QED BY <1>1, <1>3, <2>1
<1>6. \A i \in Len(rows)+1..Len(rows') : rows'[i].mode # "reserve"
  BY Lengths
<1>7. Claims'
  BY <1>2, <1>4, <1>5, <1>6, QuietKeeps
<1> QED BY <1>2, <1>7 DEF OrdersInv

\* A reservation for the day of the sheet: no other is held for a line the request has
\* not seen active.
LEMMA AskedForTheDay ==
    ASSUME OrdersInv, NEW r \in Maker, phase = 0, UNCHANGED <<phase, rows, excused>>,
           NEW row, Tied(row)', NEW active, Answers(r, row, active), row.line \notin req[r].active,
           NEW q, q = Noted(req[r], row, active), req' = [req EXCEPT ![r] = q],
           NEW o \in OrderSet, o.exec = 0, o.state = "waiting", o.line = row.line, book' = Append(book, o),
           row.no = Len(book')
    PROVE  OrdersInv'
<1>0. r \in Request /\ Maker \subseteq Request /\ req[r].op = "reserve" /\ Reserving(req[r])
  BY ReservingIs DEF Request, Answers
<1>1. /\ Onward /\ BookOk' /\ RowsOk' /\ Len(book') = Len(book) + 1 /\ book'[Len(book) + 1] = o
      /\ \A n \in 1..Len(book) : book'[n] = book[n]
  BY OrderTaken
<1>2. PICK l : l = row.line
  OBVIOUS
<1>3. l \in req[r].asked /\ l \notin req[r].active /\ req[r].active \subseteq active
  <2>1. req[r].todo \in Seq(Line) /\ req[r].todo # <<>> /\ l = Head(req[r].todo)
    BY <1>0, <1>2 DEF Reserving, Answers
  <2>2. l = req[r].todo[1] /\ 1 \in 1..Len(req[r].todo)
    BY <2>1, HeadTailProperties, LenProperties, EmptySeq
  <2> QED BY <1>0, <1>2, <2>2 DEF Reserving, Answers
<1>4. /\ Holds(r, q)' /\ q.op = "reserve" /\ q.asked = req[r].asked /\ q.active = active
      /\ Len(req[r].draft) \in Nat /\ Len(q.draft) = Len(req[r].draft) + 1
      /\ \A i \in 1..Len(req[r].draft) : q.draft[i] = req[r].draft[i]
      /\ q.draft[Len(req[r].draft) + 1] = row
  <2>1. BookOk' /\ Onward /\ r \in Request
    BY <1>0, <1>1
  <2> QED BY <2>1, AskedHolds
<1>5. RequestsOk'
  BY <1>0, <1>1, <1>4, RequestSteps
<1>6. \A x \in Maker : /\ req'[x] = IF x = r THEN q ELSE req[x]
                       /\ req'[x].op = req[x].op
                       /\ req[x].op = "reserve" => req'[x].asked = req[x].asked /\ req[x].active \subseteq req'[x].active
  BY <1>0, <1>3, <1>4 DEF OrdersInv, RequestsOk
<1>7. \A n \in 1..Len(book) : Standing(n)' => Standing(n)
  BY <1>1 DEF Standing
<1>8. \A n \in 1..Len(book') : n \in 1..Len(book) \/ n = Len(book) + 1
  BY <1>1, Lengths
<1>9. Apart'
  <2> SUFFICES ASSUME NEW x \in Maker, NEW y \in Maker, req'[x].op = "reserve", req'[y].op = "reserve", x # y,
                      NEW k, k \in req'[x].asked, k \in req'[y].asked
               PROVE  k \in excused
    BY DEF Apart
  <2>1. /\ req[x].op = "reserve" /\ req[y].op = "reserve" /\ k \in req[x].asked /\ k \in req[y].asked
    BY <1>6
  <2> QED BY <2>1 DEF OrdersInv, Claims, Apart
<1>10. Seen'
  <2> SUFFICES ASSUME NEW x \in Maker, req'[x].op = "reserve", NEW i \in 1..Len(rows),
                      NEW n, n = rows[i].no, Standing(n)', rows[i].line \in req'[x].asked
               PROVE  rows[i].line \in req'[x].active
    BY DEF Seen, Standing
  <2>1. n \in 1..Len(book)
    BY <1>1, Lengths DEF Standing, OrdersInv, RowsOk, Tied
  <2>2. Standing(n)
    BY <1>7, <2>1
  <2> QED BY <1>6, <2>2 DEF OrdersInv, Claims, Seen
<1>11. Known'
  <2> SUFFICES ASSUME NEW n \in 1..Len(book'), Standing(n)'
               PROVE  \/ \E i \in 1..Len(rows) : rows[i].no = n
                      \/ \E x \in Maker : req'[x].op = "reserve" /\ \E i \in 1..Len(req'[x].draft) : req'[x].draft[i].no = n
    BY DEF Known
  <2>1. CASE n = Len(book) + 1
    <3>1. PICK k : k = Len(req[r].draft) + 1
      OBVIOUS
    <3>2. k \in 1..Len(q.draft)
      BY <1>4, <3>1
    <3>3. q.draft[k].no = n
      BY <1>1, <1>4, <2>1, <3>1
    <3>4. req'[r] = q
      BY <1>6
    <3> QED BY <1>4, <3>2, <3>3, <3>4
  <2>2. CASE n \in 1..Len(book)
    <3>1. Standing(n)
      BY <1>7, <2>2
    <3>2. ASSUME NEW x \in Maker, req[x].op = "reserve", NEW i \in 1..Len(req[x].draft), req[x].draft[i].no = n
          PROVE  req'[x].op = "reserve" /\ i \in 1..Len(req'[x].draft) /\ req'[x].draft[i].no = n
      <4>1. CASE x # r
        BY <1>6, <3>2, <4>1
      <4>2. CASE x = r
        <5>1. req'[x] = q /\ i \in 1..Len(req[r].draft) /\ req[r].draft[i].no = n
          BY <1>6, <3>2, <4>2
        <5>2. i \in 1..Len(q.draft) /\ q.draft[i].no = n
          BY <1>4, <5>1
        <5> QED BY <1>4, <5>1, <5>2
      <4> QED BY <4>1, <4>2
    <3> QED BY <2>2, <3>1, <3>2 DEF OrdersInv, Claims, Known
  <2> QED BY <1>8, <2>1, <2>2
<1>12. ASSUME NEW m \in 1..Len(book), Standing(m), book[m].line = l PROVE FALSE
  <2>1. ASSUME NEW i \in 1..Len(rows), rows[i].no = m PROVE FALSE
    <3>1. rows[i].line = l
      BY <1>12, <2>1, Lengths DEF OrdersInv, RowsOk, Tied
    <3> QED BY <1>0, <1>3, <1>12, <2>1, <3>1 DEF OrdersInv, Claims, Seen
  <2>2. ASSUME NEW x \in Maker, req[x].op = "reserve", NEW i \in 1..Len(req[x].draft), req[x].draft[i].no = m
        PROVE  FALSE
    <3>1. Reserving(req[x])
      BY <1>0, <2>2, ReservingIs
    <3>2. /\ Tied(req[x].draft[i]) /\ req[x].draft[i].line \in req[x].asked
          /\ m # 0 => req[x].draft[i].line \in req[x].active
      BY <2>2, <3>1 DEF Reserving
    <3>3. m # 0 /\ req[x].draft[i].line = l
      BY <1>12, <2>2, <3>2, Lengths DEF Tied
    <3>4. x # r
      BY <1>3, <3>2, <3>3
    <3>5. l \in excused
      BY <1>0, <1>3, <2>2, <3>2, <3>3, <3>4 DEF OrdersInv, Claims, Apart
    <3> QED BY <1>12, <3>5 DEF Standing
  <2> QED BY <1>12, <2>1, <2>2 DEF OrdersInv, Claims, Known
<1>13. Unique'
  <2> SUFFICES ASSUME NEW m \in 1..Len(book'), NEW n \in 1..Len(book'), Standing(m)', Standing(n)', book'[m].line = book'[n].line
               PROVE  m = n
    BY DEF Unique
  <2>1. CASE m \in 1..Len(book) /\ n \in 1..Len(book)
    BY <1>1, <1>7, <2>1 DEF OrdersInv, Claims, Unique
  <2>2. CASE m \in 1..Len(book) /\ n = Len(book) + 1
    BY <1>1, <1>2, <1>7, <1>12, <2>2
  <2>3. CASE n \in 1..Len(book) /\ m = Len(book) + 1
    BY <1>1, <1>2, <1>7, <1>12, <2>3
  <2> QED BY <1>8, <2>1, <2>2, <2>3
<1> QED BY <1>1, <1>5, <1>9, <1>10, <1>11, <1>13 DEF OrdersInv, Claims

\* A line asked for at the broker keeps it.
LEMMA AskKeeps ==
    ASSUME OrdersInv, NEW r \in Maker, Ask(r)
    PROVE  OrdersInv'
<1>l. PICK l : l = Head(req[r].todo)
  OBVIOUS
<1>o. PICK o : o = Order(l, "reserve", IF phase = 0 THEN 1 ELSE 2)
  OBVIOUS
<1>k. PICK noted : noted = req[r].active \union {l}
  OBVIOUS
<1>r. PICK row, fail : row = Row(l, "reserve", "reserved", Len(book) + 1) /\ fail = Row(l, "reserve", "failed", 0)
  OBVIOUS
<1>0. /\ r \in Request /\ req[r].op = "reserve" /\ req[r].todo # <<>> /\ Reserving(req[r])
      /\ UNCHANGED <<phase, rows>>
  BY ReservingIs DEF Request, Ask
<1>1. l \in Line
  BY <1>0, <1>l, HeadTailProperties, EmptySeq DEF Reserving
<1>2. o \in OrderSet /\ o.exec = 0 /\ o.state = "waiting" /\ o.line = l /\ (phase # 0 => o.day = 2)
  BY <1>1, <1>o DEF Order, OrderSet
<1>3. /\ row \in RowSet /\ row.line = l /\ row.mode = "reserve" /\ row.status = "reserved" /\ row.no = Len(book) + 1
      /\ fail \in RowSet /\ fail.line = l /\ fail.mode = "reserve" /\ fail.status = "failed" /\ fail.no = 0
  BY <1>1, <1>r, Lengths DEF Row, RowSet, Statuses
<1>4. Answers(r, row, noted) /\ Answers(r, fail, req[r].active)
  BY <1>0, <1>1, <1>3, <1>l, <1>k DEF Answers, Reserving
<1>5. \/ l \in req[r].active /\ req' = [req EXCEPT ![r].todo = Tail(@)] /\ UNCHANGED <<book, excused>>
      \/ /\ l \notin req[r].active /\ book' = Append(book, o) /\ UNCHANGED excused
         /\ req' = [req EXCEPT ![r] = Noted(req[r], Row(l, "reserve", "reserved", Len(book')), noted)]
      \/ /\ req' = [req EXCEPT ![r] = Noted(req[r], fail, req[r].active)]
         /\ \/ UNCHANGED <<book, excused>>
            \/ book' = Append(book, o) /\ excused' = excused \union {l}
  <2>1. \/ Head(req[r].todo) \in req[r].active /\ req' = [req EXCEPT ![r].todo = Tail(@)] /\ UNCHANGED <<book, excused>>
        \/ /\ Head(req[r].todo) \notin req[r].active
           /\ book' = Append(book, Order(Head(req[r].todo), "reserve", IF phase = 0 THEN 1 ELSE 2)) /\ UNCHANGED excused
           /\ req' = [req EXCEPT ![r] = Noted(req[r], Row(Head(req[r].todo), "reserve", "reserved",
                         Len(Append(book, Order(Head(req[r].todo), "reserve", IF phase = 0 THEN 1 ELSE 2)))),
                         req[r].active \union {Head(req[r].todo)})]
        \/ /\ req' = [req EXCEPT ![r] = Noted(req[r], Row(Head(req[r].todo), "reserve", "failed", 0), req[r].active)]
           /\ \/ UNCHANGED <<book, excused>>
              \/ /\ book' = Append(book, Order(Head(req[r].todo), "reserve", IF phase = 0 THEN 1 ELSE 2))
                 /\ excused' = excused \union {Head(req[r].todo)}
    BY DEF Ask
  <2> QED BY <2>1, <1>l, <1>o, <1>k, <1>r
<1>6. CASE l \in req[r].active /\ req' = [req EXCEPT ![r].todo = Tail(@)] /\ UNCHANGED <<book, excused>>
  <2>1. PICK q : q = [req[r] EXCEPT !.todo = Tail(@)]
    OBVIOUS
  <2>2. Onward /\ BookOk' /\ RowsOk'
    BY <1>0, <1>6, StandStill
  <2>3. /\ q.op = "reserve" /\ q.draft = req[r].draft /\ q.asked = req[r].asked /\ q.active = req[r].active
        /\ q.todo = Tail(req[r].todo)
    BY <1>0, <2>1 DEF Reserving
  <2>4. /\ q.todo \in Seq(Line) /\ Len(req[r].todo) \in Nat /\ Len(q.todo) = Len(req[r].todo) - 1
        /\ \A i \in 1..Len(q.todo) : q.todo[i] = req[r].todo[i + 1]
    BY <1>0, <2>3, HeadTailProperties, LenProperties, EmptySeq DEF Reserving
  <2>5. \A i \in 1..Len(q.todo) : q.todo[i] \in q.asked
    <3>1. ASSUME NEW i \in 1..Len(q.todo) PROVE i + 1 \in 1..Len(req[r].todo)
      BY <2>4
    <3> QED BY <1>0, <2>3, <2>4, <3>1 DEF Reserving
  <2>6. q \in [op : {"reserve"}, asked : SUBSET Line, todo : Seq(Line), active : SUBSET Line,
               draft : Seq(RowSet), flushed : BOOLEAN]
    BY <1>0, <2>1, <2>3, <2>4 DEF Reserving
  <2>7. Reserving(q)
    BY <1>0, <2>3, <2>5, <2>6 DEF Reserving
  <2>8. Holds(r, q)' /\ req' = [req EXCEPT ![r] = q]
    BY <1>0, <1>6, <2>1, <2>2, <2>7, HoldsStays, ReservingIs DEF Holds
  <2>9. RequestsOk'
    BY <1>0, <2>2, <2>8, RequestSteps
  <2>10. \A x \in Maker : req'[x] = IF x = r THEN q ELSE req[x]
    BY <2>8 DEF OrdersInv, RequestsOk, Request
  <2>11. /\ \A n \in Len(book)+1..Len(book') : ~Standing(n)'
         /\ \A i \in Len(rows)+1..Len(rows') : rows'[i].mode # "reserve"
         /\ excused \subseteq excused'
    BY <1>0, <1>6, Lengths
  <2>12. /\ \A x \in Maker : req'[x].op = "reserve" => /\ req[x].op = "reserve" /\ req'[x].asked = req[x].asked
                                                        /\ req[x].active \subseteq req'[x].active
         /\ \A x \in Maker : req[x].op = "reserve" => req'[x].op = "reserve" /\ req'[x].draft = req[x].draft
    BY <1>0, <2>3, <2>10
  <2>13. Claims'
    BY <2>2, <2>9, <2>11, <2>12, QuietKeeps
  <2> QED BY <2>2, <2>9, <2>13 DEF OrdersInv
<1>7. ASSUME book' = Append(book, o)
      PROVE  /\ Onward /\ BookOk' /\ RowsOk' /\ Len(book') = Len(book) + 1 /\ book'[Len(book) + 1] = o
             /\ Tied(row)' /\ Tied(fail)' /\ Row(l, "reserve", "reserved", Len(book')) = row
             /\ \A n \in Len(book)+1..Len(book') : book'[n] = o
  <2>1. /\ Onward /\ BookOk' /\ RowsOk' /\ Len(book') = Len(book) + 1 /\ book'[Len(book) + 1] = o
    BY <1>0, <1>2, <1>7, OrderTaken
  <2>2. o.kind = "reserve"
    BY <1>o DEF Order
  <2>3. Tied(row)' /\ Tied(fail)'
    BY <1>2, <1>3, <2>1, <2>2, Lengths DEF Tied
  <2>4. Row(l, "reserve", "reserved", Len(book')) = row
    BY <1>r, <2>1
  <2> QED BY <2>1, <2>3, <2>4, Lengths
<1>8. CASE /\ l \notin req[r].active /\ book' = Append(book, o) /\ UNCHANGED excused
           /\ req' = [req EXCEPT ![r] = Noted(req[r], Row(l, "reserve", "reserved", Len(book')), noted)]
  <2>1. PICK q : q = Noted(req[r], row, noted)
    OBVIOUS
  <2>2. req' = [req EXCEPT ![r] = q] /\ row.no = Len(book')
    BY <1>3, <1>7, <1>8, <2>1
  <2>3. CASE phase = 0
    <3>1. Tied(row)' /\ row.line \notin req[r].active /\ o.line = row.line
      BY <1>2, <1>3, <1>7, <1>8
    <3>2. UNCHANGED <<phase, rows, excused>> /\ book' = Append(book, o)
      BY <1>0, <1>8
    <3>3. Answers(r, row, noted) /\ o \in OrderSet /\ o.exec = 0 /\ o.state = "waiting"
      BY <1>2, <1>4
    <3> QED BY <2>1, <2>2, <2>3, <3>1, <3>2, <3>3, AskedForTheDay
  <2>4. CASE phase # 0
    <3>1. \A n \in Len(book)+1..Len(book') : ~Standing(n)'
      BY <1>2, <1>7, <1>8, <2>4 DEF Standing
    <3>2. UNCHANGED rows /\ excused \subseteq excused'
      BY <1>0, <1>8
    <3>3. Tied(row)' /\ Answers(r, row, noted) /\ BookOk' /\ Onward /\ RowsOk'
      BY <1>4, <1>7, <1>8
    <3> QED BY <2>1, <2>2, <3>1, <3>2, <3>3, AskedQuiet
  <2> QED BY <2>3, <2>4
<1>9. CASE /\ req' = [req EXCEPT ![r] = Noted(req[r], fail, req[r].active)]
           /\ \/ UNCHANGED <<book, excused>>
              \/ book' = Append(book, o) /\ excused' = excused \union {l}
  <2>1. PICK q : q = Noted(req[r], fail, req[r].active)
    OBVIOUS
  <2>2. req' = [req EXCEPT ![r] = q] /\ UNCHANGED rows /\ excused \subseteq excused'
    BY <1>0, <1>9, <2>1
  <2>3. CASE UNCHANGED <<book, excused>>
    <3>1. Onward /\ BookOk' /\ RowsOk'
      BY <1>0, <2>3, StandStill
    <3>2. Tied(fail)'
      BY <1>3, <3>1, LenProperties DEF Tied, BookOk
    <3>3. \A n \in Len(book)+1..Len(book') : ~Standing(n)'
      BY <2>3, Lengths
    <3> QED BY <1>4, <2>1, <2>2, <3>1, <3>2, <3>3, AskedQuiet
  <2>4. CASE book' = Append(book, o) /\ excused' = excused \union {l}
    <3>1. \A n \in Len(book)+1..Len(book') : ~Standing(n)'
      BY <1>2, <1>7, <2>4 DEF Standing
    <3> QED BY <1>4, <1>7, <2>1, <2>2, <2>4, <3>1, AskedQuiet
  <2> QED BY <1>9, <2>3, <2>4
<1> QED BY <1>5, <1>6, <1>8, <1>9

-----------------------------------------------------------------------------
(* All steps. *)

\* It holds at the start.
LEMMA OrdersStart == OrdersInit => OrdersInv
<1> SUFFICES ASSUME OrdersInit PROVE OrdersInv
  OBVIOUS
<1>1. /\ phase = 0 /\ rows = <<>> /\ book = <<>> /\ excused = {}
      /\ Len(rows) = 0 /\ Len(book) = 0 /\ rows \in Seq(RowSet) /\ book \in Seq(OrderSet)
  BY DEF OrdersInit
<1>2. PICK cast \in Casts : req = [r \in Request |-> IF r \in cast THEN Idle ELSE Done]
  BY DEF OrdersInit
<1>3. BookOk /\ RowsOk
  BY <1>1 DEF BookOk, RowsOk
<1>4. DOMAIN req = Request /\ \A r \in Request : req[r] \in {Idle, Done} /\ req[r].op # "reserve"
  BY <1>2 DEF Idle, Done
<1>5. RequestsOk
  BY <1>4 DEF RequestsOk, Holds
<1>6. Claims
  BY <1>1, <1>4 DEF Claims, Apart, Seen, Known, Unique, Request
<1> QED BY <1>3, <1>5, <1>6 DEF OrdersInv

\* Every step keeps it.
LEMMA OrdersStep == OrdersInv /\ [OrdersNext]_ordersVars => OrdersInv'
<1> SUFFICES ASSUME OrdersInv, [OrdersNext]_ordersVars PROVE OrdersInv'
  OBVIOUS
<1>1. CASE NextPhase \/ Execute
  BY <1>1, BrokerKeeps
<1>2. ASSUME NEW r \in Maker, BeginReserve(r) \/ Ask(r) \/ Flush(r) \/ CommitReserve(r) PROVE OrdersInv'
  BY <1>2, BeginReserveKeeps, AskKeeps, FlushKeeps, CommitReserveKeeps
<1>3. ASSUME NEW r \in Trader, PlaceManual(r) \/ CommitManual(r) PROVE OrdersInv'
  BY <1>3, ManualKeeps
<1>4. ASSUME NEW r \in Maker \union Trader, Die(r) PROVE OrdersInv'
  BY <1>4, LosingKeeps DEF Die, Request
<1>5. ASSUME NEW r \in Canceller,
             CancelReserved(r) \/ CancelRegular(r) \/ CancelAtBroker(r) \/ CommitCancel(r)
      PROVE  OrdersInv'
  BY <1>5, CancelBegins, CancelEnds
<1>6. ASSUME NEW r \in Screen \union {Batch}, BeginSync(r) \/ CommitSync(r) PROVE OrdersInv'
  BY <1>6, SyncKeeps
<1>7. CASE UNCHANGED ordersVars
  <2>1. Onward /\ BookOk' /\ RowsOk'
    BY <1>7, StandStill DEF ordersVars
  <2>2. RequestsOk'
    BY <1>7, <2>1, RequestsStand DEF ordersVars
  <2>3. Claims'
    BY <1>7 DEF ordersVars, OrdersInv, Claims, Apart, Seen, Known, Unique, Standing
  <2> QED BY <2>1, <2>2, <2>3 DEF OrdersInv
<1> QED BY <1>1, <1>2, <1>3, <1>4, <1>5, <1>6, <1>7 DEF OrdersNext

\* It gives the property.
LEMMA OrdersMeans == OrdersInv => ReservedOnce
<1> SUFFICES ASSUME OrdersInv PROVE ReservedOnce
  OBVIOUS
<1>1. {n \in DOMAIN book : book[n].kind = "reserve" /\ book[n].day = 1
                             /\ book[n].state # "cancelled" /\ book[n].line \notin excused}
      = {n \in 1..Len(book) : Standing(n)}
  BY Lengths DEF Standing
<1>2. ASSUME NEW m \in 1..Len(book), Standing(m)
      PROVE  \E row \in ToSet(rows) \union UNION {ToSet(req[r].draft) : r \in {r \in Maker : req[r].op = "reserve"}} :
                row.no = m
  <2>1. CASE \E i \in 1..Len(rows) : rows[i].no = m
    BY <2>1, Lengths DEF ToSet
  <2>2. ASSUME NEW r \in Maker, req[r].op = "reserve", NEW i \in 1..Len(req[r].draft), req[r].draft[i].no = m
        PROVE  req[r].draft[i] \in UNION {ToSet(req[x].draft) : x \in {x \in Maker : req[x].op = "reserve"}}
    <3>1. i \in DOMAIN req[r].draft
      BY <2>2, ReservingIs, LenProperties DEF Reserving, Request
    <3> QED BY <2>2, <3>1 DEF ToSet
  <2> QED BY <1>2, <2>1, <2>2 DEF OrdersInv, Claims, Known
<1> QED BY <1>1, <1>2 DEF ReservedOnce, OrdersInv, Claims, Unique

\* The broker holds one reservation of a line for the day at most, and the table or the
\* running request knows it, for any number of requests, lines, screens and orders
\* (reserve_broker_orders, cancel_broker_order and the syncs of broker.py).
THEOREM ReservedOnceAlways == OrdersSpec => []ReservedOnce
<1>1. OrdersSpec => []OrdersInv
  BY OrdersStart, OrdersStep, PTL DEF OrdersSpec
<1> QED BY <1>1, OrdersMeans, PTL

-----------------------------------------------------------------------------
(* Final statuses.  What a row says of its order, and how many shares it counts, are kept
   apart, for a sync writes them apart.  Both are true of orders of the day from the moment
   a sync reads them, because an order that is over stays as it is. *)

Ended(o) == o.state \in {"over", "cancelled"}
OrderTrue(o) ==
    /\ o.exec <= Qty /\ (o.exec = Qty => Ended(o))
    /\ o.state = "waiting" => o.kind = "reserve" /\ o.exec = 0 /\ (o.day = 1 => phase = 0)
    /\ o.state = "live" => InSession
    /\ o.kind = "reserve" /\ o.state = "cancelled" => o.exec = 0
    /\ o.kind = "manual" => o.day = 1 /\ phase >= 1
BookTrue == \A n \in 1..Len(book) : OrderTrue(book[n])

Early(row) == row.no # 0 /\ book[row.no].day = 1
\* The status st and the quantity f said of the row's order.
Says(row, st) ==
    /\ row.no # 0 => /\ st # "failed"
                     /\ row.mode = "reserve" => st # "submitted"
                     /\ row.mode = "manual" => st # "reserved"
    /\ Early(row) /\ phase <= 2 =>
          /\ st = "filled" => book[row.no].exec = Qty
          /\ st = "unfilled" => /\ book[row.no].exec = 0
                                /\ \/ book[row.no].state = "over"
                                   \/ book[row.no].state = "cancelled" /\ row.mode = "manual"
          /\ st = "cancelled" => book[row.no].state = "cancelled"
Counts(row, f) == Early(row) /\ phase <= 2 => f <= book[row.no].exec
\* They say all there is to say.
Tells(row, st, f) ==
    Early(row) /\ st # "cancelled" =>
       LET o == book[row.no] IN
       /\ st = "filled" \/ f = o.exec
       /\ st = (IF o.exec = Qty THEN "filled" ELSE IF o.exec > 0 THEN "partial"
                ELSE IF o.state = "cancelled" /\ o.kind = "reserve" THEN "cancelled" ELSE "unfilled")

RowTrue(row) == Says(row, row.status) /\ Counts(row, row.filled)
RowsTrue == \A i \in 1..Len(rows) : RowTrue(rows[i])

DraftsTrue(q) == q.op \in {"reserve", "trade"} => \A i \in 1..Len(q.draft) : RowTrue(q.draft[i])
SyncTrue(q) == q.op = "sync" => \A i \in 1..Len(q.was) : Says(rows[i], q.new[i].status) /\ Counts(rows[i], q.new[i].filled)
CancelTrue(q) == q.op \in {"withdraw", "cancel"} =>
                    /\ \A f \in q.filled : Counts(rows[q.row], f)
                    /\ q.op = "withdraw" => rows[q.row].mode = "manual"
\* The task, when it looks at everything after the close.
TaskTells(q) == q.op = "sync" /\ q.full =>
                   phase = 2 /\ \A i \in 1..Len(q.was) : Tells(rows[i], q.new[i].status, q.new[i].filled)
Clear(r, q) == DraftsTrue(q) /\ SyncTrue(q) /\ CancelTrue(q) /\ (r = Batch => TaskTells(q))
RequestsTrue == \A r \in Request : Clear(r, req[r])

\* What a request may hold once all is told: nothing about an order of the day.
Quiet(q) ==
    /\ q.op \in {"reserve", "trade"} => \A i \in 1..Len(q.draft) : ~Early(q.draft[i])
    /\ q.op = "sync" => \A i \in 1..Len(q.was) : Early(rows[i]) =>
          q.new[i].status = q.was[i].status /\ q.new[i].filled = q.was[i].filled
    /\ q.op = "cancel" => ~Early(rows[q.row])
RowsTell == \A i \in 1..Len(rows) : Tells(rows[i], rows[i].status, rows[i].filled)
SettledTrue == settled => /\ phase >= 2
                          /\ phase = 2 => RowsTell /\ \A r \in Request : Quiet(req[r])

TruthInv == OrdersInv /\ BookTrue /\ RowsTrue /\ RequestsTrue /\ SettledTrue

\* Orders and rows that are there stay, and what is over stays as it is.
Steady ==
    /\ Len(book') >= Len(book) /\ Len(rows') >= Len(rows) /\ phase' >= phase /\ phase' \in Nat
    /\ \A n \in 1..Len(book) : /\ book'[n].day = book[n].day /\ book'[n].kind = book[n].kind
                               /\ book'[n].exec \in Nat /\ book'[n].exec >= book[n].exec
                               /\ Ended(book[n]) => book'[n] = book[n]
    /\ \A i \in 1..Len(rows) : rows'[i].no = rows[i].no /\ rows'[i].mode = rows[i].mode

\* What the invariant says of every row and order, in the form the proofs below use.
LEMMA Facts ==
    ASSUME OrdersInv
    PROVE  /\ phase \in Nat /\ Qty \in Nat \ {0} /\ Len(book) \in Nat /\ Len(rows) \in Nat
           /\ \A n \in 1..Len(book) : book[n] \in OrderSet /\ book[n].exec \in Nat
           /\ \A row : Tied(row) => /\ row \in RowSet /\ row.filled \in Nat
                                    /\ row.no # 0 => row.no \in 1..Len(book) /\ book[row.no].kind = row.mode
<1>1. phase \in Nat /\ Qty \in Nat \ {0} /\ Len(book) \in Nat /\ Len(rows) \in Nat
  BY OrdersAssumption, Lengths DEF OrdersAssumption, OrdersInv, BookOk
<1>2. ASSUME NEW n \in 1..Len(book) PROVE book[n] \in OrderSet /\ book[n].exec \in Nat
  <2>1. book[n] \in OrderSet
    BY ElementOfSeq DEF OrdersInv, BookOk
  <2> QED BY <2>1 DEF OrderSet
<1>3. ASSUME NEW row, Tied(row)
      PROVE  /\ row \in RowSet /\ row.filled \in Nat
             /\ row.no # 0 => row.no \in 1..Len(book) /\ book[row.no].kind = row.mode
  BY <1>1, <1>3 DEF Tied, RowSet
<1> QED BY <1>1, <1>2, <1>3

\* A session that is over has no order of its day at work.
LEMMA OverIsEnded ==
    ASSUME TruthInv, phase = 2, NEW row, Tied(row), Early(row)
    PROVE  Ended(book[row.no])
<1>1. row.no \in 1..Len(book) /\ book[row.no] \in OrderSet
  BY Facts DEF TruthInv, Early
<1>2. OrderTrue(book[row.no]) /\ ~InSession
  BY <1>1 DEF TruthInv, BookTrue, InSession
<1> QED BY <1>1, <1>2 DEF OrderTrue, Early, OrderSet, Ended

\* What was true of an order stays so.
LEMMA SayingStays ==
    ASSUME TruthInv, Steady, NEW row, Tied(row)
    PROVE  /\ \A st : Says(row, st) => Says(row, st)'
           /\ \A f \in Nat : Counts(row, f) => Counts(row, f)'
           /\ phase = 2 => \A st, f : Tells(row, st, f) => Tells(row, st, f)'
           /\ Early(row)' <=> Early(row)
<1>1. /\ phase \in Nat /\ phase' \in Nat /\ phase' >= phase
      /\ row.no # 0 => /\ row.no \in 1..Len(book) /\ OrderTrue(book[row.no]) /\ book[row.no].exec \in Nat
                       /\ book'[row.no].day = book[row.no].day /\ book'[row.no].kind = book[row.no].kind
                       /\ book'[row.no].exec \in Nat /\ book'[row.no].exec >= book[row.no].exec
                       /\ Ended(book[row.no]) => book'[row.no] = book[row.no]
  BY Facts DEF TruthInv, BookTrue, Steady
<1>2. Early(row)' <=> Early(row)
  BY <1>1 DEF Early
<1>3. ASSUME NEW st, Says(row, st) PROVE Says(row, st)'
  BY <1>1, <1>2, <1>3 DEF Says, Early, OrderTrue, Ended
<1>4. ASSUME NEW f \in Nat, Counts(row, f) PROVE Counts(row, f)'
  <2> SUFFICES ASSUME Early(row)', phase' <= 2 PROVE f <= book'[row.no].exec
    BY DEF Counts
  <2>1. Early(row) /\ phase <= 2 /\ row.no # 0
    BY <1>1, <1>2 DEF Early
  <2>2. f <= book[row.no].exec
    BY <1>4, <2>1 DEF Counts
  <2> QED BY <1>1, <2>1, <2>2
<1>5. ASSUME phase = 2, NEW st, NEW f, Tells(row, st, f) PROVE Tells(row, st, f)'
  <2>1. Early(row) => book'[row.no] = book[row.no]
    BY <1>1, <1>5, OverIsEnded DEF Early
  <2> QED BY <1>2, <1>5, <2>1 DEF Tells, Early
<1> QED BY <1>2, <1>3, <1>4, <1>5

\* What is said of a row depends on its order only.
LEMMA SameOrder ==
    ASSUME NEW x, NEW y, x.no = y.no, x.mode = y.mode
    PROVE  /\ \A st : Says(x, st) <=> Says(y, st)
           /\ \A f : Counts(x, f) <=> Counts(y, f)
           /\ \A st, f : Tells(x, st, f) <=> Tells(y, st, f)
           /\ Early(x) <=> Early(y)
<1>1. Early(x) <=> Early(y)
  BY DEF Early
<1> QED BY <1>1 DEF Says, Counts, Tells

\* The same for a row of the table, which may be rewritten meanwhile.
LEMMA RowSayingStays ==
    ASSUME TruthInv, Steady, NEW i \in 1..Len(rows)
    PROVE  /\ \A st : Says(rows[i], st) => Says(rows[i], st)'
           /\ \A f \in Nat : Counts(rows[i], f) => Counts(rows[i], f)'
           /\ phase = 2 => \A st, f : Tells(rows[i], st, f) => Tells(rows[i], st, f)'
           /\ Early(rows[i])' <=> Early(rows[i])
           /\ rows'[i].no = rows[i].no /\ rows'[i].mode = rows[i].mode
<1>1. PICK x, y : x = rows[i] /\ y = rows'[i]
  OBVIOUS
<1>2. Tied(x) /\ x.no = y.no /\ x.mode = y.mode
  BY <1>1 DEF TruthInv, OrdersInv, RowsOk, Steady
<1>3. /\ \A st : Says(x, st) => Says(x, st)'
      /\ \A f \in Nat : Counts(x, f) => Counts(x, f)'
      /\ phase = 2 => \A st, f : Tells(x, st, f) => Tells(x, st, f)'
      /\ Early(x)' <=> Early(x)
  BY <1>2, SayingStays
<1>4. Early(rows[i])' <=> Early(x)'
  BY <1>1, <1>2 DEF Early
<1>5. \A st : Says(x, st)' => Says(rows[i], st)'
  BY <1>1, <1>2 DEF Says, Early
<1>6. \A f : Counts(x, f)' => Counts(rows[i], f)'
  BY <1>1, <1>2 DEF Counts, Early
<1>7. \A st, f : Tells(x, st, f)' => Tells(rows[i], st, f)'
  BY <1>1, <1>2 DEF Tells, Early
<1> QED BY <1>1, <1>2, <1>3, <1>4, <1>5, <1>6, <1>7

\* A request that holds something true goes on holding it.
LEMMA ClearStays ==
    ASSUME TruthInv, Steady, NEW r, NEW q, Holds(r, q)
    PROVE  /\ Clear(r, q) /\ (r = Batch /\ q.op = "sync" /\ q.full => phase' = phase) => Clear(r, q)'
           /\ Quiet(q) => Quiet(q)'
<1>1. CASE q \in {Idle, Done}
  BY <1>1 DEF Idle, Done, Clear, DraftsTrue, SyncTrue, CancelTrue, TaskTells, Quiet
<1>2. CASE q.op \in {"reserve", "trade"}
  <2>1. \A i \in 1..Len(q.draft) : Tied(q.draft[i]) /\ q.draft[i].filled \in Nat
    <3>1. \A i \in 1..Len(q.draft) : Tied(q.draft[i])
      BY <1>2 DEF Holds, Idle, Done, Reserving, Trading, Syncing, Cancelling
    <3> QED BY <3>1, Facts DEF TruthInv
  <2>2. \A i \in 1..Len(q.draft) : RowTrue(q.draft[i]) => RowTrue(q.draft[i])'
    BY <2>1, SayingStays DEF RowTrue
  <2>3. \A i \in 1..Len(q.draft) : Early(q.draft[i])' <=> Early(q.draft[i])
    BY <2>1, SayingStays
  <2> QED BY <1>2, <2>2, <2>3 DEF Clear, DraftsTrue, SyncTrue, CancelTrue, TaskTells, Quiet
<1>3. CASE q.op = "sync"
  <2>1. /\ \A i \in 1..Len(q.was) : i \in 1..Len(rows) /\ q.new[i].filled \in Nat
    <3>1. Syncing(q)
      BY <1>3 DEF Holds, Idle, Done, Reserving, Trading, Cancelling
    <3>2. Len(q.was) \in Nat /\ Len(q.was) <= Len(rows) /\ Len(q.new) = Len(q.was) /\ q.new \in Seq(RowSet)
      BY <3>1, LenProperties DEF Syncing
    <3>3. \A i \in 1..Len(q.was) : q.new[i] \in RowSet
      BY <3>2, ElementOfSeq
    <3>4. \A i \in 1..Len(q.was) : i \in 1..Len(rows)
      BY <3>2
    <3>5. \A x \in RowSet : x.filled \in Nat
      BY DEF RowSet
    <3> QED BY <3>3, <3>4, <3>5
  <2>2. \A i \in 1..Len(q.was) :
           /\ Says(rows[i], q.new[i].status) => Says(rows[i], q.new[i].status)'
           /\ Counts(rows[i], q.new[i].filled) => Counts(rows[i], q.new[i].filled)'
           /\ phase = 2 /\ Tells(rows[i], q.new[i].status, q.new[i].filled) =>
                 Tells(rows[i], q.new[i].status, q.new[i].filled)'
           /\ Early(rows[i])' <=> Early(rows[i])
    BY <2>1, RowSayingStays
  <2> QED BY <1>3, <2>2 DEF Clear, DraftsTrue, SyncTrue, CancelTrue, TaskTells, Quiet
<1>4. CASE q.op \in {"withdraw", "cancel"}
  <2>1. q.row \in 1..Len(rows) /\ q.filled \subseteq Nat
    BY <1>4 DEF Holds, Idle, Done, Reserving, Trading, Syncing, Cancelling
  <2>2. /\ \A f \in q.filled : Counts(rows[q.row], f) => Counts(rows[q.row], f)'
        /\ Early(rows[q.row])' <=> Early(rows[q.row])
        /\ rows'[q.row].mode = rows[q.row].mode
    BY <2>1, RowSayingStays
  <2> QED BY <1>4, <2>2 DEF Clear, DraftsTrue, SyncTrue, CancelTrue, TaskTells, Quiet
<1> QED BY <1>1, <1>2, <1>3, <1>4 DEF Holds, Reserving, Trading, Syncing, Cancelling

\* One request steps, the phase stays.
LEMMA OthersClear ==
    ASSUME TruthInv, Steady, phase' = phase, NEW r \in Request, NEW q, req' = [req EXCEPT ![r] = q], Clear(r, q)'
    PROVE  RequestsTrue' /\ (phase = 2 /\ settled /\ Quiet(q)' => \A x \in Request : Quiet(req[x])')
<1>1. DOMAIN req = Request /\ \A x \in Request : req'[x] = IF x = r THEN q ELSE req[x]
  BY DEF TruthInv, OrdersInv, RequestsOk
<1>2. ASSUME NEW x \in Request
      PROVE  Clear(x, req[x])' /\ (phase = 2 /\ settled /\ Quiet(q)' => Quiet(req[x])')
  <2>1. PICK new : new = req'[x]
    OBVIOUS
  <2>2. Clear(x, new)' /\ (phase = 2 /\ settled /\ Quiet(q)' => Quiet(new)')
    <3>1. CASE x = r
      BY <1>1, <2>1, <3>1
    <3>2. CASE x # r
      <4>1. new = req[x] /\ Holds(x, new) /\ Clear(x, new) /\ (phase = 2 /\ settled => Quiet(new))
        BY <1>1, <2>1, <3>2 DEF TruthInv, OrdersInv, RequestsOk, RequestsTrue, SettledTrue
      <4> QED BY <4>1, ClearStays
    <3> QED BY <3>1, <3>2
  <2> QED BY <2>1, <2>2 DEF Clear, DraftsTrue, SyncTrue, CancelTrue, TaskTells, Quiet
<1> QED BY <1>2 DEF RequestsTrue

\* A step of one request keeps the truth of what it and the others hold.
LEMMA TruthOneStep ==
    ASSUME TruthInv, OrdersInv', Steady, phase' = phase, settled' => settled, BookTrue', RowsTrue',
           NEW r \in Request, NEW q, req' = [req EXCEPT ![r] = q], Clear(r, q)',
           phase = 2 /\ settled => RowsTell' /\ Quiet(q)'
    PROVE  TruthInv'
<1>1. RequestsTrue' /\ (phase = 2 /\ settled /\ Quiet(q)' => \A x \in Request : Quiet(req[x])')
  BY OthersClear
<1>2. SettledTrue'
  BY <1>1 DEF TruthInv, SettledTrue
<1> QED BY <1>1, <1>2 DEF TruthInv

-----------------------------------------------------------------------------
(* What the steps do to the book and to the table. *)

\* The table stands still.
LEMMA TableStands ==
    ASSUME TruthInv, Steady, UNCHANGED rows
    PROVE  RowsTrue' /\ (phase = 2 /\ settled => RowsTell')
<1>1. ASSUME NEW i \in 1..Len(rows)
      PROVE  RowTrue(rows[i])' /\ (phase = 2 /\ settled => Tells(rows[i], rows[i].status, rows[i].filled)')
  <2>1. PICK row : row = rows[i]
    OBVIOUS
  <2>2. Tied(row) /\ RowTrue(row) /\ (phase = 2 /\ settled => Tells(row, row.status, row.filled))
    BY <2>1 DEF TruthInv, OrdersInv, RowsOk, RowsTrue, SettledTrue, RowsTell
  <2>3. row.filled \in Nat
    BY <2>2, Facts DEF TruthInv
  <2>4. RowTrue(row)' /\ (phase = 2 /\ settled => Tells(row, row.status, row.filled)')
    BY <2>2, <2>3, SayingStays DEF RowTrue
  <2> QED BY <2>1, <2>4 DEF RowTrue, Says, Counts, Tells, Early
<1> QED BY <1>1 DEF RowsTrue, RowsTell

\* Table and book stand still.
LEMMA AllStands ==
    ASSUME TruthInv, UNCHANGED <<phase, rows, book>>
    PROVE  Steady /\ BookTrue' /\ RowsTrue' /\ (phase = 2 /\ settled => RowsTell')
<1>1. Steady
  BY Facts DEF TruthInv, Steady
<1>2. BookTrue'
  BY DEF TruthInv, BookTrue, OrderTrue, InSession
<1> QED BY <1>1, <1>2, TableStands

\* The broker takes an order.
LEMMA BookGrows ==
    ASSUME TruthInv, UNCHANGED <<phase, rows>>, NEW o \in OrderSet, OrderTrue(o), book' = Append(book, o)
    PROVE  /\ Steady /\ BookTrue' /\ RowsTrue' /\ (phase = 2 /\ settled => RowsTell')
           /\ book'[Len(book')] = o /\ Len(book') # 0
<1>1. /\ Len(book') = Len(book) + 1 /\ Len(book) \in Nat
      /\ \A n \in 1..Len(book) : book'[n] = book[n]
      /\ book'[Len(book) + 1] = o
  BY AppendProperties, Facts DEF TruthInv, OrdersInv, BookOk
<1>2. Steady
  BY <1>1, Facts DEF TruthInv, Steady
<1>3. BookTrue'
  <2>1. ASSUME NEW n \in 1..Len(book') PROVE OrderTrue(book[n])'
    <3>1. PICK x : x = book'[n]
      OBVIOUS
    <3>2. OrderTrue(x)
      BY <1>1, <3>1 DEF TruthInv, BookTrue
    <3> QED BY <3>1, <3>2 DEF OrderTrue, Ended, InSession
  <2> QED BY <2>1 DEF BookTrue
<1> QED BY <1>1, <1>2, <1>3, TableStands

\* A row made for an order just sent, or for one refused.
LEMMA NewRow ==
    ASSUME NEW l, NEW mode \in {"reserve", "manual"}, NEW st, NEW no, NEW row, row = Row(l, mode, st, no),
           \/ no = 0
           \/ st = (IF mode = "reserve" THEN "reserved" ELSE "submitted") /\ book'[no].exec \in Nat
    PROVE  RowTrue(row)'
<1>1. row.no = no /\ row.mode = mode /\ row.status = st /\ row.filled = 0
  BY DEF Row
<1> QED BY <1>1 DEF RowTrue, Says, Counts, Early

\* Orders and rows are as they were, a request goes on with no row more.
MovesOn(r, q) ==
    /\ UNCHANGED <<phase, rows, book, settled>> /\ req' = [req EXCEPT ![r] = q]
    /\ \/ q \in {Idle, Done}
       \/ q.op = "reserve" /\ q.draft = <<>>
       \/ q.op = "reserve" /\ req[r].op = "reserve" /\ q.draft = req[r].draft

\* A step that touches neither the book nor the table keeps it.
LEMMA NothingMoves ==
    ASSUME TruthInv, OrdersInv', NEW r \in Request, NEW q, MovesOn(r, q)
    PROVE  TruthInv'
<1>0. UNCHANGED <<phase, rows, book, settled>> /\ req' = [req EXCEPT ![r] = q]
  BY DEF MovesOn
<1>1. Steady /\ BookTrue' /\ RowsTrue' /\ (phase = 2 /\ settled => RowsTell')
  BY <1>0, AllStands
<1>2. CASE q \in {Idle, Done}
  <2>1. Clear(r, q)' /\ Quiet(q)'
    BY <1>2 DEF Idle, Done, Clear, DraftsTrue, SyncTrue, CancelTrue, TaskTells, Quiet
  <2> QED BY <1>0, <1>1, <2>1, TruthOneStep
<1>3. CASE q.op = "reserve" /\ q.draft = <<>>
  <2>1. Len(<<>>) = 0
    OBVIOUS
  <2>2. Clear(r, q)' /\ Quiet(q)'
    BY <1>3, <2>1 DEF Clear, DraftsTrue, SyncTrue, CancelTrue, TaskTells, Quiet
  <2> QED BY <1>0, <1>1, <2>2, TruthOneStep
<1>4. CASE q.op = "reserve" /\ req[r].op = "reserve" /\ q.draft = req[r].draft
  <2>1. PICK old : old = req[r]
    OBVIOUS
  <2>2. Holds(r, old) /\ Clear(r, old) /\ (phase = 2 /\ settled => Quiet(old)) /\ old.op = "reserve" /\ old.draft = q.draft
    BY <1>4, <2>1 DEF TruthInv, OrdersInv, RequestsOk, RequestsTrue, SettledTrue
  <2>3. Clear(r, old)' /\ (phase = 2 /\ settled => Quiet(old)')
    BY <1>1, <2>2, ClearStays
  <2>4. Clear(r, q)' /\ (phase = 2 /\ settled => Quiet(q)')
    BY <1>4, <2>2, <2>3 DEF Clear, DraftsTrue, SyncTrue, CancelTrue, TaskTells, Quiet
  <2> QED BY <1>0, <1>1, <2>4, TruthOneStep
<1> QED BY <1>2, <1>3, <1>4 DEF MovesOn

\* A reservation that begins or writes its drafts keeps it.
LEMMA ReserveTells ==
    ASSUME TruthInv, OrdersInv', NEW r \in Maker, BeginReserve(r) \/ Flush(r)
    PROVE  TruthInv'
<1>0. r \in Request
  BY DEF Request
<1>1. CASE BeginReserve(r)
  <2>1. PICK ls \in Asks :
            req' = [req EXCEPT ![r] = [op |-> "reserve", asked |-> ToSet(ls), todo |-> ls,
                                        active |-> ActiveLines, draft |-> <<>>, flushed |-> TRUE]]
    BY <1>1 DEF BeginReserve
  <2>2. UNCHANGED <<phase, rows, book, settled>>
    BY <1>1 DEF BeginReserve
  <2>3. PICK q : q = [op |-> "reserve", asked |-> ToSet(ls), todo |-> ls,
                      active |-> ActiveLines, draft |-> <<>>, flushed |-> TRUE]
    OBVIOUS
  <2>4. q.op = "reserve" /\ q.draft = <<>> /\ req' = [req EXCEPT ![r] = q]
    BY <2>1, <2>3
  <2> QED BY <1>0, <2>2, <2>4, NothingMoves DEF MovesOn
<1>2. CASE Flush(r)
  <2>1. UNCHANGED <<phase, rows, book, settled>> /\ req[r].op = "reserve" /\ Reserving(req[r])
    BY <1>0, <1>2, ReservingIs DEF Flush, TruthInv
  <2>2. req' = [req EXCEPT ![r] = Done] \/ req' = [req EXCEPT ![r] = [req[r] EXCEPT !.flushed = TRUE]]
    BY <1>2 DEF Flush
  <2>3. PICK q : q = [req[r] EXCEPT !.flushed = TRUE]
    OBVIOUS
  <2>4. q.op = "reserve" /\ q.draft = req[r].draft
    BY <2>1, <2>3 DEF Reserving
  <2>5. CASE req' = [req EXCEPT ![r] = Done]
    <3>1. PICK d : d = Done
      OBVIOUS
    <3> QED BY <1>0, <2>1, <2>5, <3>1, NothingMoves DEF MovesOn
  <2>6. CASE req' = [req EXCEPT ![r] = q]
    BY <1>0, <2>1, <2>4, <2>6, NothingMoves DEF MovesOn
  <2> QED BY <2>2, <2>3, <2>5, <2>6
<1> QED BY <1>1, <1>2

\* A request that dies keeps it.
LEMMA DieTells ==
    ASSUME TruthInv, OrdersInv', NEW r \in Request, Die(r)
    PROVE  TruthInv'
<1>1. PICK q : q = Done
  OBVIOUS
<1>2. req' = [req EXCEPT ![r] = q] /\ UNCHANGED <<phase, rows, book, settled>>
  BY <1>1 DEF Die
<1> QED BY <1>1, <1>2, NothingMoves DEF MovesOn

\* A line is answered: one row more in the draft.
LEMMA AnswerTells ==
    ASSUME TruthInv, OrdersInv', Steady, phase' = phase, settled' = settled, BookTrue', RowsTrue',
           phase = 2 /\ settled => RowsTell',
           NEW r \in Maker, req[r].op = "reserve", NEW row \in RowSet, NEW active, req' = [req EXCEPT ![r] = Noted(req[r], row, active)],
           RowTrue(row)', phase = 2 => ~Early(row)'
    PROVE  TruthInv'
<1>0. r \in Request /\ Reserving(req[r])
  BY ReservingIs DEF TruthInv, Request
<1>1. PICK old, q : old = req[r] /\ q = Noted(req[r], row, active)
  OBVIOUS
<1>2. q.op = "reserve" /\ q.draft = Append(old.draft, row) /\ old.draft \in Seq(RowSet) /\ old.op = "reserve"
  BY <1>0, <1>1 DEF Noted, Reserving
<1>3. /\ Len(old.draft) \in Nat /\ Len(q.draft) = Len(old.draft) + 1
      /\ \A i \in 1..Len(q.draft) : q.draft[i] = row \/ (i \in 1..Len(old.draft) /\ q.draft[i] = old.draft[i])
  <2>1. PICK d : d = old.draft /\ d \in Seq(RowSet) /\ q.draft = Append(d, row)
    BY <1>2
  <2>2. /\ Len(d) \in Nat /\ Len(Append(d, row)) = Len(d) + 1
        /\ Append(d, row)[Len(d) + 1] = row /\ \A i \in 1..Len(d) : Append(d, row)[i] = d[i]
    BY <2>1, AppendProperties, LenProperties
  <2> QED BY <2>1, <2>2
<1>4. Holds(r, old) /\ Clear(r, old) /\ (phase = 2 /\ settled => Quiet(old))
  BY <1>0, <1>1 DEF TruthInv, OrdersInv, RequestsOk, RequestsTrue, SettledTrue
<1>5. Clear(r, old)' /\ (phase = 2 /\ settled => Quiet(old)')
  BY <1>4, ClearStays
<1>6. ASSUME NEW i \in 1..Len(q.draft)
      PROVE  RowTrue(q.draft[i])' /\ (phase = 2 /\ settled => ~Early(q.draft[i])')
  BY <1>2, <1>3, <1>5 DEF Clear, DraftsTrue, Quiet
<1>7. Clear(r, q)' /\ (phase = 2 /\ settled => Quiet(q)')
  BY <1>2, <1>6 DEF Clear, DraftsTrue, SyncTrue, CancelTrue, TaskTells, Quiet
<1>8. req' = [req EXCEPT ![r] = q]
  BY <1>1
<1> QED BY <1>0, <1>7, <1>8, TruthOneStep

\* A line asked for keeps it.
LEMMA AskTells ==
    ASSUME TruthInv, OrdersInv', NEW r \in Maker, Ask(r)
    PROVE  TruthInv'
<1>0. /\ r \in Request /\ req[r].op = "reserve" /\ req[r].todo # <<>> /\ Reserving(req[r])
      /\ UNCHANGED <<phase, rows, settled>>
  BY ReservingIs DEF TruthInv, Request, Ask
<1>1. PICK l, o : l = Head(req[r].todo) /\ o = Order(l, "reserve", IF phase = 0 THEN 1 ELSE 2)
  OBVIOUS
<1>2. l \in Line
  <2>1. req[r].todo \in Seq(Line) /\ req[r].todo # <<>>
    BY <1>0 DEF Reserving
  <2> QED BY <1>1, <2>1, HeadTailProperties
<1>3. o \in OrderSet /\ o.day = IF phase = 0 THEN 1 ELSE 2
  BY <1>1, <1>2 DEF Order, OrderSet
<1>4. CASE \E active : /\ book' = Append(book, o) /\ WindowOpen
                       /\ req' = [req EXCEPT ![r] = Noted(@, Row(l, "reserve", "reserved", Len(book')), active)]
  <2>1. PICK active, row : /\ row = Row(l, "reserve", "reserved", Len(book'))
                           /\ req' = [req EXCEPT ![r] = Noted(req[r], row, active)]
    BY <1>4
  <2>2. /\ Steady /\ BookTrue' /\ RowsTrue' /\ (phase = 2 /\ settled => RowsTell')
        /\ book'[Len(book')] = o /\ Len(book') # 0 /\ Len(book') \in Nat
    <3>1. OrderTrue(o)
      BY <1>1, <1>4, Facts DEF TruthInv, Order, OrderTrue, WindowOpen, Ended
    <3> QED BY <1>0, <1>3, <1>4, <3>1, BookGrows, Facts
  <2>3. row \in RowSet
    BY <1>2, <2>1, <2>2 DEF Row, RowSet, Statuses
  <2>4. RowTrue(row)'
    <3>1. book'[Len(book')].exec \in Nat
      BY <1>3, <2>2 DEF OrderSet
    <3> QED BY <2>1, <3>1, NewRow
  <2>5. phase = 2 => ~Early(row)'
    BY <1>3, <2>1, <2>2 DEF Row, Early
  <2> QED BY <1>0, <2>1, <2>2, <2>3, <2>4, <2>5, AnswerTells
<1>5. CASE \E active : /\ req' = [req EXCEPT ![r] = Noted(@, Row(l, "reserve", "failed", 0), active)]
                       /\ book' = book \/ (WindowOpen /\ book' = Append(book, o))
  <2>1. PICK active, row : /\ row = Row(l, "reserve", "failed", 0)
                           /\ req' = [req EXCEPT ![r] = Noted(req[r], row, active)]
    BY <1>5
  <2>2. Steady /\ BookTrue' /\ RowsTrue' /\ (phase = 2 /\ settled => RowsTell')
    <3>1. CASE book' = book
      BY <1>0, <3>1, AllStands
    <3>2. CASE WindowOpen /\ book' = Append(book, o)
      <4>1. OrderTrue(o)
        BY <1>1, <3>2, Facts DEF TruthInv, Order, OrderTrue, WindowOpen, Ended
      <4> QED BY <1>0, <1>3, <3>2, <4>1, BookGrows
    <3> QED BY <1>5, <3>1, <3>2
  <2>3. row \in RowSet
    BY <1>2, <2>1 DEF Row, RowSet, Statuses
  <2>4. RowTrue(row)' /\ ~Early(row)'
    BY <2>1, NewRow DEF Row, Early
  <2> QED BY <1>0, <2>1, <2>2, <2>3, <2>4, AnswerTells
<1>6. CASE book' = book /\ req' = [req EXCEPT ![r].todo = Tail(@)]
  <2>1. PICK q : q = [req[r] EXCEPT !.todo = Tail(@)]
    OBVIOUS
  <2>2. q.op = "reserve" /\ q.draft = req[r].draft /\ req' = [req EXCEPT ![r] = q]
    BY <1>0, <1>6, <2>1 DEF Reserving
  <2> QED BY <1>0, <1>6, <2>2, NothingMoves DEF MovesOn
<1>7. \/ book' = book /\ req' = [req EXCEPT ![r].todo = Tail(@)]
      \/ \E active : /\ book' = Append(book, o) /\ WindowOpen
                     /\ req' = [req EXCEPT ![r] = Noted(@, Row(l, "reserve", "reserved", Len(book')), active)]
      \/ \E active : /\ req' = [req EXCEPT ![r] = Noted(@, Row(l, "reserve", "failed", 0), active)]
                     /\ book' = book \/ (WindowOpen /\ book' = Append(book, o))
  BY <1>1 DEF Ask
<1> QED BY <1>4, <1>5, <1>6, <1>7

\* The rows of a draft join the table.
LEMMA DraftTells ==
    ASSUME TruthInv, OrdersInv', NEW r \in Request, req[r].op \in {"reserve", "trade"},
           rows' = rows \o req[r].draft, req' = [req EXCEPT ![r] = Done], UNCHANGED <<phase, book, settled>>
    PROVE  TruthInv'
<1>1. PICK q, new : q = req[r] /\ new = q.draft
  OBVIOUS
<1>2. Holds(r, q) /\ Clear(r, q) /\ (phase = 2 /\ settled => Quiet(q)) /\ q.op \in {"reserve", "trade"}
  BY <1>1 DEF TruthInv, OrdersInv, RequestsOk, RequestsTrue, SettledTrue
<1>3. /\ new \in Seq(RowSet)
      /\ \A i \in 1..Len(new) : RowTrue(new[i]) /\ (phase = 2 /\ settled => ~Early(new[i]))
  <2>1. Reserving(q) \/ Trading(q)
    BY <1>2 DEF Holds, Idle, Done, Syncing, Cancelling
  <2>2. new \in Seq(RowSet)
    BY <1>1, <2>1 DEF Reserving, Trading
  <2>3. \A i \in 1..Len(new) : RowTrue(new[i]) /\ (phase = 2 /\ settled => ~Early(new[i]))
    BY <1>1, <1>2 DEF Clear, DraftsTrue, Quiet
  <2> QED BY <2>2, <2>3
<1>4. /\ Len(rows) \in Nat /\ Len(new) \in Nat /\ Len(rows') = Len(rows) + Len(new)
      /\ \A i \in 1..Len(rows') : \/ i \in 1..Len(rows) /\ rows'[i] = rows[i]
                                 \/ \E j \in 1..Len(new) : rows'[i] = new[j]
  <2>1. /\ Len(rows') = Len(rows) + Len(new) /\ Len(new) \in Nat /\ Len(rows) \in Nat
        /\ \A i \in 1..Len(rows') : rows'[i] = IF i <= Len(rows) THEN rows[i] ELSE new[i - Len(rows)]
    BY <1>1, <1>3, ConcatProperties, LenProperties DEF TruthInv, OrdersInv, RowsOk
  <2>2. ASSUME NEW i \in 1..Len(rows'), ~(i <= Len(rows)) PROVE i - Len(rows) \in 1..Len(new)
    BY <2>1, <2>2
  <2>3. ASSUME NEW i \in 1..Len(rows')
        PROVE  (i \in 1..Len(rows) /\ rows'[i] = rows[i]) \/ \E j \in 1..Len(new) : rows'[i] = new[j]
    <3>1. CASE i <= Len(rows)
      BY <2>1, <3>1
    <3>2. CASE ~(i <= Len(rows))
      BY <2>1, <2>2, <3>2
    <3> QED BY <3>1, <3>2
  <2> QED BY <2>1, <2>3
<1>5. \A i \in 1..Len(rows) : rows'[i] = rows[i]
  BY <1>1, <1>3, ConcatProperties, LenProperties DEF TruthInv, OrdersInv, RowsOk
<1>6. Steady
  BY <1>4, <1>5, Facts DEF TruthInv, Steady
<1>7. BookTrue'
  BY DEF TruthInv, BookTrue, OrderTrue, InSession
<1>8. ASSUME NEW i \in 1..Len(rows')
      PROVE  RowTrue(rows[i])' /\ (phase = 2 /\ settled => Tells(rows[i], rows[i].status, rows[i].filled)')
  <2>1. PICK row : row = rows'[i]
    OBVIOUS
  <2>2. RowTrue(row) /\ (phase = 2 /\ settled => Tells(row, row.status, row.filled))
    <3>1. CASE i \in 1..Len(rows) /\ row = rows[i]
      BY <3>1 DEF TruthInv, RowsTrue, SettledTrue, RowsTell
    <3>2. CASE \E j \in 1..Len(new) : row = new[j]
      BY <1>3, <3>2 DEF Tells
    <3> QED BY <1>4, <2>1, <3>1, <3>2
  <2> QED BY <2>1, <2>2 DEF RowTrue, Says, Counts, Tells, Early
<1>9. RowsTrue' /\ (phase = 2 /\ settled => RowsTell')
  BY <1>8 DEF RowsTrue, RowsTell
<1>10. Clear(r, Done)' /\ Quiet(Done)'
  BY DEF Done, Clear, DraftsTrue, SyncTrue, CancelTrue, TaskTells, Quiet
<1>11. PICK d : d = Done
  OBVIOUS
<1> QED BY <1>6, <1>7, <1>9, <1>10, <1>11, TruthOneStep

\* A manual order sent keeps it.
LEMMA PlaceTells ==
    ASSUME TruthInv, OrdersInv', NEW r \in Trader, PlaceManual(r)
    PROVE  TruthInv'
<1>0. r \in Request /\ phase = 1 /\ UNCHANGED <<phase, rows, settled>>
  BY DEF Request, PlaceManual
<1>1. PICK l \in Line :
          \/ /\ book' = Append(book, Order(l, "manual", 1))
             /\ req' = [req EXCEPT ![r] = [op |-> "trade", draft |-> <<Row(l, "manual", "submitted", Len(book'))>>]]
          \/ /\ req' = [req EXCEPT ![r] = [op |-> "trade", draft |-> <<Row(l, "manual", "failed", 0)>>]]
             /\ book' = IF Unsure THEN Append(book, Order(l, "manual", 1)) ELSE book
  BY DEF PlaceManual
<1>2. PICK o : o = Order(l, "manual", 1)
  OBVIOUS
<1>3. o \in OrderSet /\ OrderTrue(o)
  BY <1>0, <1>2, Facts DEF TruthInv, Order, OrderSet, OrderTrue, InSession, Ended
<1>4. Steady /\ BookTrue' /\ RowsTrue' /\ (book' = Append(book, o) => book'[Len(book')] = o)
  <2>1. CASE book' = Append(book, o)
    BY <1>0, <1>3, <2>1, BookGrows
  <2>2. CASE book' = book
    <3>1. Steady /\ BookTrue' /\ RowsTrue'
      BY <1>0, <2>2, AllStands
    <3>2. book' # Append(book, o)
      <4>1. book \in Seq(OrderSet) /\ Len(Append(book, o)) = Len(book) + 1 /\ Len(book) \in Nat
        BY <1>3, AppendProperties, Facts DEF TruthInv, OrdersInv, BookOk
      <4> QED BY <2>2, <4>1
    <3> QED BY <3>1, <3>2
  <2> QED BY <1>1, <1>2, <2>1, <2>2
<1>5. PICK row : /\ req' = [req EXCEPT ![r] = [op |-> "trade", draft |-> <<row>>]]
                 /\ \/ row = Row(l, "manual", "submitted", Len(book')) /\ book' = Append(book, o)
                    \/ row = Row(l, "manual", "failed", 0)
  BY <1>1, <1>2
<1>6. RowTrue(row)'
  <2>1. book' = Append(book, o) => book'[Len(book')].exec \in Nat
    BY <1>3, <1>4 DEF OrderSet
  <2>2. CASE row = Row(l, "manual", "submitted", Len(book')) /\ book' = Append(book, o)
    BY <2>1, <2>2, NewRow
  <2>3. CASE row = Row(l, "manual", "failed", 0)
    BY <2>3, NewRow
  <2> QED BY <1>5, <2>2, <2>3
<1>7. PICK q : q = [op |-> "trade", draft |-> <<row>>]
  OBVIOUS
<1>8. q.op = "trade" /\ Len(q.draft) = 1 /\ q.draft[1] = row
  BY <1>7
<1>9. Clear(r, q)'
  BY <1>6, <1>8 DEF Clear, DraftsTrue, SyncTrue, CancelTrue, TaskTells
<1>10. /\ req' = [req EXCEPT ![r] = q] /\ phase' = phase /\ (settled' => settled)
       /\ phase = 2 /\ settled => RowsTell' /\ Quiet(q)'
  BY <1>0, <1>5, <1>7
<1> QED BY <1>0, <1>4, <1>9, <1>10, TruthOneStep

-----------------------------------------------------------------------------
(* The syncs. *)

\* What a sync makes of a reserved row is true of its order.
LEMMA ReservedSays ==
    ASSUME TruthInv, NEW row, Tied(row), row.mode = "reserve", row.status \in {"reserved", "partial"}, RowTrue(row),
           NEW new, new = SyncReserved(row, phase)
    PROVE  /\ Says(row, new.status) /\ Counts(row, new.filled)
           /\ phase = 2 => Tells(row, new.status, new.filled)
           /\ phase = 2 /\ Early(row) /\ Tells(row, row.status, row.filled) =>
                 new.status = row.status /\ new.filled = row.filled
<1>1. /\ row.no \in 1..Len(book) /\ row \in RowSet /\ phase \in Nat /\ Qty \in Nat \ {0}
      /\ book[row.no].exec \in Nat /\ OrderTrue(book[row.no]) /\ book[row.no] \in OrderSet
      /\ book[row.no].kind = "reserve" /\ row.no # 0
  BY Facts DEF TruthInv, BookTrue, Tied
<1>2. PICK o : o = book[row.no]
  OBVIOUS
<1> DEFINE st == IF o.state = "cancelled" THEN "cancelled"
                 ELSE IF o.exec >= Qty THEN "filled" ELSE IF o.exec > 0 THEN "partial"
                 ELSE IF DayOver(phase) THEN "unfilled" ELSE "reserved"
<1>3. new = IF Listed(row.no, phase) THEN [row EXCEPT !.status = st, !.filled = o.exec] ELSE row
  BY <1>2 DEF SyncReserved
<1>4. \/ new.status = st /\ new.filled = o.exec
      \/ new = row /\ ~(Early(row) /\ phase <= 2)
  BY <1>1, <1>2, <1>3 DEF Listed, Early, RowSet
<1>5. CASE new = row /\ ~(Early(row) /\ phase <= 2)
  BY <1>1, <1>5 DEF Says, Counts, Tells, RowTrue
<1>6. CASE new.status = st /\ new.filled = o.exec
  <2>1. Early(row) /\ phase = 2 => Ended(o)
    BY <1>2, OverIsEnded
  <2>2. Early(row) /\ phase <= 2 /\ st = "unfilled" => phase = 2 /\ o.exec = 0 /\ o.state = "over"
    BY <1>1, <1>2, <2>1 DEF DayOver, Ended
  <2>3. st = "filled" => o.exec = Qty
    BY <1>1, <1>2 DEF OrderTrue
  <2>4. st = "cancelled" => o.state = "cancelled"
    OBVIOUS
  <2>5. Says(row, st)
    BY <1>1, <1>2, <2>2, <2>3, <2>4 DEF Says
  <2>6. Counts(row, o.exec)
    BY <1>1, <1>2 DEF Counts
  <2>7. phase = 2 => Tells(row, st, o.exec)
    BY <1>1, <1>2 DEF Tells, DayOver, OrderTrue
  <2>8. phase = 2 /\ Early(row) /\ Tells(row, row.status, row.filled) => st = row.status /\ o.exec = row.filled
    BY <1>1, <1>2 DEF Tells, OrderTrue
  <2> QED BY <1>6, <2>5, <2>6, <2>7, <2>8
<1> QED BY <1>4, <1>5, <1>6

\* What a sync makes of a manual row is true of its order.
LEMMA RegularSays ==
    ASSUME TruthInv, NEW row, Tied(row), row.mode = "manual", row.status \in {"submitted", "partial"}, RowTrue(row),
           NEW new, new = SyncRegular(row, phase)
    PROVE  /\ Says(row, new.status) /\ Counts(row, new.filled)
           /\ phase = 2 => Tells(row, new.status, new.filled)
           /\ phase = 2 /\ Early(row) /\ Tells(row, row.status, row.filled) =>
                 new.status = row.status /\ new.filled = row.filled
           /\ new.no = row.no /\ new.mode = row.mode
<1>1. /\ row.no \in 1..Len(book) /\ row \in RowSet /\ phase \in Nat /\ Qty \in Nat \ {0}
      /\ book[row.no].exec \in Nat /\ OrderTrue(book[row.no]) /\ book[row.no] \in OrderSet
      /\ book[row.no].kind = "manual" /\ row.no # 0
  BY Facts DEF TruthInv, BookTrue, Tied
<1>2. PICK o : o = book[row.no]
  OBVIOUS
<1>3. o.day = 1 /\ phase >= 1 /\ o.exec \in Nat /\ o.exec <= Qty
  BY <1>1, <1>2 DEF OrderTrue
<1> DEFINE n == IF row.no # 0 /\ book[row.no].day = SessionOf(phase) THEN book[row.no].exec ELSE 0
           st == IF n >= Qty THEN "filled" ELSE IF n > 0 THEN "partial"
                 ELSE IF ~InSession THEN "unfilled" ELSE "submitted"
<1>4. new.status = st /\ new.filled = n /\ new.no = row.no /\ new.mode = row.mode
  BY <1>1 DEF SyncRegular, RowSet
<1>5. phase <= 2 => n = o.exec
  <2>1. phase <= 2 => phase = 1 \/ phase = 2
    BY <1>1, <1>3
  <2>2. SessionOf(1) = 1 /\ SessionOf(2) = 1
    BY DEF SessionOf
  <2> QED BY <1>1, <1>2, <1>3, <2>1, <2>2
<1>6. st \in {"filled", "partial", "unfilled", "submitted"}
  OBVIOUS
<1> HIDE DEF n
<1>7. phase <= 2 => /\ st = "filled" => o.exec = Qty
                    /\ st = "unfilled" => o.exec = 0 /\ phase = 2
                    /\ st # "cancelled"
  BY <1>1, <1>3, <1>5 DEF InSession
<1>8. Early(row) /\ phase = 2 => Ended(o)
  BY <1>2, OverIsEnded
<1>9. phase = 2 => Tells(row, st, n)
  BY <1>1, <1>2, <1>3, <1>5 DEF Tells, InSession
<1>10. phase = 2 /\ Early(row) /\ Tells(row, row.status, row.filled) => st = row.status /\ n = row.filled
  BY <1>1, <1>2, <1>3, <1>5 DEF Tells, InSession
<1> HIDE DEF st
<1>11. Says(row, st)
  BY <1>1, <1>2, <1>6, <1>7, <1>8 DEF Says, Ended
<1>12. Counts(row, n)
  BY <1>1, <1>2, <1>3, <1>5 DEF Counts
<1> QED BY <1>4, <1>9, <1>10, <1>11, <1>12

\* What a sync makes of any row is true of its order.
LEMMA SyncedSays ==
    ASSUME TruthInv, NEW row, Tied(row), RowTrue(row), NEW resv, NEW reg, NEW new, new = Synced(row, phase, resv, reg)
    PROVE  /\ Says(row, new.status) /\ Counts(row, new.filled)
           /\ phase = 2 /\ resv /\ reg => Tells(row, new.status, new.filled)
           /\ phase = 2 /\ Early(row) /\ Tells(row, row.status, row.filled) =>
                 new.status = row.status /\ new.filled = row.filled
<1>1. CASE row.mode = "reserve" /\ row.status \in {"reserved", "partial"} /\ resv
  BY <1>1, ReservedSays DEF Synced
<1>2. CASE row.mode = "manual" /\ row.status \in {"submitted", "partial"} /\ reg
  BY <1>2, RegularSays DEF Synced
<1>3. CASE /\ ~(row.mode = "reserve" /\ row.status \in {"reserved", "partial"} /\ resv)
           /\ ~(row.mode = "manual" /\ row.status \in {"submitted", "partial"} /\ reg)
  <2>1. new = row
    BY <1>3 DEF Synced
  <2>2. ASSUME phase = 2, resv, reg, Early(row), row.status # "cancelled" PROVE Tells(row, row.status, row.filled)
    <3>1. /\ row \in RowSet /\ row.filled \in Nat /\ Qty \in Nat \ {0} /\ row.no # 0 /\ book[row.no].exec \in Nat
          /\ book[row.no].kind = row.mode
      BY <2>2, Facts DEF TruthInv, Early
    <3>2. row.status \in {"filled", "unfilled"}
      BY <1>3, <2>2, <3>1 DEF RowTrue, Says, RowSet, Statuses
    <3>3. row.status = "filled" => book[row.no].exec = Qty
      BY <2>2, <3>1 DEF RowTrue, Says
    <3>4. row.status = "unfilled" => /\ book[row.no].exec = 0 /\ row.filled = 0
                                     /\ ~(book[row.no].state = "cancelled" /\ book[row.no].kind = "reserve")
      BY <2>2, <3>1 DEF RowTrue, Says, Counts
    <3> QED BY <3>1, <3>2, <3>3, <3>4 DEF Tells
  <2>3. row.status = "cancelled" \/ ~Early(row) => Tells(row, row.status, row.filled)
    BY DEF Tells
  <2> QED BY <2>1, <2>2, <2>3 DEF RowTrue
<1> QED BY <1>1, <1>2, <1>3

\* A sync that begins keeps it.
LEMMA BeginSyncTells ==
    ASSUME TruthInv, OrdersInv', NEW r \in Screen \union {Batch}, BeginSync(r)
    PROVE  TruthInv'
<1>0. r \in Request /\ UNCHANGED <<phase, rows, book, settled>>
  BY DEF Request, BeginSync
<1>1. PICK resv, reg \in BOOLEAN :
        req' = [req EXCEPT ![r] =
                  [op |-> "sync", was |-> rows, full |-> resv /\ reg /\ phase = 2 /\ Alone(r),
                   new |-> [i \in DOMAIN rows |-> Synced(rows[i], phase, resv, reg)]]]
  BY DEF BeginSync
<1>2. PICK new, full : /\ new = [i \in DOMAIN rows |-> Synced(rows[i], phase, resv, reg)]
                       /\ full = (resv /\ reg /\ phase = 2 /\ Alone(r))
  OBVIOUS
<1>3. PICK q : q = [op |-> "sync", was |-> rows, full |-> full, new |-> new]
  OBVIOUS
<1>4. req' = [req EXCEPT ![r] = q] /\ q.op = "sync" /\ q.was = rows /\ q.new = new /\ q.full = full
  BY <1>1, <1>2, <1>3
<1>5. ASSUME NEW i \in 1..Len(rows)
      PROVE  /\ Says(rows[i], new[i].status) /\ Counts(rows[i], new[i].filled)
             /\ phase = 2 /\ resv /\ reg => Tells(rows[i], new[i].status, new[i].filled)
             /\ phase = 2 /\ Early(rows[i]) /\ Tells(rows[i], rows[i].status, rows[i].filled) =>
                   new[i].status = rows[i].status /\ new[i].filled = rows[i].filled
  <2>1. Tied(rows[i]) /\ RowTrue(rows[i]) /\ new[i] = Synced(rows[i], phase, resv, reg)
    BY <1>2, Lengths DEF TruthInv, OrdersInv, RowsOk, RowsTrue
  <2> QED BY <2>1, SyncedSays
<1>6. Clear(r, q)
  BY <1>2, <1>4, <1>5, Zenon DEF Clear, DraftsTrue, SyncTrue, CancelTrue, TaskTells
<1>7. phase = 2 /\ settled => Quiet(q)
  BY <1>4, <1>5 DEF Quiet, TruthInv, SettledTrue, RowsTell
<1>8. Clear(r, q)' /\ (phase = 2 /\ settled => Quiet(q)')
  BY <1>0, <1>6, <1>7 DEF Clear, DraftsTrue, SyncTrue, CancelTrue, TaskTells, Quiet, RowTrue, Says, Counts, Tells, Early
<1>9. Steady /\ BookTrue' /\ RowsTrue' /\ (phase = 2 /\ settled => RowsTell')
  BY <1>0, AllStands
<1> QED BY <1>0, <1>4, <1>8, <1>9, TruthOneStep

\* The table is rewritten with what is true of each row's order.
LEMMA TableRewritten ==
    ASSUME TruthInv, OrdersInv', UNCHANGED <<phase, book>>, Len(rows') = Len(rows),
           \A i \in 1..Len(rows) :
              /\ rows'[i].no = rows[i].no /\ rows'[i].mode = rows[i].mode
              /\ Says(rows[i], rows'[i].status) /\ Counts(rows[i], rows'[i].filled)
    PROVE  /\ Steady /\ BookTrue' /\ RowsTrue'
           /\ (\A i \in 1..Len(rows) : Tells(rows[i], rows'[i].status, rows'[i].filled)) => RowsTell'
<1>1. Steady
  BY Facts DEF TruthInv, Steady
<1>2. BookTrue'
  BY DEF TruthInv, BookTrue, OrderTrue, InSession
<1>3. ASSUME NEW i \in 1..Len(rows')
      PROVE  /\ RowTrue(rows[i])'
             /\ Tells(rows[i], rows'[i].status, rows'[i].filled) => Tells(rows[i], rows[i].status, rows[i].filled)'
  <2>1. PICK x, y : x = rows[i] /\ y = rows'[i]
    OBVIOUS
  <2>2. x.no = y.no /\ x.mode = y.mode /\ Says(x, y.status) /\ Counts(x, y.filled)
    BY <2>1
  <2>3. RowTrue(y) /\ (Tells(x, y.status, y.filled) => Tells(y, y.status, y.filled))
    BY <2>2, SameOrder DEF RowTrue
  <2>4. RowTrue(y) => RowTrue(rows[i])'
    BY <2>1 DEF RowTrue, Says, Counts, Early
  <2>5. Tells(y, y.status, y.filled) => Tells(rows[i], rows[i].status, rows[i].filled)'
    BY <2>1 DEF Tells, Early
  <2> QED BY <2>1, <2>3, <2>4, <2>5
<1> QED BY <1>1, <1>2, <1>3 DEF RowsTrue, RowsTell

\* A sync that is stored keeps it.
LEMMA CommitSyncTells ==
    ASSUME TruthInv, OrdersInv', NEW r \in Screen \union {Batch}, CommitSync(r)
    PROVE  TruthInv'
<1>0. r \in Request
  BY DEF Request
<1>1. PICK q, was, new : q = req[r] /\ was = q.was /\ new = q.new
  OBVIOUS
<1>2. /\ q.op = "sync" /\ req' = [req EXCEPT ![r] = Idle] /\ UNCHANGED <<phase, book>>
      /\ rows' = IF r = Batch \/ \E i \in DOMAIN was : new[i].status # was[i].status
                 THEN [i \in DOMAIN rows |-> IF i \in DOMAIN was THEN Written(rows[i], was[i], new[i]) ELSE rows[i]]
                 ELSE rows
      /\ settled' = (settled \/ (r = Batch /\ q.full /\ Alone(r) /\ rows = was))
  BY <1>1 DEF CommitSync
<1>3. Syncing(q) /\ Clear(r, q) /\ (phase = 2 /\ settled => Quiet(q))
  <2>1. Holds(r, q) /\ Clear(r, q) /\ (phase = 2 /\ settled => Quiet(q))
    BY <1>0, <1>1 DEF TruthInv, OrdersInv, RequestsOk, RequestsTrue, SettledTrue
  <2>2. Syncing(q)
    BY <1>2, <2>1 DEF Holds, Idle, Done, Reserving, Trading, Cancelling
  <2> QED BY <2>1, <2>2
<1>4. /\ DOMAIN was = 1..Len(was) /\ Len(was) \in Nat /\ Len(was) <= Len(rows)
      /\ DOMAIN rows = 1..Len(rows) /\ Len(rows) \in Nat
  BY <1>1, <1>3, LenProperties, Lengths DEF TruthInv, Syncing
<1>5. ASSUME NEW i \in 1..Len(rows)
      PROVE  /\ rows[i] \in RowSet /\ RowTrue(rows[i])
             /\ i \in DOMAIN was => Says(rows[i], new[i].status) /\ Counts(rows[i], new[i].filled)
  BY <1>1, <1>2, <1>3, <1>4 DEF TruthInv, OrdersInv, RowsOk, Tied, RowsTrue, Clear, SyncTrue
<1>6. ASSUME NEW i \in 1..Len(rows)
      PROVE  /\ rows'[i].no = rows[i].no /\ rows'[i].mode = rows[i].mode
             /\ \/ rows'[i] = rows[i]
                \/ /\ i \in DOMAIN was
                   /\ rows'[i].status = IF new[i].status # was[i].status THEN new[i].status ELSE rows[i].status
                   /\ rows'[i].filled = IF new[i].filled # was[i].filled THEN new[i].filled ELSE rows[i].filled
  BY <1>2, <1>4, <1>5 DEF Written, RowSet
<1>7. /\ Len(rows') = Len(rows)
      /\ \A i \in 1..Len(rows) : Says(rows[i], rows'[i].status) /\ Counts(rows[i], rows'[i].filled)
  <2>1. DOMAIN rows' = DOMAIN rows /\ rows' \in Seq(RowSet)
    BY <1>2 DEF OrdersInv, RowsOk
  <2>2. Len(rows') = Len(rows)
    BY <1>4, <2>1, LenProperties
  <2>3. \A i \in 1..Len(rows) : Says(rows[i], rows'[i].status) /\ Counts(rows[i], rows'[i].filled)
    BY <1>5, <1>6 DEF RowTrue
  <2> QED BY <2>2, <2>3
<1>8. /\ Steady /\ BookTrue' /\ RowsTrue'
      /\ (\A i \in 1..Len(rows) : Tells(rows[i], rows'[i].status, rows'[i].filled)) => RowsTell'
  BY <1>2, <1>6, <1>7, TableRewritten
<1>9. PICK z : z = Idle
  OBVIOUS
<1>10. Clear(r, z)' /\ Quiet(z)' /\ z.op = "idle"
  BY <1>9 DEF Idle, Clear, DraftsTrue, SyncTrue, CancelTrue, TaskTells, Quiet
<1>11. CASE ~(r = Batch /\ q.full /\ Alone(r) /\ rows = was)
  <2>0. settled' => settled
    BY <1>2, <1>11
  <2>1. ASSUME phase = 2, settled, NEW i \in 1..Len(rows) PROVE Tells(rows[i], rows'[i].status, rows'[i].filled)
    <3>1. Tells(rows[i], rows[i].status, rows[i].filled)
      BY <2>1 DEF TruthInv, SettledTrue, RowsTell
    <3>2. CASE ~Early(rows[i])
      BY <3>2 DEF Tells
    <3>3. CASE Early(rows[i])
      <4>1. i \in DOMAIN was => new[i].status = was[i].status /\ new[i].filled = was[i].filled
        BY <1>1, <1>2, <1>3, <1>4, <2>1, <3>3 DEF Quiet
      <4>2. rows'[i].status = rows[i].status /\ rows'[i].filled = rows[i].filled
        BY <1>6, <4>1
      <4> QED BY <3>1, <4>2
    <3> QED BY <3>2, <3>3
  <2>2. phase = 2 /\ settled => RowsTell'
    BY <1>8, <2>1
  <2> QED BY <1>0, <1>2, <1>8, <1>9, <1>10, <2>0, <2>2, TruthOneStep
<1>12. CASE r = Batch /\ q.full /\ Alone(r) /\ rows = was
  <2>1. r = Batch /\ q.full /\ Alone(r) /\ rows = was /\ phase = 2
    BY <1>2, <1>3, <1>12 DEF Clear, TaskTells
  <2>2. ASSUME NEW i \in 1..Len(rows) PROVE Tells(rows[i], rows'[i].status, rows'[i].filled)
    <3>1. Tells(rows[i], new[i].status, new[i].filled)
      BY <1>1, <1>2, <1>3, <2>1 DEF Clear, TaskTells
    <3>2. rows'[i] = Written(rows[i], was[i], new[i]) /\ rows[i] = was[i] /\ rows[i] \in RowSet
      BY <1>2, <1>4, <1>5, <2>1
    <3>3. rows'[i].status = new[i].status /\ rows'[i].filled = new[i].filled
      BY <3>2 DEF Written, RowSet
    <3> QED BY <3>1, <3>3
  <2>3. RowsTell'
    BY <1>8, <2>2
  <2>4. RequestsTrue'
    BY <1>0, <1>2, <1>8, <1>9, <1>10, OthersClear
  <2>5. ASSUME NEW x \in Request PROVE Quiet(req[x])'
    <3>1. req'[x].op \in {"idle", "done"}
      BY <1>0, <1>2, <1>9, <1>10, <2>1 DEF TruthInv, OrdersInv, RequestsOk, Alone
    <3> QED BY <3>1 DEF Quiet
  <2>6. SettledTrue'
    BY <1>2, <2>1, <2>3, <2>5, Facts DEF SettledTrue, TruthInv
  <2> QED BY <1>8, <2>4, <2>6 DEF TruthInv
<1> QED BY <1>11, <1>12

-----------------------------------------------------------------------------
(* The broker and the cancels. *)

\* All requests stand still.
LEMMA AllRequestsClear ==
    ASSUME TruthInv, Steady, UNCHANGED req, req[Batch].op = "sync" /\ req[Batch].full => phase' = phase
    PROVE  RequestsTrue' /\ \A r \in Request : Quiet(req[r]) => Quiet(req[r])'
<1> SUFFICES ASSUME NEW r \in Request
             PROVE  Clear(r, req[r])' /\ (Quiet(req[r]) => Quiet(req[r])')
  BY DEF RequestsTrue
<1>1. PICK q : q = req[r]
  OBVIOUS
<1>2. Holds(r, q) /\ Clear(r, q)
  BY <1>1 DEF TruthInv, OrdersInv, RequestsOk, RequestsTrue
<1>3. r = Batch /\ q.op = "sync" /\ q.full => phase' = phase
  BY <1>1
<1>4. Clear(r, q)' /\ (Quiet(q) => Quiet(q)')
  BY <1>2, <1>3, ClearStays
<1> QED BY <1>1, <1>4 DEF Clear, DraftsTrue, SyncTrue, CancelTrue, TaskTells, Quiet

\* One order moves on.
LEMMA OrderMoves ==
    ASSUME TruthInv, UNCHANGED <<phase, rows>>, NEW n \in 1..Len(book), ~Ended(book[n]),
           NEW o \in OrderSet, OrderTrue(o), o.day = book[n].day, o.kind = book[n].kind, o.exec >= book[n].exec,
           book' = [book EXCEPT ![n] = o]
    PROVE  /\ Steady /\ BookTrue' /\ RowsTrue' /\ (phase = 2 /\ settled => RowsTell')
           /\ \A m \in 1..Len(book) : book'[m].day = book[m].day
<1>1. /\ DOMAIN book = 1..Len(book) /\ DOMAIN book' = DOMAIN book /\ book' = [m \in DOMAIN book' |-> book'[m]]
      /\ \A m \in 1..Len(book) : book'[m] = IF m = n THEN o ELSE book[m]
  BY Lengths DEF TruthInv
<1>2. Len(book') = Len(book)
  <2>1. \A m \in DOMAIN book : book'[m] \in OrderSet
    BY <1>1, Facts DEF TruthInv
  <2> QED BY <1>1, <2>1, Rewritten DEF TruthInv, OrdersInv, BookOk
<1>3. Steady
  <2>1. o.exec \in Nat
    BY DEF OrderSet
  <2> QED BY <1>1, <1>2, <2>1, Facts DEF TruthInv, Steady
<1>4. BookTrue'
  <2>1. ASSUME NEW m \in 1..Len(book') PROVE OrderTrue(book[m])'
    <3>1. PICK x : x = book'[m]
      OBVIOUS
    <3>2. OrderTrue(x)
      BY <1>1, <1>2, <3>1 DEF TruthInv, BookTrue
    <3> QED BY <3>1, <3>2 DEF OrderTrue, Ended, InSession
  <2> QED BY <2>1 DEF BookTrue
<1> QED BY <1>1, <1>3, <1>4, TableStands

\* An execution at the broker keeps it.
LEMMA ExecuteTells ==
    ASSUME TruthInv, OrdersInv', Execute
    PROVE  TruthInv'
<1>1. PICK n \in DOMAIN book :
          /\ book[n].state = "live"
          /\ book' = [book EXCEPT ![n].exec = @ + 1,
                                  ![n].state = IF book[n].exec + 1 = Qty THEN "over" ELSE @]
  BY DEF Execute
<1>2. PICK o : o = [book[n] EXCEPT !.exec = @ + 1, !.state = IF book[n].exec + 1 = Qty THEN "over" ELSE @]
  OBVIOUS
<1>3. n \in 1..Len(book) /\ book[n] \in OrderSet /\ book[n].exec \in Nat /\ OrderTrue(book[n]) /\ Qty \in Nat
  BY Facts, Lengths DEF TruthInv, BookTrue
<1>4. /\ o \in OrderSet /\ o.day = book[n].day /\ o.kind = book[n].kind /\ o.exec = book[n].exec + 1
      /\ o.state = IF o.exec = Qty THEN "over" ELSE "live"
  BY <1>1, <1>2, <1>3 DEF OrderSet
<1>5. ~Ended(book[n]) /\ InSession /\ book[n].exec <= Qty /\ book[n].exec # Qty
  BY <1>1, <1>3 DEF OrderTrue, Ended
<1>6. OrderTrue(o) /\ o.exec >= book[n].exec
  BY <1>1, <1>3, <1>4, <1>5 DEF OrderTrue, Ended
<1>7. book' = [book EXCEPT ![n] = o]
  BY <1>1, <1>2
<1>8. UNCHANGED <<phase, rows, req, settled>>
  BY DEF Execute
<1>9. Steady /\ BookTrue' /\ RowsTrue' /\ (phase = 2 /\ settled => RowsTell')
  BY <1>3, <1>4, <1>5, <1>6, <1>7, <1>8, OrderMoves
<1>10. RequestsTrue' /\ \A r \in Request : Quiet(req[r]) => Quiet(req[r])'
  BY <1>8, <1>9, AllRequestsClear
<1>11. SettledTrue'
  BY <1>8, <1>9, <1>10 DEF TruthInv, SettledTrue
<1> QED BY <1>9, <1>10, <1>11 DEF TruthInv

\* A phase of the day keeps it.
LEMMA NextPhaseTells ==
    ASSUME TruthInv, OrdersInv', NextPhase
    PROVE  TruthInv'
<1>1. /\ phase \in Nat /\ phase' = phase + 1 /\ phase \in 0..4 /\ phase' \in 0..4
      /\ (phase = 2 => req[Batch].op # "sync") /\ UNCHANGED <<rows, req, settled>>
  BY DEF NextPhase, TruthInv, OrdersInv, BookOk
<1>2. /\ DOMAIN book' = DOMAIN book /\ DOMAIN book = 1..Len(book) /\ Len(book) \in Nat
      /\ DOMAIN book' = 1..Len(book')  /\ Len(book') \in Nat
  BY Lengths, LenProperties DEF NextPhase, TruthInv, OrdersInv, BookOk
<1>3. Len(book') = Len(book)
  BY <1>2
<1>4. ASSUME NEW n \in 1..Len(book)
      PROVE  /\ book'[n].day = book[n].day /\ book'[n].kind = book[n].kind
             /\ book'[n].exec \in Nat /\ book'[n].exec = book[n].exec
             /\ Ended(book[n]) => book'[n] = book[n]
             /\ OrderTrue(book[n])'
  <2>1. PICK o, x : o = book[n] /\ x = book'[n]
    OBVIOUS
  <2>2. o \in OrderSet /\ OrderTrue(o) /\ o.exec \in Nat
    BY <2>1, Facts DEF TruthInv, BookTrue
  <2>3. \/ /\ o.state = "waiting" /\ InSession' /\ o.day = SessionOf(phase') /\ x = [o EXCEPT !.state = "live"]
        \/ o.state = "live" /\ ~InSession' /\ x = [o EXCEPT !.state = "over"]
        \/ /\ x = o /\ ~(o.state = "waiting" /\ InSession' /\ o.day = SessionOf(phase'))
           /\ ~(o.state = "live" /\ ~InSession')
    BY <1>2, <2>1 DEF NextPhase
  <2>4. /\ x.day = o.day /\ x.kind = o.kind /\ x.exec = o.exec /\ (Ended(o) => x = o)
    BY <2>2, <2>3 DEF OrderSet, Ended
  <2>5. phase = 0 => InSession' /\ SessionOf(phase') = 1
    BY <1>1 DEF InSession, SessionOf
  <2>6. OrderTrue(x)'
    BY <1>1, <2>2, <2>3, <2>5 DEF OrderSet, OrderTrue, Ended, InSession
  <2>7. OrderTrue(book[n])'
    BY <2>1, <2>6 DEF OrderTrue, Ended, InSession
  <2> QED BY <2>1, <2>2, <2>4, <2>7
<1>5. Steady
  BY <1>1, <1>2, <1>3, <1>4, Facts DEF TruthInv, Steady
<1>6. BookTrue'
  BY <1>3, <1>4 DEF BookTrue
<1>7. RowsTrue'
  BY <1>1, <1>5, TableStands
<1>8. RequestsTrue'
  <2>1. ASSUME req[Batch].op = "sync", req[Batch].full PROVE phase = 2
    BY <2>1 DEF TruthInv, RequestsTrue, Clear, TaskTells, Request
  <2> QED BY <1>1, <1>5, <2>1, AllRequestsClear
<1>9. SettledTrue'
  BY <1>1 DEF TruthInv, SettledTrue
<1> QED BY <1>6, <1>7, <1>8, <1>9 DEF TruthInv

\* What a cancel works with.
LEMMA CancelHolds ==
    ASSUME TruthInv, NEW r \in Canceller, req[r].op \in {"withdraw", "cancel"}
    PROVE  /\ r \in Request /\ Holds(r, req[r]) /\ Clear(r, req[r]) /\ Cancelling(req[r])
           /\ phase = 2 /\ settled => Quiet(req[r])
<1>1. r \in Request
  BY DEF Request
<1>2. Holds(r, req[r]) /\ Clear(r, req[r]) /\ (phase = 2 /\ settled => Quiet(req[r]))
  BY <1>1 DEF TruthInv, OrdersInv, RequestsOk, RequestsTrue, SettledTrue
<1>3. Cancelling(req[r])
  BY <1>2 DEF Holds, Idle, Done, Reserving, Trading, Syncing
<1> QED BY <1>1, <1>2, <1>3

\* A request that is done holds nothing that could be wrong.
LEMMA DoneIsClear == \A r : Clear(r, Done)' /\ Quiet(Done)'
  BY DEF Done, Clear, DraftsTrue, SyncTrue, CancelTrue, TaskTells, Quiet

\* The cancellation of a reservation keeps it.
LEMMA CancelReservedTells ==
    ASSUME TruthInv, OrdersInv', NEW r \in Canceller, CancelReserved(r)
    PROVE  TruthInv'
<1>0. r \in Request /\ UNCHANGED <<phase, rows, settled>>
  BY DEF Request, CancelReserved
<1>1. PICK i \in DOMAIN rows :
        /\ rows[i].mode = "reserve" /\ rows[i].status \in {"reserved", "partial"}
        /\ book[rows[i].no].state = "waiting" /\ book' = Cancelled(rows[i].no)
        /\ \/ req' = [req EXCEPT ![r] = [op |-> "cancel", row |-> i, filled |-> {}]]
           \/ req' = [req EXCEPT ![r] = Done]
  BY DEF CancelReserved
<1>2. PICK n, o : n = rows[i].no /\ o = [book[n] EXCEPT !.state = "cancelled"]
  OBVIOUS
<1>3. /\ i \in 1..Len(rows) /\ n # 0 /\ n \in 1..Len(book) /\ book[n].kind = "reserve"
      /\ book[n] \in OrderSet /\ OrderTrue(book[n]) /\ Qty \in Nat \ {0} /\ book[n].exec \in Nat
  BY <1>1, <1>2, Facts, Lengths DEF TruthInv, OrdersInv, RowsOk, Tied, BookTrue
<1>4. /\ o \in OrderSet /\ o.day = book[n].day /\ o.kind = book[n].kind /\ o.exec = book[n].exec
      /\ o.state = "cancelled"
  BY <1>2, <1>3 DEF OrderSet
<1>5. ~Ended(book[n]) /\ o.exec = 0 /\ (book[n].day = 1 => phase = 0)
  BY <1>1, <1>2, <1>3, <1>4 DEF OrderTrue, Ended
<1>6. OrderTrue(o) /\ o.exec >= book[n].exec
  BY <1>3, <1>4, <1>5 DEF OrderTrue, Ended
<1>7. book' = [book EXCEPT ![n] = o]
  BY <1>1, <1>2 DEF Cancelled
<1>8. /\ Steady /\ BookTrue' /\ RowsTrue' /\ (phase = 2 /\ settled => RowsTell')
      /\ \A m \in 1..Len(book) : book'[m].day = book[m].day
  BY <1>0, <1>3, <1>4, <1>5, <1>6, <1>7, OrderMoves
<1>9. CASE req' = [req EXCEPT ![r] = Done]
  <2>1. PICK q : q = Done
    OBVIOUS
  <2>2. Clear(r, q)' /\ Quiet(q)'
    BY <2>1, DoneIsClear DEF Clear, DraftsTrue, SyncTrue, CancelTrue, TaskTells, Quiet
  <2> QED BY <1>0, <1>8, <1>9, <2>1, <2>2, TruthOneStep
<1>10. CASE req' = [req EXCEPT ![r] = [op |-> "cancel", row |-> i, filled |-> {}]]
  <2>1. PICK q : q = [op |-> "cancel", row |-> i, filled |-> {}]
    OBVIOUS
  <2>2. q.op = "cancel" /\ q.row = i /\ q.filled = {} /\ req' = [req EXCEPT ![r] = q]
    BY <1>10, <2>1
  <2>3. Clear(r, q)'
    BY <2>2 DEF Clear, DraftsTrue, SyncTrue, CancelTrue, TaskTells
  <2>4. phase = 2 => Quiet(q)'
    BY <1>0, <1>2, <1>3, <1>5, <1>8, <2>2 DEF Quiet, Early
  <2> QED BY <1>0, <1>8, <2>2, <2>3, <2>4, TruthOneStep
<1> QED BY <1>1, <1>9, <1>10

\* The cancellation of an order at the broker keeps it.
LEMMA CancelAtBrokerTells ==
    ASSUME TruthInv, OrdersInv', NEW r \in Canceller, CancelAtBroker(r)
    PROVE  TruthInv'
<1>0. UNCHANGED <<phase, rows, settled>> /\ req[r].op = "withdraw"
  BY DEF CancelAtBroker
<1>1. PICK old, n, o : old = req[r] /\ n = rows[old.row].no /\ o = [book[n] EXCEPT !.state = "cancelled"]
  OBVIOUS
<1>2. /\ r \in Request /\ Holds(r, old) /\ Clear(r, old) /\ Cancelling(old) /\ old.op = "withdraw"
      /\ phase = 2 /\ settled => Quiet(old)
  BY <1>0, <1>1, CancelHolds
<1>3. CASE book[n].state # "live"
  <2>1. UNCHANGED book /\ req' = [req EXCEPT ![r] = Done]
    BY <1>1, <1>3 DEF CancelAtBroker
  <2>2. PICK q : q = Done
    OBVIOUS
  <2> QED BY <1>0, <1>2, <2>1, <2>2, NothingMoves DEF MovesOn
<1>4. CASE book[n].state = "live"
  <2>1. book' = Cancelled(n) /\ req' = [req EXCEPT ![r].op = "cancel"]
    BY <1>1, <1>4 DEF CancelAtBroker
  <2>2. PICK q : q = [old EXCEPT !.op = "cancel"]
    OBVIOUS
  <2>3. q.op = "cancel" /\ q.row = old.row /\ q.filled = old.filled /\ req' = [req EXCEPT ![r] = q]
    BY <1>1, <1>2, <2>1, <2>2 DEF Cancelling
  <2>4. /\ n # 0 /\ n \in 1..Len(book) /\ rows[old.row].mode = "manual" /\ book[n].kind = "manual"
        /\ book[n] \in OrderSet /\ OrderTrue(book[n]) /\ book[n].exec \in Nat
    BY <1>1, <1>2, Facts DEF TruthInv, OrdersInv, RowsOk, Tied, BookTrue, Cancelling, Clear, CancelTrue
  <2>5. /\ o \in OrderSet /\ o.day = book[n].day /\ o.kind = book[n].kind /\ o.exec = book[n].exec
        /\ o.state = "cancelled"
    BY <1>1, <2>4 DEF OrderSet
  <2>6. ~Ended(book[n]) /\ InSession
    BY <1>4, <2>4 DEF OrderTrue, Ended
  <2>7. OrderTrue(o) /\ o.exec >= book[n].exec
    BY <2>4, <2>5 DEF OrderTrue, Ended
  <2>8. book' = [book EXCEPT ![n] = o]
    BY <1>1, <2>1 DEF Cancelled
  <2>9. Steady /\ BookTrue' /\ RowsTrue' /\ (phase = 2 /\ settled => RowsTell')
    BY <1>0, <2>4, <2>5, <2>6, <2>7, <2>8, OrderMoves
  <2>10. Clear(r, old)'
    BY <1>0, <1>2, <2>9, ClearStays
  <2>11. Clear(r, q)'
    BY <1>2, <2>3, <2>10 DEF Clear, DraftsTrue, SyncTrue, CancelTrue, TaskTells
  <2>12. phase # 2
    BY <2>6 DEF InSession
  <2> QED BY <1>0, <1>2, <2>3, <2>9, <2>11, <2>12, TruthOneStep
<1> QED BY <1>3, <1>4

\* A cancellation that is stored keeps it.
LEMMA CommitCancelTells ==
    ASSUME TruthInv, OrdersInv', NEW r \in Canceller, CommitCancel(r)
    PROVE  TruthInv'
<1>0. /\ UNCHANGED <<phase, book, settled>> /\ req[r].op = "cancel" /\ req' = [req EXCEPT ![r] = Done]
  BY DEF CommitCancel
<1>1. PICK q, i, new : q = req[r] /\ i = q.row /\ new = q.filled
  OBVIOUS
<1>2. /\ r \in Request /\ Holds(r, q) /\ Clear(r, q) /\ Cancelling(q) /\ q.op = "cancel"
      /\ phase = 2 /\ settled => Quiet(q)
  BY <1>0, <1>1, CancelHolds
<1>3. PICK n : n = CHOOSE f \in new : TRUE
  OBVIOUS
<1>4. rows' = [rows EXCEPT ![i].status = "cancelled", ![i].filled = IF new = {} THEN @ ELSE n]
  BY <1>1, <1>3 DEF CommitCancel
<1>5. new # {} => n \in new
  BY <1>3, Zenon
<1>6. /\ i \in 1..Len(rows) /\ rows[i].no # 0 /\ book[rows[i].no].state = "cancelled" /\ new \subseteq Nat
      /\ \A f \in new : Counts(rows[i], f)
      /\ phase = 2 /\ settled => ~Early(rows[i])
  BY <1>1, <1>2 DEF Cancelling, Clear, CancelTrue, Quiet
<1>7. DOMAIN rows' = DOMAIN rows /\ rows' \in Seq(RowSet) /\ DOMAIN rows = 1..Len(rows)
  BY <1>4, Lengths DEF TruthInv, OrdersInv, RowsOk
<1>8. Len(rows') = Len(rows) /\ Len(rows) \in Nat
  BY <1>7, LenProperties, Facts DEF TruthInv
<1>9. ASSUME NEW j \in 1..Len(rows)
      PROVE  /\ rows'[j].no = rows[j].no /\ rows'[j].mode = rows[j].mode
             /\ Says(rows[j], rows'[j].status) /\ Counts(rows[j], rows'[j].filled)
             /\ phase = 2 /\ settled => Tells(rows[j], rows'[j].status, rows'[j].filled)
  <2>1. rows[j] \in RowSet /\ RowTrue(rows[j])
    BY DEF TruthInv, OrdersInv, RowsOk, Tied, RowsTrue
  <2>2. CASE j # i
    <3>1. rows'[j] = rows[j]
      BY <1>4, <1>7, <2>2
    <3>2. phase = 2 /\ settled => Tells(rows[j], rows[j].status, rows[j].filled)
      BY DEF TruthInv, SettledTrue, RowsTell
    <3> QED BY <2>1, <3>1, <3>2 DEF RowTrue
  <2>3. CASE j = i
    <3>1. PICK m : rows'[i] = [rows[i] EXCEPT !.status = "cancelled", !.filled = m] /\ (m = rows[i].filled \/ m \in new)
      BY <1>4, <1>5, <1>7, <2>1, <2>3 DEF RowSet
    <3>2. /\ rows'[i].status = "cancelled" /\ rows'[i].filled = m /\ rows'[i].no = rows[i].no
          /\ rows'[i].mode = rows[i].mode
      BY <2>1, <2>3, <3>1 DEF RowSet
    <3>3. Says(rows[i], "cancelled")
      BY <1>6 DEF Says
    <3>4. Counts(rows[i], m)
      BY <1>6, <2>1, <2>3, <3>1 DEF RowTrue
    <3>5. phase = 2 /\ settled => Tells(rows[i], "cancelled", m)
      BY DEF Tells
    <3> QED BY <2>3, <3>2, <3>3, <3>4, <3>5
  <2> QED BY <2>2, <2>3
<1>10. Steady /\ BookTrue' /\ RowsTrue' /\ (phase = 2 /\ settled => RowsTell')
  BY <1>0, <1>8, <1>9, TableRewritten
<1>11. PICK z : z = Done
  OBVIOUS
<1>12. Clear(r, z)' /\ Quiet(z)'
  BY <1>11, DoneIsClear DEF Clear, DraftsTrue, SyncTrue, CancelTrue, TaskTells, Quiet
<1> QED BY <1>0, <1>2, <1>10, <1>11, <1>12, TruthOneStep

\* The cancellation of a manual order keeps it.
LEMMA CancelRegularTells ==
    ASSUME TruthInv, OrdersInv', NEW r \in Canceller, CancelRegular(r)
    PROVE  TruthInv'
<1>0. r \in Request /\ UNCHANGED <<phase, book, settled>>
  BY DEF Request, CancelRegular
<1>1. PICK i \in DOMAIN rows :
        LET row == SyncRegular(rows[i], phase) IN
        /\ rows[i].mode = "manual" /\ rows[i].status \in {"submitted", "partial"}
        /\ rows' = IF row.status # rows[i].status THEN [rows EXCEPT ![i] = row] ELSE rows
        /\ req' = [req EXCEPT ![r] = IF row.status \in {"submitted", "partial"}
                     THEN [op |-> "withdraw", row |-> i,
                           filled |-> IF row.status = rows[i].status /\ row.filled # rows[i].filled
                                      THEN {row.filled} ELSE {}] ELSE Done]
  BY DEF CancelRegular
<1>2. PICK row : row = SyncRegular(rows[i], phase)
  OBVIOUS
<1>3. i \in 1..Len(rows) /\ Tied(rows[i]) /\ RowTrue(rows[i]) /\ rows[i] \in RowSet
  BY Lengths DEF TruthInv, OrdersInv, RowsOk, RowsTrue, Tied
<1>4. /\ Says(rows[i], row.status) /\ Counts(rows[i], row.filled)
      /\ phase = 2 /\ Early(rows[i]) /\ Tells(rows[i], rows[i].status, rows[i].filled) =>
            row.status = rows[i].status /\ row.filled = rows[i].filled
      /\ row.no = rows[i].no /\ row.mode = rows[i].mode
  BY <1>1, <1>2, <1>3, RegularSays
<1>5. /\ rows' = IF row.status # rows[i].status THEN [rows EXCEPT ![i] = row] ELSE rows
      /\ rows[i].mode = "manual"
  BY <1>1, <1>2
<1>6. PICK q, tally : /\ req' = [req EXCEPT ![r] = q] /\ tally \in {{row.filled}, {}}
                      /\ q = [op |-> "withdraw", row |-> i, filled |-> tally] \/ q = Done
  BY <1>1, <1>2
<1>7. DOMAIN rows' = DOMAIN rows /\ rows' \in Seq(RowSet) /\ DOMAIN rows = 1..Len(rows)
  BY <1>5, Lengths DEF TruthInv, OrdersInv, RowsOk
<1>8. Len(rows') = Len(rows) /\ Len(rows) \in Nat
  BY <1>7, LenProperties, Facts DEF TruthInv
<1>9. ASSUME NEW j \in 1..Len(rows)
      PROVE  /\ rows'[j].no = rows[j].no /\ rows'[j].mode = rows[j].mode
             /\ Says(rows[j], rows'[j].status) /\ Counts(rows[j], rows'[j].filled)
             /\ phase = 2 /\ settled => Tells(rows[j], rows'[j].status, rows'[j].filled)
  <2>1. RowTrue(rows[j]) /\ (phase = 2 /\ settled => Tells(rows[j], rows[j].status, rows[j].filled))
    BY DEF TruthInv, RowsTrue, SettledTrue, RowsTell
  <2>2. CASE rows'[j] = rows[j]
    BY <2>1, <2>2 DEF RowTrue
  <2>3. CASE j = i /\ rows'[j] = row
    <3>1. phase = 2 /\ settled => Tells(rows[i], row.status, row.filled)
      <4>1. CASE Early(rows[i])
        BY <1>4, <2>1, <2>3, <4>1
      <4>2. CASE ~Early(rows[i])
        BY <4>2 DEF Tells
      <4> QED BY <4>1, <4>2
    <3> QED BY <1>4, <2>3, <3>1
  <2> QED BY <1>5, <1>7, <2>2, <2>3
<1>10. Steady /\ BookTrue' /\ RowsTrue' /\ (phase = 2 /\ settled => RowsTell')
  BY <1>0, <1>8, <1>9, TableRewritten
<1>11. CASE q = Done
  <2>1. Clear(r, q)' /\ Quiet(q)'
    BY <1>11, DoneIsClear DEF Clear, DraftsTrue, SyncTrue, CancelTrue, TaskTells, Quiet
  <2> QED BY <1>0, <1>6, <1>10, <2>1, TruthOneStep
<1>12. CASE q = [op |-> "withdraw", row |-> i, filled |-> tally]
  <2>1. q.op = "withdraw" /\ q.row = i /\ q.filled = tally
    BY <1>12
  <2>2. \A f \in tally : Counts(rows[i], f)
    BY <1>4, <1>6
  <2>3. rows'[i].no = rows[i].no /\ rows'[i].mode = rows[i].mode
    BY <1>3, <1>9
  <2>4. \A f \in tally : Counts(rows[i], f)'
    BY <1>0, <2>2, <2>3 DEF Counts, Early
  <2>5. Clear(r, q)' /\ Quiet(q)'
    BY <1>5, <2>1, <2>3, <2>4 DEF Clear, DraftsTrue, SyncTrue, CancelTrue, TaskTells, Quiet
  <2> QED BY <1>0, <1>6, <1>10, <2>5, TruthOneStep
<1> QED BY <1>6, <1>11, <1>12

-----------------------------------------------------------------------------
(* All steps. *)

\* It holds at the start.
LEMMA TruthStart == OrdersInit => TruthInv
<1> SUFFICES ASSUME OrdersInit PROVE TruthInv
  OBVIOUS
<1>1. /\ rows = <<>> /\ book = <<>> /\ settled = FALSE /\ Len(rows) = 0 /\ Len(book) = 0
  BY DEF OrdersInit
<1>2. PICK cast \in Casts : req = [r \in Request |-> IF r \in cast THEN Idle ELSE Done]
  BY DEF OrdersInit
<1>3. \A r \in Request : req[r].op \in {"idle", "done"}
  BY <1>2 DEF Idle, Done
<1>4. BookTrue /\ RowsTrue /\ SettledTrue
  BY <1>1 DEF BookTrue, RowsTrue, SettledTrue
<1>5. RequestsTrue
  BY <1>3 DEF RequestsTrue, Clear, DraftsTrue, SyncTrue, CancelTrue, TaskTells
<1> QED BY <1>4, <1>5, OrdersStart DEF TruthInv

\* Every step keeps it.
LEMMA TruthStep == TruthInv /\ [OrdersNext]_ordersVars => TruthInv'
<1> SUFFICES ASSUME TruthInv, [OrdersNext]_ordersVars PROVE TruthInv'
  OBVIOUS
<1>0. OrdersInv'
  BY OrdersStep DEF TruthInv
<1>1. CASE NextPhase \/ Execute
  BY <1>0, <1>1, NextPhaseTells, ExecuteTells
<1>2. ASSUME NEW r \in Maker, BeginReserve(r) \/ Ask(r) \/ Flush(r) \/ CommitReserve(r) PROVE TruthInv'
  <2>1. CASE CommitReserve(r)
    BY <1>0, <2>1, DraftTells DEF CommitReserve, Request
  <2> QED BY <1>0, <1>2, <2>1, ReserveTells, AskTells
<1>3. ASSUME NEW r \in Trader, PlaceManual(r) \/ CommitManual(r) PROVE TruthInv'
  <2>1. CASE CommitManual(r)
    BY <1>0, <2>1, DraftTells DEF CommitManual, Request
  <2> QED BY <1>0, <1>3, <2>1, PlaceTells
<1>4. ASSUME NEW r \in Maker \union Trader, Die(r) PROVE TruthInv'
  <2>1. r \in Request
    BY DEF Request
  <2> QED BY <1>0, <1>4, <2>1, DieTells
<1>5. ASSUME NEW r \in Canceller,
             CancelReserved(r) \/ CancelRegular(r) \/ CancelAtBroker(r) \/ CommitCancel(r)
      PROVE  TruthInv'
  BY <1>0, <1>5, CancelReservedTells, CancelRegularTells, CancelAtBrokerTells, CommitCancelTells
<1>6. ASSUME NEW r \in Screen \union {Batch}, BeginSync(r) \/ CommitSync(r) PROVE TruthInv'
  BY <1>0, <1>6, BeginSyncTells, CommitSyncTells
<1>7. CASE UNCHANGED ordersVars
  <2>1. UNCHANGED <<phase, rows, book, req, settled>>
    BY <1>7 DEF ordersVars
  <2>2. Steady /\ BookTrue' /\ RowsTrue' /\ (phase = 2 /\ settled => RowsTell')
    BY <2>1, AllStands
  <2>3. RequestsTrue' /\ \A r \in Request : Quiet(req[r]) => Quiet(req[r])'
    BY <2>1, <2>2, AllRequestsClear
  <2>4. SettledTrue'
    BY <2>1, <2>2, <2>3 DEF TruthInv, SettledTrue
  <2> QED BY <1>0, <2>2, <2>3, <2>4 DEF TruthInv
<1> QED BY <1>1, <1>2, <1>3, <1>4, <1>5, <1>6, <1>7 DEF OrdersNext

\* It gives the property.
LEMMA TruthMeans == TruthInv => FinalStatusTrue
<1> SUFFICES ASSUME TruthInv, NEW i \in DOMAIN rows, NEW o, o = book[rows[i].no],
                    rows[i].no # 0, o.day = 1, phase <= 2
             PROVE  /\ CASE rows[i].status = "filled"    -> o.exec = Qty
                         [] rows[i].status = "unfilled"  -> o.exec = 0 /\ o.state \in {"over", "cancelled"}
                         [] rows[i].status = "cancelled" -> o.state = "cancelled" \/ o.exec = Qty
                         [] OTHER -> TRUE
                    /\ settled /\ phase = 2 /\ rows[i].status # "cancelled" =>
                         /\ rows[i].status = "filled" \/ rows[i].filled = o.exec
                         /\ rows[i].status = (IF o.exec = Qty THEN "filled" ELSE IF o.exec > 0 THEN "partial"
                                              ELSE IF o.state = "cancelled" /\ o.kind = "reserve" THEN "cancelled"
                                              ELSE "unfilled")
  BY DEF FinalStatusTrue
<1>1. /\ i \in 1..Len(rows) /\ RowTrue(rows[i]) /\ Early(rows[i])
      /\ settled /\ phase = 2 => Tells(rows[i], rows[i].status, rows[i].filled)
  BY Lengths DEF TruthInv, RowsTrue, Early, SettledTrue, RowsTell
<1>2. /\ rows[i].status = "filled" => o.exec = Qty
      /\ rows[i].status = "unfilled" => o.exec = 0 /\ o.state \in {"over", "cancelled"}
      /\ rows[i].status = "cancelled" => o.state = "cancelled"
  BY <1>1 DEF RowTrue, Says
<1>3. CASE rows[i].status = "filled"
  BY <1>1, <1>2, <1>3 DEF Tells
<1>4. CASE rows[i].status = "unfilled"
  BY <1>1, <1>2, <1>4 DEF Tells
<1>5. CASE rows[i].status = "cancelled"
  BY <1>1, <1>2, <1>5 DEF Tells
<1>6. CASE rows[i].status \notin {"filled", "unfilled", "cancelled"}
  BY <1>1, <1>2, <1>6 DEF Tells
<1> QED BY <1>3, <1>4, <1>5, <1>6

\* A final status never lies, whichever sync or cancel wrote it last, and after the task's
\* full look each row tells what became of its order, for any number of requests, screens,
\* lines, orders and shares (sync_orders and the cancels of broker.py, sync_auto_orders of
\* autoexec.py).
THEOREM StatusesAreTrue == OrdersSpec => []FinalStatusTrue
<1>1. OrdersSpec => []TruthInv
  BY TruthStart, TruthStep, PTL DEF OrdersSpec
<1> QED BY <1>1, TruthMeans, PTL

Stage == {"idle", "computed", "noted", "read"}

SheetTypes ==
    /\ market \in {"KR", "US"} /\ clock \in Nat /\ bars \in 0..LastDay /\ ran \in Nat
    /\ DOMAIN plans = Days /\ DOMAIN sent = Days
    /\ pc \in [Requests -> Stage]
    /\ DOMAIN started = Requests /\ DOMAIN sheet = Requests /\ DOMAIN read = Requests

\* A bar is stored after its session; the executor has run on days that have begun.
InTime == /\ SessionOver(bars)
          /\ 3 * ran <= clock

\* What a request in flight holds.
Held(r) ==
    pc[r] # "idle" =>
       /\ sheet[r].base \in 0..bars /\ sheet[r].made = TRUE /\ sheet[r].frozen = (r = Executor)
       /\ started[r].sent = TRUE => sent[Target(r)].made = TRUE
       /\ started[r].at \in 0..clock /\ OverAt(sheet[r].base, started[r].at)

\* Without the note, the session of the sheet was not over when the request began.
NoteTrue(r) ==
    pc[r] \in {"noted", "read"} /\ ~started[r].late => ~OverAt(Target(r), started[r].at)

\* A row was computed for its day, from bars that were stored.
RowsDated ==
    \A d \in Days : plans[d].made => plans[d].base \in 0..bars /\ NextExecDay(plans[d].base) = d

\* The frozen row of a day is the sheet that was sent.
RowIsSent ==
    \A d \in Days : sent[d].made = TRUE =>
       /\ sent[d].frozen = TRUE /\ d <= ran
       /\ d \notin unfrozen => plans[d] = sent[d]

\* The executor freezes the sheet of an earlier day again, never the one of the day.
NoSecondFreeze ==
    pc[Executor] # "idle" =>
       /\ market = "KR"
       /\ Target(Executor) <= ran
       /\ sent[Target(Executor)].made = TRUE => Target(Executor) < ran

ReadAsSent ==
    \A r \in Screens :
       pc[r] = "read" /\ started[r].sent = TRUE /\ Target(r) >= Today /\ Target(r) \notin unfrozen =>
          read[r] = sent[Target(r)]

SheetInv == /\ SheetTypes /\ InTime /\ RowIsSent /\ NoSecondFreeze /\ ReadAsSent /\ RowsDated
            /\ \A r \in Requests : Held(r) /\ NoteTrue(r)

-----------------------------------------------------------------------------
(* The execution day. *)

\* The day of a moment.
LEMMA DayOfMoment ==
    ASSUME NEW x \in Nat
    PROVE  /\ x \div 3 \in Nat /\ 3 * (x \div 3) <= x /\ x < 3 * (x \div 3) + 3
           /\ x % 3 = 1 => x = 3 * (x \div 3) + 1
           /\ x % 3 < 2 => x < 3 * (x \div 3) + 2
OBVIOUS

\* A later time is of no earlier day.
LEMMA DayGrows ==
    ASSUME NEW x \in Nat, NEW y \in Nat, x <= y
    PROVE  x \div 3 <= y \div 3
OBVIOUS

\* The execution day of a sheet exists, and is the first open day after its last bar.
LEMMA ExecDay ==
    ASSUME NEW b \in 0..LastDay
    PROVE  /\ NextExecDay(b) \in Days /\ NextExecDay(b) > b /\ ~Shut(NextExecDay(b))
           /\ \A e \in Days : e > b /\ ~Shut(e) => NextExecDay(b) <= e
<1> DEFINE Open == {e \in Days : e > b /\ ~Shut(e)}
<1>1. LastDay \in Nat /\ Days \subseteq Nat
  BY SheetAssumption DEF SheetAssumption, Days
<1>2. LastDay + 1 \in Open
  BY <1>1, SheetAssumption DEF SheetAssumption, Days, Shut
<1>3. PICK n \in Open : \A e \in Open : n <= e
  BY <1>1, <1>2, LeastNumber
<1>4. \A f \in Days : f > b /\ f < n => Shut(f)
  BY <1>1, <1>3
<1>5. /\ NextExecDay(b) \in Days /\ NextExecDay(b) > b /\ ~Shut(NextExecDay(b))
      /\ \A f \in Days : f > b /\ f < NextExecDay(b) => Shut(f)
  BY <1>3, <1>4 DEF NextExecDay
<1>6. ASSUME NEW e \in Days, e > b, ~Shut(e) PROVE NextExecDay(b) <= e
  <2>1. NextExecDay(b) \in Nat /\ e \in Nat
    BY <1>1, <1>5
  <2>2. ~(e < NextExecDay(b))
    BY <1>5, <1>6
  <2> QED BY <2>1, <2>2
<1> QED BY <1>5, <1>6

\* What is held in flight has an execution day.
LEMMA TargetIsDay ==
    ASSUME SheetInv, NEW r \in Requests, pc[r] # "idle"
    PROVE  Target(r) \in Days /\ Target(r) \in Nat
<1>1. sheet[r].base \in 0..LastDay
  BY SheetAssumption DEF SheetInv, SheetTypes, Held, SheetAssumption
<1>2. Days \subseteq Nat
  BY SheetAssumption DEF SheetAssumption, Days
<1> QED BY <1>1, <1>2, ExecDay DEF Target

-----------------------------------------------------------------------------
(* Every step keeps the invariant. *)

\* The clock, the bars and a plan registered keep the invariant of the sheet.
LEMMA WorldKeeps ==
    ASSUME SheetInv, Tick \/ Ingest \/ Register \/ UNCHANGED sheetVars
    PROVE  SheetInv'
<1>1. /\ UNCHANGED <<market, plans, pc, started, sheet, read, ran, sent, unfrozen>>
      /\ clock' \in Nat /\ clock' >= clock /\ bars' \in 0..LastDay /\ bars' >= bars
      /\ OverAt(bars, clock)' /\ clock \in Nat
  BY SheetAssumption, SMTT(30)
     DEF SheetInv, SheetTypes, InTime, Tick, Ingest, Register, SessionOver, OverAt, request, sheetVars, SheetAssumption
<1>2. \A r \in Requests : Target(r)' = Target(r)
  BY <1>1 DEF Target, NextExecDay, Shut
<1>3. Today' >= Today /\ Today \in Nat /\ Today' \in Nat
  BY <1>1, DayOfMoment, DayGrows DEF SheetInv, SheetTypes, Today
<1>4. SheetTypes' /\ InTime'
  <2>1. SheetTypes'
    BY <1>1 DEF SheetInv, SheetTypes
  <2>2. clock \in Nat /\ clock' \in Nat /\ clock' >= clock /\ ran \in Nat /\ ran' = ran /\ 3 * ran <= clock
    BY <1>1 DEF SheetInv, SheetTypes, InTime
  <2>3. 3 * ran' <= clock'
    BY <2>2
  <2> QED BY <1>1, <2>1, <2>3 DEF InTime, SessionOver
<1>5. RowIsSent'
  BY <1>1 DEF SheetInv, RowIsSent
<1>6. NoSecondFreeze'
  BY <1>1, <1>2 DEF SheetInv, NoSecondFreeze, Requests
<1>7. ReadAsSent'
  <2> SUFFICES ASSUME NEW r \in Screens, pc[r] = "read", started[r].sent = TRUE, Target(r) >= Today',
                      Target(r) \notin unfrozen
               PROVE  read[r] = sent[Target(r)]
    BY <1>1, <1>2 DEF ReadAsSent, Requests
  <2>1. r \in Requests /\ pc[r] # "idle"
    BY DEF Requests
  <2>2. Target(r) >= Today
    BY <1>3, <2>1, TargetIsDay
  <2> QED BY <2>2 DEF SheetInv, ReadAsSent
<1>8. ASSUME NEW r \in Requests PROVE Held(r)' /\ NoteTrue(r)'
  <2>1. Held(r) /\ NoteTrue(r) /\ Target(r)' = Target(r)
    BY <1>2 DEF SheetInv
  <2>2. Held(r)'
    BY <1>1, <2>1 DEF Held, SheetInv, SheetTypes, OverAt
  <2>3. NoteTrue(r)'
    BY <1>1, <2>1 DEF NoteTrue, OverAt
  <2> QED BY <2>2, <2>3
<1>9. RowsDated'
  <2>1. \A b : NextExecDay(b)' = NextExecDay(b)
    BY <1>1 DEF NextExecDay, Shut
  <2> QED BY <1>1, <2>1 DEF SheetInv, SheetTypes, RowsDated
<1> QED BY <1>4, <1>5, <1>6, <1>7, <1>8, <1>9 DEF SheetInv

\* A sheet computed keeps it.
LEMMA ComputeKeeps ==
    ASSUME SheetInv, NEW r \in Requests, Compute(r)
    PROVE  SheetInv'
<1> DEFINE n == NextExecDay(bars)
<1>1. n \in Days /\ n \in Nat /\ n > bars /\ \A e \in Days : e > bars /\ ~Shut(e) => n <= e
  BY ExecDay, SheetAssumption DEF SheetInv, SheetTypes, SheetAssumption, Days
<1>2. /\ UNCHANGED <<market, clock, bars, plans, read, sent, unfrozen>>
      /\ pc[r] = "idle" /\ pc' = [pc EXCEPT ![r] = "computed"]
      /\ started' = [started EXCEPT ![r] = [at |-> clock, sent |-> sent[n].made, late |-> FALSE]]
      /\ \E seen : sheet' = [sheet EXCEPT ![r] = [base |-> bars, seen |-> seen, frozen |-> r = Executor, made |-> TRUE]]
  BY DEF Compute
<1>3. /\ ran' \in Nat /\ 3 * ran' <= clock /\ clock \in Nat /\ OverAt(bars, clock)
      /\ r = Executor => /\ market = "KR" /\ ~Shut(Today) /\ clock % 3 = 1 /\ ran < Today /\ ran' = Today
      /\ r # Executor => ran' = ran
  BY DEF Compute, Today, SheetInv, SheetTypes, InTime, SessionOver
<1>4. SheetTypes' /\ InTime'
  BY <1>2, <1>3 DEF SheetInv, SheetTypes, InTime, Stage, SessionOver, OverAt
<1>5. ran <= ran'
  BY <1>3 DEF SheetInv, SheetTypes, Today
<1>6. RowIsSent'
  BY <1>2, <1>3, <1>5, SheetAssumption DEF SheetInv, SheetTypes, RowIsSent, Days, SheetAssumption
<1>7. /\ Target(r)' = n /\ started'[r].sent = sent[n].made /\ started'[r].at = clock
      /\ sheet'[r].base = bars /\ sheet'[r].made = TRUE /\ sheet'[r].frozen = (r = Executor)
  BY <1>2 DEF Target, NextExecDay, Shut, SheetInv, SheetTypes
<1>8. \A q \in Requests : q # r => /\ Target(q)' = Target(q) /\ pc'[q] = pc[q]
                                   /\ started'[q] = started[q] /\ sheet'[q] = sheet[q]
  BY <1>2 DEF Target, NextExecDay, Shut, SheetInv, SheetTypes
<1>9. \A q \in Requests : Held(q)' /\ NoteTrue(q)'
  <2>1. Held(r)' /\ NoteTrue(r)'
    <3>1. pc'[r] = "computed"
      BY <1>2 DEF SheetInv, SheetTypes
    <3> QED BY <1>2, <1>3, <1>7, <3>1 DEF Held, NoteTrue, SheetInv, SheetTypes, OverAt
  <2>2. ASSUME NEW q \in Requests, q # r PROVE Held(q)' /\ NoteTrue(q)'
    <3>1. Held(q) /\ NoteTrue(q)
      BY DEF SheetInv
    <3>2. Held(q)'
      BY <1>2, <1>8, <2>2, <3>1 DEF Held, OverAt
    <3>3. NoteTrue(q)'
      BY <1>2, <1>8, <2>2, <3>1 DEF NoteTrue, OverAt
    <3> QED BY <3>2, <3>3
  <2> QED BY <2>1, <2>2
<1>10. NoSecondFreeze'
  <2>1. CASE r = Executor
    <3>1. Today > bars /\ Today \in Nat
      BY <1>3, <2>1 DEF SheetInv, SheetTypes, OverAt, Today
    <3>2. n <= Today
      <4>1. CASE Today \in Days
        BY <1>1, <1>3, <2>1, <3>1, <4>1
      <4>2. CASE Today \notin Days
        BY <1>1, <3>1, <4>2, SheetAssumption DEF Days, SheetAssumption, SheetInv, SheetTypes
      <4> QED BY <4>1, <4>2
    <3>3. sent[n].made = TRUE => n <= ran
      BY <1>1 DEF SheetInv, RowIsSent
    <3> QED BY <1>1, <1>2, <1>3, <1>7, <2>1, <3>1, <3>2, <3>3 DEF NoSecondFreeze, SheetInv, SheetTypes
  <2>2. CASE r # Executor
    BY <1>2, <1>3, <1>8, <2>2 DEF NoSecondFreeze, SheetInv, Requests
  <2> QED BY <2>1, <2>2
<1>11. ReadAsSent'
  <2> SUFFICES ASSUME NEW q \in Screens, pc'[q] = "read", started'[q].sent = TRUE, Target(q)' >= Today,
                      Target(q)' \notin unfrozen
               PROVE  read[q] = sent[Target(q)']
    BY <1>2 DEF ReadAsSent, Today
  <2>1. q \in Requests /\ q # r
    BY <1>2 DEF Requests, SheetInv, SheetTypes
  <2> QED BY <1>8, <2>1 DEF SheetInv, ReadAsSent
<1>12. RowsDated'
  <2>1. \A b : NextExecDay(b)' = NextExecDay(b)
    BY <1>2 DEF NextExecDay, Shut
  <2> QED BY <1>2, <2>1 DEF SheetInv, RowsDated
<1> QED BY <1>4, <1>6, <1>9, <1>10, <1>11, <1>12 DEF SheetInv

\* The note keeps it: without it the session was not over at a later moment than the beginning.
LEMMA NoteKeeps ==
    ASSUME SheetInv, NEW r \in Requests, Note(r)
    PROVE  SheetInv'
<1>1. /\ UNCHANGED <<market, clock, bars, trades, plans, sheet, read, asked, ran, sent, unfrozen>>
      /\ pc[r] = "computed" /\ pc' = [pc EXCEPT ![r] = "noted"]
      /\ started' = [started EXCEPT ![r].late = Pending(Target(r))]
  BY DEF Note
<1>2. \A q \in Requests : Target(q)' = Target(q)
  BY <1>1 DEF Target, NextExecDay, Shut
<1>3. \A q \in Requests : /\ started'[q].at = started[q].at /\ started'[q].sent = started[q].sent
                          /\ q # r => started'[q].late = started[q].late /\ pc'[q] = pc[q]
  <2>1. ASSUME NEW q \in Requests, q # r PROVE started'[q] = started[q] /\ pc'[q] = pc[q]
    BY <1>1, <2>1 DEF SheetInv, SheetTypes
  <2>2. started'[r] = [started[r] EXCEPT !.late = Pending(Target(r))]
    BY <1>1 DEF SheetInv, SheetTypes
  <2>3. started'[r].at = started[r].at /\ started'[r].sent = started[r].sent
    BY <2>2
  <2> QED BY <2>1, <2>3
<1>4. SheetTypes' /\ InTime' /\ RowIsSent'
  BY <1>1 DEF SheetInv, SheetTypes, InTime, SessionOver, OverAt, Stage, RowIsSent
<1>5. \A q \in Requests : pc'[q] # "idle" => pc[q] # "idle"
  BY <1>1 DEF SheetInv, SheetTypes
<1>6. NoSecondFreeze'
  BY <1>1, <1>2, <1>5 DEF SheetInv, NoSecondFreeze, Requests
<1>7. ReadAsSent'
  <2> SUFFICES ASSUME NEW q \in Screens, pc'[q] = "read", started'[q].sent = TRUE, Target(q) >= Today,
                      Target(q) \notin unfrozen
               PROVE  read[q] = sent[Target(q)]
    BY <1>1, <1>2 DEF ReadAsSent, Today, Requests
  <2>1. q \in Requests /\ q # r
    BY <1>1 DEF Requests, SheetInv, SheetTypes
  <2> QED BY <1>3, <2>1 DEF SheetInv, ReadAsSent
<1>8. RowsDated'
  <2>1. \A b : NextExecDay(b)' = NextExecDay(b)
    BY <1>1 DEF NextExecDay, Shut
  <2> QED BY <1>1, <2>1 DEF SheetInv, RowsDated
<1>9. ASSUME NEW q \in Requests PROVE Held(q)'
  <2>1. Held(q) /\ Target(q)' = Target(q) /\ started'[q].at = started[q].at /\ started'[q].sent = started[q].sent
    BY <1>2, <1>3 DEF SheetInv
  <2> QED BY <1>1, <1>5, <2>1 DEF Held, OverAt
<1>10. NoteTrue(r)'
  <2>1. /\ started[r].at \in 0..clock /\ clock \in Nat /\ Target(r) \in Nat
        /\ market \in {"KR", "US"}
    BY <1>1, TargetIsDay DEF SheetInv, SheetTypes, Held
  <2>2. ASSUME ~Pending(Target(r)) PROVE ~OverAt(Target(r), started[r].at)
    <3>1. Today \in Nat /\ clock < 3 * Today + 3 /\ (clock % 3 < 2 => clock < 3 * Today + 2)
      BY <2>1, DayOfMoment DEF Today
    <3>2. Target(r) > Today \/ (Target(r) = Today /\ clock % 3 < 2)
      BY <2>2 DEF Pending
    <3>3. clock < 3 * Target(r) + 2
      BY <2>1, <3>1, <3>2
    <3> QED BY <2>1, <3>3 DEF OverAt
  <2>3. started'[r].late = Pending(Target(r))
    BY <1>1 DEF SheetInv, SheetTypes
  <2> QED BY <1>1, <1>2, <1>3, <2>2, <2>3 DEF NoteTrue, OverAt
<1>11. ASSUME NEW q \in Requests, q # r PROVE NoteTrue(q)'
  <2>1. NoteTrue(q)
    BY DEF SheetInv
  <2> QED BY <1>1, <1>2, <1>3, <1>11, <2>1 DEF NoteTrue, OverAt
<1> QED BY <1>4, <1>6, <1>7, <1>8, <1>9, <1>10, <1>11 DEF SheetInv

\* A row read keeps it.
LEMMA ReadKeeps ==
    ASSUME SheetInv, NEW r \in Requests, ReadRow(r)
    PROVE  SheetInv'
<1>1. /\ UNCHANGED <<market, clock, bars, trades, plans, started, sheet, asked, ran, sent, unfrozen>>
      /\ pc[r] = "noted" /\ pc' = [pc EXCEPT ![r] = "read"]
      /\ read' = [read EXCEPT ![r] = plans[Target(r)]]
  BY DEF ReadRow
<1>2. \A q \in Requests : Target(q)' = Target(q)
  BY <1>1 DEF Target, NextExecDay, Shut
<1>3. SheetTypes' /\ InTime'
  BY <1>1 DEF SheetInv, SheetTypes, InTime, SessionOver, OverAt, Stage
<1>4. \A q \in Requests : /\ pc'[q] # "idle" => pc[q] # "idle"
                          /\ pc'[q] \in {"noted", "read"} => pc[q] \in {"noted", "read"}
  BY <1>1 DEF SheetInv, SheetTypes
<1>5. RowIsSent'
  BY <1>1 DEF SheetInv, RowIsSent
<1>6. NoSecondFreeze'
  BY <1>1, <1>2, <1>4 DEF SheetInv, NoSecondFreeze, Requests
<1>7. ASSUME NEW q \in Requests PROVE Held(q)' /\ NoteTrue(q)'
  <2>1. Held(q) /\ NoteTrue(q)
    BY DEF SheetInv
  <2>2. Held(q)'
    BY <1>1, <1>2, <1>4, <2>1 DEF Held, OverAt
  <2>3. NoteTrue(q)'
    BY <1>1, <1>2, <1>4, <2>1 DEF NoteTrue, OverAt
  <2> QED BY <2>2, <2>3
<1>8. ReadAsSent'
  <2> SUFFICES ASSUME NEW q \in Screens, pc'[q] = "read", started[q].sent = TRUE, Target(q) >= Today,
                      Target(q) \notin unfrozen
               PROVE  read'[q] = sent[Target(q)]
    BY <1>1, <1>2 DEF ReadAsSent, Today, Requests
  <2>1. q \in Requests
    BY DEF Requests
  <2>2. CASE q = r
    <3>1. Target(r) \in Days /\ sent[Target(r)].made = TRUE
      BY <1>1, <2>2, TargetIsDay DEF SheetInv, Held
    <3>2. plans[Target(r)] = sent[Target(r)]
      BY <2>2, <3>1 DEF SheetInv, RowIsSent
    <3> QED BY <1>1, <2>2, <3>2 DEF SheetInv, SheetTypes
  <2>3. CASE q # r
    BY <1>1, <2>1, <2>3 DEF SheetInv, SheetTypes, ReadAsSent
  <2> QED BY <2>2, <2>3
<1>9. RowsDated'
  <2>1. \A b : NextExecDay(b)' = NextExecDay(b)
    BY <1>1 DEF NextExecDay, Shut
  <2> QED BY <1>1, <2>1 DEF SheetInv, RowsDated
<1> QED BY <1>3, <1>5, <1>6, <1>7, <1>8, <1>9 DEF SheetInv

\* A row stored keeps it.
LEMMA CommitKeeps ==
    ASSUME SheetInv, NEW r \in Requests, Commit(r)
    PROVE  SheetInv'
<1> DEFINE d == Target(r)
<1>1. /\ UNCHANGED <<market, clock, bars, ran>>
      /\ pc[r] = "read" /\ pc' = [pc EXCEPT ![r] = "idle"]
      /\ plans' = IF Writes(r) /\ ~Fails(r) THEN [plans EXCEPT ![d] = sheet[r]] ELSE plans
      /\ sent' = IF r = Executor /\ ~Fails(r) THEN [sent EXCEPT ![d] = sheet[r]] ELSE sent
      /\ unfrozen' = IF plans[d].frozen /\ ~plans'[d].frozen THEN unfrozen \union {d} ELSE unfrozen
      /\ sheet' = [sheet EXCEPT ![r] = NoRow] /\ read' = [read EXCEPT ![r] = NoRow]
      /\ started' = [started EXCEPT ![r] = NotBegun]
  BY DEF Commit
<1>2. /\ d \in Days /\ d \in Nat
      /\ sheet[r].made = TRUE /\ sheet[r].frozen = (r = Executor)
  BY <1>1, TargetIsDay DEF SheetInv, Held
<1>3. SheetTypes' /\ InTime'
  BY <1>1 DEF SheetInv, SheetTypes, InTime, SessionOver, OverAt, Stage
<1>4. /\ pc'[r] = "idle"
      /\ \A q \in Requests : q # r => /\ Target(q)' = Target(q) /\ pc'[q] = pc[q] /\ read'[q] = read[q]
                                       /\ started'[q] = started[q] /\ sheet'[q] = sheet[q]
  BY <1>1 DEF Target, NextExecDay, Shut, SheetInv, SheetTypes
<1>5. /\ unfrozen \subseteq unfrozen'
      /\ \A e \in Days : e # d => plans'[e] = plans[e] /\ sent'[e] = sent[e]
  BY <1>1 DEF SheetInv, SheetTypes
<1>8. RowsDated'
  <2>1. \A b : NextExecDay(b)' = NextExecDay(b)
    BY <1>1 DEF NextExecDay, Shut
  <2>2. sheet[r].base \in 0..bars /\ NextExecDay(sheet[r].base) = d
    BY <1>1 DEF SheetInv, Held, Target
  <2>3. plans'[d] = sheet[r] \/ plans'[d] = plans[d]
    BY <1>1, <1>2 DEF SheetInv, SheetTypes
  <2> QED BY <1>1, <1>5, <2>1, <2>2, <2>3 DEF SheetInv, RowsDated
<1>9. \A q \in Requests : NoteTrue(q)'
  <2> SUFFICES ASSUME NEW q \in Requests, q # r PROVE NoteTrue(q)'
    BY <1>4 DEF NoteTrue
  <2>1. NoteTrue(q)
    BY DEF SheetInv
  <2> QED BY <1>1, <1>4, <2>1 DEF NoteTrue, OverAt
<1>6. CASE r = Executor /\ ~Fails(r)
  <2>1. plans'[d] = sheet[r] /\ sent'[d] = sheet[r]
    BY <1>1, <1>2, <1>6 DEF Writes, SheetInv, SheetTypes
  <2>2. \A e \in Days : sent[e].made = TRUE => sent'[e].made = TRUE
    BY <1>2, <1>5, <2>1
  <2>3. RowIsSent'
    <3>1. d <= ran
      BY <1>1, <1>6 DEF SheetInv, NoSecondFreeze
    <3>2. sheet[r].frozen = TRUE
      BY <1>2, <1>6
    <3>3. ASSUME NEW e \in Days, sent'[e].made = TRUE
          PROVE  /\ sent'[e].frozen = TRUE /\ e <= ran'
                 /\ e \notin unfrozen' => plans'[e] = sent'[e]
      <4>1. CASE e = d
        BY <1>1, <2>1, <3>1, <3>2, <4>1
      <4>2. CASE e # d
        BY <1>1, <1>5, <3>3, <4>2 DEF SheetInv, RowIsSent
      <4> QED BY <4>1, <4>2
    <3> QED BY <3>3 DEF RowIsSent
  <2>4. NoSecondFreeze'
    BY <1>4, <1>6 DEF NoSecondFreeze
  <2>5. \A q \in Requests : Held(q)'
    <3> SUFFICES ASSUME NEW q \in Requests, q # r, pc[q] # "idle" PROVE Held(q)'
      BY <1>4 DEF Held
    <3>1. Target(q) \in Days
      BY TargetIsDay
    <3>2. Held(q)
      BY DEF SheetInv
    <3> QED BY <1>1, <1>4, <2>2, <3>1, <3>2 DEF Held, OverAt
  <2>6. ReadAsSent'
    <3> SUFFICES ASSUME NEW q \in Screens, pc'[q] = "read", started'[q].sent = TRUE, Target(q)' >= Today',
                        Target(q)' \notin unfrozen'
                 PROVE  read'[q] = sent'[Target(q)']
      BY DEF ReadAsSent
    <3>1. /\ q \in Requests /\ q # r /\ pc[q] = "read" /\ started[q].sent = TRUE
          /\ Target(q)' = Target(q) /\ read'[q] = read[q] /\ Today' = Today
      BY <1>1, <1>4 DEF Requests, Today
    <3>2. Target(q) \in Days /\ Target(q) \in Nat /\ sent[Target(q)].made = TRUE
      BY <3>1, TargetIsDay DEF SheetInv, Held
    <3>3. Target(q) # d
      <4> SUFFICES ASSUME Target(q) = d PROVE FALSE
        OBVIOUS
      <4>1. d < ran
        BY <1>1, <1>6, <3>2 DEF SheetInv, NoSecondFreeze
      <4>2. ran <= Today /\ Today \in Nat /\ ran \in Nat
        BY DayOfMoment DEF SheetInv, SheetTypes, InTime, Today
      <4> QED BY <1>2, <3>1, <4>1, <4>2
    <3>4. sent'[Target(q)] = sent[Target(q)] /\ Target(q) \notin unfrozen
      BY <1>5, <3>1, <3>2, <3>3
    <3> QED BY <3>1, <3>4 DEF SheetInv, ReadAsSent
  <2> QED BY <1>3, <1>8, <1>9, <2>3, <2>4, <2>5, <2>6 DEF SheetInv
<1>7. CASE ~(r = Executor /\ ~Fails(r))
  <2>1. sent' = sent
    BY <1>1, <1>7
  <2>2. RowIsSent'
    <3>1. ASSUME sent[d].made = TRUE, d \notin unfrozen' PROVE plans'[d] = sent[d]
      <4>1. plans[d] = sent[d] /\ plans[d].frozen = TRUE
        BY <1>2, <1>5, <3>1 DEF SheetInv, RowIsSent
      <4>2. CASE Writes(r) /\ ~Fails(r)
        <5>1. plans'[d] = sheet[r] /\ sheet[r].frozen = FALSE
          BY <1>1, <1>2, <1>7, <4>2 DEF SheetInv, SheetTypes
        <5> QED BY <1>1, <3>1, <4>1, <5>1
      <4>3. CASE ~(Writes(r) /\ ~Fails(r))
        BY <1>1, <4>1, <4>3
      <4> QED BY <4>2, <4>3
    <3> QED BY <1>1, <1>2, <1>5, <2>1, <3>1 DEF SheetInv, RowIsSent
  <2>3. NoSecondFreeze'
    BY <1>1, <1>4, <2>1 DEF SheetInv, NoSecondFreeze, Requests
  <2>4. \A q \in Requests : Held(q)'
    <3> SUFFICES ASSUME NEW q \in Requests, q # r PROVE Held(q)'
      BY <1>4 DEF Held
    <3>1. Held(q)
      BY DEF SheetInv
    <3> QED BY <1>1, <1>4, <2>1, <3>1 DEF Held, OverAt
  <2>5. ReadAsSent'
    <3> SUFFICES ASSUME NEW q \in Screens, pc'[q] = "read", started'[q].sent = TRUE, Target(q)' >= Today',
                        Target(q)' \notin unfrozen'
                 PROVE  read'[q] = sent'[Target(q)']
      BY DEF ReadAsSent
    <3>1. /\ q \in Requests /\ q # r /\ pc[q] = "read" /\ started[q].sent = TRUE
          /\ Target(q)' = Target(q) /\ read'[q] = read[q] /\ Today' = Today
      BY <1>1, <1>4 DEF Requests, Today
    <3> QED BY <1>5, <2>1, <3>1 DEF SheetInv, ReadAsSent
  <2> QED BY <1>3, <1>8, <1>9, <2>2, <2>3, <2>4, <2>5 DEF SheetInv
<1> QED BY <1>6, <1>7

\* Every step keeps it.
LEMMA SheetStep == SheetInv /\ [SheetNext]_sheetVars => SheetInv'
  BY WorldKeeps, ComputeKeeps, NoteKeeps, ReadKeeps, CommitKeeps DEF SheetNext

\* It holds at the start.
LEMMA SheetStart == SheetInit => SheetInv
<1> SUFFICES ASSUME SheetInit PROVE SheetInv
  OBVIOUS
<1> USE SheetAssumption DEF SheetInit, SheetAssumption
<1>1. SheetTypes /\ InTime
  BY DEF SheetTypes, InTime, SessionOver, OverAt, Stage
<1>2. RowIsSent
  BY DEF RowIsSent, NoRow
<1>3. NoSecondFreeze /\ ReadAsSent /\ RowsDated /\ \A r \in Requests : Held(r) /\ NoteTrue(r)
  BY DEF NoSecondFreeze, ReadAsSent, RowsDated, Held, NoteTrue, Requests, NoRow
<1> QED BY <1>1, <1>2, <1>3 DEF SheetInv

-----------------------------------------------------------------------------
(* Theorems *)

\* Only a commit changes a row.
LEMMA OnlyCommits ==
    ASSUME SheetInv, SheetNext, NEW d \in Days, plans'[d] # plans[d]
    PROVE  \E r \in Requests : Commit(r) /\ Target(r) = d /\ Writes(r) /\ ~Fails(r)
<1>1. PICK r \in Requests : Commit(r)
  BY DEF SheetNext, Tick, Ingest, Register, Compute, Note, ReadRow
<1>2. Target(r) = d /\ Writes(r) /\ ~Fails(r)
  BY <1>1 DEF Commit, SheetInv, SheetTypes
<1> QED BY <1>1, <1>2

\* For any number of screens, days and trades, whatever the calendar: once its cutoff has
\* passed, a day's row is replaced only by the executor, or for KR by a request from before 09:00.
THEOREM PlansSettle == SheetSpec => PlanSettles
<1>1. SheetInv /\ SheetNext => Settles
  <2> SUFFICES ASSUME SheetInv, SheetNext, NEW d \in Days, plans[d].made, plans'[d] # plans[d], clock >= Cutoff(d)
               PROVE  \E r \in Requests : /\ Commits(r) /\ Target(r) = d
                                          /\ r = Executor \/ (market = "KR" /\ started[r].at < FreezeAt(d))
    BY DEF Settles
  <2>1. PICK r \in Requests : Commit(r) /\ Target(r) = d /\ Writes(r) /\ ~Fails(r)
    BY OnlyCommits
  <2>2. Commits(r)
    BY <2>1 DEF Commit, Commits, SheetInv, SheetTypes
  <2>3. r # Executor => StillOpen(r)
    BY <2>1 DEF Writes, Fails, Collides
  <2>4. d \in Nat /\ clock \in Nat
    BY SheetAssumption DEF Days, SheetAssumption, SheetInv, SheetTypes
  <2>5. d <= Today
    <3>1. Today \in Nat /\ clock < 3 * Today + 3
      BY <2>4, DayOfMoment DEF Today
    <3>2. clock >= 3 * d
      BY <2>4 DEF Cutoff, FreezeAt
    <3> QED BY <2>4, <3>1, <3>2
  <2>6. r # Executor => market = "KR" /\ started[r].at < FreezeAt(d)
    BY <2>1, <2>3, <2>4, <2>5, DayOfMoment DEF StillOpen, Today
  <2> QED BY <2>1, <2>2, <2>6
<1>2. SheetInv /\ [SheetNext]_sheetVars => [Settles]_sheetVars
  BY <1>1
<1> QED BY <1>2, SheetStart, SheetStep, PTL DEF SheetSpec, PlanSettles

\* For any number of screens: whoever looks on the day itself after the executor froze the
\* sheet sees the sheet it sent.
THEOREM SentIsShown == SheetSpec => ShownAsSent
<1>1. SheetInv /\ SheetNext => ShowsSent
  <2> SUFFICES ASSUME SheetInv, SheetNext, NEW r \in Screens, Commits(r), started[r].sent,
                      Target(r) = Today, Today \notin unfrozen
               PROVE  Answer(r) = sent[Today]
    BY DEF ShowsSent
  <2>1. r \in Requests /\ pc[r] = "read" /\ r # Executor
    BY SheetAssumption DEF Requests, Commits, SheetAssumption
  <2>2. Target(r) \in Days /\ Target(r) \in Nat
    BY <2>1, TargetIsDay
  <2>3. sent[Target(r)].made = TRUE
    BY <2>1 DEF SheetInv, Held
  <2>4. read[r] = sent[Target(r)]
    BY <2>1, <2>2 DEF SheetInv, ReadAsSent
  <2>5. sent[Target(r)].frozen = TRUE
    BY <2>2, <2>3 DEF SheetInv, RowIsSent
  <2> QED BY <2>1, <2>4, <2>5 DEF Answer
<1>2. SheetInv /\ [SheetNext]_sheetVars => [ShowsSent]_sheetVars
  BY <1>1
<1> QED BY <1>2, SheetStart, SheetStep, PTL DEF SheetSpec, ShownAsSent

\* For any calendar, any delay of the bars and any length of a request: a sheet answered
\* without the note was the one due when the request began, and a later day's sheet exists by
\* then only if its session ended in between.
THEOREM DueIsShown == SheetSpec => NotStaleSilently
<1>1. SheetInv /\ SheetNext => ShowsDue
  <2> SUFFICES ASSUME SheetInv, SheetNext, NEW r \in Requests, Commits(r), ~started[r].late
               PROVE  /\ ~OverAt(Target(r), started[r].at)
                      /\ \A e \in 1..LastDay : ~Shut(e) /\ ~OverAt(e, started[r].at) => Target(r) <= e
                      /\ \A e \in Days : e > Target(r) /\ plans[e].made => SessionOver(Target(r))
    BY DEF ShowsDue
  <2>1. /\ pc[r] = "read" /\ clock \in Nat /\ bars \in 0..LastDay /\ LastDay \in Nat
        /\ market \in {"KR", "US"} /\ SessionOver(bars)
        /\ started[r].at \in 0..clock /\ sheet[r].base \in 0..bars /\ OverAt(sheet[r].base, started[r].at)
    BY SheetAssumption DEF Commits, SheetInv, SheetTypes, InTime, Held, SheetAssumption
  <2>2. Target(r) \in Nat /\ Target(r) \in Days /\ ~Shut(Target(r)) /\ sheet[r].base \in 0..LastDay
    BY <2>1, TargetIsDay, ExecDay DEF Target
  <2>3. ~OverAt(Target(r), started[r].at)
    BY <2>1 DEF SheetInv, NoteTrue
  <2>4. ASSUME NEW e \in 1..LastDay, ~Shut(e), ~OverAt(e, started[r].at) PROVE Target(r) <= e
    <3>1. e > sheet[r].base
      BY <2>1, <2>4 DEF OverAt
    <3>2. e \in Days
      BY <2>1 DEF Days
    <3> QED BY <2>2, <2>4, <3>1, <3>2, ExecDay DEF Target
  <2>5. ASSUME NEW e \in Days, e > Target(r), plans[e].made PROVE SessionOver(Target(r))
    <3>1. plans[e].base \in 0..bars /\ NextExecDay(plans[e].base) = e
      BY <2>5 DEF SheetInv, RowsDated
    <3>2. plans[e].base \in 0..LastDay /\ e \in Nat
      BY <2>1, <3>1 DEF Days
    <3>3. Target(r) > plans[e].base => e <= Target(r)
      BY <2>2, <3>1, <3>2, ExecDay
    <3>4. Target(r) <= bars
      BY <2>1, <2>2, <2>5, <3>1, <3>2, <3>3
    <3> QED BY <2>1, <2>2, <3>4 DEF SessionOver, OverAt
  <2> QED BY <2>3, <2>4, <2>5
<1>2. SheetInv /\ [SheetNext]_sheetVars => [ShowsDue]_sheetVars
  BY <1>1
<1> QED BY <1>2, SheetStart, SheetStep, PTL DEF SheetSpec, NotStaleSilently

-----------------------------------------------------------------------------
(* The calls to the broker. *)

CallStage == {"begin", "key", "key late", "ledger", "ledger late", "token", "issue", "last issue",
          "nap", "store", "send", "pause", "ok", "failed"}
Over(c) == stage[c] \in {"ok", "failed"}

AccessType == stage \in [Call -> CallStage] /\ taken \in [Call -> Nat]
\* As long as a call may still be sent, the broker has not carried it out.
NotYetTaken == \A c \in Writer : taken[c] = 0 \/ (taken[c] = 1 /\ Over(c))
AccessInv == AccessType /\ NotYetTaken

\* Every step of a call but the answer leaves what the broker did as it is, and does not
\* start from a call that is over.
LEMMA BeforeAnswer ==
    ASSUME AccessInv, NEW c \in Call,
           Begin(c) \/ Throttle(c) \/ Token(c) \/ Issue(c) \/ Store(c) \/ WakeUp(c)
    PROVE  /\ ~Over(c) /\ taken' = taken
           /\ \E s \in CallStage : stage' = [stage EXCEPT ![c] = s]
<1> USE DEF AccessInv, AccessType, CallStage, Over, Goto
<1>1. CASE Begin(c)
  BY <1>1 DEF Begin
<1>2. CASE Throttle(c)
  BY <1>2 DEF Throttle, Count
<1>3. CASE Token(c)
  BY <1>3 DEF Token
<1>4. CASE Issue(c)
  BY <1>4 DEF Issue
<1>5. CASE Store(c)
  BY <1>5 DEF Store
<1>6. CASE WakeUp(c)
  BY <1>6 DEF WakeUp
<1> QED BY <1>1, <1>2, <1>3, <1>4, <1>5, <1>6

\* The broker's answer: a writer's call goes on only when it was refused.
LEMMA AnswerKeeps ==
    ASSUME AccessInv, NEW c \in Call, Send(c)
    PROVE  AccessInv'
<1> DEFINE Took(answer) == c \in Writer /\ answer \in {"ok", "lost"}
           Goes(answer) == IF answer = "ok" THEN "ok"
                           ELSE IF Repeats(c, answer) /\ tried[c] < Retries THEN "pause" ELSE "failed"
<1>1. PICK answer \in {"ok", "rate", "error", "lost"} :
         /\ taken' = IF Took(answer) THEN [taken EXCEPT ![c] = @ + 1] ELSE taken
         /\ stage' = [stage EXCEPT ![c] = Goes(answer)]
  BY DEF Send, Goto
<1>2. stage \in [Call -> CallStage] /\ taken \in [Call -> Nat] /\ stage[c] = "send"
  BY DEF Send, AccessInv, AccessType
<1>3. c \in Writer => taken[c] = 0
  BY <1>2 DEF AccessInv, NotYetTaken, Over
<1>4. taken' \in [Call -> Nat]
  BY <1>1, <1>2
<1>5. Goes(answer) \in CallStage
  BY DEF CallStage
<1>6. stage' \in [Call -> CallStage]
  BY <1>1, <1>2, <1>5
<1>7. Took(answer) => Goes(answer) \in {"ok", "failed"}
  BY DEF Repeats
<1>8. ASSUME NEW w \in Writer PROVE taken'[w] = 0 \/ (taken'[w] = 1 /\ Over(w)')
  <2>1. w \in Call
    BY DEF Call
  <2>2. CASE w # c
    <3>1. taken'[w] = taken[w] /\ stage'[w] = stage[w]
      BY <1>1, <1>2, <2>1, <2>2
    <3> QED BY <3>1 DEF AccessInv, NotYetTaken, Over
  <2>3. CASE w = c /\ Took(answer)
    <3>1. taken'[w] = taken[c] + 1 /\ stage'[w] = Goes(answer)
      BY <1>1, <1>2, <2>3
    <3> QED BY <1>3, <1>7, <2>3, <3>1 DEF Over
  <2>4. CASE w = c /\ ~Took(answer)
    BY <1>1, <1>3, <2>4
  <2> QED BY <2>2, <2>3, <2>4
<1> QED BY <1>4, <1>6, <1>8 DEF AccessInv, AccessType, NotYetTaken

\* Every step keeps the invariant.
LEMMA AccessStep == AccessInv /\ [AccessNext]_accessVars => AccessInv'
<1> SUFFICES ASSUME AccessInv, [AccessNext]_accessVars PROVE AccessInv'
  OBVIOUS
<1> USE DEF AccessInv, AccessType
<1>1. CASE Second
  <2>1. taken' = taken /\ AccessType'
    BY <1>1 DEF Second, CallStage
  <2>2. ASSUME NEW c \in Call PROVE Over(c) => Over(c)'
    BY <1>1 DEF Second, Over
  <2> QED BY <2>1, <2>2 DEF NotYetTaken, Call
<1>2. CASE RedisFails
  BY <1>2 DEF RedisFails, NotYetTaken, Over
<1>3. ASSUME NEW c \in Call, Steps(c) PROVE AccessInv'
  <2>1. CASE Send(c)
    BY <2>1, AnswerKeeps
  <2>2. CASE ~Send(c)
    <3>1. /\ ~Over(c) /\ taken' = taken
          /\ \E s \in CallStage : stage' = [stage EXCEPT ![c] = s]
      BY <1>3, <2>2, BeforeAnswer DEF Steps
    <3>2. AccessType'
      BY <3>1
    <3>3. ASSUME NEW w \in Writer PROVE taken'[w] = 0 \/ (taken'[w] = 1 /\ stage'[w] \in {"ok", "failed"})
      BY <3>1 DEF NotYetTaken, Over, Call
    <3> QED BY <3>2, <3>3 DEF NotYetTaken, Over
  <2> QED BY <2>1, <2>2
<1>4. CASE UNCHANGED accessVars
  BY <1>4 DEF accessVars, NotYetTaken, Over
<1> QED BY <1>1, <1>2, <1>3, <1>4 DEF AccessNext

\* For any number of readers and writers, any limits and any number of retries: an order
\* reaches the broker's book once at most, however its calls are refused, held up or lost.
THEOREM OrdersTakenOnce == AccessSpec => []TakenOnce
<1>1. AccessInit => AccessInv
  BY DEF AccessInit, AccessInv, AccessType, NotYetTaken, CallStage, Call
<1>2. AccessInv => TakenOnce
  BY DEF AccessInv, NotYetTaken, TakenOnce
<1> QED BY <1>1, <1>2, AccessStep, PTL DEF AccessSpec

-----------------------------------------------------------------------------
\* Quotient and remainder of any integer.
LEMMA Divided ==
    ASSUME NEW d \in Nat \ {0}, NEW a \in Int
    PROVE  a = d * (a \div d) + (a % d) /\ a % d \in 0 .. d - 1 /\ a \div d \in Int
OBVIOUS

\* They are the only ones: what is left of a moment of a day is the time of that day.
LEMMA Remainder ==
    ASSUME NEW d \in Nat \ {0}, NEW q \in Int, NEW r \in 0 .. d - 1
    PROVE  (d * q + r) % d = r
<1>1. PICK a \in Int : a = d * q + r
  OBVIOUS
<1>2. PICK p \in Int, s \in 0 .. d - 1 : p = a \div d /\ s = a % d /\ a = d * p + s
  BY Divided
<1>3. \A x, y, z \in Int : x * (y + z) = x * y + x * z
  OBVIOUS
<1>4. \A k \in Int : k >= 1 => d * k >= d
  OBVIOUS
<1>5. PICK k \in Int : k = q - p
  OBVIOUS
<1>6. d * q = d * p + d * k
  BY <1>3, <1>5
<1>7. d * k \in Int
  OBVIOUS
<1>8. k < 1
  BY <1>1, <1>2, <1>4, <1>6, <1>7
<1>9. PICK j \in Int : j = -k
  OBVIOUS
<1>10. d * p = d * q + d * j
  BY <1>3, <1>5, <1>9
<1>11. d * j \in Int /\ d * p \in Int /\ d * q \in Int
  OBVIOUS
<1>12. j < 1
  BY <1>1, <1>2, <1>4, <1>10, <1>11
<1>13. p = q
  BY <1>5, <1>8, <1>9, <1>12
<1> QED BY <1>1, <1>2, <1>13, <1>11

-----------------------------------------------------------------------------
(* The day's tokens. *)

\* The constants: times of a day.
LEMMA DayIs ==
    /\ DayLength \in Nat \ {0} /\ WarmAt \in Nat /\ Delay \in Nat /\ Closes \in Nat /\ GoneBefore \in Nat
    /\ GoneBefore < WarmAt /\ WarmAt + Delay < Closes /\ Closes + GoneBefore < DayLength
    /\ LastTime \in Nat /\ EnvKey \in AppKey /\ NoKey \notin AppKey
BY TokenDayAssumption DEF TokenDayAssumption

\* The task's run of today: what it left unchanged or had issued was not to end before
\* the margin.
WarmedAt(w, k) ==
    /\ w \in Nat /\ w <= time /\ time - w = Clock(time) - Clock(w) /\ WarmAt <= Clock(w)
    /\ w - born[k] < DayLength - GoneBefore

\* Types; no token was issued after now; and each key served today was left, by a run of
\* today, with a token that would not end before its margin; Redis holds it or was wiped.
TokenInv ==
    /\ time \in Nat /\ kept \subseteq AppKey /\ served \subseteq AppKey /\ wiped \in BOOLEAN
    /\ keyOf \in [Account -> AppKey \union {NoKey}]
    /\ born \in [AppKey -> Int] /\ \A k \in AppKey : born[k] <= time
    /\ \A k \in served : (k \in kept \/ wiped) /\ \E w : WarmedAt(w, k)

\* A moment is a day and a time of day.
LEMMA TimeOfDay ==
    ASSUME NEW t \in Int
    PROVE  \E q \in Int, r \in 0 .. DayLength - 1 : r = t % DayLength /\ t = DayLength * q + r
<1>1. /\ t = DayLength * (t \div DayLength) + (t % DayLength)
      /\ t % DayLength \in 0 .. DayLength - 1 /\ t \div DayLength \in Int
  BY DayIs, Divided
<1>2. PICK q \in Int, r \in 0 .. DayLength - 1 : q = t \div DayLength /\ r = t % DayLength
  BY <1>1
<1>3. t = DayLength * q + r
  BY <1>1, <1>2
<1> QED BY <1>2, <1>3, Zenon

\* The next part of a day, or the first of the next.
LEMMA ClockNext ==
    ASSUME NEW t \in Nat
    PROVE  /\ Clock(t) \in 0 .. DayLength - 1
           /\ Clock(t + 1) = 0 \/ Clock(t + 1) = Clock(t) + 1
<1>0. t \in Int
  OBVIOUS
<1>1. PICK q \in Int, r \in 0 .. DayLength - 1 : r = t % DayLength /\ t = DayLength * q + r
  BY <1>0, TimeOfDay, Zenon
<1>2. CASE r + 1 = DayLength
  <2>1. DayLength * (q + 1) = DayLength * q + DayLength /\ DayLength * q \in Int
    BY DayIs
  <2>2. t + 1 = DayLength * (q + 1) + 0
    BY <1>1, <1>2, <2>1, DayIs
  <2>3. (DayLength * (q + 1) + 0) % DayLength = 0
    BY DayIs, Remainder
  <2> QED BY <1>1, <2>2, <2>3 DEF Clock
<1>3. CASE r + 1 # DayLength
  <2>1. t + 1 = DayLength * q + (r + 1) /\ r + 1 \in 0 .. DayLength - 1
    BY <1>1, <1>3, DayIs
  <2>2. (DayLength * q + (r + 1)) % DayLength = r + 1
    BY DayIs, <2>1, Remainder
  <2> QED BY <1>1, <2>1, <2>2 DEF Clock
<1> QED BY <1>2, <1>3, Zenon

\* What was issued on the day before keeps its time of day.
LEMMA DayBefore ==
    ASSUME NEW t \in Nat, NEW b \in Int, t - Clock(t) - DayLength <= b, b < t - Clock(t)
    PROVE  Clock(b) = b - (t - Clock(t) - DayLength)
<1>0. t \in Int
  OBVIOUS
<1>1. PICK q \in Int, r \in 0 .. DayLength - 1 : r = t % DayLength /\ t = DayLength * q + r
  BY <1>0, TimeOfDay, Zenon
<1>2. DayLength * (q - 1) = DayLength * q - DayLength /\ DayLength * q \in Int
  BY DayIs
<1>3. PICK s \in Int : s = b - (t - Clock(t) - DayLength)
  BY <1>1, DayIs DEF Clock
<1>4. s \in 0 .. DayLength - 1 /\ b = DayLength * (q - 1) + s
  BY <1>1, <1>2, <1>3, DayIs DEF Clock
<1>5. (DayLength * (q - 1) + s) % DayLength = s
  BY <1>4, DayIs, Remainder
<1> QED BY <1>3, <1>4, <1>5 DEF Clock

\* The run of the day that serves k stays in the past of the same day.
LEMMA WarmedStays ==
    ASSUME TokenInv, NEW w, NEW k \in AppKey, WarmedAt(w, k), born' \in [AppKey -> Int], born[k] <= born'[k],
           time' = time \/ (time' = time + 1 /\ Clock(time + 1) # 0)
    PROVE  WarmedAt(w, k)'
<1>1. /\ w \in Nat /\ time \in Nat /\ w <= time /\ time - w = Clock(time) - Clock(w) /\ WarmAt <= Clock(w)
      /\ w - born[k] < DayLength - GoneBefore /\ born[k] \in Int /\ born'[k] \in Int
  BY DEF WarmedAt, TokenInv
<1>2. Clock(time) \in Int /\ Clock(w) \in Int /\ (Clock(time + 1) # 0 => Clock(time + 1) = Clock(time) + 1)
  BY <1>1, ClockNext, DayIs
<1>3. w - born'[k] < DayLength - GoneBefore
  BY <1>1, DayIs
<1>4. CASE time' = time
  BY <1>1, <1>3, <1>4 DEF WarmedAt
<1>5. CASE time' = time + 1 /\ Clock(time + 1) # 0
  <2>1. time' - w = Clock(time') - Clock(w) /\ w <= time'
    BY <1>1, <1>2, <1>5
  <2> QED BY <1>1, <1>3, <2>1 DEF WarmedAt
<1> QED BY <1>4, <1>5

\* Whoever has a token issued gives it the time of now.
LEMMA IssuedNow ==
    ASSUME TokenInv, NEW ks, ks \subseteq AppKey, Issued(ks), time' = time
    PROVE  /\ born' \in [AppKey -> Int] /\ kept' \subseteq AppKey
           /\ \A k \in AppKey : born[k] <= born'[k] /\ born'[k] <= time'
           /\ kept \subseteq kept' /\ ks \subseteq kept' /\ \A k \in ks : born'[k] = time
BY DEF Issued, TokenInv

\* The warming task: the keys it reports as served hold a token younger than its margin.
LEMMA WarmKeeps == ASSUME TokenInv, Warm PROVE TokenInv'
<1>1. PICK failed \in SUBSET {k \in Targets : ~Good(k)} :
          /\ Issued({k \in Targets : ~Good(k)} \ failed) /\ served' = InUse \ failed
  BY DEF Warm
<1> DEFINE ks == {k \in Targets : ~Good(k)} \ failed
<1>2. /\ wiped' = FALSE /\ time' = time /\ keyOf' = keyOf /\ InUse \subseteq AppKey
      /\ Clock(time) \in WarmAt .. WarmAt + Delay
  BY DayIs DEF Warm, InUse, TokenInv
<1>3. ks \subseteq AppKey /\ Issued(ks)
  BY <1>1, <1>2 DEF Targets
<1> HIDE DEF ks
<1>4. /\ born' \in [AppKey -> Int] /\ kept' \subseteq AppKey
      /\ \A k \in AppKey : born[k] <= born'[k] /\ born'[k] <= time'
      /\ kept \subseteq kept' /\ ks \subseteq kept' /\ \A k \in ks : born'[k] = time
  BY <1>2, <1>3, IssuedNow
<1>5. ASSUME NEW k \in served' PROVE k \in kept' /\ WarmedAt(time, k)'
  <2>1. k \in AppKey /\ (k \in ks \/ Good(k))
    BY <1>1, <1>2 DEF ks, Targets
  <2>2. time \in Nat /\ born[k] \in Int /\ born'[k] \in Int /\ Clock(time) \in Int
    BY <1>4, <2>1, ClockNext DEF TokenInv
  <2>3. CASE k \in ks
    BY <1>2, <1>4, <2>2, <2>3, DayIs DEF WarmedAt
  <2>4. CASE Good(k)
    <3>1. k \in kept /\ time - born[k] < DayLength - GoneBefore /\ born[k] <= born'[k]
      BY <1>4, <2>1, <2>4 DEF Good
    <3> QED BY <1>2, <1>4, <2>2, <3>1, DayIs DEF WarmedAt
  <2> QED BY <2>1, <2>3, <2>4
<1>6. time' \in Nat /\ served' \subseteq AppKey /\ wiped' \in BOOLEAN /\ keyOf' \in [Account -> AppKey \union {NoKey}]
  BY <1>1, <1>2 DEF TokenInv
<1> QED BY <1>4, <1>5, <1>6 DEF TokenInv

\* Every step keeps the invariant; the passing of midnight empties the day.
LEMMA TokenStep == TokenInv /\ [TokenNext]_tokenVars => TokenInv'
<1> SUFFICES ASSUME TokenInv, [TokenNext]_tokenVars PROVE TokenInv'
  OBVIOUS
<1>1. CASE UNCHANGED tokenVars
  BY <1>1 DEF TokenInv, tokenVars, WarmedAt
<1>2. CASE PartPasses
  <2>1. /\ time' = time + 1 /\ served' \subseteq served /\ (Clock(time + 1) = 0 => served' = {})
        /\ born' = born /\ kept' = kept /\ wiped' = wiped /\ keyOf' = keyOf
    BY <1>2 DEF PartPasses
  <2>2. ASSUME NEW k \in served' PROVE (k \in kept' \/ wiped') /\ \E w : WarmedAt(w, k)'
    <3>1. PICK w : WarmedAt(w, k)
      BY <2>1 DEF TokenInv
    <3>2. born' \in [AppKey -> Int] /\ k \in AppKey /\ born[k] <= born'[k] /\ Clock(time + 1) # 0
      BY <2>1 DEF TokenInv
    <3>3. WarmedAt(w, k)'
      BY <2>1, <3>1, <3>2, WarmedStays
    <3> QED BY <2>1, <3>3 DEF TokenInv
  <2>3. time' \in Nat /\ \A k \in AppKey : born'[k] <= time'
    BY <2>1 DEF TokenInv
  <2> QED BY <2>1, <2>2, <2>3 DEF TokenInv
<1>3. CASE Warm
  BY <1>3, WarmKeeps
<1>4. CASE Wipe
  <2>1. kept' = {} /\ wiped' = TRUE /\ UNCHANGED <<time, keyOf, born, served>>
    BY <1>4 DEF Wipe
  <2> QED BY <2>1 DEF TokenInv, WarmedAt
<1>5. ASSUME NEW k \in AppKey, CallIssues(k) PROVE TokenInv'
  <2>1. Issued({k}) /\ time' = time /\ UNCHANGED <<keyOf, served, wiped>>
    BY <1>5 DEF CallIssues
  <2>2. /\ born' \in [AppKey -> Int] /\ kept' \subseteq AppKey /\ kept \subseteq kept'
        /\ \A x \in AppKey : born[x] <= born'[x] /\ born'[x] <= time'
    BY <2>1, IssuedNow
  <2>3. ASSUME NEW x \in served' PROVE (x \in kept' \/ wiped') /\ \E w : WarmedAt(w, x)'
    <3>1. PICK w : WarmedAt(w, x)
      BY <2>1 DEF TokenInv
    <3>2. x \in AppKey
      BY <2>1 DEF TokenInv
    <3>3. WarmedAt(w, x)'
      BY <2>1, <2>2, <3>1, <3>2, WarmedStays
    <3> QED BY <2>1, <2>2, <3>3 DEF TokenInv
  <2> QED BY <2>1, <2>2, <2>3 DEF TokenInv
<1>6. ASSUME NEW a \in Account, NEW k \in AppKey \union {NoKey}, SetKey(a, k) PROVE TokenInv'
  <2>1. UNCHANGED <<time, born, kept, served, wiped>> /\ keyOf' \in [Account -> AppKey \union {NoKey}]
    BY <1>6 DEF SetKey, TokenInv
  <2> QED BY <2>1 DEF TokenInv, WarmedAt
<1> QED BY <1>1, <1>2, <1>3, <1>4, <1>5, <1>6 DEF TokenNext, CreateAccount, UpdateAccount, DeleteAccount

\* The first midnight: no one is served yet.
LEMMA TokenStart == TokenInit => TokenInv
<1> SUFFICES ASSUME TokenInit PROVE TokenInv
  OBVIOUS
<1>1. -DayLength \in Int /\ -DayLength <= 0
  BY DayIs
<1> QED BY <1>1 DEF TokenInit, TokenInv

\* A key served today and issued anew before the end of the evening session.
LEMMA EarlyIssue ==
    ASSUME TokenInv, NEW k \in served, ~wiped, ~Good(k), Clock(time) <= Closes
    PROVE  Clock(born[k]) > WarmAt + GoneBefore
<1>1. PICK w : WarmedAt(w, k)
  BY DEF TokenInv
<1>2. /\ k \in kept /\ time \in Nat /\ born[k] \in Int /\ born[k] <= time
  BY DEF TokenInv
<1>3. /\ w \in Nat /\ w <= time /\ time - w = Clock(time) - Clock(w) /\ WarmAt <= Clock(w)
      /\ w - born[k] < DayLength - GoneBefore
  BY <1>1 DEF WarmedAt
<1>4. PICK c \in Int, v \in Int, b \in Int : c = Clock(time) /\ v = Clock(w) /\ b = born[k]
  BY <1>2, <1>3, ClockNext
<1>5. c \in 0 .. DayLength - 1 /\ c <= Closes /\ time - w = c - v /\ WarmAt <= v /\ w - b < DayLength - GoneBefore
  BY <1>2, <1>3, <1>4, ClockNext
<1>6. ~(time - b < DayLength - GoneBefore)
  BY <1>2, <1>4 DEF Good
<1>7. b < time - c
  BY <1>2, <1>5, <1>6, DayIs
<1>8. time - c - DayLength + WarmAt + GoneBefore < b
  BY <1>2, <1>3, <1>5, DayIs
<1>9. Clock(b) = b - (time - Clock(time) - DayLength)
  BY <1>2, <1>4, <1>5, <1>7, <1>8, DayBefore, DayIs
<1> QED BY <1>2, <1>4, <1>5, <1>8, <1>9, DayIs

\* What the morning's task served needs no issue before the end of the evening session,
\* for any number of accounts and keys, any day length and margin, whatever calls, changes
\* of keys and losses of Redis come between.
THEOREM TokensIssuedOnce == TokenSpec => IssuedOnce
<1>1. TokenInv /\ [TokenNext]_tokenVars =>
        [\A k \in served : born'[k] # born[k] /\ Clock(time) <= Closes
              => wiped \/ Clock(born[k]) > WarmAt + GoneBefore]_tokenVars
  <2> SUFFICES ASSUME TokenInv, TokenNext, NEW k \in served, born'[k] # born[k], Clock(time) <= Closes, ~wiped
               PROVE  Clock(born[k]) > WarmAt + GoneBefore
    OBVIOUS
  <2>1. ~Warm
    BY DEF Warm
  <2>2. \E x \in AppKey : CallIssues(x)
    BY <2>1 DEF TokenNext, PartPasses, Wipe, CreateAccount, UpdateAccount, DeleteAccount, SetKey
  <2>3. CallIssues(k)
    BY <2>2 DEF CallIssues, Issued, TokenInv
  <2> QED BY <2>3, EarlyIssue DEF CallIssues
<1> QED BY <1>1, TokenStart, TokenStep, PTL DEF TokenSpec, IssuedOnce
=============================================================================
