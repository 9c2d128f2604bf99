-------------------------------- MODULE Ledger --------------------------------
(***************************************************************************)
(* The ledger of one portfolio (apps/api/app/portfolios.py): its            *)
(* transactions, the FIFO lots kept beside them, the daily snapshots of the *)
(* dashboard, and the requests and the post-close batch that write them.    *)
(*                                                                          *)
(* One instrument.  Time runs 1, 2, .. Last: 2d-1 is day d up to the close, *)
(* 2d its 15:30 and the evening.  A request reads, then writes with  *)
(* its commit; nothing locks the portfolio in between.  Requests refused    *)
(* by their own fields (422, unknown code, foreign market) change nothing   *)
(* and are left out.                                                        *)
(***************************************************************************)
EXTENDS Integers, FiniteSets, FiniteSetsExt

CONSTANTS
    Req,        \* requests being served at the same time
    Last,       \* bound: the last instant
    MaxTx,      \* bound: transaction ids
    MaxLot,     \* bound: lot ids
    Amounts,    \* sums deposited or withdrawn
    Dates,      \* instants a user enters as the time of a trade or transfer
    Trades,     \* trades a user may enter: [kind, qty, price, tag]
    ClosePrice, \* closing price per day, 0 for the day before the first
    Order,      \* broker orders, their numbers
    Execution,  \* per order: [kind, qty, price, tag, day], what it fills in the end
    Seed,       \* lots a finished backtest may leave: [qty, price, at]
    SeedCash    \* and its cash

ASSUME LedgerAssumption ==
    /\ Last \in Nat \ {0} /\ MaxTx \in Nat /\ MaxLot \in Nat
    /\ Order \subseteq Nat /\ IsFiniteSet(Order) /\ IsFiniteSet(Seed)
    /\ Amounts \subseteq Nat /\ Dates \subseteq 1..Last /\ SeedCash \in Nat
    /\ \A b \in Trades : /\ b.kind \in {"buy", "sell"}
                         /\ b.qty \in Nat \ {0} /\ b.price \in Nat
    /\ \A o \in Order : /\ Execution[o].kind \in {"buy", "sell"}
                        /\ Execution[o].qty \in Nat /\ Execution[o].price \in Nat
                        /\ Execution[o].day \in Nat \ {0}
    /\ \A s \in Seed : s.qty \in Nat \ {0} /\ s.price \in Nat /\ s.at \in Nat \ {0}
    /\ \A d \in 0..Last \div 2 : ClosePrice[d] \in Nat

DayOf(t) == (t + 1) \div 2
AtClose(d) == 2 * d
Days == Last \div 2       \* days that close
NoTag == 0      \* a tag stands for the take-profit price of a lot
NoRef == 0      \* entered by hand

VARIABLES
    now,
    pf,         \* "none", "open", "deleted"
    txs,        \* trade_transactions: [id, kind, qty, price, at, tag, ref, realized]
    lots,       \* position_lots: [id, qty, price, at, tag]
    nextTx, nextLot,
    filled,     \* at the broker: shares of each order executed so far
    snaps,      \* portfolio_snapshots: per day [stock, cash], or NoSnap
    req,        \* per request, see Idle
    raced,      \* history: two requests that rewrite lots have overlapped
    backdated,  \* history: a trade was entered before others, and no replay since
    early       \* history: orders imported before the close of their day
history == <<raced, backdated, early>>
ledger == <<txs, lots, nextTx, nextLot>>
vars == <<now, pf, ledger, filled, snaps, req, history>>

NoSnap == [stock |-> -1, cash |-> 0]    \* none, or one that nothing promises to be right
Idle == [op |-> "idle",
         tx |-> {},         \* the transaction it adds or deletes, those it imports
         held |-> {},       \* the lots it read
         made |-> {},       \* and those it makes of them
         gain |-> {},       \* new realized profit of a sell: <<id, profit>>
         alone |-> TRUE,    \* no other rewrote the lots since it read them
         behind |-> {}]     \* rebuilds it waits for
\* Requests that rewrite the lots they have read.
Rewriting == {r \in Req : req[r].op \in {"sell", "delete", "import"}}
Today == DayOf(now)

-----------------------------------------------------------------------------
(* Sums over transactions and lots. *)

Amount(t) == t.qty * t.price
Signed(t) == IF t.kind \in {"deposit", "sell"} THEN Amount(t) ELSE -Amount(t)
Cash(T) == MapThenSumSet(Signed, T)
Qty(l) == l.qty
Holding(L) == MapThenSumSet(Qty, L)
Cost(L) == MapThenSumSet(Amount, L)
OfKind(T, K) == {t \in T : t.kind \in K}
Realized(T) == LET gain(t) == t.realized IN MapThenSumSet(gain, OfKind(T, {"sell"}))
Principal(T) == Cash(OfKind(T, {"deposit", "withdraw"}))
NetBought(T) == Holding(OfKind(T, {"buy"})) - Holding(OfKind(T, {"sell"}))

Earlier(a, b) == a.at < b.at \/ (a.at = b.at /\ a.id < b.id)

\* Folds the transactions of T in the order of their execution.
InOrder(Step(_, _), start, T) ==
    LET nth(n) == CHOOSE t \in T : Cardinality({u \in T : Earlier(u, t)}) = n - 1
        after[n \in 0..Cardinality(T)] ==
            IF n = 0 THEN start ELSE Step(after[n - 1], nth(n))
    IN  after[Cardinality(T)]

\* The outcome of selling against L: lots opened by then, the preferred ones
\* first, each group first in first out.  Selling more than is held empties them.
Sale(L, t, preferred) ==
    LET open == {l \in L : l.at <= t.at}
        Ahead(m, l) == \/ m \in preferred /\ l \notin preferred
                       \/ (m \in preferred <=> l \in preferred) /\ Earlier(m, l)
        Before(l) == Holding({m \in open : Ahead(m, l)})
        taken == [l \in open |-> Max({0, Min({l.qty, t.qty - Before(l)})})]
        gain(l) == (t.price - l.price) * taken[l]
    IN  [held |-> Holding(open),
         lots |-> {l \in (L \ open) \cup {[l EXCEPT !.qty = @ - taken[l]] : l \in open} :
                        l.qty > 0},
         realized |-> MapThenSumSet(gain, open)]

LotOf(id, t, tag) == [id |-> id, qty |-> t.qty, price |-> t.price, at |-> t.at, tag |-> tag]

(***************************************************************************)
(* Replaying a set of transactions in the order of their execution.  ok     *)
(* turns FALSE where the code refuses: a sell of more than is held          *)
(* (sellsOk) or a withdrawal of more than the cash of that moment.          *)
(***************************************************************************)
NoTrades(first) == [lots |-> {}, next |-> first, cash |-> 0, gain |-> {},
                    ok |-> TRUE, sellsOk |-> TRUE]

Replayed(r, t) ==
    LET paid == [r EXCEPT !.cash = @ + Signed(t)]
        sale == Sale(r.lots, t, {})
        covered == t.qty <= sale.held
    IN  CASE t.kind = "deposit"  -> paid
          [] t.kind = "withdraw" -> [paid EXCEPT !.ok = @ /\ paid.cash >= 0]
          [] t.kind = "buy"      -> [paid EXCEPT !.lots = @ \cup {LotOf(r.next, t, NoTag)},
                                                 !.next = @ + 1]
          [] t.kind = "sell"     -> [paid EXCEPT !.lots = sale.lots,
                                                 !.gain = @ \cup {<<t.id, sale.realized>>},
                                                 !.ok = @ /\ covered,
                                                 !.sellsOk = @ /\ covered]

Replay(T, first) == InOrder(Replayed, NoTrades(first), T)

\* Mutant: a replay rebuilds the lots and leaves the profits alone.
RegainedNothing(T, gain) == {}

\* The realized profits a replay changes.
Regained(T, gain) == {g \in gain : \E t \in T : t.id = g[1] /\ t.realized # g[2]}
Revalued(T, gain) ==
    {[t EXCEPT !.realized = IF \E g \in gain : g[1] = t.id
                            THEN (CHOOSE g \in gain : g[1] = t.id)[2] ELSE @] : t \in T}

\* The state before a cutoff as the order sheet and the snapshot repair see it:
\* a sell tagged with a take-profit price takes the lots of that price first.
Rebuilt(r, t) ==
    LET sale == Sale(r.lots, t, {l \in r.lots : t.tag # NoTag /\ l.tag = t.tag})
    IN  CASE t.kind = "buy"  -> [r EXCEPT !.lots = @ \cup {LotOf(t.id, t, t.tag)}]
          [] t.kind = "sell" -> [r EXCEPT !.lots = sale.lots]
          [] OTHER           -> r

StateBefore(cutoff) ==
    LET T == {t \in txs : t.at < cutoff}
    IN  [lots |-> InOrder(Rebuilt, [lots |-> {}], T).lots, cash |-> Cash(T)]

-----------------------------------------------------------------------------
(* Snapshots. *)

\* Mutant: valued by the bar of the day that has not closed.
EarlyClose == ClosePrice[Min({Days, (now + 1) \div 2 - 1})]
\* The last close known now: that of yesterday until the market has closed.
LastClose == ClosePrice[now \div 2]
Valued(L, T) == [stock |-> Holding(L) * LastClose, cash |-> Cash(T)]

\* What a past day's snapshot has to show.
AsOf(d) == LET s == StateBefore(AtClose(d) + 1)
           IN  [stock |-> Holding(s.lots) * ClosePrice[d], cash |-> s.cash]

\* The snapshots after a change of what was executed from some day on.  Those days
\* are not taken again, but for today if the request does it (compute_user_snapshot
\* over the ledger as it stands after it), and that is final once the close is known.
Snapped(from, taken) ==
    snaps' = [d \in 1..Days |->
        IF d = Today /\ taken /\ now = AtClose(d) /\ ~raced' THEN Valued(lots', txs')
        ELSE IF d \in from..Today \/ (d = Today /\ taken) THEN NoSnap ELSE snaps[d]]

-----------------------------------------------------------------------------
(* The portfolio. *)

\* create_portfolio, or the default portfolio of the first request.
Create ==
    /\ pf = "none"
    /\ pf' = "open"
    /\ UNCHANGED <<now, ledger, filled, snaps, req, history>>

\* create_from_backtest, of a backtest up to some day that has closed: one deposit of
\* cash and cost at the end of it, and a purchase per lot at its own date, oldest first.
CreateFromBacktest ==
    /\ pf = "none" /\ Seed # {}
    /\ Cardinality(Seed) < MaxTx
    /\ pf' = "open"
    /\ \E d \in 1..now \div 2, rank \in [Seed -> 1..Cardinality(Seed)] :
        LET deposit == [id |-> 1, kind |-> "deposit", qty |-> SeedCash + Cost(Seed), price |-> 1,
                        at |-> AtClose(d), tag |-> NoTag, ref |-> NoRef, realized |-> 0]
        IN  /\ \A s \in Seed : s.at <= AtClose(d)
            /\ \A s, u \in Seed : s # u => rank[s] # rank[u] /\ (s.at < u.at => rank[s] < rank[u])
            /\ txs' = {deposit} \cup
                      {[id |-> rank[s] + 1, kind |-> "buy", qty |-> s.qty, price |-> s.price,
                        at |-> s.at, tag |-> NoTag, ref |-> NoRef, realized |-> 0] : s \in Seed}
            /\ lots' = {LotOf(rank[s], s, NoTag) : s \in Seed}
    /\ nextTx' = Cardinality(Seed) + 2
    /\ nextLot' = Cardinality(Seed) + 1
    /\ UNCHANGED <<now, filled, snaps, req, history>>

\* delete_portfolio: transactions and lots go, the snapshots by cascade, and what is
\* in flight fails on the missing portfolio.
DeletePortfolio ==
    /\ pf = "open"
    /\ pf' = "deleted"
    /\ txs' = {} /\ lots' = {}
    /\ snaps' = [d \in 1..Days |-> NoSnap]
    /\ req' = [r \in Req |-> Idle]
    /\ UNCHANGED <<now, nextTx, nextLot, filled, history>>

-----------------------------------------------------------------------------
(* register_transaction. *)

NewTx(kind, qty, price, at, tag) ==
    [id |-> nextTx, kind |-> kind, qty |-> qty, price |-> price, at |-> at,
     tag |-> tag, ref |-> NoRef, realized |-> 0]

Later(at) == \E t \in OfKind(txs, {"buy", "sell"}) : t.at > at

\* Bound: after a race only the rebuilds that can end it are looked at.
Explored == ~raced

\* Others in flight learn of a change of the lots made under them.
Disturb(others) ==
    [x \in Req |-> IF x \in Rewriting \cap others THEN [req[x] EXCEPT !.alone = FALSE] ELSE req[x]]

\* Deposits and purchases depend on nothing they read.  A withdrawal may not exceed
\* the cash of now, whatever its date; that two at once can is left out (no property
\* here bounds the cash).  So these are one step each.
Register(r) ==
    /\ pf = "open" /\ req[r] = Idle /\ nextTx <= MaxTx /\ Explored
    /\ \E at \in {d \in Dates : d <= now} :
        /\ \/ /\ \E a \in Amounts :
                    \/ txs' = txs \cup {NewTx("deposit", a, 1, at, NoTag)}
                    \/ a <= Cash(txs) /\ txs' = txs \cup {NewTx("withdraw", a, 1, at, NoTag)}
              /\ UNCHANGED <<lots, nextLot, backdated, req>>
           \/ \E b \in {x \in Trades : x.kind = "buy"} :
                LET t == NewTx("buy", b.qty, b.price, at, b.tag)
                IN  /\ nextLot <= MaxLot
                    /\ txs' = txs \cup {t}
                    /\ lots' = lots \cup {LotOf(nextLot, t, NoTag)}
                    /\ nextLot' = nextLot + 1
                    /\ backdated' = (backdated \/ Later(at))
                    /\ req' = Disturb(Req)
        /\ UNCHANGED raced
        /\ Snapped(DayOf(at), TRUE)
    /\ nextTx' = nextTx + 1
    /\ UNCHANGED <<now, pf, filled, early>>

\* A request that will rewrite what it has read starts: it and those in flight overlap.
Begun(r, q) ==
    req' = [x \in Req |-> IF x = r THEN [q EXCEPT !.alone = (Rewriting = {})]
                          ELSE Disturb(Req)[x]]

\* Mutant: the sheet's preference for tagged lots at registration.
BeginTaggedSell(r) ==
    /\ pf = "open" /\ req[r] = Idle /\ Explored
    /\ \E s \in {x \in Trades : x.kind = "sell"}, at \in {d \in Dates : d <= now} :
        LET t == [NewTx("sell", s.qty, s.price, at, s.tag) EXCEPT !.id = 0]
            sale == Sale(lots, t, {l \in lots : \E u \in txs : u.tag = t.tag /\ u.at = l.at})
        IN  /\ t.qty <= sale.held
            /\ Begun(r, [Idle EXCEPT !.op = "sell", !.held = lots, !.made = sale.lots,
                                     !.tx = {[t EXCEPT !.realized = sale.realized]}])
    /\ UNCHANGED <<now, pf, ledger, filled, snaps, history>>

\* A sell may not exceed the lots opened by its date.
BeginSell(r) ==
    /\ pf = "open" /\ req[r] = Idle /\ Explored
    /\ \E s \in {x \in Trades : x.kind = "sell"}, at \in {d \in Dates : d <= now} :
        LET t == [NewTx("sell", s.qty, s.price, at, s.tag) EXCEPT !.id = 0]
            sale == Sale(lots, t, {})
        IN  /\ t.qty <= sale.held
            /\ Begun(r, [Idle EXCEPT !.op = "sell", !.held = lots, !.made = sale.lots,
                                     !.tx = {[t EXCEPT !.realized = sale.realized]}])
    /\ UNCHANGED <<now, pf, ledger, filled, snaps, history>>

Ids(S) == {x.id : x \in S}
\* Lots a sell read and found changed: updated to a new quantity, or deleted.
Touched(r) == Ids(req[r].held \ req[r].made)
Updated(r) == req[r].made \ req[r].held

\* A rebuild holds the rows it has deleted until it commits.
Blocked(r) ==
    \E x \in Req \ {r} : /\ req[x].op \in {"delete", "import"}
                         /\ Ids(req[x].held) \cap Touched(r) \cap Ids(lots) # {}

\* Quantities are written as computed from the lots read (no lock, no compare).
CommitSell(r) ==
    /\ pf = "open" /\ req[r].op = "sell" /\ ~Blocked(r) /\ nextTx <= MaxTx
    /\ Ids(Updated(r)) \subseteq Ids(lots)
    /\ txs' = txs \cup {[t EXCEPT !.id = nextTx] : t \in req[r].tx}
    /\ nextTx' = nextTx + 1
    /\ lots' = {l \in lots : l.id \notin Touched(r)} \cup Updated(r)
    /\ req' = [Disturb(Req) EXCEPT ![r] = Idle]
    /\ raced' = (raced \/ ~req[r].alone)
    /\ \A t \in req[r].tx : /\ backdated' = (backdated \/ Later(t.at))
                            /\ Snapped(DayOf(t.at), TRUE)
    /\ UNCHANGED <<now, pf, nextLot, filled, early>>

-----------------------------------------------------------------------------
(* _rebuild_ledger, after a deletion or an import. *)

\* Reads the transactions, deletes the lots it can see, and stops unless all of
\* it can be replayed.  It waits behind a rebuild that has deleted the same rows.
BeginRebuild(r, op, tx, T) ==
    LET done == Replay(T, nextLot)
    IN  /\ done.ok
        /\ done.next <= MaxLot + 1
        /\ nextLot' = done.next
        /\ Begun(r, [Idle EXCEPT !.op = op, !.tx = tx, !.held = lots, !.made = done.lots,
                        !.gain = Regained(T, done.gain),
                        !.behind = {x \in Req : /\ req[x].op \in {"delete", "import"}
                                                /\ Ids(req[x].held) \cap Ids(lots) # {}}])

\* delete_transaction.
BeginDelete(r) ==
    /\ pf = "open" /\ req[r] = Idle
    /\ \E t \in txs : BeginRebuild(r, "delete", {t}, txs \ {t})
    /\ UNCHANGED <<now, pf, txs, lots, nextTx, filled, snaps, history>>

\* Mutant: only order numbers above the last known one are imported.
NewerOrders == {o \in Order : filled[o] > 0 /\ \A t \in txs : t.ref < o}

\* import_fills_for_portfolio: executions whose number is not known yet, each
\* dated 15:30 of its day, in the order of their numbers.
Unknown == {o \in Order : filled[o] > 0 /\ ~\E t \in txs : t.ref = o}

Imported(o) ==
    [id |-> nextTx + Cardinality({p \in Unknown : p < o}), kind |-> Execution[o].kind,
     qty |-> filled[o], price |-> Execution[o].price, at |-> AtClose(Execution[o].day),
     tag |-> Execution[o].tag, ref |-> o, realized |-> 0]

BeginImport(r) ==
    /\ pf = "open" /\ req[r] = Idle
    /\ nextTx + Cardinality(Unknown) <= MaxTx + 1
    /\ LET new == {Imported(o) : o \in Unknown}
       IN  BeginRebuild(r, "import", new, txs \cup new)
    /\ nextTx' = nextTx + Cardinality(Unknown)
    /\ early' = early \cup {o \in Unknown : now < AtClose(Execution[o].day)}
    /\ UNCHANGED <<now, pf, txs, lots, filled, snaps, raced, backdated>>

Added(r) == IF req[r].op = "import" THEN req[r].tx ELSE {}
Gone(r) == IF req[r].op = "delete" THEN Ids(req[r].tx) ELSE {}

\* Mutant: no unique index on the order number.
ConflictGoneRows(r) == \E g \in req[r].gain : g[1] \notin Ids(txs \cup Added(r))

\* The commit fails on a known order number (unique index) or on a sell whose
\* profit it sets and whose row is gone by now.
Conflict(r) ==
    \/ \E t \in Added(r), u \in txs : t.ref = u.ref
    \/ \E g \in req[r].gain : g[1] \notin Ids(txs \cup Added(r))

CommitRebuild(r) ==
    /\ pf = "open" /\ req[r].op \in {"delete", "import"}
    /\ req[r].behind = {} /\ ~Conflict(r)
    /\ txs' = Revalued({t \in txs : t.id \notin Gone(r)} \cup Added(r), req[r].gain)
    /\ lots' = {l \in lots : l.id \notin Ids(req[r].held)} \cup req[r].made
    /\ req' = [x \in Req |-> IF x = r THEN Idle
                             ELSE [Disturb(Req)[x] EXCEPT !.behind = @ \ {r}]]
    /\ raced' = ~req[r].alone
    /\ backdated' = ~req[r].alone
    /\ Snapped(Min({DayOf(t.at) : t \in req[r].tx} \cup {Today + 1}), req[r].op = "delete")
    /\ UNCHANGED <<now, pf, nextTx, nextLot, filled, early>>

\* The request fails and is rolled back: a row it updates is missing, or an execution is there already.
Fail(r) ==
    /\ req[r] # Idle
    /\ \/ req[r].op = "sell" /\ ~Blocked(r) /\ ~(Ids(Updated(r)) \subseteq Ids(lots))
       \/ req[r].op \in {"delete", "import"} /\ req[r].behind = {} /\ Conflict(r)
    /\ req' = [x \in Req |-> IF x = r THEN Idle ELSE [req[x] EXCEPT !.behind = @ \ {r}]]
    /\ UNCHANGED <<now, pf, ledger, filled, snaps, history>>

-----------------------------------------------------------------------------
(* Snapshots of the dashboard and the evening batch, and their repair. *)

TakeSnapshot ==
    /\ pf = "open"
    /\ UNCHANGED <<now, pf, ledger, filled, req, history>>
    /\ Snapped(Today + 1, TRUE)

\* recompute_snapshots_asof of a past day.
Repair ==
    /\ pf = "open"
    /\ \E d \in 1..Min({Today - 1, Days}) : snaps' = [snaps EXCEPT ![d] = AsOf(d)]
    /\ UNCHANGED <<now, pf, ledger, filled, req, history>>

-----------------------------------------------------------------------------
(* Outside: the market and the clock. *)

Fill(o) ==
    /\ DayOf(now) = Execution[o].day /\ now < AtClose(Today)
    /\ filled[o] < Execution[o].qty
    /\ filled' = [filled EXCEPT ![o] = @ + 1]
    /\ UNCHANGED <<now, pf, ledger, snaps, req, history>>

Tick ==
    /\ now < Last
    /\ now' = now + 1
    /\ UNCHANGED <<pf, ledger, filled, snaps, req, history>>

Init ==
    /\ now = 1 /\ pf = "none"
    /\ txs = {} /\ lots = {} /\ nextTx = 1 /\ nextLot = 1
    /\ filled = [o \in Order |-> 0]
    /\ snaps = [d \in 1..Days |-> NoSnap]
    /\ req = [r \in Req |-> Idle]
    /\ raced = FALSE /\ backdated = FALSE /\ early = {}

Request(r) ==
    \/ Register(r)
    \/ BeginSell(r) \/ CommitSell(r)
    \/ BeginDelete(r) \/ BeginImport(r) \/ CommitRebuild(r)
    \/ Fail(r)

Next ==
    \/ Create \/ CreateFromBacktest \/ DeletePortfolio
    \/ \E r \in Req : Request(r)
    \/ TakeSnapshot \/ Repair
    \/ \E o \in Order : Fill(o)
    \/ Tick

Spec == Init /\ [][Next]_vars

-----------------------------------------------------------------------------
(* The equity curve: _daily_series of the days that have closed. *)

\* Mutant: the inflow taken for granted is not counted among the flows.
SeriesUncounted ==
    LET day(d) == {t \in txs : DayOf(t.at) = d}
        upTo(d) == {t \in txs : DayOf(t.at) <= d}
        s[d \in 0..Days] ==
            IF d = 0 THEN [cash |-> 0, value |-> 0, paid |-> 0]
            ELSE LET cash == Max({0, s[d-1].cash + Cash(day(d))})
                 IN  [cash |-> cash,
                      value |-> cash + NetBought(upTo(d)) * ClosePrice[d],
                      paid |-> s[d-1].paid + Principal(day(d))]
    IN  s

\* Cash below zero is taken for money from outside and starts again at zero.
\* paid sums the flows up to the day (cum_flow).
Series ==
    LET day(d) == {t \in txs : DayOf(t.at) = d}
        upTo(d) == {t \in txs : DayOf(t.at) <= d}
        s[d \in 0..Days] ==
            IF d = 0 THEN [cash |-> 0, value |-> 0, paid |-> 0]
            ELSE LET cash == s[d-1].cash + Cash(day(d))
                     shown == Max({cash, 0})
                 IN  [cash |-> shown,
                      value |-> shown + NetBought(upTo(d)) * ClosePrice[d],
                      paid |-> s[d-1].paid + Principal(day(d)) + (shown - cash)]
    IN  s

-----------------------------------------------------------------------------
(* Properties. *)

TypeOK ==
    /\ now \in 1..Last /\ pf \in {"none", "open", "deleted"}
    /\ nextTx \in 1..MaxTx + 1 /\ nextLot \in Nat \ {0}
    /\ \A t \in txs : /\ t.id \in 1..nextTx - 1 /\ t.at \in 1..Last + 1
                      /\ t.kind \in {"deposit", "withdraw", "buy", "sell"}
                      /\ t.ref \in Order \cup {NoRef} /\ t.realized \in Int
    /\ \A l \in lots : l.id \in 1..nextLot - 1 /\ l.qty > 0
    /\ \A r \in Req : req[r].op \in {"idle", "sell", "delete", "import"}
    /\ early \subseteq Order
    /\ \A d \in 1..Days : snaps[d] # NoSnap => d <= Today

\* An execution of the broker is in the ledger at most once, however its imports
\* overlap ("주문번호:일자" is unique, import_fills).
FillOnce == \A t, u \in txs : t.ref = u.ref /\ t.ref # NoRef => t = u

\* As long as no two requests rewrote the lots at once, the open lots hold what
\* was bought and not sold, whichever of registration, deletion and import wrote
\* them and in whatever order of dates.
HoldingIsNet == ~raced => Holding(lots) = NetBought(txs)

\* And money is neither made nor lost by the accounting: cash and the cost of the
\* open lots are what was paid in plus what the sells realized (the sums
\* portfolio_summary shows).
BooksBalance == HoldingIsNet /\ (~raced => Cash(txs) + Cost(lots) = Principal(txs) + Realized(txs))

\* A sell once accepted never stops a later deletion or import, entered out of
\* order or not: a replay of the ledger always finds the shares it sells.
SellsReplay == ~raced => Replay(txs, 1).sellsOk

\* Registering trades one by one in the order of their dates leaves the lots and
\* the realized profits a replay of all of them gives, and a replay is always possible.
IncrementalIsReplay ==
    /\ SellsReplay
    /\ ~raced /\ ~backdated =>
        LET r == Replay(txs, 1)
            Shape(L) == {<<l.qty, l.price, l.at>> : l \in L}
        IN  /\ Shape(lots) = Shape(r.lots) /\ Holding(lots) = Holding(r.lots)
            /\ Revalued(txs, r.gain) = txs

\* The snapshot of a past day shows the ledger as it was executed by that day,
\* unless a later entry, deletion or import reached back to it, it was last taken
\* before the close, or two requests raced.
SnapshotsTrue ==
    \A d \in 1..Min({Today - 1, Days}) : snaps[d] # NoSnap => snaps[d] = AsOf(d)

Closed == now \div 2
AllClosed == \A t \in txs : DayOf(t.at) <= Closed

Equity == Cash(txs) + NetBought(txs) * ClosePrice[Closed]

\* The profit of the curve (its value less what was paid in) is that of the summary,
\* although cash below zero is taken for an inflow and whatever the order of entry.
PnlCurve ==
    AllClosed => Series[Closed].value - Series[Closed].paid = Equity - Principal(txs)

\* What the screens show of the past, the snapshots and the curve, is what was executed.
HistoryTrue == SnapshotsTrue /\ PnlCurve

\* An import sees every execution that is not in the ledger yet, and leaves each in
\* it when it ends, with the whole quantity unless it was made before the close.
ImportIsComplete ==
    [][\A r \in Req :
        /\ req[r] = Idle /\ req'[r].op = "import" =>
            \A o \in Order : filled[o] > 0 => \E t \in txs \cup req'[r].tx : t.ref = o
        /\ req[r].op = "import" /\ req'[r] = Idle /\ lots' # lots /\ pf' = "open" =>
            \A t \in req[r].tx : \E u \in txs' :
                u.ref = t.ref /\ (u.qty = filled[t.ref] \/ t.ref \in early)]_vars

=============================================================================
