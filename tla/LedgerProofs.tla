------------------------------ MODULE LedgerProofs ------------------------------
(***************************************************************************)
(* Three results about the ledger.  An execution enters it once, and        *)
(* completely (FillInv).  Lots, transactions and snapshots agree as long as *)
(* no two requests rewrite the lots at once: shares and cash balance, every *)
(* sell had its shares and a past day shows what its transactions make of   *)
(* it (LedgerInv).  And the lots that trades leave one by one are those a   *)
(* replay of all of them makes (ReplayInv).                                 *)
(***************************************************************************)
EXTENDS Ledger, Sums, TLAPS

\* Rows and requests are records, of which these fields matter here.
Fields(t) == {"ref", "qty"} \subseteq DOMAIN t
Work(q) == "op" \in DOMAIN q /\ "tx" \in DOMAIN q

RowsWhole == \A t \in txs : Fields(t)
\* What a request is to add: an import one row per order, anything else rows entered by hand.
Pending(r) ==
    /\ Work(req[r])
    /\ \A t \in req[r].tx : Fields(t)
    /\ req[r].op = "import" => \A t, u \in req[r].tx : t.ref = u.ref => t = u
    /\ req[r].op = "sell" => \A t \in req[r].tx : t.ref = NoRef

FillInv == /\ RowsWhole /\ DOMAIN req = Req /\ \A r \in Req : Pending(r)
           /\ FillOnce

-----------------------------------------------------------------------------
\* The requests may be disturbed or go on waiting: what they are to add stays.
LEMMA RequestsKeep ==
    ASSUME FillInv, DOMAIN req' = Req,
           \A r \in Req : \/ req'[r] = Idle
                          \/ /\ Work(req'[r])
                             /\ req'[r].op = req[r].op /\ req'[r].tx = req[r].tx
    PROVE  \A r \in Req : Pending(r)'
<1> SUFFICES ASSUME NEW r \in Req PROVE Pending(r)'
  OBVIOUS
<1>1. CASE req'[r] = Idle
  BY <1>1 DEF Pending, Idle, Work
<1>2. CASE Work(req'[r]) /\ req'[r].op = req[r].op /\ req'[r].tx = req[r].tx
  BY <1>2 DEF Pending, FillInv
<1> QED BY <1>1, <1>2

\* A request that has begun is disturbed by others.
LEMMA DisturbKeeps ==
    ASSUME FillInv, NEW S, NEW r \in Req
    PROVE  /\ DOMAIN Disturb(S) = Req /\ Work(Disturb(S)[r])
           /\ Disturb(S)[r].op = req[r].op /\ Disturb(S)[r].tx = req[r].tx
<1>1. Work(req[r])
  BY DEF FillInv, Pending
<1> QED BY <1>1 DEF Disturb, Work

\* One more row, with no order number.
LEMMA AddedByHand ==
    ASSUME FillInv, NEW t, Fields(t), t.ref = NoRef, txs' = txs \cup {t}
    PROVE  RowsWhole' /\ FillOnce'
BY DEF FillInv, RowsWhole, FillOnce

\* A new profit leaves the rest of a row.
LEMMA RevaluedRow ==
    ASSUME NEW T, NEW gain, \A t \in T : Fields(t)
    PROVE  /\ \A v \in Revalued(T, gain) : Fields(v) /\ \E t \in T : v.ref = t.ref
           /\ (\A t, u \in T : t.ref = u.ref /\ t.ref # NoRef => t = u)
                => \A v, w \in Revalued(T, gain) : v.ref = w.ref /\ v.ref # NoRef => v = w
<1> DEFINE profit(t) == IF \E g \in gain : g[1] = t.id
                        THEN (CHOOSE g \in gain : g[1] = t.id)[2] ELSE t.realized
           new(t) == [t EXCEPT !.realized = profit(t)]
<1>1. Revalued(T, gain) = {new(t) : t \in T}
  BY DEF Revalued
<1>2. \A t \in T : Fields(new(t)) /\ new(t).ref = t.ref
  <2> HIDE DEF profit
  <2> QED BY DEF Fields
<1> HIDE DEF new
<1> QED BY <1>1, <1>2

-----------------------------------------------------------------------------
\* A request that begins has to add what it read, and leaves what others are to add.
LEMMA BeginKeeps ==
    ASSUME FillInv, NEW r \in Req, NEW q, Begun(r, q), Work(q),
           \A t \in q.tx : Fields(t),
           q.op = "import" => \A t, u \in q.tx : t.ref = u.ref => t = u,
           q.op = "sell" => \A t \in q.tx : t.ref = NoRef
    PROVE  DOMAIN req' = Req /\ \A x \in Req : Pending(x)'
<1>1. req' = [x \in Req |-> IF x = r THEN [q EXCEPT !.alone = (Rewriting = {})] ELSE Disturb(Req)[x]]
  BY DEF Begun
<1>2. Pending(r)'
  BY <1>1 DEF Pending, Work
<1>3. ASSUME NEW x \in Req, x # r PROVE Pending(x)'
  BY <1>1, <1>3, DisturbKeeps DEF Pending, FillInv
<1> QED BY <1>1, <1>2, <1>3

\* A row entered by hand has no order number.
LEMMA RegisterOnce ==
    ASSUME FillInv, NEW r \in Req, Register(r)
    PROVE  FillInv'
<1>1. PICK kind, qty, price, at, tag : txs' = txs \cup {NewTx(kind, qty, price, at, tag)}
  BY DEF Register
<1>2. Fields(NewTx(kind, qty, price, at, tag)) /\ NewTx(kind, qty, price, at, tag).ref = NoRef
  BY DEF NewTx, Fields
<1>3. RowsWhole' /\ FillOnce'
  BY <1>1, <1>2, AddedByHand
<1>4. req' = req \/ req' = Disturb(Req)
  BY DEF Register
<1>5. DOMAIN req' = Req
  BY <1>4 DEF FillInv, Disturb
<1>6. \A x \in Req : Work(req'[x]) /\ req'[x].op = req[x].op /\ req'[x].tx = req[x].tx
  BY <1>4, DisturbKeeps DEF FillInv, Pending
<1> QED BY <1>3, <1>5, <1>6, RequestsKeep DEF FillInv

\* Nor has a sell, and it adds nothing else.
LEMMA BeginSellOnce ==
    ASSUME FillInv, NEW r \in Req, BeginSell(r)
    PROVE  FillInv'
<1>1. PICK s \in Trades, at \in Dates :
        LET t == [NewTx("sell", s.qty, s.price, at, s.tag) EXCEPT !.id = 0]
            sale == Sale(lots, t, {})
        IN  Begun(r, [Idle EXCEPT !.op = "sell", !.held = lots, !.made = sale.lots,
                                  !.tx = {[t EXCEPT !.realized = sale.realized]}])
  BY DEF BeginSell
<1> DEFINE t == [NewTx("sell", s.qty, s.price, at, s.tag) EXCEPT !.id = 0]
           sale == Sale(lots, t, {})
           q == [Idle EXCEPT !.op = "sell", !.held = lots, !.made = sale.lots,
                             !.tx = {[t EXCEPT !.realized = sale.realized]}]
<1>2. Begun(r, q)
  BY <1>1
<1>3. Work(q) /\ q.op = "sell" /\ q.tx = {[t EXCEPT !.realized = sale.realized]}
  <2> HIDE DEF t, sale
  <2> QED BY DEF Idle, Work
<1>4. Fields([t EXCEPT !.realized = sale.realized]) /\ [t EXCEPT !.realized = sale.realized].ref = NoRef
  <2> HIDE DEF sale
  <2> QED BY DEF NewTx, Fields
<1>5. UNCHANGED txs
  BY DEF BeginSell, ledger
<1> HIDE DEF q, t, sale
<1>6. DOMAIN req' = Req /\ \A x \in Req : Pending(x)'
  BY <1>2, <1>3, <1>4, BeginKeeps
<1> QED BY <1>5, <1>6 DEF FillInv, RowsWhole, FillOnce

\* A rebuild begins.
LEMMA RebuildBegins ==
    ASSUME FillInv, NEW r \in Req, NEW op \in {"delete", "import"}, NEW tx, NEW T, BeginRebuild(r, op, tx, T),
           \A t \in tx : Fields(t), op = "import" => \A t, u \in tx : t.ref = u.ref => t = u
    PROVE  DOMAIN req' = Req /\ \A x \in Req : Pending(x)'
<1>1. PICK made, gain, behind :
        Begun(r, [Idle EXCEPT !.op = op, !.tx = tx, !.held = lots, !.made = made, !.gain = gain, !.behind = behind])
  BY DEF BeginRebuild
<1> DEFINE q == [Idle EXCEPT !.op = op, !.tx = tx, !.held = lots, !.made = made, !.gain = gain, !.behind = behind]
<1>2. Work(q) /\ q.op = op /\ q.tx = tx
  BY DEF Idle, Work
<1>3. Begun(r, q)
  BY <1>1
<1> HIDE DEF q
<1> QED BY <1>2, <1>3, BeginKeeps

\* An import reads each execution once.
LEMMA BeginImportOnce ==
    ASSUME FillInv, NEW r \in Req, BeginDelete(r) \/ BeginImport(r)
    PROVE  FillInv'
<1>1. UNCHANGED txs
  BY DEF BeginDelete, BeginImport
<1>2. CASE BeginDelete(r)
  <2>1. PICK t \in txs : BeginRebuild(r, "delete", {t}, txs \ {t})
    BY <1>2 DEF BeginDelete
  <2>2. \A u \in {t} : Fields(u)
    BY DEF FillInv, RowsWhole
  <2>3. DOMAIN req' = Req /\ \A x \in Req : Pending(x)'
    BY <2>1, <2>2, RebuildBegins
  <2> QED BY <1>1, <2>3 DEF FillInv, RowsWhole, FillOnce
<1>3. CASE BeginImport(r)
  <2> DEFINE new == {Imported(o) : o \in Unknown}
  <2>1. BeginRebuild(r, "import", new, txs \cup new)
    BY <1>3 DEF BeginImport
  <2>2. \A o : Fields(Imported(o)) /\ Imported(o).ref = o
    BY DEF Fields, Imported
  <2>3. \A t \in new : Fields(t)
    BY <2>2
  <2>4. \A t, u \in new : t.ref = u.ref => t = u
    BY <2>2
  <2> HIDE DEF new
  <2>5. DOMAIN req' = Req /\ \A x \in Req : Pending(x)'
    BY <2>1, <2>3, <2>4, RebuildBegins
  <2> QED BY <1>1, <2>5 DEF FillInv, RowsWhole, FillOnce
<1> QED BY <1>2, <1>3

\* A sell adds the row it was to add.
LEMMA CommitSellOnce ==
    ASSUME FillInv, NEW r \in Req, CommitSell(r)
    PROVE  FillInv'
<1>1. /\ txs' = txs \cup {[t EXCEPT !.id = nextTx] : t \in req[r].tx}
      /\ req' = [Disturb(Req) EXCEPT ![r] = Idle]
      /\ req[r].op = "sell"
  BY DEF CommitSell
<1>2. \A t \in req[r].tx : Fields(t) /\ t.ref = NoRef
  BY <1>1 DEF FillInv, Pending
<1>3. \A v \in {[t EXCEPT !.id = nextTx] : t \in req[r].tx} : Fields(v) /\ v.ref = NoRef
  BY <1>2 DEF Fields
<1>4. RowsWhole' /\ FillOnce'
  BY <1>1, <1>3 DEF FillInv, RowsWhole, FillOnce
<1>5. DOMAIN req' = Req /\ \A x \in Req : IF x = r THEN req'[x] = Idle ELSE req'[x] = Disturb(Req)[x]
  BY <1>1, DisturbKeeps
<1>6. \A x \in Req : \/ req'[x] = Idle
                     \/ Work(req'[x]) /\ req'[x].op = req[x].op /\ req'[x].tx = req[x].tx
  BY <1>5, DisturbKeeps
<1> QED BY <1>4, <1>5, <1>6, RequestsKeep DEF FillInv

\* The commit of an import fails if a number it adds is known by then.
LEMMA CommitRebuildOnce ==
    ASSUME FillInv, NEW r \in Req, CommitRebuild(r)
    PROVE  FillInv'
<1> DEFINE T == {t \in txs : t.id \notin Gone(r)} \cup Added(r)
<1>1. /\ txs' = Revalued(T, req[r].gain) /\ ~Conflict(r)
      /\ req' = [x \in Req |-> IF x = r THEN Idle ELSE [Disturb(Req)[x] EXCEPT !.behind = @ \ {r}]]
  BY DEF CommitRebuild
<1>2. /\ \A t \in Added(r) : Fields(t)
      /\ \A t, u \in Added(r) : t.ref = u.ref => t = u
      /\ \A t \in Added(r), u \in txs : t.ref # u.ref
  BY <1>1 DEF FillInv, Pending, Added, Conflict
<1>3. /\ \A t \in T : Fields(t)
      /\ \A t, u \in T : t.ref = u.ref /\ t.ref # NoRef => t = u
  BY <1>2 DEF FillInv, RowsWhole, FillOnce
<1> HIDE DEF T
<1>4. RowsWhole' /\ FillOnce'
  BY <1>1, <1>3, RevaluedRow DEF RowsWhole, FillOnce
<1>5. DOMAIN req' = Req
  BY <1>1
<1>6. ASSUME NEW x \in Req
      PROVE  \/ req'[x] = Idle
             \/ Work(req'[x]) /\ req'[x].op = req[x].op /\ req'[x].tx = req[x].tx
  BY <1>1, DisturbKeeps DEF Work
<1> QED BY <1>4, <1>5, <1>6, RequestsKeep DEF FillInv

\* The request fails, the portfolio goes, the clock or the broker moves.
LEMMA OthersKeep ==
    ASSUME FillInv,
           \/ \E r \in Req : Fail(r)
           \/ Create \/ CreateFromBacktest \/ DeletePortfolio \/ TakeSnapshot \/ Repair
           \/ \E o \in Order : Fill(o)
           \/ Tick \/ UNCHANGED vars
    PROVE  FillInv'
<1>1. CASE UNCHANGED <<txs, req>>
  BY <1>1 DEF FillInv, RowsWhole, FillOnce, Pending
<1>2. CASE \E r \in Req : Fail(r)
  <2>1. PICK r \in Req : Fail(r)
    BY <1>2
  <2>2. UNCHANGED txs /\ req' = [x \in Req |-> IF x = r THEN Idle ELSE [req[x] EXCEPT !.behind = @ \ {r}]]
    BY <2>1 DEF Fail, ledger
  <2>3. ASSUME NEW x \in Req
        PROVE  \/ req'[x] = Idle
               \/ Work(req'[x]) /\ req'[x].op = req[x].op /\ req'[x].tx = req[x].tx
    BY <2>2 DEF FillInv, Pending, Work
  <2>4. DOMAIN req' = Req
    BY <2>2
  <2> QED BY <2>2, <2>3, <2>4, RequestsKeep DEF FillInv, RowsWhole, FillOnce
<1>3. CASE CreateFromBacktest
  <2>1. UNCHANGED req
    BY <1>3 DEF CreateFromBacktest
  <2>2. \A t \in txs' : Fields(t) /\ t.ref = NoRef
    <3> DEFINE row(id, kind, qty, price, at) ==
                 [id |-> id, kind |-> kind, qty |-> qty, price |-> price, at |-> at,
                  tag |-> NoTag, ref |-> NoRef, realized |-> 0]
    <3>1. PICK d, rank : txs' = {row(1, "deposit", SeedCash + Cost(Seed), 1, AtClose(d))} \cup
                                {row(rank[s] + 1, "buy", s.qty, s.price, s.at) : s \in Seed}
      BY <1>3 DEF CreateFromBacktest
    <3>2. \A id, kind, qty, price, at : /\ Fields(row(id, kind, qty, price, at))
                                       /\ row(id, kind, qty, price, at).ref = NoRef
      BY DEF Fields
    <3> HIDE DEF row
    <3> QED BY <3>1, <3>2
  <2> QED BY <2>1, <2>2 DEF FillInv, RowsWhole, FillOnce, Pending
<1>4. CASE DeletePortfolio
  <2>1. txs' = {} /\ req' = [r \in Req |-> Idle]
    BY <1>4 DEF DeletePortfolio
  <2> QED BY <2>1, RequestsKeep DEF FillInv, RowsWhole, FillOnce
<1> QED BY <1>1, <1>2, <1>3, <1>4 DEF Create, TakeSnapshot, Repair, Fill, Tick, vars, ledger

\* Every step keeps the executions apart.
LEMMA FillStep == FillInv /\ [Next]_vars => FillInv'
<1> SUFFICES ASSUME FillInv, [Next]_vars PROVE FillInv'
  OBVIOUS
<1>1. ASSUME NEW r \in Req, Request(r) PROVE FillInv'
  BY <1>1, RegisterOnce, BeginSellOnce, CommitSellOnce, BeginImportOnce, CommitRebuildOnce, OthersKeep
     DEF Request
<1> QED BY <1>1, OthersKeep DEF Next

\* However imports, deletions, sells and deposits of any number of requests overlap, an
\* execution of the broker is in the ledger once at most: what was read before another
\* import's commit fails on the unique order number (import_fills, broker.py:403).
THEOREM ExecutionsEnterOnce == Spec => []FillOnce
<1>1. Init => FillInv
  BY DEF Init, FillInv, RowsWhole, FillOnce, Pending, Idle, Work
<1>2. FillInv => FillOnce
  BY DEF FillInv
<1> QED BY <1>1, FillStep, <1>2, PTL DEF Spec

-----------------------------------------------------------------------------
\* What an import brings is the whole of what was executed, unless it was made before the
\* close of the day.
Whole(t) == /\ t.ref \in Order
            /\ \/ t.ref \in early
               \/ t.qty = filled[t.ref] /\ ~(now < AtClose(Execution[t.ref].day))
ImportInv == /\ FillInv /\ now \in Nat /\ DOMAIN filled = Order
             /\ \A r \in Req : req[r].op = "import" => \A t \in req[r].tx : Whole(t)

\* A request that begins to sell, and one that begins a rebuild.
LEMMA SellBegins ==
    ASSUME FillInv, NEW x \in Req, BeginSell(x)
    PROVE  \A r \in Req : IF r = x THEN req[r] = Idle /\ req'[r].op = "sell"
                          ELSE req'[r].op = req[r].op /\ req'[r].tx = req[r].tx
<1>1. PICK made, tx : Begun(x, [Idle EXCEPT !.op = "sell", !.held = lots, !.made = made, !.tx = tx])
  BY DEF BeginSell
<1>2. PICK q : q = [Idle EXCEPT !.op = "sell", !.held = lots, !.made = made, !.tx = tx]
  OBVIOUS
<1>3. q.op = "sell" /\ Work(q)
  BY <1>2 DEF Idle, Work
<1>4. \A r \in Req : req'[r] = IF r = x THEN [q EXCEPT !.alone = (Rewriting = {})] ELSE Disturb(Req)[r]
  BY <1>1, <1>2 DEF Begun
<1>5. [q EXCEPT !.alone = (Rewriting = {})].op = "sell"
  BY <1>3 DEF Work
<1>6. req[x] = Idle
  BY DEF BeginSell
<1>7. \A r \in Req : Disturb(Req)[r].op = req[r].op /\ Disturb(Req)[r].tx = req[r].tx
  BY DisturbKeeps
<1> QED BY <1>4, <1>5, <1>6, <1>7

\* A rebuild that begins, and the requests beside it.
LEMMA RebuildIs ==
    ASSUME FillInv, NEW x \in Req, NEW op, NEW tx, NEW T, BeginRebuild(x, op, tx, T)
    PROVE  \A r \in Req : IF r = x THEN req'[r].op = op /\ req'[r].tx = tx
                          ELSE req'[r].op = req[r].op /\ req'[r].tx = req[r].tx
<1>1. PICK made, gain, behind :
        Begun(x, [Idle EXCEPT !.op = op, !.tx = tx, !.held = lots, !.made = made, !.gain = gain, !.behind = behind])
  BY DEF BeginRebuild
<1>2. PICK q : q = [Idle EXCEPT !.op = op, !.tx = tx, !.held = lots, !.made = made, !.gain = gain, !.behind = behind]
  OBVIOUS
<1>3. q.op = op /\ q.tx = tx /\ Work(q)
  BY <1>2 DEF Idle, Work
<1>4. \A r \in Req : req'[r] = IF r = x THEN [q EXCEPT !.alone = (Rewriting = {})] ELSE Disturb(Req)[r]
  BY <1>1, <1>2 DEF Begun
<1>5. [q EXCEPT !.alone = (Rewriting = {})].op = op /\ [q EXCEPT !.alone = (Rewriting = {})].tx = tx
  BY <1>3 DEF Work
<1>6. \A r \in Req : Disturb(Req)[r].op = req[r].op /\ Disturb(Req)[r].tx = req[r].tx
  BY DisturbKeeps
<1> QED BY <1>4, <1>5, <1>6

\* What a step does with a request: nothing that matters, its end, or its beginning.
LEMMA RequestSteps ==
    ASSUME FillInv, Next, NEW r \in Req
    PROVE  \/ req'[r].op = req[r].op /\ req'[r].tx = req[r].tx
           \/ req'[r] = Idle /\ (CommitRebuild(r) \/ Fail(r) \/ CommitSell(r) \/ DeletePortfolio)
           \/ req[r] = Idle /\ req'[r].op \in {"sell", "delete"}
           \/ BeginImport(r)
<1> DEFINE Result == \/ req'[r].op = req[r].op /\ req'[r].tx = req[r].tx
                     \/ req'[r] = Idle /\ (CommitRebuild(r) \/ Fail(r) \/ CommitSell(r) \/ DeletePortfolio)
                     \/ req[r] = Idle /\ req'[r].op \in {"sell", "delete"}
                     \/ BeginImport(r)
<1>1. CASE UNCHANGED req
  BY <1>1
<1>2. \A S : Disturb(S)[r].op = req[r].op /\ Disturb(S)[r].tx = req[r].tx /\ Work(Disturb(S)[r])
  BY DisturbKeeps
<1>3. ASSUME NEW x \in Req, Request(x) PROVE Result
  <2>1. CASE Register(x)
    BY <2>1, <1>2 DEF Register
  <2>2. CASE BeginSell(x)
    BY <2>2, SellBegins
  <2>3. CASE BeginDelete(x)
    <3>1. PICK t : BeginRebuild(x, "delete", {t}, txs \ {t})
      BY <2>3 DEF BeginDelete
    <3>2. req[x] = Idle
      BY <2>3 DEF BeginDelete
    <3> QED BY <3>1, <3>2, RebuildIs
  <2>4. CASE BeginImport(x)
    <3>1. PICK new, T : BeginRebuild(x, "import", new, T)
      BY <2>4 DEF BeginImport
    <3> QED BY <2>4, <3>1, RebuildIs
  <2>5. CASE CommitSell(x)
    <3>1. req' = [Disturb(Req) EXCEPT ![x] = Idle]
      BY <2>5 DEF CommitSell
    <3> QED BY <2>5, <3>1, <1>2, DisturbKeeps
  <2>6. CASE CommitRebuild(x)
    <3>1. req' = [y \in Req |-> IF y = x THEN Idle ELSE [Disturb(Req)[y] EXCEPT !.behind = @ \ {x}]]
      BY <2>6 DEF CommitRebuild
    <3>2. CASE x = r
      BY <2>6, <3>1, <3>2
    <3>3. CASE x # r
      <4>1. req'[r] = [Disturb(Req)[r] EXCEPT !.behind = @ \ {x}]
        BY <3>1, <3>3
      <4> QED BY <4>1, <1>2 DEF Work
    <3> QED BY <3>2, <3>3
  <2>7. CASE Fail(x)
    <3>1. req' = [y \in Req |-> IF y = x THEN Idle ELSE [req[y] EXCEPT !.behind = @ \ {x}]]
      BY <2>7 DEF Fail
    <3>2. CASE x = r
      BY <2>7, <3>1, <3>2
    <3>3. CASE x # r
      <4>1. req'[r] = [req[r] EXCEPT !.behind = @ \ {x}] /\ Work(req[r])
        BY <3>1, <3>3 DEF FillInv, Pending
      <4> QED BY <4>1 DEF Work
    <3> QED BY <3>2, <3>3
  <2> QED BY <1>3, <2>1, <2>2, <2>3, <2>4, <2>5, <2>6, <2>7 DEF Request
<1>4. CASE DeletePortfolio
  BY <1>4 DEF DeletePortfolio
<1>5. CASE \/ Create \/ CreateFromBacktest \/ TakeSnapshot \/ Repair
           \/ (\E o \in Order : Fill(o)) \/ Tick
  <2>1. UNCHANGED req
    BY <1>5 DEF Create, CreateFromBacktest, TakeSnapshot, Repair, Fill, Tick
  <2> QED BY <2>1
<1> QED BY <1>3, <1>4, <1>5 DEF Next

\* The clock and the broker.
LEMMA Outside ==
    ASSUME [Next]_vars
    PROVE  \/ Tick
           \/ \E o \in Order : Fill(o)
           \/ \E r \in Req : BeginImport(r)
           \/ UNCHANGED <<now, filled, early>>
<1>1. ASSUME NEW r \in Req, Request(r), ~BeginImport(r) PROVE UNCHANGED <<now, filled, early>>
  BY <1>1 DEF Request, Register, BeginSell, CommitSell, BeginDelete, CommitRebuild, Fail, history
<1> QED BY <1>1 DEF Next, vars, history, Create, CreateFromBacktest, DeletePortfolio, TakeSnapshot, Repair

\* They leave what is complete complete.
LEMMA WholeStays ==
    ASSUME ImportInv, [Next]_vars
    PROVE  now' \in Nat /\ DOMAIN filled' = Order /\ \A t : Whole(t) => Whole(t)'
<1>0. now \in Nat /\ DOMAIN filled = Order
  BY DEF ImportInv
<1>1. CASE UNCHANGED <<now, filled, early>>
  BY <1>0, <1>1 DEF Whole, AtClose
<1>2. CASE Tick
  <2>1. now' = now + 1 /\ UNCHANGED <<filled, early>>
    BY <1>2 DEF Tick, history
  <2>2. \A o \in Order : ~(now < AtClose(Execution[o].day)) => ~(now' < AtClose(Execution[o].day))
    BY <1>0, <2>1, LedgerAssumption DEF LedgerAssumption, AtClose
  <2> QED BY <1>0, <2>1, <2>2 DEF Whole, AtClose
<1>3. CASE \E o \in Order : Fill(o)
  <2>1. PICK o \in Order : Fill(o)
    BY <1>3
  <2>2. /\ now < AtClose(Execution[o].day)
        /\ filled' = [filled EXCEPT ![o] = @ + 1] /\ UNCHANGED <<now, early>>
    BY <2>1 DEF Fill, Today, history
  <2>3. DOMAIN filled' = Order /\ \A p \in Order : p # o => filled'[p] = filled[p]
    BY <1>0, <2>2
  <2> QED BY <1>0, <2>2, <2>3 DEF Whole, AtClose
<1>4. CASE \E r \in Req : BeginImport(r)
  <2>1. UNCHANGED <<now, filled>> /\ early \subseteq early'
    BY <1>4 DEF BeginImport
  <2> QED BY <1>0, <2>1 DEF Whole, AtClose
<1> QED BY <1>1, <1>2, <1>3, <1>4, Outside

\* What an import computes at its beginning.
LEMMA ImportReads ==
    ASSUME ImportInv, NEW r \in Req, BeginImport(r)
    PROVE  /\ req'[r].op = "import" /\ \A t \in req'[r].tx : Whole(t)'
           /\ \A o \in Order : filled[o] > 0 => \E t \in txs \cup req'[r].tx : t.ref = o
<1>0. \A o : Imported(o).ref = o /\ Imported(o).qty = filled[o]
  BY DEF Imported
<1>1. PICK new : new = {Imported(o) : o \in Unknown}
  OBVIOUS
<1>2. /\ BeginRebuild(r, "import", new, txs \cup new) /\ UNCHANGED <<now, filled>>
      /\ early' = early \cup {o \in Unknown : now < AtClose(Execution[o].day)}
  BY <1>1 DEF BeginImport
<1>3. req'[r].op = "import" /\ req'[r].tx = new
  BY <1>2, RebuildIs DEF ImportInv
<1>4. \A t \in new : t.ref \in Unknown /\ t.ref \in Order /\ t.qty = filled[t.ref]
  BY <1>0, <1>1 DEF Unknown
<1>5. ASSUME NEW t \in new PROVE Whole(t)'
  BY <1>2, <1>4 DEF Whole, AtClose
<1>6. \A o \in Unknown : \E t \in new : t.ref = o
  BY <1>0, <1>1
<1>7. \A o \in Order : filled[o] > 0 /\ o \notin Unknown => \E t \in txs : t.ref = o
  BY DEF Unknown
<1>8. \A t \in req'[r].tx : Whole(t)'
  <2>1. PICK all : all = req'[r].tx
    OBVIOUS
  <2> QED BY <1>3, <1>5, <2>1
<1> QED BY <1>3, <1>6, <1>7, <1>8

\* Every step keeps the quantities final.
LEMMA ImportStep == ImportInv /\ [Next]_vars => ImportInv'
<1> SUFFICES ASSUME ImportInv, [Next]_vars PROVE ImportInv'
  OBVIOUS
<1>1. FillInv' /\ now' \in Nat /\ DOMAIN filled' = Order
  BY FillStep, WholeStays DEF ImportInv
<1>2. ASSUME NEW r \in Req, req'[r].op = "import", NEW t \in req'[r].tx PROVE Whole(t)'
  <2>1. CASE UNCHANGED vars
    BY <1>2, <2>1, WholeStays DEF ImportInv, vars
  <2>2. CASE req'[r].op = req[r].op /\ req'[r].tx = req[r].tx
    BY <1>2, <2>2, WholeStays DEF ImportInv
  <2>3. CASE BeginImport(r)
    BY <1>2, <2>3, ImportReads
  <2>4. Idle.op # "import"
    BY DEF Idle
  <2> QED BY <1>2, <2>1, <2>2, <2>3, <2>4, RequestSteps DEF ImportInv
<1> QED BY <1>1, <1>2 DEF ImportInv

\* A commit writes the rows of the import.
LEMMA ImportWrites ==
    ASSUME ImportInv, NEW r \in Req, CommitRebuild(r), req[r].op = "import", NEW t \in req[r].tx
    PROVE  \E u \in txs' : u.ref = t.ref /\ (u.qty = filled[t.ref] \/ t.ref \in early)
<1> DEFINE T == {x \in txs : x.id \notin Gone(r)} \cup Added(r)
<1>1. txs' = Revalued(T, req[r].gain)
  BY DEF CommitRebuild
<1>2. t \in T /\ Fields(t) /\ Whole(t)
  BY DEF Added, ImportInv, FillInv, Pending
<1> HIDE DEF T
<1>3. \E u \in Revalued(T, req[r].gain) : u.ref = t.ref /\ u.qty = t.qty
  <2> DEFINE profit == IF \E g \in req[r].gain : g[1] = t.id
                       THEN (CHOOSE g \in req[r].gain : g[1] = t.id)[2] ELSE t.realized
  <2>1. [t EXCEPT !.realized = profit] \in Revalued(T, req[r].gain)
    BY <1>2 DEF Revalued
  <2> HIDE DEF profit
  <2>2. [t EXCEPT !.realized = profit].ref = t.ref /\ [t EXCEPT !.realized = profit].qty = t.qty
    BY <1>2 DEF Fields
  <2> QED BY <2>1, <2>2
<1> QED BY <1>1, <1>2, <1>3 DEF Whole

\* An import reads every execution that is not in the ledger, and what it leaves there
\* when it ends is the whole quantity unless it ran before the close, whatever sells,
\* deletions and other imports run beside it (import_fills, broker.py:403).
THEOREM ImportsBringAll == Spec => ImportIsComplete
<1>1. Init => ImportInv
  <2>1. Init => FillInv
    BY DEF Init, FillInv, RowsWhole, FillOnce, Pending, Idle, Work
  <2> QED BY <2>1 DEF Init, ImportInv, Idle
<1> DEFINE A == \A r \in Req :
        /\ req[r] = Idle /\ req'[r].op = "import" =>
            \A o \in Order : filled[o] > 0 => \E t \in txs \cup req'[r].tx : t.ref = o
        /\ req[r].op = "import" /\ req'[r] = Idle /\ lots' # lots /\ pf' = "open" =>
            \A t \in req[r].tx : \E u \in txs' :
                u.ref = t.ref /\ (u.qty = filled[t.ref] \/ t.ref \in early)
<1>2. ImportInv /\ [Next]_vars => [A]_vars
  <2> SUFFICES ASSUME ImportInv, Next PROVE A
    OBVIOUS
  <2>0. Idle.op # "import" /\ Idle.op \notin {"sell", "delete"}
    BY DEF Idle
  <2>1. ASSUME NEW r \in Req, req[r] = Idle, req'[r].op = "import" PROVE BeginImport(r)
    BY <2>0, <2>1, RequestSteps DEF ImportInv
  <2>2. ASSUME NEW r \in Req, req[r].op = "import", req'[r] = Idle, lots' # lots, pf' = "open"
        PROVE  CommitRebuild(r)
    <3>1. ~BeginImport(r)
      BY <2>0, <2>2 DEF BeginImport
    <3>2. ~Fail(r) /\ ~CommitSell(r) /\ ~DeletePortfolio
      BY <2>2 DEF Fail, CommitSell, DeletePortfolio, ledger
    <3> QED BY <2>0, <2>2, <3>1, <3>2, RequestSteps DEF ImportInv
  <2> QED BY <2>1, <2>2, ImportReads, ImportWrites
<1>3. [][A]_vars => ImportIsComplete
  BY DEF ImportIsComplete
<1> HIDE DEF A
<1> QED BY <1>1, <1>2, <1>3, ImportStep, PTL DEF Spec

-----------------------------------------------------------------------------
(* Sums over transactions and lots. *)

\* The holding of a set of rows as a sum.
LEMMA HoldingIsSum == ASSUME NEW S PROVE Holding(S) = SumOver([x \in S |-> x.qty], S)
<1> DEFINE F == [x \in S |-> x.qty]
           P(g) == g = [s \in SUBSET S |-> IF s = {} THEN 0 ELSE LET x == CHOOSE x \in s : TRUE
                            IN x.qty + g[s \ {x}]]
<1>1. Holding(S) = (CHOOSE g : P(g))[S]
  BY DEF Holding, Qty, MapThenSumSet, MapThenFoldSet
<1>2. ASSUME NEW g PROVE P(g) <=> Iterates(g, F, S)
  <2>1. ASSUME NEW s \in SUBSET S, s # {}
        PROVE LET x == CHOOSE x \in s : TRUE IN F[x] = x.qty
    BY <2>1
  <2> QED BY <2>1 DEF Iterates, SumFrom
<1>3. (CHOOSE g : P(g)) = (CHOOSE g : Iterates(g, F, S))
  <2> HIDE DEF P, F
  <2> QED BY <1>2, Zenon
<1> QED BY <1>1, <1>3, SumIsIterated

\* The cost of lots as a sum.
LEMMA CostIsSum == ASSUME NEW S PROVE Cost(S) = SumOver([x \in S |-> x.qty * x.price], S)
<1> DEFINE F == [x \in S |-> x.qty * x.price]
           P(g) == g = [s \in SUBSET S |-> IF s = {} THEN 0 ELSE LET x == CHOOSE x \in s : TRUE
                            IN x.qty * x.price + g[s \ {x}]]
<1>1. Cost(S) = (CHOOSE g : P(g))[S]
  BY DEF Cost, Amount, MapThenSumSet, MapThenFoldSet
<1>2. ASSUME NEW g PROVE P(g) <=> Iterates(g, F, S)
  <2>1. ASSUME NEW s \in SUBSET S, s # {}
        PROVE LET x == CHOOSE x \in s : TRUE IN F[x] = x.qty * x.price
    BY <2>1
  <2> QED BY <2>1 DEF Iterates, SumFrom
<1>3. (CHOOSE g : P(g)) = (CHOOSE g : Iterates(g, F, S))
  <2> HIDE DEF P, F
  <2> QED BY <1>2, Zenon
<1> QED BY <1>1, <1>3, SumIsIterated

\* The cash of transactions as a sum.
LEMMA CashIsSum == ASSUME NEW S PROVE Cash(S) = SumOver([x \in S |-> Signed(x)], S)
<1> DEFINE F == [x \in S |-> Signed(x)]
           P(g) == g = [s \in SUBSET S |-> IF s = {} THEN 0 ELSE LET x == CHOOSE x \in s : TRUE
                            IN Signed(x) + g[s \ {x}]]
<1>1. Cash(S) = (CHOOSE g : P(g))[S]
  BY DEF Cash, MapThenSumSet, MapThenFoldSet
<1>2. ASSUME NEW g PROVE P(g) <=> Iterates(g, F, S)
  <2>1. ASSUME NEW s \in SUBSET S, s # {}
        PROVE LET x == CHOOSE x \in s : TRUE IN F[x] = Signed(x)
    BY <2>1
  <2> QED BY <2>1 DEF Iterates, SumFrom
<1>3. (CHOOSE g : P(g)) = (CHOOSE g : Iterates(g, F, S))
  <2> HIDE DEF P, F
  <2> QED BY <1>2, Zenon
<1> QED BY <1>1, <1>3, SumIsIterated

\* The profit recorded with the sells, as a sum.
LEMMA RealizedIsSum ==
    ASSUME NEW T
    PROVE  Realized(T) = SumOver([x \in OfKind(T, {"sell"}) |-> x.realized], OfKind(T, {"sell"}))
<1> DEFINE S == OfKind(T, {"sell"})
           F == [x \in S |-> x.realized]
           P(g) == g = [s \in SUBSET S |-> IF s = {} THEN 0 ELSE LET x == CHOOSE x \in s : TRUE
                            IN x.realized + g[s \ {x}]]
<1>1. Realized(T) = (CHOOSE g : P(g))[S]
  BY DEF Realized, MapThenSumSet, MapThenFoldSet
<1> HIDE DEF S
<1>2. ASSUME NEW g PROVE P(g) <=> Iterates(g, F, S)
  <2>1. ASSUME NEW s \in SUBSET S, s # {}
        PROVE LET x == CHOOSE x \in s : TRUE IN F[x] = x.realized
    BY <2>1
  <2> QED BY <2>1 DEF Iterates, SumFrom
<1>3. (CHOOSE g : P(g)) = (CHOOSE g : Iterates(g, F, S))
  <2> HIDE DEF P, F
  <2> QED BY <1>2, Zenon
<1> QED BY <1>1, <1>3, SumIsIterated DEF S

\* The profit of selling n[l] shares of every lot, as a sum.
LEMMA ProfitIsSum ==
    ASSUME NEW p, NEW n, NEW S
    PROVE  LET gain(l) == (p - l.price) * n[l]
           IN  MapThenSumSet(gain, S) = SumOver([l \in S |-> (p - l.price) * n[l]], S)
<1> DEFINE gain(l) == (p - l.price) * n[l]
           F == [l \in S |-> (p - l.price) * n[l]]
           P(g) == g = [s \in SUBSET S |-> IF s = {} THEN 0 ELSE LET x == CHOOSE x \in s : TRUE
                            IN (p - x.price) * n[x] + g[s \ {x}]]
<1>1. MapThenSumSet(gain, S) = (CHOOSE g : P(g))[S]
  BY DEF MapThenSumSet, MapThenFoldSet
<1>2. ASSUME NEW g PROVE P(g) <=> Iterates(g, F, S)
  <2>1. ASSUME NEW s \in SUBSET S, s # {}
        PROVE LET x == CHOOSE x \in s : TRUE IN F[x] = (p - x.price) * n[x]
    BY <2>1
  <2> QED BY <2>1 DEF Iterates, SumFrom
<1>3. (CHOOSE g : P(g)) = (CHOOSE g : Iterates(g, F, S))
  <2> HIDE DEF P, F
  <2> QED BY <1>2, Zenon
<1> QED BY <1>1, <1>3, SumIsIterated

-----------------------------------------------------------------------------
(* A sale. *)

AnyTag == {NoTag} \cup {b.tag : b \in Trades} \cup {Execution[o].tag : o \in Order}
LotRec == [id : Int, qty : Nat, price : Nat, at : Int, tag : AnyTag]

\* Lots as a portfolio has them: rows of their own, none of them empty.
Distinct(L) == \A l, m \in L : l.id = m.id => l = m
Position(L) == L \subseteq LotRec /\ IsFiniteSet(L) /\ Distinct(L) /\ \A l \in L : l.qty > 0

\* The parts of a sale: the lots open to it, which of them comes first, how many shares it
\* takes of each, and what becomes of a lot.
Open(L, t) == {l \in L : l.at <= t.at}
Front(m, l, preferred) == \/ m \in preferred /\ l \notin preferred
                          \/ (m \in preferred <=> l \in preferred) /\ Earlier(m, l)
Ahead(L, t, preferred, l) == {m \in Open(L, t) : Front(m, l, preferred)}
Taken(L, t, preferred) ==
    [l \in Open(L, t) |-> Max({0, Min({l.qty, t.qty - Holding(Ahead(L, t, preferred, l))})})]
Left(L, t, preferred) ==
    [l \in L |-> IF l \in Open(L, t) THEN [l EXCEPT !.qty = @ - Taken(L, t, preferred)[l]] ELSE l]
Profit(L, t, preferred) ==
    [l \in Open(L, t) |-> (t.price - l.price) * Taken(L, t, preferred)[l]]

\* A sale in these terms.
LEMMA SaleIs ==
    ASSUME NEW L, NEW t, NEW preferred
    PROVE  /\ Sale(L, t, preferred).held = Holding(Open(L, t))
           /\ Sale(L, t, preferred).lots = {l \in {Left(L, t, preferred)[m] : m \in L} : l.qty > 0}
           /\ Sale(L, t, preferred).realized = SumOver(Profit(L, t, preferred), Open(L, t))
<1> DEFINE open == Open(L, t)
           taken == Taken(L, t, preferred)
           gain(l) == (t.price - l.price) * taken[l]
           total == MapThenSumSet(gain, open)
<1>1. Sale(L, t, preferred) =
        [held |-> Holding(open),
         lots |-> {l \in (L \ open) \cup {[l EXCEPT !.qty = @ - taken[l]] : l \in open} : l.qty > 0},
         realized |-> total]
  BY DEF Sale, Open, Taken, Ahead, Front
<1>2. total = SumOver(Profit(L, t, preferred), open)
  BY ProfitIsSum DEF Profit
<1>3. (L \ open) \cup {[l EXCEPT !.qty = @ - taken[l]] : l \in open} = {Left(L, t, preferred)[m] : m \in L}
  <2>1. open \subseteq L
    BY DEF Open
  <2>2. \A l \in open : Left(L, t, preferred)[l] = [l EXCEPT !.qty = @ - taken[l]]
    BY DEF Left, Open
  <2>3. \A l \in L \ open : Left(L, t, preferred)[l] = l
    BY DEF Left
  <2> HIDE DEF open, taken
  <2> QED BY <2>1, <2>2, <2>3
<1> HIDE DEF total, taken
<1> QED BY <1>1, <1>2, <1>3

\* The lesser and the greater of two numbers.
LEMMA Lesser == ASSUME NEW a \in Int, NEW b \in Int PROVE Min({a, b}) = IF a <= b THEN a ELSE b
<1> DEFINE m == IF a <= b THEN a ELSE b
<1>1. m \in {a, b} /\ \A y \in {a, b} : m <= y
  OBVIOUS
<1>2. \A x \in {a, b} : (\A y \in {a, b} : x <= y) => x = m
  OBVIOUS
<1>3. Min({a, b}) \in {a, b} /\ \A y \in {a, b} : Min({a, b}) <= y
  BY <1>1 DEF Min
<1> QED BY <1>2, <1>3

\* The greater of two integers.
LEMMA Greater == ASSUME NEW a \in Int, NEW b \in Int PROVE Max({a, b}) = IF a >= b THEN a ELSE b
<1> DEFINE m == IF a >= b THEN a ELSE b
<1>1. m \in {a, b} /\ \A y \in {a, b} : m >= y
  OBVIOUS
<1>2. \A x \in {a, b} : (\A y \in {a, b} : x >= y) => x = m
  OBVIOUS
<1>3. Max({a, b}) \in {a, b} /\ \A y \in {a, b} : Max({a, b}) >= y
  BY <1>1 DEF Max
<1> QED BY <1>2, <1>3

\* Lots have an order in which they are sold.
LEMMA FrontOrders ==
    ASSUME NEW L, Position(L), NEW preferred
    PROVE  /\ \A l, m \in L : l # m => Front(l, m, preferred) \/ Front(m, l, preferred)
           /\ \A l, m \in L : ~(Front(l, m, preferred) /\ Front(m, l, preferred))
           /\ \A l, m, n \in L : Front(l, m, preferred) /\ Front(m, n, preferred) => Front(l, n, preferred)
<1>1. \A l \in L : l.at \in Int /\ l.id \in Int
  BY DEF Position, LotRec
<1>2. \A l, m \in L : l # m => Earlier(l, m) \/ Earlier(m, l)
  BY <1>1 DEF Position, Distinct, Earlier
<1>3. \A l, m \in L : ~(Earlier(l, m) /\ Earlier(m, l))
  BY <1>1 DEF Earlier
<1>4. \A l, m, n \in L : Earlier(l, m) /\ Earlier(m, n) => Earlier(l, n)
  BY <1>1 DEF Earlier
<1> QED BY <1>2, <1>3, <1>4 DEF Front

\* Of any of them, one is sold last.
LEMMA LastSold ==
    ASSUME NEW L, Position(L), NEW preferred, NEW S \in SUBSET L, S # {}
    PROVE  \E x \in S : \A y \in S \ {x} : Front(y, x, preferred)
<1> DEFINE Last1(T, x) == \A y \in T \ {x} : Front(y, x, preferred)
           Bad == {T \in SUBSET S : T # {} /\ ~\E x \in T : Last1(T, x)}
<1> SUFFICES ASSUME Bad # {} PROVE FALSE
  OBVIOUS
<1>1. PICK T \in Bad : \A x \in T : T \ {x} \notin Bad
  <2>1. \A T \in Bad : IsFiniteSet(T)
    BY FS_Subset DEF Position
  <2> HIDE DEF Bad
  <2> QED BY <2>1, SmallestSet
<1>2. PICK x \in T : TRUE
  OBVIOUS
<1>3. T \ {x} # {}
  OBVIOUS
<1>4. PICK z \in T \ {x} : Last1(T \ {x}, z)
  BY <1>1, <1>2, <1>3
<1>5. CASE Front(x, z, preferred)
  <2>1. Last1(T, z)
    BY <1>4, <1>5
  <2> QED BY <1>4, <2>1
<1>6. CASE Front(z, x, preferred)
  <2>1. Last1(T, x)
    BY <1>4, <1>6, FrontOrders
  <2> QED BY <1>2, <2>1
<1> QED BY <1>2, <1>4, <1>5, <1>6, FrontOrders

\* Shares and cost of a lot, as functions whose sums are the holding and the cost.
QtyOf == [l \in LotRec |-> l.qty]
CostOf == [l \in LotRec |-> l.qty * l.price]

\* The holding and the cost of lots, as sums of these functions.
LEMMA LotSums ==
    ASSUME NEW L, L \subseteq LotRec, IsFiniteSet(L)
    PROVE  /\ \A l \in L : QtyOf[l] \in Nat /\ CostOf[l] \in Nat
           /\ Integral(QtyOf, L) /\ Integral(CostOf, L)
           /\ Holding(L) = SumOver(QtyOf, L) /\ Cost(L) = SumOver(CostOf, L)
<1> DEFINE f == [x \in L |-> x.qty]
           g == [x \in L |-> x.qty * x.price]
<1>1. \A l \in L : QtyOf[l] \in Nat /\ CostOf[l] \in Nat /\ f[l] = QtyOf[l] /\ g[l] = CostOf[l]
  BY DEF LotRec, QtyOf, CostOf
<1>2. Integral(QtyOf, L) /\ Integral(CostOf, L) /\ Integral(f, L) /\ Integral(g, L)
  BY <1>1 DEF Integral
<1>3. Holding(L) = SumOver(f, L) /\ Cost(L) = SumOver(g, L)
  BY HoldingIsSum, CostIsSum
<1> HIDE DEF f, g
<1>4. SumOver(f, L) = SumOver(QtyOf, L) /\ SumOver(g, L) = SumOver(CostOf, L)
  BY <1>1, <1>2, SumSame
<1> QED BY <1>1, <1>2, <1>3, <1>4

\* They are whole, and never negative.
LEMMA HoldingWhole ==
    ASSUME NEW L, L \subseteq LotRec, IsFiniteSet(L)
    PROVE  Holding(L) \in Nat /\ Cost(L) \in Nat
  BY LotSums, SumNatural

\* How many shares are taken of a lot.
LEMMA TakenIs ==
    ASSUME NEW L, Position(L), NEW t, t.qty \in Nat, NEW preferred, NEW l \in Open(L, t)
    PROVE  LET before == Holding(Ahead(L, t, preferred, l))
           IN  /\ before \in Nat
               /\ Taken(L, t, preferred)[l] = IF t.qty <= before THEN 0
                                              ELSE IF l.qty <= t.qty - before THEN l.qty ELSE t.qty - before
<1> DEFINE before == Holding(Ahead(L, t, preferred, l))
<1>1. l \in LotRec /\ l.qty \in Nat
  BY DEF Position, Open, LotRec
<1>2. before \in Nat
  <2>1. Ahead(L, t, preferred, l) \subseteq L
    BY DEF Ahead, Open
  <2> QED BY <2>1, HoldingWhole, FS_Subset DEF Position
<1> DEFINE rest == t.qty - before
           least == Min({l.qty, rest})
<1>3. Taken(L, t, preferred)[l] = Max({0, least})
  BY DEF Taken
<1> HIDE DEF before
<1>4. rest \in Int /\ least = (IF l.qty <= rest THEN l.qty ELSE rest) /\ least \in Int
  <2>1. rest \in Int /\ l.qty \in Int
    BY <1>1, <1>2
  <2> HIDE DEF rest
  <2> QED BY <2>1, Lesser
<1>5. Max({0, least}) = IF 0 >= least THEN 0 ELSE least
  <2> HIDE DEF least
  <2> QED BY <1>4, Greater
<1> HIDE DEF least
<1> QED BY <1>1, <1>2, <1>3, <1>4, <1>5 DEF before

\* A sale takes no more of a lot than it holds, and never less than nothing.
LEMMA TakenWithin ==
    ASSUME NEW L, Position(L), NEW t, t.qty \in Nat, NEW preferred, NEW l \in Open(L, t)
    PROVE  Taken(L, t, preferred)[l] \in 0..l.qty
<1>1. l.qty \in Nat
  BY DEF Position, Open, LotRec
<1> QED BY <1>1, TakenIs

\* As many shares are taken as are sold, or all there are.
LEMMA AllTaken ==
    ASSUME NEW L, Position(L), NEW t, t.qty \in Nat, NEW preferred
    PROVE  SumOver(Taken(L, t, preferred), Open(L, t)) =
             IF t.qty <= Holding(Open(L, t)) THEN t.qty ELSE Holding(Open(L, t))
<1> DEFINE open == Open(L, t)
           taken == Taken(L, t, preferred)
           whole(S) == \A l \in S, m \in open : Front(m, l, preferred) => m \in S
           Bad == {S \in SUBSET open : whole(S) /\ SumOver(taken, S) #
                                       IF t.qty <= Holding(S) THEN t.qty ELSE Holding(S)}
<1>0. /\ open \in SUBSET L /\ IsFiniteSet(open) /\ open \subseteq LotRec
      /\ whole(open)
  BY FS_Subset DEF Open, Position
<1> SUFFICES ASSUME Bad # {} PROVE FALSE
  BY <1>0
<1>a. \A T \in SUBSET open : IsFiniteSet(T) /\ T \subseteq LotRec /\ T \subseteq L
  BY <1>0, FS_Subset
<1>1. PICK T \in Bad : \A x \in T : T \ {x} \notin Bad
  <2>1. \A T \in Bad : IsFiniteSet(T)
    BY <1>a
  <2> HIDE DEF Bad
  <2> QED BY <2>1, SmallestSet
<1>2. T # {}
  <2>1. Holding({}) = 0
    BY HoldingIsSum, SumEmpty
  <2> QED BY <1>1, <2>1, SumEmpty
<1>3. PICK x \in T : \A y \in T \ {x} : Front(y, x, preferred)
  BY <1>1, <1>2, <1>a, LastSold
<1>4. T \ {x} = Ahead(L, t, preferred, x)
  <2>1. x \in open /\ x \in L
    BY <1>1, <1>a
  <2>2. \A m \in open : Front(m, x, preferred) => m \in T
    BY <1>1
  <2>3. ~Front(x, x, preferred)
    BY <2>1, FrontOrders
  <2> QED BY <1>1, <1>3, <2>2, <2>3 DEF Ahead
<1>5. whole(T \ {x})
  <2> SUFFICES ASSUME NEW l \in T \ {x}, NEW m \in open, Front(m, l, preferred) PROVE m \in T \ {x}
    OBVIOUS
  <2>1. m \in T
    BY <1>1
  <2>2. m # x
    BY <1>1, <1>3, <1>a, FrontOrders
  <2> QED BY <2>1, <2>2
<1>6. SumOver(taken, T \ {x}) = IF t.qty <= Holding(T \ {x}) THEN t.qty ELSE Holding(T \ {x})
  BY <1>1, <1>5
<1>7. Integral(taken, T) /\ x \in open /\ x.qty \in Nat
  <2>1. \A l \in open : taken[l] \in 0..l.qty /\ l.qty \in Nat
    BY <1>0, TakenWithin DEF LotRec
  <2> HIDE DEF taken, open
  <2> QED BY <1>1, <2>1 DEF Integral
<1>8. SumOver(taken, T) = taken[x] + SumOver(taken, T \ {x})
  BY <1>7, <1>1, <1>a, SumTaken
<1>9. Holding(T) = x.qty + Holding(T \ {x})
  <2>1. IsFiniteSet(T \ {x}) /\ T \ {x} \subseteq LotRec /\ x \in LotRec
    BY <1>1, <1>a, FS_RemoveElement
  <2>2. SumOver(QtyOf, T) = QtyOf[x] + SumOver(QtyOf, T \ {x})
    BY <1>1, <1>a, LotSums, SumTaken
  <2> QED BY <1>1, <1>a, <2>1, <2>2, LotSums DEF QtyOf
<1>10. taken[x] = LET before == Holding(T \ {x})
                  IN  IF t.qty <= before THEN 0
                      ELSE IF x.qty <= t.qty - before THEN x.qty ELSE t.qty - before
  BY <1>4, <1>7, TakenIs
<1>11. Holding(T \ {x}) \in Nat
  BY <1>1, <1>a, HoldingWhole, FS_RemoveElement
<1>12. SumOver(taken, T) # IF t.qty <= Holding(T) THEN t.qty ELSE Holding(T)
  BY <1>1
<1> HIDE DEF taken, Bad, open
<1> QED BY <1>6, <1>7, <1>8, <1>9, <1>10, <1>11, <1>12

-----------------------------------------------------------------------------
\* Lots up to a date.
Up(L, d) == {l \in L : l.at <= d}

\* The order to sell: a whole number of shares at a price, on a date.
Ordered(t) == t.qty \in Nat /\ t.price \in Nat /\ t.at \in Int

\* Shares taken of a lot, open to the sale or not.
TakenOf(L, t, preferred) ==
    [l \in L |-> IF l \in Open(L, t) THEN Taken(L, t, preferred)[l] ELSE 0]

\* What is left of a lot is the same lot with fewer shares.
LEMMA LeftIs ==
    ASSUME NEW L, Position(L), NEW t, Ordered(t), NEW preferred, NEW l \in L
    PROVE  LET m == Left(L, t, preferred)[l]
               n == TakenOf(L, t, preferred)[l]
           IN  /\ n \in 0..l.qty /\ l \in LotRec /\ l.qty \in Nat /\ l.price \in Nat
               /\ m \in LotRec /\ m.qty = l.qty - n
               /\ m.id = l.id /\ m.at = l.at /\ m.price = l.price
<1>1. l \in LotRec /\ l.qty \in Nat /\ l.price \in Nat
  BY DEF Position, LotRec
<1>2. TakenOf(L, t, preferred)[l] \in 0..l.qty
  BY <1>1, TakenWithin DEF TakenOf, Ordered
<1>3. CASE l \in Open(L, t)
  <2>1. PICK n : n = Taken(L, t, preferred)[l]
    OBVIOUS
  <2>2. Left(L, t, preferred)[l] = [l EXCEPT !.qty = @ - n] /\ TakenOf(L, t, preferred)[l] = n
    BY <1>3, <2>1 DEF Left, TakenOf
  <2>3. n \in Int /\ l.qty - n \in Nat
    BY <1>1, <1>2, <2>2
  <2>4. /\ [l EXCEPT !.qty = @ - n] \in LotRec /\ [l EXCEPT !.qty = @ - n].qty = l.qty - n
        /\ [l EXCEPT !.qty = @ - n].id = l.id /\ [l EXCEPT !.qty = @ - n].at = l.at
        /\ [l EXCEPT !.qty = @ - n].price = l.price
    BY <1>1, <2>3 DEF LotRec
  <2> QED BY <1>1, <1>2, <2>2, <2>4
<1>4. CASE l \notin Open(L, t)
  <2>1. Left(L, t, preferred)[l] = l /\ TakenOf(L, t, preferred)[l] = 0
    BY <1>4 DEF Left, TakenOf
  <2> QED BY <1>1, <1>2, <2>1
<1> QED BY <1>3, <1>4

\* What a sale leaves of some of the lots.
Remaining(L, t, preferred, K) == {l \in {Left(L, t, preferred)[m] : m \in K} : l.qty > 0}

\* What the shares taken of them had cost.
PaidFor(L, t, preferred) == [l \in L |-> l.price * TakenOf(L, t, preferred)[l]]

\* What a sale leaves of some lots: lots with the same numbers, dates and prices, and as
\* many shares and as much cost less as it took.
LEMMA RemainingIs ==
    ASSUME NEW L, Position(L), NEW t, Ordered(t), NEW preferred, NEW K \in SUBSET L
    PROVE  /\ Position(Remaining(L, t, preferred, K))
           /\ \A l \in Remaining(L, t, preferred, K) : \E m \in K : m.id = l.id /\ m.at = l.at
           /\ SumOver(TakenOf(L, t, preferred), K) \in Nat
           /\ Integral(TakenOf(L, t, preferred), K) /\ Integral(PaidFor(L, t, preferred), K)
           /\ Holding(Remaining(L, t, preferred, K)) = Holding(K) - SumOver(TakenOf(L, t, preferred), K)
           /\ Cost(Remaining(L, t, preferred, K)) = Cost(K) - SumOver(PaidFor(L, t, preferred), K)
<1> DEFINE m == Left(L, t, preferred)
           n == TakenOf(L, t, preferred)
           R == Remaining(L, t, preferred, K)
           I == {m[l] : l \in K}
           p == PaidFor(L, t, preferred)
           hq == [l \in K |-> QtyOf[m[l]]]
           hc == [l \in K |-> CostOf[m[l]]]
<1>0. IsFiniteSet(K) /\ K \subseteq LotRec
  BY FS_Subset DEF Position
<1>1. \A l \in K : /\ n[l] \in 0..l.qty /\ l \in LotRec /\ l.qty \in Nat /\ l.price \in Nat
                   /\ m[l] \in LotRec /\ m[l].qty = l.qty - n[l]
                   /\ m[l].id = l.id /\ m[l].at = l.at /\ m[l].price = l.price
                   /\ p[l] = l.price * n[l]
  BY LeftIs DEF PaidFor
<1> HIDE DEF m, n, p
<1>2. \A k, l \in K : m[k] = m[l] => k = l
  BY <1>1 DEF Position, Distinct
<1>3. I \subseteq LotRec /\ IsFiniteSet(I) /\ R \subseteq I /\ Distinct(I)
  <2>1. IsFiniteSet(I)
    BY <1>0, ImageFinite
  <2>2. R \subseteq I
    BY DEF Remaining, m
  <2>3. Distinct(I)
    BY <1>1 DEF Position, Distinct
  <2> QED BY <1>1, <2>1, <2>2, <2>3
<1>4. /\ Position(R)
      /\ \A l \in R : \E k \in K : k.id = l.id /\ k.at = l.at
  <2>1. IsFiniteSet(R)
    BY <1>3, FS_Subset
  <2>2. \A l \in R : l.qty > 0 /\ \E k \in K : l = m[k]
    BY DEF Remaining, m
  <2> QED BY <1>1, <1>3, <2>1, <2>2 DEF Position, Distinct
<1>5. /\ Integral(n, K) /\ Integral(p, K) /\ Integral(hq, K) /\ Integral(hc, K)
      /\ \A l \in K : n[l] \in Nat
  <2>1. \A l \in K : l.price * n[l] \in Int
    BY <1>1
  <2>2. \A l \in K : QtyOf[m[l]] \in Nat /\ CostOf[m[l]] \in Nat
    BY <1>1, <1>3, LotSums
  <2> QED BY <1>1, <2>1, <2>2 DEF Integral
<1>6. SumOver(n, K) \in Nat
  BY <1>0, <1>5, SumNatural
<1>7. SumOver(QtyOf, R) = SumOver(QtyOf, I) /\ SumOver(CostOf, R) = SumOver(CostOf, I)
  <2>1. \A l \in I \ R : QtyOf[l] = 0 /\ CostOf[l] = 0
    <3>1. \A l \in I \ R : l \in LotRec /\ l.qty = 0 /\ l.price \in Nat
      BY <1>1, <1>3 DEF Remaining, m
    <3>2. \A l \in I \ R : l.qty * l.price = 0
      BY <3>1
    <3> QED BY <3>1, <3>2 DEF QtyOf, CostOf
  <2>2. Integral(QtyOf, R) /\ Integral(CostOf, R)
    BY <1>4, LotSums DEF Position
  <2> HIDE DEF I, R
  <2> QED BY <1>3, <2>1, <2>2, SumSupport
<1>8. SumOver(QtyOf, I) = SumOver(hq, K) /\ SumOver(CostOf, I) = SumOver(hc, K)
  <2>1. \A l \in K : QtyOf[m[l]] \in Int /\ CostOf[m[l]] \in Int
    BY <1>5 DEF Integral
  <2> QED BY <1>0, <1>2, <2>1, SumImage
<1>9. SumOver(QtyOf, K) = SumOver(hq, K) + SumOver(n, K)
  <2>1. \A l \in K : QtyOf[l] = hq[l] + n[l]
    BY <1>1 DEF QtyOf
  <2> HIDE DEF hq
  <2> QED BY <1>0, <1>5, <2>1, SumPlus
<1>10. SumOver(CostOf, K) = SumOver(hc, K) + SumOver(p, K)
  <2>1. \A l \in K : CostOf[l] = hc[l] + p[l]
    <3>1. \A l \in K : hc[l] = (l.qty - n[l]) * l.price /\ p[l] = l.price * n[l] /\ CostOf[l] = l.qty * l.price
      BY <1>1 DEF CostOf
    <3>2. \A a, b, c \in Int : a * c = (a - b) * c + c * b
      OBVIOUS
    <3>3. \A l \in K : l.qty \in Int /\ n[l] \in Int /\ l.price \in Int
      BY <1>1
    <3> HIDE DEF hc
    <3> QED BY <3>1, <3>2, <3>3
  <2> HIDE DEF hc
  <2> QED BY <1>0, <1>5, <2>1, SumPlus
<1>11. /\ SumOver(hq, K) \in Int /\ SumOver(hc, K) \in Int
       /\ SumOver(p, K) \in Int
  BY <1>0, <1>5, SumInteger
<1>12. /\ Holding(R) = SumOver(QtyOf, R) /\ Holding(K) = SumOver(QtyOf, K)
       /\ Cost(R) = SumOver(CostOf, R) /\ Cost(K) = SumOver(CostOf, K)
  BY <1>0, <1>4, LotSums DEF Position
<1> HIDE DEF R, I, hq, hc
<1>13. Holding(R) = Holding(K) - SumOver(n, K) /\ Cost(R) = Cost(K) - SumOver(p, K)
  BY <1>6, <1>7, <1>8, <1>9, <1>10, <1>11, <1>12
<1> QED BY <1>4, <1>5, <1>6, <1>13 DEF R, p, n

\* A lot keeps its date: what is left of the lots up to a date are the lots left, up to it.
LEMMA RemainingUp ==
    ASSUME NEW L, Position(L), NEW t, Ordered(t), NEW preferred, NEW d
    PROVE  Up(Remaining(L, t, preferred, L), d) = Remaining(L, t, preferred, Up(L, d))
<1>1. \A l \in L : Left(L, t, preferred)[l].at = l.at
  BY LeftIs
<1> QED BY <1>1 DEF Up, Remaining

\* The shares taken of a set of lots with all that are open to the sale.
LEMMA TakenTotal ==
    ASSUME NEW L, Position(L), NEW t, Ordered(t), NEW preferred,
           NEW K \in SUBSET L, Open(L, t) \subseteq K
    PROVE  SumOver(TakenOf(L, t, preferred), K) =
             IF t.qty <= Holding(Open(L, t)) THEN t.qty ELSE Holding(Open(L, t))
<1> DEFINE n == TakenOf(L, t, preferred)
           taken == Taken(L, t, preferred)
           open == Open(L, t)
<1>1. IsFiniteSet(K) /\ IsFiniteSet(open) /\ open \in SUBSET K
  BY FS_Subset DEF Position
<1>2. \A l \in open : n[l] = taken[l]
  BY DEF TakenOf, Open
<1>3. \A l \in K \ open : n[l] = 0
  BY DEF TakenOf
<1>4. Integral(n, open) /\ Integral(taken, open)
  <2>1. \A l \in open : n[l] \in Int
    <3>1. \A l \in L : n[l] \in 0..l.qty /\ l.qty \in Nat
      BY LeftIs
    <3> QED BY <3>1 DEF Open
  <2> QED BY <1>2, <2>1 DEF Integral
<1> HIDE DEF n, taken, open
<1>5. SumOver(n, K) = SumOver(n, open)
  BY <1>1, <1>3, <1>4, SumSupport
<1>6. SumOver(n, open) = SumOver(taken, open)
  BY <1>1, <1>2, <1>4, SumSame
<1> QED BY <1>5, <1>6, AllTaken DEF n, taken, open, Ordered

\* A sale: what it leaves, takes and earns.
LEMMA SaleTyped ==
    ASSUME NEW L, Position(L), NEW t, Ordered(t), NEW preferred
    PROVE  LET S == Sale(L, t, preferred)
           IN  /\ Position(S.lots) /\ S.held \in Nat /\ S.realized \in Int
               /\ \A l \in S.lots : \E m \in L : m.id = l.id /\ m.at = l.at
               /\ S.lots = Remaining(L, t, preferred, L)
<1>1. Sale(L, t, preferred).lots = Remaining(L, t, preferred, L)
  BY SaleIs DEF Remaining
<1>2. Sale(L, t, preferred).held \in Nat
  <2>1. Open(L, t) \subseteq L
    BY DEF Open
  <2> QED BY <2>1, SaleIs, HoldingWhole, FS_Subset DEF Position
<1>3. Integral(Profit(L, t, preferred), Open(L, t)) /\ IsFiniteSet(Open(L, t))
  <2>1. \A l \in Open(L, t) : l.price \in Nat /\ Taken(L, t, preferred)[l] \in 0..l.qty /\ l.qty \in Nat
    BY TakenWithin DEF Ordered, Position, LotRec, Open
  <2>2. \A l \in Open(L, t) : (t.price - l.price) * Taken(L, t, preferred)[l] \in Int
    BY <2>1 DEF Ordered
  <2> QED BY <2>2, FS_Subset DEF Integral, Profit, Open, Position
<1>4. Sale(L, t, preferred).realized \in Int
  BY <1>3, SaleIs, SumInteger
<1> QED BY <1>1, <1>2, <1>4, RemainingIs

\* A sale the lots cover takes its shares off the holding; its proceeds come off the cost,
\* but for the profit it reports.
LEMMA SaleEffect ==
    ASSUME NEW L, Position(L), NEW t, Ordered(t), NEW preferred,
           t.qty <= Sale(L, t, preferred).held
    PROVE  LET S == Sale(L, t, preferred)
           IN  /\ Holding(S.lots) = Holding(L) - t.qty
               /\ Cost(S.lots) = Cost(L) - t.qty * t.price + S.realized
<1> DEFINE S == Sale(L, t, preferred)
           n == TakenOf(L, t, preferred)
           taken == Taken(L, t, preferred)
           open == Open(L, t)
           profit == Profit(L, t, preferred)
           p == PaidFor(L, t, preferred)
           paid == [l \in L |-> t.price * n[l]]
<1>1. S.lots = Remaining(L, t, preferred, L) /\ S.held = Holding(open) /\ S.realized = SumOver(profit, open)
  BY SaleTyped, SaleIs
<1>2. /\ SumOver(n, L) = t.qty /\ Integral(n, L) /\ Integral(p, L)
      /\ Holding(S.lots) = Holding(L) - SumOver(n, L)
      /\ Cost(S.lots) = Cost(L) - SumOver(p, L)
  <2>1. open \subseteq L
    BY DEF Open
  <2>2. SumOver(n, L) = t.qty
    BY <1>1, <2>1, TakenTotal
  <2> QED BY <1>1, <2>2, RemainingIs
<1>3. IsFiniteSet(L) /\ open \in SUBSET L /\ IsFiniteSet(open) /\ t.price \in Int
  BY FS_Subset DEF Position, Open, Ordered
<1>4. \A l \in L : n[l] \in Int /\ l.price \in Int
  <2>1. \A l \in L : n[l] \in 0..l.qty /\ l.qty \in Nat /\ l.price \in Nat
    BY LeftIs
  <2> HIDE DEF n
  <2> QED BY <2>1
<1> DEFINE all == [l \in L |-> (t.price - l.price) * n[l]]
<1>5. Integral(all, L) /\ Integral(paid, L) /\ \A l \in L : paid[l] = t.price * n[l]
  <2>1. \A l \in L : (t.price - l.price) * n[l] \in Int /\ t.price * n[l] \in Int
    BY <1>3, <1>4
  <2> QED BY <2>1 DEF Integral
<1>6. SumOver(paid, L) = t.price * SumOver(n, L)
  <2> HIDE DEF paid, n
  <2> QED BY <1>2, <1>3, <1>5, SumScaled
<1>7. SumOver(paid, L) = SumOver(all, L) + SumOver(p, L)
  <2>1. \A l \in L : paid[l] = all[l] + p[l]
    <3>1. \A a, b, c \in Int : a * c = (a - b) * c + b * c
      OBVIOUS
    <3>2. \A l \in L : p[l] = l.price * n[l]
      BY DEF PaidFor
    <3> HIDE DEF n, p
    <3> QED BY <3>1, <3>2, <1>3, <1>4
  <2> HIDE DEF paid, all, p
  <2> QED BY <1>2, <1>3, <1>5, <2>1, SumPlus
<1>8. SumOver(all, L) = SumOver(profit, open)
  <2>1. \A l \in open : all[l] = profit[l]
    BY DEF Profit, TakenOf, Open
  <2>2. \A l \in L \ open : all[l] = 0
    BY <1>3, <1>4 DEF TakenOf
  <2>3. Integral(all, open)
    BY <1>5, <1>3 DEF Integral
  <2> HIDE DEF all, profit, open
  <2>4. SumOver(all, L) = SumOver(all, open)
    BY <1>3, <2>2, <2>3, SumSupport
  <2>5. SumOver(all, open) = SumOver(profit, open)
    BY <1>3, <2>1, <2>3, SumSame
  <2> QED BY <2>4, <2>5
<1>9. SumOver(p, L) \in Int /\ SumOver(all, L) \in Int /\ Cost(L) \in Nat /\ t.qty \in Int
  <2>1. SumOver(p, L) \in Int
    BY <1>2, <1>3, SumInteger
  <2>2. SumOver(all, L) \in Int
    BY <1>3, <1>5, SumInteger
  <2>3. Cost(L) \in Nat
    BY HoldingWhole DEF Position
  <2> QED BY <2>1, <2>2, <2>3 DEF Ordered
<1>10. t.price * t.qty = t.qty * t.price
  BY <1>3, <1>9
<1> HIDE DEF S, n, p, paid, all, profit, open
<1>11. Cost(S.lots) = Cost(L) - t.qty * t.price + S.realized
  <2>1. t.qty * t.price \in Int
    BY <1>3, <1>9
  <2> QED BY <1>1, <1>2, <1>6, <1>7, <1>8, <1>9, <1>10, <2>1
<1>12. Holding(S.lots) = Holding(L) - t.qty
  BY <1>2
<1> QED BY <1>11, <1>12 DEF S

\* Of the lots up to a date a sale leaves no more than there were, and the shares sold fewer
\* if the date is not before its own.
LEMMA SaleUp ==
    ASSUME NEW L, Position(L), NEW t, Ordered(t), NEW preferred, NEW d \in Int,
           t.qty <= Sale(L, t, preferred).held
    PROVE  LET S == Sale(L, t, preferred)
           IN  /\ Holding(Up(L, d)) \in Nat /\ Holding(Up(S.lots, d)) \in Nat
               /\ Holding(Up(S.lots, d)) <= Holding(Up(L, d))
               /\ t.at <= d => Holding(Up(S.lots, d)) = Holding(Up(L, d)) - t.qty
<1> DEFINE S == Sale(L, t, preferred)
           n == TakenOf(L, t, preferred)
<1>1. Up(L, d) \in SUBSET L /\ Up(L, d) \subseteq LotRec /\ IsFiniteSet(Up(L, d))
  BY FS_Subset DEF Up, Position
<1>2. Up(S.lots, d) = Remaining(L, t, preferred, Up(L, d))
  BY SaleTyped, RemainingUp
<1>3. /\ SumOver(n, Up(L, d)) \in Nat
      /\ Holding(Up(S.lots, d)) = Holding(Up(L, d)) - SumOver(n, Up(L, d))
  <2> DEFINE R == Remaining(L, t, preferred, Up(L, d))
  <2>1. SumOver(n, Up(L, d)) \in Nat /\ Holding(R) = Holding(Up(L, d)) - SumOver(n, Up(L, d))
    BY <1>1, RemainingIs
  <2> HIDE DEF R
  <2>2. Up(S.lots, d) = R
    BY <1>2 DEF R
  <2> QED BY <2>1, <2>2
<1>4. Holding(Up(L, d)) \in Nat /\ Holding(Up(S.lots, d)) \in Nat
  <2>1. Position(Up(S.lots, d))
    BY <1>1, <1>2, RemainingIs
  <2> QED BY <1>1, <2>1, HoldingWhole DEF Position
<1>5. ASSUME t.at <= d PROVE SumOver(n, Up(L, d)) = t.qty
  <2>1. Open(L, t) \subseteq Up(L, d)
    <3>1. \A l \in L : l.at \in Int
      BY DEF Position, LotRec
    <3> QED BY <3>1, <1>5 DEF Open, Up, Ordered
  <2> QED BY <1>1, <2>1, TakenTotal, SaleIs
<1> HIDE DEF S, n
<1> QED BY <1>3, <1>4, <1>5 DEF S

-----------------------------------------------------------------------------
(* Transactions in the order of their execution. *)

Kinds == {"deposit", "withdraw", "buy", "sell"}
TxRec == [id : Int, kind : Kinds, qty : Nat, price : Nat, at : Int, tag : AnyTag,
          ref : Int, realized : Int]
\* Transactions as a portfolio has them.
Ledgered(T) == /\ T \subseteq TxRec /\ IsFiniteSet(T) /\ Distinct(T)
               /\ \A t \in T : t.kind \in {"buy", "sell"} => t.qty > 0

Before(T, t) == {u \in T : Earlier(u, t)}
Rank(T, t) == Cardinality(Before(T, t))
Nth(T, n) == CHOOSE t \in T : Rank(T, t) = n - 1
\* The n executed first.
FirstOf(T, n) == {t \in T : Rank(T, t) < n}

\* Rows of a ledger are ordered by date and number.
LEMMA EarlierOrders ==
    ASSUME NEW T, Ledgered(T)
    PROVE  /\ \A t, u \in T : t # u => Earlier(t, u) \/ Earlier(u, t)
           /\ \A t, u \in T : ~(Earlier(t, u) /\ Earlier(u, t))
           /\ \A t, u, v \in T : Earlier(t, u) /\ Earlier(u, v) => Earlier(t, v)
           /\ \A t, u \in T : Earlier(t, u) => t.at <= u.at
<1>1. \A t \in T : t.at \in Int /\ t.id \in Int
  BY DEF Ledgered, TxRec
<1>2. \A t, u \in T : t # u => t.id # u.id
  BY DEF Ledgered, Distinct
<1> QED BY <1>1, <1>2 DEF Earlier

\* The later of two has the higher rank.
LEMMA RankGrows ==
    ASSUME NEW T, Ledgered(T), NEW t \in T, NEW u \in T
    PROVE  /\ Rank(T, t) \in Nat /\ Rank(T, t) < Cardinality(T) /\ Cardinality(T) \in Nat
           /\ Earlier(t, u) <=> Rank(T, t) < Rank(T, u)
           /\ Rank(T, t) = Rank(T, u) => t = u
<1>1. \A v \in T : IsFiniteSet(Before(T, v)) /\ Rank(T, v) \in Nat
  BY FS_Subset, FS_CardinalityType DEF Before, Rank, Ledgered
<1>2. ASSUME NEW v \in T, NEW w \in T, Earlier(v, w) PROVE Rank(T, v) < Rank(T, w)
  <2>1. Before(T, v) \subseteq Before(T, w)
    BY <1>2, EarlierOrders DEF Before
  <2>2. v \in Before(T, w) /\ v \notin Before(T, v)
    BY <1>2, EarlierOrders DEF Before
  <2>3. Before(T, v) # Before(T, w)
    BY <2>2
  <2>4. Cardinality(Before(T, v)) <= Cardinality(Before(T, w))
        /\ (Cardinality(Before(T, w)) = Cardinality(Before(T, v)) => Before(T, w) = Before(T, v))
    BY <1>1, <2>1, FS_Subset
  <2> QED BY <1>1, <2>3, <2>4 DEF Rank
<1>3. Rank(T, t) < Cardinality(T) /\ Cardinality(T) \in Nat
  <2>1. Before(T, t) \in SUBSET T /\ t \notin Before(T, t)
    BY EarlierOrders DEF Before
  <2>2. Before(T, t) # T
    BY <2>1
  <2>3. Cardinality(Before(T, t)) <= Cardinality(T)
        /\ (Cardinality(T) = Cardinality(Before(T, t)) => T = Before(T, t))
    BY <2>1, FS_Subset DEF Ledgered
  <2>4. Cardinality(T) \in Nat
    BY FS_CardinalityType DEF Ledgered
  <2> QED BY <1>1, <2>2, <2>3, <2>4 DEF Rank
<1>4. t = u \/ Earlier(t, u) \/ Earlier(u, t)
  BY EarlierOrders
<1>5. ~Earlier(t, t)
  BY EarlierOrders
<1> QED BY <1>1, <1>2, <1>3, <1>4, <1>5

\* Every rank is taken.
LEMMA RankTaken ==
    ASSUME NEW T, Ledgered(T), NEW n \in 1..Cardinality(T)
    PROVE  /\ Nth(T, n) \in T /\ Rank(T, Nth(T, n)) = n - 1
<1>1. Cardinality(T) \in Nat /\ IsFiniteSet(T)
  BY FS_CardinalityType DEF Ledgered
<1> DEFINE f == [t \in T |-> Rank(T, t)]
           R == 0..(Cardinality(T) - 1)
<1>2. f \in Injection(T, R)
  <2>1. \A t \in T : Rank(T, t) \in R
    BY <1>1, RankGrows
  <2>2. \A t, u \in T : Rank(T, t) = Rank(T, u) => t = u
    BY RankGrows
  <2> QED BY <2>1, <2>2 DEF Injection, IsInjective
<1>3. IsFiniteSet(R) /\ Cardinality(R) = Cardinality(T)
  <2>1. PICK b \in Int : b = Cardinality(T) - 1
    BY <1>1
  <2>2. IsFiniteSet(0..b) /\ Cardinality(0..b) = IF 0 > b THEN 0 ELSE b - 0 + 1
    BY FS_Interval
  <2> QED BY <1>1, <2>1, <2>2
<1>4. f \in Surjection(T, R)
  <2> HIDE DEF f, R
  <2> QED BY <1>2, <1>3, FS_Injection
<1>5. n - 1 \in R
  BY <1>1
<1>6. PICK t \in T : f[t] = n - 1
  <2> HIDE DEF f, R
  <2> QED BY <1>4, <1>5 DEF Surjection
<1>7. \E t1 \in T : Rank(T, t1) = n - 1
  BY <1>6
<1> QED BY <1>7 DEF Nth

\* One after the other.
LEMMA FirstGrows ==
    ASSUME NEW T, Ledgered(T)
    PROVE  /\ FirstOf(T, 0) = {} /\ FirstOf(T, Cardinality(T)) = T
           /\ \A n \in 1..Cardinality(T) :
                 /\ FirstOf(T, n) = FirstOf(T, n - 1) \cup {Nth(T, n)}
                 /\ Nth(T, n) \in T \ FirstOf(T, n - 1)
                 /\ FirstOf(T, n - 1) = Before(T, Nth(T, n))
<1>1. \A t \in T : Rank(T, t) \in Nat /\ Rank(T, t) < Cardinality(T) /\ Cardinality(T) \in Nat
  BY RankGrows
<1>2. FirstOf(T, 0) = {} /\ FirstOf(T, Cardinality(T)) = T
  BY <1>1 DEF FirstOf
<1>3. ASSUME NEW n \in 1..Cardinality(T)
      PROVE  /\ FirstOf(T, n) = FirstOf(T, n - 1) \cup {Nth(T, n)}
             /\ Nth(T, n) \in T \ FirstOf(T, n - 1)
             /\ FirstOf(T, n - 1) = Before(T, Nth(T, n))
  <2>1. Nth(T, n) \in T /\ Rank(T, Nth(T, n)) = n - 1 /\ n \in Int
    BY RankTaken
  <2>2. \A t \in T : Rank(T, t) = n - 1 => t = Nth(T, n)
    BY <2>1, RankGrows
  <2>3. \A t \in T : Rank(T, t) < n <=> (Rank(T, t) < n - 1 \/ Rank(T, t) = n - 1)
    BY <1>1
  <2>4. \A t \in T : Earlier(t, Nth(T, n)) <=> Rank(T, t) < n - 1
    BY <2>1, RankGrows
  <2>5. Nth(T, n) \notin FirstOf(T, n - 1)
    BY <2>1 DEF FirstOf
  <2>6. FirstOf(T, n - 1) = Before(T, Nth(T, n))
    BY <2>4 DEF FirstOf, Before
  <2>7. FirstOf(T, n) = FirstOf(T, n - 1) \cup {Nth(T, n)}
    BY <2>1, <2>2, <2>3 DEF FirstOf
  <2> QED BY <2>1, <2>5, <2>6, <2>7
<1> QED BY <1>2, <1>3

-----------------------------------------------------------------------------
(* Folds over the transactions: the replay, and the rebuilding of a past state. *)

\* A day of the curve: its transactions are those of the ledger.
OnDay(d) == {t \in txs : DayOf(t.at) = d}
UpToDay(d) == {t \in txs : DayOf(t.at) <= d}
NextDay(s, d) == LET cash == s.cash + Cash(OnDay(d))
                     shown == Max({cash, 0})
                 IN  [cash |-> shown, value |-> shown + NetBought(UpToDay(d)) * ClosePrice[d],
                      paid |-> s.paid + Principal(OnDay(d)) + (shown - cash)]

Fold(how, r, t) == IF how = "replay" THEN Replayed(r, t)
                   ELSE IF how = "curve" THEN NextDay(r, t) ELSE Rebuilt(r, t)
Runs(f, how, start, T) ==
    f = [n \in 0..Cardinality(T) |-> IF n = 0 THEN start ELSE Fold(how, f[n - 1], Nth(T, n))]

Chain(f, how, start, item, N) ==
    f = [n \in 0..N |-> IF n = 0 THEN start ELSE Fold(how, f[n - 1], item[n])]

\* A fold has a value.
LEMMA ChainExists ==
    ASSUME NEW N \in Nat, NEW how, NEW start, NEW item
    PROVE  \E f : Chain(f, how, start, item, N)
<1> DEFINE Upto1(f, m) == f[0] = start /\ \A n \in 1..m : f[n] = Fold(how, f[n - 1], item[n])
           Bad == {m \in Nat : ~\E f : Upto1(f, m)}
<1>1. Bad = {}
  <2> SUFFICES ASSUME Bad # {} PROVE FALSE
    OBVIOUS
  <2>1. PICK m \in Bad : \A k \in Bad : m <= k
    <3>1. Bad \subseteq Nat
      OBVIOUS
    <3> HIDE DEF Bad
    <3> QED BY <3>1, LeastNumber
  <2>2. CASE m = 0
    <3>1. Upto1([n \in {0} |-> start], 0)
      OBVIOUS
    <3> QED BY <2>1, <2>2, <3>1
  <2>3. CASE m # 0
    <3>1. m - 1 \in Nat /\ m - 1 \notin Bad /\ m \in Nat
      BY <2>1, <2>3
    <3>2. PICK h : Upto1(h, m - 1)
      BY <3>1
    <3> DEFINE g == [n \in 0..m |-> IF n = m THEN Fold(how, h[m - 1], item[m]) ELSE h[n]]
    <3>3. g[0] = start
      BY <2>3, <3>1, <3>2
    <3>4. ASSUME NEW n \in 1..m PROVE g[n] = Fold(how, g[n - 1], item[n])
      <4>1. n - 1 \in 0..m /\ n - 1 # m /\ n \in 0..m
        BY <3>1
      <4>2. g[n - 1] = h[n - 1]
        BY <4>1
      <4>3. CASE n = m
        BY <4>1, <4>2, <4>3
      <4>4. CASE n # m
        <5>1. n \in 1..(m - 1)
          BY <4>4, <3>1
        <5>2. h[n] = Fold(how, h[n - 1], item[n])
          BY <5>1, <3>2
        <5> QED BY <4>1, <4>2, <4>4, <5>2
      <4> QED BY <4>3, <4>4
    <3>5. Upto1(g, m)
      <4> HIDE DEF g
      <4> QED BY <3>3, <3>4
    <3> QED BY <2>1, <3>5
  <2> QED BY <2>2, <2>3
<1>2. PICK f : Upto1(f, N)
  BY <1>1
<1> DEFINE g == [n \in 0..N |-> f[n]]
<1>3. ASSUME NEW n \in 0..N
      PROVE  g[n] = IF n = 0 THEN start ELSE Fold(how, g[n - 1], item[n])
  <2>1. n # 0 => n \in 1..N /\ n - 1 \in 0..N
    OBVIOUS
  <2> QED BY <1>2, <2>1
<1>4. Chain(g, how, start, item, N)
  BY <1>3 DEF Chain
<1> QED BY <1>4

\* Whatever is folded over a finite set has a run: the states after each step.
LEMMA RunExists ==
    ASSUME NEW T, IsFiniteSet(T), NEW how, NEW start
    PROVE  \E f : Runs(f, how, start, T)
<1> DEFINE N == Cardinality(T)
           item == [n \in 1..N |-> Nth(T, n)]
<1>1. N \in Nat
  BY FS_CardinalityType
<1> HIDE DEF N
<1>2. PICK f : Chain(f, how, start, item, N)
  BY <1>1, ChainExists
<1>3. \A n \in 0..N : n # 0 => item[n] = Nth(T, n)
  BY <1>1
<1> HIDE DEF item
<1>4. f = [n \in 0..N |-> IF n = 0 THEN start ELSE Fold(how, f[n - 1], Nth(T, n))]
  BY <1>2, <1>3 DEF Chain
<1> QED BY <1>4 DEF Runs, N

\* A replay is such a fold, and so is a rebuild.
LEMMA ReplayRuns ==
    ASSUME NEW T, IsFiniteSet(T), NEW first
    PROVE  \E f : Runs(f, "replay", NoTrades(first), T) /\ Replay(T, first) = f[Cardinality(T)]
<1> DEFINE P(f) == f = [n \in 0..Cardinality(T) |->
                          IF n = 0 THEN NoTrades(first) ELSE Replayed(f[n - 1], Nth(T, n))]
           f == CHOOSE f : Runs(f, "replay", NoTrades(first), T)
<1>1. Replay(T, first) = (CHOOSE g : P(g))[Cardinality(T)]
  BY DEF Replay, InOrder, Nth, Rank, Before
<1>2. \A g : P(g) <=> Runs(g, "replay", NoTrades(first), T)
  BY DEF Runs, Fold
<1>3. (CHOOSE g : P(g)) = f
  <2> HIDE DEF P
  <2> QED BY <1>2, Zenon
<1>4. Runs(f, "replay", NoTrades(first), T)
  BY RunExists
<1> QED BY <1>1, <1>3, <1>4

\* So has a rebuild of a past day, and its outcome is the last state of the run.
LEMMA RebuildRuns ==
    ASSUME NEW T, IsFiniteSet(T)
    PROVE  \E f : /\ Runs(f, "rebuild", [lots |-> {}], T)
                  /\ InOrder(Rebuilt, [lots |-> {}], T) = f[Cardinality(T)]
<1> DEFINE P(f) == f = [n \in 0..Cardinality(T) |->
                          IF n = 0 THEN [lots |-> {}] ELSE Rebuilt(f[n - 1], Nth(T, n))]
           f == CHOOSE f : Runs(f, "rebuild", [lots |-> {}], T)
<1>1. InOrder(Rebuilt, [lots |-> {}], T) = (CHOOSE g : P(g))[Cardinality(T)]
  BY DEF InOrder, Nth, Rank, Before
<1>2. \A g : P(g) <=> Runs(g, "rebuild", [lots |-> {}], T)
  BY DEF Runs, Fold
<1>3. (CHOOSE g : P(g)) = f
  <2> HIDE DEF P
  <2> QED BY <1>2, Zenon
<1>4. Runs(f, "rebuild", [lots |-> {}], T)
  BY RunExists
<1> QED BY <1>1, <1>3, <1>4

\* Its first value and the next.
LEMMA RunSteps ==
    ASSUME NEW T, IsFiniteSet(T), NEW how, NEW start, NEW f, Runs(f, how, start, T)
    PROVE  /\ f[0] = start
           /\ \A n \in 1..Cardinality(T) : f[n] = Fold(how, f[n - 1], Nth(T, n))
<1>0. Cardinality(T) \in Nat
  BY FS_CardinalityType
<1>1. \A n \in 0..Cardinality(T) : f[n] = IF n = 0 THEN start ELSE Fold(how, f[n - 1], Nth(T, n))
  BY DEF Runs
<1> QED BY <1>0, <1>1

-----------------------------------------------------------------------------
(* What transactions come to. *)

\* Shares a transaction adds, and its part in the books: what it takes from the cash that
\* is neither principal nor profit.
NetOf == [t \in TxRec |-> IF t.kind = "buy" THEN t.qty ELSE IF t.kind = "sell" THEN -t.qty ELSE 0]
BookOf == [t \in TxRec |-> IF t.kind = "buy" THEN -(t.qty * t.price)
                           ELSE IF t.kind = "sell" THEN t.qty * t.price - t.realized ELSE 0]
Net(T) == SumOver(NetOf, T)
Books(T) == SumOver(BookOf, T)

\* The numbers of a transaction are integers.
LEMMA TxValues ==
    ASSUME NEW t \in TxRec
    PROVE  /\ t.id \in Int /\ t.kind \in Kinds /\ t.qty \in Nat /\ t.price \in Nat /\ t.at \in Int
           /\ t.ref \in Int /\ t.realized \in Int
           /\ t.qty * t.price \in Int /\ Signed(t) \in Int
           /\ NetOf[t] \in Int /\ BookOf[t] \in Int
<1>1. /\ t.id \in Int /\ t.kind \in Kinds /\ t.qty \in Nat /\ t.price \in Nat /\ t.at \in Int
      /\ t.ref \in Int /\ t.realized \in Int
  BY DEF TxRec
<1>2. t.qty * t.price \in Int
  BY <1>1
<1>3. Signed(t) \in Int
  BY <1>2 DEF Signed, Amount
<1>4. NetOf[t] \in Int
  BY <1>1 DEF NetOf
<1>5. BookOf[t] \in Int
  BY <1>1, <1>2 DEF BookOf
<1> QED BY <1>1, <1>2, <1>3, <1>4, <1>5

\* So are the sums over a ledger.
LEMMA TxSums ==
    ASSUME NEW T, Ledgered(T)
    PROVE  Integral(NetOf, T) /\ Integral(BookOf, T) /\ Net(T) \in Int /\ Books(T) \in Int
<1>1. Integral(NetOf, T) /\ Integral(BookOf, T)
  BY TxValues DEF Integral, Ledgered
<1> QED BY <1>1, SumInteger DEF Net, Books, Ledgered

\* The part of a set of transactions is one.
LEMMA LedgeredPart ==
    ASSUME NEW T, Ledgered(T), NEW S, S \subseteq T
    PROVE  Ledgered(S)
  BY FS_Subset DEF Ledgered, Distinct

\* A sum over the transactions of some kinds.
LEMMA KindSum ==
    ASSUME NEW T, Ledgered(T), NEW K, NEW f, \A t \in T : f[t] \in Int,
           NEW g, g = [t \in T |-> IF t.kind \in K THEN f[t] ELSE 0]
    PROVE  SumOver(f, OfKind(T, K)) = SumOver(g, T) /\ Integral(g, T)
<1>1. OfKind(T, K) \in SUBSET T /\ IsFiniteSet(T) /\ IsFiniteSet(OfKind(T, K))
  BY FS_Subset DEF OfKind, Ledgered
<1>2. Integral(f, OfKind(T, K)) /\ Integral(g, OfKind(T, K)) /\ Integral(g, T)
  BY <1>1 DEF Integral
<1>3. SumOver(g, T) = SumOver(g, OfKind(T, K))
  <2>1. \A t \in T \ OfKind(T, K) : g[t] = 0
    BY DEF OfKind
  <2> QED BY <1>1, <1>2, <2>1, SumSupport
<1>4. SumOver(f, OfKind(T, K)) = SumOver(g, OfKind(T, K))
  <2>1. \A t \in OfKind(T, K) : f[t] = g[t]
    BY DEF OfKind
  <2> QED BY <1>1, <1>2, <2>1, SumSame
<1> QED BY <1>2, <1>3, <1>4

\* Two functions that agree, summed.
LEMMA KindSame ==
    ASSUME NEW T, Ledgered(T), NEW K, NEW f, NEW h, \A t \in T : f[t] \in Int,
           \A t \in OfKind(T, K) : h[t] = f[t]
    PROVE  SumOver(h, OfKind(T, K)) = SumOver(f, OfKind(T, K))
<1>1. IsFiniteSet(OfKind(T, K)) /\ Integral(h, OfKind(T, K))
  BY FS_Subset DEF OfKind, Ledgered, Integral
<1> QED BY <1>1, SumSame

\* Shares bought and not sold, and cash, in these terms.
LEMMA NetBoughtIs ==
    ASSUME NEW T, Ledgered(T)
    PROVE  NetBought(T) = Net(T)
<1> DEFINE q == [t \in T |-> t.qty]
           b == [t \in T |-> IF t.kind \in {"buy"} THEN q[t] ELSE 0]
           s == [t \in T |-> IF t.kind \in {"sell"} THEN q[t] ELSE 0]
<1>1. \A t \in T : q[t] \in Int /\ t.qty \in Int /\ t \in TxRec
  BY TxValues DEF Ledgered
<1>2. \A K : Holding(OfKind(T, K)) = SumOver(q, OfKind(T, K))
  <2> TAKE K
  <2> DEFINE h == [t \in OfKind(T, K) |-> t.qty]
  <2>1. \A t \in OfKind(T, K) : h[t] = q[t]
    BY DEF OfKind
  <2>2. Holding(OfKind(T, K)) = SumOver(h, OfKind(T, K))
    BY HoldingIsSum
  <2> HIDE DEF h, q
  <2> QED BY <1>1, <2>1, <2>2, KindSame
<1>3. /\ SumOver(q, OfKind(T, {"buy"})) = SumOver(b, T) /\ Integral(b, T)
      /\ SumOver(q, OfKind(T, {"sell"})) = SumOver(s, T) /\ Integral(s, T)
  <2>1. SumOver(q, OfKind(T, {"buy"})) = SumOver(b, T) /\ Integral(b, T)
    <3> HIDE DEF q
    <3> QED BY <1>1, KindSum
  <2>2. SumOver(q, OfKind(T, {"sell"})) = SumOver(s, T) /\ Integral(s, T)
    <3> HIDE DEF q
    <3> QED BY <1>1, KindSum
  <2> QED BY <2>1, <2>2
<1>4. SumOver(b, T) = Net(T) + SumOver(s, T)
  <2>1. \A t \in T : b[t] = NetOf[t] + s[t]
    BY <1>1 DEF NetOf
  <2> HIDE DEF b, s
  <2> QED BY <1>3, <2>1, TxSums, SumPlus DEF Net, Ledgered
<1>5. SumOver(s, T) \in Int /\ Net(T) \in Int
  BY <1>3, SumInteger, TxSums DEF Ledgered
<1> HIDE DEF b, s, q
<1> QED BY <1>2, <1>3, <1>4, <1>5 DEF NetBought

\* The cash is what was paid in, what sells gained and what the books hold.
LEMMA CashIs ==
    ASSUME NEW T, Ledgered(T)
    PROVE  /\ Cash(T) = Principal(T) + Realized(T) + Books(T)
           /\ Cash(T) \in Int /\ Principal(T) \in Int /\ Realized(T) \in Int
<1> DEFINE c == [t \in T |-> Signed(t)]
           r == [t \in T |-> t.realized]
           p == [t \in T |-> IF t.kind \in {"deposit", "withdraw"} THEN c[t] ELSE 0]
           g == [t \in T |-> IF t.kind \in {"sell"} THEN r[t] ELSE 0]
           h == [t \in T |-> g[t] + BookOf[t]]
<1>1. \A t \in T : c[t] \in Int /\ r[t] \in Int /\ t \in TxRec /\ BookOf[t] \in Int
  BY TxValues DEF Ledgered
<1>2. Principal(T) = SumOver(p, T) /\ Integral(p, T)
  <2> DEFINE f == [t \in OfKind(T, {"deposit", "withdraw"}) |-> Signed(t)]
  <2>1. \A t \in OfKind(T, {"deposit", "withdraw"}) : f[t] = c[t]
    BY DEF OfKind
  <2>2. Principal(T) = SumOver(f, OfKind(T, {"deposit", "withdraw"}))
    BY CashIsSum DEF Principal
  <2> HIDE DEF f, c
  <2>3. SumOver(f, OfKind(T, {"deposit", "withdraw"})) = SumOver(c, OfKind(T, {"deposit", "withdraw"}))
    BY <1>1, <2>1, KindSame
  <2> QED BY <1>1, <2>2, <2>3, KindSum
<1>3. Realized(T) = SumOver(g, T) /\ Integral(g, T)
  <2> DEFINE f == [t \in OfKind(T, {"sell"}) |-> t.realized]
  <2>1. \A t \in OfKind(T, {"sell"}) : f[t] = r[t]
    BY DEF OfKind
  <2>2. Realized(T) = SumOver(f, OfKind(T, {"sell"}))
    BY RealizedIsSum
  <2> HIDE DEF f, r
  <2>3. SumOver(f, OfKind(T, {"sell"})) = SumOver(r, OfKind(T, {"sell"}))
    BY <1>1, <2>1, KindSame
  <2> QED BY <1>1, <2>2, <2>3, KindSum
<1>4. SumOver(h, T) = SumOver(g, T) + Books(T) /\ Integral(h, T)
  <2>1. Integral(h, T)
    BY <1>1, <1>3 DEF Integral
  <2>2. \A t \in T : h[t] = g[t] + BookOf[t]
    OBVIOUS
  <2> HIDE DEF h, g
  <2> QED BY <1>3, <2>1, <2>2, TxSums, SumPlus DEF Books, Ledgered
<1>5. SumOver(c, T) = SumOver(p, T) + SumOver(h, T)
  <2>1. ASSUME NEW t \in T PROVE c[t] = p[t] + h[t]
    <3>1. /\ t.kind \in Kinds /\ t.realized \in Int /\ t.qty * t.price \in Int
          /\ t \in TxRec
      BY <1>1, TxValues
    <3>2. c[t] = IF t.kind \in {"deposit", "sell"} THEN t.qty * t.price ELSE -(t.qty * t.price)
      BY DEF Signed, Amount
    <3>3. BookOf[t] = IF t.kind = "buy" THEN -(t.qty * t.price)
                      ELSE IF t.kind = "sell" THEN t.qty * t.price - t.realized ELSE 0
      BY <3>1 DEF BookOf
    <3> DEFINE a == t.qty * t.price
    <3> HIDE DEF a
    <3> QED BY <3>1, <3>2, <3>3 DEF Kinds, a
  <2> HIDE DEF c, p, h
  <2> QED BY <1>2, <1>4, <2>1, SumPlus DEF Ledgered
<1>6. Cash(T) = SumOver(c, T)
  BY CashIsSum
<1>7. SumOver(p, T) \in Int /\ SumOver(g, T) \in Int /\ Books(T) \in Int
  BY <1>2, <1>3, SumInteger, TxSums DEF Ledgered
<1> HIDE DEF c, r, p, g, h
<1> QED BY <1>2, <1>3, <1>4, <1>5, <1>6, <1>7

\* One more.
LEMMA NetAdded ==
    ASSUME NEW T, NEW t, Ledgered(T \cup {t}), t \notin T
    PROVE  /\ Net(T \cup {t}) = Net(T) + NetOf[t] /\ Books(T \cup {t}) = Books(T) + BookOf[t]
           /\ Ledgered(T) /\ t \in TxRec
           /\ NetOf[t] \in Int /\ BookOf[t] \in Int /\ Net(T) \in Int /\ Books(T) \in Int
<1>1. Ledgered(T) /\ t \in TxRec
  <2>1. T \subseteq T \cup {t}
    OBVIOUS
  <2> QED BY <2>1, LedgeredPart DEF Ledgered
<1>2. NetOf[t] \in Int /\ BookOf[t] \in Int /\ Net(T) \in Int /\ Books(T) \in Int
  BY <1>1, TxValues, TxSums
<1>3. Net(T \cup {t}) = NetOf[t] + Net(T)
  BY <1>1, TxSums, SumAdded DEF Net, Ledgered
<1>4. Books(T \cup {t}) = BookOf[t] + Books(T)
  BY <1>1, TxSums, SumAdded DEF Books, Ledgered
<1> QED BY <1>1, <1>2, <1>3, <1>4

-----------------------------------------------------------------------------
(* Rows with new profits. *)

Gained(t, gain) == IF \E g \in gain : g[1] = t.id
                   THEN (CHOOSE g \in gain : g[1] = t.id)[2] ELSE t.realized
NewRow(t, gain) == [t EXCEPT !.realized = Gained(t, gain)]
Gains(gain) == gain \subseteq Int \X Int

\* A row with another profit is the same row otherwise.
LEMMA NewRowIs ==
    ASSUME NEW t \in TxRec, NEW gain, Gains(gain)
    PROVE  LET v == NewRow(t, gain)
           IN  /\ v \in TxRec /\ v.id = t.id /\ v.kind = t.kind /\ v.qty = t.qty /\ v.price = t.price
               /\ v.at = t.at /\ v.realized = Gained(t, gain)
               /\ v.ref = t.ref /\ NetOf[v] = NetOf[t]
               /\ (Gained(t, gain) = t.realized => v = t)
<1>1. Gained(t, gain) \in Int
  BY DEF Gained, Gains, TxRec
<1> HIDE DEF Gained
<1>2. PICK x \in Int : x = Gained(t, gain)
  BY <1>1
<1> DEFINE v == [t EXCEPT !.realized = x]
<1>3. /\ v \in TxRec /\ v.id = t.id /\ v.kind = t.kind /\ v.qty = t.qty /\ v.price = t.price
      /\ v.at = t.at /\ v.realized = x /\ v.ref = t.ref
  BY DEF TxRec
<1>4. x = t.realized => v = t
  BY DEF TxRec
<1>5. NetOf[v] = NetOf[t]
  <2> HIDE DEF v
  <2> QED BY <1>3 DEF NetOf
<1>6. NewRow(t, gain) = v
  BY <1>2 DEF NewRow
<1> HIDE DEF v
<1> QED BY <1>2, <1>3, <1>4, <1>5, <1>6

\* Revaluing a ledger maps its rows one to one.
LEMMA RevaluedIs ==
    ASSUME NEW T, Ledgered(T), NEW gain, Gains(gain)
    PROVE  /\ Revalued(T, gain) = {NewRow(t, gain) : t \in T}
           /\ Ledgered(Revalued(T, gain))
           /\ Ids(Revalued(T, gain)) = Ids(T)
<1> DEFINE m == [t \in T |-> NewRow(t, gain)]
<1>1. Revalued(T, gain) = {NewRow(t, gain) : t \in T}
  BY DEF Revalued, NewRow, Gained
<1>2. {NewRow(t, gain) : t \in T} = {m[t] : t \in T}
  OBVIOUS
<1>3. IsFiniteSet({m[t] : t \in T})
  BY ImageFinite DEF Ledgered
<1>4. \A t \in T : NewRow(t, gain) \in TxRec /\ NewRow(t, gain).id = t.id
  BY NewRowIs DEF Ledgered
<1>5. Distinct({NewRow(t, gain) : t \in T})
  BY <1>4 DEF Distinct, Ledgered
<1>6. Ids({NewRow(t, gain) : t \in T}) = Ids(T)
  BY <1>4 DEF Ids
<1>7. \A v \in {NewRow(t, gain) : t \in T} : v.kind \in {"buy", "sell"} => v.qty > 0
  <2>1. ASSUME NEW t \in T, NewRow(t, gain).kind \in {"buy", "sell"} PROVE NewRow(t, gain).qty > 0
    <3>1. NewRow(t, gain).kind = t.kind /\ NewRow(t, gain).qty = t.qty
      BY NewRowIs DEF Ledgered
    <3> QED BY <2>1, <3>1 DEF Ledgered
  <2> QED BY <2>1
<1>8. {NewRow(t, gain) : t \in T} \subseteq TxRec /\ IsFiniteSet({NewRow(t, gain) : t \in T})
  BY <1>2, <1>3, <1>4
<1> HIDE DEF m
<1> QED BY <1>1, <1>5, <1>6, <1>7, <1>8 DEF Ledgered

\* New profits change no shares.
LEMMA RevaluedNet ==
    ASSUME NEW T, Ledgered(T), NEW gain, Gains(gain)
    PROVE  Net(Revalued(T, gain)) = Net(T)
<1> DEFINE m == [t \in T |-> NewRow(t, gain)]
           h == [t \in T |-> NetOf[m[t]]]
<1>1. \A t \in T : m[t] \in TxRec /\ m[t].id = t.id /\ NetOf[m[t]] = NetOf[t]
  BY NewRowIs DEF Ledgered
<1>2. \A t, u \in T : m[t] = m[u] => t = u
  BY <1>1 DEF Ledgered, Distinct
<1>3. \A t \in T : NetOf[m[t]] \in Int
  BY <1>1, TxValues
<1>4. Revalued(T, gain) = {m[t] : t \in T}
  BY RevaluedIs
<1> HIDE DEF m
<1>5. SumOver(NetOf, {m[t] : t \in T}) = SumOver(h, T)
  BY <1>2, <1>3, SumImage DEF Ledgered
<1>6. SumOver(h, T) = SumOver(NetOf, T)
  <2>1. Integral(h, T) /\ \A t \in T : h[t] = NetOf[t]
    BY <1>1, <1>3 DEF Integral
  <2> HIDE DEF h
  <2> QED BY <2>1, SumSame DEF Ledgered
<1> QED BY <1>4, <1>5, <1>6 DEF Net

SameGains(T, more, gain) == \A u \in T : Gained(u, more) = Gained(u, gain)
NewIn(T, t, gain, more) == /\ Ledgered(T \cup {t}) /\ t \notin T
                           /\ Gains(gain) /\ Gains(more) /\ SameGains(T, more, gain)
RowIn(T, t, gain, more) ==
    /\ Revalued(T \cup {t}, more) = Revalued(T, gain) \cup {NewRow(t, more)}
    /\ NewRow(t, more) \notin Revalued(T, gain)
    /\ Books(Revalued(T \cup {t}, more)) = Books(Revalued(T, gain)) + BookOf[NewRow(t, more)]
    /\ Books(Revalued(T, gain)) \in Int

\* One more row, whose profit is new or not; the gains of the others are the same.
LEMMA RevaluedAdded ==
    ASSUME NEW T, NEW t, NEW gain, NEW more, NewIn(T, t, gain, more)
    PROVE  RowIn(T, t, gain, more)
<1>. Ledgered(T \cup {t}) /\ t \notin T /\ Gains(gain) /\ Gains(more) /\ SameGains(T, more, gain)
  BY DEF NewIn
<1>1. Ledgered(T) /\ t \in TxRec
  BY NetAdded
<1>2. \A u \in T : NewRow(u, more) = NewRow(u, gain)
  BY DEF NewRow, SameGains
<1>3. Revalued(T \cup {t}, more) = Revalued(T, gain) \cup {NewRow(t, more)}
  <2>1. Revalued(T \cup {t}, more) = {NewRow(u, more) : u \in T \cup {t}}
    BY RevaluedIs
  <2>2. Revalued(T, gain) = {NewRow(u, gain) : u \in T}
    BY <1>1, RevaluedIs
  <2> QED BY <1>2, <2>1, <2>2
<1>4. NewRow(t, more) \notin Revalued(T, gain)
  <2>1. NewRow(t, more).id = t.id
    BY <1>1, NewRowIs
  <2>2. \A v \in Revalued(T, gain) : \E u \in T : v.id = u.id
    <3>1. Ids(Revalued(T, gain)) = Ids(T)
      BY <1>1, RevaluedIs
    <3>2. \A v \in Revalued(T, gain) : v.id \in Ids(Revalued(T, gain))
      BY DEF Ids
    <3>3. \A v \in Revalued(T, gain) : v.id \in Ids(T)
      BY <3>1, <3>2
    <3> QED BY <3>3 DEF Ids
  <2>3. \A u \in T : u.id # t.id
    BY DEF Ledgered, Distinct
  <2> QED BY <2>1, <2>2, <2>3
<1>5. Ledgered(Revalued(T, gain) \cup {NewRow(t, more)})
  BY <1>3, RevaluedIs
<1> QED BY <1>3, <1>4, <1>5, NetAdded DEF RowIn

-----------------------------------------------------------------------------
(* The lots and the transactions agree. *)

\* Shares held are shares bought and not sold, and their cost what is missing from the cash.
Balanced(L, T) == Holding(L) = Net(T) /\ Cost(L) + Books(T) = 0

Through(T, u) == Before(T, u) \cup {u}
\* The lots up to a date hold no more than had been bought and not sold at any moment after.
KeptAt(L, T, d) == /\ Holding(Up(L, d)) <= Net(Up(T, d))
                   /\ \A u \in T : u.at > d => Holding(Up(L, d)) <= Net(Through(T, u))
Kept(L, T) == \A d \in Int : KeptAt(L, T, d)
\* A sell had its shares when it was executed.
Covered(T) == \A u \in T : Net(Through(T, u)) >= 0

\* Lots as a portfolio has them, up to a date.
LEMMA UpWhole ==
    ASSUME NEW L, Position(L), NEW d \in Int
    PROVE  /\ Position(Up(L, d)) /\ Holding(Up(L, d)) \in Nat
           /\ \A e \in Int : d <= e => Holding(Up(L, d)) <= Holding(Up(L, e))
<1>0. \A e \in Int : Up(L, e) \subseteq L /\ IsFiniteSet(Up(L, e))
  BY FS_Subset DEF Up, Position
<1>1. \A e \in Int : Up(L, e) \subseteq LotRec /\ Position(Up(L, e))
  BY <1>0 DEF Position, Distinct
<1>2. Holding(Up(L, d)) \in Nat
  BY <1>0, <1>1, HoldingWhole
<1>3. ASSUME NEW e \in Int, d <= e PROVE Holding(Up(L, d)) <= Holding(Up(L, e))
  <2> DEFINE f == [l \in Up(L, e) |-> IF l \in Up(L, d) THEN QtyOf[l] ELSE 0]
  <2>1. Up(L, d) \in SUBSET Up(L, e)
    <3>1. \A l \in L : l.at \in Int
      BY DEF Position, LotRec
    <3> QED BY <3>1, <1>3 DEF Up
  <2>2. \A l \in Up(L, e) : QtyOf[l] \in Nat
    BY <1>0, <1>1, LotSums
  <2>3. Integral(f, Up(L, e)) /\ Integral(f, Up(L, d)) /\ Integral(QtyOf, Up(L, e)) /\ Integral(QtyOf, Up(L, d))
    BY <2>1, <2>2 DEF Integral
  <2>4. SumOver(f, Up(L, e)) = SumOver(f, Up(L, d))
    <3>1. \A l \in Up(L, e) \ Up(L, d) : f[l] = 0
      OBVIOUS
    <3> HIDE DEF f
    <3> QED BY <3>1, <1>0, <2>1, <2>3, SumSupport
  <2>5. SumOver(f, Up(L, d)) = SumOver(QtyOf, Up(L, d))
    <3>1. \A l \in Up(L, d) : f[l] = QtyOf[l]
      BY <2>1
    <3> HIDE DEF f
    <3> QED BY <3>1, <1>0, <2>3, SumSame
  <2>6. SumOver(f, Up(L, e)) <= SumOver(QtyOf, Up(L, e))
    <3>1. \A l \in Up(L, e) : f[l] <= QtyOf[l]
      BY <2>2
    <3> HIDE DEF f
    <3> QED BY <3>1, <1>0, <2>3, SumMonotone
  <2> HIDE DEF f
  <2> QED BY <1>0, <1>1, <2>4, <2>5, <2>6, LotSums
<1> QED BY <1>1, <1>2, <1>3

\* Sums up to a date and through a transaction, when another comes between.
LEMMA NetGrows ==
    ASSUME NEW T, NEW t, Ledgered(T \cup {t}), t \notin T,
           \A u \in T : u.at <= t.at => Earlier(u, t)
    PROVE  /\ \A d \in Int : Net(Up(T \cup {t}, d)) = Net(Up(T, d)) + (IF t.at <= d THEN NetOf[t] ELSE 0)
           /\ \A u \in T : Net(Through(T \cup {t}, u)) =
                             Net(Through(T, u)) + (IF u.at > t.at THEN NetOf[t] ELSE 0)
           /\ Net(Through(T \cup {t}, t)) = Net(Up(T, t.at)) + NetOf[t]
           /\ \A d \in Int : Net(Up(T, d)) \in Int
           /\ \A u \in T : Net(Through(T, u)) \in Int
<1>0. /\ Ledgered(T) /\ t \in TxRec /\ NetOf[t] \in Int /\ t.at \in Int /\ t.id \in Int
      /\ \A u \in T : u.at \in Int /\ u.id \in Int
  BY NetAdded, TxValues DEF Ledgered
<1>1. ASSUME NEW S, S \subseteq T
      PROVE  Net(S \cup {t}) = Net(S) + NetOf[t] /\ Net(S) \in Int
  <2>1. Ledgered(S \cup {t}) /\ t \notin S
    <3>1. S \cup {t} \subseteq T \cup {t}
      BY <1>1
    <3> QED BY <1>1, <3>1, LedgeredPart
  <2> QED BY <2>1, NetAdded
<1>2. ASSUME NEW d \in Int
      PROVE  Net(Up(T \cup {t}, d)) = Net(Up(T, d)) + (IF t.at <= d THEN NetOf[t] ELSE 0)
             /\ Net(Up(T, d)) \in Int
  <2>1. Up(T, d) \subseteq T
    BY DEF Up
  <2>2. CASE t.at <= d
    <3>1. Up(T \cup {t}, d) = Up(T, d) \cup {t}
      BY <2>2 DEF Up
    <3> QED BY <1>1, <2>1, <2>2, <3>1
  <2>3. CASE ~(t.at <= d)
    <3>1. Up(T \cup {t}, d) = Up(T, d)
      BY <2>3 DEF Up
    <3>2. Net(Up(T, d)) \in Int
      BY <1>1, <2>1
    <3>3. (IF t.at <= d THEN NetOf[t] ELSE 0) = 0
      BY <2>3
    <3> QED BY <3>1, <3>2, <3>3
  <2> QED BY <2>2, <2>3
<1>3. ASSUME NEW u \in T
      PROVE  /\ Net(Through(T \cup {t}, u)) = Net(Through(T, u)) + (IF u.at > t.at THEN NetOf[t] ELSE 0)
             /\ Net(Through(T, u)) \in Int
  <2>1. Through(T, u) \subseteq T
    BY DEF Through, Before
  <2>2. CASE u.at > t.at
    <3>1. Earlier(t, u)
      BY <1>0, <2>2 DEF Earlier
    <3>2. Through(T \cup {t}, u) = Through(T, u) \cup {t}
      BY <3>1 DEF Through, Before
    <3> QED BY <1>1, <2>1, <2>2, <3>2
  <2>3. CASE ~(u.at > t.at)
    <3>1. Earlier(u, t)
      BY <1>0, <2>3
    <3>2. ~Earlier(t, u)
      BY <1>0, <3>1 DEF Earlier
    <3>3. Through(T \cup {t}, u) = Through(T, u)
      BY <3>2 DEF Through, Before
    <3>4. Net(Through(T, u)) \in Int
      BY <1>1, <2>1
    <3>5. (IF u.at > t.at THEN NetOf[t] ELSE 0) = 0
      BY <2>3
    <3> QED BY <3>3, <3>4, <3>5
  <2> QED BY <2>2, <2>3
<1>4. Net(Through(T \cup {t}, t)) = Net(Up(T, t.at)) + NetOf[t]
  <2>1. ~Earlier(t, t)
    BY <1>0 DEF Earlier
  <2>2. \A u \in T : Earlier(u, t) <=> u.at <= t.at
    BY <1>0 DEF Earlier
  <2>3. Through(T \cup {t}, t) = Up(T, t.at) \cup {t}
    BY <2>1, <2>2 DEF Through, Before, Up
  <2>4. Up(T, t.at) \subseteq T
    BY DEF Up
  <2> QED BY <1>1, <2>3, <2>4
<1> QED BY <1>2, <1>3, <1>4

\* The lots follow a transaction executed after all of its date and before.
LEMMA KeptGrows ==
    ASSUME NEW T, NEW t, Ledgered(T \cup {t}), t \notin T,
           \A u \in T : u.at <= t.at => Earlier(u, t),
           NEW L, Position(L), NEW M, Position(M), Kept(L, T),
           \A d \in Int : t.at <= d => Holding(Up(M, d)) = Holding(Up(L, d)) + NetOf[t],
           \A d \in Int : d < t.at => Holding(Up(M, d)) <= Holding(Up(L, d))
    PROVE  Kept(M, T \cup {t})
<1>0. /\ NetOf[t] \in Int /\ t.at \in Int
      /\ \A u \in T : u.at \in Int
  BY NetAdded, TxValues DEF Ledgered
<1>1. \A d \in Int : Holding(Up(M, d)) \in Nat /\ Holding(Up(L, d)) \in Nat
  BY UpWhole
<1>2. \A d, e \in Int : d <= e => Holding(Up(M, d)) <= Holding(Up(M, e))
  BY UpWhole
<1> SUFFICES ASSUME NEW d \in Int PROVE KeptAt(M, T \cup {t}, d)
  BY DEF Kept
<1>3. \A e \in Int : Holding(Up(L, e)) <= Net(Up(T, e)) /\ Net(Up(T, e)) \in Int
  BY NetGrows DEF Kept, KeptAt
<1>4. \A u \in T : \A e \in Int : u.at > e => Holding(Up(L, e)) <= Net(Through(T, u))
  BY DEF Kept, KeptAt
<1>5. \A u \in T : /\ Net(Through(T, u)) \in Int
                   /\ Net(Through(T \cup {t}, u)) =
                        Net(Through(T, u)) + (IF u.at > t.at THEN NetOf[t] ELSE 0)
  BY NetGrows
<1>6. Holding(Up(M, d)) <= Net(Up(T \cup {t}, d))
  <2>1. Net(Up(T \cup {t}, d)) = Net(Up(T, d)) + (IF t.at <= d THEN NetOf[t] ELSE 0)
    BY NetGrows
  <2>2. CASE t.at <= d
    BY <1>0, <1>1, <1>3, <2>1, <2>2
  <2>3. CASE d < t.at
    BY <1>0, <1>1, <1>3, <2>1, <2>3
  <2> QED BY <1>0, <2>2, <2>3
<1>7. ASSUME t.at > d PROVE Holding(Up(M, d)) <= Net(Through(T \cup {t}, t))
  <2>1. Holding(Up(M, d)) <= Holding(Up(M, t.at))
    BY <1>0, <1>2, <1>7
  <2>2. Holding(Up(M, t.at)) = Holding(Up(L, t.at)) + NetOf[t]
    BY <1>0
  <2>3. Net(Through(T \cup {t}, t)) = Net(Up(T, t.at)) + NetOf[t]
    BY NetGrows
  <2>4. Holding(Up(L, t.at)) <= Net(Up(T, t.at)) /\ Net(Up(T, t.at)) \in Int
    BY <1>0, <1>3
  <2>5. Holding(Up(M, t.at)) \in Nat /\ Holding(Up(L, t.at)) \in Nat /\ Holding(Up(M, d)) \in Nat
    BY <1>0, <1>1
  <2> QED BY <1>0, <2>1, <2>2, <2>3, <2>4, <2>5
<1>8. ASSUME NEW u \in T, u.at > d PROVE Holding(Up(M, d)) <= Net(Through(T \cup {t}, u))
  <2>1. u.at \in Int
    BY <1>0
  <2>2. CASE ~(u.at > t.at)
    <3>1. d < t.at
      BY <1>0, <1>8, <2>1, <2>2
    <3>2. Holding(Up(M, d)) <= Holding(Up(L, d)) /\ Holding(Up(L, d)) <= Net(Through(T, u))
      BY <3>1, <1>4, <1>8
    <3>3. Net(Through(T, u)) \in Int /\ Net(Through(T \cup {t}, u)) = Net(Through(T, u)) + 0
      BY <1>5, <2>2
    <3>4. Holding(Up(M, d)) \in Nat /\ Holding(Up(L, d)) \in Nat
      BY <1>1
    <3> QED BY <3>2, <3>3, <3>4
  <2>3. CASE u.at > t.at /\ t.at <= d
    <3>1. Holding(Up(M, d)) = Holding(Up(L, d)) + NetOf[t] /\ Holding(Up(L, d)) <= Net(Through(T, u))
      BY <2>3, <1>4, <1>8
    <3>2. Net(Through(T, u)) \in Int /\ Net(Through(T \cup {t}, u)) = Net(Through(T, u)) + NetOf[t]
      BY <1>5, <2>3
    <3>3. Holding(Up(M, d)) \in Nat /\ Holding(Up(L, d)) \in Nat
      BY <1>1
    <3> QED BY <1>0, <3>1, <3>2, <3>3
  <2>4. CASE u.at > t.at /\ d < t.at
    <3>1. Holding(Up(M, d)) <= Holding(Up(M, t.at))
      BY <1>0, <1>2, <2>4
    <3>2. Holding(Up(M, t.at)) = Holding(Up(L, t.at)) + NetOf[t]
      BY <1>0
    <3>3. Holding(Up(L, t.at)) <= Net(Through(T, u))
      BY <1>0, <1>4, <2>4
    <3>4. Holding(Up(M, t.at)) \in Nat /\ Holding(Up(L, t.at)) \in Nat /\ Holding(Up(M, d)) \in Nat
      BY <1>0, <1>1
    <3>5. Net(Through(T, u)) \in Int /\ Net(Through(T \cup {t}, u)) = Net(Through(T, u)) + NetOf[t]
      BY <1>5, <2>4
    <3> QED BY <1>0, <3>1, <3>2, <3>3, <3>4, <3>5
  <2> QED BY <1>0, <2>1, <2>2, <2>3, <2>4
<1> QED BY <1>6, <1>7, <1>8 DEF KeptAt

\* Lots that are kept cover every sell.
LEMMA KeptCovers ==
    ASSUME NEW L, Position(L), NEW T, Ledgered(T), Kept(L, T)
    PROVE  Covered(T)
<1> SUFFICES ASSUME NEW u \in T PROVE Net(Through(T, u)) >= 0
  BY DEF Covered
<1>1. u.at \in Int
  BY TxValues DEF Ledgered
<1>2. PICK d \in Int : d = u.at - 1
  BY <1>1
<1>3. Holding(Up(L, d)) <= Net(Through(T, u))
  BY <1>1, <1>2 DEF Kept, KeptAt
<1>4. Holding(Up(L, d)) \in Nat
  BY UpWhole
<1>5. Net(Through(T, u)) \in Int
  <2>1. Through(T, u) \subseteq T
    BY DEF Through, Before
  <2> QED BY <2>1, LedgeredPart, TxSums
<1> QED BY <1>3, <1>4, <1>5

\* A lot more.
LEMMA LotAdded ==
    ASSUME NEW L, Position(L), NEW l \in LotRec, l.qty > 0, \A m \in L : m.id # l.id
    PROVE  /\ Position(L \cup {l}) /\ Holding(L \cup {l}) = Holding(L) + l.qty
           /\ Cost(L \cup {l}) = Cost(L) + l.qty * l.price
           /\ \A d \in Int : Holding(Up(L \cup {l}, d)) = Holding(Up(L, d)) + (IF l.at <= d THEN l.qty ELSE 0)
<1>0. l.qty \in Int /\ l.qty * l.price \in Int
  BY DEF LotRec
<1>1. ASSUME NEW K, K \subseteq L
      PROVE  /\ Position(K \cup {l}) /\ Holding(K \cup {l}) = Holding(K) + l.qty
             /\ Cost(K \cup {l}) = Cost(K) + l.qty * l.price
             /\ Holding(K) \in Nat /\ Cost(K) \in Nat
  <2>1. IsFiniteSet(K) /\ IsFiniteSet(K \cup {l}) /\ K \subseteq LotRec /\ K \cup {l} \subseteq LotRec
    BY <1>1, FS_Subset, FS_AddElement DEF Position
  <2>2. l \notin K
    BY <1>1
  <2>3. Position(K \cup {l})
    BY <1>1, <2>1 DEF Position, Distinct
  <2>4. Integral(QtyOf, K \cup {l}) /\ Integral(CostOf, K \cup {l})
    BY <2>1, LotSums
  <2>5. /\ SumOver(QtyOf, K \cup {l}) = QtyOf[l] + SumOver(QtyOf, K)
        /\ SumOver(CostOf, K \cup {l}) = CostOf[l] + SumOver(CostOf, K)
    BY <2>1, <2>2, <2>4, SumAdded
  <2>6. QtyOf[l] = l.qty /\ CostOf[l] = l.qty * l.price
    BY DEF QtyOf, CostOf
  <2>7. Holding(K) \in Nat /\ Cost(K) \in Nat
    BY <2>1, HoldingWhole
  <2>8. /\ Holding(K) = SumOver(QtyOf, K) /\ Cost(K) = SumOver(CostOf, K)
        /\ Holding(K \cup {l}) = SumOver(QtyOf, K \cup {l}) /\ Cost(K \cup {l}) = SumOver(CostOf, K \cup {l})
    BY <2>1, LotSums
  <2> QED BY <1>0, <2>3, <2>5, <2>6, <2>7, <2>8
<1>2. ASSUME NEW d \in Int
      PROVE  Holding(Up(L \cup {l}, d)) = Holding(Up(L, d)) + (IF l.at <= d THEN l.qty ELSE 0)
  <2>1. Up(L, d) \subseteq L
    BY DEF Up
  <2>2. CASE l.at <= d
    <3>1. Up(L \cup {l}, d) = Up(L, d) \cup {l}
      BY <2>2 DEF Up
    <3> QED BY <1>1, <2>1, <2>2, <3>1
  <2>3. CASE ~(l.at <= d)
    <3>1. Up(L \cup {l}, d) = Up(L, d)
      BY <2>3 DEF Up
    <3>2. Holding(Up(L, d)) \in Nat
      BY <1>1, <2>1
    <3>3. (IF l.at <= d THEN l.qty ELSE 0) = 0
      BY <2>3
    <3> QED BY <3>1, <3>2, <3>3
  <2> QED BY <2>2, <2>3
<1> QED BY <1>1, <1>2

\* Nothing is kept of nothing.
LEMMA NothingKept ==
    /\ Position({}) /\ Ledgered({}) /\ Kept({}, {}) /\ Balanced({}, {})
<1>1. Position({}) /\ Ledgered({})
  BY FS_EmptySet DEF Position, Ledgered, Distinct
<1>2. Holding({}) = 0 /\ Cost({}) = 0 /\ Net({}) = 0 /\ Books({}) = 0
  BY HoldingIsSum, CostIsSum, SumEmpty DEF Net, Books
<1>3. \A d \in Int : Up({}, d) = {}
  BY DEF Up
<1> QED BY <1>1, <1>2, <1>3 DEF Kept, KeptAt, Balanced

-----------------------------------------------------------------------------
(* A replay. *)

ReplayRec == [lots : SUBSET LotRec, next : Int, cash : Int, gain : SUBSET (Int \X Int),
              ok : BOOLEAN, sellsOk : BOOLEAN]

\* What a replay has made of S, the transactions executed so far.
Shaped(r, S, first) ==
    /\ r \in ReplayRec /\ Position(r.lots) /\ first <= r.next
    /\ \A l \in r.lots : l.id >= first /\ l.id < r.next /\ \E u \in S : l.at = u.at
    /\ \A g \in r.gain : \E u \in S : g[1] = u.id /\ u.kind = "sell"
    /\ \A u \in S : u.kind = "sell" => \E g \in r.gain : g[1] = u.id
    /\ \A g, h \in r.gain : g[1] = h[1] => g = h
    /\ r.ok => r.sellsOk
Agrees(r, S, first) ==
    /\ Shaped(r, S, first)
    /\ r.sellsOk => Balanced(r.lots, Revalued(S, r.gain)) /\ Kept(r.lots, S)
    /\ Covered(S) => r.sellsOk

\* The next transaction in the order of execution.
Follows(S, t) == Ledgered(S \cup {t}) /\ t \notin S /\ \A u \in S : Earlier(u, t)

\* What holds of the transaction that comes next.
LEMMA FollowsIs ==
    ASSUME NEW S, NEW t, Follows(S, t)
    PROVE  /\ Ledgered(S) /\ t \in TxRec /\ Ordered(t)
           /\ \A u \in S : u.at <= t.at /\ u.id # t.id /\ (u.at <= t.at => Earlier(u, t))
           /\ Net(Through(S \cup {t}, t)) = Net(S) + NetOf[t]
           /\ Covered(S \cup {t}) => Covered(S)
<1>1. Ledgered(S) /\ t \in TxRec
  BY NetAdded DEF Follows
<1>2. Ordered(t)
  BY <1>1, TxValues DEF Ordered
<1>3. \A u \in S : u.at <= t.at
  BY EarlierOrders DEF Follows
<1>4. \A u \in S : u.id # t.id
  BY DEF Follows, Ledgered, Distinct
<1>5. \A u \in S : u.at <= t.at => Earlier(u, t)
  BY DEF Follows
<1>6. Up(S, t.at) = S
  BY <1>3 DEF Up
<1>7. Net(Through(S \cup {t}, t)) = Net(S) + NetOf[t]
  <2>1. Ledgered(S \cup {t}) /\ t \notin S
    BY DEF Follows
  <2>2. Net(Through(S \cup {t}, t)) = Net(Up(S, t.at)) + NetOf[t]
    BY <1>5, <2>1, NetGrows
  <2> QED BY <1>6, <2>2
<1>8. ASSUME Covered(S \cup {t}) PROVE Covered(S)
  <2> SUFFICES ASSUME NEW u \in S PROVE Net(Through(S, u)) >= 0
    BY DEF Covered
  <2>1. ~Earlier(t, u)
    BY EarlierOrders DEF Follows
  <2>2. Through(S \cup {t}, u) = Through(S, u)
    BY <2>1 DEF Through, Before
  <2> QED BY <1>8, <2>2 DEF Covered
<1> QED BY <1>1, <1>2, <1>3, <1>4, <1>5, <1>7, <1>8

\* The profit of a row is the one recorded for it.
LEMMA GainedIs ==
    ASSUME NEW gain, \A g, h \in gain : g[1] = h[1] => g = h, NEW t
    PROVE  /\ \A g \in gain : g[1] = t.id => Gained(t, gain) = g[2]
           /\ (\A g \in gain : g[1] # t.id) => Gained(t, gain) = t.realized
<1>1. ASSUME NEW g \in gain, g[1] = t.id PROVE Gained(t, gain) = g[2]
  <2>1. (CHOOSE h \in gain : h[1] = t.id) = g
    BY <1>1
  <2> QED BY <1>1, <2>1 DEF Gained
<1> QED BY <1>1 DEF Gained

\* The step by the kind of transaction.
LEMMA ReplayedFlow ==
    ASSUME NEW r \in ReplayRec, NEW t \in TxRec, t.kind \in {"deposit", "withdraw"}
    PROVE  LET s == Replayed(r, t)
           IN  /\ s \in ReplayRec /\ s.lots = r.lots /\ s.next = r.next /\ s.gain = r.gain
               /\ s.sellsOk = r.sellsOk /\ (s.ok => r.ok)
<1> DEFINE paid == [r EXCEPT !.cash = @ + Signed(t)]
<1>1. /\ paid \in ReplayRec /\ paid.lots = r.lots /\ paid.next = r.next /\ paid.gain = r.gain
      /\ paid.sellsOk = r.sellsOk /\ paid.ok = r.ok
  BY TxValues DEF ReplayRec
<1>2. CASE t.kind = "deposit"
  <2>1. Replayed(r, t) = paid
    BY <1>2 DEF Replayed
  <2> HIDE DEF paid
  <2> QED BY <1>1, <2>1
<1>3. CASE t.kind = "withdraw"
  <2>1. Replayed(r, t) = [paid EXCEPT !.ok = @ /\ paid.cash >= 0]
    BY <1>3 DEF Replayed
  <2> HIDE DEF paid
  <2>2. PICK b \in BOOLEAN : b = (paid.ok /\ paid.cash >= 0)
    OBVIOUS
  <2>3. Replayed(r, t) = [paid EXCEPT !.ok = b]
    BY <2>1, <2>2
  <2>4. b => paid.ok
    BY <2>2
  <2> QED BY <1>1, <2>3, <2>4 DEF ReplayRec
<1> QED BY <1>2, <1>3

\* A replayed purchase adds a lot.
LEMMA ReplayedBuy ==
    ASSUME NEW r \in ReplayRec, NEW t \in TxRec, t.kind = "buy"
    PROVE  LET s == Replayed(r, t)
           IN  /\ s \in ReplayRec /\ s.lots = r.lots \cup {LotOf(r.next, t, NoTag)}
               /\ s.next = r.next + 1 /\ s.gain = r.gain
               /\ s.sellsOk = r.sellsOk /\ s.ok = r.ok
               /\ LotOf(r.next, t, NoTag) \in LotRec
<1> DEFINE paid == [r EXCEPT !.cash = @ + Signed(t)]
           l == LotOf(r.next, t, NoTag)
<1>1. /\ paid \in ReplayRec /\ paid.lots = r.lots /\ paid.next = r.next /\ paid.gain = r.gain
      /\ paid.sellsOk = r.sellsOk /\ paid.ok = r.ok
  BY TxValues DEF ReplayRec
<1>2. l \in LotRec
  <2>1. r.next \in Int /\ NoTag \in AnyTag
    BY DEF ReplayRec, AnyTag
  <2> QED BY <2>1, TxValues DEF LotOf, LotRec
<1>3. Replayed(r, t) = [paid EXCEPT !.lots = @ \cup {l}, !.next = @ + 1]
  BY <1>1 DEF Replayed
<1> HIDE DEF paid, l
<1>4. paid.lots \cup {l} \in SUBSET LotRec /\ paid.next + 1 \in Int
  BY <1>1, <1>2 DEF ReplayRec
<1>5. PICK k, n : k = paid.lots \cup {l} /\ n = paid.next + 1
  OBVIOUS
<1>6. Replayed(r, t) = [paid EXCEPT !.lots = k, !.next = n] /\ k \in SUBSET LotRec /\ n \in Int
  BY <1>3, <1>4, <1>5
<1>7. /\ [paid EXCEPT !.lots = k, !.next = n] \in ReplayRec
      /\ [paid EXCEPT !.lots = k, !.next = n].lots = k /\ [paid EXCEPT !.lots = k, !.next = n].next = n
      /\ [paid EXCEPT !.lots = k, !.next = n].gain = paid.gain
      /\ [paid EXCEPT !.lots = k, !.next = n].sellsOk = paid.sellsOk
      /\ [paid EXCEPT !.lots = k, !.next = n].ok = paid.ok
  BY <1>1, <1>6 DEF ReplayRec
<1> QED BY <1>1, <1>2, <1>5, <1>6, <1>7 DEF l

\* A replayed sell is a sale against the lots so far.
LEMMA ReplayedSell ==
    ASSUME NEW r \in ReplayRec, Position(r.lots), NEW t \in TxRec, t.kind = "sell"
    PROVE  LET s == Replayed(r, t)
               sale == Sale(r.lots, t, {})
           IN  /\ s \in ReplayRec /\ s.lots = sale.lots
               /\ s.next = r.next /\ s.gain = r.gain \cup {<<t.id, sale.realized>>}
               /\ s.sellsOk = (r.sellsOk /\ t.qty <= sale.held) /\ s.ok = (r.ok /\ t.qty <= sale.held)
<1> DEFINE paid == [r EXCEPT !.cash = @ + Signed(t)]
           sale == Sale(r.lots, t, {})
           covered == t.qty <= sale.held
<1>1. /\ paid \in ReplayRec /\ paid.lots = r.lots /\ paid.next = r.next /\ paid.gain = r.gain
      /\ paid.sellsOk = r.sellsOk /\ paid.ok = r.ok
  BY TxValues DEF ReplayRec
<1>2. Position(sale.lots) /\ sale.realized \in Int
  BY SaleTyped, TxValues DEF Ordered
<1>3. Replayed(r, t) = [paid EXCEPT !.lots = sale.lots, !.gain = @ \cup {<<t.id, sale.realized>>},
                                    !.ok = @ /\ covered, !.sellsOk = @ /\ covered]
  BY DEF Replayed
<1> HIDE DEF paid, sale
<1>a. PICK b \in BOOLEAN : b = (paid.ok /\ covered)
  OBVIOUS
<1>b. PICK c \in BOOLEAN : c = (paid.sellsOk /\ covered)
  OBVIOUS
<1>c. PICK k, g : k = sale.lots /\ g = paid.gain \cup {<<t.id, sale.realized>>}
  OBVIOUS
<1>4. /\ k = sale.lots /\ g = paid.gain \cup {<<t.id, sale.realized>>}
      /\ b = (paid.ok /\ covered) /\ c = (paid.sellsOk /\ covered)
  BY <1>a, <1>b, <1>c
<1>5. Replayed(r, t) = [paid EXCEPT !.lots = k, !.gain = g, !.ok = b, !.sellsOk = c]
  BY <1>3, <1>4
<1>6. k \in SUBSET LotRec
  BY <1>2, <1>4 DEF Position
<1>7. g \in SUBSET (Int \X Int)
  <2>1. <<t.id, sale.realized>> \in Int \X Int
    BY <1>2, TxValues
  <2> QED BY <1>1, <1>4, <2>1 DEF ReplayRec
<1>8. LET s == [paid EXCEPT !.lots = k, !.gain = g, !.ok = b, !.sellsOk = c]
      IN  s \in ReplayRec /\ s.lots = k /\ s.next = paid.next /\ s.gain = g /\ s.ok = b /\ s.sellsOk = c
  BY <1>1, <1>6, <1>7 DEF ReplayRec
<1>9. PICK s : s = Replayed(r, t)
  OBVIOUS
<1>10. s \in ReplayRec /\ s.lots = k /\ s.next = paid.next /\ s.gain = g /\ s.ok = b /\ s.sellsOk = c
  BY <1>5, <1>8, <1>9
<1>11. s.sellsOk = (r.sellsOk /\ covered) /\ s.ok = (r.ok /\ covered)
  BY <1>1, <1>4, <1>10
<1> QED BY <1>1, <1>4, <1>9, <1>10, <1>11 DEF sale

-----------------------------------------------------------------------------
\* One more row under the same gains.
LEMMA RevaluedNext ==
    ASSUME NEW T, NEW t, Ledgered(T \cup {t}), t \notin T, NEW gain, Gains(gain)
    PROVE  /\ Books(Revalued(T \cup {t}, gain)) = Books(Revalued(T, gain)) + BookOf[NewRow(t, gain)]
           /\ Books(Revalued(T, gain)) \in Int
<1>1. NewIn(T, t, gain, gain)
  BY DEF NewIn, SameGains
<1>2. RowIn(T, t, gain, gain)
  BY <1>1, RevaluedAdded
<1> QED BY <1>2 DEF RowIn

\* A replay has recorded no profit of the transaction that comes next.
LEMMA ShapedGains ==
    ASSUME NEW r, NEW S, NEW first, Shaped(r, S, first), NEW t, Follows(S, t)
    PROVE  /\ Gains(r.gain) /\ (\A g \in r.gain : g[1] # t.id)
           /\ Gained(t, r.gain) = t.realized
<1>1. \A g \in r.gain : g[1] # t.id
  <2> SUFFICES ASSUME NEW g \in r.gain PROVE g[1] # t.id
    OBVIOUS
  <2>1. PICK u \in S : g[1] = u.id
    BY DEF Shaped
  <2>2. u.id # t.id
    BY FollowsIs
  <2> QED BY <2>1, <2>2
<1>2. Gained(t, r.gain) = t.realized
  BY <1>1 DEF Gained
<1> QED BY <1>1, <1>2 DEF Shaped, ReplayRec, Gains

\* A replayed deposit or withdrawal leaves the lots in agreement with the transactions.
LEMMA FlowAgrees ==
    ASSUME NEW r, NEW S, NEW first, Agrees(r, S, first), NEW t, Follows(S, t),
           t.kind \in {"deposit", "withdraw"}
    PROVE  Agrees(Replayed(r, t), S \cup {t}, first)
<1> DEFINE s == Replayed(r, t)
<1>1. r \in ReplayRec /\ t \in TxRec /\ Shaped(r, S, first) /\ Position(r.lots)
  BY FollowsIs DEF Agrees, Shaped
<1>2. /\ s \in ReplayRec /\ s.lots = r.lots /\ s.next = r.next /\ s.gain = r.gain
      /\ s.sellsOk = r.sellsOk /\ (s.ok => r.ok)
  BY <1>1, ReplayedFlow
<1> HIDE DEF s
<1>3. Shaped(s, S \cup {t}, first)
  <2>1. \A u \in S \cup {t} : u.kind = "sell" => u \in S
    OBVIOUS
  <2> QED BY <1>1, <1>2, <2>1 DEF Shaped
<1>4. NetOf[t] = 0 /\ t.kind \notin {"buy", "sell"}
  BY <1>1 DEF NetOf
<1>5. ASSUME r.sellsOk PROVE Balanced(s.lots, Revalued(S \cup {t}, s.gain)) /\ Kept(s.lots, S \cup {t})
  <2>1. Balanced(r.lots, Revalued(S, r.gain)) /\ Kept(r.lots, S)
    BY <1>5 DEF Agrees
  <2>2. Gains(r.gain) /\ Ledgered(S \cup {t}) /\ t \notin S /\ Ledgered(S)
    BY <1>1, ShapedGains, FollowsIs DEF Follows
  <2>3. /\ Net(Revalued(S \cup {t}, r.gain)) = Net(S) /\ Net(Revalued(S, r.gain)) = Net(S)
    <3>1. Net(S \cup {t}) = Net(S) + NetOf[t] /\ Net(S) \in Int
      BY <2>2, NetAdded
    <3> QED BY <1>4, <2>2, <3>1, RevaluedNet
  <2>4. Books(Revalued(S \cup {t}, r.gain)) = Books(Revalued(S, r.gain))
    <3>1. /\ Books(Revalued(S \cup {t}, r.gain)) = Books(Revalued(S, r.gain)) + BookOf[NewRow(t, r.gain)]
          /\ Books(Revalued(S, r.gain)) \in Int
      BY <2>2, RevaluedNext
    <3>2. NewRow(t, r.gain).kind = t.kind /\ NewRow(t, r.gain) \in TxRec
      BY <1>1, <2>2, NewRowIs
    <3>3. BookOf[NewRow(t, r.gain)] = 0
      BY <1>4, <3>2 DEF BookOf
    <3> QED BY <3>1, <3>3
  <2>5. Balanced(r.lots, Revalued(S \cup {t}, r.gain))
    BY <2>1, <2>3, <2>4 DEF Balanced
  <2>6. Kept(r.lots, S \cup {t})
    <3>1. \A d \in Int : Holding(Up(r.lots, d)) \in Nat
      BY <1>1, UpWhole
    <3>2. \A u \in S : u.at <= t.at => Earlier(u, t)
      BY FollowsIs
    <3>3. \A d \in Int : t.at <= d => Holding(Up(r.lots, d)) = Holding(Up(r.lots, d)) + NetOf[t]
      BY <1>4, <3>1
    <3>4. \A d \in Int : d < t.at => Holding(Up(r.lots, d)) <= Holding(Up(r.lots, d))
      BY <3>1
    <3> QED BY <1>1, <2>1, <2>2, <3>2, <3>3, <3>4, KeptGrows
  <2> QED BY <1>2, <2>5, <2>6
<1>6. Covered(S \cup {t}) => s.sellsOk
  BY <1>2, FollowsIs DEF Agrees
<1> QED BY <1>2, <1>3, <1>5, <1>6 DEF Agrees, s

\* So does a purchase, with its lot.
LEMMA BuyAgrees ==
    ASSUME NEW r, NEW S, NEW first, first \in Int, Agrees(r, S, first), NEW t, Follows(S, t),
           t.kind = "buy"
    PROVE  Agrees(Replayed(r, t), S \cup {t}, first)
<1> DEFINE s == Replayed(r, t)
           l == LotOf(r.next, t, NoTag)
<1>1. r \in ReplayRec /\ t \in TxRec /\ Shaped(r, S, first) /\ Position(r.lots) /\ r.next \in Int
      /\ t.qty > 0
  BY FollowsIs DEF Agrees, Shaped, ReplayRec, Follows, Ledgered
<1>2. /\ s \in ReplayRec /\ s.lots = r.lots \cup {l} /\ s.next = r.next + 1 /\ s.gain = r.gain
      /\ s.sellsOk = r.sellsOk /\ s.ok = r.ok /\ l \in LotRec
  BY <1>1, ReplayedBuy
<1>3. l.id = r.next /\ l.qty = t.qty /\ l.price = t.price /\ l.at = t.at
  BY DEF LotOf
<1> HIDE DEF s, l
<1>4. \A m \in r.lots : m.id >= first /\ m.id < r.next /\ m.id \in Int
  BY <1>1 DEF Shaped, Position, LotRec
<1>5. /\ Position(s.lots) /\ Holding(s.lots) = Holding(r.lots) + t.qty
      /\ Cost(s.lots) = Cost(r.lots) + t.qty * t.price
      /\ \A d \in Int : Holding(Up(s.lots, d)) = Holding(Up(r.lots, d)) + (IF t.at <= d THEN t.qty ELSE 0)
  <2>1. \A m \in r.lots : m.id # l.id
    BY <1>1, <1>3, <1>4
  <2>2. l \in LotRec /\ l.qty > 0 /\ Position(r.lots)
    BY <1>1, <1>2, <1>3
  <2>3. /\ Position(r.lots \cup {l}) /\ Holding(r.lots \cup {l}) = Holding(r.lots) + l.qty
        /\ Cost(r.lots \cup {l}) = Cost(r.lots) + l.qty * l.price
    BY <2>1, <2>2, LotAdded
  <2>4. \A d \in Int : Holding(Up(r.lots \cup {l}, d)) =
                         Holding(Up(r.lots, d)) + (IF l.at <= d THEN l.qty ELSE 0)
    BY <2>1, <2>2, LotAdded
  <2> QED BY ONLY <1>2, <1>3, <2>3, <2>4
<1>6. Shaped(s, S \cup {t}, first)
  <2>1. \A u \in S \cup {t} : u.kind = "sell" => u \in S
    OBVIOUS
  <2>2. first <= s.next /\ \A m \in s.lots : m.id >= first /\ m.id < s.next
    BY <1>1, <1>2, <1>3, <1>4 DEF Shaped
  <2>3. \A m \in s.lots : \E u \in S \cup {t} : m.at = u.at
    BY <1>1, <1>2, <1>3 DEF Shaped
  <2> QED BY <1>1, <1>2, <1>5, <2>1, <2>2, <2>3 DEF Shaped
<1>7. NetOf[t] = t.qty /\ t.qty \in Nat /\ t.qty * t.price \in Int /\ t.at \in Int
  BY <1>1, TxValues DEF NetOf
<1>8. ASSUME r.sellsOk PROVE Balanced(s.lots, Revalued(S \cup {t}, s.gain)) /\ Kept(s.lots, S \cup {t})
  <2>1. Balanced(r.lots, Revalued(S, r.gain)) /\ Kept(r.lots, S)
    BY <1>8 DEF Agrees
  <2>2. Gains(r.gain) /\ Ledgered(S \cup {t}) /\ t \notin S /\ Ledgered(S)
    BY <1>1, ShapedGains, FollowsIs DEF Follows
  <2>3. /\ Net(Revalued(S \cup {t}, r.gain)) = Net(S) + t.qty /\ Net(Revalued(S, r.gain)) = Net(S)
    <3>1. Net(S \cup {t}) = Net(S) + NetOf[t]
      BY <2>2, NetAdded
    <3> QED BY <1>7, <2>2, <3>1, RevaluedNet
  <2>4. /\ Books(Revalued(S \cup {t}, r.gain)) = Books(Revalued(S, r.gain)) - t.qty * t.price
        /\ Books(Revalued(S, r.gain)) \in Int
    <3>1. /\ Books(Revalued(S \cup {t}, r.gain)) = Books(Revalued(S, r.gain)) + BookOf[NewRow(t, r.gain)]
          /\ Books(Revalued(S, r.gain)) \in Int
      BY <2>2, RevaluedNext
    <3>2. /\ NewRow(t, r.gain).kind = t.kind /\ NewRow(t, r.gain).qty = t.qty
          /\ NewRow(t, r.gain).price = t.price /\ NewRow(t, r.gain) \in TxRec
      BY <1>1, <2>2, NewRowIs
    <3>3. BookOf[NewRow(t, r.gain)] = -(t.qty * t.price)
      BY <3>2 DEF BookOf
    <3> QED BY <1>7, <3>1, <3>3
  <2>5. Cost(r.lots) \in Nat
    BY <1>1, HoldingWhole DEF Position
  <2>6. Balanced(s.lots, Revalued(S \cup {t}, r.gain))
    BY <2>1, <2>3, <2>4, <2>5, <1>5, <1>7 DEF Balanced
  <2>7. Kept(s.lots, S \cup {t})
    <3>1. \A d \in Int : Holding(Up(r.lots, d)) \in Nat
      BY <1>1, UpWhole
    <3>2. \A u \in S : u.at <= t.at => Earlier(u, t)
      BY FollowsIs
    <3>3. \A d \in Int : t.at <= d => Holding(Up(s.lots, d)) = Holding(Up(r.lots, d)) + NetOf[t]
      BY <1>5, <1>7
    <3>4. \A d \in Int : d < t.at => Holding(Up(s.lots, d)) <= Holding(Up(r.lots, d))
      <4> SUFFICES ASSUME NEW d \in Int, d < t.at PROVE Holding(Up(s.lots, d)) <= Holding(Up(r.lots, d))
        OBVIOUS
      <4>1. ~(t.at <= d)
        BY <1>7
      <4>2. Holding(Up(s.lots, d)) = Holding(Up(r.lots, d)) + 0
        BY <1>5, <4>1
      <4> QED BY <3>1, <4>2
    <3> QED BY <1>1, <1>5, <2>1, <2>2, <3>2, <3>3, <3>4, KeptGrows
  <2> QED BY <1>2, <2>6, <2>7
<1>9. Covered(S \cup {t}) => s.sellsOk
  BY <1>2, FollowsIs DEF Agrees
<1> QED BY <1>2, <1>6, <1>8, <1>9 DEF Agrees, s

\* And so does a sell the lots cover; had the ledger its shares, they cover it.
LEMMA SellAgrees ==
    ASSUME NEW r, NEW S, NEW first, Agrees(r, S, first), NEW t, Follows(S, t),
           t.kind = "sell"
    PROVE  Agrees(Replayed(r, t), S \cup {t}, first)
<1> DEFINE s == Replayed(r, t)
           sale == Sale(r.lots, t, {})
<1>1. r \in ReplayRec /\ t \in TxRec /\ Shaped(r, S, first) /\ Position(r.lots) /\ Ordered(t)
  BY FollowsIs DEF Agrees, Shaped
<1>2. /\ s \in ReplayRec /\ s.lots = sale.lots /\ s.next = r.next
      /\ s.gain = r.gain \cup {<<t.id, sale.realized>>}
      /\ s.sellsOk = (r.sellsOk /\ t.qty <= sale.held) /\ s.ok = (r.ok /\ t.qty <= sale.held)
  BY <1>1, ReplayedSell
<1>3. /\ Position(sale.lots) /\ sale.held \in Nat /\ sale.realized \in Int
      /\ \A l \in sale.lots : \E m \in r.lots : m.id = l.id /\ m.at = l.at
  BY <1>1, SaleTyped
<1>a. sale.held = Holding(r.lots)
  <2>1. \A l \in r.lots : l.at <= t.at
    BY <1>1, FollowsIs DEF Shaped
  <2>2. Open(r.lots, t) = r.lots
    BY <2>1 DEF Open
  <2> QED BY <2>2, SaleIs
<1>b. ASSUME t.qty <= sale.held
      PROVE  /\ Holding(sale.lots) = Holding(r.lots) - t.qty
             /\ Cost(sale.lots) = Cost(r.lots) - t.qty * t.price + sale.realized
             /\ \A d \in Int : /\ Holding(Up(sale.lots, d)) <= Holding(Up(r.lots, d))
                               /\ t.at <= d => Holding(Up(sale.lots, d)) = Holding(Up(r.lots, d)) - t.qty
  BY <1>1, <1>b, SaleEffect, SaleUp
<1> HIDE DEF s, sale
<1>4. Gains(r.gain) /\ (\A g \in r.gain : g[1] # t.id) /\ Ledgered(S \cup {t}) /\ t \notin S /\ Ledgered(S)
  BY <1>1, ShapedGains, FollowsIs DEF Follows
<1>5. /\ Gains(s.gain) /\ \A g, h \in s.gain : g[1] = h[1] => g = h
  <2>1. \A g, h \in r.gain : g[1] = h[1] => g = h
    BY <1>1 DEF Shaped
  <2>2. Gains(s.gain)
    BY <1>2 DEF Gains, ReplayRec
  <2> QED BY <1>2, <1>4, <2>1, <2>2
<1>6. Shaped(s, S \cup {t}, first)
  <2>1. \A l \in s.lots : l.id >= first /\ l.id < s.next /\ \E u \in S \cup {t} : l.at = u.at
    BY <1>1, <1>2, <1>3 DEF Shaped
  <2>2. \A g \in s.gain : \E u \in S \cup {t} : g[1] = u.id /\ u.kind = "sell"
    BY <1>1, <1>2 DEF Shaped
  <2>3. \A u \in S \cup {t} : u.kind = "sell" => \E g \in s.gain : g[1] = u.id
    <3> SUFFICES ASSUME NEW u \in S \cup {t}, u.kind = "sell" PROVE \E g \in s.gain : g[1] = u.id
      OBVIOUS
    <3>1. CASE u \in S
      <4>1. PICK g \in r.gain : g[1] = u.id
        BY <1>1, <3>1 DEF Shaped
      <4> QED BY <1>2, <4>1
    <3>2. CASE u = t
      <4>1. <<t.id, sale.realized>> \in s.gain
        BY <1>2
      <4> QED BY <3>2, <4>1
    <3> QED BY <3>1, <3>2
  <2> QED BY <1>1, <1>2, <1>3, <1>5, <2>1, <2>2, <2>3 DEF Shaped
<1>7. NetOf[t] = -t.qty /\ t.qty \in Nat /\ t.qty * t.price \in Int /\ t.at \in Int
  BY <1>1, TxValues DEF NetOf
<1>8. ASSUME s.sellsOk PROVE Balanced(s.lots, Revalued(S \cup {t}, s.gain)) /\ Kept(s.lots, S \cup {t})
  <2>0. r.sellsOk /\ t.qty <= sale.held
    BY <1>2, <1>8
  <2>1. Balanced(r.lots, Revalued(S, r.gain)) /\ Kept(r.lots, S)
    BY <2>0 DEF Agrees
  <2>2. \A u \in S : Gained(u, s.gain) = Gained(u, r.gain)
    <3> SUFFICES ASSUME NEW u \in S PROVE Gained(u, s.gain) = Gained(u, r.gain)
      OBVIOUS
    <3>1. u.id # t.id
      BY FollowsIs
    <3>2. \A g, h \in r.gain : g[1] = h[1] => g = h
      BY <1>1 DEF Shaped
    <3>3. CASE \E g \in r.gain : g[1] = u.id
      <4>1. PICK g \in r.gain : g[1] = u.id
        BY <3>3
      <4> QED BY <1>2, <1>5, <3>2, <4>1, GainedIs
    <3>4. CASE \A g \in r.gain : g[1] # u.id
      <4>1. \A g \in s.gain : g[1] # u.id
        BY <1>2, <3>1, <3>4
      <4> QED BY <1>5, <3>2, <3>4, <4>1, GainedIs
    <3> QED BY <3>3, <3>4
  <2>3. Gained(t, s.gain) = sale.realized
    <3>1. PICK g \in s.gain : g = <<t.id, sale.realized>>
      BY <1>2
    <3> QED BY <1>5, <3>1, GainedIs
  <2>4. /\ Net(Revalued(S \cup {t}, s.gain)) = Net(S) - t.qty /\ Net(Revalued(S, r.gain)) = Net(S)
    <3>1. Net(S \cup {t}) = Net(S) + NetOf[t] /\ Net(S) \in Int
      BY <1>4, NetAdded
    <3> QED BY <1>4, <1>5, <1>7, <3>1, RevaluedNet
  <2>5. /\ Books(Revalued(S \cup {t}, s.gain)) = Books(Revalued(S, r.gain)) + (t.qty * t.price - sale.realized)
        /\ Books(Revalued(S, r.gain)) \in Int
    <3>0. NewIn(S, t, r.gain, s.gain)
      BY <1>4, <1>5, <2>2 DEF NewIn, SameGains
    <3>1. RowIn(S, t, r.gain, s.gain)
      BY <3>0, RevaluedAdded
    <3>2. /\ NewRow(t, s.gain).kind = t.kind /\ NewRow(t, s.gain).qty = t.qty
          /\ NewRow(t, s.gain).price = t.price /\ NewRow(t, s.gain) \in TxRec
          /\ NewRow(t, s.gain).realized = sale.realized
      BY <1>1, <1>5, <2>3, NewRowIs
    <3>3. BookOf[NewRow(t, s.gain)] = t.qty * t.price - sale.realized
      BY <3>2 DEF BookOf
    <3> QED BY <3>1, <3>3 DEF RowIn
  <2>6. Cost(r.lots) \in Nat /\ Holding(r.lots) \in Nat
    BY <1>1, HoldingWhole DEF Position
  <2>7. Balanced(s.lots, Revalued(S \cup {t}, s.gain))
    BY <2>0, <2>1, <2>4, <2>5, <2>6, <1>b, <1>2, <1>3, <1>7 DEF Balanced
  <2>8. Kept(s.lots, S \cup {t})
    <3>1. \A d \in Int : Holding(Up(r.lots, d)) \in Nat
      BY <1>1, UpWhole
    <3>2. \A u \in S : u.at <= t.at => Earlier(u, t)
      BY FollowsIs
    <3>3. \A d \in Int : t.at <= d => Holding(Up(s.lots, d)) = Holding(Up(r.lots, d)) + NetOf[t]
      BY <2>0, <1>2, <1>b, <1>7, <3>1
    <3>4. \A d \in Int : d < t.at => Holding(Up(s.lots, d)) <= Holding(Up(r.lots, d))
      BY <2>0, <1>2, <1>b
    <3> QED BY <1>1, <1>2, <1>3, <1>4, <2>1, <3>2, <3>3, <3>4, KeptGrows
  <2> QED BY <2>7, <2>8
<1>9. Covered(S \cup {t}) => s.sellsOk
  <2> SUFFICES ASSUME Covered(S \cup {t}) PROVE r.sellsOk /\ t.qty <= sale.held
    BY <1>2
  <2>1. r.sellsOk
    BY FollowsIs DEF Agrees
  <2>2. Holding(r.lots) = Net(S)
    BY <2>1, <1>4, RevaluedNet DEF Agrees, Balanced
  <2>3. Net(S) + NetOf[t] >= 0
    BY FollowsIs DEF Covered
  <2>4. Net(S) \in Int
    BY <1>4, TxSums
  <2> QED BY <2>1, <2>2, <2>3, <2>4, <1>7, <1>a
<1> QED BY <1>6, <1>8, <1>9 DEF Agrees, s

\* In the order of execution each transaction follows those before it.
LEMMA NextFollows ==
    ASSUME NEW T, Ledgered(T), NEW n \in 1..Cardinality(T)
    PROVE  Follows(FirstOf(T, n - 1), Nth(T, n)) /\ FirstOf(T, n) = FirstOf(T, n - 1) \cup {Nth(T, n)}
<1>1. /\ FirstOf(T, n) = FirstOf(T, n - 1) \cup {Nth(T, n)}
      /\ Nth(T, n) \in T \ FirstOf(T, n - 1)
      /\ FirstOf(T, n - 1) = Before(T, Nth(T, n))
  BY FirstGrows
<1>2. FirstOf(T, n) \subseteq T
  BY DEF FirstOf
<1>3. Ledgered(FirstOf(T, n))
  BY <1>2, LedgeredPart
<1> QED BY <1>1, <1>3 DEF Follows, Before

\* A replay of all of them.
LEMMA ReplayAgrees ==
    ASSUME NEW T, Ledgered(T), NEW first \in Int
    PROVE  Agrees(Replay(T, first), T, first)
<1>1. PICK f : Runs(f, "replay", NoTrades(first), T) /\ Replay(T, first) = f[Cardinality(T)]
  BY ReplayRuns DEF Ledgered
<1>2. /\ f[0] = NoTrades(first)
      /\ \A n \in 1..Cardinality(T) : f[n] = Replayed(f[n - 1], Nth(T, n))
  BY <1>1, RunSteps DEF Ledgered, Fold
<1>3. Cardinality(T) \in Nat
  BY FS_CardinalityType DEF Ledgered
<1>4. Agrees(f[0], FirstOf(T, 0), first)
  <2>1. FirstOf(T, 0) = {}
    BY FirstGrows
  <2> DEFINE z == NoTrades(first)
  <2>2. z \in ReplayRec /\ z.lots = {} /\ z.next = first /\ z.gain = {} /\ z.sellsOk
    BY DEF NoTrades, ReplayRec
  <2>3. Revalued({}, {}) = {}
    BY DEF Revalued
  <2> HIDE DEF z
  <2>4. Shaped(z, {}, first)
    BY <2>2, NothingKept DEF Shaped
  <2>5. Agrees(z, {}, first)
    BY <2>2, <2>3, <2>4, NothingKept DEF Agrees
  <2> QED BY <1>2, <2>1, <2>5 DEF z
<1> DEFINE Bad == {n \in 0..Cardinality(T) : ~Agrees(f[n], FirstOf(T, n), first)}
<1>5. Bad = {}
  <2> SUFFICES ASSUME Bad # {} PROVE FALSE
    OBVIOUS
  <2>1. PICK n \in Bad : \A m \in Bad : n <= m
    <3>1. Bad \subseteq Nat
      OBVIOUS
    <3> HIDE DEF Bad
    <3> QED BY <3>1, LeastNumber
  <2>2. n # 0 /\ n \in 1..Cardinality(T)
    BY <1>3, <1>4, <2>1
  <2>3. Agrees(f[n - 1], FirstOf(T, n - 1), first)
    <3>1. n - 1 \in 0..Cardinality(T) /\ ~(n <= n - 1)
      BY <1>3, <2>2
    <3> QED BY <2>1, <3>1
  <2>4. Follows(FirstOf(T, n - 1), Nth(T, n)) /\ FirstOf(T, n) = FirstOf(T, n - 1) \cup {Nth(T, n)}
    BY <2>2, NextFollows
  <2>5. Nth(T, n).kind \in Kinds
    BY <2>4, FollowsIs, TxValues
  <2>6. Agrees(Replayed(f[n - 1], Nth(T, n)), FirstOf(T, n), first)
    BY <2>3, <2>4, <2>5, FlowAgrees, BuyAgrees, SellAgrees DEF Kinds
  <2>7. f[n] = Replayed(f[n - 1], Nth(T, n))
    BY <1>2, <2>2
  <2> QED BY <2>1, <2>6, <2>7
<1>6. Agrees(f[Cardinality(T)], FirstOf(T, Cardinality(T)), first)
  BY <1>3, <1>5
<1> QED BY <1>1, <1>6, FirstGrows

-----------------------------------------------------------------------------
(* A past state rebuilt from the transactions. *)

LotsRec == [lots : SUBSET LotRec]

\* What rebuilding has made of S, the transactions executed so far.
BuiltFrom(q, S) ==
    /\ q \in LotsRec /\ Position(q.lots)
    /\ \A l \in q.lots : \E u \in S : l.id = u.id /\ l.at = u.at
    /\ Covered(S) => Holding(q.lots) = Net(S)

\* One step of rebuilding a past day, by kind of transaction.
LEMMA RebuiltIs ==
    ASSUME NEW q \in LotsRec, NEW t \in TxRec
    PROVE  LET s == Rebuilt(q, t)
               sale == Sale(q.lots, t, {l \in q.lots : t.tag # NoTag /\ l.tag = t.tag})
               l == LotOf(t.id, t, t.tag)
           IN  /\ l \in LotRec /\ l.id = t.id /\ l.at = t.at /\ l.qty = t.qty
               /\ t.kind = "buy" => s.lots = q.lots \cup {l} /\ s \in LotsRec
               /\ t.kind = "sell" => s.lots = sale.lots /\ (sale.lots \subseteq LotRec => s \in LotsRec)
               /\ t.kind \notin {"buy", "sell"} => s = q
<1> DEFINE pref == {l \in q.lots : t.tag # NoTag /\ l.tag = t.tag}
           sale == Sale(q.lots, t, pref)
           l == LotOf(t.id, t, t.tag)
<1>1. /\ l \in LotRec /\ l.id = t.id /\ l.at = t.at /\ l.qty = t.qty
  BY DEF LotOf, LotRec, TxRec
<1>2. \A k : [q EXCEPT !.lots = k].lots = k /\ (k \subseteq LotRec => [q EXCEPT !.lots = k] \in LotsRec)
  BY DEF LotsRec
<1>3. Rebuilt(q, t) = CASE t.kind = "buy"  -> [q EXCEPT !.lots = @ \cup {l}]
                        [] t.kind = "sell" -> [q EXCEPT !.lots = sale.lots]
                        [] OTHER           -> q
  BY DEF Rebuilt
<1>4. q.lots \subseteq LotRec
  BY DEF LotsRec
<1> HIDE DEF l, sale
<1>5. ASSUME t.kind = "buy" PROVE Rebuilt(q, t).lots = q.lots \cup {l} /\ Rebuilt(q, t) \in LotsRec
  <2>1. Rebuilt(q, t) = [q EXCEPT !.lots = q.lots \cup {l}]
    BY <1>3, <1>5
  <2>2. q.lots \cup {l} \subseteq LotRec
    BY <1>1, <1>4
  <2> QED BY <1>2, <2>1, <2>2
<1>6. ASSUME t.kind = "sell"
      PROVE Rebuilt(q, t).lots = sale.lots /\ (sale.lots \subseteq LotRec => Rebuilt(q, t) \in LotsRec)
  <2>1. Rebuilt(q, t) = [q EXCEPT !.lots = sale.lots]
    BY <1>3, <1>6
  <2> QED BY <1>2, <2>1
<1>7. ASSUME t.kind \notin {"buy", "sell"} PROVE Rebuilt(q, t) = q
  BY <1>3, <1>7
<1> QED BY <1>1, <1>5, <1>6, <1>7 DEF l, sale

\* It keeps the holding that of the transactions rebuilt so far.
LEMMA BuiltStep ==
    ASSUME NEW q, NEW S, BuiltFrom(q, S), NEW t, Follows(S, t)
    PROVE  BuiltFrom(Rebuilt(q, t), S \cup {t})
<1> DEFINE s == Rebuilt(q, t)
           pref == {l \in q.lots : t.tag # NoTag /\ l.tag = t.tag}
           sale == Sale(q.lots, t, pref)
           l == LotOf(t.id, t, t.tag)
<1>1. /\ q \in LotsRec /\ Position(q.lots) /\ t \in TxRec /\ Ordered(t) /\ Ledgered(S) /\ t \notin S
      /\ Ledgered(S \cup {t}) /\ \A m \in q.lots : \E u \in S : m.id = u.id /\ m.at = u.at
  BY FollowsIs DEF BuiltFrom, Follows
<1>2. \A u \in S : u.at <= t.at /\ u.id # t.id
  BY FollowsIs
<1>3. \A m \in q.lots : m.at <= t.at /\ m.id # t.id
  BY <1>1, <1>2
<1>4. /\ Net(S \cup {t}) = Net(S) + NetOf[t] /\ Net(S) \in Int
      /\ Net(Through(S \cup {t}, t)) = Net(S) + NetOf[t]
  BY <1>1, NetAdded, FollowsIs
<1>5. Covered(S \cup {t}) => Covered(S) /\ Holding(q.lots) = Net(S) /\ Net(S) + NetOf[t] >= 0
  <2> SUFFICES ASSUME Covered(S \cup {t}) PROVE Covered(S) /\ Holding(q.lots) = Net(S) /\ Net(S) + NetOf[t] >= 0
    OBVIOUS
  <2>1. Covered(S)
    BY FollowsIs
  <2>2. Net(Through(S \cup {t}, t)) >= 0
    BY DEF Covered
  <2> QED BY <1>4, <2>1, <2>2 DEF BuiltFrom
<1>6. /\ l \in LotRec /\ l.id = t.id /\ l.at = t.at /\ l.qty = t.qty
      /\ t.kind = "buy" => s.lots = q.lots \cup {l} /\ s \in LotsRec
      /\ t.kind = "sell" => s.lots = sale.lots /\ (sale.lots \subseteq LotRec => s \in LotsRec)
      /\ t.kind \notin {"buy", "sell"} => s = q
  BY <1>1, RebuiltIs
<1>7. /\ Position(sale.lots) /\ sale.held \in Nat
      /\ \A m \in sale.lots : \E k \in q.lots : k.id = m.id /\ k.at = m.at
      /\ sale.held = Holding(q.lots)
      /\ t.qty <= sale.held => Holding(sale.lots) = Holding(q.lots) - t.qty
  <2>1. Open(q.lots, t) = q.lots
    BY <1>3 DEF Open
  <2>2. sale.held = Holding(q.lots)
    BY <2>1, SaleIs
  <2>3. t.qty <= sale.held => Holding(sale.lots) = Holding(q.lots) - t.qty
    BY <1>1, SaleEffect
  <2> QED BY <1>1, <2>2, <2>3, SaleTyped
<1> HIDE DEF s, sale, l
<1>8. t.qty \in Nat /\ t.kind \in Kinds
  BY <1>1, TxValues
<1>9. CASE t.kind = "buy"
  <2>1. t.qty > 0 /\ NetOf[t] = t.qty
    BY <1>1, <1>9 DEF Ledgered, NetOf
  <2>2. Position(q.lots \cup {l}) /\ Holding(q.lots \cup {l}) = Holding(q.lots) + t.qty
    <3>1. l.qty > 0 /\ \A m \in q.lots : m.id # l.id
      BY <1>3, <1>6, <2>1
    <3> QED BY <1>1, <1>6, <3>1, LotAdded
  <2>3. \A m \in s.lots : \E u \in S \cup {t} : m.id = u.id /\ m.at = u.at
    BY <1>1, <1>6, <1>9
  <2> QED BY <1>4, <1>5, <1>6, <1>9, <2>1, <2>2, <2>3 DEF BuiltFrom, s
<1>10. CASE t.kind = "sell"
  <2>1. NetOf[t] = -t.qty
    BY <1>1, <1>10 DEF NetOf
  <2>2. Position(s.lots) /\ s \in LotsRec
    BY <1>6, <1>7, <1>10 DEF Position
  <2>3. \A m \in s.lots : \E u \in S \cup {t} : m.id = u.id /\ m.at = u.at
    BY <1>1, <1>6, <1>7, <1>10
  <2>4. Covered(S \cup {t}) => Holding(s.lots) = Net(S \cup {t})
    BY <1>4, <1>5, <1>6, <1>7, <1>8, <1>10, <2>1
  <2> QED BY <2>2, <2>3, <2>4 DEF BuiltFrom, s
<1>11. CASE t.kind \notin {"buy", "sell"}
  <2>1. NetOf[t] = 0
    BY <1>1, <1>11 DEF NetOf
  <2>2. Covered(S \cup {t}) => Holding(s.lots) = Net(S \cup {t})
    BY <1>4, <1>5, <1>6, <1>11, <2>1
  <2>3. \A m \in s.lots : \E u \in S \cup {t} : m.id = u.id /\ m.at = u.at
    BY <1>1, <1>6, <1>11
  <2> QED BY <1>1, <1>6, <1>11, <2>2, <2>3 DEF BuiltFrom, s
<1> QED BY <1>9, <1>10, <1>11

\* The holding of a rebuilt day is that of its transactions, whichever lots a tag
\* preferred.
LEMMA RebuildAgrees ==
    ASSUME NEW T, Ledgered(T)
    PROVE  BuiltFrom(InOrder(Rebuilt, [lots |-> {}], T), T)
<1> DEFINE z == [lots |-> {}]
<1>1. PICK f : Runs(f, "rebuild", [lots |-> {}], T) /\ InOrder(Rebuilt, [lots |-> {}], T) = f[Cardinality(T)]
  BY RebuildRuns DEF Ledgered
<1>2. /\ f[0] = z
      /\ \A n \in 1..Cardinality(T) : f[n] = Rebuilt(f[n - 1], Nth(T, n))
  BY <1>1, RunSteps DEF Ledgered, Fold
<1>3. Cardinality(T) \in Nat
  BY FS_CardinalityType DEF Ledgered
<1>4. BuiltFrom(f[0], FirstOf(T, 0))
  <2>1. FirstOf(T, 0) = {}
    BY FirstGrows
  <2>2. z \in LotsRec /\ z.lots = {}
    BY DEF LotsRec
  <2>3. Position({}) /\ Holding({}) = Net({})
    BY NothingKept DEF Balanced
  <2> QED BY <1>2, <2>1, <2>2, <2>3 DEF BuiltFrom
<1> DEFINE Bad == {n \in 0..Cardinality(T) : ~BuiltFrom(f[n], FirstOf(T, n))}
<1>5. Bad = {}
  <2> SUFFICES ASSUME Bad # {} PROVE FALSE
    OBVIOUS
  <2>1. PICK n \in Bad : \A m \in Bad : n <= m
    <3>1. Bad \subseteq Nat
      OBVIOUS
    <3> HIDE DEF Bad
    <3> QED BY <3>1, LeastNumber
  <2>2. n # 0 /\ n \in 1..Cardinality(T)
    BY <1>3, <1>4, <2>1
  <2>3. BuiltFrom(f[n - 1], FirstOf(T, n - 1))
    <3>1. n - 1 \in 0..Cardinality(T) /\ ~(n <= n - 1)
      BY <1>3, <2>2
    <3> QED BY <2>1, <3>1
  <2>4. Follows(FirstOf(T, n - 1), Nth(T, n)) /\ FirstOf(T, n) = FirstOf(T, n - 1) \cup {Nth(T, n)}
    BY <2>2, NextFollows
  <2>5. BuiltFrom(Rebuilt(f[n - 1], Nth(T, n)), FirstOf(T, n))
    BY <2>3, <2>4, BuiltStep
  <2>6. f[n] = Rebuilt(f[n - 1], Nth(T, n))
    BY <1>2, <2>2
  <2> QED BY <2>1, <2>5, <2>6
<1>6. BuiltFrom(f[Cardinality(T)], FirstOf(T, Cardinality(T)))
  BY <1>3, <1>5
<1> QED BY <1>1, <1>6, FirstGrows

-----------------------------------------------------------------------------
(* A past state does not depend on the profits recorded. *)

\* The image of a set under an injection has as many members.
LEMMA ImageCount ==
    ASSUME NEW S, IsFiniteSet(S), NEW m, \A x, y \in S : m[x] = m[y] => x = y
    PROVE  Cardinality({m[x] : x \in S}) = Cardinality(S)
<1> DEFINE I == {m[x] : x \in S}
           g == [x \in S |-> m[x]]
<1>1. g \in Bijection(S, I)
  <2>1. g \in Injection(S, I)
    BY DEF Injection, IsInjective
  <2>2. g \in Surjection(S, I)
    BY DEF Surjection
  <2> QED BY <2>1, <2>2 DEF Bijection
<1>2. ExistsBijection(S, I)
  BY <1>1 DEF ExistsBijection
<1> QED BY <1>2, FS_Bijection

\* Selling looks at the date, the price and the shares of the order only.
LEMMA SaleSame ==
    ASSUME NEW L, NEW t, NEW v, v.at = t.at, v.price = t.price, v.qty = t.qty, NEW preferred
    PROVE  /\ Sale(L, v, preferred).lots = Sale(L, t, preferred).lots
           /\ Sale(L, v, preferred).held = Sale(L, t, preferred).held
           /\ Sale(L, v, preferred).realized = Sale(L, t, preferred).realized
<1>1. Open(L, v) = Open(L, t)
  BY DEF Open
<1>2. \A l : Ahead(L, v, preferred, l) = Ahead(L, t, preferred, l)
  BY <1>1 DEF Ahead
<1>3. Taken(L, v, preferred) = Taken(L, t, preferred)
  BY <1>1, <1>2 DEF Taken
<1>4. Left(L, v, preferred) = Left(L, t, preferred)
  BY <1>1, <1>3 DEF Left
<1>5. Sale(L, v, preferred).lots = {l \in {Left(L, v, preferred)[m] : m \in L} : l.qty > 0}
  BY SaleIs
<1>6. Sale(L, t, preferred).lots = {l \in {Left(L, t, preferred)[m] : m \in L} : l.qty > 0}
  BY SaleIs
<1>7. Profit(L, v, preferred) = Profit(L, t, preferred)
  BY <1>1, <1>3 DEF Profit
<1>8. Sale(L, v, preferred).held = Sale(L, t, preferred).held
  BY <1>1, SaleIs
<1>9. Sale(L, v, preferred).realized = Sale(L, t, preferred).realized
  BY <1>1, <1>7, SaleIs
<1> QED BY <1>4, <1>5, <1>6, <1>8, <1>9

\* A step of rebuilding is that of the row with its new profit.
LEMMA RebuiltSame ==
    ASSUME NEW q, NEW t \in TxRec, NEW gain, Gains(gain)
    PROVE  Rebuilt(q, NewRow(t, gain)) = Rebuilt(q, t)
<1> DEFINE v == NewRow(t, gain)
<1>1. /\ v.id = t.id /\ v.kind = t.kind /\ v.qty = t.qty /\ v.price = t.price /\ v.at = t.at
  BY NewRowIs
<1>2. v.tag = t.tag
  BY DEF NewRow, TxRec
<1> HIDE DEF v
<1>3. {l \in q.lots : v.tag # NoTag /\ l.tag = v.tag} = {l \in q.lots : t.tag # NoTag /\ l.tag = t.tag}
  BY <1>2
<1>4. \A p : Sale(q.lots, v, p).lots = Sale(q.lots, t, p).lots
  BY <1>1, SaleSame
<1>5. LotOf(v.id, v, v.tag) = LotOf(t.id, t, t.tag)
  BY <1>1, <1>2 DEF LotOf
<1> DEFINE pt == {l \in q.lots : t.tag # NoTag /\ l.tag = t.tag}
           pv == {l \in q.lots : v.tag # NoTag /\ l.tag = v.tag}
           kt == Sale(q.lots, t, pt).lots
           kv == Sale(q.lots, v, pv).lots
           bt == LotOf(t.id, t, t.tag)
           bv == LotOf(v.id, v, v.tag)
<1>6. kv = kt /\ bv = bt
  BY <1>3, <1>4, <1>5
<1>7. Rebuilt(q, t) = CASE t.kind = "buy" -> [q EXCEPT !.lots = @ \cup {bt}]
                        [] t.kind = "sell" -> [q EXCEPT !.lots = kt]
                        [] OTHER -> q
  BY DEF Rebuilt
<1>8. Rebuilt(q, v) = CASE v.kind = "buy" -> [q EXCEPT !.lots = @ \cup {bv}]
                        [] v.kind = "sell" -> [q EXCEPT !.lots = kv]
                        [] OTHER -> q
  BY DEF Rebuilt
<1> HIDE DEF kt, kv, bt, bv
<1>9. Rebuilt(q, v) = Rebuilt(q, t)
  BY <1>1, <1>6, <1>7, <1>8
<1> QED BY <1>9 DEF v

\* The order of the rows with new profits is theirs.
LEMMA NthSame ==
    ASSUME NEW T, Ledgered(T), NEW gain, Gains(gain)
    PROVE  /\ Cardinality(Revalued(T, gain)) = Cardinality(T)
           /\ \A n \in 1..Cardinality(T) : Nth(Revalued(T, gain), n) = NewRow(Nth(T, n), gain)
<1> DEFINE V == Revalued(T, gain)
           m == [t \in T |-> NewRow(t, gain)]
<1>1. \A t \in T : m[t].id = t.id /\ m[t].at = t.at
  BY NewRowIs DEF Ledgered
<1>2. \A t, u \in T : m[t] = m[u] => t = u
  BY <1>1 DEF Ledgered, Distinct
<1>3. V = {m[t] : t \in T} /\ Ledgered(V)
  BY RevaluedIs
<1>4. Cardinality(V) = Cardinality(T)
  <2>1. IsFiniteSet(T)
    BY DEF Ledgered
  <2> HIDE DEF V, m
  <2>2. Cardinality({m[t] : t \in T}) = Cardinality(T)
    BY <1>2, <2>1, ImageCount
  <2> QED BY <1>3, <2>2
<1> HIDE DEF V, m
<1>5. \A t, u \in T : Earlier(m[u], m[t]) <=> Earlier(u, t)
  BY <1>1 DEF Earlier
<1>6. \A t \in T : Rank(V, m[t]) = Rank(T, t)
  <2> SUFFICES ASSUME NEW t \in T PROVE Rank(V, m[t]) = Rank(T, t)
    OBVIOUS
  <2>1. Before(V, m[t]) = {m[u] : u \in Before(T, t)}
    BY <1>3, <1>5 DEF Before
  <2>2. IsFiniteSet(Before(T, t)) /\ Before(T, t) \subseteq T
    BY FS_Subset DEF Before, Ledgered
  <2>3. \A u, w \in Before(T, t) : m[u] = m[w] => u = w
    BY <1>2, <2>2
  <2> QED BY <2>1, <2>2, <2>3, ImageCount DEF Rank
<1>7. ASSUME NEW n \in 1..Cardinality(T) PROVE Nth(V, n) = m[Nth(T, n)]
  <2>1. Nth(T, n) \in T /\ Rank(T, Nth(T, n)) = n - 1
    BY RankTaken
  <2>2. Nth(V, n) \in V /\ Rank(V, Nth(V, n)) = n - 1
    BY <1>3, <1>4, RankTaken
  <2>3. m[Nth(T, n)] \in V /\ Rank(V, m[Nth(T, n)]) = n - 1
    BY <1>3, <1>6, <2>1
  <2> QED BY <1>3, <2>2, <2>3, RankGrows
<1>8. \A n \in 1..Cardinality(T) : m[Nth(T, n)] = NewRow(Nth(T, n), gain)
  BY RankTaken DEF m
<1> QED BY <1>4, <1>7, <1>8 DEF V

\* Rebuilding does not look at realized profits.
LEMMA RebuildSame ==
    ASSUME NEW T, Ledgered(T), NEW gain, Gains(gain)
    PROVE  InOrder(Rebuilt, [lots |-> {}], Revalued(T, gain)) = InOrder(Rebuilt, [lots |-> {}], T)
<1> DEFINE V == Revalued(T, gain)
<1>0. Ledgered(V) /\ Cardinality(V) = Cardinality(T) /\ Cardinality(T) \in Nat
      /\ \A n \in 1..Cardinality(T) : Nth(V, n) = NewRow(Nth(T, n), gain) /\ Nth(T, n) \in TxRec
  <2>1. \A n \in 1..Cardinality(T) : Nth(T, n) \in TxRec
    BY RankTaken DEF Ledgered
  <2> QED BY <2>1, RevaluedIs, NthSame, FS_CardinalityType DEF Ledgered
<1> HIDE DEF V
<1>1. PICK f : Runs(f, "rebuild", [lots |-> {}], T) /\ InOrder(Rebuilt, [lots |-> {}], T) = f[Cardinality(T)]
  BY RebuildRuns DEF Ledgered
<1>2. PICK g : Runs(g, "rebuild", [lots |-> {}], V) /\ InOrder(Rebuilt, [lots |-> {}], V) = g[Cardinality(V)]
  BY <1>0, RebuildRuns DEF Ledgered
<1>3. /\ f[0] = [lots |-> {}]
      /\ \A n \in 1..Cardinality(T) : f[n] = Rebuilt(f[n - 1], Nth(T, n))
  BY <1>1, RunSteps DEF Ledgered, Fold
<1>4. /\ g[0] = [lots |-> {}]
      /\ \A n \in 1..Cardinality(T) : g[n] = Rebuilt(g[n - 1], Nth(V, n))
  BY <1>0, <1>2, RunSteps DEF Ledgered, Fold
<1> DEFINE Bad == {n \in 0..Cardinality(T) : f[n] # g[n]}
<1>5. Bad = {}
  <2> SUFFICES ASSUME Bad # {} PROVE FALSE
    OBVIOUS
  <2>1. PICK n \in Bad : \A k \in Bad : n <= k
    <3>1. Bad \subseteq Nat
      OBVIOUS
    <3> HIDE DEF Bad
    <3> QED BY <3>1, LeastNumber
  <2>2. n # 0 /\ n \in 1..Cardinality(T)
    BY <1>0, <1>3, <1>4, <2>1
  <2>3. f[n - 1] = g[n - 1]
    <3>1. n - 1 \in 0..Cardinality(T) /\ ~(n <= n - 1)
      BY <1>0, <2>2
    <3> QED BY <2>1, <3>1
  <2>4. Rebuilt(g[n - 1], Nth(V, n)) = Rebuilt(g[n - 1], Nth(T, n))
    BY <1>0, <2>2, RebuiltSame
  <2> QED BY <1>3, <1>4, <2>1, <2>2, <2>3, <2>4
<1> QED BY <1>0, <1>1, <1>2, <1>5 DEF V

-----------------------------------------------------------------------------
(* The curve. *)

\* What a transaction does to the cash, and what of it is paid in.
SignedOf == [t \in TxRec |-> Signed(t)]
PaidOf == [t \in TxRec |-> IF t.kind \in {"deposit", "withdraw"} THEN Signed(t) ELSE 0]

\* Cash and principal of a ledger, as sums of these functions.
LEMMA FlowSums ==
    ASSUME NEW T, Ledgered(T)
    PROVE  /\ Cash(T) = SumOver(SignedOf, T) /\ Principal(T) = SumOver(PaidOf, T)
           /\ Integral(SignedOf, T) /\ Integral(PaidOf, T)
<1> DEFINE c == [t \in T |-> Signed(t)]
           p == [t \in T |-> IF t.kind \in {"deposit", "withdraw"} THEN c[t] ELSE 0]
           K == {"deposit", "withdraw"}
<1>1. \A t \in T : c[t] \in Int /\ t \in TxRec /\ SignedOf[t] = c[t] /\ p[t] = PaidOf[t]
  BY TxValues DEF Ledgered, SignedOf, PaidOf
<1>2. Integral(SignedOf, T) /\ Integral(c, T)
  BY <1>1 DEF Integral
<1>3. Cash(T) = SumOver(c, T)
  BY CashIsSum
<1>4. Principal(T) = SumOver(p, T) /\ Integral(p, T)
  <2> DEFINE f == [t \in OfKind(T, K) |-> Signed(t)]
  <2>1. \A t \in OfKind(T, K) : f[t] = c[t]
    BY DEF OfKind
  <2>2. Principal(T) = SumOver(f, OfKind(T, K))
    BY CashIsSum DEF Principal
  <2> HIDE DEF f, c
  <2>3. SumOver(f, OfKind(T, K)) = SumOver(c, OfKind(T, K))
    BY <1>1, <2>1, KindSame
  <2> QED BY <1>1, <2>2, <2>3, KindSum
<1> HIDE DEF c, p
<1>5. Integral(PaidOf, T)
  BY <1>1, <1>4 DEF Integral
<1>6. IsFiniteSet(T)
  BY DEF Ledgered
<1>7. SumOver(c, T) = SumOver(SignedOf, T)
  BY <1>1, <1>2, <1>6, SumSame
<1>8. SumOver(p, T) = SumOver(PaidOf, T)
  BY <1>1, <1>4, <1>6, SumSame
<1> QED BY <1>2, <1>3, <1>4, <1>5, <1>7, <1>8

\* The flows of two sets of transactions.
LEMMA FlowsAdd ==
    ASSUME NEW S, NEW R, Ledgered(S \cup R), S \cap R = {}
    PROVE  /\ Cash(S \cup R) = Cash(S) + Cash(R)
           /\ Principal(S \cup R) = Principal(S) + Principal(R)
<1>1. Ledgered(S) /\ Ledgered(R)
  BY LedgeredPart
<1>2. IsFiniteSet(S) /\ IsFiniteSet(R)
  BY <1>1 DEF Ledgered
<1>3. Integral(SignedOf, S) /\ Integral(SignedOf, R) /\ Integral(PaidOf, S) /\ Integral(PaidOf, R)
  BY <1>1, FlowSums
<1>4. /\ SumOver(SignedOf, S \cup R) = SumOver(SignedOf, S) + SumOver(SignedOf, R)
      /\ SumOver(PaidOf, S \cup R) = SumOver(PaidOf, S) + SumOver(PaidOf, R)
  BY <1>2, <1>3, SumUnion
<1> QED BY <1>1, <1>4, FlowSums

\* Without transactions all sums are zero.
LEMMA NoFlows == Cash({}) = 0 /\ Principal({}) = 0 /\ NetBought({}) = 0
<1>1. Ledgered({}) /\ Net({}) = 0
  <2>1. Net({}) = 0
    BY SumEmpty DEF Net
  <2> QED BY <2>1, NothingKept
<1> QED BY <1>1, FlowSums, NetBoughtIs, SumEmpty

\* The curve is a fold over the days.
LEMMA SeriesRuns ==
    ASSUME Days \in Nat
    PROVE  LET none == [cash |-> 0, value |-> 0, paid |-> 0]
           IN  /\ Series[0] = none
               /\ \A d \in 1..Days : Series[d] = NextDay(Series[d - 1], d)
<1> DEFINE none == [cash |-> 0, value |-> 0, paid |-> 0]
           item == [d \in 1..Days |-> d]
           P(s) == s = [d \in 0..Days |->
                          IF d = 0 THEN none
                          ELSE LET cash == s[d-1].cash + Cash(OnDay(d))
                                   shown == Max({cash, 0})
                               IN  [cash |-> shown,
                                    value |-> shown + NetBought(UpToDay(d)) * ClosePrice[d],
                                    paid |-> s[d-1].paid + Principal(OnDay(d)) + (shown - cash)]]
           Q(s) == s = [d \in 0..Days |-> IF d = 0 THEN none ELSE NextDay(s[d - 1], d)]
           f == CHOOSE s : Q(s)
<1>1. Series = CHOOSE s : P(s)
  BY DEF Series, OnDay, UpToDay
<1>2. \A s : P(s) <=> Q(s)
  BY DEF NextDay
<1>3. \E s : Q(s)
  <2>1. PICK s : Chain(s, "curve", none, item, Days)
    <3> HIDE DEF none, item
    <3> QED BY ChainExists
  <2>2. Q(s)
    <3>1. \A d \in 0..Days : d # 0 => item[d] = d
      OBVIOUS
    <3> HIDE DEF item, none
    <3> QED BY <2>1, <3>1 DEF Chain, Fold
  <2> QED BY <2>2
<1>4. (CHOOSE s : P(s)) = f
  <2> HIDE DEF P, Q
  <2> QED BY <1>2, Zenon
<1>5. Q(f)
  <2> HIDE DEF Q
  <2> QED BY <1>3
<1>6. \A d \in 0..Days : f[d] = IF d = 0 THEN none ELSE NextDay(f[d - 1], d)
  <2> HIDE DEF f, none
  <2> QED BY <1>5
<1> HIDE DEF f, none, P, Q
<1>7. f[0] = none /\ \A d \in 1..Days : f[d] = NextDay(f[d - 1], d)
  BY <1>6
<1> QED BY <1>1, <1>4, <1>7 DEF none

\* The profit of the curve is the cash less what was paid in, and the worth of the shares.
LEMMA CurveIs ==
    ASSUME Ledgered(txs), \A t \in txs : t.at >= 1, now \in 1..Last,
           LedgerAssumption
    PROVE  PnlCurve
<1>1. Days \in Nat /\ Closed \in 0..Days /\ Last \in Nat
  BY DEF LedgerAssumption, Days, Closed
<1>2. \A t \in txs : t \in TxRec /\ t.at \in Int /\ DayOf(t.at) \in Int /\ DayOf(t.at) >= 1
  BY TxValues DEF Ledgered, DayOf
<1>3. \A d \in 0..Days : Ledgered(UpToDay(d)) /\ Ledgered(OnDay(d))
  BY LedgeredPart DEF UpToDay, OnDay
<1>4. \A d \in 0..Days : /\ Cash(UpToDay(d)) \in Int /\ Principal(UpToDay(d)) \in Int
                         /\ Cash(OnDay(d)) \in Int /\ Principal(OnDay(d)) \in Int
                         /\ NetBought(UpToDay(d)) * ClosePrice[d] \in Int
  <2> SUFFICES ASSUME NEW d \in 0..Days
               PROVE  /\ Cash(UpToDay(d)) \in Int /\ Principal(UpToDay(d)) \in Int
                      /\ Cash(OnDay(d)) \in Int /\ Principal(OnDay(d)) \in Int
                      /\ NetBought(UpToDay(d)) * ClosePrice[d] \in Int
    OBVIOUS
  <2>1. NetBought(UpToDay(d)) \in Int
    BY <1>3, NetBoughtIs, TxSums
  <2>2. ClosePrice[d] \in Nat
    BY DEF LedgerAssumption, Days
  <2>3. \A a, b \in Int : a * b \in Int
    OBVIOUS
  <2> QED BY <1>3, <2>1, <2>2, <2>3, CashIs
<1>5. \A d \in 1..Days : /\ Cash(UpToDay(d)) = Cash(UpToDay(d - 1)) + Cash(OnDay(d))
                         /\ Principal(UpToDay(d)) = Principal(UpToDay(d - 1)) + Principal(OnDay(d))
  <2> SUFFICES ASSUME NEW d \in 1..Days
               PROVE  /\ Cash(UpToDay(d)) = Cash(UpToDay(d - 1)) + Cash(OnDay(d))
                      /\ Principal(UpToDay(d)) = Principal(UpToDay(d - 1)) + Principal(OnDay(d))
    OBVIOUS
  <2>1. UpToDay(d) = UpToDay(d - 1) \cup OnDay(d) /\ UpToDay(d - 1) \cap OnDay(d) = {}
    BY <1>2 DEF UpToDay, OnDay
  <2>2. Ledgered(UpToDay(d - 1) \cup OnDay(d))
    <3>1. d \in 0..Days
      BY <1>1
    <3> QED BY <1>3, <2>1, <3>1
  <2> QED BY <2>1, <2>2, FlowsAdd
<1>6. UpToDay(0) = {} /\ Cash({}) = 0 /\ Principal({}) = 0
  BY <1>2, NoFlows DEF UpToDay
<1> DEFINE Right(d) ==
      /\ Series[d].cash \in Int /\ Series[d].paid \in Int
      /\ Series[d].cash - Series[d].paid = Cash(UpToDay(d)) - Principal(UpToDay(d))
<1>7. ASSUME NEW d \in 1..Days, Right(d - 1)
      PROVE  /\ Right(d) /\ Series[d].value = Series[d].cash + NetBought(UpToDay(d)) * ClosePrice[d]
  <2> DEFINE c == Series[d - 1].cash
             p == Series[d - 1].paid
             dc == Cash(OnDay(d))
             dp == Principal(OnDay(d))
             shown == Max({c + dc, 0})
             worth == NetBought(UpToDay(d)) * ClosePrice[d]
  <2>1. d \in 0..Days /\ d - 1 \in 0..Days
    BY <1>1
  <2>2. Series[d] = [cash |-> shown, value |-> shown + worth, paid |-> p + dp + (shown - (c + dc))]
    BY <1>1, SeriesRuns DEF NextDay
  <2>3. c \in Int /\ p \in Int /\ dc \in Int /\ dp \in Int
    BY <1>4, <1>7, <2>1
  <2>4. c - p = Cash(UpToDay(d - 1)) - Principal(UpToDay(d - 1))
    BY <1>7
  <2>5. shown \in Int
    BY <2>3, Greater
  <2>6. /\ Cash(UpToDay(d)) = Cash(UpToDay(d - 1)) + dc
        /\ Principal(UpToDay(d)) = Principal(UpToDay(d - 1)) + dp
        /\ Cash(UpToDay(d - 1)) \in Int /\ Principal(UpToDay(d - 1)) \in Int
    BY <1>4, <1>5, <2>1
  <2> HIDE DEF shown, c, p, dc, dp, worth
  <2>7. /\ Series[d].cash = shown /\ Series[d].value = shown + worth
        /\ Series[d].paid = p + dp + (shown - (c + dc))
    BY <2>2
  <2>8. shown - (p + dp + (shown - (c + dc))) = (c - p) + dc - dp
    BY <2>3, <2>5
  <2>9. p + dp + (shown - (c + dc)) \in Int
    BY <2>3, <2>5
  <2> QED BY <2>4, <2>5, <2>6, <2>7, <2>8, <2>9, <2>3 DEF worth
<1>8. Right(0) /\ Series[0].value = 0 /\ Series[0].paid = 0
  <2>1. Series[0] = [cash |-> 0, value |-> 0, paid |-> 0]
    BY <1>1, SeriesRuns
  <2>2. Series[0].cash = 0 /\ Series[0].value = 0 /\ Series[0].paid = 0
    BY <2>1
  <2>3. Cash(UpToDay(0)) = 0 /\ Principal(UpToDay(0)) = 0
    BY <1>6
  <2> QED BY <2>2, <2>3
<1> HIDE DEF Right
<1>9. \A d \in 0..Days : Right(d)
  <2> DEFINE Bad == {d \in 0..Days : ~Right(d)}
  <2> SUFFICES ASSUME Bad # {} PROVE FALSE
    OBVIOUS
  <2>1. PICK d \in Bad : \A k \in Bad : d <= k
    <3>1. Bad \subseteq Nat
      OBVIOUS
    <3> HIDE DEF Bad
    <3> QED BY <3>1, LeastNumber
  <2>2. d \in 1..Days
    BY <1>1, <1>8, <2>1
  <2>3. d - 1 \in 0..Days /\ ~(d <= d - 1)
    BY <1>1, <2>2
  <2>4. Right(d - 1)
    BY <2>1, <2>3
  <2> QED BY <1>7, <2>1, <2>2, <2>4
<1>10. SUFFICES ASSUME AllClosed PROVE Series[Closed].value - Series[Closed].paid = Equity - Principal(txs)
  BY DEF PnlCurve
<1>11. UpToDay(Closed) = txs
  BY <1>10 DEF AllClosed, UpToDay
<1>12. CASE Closed = 0
  <2>1. txs = {}
    BY <1>6, <1>11, <1>12
  <2>2. ClosePrice[0] \in Nat /\ Equity = Cash({}) + NetBought({}) * ClosePrice[0]
    BY <1>12, <2>1, <1>1 DEF LedgerAssumption, Equity, Days
  <2>3. Equity = 0
    BY <2>2, NoFlows
  <2> QED BY <1>6, <1>8, <1>12, <2>1, <2>3
<1>13. CASE Closed # 0
  <2>1. Closed \in 1..Days /\ Closed - 1 \in 0..Days
    BY <1>1, <1>13
  <2>2. /\ Right(Closed)
        /\ Series[Closed].value = Series[Closed].cash + NetBought(txs) * ClosePrice[Closed]
    BY <1>7, <1>9, <1>11, <2>1
  <2>3. /\ Series[Closed].cash \in Int /\ Series[Closed].paid \in Int
        /\ Series[Closed].cash - Series[Closed].paid = Cash(txs) - Principal(txs)
    BY <1>11, <2>2 DEF Right
  <2>4. Cash(txs) \in Int /\ Principal(txs) \in Int /\ NetBought(txs) * ClosePrice[Closed] \in Int
    BY <1>1, <1>4, <1>11
  <2> QED BY <2>2, <2>3, <2>4 DEF Equity
<1> QED BY <1>12, <1>13

-----------------------------------------------------------------------------
(* Rows with new profits keep what the lots agree with. *)

\* The rows of some moments are the new rows of the old ones of those moments.
LEMMA RevaluedParts ==
    ASSUME NEW T, Ledgered(T), NEW gain, Gains(gain)
    PROVE  /\ \A c : {v \in Revalued(T, gain) : v.at < c} = Revalued({t \in T : t.at < c}, gain)
           /\ \A d : Up(Revalued(T, gain), d) = Revalued(Up(T, d), gain)
           /\ \A u \in T : Through(Revalued(T, gain), NewRow(u, gain)) = Revalued(Through(T, u), gain)
<1>1. \A t \in T : NewRow(t, gain).at = t.at /\ NewRow(t, gain).id = t.id
  BY NewRowIs DEF Ledgered
<1>2. \A S \in SUBSET T : Revalued(S, gain) = {NewRow(t, gain) : t \in S}
  <2> SUFFICES ASSUME NEW S \in SUBSET T PROVE Revalued(S, gain) = {NewRow(t, gain) : t \in S}
    OBVIOUS
  <2>1. Ledgered(S)
    BY LedgeredPart
  <2> QED BY <2>1, RevaluedIs
<1>3. \A c : {v \in Revalued(T, gain) : v.at < c} = Revalued({t \in T : t.at < c}, gain)
  <2> SUFFICES ASSUME NEW c
               PROVE {v \in Revalued(T, gain) : v.at < c} = Revalued({t \in T : t.at < c}, gain)
    OBVIOUS
  <2>1. Revalued({t \in T : t.at < c}, gain) = {NewRow(t, gain) : t \in {t \in T : t.at < c}}
    BY <1>2
  <2>2. Revalued(T, gain) = {NewRow(t, gain) : t \in T}
    BY <1>2
  <2> QED BY <1>1, <2>1, <2>2
<1>4. \A d : Up(Revalued(T, gain), d) = Revalued(Up(T, d), gain)
  <2> SUFFICES ASSUME NEW d PROVE Up(Revalued(T, gain), d) = Revalued(Up(T, d), gain)
    OBVIOUS
  <2>1. Revalued({t \in T : t.at <= d}, gain) = {NewRow(t, gain) : t \in {t \in T : t.at <= d}}
    BY <1>2
  <2>2. Revalued(T, gain) = {NewRow(t, gain) : t \in T}
    BY <1>2
  <2> QED BY <1>1, <2>1, <2>2 DEF Up
<1>5. \A u \in T : Through(Revalued(T, gain), NewRow(u, gain)) = Revalued(Through(T, u), gain)
  <2> SUFFICES ASSUME NEW u \in T
               PROVE Through(Revalued(T, gain), NewRow(u, gain)) = Revalued(Through(T, u), gain)
    OBVIOUS
  <2>1. Through(T, u) \subseteq T
    BY DEF Through, Before
  <2>2. Revalued(Through(T, u), gain) = {NewRow(t, gain) : t \in Through(T, u)}
    BY <1>2, <2>1
  <2>3. Revalued(T, gain) = {NewRow(t, gain) : t \in T}
    BY <1>2
  <2>4. \A t \in T : Earlier(NewRow(t, gain), NewRow(u, gain)) <=> Earlier(t, u)
    BY <1>1 DEF Earlier
  <2> QED BY <2>1, <2>2, <2>3, <2>4 DEF Through, Before
<1> QED BY <1>3, <1>4, <1>5

\* Which lots were held when does not depend on the profits recorded.
LEMMA KeptRevalued ==
    ASSUME NEW L, NEW T, Ledgered(T), NEW gain, Gains(gain), Kept(L, T)
    PROVE  Kept(L, Revalued(T, gain))
<1> DEFINE V == Revalued(T, gain)
<1>1. \A S \in SUBSET T : Net(Revalued(S, gain)) = Net(S)
  <2> SUFFICES ASSUME NEW S \in SUBSET T PROVE Net(Revalued(S, gain)) = Net(S)
    OBVIOUS
  <2>1. Ledgered(S)
    BY LedgeredPart
  <2> QED BY <2>1, RevaluedNet
<1>2. \A d : Net(Up(V, d)) = Net(Up(T, d))
  <2> SUFFICES ASSUME NEW d PROVE Net(Up(V, d)) = Net(Up(T, d))
    OBVIOUS
  <2>1. Up(T, d) \in SUBSET T
    BY DEF Up
  <2>2. Up(V, d) = Revalued(Up(T, d), gain)
    BY RevaluedParts
  <2> QED BY <1>1, <2>1, <2>2
<1>3. \A v \in V : \E u \in T : v.at = u.at /\ Net(Through(V, v)) = Net(Through(T, u))
  <2> SUFFICES ASSUME NEW v \in V PROVE \E u \in T : v.at = u.at /\ Net(Through(V, v)) = Net(Through(T, u))
    OBVIOUS
  <2>1. PICK u \in T : v = NewRow(u, gain)
    BY RevaluedIs
  <2>2. Through(T, u) \in SUBSET T
    BY DEF Through, Before
  <2>3. Through(V, v) = Revalued(Through(T, u), gain)
    BY <2>1, RevaluedParts
  <2>4. v.at = u.at
    BY <2>1, NewRowIs DEF Ledgered
  <2> QED BY <1>1, <2>2, <2>3, <2>4
<1> HIDE DEF V
<1>4. ASSUME NEW d \in Int PROVE KeptAt(L, V, d)
  <2>1. KeptAt(L, T, d)
    BY DEF Kept
  <2> QED BY <1>2, <1>3, <2>1 DEF KeptAt
<1> QED BY <1>4 DEF Kept, V

\* New profits move no money.
LEMMA RevaluedCash ==
    ASSUME NEW T, Ledgered(T), NEW gain, Gains(gain)
    PROVE  Cash(Revalued(T, gain)) = Cash(T)
<1> DEFINE m == [t \in T |-> NewRow(t, gain)]
           h == [t \in T |-> SignedOf[m[t]]]
<1>1. \A t \in T : t \in TxRec /\ m[t] \in TxRec /\ m[t].id = t.id /\ SignedOf[m[t]] = SignedOf[t] /\ SignedOf[t] \in Int
  <2> SUFFICES ASSUME NEW t \in T
               PROVE  /\ t \in TxRec /\ m[t] \in TxRec /\ m[t].id = t.id
                      /\ SignedOf[m[t]] = SignedOf[t] /\ SignedOf[t] \in Int
    OBVIOUS
  <2>1. t \in TxRec
    BY DEF Ledgered
  <2>2. /\ m[t] \in TxRec /\ m[t].id = t.id /\ m[t].kind = t.kind /\ m[t].qty = t.qty /\ m[t].price = t.price
    BY <2>1, NewRowIs
  <2>3. Signed(m[t]) = Signed(t)
    BY <2>2 DEF Signed, Amount
  <2> QED BY <2>1, <2>2, <2>3, TxValues DEF SignedOf
<1>2. \A t, u \in T : m[t] = m[u] => t = u
  BY <1>1 DEF Ledgered, Distinct
<1>3. Revalued(T, gain) = {m[t] : t \in T} /\ Ledgered(Revalued(T, gain)) /\ IsFiniteSet(T)
  BY RevaluedIs DEF Ledgered
<1>4. \A t \in T : SignedOf[m[t]] \in Int /\ h[t] = SignedOf[t]
  BY <1>1
<1> HIDE DEF m
<1>5. SumOver(SignedOf, {m[t] : t \in T}) = SumOver(h, T)
  BY <1>2, <1>3, <1>4, SumImage
<1>6. SumOver(h, T) = SumOver(SignedOf, T)
  <2>1. Integral(h, T)
    BY <1>1, <1>4 DEF Integral
  <2> HIDE DEF h
  <2> QED BY <1>3, <1>4, <2>1, SumSame
<1> QED BY <1>3, <1>5, <1>6, FlowSums

\* Setting the profits that change sets them all.
LEMMA RegainedSame ==
    ASSUME NEW T, Ledgered(T), NEW gain, Gains(gain), \A g, h \in gain : g[1] = h[1] => g = h
    PROVE  /\ Revalued(T, Regained(T, gain)) = Revalued(T, gain)
           /\ Gains(Regained(T, gain)) /\ \A g \in Regained(T, gain) : g[1] \in Ids(T)
<1> DEFINE R == Regained(T, gain)
<1>1. R \subseteq gain /\ Gains(R) /\ \A g, h \in R : g[1] = h[1] => g = h
  BY DEF Regained, Gains
<1>2. ASSUME NEW t \in T PROVE Gained(t, R) = Gained(t, gain)
  <2>1. CASE \E g \in gain : g[1] = t.id
    <3>1. PICK g \in gain : g[1] = t.id
      BY <2>1
    <3>2. Gained(t, gain) = g[2]
      BY <3>1, GainedIs
    <3>3. CASE g \in R
      BY <1>1, <3>1, <3>2, <3>3, GainedIs
    <3>4. CASE g \notin R
      <4>1. t.realized = g[2]
        BY <3>1, <3>4 DEF Regained
      <4>2. \A h \in R : h[1] # t.id
        BY <1>1, <3>1, <3>4
      <4> QED BY <1>1, <3>2, <4>1, <4>2, GainedIs
    <3> QED BY <3>3, <3>4
  <2>2. CASE \A g \in gain : g[1] # t.id
    <3>1. \A g \in R : g[1] # t.id
      BY <1>1, <2>2
    <3> QED BY <1>1, <2>2, <3>1, GainedIs
  <2> QED BY <2>1, <2>2
<1>3. \A t \in T : NewRow(t, R) = NewRow(t, gain)
  BY <1>2 DEF NewRow
<1>4. \A g \in R : g[1] \in Ids(T)
  BY DEF Regained, Ids
<1> HIDE DEF R
<1>5. Revalued(T, R) = {NewRow(t, R) : t \in T} /\ Revalued(T, gain) = {NewRow(t, gain) : t \in T}
  BY <1>1, RevaluedIs
<1> QED BY <1>1, <1>3, <1>4, <1>5 DEF R

-----------------------------------------------------------------------------
(* Lots and transactions that agree go on to do so. *)

Sound(L, T) == Position(L) /\ Balanced(L, T) /\ Kept(L, T)
\* A transaction entered now: its number is above all, so that it comes last of its date.
Newest(T, t) == Ledgered(T \cup {t}) /\ t \notin T /\ \A u \in T : u.id < t.id

\* Lots and transactions agree after a transaction that comes last of its date, if the lots
\* change by what it moves and those of an earlier date only lose shares.
LEMMA GoesOn ==
    ASSUME NEW T, NEW t, Newest(T, t), NEW L, Sound(L, T), NEW M, Position(M),
           Holding(M) = Holding(L) + NetOf[t], Cost(M) = Cost(L) - BookOf[t],
           \A d \in Int : t.at <= d => Holding(Up(M, d)) = Holding(Up(L, d)) + NetOf[t],
           \A d \in Int : d < t.at => Holding(Up(M, d)) <= Holding(Up(L, d))
    PROVE  Sound(M, T \cup {t})
<1>1. /\ Ledgered(T \cup {t}) /\ t \notin T /\ Position(L) /\ Balanced(L, T) /\ Kept(L, T)
  BY DEF Newest, Sound
<1>2. /\ Net(T \cup {t}) = Net(T) + NetOf[t] /\ Books(T \cup {t}) = Books(T) + BookOf[t]
      /\ t \in TxRec /\ Ledgered(T)
      /\ NetOf[t] \in Int /\ BookOf[t] \in Int /\ Net(T) \in Int /\ Books(T) \in Int
  BY <1>1, NetAdded
<1>3. Holding(L) \in Nat /\ Cost(L) \in Nat
  BY <1>1, HoldingWhole DEF Position
<1>4. Balanced(M, T \cup {t})
  BY <1>1, <1>2, <1>3 DEF Balanced
<1>5. \A u \in T : u.at <= t.at => Earlier(u, t)
  <2> SUFFICES ASSUME NEW u \in T, u.at <= t.at PROVE Earlier(u, t)
    OBVIOUS
  <2>1. u.id < t.id /\ u.at \in Int /\ t.at \in Int
    BY <1>2, TxValues DEF Newest, Ledgered
  <2> QED BY <2>1 DEF Earlier
<1>6. Kept(M, T \cup {t})
  BY <1>1, <1>5, KeptGrows
<1> QED BY <1>4, <1>6 DEF Sound

\* That is so of a deposit or withdrawal, which moves no lots,
LEMMA FlowGoesOn ==
    ASSUME NEW T, NEW t, Newest(T, t), t.kind \in {"deposit", "withdraw"}, NEW L, Sound(L, T)
    PROVE  Sound(L, T \cup {t})
<1>1. t \in TxRec /\ Position(L)
  BY DEF Newest, Ledgered, Sound
<1>2. NetOf[t] = 0 /\ BookOf[t] = 0
  BY <1>1 DEF NetOf, BookOf
<1>3. Holding(L) \in Nat /\ Cost(L) \in Nat /\ \A d \in Int : Holding(Up(L, d)) \in Nat
  BY <1>1, HoldingWhole, UpWhole DEF Position
<1> QED BY <1>1, <1>2, <1>3, GoesOn

\* of a purchase, whatever its date,
LEMMA BuyGoesOn ==
    ASSUME NEW T, NEW t, Newest(T, t), t.kind = "buy", NEW L, Sound(L, T),
           NEW l \in LotRec, l.qty = t.qty, l.price = t.price, l.at = t.at, \A m \in L : m.id # l.id
    PROVE  Sound(L \cup {l}, T \cup {t})
<1>1. t \in TxRec /\ Position(L) /\ t.qty > 0
  BY DEF Newest, Ledgered, Sound
<1>2. /\ NetOf[t] = t.qty /\ BookOf[t] = -(t.qty * t.price)
      /\ t.qty * t.price \in Int /\ t.qty \in Nat /\ t.at \in Int
  BY <1>1, TxValues DEF NetOf, BookOf
<1>3. Holding(L) \in Nat /\ Cost(L) \in Nat /\ \A d \in Int : Holding(Up(L, d)) \in Nat
  BY <1>1, HoldingWhole, UpWhole DEF Position
<1>4. l.qty > 0
  BY <1>1
<1>5. /\ Position(L \cup {l}) /\ Holding(L \cup {l}) = Holding(L) + l.qty
      /\ Cost(L \cup {l}) = Cost(L) + l.qty * l.price
  BY <1>1, <1>4, LotAdded
<1>6. \A d \in Int : Holding(Up(L \cup {l}, d)) = Holding(Up(L, d)) + (IF l.at <= d THEN l.qty ELSE 0)
  BY <1>1, <1>4, LotAdded
<1>7. Holding(L \cup {l}) = Holding(L) + NetOf[t]
  BY <1>2, <1>5
<1>8. Cost(L \cup {l}) = Cost(L) - BookOf[t]
  BY <1>2, <1>3, <1>5
<1>9. \A d \in Int : t.at <= d => Holding(Up(L \cup {l}, d)) = Holding(Up(L, d)) + NetOf[t]
  BY <1>2, <1>6
<1>10. \A d \in Int : d < t.at => Holding(Up(L \cup {l}, d)) <= Holding(Up(L, d))
  <2> SUFFICES ASSUME NEW d \in Int, d < t.at PROVE Holding(Up(L \cup {l}, d)) <= Holding(Up(L, d))
    OBVIOUS
  <2>1. ~(l.at <= d)
    BY <1>2
  <2>2. Holding(Up(L \cup {l}, d)) = Holding(Up(L, d)) + 0
    BY <1>6, <2>1
  <2> QED BY <1>3, <2>2
<1> HIDE DEF NetOf, BookOf
<1> QED BY <1>5, <1>7, <1>8, <1>9, <1>10, GoesOn

\* and of a sell against the lots open by its date.
LEMMA SellGoesOn ==
    ASSUME NEW T, NEW t, Newest(T, t), t.kind = "sell", NEW L, Sound(L, T),
           t.qty <= Sale(L, t, {}).held, t.realized = Sale(L, t, {}).realized
    PROVE  Sound(Sale(L, t, {}).lots, T \cup {t})
<1> DEFINE S == Sale(L, t, {})
<1>1. t \in TxRec /\ Position(L)
  BY DEF Newest, Ledgered, Sound
<1>2. /\ NetOf[t] = -t.qty /\ BookOf[t] = t.qty * t.price - t.realized
      /\ t.qty * t.price \in Int /\ t.qty \in Nat /\ t.at \in Int /\ t.price \in Nat /\ t.realized \in Int
  BY <1>1, TxValues DEF NetOf, BookOf
<1>3. Holding(L) \in Nat /\ Cost(L) \in Nat /\ \A d \in Int : Holding(Up(L, d)) \in Nat
  BY <1>1, HoldingWhole, UpWhole DEF Position
<1>4. Ordered(t)
  BY <1>2 DEF Ordered
<1>5. Position(S.lots)
  BY <1>1, <1>4, SaleTyped
<1>6. Holding(S.lots) = Holding(L) - t.qty /\ Cost(S.lots) = Cost(L) - t.qty * t.price + S.realized
  BY <1>1, <1>4, SaleEffect
<1>7. \A d \in Int : /\ Holding(Up(S.lots, d)) <= Holding(Up(L, d))
                     /\ t.at <= d => Holding(Up(S.lots, d)) = Holding(Up(L, d)) - t.qty
  BY <1>1, <1>4, SaleUp
<1> DEFINE M == S.lots
           gain == S.realized
<1>8. t.realized = gain
  OBVIOUS
<1> HIDE DEF M, gain, S
<1>9. Holding(M) = Holding(L) + NetOf[t]
  BY <1>2, <1>3, <1>6 DEF M
<1>10. Cost(M) = Cost(L) - BookOf[t]
  <2>1. Cost(M) = Cost(L) - t.qty * t.price + t.realized
    BY <1>6, <1>8 DEF M, gain
  <2> DEFINE a == t.qty * t.price
  <2> HIDE DEF a
  <2> QED BY <1>2, <1>3, <2>1 DEF a
<1>11. \A d \in Int : t.at <= d => Holding(Up(M, d)) = Holding(Up(L, d)) + NetOf[t]
  BY <1>2, <1>3, <1>7 DEF M
<1>12. \A d \in Int : d < t.at => Holding(Up(M, d)) <= Holding(Up(L, d))
  BY <1>7 DEF M
<1>13. Position(M)
  BY <1>5 DEF M
<1>14. Sound(M, T \cup {t})
  BY <1>9, <1>10, <1>11, <1>12, <1>13, GoesOn
<1> QED BY <1>14 DEF M, S

\* What a replay makes of the transactions, and the profits to be set.
LEMMA ReplayGives ==
    ASSUME NEW T, Ledgered(T), NEW first \in Int
    PROVE  LET done == Replay(T, first)
               gain == Regained(T, done.gain)
           IN  /\ done \in ReplayRec /\ first <= done.next /\ (done.ok => done.sellsOk)
               /\ Position(done.lots) /\ Gains(gain) /\ Ledgered(Revalued(T, gain))
               /\ \A g \in gain : g[1] \in Ids(T)
               /\ \A l \in done.lots : l.id >= first /\ l.id < done.next
               /\ done.sellsOk => Sound(done.lots, Revalued(T, gain))
               /\ Covered(T) => done.sellsOk
<1> DEFINE done == Replay(T, first)
<1>1. Agrees(done, T, first)
  BY ReplayAgrees
<1> HIDE DEF done
<1>2. /\ done \in ReplayRec /\ first <= done.next /\ (done.ok => done.sellsOk) /\ Position(done.lots)
      /\ \A g, h \in done.gain : g[1] = h[1] => g = h
      /\ \A l \in done.lots : l.id >= first /\ l.id < done.next
  BY <1>1 DEF Agrees, Shaped
<1>3. Gains(done.gain)
  BY <1>2 DEF ReplayRec, Gains
<1> DEFINE gain == Regained(T, done.gain)
<1>4. Revalued(T, gain) = Revalued(T, done.gain) /\ Gains(gain) /\ \A g \in gain : g[1] \in Ids(T)
  BY <1>2, <1>3, RegainedSame
<1> HIDE DEF gain
<1>5. Ledgered(Revalued(T, gain))
  BY <1>4, RevaluedIs
<1>6. done.sellsOk => Sound(done.lots, Revalued(T, gain))
  <2> SUFFICES ASSUME done.sellsOk PROVE Sound(done.lots, Revalued(T, gain))
    OBVIOUS
  <2>1. Balanced(done.lots, Revalued(T, done.gain)) /\ Kept(done.lots, T)
    BY <1>1 DEF Agrees
  <2>2. Kept(done.lots, Revalued(T, gain))
    BY <1>4, <2>1, KeptRevalued
  <2> QED BY <1>2, <1>4, <2>1, <2>2 DEF Sound
<1>7. Covered(T) => done.sellsOk
  BY <1>1 DEF Agrees
<1> QED BY <1>2, <1>4, <1>5, <1>6, <1>7 DEF done, gain

-----------------------------------------------------------------------------
(* The invariant. *)

ReqRec == [op : {"idle", "sell", "delete", "import"}, tx : SUBSET TxRec,
           held : SUBSET LotRec, made : SUBSET LotRec, gain : SUBSET (Int \X Int),
           alone : BOOLEAN, behind : SUBSET Req]

Typed ==
    /\ now \in 1..Last /\ nextTx \in Nat \ {0} /\ nextLot \in Nat \ {0}
    /\ filled \in [Order -> Nat] /\ raced \in BOOLEAN
    /\ lots \subseteq LotRec /\ req \in [Req -> ReqRec]
    /\ \A o \in Order : filled[o] > 0 => Execution[o].day <= Today

\* A row is dated no later than today, and its number has been given out.
Dated(t) == 1 <= t.at /\ t.at <= AtClose(Today) /\ t.id < nextTx
Rows == Ledgered(txs) /\ \A t \in txs : Dated(t)

\* What a request is to add or to take away.
Recorded(r) ==
    /\ req[r].op \in {"delete", "import"} =>
         IsFiniteSet(req[r].tx) /\ \A t \in req[r].tx : Dated(t)
    /\ req[r].op = "import" => Ledgered(req[r].tx) /\ \A t \in req[r].tx : t.id \notin Ids(txs)
    /\ req[r].op = "delete" => \A t \in req[r].tx, u \in txs : u.id = t.id => u.at = t.at
    /\ req[r].op = "sell" =>
         \E t : req[r].tx = {t} /\ t.kind = "sell" /\ t.qty > 0 /\ 1 <= t.at /\ t.at <= AtClose(Today)
\* The rows of an import are its own.
Apart(r, x) ==
    r # x /\ req[r].op \in {"delete", "import"} /\ req[x].op = "import" =>
        Ids(req[r].tx) \cap Ids(req[x].tx) = {}

\* What a rebuild leaves if it commits now.
After(r) == {t \in txs : t.id \notin Gone(r)} \cup Added(r)
Below(L) == \A l \in L : l.id < nextLot
\* A sell and a rebuild as computed from the lots and the transactions of now.
Sold(r) == \E t : /\ req[r].tx = {t} /\ req[r].made = Sale(lots, t, {}).lots
                  /\ t.qty <= Sale(lots, t, {}).held /\ t.realized = Sale(lots, t, {}).realized
Remade(r) == /\ Below(req[r].made) /\ Ledgered(After(r))
             /\ Sound(req[r].made, Revalued(After(r), req[r].gain))
\* A request that no other has disturbed is the only one, and what it computed is right.
AsRead(r) ==
    r \in Rewriting /\ req[r].alone =>
        /\ Rewriting = {r} /\ lots = req[r].held
        /\ req[r].op = "sell" => ~raced /\ Sold(r)
        /\ req[r].op # "sell" => Remade(r)

Agree == ~raced => Sound(lots, txs) /\ Below(lots)
Shown == /\ snaps = [d \in 1..Days |-> snaps[d]]
         /\ \A d \in 1..Days : snaps[d] # NoSnap => 2 * d <= now /\ snaps[d] = AsOf(d)
NotYet == /\ pf # "open" => Rewriting = {}
          /\ pf = "none" => /\ txs = {} /\ lots = {} /\ nextTx = 1 /\ nextLot = 1
                            /\ \A d \in 1..Days : snaps[d] = NoSnap

LedgerInv ==
    /\ Typed /\ Rows
    /\ \A r \in Req : Recorded(r)
    /\ \A r, x \in Req : Apart(r, x)
    /\ \A r \in Req : AsRead(r)
    /\ Agree /\ Shown /\ NotYet

-----------------------------------------------------------------------------
(* Dates and days. *)

\* An instant is no later than the close of its day, and after the close of the day before.
LEMMA DayNumbers ==
    ASSUME NEW t \in Int, NEW d \in Int
    PROVE  /\ DayOf(t) \in Int /\ DayOf(t) <= d <=> t <= 2 * d
           /\ d < DayOf(t) => t >= 2 * d + 1
           /\ t <= AtClose(DayOf(t)) /\ (t = AtClose(d) => t \div 2 = d /\ DayOf(t) = d)
BY DEF DayOf, AtClose

\* The least of some days.
LEMMA LeastDay ==
    ASSUME NEW S, S \subseteq Nat, S # {}
    PROVE  Min(S) \in S /\ \A x \in S : Min(S) <= x
<1>1. \E x \in S : \A y \in S : x <= y
  BY LeastNumber
<1>2. Min(S) = CHOOSE x \in S : \A y \in S : x <= y
  BY DEF Min
<1> QED BY <1>1, <1>2

\* Two sets of rows whose numbers differ.
LEMMA Together ==
    ASSUME NEW S, NEW R, Ledgered(S), Ledgered(R), \A t \in R : t.id \notin Ids(S)
    PROVE  Ledgered(S \cup R)
<1>1. IsFiniteSet(S \cup R)
  BY FS_Union DEF Ledgered
<1>2. Distinct(S \cup R)
  BY DEF Distinct, Ledgered, Ids
<1> QED BY <1>1, <1>2 DEF Ledgered

-----------------------------------------------------------------------------
(* Snapshots. *)

\* A past day, from the transactions up to its close.
Past(T, d) == [stock |-> Holding(InOrder(Rebuilt, [lots |-> {}], T).lots) * ClosePrice[d], cash |-> Cash(T)]
UpTo(T, d) == {t \in T : t.at < AtClose(d) + 1}

\* The state before the close of a day, from the transactions up to it.
LEMMA AsOfIs == ASSUME NEW d PROVE AsOf(d) = Past(UpTo(txs, d), d)
BY DEF AsOf, StateBefore, Past, UpTo

\* It does not depend on the profits recorded.
LEMMA PastSame ==
    ASSUME NEW T, Ledgered(T), NEW gain, Gains(gain), NEW d
    PROVE  Past(UpTo(Revalued(T, gain), d), d) = Past(UpTo(T, d), d)
<1>1. UpTo(Revalued(T, gain), d) = Revalued(UpTo(T, d), gain)
  BY RevaluedParts DEF UpTo
<1>2. Ledgered(UpTo(T, d))
  BY LedgeredPart DEF UpTo
<1>3. /\ InOrder(Rebuilt, [lots |-> {}], Revalued(UpTo(T, d), gain)) =
           InOrder(Rebuilt, [lots |-> {}], UpTo(T, d))
  BY <1>2, RebuildSame
<1>4. Cash(Revalued(UpTo(T, d), gain)) = Cash(UpTo(T, d))
  BY <1>2, RevaluedCash
<1> QED BY <1>1, <1>3, <1>4 DEF Past

\* Lots that agree with the transactions are worth what their past shows at the close.
LEMMA ValuedRight ==
    ASSUME NEW L, NEW T, Ledgered(T), Sound(L, T), NEW d \in Int, \A t \in T : t.at <= AtClose(d)
    PROVE  Past(UpTo(T, d), d) = [stock |-> Holding(L) * ClosePrice[d], cash |-> Cash(T)]
<1>1. UpTo(T, d) = T
  <2>1. \A t \in T : t.at \in Int
    BY TxValues DEF Ledgered
  <2> QED BY <2>1 DEF UpTo, AtClose
<1>2. Covered(T)
  BY KeptCovers DEF Sound
<1>3. Holding(InOrder(Rebuilt, [lots |-> {}], T).lots) = Net(T)
  BY <1>2, RebuildAgrees DEF BuiltFrom
<1>4. Holding(L) = Net(T)
  BY DEF Sound, Balanced
<1> QED BY <1>1, <1>3, <1>4 DEF Past

\* What is executed from some day on leaves the snapshots before it as they are.
SamePast(d) == Past(UpTo(txs', d), d) = Past(UpTo(txs, d), d)

\* Snapshots from the first day changed are dropped or taken anew, and the others show the
\* same past.
LEMMA ShownKeeps ==
    ASSUME Typed, Shown, now' = now, NEW from \in Int, NEW taken \in BOOLEAN, Snapped(from, taken),
           \A d \in 1..Days : d < from => SamePast(d),
           raced' \in BOOLEAN,
           ~raced' => Sound(lots', txs') /\ Ledgered(txs') /\ \A t \in txs' : t.at <= AtClose(Today)
    PROVE  Shown'
<1>1. now \in Int /\ Today \in Int /\ Days \in Int
  BY LedgerAssumption DEF Typed, Today, DayOf, Days
<1>2. snaps' = [d \in 1..Days |-> snaps'[d]]
  BY DEF Snapped
<1>3. ASSUME NEW d \in 1..Days, snaps'[d] # NoSnap
      PROVE  2 * d <= now /\ snaps'[d] = Past(UpTo(txs', d), d)
  <2>1. CASE d = Today /\ taken /\ now = AtClose(d) /\ ~raced'
    <3>1. snaps'[d] = [stock |-> Holding(lots') * ClosePrice[now \div 2], cash |-> Cash(txs')]
      BY <2>1 DEF Snapped, Valued, LastClose
    <3>2. now \div 2 = d /\ 2 * d <= now
      BY <1>1, <2>1 DEF AtClose
    <3>3. Past(UpTo(txs', d), d) = [stock |-> Holding(lots') * ClosePrice[d], cash |-> Cash(txs')]
      <4>1. \A t \in txs' : t.at <= AtClose(d)
        BY <2>1
      <4>2. Sound(lots', txs') /\ Ledgered(txs')
        BY <2>1
      <4> QED BY <4>1, <4>2, ValuedRight
    <3> QED BY <3>1, <3>2, <3>3
  <2>2. CASE ~(d = Today /\ taken /\ now = AtClose(d) /\ ~raced')
    <3>1. d \notin from..Today /\ snaps'[d] = snaps[d]
      BY <1>3, <2>2 DEF Snapped
    <3>2. 2 * d <= now /\ snaps[d] = Past(UpTo(txs, d), d)
      BY <1>3, <3>1, AsOfIs DEF Shown
    <3>3. d <= Today
      BY <1>1, <3>2 DEF Today, DayOf
    <3>4. d < from
      BY <1>1, <3>1, <3>3
    <3> QED BY <3>1, <3>2, <3>4 DEF SamePast
  <2> QED BY <2>1, <2>2
<1>4. ASSUME NEW d PROVE (AsOf(d) = Past(UpTo(txs, d), d))'
  BY AsOfIs, PTL
<1>5. \A d \in 1..Days : snaps'[d] # NoSnap => 2 * d <= now' /\ snaps'[d] = AsOf(d)'
  <2>1. \A d \in 1..Days : AsOf(d)' = Past(UpTo(txs', d), d)
    BY <1>4 DEF Past, UpTo
  <2> QED BY <1>3, <2>1
<1> QED BY <1>2, <1>5 DEF Shown

-----------------------------------------------------------------------------
\* Disturbed requests are requests, and lose nothing but their solitude.
LEMMA DisturbTyped ==
    ASSUME req \in [Req -> ReqRec], NEW S
    PROVE  /\ Disturb(S) \in [Req -> ReqRec]
           /\ \A x \in Req : LET q == Disturb(S)[x]
                             IN  /\ q.op = req[x].op /\ q.tx = req[x].tx /\ q.held = req[x].held
                                 /\ q.made = req[x].made /\ q.gain = req[x].gain
                                 /\ q.behind = req[x].behind
                                 /\ x \in Rewriting \cap S => q.alone = FALSE
                                 /\ x \notin Rewriting \cap S => q = req[x]
<1> DEFINE new(x) == [req[x] EXCEPT !.alone = FALSE]
<1>1. \A x \in Req : /\ new(x) \in ReqRec /\ new(x).op = req[x].op /\ new(x).tx = req[x].tx
                     /\ new(x).held = req[x].held /\ new(x).made = req[x].made
                     /\ new(x).gain = req[x].gain /\ new(x).behind = req[x].behind
                     /\ new(x).alone = FALSE /\ req[x] \in ReqRec
  <2> TAKE x \in Req
  <2>0. PICK q, p : q = req[x] /\ p = new(x)
    OBVIOUS
  <2>. p = [q EXCEPT !.alone = FALSE]
    BY <2>0
  <2> HIDE DEF new
  <2>1. q \in ReqRec
    BY <2>0
  <2>2. /\ p.op = q.op /\ p.tx = q.tx /\ p.held = q.held /\ p.made = q.made
        /\ p.gain = q.gain /\ p.behind = q.behind
    BY <2>1 DEF ReqRec
  <2>3. p.alone = FALSE
    BY <2>1 DEF ReqRec
  <2>4. p \in ReqRec
    BY <2>1 DEF ReqRec
  <2> QED BY <2>0, <2>1, <2>2, <2>3, <2>4
<1>2. Disturb(S) = [x \in Req |-> IF x \in Rewriting \cap S THEN new(x) ELSE req[x]]
  BY DEF Disturb
<1> HIDE DEF new
<1>3. \A x \in Req : Disturb(S)[x] = IF x \in Rewriting \cap S THEN new(x) ELSE req[x]
  BY <1>2
<1>4. Disturb(S) \in [Req -> ReqRec]
  BY <1>1, <1>2
<1> QED BY <1>1, <1>3, <1>4

\* So is the idle request.
LEMMA IdleTyped == Idle \in ReqRec /\ Idle.op = "idle" /\ Idle.tx = {} /\ Idle.behind = {}
BY DEF Idle, ReqRec

\* A day later the dates of today are dates still.
LEMMA DatedKeeps ==
    ASSUME now \in Int, now' \in Int, now <= now', nextTx \in Int, nextTx' \in Int, nextTx <= nextTx',
           NEW t \in TxRec, Dated(t)
    PROVE  Dated(t)' /\ AtClose(Today) <= AtClose(Today)'
<1>1. t.at \in Int /\ t.id \in Int
  BY TxValues
<1>2. Today <= Today' /\ Today \in Int /\ Today' \in Int
  BY DEF Today, DayOf
<1>3. AtClose(Today) <= AtClose(Today)' /\ AtClose(Today) \in Int /\ AtClose(Today)' \in Int
  BY DEF AtClose, Today, DayOf
<1> QED BY <1>1, <1>3 DEF Dated

\* A request is untouched by the rows of others.
NewRows(x) == \A u \in txs' : \/ \E v \in txs : v.id = u.id /\ v.at = u.at
                              \/ u.id >= nextTx
                              \/ u.id \notin Ids(req[x].tx)

\* What a request is to record stays right while the rows that come are new to it.
LEMMA RecordedKeeps ==
    ASSUME LedgerInv, now' \in Int, now <= now', nextTx' \in Int, nextTx <= nextTx',
           NEW x \in Req, req'[x].op = req[x].op, req'[x].tx = req[x].tx,
           req[x].op \in {"delete", "import"} => NewRows(x)
    PROVE  Recorded(x)'
<1>1. /\ Recorded(x) /\ now \in Int /\ nextTx \in Int /\ req[x].tx \subseteq TxRec
  BY LedgerAssumption DEF LedgerInv, Typed, ReqRec
<1>2. \A t \in req[x].tx : Dated(t) => Dated(t)' /\ t.id < nextTx
  <2> SUFFICES ASSUME NEW t \in req[x].tx, Dated(t) PROVE Dated(t)' /\ t.id < nextTx
    OBVIOUS
  <2> QED BY <1>1, DatedKeeps DEF Dated
<1>3. ASSUME req[x].op \in {"delete", "import"}
      PROVE  IsFiniteSet(req[x].tx) /\ \A t \in req[x].tx : Dated(t)' /\ t.id < nextTx /\ t.id \in Int
  BY <1>1, <1>2, <1>3, TxValues DEF Recorded
<1>4. ASSUME req[x].op = "import" PROVE \A t \in req[x].tx : t.id \notin Ids(txs')
  <2> SUFFICES ASSUME NEW t \in req[x].tx, NEW u \in txs', u.id = t.id PROVE FALSE
    BY DEF Ids
  <2>1. t.id \notin Ids(txs) /\ t.id < nextTx /\ t.id \in Int
    BY <1>1, <1>3, <1>4 DEF Recorded
  <2>2. u.id \in Ids(req[x].tx) /\ ~(u.id >= nextTx)
    BY <1>1, <2>1 DEF Ids
  <2>3. \E v \in txs : v.id = u.id
    BY <1>4, <2>2 DEF NewRows
  <2> QED BY <2>1, <2>3 DEF Ids
<1>5. ASSUME req[x].op = "delete" PROVE \A t \in req[x].tx, u \in txs' : u.id = t.id => u.at = t.at
  <2> SUFFICES ASSUME NEW t \in req[x].tx, NEW u \in txs', u.id = t.id PROVE u.at = t.at
    OBVIOUS
  <2>1. t.id < nextTx /\ t.id \in Int
    BY <1>1, <1>3, <1>5
  <2>2. u.id \in Ids(req[x].tx) /\ ~(u.id >= nextTx)
    BY <1>1, <2>1 DEF Ids
  <2>3. PICK v \in txs : v.id = u.id /\ v.at = u.at
    BY <1>5, <2>2 DEF NewRows
  <2> QED BY <1>1, <1>5, <2>3 DEF Recorded
<1>6. ASSUME req[x].op = "sell"
      PROVE \E t : req[x].tx = {t} /\ t.kind = "sell" /\ t.qty > 0 /\ 1 <= t.at /\ t.at <= AtClose(Today)'
  <2>1. PICK t : req[x].tx = {t} /\ t.kind = "sell" /\ t.qty > 0 /\ 1 <= t.at /\ t.at <= AtClose(Today)
    BY <1>1, <1>6 DEF Recorded
  <2>2. t.at \in Int
    BY <1>1, <2>1, TxValues
  <2>3. t.at <= AtClose(Today)'
    BY <1>1, <2>1, <2>2 DEF AtClose, Today, DayOf
  <2> QED BY <2>1, <2>3
<1>7. ASSUME req[x].op = "import" PROVE Ledgered(req[x].tx)
  BY <1>1, <1>7 DEF Recorded
<1>8. \A t \in req[x].tx : t.id \notin Ids(txs') => t.id \notin Ids(txs)'
  BY DEF Ids
<1> QED BY <1>3, <1>4, <1>5, <1>6, <1>7, <1>8 DEF Recorded

\* A request that is over has nothing to record.
LEMMA IdleRecorded ==
    ASSUME NEW x \in Req, req'[x] = Idle
    PROVE  Recorded(x)' /\ (\A r \in Req : Apart(x, r)' /\ Apart(r, x)')
BY IdleTyped DEF Recorded, Apart

\* Steps that leave the transactions, the lots and the requests alone.
LEMMA StillLedger ==
    ASSUME LedgerInv, UNCHANGED <<ledger, req, raced>>, now' \in 1..Last, now <= now'
    PROVE  /\ Rows' /\ (\A r \in Req : Recorded(r)' /\ AsRead(r)')
           /\ (\A r, x \in Req : Apart(r, x)') /\ Agree'
<1>1. now \in Int /\ now' \in Int /\ nextTx \in Int /\ nextTx' = nextTx /\ txs' = txs
  BY LedgerAssumption DEF LedgerInv, Typed, ledger
<1>2. Rows'
  <2>1. \A t \in txs : t \in TxRec /\ Dated(t)
    BY DEF LedgerInv, Rows, Ledgered
  <2>2. \A t \in txs : Dated(t)'
    BY <1>1, <2>1, DatedKeeps
  <2> QED BY <1>1, <2>2 DEF LedgerInv, Rows
<1>3. \A r \in Req : Recorded(r)'
  <2> SUFFICES ASSUME NEW r \in Req PROVE Recorded(r)'
    OBVIOUS
  <2>1. NewRows(r)
    BY <1>1 DEF NewRows
  <2> QED BY <1>1, <2>1, RecordedKeeps
<1>4. \A r, x \in Req : Apart(r, x)'
  BY DEF LedgerInv, Apart, Ids
<1>5. \A r \in Req : AsRead(r)'
  <2> SUFFICES ASSUME NEW r \in Req PROVE AsRead(r)'
    OBVIOUS
  <2>1. AsRead(r)
    BY DEF LedgerInv
  <2>2. After(r)' = After(r) /\ Rewriting' = Rewriting /\ req' = req /\ lots' = lots /\ nextLot' = nextLot /\ raced' = raced
    BY <1>1 DEF After, Gone, Added, Rewriting, Ids, ledger
  <2>3. Sold(r) => Sold(r)'
    BY <2>2 DEF Sold
  <2>4. Remade(r) => Remade(r)'
    BY <2>2 DEF Remade, Below
  <2> QED BY <2>1, <2>2, <2>3, <2>4 DEF AsRead
<1>6. Agree'
  BY DEF LedgerInv, Agree, Below, ledger
<1> QED BY <1>2, <1>3, <1>4, <1>5, <1>6

\* A snapshot shows what it did while the transactions stay.
LEMMA AsOfSame == ASSUME txs' = txs, NEW d PROVE AsOf(d)' = AsOf(d)
<1>1. (AsOf(d) = Past(UpTo(txs, d), d))'
  BY AsOfIs, PTL
<1>2. AsOf(d)' = Past(UpTo(txs', d), d)
  BY <1>1 DEF Past, UpTo
<1> QED BY <1>2, AsOfIs

\* Snapshots stay true while neither they nor the transactions change.
LEMMA ShownSame == ASSUME Shown, txs' = txs, snaps' = snaps, now' = now PROVE Shown'
<1>1. \A d : AsOf(d)' = AsOf(d)
  BY AsOfSame
<1> QED BY <1>1 DEF Shown

\* A new portfolio is empty.
LEMMA CreateKeeps == ASSUME LedgerInv, Create PROVE LedgerInv'
<1>1. /\ now' = now /\ UNCHANGED <<ledger, req, raced>> /\ now \in 1..Last /\ filled' = filled
      /\ snaps' = snaps /\ pf' = "open"
  BY DEF Create, history, LedgerInv, Typed
<1>2. Typed'
  BY <1>1 DEF LedgerInv, Typed, ledger, Today
<1>3. Shown'
  BY <1>1, ShownSame DEF LedgerInv, ledger
<1>4. NotYet'
  BY <1>1 DEF NotYet
<1>5. now <= now'
  BY <1>1, LedgerAssumption
<1> QED BY <1>1, <1>2, <1>3, <1>4, <1>5, StillLedger DEF LedgerInv

\* Time passes: what was dated by today still is.
LEMMA TickKeeps == ASSUME LedgerInv, Tick PROVE LedgerInv'
<1>1. /\ now' = now + 1 /\ now < Last /\ UNCHANGED <<ledger, req, raced>> /\ now \in 1..Last
      /\ filled' = filled /\ snaps' = snaps /\ pf' = pf /\ Last \in Nat
  BY LedgerAssumption DEF Tick, history, LedgerInv, Typed
<1>2. now' \in 1..Last /\ now <= now'
  BY <1>1
<1>3. Typed'
  <2>1. \A o \in Order : filled[o] > 0 => Execution[o].day <= Today'
    <3> SUFFICES ASSUME NEW o \in Order, filled[o] > 0 PROVE Execution[o].day <= Today'
      OBVIOUS
    <3>1. Execution[o].day <= Today /\ Execution[o].day \in Nat
      BY LedgerAssumption DEF LedgerInv, Typed
    <3> QED BY <1>1, <3>1 DEF Today, DayOf
  <2> QED BY <1>1, <1>2, <2>1 DEF LedgerInv, Typed, ledger
<1>4. Shown'
  <2>1. \A d : AsOf(d)' = AsOf(d)
    BY <1>1, AsOfSame DEF ledger
  <2>2. \A d \in 1..Days : 2 * d <= now => 2 * d <= now'
    BY <1>1
  <2> QED BY <1>1, <2>1, <2>2 DEF LedgerInv, Shown
<1>5. NotYet'
  BY <1>1 DEF LedgerInv, NotYet, ledger, Rewriting
<1> QED BY <1>1, <1>2, <1>3, <1>4, <1>5, StillLedger DEF LedgerInv

-----------------------------------------------------------------------------
\* The broker executes; the ledger does not know yet.
LEMMA FillKeeps == ASSUME LedgerInv, NEW o \in Order, Fill(o) PROVE LedgerInv'
<1>1. /\ now' = now /\ UNCHANGED <<ledger, req, raced>> /\ now \in 1..Last /\ snaps' = snaps /\ pf' = pf
      /\ filled' = [filled EXCEPT ![o] = @ + 1] /\ DayOf(now) = Execution[o].day
      /\ filled \in [Order -> Nat]
  BY DEF Fill, history, LedgerInv, Typed
<1>2. Typed'
  <2>1. filled' \in [Order -> Nat]
    BY <1>1
  <2>2. \A p \in Order : filled'[p] > 0 => Execution[p].day <= Today'
    <3> SUFFICES ASSUME NEW p \in Order, filled'[p] > 0 PROVE Execution[p].day <= Today'
      OBVIOUS
    <3>1. CASE p = o
      <4>1. Execution[p].day = Today' /\ Today' \in Int
        BY <1>1, <3>1, LedgerAssumption DEF Today, DayOf
      <4> QED BY <4>1
    <3>2. CASE p # o
      BY <1>1, <3>2 DEF LedgerInv, Typed, Today
    <3> QED BY <3>1, <3>2
  <2> QED BY <1>1, <2>1, <2>2 DEF LedgerInv, Typed, ledger
<1>3. Shown'
  BY <1>1, ShownSame DEF LedgerInv, ledger
<1>4. NotYet'
  BY <1>1 DEF LedgerInv, NotYet, ledger, Rewriting
<1>5. now <= now'
  BY <1>1, LedgerAssumption
<1> QED BY <1>1, <1>2, <1>3, <1>4, <1>5, StillLedger DEF LedgerInv

\* What the snapshot of a ledger without a race needs.
LEMMA NowRight ==
    ASSUME LedgerInv, ~raced
    PROVE  Sound(lots, txs) /\ Ledgered(txs) /\ \A t \in txs : t.at <= AtClose(Today)
BY DEF LedgerInv, Agree, Rows, Dated

\* The snapshot of the day shows what a replay up to its close would.
LEMMA TakeKeeps == ASSUME LedgerInv, TakeSnapshot PROVE LedgerInv'
<1>1. /\ now' = now /\ UNCHANGED <<ledger, req, raced>> /\ now \in 1..Last /\ filled' = filled
      /\ pf' = pf /\ pf = "open" /\ Snapped(Today + 1, TRUE)
  BY DEF TakeSnapshot, history, LedgerInv, Typed
<1>2. Typed'
  BY <1>1 DEF LedgerInv, Typed, ledger, Today
<1>3. Shown'
  <2>1. Today + 1 \in Int
    BY <1>1, LedgerAssumption DEF Today, DayOf
  <2>2. \A d \in 1..Days : SamePast(d)
    BY <1>1 DEF SamePast, ledger
  <2>3. ~raced' => Sound(lots', txs') /\ Ledgered(txs') /\ \A t \in txs' : t.at <= AtClose(Today)
    BY <1>1, NowRight DEF ledger
  <2>4. raced' \in BOOLEAN /\ Typed /\ Shown
    BY <1>2 DEF LedgerInv, Typed
  <2> QED BY <1>1, <2>1, <2>2, <2>3, <2>4, ShownKeeps
<1>4. NotYet'
  BY <1>1 DEF LedgerInv, NotYet, ledger, Rewriting
<1>5. now <= now'
  BY <1>1, LedgerAssumption
<1> QED BY <1>1, <1>2, <1>3, <1>4, <1>5, StillLedger DEF LedgerInv

\* A repair writes what a replay of the day shows.
LEMMA RepairKeeps == ASSUME LedgerInv, Repair PROVE LedgerInv'
<1>1. /\ now' = now /\ UNCHANGED <<ledger, req, raced>> /\ now \in 1..Last /\ filled' = filled
      /\ pf' = pf /\ pf = "open"
  BY DEF Repair, history, LedgerInv, Typed
<1>2. Typed'
  BY <1>1 DEF LedgerInv, Typed, ledger, Today
<1>3. Shown'
  <2>1. PICK d \in 1..Min({Today - 1, Days}) : snaps' = [snaps EXCEPT ![d] = AsOf(d)]
    BY DEF Repair
  <2>2. Today - 1 \in Int /\ Days \in Int
    BY <1>1, LedgerAssumption DEF Today, DayOf, Days
  <2>3. d <= Today - 1 /\ d \in 1..Days
    BY <2>1, <2>2, Lesser
  <2>4. 2 * d <= now
    BY <1>1, <2>3, LedgerAssumption DEF Today, DayOf
  <2>5. \A e : AsOf(e)' = AsOf(e)
    BY <1>1, AsOfSame DEF ledger
  <2>6. Shown
    BY DEF LedgerInv
  <2>7. \A e \in 1..Days : snaps'[e] = IF e = d THEN AsOf(d) ELSE snaps[e]
    BY <2>1, <2>6 DEF Shown
  <2>8. snaps' = [e \in 1..Days |-> snaps'[e]]
    BY <2>1, <2>6 DEF Shown
  <2> QED BY <1>1, <2>4, <2>5, <2>6, <2>7, <2>8 DEF Shown
<1>4. NotYet'
  BY <1>1 DEF LedgerInv, NotYet, ledger, Rewriting
<1>5. now <= now'
  BY <1>1, LedgerAssumption
<1> QED BY <1>1, <1>2, <1>3, <1>4, <1>5, StillLedger DEF LedgerInv

\* One rebuild fewer to wait for.
LEMMA BehindTyped ==
    ASSUME NEW q \in ReqRec, NEW r
    PROVE  LET p == [q EXCEPT !.behind = @ \ {r}]
           IN  /\ p \in ReqRec /\ p.op = q.op /\ p.tx = q.tx /\ p.held = q.held
               /\ p.made = q.made /\ p.gain = q.gain /\ p.alone = q.alone
<1> DEFINE b == q.behind \ {r}
<1>1. b \subseteq Req
  BY DEF ReqRec
<1> DEFINE p == [q EXCEPT !.behind = b]
<1> HIDE DEF b
<1>2. p \in ReqRec
  BY <1>1 DEF ReqRec
<1>3. p.op = q.op /\ p.tx = q.tx /\ p.held = q.held /\ p.made = q.made
  BY DEF ReqRec
<1>4. p.gain = q.gain /\ p.alone = q.alone
  BY DEF ReqRec
<1> QED BY <1>2, <1>3, <1>4 DEF b

\* Requests that go on with what they are to record, or are over.
GoOn(r) == \A x \in Req : IF x = r THEN req'[x] = Idle
                          ELSE req'[x].op = req[x].op /\ req'[x].tx = req[x].tx

\* Requests that go on or end share no rows if they shared none.
LEMMA ApartKeeps ==
    ASSUME LedgerInv, NEW r, GoOn(r)
    PROVE  \A x, y \in Req : Apart(x, y)'
<1> SUFFICES ASSUME NEW x \in Req, NEW y \in Req PROVE Apart(x, y)'
  OBVIOUS
<1>1. CASE x = r \/ y = r
  BY <1>1, IdleRecorded DEF GoOn
<1>2. CASE x # r /\ y # r
  <2>1. /\ req'[x].op = req[x].op /\ req'[x].tx = req[x].tx
        /\ req'[y].op = req[y].op /\ req'[y].tx = req[y].tx
    BY <1>2 DEF GoOn
  <2>2. Apart(x, y)
    BY DEF LedgerInv
  <2> QED BY <2>1, <2>2 DEF Apart, Ids
<1> QED BY <1>1, <1>2

\* The requests in flight are those that rewrite lots.
LEMMA RewritingIs == ASSUME NEW r \in Req, Typed PROVE r \in Rewriting <=> req[r].op # "idle"
BY DEF Rewriting, Typed, ReqRec

\* A request that fails leaves nothing behind.
LEMMA FailKeeps == ASSUME LedgerInv, NEW r \in Req, Fail(r) PROVE LedgerInv'
<1>1. /\ now' = now /\ UNCHANGED <<ledger, raced>> /\ now \in 1..Last /\ filled' = filled
      /\ snaps' = snaps /\ pf' = pf /\ req \in [Req -> ReqRec] /\ r \in Rewriting
      /\ req' = [x \in Req |-> IF x = r THEN Idle ELSE [req[x] EXCEPT !.behind = @ \ {r}]]
      /\ txs' = txs /\ nextTx' = nextTx /\ nextTx \in Int /\ now \in Int /\ now <= now'
  BY LedgerAssumption DEF Fail, history, LedgerInv, Typed, Rewriting, ledger
<1>2. \A x \in Req \ {r} : /\ req'[x] \in ReqRec /\ req'[x].op = req[x].op /\ req'[x].tx = req[x].tx
                           /\ req'[x].alone = req[x].alone
  BY <1>1, BehindTyped
<1>3. req' \in [Req -> ReqRec] /\ req'[r] = Idle
  <2>1. \A x \in Req : req'[x] \in ReqRec
    BY <1>1, <1>2, IdleTyped
  <2> QED BY <1>1, <2>1
<1>4. Typed'
  BY <1>1, <1>3 DEF LedgerInv, Typed, ledger, Today
<1>5. Shown'
  BY <1>1, ShownSame DEF LedgerInv
<1>6. Rewriting' \subseteq Rewriting \ {r}
  <2> SUFFICES ASSUME NEW x \in Rewriting' PROVE x \in Rewriting \ {r}
    OBVIOUS
  <2>1. x \in Req /\ req'[x].op \in {"sell", "delete", "import"}
    BY DEF Rewriting
  <2>2. x # r
    BY <1>3, <2>1, IdleTyped
  <2> QED BY <1>2, <2>1, <2>2 DEF Rewriting
<1>7. NotYet'
  BY <1>1, <1>6 DEF LedgerInv, NotYet, ledger
<1>8. \A x \in Req : Recorded(x)'
  <2> SUFFICES ASSUME NEW x \in Req PROVE Recorded(x)'
    OBVIOUS
  <2>1. CASE x = r
    BY <1>3, <2>1, IdleRecorded
  <2>2. CASE x # r
    <3>1. NewRows(x)
      BY <1>1 DEF NewRows
    <3> QED BY <1>1, <1>2, <2>2, <3>1, RecordedKeeps
  <2> QED BY <2>1, <2>2
<1>9. \A x, y \in Req : Apart(x, y)'
  BY <1>2, <1>3, ApartKeeps DEF GoOn
<1>10. \A x \in Req : AsRead(x)'
  <2> SUFFICES ASSUME NEW x \in Req, x \in Rewriting', req'[x].alone PROVE FALSE
    BY DEF AsRead
  <2>1. x \in Rewriting /\ x # r /\ req[x].alone
    BY <1>2, <1>6 DEF Rewriting
  <2>2. Rewriting = {x}
    BY <2>1 DEF LedgerInv, AsRead
  <2> QED BY <1>1, <2>1, <2>2
<1>11. Rows' /\ Agree'
  BY <1>1 DEF LedgerInv, Rows, Dated, Today, Agree, Below, ledger
<1> QED BY <1>4, <1>5, <1>7, <1>8, <1>9, <1>10, <1>11 DEF LedgerInv

\* Deletion takes all rows and ends all requests.
LEMMA DeletePortfolioKeeps == ASSUME LedgerInv, DeletePortfolio PROVE LedgerInv'
<1>1. /\ now' = now /\ raced' = raced /\ now \in 1..Last /\ filled' = filled
      /\ snaps' = [d \in 1..Days |-> NoSnap] /\ pf' = "deleted"
      /\ req' = [x \in Req |-> Idle] /\ txs' = {} /\ lots' = {}
      /\ nextTx' = nextTx /\ nextLot' = nextLot
  BY DEF DeletePortfolio, history, LedgerInv, Typed
<1>2. \A x \in Req : req'[x] = Idle
  BY <1>1
<1>3. Typed'
  <2>1. req' \in [Req -> ReqRec]
    BY <1>1, IdleTyped
  <2> QED BY <1>1, <2>1 DEF LedgerInv, Typed, Today
<1>4. \A x \in Req : Recorded(x)' /\ \A y \in Req : Apart(x, y)'
  BY <1>2, IdleRecorded
<1>5. Rewriting' = {}
  BY <1>2, IdleTyped DEF Rewriting
<1>6. \A x \in Req : AsRead(x)'
  BY <1>5 DEF AsRead
<1>7. Rows' /\ Agree'
  BY <1>1, NothingKept DEF Rows, Agree, Below, Sound
<1>8. Shown'
  <2>1. snaps' = [d \in 1..Days |-> snaps'[d]]
    BY <1>1
  <2>2. \A d \in 1..Days : snaps'[d] = NoSnap
    BY <1>1
  <2> QED BY <2>1, <2>2 DEF Shown
<1>9. NotYet'
  BY <1>1, <1>5 DEF NotYet
<1> QED BY <1>3, <1>4, <1>6, <1>7, <1>8, <1>9 DEF LedgerInv

-----------------------------------------------------------------------------
(* Requests begin. *)

\* A request told that it is alone, or not, is the same request.
LEMMA AloneTyped ==
    ASSUME NEW q \in ReqRec, NEW b \in BOOLEAN
    PROVE  LET p == [q EXCEPT !.alone = b]
           IN  /\ p \in ReqRec /\ p.op = q.op /\ p.tx = q.tx /\ p.held = q.held
               /\ p.made = q.made /\ p.gain = q.gain /\ p.alone = b
<1> DEFINE p == [q EXCEPT !.alone = b]
<1>1. p \in ReqRec
  BY DEF ReqRec
<1>2. p.op = q.op /\ p.tx = q.tx /\ p.held = q.held /\ p.made = q.made
  BY DEF ReqRec
<1>3. p.gain = q.gain /\ p.alone = b
  BY DEF ReqRec
<1> QED BY <1>1, <1>2, <1>3

\* A request that begins, and what it does to those in flight.
Starts(r, q) ==
    /\ req' \in [Req -> ReqRec]
    /\ req'[r].op = q.op /\ req'[r].tx = q.tx /\ req'[r].held = q.held
    /\ req'[r].made = q.made /\ req'[r].gain = q.gain
    /\ req'[r].alone => Rewriting = {} /\ Rewriting' = {r}
    /\ \A x \in Req \ {r} : req'[x].op = req[x].op /\ req'[x].tx = req[x].tx
    /\ \A x \in Rewriting' \ {r} : ~req'[x].alone

\* A request that has begun is alone only if no other is in flight.
LEMMA BegunStarts ==
    ASSUME LedgerInv, NEW r \in Req, req[r] = Idle,
           NEW q \in ReqRec, q.op \in {"sell", "delete", "import"}, Begun(r, q)
    PROVE  Starts(r, q)
<1> DEFINE b == Rewriting = {}
           p == [q EXCEPT !.alone = b]
           D == Disturb(Req)
<1>1. /\ p \in ReqRec /\ p.op = q.op /\ p.tx = q.tx /\ p.held = q.held
      /\ p.made = q.made /\ p.gain = q.gain /\ p.alone = b
  <2>1. b \in BOOLEAN
    OBVIOUS
  <2> HIDE DEF b
  <2> QED BY <2>1, AloneTyped
<1>2. req' = [x \in Req |-> IF x = r THEN p ELSE D[x]]
  BY DEF Begun
<1>3. /\ D \in [Req -> ReqRec]
      /\ \A x \in Req : /\ D[x].op = req[x].op /\ D[x].tx = req[x].tx
                        /\ x \in Rewriting => D[x].alone = FALSE
  BY DisturbTyped DEF LedgerInv, Typed
<1> HIDE DEF p, D
<1>4. req'[r] = p /\ \A x \in Req \ {r} : req'[x] = D[x]
  BY <1>2
<1>5. req' \in [Req -> ReqRec]
  BY <1>1, <1>2, <1>3
<1>6. \A x \in Req \ {r} : x \in Rewriting' <=> x \in Rewriting
  BY <1>3, <1>4 DEF Rewriting
<1>7. r \in Rewriting'
  BY <1>1, <1>4 DEF Rewriting
<1>8. \A x \in Rewriting' \ {r} : ~req'[x].alone
  <2> SUFFICES ASSUME NEW x \in Rewriting' \ {r} PROVE ~req'[x].alone
    OBVIOUS
  <2>1. x \in Req \ {r}
    BY DEF Rewriting
  <2>2. x \in Rewriting
    BY <1>6, <2>1
  <2> QED BY <1>3, <1>4, <2>1, <2>2
<1>9. Rewriting' \subseteq Req
  BY DEF Rewriting
<1>10. b => Rewriting' = {r}
  BY <1>6, <1>7, <1>9
<1>11. req'[r].alone = b
  BY <1>1, <1>4
<1> QED BY <1>1, <1>3, <1>4, <1>5, <1>8, <1>10, <1>11 DEF Starts

\* It leaves the invariant if it is right itself.
LEMMA StartKeeps ==
    ASSUME LedgerInv, NEW r \in Req, pf = "open", NEW q, Starts(r, q),
           UNCHANGED <<now, pf, txs, lots, filled, snaps, raced>>,
           nextTx' \in Nat, nextTx <= nextTx', nextLot' \in Nat, nextLot <= nextLot',
           Recorded(r)', \A x \in Req : Apart(r, x)' /\ Apart(x, r)',
           req'[r].alone => AsRead(r)'
    PROVE  LedgerInv'
<1>1. /\ now' = now /\ txs' = txs /\ lots' = lots /\ raced' = raced /\ now \in Int /\ now <= now'
      /\ nextTx \in Nat \ {0} /\ nextLot \in Nat \ {0} /\ nextTx' \in Int
  BY LedgerAssumption DEF LedgerInv, Typed
<1>2. /\ req' \in [Req -> ReqRec]
      /\ \A x \in Req \ {r} : req'[x].op = req[x].op /\ req'[x].tx = req[x].tx
      /\ \A x \in Rewriting' \ {r} : ~req'[x].alone
  BY DEF Starts
<1>3. Typed'
  BY <1>1, <1>2 DEF LedgerInv, Typed, Today
<1>4. Rows'
  <2>1. \A t \in txs : t \in TxRec /\ Dated(t)
    BY DEF LedgerInv, Rows, Ledgered
  <2>2. \A t \in txs : Dated(t)'
    BY <1>1, <2>1, DatedKeeps
  <2> QED BY <1>1, <2>2 DEF LedgerInv, Rows
<1>5. \A x \in Req : Recorded(x)'
  <2> SUFFICES ASSUME NEW x \in Req \ {r} PROVE Recorded(x)'
    OBVIOUS
  <2>1. NewRows(x)
    BY <1>1 DEF NewRows
  <2> QED BY <1>1, <1>2, <2>1, RecordedKeeps
<1>6. \A x, y \in Req : Apart(x, y)'
  <2> SUFFICES ASSUME NEW x \in Req \ {r}, NEW y \in Req \ {r} PROVE Apart(x, y)'
    OBVIOUS
  <2>1. /\ req'[x].op = req[x].op /\ req'[x].tx = req[x].tx
        /\ req'[y].op = req[y].op /\ req'[y].tx = req[y].tx
    BY <1>2
  <2>2. Apart(x, y)
    BY DEF LedgerInv
  <2> QED BY <2>1, <2>2 DEF Apart, Ids
<1>7. \A x \in Req : AsRead(x)'
  <2> SUFFICES ASSUME NEW x \in Req, x \in Rewriting', req'[x].alone PROVE AsRead(x)'
    BY DEF AsRead
  <2> QED BY <1>2
<1>8. Agree'
  BY <1>1 DEF LedgerInv, Agree, Below, Sound, Position, LotRec
<1>9. Shown'
  BY <1>1, ShownSame DEF LedgerInv
<1>10. NotYet'
  BY DEF NotYet
<1> QED BY <1>3, <1>4, <1>5, <1>6, <1>7, <1>8, <1>9, <1>10 DEF LedgerInv

\* A sell computes from the lots it reads what a sale of now would.
LEMMA BeginSellKeeps == ASSUME LedgerInv, NEW r \in Req, BeginSell(r) PROVE LedgerInv'
<1>1. /\ pf = "open" /\ req[r] = Idle /\ ~raced
      /\ UNCHANGED <<now, pf, txs, lots, filled, snaps, raced>> /\ nextTx' = nextTx /\ nextLot' = nextLot
      /\ nextTx \in Nat /\ nextLot \in Nat /\ now \in 1..Last /\ lots \subseteq LotRec
      /\ Sound(lots, txs)
  BY DEF BeginSell, Explored, ledger, history, LedgerInv, Typed, Agree
<1>2. PICK s \in {x \in Trades : x.kind = "sell"}, at \in {d \in Dates : d <= now} :
        LET t == [NewTx("sell", s.qty, s.price, at, s.tag) EXCEPT !.id = 0]
            sale == Sale(lots, t, {})
        IN  /\ t.qty <= sale.held
            /\ Begun(r, [Idle EXCEPT !.op = "sell", !.held = lots, !.made = sale.lots,
                                     !.tx = {[t EXCEPT !.realized = sale.realized]}])
  BY DEF BeginSell
<1> DEFINE n == NewTx("sell", s.qty, s.price, at, s.tag)
           t == [n EXCEPT !.id = 0]
           sale == Sale(lots, t, {})
           v == [t EXCEPT !.realized = sale.realized]
           q == [Idle EXCEPT !.op = "sell", !.held = lots, !.made = sale.lots, !.tx = {v}]
<1>3. /\ s.qty \in Nat \ {0} /\ s.price \in Nat /\ s.tag \in AnyTag
      /\ at \in Int /\ 1 <= at /\ at <= now
  BY LedgerAssumption DEF AnyTag
<1>4. n = [id |-> nextTx, kind |-> "sell", qty |-> s.qty, price |-> s.price, at |-> at,
           tag |-> s.tag, ref |-> NoRef, realized |-> 0]
  BY DEF NewTx
<1>5. t.qty = s.qty /\ t.price = s.price /\ t.at = at
  BY <1>4
<1>6. Position(sale.lots) /\ sale.realized \in Int
  <2>1. Position(lots) /\ Ordered(t)
    BY <1>1, <1>3, <1>5 DEF Sound, Ordered
  <2> QED BY <2>1, SaleTyped
<1>7. /\ v \in TxRec /\ v.kind = "sell" /\ v.qty = s.qty /\ v.price = s.price /\ v.at = at
      /\ v.realized = sale.realized
  <2> DEFINE p == sale.realized
  <2>1. p \in Int
    BY <1>6
  <2> HIDE DEF p
  <2>2. v = [id |-> 0, kind |-> "sell", qty |-> s.qty, price |-> s.price, at |-> at,
             tag |-> s.tag, ref |-> NoRef, realized |-> p]
    <3>1. t = [id |-> 0, kind |-> "sell", qty |-> s.qty, price |-> s.price, at |-> at,
               tag |-> s.tag, ref |-> NoRef, realized |-> 0]
      BY <1>4
    <3>2. v = [t EXCEPT !.realized = p]
      BY DEF p
    <3> HIDE DEF t, v
    <3> QED BY <3>1, <3>2
  <2>3. p = sale.realized
    BY DEF p
  <2> HIDE DEF v, sale
  <2>4. NoRef \in Int /\ 0 \in Int /\ s.qty \in Nat /\ "sell" \in Kinds
    BY <1>3 DEF NoRef, Kinds
  <2>5. v \in TxRec
    BY <1>3, <2>1, <2>2, <2>4 DEF TxRec
  <2>6. v.kind = "sell" /\ v.qty = s.qty /\ v.price = s.price /\ v.at = at /\ v.realized = p
    BY <2>2
  <2> QED BY <2>3, <2>5, <2>6
<1>8. /\ Sale(lots, v, {}).lots = sale.lots /\ Sale(lots, v, {}).held = sale.held
      /\ Sale(lots, v, {}).realized = sale.realized
  <2>1. v.at = t.at /\ v.price = t.price /\ v.qty = t.qty
    BY <1>5, <1>7
  <2> HIDE DEF v, t
  <2> QED BY <2>1, SaleSame
<1>9. t.qty <= sale.held /\ Begun(r, q)
  BY <1>2
<1> DEFINE made == sale.lots
           gain == sale.realized
           held == sale.held
<1>10. /\ made \subseteq LotRec /\ v.qty <= held /\ v.realized = gain
       /\ Sale(lots, v, {}).lots = made /\ Sale(lots, v, {}).held = held
       /\ Sale(lots, v, {}).realized = gain
  BY <1>5, <1>6, <1>7, <1>8, <1>9 DEF Position
<1> DEFINE w == [Idle EXCEPT !.op = "sell", !.held = lots, !.made = made, !.tx = {v}]
<1>11. Begun(r, w)
  BY <1>9
<1> HIDE DEF v, t, sale, made, gain, held
<1>12. w \in ReqRec /\ w.op = "sell" /\ w.held = lots /\ w.made = made /\ w.tx = {v}
  BY <1>1, <1>7, <1>10 DEF Idle, ReqRec
<1>13. Starts(r, w)
  BY <1>1, <1>11, <1>12, BegunStarts
<1>14. /\ req'[r].op = "sell" /\ req'[r].held = lots /\ req'[r].made = made /\ req'[r].tx = {v}
       /\ req'[r].alone => Rewriting' = {r}
  BY <1>12, <1>13 DEF Starts
<1>15. Recorded(r)'
  <2>1. v.at <= AtClose(Today)'
    BY <1>1, <1>3, <1>7 DEF AtClose, Today, DayOf
  <2>2. v.qty > 0 /\ 1 <= v.at
    BY <1>3, <1>7
  <2> QED BY <1>7, <1>14, <2>1, <2>2 DEF Recorded
<1>16. \A x \in Req : Apart(r, x)' /\ Apart(x, r)'
  BY <1>14 DEF Apart
<1>17. AsRead(r)' \/ ~req'[r].alone
  <2>1. Sold(r)'
    BY <1>1, <1>10, <1>14 DEF Sold
  <2> QED BY <1>1, <1>14, <2>1 DEF AsRead
<1>18. nextTx <= nextTx' /\ nextLot <= nextLot'
  BY <1>1
<1> QED BY <1>1, <1>13, <1>15, <1>16, <1>17, <1>18, StartKeeps

-----------------------------------------------------------------------------
\* A rebuild as it begins: what it makes agrees with the transactions it replays.
Begins(r, q, op, tx, T) ==
    /\ q \in ReqRec /\ q.op = op /\ q.tx = tx /\ q.held = lots /\ Starts(r, q)
    /\ nextLot' \in Nat /\ nextLot <= nextLot'
    /\ \A l \in q.made : l.id < nextLot'
    /\ Sound(q.made, Revalued(T, q.gain))
    /\ q.made = Replay(T, nextLot).lots /\ q.gain = Regained(T, Replay(T, nextLot).gain)

\* A rebuild that begins makes lots that agree with the transactions it read, and gives
\* them numbers of their own.
LEMMA RebuildStarts ==
    ASSUME LedgerInv, NEW r \in Req, req[r] = Idle, NEW op \in {"delete", "import"},
           NEW tx, tx \subseteq TxRec, NEW T, Ledgered(T), BeginRebuild(r, op, tx, T)
    PROVE  \E q : Begins(r, q, op, tx, T)
<1> DEFINE done == Replay(T, nextLot)
           gain == Regained(T, done.gain)
           made == done.lots
           wait == {x \in Req : /\ req[x].op \in {"delete", "import"}
                                /\ Ids(req[x].held) \cap Ids(lots) # {}}
           q == [Idle EXCEPT !.op = op, !.tx = tx, !.held = lots, !.made = made,
                             !.gain = gain, !.behind = wait]
<1>1. done.ok /\ nextLot' = done.next /\ Begun(r, q)
  BY DEF BeginRebuild
<1>2. nextLot \in Nat /\ lots \subseteq LotRec
  BY DEF LedgerInv, Typed
<1>3. /\ done \in ReplayRec /\ nextLot <= done.next /\ done.sellsOk
      /\ Position(made) /\ Gains(gain)
      /\ \A l \in made : l.id < done.next
      /\ Sound(made, Revalued(T, gain))
  BY <1>1, <1>2, ReplayGives
<1>4. made \subseteq LotRec /\ gain \subseteq Int \X Int /\ wait \subseteq Req
  BY <1>3 DEF Position, Gains
<1>5. nextLot' \in Nat
  BY <1>1, <1>2, <1>3 DEF ReplayRec
<1>9. made = Replay(T, nextLot).lots /\ gain = Regained(T, Replay(T, nextLot).gain)
  OBVIOUS
<1> HIDE DEF done, gain, made, wait
<1>6. q \in ReqRec /\ q.op = op /\ q.tx = tx /\ q.held = lots /\ q.made = made /\ q.gain = gain
  BY <1>2, <1>4 DEF Idle, ReqRec
<1> HIDE DEF q
<1>7. Starts(r, q)
  BY <1>1, <1>6, BegunStarts
<1>8. Begins(r, q, op, tx, T)
  BY <1>1, <1>3, <1>5, <1>6, <1>7, <1>9 DEF Begins
<1> QED BY <1>8

\* It leaves the invariant.
LEMMA RebuildKeeps ==
    ASSUME LedgerInv, NEW r \in Req, pf = "open", NEW op \in {"delete", "import"},
           NEW tx, NEW T, Ledgered(T), NEW q, Begins(r, q, op, tx, T),
           UNCHANGED <<now, pf, txs, lots, filled, snaps, raced>>,
           nextTx' \in Nat, nextTx <= nextTx',
           Recorded(r)', \A x \in Req : Apart(r, x)' /\ Apart(x, r)',
           After(r)' = T
    PROVE  LedgerInv'
<1>1. /\ Starts(r, q) /\ q.op = op /\ q.held = lots
      /\ nextLot' \in Nat /\ nextLot <= nextLot'
  BY DEF Begins
<1>2. /\ req'[r].op = op /\ req'[r].held = lots /\ req'[r].made = q.made /\ req'[r].gain = q.gain
      /\ req'[r].alone => Rewriting' = {r}
  BY <1>1 DEF Starts
<1>3. req'[r].alone => AsRead(r)'
  <2>1. Remade(r)'
    <3>1. \A l \in req'[r].made : l.id < nextLot'
      BY <1>2 DEF Begins
    <3>2. Sound(req'[r].made, Revalued(After(r)', req'[r].gain))
      BY <1>2 DEF Begins
    <3> QED BY <3>1, <3>2 DEF Remade, Below
  <2> QED BY <1>2, <2>1 DEF AsRead
<1> QED BY <1>1, <1>3, StartKeeps

\* A deletion replays all but one transaction.
Deletes(r, t, q) == /\ t \in txs /\ Begins(r, q, "delete", {t}, txs \ {t})
                    /\ Ledgered(txs \ {t}) /\ After(r)' = txs \ {t}

\* A deletion that begins, in these terms.
LEMMA DeleteBegins ==
    ASSUME LedgerInv, NEW r \in Req, BeginDelete(r)
    PROVE  \E t, q : Deletes(r, t, q)
<1>1. req[r] = Idle /\ txs' = txs
  BY DEF BeginDelete
<1>2. PICK t \in txs : BeginRebuild(r, "delete", {t}, txs \ {t})
  BY DEF BeginDelete
<1>3. Ledgered(txs) /\ t \in TxRec
  BY DEF LedgerInv, Rows, Ledgered
<1>4. Ledgered(txs \ {t}) /\ {t} \subseteq TxRec
  BY <1>3, LedgeredPart
<1>5. PICK q : Begins(r, q, "delete", {t}, txs \ {t})
  BY <1>1, <1>2, <1>4, RebuildStarts
<1>6. req'[r].op = "delete" /\ req'[r].tx = {t}
  BY <1>5 DEF Begins, Starts
<1>7. \A u \in txs : u.id = t.id => u = t
  BY <1>3 DEF Ledgered, Distinct
<1>8. After(r)' = txs \ {t}
  <2>1. Gone(r)' = {t.id} /\ Added(r)' = {}
    BY <1>6 DEF Gone, Added, Ids
  <2>2. After(r)' = {u \in txs : u.id \notin {t.id}}
    BY <1>1, <2>1 DEF After
  <2> QED BY <1>7, <2>2
<1> QED BY <1>4, <1>5, <1>8 DEF Deletes

\* It keeps the invariant.
LEMMA BeginDeleteKeeps == ASSUME LedgerInv, NEW r \in Req, BeginDelete(r) PROVE LedgerInv'
<1>1. /\ pf = "open" /\ req[r] = Idle /\ UNCHANGED <<now, pf, txs, lots, filled, snaps, raced>>
      /\ nextTx' = nextTx /\ nextTx \in Nat
  BY DEF BeginDelete, ledger, history, LedgerInv, Typed
<1>2. PICK t, q : Deletes(r, t, q)
  BY DeleteBegins
<1>3. Ledgered(txs) /\ Dated(t) /\ t \in TxRec
  BY <1>2 DEF LedgerInv, Rows, Ledgered, Deletes
<1>4. Ledgered(txs \ {t})
  BY <1>2 DEF Deletes
<1>5. Begins(r, q, "delete", {t}, txs \ {t})
  BY <1>2 DEF Deletes
<1>6. /\ req'[r].op = "delete" /\ req'[r].tx = {t}
      /\ \A x \in Req \ {r} : req'[x].op = req[x].op /\ req'[x].tx = req[x].tx
  BY <1>5 DEF Begins, Starts
<1>7. t \in txs /\ \A u \in txs : u.id = t.id => u = t
  BY <1>2, <1>3 DEF Ledgered, Distinct, Deletes
<1>8. Recorded(r)'
  <2>1. IsFiniteSet({t})
    BY FS_Singleton
  <2>2. Dated(t)'
    BY <1>1, <1>3 DEF Dated, Today
  <2> QED BY <1>1, <1>6, <1>7, <2>1, <2>2 DEF Recorded
<1>9. \A x \in Req : Apart(r, x)' /\ Apart(x, r)'
  <2> SUFFICES ASSUME NEW x \in Req \ {r} PROVE Apart(r, x)' /\ Apart(x, r)'
    BY DEF Apart
  <2>1. Apart(x, r)'
    BY <1>6 DEF Apart
  <2>2. ASSUME req[x].op = "import" PROVE t.id \notin Ids(req[x].tx)
    BY <1>7, <2>2 DEF LedgerInv, Recorded, Ids
  <2>3. Ids({t}) = {t.id}
    BY DEF Ids
  <2>4. Apart(r, x)'
    <3> SUFFICES ASSUME req'[x].op = "import" PROVE Ids({t}) \cap Ids(req[x].tx) = {}
      BY <1>6 DEF Apart, Ids
    <3> QED BY <1>6, <2>2, <2>3
  <2> QED BY <2>1, <2>4
<1>10. After(r)' = txs \ {t}
  BY <1>2 DEF Deletes
<1>11. nextTx' \in Nat /\ nextTx <= nextTx'
  BY <1>1
<1> QED BY <1>1, <1>4, <1>5, <1>8, <1>9, <1>10, <1>11, RebuildKeeps

\* The rows of an import: numbers of their own, given out now.
LEMMA ImportedRows ==
    ASSUME LedgerInv
    PROVE  LET new == {Imported(o) : o \in Unknown}
           IN  /\ Ledgered(new) /\ Cardinality(Unknown) \in Nat
               /\ \A t \in new : /\ nextTx <= t.id /\ t.id < nextTx + Cardinality(Unknown)
                                 /\ 1 <= t.at /\ t.at <= AtClose(Today)
<1> DEFINE new == {Imported(o) : o \in Unknown}
           sooner(o) == {p \in Unknown : p < o}
           number == [o \in Unknown |-> Imported(o)]
<1>1. /\ Unknown \subseteq Order /\ Order \subseteq Nat /\ IsFiniteSet(Unknown) /\ nextTx \in Nat
      /\ now \in Int /\ Cardinality(Unknown) \in Nat
  <2>1. Unknown \subseteq Order /\ IsFiniteSet(Order)
    BY LedgerAssumption DEF Unknown
  <2>2. IsFiniteSet(Unknown)
    BY <2>1, FS_Subset
  <2>3. Cardinality(Unknown) \in Nat
    BY <2>2, FS_CardinalityType
  <2>4. Order \subseteq Nat /\ now \in Int /\ nextTx \in Nat
    BY LedgerAssumption DEF LedgerInv, Typed
  <2> QED BY <2>1, <2>2, <2>3, <2>4
<1>2. \A o \in Unknown : /\ filled[o] \in Nat /\ filled[o] > 0
                         /\ Execution[o].day \in Nat \ {0} /\ Execution[o].day <= Today
  BY <1>1, LedgerAssumption DEF Unknown, LedgerInv, Typed
<1>3. \A o \in Unknown : /\ Cardinality(sooner(o)) \in Nat
                         /\ Cardinality(sooner(o)) < Cardinality(Unknown)
                         /\ IsFiniteSet(sooner(o))
  <2> SUFFICES ASSUME NEW o \in Unknown
               PROVE  /\ Cardinality(sooner(o)) \in Nat /\ Cardinality(sooner(o)) < Cardinality(Unknown)
                      /\ IsFiniteSet(sooner(o))
    OBVIOUS
  <2>1. sooner(o) \subseteq Unknown /\ o \notin sooner(o) /\ sooner(o) # Unknown
    BY <1>1
  <2>2. IsFiniteSet(sooner(o)) /\ Cardinality(sooner(o)) <= Cardinality(Unknown)
        /\ (Cardinality(sooner(o)) = Cardinality(Unknown) => sooner(o) = Unknown)
    BY <1>1, <2>1, FS_Subset
  <2>3. Cardinality(sooner(o)) \in Nat
    BY <2>2, FS_CardinalityType
  <2> QED BY <1>1, <2>1, <2>2, <2>3
<1>4. \A o, p \in Unknown : o < p => Cardinality(sooner(o)) < Cardinality(sooner(p))
  <2> SUFFICES ASSUME NEW o \in Unknown, NEW p \in Unknown, o < p
               PROVE  Cardinality(sooner(o)) < Cardinality(sooner(p))
    OBVIOUS
  <2>0. o \in Int /\ p \in Int /\ \A x \in Unknown : x \in Int
    BY <1>1
  <2>1. sooner(o) \subseteq sooner(p) /\ o \in sooner(p) /\ o \notin sooner(o)
    <3>1. \A x \in sooner(o) : x \in Unknown /\ x < o /\ x \in Int
      BY <2>0
    <3>2. \A x \in sooner(o) : x < p
      BY <2>0, <3>1
    <3>3. ~(o < o)
      BY <2>0
    <3> QED BY <3>1, <3>2, <3>3
  <2>2. Cardinality(sooner(o)) <= Cardinality(sooner(p))
        /\ (Cardinality(sooner(o)) = Cardinality(sooner(p)) => sooner(o) = sooner(p))
    BY <1>3, <2>1, FS_Subset
  <2> HIDE DEF sooner
  <2> QED BY <1>3, <2>1, <2>2
<1>5. \A o \in Unknown : /\ Imported(o).id = nextTx + Cardinality(sooner(o))
                         /\ Imported(o).qty = filled[o] /\ Imported(o).at = 2 * Execution[o].day
  BY DEF Imported, AtClose
<1>6. \A o \in Unknown : Imported(o) \in TxRec
  <2> SUFFICES ASSUME NEW o \in Unknown PROVE Imported(o) \in TxRec
    OBVIOUS
  <2>1. /\ Execution[o].kind \in Kinds /\ Execution[o].price \in Nat /\ Execution[o].tag \in AnyTag
    <3>1. o \in Order
      BY <1>1
    <3> QED BY <3>1, LedgerAssumption DEF Kinds, AnyTag
  <2>2. o \in Int /\ 2 * Execution[o].day \in Int /\ nextTx + Cardinality(sooner(o)) \in Int
    <3>1. Cardinality(sooner(o)) \in Nat
      BY <1>3
    <3> HIDE DEF sooner
    <3> QED BY <1>1, <1>2, <3>1
  <2> QED BY <1>2, <2>1, <2>2 DEF TxRec, Imported, AtClose, NoRef
<1>7. \A o, p \in Unknown : Imported(o).id = Imported(p).id => o = p
  <2> SUFFICES ASSUME NEW o \in Unknown, NEW p \in Unknown, Imported(o).id = Imported(p).id, o # p
               PROVE  FALSE
    OBVIOUS
  <2>1. o < p \/ p < o
    BY <1>1
  <2>2. Cardinality(sooner(o)) = Cardinality(sooner(p))
    <3> HIDE DEF sooner
    <3> QED BY <1>1, <1>3, <1>5
  <2> HIDE DEF sooner
  <2> QED BY <1>3, <1>4, <2>1, <2>2
<1>8. Ledgered(new)
  <2>1. new = {number[o] : o \in Unknown}
    OBVIOUS
  <2>2. IsFiniteSet(new)
    <3> HIDE DEF number, new
    <3> QED BY <1>1, <2>1, ImageFinite
  <2>3. Distinct(new)
    BY <1>7 DEF Distinct
  <2>4. \A t \in new : t.qty > 0
    BY <1>2, <1>5
  <2> QED BY <1>6, <2>2, <2>3, <2>4 DEF Ledgered
<1>9. \A o \in Unknown : /\ nextTx <= Imported(o).id /\ Imported(o).id < nextTx + Cardinality(Unknown)
                         /\ 1 <= Imported(o).at /\ Imported(o).at <= AtClose(Today)
  <2> SUFFICES ASSUME NEW o \in Unknown
               PROVE  /\ nextTx <= Imported(o).id /\ Imported(o).id < nextTx + Cardinality(Unknown)
                      /\ 1 <= Imported(o).at /\ Imported(o).at <= AtClose(Today)
    OBVIOUS
  <2>1. nextTx <= Imported(o).id /\ Imported(o).id < nextTx + Cardinality(Unknown)
    <3>1. PICK c \in Nat : c = Cardinality(sooner(o)) /\ c < Cardinality(Unknown)
      BY <1>3
    <3>2. Imported(o).id = nextTx + c
      BY <1>5, <3>1
    <3>3. PICK n \in Nat, m \in Nat : n = nextTx /\ m = Cardinality(Unknown)
      BY <1>1
    <3>4. n <= n + c /\ n + c < n + m
      BY <3>1, <3>3
    <3>5. Imported(o).id = n + c /\ nextTx + Cardinality(Unknown) = n + m
      BY <3>2, <3>3
    <3>6. nextTx <= n + c /\ n + c < nextTx + Cardinality(Unknown)
      <4> HIDE DEF sooner, number, new
      <4> QED BY <3>3, <3>4, <3>5
    <3> HIDE DEF sooner, number, new
    <3> QED BY <3>5, <3>6, Zenon
  <2>2. Today \in Int
    BY <1>1 DEF Today, DayOf
  <2>3. Imported(o).at = 2 * Execution[o].day
    BY <1>5
  <2>4. Execution[o].day \in Nat /\ 1 <= Execution[o].day /\ Execution[o].day <= Today
    BY <1>2
  <2>5. 1 <= 2 * Execution[o].day /\ 2 * Execution[o].day <= AtClose(Today)
    <3> HIDE DEF sooner, number, new
    <3> QED BY <2>2, <2>4 DEF AtClose
  <2>6. 1 <= Imported(o).at /\ Imported(o).at <= AtClose(Today)
    <3> HIDE DEF sooner, number, new
    <3> QED BY <2>3, <2>5, Zenon
  <2> QED BY <2>1, <2>6, Zenon
<1>10. \A t \in new : /\ nextTx <= t.id /\ t.id < nextTx + Cardinality(Unknown)
                      /\ 1 <= t.at /\ t.at <= AtClose(Today)
  BY <1>9
<1> QED BY <1>1, <1>8, <1>10

\* An import replays all it has and what it adds.
Imports(r, q) ==
    LET new == {Imported(o) : o \in Unknown}
    IN  /\ Begins(r, q, "import", new, txs \cup new) /\ Ledgered(txs \cup new) /\ Ledgered(new)
        /\ After(r)' = txs \cup new
        /\ \A t \in new : t \in TxRec /\ t.id \in Int /\ t.id \notin Ids(txs)

\* An import that begins, in these terms.
LEMMA ImportBegins ==
    ASSUME LedgerInv, NEW r \in Req, BeginImport(r)
    PROVE  \E q : Imports(r, q)
<1> DEFINE new == {Imported(o) : o \in Unknown}
<1>1. /\ req[r] = Idle /\ txs' = txs /\ nextTx \in Int
      /\ BeginRebuild(r, "import", new, txs \cup new)
  BY DEF BeginImport, LedgerInv, Typed
<1>2. Ledgered(new) /\ \A t \in new : nextTx <= t.id
  BY ImportedRows
<1> HIDE DEF new
<1>3. Ledgered(txs) /\ \A t \in txs : t.id < nextTx /\ t.id \in Int
  BY TxValues DEF LedgerInv, Rows, Dated, Ledgered
<1>4. \A t \in new : t \in TxRec /\ t.id \in Int /\ t.id \notin Ids(txs)
  <2> SUFFICES ASSUME NEW t \in new PROVE t \in TxRec /\ t.id \in Int /\ t.id \notin Ids(txs)
    OBVIOUS
  <2>1. t \in TxRec /\ t.id \in Int
    BY <1>2, TxValues DEF Ledgered
  <2> QED BY <1>1, <1>2, <1>3, <2>1 DEF Ids
<1>5. Ledgered(txs \cup new) /\ new \subseteq TxRec
  BY <1>2, <1>3, <1>4, Together
<1>6. PICK q : Begins(r, q, "import", new, txs \cup new)
  BY <1>1, <1>5, RebuildStarts
<1>7. req'[r].op = "import" /\ req'[r].tx = new
  BY <1>6 DEF Begins, Starts
<1>8. After(r)' = txs \cup new
  <2>1. Gone(r)' = {} /\ Added(r)' = new
    BY <1>7 DEF Gone, Added
  <2> QED BY <1>1, <2>1 DEF After
<1>9. Imports(r, q)
  BY <1>2, <1>4, <1>5, <1>6, <1>8 DEF Imports, new
<1> QED BY <1>9

\* It keeps the invariant.
LEMMA BeginImportKeeps == ASSUME LedgerInv, NEW r \in Req, BeginImport(r) PROVE LedgerInv'
<1> DEFINE new == {Imported(o) : o \in Unknown}
<1>1. /\ pf = "open" /\ req[r] = Idle /\ UNCHANGED <<now, pf, txs, lots, filled, snaps, raced>>
      /\ nextTx' = nextTx + Cardinality(Unknown) /\ nextTx \in Nat /\ now \in Int
  BY LedgerAssumption DEF BeginImport, LedgerInv, Typed
<1>2. /\ Ledgered(new) /\ Cardinality(Unknown) \in Nat
      /\ \A t \in new : /\ nextTx <= t.id /\ t.id < nextTx + Cardinality(Unknown)
                        /\ 1 <= t.at /\ t.at <= AtClose(Today)
  BY ImportedRows
<1>3. PICK q : Imports(r, q)
  BY ImportBegins
<1>4. \A t \in new : t \in TxRec /\ t.id \in Int /\ t.id \notin Ids(txs)
  BY <1>3 DEF Imports
<1>5. Ledgered(txs \cup new) /\ After(r)' = txs \cup new
  BY <1>3 DEF Imports
<1>6. Begins(r, q, "import", new, txs \cup new)
  BY <1>3 DEF Imports
<1> HIDE DEF new
<1>7. /\ req'[r].op = "import" /\ req'[r].tx = new
      /\ \A x \in Req \ {r} : req'[x].op = req[x].op /\ req'[x].tx = req[x].tx
  BY <1>6 DEF Begins, Starts
<1>8. Recorded(r)'
  <2>1. \A t \in new : Dated(t)'
    BY <1>1, <1>2 DEF Dated, Today
  <2>2. IsFiniteSet(new)
    BY <1>2 DEF Ledgered
  <2>3. \A t \in new : t.id \notin Ids(txs)'
    BY <1>1, <1>4 DEF Ids
  <2> QED BY <1>2, <1>7, <2>1, <2>2, <2>3 DEF Recorded
<1>9. \A x \in Req : Apart(r, x)' /\ Apart(x, r)'
  <2> SUFFICES ASSUME NEW x \in Req \ {r} PROVE Apart(r, x)' /\ Apart(x, r)'
    BY DEF Apart
  <2>1. ASSUME req[x].op \in {"delete", "import"} PROVE Ids(new) \cap Ids(req[x].tx) = {}
    <3>1. \A t \in req[x].tx : t.id < nextTx /\ t.id \in Int
      <4>1. req[x].tx \subseteq TxRec
        BY DEF LedgerInv, Typed, ReqRec
      <4> QED BY <2>1, <4>1, TxValues DEF LedgerInv, Recorded, Dated
    <3> QED BY <1>1, <1>2, <1>4, <3>1 DEF Ids
  <2>2. Ids(req'[r].tx) = Ids(new) /\ Ids(req'[x].tx) = Ids(req[x].tx)
    BY <1>7
  <2> QED BY <1>7, <2>1, <2>2 DEF Apart, Ids
<1>11. nextTx' \in Nat /\ nextTx <= nextTx'
  BY <1>1, <1>2
<1> QED BY <1>1, <1>5, <1>6, <1>8, <1>9, <1>11, RebuildKeeps

-----------------------------------------------------------------------------
\* A transaction is entered: its date and its number are those of now.
Enters(t) == /\ t \in TxRec /\ t.id = nextTx /\ 1 <= t.at /\ t.at <= AtClose(Today)
             /\ t.kind \in {"buy", "sell"} => t.qty > 0

\* Its number is above all, so it comes last of its date.
LEMMA EnteredNewest ==
    ASSUME LedgerInv, NEW t, Enters(t)
    PROVE  Newest(txs, t) /\ Ledgered(txs \cup {t}) /\ Ledgered(txs)
<1>1. /\ Ledgered(txs) /\ \A u \in txs : u.id < nextTx /\ u.id \in Int
  BY TxValues DEF LedgerInv, Rows, Dated, Ledgered
<1>2. nextTx \in Int /\ t \in TxRec /\ t.id = nextTx
  BY DEF Enters, LedgerInv, Typed
<1>3. \A u \in txs : u.id < t.id /\ u.id # t.id
  BY <1>1, <1>2
<1>4. Ledgered({t})
  <2>1. IsFiniteSet({t})
    BY FS_Singleton
  <2>2. t.kind \in {"buy", "sell"} => t.qty > 0
    BY DEF Enters
  <2> QED BY <1>2, <2>1, <2>2 DEF Ledgered, Distinct
<1>5. Ledgered(txs \cup {t})
  <2>1. \A u \in {t} : u.id \notin Ids(txs)
    BY <1>3 DEF Ids
  <2> QED BY <1>1, <1>4, <2>1, Together
<1> QED BY <1>1, <1>3, <1>5 DEF Newest

\* One more row: requests keep theirs apart from it, and the days before it stay as they
\* were.
LEMMA RowEnters ==
    ASSUME LedgerInv, NEW t, Enters(t), txs' = txs \cup {t}, nextTx' = nextTx + 1, now' = now,
           NEW r \in Req, GoOn(r)
    PROVE  /\ Rows' /\ (\A x \in Req : Recorded(x)') /\ (\A x, y \in Req : Apart(x, y)')
           /\ \A d \in Int : d < DayOf(t.at) => SamePast(d)
           /\ \A u \in txs' : u.at <= AtClose(Today)
<1>1. nextTx \in Int /\ now \in Int /\ nextTx' \in Int /\ nextTx <= nextTx' /\ now <= now' /\ now' \in Int
  BY LedgerAssumption DEF LedgerInv, Typed
<1>2. Ledgered(txs')
  BY EnteredNewest
<1>3. \A u \in txs' : Dated(u)'
  <2> SUFFICES ASSUME NEW u \in txs' PROVE Dated(u)'
    OBVIOUS
  <2>1. CASE u \in txs
    <3>1. u \in TxRec /\ Dated(u)
      BY <2>1 DEF LedgerInv, Rows, Ledgered
    <3> QED BY <1>1, <3>1, DatedKeeps
  <2>2. CASE u = t
    BY <1>1, <2>2 DEF Enters, Dated, Today
  <2> QED BY <2>1, <2>2
<1>4. Rows'
  BY <1>2, <1>3 DEF Rows
<1>5. \A x \in Req : Recorded(x)'
  <2> SUFFICES ASSUME NEW x \in Req PROVE Recorded(x)'
    OBVIOUS
  <2>1. CASE x = r
    BY <2>1, IdleRecorded DEF GoOn
  <2>2. CASE x # r
    <3>1. req'[x].op = req[x].op /\ req'[x].tx = req[x].tx
      BY <2>2 DEF GoOn
    <3>2. NewRows(x)
      BY <1>1 DEF NewRows, Enters
    <3> QED BY <1>1, <3>1, <3>2, RecordedKeeps
  <2> QED BY <2>1, <2>2
<1>6. \A x, y \in Req : Apart(x, y)'
  BY ApartKeeps
<1>7. ASSUME NEW d \in Int, d < DayOf(t.at) PROVE SamePast(d)
  <2>1. t.at \in Int
    BY TxValues DEF Enters
  <2>2. ~(t.at < AtClose(d) + 1)
    BY <1>7, <2>1 DEF AtClose, DayOf
  <2>3. UpTo(txs', d) = UpTo(txs, d)
    BY <2>2 DEF UpTo
  <2> QED BY <2>3 DEF SamePast
<1>8. \A u \in txs' : u.at <= AtClose(Today)
  BY DEF Enters, LedgerInv, Rows, Dated
<1> QED BY <1>4, <1>5, <1>6, <1>7, <1>8

\* One more deposit or withdrawal is one more row of what a rebuild is to leave.
FlowIn(x, t) ==
    LET gain == req[x].gain
    IN  /\ After(x)' = After(x) \cup {t} /\ Ledgered(After(x) \cup {t})
        /\ RowIn(After(x), t, gain, gain) /\ Newest(Revalued(After(x), gain), NewRow(t, gain))
        /\ NewRow(t, gain).kind = t.kind

\* So it is if a request is to commit a rebuild it began before.
LEMMA AfterFlow ==
    ASSUME LedgerInv, NEW x \in Req, Ledgered(After(x)), NEW t, Enters(t),
           txs' = txs \cup {t}, req'[x] = req[x]
    PROVE  FlowIn(x, t)
<1> DEFINE T == After(x)
           gain == req[x].gain
           v == NewRow(t, gain)
<1>1. /\ req[x] \in ReqRec /\ Gains(gain) /\ nextTx \in Int /\ t \in TxRec /\ t.id = nextTx
      /\ Ledgered(txs) /\ \A u \in txs : u.id < nextTx /\ u.id \in Int
  BY TxValues DEF LedgerInv, Typed, ReqRec, Gains, Enters, Rows, Ledgered, Dated
<1>2. \A u \in req[x].tx : req[x].op \in {"delete", "import"} => u.id < nextTx /\ u.id \in Int
  <2>1. req[x].tx \subseteq TxRec
    BY <1>1 DEF ReqRec
  <2> QED BY <2>1, TxValues DEF LedgerInv, Recorded, Dated
<1>3. \A u \in T : u.id < nextTx /\ u.id # t.id
  BY <1>1, <1>2 DEF After, Added
<1>4. t.id \notin Gone(x)
  BY <1>1, <1>2 DEF Gone, Ids
<1>5. After(x)' = T \cup {t}
  BY <1>4 DEF After, Gone, Added, Ids
<1>6. Ledgered(T)
  OBVIOUS
<1> HIDE DEF T, gain, v
<1>7. Ledgered(T \cup {t}) /\ t \notin T
  <2>1. Ledgered({t})
    <3>1. IsFiniteSet({t})
      BY FS_Singleton
    <3> QED BY <1>1, <3>1 DEF Ledgered, Distinct, Enters
  <2>2. \A u \in {t} : u.id \notin Ids(T)
    BY <1>3 DEF Ids
  <2> QED BY <1>3, <1>6, <2>1, <2>2, Together
<1>8. NewIn(T, t, gain, gain)
  BY <1>1, <1>7 DEF NewIn, SameGains
<1>9. RowIn(T, t, gain, gain)
  BY <1>8, RevaluedAdded
<1>10. /\ v.kind = t.kind /\ v.id = nextTx
  BY <1>1, NewRowIs DEF v
<1>11. Newest(Revalued(T, gain), v)
  <2>1. Ledgered(Revalued(T, gain) \cup {v})
    <3>1. Ledgered(Revalued(T \cup {t}, gain))
      BY <1>1, <1>7, RevaluedIs
    <3> QED BY <1>9, <3>1 DEF RowIn, v
  <2>2. \A u \in Revalued(T, gain) : u.id < v.id
    <3> SUFFICES ASSUME NEW u \in Revalued(T, gain) PROVE u.id < v.id
      OBVIOUS
    <3>1. u.id \in Ids(T)
      <4>1. Ids(Revalued(T, gain)) = Ids(T)
        BY <1>1, <1>6, RevaluedIs
      <4>2. u.id \in Ids(Revalued(T, gain))
        BY DEF Ids
      <4> QED BY <4>1, <4>2
    <3>2. PICK w \in T : w.id = u.id
      BY <3>1 DEF Ids
    <3> QED BY <1>3, <1>10, <3>2
  <2> QED BY <1>9, <2>1, <2>2 DEF Newest, RowIn, v
<1> QED BY <1>5, <1>7, <1>9, <1>10, <1>11 DEF FlowIn, T, gain, v

\* What a rebuild alone has computed agrees with one more deposit or withdrawal too.
LEMMA RemadeFlow ==
    ASSUME LedgerInv, NEW x \in Req, Remade(x), NEW t, Enters(t), t.kind \in {"deposit", "withdraw"},
           txs' = txs \cup {t}, req'[x] = req[x], nextLot' = nextLot
    PROVE  Remade(x)'
<1> DEFINE T == After(x)
           gain == req[x].gain
           v == NewRow(t, gain)
<1>1. Ledgered(T) /\ Sound(req[x].made, Revalued(T, gain)) /\ Below(req[x].made)
  BY DEF Remade
<1>2. FlowIn(x, t)
  BY <1>1, AfterFlow
<1>3. /\ After(x)' = T \cup {t} /\ Ledgered(T \cup {t}) /\ RowIn(T, t, gain, gain)
      /\ Newest(Revalued(T, gain), v) /\ v.kind \in {"deposit", "withdraw"}
  BY <1>2 DEF FlowIn
<1> HIDE DEF T, gain, v
<1>4. Sound(req[x].made, Revalued(T, gain) \cup {v})
  BY <1>1, <1>3, FlowGoesOn
<1>5. Sound(req[x].made, Revalued(T \cup {t}, gain))
  BY <1>3, <1>4 DEF RowIn, v
<1>6. Ledgered(After(x)') /\ Sound(req[x].made, Revalued(After(x)', req[x].gain))
  BY <1>3, <1>5 DEF gain
<1>7. Below(req[x].made)'
  BY <1>1 DEF Below
<1>8. /\ req'[x].made = req[x].made /\ req'[x].gain = req[x].gain
  OBVIOUS
<1> HIDE DEF T
<1>9. Ledgered(After(x))' /\ Sound(req'[x].made, Revalued(After(x)', req'[x].gain))
  BY <1>6, <1>8 DEF Ledgered, Distinct, TxRec, AnyTag, Kinds
<1> QED BY <1>7, <1>8, <1>9 DEF Remade, Below

-----------------------------------------------------------------------------
\* A row entered by hand enters now.
LEMMA NewTxIs ==
    ASSUME LedgerInv, NEW kind \in Kinds, NEW qty \in Nat, NEW price \in Nat, NEW at \in Int,
           NEW tag \in AnyTag, 1 <= at, at <= now, kind \in {"buy", "sell"} => qty > 0
    PROVE  LET t == NewTx(kind, qty, price, at, tag)
           IN  /\ Enters(t) /\ t.kind = kind /\ t.qty = qty /\ t.price = price /\ t.at = at
<1> DEFINE t == NewTx(kind, qty, price, at, tag)
<1>1. nextTx \in Int /\ now \in Int
  BY LedgerAssumption DEF LedgerInv, Typed
<1>2. t = [id |-> nextTx, kind |-> kind, qty |-> qty, price |-> price, at |-> at,
           tag |-> tag, ref |-> NoRef, realized |-> 0]
  BY DEF NewTx
<1> HIDE DEF t
<1>3. t \in TxRec
  BY <1>1, <1>2 DEF TxRec, NoRef
<1>4. at <= AtClose(Today)
  BY <1>1 DEF AtClose, Today, DayOf
<1>5. t.id = nextTx /\ t.kind = kind /\ t.qty = qty /\ t.price = price /\ t.at = at
  BY <1>2
<1> QED BY <1>3, <1>4, <1>5 DEF Enters, t

\* Requests in flight learn of a change of the lots and go on.
LEMMA Disturbed ==
    ASSUME LedgerInv, NEW r \in Req, req[r] = Idle, req' = Disturb(Req)
    PROVE  req' \in [Req -> ReqRec] /\ GoOn(r) /\ \A x \in Req : AsRead(x)'
<1>1. req \in [Req -> ReqRec]
  BY DEF LedgerInv, Typed
<1>2. /\ req' \in [Req -> ReqRec]
      /\ \A x \in Req : /\ req'[x].op = req[x].op /\ req'[x].tx = req[x].tx
                        /\ x \in Rewriting => req'[x].alone = FALSE
                        /\ x \notin Rewriting => req'[x] = req[x]
  BY <1>1, DisturbTyped
<1>3. r \notin Rewriting
  BY IdleTyped DEF Rewriting
<1>4. \A x \in Rewriting' : x \in Rewriting
  BY <1>2 DEF Rewriting
<1> QED BY <1>2, <1>3, <1>4 DEF GoOn, AsRead, Rewriting

\* A deposit, a withdrawal or a purchase keeps the invariant; requests in flight are told
\* of a purchase.
LEMMA RegisterKeeps == ASSUME LedgerInv, NEW r \in Req, Register(r) PROVE LedgerInv'
<1>1. /\ pf = "open" /\ req[r] = Idle /\ ~raced /\ raced' = raced /\ now' = now /\ pf' = pf
      /\ filled' = filled /\ nextTx' = nextTx + 1 /\ nextTx \in Nat \ {0} /\ nextLot \in Nat \ {0}
      /\ now \in 1..Last /\ now \in Int /\ lots \subseteq LotRec /\ req \in [Req -> ReqRec]
      /\ Sound(lots, txs) /\ Below(lots)
  BY LedgerAssumption DEF Register, Explored, LedgerInv, Typed, Agree
<1>2. PICK at \in {d \in Dates : d <= now} :
        /\ \/ /\ \E a \in Amounts :
                    \/ txs' = txs \cup {NewTx("deposit", a, 1, at, NoTag)}
                    \/ a <= Cash(txs) /\ txs' = txs \cup {NewTx("withdraw", a, 1, at, NoTag)}
              /\ UNCHANGED <<lots, nextLot, backdated, req>>
           \/ \E b \in {x \in Trades : x.kind = "buy"} :
                LET t == NewTx("buy", b.qty, b.price, at, b.tag)
                IN  /\ nextLot <= MaxLot
                    /\ txs' = txs \cup {t}
                    /\ lots' = lots \cup {LotOf(nextLot, t, NoTag)}
                    /\ nextLot' = nextLot + 1
                    /\ backdated' = (backdated \/ Later(at))
                    /\ req' = Disturb(Req)
        /\ Snapped(DayOf(at), TRUE)
  BY DEF Register
<1>3. at \in Int /\ 1 <= at /\ at <= now
  BY <1>1, LedgerAssumption
<1> DEFINE Right(t) ==
      /\ Enters(t) /\ t.at = at /\ txs' = txs \cup {t} /\ GoOn(r) /\ Sound(lots', txs') /\ Below(lots)'
      /\ (\A x \in Req : AsRead(x)') /\ nextLot' \in Nat \ {0} /\ req' \in [Req -> ReqRec]
<1>4. ASSUME NEW t, Right(t) PROVE LedgerInv'
  <2>1. /\ Rows' /\ (\A x \in Req : Recorded(x)') /\ (\A x, y \in Req : Apart(x, y)')
        /\ \A d \in Int : d < DayOf(t.at) => SamePast(d)
        /\ \A u \in txs' : u.at <= AtClose(Today)
    BY <1>1, <1>4, RowEnters
  <2>2. Typed'
    <3>1. lots' \subseteq LotRec
      BY <1>4 DEF Sound, Position
    <3> QED BY <1>1, <1>4, <3>1 DEF LedgerInv, Typed, Today
  <2>3. Agree'
    BY <1>1, <1>4 DEF Agree, Sound, Below
  <2>4. Shown'
    <3>1. DayOf(at) \in Int /\ Ledgered(txs')
      BY <1>3, <1>4, EnteredNewest DEF DayOf
    <3>2. \A d \in 1..Days : d < DayOf(at) => SamePast(d)
      BY <1>4, <2>1
    <3>3. Typed /\ Shown /\ raced' \in BOOLEAN
      BY <1>1 DEF LedgerInv, Typed
    <3>4. Sound(lots', txs')
      BY <1>4
    <3>5. Snapped(DayOf(at), TRUE) /\ TRUE \in BOOLEAN
      BY <1>2
    <3> HIDE DEF Right
    <3> QED BY <1>1, <2>1, <3>1, <3>2, <3>3, <3>4, <3>5, ShownKeeps
  <2>5. NotYet'
    BY <1>1 DEF NotYet
  <2> QED BY <1>4, <2>1, <2>2, <2>3, <2>4, <2>5 DEF LedgerInv
<1>5. ASSUME NEW a \in Amounts, NEW kind \in {"deposit", "withdraw"},
             txs' = txs \cup {NewTx(kind, a, 1, at, NoTag)}, UNCHANGED <<lots, nextLot, backdated, req>>
      PROVE  LedgerInv'
  <2> DEFINE t == NewTx(kind, a, 1, at, NoTag)
  <2>1. Enters(t) /\ t.kind = kind /\ t.at = at
    <3>1. kind \in Kinds /\ a \in Nat /\ 1 \in Nat /\ NoTag \in AnyTag /\ kind \notin {"buy", "sell"}
      BY LedgerAssumption DEF Kinds, AnyTag
    <3> QED BY <1>3, <3>1, NewTxIs
  <2>2. txs' = txs \cup {t} /\ lots' = lots /\ nextLot' = nextLot /\ req' = req
    BY <1>5
  <2> HIDE DEF t
  <2>3. Newest(txs, t)
    BY <2>1, EnteredNewest
  <2>4. Sound(lots', txs')
    BY <1>1, <2>1, <2>2, <2>3, FlowGoesOn
  <2>5. GoOn(r)
    BY <1>1, <2>2 DEF GoOn
  <2>6. \A x \in Req : AsRead(x)'
    <3> SUFFICES ASSUME NEW x \in Req, x \in Rewriting', req'[x].alone PROVE AsRead(x)'
      BY DEF AsRead
    <3>1. Rewriting' = Rewriting
      BY <2>2 DEF Rewriting
    <3>2. /\ Rewriting = {x} /\ lots = req[x].held
          /\ req[x].op = "sell" => Sold(x)
          /\ req[x].op # "sell" => Remade(x)
      BY <2>2, <3>1 DEF LedgerInv, AsRead
    <3>3. Sold(x) => Sold(x)'
      BY <2>2 DEF Sold
    <3>4. Remade(x) => Remade(x)'
      BY <2>1, <2>2, RemadeFlow
    <3> QED BY <1>1, <2>2, <3>1, <3>2, <3>3, <3>4 DEF AsRead
  <2>7. Below(lots)'
    BY <1>1, <2>2 DEF Below
  <2>8. Right(t)
    BY <1>1, <2>1, <2>2, <2>4, <2>5, <2>6, <2>7
  <2> HIDE DEF Right
  <2> QED BY <1>4, <2>8
<1>6. ASSUME NEW b \in {x \in Trades : x.kind = "buy"},
             txs' = txs \cup {NewTx("buy", b.qty, b.price, at, b.tag)},
             lots' = lots \cup {LotOf(nextLot, NewTx("buy", b.qty, b.price, at, b.tag), NoTag)},
             nextLot' = nextLot + 1, req' = Disturb(Req)
      PROVE  LedgerInv'
  <2> DEFINE t == NewTx("buy", b.qty, b.price, at, b.tag)
             l == LotOf(nextLot, t, NoTag)
  <2>0. b.qty \in Nat \ {0} /\ b.price \in Nat /\ b.tag \in AnyTag
    BY LedgerAssumption DEF AnyTag
  <2>1. Enters(t) /\ t.kind = "buy" /\ t.at = at /\ t.qty = b.qty /\ t.price = b.price
    <3>1. "buy" \in Kinds /\ b.qty \in Nat /\ b.qty > 0
      BY <2>0 DEF Kinds
    <3> QED BY <1>3, <2>0, <3>1, NewTxIs
  <2>2. txs' = txs \cup {t} /\ lots' = lots \cup {l}
    BY <1>6
  <2> HIDE DEF t
  <2>3. /\ l = [id |-> nextLot, qty |-> t.qty, price |-> t.price, at |-> t.at, tag |-> NoTag]
    BY DEF LotOf
  <2> HIDE DEF l
  <2>4. /\ l \in LotRec /\ l.id = nextLot /\ l.qty = t.qty /\ l.price = t.price /\ l.at = t.at
    BY <1>1, <1>3, <2>0, <2>1, <2>3 DEF LotRec, AnyTag
  <2>5. Newest(txs, t)
    BY <2>1, EnteredNewest
  <2>6. \A m \in lots : m.id # l.id /\ m.id < nextLot + 1
    <3>1. \A m \in lots : m.id \in Int /\ m.id < nextLot
      BY <1>1 DEF Below, LotRec
    <3> QED BY <1>1, <2>4, <3>1
  <2>7. Sound(lots', txs')
    BY <1>1, <2>1, <2>2, <2>4, <2>5, <2>6, BuyGoesOn
  <2>8. Below(lots)'
    BY <1>1, <1>6, <2>2, <2>4, <2>6 DEF Below
  <2>9. req' \in [Req -> ReqRec] /\ GoOn(r) /\ \A x \in Req : AsRead(x)'
    BY <1>1, <1>6, Disturbed
  <2>10. Right(t)
    BY <1>1, <1>6, <2>1, <2>2, <2>7, <2>8, <2>9
  <2> HIDE DEF Right
  <2> QED BY <1>4, <2>10
<1> HIDE DEF Right
<1> QED BY <1>2, <1>5, <1>6

\* A sell that was alone writes what a sale of now would; one that was not ends the
\* agreement (raced).
LEMMA CommitSellKeeps == ASSUME LedgerInv, NEW r \in Req, CommitSell(r) PROVE LedgerInv'
<1>1. /\ pf = "open" /\ req[r].op = "sell" /\ now' = now /\ pf' = pf
      /\ filled' = filled /\ nextTx' = nextTx + 1 /\ nextTx \in Nat \ {0}
      /\ nextLot \in Nat \ {0} /\ nextLot' = nextLot /\ raced \in BOOLEAN
      /\ now \in 1..Last /\ now \in Int /\ lots \subseteq LotRec /\ req \in [Req -> ReqRec]
      /\ txs' = txs \cup {[t EXCEPT !.id = nextTx] : t \in req[r].tx}
      /\ lots' = {l \in lots : l.id \notin Touched(r)} \cup Updated(r)
      /\ req' = [Disturb(Req) EXCEPT ![r] = Idle]
      /\ raced' = (raced \/ ~req[r].alone)
      /\ \A t \in req[r].tx : Snapped(DayOf(t.at), TRUE)
  <2>1. /\ nextTx \in Nat \ {0} /\ nextLot \in Nat \ {0} /\ raced \in BOOLEAN /\ now \in 1..Last
        /\ now \in Int /\ lots \subseteq LotRec /\ req \in [Req -> ReqRec]
    BY LedgerAssumption DEF LedgerInv, Typed
  <2>2. /\ pf = "open" /\ req[r].op = "sell" /\ now' = now /\ pf' = pf
        /\ filled' = filled /\ nextTx' = nextTx + 1 /\ nextLot' = nextLot
    BY DEF CommitSell
  <2>3. /\ txs' = txs \cup {[t EXCEPT !.id = nextTx] : t \in req[r].tx}
        /\ lots' = {l \in lots : l.id \notin Touched(r)} \cup Updated(r)
        /\ req' = [Disturb(Req) EXCEPT ![r] = Idle]
        /\ raced' = (raced \/ ~req[r].alone)
    BY DEF CommitSell
  <2>4. \A t \in req[r].tx : Snapped(DayOf(t.at), TRUE)
    BY Zenon DEF CommitSell
  <2> QED BY <2>1, <2>2, <2>3, <2>4
<1>2. req[r] \in ReqRec /\ req[r].alone \in BOOLEAN /\ req[r].made \subseteq LotRec /\ req[r].tx \subseteq TxRec
  BY <1>1 DEF ReqRec
<1>3. PICK t : req[r].tx = {t} /\ t.kind = "sell" /\ t.qty > 0 /\ 1 <= t.at /\ t.at <= AtClose(Today)
  BY <1>1 DEF LedgerInv, Recorded
<1> DEFINE v == [t EXCEPT !.id = nextTx]
<1>4. /\ v \in TxRec /\ v.id = nextTx /\ v.kind = "sell" /\ v.qty = t.qty /\ v.price = t.price
      /\ v.at = t.at /\ v.realized = t.realized /\ t \in TxRec
  <2>1. t \in TxRec
    BY <1>2, <1>3
  <2>2. v.id = nextTx /\ v.kind = t.kind /\ v.qty = t.qty /\ v.price = t.price
    BY <2>1 DEF TxRec
  <2>3. v.at = t.at /\ v.realized = t.realized
    BY <2>1 DEF TxRec
  <2>4. v \in TxRec
    BY <1>1, <2>1 DEF TxRec
  <2> QED BY <1>3, <2>1, <2>2, <2>3, <2>4
<1>5. txs' = txs \cup {v} /\ Snapped(DayOf(v.at), TRUE)
  BY <1>1, <1>3, <1>4
<1> HIDE DEF v
<1>6. Enters(v)
  BY <1>3, <1>4 DEF Enters
<1>7. /\ req' \in [Req -> ReqRec] /\ req'[r] = Idle
      /\ \A x \in Req \ {r} : /\ req'[x].op = req[x].op /\ req'[x].tx = req[x].tx
                              /\ x \in Rewriting => req'[x].alone = FALSE
  <2>1. /\ Disturb(Req) \in [Req -> ReqRec]
        /\ \A x \in Req : /\ Disturb(Req)[x].op = req[x].op /\ Disturb(Req)[x].tx = req[x].tx
                          /\ x \in Rewriting => Disturb(Req)[x].alone = FALSE
    BY <1>1, DisturbTyped
  <2>2. \A x \in Req : req'[x] = IF x = r THEN Idle ELSE Disturb(Req)[x]
    BY <1>1, <2>1
  <2>3. req' \in [Req -> ReqRec]
    BY <1>1, <2>1, IdleTyped
  <2> QED BY <2>1, <2>2, <2>3
<1>8. GoOn(r)
  BY <1>7 DEF GoOn
<1>9. /\ Rows' /\ (\A x \in Req : Recorded(x)') /\ (\A x, y \in Req : Apart(x, y)')
      /\ \A d \in Int : d < DayOf(v.at) => SamePast(d)
      /\ \A u \in txs' : u.at <= AtClose(Today)
  BY <1>1, <1>5, <1>6, <1>8, RowEnters
<1>10. \A x \in Req : AsRead(x)'
  <2> SUFFICES ASSUME NEW x \in Req, x \in Rewriting', req'[x].alone PROVE FALSE
    BY DEF AsRead
  <2>1. x # r
    BY <1>7, IdleTyped DEF Rewriting
  <2>2. x \in Rewriting
    BY <1>7, <2>1 DEF Rewriting
  <2> QED BY <1>7, <2>1, <2>2
<1>11. ~raced' => Sound(lots', txs') /\ Below(lots)'
  <2> SUFFICES ASSUME ~raced, req[r].alone PROVE Sound(lots', txs') /\ Below(lots)'
    BY <1>1, <1>2
  <2>1. Sound(lots, txs) /\ Below(lots) /\ Position(lots)
    BY DEF LedgerInv, Agree, Sound
  <2>2. lots = req[r].held /\ Sold(r)
    BY <1>1 DEF LedgerInv, AsRead, Rewriting
  <2> DEFINE made == req[r].made
  <2>3. made = Sale(lots, t, {}).lots /\ t.qty <= Sale(lots, t, {}).held /\ t.realized = Sale(lots, t, {}).realized
    BY <1>3, <2>2 DEF Sold
  <2>4. lots' = {l \in lots : l.id \notin Ids(lots \ made)} \cup (made \ lots)
    BY <1>1, <2>2 DEF Touched, Updated
  <2> HIDE DEF made
  <2>5. lots' = made
    <3>1. \A l \in lots : l.id \notin Ids(lots \ made) <=> l \in made
      <4> SUFFICES ASSUME NEW l \in lots PROVE l.id \notin Ids(lots \ made) <=> l \in made
        OBVIOUS
      <4>1. \A m \in lots : m.id = l.id => m = l
        BY <2>1 DEF Position, Distinct
      <4> QED BY <4>1 DEF Ids
    <3> QED BY <2>4, <3>1
  <2>6. Newest(txs, v)
    BY <1>6, EnteredNewest
  <2>7. /\ Sale(lots, v, {}).lots = made /\ v.qty <= Sale(lots, v, {}).held
        /\ v.realized = Sale(lots, v, {}).realized
    BY <1>4, <2>3, SaleSame
  <2>8. Sound(lots', txs')
    <3>1. Sound(Sale(lots, v, {}).lots, txs \cup {v})
      BY <1>4, <2>1, <2>6, <2>7, SellGoesOn
    <3> QED BY <1>5, <2>5, <2>7, <3>1
  <2>9. Below(lots)'
    <3>1. Ordered(t)
      BY <1>4, TxValues DEF Ordered
    <3>2. \A l \in made : \E m \in lots : m.id = l.id
      BY <2>1, <2>3, <3>1, SaleTyped
    <3> QED BY <1>1, <2>1, <2>5, <3>2 DEF Below
  <2> QED BY <2>8, <2>9
<1>12. Typed'
  <2>1. lots' \subseteq LotRec
    BY <1>1, <1>2 DEF Updated
  <2>2. raced' \in BOOLEAN
    BY <1>1, <1>2
  <2> QED BY <1>1, <1>7, <2>1, <2>2 DEF LedgerInv, Typed, Today
<1>13. Agree'
  BY <1>11 DEF Agree, Sound, Below
<1>14. Shown'
  <2>1. v.at \in Int /\ DayOf(v.at) \in Int /\ Ledgered(txs')
    BY <1>4, <1>5, <1>6, EnteredNewest, TxValues DEF DayOf
  <2>2. \A d \in 1..Days : d < DayOf(v.at) => SamePast(d)
    BY <1>9
  <2>3. Typed /\ Shown /\ raced' \in BOOLEAN
    BY <1>12 DEF LedgerInv, Typed
  <2>4. ~raced' => Sound(lots', txs')
    BY <1>11
  <2> QED BY <1>1, <1>5, <1>9, <2>1, <2>2, <2>3, <2>4, ShownKeeps
<1>15. NotYet'
  BY <1>1 DEF NotYet
<1> QED BY <1>9, <1>10, <1>12, <1>13, <1>14, <1>15 DEF LedgerInv

-----------------------------------------------------------------------------
\* What a rebuild leaves is a ledger dated as it should be.
LEMMA AfterRows ==
    ASSUME LedgerInv, NEW r \in Req, req[r].op \in {"delete", "import"}
    PROVE  Ledgered(After(r)) /\ \A u \in After(r) : Dated(u) /\ u.at \in Int /\ u.id \in Int
<1>1. Ledgered(txs) /\ (\A u \in txs : Dated(u)) /\ Recorded(r)
  BY DEF LedgerInv, Rows
<1>2. CASE req[r].op = "delete"
  <2>1. After(r) \subseteq txs
    BY <1>2 DEF After, Added
  <2>2. Ledgered(After(r))
    BY <1>1, <2>1, LedgeredPart
  <2> QED BY <1>1, <2>1, <2>2, TxValues DEF Ledgered
<1>3. CASE req[r].op = "import"
  <2>1. After(r) = txs \cup req[r].tx
    BY <1>3 DEF After, Added, Gone
  <2>2. Ledgered(After(r))
    BY <1>1, <1>3, <2>1, Together DEF Recorded
  <2> QED BY <1>1, <1>3, <2>1, <2>2, TxValues DEF Ledgered, Recorded
<1> QED BY <1>2, <1>3

\* It changes the days from the first date it adds or takes away.
LEMMA AfterPast ==
    ASSUME LedgerInv, NEW r \in Req, req[r].op \in {"delete", "import"}, NEW d \in Int,
           \A t \in req[r].tx : d < DayOf(t.at)
    PROVE  UpTo(After(r), d) = UpTo(txs, d)
<1>1. /\ \A t \in req[r].tx : t.at \in Int
      /\ Recorded(r)
  BY TxValues DEF LedgerInv, Typed, ReqRec
<1>2. \A t \in req[r].tx : ~(t.at < AtClose(d) + 1)
  BY <1>1 DEF AtClose, DayOf
<1>3. \A u \in txs : u.id \in Gone(r) => ~(u.at < AtClose(d) + 1)
  BY <1>1, <1>2 DEF Gone, Ids, Recorded
<1>4. \A u \in Added(r) : ~(u.at < AtClose(d) + 1)
  BY <1>2 DEF Added
<1> QED BY <1>3, <1>4 DEF UpTo, After

\* A rebuild that was alone replaces the lots by those its replay made, and revalues the
\* rows.
LEMMA CommitRebuildKeeps == ASSUME LedgerInv, NEW r \in Req, CommitRebuild(r) PROVE LedgerInv'
<1> DEFINE gain == req[r].gain
           T == After(r)
           from == Min({DayOf(t.at) : t \in req[r].tx} \cup {Today + 1})
<1>1. /\ nextTx \in Nat \ {0} /\ nextLot \in Nat \ {0} /\ raced \in BOOLEAN /\ now \in 1..Last
      /\ now \in Int /\ lots \subseteq LotRec /\ req \in [Req -> ReqRec] /\ req[r] \in ReqRec
  BY LedgerAssumption DEF LedgerInv, Typed
<1>2. /\ pf = "open" /\ req[r].op \in {"delete", "import"} /\ now' = now /\ pf' = pf
      /\ filled' = filled /\ nextTx' = nextTx /\ nextLot' = nextLot
  BY DEF CommitRebuild
<1>3. /\ txs' = Revalued(T, gain)
      /\ lots' = {l \in lots : l.id \notin Ids(req[r].held)} \cup req[r].made
      /\ req' = [x \in Req |-> IF x = r THEN Idle
                             ELSE [Disturb(Req)[x] EXCEPT !.behind = @ \ {r}]]
      /\ raced' = ~req[r].alone
  BY DEF CommitRebuild, After
<1>4. Snapped(from, req[r].op = "delete")
  BY DEF CommitRebuild
<1>5. /\ Gains(gain) /\ req[r].alone \in BOOLEAN /\ req[r].made \subseteq LotRec
      /\ req[r].tx \subseteq TxRec
  BY <1>1 DEF ReqRec, Gains
<1>6. Ledgered(T) /\ \A u \in T : Dated(u) /\ u.at \in Int /\ u.id \in Int
  BY <1>2, AfterRows
<1>7. /\ txs' = {NewRow(u, gain) : u \in T} /\ Ledgered(txs')
      /\ \A u \in T : NewRow(u, gain).id = u.id /\ NewRow(u, gain).at = u.at
  <2>1. \A u \in T : u \in TxRec
    BY <1>6 DEF Ledgered
  <2>2. txs' = {NewRow(u, gain) : u \in T} /\ Ledgered(txs')
    BY <1>3, <1>5, <1>6, RevaluedIs
  <2> HIDE DEF T, gain
  <2> QED BY <1>5, <2>1, <2>2, NewRowIs
<1> HIDE DEF gain
<1>8. /\ req' \in [Req -> ReqRec] /\ req'[r] = Idle
      /\ \A x \in Req \ {r} : /\ req'[x].op = req[x].op /\ req'[x].tx = req[x].tx
                              /\ x \in Rewriting => req'[x].alone = FALSE
  <2>1. /\ Disturb(Req) \in [Req -> ReqRec]
        /\ \A x \in Req : /\ Disturb(Req)[x].op = req[x].op /\ Disturb(Req)[x].tx = req[x].tx
                          /\ x \in Rewriting => Disturb(Req)[x].alone = FALSE
    BY <1>1, DisturbTyped
  <2>2. \A x \in Req : req'[x] = IF x = r THEN Idle ELSE [Disturb(Req)[x] EXCEPT !.behind = @ \ {r}]
    BY <1>3
  <2> DEFINE D == Disturb(Req)
  <2>3. \A x \in Req \ {r} : /\ req'[x] \in ReqRec /\ req'[x].op = D[x].op
                             /\ req'[x].tx = D[x].tx /\ req'[x].alone = D[x].alone
    <3> HIDE DEF D
    <3>1. D \in [Req -> ReqRec] /\ \A x \in Req \ {r} : req'[x] = [D[x] EXCEPT !.behind = @ \ {r}]
      BY <2>1, <2>2 DEF D
    <3> SUFFICES ASSUME NEW x \in Req \ {r}
                 PROVE  /\ req'[x] \in ReqRec /\ req'[x].op = D[x].op
                        /\ req'[x].tx = D[x].tx /\ req'[x].alone = D[x].alone
      OBVIOUS
    <3>2. PICK q \in ReqRec : q = D[x]
      BY <3>1
    <3>3. req'[x] = [q EXCEPT !.behind = @ \ {r}]
      BY <3>1, <3>2
    <3> DEFINE p == [q EXCEPT !.behind = @ \ {r}]
    <3>4. p \in ReqRec /\ p.op = q.op /\ p.tx = q.tx /\ p.alone = q.alone
      BY BehindTyped
    <3>5. req'[x] = p
      BY <3>3
    <3> HIDE DEF p
    <3> QED BY <3>2, <3>4, <3>5
  <2>4. \A x \in Req : req'[x] \in ReqRec
    BY <2>2, <2>3, IdleTyped
  <2>5. req' \in [Req -> ReqRec]
    BY <1>3, <2>4
  <2> QED BY <2>1, <2>2, <2>3, <2>5
<1>9. GoOn(r)
  BY <1>8 DEF GoOn
<1>10. Rows' /\ \A u \in txs' : u.at <= AtClose(Today)
  <2>1. \A u \in txs' : \E w \in T : w.id = u.id /\ w.at = u.at
    BY <1>7
  <2>2. \A u \in txs' : Dated(u)
    BY <1>6, <2>1 DEF Dated
  <2> QED BY <1>2, <1>7, <2>2 DEF Rows, Dated, Today
<1>11. \A x \in Req : Recorded(x)'
  <2> SUFFICES ASSUME NEW x \in Req PROVE Recorded(x)'
    OBVIOUS
  <2>1. CASE x = r
    BY <1>8, <2>1, IdleRecorded
  <2>2. CASE x # r
    <3>1. req'[x].op = req[x].op /\ req'[x].tx = req[x].tx
      BY <1>8, <2>2
    <3>2. ASSUME req[x].op \in {"delete", "import"} PROVE NewRows(x)
      <4> SUFFICES ASSUME NEW u \in txs', ~\E w \in txs : w.id = u.id /\ w.at = u.at
                   PROVE  u.id \notin Ids(req[x].tx)
        BY DEF NewRows
      <4>1. PICK w \in T : w.id = u.id /\ w.at = u.at
        BY <1>7
      <4>2. w \in Added(r)
        BY <4>1 DEF After
      <4>3. req[r].op = "import" /\ w \in req[r].tx
        BY <4>2 DEF Added
      <4>4. Ids(req[x].tx) \cap Ids(req[r].tx) = {}
        BY <2>2, <3>2, <4>3 DEF LedgerInv, Apart
      <4> QED BY <4>1, <4>3, <4>4 DEF Ids
    <3>3. now \in Int /\ now' \in Int /\ now <= now' /\ nextTx' \in Int /\ nextTx <= nextTx'
      BY <1>1, <1>2
    <3> QED BY <3>1, <3>2, <3>3, RecordedKeeps
  <2> QED BY <2>1, <2>2
<1>12. \A x, y \in Req : Apart(x, y)'
  BY <1>9, ApartKeeps
<1>13. \A x \in Req : AsRead(x)'
  <2> SUFFICES ASSUME NEW x \in Req, x \in Rewriting', req'[x].alone PROVE FALSE
    BY DEF AsRead
  <2>1. x # r
    BY <1>8, IdleTyped DEF Rewriting
  <2>2. x \in Rewriting
    BY <1>8, <2>1 DEF Rewriting
  <2> QED BY <1>8, <2>1, <2>2
<1>14. ~raced' => Sound(lots', txs') /\ Below(lots)'
  <2> SUFFICES ASSUME req[r].alone PROVE Sound(lots', txs') /\ Below(lots)'
    BY <1>3, <1>5
  <2>1. lots = req[r].held /\ Remade(r)
    BY <1>2 DEF LedgerInv, AsRead, Rewriting
  <2>2. lots' = req[r].made
    BY <1>3, <2>1 DEF Ids
  <2>3. Sound(lots', txs')
    BY <1>3, <2>1, <2>2 DEF Remade, gain
  <2> QED BY <1>2, <2>1, <2>2, <2>3 DEF Remade, Below
<1>15. Typed'
  <2>1. lots' \subseteq LotRec
    BY <1>1, <1>3, <1>5
  <2>2. raced' \in BOOLEAN
    BY <1>3, <1>5
  <2> QED BY <1>1, <1>2, <1>8, <2>1, <2>2 DEF LedgerInv, Typed, Today
<1>16. Agree'
  BY <1>14 DEF Agree, Sound, Below
<1>17. from \in Int /\ \A t \in req[r].tx : from <= DayOf(t.at)
  <2> DEFINE S == {DayOf(t.at) : t \in req[r].tx} \cup {Today + 1}
  <2>1. \A t \in req[r].tx : DayOf(t.at) \in Nat
    <3> SUFFICES ASSUME NEW t \in req[r].tx PROVE DayOf(t.at) \in Nat
      OBVIOUS
    <3>1. t.at \in Int /\ 1 <= t.at
      BY <1>2, <1>5, TxValues DEF LedgerInv, Recorded, Dated
    <3> QED BY <3>1 DEF DayOf
  <2>2. Today + 1 \in Nat
    BY <1>1, LedgerAssumption DEF Today, DayOf
  <2>3. S \subseteq Nat /\ S # {}
    BY <2>1, <2>2
  <2>4. Min(S) \in S /\ \A x \in S : Min(S) <= x
    <3> HIDE DEF S
    <3> QED BY <2>3, LeastDay
  <2>5. \A t \in req[r].tx : DayOf(t.at) \in S
    OBVIOUS
  <2>6. from = Min(S)
    OBVIOUS
  <2>7. Min(S) \in Int
    BY ONLY <2>3, <2>4
  <2> HIDE DEF S, from
  <2>8. ASSUME NEW t \in req[r].tx PROVE from <= DayOf(t.at)
    <3>1. Min(S) <= DayOf(t.at)
      BY <2>4, <2>5, Zenon
    <3> QED BY <3>1, <2>6, Zenon
  <2>9. from \in Int
    BY <2>6, <2>7, Zenon
  <2> QED BY <2>8, <2>9, Zenon
<1> HIDE DEF from
<1>18. \A d \in 1..Days : d < from => SamePast(d)
  <2> SUFFICES ASSUME NEW d \in 1..Days, d < from PROVE SamePast(d)
    OBVIOUS
  <2>0. d \in Int
    BY LedgerAssumption DEF Days
  <2>1. \A t \in req[r].tx : d < DayOf(t.at)
    <3>1. \A t \in req[r].tx : t.at \in Int /\ DayOf(t.at) \in Int
      BY <1>5, TxValues DEF DayOf
    <3> QED BY <1>17, <2>0, <3>1
  <2>2. UpTo(T, d) = UpTo(txs, d)
    BY <1>2, <2>0, <2>1, AfterPast
  <2>3. Past(UpTo(Revalued(T, gain), d), d) = Past(UpTo(T, d), d)
    <3> HIDE DEF T
    <3> QED BY <1>5, <1>6, PastSame
  <2> QED BY <1>3, <2>2, <2>3 DEF SamePast
<1>19. Shown'
  <2>1. Typed /\ Shown /\ raced' \in BOOLEAN
    BY <1>15 DEF LedgerInv, Typed
  <2>2. ~raced' => Sound(lots', txs')
    BY <1>14
  <2>3. (req[r].op = "delete") \in BOOLEAN
    OBVIOUS
  <2> QED BY <1>2, <1>4, <1>7, <1>10, <1>17, <1>18, <2>1, <2>2, <2>3, ShownKeeps
<1>20. NotYet'
  BY <1>2 DEF NotYet
<1> QED BY <1>10, <1>11, <1>12, <1>13, <1>15, <1>16, <1>19, <1>20 DEF LedgerInv

-----------------------------------------------------------------------------
\* The lots of a backtest bought one by one after a deposit agree with the purchases.
SeedTx(rank, s) == [id |-> rank[s] + 1, kind |-> "buy", qty |-> s.qty, price |-> s.price,
                    at |-> s.at, tag |-> NoTag, ref |-> NoRef, realized |-> 0]
SeedLot(rank, s) == LotOf(rank[s], s, NoTag)
Bought(rank, k) == {s \in Seed : rank[s] <= k}

\* The rows and lots of a backtest agree.
LEMMA SeedSound ==
    ASSUME NEW rank \in [Seed -> 1..Cardinality(Seed)], \A s, u \in Seed : s # u => rank[s] # rank[u],
           NEW t \in TxRec, t.id = 1, t.kind = "deposit"
    PROVE  /\ Sound({SeedLot(rank, s) : s \in Seed}, {t} \cup {SeedTx(rank, s) : s \in Seed})
           /\ Ledgered({t} \cup {SeedTx(rank, s) : s \in Seed})
<1> DEFINE N == Cardinality(Seed)
           L(k) == {SeedLot(rank, s) : s \in Bought(rank, k)}
           T(k) == {t} \cup {SeedTx(rank, s) : s \in Bought(rank, k)}
           Good(k) == Sound(L(k), T(k)) /\ Ledgered(T(k))
           Bad == {k \in 0..N : ~Good(k)}
<1>1. IsFiniteSet(Seed) /\ N \in Nat
  BY LedgerAssumption, FS_CardinalityType
<1>2. \A s \in Seed : /\ SeedTx(rank, s) \in TxRec /\ SeedTx(rank, s).id = rank[s] + 1
                      /\ SeedTx(rank, s).kind = "buy" /\ SeedTx(rank, s).qty = s.qty /\ s.qty > 0
                      /\ SeedTx(rank, s).price = s.price /\ SeedTx(rank, s).at = s.at
                      /\ rank[s] \in 1..N /\ rank[s] \in Int
  <2> SUFFICES ASSUME NEW s \in Seed
               PROVE  /\ SeedTx(rank, s) \in TxRec /\ SeedTx(rank, s).id = rank[s] + 1
                      /\ SeedTx(rank, s).kind = "buy" /\ SeedTx(rank, s).qty = s.qty /\ s.qty > 0
                      /\ SeedTx(rank, s).price = s.price /\ SeedTx(rank, s).at = s.at
                      /\ rank[s] \in 1..N /\ rank[s] \in Int
    OBVIOUS
  <2>1. rank[s] \in 1..N /\ rank[s] \in Int
    BY <1>1
  <2>2. s.qty \in Nat \ {0} /\ s.price \in Nat /\ s.at \in Int
    BY LedgerAssumption
  <2> HIDE DEF N
  <2>3. SeedTx(rank, s) \in TxRec
    BY <2>1, <2>2 DEF SeedTx, TxRec, Kinds, AnyTag, NoRef
  <2> QED BY <2>1, <2>2, <2>3 DEF SeedTx
<1>3. \A s \in Seed : /\ SeedLot(rank, s) \in LotRec /\ SeedLot(rank, s).id = rank[s]
                      /\ SeedLot(rank, s).qty = s.qty /\ SeedLot(rank, s).price = s.price
                      /\ SeedLot(rank, s).at = s.at
  <2> SUFFICES ASSUME NEW s \in Seed
               PROVE  /\ SeedLot(rank, s) \in LotRec /\ SeedLot(rank, s).id = rank[s]
                      /\ SeedLot(rank, s).qty = s.qty /\ SeedLot(rank, s).price = s.price
                      /\ SeedLot(rank, s).at = s.at
    OBVIOUS
  <2>1. rank[s] \in Int
    BY <1>2
  <2>2. s.qty \in Nat \ {0} /\ s.price \in Nat /\ s.at \in Int
    BY LedgerAssumption
  <2> QED BY <2>1, <2>2 DEF SeedLot, LotOf, LotRec, AnyTag
<1>4. Good(0)
  <2>1. Bought(rank, 0) = {}
    <3>1. \A s \in Seed : ~(rank[s] <= 0)
      BY <1>1
    <3> QED BY <3>1 DEF Bought
  <2>2. L(0) = {} /\ T(0) = {} \cup {t}
    BY <2>1
  <2>3. Newest({}, t)
    <3>1. IsFiniteSet({t})
      BY FS_Singleton
    <3> QED BY <3>1 DEF Newest, Ledgered, Distinct
  <2>4. Sound({}, {})
    BY NothingKept DEF Sound
  <2>5. Sound({}, {} \cup {t})
    BY <2>3, <2>4, FlowGoesOn
  <2> HIDE DEF L, T
  <2> QED BY <2>2, <2>3, <2>5 DEF Newest
<1>5. ASSUME NEW k \in 0..N, k + 1 <= N, Good(k) PROVE Good(k + 1)
  <2>0. k \in Int
    BY <1>1
  <2>1. CASE ~\E s \in Seed : rank[s] = k + 1
    <3>1. Bought(rank, k + 1) = Bought(rank, k)
      <4>1. \A s \in Seed : rank[s] <= k + 1 <=> rank[s] <= k
        BY <1>2, <2>0, <2>1
      <4> QED BY <4>1 DEF Bought
    <3> QED BY <1>5, <3>1
  <2>2. CASE \E s \in Seed : rank[s] = k + 1
    <3>1. PICK s \in Seed : rank[s] = k + 1
      BY <2>2
    <3> DEFINE v == SeedTx(rank, s)
               l == SeedLot(rank, s)
    <3>2. Bought(rank, k + 1) = Bought(rank, k) \cup {s}
      <4>1. \A u \in Seed : rank[u] <= k + 1 <=> rank[u] <= k \/ u = s
        BY <1>2, <2>0, <3>1
      <4> QED BY <4>1 DEF Bought
    <3>3. L(k + 1) = L(k) \cup {l} /\ T(k + 1) = T(k) \cup {v}
      BY <3>2
    <3>4. /\ v \in TxRec /\ v.id = k + 2 /\ v.kind = "buy" /\ v.qty > 0 /\ l \in LotRec /\ l.id = k + 1
          /\ l.qty = v.qty /\ l.price = v.price /\ l.at = v.at
      BY <1>2, <1>3, <2>0, <3>1
    <3>5. \A u \in T(k) : u.id < v.id
      <4>1. \A u \in Bought(rank, k) : SeedTx(rank, u).id < k + 2
        BY <1>2, <2>0 DEF Bought
      <4>2. t.id < k + 2
        BY <1>1
      <4> QED BY <3>4, <4>1, <4>2
    <3>6. \A m \in L(k) : m.id # l.id
      <4>1. \A u \in Bought(rank, k) : SeedLot(rank, u).id # k + 1
        BY <1>2, <1>3, <2>0 DEF Bought
      <4> QED BY <3>4, <4>1
    <3> HIDE DEF L, T, v, l
    <3>7. Ledgered(T(k) \cup {v}) /\ v \notin T(k)
      <4>1. \A u \in T(k) : u.id \in Int /\ v.id \in Int /\ u.id # v.id
        BY <1>5, <3>4, <3>5, TxValues DEF Ledgered
      <4>2. Ledgered({v})
        <5>1. IsFiniteSet({v})
          BY FS_Singleton
        <5> QED BY <3>4, <5>1 DEF Ledgered, Distinct
      <4>3. \A u \in {v} : u.id \notin Ids(T(k))
        BY <4>1 DEF Ids
      <4> QED BY <1>5, <4>1, <4>2, <4>3, Together
    <3>8. Newest(T(k), v)
      BY <3>5, <3>7 DEF Newest
    <3>9. Sound(L(k) \cup {l}, T(k) \cup {v})
      BY <1>5, <3>4, <3>6, <3>8, BuyGoesOn
    <3> QED BY <3>3, <3>7, <3>9
  <2> QED BY <2>1, <2>2
<1>6. Good(N)
  <2> HIDE DEF Good
  <2>0. N \in 0..N
    BY <1>1
  <2> HIDE DEF N
  <2> SUFFICES ASSUME Bad # {} PROVE FALSE
    BY <2>0
  <2>1. Bad \subseteq Nat
    BY <1>1
  <2>2. PICK m \in Bad : \A k \in Bad : m <= k
    <3> HIDE DEF Bad
    <3> QED BY <2>1, LeastNumber
  <2>3. m \in 0..N /\ ~Good(m) /\ m # 0
    BY <1>4, <2>2
  <2>4. m - 1 \in 0..N /\ ~(m <= m - 1) /\ m - 1 + 1 = m
    BY <1>1, <2>3
  <2>5. Good(m - 1)
    BY <2>2, <2>4
  <2> QED BY <1>1, <1>5, <2>3, <2>4, <2>5
<1>7. Bought(rank, N) = Seed
  BY <1>2 DEF Bought
<1> QED BY <1>6, <1>7

\* A portfolio made from a backtest keeps the invariant.
LEMMA SeedKeeps == ASSUME LedgerInv, CreateFromBacktest PROVE LedgerInv'
<1>1. /\ pf = "none" /\ pf' = "open" /\ UNCHANGED <<now, filled, snaps, req, raced>>
      /\ nextTx' = Cardinality(Seed) + 2 /\ nextLot' = Cardinality(Seed) + 1
  BY DEF CreateFromBacktest, history
<1>2. PICK d \in 1..now \div 2, rank \in [Seed -> 1..Cardinality(Seed)] :
        LET deposit == [id |-> 1, kind |-> "deposit", qty |-> SeedCash + Cost(Seed), price |-> 1,
                        at |-> AtClose(d), tag |-> NoTag, ref |-> NoRef, realized |-> 0]
        IN  /\ \A s \in Seed : s.at <= AtClose(d)
            /\ \A s, u \in Seed : s # u => rank[s] # rank[u] /\ (s.at < u.at => rank[s] < rank[u])
            /\ txs' = {deposit} \cup
                      {[id |-> rank[s] + 1, kind |-> "buy", qty |-> s.qty, price |-> s.price,
                        at |-> s.at, tag |-> NoTag, ref |-> NoRef, realized |-> 0] : s \in Seed}
            /\ lots' = {LotOf(rank[s], s, NoTag) : s \in Seed}
  BY DEF CreateFromBacktest
<1> DEFINE t == [id |-> 1, kind |-> "deposit", qty |-> SeedCash + Cost(Seed), price |-> 1,
                 at |-> AtClose(d), tag |-> NoTag, ref |-> NoRef, realized |-> 0]
           N == Cardinality(Seed)
<1>3. /\ \A s \in Seed : s.at <= AtClose(d)
      /\ \A s, u \in Seed : s # u => rank[s] # rank[u]
      /\ txs' = {t} \cup {SeedTx(rank, s) : s \in Seed}
      /\ lots' = {SeedLot(rank, s) : s \in Seed}
  BY <1>2 DEF SeedTx, SeedLot
<1>4. IsFiniteSet(Seed) /\ N \in Nat /\ Cost(Seed) \in Nat /\ SeedCash \in Nat
  <2>1. IsFiniteSet(Seed) /\ SeedCash \in Nat
    BY LedgerAssumption
  <2>2. N \in Nat
    BY <2>1, FS_CardinalityType
  <2> DEFINE f == [x \in Seed |-> x.qty * x.price]
  <2>3. \A x \in Seed : f[x] \in Nat
    BY LedgerAssumption
  <2>4. Cost(Seed) = SumOver(f, Seed)
    BY CostIsSum
  <2> HIDE DEF f
  <2>5. SumOver(f, Seed) \in Nat
    BY <2>1, <2>3, SumNatural
  <2> QED BY <2>1, <2>2, <2>4, <2>5
<1>5. /\ now \in 1..Last /\ now \in Int /\ d \in Int /\ 1 <= d /\ d <= now \div 2
      /\ Typed /\ txs = {} /\ lots = {} /\ Rewriting = {} /\ \A e \in 1..Days : snaps[e] = NoSnap
  BY <1>1, LedgerAssumption DEF LedgerInv, Typed, NotYet
<1>6. /\ t \in TxRec /\ t.id = 1 /\ t.kind = "deposit" /\ t.at = AtClose(d) /\ AtClose(d) \in Int
      /\ 1 <= AtClose(d) /\ AtClose(d) <= AtClose(Today)
  <2> DEFINE q == SeedCash + Cost(Seed)
  <2>1. q \in Nat
    BY <1>4
  <2> HIDE DEF q
  <2>2. AtClose(d) \in Int /\ 1 <= AtClose(d)
    BY <1>5 DEF AtClose
  <2>3. AtClose(d) <= AtClose(Today)
    BY <1>5 DEF AtClose, Today, DayOf
  <2>4. t = [id |-> 1, kind |-> "deposit", qty |-> q, price |-> 1,
             at |-> AtClose(d), tag |-> NoTag, ref |-> NoRef, realized |-> 0]
    BY DEF q
  <2> HIDE DEF t
  <2>5. t \in TxRec
    BY <2>1, <2>2, <2>4 DEF TxRec, Kinds, AnyTag, NoRef
  <2> QED BY <2>2, <2>3, <2>4, <2>5
<1> HIDE DEF t
<1>7. Sound(lots', txs') /\ Ledgered(txs')
  BY <1>3, <1>6, SeedSound
<1>8. \A s \in Seed : rank[s] \in Int /\ 1 <= rank[s] /\ rank[s] <= N
  BY <1>4
<1> HIDE DEF N
<1>9. Rows'
  <2>1. nextTx' = N + 2 /\ now' = now
    BY <1>1 DEF N
  <2>2. \A s \in Seed : s.at \in Int /\ 1 <= s.at /\ s.at <= AtClose(Today)
    <3>1. \A s \in Seed : s.at \in Int /\ 1 <= s.at
      BY LedgerAssumption
    <3>2. AtClose(Today) \in Int
      BY <1>5 DEF AtClose, Today, DayOf
    <3> QED BY <1>3, <1>6, <3>1, <3>2
  <2>3. \A s \in Seed : rank[s] + 1 < N + 2
    BY <1>4, <1>8
  <2>4. \A u \in txs' : 1 <= u.at /\ u.at <= AtClose(Today) /\ u.id < N + 2
    <3>1. \A s \in Seed : SeedTx(rank, s).at = s.at /\ SeedTx(rank, s).id = rank[s] + 1
      BY DEF SeedTx
    <3>2. t.id < N + 2
      BY <1>4, <1>6
    <3> QED BY <1>3, <1>6, <2>2, <2>3, <3>1, <3>2
  <2> QED BY <1>7, <2>1, <2>4 DEF Rows, Dated, Today
<1>10. Below(lots)'
  <2>1. \A s \in Seed : SeedLot(rank, s).id = rank[s]
    BY DEF SeedLot, LotOf
  <2>2. nextLot' = N + 1
    BY <1>1 DEF N
  <2> QED BY <1>3, <1>4, <1>8, <2>1, <2>2 DEF Below
<1>11. Typed'
  <2>1. lots' \subseteq LotRec
    BY <1>7 DEF Sound, Position
  <2>2. nextTx' \in Nat \ {0} /\ nextLot' \in Nat \ {0}
    BY <1>1, <1>4 DEF N
  <2> QED BY <1>1, <1>5, <2>1, <2>2 DEF Typed, Today
<1>12. Rewriting' = {}
  BY <1>1, <1>5 DEF Rewriting
<1>13. \A x \in Req : req'[x].op = "idle"
  BY <1>11, <1>12 DEF Typed, Rewriting, ReqRec
<1>14. (\A x \in Req : Recorded(x)') /\ (\A x, y \in Req : Apart(x, y)')
  BY <1>13 DEF Recorded, Apart
<1>15. \A x \in Req : AsRead(x)'
  BY <1>12 DEF AsRead
<1>16. Agree'
  BY <1>7, <1>10 DEF Agree, Sound, Below
<1>17. Shown'
  BY <1>1, <1>5 DEF LedgerInv, Shown
<1>18. NotYet'
  BY <1>1 DEF NotYet
<1> QED BY <1>9, <1>11, <1>14, <1>15, <1>16, <1>17, <1>18 DEF LedgerInv

-----------------------------------------------------------------------------
\* The invariant holds of an empty ledger.
LEMMA LedgerStarts == Init => LedgerInv
<1> SUFFICES ASSUME Init PROVE LedgerInv
  OBVIOUS
<1>1. /\ now = 1 /\ pf = "none" /\ txs = {} /\ lots = {} /\ nextTx = 1 /\ nextLot = 1
      /\ filled = [o \in Order |-> 0] /\ snaps = [d \in 1..Days |-> NoSnap]
      /\ req = [r \in Req |-> Idle] /\ raced = FALSE
  BY DEF Init
<1>2. \A r \in Req : req[r] = Idle /\ req[r].op = "idle"
  BY <1>1, IdleTyped
<1>3. Typed
  <2>1. req \in [Req -> ReqRec]
    BY <1>1, IdleTyped
  <2>2. 1 \in 1..Last
    BY LedgerAssumption
  <2>3. filled \in [Order -> Nat] /\ \A o \in Order : ~(filled[o] > 0)
    BY <1>1
  <2>4. now \in 1..Last /\ nextTx \in Nat \ {0} /\ nextLot \in Nat \ {0} /\ lots \subseteq LotRec
    BY <1>1, <2>2
  <2>5. raced \in BOOLEAN
    BY <1>1
  <2> QED BY <2>1, <2>3, <2>4, <2>5 DEF Typed
<1>4. Rows /\ Agree
  BY <1>1, NothingKept DEF Rows, Agree, Sound, Below
<1>5. Rewriting = {}
  BY <1>2 DEF Rewriting
<1>6. \A r \in Req : Recorded(r) /\ AsRead(r) /\ \A x \in Req : Apart(r, x)
  BY <1>2, <1>5 DEF Recorded, AsRead, Apart
<1>7. Shown
  <2>1. \A d \in 1..Days : snaps[d] = NoSnap
    BY <1>1
  <2> QED BY <1>1, <2>1 DEF Shown
<1>8. NotYet
  <2>1. \A d \in 1..Days : snaps[d] = NoSnap
    BY <1>1
  <2> QED BY <1>1, <1>5, <2>1 DEF NotYet
<1> QED BY <1>3, <1>4, <1>6, <1>7, <1>8 DEF LedgerInv

\* Every step keeps it.
LEMMA LedgerSteps == LedgerInv /\ [Next]_vars => LedgerInv'
<1> SUFFICES ASSUME LedgerInv, [Next]_vars PROVE LedgerInv'
  OBVIOUS
<1>1. ASSUME NEW r \in Req, Request(r) PROVE LedgerInv'
  BY <1>1, RegisterKeeps, BeginSellKeeps, CommitSellKeeps, BeginDeleteKeeps, BeginImportKeeps,
     CommitRebuildKeeps, FailKeeps DEF Request
<1>2. CASE UNCHANGED vars
  <2>1. /\ now' = now /\ UNCHANGED <<ledger, req, raced>> /\ now \in 1..Last /\ filled' = filled
        /\ snaps' = snaps /\ pf' = pf /\ now <= now' /\ txs' = txs
    BY <1>2, LedgerAssumption DEF vars, history, ledger, LedgerInv, Typed
  <2>2. Typed'
    BY <2>1 DEF LedgerInv, Typed, ledger, Today
  <2>3. Shown'
    BY <2>1, ShownSame DEF LedgerInv
  <2>4. NotYet'
    BY <2>1 DEF LedgerInv, NotYet, ledger, Rewriting
  <2> QED BY <2>1, <2>2, <2>3, <2>4, StillLedger DEF LedgerInv
<1>3. CASE Create \/ CreateFromBacktest \/ DeletePortfolio \/ TakeSnapshot \/ Repair \/ Tick
  BY <1>3, CreateKeeps, SeedKeeps, DeletePortfolioKeeps, TakeKeeps, RepairKeeps, TickKeeps
<1>4. ASSUME NEW o \in Order, Fill(o) PROVE LedgerInv'
  BY <1>4, FillKeeps
<1> QED BY <1>1, <1>2, <1>3, <1>4 DEF Next

\* The invariant behind the theorems below: requests in flight included, whatever is
\* committed by a request that was alone keeps lots, transactions and snapshots in
\* agreement.
THEOREM LedgerHolds == Spec => []LedgerInv
<1>1. Init => LedgerInv
  BY LedgerStarts
<1>2. LedgerInv /\ [Next]_vars => LedgerInv'
  BY LedgerSteps
<1> QED BY <1>1, <1>2, PTL DEF Spec

\* Lots that agree with the transactions balance the books.
LEMMA BalancedBooks == LedgerInv => BooksBalance
<1> SUFFICES ASSUME LedgerInv, ~raced
             PROVE  Holding(lots) = NetBought(txs) /\ Cash(txs) + Cost(lots) = Principal(txs) + Realized(txs)
  BY DEF BooksBalance, HoldingIsNet
<1>1. Sound(lots, txs) /\ Ledgered(txs)
  BY NowRight
<1>2. Holding(lots) = Net(txs) /\ Cost(lots) + Books(txs) = 0 /\ Cost(lots) \in Nat /\ Books(txs) \in Int
  BY <1>1, HoldingWhole, TxSums DEF Sound, Balanced, Position
<1>3. NetBought(txs) = Net(txs)
  BY <1>1, NetBoughtIs
<1>4. /\ Cash(txs) = Principal(txs) + Realized(txs) + Books(txs)
      /\ Cash(txs) \in Int /\ Principal(txs) \in Int /\ Realized(txs) \in Int
  BY <1>1, CashIs
<1>5. PICK p \in Int, g \in Int, b \in Int, c \in Nat :
        p = Principal(txs) /\ g = Realized(txs) /\ b = Books(txs) /\ c = Cost(lots)
  BY <1>2, <1>4
<1>6. c + b = 0 /\ Cash(txs) = p + g + b
  BY <1>2, <1>4, <1>5
<1>7. p + g + b + c = p + g
  BY <1>6
<1> QED BY <1>2, <1>3, <1>5, <1>6, <1>7

\* Without a race of rewrites, shares held are shares bought and not sold, and cash and
\* cost make up what was paid in and gained, for any number of requests, orders, days and
\* amounts.
THEOREM BooksBalanced == Spec => []BooksBalance
BY LedgerHolds, BalancedBooks, PTL

\* Lots that agree with the transactions had the shares of every sell.
LEMMA SellsFound == LedgerInv => SellsReplay
<1> SUFFICES ASSUME LedgerInv, ~raced PROVE Replay(txs, 1).sellsOk
  BY DEF SellsReplay
<1>1. Sound(lots, txs) /\ Ledgered(txs)
  BY NowRight
<1>2. Covered(txs)
  BY <1>1, KeptCovers DEF Sound
<1> QED BY <1>1, <1>2, ReplayGives

\* Without a race, every sell in the ledger found its shares when it was executed, so that
\* a later replay never refuses a sell.
THEOREM SellsReplayed == Spec => []SellsReplay
BY LedgerHolds, SellsFound, PTL

\* A snapshot that is shown is that of the transactions up to its close.
LEMMA PastIsTrue == LedgerInv => HistoryTrue
<1> SUFFICES ASSUME LedgerInv PROVE SnapshotsTrue /\ PnlCurve
  BY DEF HistoryTrue
<1>1. SnapshotsTrue
  <2>1. Today - 1 \in Int /\ Days \in Int
    BY LedgerAssumption DEF LedgerInv, Typed, Today, DayOf, Days
  <2>2. \A d \in 1..Min({Today - 1, Days}) : d \in 1..Days
    BY <2>1, Lesser
  <2> QED BY <2>2 DEF LedgerInv, Shown, SnapshotsTrue
<1>2. PnlCurve
  <2>1. Ledgered(txs) /\ now \in 1..Last /\ \A t \in txs : t.at >= 1
    <3>1. \A t \in txs : 1 <= t.at /\ t.at \in Int
      BY TxValues DEF LedgerInv, Rows, Ledgered, Dated
    <3> QED BY <3>1 DEF LedgerInv, Rows, Typed
  <2> QED BY <2>1, CurveIs, LedgerAssumption
<1> QED BY <1>1, <1>2

\* A past day's snapshot shows what the transactions up to its close make of it, whatever
\* was entered, deleted or imported since.
THEOREM HistoryIsTrue == Spec => []HistoryTrue
BY LedgerHolds, PastIsTrue, PTL

-----------------------------------------------------------------------------
(* Lots that differ in their numbers only. *)

SameLots(L, M, m) ==
    /\ M = {m[l] : l \in L}
    /\ \A l, k \in L : m[l] = m[k] => l = k
    /\ \A l \in L : m[l].qty = l.qty /\ m[l].price = l.price /\ m[l].at = l.at
    /\ \A l, k \in L : Earlier(m[l], m[k]) <=> Earlier(l, k)
Alike(L, M) == \E m : SameLots(L, M, m)

\* Lots alike hold the same number of shares,
LEMMA HeldAlike ==
    ASSUME NEW L, Position(L), NEW M, Position(M), NEW m, SameLots(L, M, m), NEW K, K \subseteq L
    PROVE  Holding({m[l] : l \in K}) = Holding(K)
<1> DEFINE I == {m[l] : l \in K}
           f == [l \in K |-> QtyOf[m[l]]]
<1>1. IsFiniteSet(K) /\ K \subseteq LotRec /\ I \subseteq M /\ I \subseteq LotRec
  BY FS_Subset DEF Position, SameLots
<1>2. IsFiniteSet(I)
  BY <1>1, FS_Subset DEF Position
<1>3. \A l \in K : f[l] = QtyOf[l] /\ QtyOf[m[l]] \in Int
  <2> SUFFICES ASSUME NEW l \in K PROVE QtyOf[m[l]] = QtyOf[l] /\ QtyOf[l] \in Int
    OBVIOUS
  <2>1. m[l] \in LotRec /\ l \in LotRec /\ m[l].qty = l.qty
    BY <1>1 DEF SameLots
  <2> QED BY <2>1 DEF QtyOf, LotRec
<1>4. Holding(I) = SumOver(QtyOf, I) /\ Holding(K) = SumOver(QtyOf, K) /\ Integral(QtyOf, K)
  BY <1>1, <1>2, LotSums
<1>5. \A l, k \in K : m[l] = m[k] => l = k
  BY DEF SameLots
<1>6. SumOver(QtyOf, I) = SumOver(f, K)
  BY <1>1, <1>3, <1>5, SumImage
<1>7. Integral(f, K)
  BY <1>3, <1>4 DEF Integral
<1> HIDE DEF f, I
<1>8. SumOver(f, K) = SumOver(QtyOf, K)
  BY <1>1, <1>3, <1>7, SumSame
<1> QED BY <1>4, <1>6, <1>8 DEF I

\* The same sale takes the same from them.
LEMMA TakenAlike ==
    ASSUME NEW L, Position(L), NEW M, Position(M), NEW m, SameLots(L, M, m), NEW t, Ordered(t)
    PROVE  /\ Open(M, t) = {m[l] : l \in Open(L, t)}
           /\ \A l \in Open(L, t) : Taken(M, t, {})[m[l]] = Taken(L, t, {})[l]
           /\ \A l \in L : m[l] \in M /\ TakenOf(M, t, {})[m[l]] = TakenOf(L, t, {})[l]
<1>1. Open(M, t) = {m[l] : l \in Open(L, t)} /\ \A l \in L : m[l] \in Open(M, t) <=> l \in Open(L, t)
  BY DEF Open, SameLots
<1>2. ASSUME NEW l \in Open(L, t) PROVE Taken(M, t, {})[m[l]] = Taken(L, t, {})[l]
  <2>1. Ahead(M, t, {}, m[l]) = {m[k] : k \in Ahead(L, t, {}, l)}
    <3>1. \A k \in Open(L, t) : Front(m[k], m[l], {}) <=> Front(k, l, {})
      BY DEF Front, SameLots, Open
    <3> QED BY <1>1, <3>1 DEF Ahead
  <2>2. Ahead(L, t, {}, l) \subseteq L
    BY DEF Ahead, Open
  <2>3. Holding(Ahead(M, t, {}, m[l])) = Holding(Ahead(L, t, {}, l))
    BY <2>1, <2>2, HeldAlike
  <2>4. m[l] \in Open(M, t) /\ m[l].qty = l.qty /\ t.qty \in Nat
    BY <1>1 DEF SameLots, Open, Ordered
  <2>5. Taken(M, t, {})[m[l]] = Max({0, Min({l.qty, t.qty - Holding(Ahead(L, t, {}, l))})})
    BY <2>3, <2>4 DEF Taken
  <2> QED BY <2>5 DEF Taken
<1>3. \A l \in L : m[l] \in M
  BY DEF SameLots
<1>4. \A l \in L : TakenOf(M, t, {})[m[l]] = TakenOf(L, t, {})[l]
  BY <1>1, <1>2, <1>3 DEF TakenOf
<1> QED BY <1>1, <1>2, <1>3, <1>4

\* a sale takes the same of each,
LEMMA LeftAlike ==
    ASSUME NEW L, Position(L), NEW M, Position(M), NEW m, SameLots(L, M, m), NEW t, Ordered(t),
           NEW l \in L
    PROVE  LET a == Left(L, t, {})[l]
               b == Left(M, t, {})[m[l]]
           IN  /\ b.qty = a.qty /\ b.price = a.price /\ b.at = a.at
               /\ a.id = l.id /\ b.id = m[l].id /\ a.at = l.at
<1> DEFINE a == Left(L, t, {})[l]
           b == Left(M, t, {})[m[l]]
<1>1. m[l] \in M /\ TakenOf(M, t, {})[m[l]] = TakenOf(L, t, {})[l]
  BY TakenAlike
<1>2. /\ a.qty = l.qty - TakenOf(L, t, {})[l] /\ a.id = l.id /\ a.at = l.at /\ a.price = l.price
  BY LeftIs
<1>3. /\ b.qty = m[l].qty - TakenOf(M, t, {})[m[l]] /\ b.id = m[l].id /\ b.at = m[l].at
      /\ b.price = m[l].price
  BY <1>1, LeftIs
<1>4. m[l].qty = l.qty /\ m[l].price = l.price /\ m[l].at = l.at
  BY DEF SameLots
<1> HIDE DEF a, b
<1> QED BY <1>1, <1>2, <1>3, <1>4 DEF a, b

\* and leaves lots alike, at the same profit.
LEMMA SaleAlike ==
    ASSUME NEW L, Position(L), NEW M, Position(M), Alike(L, M), NEW t, Ordered(t)
    PROVE  /\ Alike(Sale(L, t, {}).lots, Sale(M, t, {}).lots)
           /\ Sale(M, t, {}).realized = Sale(L, t, {}).realized
<1>1. PICK m : SameLots(L, M, m)
  BY DEF Alike
<1> DEFINE left(l) == Left(L, t, {})[l]
           left2(k) == Left(M, t, {})[k]
           A == {x \in {left(l) : l \in L} : x.qty > 0}
           B == {x \in {left2(k) : k \in M} : x.qty > 0}
           who(x) == CHOOSE l \in L : left(l) = x
           h == [x \in A |-> left2(m[who(x)])]
<1>2. A = Sale(L, t, {}).lots /\ B = Sale(M, t, {}).lots
  BY SaleIs
<1>3. \A l \in L : /\ left2(m[l]).qty = left(l).qty /\ left2(m[l]).price = left(l).price
                   /\ left2(m[l]).at = left(l).at
                   /\ left(l).id = l.id /\ left2(m[l]).id = m[l].id /\ left(l).at = l.at /\ m[l].at = l.at
  BY <1>1, LeftAlike DEF SameLots
<1> HIDE DEF left, left2
<1>4. \A l, k \in L : left(l) = left(k) => l = k
  BY <1>3 DEF Position, Distinct
<1>5. \A x \in A : who(x) \in L /\ left(who(x)) = x
  OBVIOUS
<1>6. \A l \in L : left(l) \in A => who(left(l)) = l
  BY <1>4, <1>5
<1> HIDE DEF who
<1>7. B = {h[x] : x \in A}
  <2>1. \A x \in A : h[x] \in B
    <3> SUFFICES ASSUME NEW x \in A PROVE left2(m[who(x)]) \in B
      OBVIOUS
    <3>1. who(x) \in L /\ left(who(x)) = x /\ x.qty > 0
      BY <1>5
    <3>2. m[who(x)] \in M /\ left2(m[who(x)]).qty = x.qty
      BY <1>1, <1>3, <3>1 DEF SameLots
    <3> QED BY <3>1, <3>2
  <2>2. \A y \in B : \E x \in A : y = h[x]
    <3> SUFFICES ASSUME NEW y \in B PROVE \E x \in A : y = h[x]
      OBVIOUS
    <3>1. PICK k \in M : y = left2(k)
      OBVIOUS
    <3>2. PICK l \in L : k = m[l]
      BY <1>1 DEF SameLots
    <3>3. left(l).qty = y.qty /\ y.qty > 0
      BY <1>3, <3>1, <3>2
    <3>4. left(l) \in A
      BY <3>3
    <3>5. h[left(l)] = y
      BY <1>6, <3>1, <3>2, <3>4
    <3> QED BY <3>4, <3>5
  <2> HIDE DEF A, B, h
  <2> QED BY <2>1, <2>2
<1>8. \A x \in A : /\ h[x].qty = x.qty /\ h[x].price = x.price /\ h[x].at = x.at
                   /\ h[x].id = m[who(x)].id /\ x.id = who(x).id /\ x.at = who(x).at
                   /\ m[who(x)].at = who(x).at
  <2> SUFFICES ASSUME NEW x \in A
               PROVE  /\ h[x].qty = x.qty /\ h[x].price = x.price /\ h[x].at = x.at
                      /\ h[x].id = m[who(x)].id /\ x.id = who(x).id /\ x.at = who(x).at
                      /\ m[who(x)].at = who(x).at
    OBVIOUS
  <2>1. who(x) \in L /\ left(who(x)) = x /\ h[x] = left2(m[who(x)])
    BY <1>5
  <2> HIDE DEF A, h
  <2> QED BY <1>3, <2>1
<1>9. \A x, y \in A : h[x] = h[y] => x = y
  <2> SUFFICES ASSUME NEW x \in A, NEW y \in A, h[x] = h[y] PROVE x = y
    OBVIOUS
  <2>1. who(x) \in L /\ who(y) \in L /\ left(who(x)) = x /\ left(who(y)) = y
    BY <1>5
  <2>2. m[who(x)].id = m[who(y)].id
    <3> HIDE DEF A, h
    <3> QED BY <1>8
  <2>3. m[who(x)] = m[who(y)]
    BY <1>1, <2>1, <2>2 DEF SameLots, Position, Distinct
  <2> QED BY <1>1, <2>1, <2>3 DEF SameLots
<1>10. \A x, y \in A : Earlier(h[x], h[y]) <=> Earlier(x, y)
  <2> SUFFICES ASSUME NEW x \in A, NEW y \in A PROVE Earlier(h[x], h[y]) <=> Earlier(x, y)
    OBVIOUS
  <2>1. who(x) \in L /\ who(y) \in L
    BY <1>5
  <2>2. Earlier(m[who(x)], m[who(y)]) <=> Earlier(who(x), who(y))
    BY <1>1, <2>1 DEF SameLots
  <2> HIDE DEF A, h
  <2>3. Earlier(x, y) <=> Earlier(who(x), who(y))
    BY <1>8 DEF Earlier
  <2>4. Earlier(h[x], h[y]) <=> Earlier(m[who(x)], m[who(y)])
    BY <1>8 DEF Earlier
  <2> QED BY <2>2, <2>3, <2>4
<1>11. Alike(A, B)
  <2>1. SameLots(A, B, h)
    <3> HIDE DEF A, B, h
    <3> QED BY <1>7, <1>8, <1>9, <1>10 DEF SameLots
  <2> QED BY <2>1 DEF Alike
<1>12. Sale(M, t, {}).realized = Sale(L, t, {}).realized
  <2> DEFINE O == Open(L, t)
             f == Profit(M, t, {})
             g == Profit(L, t, {})
             k == [l \in O |-> f[m[l]]]
  <2>1. O \subseteq L /\ IsFiniteSet(O) /\ \A l, n \in O : m[l] = m[n] => l = n
    BY <1>1, FS_Subset DEF Open, Position, SameLots
  <2>2. Open(M, t) = {m[l] : l \in O} /\ \A l \in O : Taken(M, t, {})[m[l]] = Taken(L, t, {})[l]
    BY <1>1, TakenAlike
  <2>3. \A l \in O : f[m[l]] = g[l] /\ g[l] \in Int
    <3> SUFFICES ASSUME NEW l \in O PROVE f[m[l]] = g[l] /\ g[l] \in Int
      OBVIOUS
    <3>1. m[l] \in Open(M, t) /\ m[l].price = l.price /\ l.price \in Nat /\ l.qty \in Nat
      BY <1>1, <2>1, <2>2 DEF SameLots, Position, LotRec
    <3>2. f[m[l]] = (t.price - l.price) * Taken(L, t, {})[l]
      BY <2>2, <3>1 DEF Profit
    <3>3. g[l] = (t.price - l.price) * Taken(L, t, {})[l]
      BY DEF Profit
    <3>4. Taken(L, t, {})[l] \in 0..l.qty
      BY TakenWithin DEF Ordered
    <3>5. Taken(L, t, {})[l] \in Int /\ t.price - l.price \in Int
      BY <3>1, <3>4 DEF Ordered
    <3>6. (t.price - l.price) * Taken(L, t, {})[l] \in Int
      <4> DEFINE p == t.price - l.price
                 q == Taken(L, t, {})[l]
      <4>1. p \in Int /\ q \in Int
        BY <3>5
      <4> HIDE DEF p, q
      <4>2. p * q \in Int
        BY <4>1
      <4> QED BY <4>2 DEF p, q
    <3> QED BY <3>2, <3>3, <3>6
  <2> HIDE DEF O, f, g
  <2>4. \A l \in O : k[l] = g[l] /\ f[m[l]] \in Int
    BY <2>3
  <2>5. SumOver(f, {m[l] : l \in O}) = SumOver(k, O)
    BY <2>1, <2>4, SumImage
  <2>6. Integral(k, O)
    BY <2>3, <2>4 DEF Integral
  <2> HIDE DEF k
  <2>7. SumOver(k, O) = SumOver(g, O)
    BY <2>1, <2>4, <2>6, SumSame
  <2>8. Sale(L, t, {}).realized = SumOver(g, O) /\ Sale(M, t, {}).realized = SumOver(f, Open(M, t))
    BY SaleIs DEF f, g, O
  <2> QED BY <2>2, <2>5, <2>7, <2>8
<1> QED BY <1>2, <1>11, <1>12

\* So does a lot that comes last in both.
LEMMA LotAlike ==
    ASSUME NEW L, NEW M, Alike(L, M), NEW l, NEW k, k.qty = l.qty, k.price = l.price, k.at = l.at,
           \A x \in L : Earlier(x, l) /\ ~Earlier(l, x), ~Earlier(l, l),
           \A y \in M : Earlier(y, k) /\ ~Earlier(k, y), ~Earlier(k, k)
    PROVE  Alike(L \cup {l}, M \cup {k})
<1>1. PICK m : SameLots(L, M, m)
  BY DEF Alike
<1> DEFINE h == [x \in L \cup {l} |-> IF x = l THEN k ELSE m[x]]
<1>2. l \notin L /\ k \notin M
  OBVIOUS
<1>3. h[l] = k /\ \A x \in L : h[x] = m[x] /\ m[x] \in M
  BY <1>1, <1>2 DEF SameLots
<1> HIDE DEF h
<1>4. M \cup {k} = {h[x] : x \in L \cup {l}}
  BY <1>1, <1>3 DEF SameLots
<1>5. \A x, y \in L \cup {l} : h[x] = h[y] => x = y
  BY <1>1, <1>2, <1>3 DEF SameLots
<1>6. \A x \in L \cup {l} : h[x].qty = x.qty /\ h[x].price = x.price /\ h[x].at = x.at
  BY <1>1, <1>3 DEF SameLots
<1>7. \A x, y \in L \cup {l} : Earlier(h[x], h[y]) <=> Earlier(x, y)
  <2> SUFFICES ASSUME NEW x \in L \cup {l}, NEW y \in L \cup {l}
               PROVE  Earlier(h[x], h[y]) <=> Earlier(x, y)
    OBVIOUS
  <2>1. CASE x \in L /\ y \in L
    BY <1>1, <1>3, <2>1 DEF SameLots
  <2>2. CASE x = l \/ y = l
    BY <1>3, <2>2
  <2> QED BY <2>1, <2>2
<1> QED BY <1>4, <1>5, <1>6, <1>7 DEF SameLots, Alike

-----------------------------------------------------------------------------
\* A replay goes on with the transaction that comes last.
LEMMA NoneReplayed == ASSUME NEW first PROVE Replay({}, first) = NoTrades(first)
<1>1. IsFiniteSet({}) /\ Cardinality({}) = 0
  BY FS_EmptySet
<1>2. PICK f : Runs(f, "replay", NoTrades(first), {}) /\ Replay({}, first) = f[Cardinality({})]
  BY <1>1, ReplayRuns
<1> QED BY <1>1, <1>2, RunSteps

\* A replay of one more transaction, which comes last, is one more step.
LEMMA LastReplayed ==
    ASSUME NEW S, NEW t, Follows(S, t), NEW first
    PROVE  Replay(S \cup {t}, first) = Replayed(Replay(S, first), t)
<1> DEFINE R == S \cup {t}
           N == Cardinality(S)
<1>1. Ledgered(R) /\ Ledgered(S) /\ t \notin S /\ \A u \in S : Earlier(u, t)
  BY FollowsIs DEF Follows
<1>2. N \in Nat /\ Cardinality(R) = N + 1
  BY <1>1, FS_AddElement, FS_CardinalityType DEF Ledgered
<1> HIDE DEF N
<1>3. \A u \in S : Rank(R, u) = Rank(S, u) /\ Rank(S, u) \in Nat
  <2> SUFFICES ASSUME NEW u \in S PROVE Rank(R, u) = Rank(S, u) /\ Rank(S, u) \in Nat
    OBVIOUS
  <2>1. ~Earlier(t, u)
    BY <1>1, EarlierOrders
  <2>2. Before(R, u) = Before(S, u)
    BY <2>1 DEF Before
  <2> QED BY <1>1, <2>2, RankGrows DEF Rank
<1>4. Rank(R, t) = N
  <2>1. ~Earlier(t, t)
    BY <1>1, EarlierOrders
  <2>2. Before(R, t) = S
    BY <1>1, <2>1 DEF Before
  <2> QED BY <2>2 DEF Rank, N
<1>5. \A n \in 1..N : Nth(R, n) = Nth(S, n)
  <2> SUFFICES ASSUME NEW n \in 1..N PROVE Nth(R, n) = Nth(S, n)
    OBVIOUS
  <2>1. Nth(S, n) \in S /\ Rank(S, Nth(S, n)) = n - 1
    BY <1>1, RankTaken DEF N
  <2>2. n \in 1..Cardinality(R)
    BY <1>2
  <2>3. Nth(R, n) \in R /\ Rank(R, Nth(R, n)) = n - 1
    BY <1>1, <2>2, RankTaken
  <2>4. Rank(R, Nth(S, n)) = n - 1 /\ Nth(S, n) \in R
    BY <1>3, <2>1
  <2> QED BY <1>1, <2>3, <2>4, RankGrows
<1>6. Nth(R, N + 1) = t
  <2>1. PICK k \in 1..Cardinality(R) : k = N + 1
    BY <1>2
  <2>2. Nth(R, k) \in R /\ Rank(R, Nth(R, k)) = k - 1
    BY <1>1, RankTaken
  <2>3. Rank(R, Nth(R, k)) = Rank(R, t) /\ t \in R
    BY <1>2, <1>4, <2>1, <2>2
  <2>4. Nth(R, k) = t
    BY <1>1, <2>2, <2>3, RankGrows
  <2> HIDE DEF R
  <2> QED BY <2>1, <2>4
<1>7. PICK f : Runs(f, "replay", NoTrades(first), S) /\ Replay(S, first) = f[N]
  BY <1>1, ReplayRuns DEF Ledgered, N
<1>8. PICK g : Runs(g, "replay", NoTrades(first), R) /\ Replay(R, first) = g[N + 1]
  BY <1>1, <1>2, ReplayRuns DEF Ledgered
<1>9. /\ f[0] = NoTrades(first)
      /\ \A n \in 1..N : f[n] = Replayed(f[n - 1], Nth(S, n))
  BY <1>1, <1>7, RunSteps DEF Ledgered, Fold, N
<1>10. /\ g[0] = NoTrades(first)
       /\ \A n \in 1..(N + 1) : g[n] = Replayed(g[n - 1], Nth(R, n))
  <2>1. /\ g[0] = NoTrades(first)
        /\ \A n \in 1..Cardinality(R) : g[n] = Fold("replay", g[n - 1], Nth(R, n))
    BY <1>1, <1>8, RunSteps DEF Ledgered
  <2> HIDE DEF R
  <2> QED BY <1>2, <2>1 DEF Fold
<1> DEFINE Bad == {n \in 0..N : f[n] # g[n]}
<1>11. Bad = {}
  <2> SUFFICES ASSUME Bad # {} PROVE FALSE
    OBVIOUS
  <2>1. PICK n \in Bad : \A k \in Bad : n <= k
    <3>1. Bad \subseteq Nat
      BY <1>2
    <3> HIDE DEF Bad
    <3> QED BY <3>1, LeastNumber
  <2>2. n # 0 /\ n \in 1..N /\ n \in 1..(N + 1)
    BY <1>2, <1>9, <1>10, <2>1
  <2>3. f[n - 1] = g[n - 1]
    <3>1. n - 1 \in 0..N /\ ~(n <= n - 1)
      BY <1>2, <2>2
    <3> QED BY <2>1, <3>1
  <2> QED BY <1>5, <1>9, <1>10, <2>1, <2>2, <2>3
<1>12. f[N] = g[N]
  BY <1>2, <1>11
<1>13. PICK k \in 1..(N + 1) : k = N + 1 /\ k - 1 = N
  BY <1>2
<1>14. g[k] = Replayed(g[k - 1], Nth(R, k))
  BY <1>10
<1> HIDE DEF R
<1>15. g[k] = Replayed(g[N], t)
  BY <1>6, <1>13, <1>14
<1> QED BY <1>7, <1>8, <1>12, <1>13, <1>15 DEF R

\* A replay of rows with new profits is theirs.
LEMMA ReplayedSame ==
    ASSUME NEW q, NEW t \in TxRec, NEW gain, Gains(gain)
    PROVE  Replayed(q, NewRow(t, gain)) = Replayed(q, t)
<1> DEFINE v == NewRow(t, gain)
<1>1. /\ v.id = t.id /\ v.kind = t.kind /\ v.qty = t.qty /\ v.price = t.price /\ v.at = t.at
  BY NewRowIs
<1> HIDE DEF v
<1>2. Signed(v) = Signed(t)
  BY <1>1 DEF Signed, Amount
<1>3. /\ Sale(q.lots, v, {}).lots = Sale(q.lots, t, {}).lots
      /\ Sale(q.lots, v, {}).held = Sale(q.lots, t, {}).held
      /\ Sale(q.lots, v, {}).realized = Sale(q.lots, t, {}).realized
  BY <1>1, SaleSame
<1>4. LotOf(q.next, v, NoTag) = LotOf(q.next, t, NoTag)
  BY <1>1 DEF LotOf
<1> DEFINE sv == Signed(v)
           st == Signed(t)
           kv == Sale(q.lots, v, {}).lots
           kt == Sale(q.lots, t, {}).lots
           hv == Sale(q.lots, v, {}).held
           ht == Sale(q.lots, t, {}).held
           gv == Sale(q.lots, v, {}).realized
           gt == Sale(q.lots, t, {}).realized
           bv == LotOf(q.next, v, NoTag)
           bt == LotOf(q.next, t, NoTag)
           Step(u, s, k, h, g, b) ==
             CASE u.kind = "deposit"  -> [q EXCEPT !.cash = @ + s]
               [] u.kind = "withdraw" -> [[q EXCEPT !.cash = @ + s] EXCEPT
                                            !.ok = @ /\ [q EXCEPT !.cash = @ + s].cash >= 0]
               [] u.kind = "buy"      -> [[q EXCEPT !.cash = @ + s] EXCEPT
                                            !.lots = @ \cup {b}, !.next = @ + 1]
               [] u.kind = "sell"     -> [[q EXCEPT !.cash = @ + s] EXCEPT
                                            !.lots = k, !.gain = @ \cup {<<u.id, g>>},
                                            !.ok = @ /\ u.qty <= h, !.sellsOk = @ /\ u.qty <= h]
<1>5. Replayed(q, t) = Step(t, st, kt, ht, gt, bt)
  BY DEF Replayed
<1>6. Replayed(q, v) = Step(v, sv, kv, hv, gv, bv)
  BY DEF Replayed
<1>7. sv = st /\ kv = kt /\ hv = ht /\ gv = gt /\ bv = bt
  BY <1>2, <1>3, <1>4
<1> HIDE DEF sv, st, kv, kt, hv, ht, gv, gt, bv, bt
<1>8. Step(v, st, kt, ht, gt, bt) = Step(t, st, kt, ht, gt, bt)
  BY <1>1
<1> HIDE DEF Step
<1>9. Replayed(q, v) = Replayed(q, t)
  BY <1>5, <1>6, <1>7, <1>8
<1> QED BY <1>9 DEF v

\* A replay does not look at the profits recorded.
LEMMA ReplaySame ==
    ASSUME NEW T, Ledgered(T), NEW gain, Gains(gain), NEW first
    PROVE  Replay(Revalued(T, gain), first) = Replay(T, first)
<1> DEFINE V == Revalued(T, gain)
<1>0. Ledgered(V) /\ Cardinality(V) = Cardinality(T) /\ Cardinality(T) \in Nat
      /\ \A n \in 1..Cardinality(T) : Nth(V, n) = NewRow(Nth(T, n), gain) /\ Nth(T, n) \in TxRec
  <2>1. \A n \in 1..Cardinality(T) : Nth(T, n) \in TxRec
    BY RankTaken DEF Ledgered
  <2> QED BY <2>1, RevaluedIs, NthSame, FS_CardinalityType DEF Ledgered
<1> HIDE DEF V
<1>1. PICK f : Runs(f, "replay", NoTrades(first), T) /\ Replay(T, first) = f[Cardinality(T)]
  BY ReplayRuns DEF Ledgered
<1>2. PICK g : Runs(g, "replay", NoTrades(first), V) /\ Replay(V, first) = g[Cardinality(V)]
  BY <1>0, ReplayRuns DEF Ledgered
<1>3. /\ f[0] = NoTrades(first)
      /\ \A n \in 1..Cardinality(T) : f[n] = Replayed(f[n - 1], Nth(T, n))
  BY <1>1, RunSteps DEF Ledgered, Fold
<1>4. /\ g[0] = NoTrades(first)
      /\ \A n \in 1..Cardinality(T) : g[n] = Replayed(g[n - 1], Nth(V, n))
  BY <1>0, <1>2, RunSteps DEF Ledgered, Fold
<1> DEFINE Bad == {n \in 0..Cardinality(T) : f[n] # g[n]}
<1>5. Bad = {}
  <2> SUFFICES ASSUME Bad # {} PROVE FALSE
    OBVIOUS
  <2>1. PICK n \in Bad : \A k \in Bad : n <= k
    <3>1. Bad \subseteq Nat
      OBVIOUS
    <3> HIDE DEF Bad
    <3> QED BY <3>1, LeastNumber
  <2>2. n # 0 /\ n \in 1..Cardinality(T)
    BY <1>0, <1>3, <1>4, <2>1
  <2>3. f[n - 1] = g[n - 1]
    <3>1. n - 1 \in 0..Cardinality(T) /\ ~(n <= n - 1)
      BY <1>0, <2>2
    <3> QED BY <2>1, <3>1
  <2>4. Replayed(g[n - 1], Nth(V, n)) = Replayed(g[n - 1], Nth(T, n))
    BY <1>0, <2>2, ReplayedSame
  <2> QED BY <1>3, <1>4, <2>1, <2>2, <2>3, <2>4
<1> QED BY <1>0, <1>1, <1>2, <1>5 DEF V

-----------------------------------------------------------------------------
\* What a replay makes: lots with numbers and dates of their own, and one profit per sell.
LEMMA ReplayTyped ==
    ASSUME NEW S, Ledgered(S), NEW first \in Int
    PROVE  /\ Replay(S, first) \in ReplayRec /\ Position(Replay(S, first).lots)
           /\ Gains(Replay(S, first).gain)
           /\ \A l \in Replay(S, first).lots :
                 l \in LotRec /\ l.id < Replay(S, first).next /\ \E u \in S : l.at = u.at
           /\ \A g \in Replay(S, first).gain : \E u \in S : g[1] = u.id
           /\ \A g, h \in Replay(S, first).gain : g[1] = h[1] => g = h
           /\ Replay(S, first).next \in Int
<1>1. Shaped(Replay(S, first), S, first)
  BY ReplayAgrees DEF Agrees
<1> DEFINE r == Replay(S, first)
<1>2. Shaped(r, S, first)
  BY <1>1
<1> HIDE DEF r
<1>3. r \in ReplayRec /\ Position(r.lots) /\ r.next \in Int /\ Gains(r.gain)
  BY <1>2 DEF Shaped, ReplayRec, Gains
<1>4. \A l \in r.lots : l \in LotRec /\ l.id < r.next /\ \E u \in S : l.at = u.at
  BY <1>2 DEF Shaped, Position
<1>5. /\ \A g \in r.gain : \E u \in S : g[1] = u.id
      /\ \A g, h \in r.gain : g[1] = h[1] => g = h
  BY <1>2 DEF Shaped
<1> QED BY <1>3, <1>4, <1>5 DEF r

\* What is bought and sold decides the lots of a replay and its profits.
Moves(T) == OfKind(T, {"buy", "sell"})
SameMoves(r, q) == r.lots = q.lots /\ r.next = q.next /\ r.gain = q.gain

\* The next transaction is the next that moves lots, or moves none.
LEMMA MovesFollow ==
    ASSUME NEW S, NEW t, Follows(S, t)
    PROVE  /\ t.kind \in {"deposit", "withdraw"} => Moves(S \cup {t}) = Moves(S)
           /\ t.kind \in {"buy", "sell"} => Moves(S \cup {t}) = Moves(S) \cup {t} /\ Follows(Moves(S), t)
           /\ t.kind \in {"deposit", "withdraw", "buy", "sell"}
           /\ Ledgered(Moves(S))
<1>1. t.kind \in {"deposit", "withdraw", "buy", "sell"} /\ Ledgered(S) /\ Moves(S) \subseteq S
  BY FollowsIs, TxValues DEF Kinds, Moves, OfKind
<1>2. t.kind \in {"buy", "sell"} => Moves(S \cup {t}) = Moves(S) \cup {t}
  BY DEF Moves, OfKind
<1>3. Ledgered(Moves(S)) /\ Ledgered(Moves(S \cup {t}))
  <2>1. Moves(S \cup {t}) \subseteq S \cup {t}
    BY DEF Moves, OfKind
  <2> QED BY <1>1, <2>1, LedgeredPart DEF Follows
<1>4. t.kind \in {"buy", "sell"} => Follows(Moves(S), t)
  BY <1>1, <1>2, <1>3 DEF Follows
<1>5. t.kind \in {"deposit", "withdraw"} => Moves(S \cup {t}) = Moves(S)
  BY DEF Moves, OfKind
<1> QED BY <1>1, <1>2, <1>3, <1>4, <1>5

\* Deposits and withdrawals do not matter to lots and profits.
LEMMA StepSame ==
    ASSUME NEW r \in ReplayRec, Position(r.lots), NEW q \in ReplayRec, SameMoves(r, q), NEW t \in TxRec
    PROVE  /\ t.kind \in {"deposit", "withdraw"} => SameMoves(Replayed(r, t), q)
           /\ t.kind \in {"buy", "sell"} => SameMoves(Replayed(r, t), Replayed(q, t))
<1>1. r.lots = q.lots /\ r.next = q.next /\ r.gain = q.gain
  BY DEF SameMoves
<1>2. t.kind \in {"deposit", "withdraw"} => SameMoves(Replayed(r, t), q)
  BY <1>1, ReplayedFlow DEF SameMoves
<1>3. ASSUME t.kind = "buy" PROVE SameMoves(Replayed(r, t), Replayed(q, t))
  <2>1. /\ Replayed(r, t).lots = r.lots \cup {LotOf(r.next, t, NoTag)}
        /\ Replayed(r, t).next = r.next + 1 /\ Replayed(r, t).gain = r.gain
    BY <1>3, ReplayedBuy
  <2>2. /\ Replayed(q, t).lots = q.lots \cup {LotOf(q.next, t, NoTag)}
        /\ Replayed(q, t).next = q.next + 1 /\ Replayed(q, t).gain = q.gain
    BY <1>3, ReplayedBuy
  <2> QED BY <1>1, <2>1, <2>2 DEF SameMoves
<1>4. ASSUME t.kind = "sell" PROVE SameMoves(Replayed(r, t), Replayed(q, t))
  <2>1. /\ Replayed(r, t).lots = Sale(r.lots, t, {}).lots /\ Replayed(r, t).next = r.next
        /\ Replayed(r, t).gain = r.gain \cup {<<t.id, Sale(r.lots, t, {}).realized>>}
    BY <1>4, ReplayedSell
  <2>2. /\ Replayed(q, t).lots = Sale(q.lots, t, {}).lots /\ Replayed(q, t).next = q.next
        /\ Replayed(q, t).gain = q.gain \cup {<<t.id, Sale(q.lots, t, {}).realized>>}
    BY <1>1, <1>4, ReplayedSell
  <2> QED BY <1>1, <2>1, <2>2 DEF SameMoves
<1> QED BY <1>2, <1>3, <1>4

\* So a replay of the trades alone makes the same lots and profits.
LEMMA Sifted ==
    ASSUME NEW T, Ledgered(T), NEW first \in Int
    PROVE  SameMoves(Replay(T, first), Replay(Moves(T), first))
<1> DEFINE N == Cardinality(T)
           Good(n) == SameMoves(Replay(FirstOf(T, n), first), Replay(Moves(FirstOf(T, n)), first))
           Bad == {n \in 0..N : ~Good(n)}
<1>1. N \in Nat
  BY FS_CardinalityType DEF Ledgered
<1>2. Good(0)
  <2>1. FirstOf(T, 0) = {} /\ Moves({}) = {}
    BY FirstGrows DEF Moves, OfKind
  <2> QED BY <2>1 DEF SameMoves
<1>3. ASSUME NEW n \in 1..N, Good(n - 1) PROVE Good(n)
  <2> DEFINE S == FirstOf(T, n - 1)
             t == Nth(T, n)
             r == Replay(S, first)
             q == Replay(Moves(S), first)
  <2>1. Follows(S, t) /\ FirstOf(T, n) = S \cup {t}
    BY NextFollows
  <2>2. SameMoves(r, q)
    BY <1>3
  <2> HIDE DEF S, t
  <2>3. Ledgered(S) /\ t \in TxRec /\ Ledgered(Moves(S))
    BY <2>1, FollowsIs, MovesFollow
  <2>4. r \in ReplayRec /\ Position(r.lots) /\ q \in ReplayRec
    BY <2>3, ReplayTyped
  <2>5. Replay(S \cup {t}, first) = Replayed(r, t)
    BY <2>1, LastReplayed
  <2>6. CASE t.kind \in {"deposit", "withdraw"}
    <3>1. Replay(Moves(S \cup {t}), first) = q
      BY <2>1, <2>6, MovesFollow
    <3> HIDE DEF r, q
    <3>2. SameMoves(Replayed(r, t), q)
      BY <2>2, <2>3, <2>4, <2>6, StepSame
    <3> QED BY <2>1, <2>5, <3>1, <3>2
  <2>7. CASE t.kind \in {"buy", "sell"}
    <3>1. Moves(S \cup {t}) = Moves(S) \cup {t} /\ Follows(Moves(S), t)
      BY <2>1, <2>7, MovesFollow
    <3>2. Replay(Moves(S \cup {t}), first) = Replayed(q, t)
      BY <3>1, LastReplayed
    <3> HIDE DEF r, q
    <3>3. SameMoves(Replayed(r, t), Replayed(q, t))
      BY <2>2, <2>3, <2>4, <2>7, StepSame
    <3> QED BY <2>1, <2>5, <3>2, <3>3
  <2> QED BY <2>1, <2>6, <2>7, MovesFollow
<1>4. Good(N)
  <2> HIDE DEF Good
  <2>0. N \in 0..N
    BY <1>1
  <2> HIDE DEF N
  <2> SUFFICES ASSUME Bad # {} PROVE FALSE
    BY <2>0
  <2>1. Bad \subseteq Nat
    BY <1>1
  <2>2. PICK n \in Bad : \A k \in Bad : n <= k
    <3> HIDE DEF Bad
    <3> QED BY <2>1, LeastNumber
  <2>3. n \in 1..N /\ ~Good(n)
    BY <1>1, <1>2, <2>2
  <2>4. n - 1 \in 0..N /\ ~(n <= n - 1)
    BY <1>1, <2>3
  <2>5. Good(n - 1)
    BY <2>2, <2>4
  <2> QED BY <1>3, <2>3, <2>5
<1> QED BY <1>4, FirstGrows

\* The numbers a replay gives the lots do not matter.
SameUpToNumbers(r, q) == Alike(r.lots, q.lots) /\ r.gain = q.gain

\* A lot bought last comes last.
LEMMA LotLast ==
    ASSUME NEW S, NEW t, Follows(S, t), NEW first \in Int
    PROVE  LET r == Replay(S, first)
               l == LotOf(r.next, t, NoTag)
           IN  /\ l.qty = t.qty /\ l.price = t.price /\ l.at = t.at /\ ~Earlier(l, l)
               /\ \A x \in r.lots : Earlier(x, l) /\ ~Earlier(l, x)
<1> DEFINE r == Replay(S, first)
           l == LotOf(r.next, t, NoTag)
<1>1. Ledgered(S) /\ t \in TxRec /\ t.at \in Int /\ \A u \in S : u.at <= t.at
  BY FollowsIs, TxValues
<1>2. /\ \A x \in r.lots : x \in LotRec /\ x.id < r.next /\ \E u \in S : x.at = u.at
      /\ r.next \in Int
  BY <1>1, ReplayTyped
<1>3. l.id = r.next /\ l.qty = t.qty /\ l.price = t.price /\ l.at = t.at
  BY DEF LotOf
<1> HIDE DEF r, l
<1>4. \A x \in r.lots : Earlier(x, l) /\ ~Earlier(l, x)
  <2> SUFFICES ASSUME NEW x \in r.lots PROVE Earlier(x, l) /\ ~Earlier(l, x)
    OBVIOUS
  <2>1. x.at <= t.at /\ x.at \in Int /\ x.id \in Int /\ x.id < r.next
    BY <1>1, <1>2 DEF LotRec
  <2> QED BY <1>1, <1>2, <1>3, <2>1 DEF Earlier
<1>5. ~Earlier(l, l)
  BY <1>1, <1>2, <1>3 DEF Earlier
<1> QED BY <1>3, <1>4, <1>5 DEF r, l

\* The numbers given to lots do not matter to one step,
LEMMA ShiftedStep ==
    ASSUME NEW S, NEW t, Follows(S, t), NEW a \in Int, NEW b \in Int,
           SameUpToNumbers(Replay(S, a), Replay(S, b))
    PROVE  SameUpToNumbers(Replay(S \cup {t}, a), Replay(S \cup {t}, b))
<1> DEFINE r == Replay(S, a)
           q == Replay(S, b)
<1>1. Ledgered(S) /\ t \in TxRec /\ Ordered(t) /\ t.kind \in {"deposit", "withdraw", "buy", "sell"}
  BY FollowsIs, MovesFollow
<1>2. r \in ReplayRec /\ Position(r.lots) /\ q \in ReplayRec /\ Position(q.lots)
  BY <1>1, ReplayTyped
<1>3. Replay(S \cup {t}, a) = Replayed(r, t) /\ Replay(S \cup {t}, b) = Replayed(q, t)
  BY LastReplayed
<1>4. Alike(r.lots, q.lots) /\ r.gain = q.gain
  BY DEF SameUpToNumbers
<1> DEFINE l == LotOf(r.next, t, NoTag)
           k == LotOf(q.next, t, NoTag)
<1>5. /\ k.qty = l.qty /\ k.price = l.price /\ k.at = l.at
      /\ (\A x \in r.lots : Earlier(x, l) /\ ~Earlier(l, x)) /\ ~Earlier(l, l)
      /\ (\A y \in q.lots : Earlier(y, k) /\ ~Earlier(k, y)) /\ ~Earlier(k, k)
  <2>1. /\ l.qty = t.qty /\ l.price = t.price /\ l.at = t.at /\ ~Earlier(l, l)
        /\ \A x \in r.lots : Earlier(x, l) /\ ~Earlier(l, x)
    BY LotLast
  <2>2. /\ k.qty = t.qty /\ k.price = t.price /\ k.at = t.at /\ ~Earlier(k, k)
        /\ \A x \in q.lots : Earlier(x, k) /\ ~Earlier(k, x)
    BY LotLast
  <2> HIDE DEF r, q, l, k
  <2> QED BY <2>1, <2>2
<1>6. CASE t.kind \in {"deposit", "withdraw"}
  <2> HIDE DEF r, q
  <2> QED BY <1>1, <1>2, <1>3, <1>4, <1>6, ReplayedFlow DEF SameUpToNumbers
<1>7. CASE t.kind = "buy"
  <2> HIDE DEF r, q
  <2>1. Replayed(r, t).lots = r.lots \cup {l} /\ Replayed(r, t).gain = r.gain
    BY <1>1, <1>2, <1>7, ReplayedBuy
  <2>2. Replayed(q, t).lots = q.lots \cup {k} /\ Replayed(q, t).gain = q.gain
    BY <1>1, <1>2, <1>7, ReplayedBuy
  <2> HIDE DEF l, k
  <2>3. Alike(r.lots \cup {l}, q.lots \cup {k})
    BY <1>4, <1>5, LotAlike
  <2> QED BY <1>3, <1>4, <2>1, <2>2, <2>3 DEF SameUpToNumbers
<1>8. CASE t.kind = "sell"
  <2> HIDE DEF r, q
  <2>1. /\ Replayed(r, t).lots = Sale(r.lots, t, {}).lots
        /\ Replayed(r, t).gain = r.gain \cup {<<t.id, Sale(r.lots, t, {}).realized>>}
    BY <1>1, <1>2, <1>8, ReplayedSell
  <2>2. /\ Replayed(q, t).lots = Sale(q.lots, t, {}).lots
        /\ Replayed(q, t).gain = q.gain \cup {<<t.id, Sale(q.lots, t, {}).realized>>}
    BY <1>1, <1>2, <1>8, ReplayedSell
  <2>3. /\ Alike(Sale(r.lots, t, {}).lots, Sale(q.lots, t, {}).lots)
        /\ Sale(q.lots, t, {}).realized = Sale(r.lots, t, {}).realized
    BY <1>1, <1>2, <1>4, SaleAlike
  <2> QED BY <1>3, <1>4, <2>1, <2>2, <2>3 DEF SameUpToNumbers
<1> QED BY <1>1, <1>6, <1>7, <1>8

\* nor to a whole replay.
LEMMA Shifted ==
    ASSUME NEW T, Ledgered(T), NEW a \in Int, NEW b \in Int
    PROVE  SameUpToNumbers(Replay(T, a), Replay(T, b))
<1> DEFINE N == Cardinality(T)
           Good(n) == SameUpToNumbers(Replay(FirstOf(T, n), a), Replay(FirstOf(T, n), b))
           Bad == {n \in 0..N : ~Good(n)}
<1>1. N \in Nat
  BY FS_CardinalityType DEF Ledgered
<1>2. Good(0)
  <2>1. FirstOf(T, 0) = {}
    BY FirstGrows
  <2>2. /\ Replay({}, a).lots = {} /\ Replay({}, b).lots = {}
        /\ Replay({}, a).gain = {} /\ Replay({}, b).gain = {}
    BY NoneReplayed DEF NoTrades
  <2>3. Alike({}, {})
    BY DEF Alike, SameLots
  <2> QED BY <2>1, <2>2, <2>3 DEF SameUpToNumbers
<1>3. ASSUME NEW n \in 1..N, Good(n - 1) PROVE Good(n)
  <2>1. Follows(FirstOf(T, n - 1), Nth(T, n)) /\ FirstOf(T, n) = FirstOf(T, n - 1) \cup {Nth(T, n)}
    BY NextFollows
  <2> QED BY <1>3, <2>1, ShiftedStep
<1>4. Good(N)
  <2> HIDE DEF Good
  <2>0. N \in 0..N
    BY <1>1
  <2> HIDE DEF N
  <2> SUFFICES ASSUME Bad # {} PROVE FALSE
    BY <2>0
  <2>1. Bad \subseteq Nat
    BY <1>1
  <2>2. PICK n \in Bad : \A k \in Bad : n <= k
    <3> HIDE DEF Bad
    <3> QED BY <2>1, LeastNumber
  <2>3. n \in 1..N /\ ~Good(n)
    BY <1>1, <1>2, <2>2
  <2>4. n - 1 \in 0..N /\ ~(n <= n - 1)
    BY <1>1, <2>3
  <2>5. Good(n - 1)
    BY <2>2, <2>4
  <2> QED BY <1>3, <2>3, <2>5
<1> QED BY <1>4, FirstGrows

-----------------------------------------------------------------------------
(* Lots and transactions as a replay from the start leaves them. *)

InStep(L, T) == Alike(L, Replay(T, 1).lots) /\ Revalued(T, Replay(T, 1).gain) = T

\* An empty ledger is in step with its replay.
LEMMA NothingInStep == InStep({}, {})
<1>1. Replay({}, 1).lots = {} /\ Replay({}, 1).gain = {}
  BY NoneReplayed DEF NoTrades
<1> QED BY <1>1 DEF InStep, Alike, SameLots, Revalued

\* One more row whose profit is the replay's stays as it is.
LEMMA RowStays ==
    ASSUME NEW T, NEW v, Ledgered(T \cup {v}), v \notin T, NEW gain, NEW more, Gains(gain), Gains(more),
           SameGains(T, more, gain), Gained(v, more) = v.realized, Revalued(T, gain) = T
    PROVE  Revalued(T \cup {v}, more) = T \cup {v}
<1>1. RowIn(T, v, gain, more)
  BY RevaluedAdded DEF NewIn
<1>2. v \in TxRec
  BY DEF Ledgered
<1>3. NewRow(v, more) = v
  BY <1>2, NewRowIs
<1> QED BY <1>1, <1>3 DEF RowIn

\* A deposit or withdrawal, whatever its date, keeps the lots in step with a replay.
LEMMA FlowInStep ==
    ASSUME NEW L, NEW T, InStep(L, T), NEW v, Ledgered(T \cup {v}), v \notin T,
           v.kind \in {"deposit", "withdraw"}, Ledgered(T)
    PROVE  InStep(L, T \cup {v})
<1> DEFINE r == Replay(T, 1)
           s == Replay(T \cup {v}, 1)
<1>1. SameMoves(r, Replay(Moves(T), 1)) /\ SameMoves(s, Replay(Moves(T \cup {v}), 1))
  BY Sifted
<1>2. Moves(T \cup {v}) = Moves(T)
  BY DEF Moves, OfKind
<1>3. s.lots = r.lots /\ s.gain = r.gain
  BY <1>1, <1>2 DEF SameMoves
<1>4. Gains(r.gain) /\ \A g \in r.gain : \E u \in T : g[1] = u.id
  BY ReplayTyped
<1> HIDE DEF r, s
<1>5. \A g \in r.gain : g[1] # v.id
  BY <1>4 DEF Ledgered, Distinct
<1>6. Gained(v, r.gain) = v.realized
  BY <1>5 DEF Gained
<1>7. Revalued(T \cup {v}, r.gain) = T \cup {v}
  BY <1>4, <1>6, RowStays DEF InStep, SameGains, r
<1> QED BY <1>3, <1>7 DEF InStep, r, s

\* A trade after all others.
LEMMA NextMove ==
    ASSUME NEW T, NEW v, Ledgered(T \cup {v}), v \notin T, v.kind \in {"buy", "sell"},
           \A u \in Moves(T) : Earlier(u, v)
    PROVE  /\ Follows(Moves(T), v) /\ Ledgered(T) /\ Ledgered(Moves(T)) /\ Ordered(v) /\ v \in TxRec
           /\ SameMoves(Replay(T, 1), Replay(Moves(T), 1))
           /\ SameMoves(Replay(T \cup {v}, 1), Replayed(Replay(Moves(T), 1), v))
<1>1. Ledgered(T) /\ Ledgered(Moves(T)) /\ Ledgered(Moves(T) \cup {v})
  <2>1. Moves(T) \subseteq T
    BY DEF Moves, OfKind
  <2> QED BY <2>1, LedgeredPart
<1>2. Follows(Moves(T), v)
  BY <1>1 DEF Follows, Moves, OfKind
<1>3. Moves(T \cup {v}) = Moves(T) \cup {v}
  BY DEF Moves, OfKind
<1>4. SameMoves(Replay(T, 1), Replay(Moves(T), 1))
  BY <1>1, Sifted
<1>5. SameMoves(Replay(T \cup {v}, 1), Replay(Moves(T) \cup {v}, 1))
  BY <1>3, Sifted
<1>6. Replay(Moves(T) \cup {v}, 1) = Replayed(Replay(Moves(T), 1), v)
  BY <1>2, LastReplayed
<1> QED BY <1>1, <1>2, <1>4, <1>5, <1>6, FollowsIs

\* A purchase after all trades adds the lot a replay would.
LEMMA BuyInStep ==
    ASSUME NEW L, Position(L), NEW T, InStep(L, T), NEW v, Ledgered(T \cup {v}), v \notin T, v.kind = "buy",
           \A u \in Moves(T) : Earlier(u, v),
           NEW l \in LotRec, l.qty = v.qty, l.price = v.price, l.at = v.at, \A x \in L : x.id < l.id
    PROVE  InStep(L \cup {l}, T \cup {v})
<1> DEFINE S == Moves(T)
           r == Replay(T, 1)
           q == Replay(S, 1)
           s == Replay(T \cup {v}, 1)
           k == LotOf(q.next, v, NoTag)
<1>1. /\ Follows(S, v) /\ Ledgered(T) /\ Ledgered(S) /\ v \in TxRec
      /\ SameMoves(r, q) /\ SameMoves(s, Replayed(q, v))
  BY NextMove
<1>2. /\ q \in ReplayRec /\ Gains(r.gain) /\ \A g \in r.gain : \E u \in T : g[1] = u.id
      /\ \A y \in q.lots : y \in LotRec /\ \E u \in S : y.at = u.at
  BY <1>1, ReplayTyped
<1>3. /\ k.qty = v.qty /\ k.price = v.price /\ k.at = v.at /\ ~Earlier(k, k)
      /\ \A x \in q.lots : Earlier(x, k) /\ ~Earlier(k, x)
  BY <1>1, LotLast
<1>4. Alike(L, r.lots) /\ Revalued(T, r.gain) = T
  BY DEF InStep
<1> HIDE DEF S, r, q, s
<1>5. /\ Replayed(q, v).lots = q.lots \cup {k} /\ Replayed(q, v).gain = q.gain
  BY <1>1, <1>2, ReplayedBuy
<1> HIDE DEF k
<1>6. r.lots = q.lots /\ r.gain = q.gain /\ s.lots = r.lots \cup {k} /\ s.gain = r.gain
  BY <1>1, <1>5 DEF SameMoves
<1>7. \A x \in L : Earlier(x, l) /\ ~Earlier(l, x)
  <2> SUFFICES ASSUME NEW x \in L PROVE Earlier(x, l) /\ ~Earlier(l, x)
    OBVIOUS
  <2>1. \E y \in r.lots : y.at = x.at
    BY <1>4 DEF Alike, SameLots
  <2>2. PICK u \in S : u.at = x.at
    BY <1>2, <1>6, <2>1
  <2>3. u.at <= v.at
    BY <1>1, FollowsIs
  <2>4. x \in LotRec /\ x.at \in Int /\ x.id \in Int /\ l.at \in Int /\ l.id \in Int
    BY DEF Position, LotRec
  <2>5. x.at <= l.at /\ x.id < l.id
    BY <2>2, <2>3
  <2> QED BY <2>4, <2>5 DEF Earlier
<1>8. ~Earlier(l, l)
  BY DEF Earlier, LotRec
<1>9. Alike(L \cup {l}, r.lots \cup {k})
  BY <1>3, <1>4, <1>6, <1>7, <1>8, LotAlike
<1>10. \A g \in r.gain : g[1] # v.id
  BY <1>2 DEF Ledgered, Distinct
<1>11. Gained(v, r.gain) = v.realized
  BY <1>10 DEF Gained
<1>12. Revalued(T \cup {v}, r.gain) = T \cup {v}
  BY <1>2, <1>4, <1>11, RowStays DEF SameGains
<1> QED BY <1>6, <1>9, <1>12 DEF InStep, s

\* A sell after all trades leaves the lots a replay would, at the same profit.
LEMMA SellInStep ==
    ASSUME NEW L, Position(L), NEW T, InStep(L, T), NEW v, Ledgered(T \cup {v}), v \notin T, v.kind = "sell",
           \A u \in Moves(T) : Earlier(u, v), v.realized = Sale(L, v, {}).realized
    PROVE  InStep(Sale(L, v, {}).lots, T \cup {v})
<1> DEFINE S == Moves(T)
           r == Replay(T, 1)
           q == Replay(S, 1)
           s == Replay(T \cup {v}, 1)
<1>1. /\ Follows(S, v) /\ Ledgered(T) /\ Ledgered(S) /\ v \in TxRec /\ Ordered(v)
      /\ SameMoves(r, q) /\ SameMoves(s, Replayed(q, v))
  BY NextMove
<1>2. /\ q \in ReplayRec /\ Gains(r.gain) /\ (\A g \in r.gain : \E u \in T : g[1] = u.id)
      /\ Position(q.lots) /\ \A g, h \in r.gain : g[1] = h[1] => g = h
  BY <1>1, ReplayTyped
<1>3. Alike(L, r.lots) /\ Revalued(T, r.gain) = T
  BY DEF InStep
<1> HIDE DEF S, r, q, s
<1> DEFINE p == Sale(L, v, {}).realized
           g1 == <<v.id, p>>
<1>4. r.lots = q.lots /\ r.gain = q.gain
  BY <1>1 DEF SameMoves
<1>5. /\ Alike(Sale(L, v, {}).lots, Sale(q.lots, v, {}).lots)
      /\ Sale(q.lots, v, {}).realized = p
  BY <1>1, <1>2, <1>3, <1>4, SaleAlike
<1>6. /\ Replayed(q, v).lots = Sale(q.lots, v, {}).lots
      /\ Replayed(q, v).gain = q.gain \cup {<<v.id, Sale(q.lots, v, {}).realized>>}
  BY <1>1, <1>2, ReplayedSell
<1>7. s.lots = Sale(q.lots, v, {}).lots /\ s.gain = r.gain \cup {g1}
  BY <1>1, <1>4, <1>5, <1>6 DEF SameMoves
<1>8. \A g \in r.gain : g[1] # v.id
  BY <1>2 DEF Ledgered, Distinct
<1>9. p \in Int /\ v.id \in Int
  BY <1>1, TxValues
<1> HIDE DEF p
<1>10. Gains(s.gain)
  <2>1. g1 \in Int \X Int
    BY <1>9
  <2> QED BY <1>2, <1>7, <2>1 DEF Gains
<1>11. g1[1] = v.id /\ g1[2] = p
  OBVIOUS
<1> HIDE DEF g1
<1>12. \A g, h \in s.gain : g[1] = h[1] => g = h
  BY <1>2, <1>7, <1>8, <1>11
<1>13. SameGains(T, s.gain, r.gain)
  <2> SUFFICES ASSUME NEW u \in T PROVE Gained(u, s.gain) = Gained(u, r.gain)
    BY DEF SameGains
  <2>1. u.id # v.id
    BY DEF Ledgered, Distinct
  <2>2. CASE \E g \in r.gain : g[1] = u.id
    <3>1. PICK g \in r.gain : g[1] = u.id
      BY <2>2
    <3> QED BY <1>2, <1>7, <1>12, <3>1, GainedIs
  <2>3. CASE \A g \in r.gain : g[1] # u.id
    <3>1. \A g \in s.gain : g[1] # u.id
      BY <1>7, <1>11, <2>1, <2>3
    <3> QED BY <1>2, <1>12, <2>3, <3>1, GainedIs
  <2> QED BY <2>2, <2>3
<1>14. Gained(v, s.gain) = v.realized
  <2>1. g1 \in s.gain
    BY <1>7
  <2>2. Gained(v, s.gain) = g1[2]
    BY <1>11, <1>12, <2>1, GainedIs
  <2> QED BY <1>11, <2>2 DEF p
<1>15. Revalued(T \cup {v}, s.gain) = T \cup {v}
  BY <1>2, <1>3, <1>10, <1>13, <1>14, RowStays
<1> QED BY <1>5, <1>7, <1>15 DEF InStep, s

\* Rows that hold their profits already stay as they are.
LEMMA RowsStay ==
    ASSUME NEW V, Ledgered(V), NEW gain, Gains(gain), \A v \in V : NewRow(v, gain) = v
    PROVE  Revalued(V, gain) = V
<1>1. Revalued(V, gain) = {NewRow(v, gain) : v \in V}
  BY RevaluedIs
<1> QED BY <1>1

\* A replay from the start of what a replay left finds it as it is.
LEMMA ReplayInStep ==
    ASSUME NEW T, Ledgered(T), NEW first \in Int
    PROVE  InStep(Replay(T, first).lots, Revalued(T, Regained(T, Replay(T, first).gain)))
<1> DEFINE done == Replay(T, first)
           gain == done.gain
           V == Revalued(T, gain)
<1>1. Gains(gain) /\ \A g, h \in gain : g[1] = h[1] => g = h
  BY ReplayTyped
<1>2. SameUpToNumbers(done, Replay(T, 1))
  BY Shifted
<1> HIDE DEF done
<1>3. Revalued(T, Regained(T, gain)) = V
  BY <1>1, RegainedSame
<1>4. Replay(V, 1) = Replay(T, 1)
  BY <1>1, ReplaySame
<1>5. Alike(done.lots, Replay(V, 1).lots) /\ Replay(V, 1).gain = gain
  BY <1>2, <1>4 DEF SameUpToNumbers
<1>6. V = {NewRow(t, gain) : t \in T} /\ Ledgered(V)
  BY <1>1, RevaluedIs
<1> HIDE DEF V, gain
<1>8. \A v \in V : NewRow(v, gain) = v
  <2> SUFFICES ASSUME NEW v \in V PROVE NewRow(v, gain) = v
    OBVIOUS
  <2>1. PICK t \in T : v = NewRow(t, gain)
    BY <1>6
  <2>2. t \in TxRec /\ v.id = t.id /\ v.realized = Gained(t, gain) /\ v \in TxRec
    BY <1>1, <2>1, NewRowIs DEF Ledgered
  <2>3. Gained(v, gain) = v.realized
    BY <2>2 DEF Gained
  <2> QED BY <1>1, <2>2, <2>3, NewRowIs
<1>9. Revalued(V, gain) = V
  BY <1>1, <1>6, <1>8, RowsStay
<1>10. InStep(done.lots, V)
  BY <1>5, <1>9 DEF InStep
<1> QED BY <1>3, <1>10 DEF done, gain

-----------------------------------------------------------------------------
(* The invariant behind IncrementalIsReplay. *)

\* The lots are in step with a replay, but for trades entered out of the order of dates.
Current == backdated \in BOOLEAN /\ (~raced /\ ~backdated => InStep(lots, txs))
\* And so will they be when a rebuild that no other has disturbed commits.
Prompt(r) == r \in Rewriting /\ req[r].alone /\ req[r].op # "sell" =>
                 InStep(req[r].made, Revalued(After(r), req[r].gain))
ReplayInv == LedgerInv /\ Current /\ \A r \in Req : Prompt(r)

\* Steps that leave the lots, the transactions and the requests alone.
LEMMA StillInStep ==
    ASSUME ReplayInv, UNCHANGED <<txs, lots, req, raced, backdated>>
    PROVE  Current' /\ \A r \in Req : Prompt(r)'
<1>1. Current'
  BY DEF ReplayInv, Current, InStep
<1>2. ASSUME NEW r \in Req PROVE Prompt(r)'
  <2>1. After(r)' = After(r) /\ Rewriting' = Rewriting
    BY DEF After, Gone, Added, Rewriting
  <2>2. Prompt(r)
    BY DEF ReplayInv
  <2> QED BY <2>1, <2>2 DEF Prompt, InStep
<1> QED BY <1>1, <1>2

\* A request that goes on alone has computed what it had computed, from what it had read.
LEMMA PromptKeeps ==
    ASSUME ReplayInv, NEW r \in Req, txs' = txs, req'[r].op = req[r].op, req'[r].tx = req[r].tx,
           req'[r].made = req[r].made, req'[r].gain = req[r].gain, req'[r].alone = req[r].alone
    PROVE  Prompt(r)'
<1>1. After(r)' = After(r) /\ (r \in Rewriting' => r \in Rewriting)
  BY DEF After, Gone, Added, Rewriting
<1>2. Prompt(r)
  BY DEF ReplayInv
<1>3. r \in Rewriting' /\ req'[r].alone /\ req'[r].op # "sell" =>
        InStep(req'[r].made, Revalued(After(r)', req'[r].gain))
  BY <1>1, <1>2 DEF Prompt
<1> QED BY <1>3 DEF Prompt, InStep

-----------------------------------------------------------------------------
\* What a step leaves: the second half of the invariant.
Stays == Current' /\ \A x \in Req : Prompt(x)'

\* A request that is over is to record nothing.
LEMMA IdlePrompt == ASSUME NEW x \in Req, req'[x] = Idle PROVE Prompt(x)'
<1>1. x \notin Rewriting'
  BY IdleTyped DEF Rewriting
<1> QED BY <1>1 DEF Prompt

\* A new portfolio stays in step,
LEMMA CreateInStep == ASSUME ReplayInv, Create PROVE Stays
BY StillInStep DEF Create, ledger, history, Stays

\* the clock,
LEMMA TickInStep == ASSUME ReplayInv, Tick PROVE Stays
BY StillInStep DEF Tick, ledger, history, Stays

\* an execution at the broker,
LEMMA FillInStep == ASSUME ReplayInv, NEW o \in Order, Fill(o) PROVE Stays
BY StillInStep DEF Fill, ledger, history, Stays

\* and the snapshots change nothing of it;
LEMMA SnapshotsInStep == ASSUME ReplayInv, TakeSnapshot \/ Repair PROVE Stays
BY StillInStep DEF TakeSnapshot, Repair, ledger, history, Stays

\* nor does a request that fails.
LEMMA FailInStep == ASSUME ReplayInv, NEW r \in Req, Fail(r) PROVE Stays
<1>1. /\ req \in [Req -> ReqRec] /\ txs' = txs /\ lots' = lots /\ raced' = raced /\ backdated' = backdated
      /\ req' = [x \in Req |-> IF x = r THEN Idle ELSE [req[x] EXCEPT !.behind = @ \ {r}]]
  BY DEF Fail, history, ledger, ReplayInv, LedgerInv, Typed
<1>2. Current'
  BY <1>1 DEF ReplayInv, Current, InStep
<1>3. ASSUME NEW x \in Req PROVE Prompt(x)'
  <2>1. CASE x = r
    BY <1>1, <2>1, IdlePrompt
  <2>2. CASE x # r
    <3>1. PICK q \in ReqRec : q = req[x]
      BY <1>1
    <3> DEFINE p == [q EXCEPT !.behind = @ \ {r}]
    <3>2. p.op = q.op /\ p.tx = q.tx /\ p.made = q.made /\ p.gain = q.gain /\ p.alone = q.alone
      BY BehindTyped
    <3>3. req'[x] = p
      BY <1>1, <2>2, <3>1
    <3> HIDE DEF p
    <3> QED BY <1>1, <3>1, <3>2, <3>3, PromptKeeps
  <2> QED BY <2>1, <2>2
<1> QED BY <1>2, <1>3 DEF Stays

\* A deleted portfolio has nothing to be in step with.
LEMMA DeleteInStep == ASSUME ReplayInv, DeletePortfolio PROVE Stays
<1>1. /\ txs' = {} /\ lots' = {} /\ backdated' = backdated /\ \A x \in Req : req'[x] = Idle
  BY DEF DeletePortfolio, history
<1>2. Current'
  BY <1>1, NothingInStep DEF ReplayInv, Current, InStep
<1> QED BY <1>1, <1>2, IdlePrompt DEF Stays

\* A request that begins: those in flight are disturbed.
LEMMA BegunInStep ==
    ASSUME ReplayInv, NEW r \in Req, UNCHANGED <<txs, lots, raced, backdated>>, NEW q, Starts(r, q), Prompt(r)'
    PROVE  Stays
<1>1. Current'
  BY DEF ReplayInv, Current, InStep
<1>2. ASSUME NEW x \in Req, x # r PROVE Prompt(x)'
  BY <1>2 DEF Starts, Prompt
<1> QED BY <1>1, <1>2 DEF Stays

\* A sell that begins is in step with the lots it read, unless it is dated before others.
LEMMA BeginSellInStep == ASSUME ReplayInv, NEW r \in Req, BeginSell(r) PROVE Stays
<1>1. UNCHANGED <<txs, lots, raced, backdated>> /\ req[r] = Idle /\ req \in [Req -> ReqRec]
  BY DEF BeginSell, ledger, history, ReplayInv, LedgerInv, Typed
<1>2. PICK s \in {x \in Trades : x.kind = "sell"}, at \in {d \in Dates : d <= now} :
        LET t == [NewTx("sell", s.qty, s.price, at, s.tag) EXCEPT !.id = 0]
            sale == Sale(lots, t, {})
        IN  Begun(r, [Idle EXCEPT !.op = "sell", !.held = lots, !.made = sale.lots,
                                  !.tx = {[t EXCEPT !.realized = sale.realized]}])
  BY DEF BeginSell
<1> DEFINE t == [NewTx("sell", s.qty, s.price, at, s.tag) EXCEPT !.id = 0]
           sale == Sale(lots, t, {})
           made == sale.lots
           row == [t EXCEPT !.realized = sale.realized]
           b == Rewriting = {}
           q == [Idle EXCEPT !.op = "sell", !.held = lots, !.made = made, !.tx = {row}]
<1>3. /\ req'[r].op = "sell"
      /\ \A x \in Req \ {r} : req'[x] = Disturb(Req)[x]
  <2>1. Begun(r, q)
    BY <1>2
  <2> HIDE DEF row, made
  <2>2. [q EXCEPT !.alone = b].op = "sell"
    BY DEF Idle
  <2> HIDE DEF q, b
  <2>3. req' = [x \in Req |-> IF x = r THEN [q EXCEPT !.alone = b] ELSE Disturb(Req)[x]]
    BY <2>1 DEF Begun, b
  <2> QED BY <2>2, <2>3
<1>4. Current'
  BY <1>1 DEF ReplayInv, Current, InStep
<1>5. ASSUME NEW x \in Req PROVE Prompt(x)'
  <2>1. CASE x = r
    BY <1>3, <2>1 DEF Prompt
  <2>2. CASE x # r
    <3>1. PICK p : p = Disturb(Req)[x]
      OBVIOUS
    <3>2. p.op = req[x].op /\ (x \in Rewriting => ~p.alone)
      BY <1>1, <3>1, DisturbTyped
    <3>3. req'[x] = p
      BY <1>3, <2>2, <3>1
    <3> QED BY <3>2, <3>3 DEF Prompt, Rewriting
  <2> QED BY <2>1, <2>2
<1> QED BY <1>4, <1>5 DEF Stays

\* A rebuild replays from the start.
LEMMA RebuildInStep ==
    ASSUME ReplayInv, NEW r \in Req, UNCHANGED <<txs, lots, raced, backdated>>,
           NEW op, NEW tx, NEW T, Ledgered(T), NEW q, Begins(r, q, op, tx, T), After(r)' = T
    PROVE  Stays
<1>1. /\ Starts(r, q) /\ q.made = Replay(T, nextLot).lots /\ q.gain = Regained(T, Replay(T, nextLot).gain)
      /\ nextLot \in Int
  BY DEF Begins, ReplayInv, LedgerInv, Typed
<1>2. req'[r].made = q.made /\ req'[r].gain = q.gain
  BY <1>1 DEF Starts
<1>3. InStep(q.made, Revalued(T, q.gain))
  <2>1. PICK k \in Int : k = nextLot
    BY <1>1
  <2>2. InStep(Replay(T, k).lots, Revalued(T, Regained(T, Replay(T, k).gain)))
    BY ReplayInStep
  <2> QED BY <1>1, <2>1, <2>2
<1>4. Prompt(r)'
  <2>1. InStep(req'[r].made, Revalued(After(r)', req'[r].gain))
    BY <1>2, <1>3
  <2> QED BY <2>1 DEF Prompt, InStep
<1> QED BY <1>1, <1>4, BegunInStep

\* A rebuild that begins is a replay.
LEMMA BeginRebuildInStep == ASSUME ReplayInv, NEW r \in Req, BeginDelete(r) \/ BeginImport(r) PROVE Stays
<1>1. UNCHANGED <<txs, lots, raced, backdated>> /\ LedgerInv
  BY DEF BeginDelete, BeginImport, history, ReplayInv
<1>2. CASE BeginDelete(r)
  <2>1. PICK t, q : Deletes(r, t, q)
    BY <1>1, <1>2, DeleteBegins
  <2> QED BY <1>1, <2>1, RebuildInStep DEF Deletes
<1>3. CASE BeginImport(r)
  <2>1. PICK q : Imports(r, q)
    BY <1>1, <1>3, ImportBegins
  <2> QED BY <1>1, <2>1, RebuildInStep DEF Imports
<1> QED BY <1>2, <1>3

\* Its commit leaves what it has computed.
LEMMA CommitRebuildInStep == ASSUME ReplayInv, NEW r \in Req, CommitRebuild(r) PROVE Stays
<1>1. /\ req \in [Req -> ReqRec] /\ req[r].op \in {"delete", "import"} /\ req[r].alone \in BOOLEAN
      /\ raced' = ~req[r].alone /\ backdated' = ~req[r].alone
      /\ txs' = Revalued(After(r), req[r].gain)
      /\ lots' = {l \in lots : l.id \notin Ids(req[r].held)} \cup req[r].made
      /\ req' = [x \in Req |-> IF x = r THEN Idle ELSE [Disturb(Req)[x] EXCEPT !.behind = @ \ {r}]]
  BY DEF CommitRebuild, After, ReplayInv, LedgerInv, Typed, ReqRec
<1>2. Current'
  <2> SUFFICES ASSUME req[r].alone PROVE InStep(lots', txs')
    BY <1>1 DEF Current, InStep
  <2>1. r \in Rewriting /\ lots = req[r].held
    BY <1>1 DEF ReplayInv, LedgerInv, AsRead, Rewriting
  <2>2. lots' = req[r].made
    BY <1>1, <2>1 DEF Ids
  <2> QED BY <1>1, <2>1, <2>2 DEF ReplayInv, Prompt
<1>3. ASSUME NEW x \in Req PROVE Prompt(x)'
  <2>1. CASE x = r
    BY <1>1, <2>1, IdlePrompt
  <2>2. CASE x # r
    <3>1. PICK q \in ReqRec : q = Disturb(Req)[x]
      BY <1>1, DisturbTyped
    <3> DEFINE p == [q EXCEPT !.behind = @ \ {r}]
    <3>2. p.op = q.op /\ p.alone = q.alone
      BY BehindTyped
    <3>3. req'[x] = p
      BY <1>1, <2>2, <3>1
    <3> HIDE DEF p
    <3>4. req'[x].op = req[x].op /\ (x \in Rewriting => ~req'[x].alone)
      BY <1>1, <3>1, <3>2, <3>3, DisturbTyped
    <3> QED BY <3>4 DEF Prompt, Rewriting
  <2> QED BY <2>1, <2>2
<1> QED BY <1>2, <1>3 DEF Stays

-----------------------------------------------------------------------------
\* A trade entered when none has a later date comes after all others.
LEMMA EnteredLast ==
    ASSUME LedgerInv, NEW t, Enters(t), t.kind \in {"buy", "sell"}, ~Later(t.at)
    PROVE  \A u \in Moves(txs) : Earlier(u, t)
<1> SUFFICES ASSUME NEW u \in Moves(txs) PROVE Earlier(u, t)
  OBVIOUS
<1>1. u \in txs /\ Newest(txs, t) /\ Ledgered(txs)
  BY EnteredNewest DEF Moves, OfKind
<1>2. u.id < t.id /\ u.at \in Int /\ t.at \in Int
  BY <1>1, TxValues DEF Newest, Ledgered, Enters
<1>3. u.at <= t.at
  BY <1>1, <1>2 DEF Later, Moves
<1> QED BY <1>2, <1>3 DEF Earlier

\* A purchase dated before others is not in step, and the history records it (backdated).
LEMMA RegisterInStep == ASSUME ReplayInv, NEW r \in Req, Register(r) PROVE Stays
<1>1. /\ req[r] = Idle /\ ~raced /\ raced' = raced /\ LedgerInv /\ backdated \in BOOLEAN
      /\ now \in Int /\ req \in [Req -> ReqRec] /\ lots \subseteq LotRec
      /\ Sound(lots, txs) /\ Below(lots) /\ nextLot \in Int
  BY LedgerAssumption DEF Register, Explored, ReplayInv, Current, LedgerInv, Typed, Agree
<1>2. PICK at \in {d \in Dates : d <= now} :
           \/ /\ \E a \in Amounts :
                    \/ txs' = txs \cup {NewTx("deposit", a, 1, at, NoTag)}
                    \/ a <= Cash(txs) /\ txs' = txs \cup {NewTx("withdraw", a, 1, at, NoTag)}
              /\ UNCHANGED <<lots, nextLot, backdated, req>>
           \/ \E b \in {x \in Trades : x.kind = "buy"} :
                LET t == NewTx("buy", b.qty, b.price, at, b.tag)
                IN  /\ nextLot <= MaxLot
                    /\ txs' = txs \cup {t}
                    /\ lots' = lots \cup {LotOf(nextLot, t, NoTag)}
                    /\ nextLot' = nextLot + 1
                    /\ backdated' = (backdated \/ Later(at))
                    /\ req' = Disturb(Req)
  BY DEF Register
<1>3. at \in Int /\ 1 <= at /\ at <= now
  BY <1>1, LedgerAssumption
<1>4. ASSUME NEW a \in Amounts, NEW kind \in {"deposit", "withdraw"},
             txs' = txs \cup {NewTx(kind, a, 1, at, NoTag)}, UNCHANGED <<lots, backdated, req>>
      PROVE  Stays
  <2> DEFINE t == NewTx(kind, a, 1, at, NoTag)
  <2>1. Enters(t) /\ t.kind = kind
    <3>1. kind \in Kinds /\ a \in Nat /\ 1 \in Nat /\ NoTag \in AnyTag /\ kind \notin {"buy", "sell"}
      BY LedgerAssumption DEF Kinds, AnyTag
    <3> QED BY <1>1, <1>3, <3>1, NewTxIs
  <2>2. txs' = txs \cup {t} /\ lots' = lots /\ req' = req /\ backdated' = backdated
    BY <1>4
  <2> HIDE DEF t
  <2>3. Newest(txs, t) /\ Ledgered(txs)
    BY <1>1, <2>1, EnteredNewest
  <2>4. Current'
    <3>1. ~backdated => InStep(lots, txs \cup {t})
      BY <1>1, <2>1, <2>3, FlowInStep DEF ReplayInv, Current, Newest
    <3> QED BY <1>1, <2>2, <3>1 DEF Current, InStep
  <2>5. ASSUME NEW x \in Req PROVE Prompt(x)'
    <3> SUFFICES ASSUME x \in Rewriting', req'[x].alone, req'[x].op # "sell" PROVE Prompt(x)'
      BY DEF Prompt
    <3>1. x \in Rewriting /\ req[x].op \in {"delete", "import"}
      BY <2>2 DEF Rewriting
    <3> DEFINE T == After(x)
               gain == req[x].gain
               v == NewRow(t, gain)
    <3>2. Ledgered(T) /\ InStep(req[x].made, Revalued(T, gain)) /\ Gains(gain)
      BY <1>1, <2>2, <3>1, AfterRows DEF ReplayInv, Prompt, ReqRec, Gains
    <3>3. FlowIn(x, t)
      BY <1>1, <2>1, <2>2, <3>2, AfterFlow
    <3>4. /\ After(x)' = T \cup {t} /\ RowIn(T, t, gain, gain)
          /\ Newest(Revalued(T, gain), v) /\ v.kind \in {"deposit", "withdraw"}
      BY <2>1, <3>3 DEF FlowIn
    <3> HIDE DEF T, gain, v
    <3>5. Ledgered(Revalued(T, gain))
      BY <3>2, RevaluedIs
    <3>6. InStep(req[x].made, Revalued(T, gain) \cup {v})
      BY <3>2, <3>4, <3>5, FlowInStep DEF Newest
    <3>7. InStep(req[x].made, Revalued(T \cup {t}, gain))
      BY <3>4, <3>6 DEF RowIn, v
    <3>8. InStep(req'[x].made, Revalued(After(x)', req'[x].gain))
      BY <2>2, <3>4, <3>7 DEF gain
    <3> QED BY <3>8 DEF Prompt, InStep
  <2> QED BY <2>4, <2>5 DEF Stays
<1>5. ASSUME NEW b \in {x \in Trades : x.kind = "buy"},
             txs' = txs \cup {NewTx("buy", b.qty, b.price, at, b.tag)},
             lots' = lots \cup {LotOf(nextLot, NewTx("buy", b.qty, b.price, at, b.tag), NoTag)},
             backdated' = (backdated \/ Later(at)), req' = Disturb(Req)
      PROVE  Stays
  <2> DEFINE t == NewTx("buy", b.qty, b.price, at, b.tag)
             l == LotOf(nextLot, t, NoTag)
  <2>0. b.qty \in Nat \ {0} /\ b.price \in Nat /\ b.tag \in AnyTag
    BY LedgerAssumption DEF AnyTag
  <2>1. Enters(t) /\ t.kind = "buy" /\ t.at = at /\ t.qty = b.qty /\ t.price = b.price
    <3>1. "buy" \in Kinds /\ b.qty \in Nat /\ b.qty > 0
      BY <2>0 DEF Kinds
    <3> QED BY <1>1, <1>3, <2>0, <3>1, NewTxIs
  <2>2. txs' = txs \cup {t} /\ lots' = lots \cup {l}
    BY <1>5
  <2> HIDE DEF t
  <2>3. /\ l = [id |-> nextLot, qty |-> t.qty, price |-> t.price, at |-> t.at, tag |-> NoTag]
    BY DEF LotOf
  <2> HIDE DEF l
  <2>4. /\ l \in LotRec /\ l.id = nextLot /\ l.qty = t.qty /\ l.price = t.price /\ l.at = t.at
    BY <1>1, <1>3, <2>0, <2>1, <2>3 DEF LotRec, AnyTag
  <2>5. Newest(txs, t)
    BY <1>1, <2>1, EnteredNewest
  <2>6. \A m \in lots : m.id < l.id
    BY <1>1, <2>4 DEF Below
  <2>7. Current'
    <3>1. ASSUME ~backdated, ~Later(at) PROVE InStep(lots \cup {l}, txs \cup {t})
      <4>1. \A u \in Moves(txs) : Earlier(u, t)
        BY <1>1, <2>1, <3>1, EnteredLast
      <4>2. InStep(lots, txs) /\ Position(lots)
        BY <1>1, <3>1 DEF ReplayInv, Current, Sound
      <4>3. Ledgered(txs \cup {t}) /\ t \notin txs
        BY <2>5 DEF Newest
      <4> QED BY <2>1, <2>4, <2>6, <4>1, <4>2, <4>3, BuyInStep
    <3>2. Later(at) \in BOOLEAN
      BY DEF Later
    <3> QED BY <1>1, <1>5, <2>2, <3>1, <3>2 DEF Current, InStep
  <2>8. ASSUME NEW x \in Req PROVE Prompt(x)'
    <3>1. req'[x].op = req[x].op /\ (x \in Rewriting => ~req'[x].alone)
      BY <1>1, <1>5, DisturbTyped
    <3> QED BY <3>1 DEF Prompt, Rewriting
  <2> QED BY <2>7, <2>8 DEF Stays
<1> QED BY <1>2, <1>4, <1>5

\* Nor is such a sell; any other that was alone is.
LEMMA CommitSellInStep == ASSUME ReplayInv, NEW r \in Req, CommitSell(r) PROVE Stays
<1>1. /\ req[r].op = "sell" /\ LedgerInv /\ raced \in BOOLEAN /\ backdated \in BOOLEAN
      /\ req \in [Req -> ReqRec] /\ nextTx \in Nat \ {0}
  BY DEF CommitSell, ReplayInv, Current, LedgerInv, Typed
<1>2. /\ txs' = txs \cup {[t EXCEPT !.id = nextTx] : t \in req[r].tx}
      /\ lots' = {l \in lots : l.id \notin Touched(r)} \cup Updated(r)
      /\ req' = [Disturb(Req) EXCEPT ![r] = Idle]
      /\ raced' = (raced \/ ~req[r].alone)
  BY DEF CommitSell
<1>3. \A t \in req[r].tx : backdated' = (backdated \/ Later(t.at))
  BY Zenon DEF CommitSell
<1>4. req[r] \in ReqRec /\ req[r].alone \in BOOLEAN /\ req[r].made \subseteq LotRec /\ req[r].tx \subseteq TxRec
  BY <1>1 DEF ReqRec
<1>5. PICK t : req[r].tx = {t} /\ t.kind = "sell" /\ t.qty > 0 /\ 1 <= t.at /\ t.at <= AtClose(Today)
  BY <1>1 DEF LedgerInv, Recorded
<1> DEFINE v == [t EXCEPT !.id = nextTx]
<1>6. /\ v \in TxRec /\ v.id = nextTx /\ v.kind = "sell" /\ v.qty = t.qty /\ v.price = t.price
      /\ v.at = t.at /\ v.realized = t.realized /\ t \in TxRec
  <2>1. t \in TxRec
    BY <1>4, <1>5
  <2>2. v.id = nextTx /\ v.kind = t.kind /\ v.qty = t.qty /\ v.price = t.price
    BY <2>1 DEF TxRec
  <2>3. v.at = t.at /\ v.realized = t.realized
    BY <2>1 DEF TxRec
  <2>4. v \in TxRec
    BY <1>1, <2>1 DEF TxRec
  <2> QED BY <1>5, <2>1, <2>2, <2>3, <2>4
<1>7. txs' = txs \cup {v}
  BY <1>2, <1>5
<1> HIDE DEF v
<1>8. Enters(v)
  BY <1>5, <1>6 DEF Enters
<1>9. Current'
  <2>1. Later(t.at) \in BOOLEAN
    BY DEF Later
  <2>2. backdated' \in BOOLEAN
    BY <1>1, <1>3, <1>5, <2>1
  <2> SUFFICES ASSUME ~raced, req[r].alone, ~backdated, ~Later(v.at) PROVE InStep(lots', txs')
    BY <1>1, <1>2, <1>3, <1>4, <1>5, <1>6, <2>1, <2>2 DEF Current, InStep
  <2>3. lots = req[r].held /\ Sold(r)
    BY <1>1 DEF LedgerInv, AsRead, Rewriting
  <2>4. InStep(lots, txs) /\ Position(lots)
    BY <1>1 DEF ReplayInv, Current, LedgerInv, Agree, Sound
  <2> DEFINE made == req[r].made
  <2>5. made = Sale(lots, t, {}).lots /\ t.qty <= Sale(lots, t, {}).held /\ t.realized = Sale(lots, t, {}).realized
    BY <1>5, <2>3 DEF Sold
  <2>6. lots' = {l \in lots : l.id \notin Ids(lots \ made)} \cup (made \ lots)
    BY <1>2, <2>3 DEF Touched, Updated
  <2> HIDE DEF made
  <2>7. lots' = made
    <3>1. \A l \in lots : l.id \notin Ids(lots \ made) <=> l \in made
      <4> SUFFICES ASSUME NEW l \in lots PROVE l.id \notin Ids(lots \ made) <=> l \in made
        OBVIOUS
      <4>1. \A m \in lots : m.id = l.id => m = l
        BY <2>4 DEF Position, Distinct
      <4> QED BY <4>1 DEF Ids
    <3> QED BY <2>6, <3>1
  <2>8. /\ Sale(lots, v, {}).lots = made /\ v.realized = Sale(lots, v, {}).realized
    BY <1>6, <2>5, SaleSame
  <2>9. \A u \in Moves(txs) : Earlier(u, v)
    BY <1>1, <1>6, <1>8, EnteredLast
  <2>10. Ledgered(txs \cup {v}) /\ v \notin txs
    BY <1>1, <1>8, EnteredNewest DEF Newest
  <2>11. InStep(Sale(lots, v, {}).lots, txs \cup {v})
    BY <1>6, <2>4, <2>8, <2>9, <2>10, SellInStep
  <2> QED BY <1>7, <2>7, <2>8, <2>11
<1>10. ASSUME NEW x \in Req PROVE Prompt(x)'
  <2>1. CASE x = r
    BY <1>1, <1>2, <2>1, IdlePrompt, DisturbTyped
  <2>2. CASE x # r
    <3>1. PICK p : p = Disturb(Req)[x]
      OBVIOUS
    <3>2. p.op = req[x].op /\ (x \in Rewriting => ~p.alone)
      BY <1>1, <3>1, DisturbTyped
    <3>3. req'[x] = p
      BY <1>1, <1>2, <2>2, <3>1, DisturbTyped
    <3> QED BY <3>2, <3>3 DEF Prompt, Rewriting
  <2> QED BY <2>1, <2>2
<1> QED BY <1>9, <1>10 DEF Stays

-----------------------------------------------------------------------------
\* The lots of a backtest bought oldest first are in step too.
SeedRank(rank) == /\ rank \in [Seed -> 1..Cardinality(Seed)]
                  /\ \A s, u \in Seed : s # u => rank[s] # rank[u] /\ (s.at < u.at => rank[s] < rank[u])

\* A lot of a backtest and its purchase.
LEMMA SeedStep ==
    ASSUME NEW rank, SeedRank(rank), NEW s \in Seed
    PROVE  /\ SeedTx(rank, s).id = rank[s] + 1 /\ SeedTx(rank, s).kind = "buy"
           /\ SeedTx(rank, s).qty = s.qty /\ SeedTx(rank, s).price = s.price /\ SeedTx(rank, s).at = s.at
           /\ SeedLot(rank, s) \in LotRec /\ SeedLot(rank, s).id = rank[s] /\ SeedLot(rank, s).qty = s.qty
           /\ SeedLot(rank, s).price = s.price /\ SeedLot(rank, s).at = s.at
           /\ rank[s] \in Int /\ 1 <= rank[s] /\ s.at \in Int
<1>1. rank[s] \in Int /\ 1 <= rank[s]
  BY LedgerAssumption, FS_CardinalityType DEF SeedRank
<1>2. s.qty \in Nat \ {0} /\ s.price \in Nat /\ s.at \in Int
  BY LedgerAssumption
<1> QED BY <1>1, <1>2 DEF SeedTx, SeedLot, LotOf, LotRec, AnyTag

\* Lots bought in the order of their dates are those a replay makes.
LEMMA SeedsInStep ==
    ASSUME NEW rank, SeedRank(rank), NEW t \in TxRec, t.id = 1, t.kind = "deposit",
           Position({SeedLot(rank, s) : s \in Seed}), Ledgered({t} \cup {SeedTx(rank, s) : s \in Seed})
    PROVE  InStep({SeedLot(rank, s) : s \in Seed}, {t} \cup {SeedTx(rank, s) : s \in Seed})
<1> DEFINE N == Cardinality(Seed)
           L(k) == {SeedLot(rank, s) : s \in Bought(rank, k)}
           T(k) == {t} \cup {SeedTx(rank, s) : s \in Bought(rank, k)}
           Good(k) == InStep(L(k), T(k))
           Bad == {k \in 0..N : ~Good(k)}
<1>1. IsFiniteSet(Seed) /\ N \in Nat /\ \A s \in Seed : rank[s] \in 1..N
  BY LedgerAssumption, FS_CardinalityType DEF SeedRank
<1>2. ASSUME NEW k PROVE Ledgered(T(k)) /\ Position(L(k))
  <2>1. T(k) \subseteq {t} \cup {SeedTx(rank, s) : s \in Seed} /\ L(k) \subseteq {SeedLot(rank, s) : s \in Seed}
    BY DEF Bought
  <2>2. IsFiniteSet(L(k))
    BY <2>1, FS_Subset DEF Position
  <2>3. Ledgered(T(k))
    BY <2>1, LedgeredPart
  <2> QED BY <2>1, <2>2, <2>3 DEF Position, Distinct
<1>3. Good(0)
  <2>1. Bought(rank, 0) = {}
    BY SeedStep DEF Bought
  <2>2. L(0) = {} /\ T(0) = {} \cup {t}
    BY <2>1
  <2>3. Ledgered({} \cup {t}) /\ Ledgered({})
    <3>1. Ledgered(T(0)) /\ {} \subseteq T(0)
      BY <1>2
    <3>2. Ledgered({})
      BY <3>1, LedgeredPart
    <3> QED BY <2>2, <3>1, <3>2
  <2>4. InStep({}, {} \cup {t})
    BY <2>3, NothingInStep, FlowInStep
  <2> HIDE DEF L, T
  <2> QED BY <2>2, <2>4
<1>4. ASSUME NEW k \in 0..N, k + 1 <= N, Good(k) PROVE Good(k + 1)
  <2>0. k \in Int
    BY <1>1
  <2>1. CASE ~\E s \in Seed : rank[s] = k + 1
    <3>1. Bought(rank, k + 1) = Bought(rank, k)
      <4>1. \A s \in Seed : rank[s] <= k + 1 <=> rank[s] <= k
        BY <2>0, <2>1, SeedStep
      <4> QED BY <4>1 DEF Bought
    <3> QED BY <1>4, <3>1
  <2>2. CASE \E s \in Seed : rank[s] = k + 1
    <3>1. PICK s \in Seed : rank[s] = k + 1
      BY <2>2
    <3> DEFINE v == SeedTx(rank, s)
               l == SeedLot(rank, s)
    <3>2. Bought(rank, k + 1) = Bought(rank, k) \cup {s}
      <4>1. \A u \in Seed : rank[u] <= k + 1 <=> rank[u] <= k \/ u = s
        <5>1. \A u \in Seed : rank[u] \in Int /\ (rank[u] = k + 1 => u = s)
          BY <3>1, SeedStep DEF SeedRank
        <5> QED BY <2>0, <3>1, <5>1
      <4> QED BY <4>1 DEF Bought
    <3>3. L(k + 1) = L(k) \cup {l} /\ T(k + 1) = T(k) \cup {v}
      BY <3>2
    <3>4. /\ v.id = k + 2 /\ v.kind = "buy" /\ l \in LotRec /\ l.id = k + 1
          /\ l.qty = v.qty /\ l.price = v.price /\ l.at = v.at /\ v.at = s.at
      BY <2>0, <3>1, SeedStep
    <3>5. \A u \in Bought(rank, k) : /\ SeedTx(rank, u).id < k + 2 /\ SeedTx(rank, u).at <= s.at
                                     /\ SeedLot(rank, u).id < k + 1
      <4> SUFFICES ASSUME NEW u \in Bought(rank, k)
                   PROVE  /\ SeedTx(rank, u).id < k + 2 /\ SeedTx(rank, u).at <= s.at
                          /\ SeedLot(rank, u).id < k + 1
        OBVIOUS
      <4>1. u \in Seed /\ rank[u] <= k
        BY DEF Bought
      <4>2. rank[u] \in Int /\ u.at \in Int /\ s.at \in Int /\ rank[u] < rank[s]
        BY <2>0, <3>1, <4>1, SeedStep
      <4>3. u.at <= s.at
        BY <4>1, <4>2 DEF SeedRank
      <4> QED BY <2>0, <4>1, <4>2, <4>3, SeedStep
    <3>6. t.id < k + 2 /\ t \notin Moves(T(k))
      BY <1>1 DEF Moves, OfKind
    <3>7. \A u \in T(k) : u.id < v.id /\ (u \in Moves(T(k)) => Earlier(u, v))
      <4> SUFFICES ASSUME NEW u \in T(k) PROVE u.id < v.id /\ (u \in Moves(T(k)) => Earlier(u, v))
        OBVIOUS
      <4>1. CASE u = t
        BY <3>4, <3>6, <4>1
      <4>2. CASE u # t
        <5>1. PICK w \in Bought(rank, k) : u = SeedTx(rank, w)
          BY <4>2
        <5>2. u.id < v.id /\ u.at <= v.at
          BY <3>4, <3>5, <5>1
        <5>3. u.at \in Int /\ v.at \in Int
          BY <3>4, <5>1, SeedStep DEF Bought
        <5> QED BY <5>2, <5>3 DEF Earlier
      <4> QED BY <4>1, <4>2
    <3>8. \A m \in L(k) : m.id < l.id
      BY <3>4, <3>5
    <3>9. Position(L(k)) /\ Ledgered(T(k) \cup {v})
      BY <1>2, <3>3
    <3> HIDE DEF L, T, v, l
    <3>10. v \notin T(k) /\ \A u \in Moves(T(k)) : Earlier(u, v)
      <4>1. v.id \in Int
        BY <2>0, <3>4
      <4> QED BY <3>7, <4>1 DEF Moves, OfKind
    <3>11. InStep(L(k) \cup {l}, T(k) \cup {v})
      BY <1>4, <3>4, <3>8, <3>9, <3>10, BuyInStep
    <3> QED BY <3>3, <3>11
  <2> QED BY <2>1, <2>2
<1>5. Good(N)
  <2> HIDE DEF Good
  <2>0. N \in 0..N
    BY <1>1
  <2> HIDE DEF N
  <2> SUFFICES ASSUME Bad # {} PROVE FALSE
    BY <2>0
  <2>1. Bad \subseteq Nat
    BY <1>1
  <2>2. PICK m \in Bad : \A k \in Bad : m <= k
    <3> HIDE DEF Bad
    <3> QED BY <2>1, LeastNumber
  <2>3. m \in 0..N /\ ~Good(m) /\ m # 0
    BY <1>3, <2>2
  <2>4. m - 1 \in 0..N /\ ~(m <= m - 1) /\ m - 1 + 1 = m
    BY <1>1, <2>3
  <2>5. Good(m - 1)
    BY <2>2, <2>4
  <2> QED BY <1>1, <1>4, <2>3, <2>4, <2>5
<1>6. Bought(rank, N) = Seed
  BY <1>1 DEF Bought
<1> QED BY <1>5, <1>6

\* A portfolio made from a backtest is in step with its replay.
LEMMA SeedInStep == ASSUME ReplayInv, CreateFromBacktest, LedgerInv' PROVE Stays
<1>1. /\ UNCHANGED <<req, backdated>> /\ Rewriting = {}
  BY DEF CreateFromBacktest, history, ReplayInv, LedgerInv, NotYet
<1>2. PICK d \in 1..now \div 2, rank \in [Seed -> 1..Cardinality(Seed)] :
        LET deposit == [id |-> 1, kind |-> "deposit", qty |-> SeedCash + Cost(Seed), price |-> 1,
                        at |-> AtClose(d), tag |-> NoTag, ref |-> NoRef, realized |-> 0]
        IN  /\ \A s, u \in Seed : s # u => rank[s] # rank[u] /\ (s.at < u.at => rank[s] < rank[u])
            /\ txs' = {deposit} \cup
                      {[id |-> rank[s] + 1, kind |-> "buy", qty |-> s.qty, price |-> s.price,
                        at |-> s.at, tag |-> NoTag, ref |-> NoRef, realized |-> 0] : s \in Seed}
            /\ lots' = {LotOf(rank[s], s, NoTag) : s \in Seed}
  BY DEF CreateFromBacktest
<1> DEFINE t == [id |-> 1, kind |-> "deposit", qty |-> SeedCash + Cost(Seed), price |-> 1,
                 at |-> AtClose(d), tag |-> NoTag, ref |-> NoRef, realized |-> 0]
<1>3. /\ SeedRank(rank)
      /\ txs' = {t} \cup {SeedTx(rank, s) : s \in Seed}
      /\ lots' = {SeedLot(rank, s) : s \in Seed}
  BY <1>2 DEF SeedTx, SeedLot, SeedRank
<1>4. t.id = 1 /\ t.kind = "deposit"
  OBVIOUS
<1> HIDE DEF t
<1>5. Ledgered(txs')
  BY DEF LedgerInv, Rows, Ledgered, Distinct, TxRec, AnyTag, Kinds
<1>6. t \in TxRec
  BY <1>3, <1>5 DEF Ledgered
<1>7. Position(lots')
  <2>1. \A s, u \in Seed : s # u => rank[s] # rank[u]
    BY <1>3 DEF SeedRank
  <2>2. rank \in [Seed -> 1..Cardinality(Seed)]
    BY <1>3 DEF SeedRank
  <2>3. Sound({SeedLot(rank, s) : s \in Seed}, {t} \cup {SeedTx(rank, s) : s \in Seed})
    BY <1>4, <1>6, <2>1, <2>2, SeedSound
  <2> QED BY <1>3, <2>3 DEF Sound
<1>8. InStep(lots', txs')
  BY <1>3, <1>4, <1>5, <1>6, <1>7, SeedsInStep
<1>9. Current'
  BY <1>1, <1>8 DEF ReplayInv, Current, InStep
<1>10. \A x \in Req : Prompt(x)'
  BY <1>1 DEF Prompt, Rewriting
<1> QED BY <1>9, <1>10 DEF Stays

\* At first there is nothing to replay.
LEMMA ReplayStarts == Init => ReplayInv
<1> SUFFICES ASSUME Init PROVE ReplayInv
  OBVIOUS
<1>1. LedgerInv
  BY LedgerStarts
<1>2. Current
  BY NothingInStep DEF Init, Current
<1>3. \A x \in Req : req[x] = Idle
  BY DEF Init
<1>4. \A x \in Req : Prompt(x)
  BY <1>3, IdleTyped DEF Prompt, Rewriting
<1> QED BY <1>1, <1>2, <1>4 DEF ReplayInv

\* Every step keeps lots and profits in step with a replay.
LEMMA ReplaySteps == ReplayInv /\ [Next]_vars => ReplayInv'
<1> SUFFICES ASSUME ReplayInv, [Next]_vars PROVE ReplayInv'
  OBVIOUS
<1>1. LedgerInv'
  BY LedgerSteps DEF ReplayInv
<1>2. Stays
  <2>1. ASSUME NEW r \in Req, Request(r) PROVE Stays
    BY <2>1, RegisterInStep, BeginSellInStep, CommitSellInStep, BeginRebuildInStep,
       CommitRebuildInStep, FailInStep DEF Request
  <2>2. CASE UNCHANGED vars
    BY <2>2, StillInStep DEF vars, history, ledger, Stays
  <2>3. CASE Create \/ CreateFromBacktest \/ DeletePortfolio \/ TakeSnapshot \/ Repair \/ Tick
    BY <1>1, <2>3, CreateInStep, SeedInStep, DeleteInStep, SnapshotsInStep, TickInStep
  <2>4. ASSUME NEW o \in Order, Fill(o) PROVE Stays
    BY <2>4, FillInStep
  <2> QED BY <2>1, <2>2, <2>3, <2>4 DEF Next
<1> QED BY <1>1, <1>2 DEF ReplayInv, Stays

\* In step with a replay is what the property asks for.
LEMMA StepwiseIsReplay == ReplayInv => IncrementalIsReplay
<1> SUFFICES ASSUME ReplayInv PROVE IncrementalIsReplay
  OBVIOUS
<1>1. SellsReplay
  BY SellsFound DEF ReplayInv
<1>2. ASSUME ~raced, ~backdated
      PROVE  LET r == Replay(txs, 1)
                 Shape(L) == {<<l.qty, l.price, l.at>> : l \in L}
             IN  /\ Shape(lots) = Shape(r.lots) /\ Holding(lots) = Holding(r.lots)
                 /\ Revalued(txs, r.gain) = txs
  <2> DEFINE M == Replay(txs, 1).lots
  <2>1. Position(lots) /\ Ledgered(txs)
    BY <1>2, NowRight DEF ReplayInv, Sound
  <2>2. Position(M)
    BY <2>1, ReplayTyped
  <2>3. Alike(lots, M) /\ Revalued(txs, Replay(txs, 1).gain) = txs
    BY <1>2 DEF ReplayInv, Current, InStep
  <2> HIDE DEF M
  <2>4. PICK m : SameLots(lots, M, m)
    BY <2>3 DEF Alike
  <2>5. Holding({m[l] : l \in lots}) = Holding(lots)
    BY <2>1, <2>2, <2>4, HeldAlike
  <2>6. M = {m[l] : l \in lots}
    BY <2>4 DEF SameLots
  <2>7. {<<l.qty, l.price, l.at>> : l \in lots} = {<<k.qty, k.price, k.at>> : k \in M}
    <3>1. \A l \in lots : m[l].qty = l.qty /\ m[l].price = l.price /\ m[l].at = l.at
      BY <2>4 DEF SameLots
    <3>2. \A l \in lots : m[l] \in M
      BY <2>6
    <3>3. \A k \in M : \E l \in lots : k = m[l]
      BY <2>6
    <3> QED BY <3>1, <3>2, <3>3
  <2>8. Holding(lots) = Holding(M)
    BY <2>5, <2>6
  <2> QED BY <2>3, <2>7, <2>8 DEF M
<1> QED BY <1>1, <1>2 DEF IncrementalIsReplay

\* Lots and profits stay in step with a replay of the transactions, requests in flight
\* included.
THEOREM ReplayHolds == Spec => []ReplayInv
<1>1. Init => ReplayInv
  BY ReplayStarts
<1>2. ReplayInv /\ [Next]_vars => ReplayInv'
  BY ReplaySteps
<1> QED BY <1>1, <1>2, PTL DEF Spec

\* Entering trades one by one in the order of their dates leaves the lots and the profits
\* that a rebuild from all transactions would make, lot by lot.
THEOREM StepsAreReplay == Spec => []IncrementalIsReplay
BY ReplayHolds, StepwiseIsReplay, PTL
=============================================================================
