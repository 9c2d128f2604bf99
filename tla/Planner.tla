------------------------------- MODULE Planner -------------------------------
(***************************************************************************)
(* RAVG: the plan of an evening (strategy/planner.py), the simulator that   *)
(* fills it on the next bar (strategy/backtest.py), and the lots a live     *)
(* portfolio rebuilds from its tagged trades (lots.py).                     *)
(*                                                                          *)
(* Rates are in twentieths (5 %), money and prices in whole units, a tick   *)
(* is one unit; products are compared exactly, so no rounding is added to   *)
(* the code's own int().  A bar gives the prices of the fund (K200) and of  *)
(* its leveraged pair (LEV), the position of its averages, the volatility   *)
(* target eRaw, and the Grid ratio; the indicators themselves are not       *)
(* modelled, nor commission, slippage and tax.  The fee for holding shares  *)
(* is one unit per HoldDiv of their value, or part of it, from bar to bar:  *)
(* the two rates and the calendar days between bars are not told apart.     *)
(* The state is that of one simulation, i.e. one bar after the other;       *)
(* ledger rows are written beside it as a live account that gets the same   *)
(* fills would.                                                             *)
(***************************************************************************)
EXTENDS Integers, Sequences, FiniteSets, SequencesExt, Amounts

CONSTANTS
    Bars,       \* bars a series is made of, see the fields below
    FirstOk,    \* params.min_history: bars before it give no plan
    LastBar,    \* bound: bars of a series
    Starts,     \* start_index a user may choose
    Capital,    \* cash at the start
    Seeds,      \* initial_lots: sequences of [inst, qty, price]
    FlagSets,   \* AblationFlags: [noTp, lever, gap], and the research option [marketBoot]
    EmaxBull, EmaxNeutral, EmaxBear,    \* caps of the exposure
    Band, Buffer,       \* re-balancing band, cash kept back
    Weights,            \* grid_weights, in tenths
    BootDays, BootFrac, \* small entry: days, and share of what is missing
    StratRatio,         \* share of leverage held by the strategic track
    Multiple,           \* lev_multiple
    HoldDiv             \* value of the holdings that costs one unit of fee_200 and fee_lev

(* A bar: open, high, low, close; lopen, lclose of LEV; price and trend in
   -2..2: the close against MA200 and MA20 against MA60, 2 and -2 being beyond
   the buffer of the hysteresis; eRaw; hot: sigma20 over its limit; dip: LEV
   closes below no, the first, or both tactical entries; back: LEV closes at or
   above its EMA20; grid; gap: 1.5 ATR. *)

K200 == "K200"
LEV == "LEV"

ASSUME PlannerAssumption ==
    /\ {LastBar, Capital, BootDays} \subseteq Nat /\ FirstOk \in Nat \ {0} /\ Starts \subseteq 1..LastBar
    /\ {EmaxBull, EmaxNeutral, EmaxBear} \subseteq 0..40 /\ StratRatio \in 0..20
    /\ {Band, Buffer, BootFrac} \subseteq 0..20 /\ Multiple \in {2, 3}
    /\ HoldDiv \in Nat \ {0}
    /\ Len(Weights) = 3 /\ \A k \in 1..3 : Weights[k] \in 0..10
    /\ \A b \in Bars : /\ {b.open, b.high, b.low, b.close, b.lopen, b.lclose} \subseteq Nat \ {0}
                       /\ {b.eRaw, b.dip, b.grid, b.gap} \subseteq Nat /\ {b.hot, b.back} \subseteq BOOLEAN
                       /\ b.close * (20 - 3 * b.grid) >= 20     \* the lowest step has a price
    /\ Seeds \subseteq Seq([inst : {K200, LEV}, qty : Nat \ {0}, price : Nat])
    /\ \A f \in FlagSets : {f.noTp, f.lever, f.gap, f.marketBoot} \subseteq BOOLEAN

NoPrice == 0
Tactical == {"lev_tact1", "lev_tact2"}
LevKinds == Tactical \cup {"lev_strat"}

VARIABLES
    flags, seed,
    first,      \* index the simulation starts at
    hist,       \* the bars so far
    regimes,    \* the regime after each of them
    regime,     \* of the last plan
    cash, lots, \* the simulated portfolio; lots: [id, inst, qty, price, kind, tp]
    nextLot,
    firstPlan,  \* index of the first plan, 0 before it
    plan,       \* orders to be filled on the next bar, or NoPlan
    rows,       \* lots of the live ledger: [inst, qty, price, at, kind, tp], kind and tp
                \* as tagged when bought
    strayed,    \* history: a take-profit was sold while some lot had another price than
                \* its tag, or was offered at one
    fees        \* history: fees charged since the fills last left cash that was not negative
plannerVars == <<flags, seed, first, hist, regimes, regime, cash, lots, nextLot, firstPlan,
                 plan, rows, strayed, fees>>

NoPlan == [ok |-> FALSE, planned |-> FALSE]
bar == hist[Len(hist)]

-----------------------------------------------------------------------------
(* Arithmetic and sums. *)

TakeProfit(px, grid) == CeilDiv(px * (20 + grid), 20)       \* round_tick, up

\* Sum of the quantities of the records of s that are in R.
Qty(s, R) == LET qty(i) == IF s[i] \in R THEN s[i].qty ELSE 0 IN MapThenSumSet(qty, 1..Len(s))
OfInst(s, inst) == {r \in Range(s) : r.inst = inst}
OfKind(s, K) == {r \in Range(s) : r.kind \in K}
OfSide(s, inst, side) == {o \in Range(s) : o.inst = inst /\ o.side = side}
Held(s, inst) == Qty(s, OfInst(s, inst))
HeldKind(s, K) == Qty(s, OfKind(s, K))
Ordered(s, inst, side) == Qty(s, OfSide(s, inst, side))
Worth(c, s, b) == c + Held(s, K200) * b.close + Held(s, LEV) * b.lclose

-----------------------------------------------------------------------------
(* The regime: regime.py. *)


NextRegime(old, b) ==
    CASE b.price < 0 /\ b.trend < 0 -> "BEAR"
      [] b.price > 0 /\ b.trend > 0 -> "BULL"
      [] OTHER -> IF old = "BULL" /\ b.price # -2 /\ b.trend # -2 THEN "BULL"
                  ELSE IF old = "BEAR" /\ b.price # 2 /\ b.trend # 2 THEN "BEAR"
                  ELSE "NEUTRAL"

\* Mutant: a simulation that starts later starts from NEUTRAL.
ColdRegime(old, i, b) == IF i < first \/ i < FirstOk THEN "NEUTRAL" ELSE NextRegime(old, b)

\* The regime after bar i, of the warm-up (warm_regime) and of the simulation.
RegimeAt(old, i, b) == IF i < FirstOk THEN "NEUTRAL" ELSE NextRegime(old, b)

-----------------------------------------------------------------------------
(* The orders of an evening: planner.plan.  A context x carries the regime,
   the exposure, the equity and what is left of the cash, in twentieths. *)

Emax(r) == CASE r = "BULL" -> (IF flags.lever THEN EmaxBull ELSE 20)
             [] r = "NEUTRAL" -> EmaxNeutral
             [] OTHER -> EmaxBear

Context(b) ==
    LET r == NextRegime(regime, b)
        e == Least(Emax(r), b.eRaw)
        w200 == IF flags.lever THEN Least(e, 40 - e) ELSE e
        equity == Worth(cash, lots, b)
    IN  [bar |-> b, regime |-> r, changed |-> r # regime, equity |-> equity,
         wLev |-> IF flags.lever THEN Most(0, e - 20) ELSE 0,
         missing |-> w200 * equity - 20 * Held(lots, K200) * b.close,
         forced |-> r # "BULL" \/ b.hot]

Order(inst, side, type, qty, price, kind) ==
    [inst |-> inst, side |-> side, type |-> type, qty |-> qty, price |-> price,
     kind |-> kind, lot |-> 0]
MarketOrder(inst, side, qty, kind) ==
    IF qty > 0 THEN <<Order(inst, side, "market", qty, NoPrice, kind)>> ELSE <<>>

\* Mutant: leverage is sold when the volatility is too high, not when the regime is left.
LiquidateHot(x) ==
    IF flags.lever /\ (x.bar.hot \/ (x.regime = "BULL" /\ x.wLev = 0))
    THEN MarketOrder(LEV, "sell", Held(lots, LEV), "lev_liq") ELSE <<>>

\* Leverage goes first: regime left, volatility too high, or no exposure above one.
Liquidate(x) ==
    IF flags.lever /\ (x.forced \/ x.wLev = 0)
    THEN MarketOrder(LEV, "sell", Held(lots, LEV), "lev_liq") ELSE <<>>

\* Shares sold down to the target: at once when the regime changes or in a bear
\* market, else when the excess passes the band.
ReduceQty(x) ==
    LET excess == -x.missing
    IN  IF excess > 0 /\ (x.changed \/ x.regime = "BEAR" \/ excess > Band * x.equity)
        THEN excess \div (20 * x.bar.close) ELSE 0

Steps == <<1, 2, 3>>
TotalWeight == Weights[1] + Weights[2] + Weights[3]
Weight(k) == IF TotalWeight = 0 THEN 1 ELSE Weights[k]
WeightSum == IF TotalWeight = 0 THEN 3 ELSE TotalWeight

\* Mutant: each step rounds its own share down.
LadderFloor(n) == [k \in 1..3 |-> (n * Weight(k)) \div WeightSum]

\* _core_tp_ladder: n shares over the steps by weight, what is left over by the
\* largest remainder, the nearer step first.
Ladder(n) ==
    LET base(k) == (n * Weight(k)) \div WeightSum
        rest(k) == (n * Weight(k)) % WeightSum
        left == n - (base(1) + base(2) + base(3))
        ahead(k) == {j \in 1..3 : rest(j) > rest(k) \/ (rest(j) = rest(k) /\ j < k)}
    IN  [k \in 1..3 |-> base(k) + (IF Cardinality(ahead(k)) < left THEN 1 ELSE 0)]

TpOrder(lot, qty, price) ==
    IF qty > 0 THEN <<[Order(K200, "sell", "limit", qty, price, "tp") EXCEPT !.lot = lot.id]>> ELSE <<>>

\* Limit sells of n shares of a lot: a core lot has no price of its own and is offered on
\* a ladder.
Offer(x, lot, n) ==
    LET part == Ladder(n)
        step(k) == TpOrder(lot, part[k], CeilDiv(x.bar.close * (20 + k * x.bar.grid), 20))
    IN  IF lot.kind = "grid" THEN TpOrder(lot, n, lot.tp) ELSE step(1) \o step(2) \o step(3)

\* One lot more: without the shares the reduction takes first.
OfferLot(x, acc, lot) ==
    LET taken == Least(acc.reduce, lot.qty)
    IN  IF lot.inst # K200 THEN acc
        ELSE [reduce |-> acc.reduce - taken, orders |-> acc.orders \o Offer(x, lot, lot.qty - taken)]

\* The lots are offered but for what the reduction sells, first in first out.
TpOrders(x, reduce) ==
    LET add(acc, lot) == OfferLot(x, acc, lot)
    IN  IF x.regime = "NEUTRAL" \/ (x.regime = "BULL" /\ ~flags.noTp)
        THEN FoldLeft(add, [reduce |-> reduce, orders |-> <<>>], lots).orders ELSE <<>>

\* Small entry of the first days, half in a bear market: its share f (in fortieths)
\* of what is missing, and its order; dropped when the cash does not reach.
Boot(x, left) ==
    LET n == IF firstPlan = 0 THEN 0 ELSE Len(hist) - firstPlan
        f == Least(40, IF x.regime = "BEAR" THEN BootFrac ELSE 2 * BootFrac)
        qty == (f * x.missing) \div (800 * x.bar.close)
        type == IF flags.marketBoot THEN "market" ELSE "limit"
        price == IF flags.marketBoot THEN NoPrice ELSE x.bar.close
    IN  IF /\ seed = <<>> /\ n < BootDays /\ x.missing > 0
           /\ qty > 0 /\ 20 * qty * x.bar.close <= left
        THEN [f |-> f, left |-> left - 20 * qty * x.bar.close,
              orders |-> <<Order(K200, "buy", type, qty, price, "boot")>>]
        ELSE [f |-> 0, left |-> left, orders |-> <<>>]

\* What a plan may still spend on the fund, in fortieths, and the price of a step down.
Budget(x, boot) == (40 - boot.f) * (IF flags.gap THEN Most(0, x.missing)
                                    ELSE x.missing + 20 * Held(lots, K200) * x.bar.close)
StepPrice(x, k) == (x.bar.close * (20 - k * x.bar.grid)) \div 20
Wanted(x, boot, k) == (Budget(x, boot) * Weight(k)) \div (800 * WeightSum * StepPrice(x, k))
GridOrder(x, acc, k, qty) ==
    IF qty <= 0 THEN acc
    ELSE [left |-> acc.left - 20 * qty * StepPrice(x, k),
          orders |-> Append(acc.orders, Order(K200, "buy", "limit", qty, StepPrice(x, k), "grid"))]

\* Mutant: a step the cash does not cover is bought in full.
StepUncapped(x, boot, acc, k) == GridOrder(x, acc, k, Wanted(x, boot, k))

\* A step of the grid, cut down to the cash left.
GridStep(x, boot, acc, k) ==
    GridOrder(x, acc, k, Least(Wanted(x, boot, k), Most(0, acc.left) \div (20 * StepPrice(x, k))))

\* Grid of buys below the close, none in a bear market: the budget by weight.
Grid(x, boot) ==
    LET none == [left |-> boot.left, orders |-> <<>>]
        step(acc, k) == GridStep(x, boot, acc, k)
    IN  IF x.regime = "BEAR" THEN none ELSE FoldLeft(step, none, Steps)

\* The two tracks of leverage share the wallet of the grid.  Amounts in units of
\* 1 / (400 Multiple).
Leverage(x, left) ==
    LET unit == 400 * Multiple * x.bar.lclose
        band == 20 * Multiple * Band * x.equity
        held == HeldKind(lots, {"lev_strat"})
        diff == 2 * x.wLev * StratRatio * x.equity - unit * held
        Bought(amount, l) == Least(amount, 20 * Multiple * Most(0, l)) \div unit
        strat == IF diff > 0 /\ (held = 0 \/ diff > band) THEN Bought(diff, left) ELSE 0
        sold == IF -diff > band THEN (-diff) \div unit ELSE 0
        left1 == left - 20 * strat * x.bar.lclose
        each == x.wLev * (20 - StratRatio) * x.equity
        Entry(n, kind, l) ==
            IF x.bar.dip >= n /\ HeldKind(lots, {kind}) = 0 THEN Bought(each, l) ELSE 0
        tact1 == Entry(1, "lev_tact1", left1)
        tact2 == Entry(2, "lev_tact2", left1 - 20 * tact1 * x.bar.lclose)
    IN  IF ~flags.lever \/ x.forced \/ x.wLev = 0 THEN <<>>
        ELSE MarketOrder(LEV, "buy", strat, "lev_strat") \o MarketOrder(LEV, "sell", sold, "lev_strat")
             \o MarketOrder(LEV, "buy", tact1, "lev_tact1") \o MarketOrder(LEV, "buy", tact2, "lev_tact2")

\* The tactical lots leave when LEV is back at its average.
TacticalExit(x) ==
    IF flags.lever /\ ~x.forced /\ x.wLev > 0 /\ x.bar.back
    THEN MarketOrder(LEV, "sell", HeldKind(lots, Tactical), "lev_tact_exit") ELSE <<>>

\* Mutant: each track keeps to its own target only.
CapNothing(x, orders) == <<>>

\* What is above the target by more than the band is cut, planned orders counted.
Cap(x, orders) ==
    LET unit == 20 * Multiple * x.bar.lclose
        held == Held(lots, LEV)
        planned == Ordered(orders, LEV, "buy") - Ordered(orders, LEV, "sell")
        excess == (held + planned) * unit - 2 * x.wLev * x.equity
    IN  IF flags.lever /\ ~x.forced /\ x.wLev > 0 /\ held > 0 /\ excess > Multiple * Band * x.equity
        THEN MarketOrder(LEV, "sell", Least(excess \div unit, held + Most(0, planned)), "lev_cap")
        ELSE <<>>

\* The plan on the close of b, with what the properties compare it to.
PlanOf(b) ==
    LET x == Context(b)
        reduce == ReduceQty(x)
        wallet == 20 * (cash + reduce * b.close) - Buffer * x.equity
        boot == Boot(x, wallet)
        grid == Grid(x, boot)
        before == Liquidate(x) \o MarketOrder(K200, "sell", reduce, "reduce") \o TpOrders(x, reduce)
                  \o boot.orders \o grid.orders \o Leverage(x, grid.left) \o TacticalExit(x)
    IN  [ok |-> TRUE, planned |-> TRUE, regime |-> x.regime, grid |-> b.grid,
         orders |-> before \o Cap(x, before),
         gapBelow |-> IF flags.gap /\ (x.regime # "BEAR" \/ boot.orders # <<>>)
                      THEN b.close - b.gap ELSE -1,
         wallet |-> wallet, wLev |-> x.wLev, equity |-> x.equity]

\* apply_regime_conversion: into a bull market the lots lose their price, out of it
\* they get one from the close of the day.
Convert(s, old, new, b) ==
    LET one(l) ==
            IF l.inst # K200 \/ old = new THEN l
            ELSE IF new = "BULL" /\ flags.noTp /\ l.kind = "grid"
                 THEN [l EXCEPT !.kind = "core", !.tp = NoPrice]
            ELSE IF old = "BULL" /\ l.kind = "core"
                 THEN [l EXCEPT !.kind = "grid", !.tp = TakeProfit(b.close, b.grid)]
            ELSE l
    IN  [i \in 1..Len(s) |-> one(s[i])]

-----------------------------------------------------------------------------
(* The fills of the next bar: backtest.run_backtest, ledger rows beside it.
   An account t is [cash, lots, rows, next]. *)

\* Takes n shares from the records that are in R, first in first out; what is empty is dropped.
TakeOne(R, acc, l) ==
    LET k == IF l \in R THEN Least(acc.rest, l.qty) ELSE 0
    IN  [rest |-> acc.rest - k,
         lots |-> IF k = l.qty THEN acc.lots ELSE Append(acc.lots, [l EXCEPT !.qty = @ - k])]
Take(s, n, R) ==
    LET one(acc, l) == TakeOne(R, acc, l) IN FoldLeft(one, [rest |-> n, lots |-> <<>>], s)

\* _prefers: the ledger rows a sell of the order o is taken from first.
Prefers(o, row) ==
    CASE o.kind = "tp" -> row.tp = o.price
      [] o.kind = "lev_strat" -> row.kind = "lev_strat"
      [] o.kind \in {"lev_tact_exit", "lev_cap"} -> row.kind \in Tactical
      [] OTHER -> FALSE

\* consume_sell.
Consume(s, o, n) ==
    LET pass == Take(s, n, {r \in OfInst(s, o.inst) : Prefers(o, r)})
    IN  Take(pass.lots, pass.rest, {r \in OfInst(pass.lots, o.inst) : ~Prefers(o, r)}).lots

\* _Ledger.sell: the lot of a take-profit, the lots of the kind the order sells, or
\* any; a cut by the cap takes tactical lots, then strategic ones.
SellLots(s, o, n) ==
    LET target ==
            CASE o.kind = "tp" -> {l \in Range(s) : l.id = o.lot}
              [] o.kind = "lev_strat" -> OfKind(s, {"lev_strat"})
              [] o.kind \in {"lev_tact_exit", "lev_cap"} -> OfKind(s, Tactical)
              [] OTHER -> OfInst(s, o.inst)
        pass == Take(s, n, target)
    IN  IF o.kind = "lev_cap" THEN Take(pass.lots, pass.rest, OfKind(pass.lots, {"lev_strat"})) ELSE pass

Sell(t, o, n, px) ==
    LET sold == SellLots(t.lots, o, n)
    IN  [t EXCEPT !.cash = @ + (n - sold.rest) * px, !.lots = sold.lots,
                  !.rows = Consume(@, o, n)]

\* lot_tag, and the lot of the simulator: the kind of a purchase and its price to sell.
Tag(o, px) ==
    IF o.inst = LEV THEN [kind |-> o.kind, tp |-> NoPrice]
    ELSE IF plan.regime = "BULL" /\ flags.noTp THEN [kind |-> "core", tp |-> NoPrice]
    ELSE [kind |-> "grid", tp |-> TakeProfit(px, plan.grid)]

\* The account once the order o is filled at px.
WithLot(t, o, px) ==
    LET tag == Tag(o, px)
        lot == [id |-> t.next, inst |-> o.inst, qty |-> o.qty, price |-> px,
                kind |-> tag.kind, tp |-> tag.tp, tag |-> tag.tp]
        row == [inst |-> o.inst, qty |-> o.qty, price |-> px, at |-> Len(hist) + 1,
                kind |-> tag.kind, tp |-> tag.tp]
    IN  [cash |-> t.cash - o.qty * px, lots |-> Append(t.lots, lot),
         rows |-> Append(t.rows, row), next |-> t.next + 1]

\* Mutant: a purchase needs cash, not its price.
BuyWithCash(t, o, px) == IF t.cash <= 0 THEN t ELSE WithLot(t, o, px)

\* A purchase the cash does not cover is skipped.
Buy(t, o, px) == IF o.qty * px > t.cash THEN t ELSE WithLot(t, o, px)

OpenOf(o, b) == IF o.inst = LEV THEN b.lopen ELSE b.open
Is(o, type, side) == o.type = type /\ o.side = side
GapHit(b) == b.open <= plan.gapBelow

\* What an order does in each pass over the plan: 1. market sells at the open, 2. market
\* buys at the open, 3. limit buys, 4. take-profits, each from its lot if that is still
\* there.  After a gap neither the small entry nor a limit buy is filled.
Fill(n, u, o, b) ==
    CASE n = 1 /\ Is(o, "market", "sell") -> Sell(u, o, o.qty, OpenOf(o, b))
      [] n = 2 /\ Is(o, "market", "buy") /\ ~(o.kind = "boot" /\ GapHit(b)) -> Buy(u, o, OpenOf(o, b))
      [] n = 3 /\ Is(o, "limit", "buy") /\ b.low <= o.price /\ ~GapHit(b) ->
            Buy(u, o, Least(b.open, o.price))
      [] n = 4 /\ Is(o, "limit", "sell") /\ b.high >= o.price /\ (\E l \in Range(u.lots) : l.id = o.lot) ->
            LET lot == CHOOSE l \in Range(u.lots) : l.id = o.lot
            IN  Sell(u, o, Least(o.qty, lot.qty), Most(b.open, o.price))
      [] OTHER -> u
Pass(n, t, b) == LET fill(u, o) == Fill(n, u, o, b) IN FoldLeft(fill, t, plan.orders)

-----------------------------------------------------------------------------
(* The lots of a live portfolio: lots.rebuild_lots. *)

\* Mutant: the conversion of the evening before is left out.
ReplayShort == Len(hist) - 2

\* Conversions decided before the evening of the rebuild.
ReplayBefore == Len(hist) - 1

\* A row without a tag is a core lot, or a strategic one; the others are replayed
\* through the changes of regime since they were bought.
Rebuilt(row) ==
    LET kind == IF row.kind # "none" THEN row.kind
                ELSE IF row.inst = LEV THEN "lev_strat" ELSE "core"
        lot == [inst |-> row.inst, qty |-> row.qty, price |-> row.price,
                kind |-> kind, tp |-> row.tp]
        step(l, i) == Convert(<<l>>, regimes[i], regimes[i + 1], hist[i])[1]
    IN  IF row.kind = "none" THEN lot
        ELSE FoldLeft(step, lot, [n \in 1..(ReplayBefore - row.at + 1) |-> row.at + n - 1])

LiveLots == [i \in 1..Len(rows) |-> Rebuilt(rows[i])]

-----------------------------------------------------------------------------
(* The simulation. *)

SeedLot(i) == LET h == seed[i]
              IN  [id |-> i, inst |-> h.inst, qty |-> h.qty, price |-> h.price, tp |-> NoPrice,
                   tag |-> NoPrice, kind |-> IF h.inst = K200 THEN "core" ELSE "lev_strat"]
SeedRow(i) == [inst |-> seed[i].inst, qty |-> seed[i].qty, price |-> seed[i].price,
               at |-> 0, kind |-> "none", tp |-> NoPrice]

PlannerInit ==
    /\ flags \in FlagSets /\ seed \in Seeds /\ first \in Starts
    /\ hist = <<>> /\ regimes = <<>> /\ regime = "NEUTRAL"
    /\ cash = Capital
    /\ lots = [i \in 1..Len(seed) |-> SeedLot(i)]
    /\ rows = [i \in 1..Len(seed) |-> SeedRow(i)]
    /\ nextLot = Len(seed) + 1
    /\ firstPlan = 0 /\ plan = NoPlan /\ strayed = FALSE /\ fees = 0

\* A bar of the warm-up: only the regime is kept up.
Warmup ==
    /\ Len(hist) < first
    /\ \E b \in Bars :
          /\ hist' = Append(hist, b)
          /\ regimes' = Append(regimes, "NONE")
          /\ regime' = IF Len(hist) + 1 < first THEN RegimeAt(regime, Len(hist) + 1, b) ELSE regime
    /\ UNCHANGED <<flags, seed, first, cash, lots, nextLot, firstPlan, plan, rows, strayed, fees>>

\* Bound: a simulation is followed as long as its account is worth something.  What the fees
\* of years owe may exceed holdings that have lost nearly all of their value; the code then
\* goes on, with orders for more shares than are held, of which those held are sold.
Solvent == Worth(cash, lots, bar) >= 0

\* The evening of bar Len(hist): the plan, then the conversion of the lots.
MakePlan ==
    /\ ~plan.planned /\ Len(hist) >= first /\ Solvent
    /\ IF Len(hist) < FirstOk
       THEN /\ plan' = [NoPlan EXCEPT !.planned = TRUE]
            /\ regime' = "NEUTRAL"
            /\ UNCHANGED <<lots, firstPlan>>
       ELSE /\ plan' = PlanOf(bar)
            /\ regime' = plan'.regime
            /\ lots' = Convert(lots, regime, plan'.regime, bar)
            /\ firstPlan' = IF firstPlan = 0 THEN Len(hist) ELSE firstPlan
    /\ UNCHANGED <<flags, seed, first, hist, regimes, cash, nextLot, rows, strayed, fees>>

\* A lot whose price to sell is not its tag, or that is offered at another price.
OffTag(l) == l.tp # l.tag \/ \E o \in Range(plan.orders) : o.lot = l.id /\ o.price # l.tp

\* The fee for the holdings s at the close of b.
HoldingFee(s, b) == CeilDiv(Worth(0, s, b), HoldDiv)

\* The next bar fills the plan; then the fee is taken, whatever cash is left.
Trade ==
    /\ plan.planned /\ Len(hist) < LastBar
    /\ \E b \in Bars :
          LET start == [cash |-> cash, lots |-> lots, rows |-> rows, next |-> nextLot]
              bought == Pass(3, Pass(2, Pass(1, start, b), b), b)
              after == IF plan.ok THEN Pass(4, bought, b) ELSE start
              fee == HoldingFee(after.lots, b)
          IN  /\ cash' = after.cash - fee /\ lots' = after.lots
              /\ fees' = (IF after.cash >= 0 THEN 0 ELSE fees) + fee
              /\ rows' = after.rows /\ nextLot' = after.next
              /\ strayed' = (strayed \/ (/\ plan.ok /\ after # bought
                                         /\ \E l \in Range(bought.lots) : OffTag(l)))
              /\ hist' = Append(hist, b)
    /\ regimes' = Append(regimes, regime)
    /\ plan' = NoPlan
    /\ UNCHANGED <<flags, seed, first, regime, firstPlan>>

PlannerNext == Warmup \/ MakePlan \/ Trade

PlannerSpec == PlannerInit /\ [][PlannerNext]_plannerVars

-----------------------------------------------------------------------------
(* Properties. *)

Regimes == {"BULL", "NEUTRAL", "BEAR"}

\* Types: quantities stay positive whole numbers, kinds are those of the instrument.
PlannerTypeOK ==
    /\ cash \in Int /\ fees \in Nat /\ regime \in Regimes
    /\ Len(hist) <= LastBar /\ Len(regimes) = Len(hist)
    /\ \A l \in Range(lots) :
          /\ l.id \in 1..(nextLot - 1) /\ l.qty \in Nat \ {0} /\ l.price \in Nat /\ l.tp \in Nat
          /\ IF l.inst = LEV THEN l.kind \in LevKinds ELSE l.kind \in {"grid", "core"}
    /\ \A r \in Range(rows) : r.qty \in Nat \ {0} /\ r.at \in 0..Len(hist)

Planned(inst, side) == Ordered(plan.orders, inst, side)

\* No share is sold twice: what a plan sells of an instrument, all kinds of orders
\* together, is never more than what is held (planner.py:220, earmarked shares).
SellsCovered ==
    plan.ok => \A inst \in {K200, LEV} : Planned(inst, "sell") <= Held(lots, inst)

\* In a neutral market every share of the fund is offered, by the reduction or by
\* the take-profit of its lot: the ladder neither loses nor adds a share, and in every
\* market none is sold twice.
EveryShareOffered ==
    SellsCovered /\ (plan.ok /\ plan.regime = "NEUTRAL" => Planned(K200, "sell") = Held(lots, K200))

\* What the purchases among orders s cost, those at the market at the prices of b.
Spent(s, b) ==
    LET price(o) == IF o.inst = LEV THEN b.lclose ELSE IF o.price = NoPrice THEN b.close ELSE o.price
        cost(i) == IF s[i].side = "buy" THEN s[i].qty * price(s[i]) ELSE 0
    IN  MapThenSumSet(cost, 1..Len(s))

\* One wallet: the purchases of a plan, at the prices it is made with, never cost
\* more than the cash with the planned reduction and without the reserve; and filled at
\* other prices they never take the cash below zero.  Only the fees do, which are charged
\* without a floor (backtest.py:340): what is missing is never more than the fees since
\* the fills last left none missing.
BuysWithinWallet ==
    /\ PlannerTypeOK /\ cash + fees >= 0
    /\ plan.ok => 20 * Spent(plan.orders, bar) <= Most(0, plan.wallet)

\* With its plan filled at the close the leverage held is at most its target plus the
\* band, whatever the tracks do on their own (ADR-012), but for part of a share.
LeverageCapped ==
    plan.ok /\ flags.lever /\ plan.regime = "BULL" =>
        LET unit == 20 * Multiple * bar.lclose
            after == Held(lots, LEV) + Planned(LEV, "buy") - Planned(LEV, "sell")
            excess == after * unit - 2 * plan.wLev * plan.equity
        IN  excess <= Most(Multiple * Band * plan.equity, unit - 1)

\* Once the plan of a market that does not rise has been filled no leverage is left.
NoLeverageOutsideBull ==
    plan.ok /\ flags.lever /\ plan.regime # "BULL" /\ ~plan'.planned => Held(lots', LEV) = 0

\* The regime is that of the whole series, wherever the simulation starts
\* (backtest.warm_regime).
RegimeIsHistory ==
    LET of[k \in 0..Len(hist)] == IF k < FirstOk THEN "NEUTRAL" ELSE NextRegime(of[k - 1], hist[k])
    IN  Len(hist) >= first => regime = of[IF plan.planned THEN Len(hist) ELSE Len(hist) - 1]

\* A live account with the same fills holds, per instrument and per track of leverage,
\* what the simulation holds: a sell taken from other rows never changes a total.
LiveHoldings ==
    ~plan.planned =>
        /\ Held(rows, K200) = Held(lots, K200)
        /\ \A k \in LevKinds : HeldKind(LiveLots, {k}) = HeldKind(lots, {k})

SameLots(s, t) ==
    LET key(l) == <<l.inst, l.kind, l.tp, l.price, l.qty>>
        count(u, l) == Cardinality({i \in 1..Len(u) : key(u[i]) = key(l)})
    IN  \A l \in Range(s) \cup Range(t) : count(s, l) = count(t, l)

\* Until a take-profit is sold beside a lot whose price is no longer its tag, or that is
\* offered at another, the lots rebuilt in the evening, kinds and prices included, are those
\* of the simulation.
LiveUntilStrayed ==
    LiveHoldings /\ (~plan.planned /\ seed = <<>> /\ ~strayed => SameLots(LiveLots, lots))

\* lots.py and its regression test: the rebuilt lots are those of the backtest.
LiveEqualsBacktest == ~plan.planned /\ seed = <<>> => SameLots(LiveLots, lots)
=============================================================================
