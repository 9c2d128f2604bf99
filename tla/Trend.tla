-------------------------------- MODULE Trend --------------------------------
(***************************************************************************)
(* The two formulas for the American index: TF, all in or all out of the    *)
(* fund by its trend (strategy/trendfilter.py), and LTM, which holds the    *)
(* leveraged pair while the trend is calm and one year up (strategy/ltm.py).*)
(* Both decide at the close and trade at the next open; the yearly fee is   *)
(* charged by the day, as far as the cash reaches.                          *)
(*                                                                          *)
(* A bar gives opens and closes of both funds, side in -2..2 (the close     *)
(* against MA200, -2 below the exit level), up: the year's return is        *)
(* positive, drop: the close fell by shock_drop or more.  Commission and    *)
(* slippage are left out; the fee is a whole unit per FeeDiv of value.      *)
(***************************************************************************)
EXTENDS Integers, Sequences, Amounts

CONSTANTS
    TrendBars,      \* bars a series is made of
    WarmBars,       \* bars before the first judgement
    LastTrendBar,   \* bound: bars of a series
    TrendCapital,
    TrendSeeds,     \* initial_lots: shares of the fund and of the pair held at the start
    Mult,           \* lev_multiple of the pair
    ShockDays,      \* bars without leverage after a drop
    Reserve,        \* cash kept back when a quantity is computed, in hundredths
    FeeDiv          \* value that costs one unit a day

ASSUME TrendAssumption ==
    /\ {WarmBars, LastTrendBar, TrendCapital, ShockDays} \subseteq Nat
    /\ TrendSeeds \subseteq Nat \X Nat /\ Mult \in {2, 3} /\ Reserve \in 0..99 /\ FeeDiv \in Nat \ {0}
    /\ \A b \in TrendBars : /\ {b.o1, b.c1, b.oL, b.cL} \subseteq Nat \ {0}
                            /\ b.side \in -2..2 /\ b.up \in BOOLEAN /\ b.drop \in BOOLEAN

VARIABLES
    formula,        \* "TF" or "LTM"
    brought,        \* shares held at the start, of the fund and of the pair
    tbars,          \* the bars so far
    start,          \* the bar of start_index: the next one is the first to be traded
    trendOn, shockUntil,
    model,          \* the simulation of the common model of TF: "out", "buying", "in", "selling"
    target,         \* exposure judged at the last close, NoTarget before the first
    tcash, due,     \* cash, fees put off
    q1, qL,         \* shares of the fund and of the pair
    pending,        \* change of the two quantities to trade at the next open, or None
    charged, flows  \* history: fees charged, cash flows of the trades
account == <<tcash, due, q1, qL, charged, flows>>
trendVars == <<formula, brought, tbars, start, trendOn, shockUntil, model, target, account, pending>>

NoTarget == -1
None == <<0, 0>>
Index == Len(tbars)
ValueAt(a, b) == a.q1 * b.c1 + a.qL * b.cL

-----------------------------------------------------------------------------
(* Judging a close. *)

\* The bar up to which leverage is blocked, drops of the warm-up included.
Shock(i, b) == IF b.drop /\ i > 1 THEN i + ShockDays ELSE shockUntil

OnAfter(b) == IF trendOn THEN b.side # -2 ELSE b.side > 0

\* ltm_states: 0 out, 1 the fund, 2 the pair.
Target(i, b) ==
    IF i <= WarmBars THEN NoTarget
    ELSE IF ~OnAfter(b) THEN 0
    ELSE IF b.up /\ i > Shock(i, b) THEN 2 ELSE 1

\* target_weights of an amount n: what goes into the fund and into the pair.
Weights2(e, n) == CASE e = 0 -> <<0, 0>>
                    [] e = 1 -> <<n, 0>>
                    [] OTHER -> <<n - n \div (Mult - 1), n \div (Mult - 1)>>

Invested(n) == (n * (100 - Reserve)) \div 100

\* The trend or the leverage has turned: trade at once.
Switched(e) == target = NoTarget \/ (target = 0) # (e = 0) \/ (target = 2) # (e = 2)

\* The exposure of a, worth v, is off the target e by the band or more: a tenth of e, and
\* of a half at least.
OffBand(a, b, v, e) ==
    LET now == ValueAt(a, b) + a.qL * b.cL * (Mult - 1)     \* exposure times v
        off == IF e * v > now THEN e * v - now ELSE now - e * v
    IN  IF v > 0 THEN 20 * off >= v * Most(2 * e, 1) ELSE e > 0

\* Mutant: a part of nothing gives no order.
RebalancePart(a, b, v, e) ==
    LET part == Weights2(e, Invested(v))
    IN  <<part[1] \div b.c1 - a.q1, IF part[2] = 0 THEN 0 ELSE part[2] \div b.cL - a.qL>>

\* What is missing to hold v in the parts of e.
Rebalance(a, b, v, e) ==
    LET part == Weights2(e, Invested(v))
    IN  <<part[1] \div b.c1 - a.q1, part[2] \div b.cL - a.qL>>

\* The orders of LTM for exposure e: none while the exposure of now is within the band.
OrdersLTM(a, b, e) ==
    LET v == a.cash + ValueAt(a, b) - a.due
    IN  IF Switched(e) \/ OffBand(a, b, v, e) THEN Rebalance(a, b, v, e) ELSE None

OrdersTF(a, b) ==
    IF a.q1 = 0 /\ b.side > 0 /\ Invested(a.cash) \div b.c1 > 0 THEN <<1, 0>>
    ELSE IF a.q1 > 0 /\ b.side = -2 THEN <<-a.q1, 0>> ELSE None

-----------------------------------------------------------------------------
(* The sheet of a real account, from the closes and the account of last evening.    *)

\* The model's position after a close, and whether its plan says BULL: it still does on
\* the evening it plans its sale.
ModelAfter(b) ==
    IF model \in {"buying", "in"} THEN (IF b.side = -2 THEN "selling" ELSE "in")
    ELSE IF b.side > 0 THEN "buying" ELSE "out"
WantHold == model # "out"

\* _tf_portfolio_orders: shares that are not of the fund are sold, and counted at its price.
LiveTF(a, b) ==
    IF WantHold THEN <<Invested(a.cash + a.qL * b.c1) \div b.c1, -a.qL>> ELSE <<-a.q1, -a.qL>>

\* Mutant: the sheet compares shares and not exposure.
LiveUnlevered(a, b, e) ==
    LET v == a.cash + ValueAt(a, b)
    IN  IF OffBand([a EXCEPT !.qL = 0], b, v, e) THEN Rebalance(a, b, v, e) ELSE None

\* _ltm_portfolio_orders: only the band decides, a turn of the trend does not.
LiveLTM(a, b, e) ==
    LET v == a.cash + ValueAt(a, b)
    IN  IF OffBand(a, b, v, e) THEN Rebalance(a, b, v, e) ELSE None

-----------------------------------------------------------------------------
(* One bar.  An account a is [cash, due, q1, qL, charged, flows]. *)

Account == [cash |-> tcash, due |-> due, q1 |-> q1, qL |-> qL, charged |-> charged, flows |-> flows]

\* Mutant: fees put off are cleared by a sale and not paid.
SettleForgets(a) == [a EXCEPT !.due = 0]

\* Fees put off are paid from the proceeds of a sale.
Settle(a) == LET paid == Least(a.due, a.cash)
             IN  [a EXCEPT !.cash = @ - paid, !.due = @ - paid]

\* No more is sold than is held.
SellShares(a, n, px, leg) ==
    LET k == Least(n, a[leg])
    IN  IF k <= 0 THEN a
        ELSE Settle([a EXCEPT ![leg] = @ - k, !.cash = @ + k * px, !.flows = @ + k * px])

\* A purchase is cut down to the cash.
BuyShares(a, n, px, leg) ==
    LET k == Least(n, a.cash \div px)
    IN  [a EXCEPT ![leg] = @ + k, !.cash = @ - k * px, !.flows = @ - k * px]

\* exec_orders: sells first.  TF computes its quantity again at the open.
AtOpen(a, b) ==
    LET sold == SellShares(SellShares(a, Most(0, -pending[1]), b.o1, "q1"),
                           Most(0, -pending[2]), b.oL, "qL")
        want == IF formula = "TF" /\ pending[1] > 0 THEN Invested(a.cash) \div b.o1
                ELSE Most(0, pending[1])
    IN  BuyShares(BuyShares(sold, want, b.o1, "q1"), Most(0, pending[2]), b.oL, "qL")

\* The fee of the day, what the cash does not cover put off.
Fee(a, b) ==
    LET fee == CeilDiv(ValueAt(a, b), FeeDiv)
        pay == Least(fee, Most(a.cash, 0))
    IN  [a EXCEPT !.cash = @ - pay, !.due = @ + fee - pay, !.charged = @ + fee]

TrendInit ==
    /\ formula \in {"TF", "LTM"} /\ brought \in TrendSeeds
    /\ start \in {1, WarmBars + 1}
    /\ tbars = <<>> /\ trendOn = FALSE /\ shockUntil = 0 /\ model = "out" /\ target = NoTarget
    /\ tcash = TrendCapital /\ due = 0
    /\ q1 = brought[1] /\ qL = IF formula = "LTM" THEN brought[2] ELSE 0     \* TF takes the fund only
    /\ pending = None /\ charged = 0 /\ flows = 0

Judge(b) ==
    /\ tbars' = Append(tbars, b)
    /\ trendOn' = IF Index + 1 > WarmBars THEN OnAfter(b) ELSE trendOn
    /\ shockUntil' = Shock(Index + 1, b)
    /\ model' = IF Index + 1 > WarmBars THEN ModelAfter(b) ELSE model
    /\ target' = Target(Index + 1, b)
    /\ UNCHANGED <<formula, brought, start>>

\* A bar before the start: only the states of ltm_states are kept up.
Before == /\ Index < start
          /\ \E b \in TrendBars : Judge(b)
          /\ UNCHANGED <<account, pending>>

\* A bar of the simulation: the plan of yesterday, the fee, the plan of today.
Day == /\ Index >= start /\ Index < LastTrendBar
       /\ \E b \in TrendBars :
             LET a == Fee(AtOpen(Account, b), b)
                 e == Target(Index + 1, b)
             IN  /\ Judge(b)
                 /\ tcash' = a.cash /\ due' = a.due /\ q1' = a.q1 /\ qL' = a.qL
                 /\ charged' = a.charged /\ flows' = a.flows
                 /\ pending' = IF e = NoTarget THEN None
                               ELSE IF formula = "TF" THEN OrdersTF(a, b)
                               ELSE OrdersLTM(a, b, e)

TrendNext == Before \/ Day

TrendSpec == TrendInit /\ [][TrendNext]_trendVars

-----------------------------------------------------------------------------
(* Properties. *)

\* The cash of a simulation is never negative, whatever the opens and the fees
\* (ltm.py:124, trendfilter.py:49), nor is a holding.
CashNeverNegative == tcash >= 0 /\ due >= 0 /\ q1 >= 0 /\ qL >= 0

\* A fee put off is still owed: cash less fees due is the capital, the trades and all
\* fees charged, so the equity curve counts each fee once.
FeesAreOwed == CashNeverNegative /\ tcash - due = TrendCapital + flows - charged

\* Nothing has been traded: the account holds what was brought along.
Untouched == <<q1, qL>> = brought /\ flows = 0

\* A trend left for two closes: the first one planned the sale, so nothing is held, but
\* for shares brought along that LTM leaves alone inside its band.
OutOfTrend ==
    Index > Most(start, WarmBars) + 1 /\ tbars[Index].side = -2 /\ tbars[Index - 1].side = -2
        => (q1 = 0 /\ qL = 0) \/ (formula = "LTM" /\ Untouched)

\* A drop blocks leverage for ShockDays closes, also a drop before the judgement starts.
LeverageNeedsCalm ==
    target = 2 => \A i \in Most(2, Index - ShockDays)..Index : ~tbars[i].drop

\* The last close left the account as it was brought: its exposure is within the band.
LeftAlone ==
    /\ Untouched /\ pending = None
    /\ ~OffBand(Account, tbars[Index], tcash + ValueAt(Account, tbars[Index]) - due, target)

\* The pair is held only as the last judged close before the open says: a close without
\* leverage leaves none after the next open, unless no close has traded anything yet of what
\* was brought along, the last one because the exposure is within the band.
LeverageFollowsJudgement ==
    formula = "LTM" /\ Index > start /\ Index' > Index /\ target \in {0, 1}
        => qL' = 0 \/ (LeftAlone /\ qL' = qL)

\* The sheet of a real account orders what the simulation plans from the same account,
\* though it lacks the rule that a turn trades at once (signals.py:712, ltm.py:211).  Only at
\* the first judged close of a simulation, whose holdings it has not chosen, the rule may
\* trade what the sheet leaves alone.
LiveSheetAgrees ==
    formula = "LTM" /\ Index > start /\ target # NoTarget /\ due = 0
        => LET live == LiveLTM(Account, tbars[Index], target)
           IN  live = pending \/ (live = None /\ Index = Most(start, WarmBars) + 1)

\* trendfilter.py:5: a close below the exit level is sold in full at the next open; so
\* says the sheet of an account that follows TF.
LiveExitsInTime ==
    formula = "TF" /\ Index > Most(start, WarmBars) /\ tbars[Index].side = -2 /\ q1 > 0
        => LiveTF(Account, tbars[Index]) = <<-q1, 0>>
=============================================================================
