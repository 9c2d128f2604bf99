------------------------------ MODULE PlannerMC ------------------------------
EXTENDS Planner

\* Bars: a quiet rise; a rise with a dip of LEV; the averages' way out of the bull
\* market; a fall through the gap; a rebound that fills the ladder.
Calm == [open |-> 20, high |-> 21, low |-> 19, close |-> 20, lopen |-> 5, lclose |-> 5,
         price |-> 1, trend |-> 1, eRaw |-> 30, hot |-> FALSE, dip |-> 0, back |-> FALSE,
         grid |-> 1, gap |-> 2]
MCBars == {
    Calm,
    [Calm EXCEPT !.open = 21, !.high = 22, !.low = 20, !.close = 21, !.lopen = 6, !.lclose = 4,
                 !.eRaw = 24, !.dip = 2],
    [Calm EXCEPT !.close = 19, !.low = 18, !.lclose = 5, !.price = -1, !.eRaw = 24, !.back = TRUE],
    [Calm EXCEPT !.high = 22, !.price = -2],
    [Calm EXCEPT !.open = 17, !.low = 16, !.high = 18, !.close = 17, !.lopen = 3, !.lclose = 3,
                 !.price = -2, !.trend = -1, !.eRaw = 10, !.hot = TRUE],
    [Calm EXCEPT !.open = 21, !.high = 23, !.close = 22, !.eRaw = 22, !.lopen = 9, !.lclose = 6]}
MCWeights == <<5, 3, 2>>
Standard == [noTp |-> TRUE, lever |-> TRUE, gap |-> TRUE, marketBoot |-> FALSE]
MCFlags == {Standard, [Standard EXCEPT !.noTp = FALSE, !.gap = FALSE],
            [Standard EXCEPT !.lever = FALSE, !.marketBoot = TRUE]}
\* No seed, or holdings whose first fee is more than the cash.
MCSeeds == {<<>>,
            <<[inst |-> K200, qty |-> 250, price |-> 18], [inst |-> LEV, qty |-> 100, price |-> 5]>>}
=============================================================================
