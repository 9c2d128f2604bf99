------------------------------ MODULE StrategyMC ------------------------------
(* The three formulas in one run: a behaviour is a simulation of RAVG, or one of TF
   or LTM, the other being left at its start. *)
EXTENDS PlannerMC, Trend

MCTrendBar == [o1 |-> 10, c1 |-> 10, oL |-> 5, cL |-> 5, side |-> 2, up |-> TRUE, drop |-> FALSE]
MCTrendBars == {
    MCTrendBar,
    [MCTrendBar EXCEPT !.o1 = 12, !.c1 = 11, !.oL = 7, !.cL = 6, !.side = 1, !.up = FALSE],
    [MCTrendBar EXCEPT !.c1 = 9, !.cL = 4, !.side = -1, !.drop = TRUE],
    [MCTrendBar EXCEPT !.o1 = 9, !.c1 = 8, !.oL = 4, !.cL = 3, !.side = -2]}

\* Nothing, a little of the pair, and a holding of the fund with a little of the pair: the
\* last two are within the band of the exposures 0 and 1.
MCTrendSeeds == {<<0, 0>>, <<0, 1>>, <<190, 8>>}

\* RAVG without one of its rules is started at the first bar only.
Init == \/ PlannerInit /\ (flags = Standard \/ first = 1)
           /\ formula = "none" /\ tbars = <<>> /\ brought = None /\ start = 0 /\ trendOn = FALSE /\ shockUntil = 0 /\ model = "out" /\ target = NoTarget /\ tcash = TrendCapital
           /\ due = 0 /\ q1 = 0 /\ qL = 0 /\ pending = None /\ charged = 0 /\ flows = 0
        \/ TrendInit /\ flags = Standard /\ seed = <<>> /\ first = 1 /\ hist = <<>>
           /\ regimes = <<>> /\ regime = "NEUTRAL" /\ cash = Capital /\ lots = <<>> /\ rows = <<>>
           /\ nextLot = 1 /\ firstPlan = 0 /\ plan = NoPlan /\ strayed = FALSE /\ fees = 0

Next == \/ formula = "none" /\ PlannerNext /\ UNCHANGED trendVars
        \/ formula # "none" /\ TrendNext /\ UNCHANGED plannerVars

Spec == Init /\ [][Next]_<<plannerVars, trendVars>>

\* Leverage is bounded in all formulas: RAVG's by its target (planner.py:370), LTM's by the
\* days since a drop (ltm.py:74), and none is left two closes after the trend ended, but for
\* shares brought into LTM and never traded.
LeverageBounded == LeverageCapped /\ LeverageNeedsCalm /\ OutOfTrend

\* It leaves with the judgement that allowed it: the open after a close without leverage
\* sells all of it, whatever band or track planned otherwise (planner.py:207, ltm.py:211),
\* unless LTM was opened with it and has left it alone so far, within the band (ltm.py:128).
LeverageLeaves == [][NoLeverageOutsideBull /\ LeverageFollowsJudgement]_<<plannerVars, trendVars>>
=============================================================================
