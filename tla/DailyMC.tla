------------------------------- MODULE DailyMC -------------------------------
(* The collected bars beside the formulas that use them, in one run: a behaviour is one
   of the collection and its signals, or a simulation, the other part being at rest. *)
EXTENDS StrategyMC, Market, TLC

CONSTANTS fund, lev, share, us, t1, t2, v1, g1, g2

\* Who takes part: the pair and its signals; US bars by two batches side by side; a
\* registered fund and a share nobody registered yet, seen by a batch and a view.
Pairs == [known |-> Pair, staff |-> {t1} \union Signal]
Abroad == [known |-> Foreign, staff |-> Batch]
Views == [known |-> {fund}, staff |-> {t1, v1}]
MCCasts == {Pairs, Abroad, Views}
MCRefused == {<<share, 1>>}

Alike == Permutations(Batch) \union Permutations(Signal)

MarketRests == MarketStart([known |-> {}, staff |-> {}])
StrategyRests == Init /\ formula = "none" /\ seed = <<>> /\ flags = Standard /\ first = 1

DailyInit == \/ Init /\ MarketRests
             \/ MarketInit /\ StrategyRests

DailyNext == \/ staff = {} /\ Next /\ UNCHANGED marketVars
             \/ staff # {} /\ MarketNext /\ UNCHANGED <<plannerVars, trendVars>>

DailySpec == DailyInit /\ [][DailyNext]_<<plannerVars, trendVars, marketVars>>

=============================================================================
