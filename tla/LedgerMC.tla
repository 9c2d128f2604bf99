------------------------------- MODULE LedgerMC -------------------------------
EXTENDS Ledger, TLC

\* By hand a purchase of two and a sell of one that prefers the lots of tag 3;
\* at the broker a purchase of such a lot and a sell across lots.
MCTrades == {[kind |-> "buy",  qty |-> 2, price |-> 1, tag |-> NoTag],
             [kind |-> "sell", qty |-> 1, price |-> 3, tag |-> 3]}
MCExecution ==
    (2 :> [kind |-> "buy",  qty |-> 2, price |-> 2, tag |-> 3, day |-> 1]) @@
    (1 :> [kind |-> "sell", qty |-> 1, price |-> 1, tag |-> NoTag, day |-> 2])
MCClose == [d \in 0..Days |-> d + 1]
MCSeed == {[qty |-> 2, price |-> 1, at |-> 2]}
MCSymmetry == Permutations(Req)
=============================================================================
