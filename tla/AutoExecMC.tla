------------------------------ MODULE AutoExecMC ------------------------------
(***************************************************************************)
(* Small instances of AutoExec for TLC.  A sheet has a grid buy (subject to *)
(* the gap rule), a leveraged market buy and a profit-taking sell.          *)
(***************************************************************************)
EXTENDS AutoExec, TLC

CONSTANTS b1, b2, w1, w2, u1, u2    \* deliveries and requests

MCCode == [l \in Line |-> IF l = "lev" THEN "122630" ELSE "069500"]
\* Sells first, then market buys, then the grid.
MCRank == [l \in Line |-> CASE l = "sell" -> 0 [] l = "lev" -> 1 [] OTHER -> 2]
One == [l \in Line |-> 1]
Two == [l \in Line |-> 2]
MCPrice == [l \in Line |-> IF l = "lev" THEN 2 ELSE 3]
MCBase == [c \in Codes |-> 2]
Interchangeable == Permutations(Beat) \cup Permutations(Watch) \cup Permutations(User)
=============================================================================
