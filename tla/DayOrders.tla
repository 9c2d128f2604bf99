------------------------------ MODULE DayOrders ------------------------------
(***************************************************************************)
(* What unattended execution promises about the orders of one day, whatever *)
(* processes carry it out: nothing is ordered before the day is started,    *)
(* the day is started once, and a line is ordered again only when nothing   *)
(* of it is at the market or executed.                                      *)
(***************************************************************************)
EXTENDS Naturals

CONSTANTS
    Line,       \* lines of the order sheet
    PlanQty     \* [Line -> planned quantity]

VARIABLES started, standing   \* standing[l]: quantity of l live or executed
vars == <<started, standing>>

Init == started = FALSE /\ standing = [l \in Line |-> 0]

Start == ~started /\ started' = TRUE /\ UNCHANGED standing

Order(l, q) ==
    /\ started /\ standing[l] = 0
    /\ standing' = [standing EXCEPT ![l] = q]
    /\ UNCHANGED started

\* Cancels and the close take quantities away, never add any.
Withdraw ==
    /\ standing' \in [Line -> Nat]
    /\ \A l \in Line : standing'[l] <= standing[l]
    /\ UNCHANGED started

Next ==
    \/ Start \/ Withdraw
    \/ \E l \in Line : \E q \in 1..PlanQty[l] : Order(l, q)
Spec == Init /\ [][Next]_vars
=============================================================================
