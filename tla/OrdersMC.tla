------------------------------- MODULE OrdersMC -------------------------------
(* Instances of Orders for TLC. In the run orders one of several casts of requests acts:
   two reservations at once; a reservation or a direct order with a cancel, a refresh of
   the screen and the task after the close; a reservation beside a direct order. *)
EXTENDS Orders, TLC

CONSTANTS l1, l2, m1, m2, t, c, s, b

OneOrBoth == {<<l2>>, <<l1, l2>>}
Pairs == {{m1, m2, b}, {m1, c, s, b}, {m2, c, s, b}, {m1, t, b}, {m2, t, b}, {t, c, s, b}}
Direct == {{t, b}}
Alike == Permutations(Maker)
=============================================================================
