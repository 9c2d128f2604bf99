------------------------------- MODULE Amounts -------------------------------
(* Whole amounts: the smaller, the larger, and a quotient rounded up. *)
EXTENDS Integers

Least(a, b) == IF a < b THEN a ELSE b
Most(a, b) == IF a > b THEN a ELSE b
CeilDiv(a, b) == (a + b - 1) \div b
=============================================================================
