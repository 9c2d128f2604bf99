---------------------------- MODULE BacktestJobMC ----------------------------
(* Small instances of BacktestJob for TLC. *)
EXTENDS BacktestJob
CONSTANTS d1, d2, w1, w2, x1
=============================================================================
