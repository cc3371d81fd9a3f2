----------------------------- MODULE MCBudgets -----------------------------
(* Two messages of one epoch and one of the next, with a budget of two ids *)
(* and a clock that can be set back.                                       *)
EXTENDS Budgets, TLC

CONSTANTS m1, m2, m3

MCMsgs == {m1, m2, m3}
MCEpochOf == (m1 :> 1) @@ (m2 :> 1) @@ (m3 :> 2)
MCClock == 1..2
============================================================================
