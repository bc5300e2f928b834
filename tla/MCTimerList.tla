---------------------------- MODULE MCTimerList ----------------------------
(* The timer list with a few timers, which only their order in the list tells apart. *)
EXTENDS TimerList, TLC

Symmetry == Permutations(Timers)
=============================================================================
