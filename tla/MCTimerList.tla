---------------------------- MODULE MCTimerList ----------------------------
(* Instance of TimerList for TLC: few enough times for timers to tie. *)
EXTENDS TimerList

MCTimes == 0 .. 3
=============================================================================
