---------------------------- MODULE MCTimerWheel ----------------------------
(* Small instances of the timer wheel for TLC.                             *)
EXTENDS TimerWheel
=============================================================================
