---------------------------- MODULE MCMoalTimers ----------------------------
(* Small instances of the driver's timers for TLC.                         *)
EXTENDS MoalTimers
=============================================================================
