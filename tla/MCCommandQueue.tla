--------------------------- MODULE MCCommandQueue ---------------------------
(* Instances of CommandQueue: the constants are in the configurations.     *)
EXTENDS CommandQueue
=============================================================================
