-------------------------- MODULE MCParallelCapture --------------------------
(* Small instances of the capture pipeline for TLC.                        *)
EXTENDS ParallelCapture
=============================================================================
