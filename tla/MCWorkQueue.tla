----------------------------- MODULE MCWorkQueue -----------------------------
(* Small instances of a work queue for TLC.                                *)
EXTENDS WorkQueue
=============================================================================
