----------------------------- MODULE MCRxReorder -----------------------------
(* A window of three slots in six numbers, with two payloads, for TLC.     *)
EXTENDS RxReorder, TLC

(* Payloads are only compared, and every property is a safety property.    *)
Symmetry == Permutations(Payloads)
=============================================================================
