-------------------------------- MODULE MCHeap --------------------------------
(* Small heaps for TLC.                                                    *)
EXTENDS Heap
=============================================================================
