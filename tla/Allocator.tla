------------------------------ MODULE Allocator ------------------------------
(***************************************************************************)
(* What the heap of kernel/api promises its callers: the words a caller    *)
(* was given are its own until it gives them back.                         *)
(***************************************************************************)
EXTENDS Integers

CONSTANTS SIZE,    \* the words of the pool
          Sizes    \* the requests

VARIABLE regions   \* the words at each address handed out

Init == regions = [p \in {} |-> 0]

Disjoint(p, n, q, m) == p + n <= q \/ q + m <= p

(* mem_malloc: some words nobody has.                                      *)
Give(p, n) ==
  /\ p \in 0..(SIZE - n)
  /\ \A q \in DOMAIN regions : Disjoint(p, n, q, regions[q])
  /\ regions' = [q \in DOMAIN regions \cup {p} |-> IF q = p THEN n ELSE regions[q]]

(* mem_free *)
TakeBack(p) ==
  /\ p \in DOMAIN regions
  /\ regions' = [q \in DOMAIN regions \ {p} |-> regions[q]]

(* mem_trim *)
Shrink(p, n) ==
  /\ p \in DOMAIN regions /\ n < regions[p]
  /\ regions' = [regions EXCEPT ![p] = n]

Next == \/ \E p \in 0..SIZE, n \in Sizes : Give(p, n) \/ Shrink(p, n)
        \/ \E p \in 0..SIZE : TakeBack(p)

Spec == Init /\ [][Next]_regions
=============================================================================
