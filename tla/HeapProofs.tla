----------------------------- MODULE HeapProofs -----------------------------
(***************************************************************************)
(* Theorems about the heap, for every pool, header and set of requests.    *)
(* The list of blocks stays a partition of the pool with no two free       *)
(* neighbours, lfree stays its lowest free block, and each caller's words  *)
(* stay inside its block.                                                  *)
(*                                                                         *)
(* Every change of the list is one or two of: a new block inside a block   *)
(* (Insert), a block joined to the one before it (Remove).                 *)
(*                                                                         *)
(* The guards, and that the check after a failure spins only on a block    *)
(* that a trim has cut, rest on that, as does the promise of Allocator.    *)
(***************************************************************************)
EXTENDS Heap, TLAPS

(* f and g are the links of a partition of the pool: Chained and the types *)
(* of next and prev, of any two functions.                                 *)
Linked(f, g) ==
  /\ DOMAIN f \subseteq 0..(SIZE - 1) /\ DOMAIN g = DOMAIN f
  /\ f \in [DOMAIN f -> 0..SIZE] /\ g \in [DOMAIN f -> DOMAIN f]
  /\ 0 \in DOMAIN f /\ g[0] = 0
  /\ \A b \in DOMAIN f :
       /\ f[b] >= b + HDR + MIN
       /\ f[b] \in DOMAIN f \cup {SIZE}
       /\ f[b] \in DOMAIN f => g[f[b]] = b
       /\ b # 0 => f[g[b]] = b
       /\ \A c \in DOMAIN f : c <= b \/ f[b] <= c

InsertNext(f, b, p) == [c \in DOMAIN f \cup {p} |->
  IF c = p THEN f[b] ELSE IF c = b THEN p ELSE f[c]]
InsertPrev(f, g, b, p) == [c \in DOMAIN g \cup {p} |->
  IF c = p THEN b ELSE IF c = f[b] THEN p ELSE g[c]]

(* A block at p, inside the block b.                                       *)
LEMMA Insert ==
  ASSUME NEW f, NEW g, Linked(f, g), NEW b \in DOMAIN f, NEW p \in Nat,
         p >= b + HDR + MIN, f[b] >= p + HDR + MIN
  PROVE  /\ Linked(InsertNext(f, b, p), InsertPrev(f, g, b, p))
         /\ p \notin DOMAIN f
<1> USE SizesAssumption
<1> DEFINE F == InsertNext(f, b, p)
           G == InsertPrev(f, g, b, p)
<1>1. /\ DOMAIN F = DOMAIN f \cup {p} /\ DOMAIN G = DOMAIN f \cup {p}
      /\ F[p] = f[b] /\ G[p] = b
      /\ \A c \in DOMAIN f : c # p =>
           /\ F[c] = IF c = b THEN p ELSE f[c]
           /\ G[c] = IF c = f[b] THEN p ELSE g[c]
  BY DEF InsertNext, InsertPrev, Linked
<1>2. p \notin DOMAIN f
  <2>1. \A c \in DOMAIN f : c <= b \/ f[b] <= c BY DEF Linked
  <2> QED BY <2>1 DEF Linked
<1>a. /\ b \in Nat /\ f[b] \in Nat /\ f[b] <= SIZE /\ p < SIZE /\ p > b /\ f[b] > p
      /\ f[b] > b /\ p # 0 /\ f[b] # 0
  BY DEF Linked
<1> HIDE DEF F, G
<1>3. DOMAIN F \subseteq 0..(SIZE - 1) /\ DOMAIN G = DOMAIN F
  BY <1>1, <1>2, <1>a DEF Linked
<1>4. 0 \in DOMAIN F /\ G[0] = 0
  BY <1>1, <1>2, <1>a DEF Linked
<1>5. F \in [DOMAIN F -> 0..SIZE] /\ G \in [DOMAIN F -> DOMAIN F]
  <2>1. \A c \in DOMAIN F : F[c] \in 0..SIZE /\ G[c] \in DOMAIN F
    BY <1>1, <1>2, <1>a DEF Linked
  <2>2. F = [c \in DOMAIN F |-> F[c]] /\ G = [c \in DOMAIN G |-> G[c]]
    BY DEF F, G, InsertNext, InsertPrev
  <2> QED BY <1>3, <2>1, <2>2
<1>6. ASSUME NEW d \in DOMAIN F
      PROVE  /\ F[d] >= d + HDR + MIN
             /\ F[d] \in DOMAIN F \cup {SIZE}
             /\ F[d] \in DOMAIN F => G[F[d]] = d
             /\ d # 0 => F[G[d]] = d
             /\ \A c \in DOMAIN F : c <= d \/ F[d] <= c
  <2>1. CASE d = p BY <1>1, <1>2, <1>a, <2>1 DEF Linked
  <2>2. CASE d = b BY <1>1, <1>2, <1>a, <2>2 DEF Linked
  <2>3. CASE d # b /\ d # p
    <3>1. d \in DOMAIN f /\ F[d] = f[d] BY <1>1, <2>3
    <3>2. f[d] # p BY <1>2, <1>a, <3>1 DEF Linked
    <3>3. f[d] # f[b] BY <1>a, <2>3, <3>1 DEF Linked
    <3>4. f[d] <= p \/ p <= d
      <4>1. b <= d \/ f[d] <= b BY <3>1 DEF Linked
      <4>2. d <= b \/ f[b] <= d BY <3>1 DEF Linked
      <4> QED BY <1>a, <2>3, <3>1, <4>1, <4>2 DEF Linked
    <3>5. d # 0 => F[G[d]] = d
      <4>1. CASE d = f[b] BY <1>1, <1>2, <3>1, <4>1
      <4>2. CASE d # f[b]
        <5>1. G[d] = g[d] /\ g[d] \in DOMAIN f /\ g[d] # p BY <1>1, <1>2, <2>3, <3>1, <4>2 DEF Linked
        <5> QED BY <1>1, <3>1, <4>2, <5>1 DEF Linked
      <4> QED BY <4>1, <4>2
    <3>6. \A c \in DOMAIN F : c <= d \/ F[d] <= c
      BY <1>1, <3>1, <3>4 DEF Linked
    <3>7. F[d] \in DOMAIN F => G[F[d]] = d
      BY <1>1, <3>1, <3>2, <3>3 DEF Linked
    <3> QED BY <1>1, <3>1, <3>5, <3>6, <3>7 DEF Linked
  <2> QED BY <2>1, <2>2, <2>3
<1> QED BY <1>2, <1>3, <1>4, <1>5, <1>6 DEF Linked, F, G

RemoveNext(f, b) == [c \in DOMAIN f \ {f[b]} |-> IF c = b THEN f[f[b]] ELSE f[c]]
RemovePrev(f, g, b) == [c \in DOMAIN g \ {f[b]} |-> IF c = f[f[b]] THEN b ELSE g[c]]

(* The block after b becomes part of it.                                   *)
LEMMA Remove ==
  ASSUME NEW f, NEW g, Linked(f, g), NEW b \in DOMAIN f, f[b] # SIZE
  PROVE  Linked(RemoveNext(f, b), RemovePrev(f, g, b))
<1> USE SizesAssumption
<1> DEFINE n == f[b]
           F == RemoveNext(f, b)
           G == RemovePrev(f, g, b)
<1>1. /\ n \in DOMAIN f /\ b < n /\ n < f[n] /\ n # 0
      /\ f[n] \in Nat /\ n \in Nat /\ b \in Nat
  <2>1. n \in DOMAIN f /\ b \in Nat /\ n >= b + HDR + MIN BY DEF Linked
  <2>2. n \in Nat /\ f[n] >= n + HDR + MIN /\ f[n] \in Nat BY <2>1 DEF Linked
  <2> QED BY <2>1, <2>2
<1>2. /\ DOMAIN F = DOMAIN f \ {n} /\ DOMAIN G = DOMAIN f \ {n}
      /\ \A c \in DOMAIN F :
           /\ F[c] = IF c = b THEN f[n] ELSE f[c]
           /\ G[c] = IF c = f[n] THEN b ELSE g[c]
  BY DEF RemoveNext, RemovePrev, Linked
<1>3. \A c \in DOMAIN f : (c # b => f[c] # n) /\ (c # f[n] /\ c # n => g[c] # n)
  BY <1>1 DEF Linked
<1>4. F = [c \in DOMAIN F |-> F[c]] /\ G = [c \in DOMAIN G |-> G[c]]
  BY DEF RemoveNext, RemovePrev
<1> HIDE DEF F, G, n
<1>5. /\ DOMAIN F \subseteq 0..(SIZE - 1) /\ DOMAIN G = DOMAIN F
      /\ 0 \in DOMAIN F /\ G[0] = 0
  BY <1>1, <1>2 DEF Linked
<1>6. \A c \in DOMAIN F : F[c] \in 0..SIZE /\ G[c] \in DOMAIN F
  BY <1>1, <1>2, <1>3 DEF Linked
<1>7. ASSUME NEW d \in DOMAIN F
      PROVE  /\ F[d] >= d + HDR + MIN
             /\ F[d] \in DOMAIN F \cup {SIZE}
             /\ F[d] \in DOMAIN F => G[F[d]] = d
             /\ d # 0 => F[G[d]] = d
             /\ \A c \in DOMAIN F : c <= d \/ F[d] <= c
  <2>1. CASE d = b BY <1>1, <1>2, <1>3, <2>1 DEF Linked, n
  <2>2. CASE d # b BY <1>1, <1>2, <1>3, <2>2 DEF Linked, n
  <2> QED BY <2>1, <2>2
<1>8. F \in [DOMAIN F -> 0..SIZE] /\ G \in [DOMAIN F -> DOMAIN F]
  BY <1>4, <1>5, <1>6
<1> QED BY <1>5, <1>7, <1>8 DEF Linked, F, G

(* The lists of the heap.                                                  *)
LEMMA HeapLinked ==
  ASSUME TypeOK
  PROVE  Chained <=> Linked(next, prev)
BY SizesAssumption DEF TypeOK, Chained, Linked, Blocks

LEMMA HeapLinkedNext ==
  ASSUME Linked(next', prev')
  PROVE  /\ Chained'
         /\ Blocks' \subseteq 0..(SIZE - 1) /\ DOMAIN prev' = Blocks'
         /\ next' \in [Blocks' -> 0..SIZE] /\ prev' \in [Blocks' -> Blocks']
BY DEF Chained, Linked, Blocks

-----------------------------------------------------------------------------
(* The invariant: each part needs the others.                              *)
Inv == TypeOK /\ Chained /\ HolesPlugged /\ LowestFree /\ RequestsFit

LEMMA InitInv == Init => Inv
<1> USE SizesAssumption
<1> SUFFICES ASSUME Init PROVE Inv OBVIOUS
<1>1. TypeOK BY DEF Init, TypeOK, Blocks
<1>2. Chained /\ HolesPlugged BY DEF Init, Chained, HolesPlugged, Blocks
<1>3. LowestFree BY DEF Init, LowestFree, Lowest, Blocks
<1>4. RequestsFit BY DEF Init, RequestsFit, Blocks
<1> QED BY <1>1, <1>2, <1>3, <1>4 DEF Inv

(* mem_malloc takes the block b and splits it.                             *)
LEMMA AllocateSplits ==
  ASSUME Inv, NEW n \in Sizes, NEW b \in Blocks, Fits(b, n), Split(b, n),
         Allocate(b, n)
  PROVE  Linked(next', prev') /\ HolesPlugged' /\ LowestFree' /\ RequestsFit'
<1> USE SizesAssumption
<1> DEFINE p2 == b + HDR + Padded(n)
<1>1. /\ b \in Nat /\ next[b] \in Nat /\ p2 \in Nat /\ n \in Nat \ {0}
      /\ p2 >= b + HDR + MIN /\ next[b] >= p2 + HDR + MIN
      /\ p2 > b + HDR + n
  BY DEF Inv, TypeOK, Blocks, Split, Room, Padded
<1>2. next' = InsertNext(next, b, p2) /\ prev' = InsertPrev(next, prev, b, p2)
  BY <1>1 DEF Allocate, With, PrevOf, Inv, TypeOK, Blocks, Chained, InsertNext, InsertPrev
<1>3. Linked(next', prev') /\ p2 \notin Blocks
  BY <1>1, <1>2, Insert, HeapLinked DEF Blocks, Inv
<1>4. /\ Blocks' = Blocks \cup {p2} /\ next'[p2] = next[b] /\ next'[b] = p2
      /\ \A c \in Blocks : c # b => next'[c] = next[c]
  BY <1>1, <1>2, <1>3 DEF Blocks, InsertNext
<1>5. used' = used \cup {b} /\ asked' = [c \in used \cup {b} |-> IF c = b THEN n ELSE asked[c]]
      /\ trimmed' = trimmed /\ b \notin used
  BY DEF Allocate, With, Inv, TypeOK, Fits
<1>6. HolesPlugged'
  BY <1>1, <1>3, <1>4, <1>5 DEF HolesPlugged, Inv, TypeOK, Chained, Fits
<1>7. LowestFree'
  BY <1>1, <1>3, <1>4, <1>5 DEF LowestFree, Lowest, FreeAfter, Allocate, Fits, Inv, TypeOK, Blocks
<1>8. RequestsFit'
  BY <1>1, <1>3, <1>4, <1>5 DEF RequestsFit, Inv, TypeOK, Chained, Fits
<1> QED BY <1>3, <1>6, <1>7, <1>8

(* It takes the whole of it.                                               *)
LEMMA AllocateWhole ==
  ASSUME Inv, NEW n \in Sizes, NEW b \in Blocks, Fits(b, n), ~Split(b, n),
         Allocate(b, n)
  PROVE  Linked(next', prev') /\ HolesPlugged' /\ LowestFree' /\ RequestsFit'
<1> USE SizesAssumption
<1>1. next' = next /\ prev' = prev BY DEF Allocate
<1>2. Linked(next', prev') BY <1>1, HeapLinked DEF Inv
<1>3. used' = used \cup {b} /\ asked' = [c \in used \cup {b} |-> IF c = b THEN n ELSE asked[c]]
      /\ trimmed' = trimmed /\ b \notin used /\ Blocks' = Blocks
  BY <1>1 DEF Allocate, With, Inv, TypeOK, Fits, Blocks
<1>4. HolesPlugged'
  BY <1>1, <1>3 DEF HolesPlugged, Inv
<1>5. LowestFree'
  BY <1>1, <1>3 DEF LowestFree, Lowest, FreeAfter, Allocate, Inv, TypeOK, Blocks
<1>6. b + HDR + n < next[b]
  BY DEF Fits, Room, Padded, Inv, TypeOK, Blocks
<1>7. RequestsFit'
  BY <1>1, <1>3, <1>6 DEF RequestsFit, Inv, TypeOK
<1> QED BY <1>2, <1>4, <1>5, <1>7

-----------------------------------------------------------------------------
(* The links after mem_free(b): the next block, b itself or both go.       *)
LEMMA FreeLinks ==
  ASSUME Inv, NEW b \in used, plug_holes(b)
  PROVE  /\ Linked(next', prev')
         /\ JoinsNext(b) => next[b] \in Blocks /\ next[next[b]] \in Nat
         /\ JoinsPrev(b) => prev[b] \in Blocks /\ next[prev[b]] = b
<1> USE SizesAssumption
<1> DEFINE n == next[b]
           p == prev[b]
           f1 == RemoveNext(next, b)
           g1 == RemovePrev(next, prev, b)
<1>1. /\ Linked(next, prev) /\ b \in Blocks /\ b \in Nat /\ n > b
      /\ n \in Blocks \cup {SIZE} /\ p \in Blocks
  BY HeapLinked DEF Inv, TypeOK, Blocks, Linked
<1>2. JoinsNext(b) => n \in Blocks /\ next[n] \in Nat /\ next[n] > n
  BY <1>1 DEF JoinsNext, Linked, Blocks
<1>3. JoinsPrev(b) => next[p] = b /\ p < b /\ b # 0
  BY <1>1 DEF JoinsPrev, Linked, Blocks
<1>4. JoinsNext(b) => Linked(f1, g1)
  BY <1>1, Remove DEF JoinsNext, Blocks
<1>5. CASE ~JoinsNext(b) /\ ~JoinsPrev(b)
  <2>1. next' = next /\ prev' = prev
    BY <1>1, <1>5 DEF plug_holes, Linked, Blocks
  <2> QED BY <1>1, <1>2, <1>3, <2>1
<1>6. CASE JoinsNext(b) /\ ~JoinsPrev(b)
  <2>1. next' = f1 /\ prev' = g1
    BY <1>1, <1>2, <1>6 DEF plug_holes, Linked, Blocks, RemoveNext, RemovePrev
  <2> QED BY <1>2, <1>4, <1>6, <2>1
<1>7. CASE ~JoinsNext(b) /\ JoinsPrev(b)
  <2>1. next' = RemoveNext(next, p) /\ prev' = RemovePrev(next, prev, p)
    BY <1>1, <1>3, <1>7 DEF plug_holes, Linked, Blocks, RemoveNext, RemovePrev
  <2>2. next[p] # SIZE BY <1>1, <1>3, <1>7 DEF Linked, Blocks
  <2> QED BY <1>1, <1>3, <1>7, <2>1, <2>2, Remove DEF Blocks
<1>8. CASE JoinsNext(b) /\ JoinsPrev(b)
  <2>1. /\ DOMAIN f1 = Blocks \ {n} /\ DOMAIN g1 = Blocks \ {n}
        /\ p \in DOMAIN f1 /\ f1[p] = b /\ f1[b] = next[n] /\ b # SIZE
    BY <1>1, <1>2, <1>3, <1>8 DEF RemoveNext, RemovePrev, Linked, Blocks
  <2>2. next' = RemoveNext(f1, p)
    BY <1>1, <1>2, <1>3, <1>8, <2>1 DEF plug_holes, Linked, Blocks, RemoveNext
  <2>3. prev' = RemovePrev(f1, g1, p)
    BY <1>1, <1>2, <1>3, <1>8, <2>1 DEF plug_holes, Linked, Blocks, RemovePrev
  <2>4. Linked(next', prev')
    BY <1>4, <1>8, <2>1, <2>2, <2>3, Remove
  <2> QED BY <1>1, <1>2, <1>3, <1>8, <2>4
<1> QED BY <1>5, <1>6, <1>7, <1>8

LEMMA FreeKeeps ==
  ASSUME Inv, NEW b \in used, mem_free(b)
  PROVE  Linked(next', prev') /\ HolesPlugged' /\ LowestFree' /\ RequestsFit'
<1> USE SizesAssumption
<1> DEFINE n == next[b]
           p == prev[b]
           end == IF JoinsNext(b) THEN next[n] ELSE n
           first == IF JoinsPrev(b) THEN p ELSE b
<1>1. /\ plug_holes(b) /\ used' = used \ {b}
      /\ asked' = [c \in used \ {b} |-> asked[c]] /\ trimmed' = trimmed \ {b}
  BY DEF mem_free, Without, Inv, TypeOK
<1>2. Linked(next', prev') BY <1>1, FreeLinks
<1>3. /\ b \in Blocks /\ b \in Nat /\ n \in Blocks \cup {SIZE} /\ p \in Blocks /\ n > b
      /\ p \in Nat /\ n \in Nat
      /\ (JoinsNext(b) => n \in Blocks /\ n \notin used /\ next[n] > n)
      /\ (JoinsPrev(b) => p \in Blocks /\ next[p] = b /\ p < b /\ p \notin used)
  <2>1. /\ b \in Blocks /\ b \in Nat /\ n \in Blocks \cup {SIZE} /\ p \in Blocks /\ n > b
        /\ p \in Nat /\ n \in Nat
    BY DEF Inv, TypeOK, Chained, Blocks
  <2>2. JoinsNext(b) => n \in Blocks /\ n \notin used
    BY <2>1 DEF JoinsNext
  <2>3. n \in Blocks => next[n] > n
    <3>1. \A c \in Blocks : next[c] >= c + HDR + MIN /\ next[c] \in Nat
      BY DEF Inv, TypeOK, Chained
    <3> QED BY <2>1, <3>1
  <2>4. JoinsPrev(b) => next[p] = b /\ p \notin used
    BY <1>1, FreeLinks DEF JoinsPrev
  <2>5. next[p] > p
    BY <2>1 DEF Inv, TypeOK, Chained, Blocks
  <2> QED BY <2>1, <2>2, <2>3, <2>4, <2>5
<1>4. /\ Blocks' \subseteq Blocks /\ used' \subseteq Blocks'
      /\ first \in Blocks' /\ next'[first] = end
      /\ \A c \in Blocks' : c # first => next'[c] = next[c] /\ c # b
      /\ \A c \in Blocks : c \notin Blocks' => c = b \/ c = n
      /\ JoinsNext(b) => n \notin Blocks'
      /\ JoinsPrev(b) => b \notin Blocks'
  BY <1>1, <1>3 DEF plug_holes, Blocks, Inv, TypeOK
<1>5. HolesPlugged'
  <2> SUFFICES ASSUME NEW d \in Blocks', d \notin used'
               PROVE  next'[d] \in used' \cup {SIZE}
    BY DEF HolesPlugged
  <2>1. CASE d = first
    <3>1. CASE JoinsNext(b)
      <4>1. next[n] \in used \cup {SIZE} /\ next[n] # b
        BY <1>3, <3>1 DEF HolesPlugged, Inv, TypeOK, Blocks
      <4> QED BY <1>1, <1>4, <2>1, <3>1, <4>1
    <3>2. CASE ~JoinsNext(b)
      BY <1>1, <1>3, <1>4, <2>1, <3>2 DEF JoinsNext
    <3> QED BY <3>1, <3>2
  <2>2. CASE d # first
    <3>1. next'[d] = next[d] /\ d # b /\ d \in Blocks /\ d \notin used BY <1>1, <1>4, <2>2
    <3>2. next[d] \in used \cup {SIZE} BY <3>1 DEF HolesPlugged, Inv
    <3>3. next[d] # b
      <4> SUFFICES ASSUME next[d] = b PROVE FALSE OBVIOUS
      <4>1. p = d BY <1>3, <3>1 DEF Chained, Inv
      <4>2. JoinsPrev(b) BY <3>1, <4>1, <1>3 DEF JoinsPrev
      <4> QED BY <2>2, <4>1, <4>2
    <3> QED BY <1>1, <3>1, <3>2, <3>3
  <2> QED BY <2>1, <2>2
<1>6. LowestFree'
  <2>1. \A c \in Blocks \ used : lfree <= c
    BY DEF LowestFree, Lowest, Inv
  <2>2. lfree \in Nat /\ lfree \in (Blocks \ used) \cup {SIZE} /\ lfree <= SIZE /\ b < SIZE
    BY <1>3 DEF LowestFree, Lowest, Inv, TypeOK, Blocks
  <2>3. CASE JoinsPrev(b)
    <3>1. lfree <= p BY <1>3, <2>1, <2>3
    <3>2. ~(b < lfree) /\ lfree # b /\ lfree # n BY <1>3, <2>2, <2>3, <3>1
    <3>3. lfree' = lfree
      <4> DEFINE low == IF b < lfree \/ (JoinsNext(b) /\ lfree = n) THEN b ELSE lfree
      <4>1. low = lfree BY <3>2
      <4>2. lfree' = IF JoinsPrev(b) /\ low = b THEN p ELSE low BY <1>1 DEF plug_holes
      <4> QED BY <3>2, <4>1, <4>2
    <3> QED BY <1>1, <1>3, <1>4, <2>1, <2>2, <3>2, <3>3 DEF LowestFree, Lowest
  <2>4. CASE ~JoinsPrev(b) /\ b < lfree
    <3>1. lfree' = b BY <1>1, <2>4 DEF plug_holes
    <3> QED BY <1>1, <1>3, <1>4, <2>1, <2>2, <2>4, <3>1 DEF LowestFree, Lowest, Inv, TypeOK, Blocks
  <2>5. CASE ~JoinsPrev(b) /\ ~(b < lfree)
    <3>1. lfree < b BY <1>3, <2>2, <2>5
    <3>2. lfree' = lfree /\ lfree # n BY <1>1, <1>3, <2>2, <2>5, <3>1 DEF plug_holes, Inv, TypeOK, Blocks
    <3> QED BY <1>1, <1>3, <1>4, <2>1, <2>2, <3>1, <3>2 DEF LowestFree, Lowest, Inv, TypeOK, Blocks
  <2> QED BY <2>3, <2>4, <2>5
<1>7. RequestsFit'
  <2> SUFFICES ASSUME NEW d \in used'
               PROVE  /\ d + HDR + asked'[d] <= next'[d]
                      /\ d \notin trimmed' => d + HDR + asked'[d] < next'[d]
    BY DEF RequestsFit
  <2>1. d \in used /\ d # b /\ d # first BY <1>1, <1>3
  <2>2. next'[d] = next[d] /\ asked'[d] = asked[d] BY <1>1, <1>4, <2>1
  <2> QED BY <1>1, <2>1, <2>2 DEF RequestsFit, Inv
<1> QED BY <1>2, <1>5, <1>6, <1>7

-----------------------------------------------------------------------------
(* mem_trim's two ways to move the end of a block.                         *)
LEMMA TrimArith ==
  ASSUME Inv, NEW b \in used, NEW n \in Sizes, n <= asked[b]
  PROVE  /\ b \in Blocks /\ b \in Nat /\ next[b] \in Nat /\ b < next[b] /\ Shrunk(n) \in Nat
         /\ Room(b) \in Nat /\ next[b] = b + HDR + Room(b)
         /\ MIN <= Shrunk(n) /\ Shrunk(n) <= Room(b) /\ n <= Shrunk(n)
<1> USE SizesAssumption
<1>1. b \in Blocks /\ b \in Nat /\ next[b] \in Nat /\ n \in Nat /\ asked[b] \in Nat
  <2>1. b \in Blocks /\ b \in Nat /\ next[b] \in Nat /\ n \in Nat BY DEF Inv, TypeOK
  <2>2. asked[b] \in Sizes BY DEF Inv, TypeOK
  <2> QED BY <2>1, <2>2
<1>2. next[b] >= b + HDR + MIN /\ b + HDR + asked[b] <= next[b]
  BY <1>1 DEF Inv, Chained, RequestsFit
<1> QED BY <1>1, <1>2 DEF Shrunk, Room

LEMMA SlideKeeps ==
  ASSUME Inv, NEW b \in used, NEW n \in Sizes, mem_trim(b, n), TrimSlides(b, n)
  PROVE  Linked(next', prev') /\ HolesPlugged' /\ LowestFree' /\ RequestsFit'
<1> USE SizesAssumption
<1> DEFINE p2 == b + HDR + Shrunk(n)
           old == next[b]
           end == next[old]
           f1 == RemoveNext(next, b)
           g1 == RemovePrev(next, prev, b)
<1>1. /\ b \in Blocks /\ b \in Nat /\ old \in Nat /\ b < old /\ Shrunk(n) \in Nat
      /\ MIN <= Shrunk(n) /\ n <= Shrunk(n) /\ p2 < old /\ p2 \in Nat
  BY TrimArith DEF mem_trim, TrimSlides
<1>2. /\ old \in Blocks /\ old \notin used /\ end \in Nat /\ end >= old + HDR + MIN
      /\ Linked(next, prev)
  BY <1>1, HeapLinked DEF Inv, TypeOK, Chained, TrimSlides
<1>3. /\ Linked(f1, g1) /\ b \in DOMAIN f1 /\ f1[b] = end
      /\ DOMAIN f1 = Blocks \ {old} /\ DOMAIN g1 = Blocks \ {old}
  <2>1. b \in DOMAIN next /\ next[b] # SIZE /\ DOMAIN prev = Blocks
    BY <1>1 DEF Blocks, TrimSlides, Inv, TypeOK
  <2>2. Linked(f1, g1) BY <1>2, <2>1, Remove
  <2> QED BY <1>1, <2>1, <2>2 DEF Blocks, RemoveNext, RemovePrev
<1>4. MovesEnd(b, n, p2, old, end) BY DEF TrimSlides
<1>5. next' = InsertNext(f1, b, p2)
  BY <1>1, <1>2, <1>3, <1>4 DEF MovesEnd, With, Without, InsertNext, RemoveNext, Blocks
<1>6. prev' = InsertPrev(f1, g1, b, p2)
  BY <1>1, <1>2, <1>3, <1>4 DEF MovesEnd, With, Without, PrevOf, InsertPrev, RemovePrev, Blocks, Linked
<1>7. Linked(next', prev') /\ p2 \notin DOMAIN f1
  BY <1>1, <1>2, <1>3, <1>5, <1>6, Insert
<1>8. /\ Blocks' = (Blocks \ {old}) \cup {p2} /\ p2 \notin Blocks
      /\ next'[p2] = end /\ next'[b] = p2
      /\ \A c \in Blocks \ {old, b} : next'[c] = next[c]
  BY <1>1, <1>2, <1>3, <1>5, <1>7 DEF Blocks, InsertNext, RemoveNext
<1>9. /\ used' = used /\ asked' = [asked EXCEPT ![b] = n] /\ b \in DOMAIN asked
      /\ trimmed' = trimmed \cup {b}
  BY <1>4 DEF mem_trim, MovesEnd, Inv, TypeOK
<1>10. HolesPlugged'
  <2> SUFFICES ASSUME NEW d \in Blocks', d \notin used
               PROVE  next'[d] \in used \cup {SIZE}
    BY <1>9 DEF HolesPlugged
  <2>1. CASE d = p2
    BY <1>2, <1>8, <2>1 DEF HolesPlugged, Inv
  <2>2. CASE d # p2
    BY <1>8, <2>2 DEF HolesPlugged, Inv
  <2> QED BY <2>1, <2>2
<1>11. LowestFree'
  <2>1. lfree \in (Blocks \ used) \cup {SIZE} /\ \A c \in Blocks \ used : lfree <= c
    BY DEF LowestFree, Lowest, Inv
  <2>2. \A c \in Blocks : c \in Nat /\ c < SIZE /\ (c <= b \/ old <= c)
    BY DEF Inv, TypeOK, Chained
  <2>3. Blocks' \ used' = ((Blocks \ used) \ {old}) \cup {p2}
    BY <1>8, <1>9 DEF Inv, TypeOK
  <2>4. lfree' = IF lfree = old THEN p2 ELSE lfree BY DEF TrimSlides
  <2>5. CASE lfree = old
    <3>1. lfree' = p2 /\ p2 <= SIZE BY <1>1, <1>2, <2>2, <2>4, <2>5
    <3>2. \A c \in Blocks \ used : p2 <= c BY <1>1, <1>2, <2>1, <2>2, <2>5
    <3>3. lfree' \in (Blocks' \ used') \cup {SIZE} BY <2>3, <3>1
    <3>4. \A y \in (Blocks' \ used') \cup {SIZE} : lfree' <= y
      <4> SUFFICES ASSUME NEW y \in ((Blocks \ used) \ {old}) \cup {p2, SIZE} PROVE p2 <= y
        BY <2>3, <3>1
      <4> QED BY <1>1, <3>1, <3>2
    <3> QED BY <3>3, <3>4 DEF LowestFree, Lowest
  <2>6. CASE lfree # old
    <3>1. lfree <= old /\ lfree \in Blocks BY <1>2, <2>1, <2>2
    <3>2. lfree <= b BY <1>1, <2>2, <2>6, <3>1
    <3>3. lfree' = lfree /\ lfree <= p2 /\ lfree <= SIZE BY <1>1, <2>2, <2>4, <2>6, <3>1, <3>2
    <3>4. lfree \in (Blocks \ used) \ {old} BY <2>1, <2>2, <2>6, <3>1
    <3>5. lfree \in Nat BY <2>2, <3>4
    <3>6. lfree' \in Blocks' \ used' BY <2>3, <3>3, <3>4
    <3>7. \A y \in (Blocks' \ used') \cup {SIZE} : lfree' <= y
      <4> SUFFICES ASSUME NEW y \in ((Blocks \ used) \ {old}) \cup {p2, SIZE} PROVE lfree <= y
        BY <2>3, <3>3
      <4> QED BY <2>1, <3>3
    <3> QED BY <3>6, <3>7 DEF LowestFree, Lowest
  <2> QED BY <2>5, <2>6
<1>12. RequestsFit'
  <2> SUFFICES ASSUME NEW d \in used
               PROVE  /\ d + HDR + asked'[d] <= next'[d]
                      /\ d \notin trimmed' => d + HDR + asked'[d] < next'[d]
    BY <1>9 DEF RequestsFit
  <2>1. CASE d = b BY <1>1, <1>8, <1>9, <2>1 DEF Inv, TypeOK
  <2>2. CASE d # b
    <3>1. next'[d] = next[d] /\ asked'[d] = asked[d]
      BY <1>2, <1>8, <1>9, <2>2 DEF Inv, TypeOK
    <3> QED BY <1>9, <3>1 DEF RequestsFit, Inv
  <2> QED BY <2>1, <2>2
<1> QED BY <1>7, <1>10, <1>11, <1>12

LEMMA SplitKeeps ==
  ASSUME Inv, NEW b \in used, NEW n \in Sizes, mem_trim(b, n), TrimSplits(b, n)
  PROVE  Linked(next', prev') /\ HolesPlugged' /\ LowestFree' /\ RequestsFit'
<1> USE SizesAssumption
<1> DEFINE p2 == b + HDR + Shrunk(n)
<1>1. /\ b \in Blocks /\ b \in Nat /\ next[b] \in Nat /\ Shrunk(n) \in Nat /\ p2 \in Nat
      /\ MIN <= Shrunk(n) /\ n <= Shrunk(n) /\ next[b] >= p2 + HDR + MIN
  BY TrimArith DEF mem_trim, TrimSplits
<1>2. Linked(next, prev) BY HeapLinked DEF Inv
<1>3. p2 \notin Blocks BY <1>1, <1>2, Insert DEF Blocks
<1>4. MovesEnd(b, n, p2, p2, next[b]) BY DEF TrimSplits
<1>5. next' = InsertNext(next, b, p2)
  BY <1>1, <1>3, <1>4 DEF MovesEnd, With, Without, InsertNext, Blocks
<1>6. prev' = InsertPrev(next, prev, b, p2)
  BY <1>1, <1>2, <1>3, <1>4 DEF MovesEnd, With, Without, PrevOf, InsertPrev, Blocks, Linked
<1>7. Linked(next', prev')
  BY <1>1, <1>2, <1>5, <1>6, Insert DEF Blocks
<1>8. /\ Blocks' = Blocks \cup {p2} /\ next'[p2] = next[b] /\ next'[b] = p2
      /\ \A c \in Blocks \ {b} : next'[c] = next[c]
  BY <1>1, <1>3, <1>5 DEF Blocks, InsertNext
<1>9. /\ used' = used /\ asked' = [asked EXCEPT ![b] = n] /\ b \in DOMAIN asked
      /\ trimmed' = trimmed \cup {b}
  BY <1>4 DEF mem_trim, MovesEnd, Inv, TypeOK
<1>10. HolesPlugged'
  BY <1>3, <1>8, <1>9 DEF HolesPlugged, Inv, TypeOK, TrimSplits
<1>11. LowestFree'
  <2>1. lfree \in (Blocks \ used) \cup {SIZE} /\ \A c \in Blocks \ used : lfree <= c
    BY DEF LowestFree, Lowest, Inv
  <2>2. \A c \in Blocks : c \in Nat /\ c < SIZE
    BY DEF Inv, TypeOK
  <2>3. Blocks' \ used' = (Blocks \ used) \cup {p2}
    BY <1>3, <1>8, <1>9 DEF Inv, TypeOK
  <2>4. lfree' = IF p2 < lfree THEN p2 ELSE lfree BY DEF TrimSplits
  <2>5. p2 <= SIZE /\ lfree \in Nat BY <1>1, <2>1, <2>2 DEF Inv, TypeOK
  <2>6. CASE p2 < lfree
    <3>1. \A c \in Blocks \ used : p2 <= c BY <1>1, <2>1, <2>2, <2>5, <2>6
    <3>2. lfree' = p2 BY <2>4, <2>6
    <3>3. lfree' \in (Blocks' \ used') \cup {SIZE} BY <2>3, <3>2
    <3>4. \A y \in (Blocks' \ used') \cup {SIZE} : lfree' <= y
      <4> SUFFICES ASSUME NEW y \in (Blocks \ used) \cup {p2, SIZE} PROVE p2 <= y
        BY <2>3, <3>2
      <4> QED BY <1>1, <2>5, <3>1
    <3> QED BY <3>3, <3>4 DEF LowestFree, Lowest
  <2>7. CASE ~(p2 < lfree)
    <3>1. lfree <= p2 /\ lfree <= SIZE BY <1>1, <2>5, <2>7
    <3>2. lfree' = lfree BY <2>4, <2>7
    <3>3. lfree' \in (Blocks' \ used') \cup {SIZE} BY <2>1, <2>3, <3>2
    <3>4. \A y \in (Blocks' \ used') \cup {SIZE} : lfree' <= y
      <4> SUFFICES ASSUME NEW y \in (Blocks \ used) \cup {p2, SIZE} PROVE lfree <= y
        BY <2>3, <3>2
      <4> QED BY <2>1, <3>1
    <3> QED BY <3>3, <3>4 DEF LowestFree, Lowest
  <2> QED BY <2>6, <2>7
<1>12. RequestsFit'
  <2> SUFFICES ASSUME NEW d \in used
               PROVE  /\ d + HDR + asked'[d] <= next'[d]
                      /\ d \notin trimmed' => d + HDR + asked'[d] < next'[d]
    BY <1>9 DEF RequestsFit
  <2>1. CASE d = b BY <1>1, <1>8, <1>9, <2>1 DEF Inv, TypeOK
  <2>2. CASE d # b
    <3>1. next'[d] = next[d] /\ asked'[d] = asked[d]
      BY <1>8, <1>9, <2>2 DEF Inv, TypeOK
    <3> QED BY <1>9, <3>1 DEF RequestsFit, Inv
  <2> QED BY <2>1, <2>2
<1> QED BY <1>7, <1>10, <1>11, <1>12

-----------------------------------------------------------------------------
(* What the parts above do not say of the types.                           *)
LEMMA Types ==
  ASSUME Linked(next', prev'), used' \subseteq Blocks', DOMAIN asked' = used',
         asked' \in [used' -> Sizes], trimmed' \subseteq used', LowestFree',
         ram_used' \in Int, flags' \subseteq 0..(SIZE - 1),
         at' \in [Threads -> {"idle", "check", "again", "last", "spin"}],
         want' \in [Threads -> Sizes \cup {0}], stat_spins' \in BOOLEAN
  PROVE  TypeOK' /\ Chained'
<1> USE SizesAssumption
<1>1. /\ Blocks' \subseteq 0..(SIZE - 1) /\ DOMAIN prev' = Blocks'
      /\ next' \in [Blocks' -> 0..SIZE] /\ prev' \in [Blocks' -> Blocks']
      /\ Chained'
  BY HeapLinkedNext
<1>2. lfree' \in 0..SIZE
  <2>1. lfree' \in (Blocks' \ used') \cup {SIZE} BY DEF LowestFree, Lowest
  <2> QED BY <1>1, <2>1
<1> QED BY <1>1, <1>2 DEF TypeOK

LEMMA MallocKeeps ==
  ASSUME Inv, NEW t \in Threads, NEW n \in Sizes, mem_malloc(t, n)
  PROVE  Inv'
<1> USE SizesAssumption
<1>1. /\ at' \in [Threads -> {"idle", "check", "again", "last", "spin"}]
      /\ want' \in [Threads -> Sizes \cup {0}]
  BY DEF mem_malloc, MallocFinds, MallocFails, Inv, TypeOK
<1>2. CASE MallocFinds(t, n)
  <2>0. stat_spins' \in BOOLEAN BY <1>2 DEF MallocFinds, Inv, TypeOK
  <2>1. PICK b \in Blocks : Fits(b, n) /\ Allocate(b, n)
    BY <1>2 DEF MallocFinds, Lowest, Found
  <2>2. Linked(next', prev') /\ HolesPlugged' /\ LowestFree' /\ RequestsFit'
    BY <2>1, AllocateSplits, AllocateWhole
  <2>3. Blocks \subseteq Blocks'
    BY <2>1 DEF Allocate, With, Inv, TypeOK, Blocks
  <2>4. used' = used \cup {b} /\ asked' = [c \in used \cup {b} |-> IF c = b THEN n ELSE asked[c]]
        /\ trimmed' = trimmed
    BY <2>1 DEF Allocate, With, Inv, TypeOK
  <2>5. used' \subseteq Blocks' /\ trimmed' \subseteq used' /\ DOMAIN asked' = used'
        /\ asked' \in [used' -> Sizes]
    BY <2>1, <2>3, <2>4 DEF Inv, TypeOK
  <2>6. b \in Int /\ next[b] \in Int /\ Padded(n) \in Int /\ b \in 0..(SIZE - 1)
    BY <2>1 DEF Inv, TypeOK, Padded
  <2>7. ram_used' \in Int
    BY <2>1, <2>6 DEF Allocate, Inv, TypeOK
  <2>8. flags' \subseteq 0..(SIZE - 1)
    <3> DEFINE end == IF Split(b, n) THEN b + HDR + Padded(n) ELSE next[b]
    <3>1. end - GUARD \in 0..(SIZE - 1)
      BY <2>1, <2>6 DEF Split, Room, Padded, Inv, TypeOK, Chained
    <3>2. flags' \subseteq flags \cup {end - GUARD} BY <2>1 DEF Allocate
    <3> QED BY <3>1, <3>2 DEF Inv, TypeOK
  <2> QED BY <1>1, <2>0, <2>2, <2>5, <2>7, <2>8, Types DEF Inv
<1>3. CASE MallocFails(t, n)
  <2>1. UNCHANGED heap /\ stat_spins' = stat_spins BY <1>3 DEF MallocFails
  <2> QED BY <1>1, <2>1 DEF heap, Inv, TypeOK, Chained, HolesPlugged, LowestFree, RequestsFit, Blocks
<1> QED BY <1>2, <1>3 DEF mem_malloc

LEMMA CheckKeeps ==
  ASSUME Inv, NEW t \in Threads, mem_slide_check(t)
  PROVE  Inv'
<1>1. UNCHANGED heap /\ stat_spins' = stat_spins BY DEF mem_slide_check
<1>2. /\ at' \in [Threads -> {"idle", "check", "again", "last", "spin"}]
      /\ want' \in [Threads -> Sizes \cup {0}]
  BY DEF mem_slide_check, Inv, TypeOK
<1> QED BY <1>1, <1>2 DEF heap, Inv, TypeOK, Chained, HolesPlugged, LowestFree, RequestsFit, Blocks

LEMMA HookKeeps ==
  ASSUME Inv, App_TaskStatHook
  PROVE  Inv'
<1>1. UNCHANGED <<heap, at, want>> /\ stat_spins' \in BOOLEAN BY DEF App_TaskStatHook
<1> QED BY <1>1 DEF heap, Inv, TypeOK, Chained, HolesPlugged, LowestFree, RequestsFit, Blocks

LEMMA FreeKeepsInv ==
  ASSUME Inv, NEW b \in used, mem_free(b)
  PROVE  Inv'
<1> USE SizesAssumption
<1>1. Linked(next', prev') /\ HolesPlugged' /\ LowestFree' /\ RequestsFit'
  BY FreeKeeps
<1>2. used' = used \ {b} /\ asked' = [c \in used \ {b} |-> asked[c]] /\ trimmed' = trimmed \ {b}
      /\ flags' = flags /\ at' = at /\ want' = want /\ stat_spins' = stat_spins
      /\ ram_used' = ram_used - (next[b] - b)
  BY DEF mem_free, Without, Inv, TypeOK
<1>3. used' \subseteq Blocks'
  <2>1. DOMAIN next' = Blocks \ ((IF JoinsNext(b) THEN {next[b]} ELSE {})
                                  \cup (IF JoinsPrev(b) THEN {b} ELSE {}))
    BY DEF mem_free, plug_holes
  <2> QED BY <1>2, <2>1 DEF Blocks, Inv, TypeOK, JoinsNext
<1>4. ram_used' \in Int BY <1>2 DEF Inv, TypeOK
<1>5. DOMAIN asked' = used' /\ asked' \in [used' -> Sizes] /\ trimmed' \subseteq used'
  BY <1>2 DEF Inv, TypeOK
<1> QED BY <1>1, <1>2, <1>3, <1>4, <1>5, Types DEF Inv, TypeOK

LEMMA TrimKeepsInv ==
  ASSUME Inv, NEW b \in used, NEW n \in Sizes, mem_trim(b, n)
  PROVE  Inv'
<1> USE SizesAssumption
<1>1. /\ used' = used /\ asked' = [asked EXCEPT ![b] = n] /\ at' = at /\ want' = want
      /\ stat_spins' = stat_spins
  BY DEF mem_trim
<1>2. DOMAIN asked' = used' /\ asked' \in [used' -> Sizes]
  BY <1>1 DEF Inv, TypeOK
<1>3. CASE TrimKeeps(b, n)
  <2>1. UNCHANGED <<next, prev, ram_used, flags, lfree, trimmed>> BY <1>3 DEF TrimKeeps
  <2>2. RequestsFit'
    <3> SUFFICES ASSUME NEW d \in used
                 PROVE  /\ d + HDR + asked'[d] <= next[d]
                        /\ d \notin trimmed => d + HDR + asked'[d] < next[d]
      BY <1>1, <2>1 DEF RequestsFit
    <3>1. d + HDR + asked[d] <= next[d] /\ (d \notin trimmed => d + HDR + asked[d] < next[d])
      BY DEF Inv, RequestsFit
    <3>2. d \in Nat /\ next[d] \in Nat
      BY DEF Inv, TypeOK
    <3>3. asked'[d] \in Nat /\ asked[d] \in Nat /\ asked'[d] <= asked[d]
      <4>1. asked[d] \in Sizes /\ DOMAIN asked = used BY DEF Inv, TypeOK
      <4>2. asked'[d] = IF d = b THEN n ELSE asked[d] BY <1>1, <4>1
      <4>3. n <= asked[b] BY DEF mem_trim
      <4>4. n \in Nat /\ asked[d] \in Nat BY <4>1
      <4> QED BY <4>2, <4>3, <4>4
    <3> QED BY <3>1, <3>2, <3>3
  <2> QED BY <1>1, <1>2, <2>1, <2>2 DEF Inv, TypeOK, Chained, HolesPlugged, LowestFree, Blocks
<1>4. CASE TrimSlides(b, n) \/ TrimSplits(b, n)
  <2>1. Linked(next', prev') /\ HolesPlugged' /\ LowestFree' /\ RequestsFit'
    BY <1>4, SlideKeeps, SplitKeeps
  <2>2. PICK p2, old, end : MovesEnd(b, n, p2, old, end)
                            /\ (old = p2 \/ (old = next[b] /\ next[b] \notin used))
    BY <1>4 DEF TrimSlides, TrimSplits
  <2>3. /\ ram_used' = ram_used - (Room(b) - Shrunk(n))
        /\ flags' \subseteq flags /\ trimmed' = trimmed \cup {b}
        /\ DOMAIN next' = (((Blocks \ {old}) \cup {b}) \cup {p2})
    BY <2>2 DEF MovesEnd, With, Without, Blocks
  <2>4. used' \subseteq Blocks' /\ trimmed' \subseteq used'
    BY <1>1, <2>2, <2>3 DEF Inv, TypeOK, Blocks
  <2>5. ram_used' \in Int
    BY <2>3, TrimArith DEF Inv, TypeOK, mem_trim
  <2>6. flags' \subseteq 0..(SIZE - 1) BY <2>3 DEF Inv, TypeOK
  <2>7. /\ at' \in [Threads -> {"idle", "check", "again", "last", "spin"}]
        /\ want' \in [Threads -> Sizes \cup {0}] /\ stat_spins' \in BOOLEAN
    BY <1>1 DEF Inv, TypeOK
  <2> QED BY <1>2, <2>1, <2>4, <2>5, <2>6, <2>7, Types DEF Inv
<1> QED BY <1>3, <1>4 DEF mem_trim

LEMMA NextInv == Inv /\ [Next]_vars => Inv'
<1> SUFFICES ASSUME Inv, [Next]_vars PROVE Inv' OBVIOUS
<1>1. ASSUME NEW t \in Threads, NEW n \in Sizes, mem_malloc(t, n) PROVE Inv'
  BY <1>1, MallocKeeps
<1>2. ASSUME NEW t \in Threads, mem_slide_check(t) PROVE Inv' BY <1>2, CheckKeeps
<1>3. ASSUME NEW b \in used, mem_free(b) PROVE Inv' BY <1>3, FreeKeepsInv
<1>4. ASSUME NEW b \in used, NEW n \in Sizes, mem_trim(b, n) PROVE Inv'
  BY <1>4, TrimKeepsInv
<1>5. CASE UNCHANGED vars
  BY <1>5 DEF vars, heap, Inv, TypeOK, Chained, HolesPlugged, LowestFree, RequestsFit, Blocks
<1>6. CASE App_TaskStatHook BY <1>6, HookKeeps
<1> QED BY <1>1, <1>2, <1>3, <1>4, <1>5, <1>6 DEF Next

THEOREM Invariance == Spec => []Inv
BY InitInv, NextInv, PTL DEF Spec

(* The types of the heap's state.                                          *)
THEOREM TypeCorrect == Spec => []TypeOK
BY Invariance, PTL DEF Inv

(* The blocks always cover the pool end to end.                            *)
THEOREM Partition == Spec => []Chained
BY Invariance, PTL DEF Inv

(* No free block is next to another: what is freed is joined at once.      *)
THEOREM NoTwoHoles == Spec => []HolesPlugged
BY Invariance, PTL DEF Inv

(* lfree is always the lowest free block, or ram_end when there is none.   *)
THEOREM SearchStart == Spec => []LowestFree
BY Invariance, PTL DEF Inv

(* The words a caller asked for are always inside its block.               *)
THEOREM Requests == Spec => []RequestsFit
BY Invariance, PTL DEF Inv

-----------------------------------------------------------------------------
(* A block with room for a request is one the search comes to.             *)
LEMMA SearchComplete ==
  ASSUME Inv, NEW n \in Sizes, NEW b \in Blocks, Fits(b, n)
  PROVE  b \in Found(n)
<1> USE SizesAssumption
<1>1. b \in Nat /\ next[b] \in Nat /\ next[b] <= SIZE /\ Padded(n) \in Nat
  BY DEF Inv, TypeOK, Padded
<1>2. lfree <= b BY DEF Fits, LowestFree, Lowest, Inv
<1>3. b + HDR + Padded(n) <= next[b] BY <1>1 DEF Fits, Room
<1> QED BY <1>1, <1>2, <1>3 DEF Found, Inv, TypeOK

LEMMA FailStep ==
  ASSUME Inv, [Next]_vars, NEW t \in Threads,
         at'[t] \in {"check", "last"}, at'[t] # at[t]
  PROVE  \A b \in Blocks : ~Fits(b, want'[t])
<1>1. ASSUME NEW u \in Threads, NEW n \in Sizes, MallocFails(u, n)
      PROVE  \A b \in Blocks : ~Fits(b, want'[t])
  <2>1. u = t BY <1>1 DEF MallocFails, Inv, TypeOK
  <2>2. want'[t] = n /\ Found(n) = {} BY <1>1, <2>1 DEF MallocFails, Inv, TypeOK
  <2> QED BY <2>2, SearchComplete
<1>2. ASSUME NEW u \in Threads, NEW n \in Sizes, MallocFinds(u, n) PROVE FALSE
  BY <1>2 DEF MallocFinds, Inv, TypeOK
<1>3. ASSUME NEW u \in Threads, mem_slide_check(u) PROVE FALSE
  BY <1>3 DEF mem_slide_check, Inv, TypeOK
<1>4. ASSUME NEW b \in used, mem_free(b) \/ \E n \in Sizes : mem_trim(b, n) PROVE FALSE
  BY <1>4 DEF mem_free, mem_trim
<1>5. CASE UNCHANGED vars \/ App_TaskStatHook BY <1>5 DEF vars, App_TaskStatHook
<1> QED BY <1>1, <1>2, <1>3, <1>4, <1>5 DEF Next, mem_malloc

(* mem_malloc fails only when no block has room: neither lfree nor the     *)
(* bound of the search hides one.                                          *)
THEOREM FailsOnlyWhenFull == Spec => FailsOnlyFull
<1>1. Inv /\ [Next]_vars =>
        [\A t \in Threads : at'[t] \in {"check", "last"} /\ at'[t] # at[t]
                => \A b \in Blocks : ~Fits(b, want'[t])]_vars
  BY FailStep
<1> QED BY <1>1, Invariance, PTL DEF Spec, FailsOnlyFull

-----------------------------------------------------------------------------
(* Two used blocks lie apart.                                              *)
LEMMA Apart ==
  ASSUME Inv, NEW b \in Blocks, NEW c \in Blocks, b # c
  PROVE  b \in Nat /\ c \in Nat /\ next[b] \in Nat /\ next[c] \in Nat
         /\ (next[b] <= c \/ next[c] <= b)
<1>1. b \in Nat /\ c \in Nat /\ next[b] \in Nat /\ next[c] \in Nat
  BY SizesAssumption DEF Inv, TypeOK
<1>2. (c <= b \/ next[b] <= c) /\ (b <= c \/ next[c] <= b)
  BY DEF Inv, Chained
<1> QED BY <1>1, <1>2

(* The guard of a block that is not touched survives what is written into  *)
(* another block.                                                          *)
LEMMA GuardsStep ==
  ASSUME Inv, Inv', UntrimmedGuarded, [Next]_vars
  PROVE  UntrimmedGuarded'
<1> USE SizesAssumption
<1>1. ASSUME NEW t \in Threads, NEW n \in Sizes, MallocFinds(t, n)
      PROVE  UntrimmedGuarded'
  <2>1. PICK b \in Blocks : Fits(b, n) /\ Allocate(b, n)
    BY <1>1 DEF MallocFinds, Lowest, Found
  <2> DEFINE p2 == b + HDR + Padded(n)
             end == IF Split(b, n) THEN p2 ELSE next[b]
  <2>2. /\ b \in Nat /\ next[b] \in Nat /\ n \in Nat /\ p2 \in Nat /\ p2 > b + HDR + n
        /\ next[b] >= p2 /\ (Split(b, n) => next[b] >= p2 + HDR)
    BY <2>1 DEF Fits, Split, Room, Padded, Inv, TypeOK
  <2>3. /\ used' = used \cup {b} /\ trimmed' = trimmed
        /\ b \notin used /\ next'[b] = end
        /\ \A c \in used : next'[c] = next[c]
    <3>1. used' = used \cup {b} /\ trimmed' = trimmed /\ b \notin used
      BY <2>1 DEF Allocate, Fits
    <3>2. CASE Split(b, n)
      <4>1. next' = With([next EXCEPT ![b] = p2], p2, next[b]) BY <2>1, <3>2 DEF Allocate
      <4>2. \A c \in Blocks : c <= b \/ next[b] <= c BY DEF Inv, Chained
      <4>3. p2 \notin Blocks BY <2>2, <3>2, <4>2
      <4> QED BY <2>2, <3>1, <3>2, <4>1, <4>3 DEF With, Inv, TypeOK, Blocks
    <3>3. CASE ~Split(b, n)
      BY <2>1, <3>1, <3>3 DEF Allocate
    <3> QED BY <3>2, <3>3
  <2>4. \A w \in flags : ~(b <= w /\ w < next[b]) => w \in flags'
    BY <2>1, <2>2 DEF Allocate, Words, Inv, TypeOK
  <2>5. end - GUARD \in flags'
    BY <2>1, <2>2 DEF Allocate, Words
  <2> SUFFICES ASSUME NEW c \in used' \ trimmed' PROVE Guarded(c)'
    BY DEF UntrimmedGuarded
  <2>6. CASE c = b BY <2>3, <2>5, <2>6 DEF Guarded
  <2>7. CASE c # b
    <3>1. c \in used \ trimmed /\ c \in Blocks BY <2>3, <2>7 DEF Inv, TypeOK
    <3>2. next[c] - GUARD \in flags BY <3>1 DEF UntrimmedGuarded, Guarded
    <3>3. next[c] > c BY <3>1 DEF Inv, TypeOK, Chained
    <3>4. ~(b <= next[c] - GUARD /\ next[c] - GUARD < next[b])
      BY <2>1, <2>7, <3>1, <3>3, Apart
    <3> QED BY <2>3, <2>4, <3>1, <3>2, <3>4 DEF Guarded
  <2> QED BY <2>6, <2>7
<1>2. ASSUME NEW b \in used, mem_free(b) PROVE UntrimmedGuarded'
  <2>1. flags' = flags /\ used' = used \ {b} /\ trimmed' = trimmed \ {b} BY <1>2 DEF mem_free
  <2>2. \A c \in used \ {b} : next'[c] = next[c]
    <3> SUFFICES ASSUME NEW c \in used \ {b} PROVE next'[c] = next[c] OBVIOUS
    <3>1. c \in Blocks /\ c \in used' /\ c \in Blocks' BY <2>1 DEF Inv, TypeOK
    <3>2. c \in DOMAIN next' /\ c # (IF JoinsPrev(b) THEN prev[b] ELSE b)
      BY <3>1 DEF Blocks, JoinsPrev
    <3> QED BY <1>2, <3>1, <3>2 DEF mem_free, plug_holes
  <2> QED BY <2>1, <2>2 DEF UntrimmedGuarded, Guarded
<1>3. ASSUME NEW b \in used, NEW n \in Sizes, mem_trim(b, n) PROVE UntrimmedGuarded'
  <2>1. used' = used BY <1>3 DEF mem_trim
  <2>2. CASE TrimKeeps(b, n)
    BY <2>1, <2>2 DEF TrimKeeps, UntrimmedGuarded, Guarded
  <2>3. CASE TrimSlides(b, n) \/ TrimSplits(b, n)
    <3> DEFINE p2 == b + HDR + Shrunk(n)
    <3>1. PICK old, end : /\ MovesEnd(b, n, p2, old, end)
                          /\ \/ old = p2 /\ p2 + HDR <= next[b]
                             \/ old = next[b] /\ old \in Blocks \ used /\ p2 < next[b]
      <4>1. CASE TrimSlides(b, n)
        BY <1>3, <4>1, TrimArith DEF TrimSlides, Inv, Chained, mem_trim
      <4>2. CASE TrimSplits(b, n)
        BY <1>3, <4>2, TrimArith DEF TrimSplits, mem_trim
      <4> QED BY <2>3, <4>1, <4>2
    <3>2. /\ flags' = flags \ Words(p2, HDR) /\ trimmed' = trimmed \cup {b}
          /\ next' = With(With(Without(next, old), b, p2), p2, end)
      BY <3>1 DEF MovesEnd
    <3>3. b \in Nat /\ p2 \in Nat /\ b < p2 /\ p2 < next[b] /\ next[b] \in Nat
      BY <1>3, <3>1, TrimArith DEF mem_trim
    <3> SUFFICES ASSUME NEW c \in used' \ trimmed' PROVE Guarded(c)'
      BY DEF UntrimmedGuarded
    <3>4. c \in used \ trimmed /\ c # b /\ c \in Blocks /\ b \in Blocks
      BY <2>1, <3>2 DEF Inv, TypeOK
    <3>5. c # p2 /\ c # old
      <4>1. next[c] > c BY <3>4 DEF Inv, TypeOK, Chained
      <4>2. c \in Nat /\ next[c] \in Nat /\ (next[c] <= b \/ next[b] <= c) BY <3>4, Apart
      <4>3. c # p2 BY <3>3, <4>1, <4>2
      <4> QED BY <3>1, <3>4, <4>3
    <3>6. next'[c] = next[c] BY <3>2, <3>4, <3>5 DEF With, Without, Blocks
    <3>7. next[c] - GUARD \in flags BY <3>4 DEF UntrimmedGuarded, Guarded
    <3>8. next[c] > c BY <3>4 DEF Inv, TypeOK, Chained
    <3>9. next[c] - GUARD \notin Words(p2, HDR)
      <4>1. next[c] <= b \/ next[b] <= c BY <3>4, Apart
      <4>2. CASE old = p2 BY <3>1, <3>3, <3>4, <3>5, <3>8, <4>1, <4>2, Apart DEF Words
      <4>3. CASE old = next[b] /\ old \in Blocks \ used
        <5>1. next[old] >= old + HDR /\ old \in Nat /\ next[old] \in Nat
          BY <4>3 DEF Inv, TypeOK, Chained
        <5>2. next[c] <= old \/ next[old] <= c BY <3>4, <3>5, <4>3, Apart
        <5>3. c \in Nat /\ next[c] \in Nat BY <3>4, Apart
        <5> QED BY <3>3, <3>8, <4>1, <4>3, <5>1, <5>2, <5>3 DEF Words
      <4> QED BY <3>1, <4>2, <4>3
    <3> QED BY <3>2, <3>6, <3>7, <3>9 DEF Guarded
  <2> QED BY <1>3, <2>2, <2>3 DEF mem_trim
<1>4. CASE UNCHANGED heap
  BY <1>4 DEF heap, UntrimmedGuarded, Guarded
<1>5. ASSUME NEW t \in Threads, NEW n \in Sizes, MallocFails(t, n) PROVE UNCHANGED heap
  BY <1>5 DEF MallocFails
<1>6. ASSUME NEW t \in Threads, mem_slide_check(t) PROVE UNCHANGED heap
  BY <1>6 DEF mem_slide_check
<1>7. UNCHANGED vars \/ App_TaskStatHook => UNCHANGED heap
  BY DEF vars, App_TaskStatHook
<1> QED BY <1>1, <1>2, <1>3, <1>4, <1>5, <1>6, <1>7 DEF Next, mem_malloc

(* Every block that no trim cut ends in its guard: only mem_trim can make  *)
(* mem_slide_check spin.                                                   *)
THEOREM Guards == Spec => []UntrimmedGuarded
<1>1. Init => UntrimmedGuarded BY DEF Init, UntrimmedGuarded
<1> QED BY <1>1, GuardsStep, Invariance, PTL DEF Spec

(* Only a check that misses a guard spins, in a thread whose request has   *)
(* failed or in the statistics task.                                       *)
LEMMA OnlyChecksSpin ==
  ASSUME Inv, [Next]_vars, ~Spinning, Spinning'
  PROVE  ~(\A b \in used : Guarded(b))
<1>1. /\ DOMAIN at = Threads /\ ~stat_spins /\ \A t \in Threads : at[t] # "spin"
  BY DEF Spinning, Inv, TypeOK
<1>2. CASE stat_spins'
  <2>1. App_TaskStatHook
    BY <1>1, <1>2 DEF Next, mem_malloc, MallocFinds, MallocFails, mem_slide_check,
                      mem_free, mem_trim, vars
  <2> QED BY <1>2, <2>1 DEF App_TaskStatHook
<1>3. ASSUME NEW t \in Threads, at'[t] = "spin" PROVE ~(\A b \in used : Guarded(b))
  <2>1. PICK r \in Threads : mem_slide_check(r)
    BY <1>1, <1>3 DEF Next, mem_malloc, MallocFinds, MallocFails, App_TaskStatHook,
                      mem_free, mem_trim, vars
  <2> QED BY <1>1, <1>3, <2>1 DEF mem_slide_check
<1> QED BY <1>2, <1>3 DEF Spinning

(* mem_slide_check spins on a block that a trim has cut, never on another. *)
AlarmFindsTrimmed == ~Spinning /\ Spinning' => \E b \in trimmed : ~Guarded(b)

(* Where the memory overflow that mem_slide_check reports comes from: in   *)
(* no step does it take a block for overrun that no mem_trim has cut,      *)
(* however often blocks were split, joined and given again.                *)
THEOREM AlarmAfterTrim == Spec => [][AlarmFindsTrimmed]_vars
<1>1. Init => UntrimmedGuarded BY DEF Init, UntrimmedGuarded
<1>2. ASSUME Inv, UntrimmedGuarded, [Next]_vars, ~Spinning, Spinning'
      PROVE  \E b \in trimmed : ~Guarded(b)
  <2>1. ~(\A b \in used : Guarded(b)) BY <1>2, OnlyChecksSpin
  <2> QED BY <1>2, <2>1 DEF UntrimmedGuarded
<1>3. Inv /\ UntrimmedGuarded /\ [Next]_vars => [AlarmFindsTrimmed]_vars
  BY <1>2 DEF AlarmFindsTrimmed
<1> QED BY <1>1, <1>3, GuardsStep, Invariance, PTL DEF Spec

(* The heap without mem_trim, as it would be if lwIP did not shrink pbufs. *)
Trims == \E b \in used, n \in Sizes : mem_trim(b, n)
UntrimmedSpec == Init /\ [][Next /\ ~Trims]_vars

(* The comment at mem_slide_check is right about malloc and free: as long  *)
(* as nothing is trimmed, and callers keep to what they asked for, no list *)
(* of blocks makes it spin.  The run that finds NeverSpins violated needs  *)
(* a trim.                                                                 *)
THEOREM SpinNeedsTrim == UntrimmedSpec => []NeverSpins
<1> DEFINE I == Inv /\ UntrimmedGuarded /\ trimmed = {} /\ NeverSpins
<1>1. Init => I
  <2>1. Init => Inv BY InitInv
  <2> QED BY <2>1 DEF Init, UntrimmedGuarded, NeverSpins, Spinning
<1>2. I /\ [Next /\ ~Trims]_vars => I'
  <2> SUFFICES ASSUME I, [Next]_vars, ~Trims \/ UNCHANGED vars PROVE I'
    OBVIOUS
  <2>1. Inv' BY NextInv
  <2>2. UntrimmedGuarded' BY <2>1, GuardsStep
  <2>3. trimmed' = {}
    BY DEF Next, mem_malloc, MallocFinds, MallocFails, Allocate, mem_slide_check, mem_free,
           App_TaskStatHook, Trims, vars, heap
  <2>4. NeverSpins'
    <3> SUFFICES ASSUME Spinning' PROVE FALSE BY DEF NeverSpins
    <3>1. ~(\A b \in used : Guarded(b)) BY OnlyChecksSpin DEF NeverSpins
    <3> QED BY <3>1 DEF UntrimmedGuarded
  <2> QED BY <2>1, <2>2, <2>3, <2>4
<1>3. I => NeverSpins OBVIOUS
<1> QED BY <1>1, <1>2, <1>3, PTL DEF UntrimmedSpec

-----------------------------------------------------------------------------
(* The refinement: each step of the heap is a step of the allocator, or    *)
(* changes nothing a caller can see.                                       *)
regions == [p \in {b + HDR : b \in used} |-> asked[p - HDR]]

LEMMA Regions ==
  ASSUME Inv
  PROVE  /\ DOMAIN regions = {b + HDR : b \in used}
         /\ \A b \in used : b + HDR \in DOMAIN regions /\ regions[b + HDR] = asked[b]
         /\ \A p \in DOMAIN regions : p - HDR \in used /\ p = (p - HDR) + HDR
<1> USE SizesAssumption
<1>1. \A b \in used : b \in Nat /\ (b + HDR) - HDR = b BY DEF Inv, TypeOK
<1>2. DOMAIN regions = {b + HDR : b \in used} BY DEF regions
<1>3. \A b \in used : b + HDR \in DOMAIN regions /\ regions[b + HDR] = asked[b]
  BY <1>1 DEF regions
<1>4. \A p \in DOMAIN regions : p - HDR \in used /\ p = (p - HDR) + HDR
  BY <1>1, <1>2
<1> QED BY <1>2, <1>3, <1>4

LEMMA GiveStep ==
  ASSUME Inv, Inv', NEW b \in Blocks, NEW n \in Sizes, Fits(b, n), Allocate(b, n)
  PROVE  Promise!Give(b + HDR, n)
<1> USE SizesAssumption
<1>1. used' = used \cup {b} /\ asked' = [c \in used \cup {b} |-> IF c = b THEN n ELSE asked[c]]
      /\ b \in Nat /\ n \in Nat /\ b \notin used
  BY DEF Allocate, With, Fits, Inv, TypeOK
<1>2. b + HDR + n < next[b] /\ next[b] \in Nat /\ next[b] <= SIZE
  BY <1>1 DEF Fits, Room, Padded, Inv, TypeOK
<1>3. ASSUME NEW q \in DOMAIN regions
      PROVE  Promise!Disjoint(b + HDR, n, q, regions[q])
  <2> DEFINE c == q - HDR
  <2>1. c \in used /\ q = c + HDR /\ regions[q] = asked[c] BY Regions
  <2>2. c \in Blocks /\ c # b /\ asked[c] \in Nat BY <1>1, <2>1 DEF Inv, TypeOK
  <2>3. c + HDR + asked[c] <= next[c] BY <2>1 DEF Inv, RequestsFit
  <2>4. next[b] <= c \/ next[c] <= b BY <2>2, Apart
  <2>5. c \in Nat /\ next[c] \in Nat BY <2>2, Apart
  <2> HIDE DEF c
  <2> QED BY <1>1, <1>2, <2>1, <2>2, <2>3, <2>4, <2>5 DEF Promise!Disjoint
<1>4. regions' = [q \in DOMAIN regions \cup {b + HDR} |-> IF q = b + HDR THEN n ELSE regions[q]]
  <2>1. DOMAIN regions' = DOMAIN regions \cup {b + HDR} BY <1>1, Regions DEF regions
  <2>2. ASSUME NEW q \in DOMAIN regions'
        PROVE  regions'[q] = IF q = b + HDR THEN n ELSE regions[q]
    <3>1. CASE q = b + HDR
      <4>1. q - HDR = b BY <1>1, <3>1
      <4> QED BY <1>1, <2>2, <3>1, <4>1 DEF regions
    <3>2. CASE q # b + HDR
      <4>1. q \in DOMAIN regions BY <2>1, <3>2
      <4>2. q - HDR \in used /\ q - HDR # b BY <1>1, <4>1, Regions
      <4>3. regions'[q] = asked'[q - HDR] BY <2>2 DEF regions
      <4>4. regions[q] = asked[q - HDR] BY <4>1 DEF regions
      <4> QED BY <1>1, <3>2, <4>2, <4>3, <4>4
    <3> QED BY <3>1, <3>2
  <2>3. regions' = [q \in DOMAIN regions' |-> regions'[q]] BY DEF regions
  <2> QED BY <2>1, <2>2, <2>3
<1>5. b + HDR \in 0..(SIZE - n) BY <1>1, <1>2
<1> QED BY <1>3, <1>4, <1>5 DEF Promise!Give, regions

LEMMA TakeBackStep ==
  ASSUME Inv, Inv', NEW b \in used, mem_free(b)
  PROVE  Promise!TakeBack(b + HDR)
<1> USE SizesAssumption
<1>1. used' = used \ {b} /\ asked' = [c \in used \ {b} |-> asked[c]] /\ b \in Nat
  BY DEF mem_free, Without, Inv, TypeOK
<1>2. DOMAIN regions' = DOMAIN regions \ {b + HDR}
  <2>1. \A c \in used : c \in Nat /\ (c + HDR = b + HDR => c = b) BY DEF Inv, TypeOK
  <2>2. DOMAIN regions' = {c + HDR : c \in used \ {b}} BY <1>1 DEF regions
  <2> QED BY <2>1, <2>2, Regions
<1>3. ASSUME NEW q \in DOMAIN regions' PROVE regions'[q] = regions[q]
  <2>1. q \in DOMAIN regions /\ q # b + HDR BY <1>2
  <2>2. q - HDR \in used /\ q - HDR # b BY <1>1, <2>1, Regions
  <2>3. regions'[q] = asked'[q - HDR] BY <1>3 DEF regions
  <2>4. regions[q] = asked[q - HDR] BY <2>1 DEF regions
  <2> QED BY <1>1, <2>2, <2>3, <2>4
<1>4. regions' = [q \in DOMAIN regions' |-> regions'[q]] BY DEF regions
<1>5. regions' = [q \in DOMAIN regions \ {b + HDR} |-> regions[q]] BY <1>2, <1>3, <1>4
<1> QED BY <1>5, Regions DEF Promise!TakeBack, regions

LEMMA ShrinkStep ==
  ASSUME Inv, Inv', NEW b \in used, NEW n \in Sizes, mem_trim(b, n)
  PROVE  Promise!Shrink(b + HDR, n) \/ regions' = regions
<1> USE SizesAssumption
<1>1. used' = used /\ asked' = [asked EXCEPT ![b] = n] /\ b \in Nat /\ n <= asked[b]
      /\ n \in Nat /\ DOMAIN asked = used
  BY DEF mem_trim, Inv, TypeOK
<1>2. asked[b] \in Nat
  <2>1. asked[b] \in Sizes BY DEF Inv, TypeOK
  <2> QED BY <2>1
<1>3. DOMAIN regions' = DOMAIN regions /\ b + HDR \in DOMAIN regions /\ regions[b + HDR] = asked[b]
  BY <1>1, Regions DEF regions
<1>4. ASSUME NEW q \in DOMAIN regions
      PROVE  regions'[q] = IF q = b + HDR THEN n ELSE regions[q]
  <2>1. q - HDR \in used /\ (q - HDR = b <=> q = b + HDR) BY <1>1, Regions
  <2>2. regions'[q] = asked'[q - HDR] BY <1>3 DEF regions
  <2>3. regions[q] = asked[q - HDR] BY DEF regions
  <2> QED BY <1>1, <2>1, <2>2, <2>3
<1>5. regions' = [q \in DOMAIN regions' |-> regions'[q]] BY DEF regions
<1>6. regions = [q \in DOMAIN regions |-> regions[q]] BY DEF regions
<1>7. regions' = [regions EXCEPT ![b + HDR] = n] BY <1>3, <1>4, <1>5, <1>6
<1>8. CASE n < asked[b]
  BY <1>3, <1>7, <1>8 DEF Promise!Shrink, regions
<1>9. CASE n = asked[b]
  BY <1>3, <1>4, <1>5, <1>6, <1>9
<1> QED BY <1>1, <1>2, <1>8, <1>9

(* A caller's words are its own until it gives them back: the heap is an   *)
(* allocator.                                                              *)
THEOREM HeapIsAllocator == Spec => PromiseSpec
<1> USE SizesAssumption
<1>1. Init => Promise!Init
  <2> SUFFICES ASSUME Init PROVE regions = [p \in {} |-> 0] BY DEF Promise!Init, regions
  <2>1. used = {} BY DEF Init
  <2> QED BY <2>1 DEF regions
<1>2. Inv /\ Inv' /\ [Next]_vars => [Promise!Next]_regions
  <2> SUFFICES ASSUME Inv, Inv', [Next]_vars PROVE Promise!Next \/ regions' = regions
    OBVIOUS
  <2>1. ASSUME NEW t \in Threads, NEW n \in Sizes, MallocFinds(t, n) PROVE Promise!Next
    <3>1. PICK b \in Blocks : Fits(b, n) /\ Allocate(b, n)
      BY <2>1 DEF MallocFinds, Lowest, Found
    <3>2. b + HDR \in 0..SIZE BY <3>1 DEF Inv, TypeOK, Chained
    <3> QED BY <3>1, <3>2, GiveStep DEF Promise!Next
  <2>2. ASSUME NEW b \in used, mem_free(b) PROVE Promise!Next
    <3>1. b + HDR \in 0..SIZE BY DEF Inv, TypeOK, Chained
    <3> QED BY <2>2, <3>1, TakeBackStep DEF Promise!Next
  <2>3. ASSUME NEW b \in used, NEW n \in Sizes, mem_trim(b, n)
        PROVE  Promise!Next \/ regions' = regions
    <3>1. b + HDR \in 0..SIZE BY DEF Inv, TypeOK, Chained
    <3> QED BY <2>3, <3>1, ShrinkStep DEF Promise!Next
  <2>4. UNCHANGED heap => regions' = regions BY DEF heap, regions
  <2>5. ASSUME NEW t \in Threads, NEW n \in Sizes, MallocFails(t, n) PROVE UNCHANGED heap
    BY <2>5 DEF MallocFails
  <2>6. ASSUME NEW t \in Threads, mem_slide_check(t) PROVE UNCHANGED heap
    BY <2>6 DEF mem_slide_check
  <2>7. UNCHANGED vars \/ App_TaskStatHook => UNCHANGED heap
    BY DEF vars, App_TaskStatHook
  <2> QED BY <2>1, <2>2, <2>3, <2>4, <2>5, <2>6, <2>7 DEF Next, mem_malloc
<1> QED BY <1>1, <1>2, Invariance, PTL DEF Spec, PromiseSpec, Promise!Spec, regions
=============================================================================
