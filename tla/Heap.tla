-------------------------------- MODULE Heap --------------------------------
(***************************************************************************)
(* The heap of kernel/api (memory.c): blocks linked by offset in one array *)
(* of words, first fit from the lowest free block, and a guard word at the *)
(* end of every used block.  One mutex covers each walk over the list, so  *)
(* malloc, free and trim are one step each; a malloc that finds no room    *)
(* lets go of the mutex, checks the list and tries once more.  The         *)
(* statistics task checks it ten times a second.                           *)
(*                                                                         *)
(* Offsets and sizes are in words (MEM_ALIGNMENT).  A caller writes the    *)
(* words it asked for, and nothing else.  The history variables asked and  *)
(* trimmed hold what each caller asked for and the blocks cut by a trim.   *)
(***************************************************************************)
EXTENDS Integers, FiniteSetsExt

CONSTANTS Threads,
          SIZE,     \* MEM_SIZE_ALIGNED: the offset of ram_end
          HDR,      \* SIZEOF_STRUCT_MEM
          MIN,      \* MIN_SIZE_ALIGNED
          GUARD,    \* MEM_CRITICAL_AREA_SIZE: one word
          Sizes     \* bound: the requests

ASSUME SizesAssumption ==
  /\ HDR \in Nat \ {0} /\ MIN \in Nat \ {0} /\ GUARD = 1
  /\ SIZE \in Nat /\ HDR + MIN <= SIZE
  /\ Sizes \subseteq Nat \ {0}

VARIABLES
  next, prev,   \* the links of the struct mems in the list
  used,         \* the blocks whose used is 1
  lfree,        \* the lowest free block, or ram_end
  ram_used,
  flags,        \* the words that read MEM_CRITICAL_FLAG
  at,           \* where each thread is in mem_malloc
  want,         \* what it asked for
  stat_spins,   \* the statistics task spins in its check
  asked,        \* history: the words the holder of a block may use
  trimmed       \* history: the blocks a trim moved the end of

heap == <<next, prev, used, lfree, ram_used, flags, asked, trimmed>>
vars == <<heap, at, want, stat_spins>>

Blocks == DOMAIN next

Init ==
  /\ next = [b \in {0} |-> SIZE] /\ prev = [b \in {0} |-> 0]
  /\ used = {} /\ lfree = 0 /\ ram_used = 0 /\ flags = {}
  /\ at = [t \in Threads |-> "idle"] /\ want = [t \in Threads |-> 0]
  /\ stat_spins = FALSE
  /\ asked = [b \in {} |-> 0] /\ trimmed = {}

-----------------------------------------------------------------------------
Words(p, n) == p..(p + n - 1)
With(f, x, v) == [y \in DOMAIN f \cup {x} |-> IF y = x THEN v ELSE f[y]]
Without(f, x) == [y \in DOMAIN f \ {x} |-> f[y]]

(* The back link of the block at n; ram_end's is never written.            *)
PrevOf(f, n, b) == IF n = SIZE THEN f ELSE [f EXCEPT ![n] = b]

(* The least of a set of offsets, as a set.                                *)
Lowest(S) == {x \in S : \A y \in S : x <= y}

(* Mutant: no word for the guard.                                          *)
PaddedBare(n) == IF n < MIN THEN MIN ELSE n

(* What a request takes, and the data words of a block.                    *)
Padded(n) == IF n + GUARD < MIN THEN MIN ELSE n + GUARD
Room(b) == next[b] - b - HDR

(* Mutant: the block's used is not looked at.                              *)
FitsUsed(b, n) == Room(b) >= Padded(n)

Fits(b, n) == b \notin used /\ Room(b) >= Padded(n)

(* The mutex is free: no check spins with it.                              *)
Spinning == stat_spins \/ \E t \in Threads : at[t] = "spin"

(* Mutant: lwIP's bound, which memory.c has commented out.                 *)
FoundShort(n) == {b \in Blocks : b >= lfree /\ b < SIZE - HDR - Padded(n) /\ Fits(b, n)}

(* The search: up the list from lfree, as far as the request could fit.    *)
Found(n) == {b \in Blocks : b >= lfree /\ b < SIZE - Padded(n) /\ Fits(b, n)}

(* Mutant: lfree moves to the next block, used or not.                     *)
NextAfter(b, us, bs) == Lowest({c \in bs : c > b} \cup {SIZE})

(* lfree moves up to the next free block, or to ram_end.                   *)
FreeAfter(b, us, bs) == Lowest({c \in bs : c >= b /\ c \notin us} \cup {SIZE})

(* Mutant: a remainder too small for a block is split off.                 *)
SplitTooSmall(b, n) == Room(b) >= Padded(n) + HDR

(* A block too large for the request is split in two.                      *)
Split(b, n) == Room(b) >= Padded(n) + HDR + MIN

Allocate(b, n) ==
  LET p2 == b + HDR + Padded(n)
      end == IF Split(b, n) THEN p2 ELSE next[b]
  IN  /\ IF Split(b, n)
         THEN /\ next' = With([next EXCEPT ![b] = p2], p2, next[b])
              /\ prev' = With(PrevOf(prev, next[b], p2), p2, b)
         ELSE UNCHANGED <<next, prev>>
      /\ used' = used \cup {b}
      /\ ram_used' = ram_used + (end - b)
      /\ flags' = ((flags \ (IF Split(b, n) THEN Words(p2, HDR) ELSE {}))
                   \cup {end - GUARD}) \ Words(b + HDR, n)
      /\ lfree' \in IF b = lfree THEN FreeAfter(b, used', DOMAIN next') ELSE {lfree}
      /\ asked' = With(asked, b, n)
      /\ UNCHANGED trimmed

(* mem_malloc_ex finds a block, at the first try or at the second.         *)
MallocFinds(t, n) ==
  /\ ~Spinning
  /\ at[t] = "idle" \/ (at[t] = "again" /\ want[t] = n)
  /\ \E b \in Lowest(Found(n)) : Allocate(b, n)
  /\ at' = [at EXCEPT ![t] = "idle"]
  /\ want' = [want EXCEPT ![t] = 0]
  /\ UNCHANGED stat_spins

(* It finds none, and will check the list.                                 *)
MallocFails(t, n) ==
  /\ ~Spinning
  /\ at[t] = "idle" \/ (at[t] = "again" /\ want[t] = n)
  /\ Found(n) = {}
  /\ at' = [at EXCEPT ![t] = IF at[t] = "idle" THEN "check" ELSE "last"]
  /\ want' = [want EXCEPT ![t] = n]
  /\ UNCHANGED <<heap, stat_spins>>

(* mem_slide_check: the guard of every used block must be there, or the    *)
(* thread spins and keeps the mutex.  After the second failure mem_malloc  *)
(* returns NULL.                                                           *)
Guarded(b) == next[b] - GUARD \in flags

mem_slide_check(t) ==
  /\ ~Spinning
  /\ at[t] \in {"check", "last"}
  /\ at' = [at EXCEPT ![t] = CASE ~(\A b \in used : Guarded(b)) -> "spin"
                               [] OTHER -> IF at[t] = "check" THEN "again" ELSE "idle"]
  /\ want' = IF at'[t] = "idle" THEN [want EXCEPT ![t] = 0] ELSE want
  /\ UNCHANGED <<heap, stat_spins>>

(* OS_TaskStat's hook: the same check, whatever the others are doing.      *)
App_TaskStatHook ==
  /\ ~Spinning
  /\ stat_spins' = ~(\A b \in used : Guarded(b))
  /\ UNCHANGED <<heap, at, want>>

mem_malloc(t, n) == MallocFinds(t, n) \/ MallocFails(t, n)

-----------------------------------------------------------------------------
(* plug_holes forward: the free block after b becomes part of it; and then *)
(* backward: b becomes part of the free block before it.                   *)
JoinsNext(b) == next[b] # SIZE /\ next[b] \notin used
JoinsPrev(b) == prev[b] # b /\ prev[b] \notin used

(* Mutant: holes are plugged forward only.                                 *)
plug_holesForward(b) ==
  LET n == next[b]
      end == IF JoinsNext(b) THEN next[n] ELSE n
      gone == IF JoinsNext(b) THEN {n} ELSE {}
  IN  /\ next' = [c \in Blocks \ gone |-> IF c = b THEN end ELSE next[c]]
      /\ prev' = [c \in Blocks \ gone |-> IF c = end THEN b ELSE prev[c]]
      /\ lfree' = IF b < lfree THEN b ELSE lfree

plug_holes(b) ==
  LET n == next[b]
      p == prev[b]
      end == IF JoinsNext(b) THEN next[n] ELSE n
      first == IF JoinsPrev(b) THEN p ELSE b
      gone == (IF JoinsNext(b) THEN {n} ELSE {}) \cup (IF JoinsPrev(b) THEN {b} ELSE {})
  IN  /\ next' = [c \in Blocks \ gone |-> IF c = first THEN end ELSE next[c]]
      /\ prev' = [c \in Blocks \ gone |-> IF c = end THEN first ELSE prev[c]]
      /\ LET low == IF b < lfree \/ (JoinsNext(b) /\ lfree = n) THEN b ELSE lfree
         IN  lfree' = IF JoinsPrev(b) /\ low = b THEN p ELSE low

mem_free(b) ==
  /\ ~Spinning
  /\ b \in used
  /\ used' = used \ {b}
  /\ plug_holes(b)
  /\ ram_used' = ram_used - (next[b] - b)
  /\ asked' = Without(asked, b)
  /\ trimmed' = trimmed \ {b}
  /\ UNCHANGED <<flags, at, want, stat_spins>>

-----------------------------------------------------------------------------
(* mem_trim, as pbuf_realloc calls it: to no more words than were asked    *)
(* for.  The new size leaves no room for the guard.                        *)
Shrunk(n) == IF n < MIN THEN MIN ELSE n

(* The block at p2 takes over from the block at old (or is new); it ends   *)
(* at end.                                                                 *)
MovesEnd(b, n, p2, old, end) ==
  /\ next' = With(With(Without(next, old), b, p2), p2, end)
  /\ prev' = With(PrevOf(Without(prev, old), end, p2), p2, b)
  /\ ram_used' = ram_used - (Room(b) - Shrunk(n))
  /\ flags' = flags \ Words(p2, HDR)
  /\ trimmed' = trimmed \cup {b}

(* The next block is free and moves down.                                  *)
TrimSlides(b, n) ==
  LET p2 == b + HDR + Shrunk(n)
      old == next[b]
  IN  /\ Shrunk(n) < Room(b) /\ old # SIZE /\ old \notin used
      /\ MovesEnd(b, n, p2, old, next[old])
      /\ lfree' = IF lfree = old THEN p2 ELSE lfree

(* Mutant: whatever is cut off becomes a block.                            *)
TrimSplitsAlways(b, n) ==
  LET p2 == b + HDR + Shrunk(n)
  IN  /\ next[b] = SIZE \/ next[b] \in used
      /\ MovesEnd(b, n, p2, p2, next[b])
      /\ lfree' = IF p2 < lfree THEN p2 ELSE lfree

(* The next block is used, or ram_end, and what is cut off is a new block. *)
TrimSplits(b, n) ==
  LET p2 == b + HDR + Shrunk(n)
  IN  /\ next[b] = SIZE \/ next[b] \in used
      /\ Shrunk(n) + HDR + MIN <= Room(b)
      /\ MovesEnd(b, n, p2, p2, next[b])
      /\ lfree' = IF p2 < lfree THEN p2 ELSE lfree

(* Too little is cut off for a block of its own.                           *)
TrimKeeps(b, n) ==
  /\ \/ Shrunk(n) = Room(b)
     \/ /\ next[b] = SIZE \/ next[b] \in used
        /\ Shrunk(n) + HDR + MIN > Room(b)
  /\ UNCHANGED <<next, prev, ram_used, flags, lfree, trimmed>>

mem_trim(b, n) ==
  /\ ~Spinning
  /\ b \in used /\ n <= asked[b]
  /\ TrimSlides(b, n) \/ TrimSplits(b, n) \/ TrimKeeps(b, n)
  /\ asked' = [asked EXCEPT ![b] = n]
  /\ UNCHANGED <<used, at, want, stat_spins>>

Next == \/ \E t \in Threads, n \in Sizes : mem_malloc(t, n)
        \/ (\E t \in Threads : mem_slide_check(t)) \/ App_TaskStatHook
        \/ \E b \in used : mem_free(b) \/ \E n \in Sizes : mem_trim(b, n)

Spec == Init /\ [][Next]_vars

-----------------------------------------------------------------------------
TypeOK ==
  /\ Blocks \subseteq 0..(SIZE - 1) /\ DOMAIN prev = Blocks
  /\ next \in [Blocks -> 0..SIZE] /\ prev \in [Blocks -> Blocks]
  /\ used \subseteq Blocks /\ DOMAIN asked = used /\ trimmed \subseteq used
  /\ asked \in [used -> Sizes]
  /\ lfree \in 0..SIZE /\ ram_used \in Int
  /\ flags \subseteq 0..(SIZE - 1)
  /\ at \in [Threads -> {"idle", "check", "again", "last", "spin"}]
  /\ want \in [Threads -> Sizes \cup {0}] /\ stat_spins \in BOOLEAN

(* The blocks lie end to end over the whole pool, each with room for its   *)
(* header and the least data, and the back links are the inverse of next.  *)
Chained ==
  /\ 0 \in Blocks /\ prev[0] = 0
  /\ \A b \in Blocks :
       /\ next[b] >= b + HDR + MIN
       /\ next[b] \in Blocks \cup {SIZE}
       /\ next[b] \in Blocks => prev[next[b]] = b
       /\ b # 0 => next[prev[b]] = b
       /\ \A c \in Blocks : c <= b \/ next[b] <= c

(* plug_holes leaves no free block next to a free block.                   *)
HolesPlugged == \A b \in Blocks : b \in used \/ next[b] \in used \cup {SIZE}

(* The search starts at the lowest free block: lfree is never below it, so *)
(* that it is free, nor above it, so that nothing is missed.               *)
LowestFree == lfree \in Lowest((Blocks \ used) \cup {SIZE})

(* What a caller may use lies inside its block, and a block that no trim   *)
(* cut ends in a guard that is not the caller's.                           *)
RequestsFit == \A b \in used :
  /\ b + HDR + asked[b] <= next[b]
  /\ b \notin trimmed => b + HDR + asked[b] < next[b]

(* mem_slide_check finds the guard of every block no trim cut: whatever    *)
(* was split, joined or moved around it.                                   *)
UntrimmedGuarded == \A b \in used \ trimmed : Guarded(b)

(* A request fails only when no block has room for it.                     *)
FailsOnlyFull == [][\A t \in Threads :
  at'[t] \in {"check", "last"} /\ at'[t] # at[t]
    => \A b \in Blocks : ~Fits(b, want'[t])]_vars

(* The comment at the check: what it reports is a memory overflow.  No     *)
(* caller writes beyond what it asked for, so it never finds one.          *)
NeverSpins == ~Spinning

(* To its callers the heap is an allocator.                                *)
Promise == INSTANCE Allocator WITH
  regions <- [p \in {b + HDR : b \in used} |-> asked[p - HDR]]
PromiseSpec == Promise!Spec
=============================================================================
