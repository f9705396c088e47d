--------------------------- MODULE RxReorderProofs ---------------------------
(***************************************************************************)
(* Theorems about the reorder table, for any window, any sequence numbers  *)
(* and any payloads: every index is one of a slot, and a payload is in one *)
(* place, although two tasks move the slots.                               *)
(*                                                                         *)
(* Numbers are compared by wrapping differences: WindowTests says when     *)
(* these tell old from new, InOrderSteps and OnlyForward what follows for  *)
(* the order in which packets are taken from their slots and for the moves *)
(* of the window.                                                          *)
(***************************************************************************)
EXTENDS RxReorder, TLAPS

(* The remainder of what is less than twice the modulus.                   *)
LEMMA Modulo ==
  ASSUME NEW x \in 0..(2 * MOD - 1)
  PROVE  x % MOD = IF x < MOD THEN x ELSE x - MOD
<1>1. MOD \in Nat /\ MOD >= 4 BY WindowAssumption
<1>2. CASE x < MOD BY <1>1, <1>2
<1>3. CASE x >= MOD
  <2>1. x % MOD = (x - MOD) % MOD BY <1>1, <1>3
  <2> QED BY <1>1, <1>3, <2>1
<1> QED BY <1>2, <1>3, <1>1

(* What a window of the numbers does to a number.                          *)
LEMMA Window ==
  ASSUME TypeOK, NEW q \in Numbers
  PROVE  /\ EndsWith(q) \in 0..MOD
         /\ Index(q, EndsWith(q)) \in Indices
         /\ ~Beyond(q) => Index(q, start) \in Indices
<1> USE WindowAssumption
<1>1. /\ start \in 0..MOD /\ WIN \in Nat /\ MOD \in Nat /\ 2 <= WIN /\ 2 * WIN <= MOD
      /\ q \in 0..(MOD - 1)
  BY DEF TypeOK, Numbers
<1>2. EndsWith(q) \in 0..MOD /\ Index(q, EndsWith(q)) \in Indices
  BY <1>1 DEF EndsWith, Index, Indices
<1>3. ASSUME ~Beyond(q) PROVE Index(q, start) \in Indices
  <2> DEFINE x == start + WIN - 1
  <2> DEFINE end == x % MOD
  <2>1. x \in 0..(2 * MOD - 1) /\ x \in Int BY <1>1
  <2>2. /\ ~(end < start /\ q < start /\ q > end)
        /\ ~(end > start /\ (q > end \/ q < start))
    BY <1>3 DEF Beyond
  <2>3. x = start + WIN - 1 OBVIOUS
  <2> HIDE DEF x
  <2>4. end = IF x < MOD THEN x ELSE x - MOD
    BY <2>1, Modulo
  <2> HIDE DEF end
  <2> QED BY <1>1, <2>2, <2>3, <2>4 DEF Index, Indices
<1> QED BY <1>2, <1>3

LEMMA Counted ==
  ASSUME TypeOK, NEW w \in 0..MOD
  PROVE  Count(w) \in 1..WIN
BY WindowAssumption DEF Count, TypeOK

LEMMA Remainder ==
  ASSUME NEW x \in Int
  PROVE  x % MOD \in Numbers
<1>1. MOD \in Nat /\ MOD > 0 BY WindowAssumption
<1>2. x % MOD \in 0..(MOD - 1) BY <1>1
<1> QED BY <1>2 DEF Numbers

-----------------------------------------------------------------------------
LEMMA EmptyType == Empty \in [Indices -> Payloads \cup {None, Dropped}]
BY DEF Empty

LEMMA InitType == Init => TypeOK
<1> USE WindowAssumption
<1>1. 0 \in Numbers /\ 0 \in 0..MOD /\ 0 \in 0..WIN /\ 0 \in 0..MAX_LATE BY DEF Numbers
<1>2. NoJob \in Jobs BY <1>1 DEF Jobs, NoJob
<1>3. NoFlush \in Flushes BY <1>1 DEF Flushes, NoFlush
<1> QED BY <1>1, <1>2, <1>3, EmptyType DEF Init, TypeOK

LEMMA HandsUpType ==
  ASSUME TypeOK, NEW p \in Payloads \cup {Dropped}, HandsUp(p)
  PROVE  ahead' \subseteq Numbers
BY WindowAssumption DEF HandsUp, TypeOK

LEMMA SetStartType ==
  ASSUME TypeOK, NEW w \in 0..MOD, SetStart(w)
  PROVE  start' \in 0..MOD /\ ahead' \subseteq Numbers
BY DEF SetStart, TypeOK

LEMMA RotatedType ==
  ASSUME NEW s \in [Indices -> Payloads \cup {None, Dropped}], NEW n \in 0..WIN
  PROVE  Rotated(s, n) \in [Indices -> Payloads \cup {None, Dropped}]
<1> SUFFICES ASSUME NEW k \in Indices
             PROVE  Rotated(s, n)[k] \in Payloads \cup {None, Dropped}
  BY DEF Rotated
<1>1. n > 0 /\ k + n < WIN => k + n \in Indices BY WindowAssumption DEF Indices
<1> QED BY <1>1 DEF Rotated

LEMMA EmptiedType ==
  ASSUME NEW s \in [Indices -> Payloads \cup {None, Dropped}], NEW i, NEW j
  PROVE  Emptied(s, i, j) \in [Indices -> Payloads \cup {None, Dropped}]
BY DEF Emptied

LEMMA TypeStep == TypeOK /\ [Next]_vars => TypeOK'
<1> SUFFICES ASSUME TypeOK, [Next]_vars PROVE TypeOK'
  OBVIOUS
<1> USE WindowAssumption
<1>c. /\ 0 \in Numbers /\ 0 \in 0..MOD /\ WIN \in 0..WIN /\ 0 \in 0..WIN
      /\ \A x \in Numbers : x \in 0..MOD
      /\ NoJob \in Jobs /\ NoFlush \in Flushes
  BY DEF Numbers, Jobs, Flushes, NoJob, NoFlush
<1>1. ASSUME NEW kind \in {"packet", "bar"}, NEW s \in Numbers,
             NEW p \in Payloads \cup {None, Dropped}, Arrives(kind, s, p)
      PROVE  TypeOK'
  <2> DEFINE q == IF kind = "bar" THEN (s + WIN - 1) % MOD ELSE s
             w == IF Beyond(q) THEN EndsWith(q) ELSE start
             new == [NoJob EXCEPT !.kind = kind, !.q = q, !.p = p, !.prev = start,
                                  !.to = w, !.n = Count(w)]
  <2>1. q \in Numbers
    <3>1. s + WIN - 1 \in Int BY DEF Numbers
    <3> QED BY <3>1, Remainder
  <2>2. w \in 0..MOD BY <2>1, Window DEF TypeOK
  <2>3. Count(w) \in 0..WIN BY <2>2, Counted
  <2> HIDE DEF q, w
  <2>4. new \in Jobs BY <2>1, <2>2, <2>3, <1>c DEF Jobs, NoJob, TypeOK
  <2>5. job' \in Jobs /\ main' \in {"idle", "shift", "store"}
    BY <1>1, <1>c, <2>4 DEF Arrives, Ends, q, w
  <2>6. timer' \in BOOLEAN /\ is_set' \in BOOLEAN
    BY <1>1 DEF Arrives, Ends, TypeOK
  <2>7. owned' \subseteq Payloads /\ seq' \in [Payloads -> Numbers]
    BY <1>1, <1>c DEF Arrives, TypeOK
  <2>8. late' \in 0..MAX_LATE BY <1>1 DEF Arrives, Comes, TypeOK
  <2>9. jumped' \in BOOLEAN /\ nodrop' \in BOOLEAN BY <1>1 DEF Arrives, TypeOK
  <2> QED BY <1>1, <2>5, <2>6, <2>7, <2>8, <2>9 DEF Arrives, TypeOK
<1>2. CASE ShiftTakes
  <2>1. PICK i \in job.i..(job.n - 1) :
          /\ slots[i] \in Payloads /\ slots' = Emptied(slots, job.i, i)
          /\ job' = [job EXCEPT !.i = i + 1, !.held = slots[i]]
          /\ HandsUp(slots[i])
    BY <1>2 DEF ShiftTakes
  <2>2. job' \in Jobs
    <3>1. job.i \in 0..WIN /\ job.n \in 0..WIN BY DEF TypeOK, Jobs
    <3>2. i + 1 \in 0..WIN BY <3>1
    <3> QED BY <2>1, <3>2 DEF Jobs, TypeOK
  <2>3. ahead' \subseteq Numbers BY <2>1, HandsUpType
  <2>4. slots' \in [Indices -> Payloads \cup {None, Dropped}]
    BY <2>1, EmptiedType DEF TypeOK
  <2> QED BY <1>2, <2>2, <2>3, <2>4 DEF ShiftTakes, TypeOK, timing
<1>3. CASE ShiftRotates
  <2>1. job.n \in 0..WIN /\ job.to \in 0..MOD BY DEF TypeOK, Jobs
  <2>2. slots' \in [Indices -> Payloads \cup {None, Dropped}]
    BY <1>3, <2>1, EmptiedType, RotatedType DEF ShiftRotates, TypeOK
  <2>3. start' \in 0..MOD /\ ahead' \subseteq Numbers
    BY <1>3, <2>1, SetStartType DEF ShiftRotates
  <2>4. job' \in Jobs
    <3>1. [job EXCEPT !.n = 0, !.i = 0] \in Jobs BY <1>c DEF TypeOK, Jobs
    <3> QED BY <1>3, <1>c, <3>1 DEF ShiftRotates
  <2>5. skewed' \in {"no", "packet", "addba"} BY <1>3 DEF ShiftRotates, Skews, TypeOK
  <2>6. main' \in {"idle", "free", "store"} BY <1>3 DEF ShiftRotates
  <2> QED BY <1>3, <2>2, <2>3, <2>4, <2>5, <2>6 DEF ShiftRotates, TypeOK, timing
<1>4. CASE Given
  BY <1>4, <1>c DEF Given, Frees, TypeOK, Jobs, table, timing, history
<1>5. CASE Stores
  <2>1. job' \in Jobs BY <1>5, <1>c DEF Stores, Ends, TypeOK, Jobs
  <2>2. slots' \in [Indices -> Payloads \cup {None, Dropped}]
    BY <1>5 DEF Stores, TypeOK, Jobs
  <2>3. /\ main' \in {"idle", "scan"} /\ timer' \in BOOLEAN /\ is_set' \in BOOLEAN
        /\ skewed' \in {"no", "packet", "addba"}
    BY <1>5 DEF Stores, Ends, Skews, TypeOK
  <2>4. owned' \subseteq Payloads /\ seq' \in [Payloads -> Numbers]
    BY <1>5, <1>c DEF Stores, Frees, TypeOK
  <2> QED BY <1>5, <2>1, <2>2, <2>3, <2>4 DEF Stores, TypeOK
<1>6. CASE ScanTakes
  <2>1. job.i \in Indices BY <1>6 DEF ScanTakes, TypeOK, Jobs, Indices
  <2>2. slots[job.i] \in Payloads \cup {Dropped} BY <1>6, <2>1 DEF ScanTakes, TypeOK
  <2>3. ahead' \subseteq Numbers BY <1>6, <2>2, HandsUpType DEF ScanTakes
  <2>4. job' \in Jobs
    <3>1. job.i + 1 \in 0..WIN BY <2>1 DEF Indices
    <3>2. (IF slots[job.i] = Dropped THEN None ELSE slots[job.i]) \in Payloads \cup {None}
      BY <2>2
    <3> QED BY <1>6, <3>1, <3>2 DEF ScanTakes, TypeOK, Jobs
  <2>5. main' \in {"scan", "scanGives"} BY <1>6 DEF ScanTakes
  <2>6. slots' \in [Indices -> Payloads \cup {None, Dropped}] BY <1>6 DEF ScanTakes, TypeOK
  <2> QED BY <1>6, <2>3, <2>4, <2>5, <2>6 DEF ScanTakes, TypeOK, timing
<1>7. CASE ScanRotates
  <2>1. job.i \in 0..WIN /\ start + job.i \in Int BY DEF TypeOK, Jobs
  <2>2. (start + job.i) % MOD \in 0..MOD BY <2>1, <1>c, Remainder
  <2>3. start' \in 0..MOD /\ ahead' \subseteq Numbers
    BY <1>7, <2>2, SetStartType DEF ScanRotates
  <2>4. slots' \in [Indices -> Payloads \cup {None, Dropped}]
    BY <1>7, <2>1, RotatedType DEF ScanRotates, TypeOK
  <2>5. /\ job' \in Jobs /\ main' = "idle" /\ timer' \in BOOLEAN /\ is_set' \in BOOLEAN
        /\ skewed' \in {"no", "packet", "addba"}
    BY <1>7, <1>c DEF ScanRotates, Ends, Skews, TypeOK
  <2> QED BY <1>7, <2>3, <2>4, <2>5 DEF ScanRotates, TypeOK
<1>8. CASE Create
  <2>1. slots' \in [Indices -> Payloads \cup {None, Dropped}] BY <1>8, EmptyType DEF Create
  <2>2. late' \in 0..MAX_LATE BY <1>8 DEF Create
  <2> QED BY <1>8, <2>1, <2>2 DEF Create, TypeOK
<1>9. ASSUME NEW kind \in {"addba", "delba"}, NEW w \in 0..MOD, MoveTo(kind, w)
      PROVE  /\ job' \in Jobs /\ main' = "shift"
             /\ UNCHANGED <<table, timing, flush, owned, seq, fault, ahead, skewed>>
  <2>1. Count(w) \in 0..WIN BY Counted
  <2> QED BY <1>9, <1>c, <2>1 DEF MoveTo, Jobs, NoJob
<1>10. CASE CreateAgain
  <2>1. PICK ssn \in Numbers : MoveTo("addba", ssn) BY <1>10 DEF CreateAgain
  <2>2. /\ job' \in Jobs /\ main' = "shift"
        /\ UNCHANGED <<table, timing, flush, owned, seq, fault, ahead, skewed>>
    BY <1>9, <1>c, <2>1
  <2>3. late' \in 0..MAX_LATE /\ jumped' \in BOOLEAN
    BY <1>10 DEF CreateAgain, Comes, TypeOK
  <2> QED BY <2>2, <2>3 DEF TypeOK, table, timing
<1>11. CASE Delete
  <2>1. start + WIN \in Int BY DEF TypeOK
  <2>2. (start + WIN) % MOD \in 0..MOD BY <2>1, <1>c, Remainder
  <2>3. /\ job' \in Jobs /\ main' = "shift"
        /\ UNCHANGED <<table, timing, flush, owned, seq, fault, ahead, skewed>>
    BY <1>9, <1>11, <2>2 DEF Delete
  <2> QED BY <1>11, <2>3 DEF Delete, TypeOK, table, timing
<1>12. CASE DeleteFrees
  <2>1. slots' \in [Indices -> Payloads \cup {None, Dropped}]
    BY <1>12, EmptyType DEF DeleteFrees
  <2>2. late' \in 0..MAX_LATE BY <1>12 DEF DeleteFrees
  <2>3. seq' \in [Payloads -> Numbers] BY <1>12, <1>c DEF DeleteFrees
  <2> QED BY <1>12, <1>c, <2>1, <2>2, <2>3 DEF DeleteFrees, TypeOK
<1>13. CASE SetNoDrop
  BY <1>13 DEF SetNoDrop, TypeOK, timing, history
<1>14. CASE TimerExpires
  BY <1>14 DEF TimerExpires, TypeOK, table, history
<1>15. CASE FlushBegins
  <2>1. WIN - 1 \in 0..WIN OBVIOUS
  <2>2. flush' \in Flushes BY <1>15, <1>c, <2>1 DEF FlushBegins, Flushes, NoFlush
  <2> QED BY <1>15, <2>2 DEF FlushBegins, TypeOK, table, history
<1>16. CASE FlushFinds
  <2>1. flush' \in Flushes BY <1>16, <1>c DEF FlushFinds, Flushes, TypeOK
  <2> QED BY <1>16, <2>1 DEF FlushFinds, TypeOK, table, timing, history
<1>17. CASE FlushAims
  <2>1. start + flush.i + 1 \in Int BY DEF TypeOK, Flushes
  <2>2. flush' \in Flushes
    BY <1>17, <1>c, <2>1, Remainder DEF FlushAims, Flushes, NoFlush
  <2> QED BY <1>17, <2>2 DEF FlushAims, TypeOK, table, timing, history
<1>18. CASE FlushCompares
  <2>1. flush' \in Flushes BY <1>18, <1>c DEF FlushCompares, Flushes, TypeOK
  <2>2. jumped' \in BOOLEAN BY <1>18 DEF FlushCompares, TypeOK
  <2> QED BY <1>18, <2>1, <2>2 DEF FlushCompares, TypeOK, table, timing
<1>19. CASE FlushBounds
  <2>1. flush' \in Flushes BY <1>19, <1>c DEF FlushBounds, Flushes, TypeOK
  <2> QED BY <1>19, <2>1 DEF FlushBounds, TypeOK, table, timing, history
<1>20. CASE FlushCounts
  <2>1. flush' \in Flushes BY <1>20 DEF FlushCounts, Flushes, TypeOK
  <2>2. fault' \in {"no", "freed", "outside"} BY <1>20 DEF FlushCounts, TypeOK
  <2> QED BY <1>20, <2>1, <2>2 DEF FlushCounts, TypeOK, table, timing, history
<1>21. CASE FlushTakes
  <2>1. flush.i + 1 \in 0..WIN BY <1>21 DEF FlushTakes, TypeOK, Flushes
  <2>2. flush' \in Flushes BY <1>21, <2>1 DEF FlushTakes, Flushes, TypeOK
  <2>3. ahead' \subseteq Numbers BY <1>21, HandsUpType DEF FlushTakes, TypeOK
  <2>4. slots' \in [Indices -> Payloads \cup {None, Dropped}] BY <1>21 DEF FlushTakes, TypeOK
  <2> QED BY <1>21, <2>2, <2>3, <2>4 DEF FlushTakes, TypeOK, timing
<1>22. CASE FlushGives
  <2>1. flush' \in Flushes BY <1>22 DEF FlushGives, Flushes, TypeOK
  <2> QED BY <1>22, <1>c, <2>1 DEF FlushGives, Frees, TypeOK, table, timing, history
<1>23. CASE FlushRotates
  <2>1. flush.n \in 0..WIN /\ flush.to \in 0..MOD BY <1>c DEF TypeOK, Flushes
  <2>2. slots' \in [Indices -> Payloads \cup {None, Dropped}]
    BY <1>23, <2>1, RotatedType DEF FlushRotates, TypeOK
  <2>3. start' \in 0..MOD /\ ahead' \subseteq Numbers
    BY <1>23, <2>1, SetStartType DEF FlushRotates
  <2> QED BY <1>23, <1>c, <2>2, <2>3 DEF FlushRotates, TypeOK, timing
<1>24. CASE UNCHANGED vars
  BY <1>24 DEF vars, table, timing, history, TypeOK
<1>25. CASE Receive BY <1>25, <1>1 DEF Receive
<1>26. CASE ReceiveBar BY <1>26, <1>1 DEF ReceiveBar
<1>27. CASE wlan_11n_rxba_sync_event BY <1>27, <1>1 DEF wlan_11n_rxba_sync_event
<1> QED
  BY <1>2, <1>3, <1>4, <1>5, <1>6, <1>7, <1>8, <1>10, <1>11, <1>12, <1>13, <1>14, <1>15,
     <1>16, <1>17, <1>18, <1>19, <1>20, <1>21, <1>22, <1>23, <1>24, <1>25, <1>26, <1>27
  DEF Next, Main, wlan_flush_data
-----------------------------------------------------------------------------
(* The invariant.                                                          *)

(* Payload x is one the driver has, and in none of the slots s.            *)
Outside(x, s, o) == x \in o /\ \A i \in Indices : s[i] # x

(* With slots s and payloads o, and p, h and f in the hands of the tasks,  *)
(* no payload is in two places.                                            *)
Apart(s, o, p, h, f) ==
  /\ \A i \in Indices : s[i] \in Payloads => s[i] \in o
  /\ \A i, j \in Indices : s[i] \in Payloads /\ s[i] = s[j] => i = j
  /\ p \in Payloads => Outside(p, s, o) /\ p # h /\ p # f
  /\ h \in Payloads => Outside(h, s, o) /\ h # f
  /\ f \in Payloads => Outside(f, s, o)

(* No payload is nowhere.                                                  *)
Kept(s, o, p, h, f) ==
  \A x \in o : x \in {p, h, f} \/ \E i \in Indices : s[i] = x

(* The slots below n hold no payload.                                      *)
Cleared(s, n) == \A k \in Indices : k < n => s[k] \notin Payloads

(* What is in the locals of the main work and of the flush, by where they  *)
(* are; and nothing goes on without a table.                               *)
Stages ==
  /\ main = "idle" => job = NoJob
  /\ main \notin Holds => job.held = None
  /\ job.p \in Payloads =>
       main \in {"shift", "shiftGives", "store"} /\ job.kind = "packet"
  /\ main \in {"shift", "shiftGives"} => job.n > 0
  /\ main = "store" => job.i = 0
  /\ flush.pc # "gives" => flush.held = None
  /\ ~live => main = "idle" /\ flush = NoFlush /\ ~timer /\ ~due /\ owned = {}

(* The payload of a packet on its way to its slot has one.                 *)
Aimed ==
  main \in {"shift", "shiftGives", "store"} =>
    \/ job.kind \in {"addba", "delba"} /\ main # "store"
    \/ Index(job.q, job.to) \in Indices

(* As long as no flush was overtaken, whoever will move the slots down has *)
(* emptied those that are moved out.                                       *)
Even ==
  skewed = "no" =>
    /\ Kept(slots, owned, job.p, job.held, flush.held)
    /\ Cleared(slots, job.i)
    /\ flush.pc \in {"bound", "count"} => flush.to > start
    /\ flush.pc \in {"take", "gives"} => flush.n > 0
    /\ Flushing => Cleared(slots, flush.i)

Inv ==
  /\ TypeOK /\ Stages /\ Aimed
  /\ Apart(slots, owned, job.p, job.held, flush.held)
  /\ Even

-----------------------------------------------------------------------------
(* What the operations on the slots keep.                                  *)

(* Slots that are only emptied.                                            *)
LEMMA ApartLess ==
  ASSUME NEW s, NEW t, NEW o, NEW p, NEW h, NEW f, Apart(s, o, p, h, f),
         p \in Payloads \cup {None, Dropped}, h \in Payloads \cup {None},
         f \in Payloads \cup {None},
         \A k \in Indices : t[k] \in {s[k], None}
  PROVE  Apart(t, o, p, h, f)
<1> USE WindowAssumption
<1>1. \A k \in Indices : t[k] \in Payloads => t[k] = s[k] OBVIOUS
<1>2. \A x \in Payloads : Outside(x, s, o) => Outside(x, t, o) BY <1>1 DEF Outside
<1> QED BY <1>1, <1>2 DEF Apart

(* Where the content of slot k was before the slots moved down by n.       *)
LEMMA RotatedFrom ==
  ASSUME NEW s, NEW n \in 0..WIN, NEW k \in Indices, Rotated(s, n)[k] # None
  PROVE  \/ k + n \in Indices /\ n > 0 /\ Rotated(s, n)[k] = s[k + n]
         \/ k < n /\ Rotated(s, n)[k] = s[k]
<1>1. k \in Int /\ n \in Int BY DEF Indices
<1>2. n > 0 /\ k + n < WIN => k + n \in Indices BY WindowAssumption DEF Indices
<1>3. Rotated(s, n)[k] = IF n > 0 /\ k + n < WIN THEN s[k + n]
                         ELSE IF k >= n THEN None ELSE s[k]
  BY DEF Rotated
<1> QED BY <1>1, <1>2, <1>3

LEMMA ApartRotated ==
  ASSUME NEW s, NEW n \in 0..WIN, NEW o, NEW p, NEW h, NEW f, Apart(s, o, p, h, f)
  PROVE  Apart(Rotated(s, n), o, p, h, f)
<1> DEFINE t == Rotated(s, n)
<1> USE WindowAssumption
<1>0. \A k \in Indices : k \in Int /\ k >= 0 BY DEF Indices
<1>1. ASSUME NEW k \in Indices, t[k] \in Payloads
      PROVE  \/ k + n \in Indices /\ t[k] = s[k + n]
             \/ k < n /\ t[k] = s[k]
  BY <1>1, RotatedFrom
<1> HIDE DEF t
<1>2. \A k \in Indices : t[k] \in Payloads => t[k] \in o BY <1>1 DEF Apart
<1>3. ASSUME NEW k \in Indices, NEW j \in Indices, t[k] \in Payloads, t[k] = t[j]
      PROVE  k = j
  <2>1. \A a, b \in Indices : s[a] = t[k] /\ s[b] = t[k] => a = b BY <1>3 DEF Apart
  <2>2. \/ k + n \in Indices /\ t[k] = s[k + n]
        \/ k < n /\ t[k] = s[k]
    BY <1>1, <1>3
  <2>3. \/ j + n \in Indices /\ t[k] = s[j + n]
        \/ j < n /\ t[k] = s[j]
    BY <1>1, <1>3
  <2> QED BY <1>0, <2>1, <2>2, <2>3
<1>4. \A x \in Payloads : Outside(x, s, o) => Outside(x, t, o) BY <1>1 DEF Outside
<1>5. Apart(t, o, p, h, f) BY <1>2, <1>3, <1>4 DEF Apart
<1> QED BY <1>5 DEF t

(* A move loses nothing when the slots it moves out are empty.             *)
LEMMA KeptRotated ==
  ASSUME NEW s, NEW n \in 1..WIN, NEW o \in SUBSET Payloads, NEW p, NEW h, NEW f,
         Kept(s, o, p, h, f), Cleared(s, n)
  PROVE  Kept(Rotated(s, n), o, p, h, f)
<1> SUFFICES ASSUME NEW x \in o, x \notin {p, h, f}
             PROVE  \E i \in Indices : Rotated(s, n)[i] = x
  BY DEF Kept
<1>1. PICK m \in Indices : s[m] = x BY DEF Kept
<1>2. m >= n /\ m \in Int /\ m < WIN BY <1>1, WindowAssumption DEF Cleared, Indices
<1>3. m - n \in Indices BY <1>2, WindowAssumption DEF Indices
<1>4. (m - n) + n = m /\ n > 0 BY <1>2
<1>5. Rotated(s, n)[m - n] = s[m] BY <1>2, <1>3, <1>4 DEF Rotated
<1> QED BY <1>1, <1>3, <1>5

LEMMA ClearedLess ==
  ASSUME NEW s, NEW t, NEW n, Cleared(s, n), \A k \in Indices : t[k] \in {s[k], None}
  PROVE  Cleared(t, n)
BY WindowAssumption DEF Cleared

(* The slots from i to j are emptied, and nothing is in them but slot j's. *)
LEMMA KeptEmptied ==
  ASSUME NEW s \in [Indices -> Payloads \cup {None, Dropped}],
         NEW o \in SUBSET Payloads, NEW p, NEW f, NEW i, NEW j \in Int,
         Kept(s, o, p, None, f), \A k \in Indices : k \in i..(j - 1) => s[k] \notin Payloads
  PROVE  Kept(Emptied(s, i, j), o, p, s[j], f)
<1> SUFFICES ASSUME NEW x \in o, x \notin {p, s[j], f}
             PROVE  \E k \in Indices : Emptied(s, i, j)[k] = x
  BY DEF Kept
<1>1. PICK m \in Indices : s[m] = x BY WindowAssumption DEF Kept
<1>2. m \notin i..j
  <2>1. m \in Int BY WindowAssumption DEF Indices
  <2>2. m \in i..j /\ m # j => m \in i..(j - 1) BY <2>1
  <2> QED BY <1>1, <2>2
<1> QED BY <1>1, <1>2 DEF Emptied

-----------------------------------------------------------------------------
(* What comes and goes.                                                    *)

(* A payload, a request or a dropped packet comes.                         *)
Arrival(kind, s, p) ==
  /\ kind \in {"packet", "bar"} /\ s \in Numbers
  /\ p \in (Payloads \ owned) \cup {None, Dropped}
  /\ kind = "bar" => p = None
  /\ Arrives(kind, s, p)

LEMMA ArrivalCases ==
  ASSUME Receive \/ ReceiveBar \/ wlan_11n_rxba_sync_event
  PROVE  \E kind, s, p : Arrival(kind, s, p)
BY DEF Receive, ReceiveBar, wlan_11n_rxba_sync_event, Arrival

LEMMA ArrivalEffect ==
  ASSUME Inv, NEW kind, NEW s, NEW p, Arrival(kind, s, p)
  PROVE  /\ main = "idle" /\ live
         /\ UNCHANGED <<live, start, slots, due, flush, skewed>>
         /\ \/ job' = NoJob /\ main' = "idle" /\ owned' = owned /\ seq' = seq
            \/ /\ main' \in {"shift", "store"}
               /\ job'.kind = kind /\ job'.p = p /\ job'.held = None
               /\ job'.i = 0 /\ job'.n > 0 /\ job'.n = Count(job'.to)
               /\ Index(job'.q, job'.to) \in Indices
               /\ main' = "store" => job'.to = start
               /\ kind = "packet" => job'.q = s
               /\ owned' = owned \cup ({p} \cap Payloads)
               /\ skewed = "no" => \A x \in Payloads :
                    seq'[x] = IF x = p THEN s ELSE seq[x]
<1> DEFINE q == IF kind = "bar" THEN (s + WIN - 1) % MOD ELSE s
           w == IF Beyond(q) THEN EndsWith(q) ELSE start
           new == [NoJob EXCEPT !.kind = kind, !.q = q, !.p = p, !.prev = start,
                                !.to = w, !.n = Count(w)]
<1>1. kind \in {"packet", "bar"} /\ s \in Numbers /\ Arrives(kind, s, p) BY DEF Arrival
<1>2. q \in Numbers
  <2>1. s + WIN - 1 \in Int BY <1>1, WindowAssumption DEF Numbers
  <2> QED BY <1>1, <2>1, Remainder
<1>3. w \in 0..MOD /\ Index(q, w) \in Indices BY <1>2, Window DEF Inv, TypeOK
<1>4. Count(w) > 0 BY <1>3, Counted DEF Inv
<1>5. /\ main = "idle" /\ live
      /\ UNCHANGED <<live, start, slots, due, flush, skewed>>
  BY <1>1 DEF Arrives
<1>6. \/ job' = NoJob /\ main' = "idle" /\ owned' = owned /\ seq' = seq
      \/ /\ job' = new /\ main' \in {"shift", "store"}
         /\ main' = "store" => w = start
         /\ owned' = owned \cup ({p} \cap Payloads)
         /\ skewed = "no" => \A x \in Payloads : seq'[x] = IF x = p THEN s ELSE seq[x]
  <2>1. CASE ~nodrop /\ Old(s) BY <1>1, <2>1 DEF Arrives, Ends
  <2>2. CASE ~(~nodrop /\ Old(s))
    <3>1. job' = new /\ main' \in {"shift", "store"} BY <1>1, <2>2 DEF Arrives
    <3>2. owned' = IF p \in Payloads THEN owned \cup {p} ELSE owned
      BY <1>1, <2>2 DEF Arrives
    <3>3. main' = "store" => w = start BY <1>1, <2>2 DEF Arrives
    <3>4. ASSUME skewed = "no", NEW x \in Payloads
          PROVE  seq'[x] = IF x = p THEN s ELSE seq[x]
      <4>1. seq \in [Payloads -> Numbers] BY DEF Inv, TypeOK
      <4>2. seq' = IF p \in Payloads THEN [seq EXCEPT ![p] = s] ELSE seq
        BY <1>1, <2>2, <3>4 DEF Arrives
      <4> QED BY <4>1, <4>2
    <3> QED BY <3>1, <3>2, <3>3, <3>4
  <2> QED BY <2>1, <2>2
<1>q. kind = "packet" => q = s OBVIOUS
<1> HIDE DEF q, w
<1>7. /\ new.kind = kind /\ new.p = p /\ new.held = None /\ new.i = 0
      /\ new.n = Count(w) /\ new.q = q /\ new.to = w
  BY DEF NoJob
<1> HIDE DEF new
<1> QED BY <1>3, <1>4, <1>5, <1>6, <1>7, <1>q

LEMMA MoveToEffect ==
  ASSUME Inv, CreateAgain \/ Delete
  PROVE  /\ main = "idle" /\ live /\ main' = "shift"
         /\ UNCHANGED <<live, start, slots, is_set, timer, due, flush, owned, seq, skewed>>
         /\ job'.kind \in {"addba", "delba"}
         /\ job'.p = None /\ job'.held = None /\ job'.i = 0 /\ job'.n > 0
         /\ job'.n = Count(job'.to)
<1>1. PICK kind \in {"addba", "delba"}, w \in 0..MOD : MoveTo(kind, w)
  <2>1. CASE CreateAgain
    <3>1. PICK ssn \in Numbers : MoveTo("addba", ssn) BY <2>1 DEF CreateAgain
    <3>2. ssn \in 0..MOD BY WindowAssumption DEF Numbers
    <3> QED BY <3>1, <3>2
  <2>2. CASE Delete
    <3>1. start + WIN \in Int BY WindowAssumption DEF Inv, TypeOK
    <3>2. (start + WIN) % MOD \in Numbers BY <3>1, Remainder
    <3>3. (start + WIN) % MOD \in 0..MOD BY <3>2, WindowAssumption DEF Numbers
    <3> QED BY <2>2, <3>3 DEF Delete
  <2> QED BY <2>1, <2>2
<1>2. Count(w) > 0 BY Counted DEF Inv
<1> QED BY <1>1, <1>2 DEF MoveTo, NoJob, table, timing

(* The flush looks at the slots and computes what to move.                 *)
FlushLooks ==
  FlushBegins \/ FlushFinds \/ FlushAims \/ FlushCompares \/ FlushBounds \/ FlushCounts

LEMMA FlushLooksForms ==
  ASSUME TypeOK, FlushLooks, flush.held = None
  PROVE  /\ flush'.held = None /\ flush'.pc # "gives"
         /\ Flushing' => flush'.i = 0 \/ (Flushing /\ flush'.i = flush.i)
         /\ flush'.pc \in {"bound", "count"} =>
              flush'.to > start
              \/ (flush.pc \in {"bound", "count"} /\ flush'.to = flush.to)
         /\ flush'.pc = "count" => flush'.to - start < WIN \/ flush = flush'
         /\ flush'.pc = "take" =>
              flush'.n = WIN
              \/ (flush.pc = "count" /\ flush'.n = flush.to - start /\ flush'.to = flush.to)
<1> USE WindowAssumption DEF Flushing
<1>0. flush \in Flushes BY DEF TypeOK
<1>1. CASE FlushBegins
  <2>1. flush'.held = None /\ flush'.pc = "find" BY <1>1 DEF FlushBegins, NoFlush
  <2> QED BY <2>1
<1>2. CASE FlushFinds
  <2>1. flush'.held = None /\ flush'.pc \in {"find", "aim", "idle"}
    BY <1>0, <1>2 DEF FlushFinds, NoFlush, Flushes
  <2> QED BY <2>1
<1>3. CASE FlushAims
  <2>1. flush'.held = None /\ flush'.pc = "compare" /\ flush'.i = 0
    BY <1>3 DEF FlushAims, NoFlush
  <2> QED BY <2>1
<1>4. CASE FlushCompares
  <2>1. flush'.held = None /\ flush'.i = flush.i /\ flush'.to = flush.to /\ Flushing
    BY <1>0, <1>4 DEF FlushCompares, Flushes
  <2>2. \/ flush'.pc = "bound" /\ flush.to > start
        \/ flush'.pc = "take" /\ flush'.n = WIN
    BY <1>0, <1>4 DEF FlushCompares, Flushes
  <2> QED BY <2>1, <2>2
<1>5. CASE FlushBounds
  <2>1. flush'.held = None /\ flush'.i = flush.i /\ flush'.to = flush.to /\ Flushing
    BY <1>0, <1>5 DEF FlushBounds, Flushes
  <2>2. \/ flush'.pc = "count" /\ flush.pc = "bound" /\ flush.to - start < WIN
        \/ flush'.pc = "take" /\ flush'.n = WIN
    BY <1>0, <1>5 DEF FlushBounds, Flushes
  <2> QED BY <2>1, <2>2
<1>6. CASE FlushCounts
  <2>1. flush'.held = None /\ flush'.i = flush.i /\ flush'.to = flush.to /\ Flushing
    BY <1>0, <1>6 DEF FlushCounts, Flushes
  <2>2. \/ flush'.pc = "count" /\ flush.pc = "count" /\ flush' = flush
        \/ flush'.pc = "take" /\ flush.pc = "count" /\ flush'.n = flush.to - start
    BY <1>0, <1>6 DEF FlushCounts, Flushes
  <2> QED BY <2>1, <2>2
<1> QED BY <1>1, <1>2, <1>3, <1>4, <1>5, <1>6 DEF FlushLooks

LEMMA FlushLooksEffect ==
  ASSUME Inv, FlushLooks
  PROVE  /\ UNCHANGED <<live, start, slots, timer, main, job, owned, skewed>>
         /\ live
         /\ flush.held = None /\ flush'.held = None
         /\ flush'.pc # "gives"
         /\ Even => Even'
<1>1. UNCHANGED <<live, start, slots, timer, main, job, owned, skewed>>
  BY DEF FlushLooks, FlushBegins, FlushFinds, FlushAims, FlushCompares, FlushBounds,
         FlushCounts, table, timing, history
<1>2. flush.pc # "gives" /\ (due \/ flush.pc # "idle")
  BY DEF FlushLooks, FlushBegins, FlushFinds, FlushAims, FlushCompares, FlushBounds,
         FlushCounts
<1>3. flush.held = None /\ live
  BY <1>2 DEF Inv, Stages, NoFlush
<1>4. /\ flush'.held = None /\ flush'.pc # "gives"
      /\ Flushing' => flush'.i = 0 \/ (Flushing /\ flush'.i = flush.i)
      /\ flush'.pc \in {"bound", "count"} =>
           flush'.to > start
           \/ (flush.pc \in {"bound", "count"} /\ flush'.to = flush.to)
      /\ flush'.pc = "take" =>
           flush'.n = WIN \/ (flush.pc = "count" /\ flush'.n = flush.to - start)
  BY <1>3, FlushLooksForms DEF Inv
<1>5. ASSUME Even, skewed' = "no" PROVE Even'
  <2>1. /\ Kept(slots, owned, job.p, job.held, flush.held) /\ Cleared(slots, job.i)
        /\ Flushing => Cleared(slots, flush.i)
        /\ flush.pc \in {"bound", "count"} => flush.to > start
    BY <1>1, <1>5 DEF Even
  <2>2. /\ Kept(slots, owned, job.p, job.held, flush.held)'
        /\ Cleared(slots, job.i)'
    BY <1>1, <1>3, <1>4, <2>1 DEF Kept, Cleared
  <2>3. Flushing' => Cleared(slots, flush.i)'
    <3>1. Cleared(slots, 0) BY WindowAssumption DEF Cleared, Indices
    <3> QED BY <1>1, <1>4, <2>1, <3>1 DEF Cleared
  <2>4. flush'.pc \in {"bound", "count"} => flush'.to > start'
    BY <1>1, <1>4, <2>1
  <2>5. flush'.pc \in {"take", "gives"} => flush'.n > 0
    <3>1. start \in Int /\ flush.to \in Int /\ WIN > 0
      BY WindowAssumption DEF Inv, TypeOK, Flushes, Numbers
    <3> QED BY <1>4, <2>1, <3>1
  <2> QED BY <2>2, <2>3, <2>4, <2>5 DEF Even
<1>6. Even => Even' BY <1>5 DEF Even
<1> QED BY <1>1, <1>3, <1>4, <1>6

-----------------------------------------------------------------------------
LEMMA StagesStep == Inv /\ [Next]_vars => Stages'
<1> SUFFICES ASSUME Inv, [Next]_vars PROVE Stages'
  OBVIOUS
<1> USE WindowAssumption DEF Holds
<1>t. TypeOK /\ Stages /\ job \in Jobs /\ flush \in Flushes BY DEF Inv, TypeOK
<1>n. /\ NoJob.p = None /\ NoJob.held = None /\ NoJob.n = 0 /\ NoJob.i = 0
      /\ NoFlush.pc = "idle" /\ NoFlush.held = None
  BY DEF NoJob, NoFlush
<1>1. ASSUME NEW kind, NEW s, NEW p, Arrival(kind, s, p) PROVE Stages'
  <2>1. p \in Payloads => kind = "packet" BY <1>1 DEF Arrival
  <2> QED BY <1>1, <1>t, <1>n, <2>1, ArrivalEffect DEF Stages
<1>2. CASE ShiftTakes
  <2>1. job' = [job EXCEPT !.i = job'.i, !.held = job'.held] /\ live
    BY <1>2, <1>t DEF ShiftTakes, Stages, Jobs
  <2>2. job'.p = job.p /\ job'.n = job.n /\ job'.kind = job.kind
    BY <2>1, <1>t DEF Jobs
  <2> QED BY <1>2, <1>t, <2>1, <2>2 DEF ShiftTakes, Stages
<1>3. CASE ShiftRotates
  <2>0. live BY <1>3, <1>t DEF ShiftRotates, Stages
  <2>1. CASE job.kind = "addba"
    <3>1. job' = NoJob /\ main' = "idle" BY <1>3, <2>1 DEF ShiftRotates
    <3> QED BY <1>3, <1>t, <1>n, <2>0, <3>1 DEF ShiftRotates, Stages
  <2>2. CASE job.kind # "addba"
    <3>1. job' = [job EXCEPT !.n = 0, !.i = 0] BY <1>3, <2>2 DEF ShiftRotates
    <3>2. /\ job'.p = job.p /\ job'.held = job.held /\ job'.kind = job.kind
          /\ job'.i = 0
      BY <3>1, <1>t DEF Jobs
    <3>3. main' = IF job.kind = "delba" THEN "free" ELSE "store"
      BY <1>3, <2>2 DEF ShiftRotates
    <3> QED BY <1>3, <1>t, <2>0, <3>2, <3>3 DEF ShiftRotates, Stages
  <2> QED BY <2>1, <2>2
<1>4. CASE Given
  <2>1. job'.held = None /\ job'.p = job.p /\ job'.n = job.n /\ job'.kind = job.kind
    BY <1>4, <1>t DEF Given, Jobs
  <2> QED BY <1>4, <1>t, <2>1 DEF Given, Stages, table, timing
<1>5. CASE Stores
  <2>1. live /\ job.held = None BY <1>5, <1>t DEF Stores, Stages
  <2>2. \/ main' = "idle" /\ job' = NoJob
        \/ main' = "scan" /\ job'.p = None /\ job'.held = None
    BY <1>5, <1>t, <2>1 DEF Stores, Ends, Jobs
  <2> QED BY <1>5, <1>t, <1>n, <2>1, <2>2 DEF Stores, Stages
<1>6. CASE ScanTakes
  <2>1. live /\ job.held = None /\ job.p \notin Payloads BY <1>6, <1>t DEF ScanTakes, Stages
  <2>2. job'.p = job.p BY <1>6, <1>t DEF ScanTakes, Jobs
  <2>3. job.i \in Indices BY <1>6, <1>t DEF ScanTakes, Jobs, Indices
  <2>4. slots[job.i] \in Payloads \cup {Dropped}
    BY <1>6, <1>t, <2>3 DEF ScanTakes, TypeOK
  <2>5. (main' = "scan" /\ job'.held = None) \/ main' = "scanGives"
    BY <1>6, <1>t, <2>4 DEF ScanTakes, Jobs
  <2> QED BY <1>6, <1>t, <2>1, <2>2, <2>5 DEF ScanTakes, Stages
<1>7. CASE ScanRotates
  <2>1. live BY <1>7, <1>t DEF ScanRotates, Stages
  <2>2. main' = "idle" /\ job' = NoJob BY <1>7 DEF ScanRotates, Ends
  <2> QED BY <1>7, <1>t, <1>n, <2>1, <2>2 DEF ScanRotates, Stages
<1>8. CASE Create
  BY <1>8, <1>t DEF Create, Stages
<1>9. CASE CreateAgain \/ Delete
  BY <1>9, <1>t, MoveToEffect DEF Stages
<1>10. CASE DeleteFrees
  BY <1>10, <1>n DEF DeleteFrees, Stages
<1>11. CASE SetNoDrop
  BY <1>11, <1>t DEF SetNoDrop, Stages, timing
<1>12. CASE TimerExpires
  <2>1. live BY <1>12, <1>t DEF TimerExpires, Stages
  <2> QED BY <1>12, <1>t, <2>1 DEF TimerExpires, Stages, table
<1>13. CASE FlushLooks
  BY <1>13, <1>t, FlushLooksEffect DEF Stages
<1>14. CASE FlushTakes
  <2>1. live /\ flush.held = None BY <1>14, <1>t, <1>n DEF FlushTakes, Stages
  <2>2. flush'.pc = "gives" \/ flush'.held = None BY <1>14, <1>t, <2>1 DEF FlushTakes, Flushes
  <2> QED BY <1>14, <1>t, <2>1, <2>2 DEF FlushTakes, Stages, timing
<1>15. CASE FlushGives
  <2>1. live BY <1>15, <1>t, <1>n DEF FlushGives, Stages
  <2>2. flush'.held = None BY <1>15, <1>t DEF FlushGives, Flushes
  <2> QED BY <1>15, <1>t, <2>1, <2>2 DEF FlushGives, Stages, table, timing
<1>16. CASE FlushRotates
  <2>1. live BY <1>16, <1>t, <1>n DEF FlushRotates, Stages
  <2> QED BY <1>16, <1>t, <1>n, <2>1 DEF FlushRotates, Stages, timing
<1>17. CASE UNCHANGED vars
  BY <1>17, <1>t DEF vars, table, timing, history, Stages
<1>18. CASE Receive \/ ReceiveBar \/ wlan_11n_rxba_sync_event
  BY <1>1, <1>18, ArrivalCases
<1> QED
  BY <1>2, <1>3, <1>4, <1>5, <1>6, <1>7, <1>8, <1>9, <1>10, <1>11, <1>12, <1>13, <1>14,
     <1>15, <1>16, <1>17, <1>18
  DEF Next, Main, wlan_flush_data, FlushLooks

LEMMA AimedStep == Inv /\ [Next]_vars => Aimed'
<1> SUFFICES ASSUME Inv, [Next]_vars, main' \in {"shift", "shiftGives", "store"}
             PROVE  \/ job'.kind \in {"addba", "delba"} /\ main' # "store"
                    \/ Index(job'.q, job'.to) \in Indices
  BY DEF Aimed, Index, Indices
<1>t. Aimed /\ job \in Jobs BY DEF Inv, TypeOK
<1>1. ASSUME NEW kind, NEW s, NEW p, Arrival(kind, s, p)
      PROVE  Index(job'.q, job'.to) \in Indices
  BY <1>1, ArrivalEffect
<1>2. CASE ShiftTakes
  <2>1. job'.q = job.q /\ job'.to = job.to /\ job'.kind = job.kind
    BY <1>2, <1>t DEF ShiftTakes, Jobs
  <2> QED BY <1>2, <1>t, <2>1 DEF ShiftTakes, Aimed
<1>3. CASE ShiftRotates
  <2>1. job.kind \notin {"addba", "delba"} BY <1>3 DEF ShiftRotates
  <2>2. job'.q = job.q /\ job'.to = job.to BY <1>3, <1>t, <2>1 DEF ShiftRotates, Jobs
  <2> QED BY <1>3, <1>t, <2>1, <2>2 DEF ShiftRotates, Aimed
<1>4. CASE Given
  <2>1. job'.q = job.q /\ job'.to = job.to /\ job'.kind = job.kind
    BY <1>4, <1>t DEF Given, Jobs
  <2> QED BY <1>4, <1>t, <2>1 DEF Given, Aimed, Holds
<1>5. CASE CreateAgain \/ Delete
  BY <1>5, MoveToEffect
<1>6. CASE Stores \/ ScanTakes \/ ScanRotates \/ DeleteFrees
  BY <1>6 DEF Stores, ScanTakes, ScanRotates, DeleteFrees, Ends
<1>7. CASE FlushLooks
  BY <1>7, <1>t, FlushLooksEffect DEF Aimed
<1>8. CASE UNCHANGED <<main, job>>
  BY <1>8, <1>t DEF Aimed
<1>9. CASE Create \/ SetNoDrop \/ TimerExpires \/ FlushTakes \/ FlushGives \/ FlushRotates
  BY <1>8, <1>9 DEF Create, SetNoDrop, TimerExpires, FlushTakes, FlushGives, FlushRotates
<1>10. CASE UNCHANGED vars
  BY <1>8, <1>10 DEF vars
<1>11. CASE Receive \/ ReceiveBar \/ wlan_11n_rxba_sync_event
  BY <1>1, <1>11, ArrivalCases
<1> QED
  BY <1>2, <1>3, <1>4, <1>5, <1>6, <1>7, <1>9, <1>10, <1>11
  DEF Next, Main, wlan_flush_data, FlushLooks

LEMMA ApartStep ==
  Inv /\ [Next]_vars => Apart(slots, owned, job.p, job.held, flush.held)'
<1> DEFINE A == Apart(slots, owned, job.p, job.held, flush.held)
<1> SUFFICES ASSUME Inv, [Next]_vars PROVE A'
  OBVIOUS
<1> USE WindowAssumption
<1>t. TypeOK /\ Stages /\ A /\ job \in Jobs /\ flush \in Flushes BY DEF Inv, TypeOK
<1>h. /\ job.p \in Payloads \cup {None, Dropped} /\ job.held \in Payloads \cup {None}
      /\ flush.held \in Payloads \cup {None} /\ job.n \in 0..WIN /\ job.i \in 0..WIN
      /\ flush.n \in 0..WIN /\ flush.i \in 0..WIN
      /\ slots \in [Indices -> Payloads \cup {None, Dropped}]
  BY <1>t DEF Jobs, Flushes, TypeOK
<1>n. /\ NoJob.p = None /\ NoJob.held = None /\ NoFlush.held = None
  BY DEF NoJob, NoFlush
<1>1. ASSUME NEW kind, NEW s, NEW p, Arrival(kind, s, p) PROVE A'
  <2>1. p \in (Payloads \ owned) \cup {None, Dropped} BY <1>1 DEF Arrival
  <2>2. CASE job' = NoJob /\ owned' = owned
    BY <1>1, <1>t, <1>n, <2>2, ArrivalEffect DEF Apart, Outside
  <2>3. CASE job'.p = p /\ job'.held = None /\ owned' = owned \cup ({p} \cap Payloads)
    <3>1. slots' = slots /\ flush' = flush BY <1>1, ArrivalEffect
    <3>2. p \in Payloads => \A i \in Indices : slots[i] # p
      BY <1>t, <2>1 DEF Apart
    <3>3. p \in Payloads => p # flush.held
      BY <1>t, <2>1 DEF Apart, Outside
    <3> QED BY <1>t, <2>1, <2>3, <3>1, <3>2, <3>3 DEF Apart, Outside
  <2> QED BY <1>1, <2>2, <2>3, ArrivalEffect
<1>2. CASE ShiftTakes
  <2>1. PICK i \in job.i..(job.n - 1) :
          /\ slots[i] \in Payloads /\ slots' = Emptied(slots, job.i, i)
          /\ job' = [job EXCEPT !.i = i + 1, !.held = slots[i]]
    BY <1>2 DEF ShiftTakes
  <2>2. i \in Indices /\ i \in job.i..i BY <1>h, <2>1 DEF Indices
  <2>3. job'.p = job.p /\ job'.held = slots[i] BY <1>t, <2>1 DEF Jobs
  <2>4. flush' = flush /\ owned' = owned BY <1>2 DEF ShiftTakes
  <2>5. \A k \in Indices : slots'[k] \in {slots[k], None} BY <2>1 DEF Emptied
  <2>6. slots'[i] = None BY <2>1, <2>2 DEF Emptied
  <2>7. Apart(slots', owned, job.p, None, flush.held)
    <3>1. Apart(slots, owned, job.p, None, flush.held) BY <1>t DEF Apart
    <3> QED BY <1>h, <2>5, <3>1, ApartLess
  <2>8. Outside(slots[i], slots', owned)
    <3>1. slots[i] \in owned BY <1>t, <2>1, <2>2 DEF Apart
    <3>2. ASSUME NEW k \in Indices, slots'[k] = slots[i] PROVE FALSE
      <4>1. slots[k] = slots[i] BY <2>1, <2>5, <3>2
      <4>2. k = i BY <1>t, <2>1, <2>2, <4>1 DEF Apart
      <4> QED BY <2>1, <2>6, <3>2, <4>2
    <3> QED BY <3>1, <3>2 DEF Outside
  <2>9. slots[i] # job.p /\ slots[i] # flush.held
    BY <1>t, <2>1, <2>2 DEF Apart, Outside
  <2> HIDE DEF A
  <2>10. Apart(slots', owned, job.p, slots[i], flush.held)
    BY <2>7, <2>8, <2>9 DEF Apart
  <2> QED BY <2>3, <2>4, <2>10 DEF A
<1>3. CASE ShiftRotates
  <2>1. slots' = Rotated(Emptied(slots, job.i, job.n - 1), job.n) BY <1>3 DEF ShiftRotates
  <2>2. Apart(Emptied(slots, job.i, job.n - 1), owned, job.p, job.held, flush.held)
    <3>1. \A k \in Indices : Emptied(slots, job.i, job.n - 1)[k] \in {slots[k], None}
      BY DEF Emptied
    <3> QED BY <1>h, <1>t, <3>1, ApartLess
  <2>3. Apart(slots', owned, job.p, job.held, flush.held)
    BY <1>h, <2>1, <2>2, ApartRotated
  <2>4. flush' = flush /\ owned' = owned BY <1>3 DEF ShiftRotates
  <2>5. \/ job'.p = None /\ job'.held = None
        \/ job'.p = job.p /\ job'.held = job.held
    BY <1>3, <1>t, <1>n DEF ShiftRotates, Jobs
  <2> QED BY <2>3, <2>4, <2>5 DEF Apart
<1>4. CASE Given
  <2>1. job'.p = job.p /\ job'.held = None BY <1>4, <1>t DEF Given, Jobs
  <2>2. slots' = slots /\ flush' = flush /\ owned' = owned \ {job.held}
    BY <1>4 DEF Given, Frees, table
  <2>3. ASSUME job.held \in Payloads
        PROVE  /\ \A i \in Indices : slots[i] # job.held
               /\ job.p # job.held /\ flush.held # job.held
    BY <1>t, <2>3 DEF Apart, Outside
  <2>4. CASE job.held \in Payloads BY <1>t, <2>1, <2>2, <2>3, <2>4 DEF Apart, Outside
  <2>5. CASE job.held = None BY <1>t, <2>1, <2>2, <2>5 DEF Apart, Outside
  <2> QED BY <1>h, <2>4, <2>5
<1>5. CASE Stores
  <2>i. Index(job.q, job.to) \in Indices \/ job.kind \in {"addba", "delba"}
    BY <1>5 DEF Inv, Aimed, Stores
  <2>f. flush' = flush /\ job.held = None BY <1>5, <1>t DEF Stores, Stages, Holds
  <2>k. main = "store" BY <1>5 DEF Stores
  <2>1. CASE UNCHANGED <<slots, owned>>
    <3>1. job'.p = None /\ job'.held = None
      BY <1>5, <1>t, <1>n, <2>f DEF Stores, Ends, Jobs
    <3> QED BY <1>t, <2>1, <2>f, <3>1 DEF Apart, Outside
  <2>2. CASE Frees(job.p) /\ slots' = slots /\ job' = NoJob
    <3>1. owned' = owned \ {job.p} BY <2>2 DEF Frees
    <3>2. job.p \in Payloads => /\ \A i \in Indices : slots[i] # job.p
                                /\ flush.held # job.p
      BY <1>t DEF Apart, Outside
    <3>3. CASE job.p \in Payloads BY <1>t, <1>n, <2>2, <2>f, <3>1, <3>2, <3>3 DEF Apart, Outside
    <3>4. CASE job.p \notin Payloads
      <4>1. \A x \in Payloads : x \in owned => x \in owned' BY <3>1, <3>4
      <4> QED BY <1>t, <1>n, <2>2, <2>f, <4>1 DEF Apart, Outside
    <3> QED BY <3>3, <3>4
  <2>3. CASE /\ slots' = [slots EXCEPT ![Index(job.q, job.to)] = job.p]
             /\ owned' = owned /\ job'.p = None /\ job'.held = None
    <3> DEFINE j == Index(job.q, job.to)
    <3> HIDE DEF j
    <3>0. slots' = [slots EXCEPT ![j] = job.p] BY <2>3 DEF j
    <3>1. \A k \in Indices : slots'[k] = IF k = j THEN job.p ELSE slots[k]
      BY <1>h, <3>0
    <3>2. job.p \in Payloads => /\ \A i \in Indices : slots[i] # job.p
                                /\ flush.held # job.p /\ job.p \in owned
      BY <1>t DEF Apart, Outside
    <3>3. flush.held \in Payloads => Outside(flush.held, slots', owned)
      BY <1>t, <3>1, <3>2 DEF Apart, Outside
    <3>4. \A i \in Indices : slots'[i] \in Payloads => slots'[i] \in owned
      BY <1>t, <3>1, <3>2 DEF Apart
    <3>5. ASSUME NEW a \in Indices, NEW b \in Indices, slots'[a] \in Payloads,
                 slots'[a] = slots'[b]
          PROVE  a = b
      BY <1>t, <3>1, <3>2, <3>5 DEF Apart
    <3> QED BY <2>3, <2>f, <3>3, <3>4, <3>5 DEF Apart
  <2>4. \/ UNCHANGED <<slots, owned>>
        \/ Frees(job.p) /\ slots' = slots /\ job' = NoJob
        \/ /\ slots' = [slots EXCEPT ![Index(job.q, job.to)] = job.p]
           /\ owned' = owned /\ job'.p = None /\ job'.held = None
    BY <1>5, <1>t, <2>f DEF Stores, Ends, Jobs
  <2> QED BY <2>1, <2>2, <2>3, <2>4
<1>6. CASE ScanTakes
  <2>1. job.i \in Indices BY <1>6, <1>h DEF ScanTakes, Indices
  <2>2. job'.p = job.p /\ job'.held \in {None, slots[job.i]} /\ job'.held # Dropped
    BY <1>6, <1>t, <1>h, <2>1 DEF ScanTakes, Jobs
  <2>3. flush' = flush /\ owned' = owned BY <1>6 DEF ScanTakes
  <2>4. \A k \in Indices : slots'[k] = IF k = job.i THEN None ELSE slots[k]
    BY <1>6, <1>h DEF ScanTakes
  <2>5. Apart(slots', owned, job.p, None, flush.held)
    <3>1. Apart(slots, owned, job.p, None, flush.held) BY <1>t DEF Apart
    <3> QED BY <1>h, <2>4, <3>1, ApartLess
  <2>6. slots[job.i] \in Payloads =>
          /\ Outside(slots[job.i], slots', owned)
          /\ slots[job.i] # job.p /\ slots[job.i] # flush.held
    BY <1>t, <2>1, <2>4 DEF Apart, Outside
  <2>7. job'.held \in Payloads => job'.held = slots[job.i] BY <2>2
  <2> HIDE DEF A
  <2>8. Apart(slots', owned, job.p, job'.held, flush.held)
    <3>1. CASE job'.held \in Payloads BY <2>5, <2>6, <2>7, <3>1 DEF Apart
    <3>2. CASE job'.held \notin Payloads
      <4>1. job'.held = None BY <1>h, <2>1, <2>2, <3>2
      <4> QED BY <2>5, <4>1
    <3> QED BY <3>1, <3>2
  <2> QED BY <2>2, <2>3, <2>8 DEF A
<1>7. CASE ScanRotates
  <2>1. Apart(slots', owned, job.p, job.held, flush.held)
    BY <1>7, <1>h, <1>t, ApartRotated DEF ScanRotates
  <2>2. flush' = flush /\ owned' = owned /\ job' = NoJob BY <1>7 DEF ScanRotates, Ends
  <2> QED BY <1>n, <2>1, <2>2 DEF Apart
<1>8. CASE Create \/ DeleteFrees
  <2>1. /\ slots' = Empty /\ job'.p = None /\ job'.held = None /\ flush'.held = None
    BY <1>8, <1>t, <1>n DEF Create, DeleteFrees, Stages
  <2> QED BY <2>1 DEF Apart, Empty
<1>9. CASE CreateAgain \/ Delete
  BY <1>9, <1>t, MoveToEffect DEF Apart
<1>10. CASE UNCHANGED <<slots, owned, job, flush>>
  BY <1>10, <1>t DEF Apart, Outside
<1>11. CASE SetNoDrop \/ TimerExpires \/ UNCHANGED vars
  BY <1>10, <1>11 DEF SetNoDrop, TimerExpires, table, vars
<1>12. CASE FlushLooks
  BY <1>12, <1>t, FlushLooksEffect DEF Apart, Outside
<1>13. CASE FlushTakes
  <2>1. flush.i \in Indices BY <1>13, <1>h DEF FlushTakes, Indices
  <2>2. flush.held = None BY <1>13, <1>t DEF FlushTakes, Stages
  <2>3. \/ flush'.held = None /\ slots[flush.i] \notin Payloads
        \/ flush'.held = slots[flush.i] /\ slots[flush.i] \in Payloads
    BY <1>13, <1>t, <2>2 DEF FlushTakes, Flushes
  <2>4. job' = job /\ owned' = owned BY <1>13 DEF FlushTakes
  <2>5. \A k \in Indices : slots'[k] = IF k = flush.i THEN None ELSE slots[k]
    BY <1>13, <1>h DEF FlushTakes
  <2>6. Apart(slots', owned, job.p, job.held, None)
    BY <1>h, <1>t, <2>2, <2>5, ApartLess
  <2>7. slots[flush.i] \in Payloads =>
          /\ Outside(slots[flush.i], slots', owned)
          /\ slots[flush.i] # job.p /\ slots[flush.i] # job.held
    BY <1>t, <2>1, <2>5 DEF Apart, Outside
  <2> HIDE DEF A
  <2>8. Apart(slots', owned, job.p, job.held, flush'.held)
    BY <2>3, <2>6, <2>7 DEF Apart
  <2> QED BY <2>4, <2>8 DEF A
<1>14. CASE FlushGives
  <2>1. flush'.held = None BY <1>14, <1>t DEF FlushGives, Flushes
  <2>2. slots' = slots /\ job' = job /\ owned' = owned \ {flush.held}
    BY <1>14 DEF FlushGives, Frees, table
  <2>3. ASSUME flush.held \in Payloads
        PROVE  /\ \A i \in Indices : slots[i] # flush.held
               /\ job.p # flush.held /\ job.held # flush.held
    BY <1>t, <2>3 DEF Apart, Outside
  <2>4. CASE flush.held \in Payloads BY <1>t, <2>1, <2>2, <2>3, <2>4 DEF Apart, Outside
  <2>5. CASE flush.held = None BY <1>t, <2>1, <2>2, <2>5 DEF Apart, Outside
  <2> QED BY <1>h, <2>4, <2>5
<1>15. CASE FlushRotates
  <2>1. Apart(slots', owned, job.p, job.held, flush.held)
    BY <1>15, <1>h, <1>t, ApartRotated DEF FlushRotates
  <2>2. flush'.held = None /\ owned' = owned /\ job' = job
    BY <1>15, <1>n DEF FlushRotates
  <2> QED BY <2>1, <2>2 DEF Apart
<1>16. CASE Receive \/ ReceiveBar \/ wlan_11n_rxba_sync_event
  BY <1>1, <1>16, ArrivalCases
<1> QED
  BY <1>2, <1>3, <1>4, <1>5, <1>6, <1>7, <1>8, <1>9, <1>11, <1>12, <1>13, <1>14,
     <1>15, <1>16
  DEF Next, Main, wlan_flush_data, FlushLooks

LEMMA EvenStep == Inv /\ [Next]_vars => Even'
<1> SUFFICES ASSUME Inv, [Next]_vars, skewed' = "no" PROVE Even'
  BY DEF Even
<1> USE WindowAssumption
<1>t. TypeOK /\ Stages /\ job \in Jobs /\ flush \in Flushes BY DEF Inv, TypeOK
<1>h. /\ job.p \in Payloads \cup {None, Dropped} /\ job.held \in Payloads \cup {None}
      /\ flush.held \in Payloads \cup {None} /\ job.n \in 0..WIN /\ job.i \in 0..WIN
      /\ flush.n \in 0..WIN /\ flush.i \in 0..WIN /\ flush.to \in Numbers
      /\ start \in 0..MOD /\ owned \in SUBSET Payloads
      /\ slots \in [Indices -> Payloads \cup {None, Dropped}]
  BY <1>t DEF Jobs, Flushes, TypeOK
<1>n. /\ NoJob.p = None /\ NoJob.held = None /\ NoFlush.held = None /\ NoJob.i = 0
      /\ NoFlush.pc = "idle"
  BY DEF NoJob, NoFlush
<1>z. \A s : Cleared(s, 0) BY DEF Cleared, Indices
<1>e. ASSUME skewed = "no"
      PROVE  /\ Kept(slots, owned, job.p, job.held, flush.held)
             /\ Cleared(slots, job.i)
             /\ flush.pc \in {"bound", "count"} => flush.to > start
             /\ flush.pc \in {"take", "gives"} => flush.n > 0
             /\ Flushing => Cleared(slots, flush.i)
  BY <1>e DEF Inv, Even
<1>s. ASSUME NEW who \in {"packet", "addba"}, Skews(who)
      PROVE  skewed = "no" /\ ~Flushing
  BY <1>s DEF Skews
<1>1. ASSUME NEW kind, NEW s, NEW p, Arrival(kind, s, p) PROVE Even'
  <2>1. /\ UNCHANGED <<start, slots, flush, skewed>> /\ job = NoJob
    BY <1>1, <1>t, ArrivalEffect DEF Stages
  <2>2. /\ job'.i = 0 /\ job'.held = None
        /\ owned' \subseteq owned \cup ({job'.p} \cap Payloads)
    BY <1>1, <1>n, ArrivalEffect
  <2>3. Kept(slots, owned, job.p, job.held, flush.held)' BY <1>e, <1>n, <2>1, <2>2 DEF Kept
  <2> QED BY <1>e, <1>z, <2>1, <2>2, <2>3 DEF Even, Flushing, Cleared
<1>2. CASE ShiftTakes
  <2>1. PICK i \in job.i..(job.n - 1) :
          /\ slots[i] \in Payloads /\ slots' = Emptied(slots, job.i, i)
          /\ \A k \in job.i..(i - 1) : slots[k] \notin Payloads
          /\ job' = [job EXCEPT !.i = i + 1, !.held = slots[i]]
    BY <1>2 DEF ShiftTakes
  <2>2. job'.p = job.p /\ job'.held = slots[i] /\ job'.i = i + 1 BY <1>t, <2>1 DEF Jobs
  <2>3. /\ UNCHANGED <<start, flush, owned, skewed>> /\ job.held = None
    BY <1>2, <1>t DEF ShiftTakes, Stages, Holds
  <2>4. i \in Int BY <1>h
  <2>5. Kept(slots', owned, job.p, slots[i], flush.held)
    BY <1>e, <1>h, <2>1, <2>3, <2>4, KeptEmptied
  <2>6. \A k \in Indices : slots'[k] \in {slots[k], None} BY <2>1 DEF Emptied
  <2>7. Cleared(slots', i + 1)
    <3>1. \A k \in Indices : k < i + 1 => k < job.i \/ k \in job.i..i BY <1>h, <2>4 DEF Indices
    <3>2. \A k \in Indices : k \in job.i..i => slots'[k] = None BY <2>1 DEF Emptied
    <3>3. Cleared(slots', job.i) BY <1>e, <2>3, <2>6, ClearedLess
    <3> QED BY <3>1, <3>2, <3>3 DEF Cleared
  <2>8. Flushing => Cleared(slots', flush.i) BY <1>e, <2>3, <2>6, ClearedLess
  <2> QED BY <1>e, <2>2, <2>3, <2>5, <2>7, <2>8 DEF Even, Flushing, Kept, Cleared
<1>3. CASE ShiftRotates
  <2> DEFINE s == Emptied(slots, job.i, job.n - 1)
  <2>1. skewed = "no" /\ ~Flushing BY <1>3, <1>s DEF ShiftRotates
  <2>2. job.n > 0 /\ job.held = None BY <1>3, <1>t DEF ShiftRotates, Stages, Holds
  <2>3. \A k \in Indices : k \in job.i..(job.n - 1) => slots[k] \notin Payloads
    BY <1>3 DEF ShiftRotates
  <2>4. Kept(s, owned, job.p, None, flush.held)
    <3>1. \A k \in Indices : slots[k] \in Payloads => s[k] = slots[k] BY <2>3 DEF Emptied
    <3>2. Kept(slots, owned, job.p, None, flush.held) BY <1>e, <2>1, <2>2
    <3> HIDE DEF s
    <3>3. \A x \in owned : x \in Payloads BY <1>h
    <3> QED BY <3>1, <3>2, <3>3 DEF Kept
  <2>5. Cleared(s, job.n)
    <3>1. \A k \in Indices : k < job.n => k < job.i \/ k \in job.i..(job.n - 1)
      BY <1>h DEF Indices
    <3>2. \A k \in Indices : s[k] = IF k \in job.i..(job.n - 1) THEN None ELSE slots[k]
      BY DEF Emptied
    <3>3. Cleared(slots, job.i) BY <1>e, <2>1
    <3> HIDE DEF s
    <3> QED BY <3>1, <3>2, <3>3 DEF Cleared
  <2>6. slots' = Rotated(s, job.n) /\ UNCHANGED <<flush, owned>> BY <1>3 DEF ShiftRotates
  <2>7. Kept(slots', owned, job.p, None, flush.held)
    <3>1. job.n \in 1..WIN BY <1>h, <2>2
    <3> HIDE DEF s
    <3> QED BY <1>h, <2>4, <2>5, <2>6, <3>1, KeptRotated
  <2>8. job'.held = None /\ job'.i = 0 /\ (job'.p = job.p \/ job.p \notin Payloads)
    <3>1. CASE job.kind = "addba"
      <4>1. job' = NoJob BY <1>3, <3>1 DEF ShiftRotates
      <4>2. job.p \notin Payloads BY <1>t, <3>1 DEF Stages
      <4> QED BY <1>n, <4>1, <4>2
    <3>2. CASE job.kind # "addba"
      <4>1. job' = [job EXCEPT !.n = 0, !.i = 0] BY <1>3, <3>2 DEF ShiftRotates
      <4> QED BY <1>t, <2>2, <4>1 DEF Jobs
    <3> QED BY <3>1, <3>2
  <2>9. Kept(slots, owned, job.p, job.held, flush.held)'
    <3>1. \A x \in owned : x \in Payloads BY <1>h
    <3> QED BY <2>6, <2>7, <2>8, <3>1 DEF Kept
  <2> QED BY <1>z, <2>1, <2>6, <2>8, <2>9 DEF Even, Flushing
<1>4. CASE Given
  <2>1. job'.p = job.p /\ job'.held = None /\ job'.i = job.i BY <1>4, <1>t DEF Given, Jobs
  <2>2. UNCHANGED <<start, slots, flush, skewed>> /\ owned' = owned \ {job.held}
    BY <1>4 DEF Given, Frees, table, history
  <2>3. Kept(slots, owned, job.p, job.held, flush.held)' BY <1>e, <2>1, <2>2 DEF Kept
  <2> QED BY <1>e, <2>1, <2>2, <2>3 DEF Even, Flushing, Cleared
<1>5. CASE Stores
  <2>1. /\ UNCHANGED <<start, flush>> /\ job.held = None /\ job.i = 0 /\ skewed = "no"
    BY <1>5, <1>t, <1>s DEF Stores, Stages, Holds
  <2>2. job'.held = None /\ job'.i = 0 /\ job'.p = None
    BY <1>5, <1>t, <1>n, <2>1 DEF Stores, Ends, Jobs
  <2>3. CASE job.kind = "bar"
    <3>1. UNCHANGED <<slots, owned>> BY <1>5, <2>3 DEF Stores
    <3>2. job.p \notin Payloads BY <1>t, <2>3 DEF Stages
    <3>3. \A x \in owned : x \in Payloads BY <1>h
    <3>4. Kept(slots, owned, job.p, job.held, flush.held)'
      BY <1>e, <2>1, <2>2, <3>1, <3>2, <3>3 DEF Kept
    <3> QED BY <1>e, <1>z, <2>1, <2>2, <3>1, <3>4 DEF Even, Flushing, Cleared
  <2> DEFINE j == Index(job.q, job.to)
  <2> HIDE DEF j
  <2>4. CASE job.kind # "bar" /\ slots[j] # None
    <3>1. slots' = slots /\ owned' = owned \ {job.p} BY <1>5, <2>4 DEF Stores, Frees, j
    <3>2. Kept(slots, owned, job.p, job.held, flush.held)'
      BY <1>e, <2>1, <2>2, <3>1 DEF Kept
    <3> QED BY <1>e, <1>z, <2>1, <2>2, <3>1, <3>2 DEF Even, Flushing, Cleared
  <2>5. CASE job.kind # "bar" /\ slots[j] = None
    <3>1. /\ slots' = [slots EXCEPT ![j] = job.p] /\ owned' = owned /\ Skews("packet")
      BY <1>5, <2>5 DEF Stores, j
    <3>2. ~Flushing BY <1>s, <3>1
    <3>3. j \in Indices
      BY <1>5, <1>t, <2>5 DEF Inv, Aimed, Stores, Stages, j
    <3>4. \A k \in Indices : slots'[k] = IF k = j THEN job.p ELSE slots[k]
      BY <1>h, <3>1
    <3>5. ASSUME NEW x \in owned PROVE x = flush.held \/ \E i \in Indices : slots'[i] = x
      <4>1. x \in Payloads BY <1>h
      <4>2. x = job.p \/ x = flush.held \/ \E i \in Indices : slots[i] = x
        BY <1>e, <2>1, <4>1 DEF Kept
      <4>3. ASSUME NEW i \in Indices, slots[i] = x PROVE slots'[i] = x
        BY <2>5, <3>4, <4>1, <4>3
      <4> QED BY <3>3, <3>4, <4>2, <4>3
    <3>6. Kept(slots, owned, job.p, job.held, flush.held)'
      BY <2>1, <3>1, <3>5 DEF Kept
    <3> QED BY <1>z, <2>1, <2>2, <3>2, <3>6 DEF Even, Flushing
  <2> QED BY <2>3, <2>4, <2>5
<1>6. CASE ScanTakes
  <2>1. job.i \in Indices BY <1>6, <1>h DEF ScanTakes, Indices
  <2>2. /\ UNCHANGED <<start, flush, owned, skewed>> /\ job.held = None
    BY <1>6, <1>t DEF ScanTakes, Stages, Holds
  <2>3. /\ job'.p = job.p /\ job'.i = job.i + 1
        /\ job'.held = IF slots[job.i] = Dropped THEN None ELSE slots[job.i]
    BY <1>6, <1>t DEF ScanTakes, Jobs
  <2>4. \A k \in Indices : slots'[k] = IF k = job.i THEN None ELSE slots[k]
    BY <1>6, <1>h DEF ScanTakes
  <2>5. ASSUME NEW x \in owned
        PROVE  x \in {job.p, job'.held, flush.held} \/ \E i \in Indices : slots'[i] = x
    <3>1. x \in Payloads BY <1>h
    <3>2. x \in {job.p, flush.held} \/ \E i \in Indices : slots[i] = x
      BY <1>e, <2>2, <3>1 DEF Kept
    <3>3. ASSUME NEW i \in Indices, slots[i] = x PROVE slots'[i] = x \/ job'.held = x
      BY <2>3, <2>4, <3>1, <3>3
    <3> QED BY <3>2, <3>3
  <2>6. Kept(slots, owned, job.p, job.held, flush.held)'
    BY <2>2, <2>3, <2>5 DEF Kept
  <2>7. Cleared(slots, job.i)'
    <3>1. \A k \in Indices : k < job.i + 1 => k < job.i \/ k = job.i BY <1>h DEF Indices
    <3> QED BY <1>e, <2>2, <2>3, <2>4, <3>1 DEF Cleared
  <2>8. Flushing => Cleared(slots', flush.i)
    <3>1. \A k \in Indices : slots'[k] \in {slots[k], None} BY <2>4
    <3> QED BY <1>e, <2>2, <3>1, ClearedLess
  <2> QED BY <1>e, <2>2, <2>6, <2>7, <2>8 DEF Even, Flushing, Cleared
<1>7. CASE ScanRotates
  <2>1. /\ UNCHANGED <<flush, owned>> /\ job.held = None /\ job.p \notin Payloads
        /\ job' = NoJob
    BY <1>7, <1>t DEF ScanRotates, Stages, Holds, Ends
  <2>2. CASE job.i > 0
    <3>1. skewed = "no" /\ ~Flushing BY <1>7, <1>s, <2>2 DEF ScanRotates
    <3>2. slots' = Rotated(slots, job.i) BY <1>7, <2>2 DEF ScanRotates
    <3>3. job.i \in 1..WIN BY <1>h, <2>2
    <3>4. Kept(slots', owned, job.p, job.held, flush.held)
      BY <1>e, <1>h, <3>1, <3>2, <3>3, KeptRotated
    <3>5. \A x \in owned : x \in Payloads BY <1>h
    <3>6. Kept(slots, owned, job.p, job.held, flush.held)'
      BY <2>1, <3>4, <3>5 DEF Kept
    <3> QED BY <1>n, <1>z, <2>1, <3>1, <3>6 DEF Even, Flushing
  <2>3. CASE job.i = 0
    <3>1. slots' = slots /\ skewed = "no" BY <1>7, <2>3 DEF ScanRotates
    <3>2. start' = start % MOD BY <1>7, <1>h, <2>3 DEF ScanRotates, SetStart
    <3>3. start' = IF start < MOD THEN start ELSE start - MOD
      <4>1. start \in 0..(2 * MOD - 1) BY <1>h
      <4> QED BY <3>2, <4>1, Modulo
    <3>4. flush.pc \in {"bound", "count"} => flush.to > start'
      <4>1. flush.to \in 0..(MOD - 1) BY <1>h DEF Numbers
      <4> QED BY <1>e, <1>h, <3>1, <3>3, <4>1
    <3>5. \A x \in owned : x \in Payloads BY <1>h
    <3>6. Kept(slots, owned, job.p, job.held, flush.held)'
      BY <1>e, <2>1, <3>1, <3>5 DEF Kept
    <3> QED BY <1>e, <1>n, <1>z, <2>1, <3>1, <3>4, <3>6 DEF Even, Flushing, Cleared
  <2> QED BY <1>h, <2>2, <2>3
<1>8. CASE Create
  <2>1. owned' = {} /\ flush' = NoFlush /\ job' = NoJob
    BY <1>8, <1>t DEF Create, Stages
  <2> QED BY <1>n, <1>z, <2>1 DEF Even, Flushing, Kept
<1>9. CASE DeleteFrees
  <2>1. owned' = {} /\ flush' = NoFlush /\ job' = NoJob BY <1>9 DEF DeleteFrees
  <2> QED BY <1>n, <1>z, <2>1 DEF Even, Flushing, Kept
<1>10. CASE CreateAgain \/ Delete
  <2>1. /\ UNCHANGED <<start, slots, flush, owned, skewed>> /\ job = NoJob
        /\ job'.p = None /\ job'.held = None /\ job'.i = 0
    BY <1>10, <1>t, MoveToEffect DEF Stages
  <2>2. Kept(slots, owned, job.p, job.held, flush.held)' BY <1>e, <1>n, <2>1 DEF Kept
  <2> QED BY <1>e, <1>z, <2>1, <2>2 DEF Even, Flushing, Cleared
<1>11. CASE UNCHANGED <<start, slots, job, flush, owned, skewed>>
  BY <1>e, <1>11 DEF Even, Flushing, Kept, Cleared
<1>12. CASE SetNoDrop \/ TimerExpires \/ UNCHANGED vars
  BY <1>11, <1>12 DEF SetNoDrop, TimerExpires, table, history, vars
<1>13. CASE FlushLooks
  BY <1>13, FlushLooksEffect DEF Inv
<1>14. CASE FlushTakes
  <2>1. flush.i \in Indices BY <1>14, <1>h DEF FlushTakes, Indices
  <2>2. /\ UNCHANGED <<start, job, owned, skewed>> /\ flush.held = None /\ Flushing
    BY <1>14, <1>t DEF FlushTakes, Stages, Flushing
  <2>3. /\ flush'.i = flush.i + 1 /\ flush'.n = flush.n /\ flush'.pc \in {"take", "gives"}
        /\ slots[flush.i] \in Payloads => flush'.held = slots[flush.i]
    BY <1>14, <1>t DEF FlushTakes, Flushes
  <2>4. \A k \in Indices : slots'[k] = IF k = flush.i THEN None ELSE slots[k]
    BY <1>14, <1>h DEF FlushTakes
  <2>5. ASSUME NEW x \in owned
        PROVE  x \in {job.p, job.held, flush'.held} \/ \E i \in Indices : slots'[i] = x
    <3>1. x \in Payloads BY <1>h
    <3>2. x \in {job.p, job.held} \/ \E i \in Indices : slots[i] = x
      BY <1>e, <2>2, <3>1 DEF Kept
    <3>3. ASSUME NEW i \in Indices, slots[i] = x PROVE slots'[i] = x \/ flush'.held = x
      BY <2>3, <2>4, <3>1, <3>3
    <3> QED BY <3>2, <3>3
  <2>6. Kept(slots, owned, job.p, job.held, flush.held)'
    BY <2>2, <2>5 DEF Kept
  <2>7. Cleared(slots', flush'.i)
    <3>1. \A k \in Indices : k < flush.i + 1 => k < flush.i \/ k = flush.i
      BY <1>h DEF Indices
    <3> QED BY <1>e, <2>2, <2>3, <2>4, <3>1 DEF Cleared
  <2>8. Cleared(slots', job.i)
    <3>1. \A k \in Indices : slots'[k] \in {slots[k], None} BY <2>4
    <3> QED BY <1>e, <2>2, <3>1, ClearedLess
  <2>9. flush'.n > 0 BY <1>14, <1>e, <2>2, <2>3 DEF FlushTakes
  <2> QED BY <2>2, <2>3, <2>6, <2>7, <2>8, <2>9 DEF Even, Cleared
<1>15. CASE FlushGives
  <2>1. /\ flush'.held = None /\ flush'.pc = "take" /\ flush'.i = flush.i
        /\ flush'.n = flush.n
    BY <1>15, <1>t DEF FlushGives, Flushes
  <2>2. UNCHANGED <<start, slots, job, skewed>> /\ owned' = owned \ {flush.held}
    BY <1>15 DEF FlushGives, Frees, table, history
  <2>3. Kept(slots, owned, job.p, job.held, flush.held)' BY <1>e, <2>1, <2>2 DEF Kept
  <2>4. flush.pc = "gives" /\ Flushing BY <1>15 DEF FlushGives, Flushing
  <2> QED BY <1>e, <2>1, <2>2, <2>3, <2>4 DEF Even, Cleared
<1>16. CASE Yields /\ FlushRotates
  <2>1. flush' = NoFlush /\ UNCHANGED <<job, owned>> /\ skewed = "no" /\ job = NoJob
    BY <1>16, <1>t DEF FlushRotates, Yields, Stages
  <2>2. slots' = Rotated(slots, flush.n) /\ flush.n = flush.i /\ flush.pc = "take"
    BY <1>16 DEF FlushRotates
  <2>3. flush.n \in 1..WIN /\ Cleared(slots, flush.n)
    BY <1>e, <1>h, <2>1, <2>2 DEF Flushing
  <2>4. flush.held = None BY <1>t, <2>2 DEF Stages
  <2>5. Kept(slots', owned, job.p, job.held, flush.held)
    BY <1>e, <1>h, <2>1, <2>2, <2>3, KeptRotated
  <2>6. Kept(slots, owned, job.p, job.held, flush.held)'
    BY <1>n, <2>1, <2>4, <2>5 DEF Kept
  <2> QED BY <1>n, <1>z, <2>1, <2>6 DEF Even, Flushing
<1>17. CASE Receive \/ ReceiveBar \/ wlan_11n_rxba_sync_event
  BY <1>1, <1>17, ArrivalCases
<1> QED
  BY <1>2, <1>3, <1>4, <1>5, <1>6, <1>7, <1>8, <1>9, <1>10, <1>12, <1>13, <1>14,
     <1>15, <1>16, <1>17
  DEF Next, Main, wlan_flush_data, FlushLooks

-----------------------------------------------------------------------------
LEMMA InitInv == Init => Inv
<1> SUFFICES ASSUME Init PROVE Inv
  OBVIOUS
<1>1. /\ slots = Empty /\ owned = {} /\ main = "idle" /\ job = NoJob /\ flush = NoFlush
      /\ timer = FALSE /\ due = FALSE
  BY DEF Init
<1>2. /\ NoJob.p = None /\ NoJob.held = None /\ NoJob.i = 0
      /\ NoFlush.pc = "idle" /\ NoFlush.held = None
  BY DEF NoJob, NoFlush
<1>3. Stages BY <1>1, <1>2, WindowAssumption DEF Stages
<1>4. Aimed BY <1>1 DEF Aimed
<1>5. Apart(slots, owned, job.p, job.held, flush.held)
  BY <1>1, <1>2, WindowAssumption DEF Apart, Empty
<1>6. Even BY <1>1, <1>2, WindowAssumption DEF Even, Kept, Cleared, Flushing, Indices
<1> QED BY <1>3, <1>4, <1>5, <1>6, InitType DEF Inv

LEMMA NextInv == Inv /\ [Next]_vars => Inv'
BY TypeStep, StagesStep, AimedStep, ApartStep, EvenStep DEF Inv

(* The invariant holds throughout: what the main work and the flush hold   *)
(* and have emptied, wherever each of them is interrupted.                 *)
THEOREM Invariance == Spec => []Inv
BY InitInv, NextInv, PTL DEF Spec

(* No index of a slot, no count of slots and no number is out of range: in *)
(* particular the sequence numbers stay in their range over the wrap.      *)
THEOREM TypeCorrect == Spec => []TypeOK
<1>1. Inv => TypeOK BY DEF Inv
<1> QED BY <1>1, Invariance, PTL

(* A packet is stored inside the window, whatever its number and wherever  *)
(* the window is: the write through rx_reorder_ptr is within its win_size  *)
(* slots.                                                                  *)
THEOREM InWindow == Spec => []StoresInWindow
<1>1. Inv => StoresInWindow BY DEF Inv, Aimed, StoresInWindow, Stages, TypeOK, Jobs
<1> QED BY <1>1, Invariance, PTL

(* A payload is in one place, although the main work and the flush both    *)
(* take slots; and unless a flush was overtaken none is lost.              *)
THEOREM Conserved == Spec => []PayloadsConserved
<1>1. ASSUME Inv PROVE PayloadsConserved
  <2> USE <1>1, WindowAssumption
  <2>1. /\ Apart(slots, owned, job.p, job.held, flush.held)
        /\ job.p \in Payloads \cup {None, Dropped} /\ job.held \in Payloads \cup {None}
        /\ flush.held \in Payloads \cup {None} /\ owned \subseteq Payloads
        /\ slots \in [Indices -> Payloads \cup {None, Dropped}]
    BY DEF Inv, TypeOK, Jobs, Flushes
  <2>2. /\ Range(slots) = {slots[i] : i \in Indices} BY <2>1 DEF Range
  <2>3. \A i, j \in Indices : slots[i] \in Payloads =>
          slots[i] \in owned /\ (slots[i] = slots[j] => i = j)
    BY <2>1 DEF Apart
  <2>4. {job.p, job.held, flush.held} \cap Payloads \subseteq owned \ Range(slots)
    BY <2>1, <2>2 DEF Apart, Outside
  <2>5. job.held # None => job.held # flush.held BY <2>1 DEF Apart
  <2>6. ASSUME skewed = "no"
        PROVE  owned \subseteq Range(slots)
                                 \cup ({job.p, job.held, flush.held} \cap Payloads)
    <3>1. Kept(slots, owned, job.p, job.held, flush.held) BY <2>6 DEF Inv, Even
    <3> QED BY <2>1, <2>2, <3>1 DEF Kept
  <2> QED BY <2>3, <2>4, <2>5, <2>6 DEF PayloadsConserved
<1> QED BY <1>1, Invariance, PTL
-----------------------------------------------------------------------------
(* Why what is buffered will be flushed.                                   *)

(* The flush under way will empty slot k.                                  *)
WillEmpty(k) ==
  CASE flush.pc = "idle" -> FALSE
    [] flush.pc \in {"find", "aim"} -> k <= flush.i
    [] flush.pc = "compare" -> k < Count(flush.to)
    [] flush.pc = "bound" -> flush.to > start /\ k < Count(flush.to)
    [] flush.pc = "count" -> k < flush.to - start
    [] OTHER -> flush.i <= k /\ k < flush.n

(* A packet and a request start the timer when they end, unless it runs.   *)
Watch ==
  /\ is_set => timer \/ due
  /\ main \in {"store", "scan", "scanGives", "free"} => job.kind # "addba"
  /\ flush.pc \in {"compare", "bound", "count"} => flush.i = 0
  /\ skewed # "addba" =>
       \/ timer \/ due
       \/ main # "idle" /\ job.kind # "addba"
       \/ \A k \in Indices : slots[k] # None => WillEmpty(k)

(* Why a slot tells the number of its packet: a move of the window that    *)
(* leaves a slot filled moves the slots by as much.                        *)
Exact ==
  skewed = "no" =>
    /\ \A i \in Indices : slots[i] \in Payloads => seq[slots[i]] = (start + i) % MOD
    /\ job.p \in Payloads => seq[job.p] = job.q
    /\ main \in {"shift", "shiftGives"} => job.n = Count(job.to)
    /\ main = "store" => job.to = start
    /\ flush.pc = "count" => flush.to - start < WIN
    /\ flush.pc \in {"take", "gives"} => flush.n \in {Count(flush.to), WIN}

LEMMA EndsWatched ==
  ASSUME Inv, is_set => timer \/ due, due' = due, NEW prev, NEW w, Ends(prev, w)
  PROVE  timer' \/ due'
BY DEF Ends

(* The number the flush aims at is after the last slot that is filled.     *)
LEMMA CountReaches ==
  ASSUME Inv, NEW i \in 0..WIN, NEW k \in Indices, k <= i
  PROVE  k < Count((start + i + 1) % MOD)
<1> USE WindowAssumption
<1> DEFINE x == start + i + 1
           w == x % MOD
<1>1. start \in 0..MOD /\ x \in 0..(2 * MOD - 1) BY DEF Inv, TypeOK
<1>2. x = start + i + 1 OBVIOUS
<1> HIDE DEF x
<1>3. w = IF x < MOD THEN x ELSE x - MOD BY <1>1, Modulo
<1> HIDE DEF w
<1>4. k \in 0..(WIN - 1) BY DEF Indices
<1>5. w > start => w - start = i + 1 BY <1>1, <1>2, <1>3
<1>6. k < Count(w) BY <1>1, <1>4, <1>5 DEF Count
<1> QED BY <1>6, <1>2 DEF w

LEMMA WatchStep == Inv /\ Watch /\ [Next]_vars => Watch'
<1> SUFFICES ASSUME Inv, Watch, [Next]_vars PROVE Watch'
  OBVIOUS
<1> USE WindowAssumption
<1>t. TypeOK /\ Stages /\ job \in Jobs /\ flush \in Flushes BY DEF Inv, TypeOK
<1>h. /\ job.n \in 0..WIN /\ job.i \in 0..WIN /\ flush.n \in 0..WIN /\ flush.i \in 0..WIN
      /\ slots \in [Indices -> Payloads \cup {None, Dropped}]
  BY <1>t DEF Jobs, Flushes, TypeOK
<1>n. NoJob.kind = "none" /\ NoFlush.pc = "idle" BY DEF NoJob, NoFlush
<1>k. \A k \in Indices : k \in Int /\ k >= 0 BY DEF Indices
<1>w. /\ is_set => timer \/ due
      /\ main \in {"store", "scan", "scanGives", "free"} => job.kind # "addba"
      /\ flush.pc \in {"compare", "bound", "count"} => flush.i = 0
      /\ skewed # "addba" =>
           \/ timer \/ due
           \/ main # "idle" /\ job.kind # "addba"
           \/ \A k \in Indices : slots[k] # None => WillEmpty(k)
  BY DEF Watch
<1>s. ASSUME NEW who \in {"packet", "addba"}, Skews(who), skewed' # "addba"
      PROVE  skewed # "addba" /\ (who = "addba" => ~Flushing)
  BY <1>s DEF Skews
<1>1. ASSUME NEW kind, NEW s, NEW p, Arrival(kind, s, p) PROVE Watch'
  <2>1. kind # "addba" /\ Arrives(kind, s, p) BY <1>1 DEF Arrival
  <2>2. due' = due /\ flush' = flush BY <1>1, ArrivalEffect
  <2>3. UNCHANGED <<timer, is_set>> \/ Ends(start, start) BY <2>1 DEF Arrives
  <2>4. is_set' => timer' \/ due' BY <1>w, <2>2, <2>3, EndsWatched
  <2>5. CASE main' = "idle"
    <3>1. Ends(start, start) BY <2>1, <2>5 DEF Arrives
    <3>2. timer' \/ due' BY <1>w, <2>2, <3>1, EndsWatched
    <3> QED BY <1>w, <2>2, <2>4, <2>5, <3>2 DEF Watch
  <2>6. CASE main' # "idle"
    <3>1. job'.kind = kind BY <1>1, <2>6, ArrivalEffect
    <3> QED BY <1>w, <2>1, <2>2, <2>4, <2>6, <3>1 DEF Watch
  <2> QED BY <2>5, <2>6
(* Slots that are only emptied, in the main work.                          *)
<1>2. ASSUME UNCHANGED <<start, timing, flush, skewed>>, main # "idle", main' # "idle",
             job'.kind = job.kind,
             \A k \in Indices : slots'[k] \in {slots[k], None},
             main' \in {"store", "scan", "scanGives", "free"} => job.kind # "addba"
      PROVE  Watch'
  <2>1. \A k \in Indices : WillEmpty(k) = WillEmpty(k)'
    BY <1>2 DEF WillEmpty, Count
  <2>2. /\ is_set' => timer' \/ due'
        /\ main' \in {"store", "scan", "scanGives", "free"} => job'.kind # "addba"
        /\ flush'.pc \in {"compare", "bound", "count"} => flush'.i = 0
    BY <1>2, <1>w DEF timing
  <2>3. ASSUME skewed' # "addba"
        PROVE  \/ timer' \/ due'
               \/ main' # "idle" /\ job'.kind # "addba"
               \/ \A k \in Indices : slots'[k] # None => WillEmpty(k)'
    <3>1. CASE timer \/ due BY <1>2, <3>1 DEF timing
    <3>2. CASE job.kind # "addba" BY <1>2, <3>2
    <3>3. CASE \A k \in Indices : slots[k] # None => WillEmpty(k)
      BY <1>2, <2>1, <3>3
    <3> QED BY <1>2, <1>w, <2>3, <3>1, <3>2, <3>3
  <2> QED BY <2>2, <2>3 DEF Watch
<1>3. CASE ShiftTakes
  <2>1. job'.kind = job.kind BY <1>3, <1>t DEF ShiftTakes, Jobs
  <2>2. \A k \in Indices : slots'[k] \in {slots[k], None} BY <1>3 DEF ShiftTakes, Emptied
  <2> QED BY <1>2, <1>3, <1>w, <2>1, <2>2 DEF ShiftTakes
<1>4. CASE ShiftRotates
  <2>1. UNCHANGED <<timing, flush>> /\ main = "shift" BY <1>4 DEF ShiftRotates
  <2>2. CASE job.kind # "addba"
    <3>1. job'.kind = job.kind /\ main' # "idle" BY <1>4, <1>t, <2>2 DEF ShiftRotates, Jobs
    <3> QED BY <1>w, <2>1, <2>2, <3>1 DEF Watch, timing
  <2>3. CASE job.kind = "addba"
    <3>1. job' = NoJob /\ main' = "idle" /\ Skews("addba")
      BY <1>4, <2>3 DEF ShiftRotates
    <3>2. ASSUME skewed' # "addba", ~(timer \/ due), NEW k \in Indices, slots'[k] # None
          PROVE  WillEmpty(k)'
      <4>1. skewed # "addba" /\ ~Flushing BY <1>s, <3>1, <3>2
      <4>2. \A m \in Indices : slots[m] # None => WillEmpty(m) BY <1>w, <2>3, <3>2, <4>1
      <4> DEFINE s == Emptied(slots, job.i, job.n - 1)
      <4>3. slots' = Rotated(s, job.n) BY <1>4 DEF ShiftRotates
      <4>4. \A m \in Indices : s[m] # None => slots[m] # None BY DEF Emptied
      <4> HIDE DEF s
      <4>5. \/ k + job.n \in Indices /\ s[k + job.n] # None
            \/ k < job.n /\ s[k] # None
        BY <1>h, <3>2, <4>3, RotatedFrom
      <4>6. \/ k + job.n \in Indices /\ WillEmpty(k + job.n)
            \/ WillEmpty(k)
        BY <4>2, <4>4, <4>5
      <4>7. flush.pc \in {"idle", "find", "aim"} BY <1>t, <4>1 DEF Flushing, Flushes
      <4>8. flush.pc # "idle" /\ k <= flush.i BY <1>h, <1>k, <4>6, <4>7 DEF WillEmpty
      <4> QED BY <2>1, <4>7, <4>8 DEF WillEmpty
    <3> QED BY <1>w, <2>1, <3>1, <3>2 DEF Watch, timing
  <2> QED BY <2>2, <2>3
<1>5. CASE Given
  <2>1. job'.kind = job.kind BY <1>5, <1>t DEF Given, Jobs
  <2>2. /\ main # "idle" /\ main' # "idle"
        /\ main' \in {"store", "scan", "scanGives", "free"} => main = "scanGives"
    BY <1>5 DEF Given, Holds
  <2> QED BY <1>2, <1>5, <1>w, <2>1, <2>2 DEF Given, table, history
<1>6. CASE Stores
  <2>1. job.kind # "addba" /\ due' = due /\ flush' = flush
    BY <1>6, <1>w DEF Stores
  <2>2. CASE main' = "idle"
    <3>1. Ends(job.prev, start) BY <1>6, <2>2 DEF Stores
    <3>2. timer' \/ due' BY <1>w, <2>1, <3>1, EndsWatched
    <3> QED BY <1>w, <2>1, <2>2, <3>2 DEF Watch
  <2>3. CASE main' # "idle"
    <3>1. /\ UNCHANGED <<timer, is_set>>
          /\ job' = [job EXCEPT !.p = None, !.n = 0, !.q = 0, !.to = 0]
      BY <1>6, <2>3 DEF Stores, Ends
    <3>2. job'.kind = job.kind BY <1>t, <3>1 DEF Jobs
    <3> QED BY <1>w, <2>1, <2>3, <3>1, <3>2 DEF Watch
  <2> QED BY <2>2, <2>3
<1>7. CASE ScanTakes
  <2>1. job'.kind = job.kind BY <1>7, <1>t DEF ScanTakes, Jobs
  <2>2. \A k \in Indices : slots'[k] \in {slots[k], None}
    BY <1>7, <1>h DEF ScanTakes
  <2>3. main = "scan" /\ main' \in {"scan", "scanGives"} BY <1>7 DEF ScanTakes
  <2>4. UNCHANGED <<start, timing, flush, skewed>> BY <1>7 DEF ScanTakes
  <2> QED BY <1>2, <1>w, <2>1, <2>2, <2>3, <2>4
<1>8. CASE ScanRotates
  <2>1. due' = due /\ flush' = flush /\ Ends(job.prev, (start + job.i) % MOD)
    BY <1>8 DEF ScanRotates
  <2>2. timer' \/ due' BY <1>w, <2>1, EndsWatched
  <2>3. main' = "idle" BY <2>1 DEF Ends
  <2> QED BY <1>w, <2>1, <2>2, <2>3 DEF Watch
<1>9. CASE Create \/ DeleteFrees
  <2>1. /\ slots' = Empty /\ is_set' = FALSE /\ main' = "idle" /\ flush' = NoFlush
    BY <1>9, <1>t DEF Create, DeleteFrees, Stages
  <2> QED BY <1>n, <2>1 DEF Watch, Empty
<1>10. CASE CreateAgain \/ Delete
  <2>1. /\ main = "idle" /\ main' = "shift"
        /\ UNCHANGED <<start, slots, is_set, timer, due, flush, skewed>>
    BY <1>10, MoveToEffect
  <2>2. \A k \in Indices : WillEmpty(k) = WillEmpty(k)' BY <2>1 DEF WillEmpty, Count
  <2> QED BY <1>w, <2>1, <2>2 DEF Watch
<1>11. ASSUME UNCHANGED <<start, slots, is_set, main, job, flush, skewed>>,
              timer \/ due => timer' \/ due'
       PROVE  Watch'
  <2>1. \A k \in Indices : WillEmpty(k) = WillEmpty(k)' BY <1>11 DEF WillEmpty, Count
  <2> QED BY <1>11, <1>w, <2>1 DEF Watch
<1>12. CASE SetNoDrop \/ TimerExpires \/ UNCHANGED vars
  BY <1>11, <1>12 DEF SetNoDrop, TimerExpires, table, timing, history, vars
<1>13. CASE FlushBegins
  <2>1. UNCHANGED <<main, job>> /\ is_set' = FALSE BY <1>13 DEF FlushBegins
  <2>2. flush'.pc = "find" /\ flush'.i = WIN - 1 BY <1>13 DEF FlushBegins, NoFlush
  <2>3. \A k \in Indices : WillEmpty(k)' BY <2>2 DEF WillEmpty, Indices
  <2> QED BY <1>w, <2>1, <2>2, <2>3 DEF Watch
(* The rest of the flush leaves the timer, and does what it will.          *)
<1>14. ASSUME UNCHANGED <<timing, main, job>>, skewed' # "addba" => skewed # "addba",
              flush'.pc \in {"compare", "bound", "count"} => flush'.i = 0,
              (\A k \in Indices : slots[k] # None => WillEmpty(k))
                => \A k \in Indices : slots'[k] # None => WillEmpty(k)'
       PROVE  Watch'
  BY <1>14, <1>w DEF Watch, timing
<1>15. CASE FlushFinds
  <2>1. UNCHANGED <<start, slots, timing, main, job, skewed>>
    BY <1>15 DEF FlushFinds, table, history
  <2>2. CASE slots[flush.i] # None
    <3>1. flush'.pc = "aim" /\ flush'.i = flush.i /\ flush.pc = "find"
      BY <1>15, <1>t, <2>2 DEF FlushFinds, Flushes
    <3>2. \A k \in Indices : WillEmpty(k) => WillEmpty(k)' BY <3>1 DEF WillEmpty
    <3> QED BY <1>14, <2>1, <3>1, <3>2
  <2>3. CASE slots[flush.i] = None /\ flush.i = 0
    <3>1. flush' = NoFlush /\ flush.pc = "find" BY <1>15, <2>3 DEF FlushFinds
    <3>2. \A k \in Indices : WillEmpty(k) => k = 0 BY <1>k, <2>3, <3>1 DEF WillEmpty
    <3> QED BY <1>14, <1>n, <2>1, <2>3, <3>1, <3>2
  <2>4. CASE slots[flush.i] = None /\ flush.i # 0
    <3>1. flush'.pc = "find" /\ flush'.i = flush.i - 1 /\ flush.pc = "find"
      BY <1>15, <1>t, <2>4 DEF FlushFinds, Flushes
    <3>2. ASSUME NEW k \in Indices, WillEmpty(k), k # flush.i PROVE WillEmpty(k)'
      BY <1>h, <1>k, <3>1, <3>2 DEF WillEmpty
    <3> QED BY <1>14, <2>1, <2>4, <3>1, <3>2
  <2> QED BY <2>2, <2>3, <2>4
<1>16. CASE FlushAims
  <2>1. UNCHANGED <<start, slots, timing, main, job, skewed>>
    BY <1>16 DEF FlushAims, table, history
  <2>2. /\ flush'.pc = "compare" /\ flush'.i = 0 /\ flush.pc = "aim"
        /\ flush'.to = (start + flush.i + 1) % MOD
    BY <1>16 DEF FlushAims, NoFlush
  <2>3. ASSUME NEW k \in Indices, WillEmpty(k) PROVE WillEmpty(k)'
    <3>1. k <= flush.i BY <2>2, <2>3 DEF WillEmpty
    <3>2. k < Count(flush'.to) BY <1>h, <2>2, <3>1, CountReaches
    <3>3. k < Count(flush.to)' BY <2>1, <3>2 DEF Count
    <3> QED BY <2>2, <3>3 DEF WillEmpty
  <2> QED BY <1>14, <2>1, <2>2, <2>3
<1>17. CASE FlushCompares \/ FlushBounds \/ FlushCounts
  <2>1. UNCHANGED <<start, slots, timing, main, job, skewed>>
    BY <1>17 DEF FlushCompares, FlushBounds, FlushCounts, table, history
  <2>2. flush'.i = 0 /\ flush'.to = flush.to
    BY <1>17, <1>t, <1>w DEF FlushCompares, FlushBounds, FlushCounts, Flushes
  <2>3. start \in Int /\ flush.to \in Int BY <1>t DEF TypeOK, Flushes, Numbers
  <2>4. \/ flush.pc = "compare" /\ flush'.pc = "bound" /\ flush.to > start
        \/ /\ flush.pc = "compare" \/ (flush.pc = "bound" /\ ~(flush.to - start < WIN))
           /\ flush'.pc = "take" /\ flush'.n = WIN
        \/ flush.pc = "bound" /\ flush'.pc = "count" /\ flush.to - start < WIN
        \/ flush.pc = "count" /\ flush'.pc = "take" /\ flush'.n = flush.to - start
        \/ flush' = flush
    BY <1>17, <1>t DEF FlushCompares, FlushBounds, FlushCounts, Flushes
  <2>5. ASSUME NEW k \in Indices, WillEmpty(k) PROVE WillEmpty(k)'
    <3>1. k < WIN /\ k >= 0 /\ k \in Int BY DEF Indices
    <3> QED BY <2>1, <2>2, <2>3, <2>4, <2>5, <3>1 DEF WillEmpty, Count
  <2> QED BY <1>14, <2>1, <2>2, <2>5
<1>18. CASE FlushTakes
  <2>1. UNCHANGED <<timing, main, job, skewed>> BY <1>18 DEF FlushTakes
  <2>2. /\ flush'.i = flush.i + 1 /\ flush'.n = flush.n /\ flush'.pc \in {"take", "gives"}
        /\ flush.pc = "take"
    BY <1>18, <1>t DEF FlushTakes, Flushes
  <2>3. \A k \in Indices : slots'[k] = IF k = flush.i THEN None ELSE slots[k]
    BY <1>18, <1>h DEF FlushTakes
  <2>4. ASSUME NEW k \in Indices, WillEmpty(k), k # flush.i PROVE WillEmpty(k)'
    BY <1>h, <1>k, <2>2, <2>4 DEF WillEmpty
  <2> QED BY <1>14, <2>1, <2>2, <2>3, <2>4
<1>19. CASE FlushGives
  <2>1. UNCHANGED <<slots, timing, main, job, skewed>>
    BY <1>19 DEF FlushGives, table, history
  <2>2. /\ flush'.i = flush.i /\ flush'.n = flush.n /\ flush'.pc = "take"
        /\ flush.pc = "gives"
    BY <1>19, <1>t DEF FlushGives, Flushes
  <2>3. \A k \in Indices : WillEmpty(k) => WillEmpty(k)' BY <2>2 DEF WillEmpty
  <2> QED BY <1>14, <2>1, <2>2, <2>3
<1>20. CASE FlushRotates
  <2>1. UNCHANGED <<timing, main, job>> /\ (skewed' # "addba" => skewed # "addba")
    BY <1>20 DEF FlushRotates
  <2>2. /\ flush' = NoFlush /\ slots' = Rotated(slots, flush.n) /\ flush.n = flush.i
        /\ flush.pc = "take"
    BY <1>20 DEF FlushRotates
  <2>3. ASSUME \A k \in Indices : slots[k] # None => WillEmpty(k),
               NEW k \in Indices, slots'[k] # None
        PROVE  FALSE
    <3>1. \/ k + flush.n \in Indices /\ slots[k + flush.n] # None
          \/ k < flush.n /\ slots[k] # None
      BY <1>h, <2>2, <2>3, RotatedFrom
    <3>2. \/ k + flush.n \in Indices /\ WillEmpty(k + flush.n)
          \/ k < flush.n /\ WillEmpty(k)
      BY <2>3, <3>1
    <3> QED BY <1>h, <1>k, <2>2, <3>2 DEF WillEmpty
  <2> QED BY <1>14, <1>n, <2>1, <2>2, <2>3
<1>21. CASE Receive \/ ReceiveBar \/ wlan_11n_rxba_sync_event
  BY <1>1, <1>21, ArrivalCases
<1> QED
  BY <1>3, <1>4, <1>5, <1>6, <1>7, <1>8, <1>9, <1>10, <1>12, <1>13, <1>15,
     <1>16, <1>17, <1>18, <1>19, <1>20, <1>21
  DEF Next, Main, wlan_flush_data

(* What is buffered is not forgotten: with no flush under way, a timer     *)
(* runs or its work is queued, unless an ADDBA overtook a flush.           *)
THEOREM Watched == Spec => []BufferedIsWatched
<1>1. Init => Watch
  BY WindowAssumption DEF Init, Watch, NoFlush, Empty
<1>2. ASSUME Inv, Watch PROVE BufferedIsWatched
  <2> SUFFICES ASSUME Calm, skewed # "addba", ~(timer \/ due) PROVE slots = Empty
    BY DEF BufferedIsWatched
  <2>1. \A k \in Indices : slots[k] # None => WillEmpty(k) BY <1>2 DEF Watch, Calm
  <2>2. \A k \in Indices : ~WillEmpty(k) BY DEF WillEmpty, Calm
  <2>3. slots \in [Indices -> Payloads \cup {None, Dropped}] BY <1>2 DEF Inv, TypeOK
  <2> QED BY <2>1, <2>2, <2>3 DEF Empty
<1>3. Inv /\ Watch /\ [Next]_vars => Watch' BY WatchStep
<1> QED BY <1>1, <1>2, <1>3, Invariance, PTL DEF Spec

-----------------------------------------------------------------------------
(* A slot's number counted from either end of a move.                      *)
LEMMA MovedNumber ==
  ASSUME NEW a \in 0..MOD, NEW n \in 0..WIN, NEW k \in Indices, k + n <= WIN
  PROVE  (((a + n) % MOD) + k) % MOD = (a + (k + n)) % MOD
<1> USE WindowAssumption
<1> DEFINE x == a + n
           b == x % MOD
           y == a + (k + n)
           z == b + k
<1>1. k \in 0..(WIN - 1) /\ x \in 0..(2 * MOD - 1) /\ y \in 0..(2 * MOD - 1) /\ y = x + k
  BY DEF Indices
<1> HIDE DEF x, y
<1>2. b = IF x < MOD THEN x ELSE x - MOD BY <1>1, Modulo
<1> HIDE DEF b
<1>3. z \in 0..(2 * MOD - 1) /\ z = b + k BY <1>1, <1>2
<1> HIDE DEF z
<1>4. z % MOD = IF z < MOD THEN z ELSE z - MOD BY <1>3, Modulo
<1>5. y % MOD = IF y < MOD THEN y ELSE y - MOD BY <1>1, Modulo
<1>6. z % MOD = y % MOD BY <1>1, <1>2, <1>3, <1>4, <1>5
<1> QED BY <1>6 DEF x, y, z, b

(* Every payload in slots s has the number of its slot, from number a.     *)
Numbered(s, a) == \A i \in Indices : s[i] \in Payloads => seq[s[i]] = (a + i) % MOD

(* A move to w by Count(w) keeps what the slots tell.                      *)
LEMMA NumberedRotated ==
  ASSUME Inv, NEW s, NEW w \in 0..MOD, NEW n \in {Count(w), WIN}, Cleared(s, n),
         Numbered(s, start)
  PROVE  Numbered(Rotated(s, n), w)
<1> USE WindowAssumption
<1> SUFFICES ASSUME NEW k \in Indices, Rotated(s, n)[k] \in Payloads
             PROVE  seq[Rotated(s, n)[k]] = (w + k) % MOD
  BY DEF Numbered
<1>1. n \in 0..WIN /\ start \in Int /\ k \in Int /\ k >= 0
  BY Counted DEF Inv, TypeOK, Indices
<1>2. k + n \in Indices /\ Rotated(s, n)[k] = s[k + n]
  BY <1>1, RotatedFrom DEF Cleared
<1>3. n < WIN BY <1>1, <1>2 DEF Indices
<1>4. n = w - start BY <1>3 DEF Count
<1>5. start + (k + n) = w + k BY <1>1, <1>4
<1> QED BY <1>2, <1>5 DEF Numbered

LEMMA NumberedLess ==
  ASSUME NEW s, NEW t, NEW a, Numbered(s, a), \A k \in Indices : t[k] \in {s[k], None}
  PROVE  Numbered(t, a)
BY WindowAssumption DEF Numbered

LEMMA ExactStep == Inv /\ Exact /\ [Next]_vars => Exact'
<1> SUFFICES ASSUME Inv, Exact, [Next]_vars, skewed' = "no" PROVE Exact'
  BY DEF Exact
<1> USE WindowAssumption
<1>t. TypeOK /\ Stages /\ job \in Jobs /\ flush \in Flushes BY DEF Inv, TypeOK
<1>h. /\ job.p \in Payloads \cup {None, Dropped} /\ job.held \in Payloads \cup {None}
      /\ flush.held \in Payloads \cup {None} /\ job.n \in 0..WIN /\ job.i \in 0..WIN
      /\ flush.n \in 0..WIN /\ flush.i \in 0..WIN
      /\ flush.to \in Numbers /\ flush.to \in 0..MOD /\ job.to \in 0..MOD
      /\ start \in 0..MOD /\ seq \in [Payloads -> Numbers]
      /\ slots \in [Indices -> Payloads \cup {None, Dropped}]
  BY <1>t DEF Jobs, Flushes, TypeOK, Numbers
<1>n. NoJob.p = None /\ NoFlush.pc = "idle" BY DEF NoJob, NoFlush
<1>a. Apart(slots, owned, job.p, job.held, flush.held) BY DEF Inv
<1>e. ASSUME skewed = "no"
      PROVE  /\ Numbered(slots, start)
             /\ job.p \in Payloads => seq[job.p] = job.q
             /\ main \in {"shift", "shiftGives"} => job.n = Count(job.to)
             /\ main = "store" => job.to = start
             /\ flush.pc = "count" => flush.to - start < WIN
             /\ flush.pc \in {"take", "gives"} => flush.n \in {Count(flush.to), WIN}
             /\ Cleared(slots, job.i)
             /\ flush.pc \in {"bound", "count"} => flush.to > start
             /\ Flushing => Cleared(slots, flush.i)
  BY <1>e DEF Exact, Numbered, Inv, Even
<1>s. ASSUME NEW who \in {"packet", "addba"}, Skews(who)
      PROVE  skewed = "no" /\ flush.pc \notin {"count", "take", "gives"}
  BY <1>s DEF Skews, Flushing
(* What is left to show, when the locals of the flush are left alone.      *)
<1>g. ASSUME Numbered(slots, start)', flush' = flush, skewed = "no",
             start' = start \/ flush.pc \notin {"count", "take", "gives"},
             job'.p \in Payloads => seq'[job'.p] = job'.q,
             main' \in {"shift", "shiftGives"} => start' = start /\ job'.n = Count(job'.to),
             main' = "store" => job'.to = start'
      PROVE  Exact'
  BY <1>e, <1>g DEF Exact, Numbered, Count
<1>1. ASSUME NEW kind, NEW s, NEW p, Arrival(kind, s, p) PROVE Exact'
  <2>1. UNCHANGED <<start, slots, flush, skewed>> BY <1>1, ArrivalEffect
  <2>2. CASE main' = "idle"
    <3>1. job' = NoJob /\ seq' = seq BY <1>1, <2>2, ArrivalEffect
    <3>2. Numbered(slots, start)' BY <1>e, <2>1, <3>1 DEF Numbered
    <3> QED BY <1>g, <1>n, <2>1, <2>2, <3>1, <3>2
  <2>3. CASE main' # "idle"
    <3>1. /\ main' \in {"shift", "store"} /\ job'.p = p /\ job'.n = Count(job'.to)
          /\ main' = "store" => job'.to = start
          /\ kind = "packet" => job'.q = s
          /\ \A x \in Payloads : seq'[x] = IF x = p THEN s ELSE seq[x]
      BY <1>1, <2>1, <2>3, ArrivalEffect
    <3>2. p \in Payloads => kind = "packet" /\ p \notin owned BY <1>1 DEF Arrival
    <3>3. \A i \in Indices : slots[i] \in Payloads => slots[i] # p
      BY <1>a, <3>2 DEF Apart
    <3>4. Numbered(slots, start)' BY <1>e, <2>1, <3>1, <3>3 DEF Numbered
    <3> QED BY <1>g, <2>1, <3>1, <3>2, <3>4
  <2> QED BY <2>2, <2>3
<1>2. CASE ShiftTakes
  <2>1. \A k \in Indices : slots'[k] \in {slots[k], None} BY <1>2 DEF ShiftTakes, Emptied
  <2>2. UNCHANGED <<start, flush, seq, skewed>> BY <1>2 DEF ShiftTakes
  <2>3. job'.p = job.p /\ job'.q = job.q /\ job'.n = job.n /\ job'.to = job.to
    BY <1>2, <1>t DEF ShiftTakes, Jobs
  <2>4. Numbered(slots', start) BY <1>e, <2>1, <2>2, NumberedLess
  <2>5. Numbered(slots, start)' BY <2>2, <2>4 DEF Numbered
  <2> QED BY <1>2, <1>e, <1>g, <2>2, <2>3, <2>5 DEF ShiftTakes
<1>3. CASE ShiftRotates
  <2> DEFINE s == Emptied(slots, job.i, job.n - 1)
  <2>1. skewed = "no" /\ flush.pc \notin {"count", "take", "gives"}
    BY <1>3, <1>s DEF ShiftRotates
  <2>2. /\ slots' = Rotated(s, job.n) /\ start' = job.to /\ UNCHANGED <<flush, seq>>
        /\ job.n = Count(job.to)
    BY <1>3, <1>e, <2>1 DEF ShiftRotates, SetStart
  <2>3. \A k \in Indices : s[k] = IF k \in job.i..(job.n - 1) THEN None ELSE slots[k]
    BY DEF Emptied
  <2> HIDE DEF s
  <2>4. Cleared(s, job.n)
    <3>1. \A k \in Indices : k < job.n => k < job.i \/ k \in job.i..(job.n - 1)
      BY <1>h DEF Indices
    <3> QED BY <1>e, <2>1, <2>3, <3>1 DEF Cleared
  <2>5. Numbered(s, start) BY <1>e, <2>1, <2>3, NumberedLess
  <2>6. Numbered(slots', job.to) BY <1>h, <2>2, <2>4, <2>5, NumberedRotated
  <2>7. Numbered(slots, start)' BY <2>2, <2>6 DEF Numbered
  <2>8. /\ main' \notin {"shift", "shiftGives"}
        /\ main' = "store" => job'.to = job.to
        /\ job'.p = None \/ (job'.p = job.p /\ job'.q = job.q)
    BY <1>3, <1>t, <1>n DEF ShiftRotates, Jobs
  <2> QED BY <1>e, <1>g, <2>1, <2>2, <2>7, <2>8
<1>4. CASE Given
  <2>1. job'.p = job.p /\ job'.q = job.q /\ job'.n = job.n /\ job'.to = job.to
    BY <1>4, <1>t DEF Given, Jobs
  <2>2. UNCHANGED <<start, slots, flush, skewed>> BY <1>4 DEF Given, table, history
  <2>3. \A x \in Payloads : x # job.held => seq'[x] = seq[x]
    BY <1>4, <1>h DEF Given, Frees
  <2>4. \A i \in Indices : slots[i] \in Payloads => slots[i] # job.held
    BY <1>a DEF Apart, Outside
  <2>5. job.p \in Payloads => job.p # job.held BY <1>a DEF Apart
  <2>6. Numbered(slots, start)' BY <1>e, <2>2, <2>3, <2>4 DEF Numbered
  <2>7. main' = "shift" => main = "shiftGives" BY <1>4 DEF Given, Holds
  <2>8. main' \notin {"shiftGives", "store"} BY <1>4 DEF Given
  <2>9. job'.p \in Payloads => seq'[job'.p] = job'.q BY <1>e, <2>1, <2>2, <2>3, <2>5
  <2>10. main' = "shift" => job'.n = Count(job'.to) BY <1>e, <2>1, <2>2, <2>7
  <2> QED BY <1>g, <2>2, <2>6, <2>8, <2>9, <2>10
<1>5. CASE Stores
  <2> DEFINE j == Index(job.q, job.to)
  <2>1. /\ UNCHANGED <<start, flush>> /\ skewed = "no"
    BY <1>5, <1>s DEF Stores
  <2>2. main' \in {"idle", "scan"} /\ job'.p = None
    BY <1>5, <1>t, <1>n DEF Stores, Ends, Jobs
  <2>3. job.to = start /\ main = "store" BY <1>5, <1>e, <2>1 DEF Stores
  <2> HIDE DEF j
  <2>4. CASE UNCHANGED <<slots, seq>>
    <3>1. Numbered(slots, start)' BY <1>e, <2>1, <2>4 DEF Numbered
    <3> QED BY <1>g, <2>1, <2>2, <3>1
  <2>5. CASE Frees(job.p) /\ slots' = slots
    <3>1. \A x \in Payloads : x # job.p => seq'[x] = seq[x] BY <1>h, <2>5 DEF Frees
    <3>2. \A i \in Indices : slots[i] \in Payloads => slots[i] # job.p
      BY <1>a DEF Apart, Outside
    <3>3. Numbered(slots, start)' BY <1>e, <2>1, <2>5, <3>1, <3>2 DEF Numbered
    <3> QED BY <1>g, <2>1, <2>2, <3>3
  <2>6. CASE slots' = [slots EXCEPT ![j] = job.p] /\ seq' = seq
    <3>1. \A k \in Indices : slots'[k] = IF k = j THEN job.p ELSE slots[k]
      BY <1>h, <2>6
    <3>2. ASSUME job.p \in Payloads, j \in Indices PROVE seq[job.p] = (start + j) % MOD
      <4>1. seq[job.p] = job.q /\ job.q \in 0..(MOD - 1)
        BY <1>e, <1>t, <2>1, <3>2 DEF Jobs, Numbers
      <4>2. j = IF job.q >= start THEN job.q - start ELSE job.q + MOD - start
        BY <2>3 DEF j, Index
      <4> DEFINE x == start + j
      <4>3. x \in 0..(2 * MOD - 1) /\ (x = job.q \/ x = job.q + MOD)
        BY <1>h, <4>1, <4>2
      <4> HIDE DEF x
      <4>4. x % MOD = job.q BY <4>1, <4>3, Modulo
      <4> QED BY <4>1, <4>4 DEF x
    <3>3. Numbered(slots, start)'
      <4> SUFFICES ASSUME NEW i \in Indices, slots'[i] \in Payloads
                   PROVE  seq'[slots'[i]] = (start' + i) % MOD
        BY DEF Numbered
      <4>1. CASE i = j BY <2>1, <2>6, <3>1, <3>2, <4>1
      <4>2. CASE i # j
        <5>1. slots'[i] = slots[i] BY <3>1, <4>2
        <5> QED BY <1>e, <2>1, <2>6, <5>1 DEF Numbered
      <4> QED BY <4>1, <4>2
    <3> QED BY <1>g, <2>1, <2>2, <3>3
  <2>7. \/ UNCHANGED <<slots, seq>>
        \/ Frees(job.p) /\ slots' = slots
        \/ slots' = [slots EXCEPT ![j] = job.p] /\ seq' = seq
    BY <1>5 DEF Stores, j
  <2> QED BY <2>4, <2>5, <2>6, <2>7
<1>6. CASE ScanTakes
  <2>1. \A k \in Indices : slots'[k] \in {slots[k], None}
    BY <1>6, <1>h DEF ScanTakes
  <2>2. UNCHANGED <<start, flush, seq, skewed>> BY <1>6 DEF ScanTakes
  <2>3. job'.p = job.p /\ job'.q = job.q /\ main' \in {"scan", "scanGives"}
    BY <1>6, <1>t DEF ScanTakes, Jobs
  <2>4. Numbered(slots', start) BY <1>e, <2>1, <2>2, NumberedLess
  <2>5. Numbered(slots, start)' BY <2>2, <2>4 DEF Numbered
  <2> QED BY <1>e, <1>g, <2>2, <2>3, <2>5
<1>7. CASE ScanRotates
  <2>1. /\ UNCHANGED <<flush, seq>> /\ job' = NoJob /\ main' = "idle"
        /\ start' = (start + job.i) % MOD
    BY <1>7 DEF ScanRotates, Ends, SetStart
  <2>2. skewed = "no"
    <3>1. CASE job.i > 0 BY <1>7, <1>s, <3>1 DEF ScanRotates
    <3>2. CASE ~(job.i > 0) BY <1>7, <3>2 DEF ScanRotates
    <3> QED BY <3>1, <3>2
  <2>3. \/ slots' = slots /\ job.i = 0
        \/ slots' = Rotated(slots, job.i) /\ flush.pc \notin {"count", "take", "gives"}
    <3>1. CASE job.i > 0 BY <1>7, <1>s, <3>1 DEF ScanRotates
    <3>2. CASE job.i = 0 BY <1>7, <3>2 DEF ScanRotates
    <3> QED BY <1>h, <3>1, <3>2
  <2>4. Numbered(slots, start)'
    <3> SUFFICES ASSUME NEW k \in Indices, slots'[k] \in Payloads
                 PROVE  seq[slots'[k]] = (((start + job.i) % MOD) + k) % MOD
      BY <2>1 DEF Numbered
    <3>1. k \in Int /\ k < WIN BY DEF Indices
    <3>2. k + job.i \in Indices /\ slots'[k] = slots[k + job.i]
      <4>1. CASE slots' = slots /\ job.i = 0 BY <3>1, <4>1
      <4>2. CASE slots' = Rotated(slots, job.i)
        <5>1. Cleared(slots, job.i) BY <1>e, <2>2
        <5> QED BY <1>h, <4>2, <5>1, RotatedFrom DEF Cleared
      <4> QED BY <2>3, <4>1, <4>2
    <3>3. seq[slots'[k]] = (start + (k + job.i)) % MOD BY <1>e, <2>2, <3>2 DEF Numbered
    <3>4. k + job.i <= WIN BY <3>2 DEF Indices
    <3> QED BY <1>h, <3>3, <3>4, MovedNumber
  <2>5. ASSUME slots' = slots, job.i = 0, start' # start PROVE start = MOD /\ start' = 0
    <3>1. start' = start % MOD BY <1>h, <2>1, <2>5
    <3>2. start \in 0..(2 * MOD - 1) BY <1>h
    <3>3. start' = IF start < MOD THEN start ELSE start - MOD BY <3>1, <3>2, Modulo
    <3> QED BY <1>h, <2>5, <3>3
  <2>6. CASE start' = start \/ flush.pc \notin {"count", "take", "gives"}
    BY <1>g, <1>n, <2>1, <2>2, <2>4, <2>6
  <2>7. CASE start = MOD /\ start' = 0
    <3>1. flush.to < MOD BY <1>h DEF Numbers
    <3>2. Count(flush.to) = WIN BY <1>h, <2>7, <3>1 DEF Count
    <3>3. flush.pc # "count" BY <1>e, <1>h, <2>2, <2>7, <3>1
    <3>4. flush.pc \in {"take", "gives"} => flush.n = WIN BY <1>e, <2>2, <3>2
    <3> QED BY <1>n, <2>1, <2>4, <3>3, <3>4 DEF Exact, Numbered
  <2> QED BY <2>3, <2>5, <2>6, <2>7
<1>8. CASE Create \/ DeleteFrees
  <2>1. /\ slots' = Empty /\ job' = NoJob /\ flush' = NoFlush /\ main' = "idle"
    BY <1>8, <1>t DEF Create, DeleteFrees, Stages
  <2> QED BY <1>n, <2>1 DEF Exact, Empty
<1>9. CASE CreateAgain \/ Delete
  <2>1. /\ UNCHANGED <<start, slots, flush, seq, skewed>> /\ main' = "shift"
        /\ job'.p = None /\ job'.n = Count(job'.to)
    BY <1>9, MoveToEffect
  <2>2. Numbered(slots, start)' BY <1>e, <2>1 DEF Numbered
  <2> QED BY <1>g, <2>1, <2>2
<1>10. CASE UNCHANGED <<start, slots, main, job, flush, seq, skewed>>
  BY <1>10 DEF Exact, Count
<1>11. CASE SetNoDrop \/ TimerExpires \/ UNCHANGED vars
  BY <1>10, <1>11 DEF SetNoDrop, TimerExpires, table, history, vars
(* What is left to show, when the main work is left alone.                 *)
<1>f. ASSUME UNCHANGED <<start, main, job, skewed>>, Numbered(slots, start)',
             job.p \in Payloads => seq'[job.p] = seq[job.p],
             flush'.pc = "count" => flush'.to - start < WIN,
             flush'.pc \in {"take", "gives"} => flush'.n \in {Count(flush'.to), WIN}
      PROVE  Exact'
  BY <1>e, <1>f DEF Exact, Numbered, Count
<1>12. CASE FlushLooks
  <2>1. UNCHANGED <<start, slots, main, job, skewed>> BY <1>12, FlushLooksEffect
  <2>2. seq' = seq
    BY <1>12 DEF FlushLooks, FlushBegins, FlushFinds, FlushAims, FlushCompares,
                 FlushBounds, FlushCounts
  <2>3. /\ flush'.pc # "gives"
        /\ flush'.pc = "count" => flush'.to - start < WIN \/ flush = flush'
        /\ flush'.pc = "take" =>
             flush'.n = WIN
             \/ (flush.pc = "count" /\ flush'.n = flush.to - start /\ flush'.to = flush.to)
    BY <1>12, <1>t, FlushLooksEffect, FlushLooksForms
  <2>4. flush.pc = "count" => Count(flush.to) = flush.to - start
    BY <1>e, <2>1 DEF Count
  <2>5. Numbered(slots, start)' BY <1>e, <2>1, <2>2 DEF Numbered
  <2>6. flush'.pc = "count" => flush'.to - start < WIN BY <1>e, <2>1, <2>3
  <2>7. flush'.pc \in {"take", "gives"} => flush'.n \in {Count(flush'.to), WIN}
    BY <2>3, <2>4
  <2> QED BY <1>f, <2>1, <2>2, <2>5, <2>6, <2>7
<1>13. CASE FlushTakes
  <2>1. UNCHANGED <<start, main, job, seq, skewed>> BY <1>13 DEF FlushTakes
  <2>2. /\ flush'.n = flush.n /\ flush'.to = flush.to /\ flush'.pc \in {"take", "gives"}
        /\ flush.pc = "take"
    BY <1>13, <1>t DEF FlushTakes, Flushes
  <2>3. \A k \in Indices : slots'[k] \in {slots[k], None}
    BY <1>13, <1>h DEF FlushTakes
  <2>4. Numbered(slots', start) BY <1>e, <2>1, <2>3, NumberedLess
  <2>5. Numbered(slots, start)' BY <2>1, <2>4 DEF Numbered
  <2>6. flush'.n \in {Count(flush'.to), WIN} BY <1>e, <2>1, <2>2
  <2> QED BY <1>f, <2>1, <2>2, <2>5, <2>6
<1>14. CASE FlushGives
  <2>1. UNCHANGED <<start, slots, main, job, skewed>>
    BY <1>14 DEF FlushGives, table, history
  <2>2. /\ flush'.n = flush.n /\ flush'.to = flush.to /\ flush'.pc = "take"
        /\ flush.pc = "gives"
    BY <1>14, <1>t DEF FlushGives, Flushes
  <2>3. \A x \in Payloads : x # flush.held => seq'[x] = seq[x]
    BY <1>14, <1>h DEF FlushGives, Frees
  <2>4. \A i \in Indices : slots[i] \in Payloads => slots[i] # flush.held
    BY <1>a DEF Apart, Outside
  <2>5. job.p \in Payloads => job.p # flush.held BY <1>a DEF Apart
  <2>6. Numbered(slots, start)' BY <1>e, <2>1, <2>3, <2>4 DEF Numbered
  <2>7. flush'.n \in {Count(flush'.to), WIN} BY <1>e, <2>1, <2>2
  <2> QED BY <1>f, <2>1, <2>2, <2>3, <2>5, <2>6, <2>7
<1>15. CASE Yields /\ FlushRotates
  <2>1. /\ flush' = NoFlush /\ UNCHANGED <<main, job, seq>> /\ skewed = "no"
        /\ main = "idle" /\ job = NoJob
    BY <1>15, <1>t DEF FlushRotates, Yields, Stages
  <2>2. /\ slots' = Rotated(slots, flush.n) /\ start' = flush.to /\ flush.n = flush.i
        /\ flush.pc = "take"
    BY <1>15 DEF FlushRotates, SetStart
  <2>3. /\ flush.n \in {Count(flush.to), WIN} /\ Cleared(slots, flush.n)
        /\ Numbered(slots, start)
    BY <1>e, <2>1, <2>2 DEF Flushing
  <2>4. Numbered(slots', flush.to) BY <1>h, <2>2, <2>3, NumberedRotated
  <2>5. Numbered(slots, start)' BY <2>1, <2>2, <2>4 DEF Numbered
  <2> QED BY <1>n, <2>1, <2>5 DEF Exact, Numbered
<1>16. CASE Receive \/ ReceiveBar \/ wlan_11n_rxba_sync_event
  BY <1>1, <1>16, ArrivalCases
<1> QED
  BY <1>2, <1>3, <1>4, <1>5, <1>6, <1>7, <1>8, <1>9, <1>11, <1>12, <1>13,
     <1>14, <1>15, <1>16
  DEF Next, Main, wlan_flush_data, FlushLooks

(* A slot tells the number of its packet, wherever the window has moved    *)
(* and over the wrap of the numbers, unless a flush was overtaken.         *)
THEOREM Slotted == Spec => []SlotsExact
<1>1. Init => Exact
  BY WindowAssumption DEF Init, Exact, NoFlush, NoJob, Empty
<1>2. Exact => SlotsExact BY DEF Exact, SlotsExact
<1>3. Inv /\ Exact /\ [Next]_vars => Exact' BY ExactStep
<1> QED BY <1>1, <1>2, <1>3, Invariance, PTL DEF Spec

-----------------------------------------------------------------------------
(* Why the window passes what is handed up.                                *)

(* The flush has emptied slot i.                                           *)
FlushPassed(i) == flush.pc \in {"take", "gives"} /\ i < flush.i

(* A number that was handed up is one of a slot that was emptied.  Unless  *)
(* the order was given up, a move is not further than half of the numbers, *)
(* and passes every slot that is emptied for it.                           *)
Past ==
  /\ flush.pc \in {"find", "aim"} => flush.i \in Indices
  /\ main \in {"shift", "shiftGives"} => job.i <= job.n
  /\ skewed = "no" /\ ~jumped =>
       /\ \A s \in ahead : \E i \in Indices :
            s = (start + i) % MOD /\ (i < job.i \/ FlushPassed(i))
       /\ main \in {"shift", "shiftGives"} =>
            job.to \in Numbers /\ After(start, job.to) \in job.n..HALF
       /\ Flushing => After(start, flush.to) <= HALF
       /\ flush.pc \in {"bound", "count"} => Count(flush.to) <= After(start, flush.to)
       /\ flush.pc \in {"take", "gives"} => flush.n <= After(start, flush.to)

LEMMA Half == HALF \in Nat /\ 2 * HALF <= MOD /\ 2 * HALF >= MOD - 1 /\ WIN <= HALF
BY WindowAssumption DEF HALF

(* The remainder of how far w is after a.                                  *)
LEMMA AfterIs ==
  ASSUME NEW a \in 0..MOD, NEW w \in Numbers
  PROVE  After(a, w) = IF w >= a THEN w - a ELSE w - a + MOD
<1> USE WindowAssumption
<1> DEFINE x == w - a + MOD
<1>1. x \in 0..(2 * MOD - 1) /\ x = w - a + MOD /\ a \in 0..MOD /\ w \in 0..(MOD - 1)
  BY DEF Numbers
<1>2. After(a, w) = x % MOD BY DEF After
<1> HIDE DEF x
<1>3. x % MOD = IF x < MOD THEN x ELSE x - MOD BY <1>1, Modulo
<1> QED BY <1>1, <1>2, <1>3

LEMMA AfterPlus ==
  ASSUME NEW a \in 0..MOD, NEW n \in 0..WIN
  PROVE  After(a, (a + n) % MOD) = n
<1> USE WindowAssumption
<1> DEFINE x == a + n
           w == x % MOD
<1>1. x \in 0..(2 * MOD - 1) /\ x = a + n BY DEF Numbers
<1> HIDE DEF x
<1>2. w = IF x < MOD THEN x ELSE x - MOD BY <1>1, Modulo
<1>3. w \in Numbers BY <1>1, Remainder
<1> HIDE DEF w
<1>4. After(a, w) = n BY <1>1, <1>2, <1>3, AfterIs
<1> QED BY <1>4 DEF w, x

(* What a move of at most half of the numbers passes is past.              *)
LEMMA Passed ==
  ASSUME NEW a \in 0..MOD, NEW w \in Numbers, NEW i \in Indices,
         i < After(a, w), After(a, w) <= HALF
  PROVE  After(w % MOD, (a + i) % MOD) >= HALF
<1> USE WindowAssumption
<1> DEFINE x == a + i
           s == x % MOD
<1>1. /\ x \in 0..(2 * MOD - 1) /\ x = a + i /\ i \in 0..(WIN - 1) /\ w \in 0..(MOD - 1)
      /\ a \in 0..MOD
  BY DEF Numbers, Indices
<1>2. w % MOD = w
  <2>1. w \in 0..(2 * MOD - 1) BY <1>1
  <2> QED BY <1>1, <2>1, Modulo
<1> HIDE DEF x
<1>3. s = IF x < MOD THEN x ELSE x - MOD BY <1>1, Modulo
<1>4. s \in Numbers BY <1>1, Remainder
<1> HIDE DEF s
<1>5. After(a, w) = IF w >= a THEN w - a ELSE w - a + MOD BY AfterIs
<1>6. After(w, s) = IF s >= w THEN s - w ELSE s - w + MOD
  <2>1. w \in 0..MOD BY <1>1
  <2> QED BY <1>4, <2>1, AfterIs
<1>7. After(w, s) >= HALF BY <1>1, <1>3, <1>5, <1>6, Half
<1> QED BY <1>2, <1>7 DEF s, x

(* A number that is not old and is beyond the window moves it by no more   *)
(* than half.                                                              *)
LEMMA ShortMove ==
  ASSUME Inv, NEW kind \in {"packet", "bar"}, NEW s \in Numbers, NEW q,
         q = IF kind = "bar" THEN (s + WIN - 1) % MOD ELSE s,
         ~Old(s), Beyond(q)
  PROVE  EndsWith(q) \in Numbers /\ After(start, EndsWith(q)) <= HALF
<1> USE WindowAssumption
<1>1. start \in 0..MOD /\ s \in 0..(MOD - 1) BY DEF Inv, TypeOK, Numbers
<1>2. After(start, s) <= HALF
  <2> DEFINE x == start + HALF
  <2>1. x \in 0..(2 * MOD - 1) /\ x = start + HALF BY <1>1, Half
  <2>2. IF x > MOD - 1 THEN ~(s >= x % MOD /\ s < start) ELSE ~(s < start \/ s > x)
    BY DEF Old
  <2> HIDE DEF x
  <2>3. x % MOD = IF x < MOD THEN x ELSE x - MOD BY <2>1, Modulo
  <2>4. After(start, s) = IF s >= start THEN s - start ELSE s - start + MOD
    BY <1>1, AfterIs
  <2> QED BY <1>1, <2>1, <2>2, <2>3, <2>4, Half
<1>3. CASE kind = "bar"
  <2> DEFINE x == s + WIN - 1
  <2>1. x \in 0..(2 * MOD - 1) /\ x = s + WIN - 1 BY <1>1
  <2>2. q = x % MOD BY <1>3
  <2> HIDE DEF x
  <2>3. q = IF x < MOD THEN x ELSE x - MOD BY <2>1, <2>2, Modulo
  <2>4. EndsWith(q) = s BY <1>1, <2>1, <2>3 DEF EndsWith
  <2> QED BY <1>2, <2>4
<1>4. CASE kind = "packet"
  <2>1. q = s BY <1>4
  <2> DEFINE x == start + WIN - 1
             end == x % MOD
  <2>2. x \in 0..(2 * MOD - 1) /\ x = start + WIN - 1 BY <1>1
  <2>3. \/ end < start /\ s < start /\ s > end
        \/ end > start /\ (s > end \/ s < start)
    BY <2>1 DEF Beyond
  <2> HIDE DEF x
  <2>4. end = IF x < MOD THEN x ELSE x - MOD BY <2>2, Modulo
  <2> HIDE DEF end
  <2>5. EndsWith(s) = IF s - WIN + 1 >= 0 THEN s - WIN + 1 ELSE MOD - (WIN - s) + 1
    BY DEF EndsWith
  <2>6. EndsWith(s) \in Numbers BY <1>1, <2>5 DEF Numbers
  <2>7. After(start, s) = IF s >= start THEN s - start ELSE s - start + MOD
    BY <1>1, AfterIs
  <2>8. After(start, EndsWith(s)) = IF EndsWith(s) >= start THEN EndsWith(s) - start
                                    ELSE EndsWith(s) - start + MOD
    BY <1>1, <2>6, AfterIs
  <2>9. After(start, EndsWith(s)) <= HALF
    BY <1>1, <1>2, <2>2, <2>3, <2>4, <2>5, <2>7, <2>8, Half
  <2> QED BY <2>1, <2>6, <2>9
<1> QED BY <1>3, <1>4

LEMMA ArrivalMoves ==
  ASSUME Inv, NEW kind, NEW s, NEW p, Arrival(kind, s, p), ~jumped', main' = "shift"
  PROVE  job'.to \in Numbers /\ After(start, job'.to) \in job'.n..HALF
<1> DEFINE q == IF kind = "bar" THEN (s + WIN - 1) % MOD ELSE s
           w == IF Beyond(q) THEN EndsWith(q) ELSE start
           new == [NoJob EXCEPT !.kind = kind, !.q = q, !.p = p, !.prev = start,
                                !.to = w, !.n = Count(w)]
<1>1. kind \in {"packet", "bar"} /\ s \in Numbers /\ Arrives(kind, s, p) BY DEF Arrival
<1>2. ~nodrop /\ ~Old(s) /\ Beyond(q)
  <2>1. ~nodrop BY <1>1 DEF Arrives
  <2>2. ~Old(s) BY <1>1, <2>1 DEF Arrives, Ends
  <2>3. Beyond(q) BY <1>1, <2>2 DEF Arrives
  <2> QED BY <2>1, <2>2, <2>3
<1>3. job' = new BY <1>1, <1>2 DEF Arrives
<1>4. w = EndsWith(q) /\ ~TooMany(w) BY <1>1, <1>2 DEF Arrives
<1>5. \A r : r = q => EndsWith(r) \in Numbers /\ After(start, EndsWith(r)) <= HALF
  BY <1>1, <1>2, ShortMove
<1>6. w \in Numbers /\ After(start, w) <= HALF BY <1>4, <1>5
<1> HIDE DEF q, w
<1>7. new.to = w /\ new.n = Count(w) BY DEF NoJob
<1>8. Count(w) <= After(start, w)
  <2>1. w \in 0..MOD BY <1>6, WindowAssumption DEF Numbers
  <2>2. Count(w) \in 1..WIN BY <2>1, Counted DEF Inv
  <2>3. start \in 0..MOD BY DEF Inv, TypeOK
  <2>4. After(start, w) = IF w >= start THEN w - start ELSE w - start + MOD
    BY <1>6, <2>3, AfterIs
  <2>5. After(start, w) \in Int
    BY <1>6, <2>3, <2>4, WindowAssumption DEF Numbers
  <2> QED BY <1>4, <2>2, <2>5 DEF TooMany
<1>9. After(start, w) \in Count(w)..HALF
  <2>1. w \in 0..MOD BY <1>6, WindowAssumption DEF Numbers
  <2>2. Count(w) \in Int BY <2>1, Counted DEF Inv
  <2>3. start \in 0..MOD BY DEF Inv, TypeOK
  <2>4. After(start, w) \in Int
    BY <1>6, <2>3, AfterIs, WindowAssumption DEF Numbers
  <2> QED BY <1>6, <1>8, <2>2, <2>4, Half
<1> HIDE DEF new
<1> QED BY <1>3, <1>6, <1>7, <1>9

LEMMA HandsUpAdds ==
  ASSUME NEW p, HandsUp(p), p \in Payloads \cup {Dropped}
  PROVE  \A s \in ahead' : s \in ahead \/ (p \in Payloads /\ s = seq[p])
BY WindowAssumption DEF HandsUp

LEMMA PastStep == Inv /\ Exact /\ Past /\ [Next]_vars => Past'
<1> SUFFICES ASSUME Inv, Exact, Past, [Next]_vars PROVE Past'
  OBVIOUS
<1> USE WindowAssumption
<1>t. TypeOK /\ Stages /\ job \in Jobs /\ flush \in Flushes BY DEF Inv, TypeOK
<1>h. /\ job.n \in 0..WIN /\ job.i \in 0..WIN /\ job.to \in 0..MOD
      /\ flush.n \in 0..WIN /\ flush.i \in 0..WIN
      /\ flush.to \in Numbers /\ flush.to \in 0..MOD
      /\ start \in 0..MOD /\ jumped \in BOOLEAN
      /\ slots \in [Indices -> Payloads \cup {None, Dropped}]
  BY <1>t DEF Jobs, Flushes, TypeOK, Numbers
<1>n. /\ NoJob.i = 0 /\ NoFlush.pc = "idle" BY DEF NoJob, NoFlush
<1>k. \A i \in Indices : i \in Int /\ i >= 0 /\ i < WIN BY DEF Indices
<1>p. /\ flush.pc \in {"find", "aim"} => flush.i \in Indices
      /\ main \in {"shift", "shiftGives"} => job.i <= job.n
  BY DEF Past
<1>e. ASSUME skewed = "no", ~jumped
      PROVE  /\ \A s \in ahead : \E i \in Indices :
                  s = (start + i) % MOD /\ (i < job.i \/ FlushPassed(i))
             /\ main \in {"shift", "shiftGives"} =>
                  job.to \in Numbers /\ After(start, job.to) \in job.n..HALF
             /\ Flushing => After(start, flush.to) <= HALF
             /\ flush.pc \in {"bound", "count"} => Count(flush.to) <= After(start, flush.to)
             /\ flush.pc \in {"take", "gives"} => flush.n <= After(start, flush.to)
  BY <1>e DEF Past
<1>x. ASSUME skewed = "no", NEW i \in Indices, slots[i] \in Payloads
      PROVE  seq[slots[i]] = (start + i) % MOD
  BY <1>x DEF Exact
<1>s. ASSUME NEW who \in {"packet", "addba"}, Skews(who), skewed' = "no"
      PROVE  skewed = "no" /\ ~Flushing
  BY <1>s DEF Skews
(* What is left to show, when the flush and the window are left alone.     *)
<1>g. ASSUME UNCHANGED <<start, flush>>, skewed' = "no" => skewed = "no", ~jumped' => ~jumped,
             main' \in {"shift", "shiftGives"} => job'.i <= job'.n,
             skewed' = "no" /\ ~jumped' =>
               /\ \A s \in ahead' : \E i \in Indices :
                    s = (start + i) % MOD /\ (i < job'.i \/ FlushPassed(i))
               /\ main' \in {"shift", "shiftGives"} =>
                    job'.to \in Numbers /\ After(start, job'.to) \in job'.n..HALF
      PROVE  Past'
  BY <1>e, <1>g, <1>p DEF Past, FlushPassed, Flushing, Count, After
<1>1. ASSUME NEW kind, NEW s, NEW p, Arrival(kind, s, p) PROVE Past'
  <2>1. UNCHANGED <<start, flush, skewed>> /\ job = NoJob
    BY <1>1, <1>t, ArrivalEffect DEF Stages
  <2>2. ahead' = ahead /\ (~jumped' => ~jumped) BY <1>1 DEF Arrival, Arrives
  <2>3. job'.i = 0 /\ (main' # "idle" => job'.n > 0) /\ main' \in {"idle", "shift", "store"}
    BY <1>1, <1>n, ArrivalEffect
  <2>4. ~jumped' /\ main' = "shift" =>
          job'.to \in Numbers /\ After(start, job'.to) \in job'.n..HALF
    BY <1>1, ArrivalMoves
  <2>5. main' \in {"shift", "shiftGives"} => job'.i <= job'.n
    BY <2>3, TypeStep DEF Inv, TypeOK, Jobs
  <2> QED BY <1>e, <1>g, <1>n, <2>1, <2>2, <2>3, <2>4, <2>5
<1>2. CASE ShiftTakes
  <2>1. PICK i \in job.i..(job.n - 1) :
          /\ slots[i] \in Payloads /\ HandsUp(slots[i])
          /\ job' = [job EXCEPT !.i = i + 1, !.held = slots[i]]
    BY <1>2 DEF ShiftTakes
  <2>2. /\ i \in Indices /\ i \in Int /\ i + 1 <= job.n /\ job.i < i + 1
    <3>1. job.i \in 0..WIN /\ job.n \in 0..WIN BY <1>h
    <3>2. i \in job.i..(job.n - 1) OBVIOUS
    <3> QED BY <3>1, <3>2 DEF Indices
  <2>3. job'.i = i + 1 /\ job'.n = job.n /\ job'.to = job.to BY <1>t, <2>1 DEF Jobs
  <2>4. UNCHANGED <<start, flush, skewed, jumped>> /\ main = "shift" /\ main' = "shiftGives"
    BY <1>2 DEF ShiftTakes
  <2>5. \A s \in ahead' : s \in ahead \/ s = seq[slots[i]] BY <2>1, HandsUpAdds
  <2>6. ASSUME skewed = "no", ~jumped, NEW s \in ahead'
        PROVE  \E k \in Indices : s = (start + k) % MOD /\ (k < job'.i \/ FlushPassed(k))
    <3>1. CASE s = seq[slots[i]] BY <1>x, <2>1, <2>2, <2>3, <2>6, <3>1
    <3>2. CASE s \in ahead
      <4>1. PICK k \in Indices : s = (start + k) % MOD /\ (k < job.i \/ FlushPassed(k))
        BY <1>e, <2>6, <3>2
      <4>2. k < job.i => k < job'.i BY <1>h, <1>k, <2>2, <2>3
      <4> QED BY <4>1, <4>2
    <3> QED BY <2>5, <3>1, <3>2
  <2> QED BY <1>e, <1>g, <2>2, <2>3, <2>4, <2>6
<1>3. CASE ShiftRotates
  <2>1. /\ flush' = flush /\ jumped' = jumped /\ main = "shift"
        /\ main' \notin {"shift", "shiftGives"} /\ SetStart(job.to)
    BY <1>3 DEF ShiftRotates
  <2>2. ASSUME skewed' = "no", ~jumped' PROVE ~Flushing /\ ahead' = {}
    <3>1. skewed = "no" /\ ~Flushing BY <1>3, <1>s, <2>2 DEF ShiftRotates
    <3>2. job.to \in Numbers /\ job.n <= After(start, job.to) /\ After(start, job.to) <= HALF
      BY <1>e, <1>h, <2>1, <2>2, <3>1, Half
    <3>3. ASSUME NEW s \in ahead, After(job.to % MOD, s) < HALF PROVE FALSE
      <4>1. PICK i \in Indices : s = (start + i) % MOD /\ (i < job.i \/ FlushPassed(i))
        BY <1>e, <2>1, <2>2, <3>1
      <4>2. i < job.i BY <3>1, <4>1 DEF FlushPassed, Flushing
      <4>3. After(start, job.to) \in Int BY <1>h, <3>2, AfterIs DEF Numbers
      <4>4. i < After(start, job.to) BY <1>h, <1>k, <1>p, <2>1, <3>2, <4>2, <4>3
      <4>5. After(job.to % MOD, s) >= HALF BY <1>h, <3>2, <4>1, <4>4, Passed
      <4>6. After(job.to % MOD, s) \in Int
        <5>1. job.to % MOD \in Numbers /\ s \in Numbers
          BY <1>h, <1>k, <4>1, Remainder
        <5>2. job.to % MOD \in 0..MOD BY <5>1 DEF Numbers
        <5> QED BY <5>1, <5>2, AfterIs DEF Numbers
      <4> QED BY <3>3, <4>5, <4>6, Half
    <3> QED BY <2>1, <3>1, <3>3 DEF SetStart
  <2> QED BY <1>p, <2>1, <2>2 DEF Past, Flushing
<1>4. CASE Given
  <2>1. job'.i = job.i /\ job'.n = job.n /\ job'.to = job.to BY <1>4, <1>t DEF Given, Jobs
  <2>2. UNCHANGED <<start, flush, skewed, jumped, ahead>> BY <1>4 DEF Given, table, history
  <2>3. main' \in {"shift", "shiftGives"} => main = "shiftGives" BY <1>4 DEF Given, Holds
  <2> QED BY <1>e, <1>g, <1>p, <2>1, <2>2, <2>3
<1>5. CASE Stores
  <2>1. UNCHANGED <<start, flush, ahead, jumped>> /\ job.i = 0
    BY <1>5, <1>t DEF Stores, Stages
  <2>2. main' \in {"idle", "scan"} /\ job'.i = 0
    BY <1>5, <1>t, <1>n, <2>1 DEF Stores, Ends, Jobs
  <2>3. skewed' = "no" => skewed = "no" BY <1>5, <1>s DEF Stores
  <2> QED BY <1>e, <1>g, <2>1, <2>2, <2>3
<1>6. CASE ScanTakes
  <2>1. job.i \in Indices /\ slots[job.i] # None BY <1>6, <1>h DEF ScanTakes, Indices
  <2>2. UNCHANGED <<start, flush, skewed, jumped>> /\ HandsUp(slots[job.i])
    BY <1>6 DEF ScanTakes
  <2>3. job'.i = job.i + 1 /\ main' \in {"scan", "scanGives"}
    BY <1>6, <1>t DEF ScanTakes, Jobs
  <2>4. \A s \in ahead' : s \in ahead \/ (slots[job.i] \in Payloads /\ s = seq[slots[job.i]])
    <3>1. slots[job.i] \in Payloads \cup {Dropped} BY <1>h, <2>1
    <3> QED BY <2>2, <3>1, HandsUpAdds
  <2>5. ASSUME skewed = "no", ~jumped, NEW s \in ahead'
        PROVE  \E k \in Indices : s = (start + k) % MOD /\ (k < job'.i \/ FlushPassed(k))
    <3>1. CASE slots[job.i] \in Payloads /\ s = seq[slots[job.i]]
      <4>1. job.i < job'.i BY <1>h, <2>3
      <4> QED BY <1>x, <2>1, <2>5, <3>1, <4>1
    <3>2. CASE s \in ahead
      <4>1. PICK k \in Indices : s = (start + k) % MOD /\ (k < job.i \/ FlushPassed(k))
        BY <1>e, <2>5, <3>2
      <4>2. k < job.i => k < job'.i BY <1>h, <1>k, <2>3
      <4> QED BY <4>1, <4>2
    <3> QED BY <2>4, <3>1, <3>2
  <2> QED BY <1>g, <2>2, <2>3, <2>5
<1>7. CASE ScanRotates
  <2> DEFINE w == (start + job.i) % MOD
  <2>1. /\ flush' = flush /\ jumped' = jumped /\ job' = NoJob /\ main' = "idle"
        /\ start' = w /\ ahead' = {s \in ahead : After(w % MOD, s) < HALF}
    BY <1>7 DEF ScanRotates, Ends, SetStart
  <2>2. start + job.i \in Int BY <1>h
  <2>3. w \in Numbers BY <2>2, Remainder
  <2>4. After(start, w) = job.i BY <1>h, AfterPlus
  <2> HIDE DEF w
  <2>5. CASE job.i > 0
    <3>1. ASSUME skewed' = "no", ~jumped' PROVE ~Flushing /\ ahead' = {}
      <4>1. skewed = "no" /\ ~Flushing BY <1>7, <1>s, <2>5, <3>1 DEF ScanRotates
      <4>2. ASSUME NEW s \in ahead, After(w % MOD, s) < HALF PROVE FALSE
        <5>1. PICK i \in Indices : s = (start + i) % MOD /\ (i < job.i \/ FlushPassed(i))
          BY <1>e, <2>1, <3>1, <4>1
        <5>2. i < job.i BY <4>1, <5>1 DEF FlushPassed, Flushing
        <5>3. After(start, w) <= HALF BY <1>h, <2>4, Half
        <5>4. After(w % MOD, s) >= HALF BY <1>h, <2>3, <2>4, <5>1, <5>2, <5>3, Passed
        <5>5. After(w % MOD, s) \in Int
          <6>0. w \in Int BY <2>3 DEF Numbers
          <6>1. w % MOD \in Numbers /\ s \in Numbers
            <7>1. w % MOD \in Numbers BY <6>0, Remainder
            <7>2. start + i \in Int BY <1>h, <1>k
            <7> QED BY <5>1, <7>1, <7>2, Remainder
          <6>2. w % MOD \in 0..MOD BY <6>1 DEF Numbers
          <6> QED BY <6>1, <6>2, AfterIs DEF Numbers
        <5> QED BY <4>2, <5>4, <5>5, Half
      <4> QED BY <2>1, <4>1, <4>2
    <3> QED BY <1>p, <2>1, <3>1 DEF Past, Flushing
  <2>6. CASE job.i = 0
    <3>1. skewed' = skewed BY <1>7, <2>6 DEF ScanRotates
    <3>2. w = IF start < MOD THEN start ELSE 0
      <4>1. start \in 0..(2 * MOD - 1) BY <1>h
      <4>2. start % MOD = IF start < MOD THEN start ELSE start - MOD BY <4>1, Modulo
      <4>3. w = start % MOD BY <1>h, <2>6 DEF w
      <4> QED BY <1>h, <4>2, <4>3
    <3>3. After(w, flush.to) = After(start, flush.to)
      <4>1. w \in 0..MOD BY <2>3 DEF Numbers
      <4>2. flush.to \in 0..(MOD - 1) BY <1>h DEF Numbers
      <4>3. After(w, flush.to) = IF flush.to >= w THEN flush.to - w ELSE flush.to - w + MOD
        BY <1>h, <4>1, AfterIs
      <4>4. After(start, flush.to) = IF flush.to >= start THEN flush.to - start
                                     ELSE flush.to - start + MOD
        BY <1>h, AfterIs
      <4> QED BY <1>h, <3>2, <4>2, <4>3, <4>4
    <3>4. \A i \in Indices : (start + i) % MOD = (w + i) % MOD
      <4>1. \A i \in Indices : (w + i) % MOD = (start + (i + job.i)) % MOD
        BY <1>h, <1>k, <2>6, MovedNumber DEF w
      <4>2. \A i \in Indices : start + (i + job.i) = start + i BY <1>h, <1>k, <2>6
      <4> QED BY <4>1, <4>2
    <3>5. ASSUME skewed = "no", flush.pc \in {"bound", "count"} PROVE w = start
      <4>1. flush.to > start BY <3>5 DEF Inv, Even
      <4>2. flush.to \in 0..(MOD - 1) BY <1>h DEF Numbers
      <4> QED BY <1>h, <3>2, <4>1, <4>2
    <3>6. ASSUME skewed = "no", ~jumped, NEW s \in ahead'
          PROVE  \E i \in Indices : s = (w + i) % MOD /\ FlushPassed(i)
      <4>1. PICK i \in Indices : s = (start + i) % MOD /\ (i < job.i \/ FlushPassed(i))
        BY <1>e, <2>1, <3>6
      <4>2. ~(i < job.i) BY <1>k, <2>6
      <4> QED BY <3>4, <4>1, <4>2
    <3>7. ASSUME skewed = "no", ~jumped, flush.pc \in {"bound", "count"}
          PROVE  Count(flush.to)' <= After(w, flush.to)
      BY <1>e, <2>1, <3>5, <3>7 DEF Count
    <3>8. \A i \in Indices : FlushPassed(i)' = FlushPassed(i) BY <2>1 DEF FlushPassed
    <3>9. \A i \in Indices : (start' + i) % MOD = (w + i) % MOD BY <2>1
    <3>10. After(start, flush.to)' = After(w, flush.to) BY <2>1 DEF After
    <3>11. ASSUME skewed' = "no", ~jumped'
           PROVE  /\ \A s \in ahead' : \E i \in Indices :
                       s = (start' + i) % MOD /\ FlushPassed(i)'
                  /\ Flushing' => After(start, flush.to)' <= HALF
                  /\ flush'.pc \in {"bound", "count"} =>
                       Count(flush.to)' <= After(start, flush.to)'
                  /\ flush'.pc \in {"take", "gives"} => flush'.n <= After(start, flush.to)'
      BY <1>e, <2>1, <3>1, <3>3, <3>6, <3>7, <3>8, <3>9, <3>10, <3>11 DEF Flushing
    <3> QED BY <1>p, <2>1, <3>11 DEF Past
  <2> QED BY <1>h, <2>5, <2>6
<1>8. CASE Create \/ DeleteFrees
  <2>1. flush' = NoFlush /\ main' = "idle" /\ ahead' = {}
    BY <1>8, <1>t DEF Create, DeleteFrees, Stages
  <2> QED BY <1>n, <2>1 DEF Past, Flushing
<1>9. CASE CreateAgain
  <2>1. flush' = flush /\ job'.i = 0 /\ job'.n > 0 BY <1>9, MoveToEffect
  <2>2. jumped' BY <1>9 DEF CreateAgain
  <2>3. job'.i <= job'.n BY <2>1, TypeStep DEF Inv, TypeOK, Jobs
  <2> QED BY <1>p, <2>1, <2>2, <2>3 DEF Past
<1>10. CASE Delete
  <2> DEFINE w == (start + WIN) % MOD
  <2>1. /\ UNCHANGED <<start, flush, skewed, jumped, ahead>> /\ job = NoJob
        /\ job' = [NoJob EXCEPT !.kind = "delba", !.to = w, !.n = Count(w)]
    BY <1>10, <1>t DEF Delete, MoveTo, Stages, table
  <2>2. w \in Numbers /\ w \in 0..MOD
    <3>1. start + WIN \in Int BY <1>h
    <3>2. w \in Numbers BY <3>1, Remainder
    <3> QED BY <3>2 DEF Numbers
  <2>3. After(start, w) = WIN BY <1>h, AfterPlus
  <2> HIDE DEF w
  <2>4. job'.to = w /\ job'.n = Count(w) /\ job'.i = 0 BY <1>n, <2>1 DEF NoJob
  <2>5. Count(w) \in 1..WIN BY <2>2, Counted DEF Inv
  <2>6. After(start, w) \in Count(w)..HALF BY <2>3, <2>5, Half
  <2> QED BY <1>e, <1>g, <1>n, <2>1, <2>2, <2>4, <2>5, <2>6
<1>11. CASE UNCHANGED <<start, main, job, flush, ahead, skewed, jumped>>
  BY <1>e, <1>g, <1>p, <1>11
<1>12. CASE SetNoDrop \/ TimerExpires \/ UNCHANGED vars
  BY <1>11, <1>12 DEF SetNoDrop, TimerExpires, table, history, vars
(* What is left to show, when the main work and the window are left alone. *)
<1>f. ASSUME UNCHANGED <<start, main, job, skewed>>, ~jumped' => ~jumped,
             flush'.pc \in {"find", "aim"} => flush'.i \in Indices,
             skewed = "no" /\ ~jumped' =>
               /\ \A s \in ahead' : \E i \in Indices :
                    s = (start + i) % MOD /\ (i < job.i \/ FlushPassed(i)')
               /\ Flushing' => After(start, flush'.to) <= HALF
               /\ flush'.pc \in {"bound", "count"} =>
                    Count(flush'.to) <= After(start, flush'.to)
               /\ flush'.pc \in {"take", "gives"} => flush'.n <= After(start, flush'.to)
      PROVE  Past'
  BY <1>e, <1>f, <1>p DEF Past, FlushPassed, Flushing, Count, After
<1>13. CASE FlushLooks
  <2>1. UNCHANGED <<start, main, job, skewed, ahead>>
    BY <1>13, FlushLooksEffect
    DEF FlushLooks, FlushBegins, FlushFinds, FlushAims, FlushCompares, FlushBounds,
        FlushCounts, history
  <2>2. flush.pc \notin {"take", "gives"}
    BY <1>13 DEF FlushLooks, FlushBegins, FlushFinds, FlushAims, FlushCompares,
                 FlushBounds, FlushCounts
  <2>3. ASSUME skewed = "no", ~jumped, NEW s \in ahead
        PROVE  \E i \in Indices : s = (start + i) % MOD /\ i < job.i
    BY <1>e, <2>2, <2>3 DEF FlushPassed
  <2>4. CASE FlushBegins
    <3>1. flush'.pc = "find" /\ flush'.i = WIN - 1 /\ jumped' = jumped
      BY <2>4 DEF FlushBegins, NoFlush, history
    <3> QED BY <1>f, <2>1, <2>3, <3>1 DEF Flushing, Indices
  <2>5. CASE FlushFinds
    <3>1. /\ flush'.pc \in {"idle", "find", "aim"} /\ jumped' = jumped
          /\ flush'.pc \in {"find", "aim"} =>
               flush'.i = flush.i \/ (flush'.i = flush.i - 1 /\ flush.i # 0)
      BY <2>5, <1>t, <1>n DEF FlushFinds, Flushes, history
    <3>2. flush.i \in Indices BY <1>p, <2>5 DEF FlushFinds
    <3>3. flush'.pc \in {"find", "aim"} => flush'.i \in Indices BY <3>1, <3>2 DEF Indices
    <3> QED BY <1>f, <2>1, <2>3, <3>1, <3>3 DEF Flushing
  <2>6. CASE FlushAims
    <3>1. /\ flush'.pc = "compare" /\ jumped' = jumped /\ flush.i \in Indices
          /\ flush'.to = (start + flush.i + 1) % MOD
      BY <2>6, <1>p DEF FlushAims, NoFlush, history
    <3>2. flush.i + 1 \in 0..WIN /\ start + (flush.i + 1) = start + flush.i + 1
      <4>1. flush.i \in 0..(WIN - 1) /\ start \in 0..MOD BY <1>h, <3>1 DEF Indices
      <4> QED BY <4>1
    <3>3. After(start, flush'.to) = flush.i + 1 BY <1>h, <3>1, <3>2, AfterPlus
    <3>4. After(start, flush'.to) <= HALF BY <3>2, <3>3, Half
    <3> QED BY <1>f, <2>1, <2>3, <3>1, <3>4 DEF Flushing
  <2>7. CASE FlushCompares \/ FlushBounds \/ FlushCounts
    <3>1. /\ flush'.to = flush.to /\ Flushing /\ (~jumped' => ~jumped)
          /\ flush'.pc \in {"bound", "count", "take"}
      <4>1. CASE FlushCompares
        BY <1>h, <1>t, <4>1 DEF FlushCompares, Flushes, Flushing
      <4>2. CASE FlushBounds
        BY <1>t, <4>2 DEF FlushBounds, Flushes, Flushing, history
      <4>3. CASE FlushCounts
        BY <1>t, <4>3 DEF FlushCounts, Flushes, Flushing, history
      <4> QED BY <2>7, <4>1, <4>2, <4>3
    <3>2. After(start, flush.to) \in Int /\ Count(flush.to) \in Int /\ start \in Int
          /\ flush.to \in Int
      <4>1. flush.to \in Numbers /\ flush.to \in 0..MOD /\ start \in 0..MOD BY <1>h
      <4>2. Count(flush.to) \in Int BY <4>1, Counted DEF Inv
      <4>3. After(start, flush.to) \in Int BY <4>1, AfterIs
      <4> QED BY <4>1, <4>2, <4>3
    <3>3. ASSUME skewed = "no", ~jumped' PROVE Count(flush.to) <= After(start, flush.to)
      <4>1. CASE FlushCompares
        <5>1. ~TooMany(flush.to) BY <3>3, <4>1 DEF FlushCompares
        <5> QED BY <3>2, <5>1 DEF TooMany
      <4>2. CASE FlushBounds \/ FlushCounts
        BY <1>e, <3>1, <3>3, <4>2 DEF FlushBounds, FlushCounts
      <4> QED BY <2>7, <4>1, <4>2
    <3>4. ASSUME skewed = "no", flush'.pc = "take" PROVE flush'.n = Count(flush.to)
      <4>1. CASE FlushCompares
        <5>1. flush'.n = WIN /\ ~(flush.to > start)
          BY <1>t, <3>4, <4>1 DEF FlushCompares, Flushes
        <5> QED BY <5>1 DEF Count
      <4>2. CASE FlushBounds
        <5>1. flush'.n = WIN /\ ~(flush.to - start < WIN)
          BY <1>t, <3>4, <4>2 DEF FlushBounds, Flushes
        <5> QED BY <5>1 DEF Count
      <4>3. CASE FlushCounts
        <5>1. flush'.n = flush.to - start /\ flush.pc = "count"
          BY <1>t, <3>4, <4>3 DEF FlushCounts, Flushes
        <5>2. flush.to > start /\ flush.to - start < WIN
          BY <3>4, <5>1 DEF Inv, Even, Exact
        <5> QED BY <5>1, <5>2 DEF Count
      <4> QED BY <2>7, <4>1, <4>2, <4>3
    <3> QED BY <1>e, <1>f, <2>1, <2>3, <3>1, <3>3, <3>4
  <2> QED BY <1>13, <2>4, <2>5, <2>6, <2>7 DEF FlushLooks
<1>14. CASE FlushTakes
  <2>1. UNCHANGED <<start, main, job, skewed, jumped>> BY <1>14 DEF FlushTakes
  <2>2. /\ flush'.i = flush.i + 1 /\ flush'.n = flush.n /\ flush'.to = flush.to
        /\ flush'.pc \in {"take", "gives"} /\ flush.pc = "take"
    BY <1>14, <1>t DEF FlushTakes, Flushes
  <2>i. flush.i \in Indices /\ flush.i \in Int BY <1>14, <1>h DEF FlushTakes, Indices
  <2>3. \A s \in ahead' :
          s \in ahead \/ (slots[flush.i] \in Payloads /\ s = seq[slots[flush.i]])
    <3>1. CASE slots[flush.i] \in Payloads
      <4>1. HandsUp(slots[flush.i]) BY <1>14, <3>1 DEF FlushTakes
      <4> QED BY <3>1, <4>1, HandsUpAdds
    <3>2. CASE slots[flush.i] \notin Payloads BY <1>14, <3>2 DEF FlushTakes
    <3> QED BY <3>1, <3>2
  <2>4. \A k \in Indices : FlushPassed(k) => FlushPassed(k)'
    BY <1>k, <2>2, <2>i DEF FlushPassed
  <2>6. ASSUME skewed = "no", ~jumped, NEW s \in ahead'
        PROVE  \E k \in Indices : s = (start + k) % MOD /\ (k < job.i \/ FlushPassed(k)')
    <3>1. CASE slots[flush.i] \in Payloads /\ s = seq[slots[flush.i]]
      <4>1. flush.i < flush'.i BY <2>2, <2>i
      <4>2. s = (start + flush.i) % MOD BY <1>x, <2>i, <2>6, <3>1
      <4>3. \A k \in Indices : k < flush'.i => FlushPassed(k)' BY <2>2 DEF FlushPassed
      <4> QED BY <2>i, <4>1, <4>2, <4>3
    <3>2. CASE s \in ahead
      <4>1. PICK k \in Indices : s = (start + k) % MOD /\ (k < job.i \/ FlushPassed(k))
        BY <1>e, <2>6, <3>2
      <4> QED BY <2>4, <4>1
    <3> QED BY <2>3, <3>1, <3>2
  <2>7. Flushing BY <2>2 DEF Flushing
  <2>8. flush'.pc \notin {"find", "aim", "bound", "count"} BY <2>2
  <2> QED BY <1>e, <1>f, <2>1, <2>2, <2>6, <2>7, <2>8
<1>15. CASE FlushGives
  <2>1. UNCHANGED <<start, main, job, skewed, jumped, ahead>>
    BY <1>15 DEF FlushGives, table, history
  <2>2. /\ flush'.i = flush.i /\ flush'.n = flush.n /\ flush'.to = flush.to
        /\ flush'.pc = "take" /\ flush.pc = "gives"
    BY <1>15, <1>t DEF FlushGives, Flushes
  <2>3. \A k \in Indices : FlushPassed(k) => FlushPassed(k)' BY <2>2 DEF FlushPassed
  <2>4. Flushing BY <2>2 DEF Flushing
  <2>5. ASSUME skewed = "no", ~jumped, NEW s \in ahead'
        PROVE  \E k \in Indices : s = (start + k) % MOD /\ (k < job.i \/ FlushPassed(k)')
    <3>1. PICK k \in Indices : s = (start + k) % MOD /\ (k < job.i \/ FlushPassed(k))
      BY <1>e, <2>1, <2>5
    <3> QED BY <2>3, <3>1
  <2> QED BY <1>e, <1>f, <2>1, <2>2, <2>4, <2>5
<1>16. CASE Yields /\ FlushRotates
  <2>1. /\ flush' = NoFlush /\ UNCHANGED <<main, job, jumped>> /\ flush.n = flush.i
        /\ flush.pc = "take" /\ SetStart(flush.to)
        /\ skewed' = "no" => skewed = "no" /\ main = "idle"
    BY <1>16 DEF FlushRotates, Yields
  <2>2. ASSUME skewed' = "no", ~jumped' PROVE ahead' = {}
    <3>1. /\ flush.n <= After(start, flush.to) /\ After(start, flush.to) <= HALF
          /\ skewed = "no"
      BY <1>e, <2>1, <2>2 DEF Flushing
    <3>2. ASSUME NEW s \in ahead, After(flush.to % MOD, s) < HALF PROVE FALSE
      <4>1. PICK i \in Indices : s = (start + i) % MOD /\ (i < job.i \/ FlushPassed(i))
        BY <1>e, <2>1, <2>2, <3>1
      <4>2. job.i = 0 BY <1>n, <1>t, <2>1, <2>2 DEF Stages
      <4>3. i < flush.n BY <1>k, <2>1, <4>1, <4>2 DEF FlushPassed
      <4>4. After(start, flush.to) \in Int BY <1>h, AfterIs DEF Numbers
      <4>5. i < After(start, flush.to) BY <1>h, <1>k, <3>1, <4>3, <4>4
      <4>6. After(flush.to % MOD, s) >= HALF BY <1>h, <3>1, <4>1, <4>5, Passed
      <4>7. After(flush.to % MOD, s) \in Int
        <5>1. flush.to % MOD \in Numbers /\ s \in Numbers
          BY <1>h, <1>k, <4>1, Remainder
        <5>2. flush.to % MOD \in 0..MOD BY <5>1 DEF Numbers
        <5> QED BY <5>1, <5>2, AfterIs DEF Numbers
      <4> QED BY <3>2, <4>6, <4>7, Half
    <3> QED BY <2>1, <3>2 DEF SetStart
  <2>3. skewed' = "no" => main' \notin {"shift", "shiftGives"} BY <2>1
  <2> QED BY <1>n, <1>p, <2>1, <2>2, <2>3 DEF Past, Flushing
<1>17. CASE Receive \/ ReceiveBar \/ wlan_11n_rxba_sync_event
  BY <1>1, <1>17, ArrivalCases
<1> QED
  BY <1>2, <1>3, <1>4, <1>5, <1>6, <1>7, <1>8, <1>9, <1>10, <1>12, <1>13,
     <1>14, <1>15, <1>16, <1>17
  DEF Next, Main, wlan_flush_data, FlushLooks

(* Between packets the window has passed every number that was taken for   *)
(* the stack, so that what is older than any of them is dropped, unless    *)
(* the order was given up or a flush overtaken.                            *)
THEOREM InOrder == Spec => []DeliveredIsPast
<1>1. Init => Exact /\ Past
  BY WindowAssumption DEF Init, Exact, Past, Flushing, NoFlush, NoJob, Empty
<1>2. ASSUME Inv, Past, Calm, skewed = "no", ~jumped PROVE ahead = {}
  <2>1. \A s \in ahead : \E i \in Indices :
          s = (start + i) % MOD /\ (i < job.i \/ FlushPassed(i))
    BY <1>2 DEF Past
  <2>2. job.i = 0 /\ \A i \in Indices : ~FlushPassed(i)
    BY <1>2 DEF Inv, Stages, Calm, NoJob, FlushPassed
  <2>3. \A i \in Indices : ~(i < job.i) BY <2>2 DEF Indices
  <2> QED BY <2>1, <2>2, <2>3
<1>3. Inv /\ Past => DeliveredIsPast BY <1>2 DEF DeliveredIsPast
<1>4. Inv /\ (Exact /\ Past) /\ [Next]_vars => (Exact /\ Past)' BY ExactStep, PastStep
<1> QED BY <1>1, <1>3, <1>4, Invariance, PTL DEF Spec

-----------------------------------------------------------------------------
(* What the comparisons of the code mean on the circle of the numbers.     *)

(* The comparisons with which a packet is judged, written case by case for *)
(* the wrap, are distances from the window: it is beyond when it is WIN or *)
(* more after start; it is old when it is more than half of all numbers    *)
(* after it (at exactly half the two branches of the code disagree: only   *)
(* the one for a window near the wrap takes it for old); a slot is the     *)
(* distance from start; and the window that is moved ends with the packet. *)
THEOREM WindowTests ==
  ASSUME TypeOK, NEW s \in Numbers
  PROVE  /\ Beyond(s) <=> After(start, s) >= WIN
         /\ Old(s) <=> IF start + HALF < MOD THEN After(start, s) > HALF
                       ELSE After(start, s) >= HALF
         /\ ~Beyond(s) => Index(s, start) = After(start, s)
         /\ EndsWith(s) \in Numbers /\ After(EndsWith(s), s) = WIN - 1
         /\ Index(s, EndsWith(s)) = WIN - 1
<1> USE WindowAssumption
<1>1. start \in 0..MOD /\ s \in 0..(MOD - 1) BY DEF TypeOK, Numbers
<1>2. After(start, s) = IF s >= start THEN s - start ELSE s - start + MOD
  BY <1>1, AfterIs
<1>3. /\ Beyond(s) <=> After(start, s) >= WIN
      /\ ~Beyond(s) => Index(s, start) = After(start, s)
  <2> DEFINE x == start + WIN - 1
             end == x % MOD
  <2>1. x \in 0..(2 * MOD - 1) /\ x = start + WIN - 1 BY <1>1
  <2>2. Beyond(s) <=> \/ end < start /\ s < start /\ s > end
                      \/ end > start /\ (s > end \/ s < start)
    BY DEF Beyond
  <2> HIDE DEF x
  <2>3. end = IF x < MOD THEN x ELSE x - MOD BY <2>1, Modulo
  <2> HIDE DEF end
  <2>4. Beyond(s) <=> After(start, s) >= WIN BY <1>1, <1>2, <2>1, <2>2, <2>3
  <2> QED BY <1>1, <1>2, <2>4 DEF Index
<1>4. Old(s) <=> IF start + HALF < MOD THEN After(start, s) > HALF
                 ELSE After(start, s) >= HALF
  <2> DEFINE x == start + HALF
  <2>1. x \in 0..(2 * MOD - 1) /\ x = start + HALF BY <1>1, Half
  <2>2. Old(s) <=> IF x > MOD - 1 THEN s >= x % MOD /\ s < start ELSE s < start \/ s > x
    BY DEF Old
  <2> HIDE DEF x
  <2>3. x % MOD = IF x < MOD THEN x ELSE x - MOD BY <2>1, Modulo
  <2> QED BY <1>1, <1>2, <2>1, <2>2, <2>3, Half
<1>5. /\ EndsWith(s) \in Numbers /\ After(EndsWith(s), s) = WIN - 1
      /\ Index(s, EndsWith(s)) = WIN - 1
  <2>1. EndsWith(s) = IF s - WIN + 1 >= 0 THEN s - WIN + 1 ELSE MOD - (WIN - s) + 1
    BY DEF EndsWith
  <2>2. EndsWith(s) \in 0..(MOD - 1) BY <1>1, <2>1
  <2>3. After(EndsWith(s), s) = IF s >= EndsWith(s) THEN s - EndsWith(s)
                                ELSE s - EndsWith(s) + MOD
    <3>1. EndsWith(s) \in 0..MOD BY <2>2
    <3> QED BY <3>1, AfterIs
  <2>4. Index(s, EndsWith(s)) = IF s >= EndsWith(s) THEN s - EndsWith(s)
                                ELSE s + MOD - EndsWith(s)
    BY DEF Index
  <2> QED BY <1>1, <2>1, <2>2, <2>3, <2>4 DEF Numbers
<1> QED BY <1>3, <1>4, <1>5

-----------------------------------------------------------------------------
(* The order of what is handed up, step by step.                           *)

(* What is newly in the hands of a task comes from a slot.                 *)
LEMMA TakenFromSlot ==
  ASSUME Inv, [Next]_vars, NEW p \in Payloads,
         p \in {job'.held, flush'.held} \ {job.held, flush.held}
  PROVE  \E i \in Indices : slots[i] = p
<1> USE WindowAssumption
<1>t. Stages /\ job \in Jobs /\ flush \in Flushes BY DEF Inv, TypeOK
<1>h. job.i \in 0..WIN /\ job.n \in 0..WIN /\ flush.i \in 0..WIN /\ flush.n \in 0..WIN
  BY <1>t DEF Jobs, Flushes
<1>n. NoJob.held = None /\ NoFlush.held = None BY DEF NoJob, NoFlush
<1>1. ASSUME NEW kind, NEW s, NEW r, Arrival(kind, s, r) PROVE FALSE
  <2>1. flush' = flush /\ (job' = NoJob \/ job'.held = None) BY <1>1, ArrivalEffect
  <2> QED BY <1>n, <2>1
<1>2. CASE ShiftTakes
  <2>1. PICK i \in job.i..(job.n - 1) : job' = [job EXCEPT !.i = i + 1, !.held = slots[i]]
    BY <1>2 DEF ShiftTakes
  <2>2. i \in Indices
    <3>1. i \in job.i..(job.n - 1) OBVIOUS
    <3> QED BY <1>h, <3>1 DEF Indices
  <2>3. job'.held = slots[i] BY <1>t, <2>1 DEF Jobs
  <2>4. flush' = flush BY <1>2 DEF ShiftTakes
  <2> QED BY <2>2, <2>3, <2>4
<1>3. CASE ShiftRotates
  <2>1. flush' = flush /\ (job' = NoJob \/ job' = [job EXCEPT !.n = 0, !.i = 0])
    BY <1>3 DEF ShiftRotates
  <2> QED BY <1>n, <1>t, <2>1 DEF Jobs
<1>4. CASE Given
  <2>1. flush' = flush /\ job'.held = None BY <1>t, <1>4 DEF Given, Jobs
  <2> QED BY <2>1
<1>5. CASE Stores
  <2>1. flush' = flush BY <1>5 DEF Stores
  <2>2. job' = NoJob \/ job' = [job EXCEPT !.p = None, !.n = 0, !.q = 0, !.to = 0]
    BY <1>5 DEF Stores, Ends
  <2> QED BY <1>n, <1>t, <2>1, <2>2 DEF Jobs
<1>6. CASE ScanTakes
  <2>1. flush' = flush /\ job.i < WIN BY <1>6 DEF ScanTakes
  <2>2. job'.held \in {None, slots[job.i]} BY <1>t, <1>6 DEF ScanTakes, Jobs
  <2>3. job.i \in Indices BY <1>h, <2>1 DEF Indices
  <2> QED BY <2>1, <2>2, <2>3
<1>7. CASE ScanRotates
  <2>1. flush' = flush /\ job' = NoJob BY <1>7 DEF ScanRotates, Ends
  <2> QED BY <1>n, <2>1
<1>8. CASE Create \/ SetNoDrop \/ TimerExpires
  BY <1>8 DEF Create, SetNoDrop, TimerExpires
<1>9. CASE CreateAgain \/ Delete
  <2>1. flush' = flush /\ job'.held = None BY <1>9, MoveToEffect
  <2> QED BY <2>1
<1>10. CASE DeleteFrees
  <2>1. flush' = NoFlush /\ job' = NoJob BY <1>10 DEF DeleteFrees
  <2> QED BY <1>n, <2>1
<1>11. CASE FlushLooks
  <2>1. job' = job /\ flush'.held = None BY <1>11, FlushLooksEffect
  <2> QED BY <2>1
<1>12. CASE FlushTakes
  <2>1. job' = job /\ flush.i < flush.n BY <1>12 DEF FlushTakes
  <2>2. flush'.held \in {flush.held, slots[flush.i]} BY <1>t, <1>12 DEF FlushTakes, Flushes
  <2>3. flush.i \in Indices BY <1>h, <2>1 DEF Indices
  <2> QED BY <2>1, <2>2, <2>3
<1>13. CASE FlushGives
  <2>1. job' = job /\ flush'.held = None BY <1>t, <1>13 DEF FlushGives, Flushes
  <2> QED BY <2>1
<1>14. CASE FlushRotates
  <2>1. job' = job /\ flush' = NoFlush BY <1>14 DEF FlushRotates
  <2> QED BY <1>n, <2>1
<1>15. CASE UNCHANGED vars BY <1>15 DEF vars
<1>16. CASE Receive \/ ReceiveBar \/ wlan_11n_rxba_sync_event
  BY <1>1, <1>16, ArrivalCases
<1> QED
  BY <1>2, <1>3, <1>4, <1>5, <1>6, <1>7, <1>8, <1>9, <1>10, <1>11, <1>12, <1>13, <1>14,
     <1>15, <1>16
  DEF Next, Main, wlan_flush_data, FlushLooks

(* The slots before one with a payload in it are those that the main work  *)
(* and the flush have emptied.                                             *)
LEMMA SlotAfter ==
  ASSUME Inv, Exact, Past, skewed = "no", ~jumped,
         NEW i \in Indices, slots[i] \in Payloads, NEW r \in ahead
  PROVE  After(start, r) < After(start, seq[slots[i]])
<1> USE WindowAssumption
<1>1. PICK k \in Indices : r = (start + k) % MOD /\ (k < job.i \/ FlushPassed(k))
  BY DEF Past
<1>2. /\ start \in 0..MOD /\ job.i \in Int /\ flush.i \in Int
      /\ i \in 0..WIN /\ k \in 0..WIN
  BY DEF Inv, TypeOK, Jobs, Flushes, Indices
<1>3. ~(i < job.i) /\ ~FlushPassed(i)
  BY DEF Inv, Even, Cleared, FlushPassed, Flushing
<1>4. k < i
  <2>1. CASE k < job.i BY <1>2, <1>3, <2>1
  <2>2. CASE FlushPassed(k) BY <1>2, <1>3, <2>2 DEF FlushPassed
  <2> QED BY <1>1, <2>1, <2>2
<1>5. seq[slots[i]] = (start + i) % MOD BY DEF Exact
<1>6. After(start, (start + i) % MOD) = i /\ After(start, (start + k) % MOD) = k
  BY <1>2, AfterPlus
<1> QED BY <1>1, <1>4, <1>5, <1>6

(* Whoever takes a packet to hand it to the stack, the main work moving    *)
(* the window, the main work scanning it or the flush between its own      *)
(* steps and theirs: the packet comes after every one that was taken       *)
(* before and that the window has not passed yet.  It is the order of the  *)
(* taking: the calls by which the main work and the flush then hand their  *)
(* packets up may overtake each other.                                     *)
TakenInOrder ==
  \A p \in Payloads :
    p \in {job'.held, flush'.held} \ {job.held, flush.held}
      /\ skewed = "no" /\ ~jumped =>
        \A r \in ahead : After(start, r) < After(start, seq[p])

(* No step takes a packet for the stack that comes before, or is the same  *)
(* as, one that was taken since the window last moved, unless the order    *)
(* was given up or a flush overtaken.                                      *)
THEOREM InOrderSteps == Spec => [][TakenInOrder]_vars
<1>1. Init => Exact /\ Past
  BY WindowAssumption DEF Init, Exact, Past, Flushing, NoFlush, NoJob, Empty
<1>2. Inv /\ (Exact /\ Past) /\ [Next]_vars => (Exact /\ Past)' BY ExactStep, PastStep
<1>3. Inv /\ (Exact /\ Past) /\ [Next]_vars => [TakenInOrder]_vars
  <2>1. SUFFICES ASSUME Inv, Exact, Past, [Next]_vars, NEW p \in Payloads,
                        p \in {job'.held, flush'.held} \ {job.held, flush.held},
                        skewed = "no", ~jumped, NEW r \in ahead
                 PROVE  After(start, r) < After(start, seq[p])
    BY DEF TakenInOrder
  <2>2. PICK i \in Indices : slots[i] = p BY <2>1, TakenFromSlot
  <2> QED BY <2>1, <2>2, SlotAfter
<1> QED BY <1>1, <1>2, <1>3, Invariance, PTL DEF Spec

(* Under the conditions of the order, start_win goes to a number that is   *)
(* at most half of all numbers after it: the window is never moved back.   *)
WindowForward ==
  start' # start /\ live /\ live' /\ skewed' = "no" /\ ~jumped' =>
    start' \in Numbers /\ After(start, start') <= HALF

(* No step moves the window back, whoever moves it: a packet or a block    *)
(* ack request, the scan, a DELBA or the flush, which computed where to    *)
(* go before it waited.                                                    *)
THEOREM OnlyForward == Spec => [][WindowForward]_vars
<1> USE WindowAssumption
<1>1. Init => Exact /\ Past
  BY DEF Init, Exact, Past, Flushing, NoFlush, NoJob, Empty
<1>2. Inv /\ (Exact /\ Past) /\ [Next]_vars => (Exact /\ Past)' BY ExactStep, PastStep
<1>3. Inv /\ (Exact /\ Past) /\ [Next]_vars => [WindowForward]_vars
  <2>1. SUFFICES ASSUME Inv, Exact, Past, [Next]_vars, start' # start, live, live',
                        skewed' = "no", ~jumped'
                 PROVE  start' \in Numbers /\ After(start, start') <= HALF
    BY DEF WindowForward
  <2>t. job \in Jobs /\ flush \in Flushes /\ start \in 0..MOD BY <2>1 DEF Inv, TypeOK
  <2>2. CASE ShiftRotates
    <3>1. main = "shift" /\ start' = job.to /\ jumped' = jumped /\ skewed = "no"
      BY <2>1, <2>2 DEF ShiftRotates, SetStart, Skews
    <3>2. job.to \in Numbers /\ After(start, job.to) \in job.n..HALF
      BY <2>1, <3>1 DEF Past
    <3>3. job.n \in Int /\ HALF \in Int BY <2>t, Half DEF Jobs
    <3> QED BY <3>1, <3>2, <3>3
  <2>3. CASE ScanRotates
    <3>1. start' = (start + job.i) % MOD BY <2>3 DEF ScanRotates, SetStart
    <3>2. job.i \in 0..WIN /\ start + job.i \in Int BY <2>t DEF Jobs
    <3>3. After(start, start') = job.i BY <2>t, <3>1, <3>2, AfterPlus
    <3>4. start' \in Numbers BY <3>1, <3>2, Remainder
    <3> QED BY <3>2, <3>3, <3>4, Half
  <2>4. CASE FlushRotates
    <3>1. flush.pc = "take" /\ start' = flush.to /\ jumped' = jumped /\ skewed = "no"
      BY <2>1, <2>4 DEF FlushRotates, SetStart
    <3>2. After(start, flush.to) <= HALF BY <2>1, <3>1 DEF Past, Flushing
    <3> QED BY <2>t, <3>1, <3>2 DEF Flushes
  <2>5. CASE Create \/ DeleteFrees BY <2>1, <2>5 DEF Create, DeleteFrees
  <2>6. ASSUME ~ShiftRotates, ~ScanRotates, ~FlushRotates, ~(Create \/ DeleteFrees)
        PROVE  start' = start
    BY <2>1, <2>6, ArrivalCases, ArrivalEffect, MoveToEffect, FlushLooksEffect
    DEF Next, Main, wlan_flush_data, FlushLooks, ShiftTakes, Given, Stores, ScanTakes,
        SetNoDrop, TimerExpires, FlushTakes, FlushGives, table, vars
  <2> QED BY <2>1, <2>2, <2>3, <2>4, <2>5, <2>6
<1> QED BY <1>1, <1>2, <1>3, Invariance, PTL DEF Spec

=============================================================================
