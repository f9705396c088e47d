------------------------------ MODULE RxReorder ------------------------------
(***************************************************************************)
(* Reordering of received 802.11n packets (mlan_11n_rxreorder.c), for one  *)
(* sender and one traffic class: the window of slots, the packets, block   *)
(* ack requests and set-ups that move it, and the timeout that flushes it. *)
(*                                                                         *)
(* Everything but the flush runs in the main work, whose task has a higher *)
(* priority than the timer tasklet's: it leaves the processor only where   *)
(* handing a packet to the stack blocks on the heap's mutex.  The flush is *)
(* interrupted anywhere, but not inside rx_pkt_lock.                       *)
(*                                                                         *)
(* An A-MSDU in a session without them and the packets that come while     *)
(* there is no table go straight to the stack and are left out.            *)
(***************************************************************************)
EXTENDS Integers, FiniteSets, Functions

CONSTANTS Payloads,   \* the mlan_buffers of received packets
          None,       \* MNULL
          Dropped,    \* RX_PKT_DROPPED_IN_FW
          MOD,        \* MAX_TID_VALUE
          WIN,        \* win_size
          MAX_LATE    \* bounds what arrives after a flush was overtaken

ASSUME WindowAssumption ==
  /\ WIN \in Nat /\ WIN >= 2 /\ MOD \in Nat /\ 2 * WIN <= MOD
  /\ MAX_LATE \in Nat
  /\ None # Dropped /\ None \notin Payloads /\ Dropped \notin Payloads

HALF == MOD \div 2    \* TWOPOW11

VARIABLES
  live,             \* the table exists
  start, slots,     \* start_win and rx_reorder_ptr
  nodrop,           \* force_no_drop
  is_set, timer,    \* timer_is_set; the timer runs
  due,              \* its work is in the timer tasklet's queue
  main, job,        \* where the main work is, and its locals
  flush,            \* wlan_flush_data and its locals
  owned, seq,       \* the payloads the driver has, and their numbers
  fault,            \* the flush reads a freed table, or outside the slots
  ahead,            \* history: the numbers taken to be handed up that start has
                    \*   not passed
  skewed,           \* history: who came between a flush and its rotation
  late,             \* history: how many have come since
  jumped            \* history: the order was given up

table == <<live, start, slots, nodrop>>
timing == <<is_set, timer, due>>
history == <<ahead, skewed, late, jumped>>
vars == <<table, timing, main, job, flush, owned, seq, fault, history>>

Numbers == 0..(MOD - 1)
Indices == 0..(WIN - 1)
Empty == [i \in Indices |-> None]
Holds == {"shiftGives", "scanGives"}
NoJob == [kind |-> "none", q |-> 0, p |-> None, prev |-> 0, to |-> 0, n |-> 0,
          i |-> 0, held |-> None]
NoFlush == [pc |-> "idle", i |-> 0, n |-> 0, to |-> 0, held |-> None]

Init ==
  /\ live = FALSE /\ start = 0 /\ slots = Empty /\ nodrop = FALSE
  /\ is_set = FALSE /\ timer = FALSE /\ due = FALSE
  /\ main = "idle" /\ job = NoJob /\ flush = NoFlush
  /\ owned = {} /\ seq = [p \in Payloads |-> 0]
  /\ fault = "no"
  /\ ahead = {} /\ skewed = "no" /\ late = 0 /\ jumped = FALSE

-----------------------------------------------------------------------------
(* The main work leaves the processor to the tasklet.                      *)
Yields == main \in Holds \cup {"idle"}

(* How far b is after a.                                                   *)
After(a, b) == (b - a + MOD) % MOD

(* The flush has computed where it will move the window to.                *)
Flushing == flush.pc \in {"compare", "bound", "count", "take", "gives"}

(* Mutant: the bound of the window is left out.                            *)
CountUncapped(w) == IF w > start THEN w - start ELSE WIN

(* Mutant: the last slot before w is kept.                                 *)
CountToLast(w) == IF w > start THEN (IF w - start < WIN THEN w - start - 1 ELSE WIN) ELSE WIN

(* The slots that are emptied when the window moves to w: all of them when *)
(* w is not the greater number.                                            *)
Count(w) == IF w > start THEN (IF w - start < WIN THEN w - start ELSE WIN) ELSE WIN

(* A move over the wrap that empties more than it passes.                  *)
TooMany(w) == Count(w) > After(start, w)

(* The slots s with those from i to j emptied.                             *)
Emptied(s, i, j) == [k \in Indices |-> IF k \in i..j THEN None ELSE s[k]]

(* n slots are moved out, the others move down.  Each is cleared after it  *)
(* was moved: for n = 0 this clears them all.                              *)
Rotated(s, n) ==
  [k \in Indices |-> IF n > 0 /\ k + n < WIN THEN s[k + n]
                     ELSE IF k >= n THEN None ELSE s[k]]

(* start_win is set; what has been handed up before it is past.            *)
SetStart(w) ==
  /\ start' = w
  /\ ahead' = {s \in ahead : After(w % MOD, s) < HALF}

HandsUp(p) ==
  ahead' = IF p = Dropped \/ jumped \/ skewed # "no" THEN ahead ELSE ahead \cup {seq[p]}

(* At most MAX_LATE come after a flush was overtaken.                      *)
Comes ==
  /\ skewed # "no" => late < MAX_LATE
  /\ late' = IF skewed = "no" THEN late ELSE late + 1

Skews(who) == skewed' = IF Flushing /\ skewed # "addba" THEN who ELSE skewed

(* Mutant: only a window that has moved starts the timer.                  *)
EndsUnwatched(prev, w) ==
  /\ job' = NoJob /\ main' = "idle"
  /\ IF prev # w
     THEN timer' = TRUE /\ is_set' = TRUE
     ELSE UNCHANGED <<timer, is_set>>

(* The end of a packet: when the window has moved to w, or no timer was    *)
(* set, the timer starts afresh.                                           *)
Ends(prev, w) ==
  /\ job' = NoJob /\ main' = "idle"
  /\ IF ~is_set \/ prev # w
     THEN timer' = TRUE /\ is_set' = TRUE
     ELSE UNCHANGED <<timer, is_set>>

Frees(p) ==
  /\ owned' = owned \ {p}
  /\ seq' = IF p \in Payloads THEN [seq EXCEPT ![p] = 0] ELSE seq

-----------------------------------------------------------------------------
(* mlan_11n_rxreorder_pkt *)

(* The number is before the window, or half of all numbers after it.       *)
Old(s) ==
  IF start + HALF > MOD - 1
  THEN s >= (start + HALF) % MOD /\ s < start
  ELSE s < start \/ s > start + HALF

(* Mutant: a window that does not wrap has nothing before it.              *)
BeyondAbove(q) ==
  LET end == (start + WIN - 1) % MOD
  IN  \/ end < start /\ q < start /\ q > end
      \/ end > start /\ q > end

(* The number is after the window.                                         *)
Beyond(q) ==
  LET end == (start + WIN - 1) % MOD
  IN  \/ end < start /\ q < start /\ q > end
      \/ end > start /\ (q > end \/ q < start)

(* The window that ends with the number.                                   *)
EndsWith(q) == IF q - WIN + 1 >= 0 THEN q - WIN + 1 ELSE MOD - (WIN - q) + 1

Index(q, w) == IF q >= w THEN q - w ELSE q + MOD - w

(* A packet, a block ack request or a packet the firmware says it dropped: *)
(* p is its payload.  An old one is dropped, unless it is the first after  *)
(* host sleep.                                                             *)
Arrives(kind, s, p) ==
  LET q == IF kind = "bar" THEN (s + WIN - 1) % MOD ELSE s
      w == IF Beyond(q) THEN EndsWith(q) ELSE start
      old == ~nodrop /\ Old(s)
  IN  /\ main = "idle" /\ live /\ Comes
      /\ nodrop' = FALSE
      /\ IF old
         THEN Ends(start, start) /\ UNCHANGED <<owned, seq>>
         ELSE /\ job' = [NoJob EXCEPT !.kind = kind, !.q = q, !.p = p, !.prev = start,
                                       !.to = w, !.n = Count(w)]
              /\ main' = IF Beyond(q) THEN "shift" ELSE "store"
              /\ IF p \in Payloads
                 THEN /\ owned' = owned \cup {p}
                      /\ seq' = [seq EXCEPT ![p] = IF skewed = "no" THEN s ELSE 0]
                 ELSE UNCHANGED <<owned, seq>>
              /\ UNCHANGED <<timer, is_set>>
      /\ jumped' = (jumped \/ nodrop \/ (~old /\ Beyond(q) /\ TooMany(w)))
      /\ UNCHANGED <<live, start, slots, due, flush, fault, ahead, skewed>>

Receive == \E s \in Numbers, p \in Payloads \ owned : Arrives("packet", s, p)
ReceiveBar == \E s \in Numbers : Arrives("bar", s, None)
wlan_11n_rxba_sync_event == \E s \in Numbers : Arrives("packet", s, Dropped)

(* wlan_11n_dispatch_pkt_until_start_win: slot after slot is taken and     *)
(* handed to the stack,                                                    *)
ShiftTakes ==
  /\ main = "shift"
  /\ \E i \in job.i..(job.n - 1) :
       /\ slots[i] \in Payloads
       /\ \A k \in job.i..(i - 1) : slots[k] \notin Payloads
       /\ slots' = Emptied(slots, job.i, i)
       /\ job' = [job EXCEPT !.i = i + 1, !.held = slots[i]]
       /\ HandsUp(slots[i])
  /\ main' = "shiftGives"
  /\ UNCHANGED <<live, start, nodrop, timing, flush, owned, seq, fault,
                 skewed, late, jumped>>

(* and then the rest moves down, and the window with it.                   *)
ShiftRotates ==
  /\ main = "shift"
  /\ \A k \in job.i..(job.n - 1) : slots[k] \notin Payloads
  /\ slots' = Rotated(Emptied(slots, job.i, job.n - 1), job.n) /\ SetStart(job.to)
  /\ main' = CASE job.kind = "addba" -> "idle"
               [] job.kind = "delba" -> "free"
               [] OTHER -> "store"
  /\ job' = IF job.kind = "addba" THEN NoJob ELSE [job EXCEPT !.n = 0, !.i = 0]
  /\ Skews(IF job.kind = "addba" THEN "addba" ELSE "packet")
  /\ UNCHANGED <<live, nodrop, timing, flush, owned, seq, fault, late, jumped>>

(* The stack has the packet.                                               *)
Given ==
  /\ main \in Holds
  /\ Frees(job.held)
  /\ job' = [job EXCEPT !.held = None]
  /\ main' = IF main = "shiftGives" THEN "shift" ELSE "scan"
  /\ UNCHANGED <<table, timing, flush, fault, history>>

(* Mutant: the slot is not looked at.                                      *)
StoresOver ==
  /\ main = "store"
  /\ main' = "scan" /\ job' = [job EXCEPT !.p = None, !.n = 0, !.q = 0, !.to = 0]
  /\ IF job.kind = "bar"
     THEN UNCHANGED <<slots, skewed>>
     ELSE slots' = [slots EXCEPT ![Index(job.q, job.to)] = job.p] /\ Skews("packet")
  /\ UNCHANGED <<live, start, nodrop, timing, flush, owned, seq, fault, ahead, late,
                 jumped>>

(* The payload goes to its slot; a duplicate is dropped.                   *)
Stores ==
  /\ main = "store"
  /\ LET i == Index(job.q, job.to)
         next == [job EXCEPT !.p = None, !.n = 0, !.q = 0, !.to = 0]
     IN  \/ /\ job.kind = "bar"
            /\ main' = "scan" /\ job' = next
            /\ UNCHANGED <<slots, owned, seq, skewed, timer, is_set>>
         \/ /\ job.kind # "bar" /\ slots[i] # None
            /\ Frees(job.p) /\ Ends(job.prev, start)
            /\ UNCHANGED <<slots, skewed>>
         \/ /\ job.kind # "bar" /\ slots[i] = None
            /\ slots' = [slots EXCEPT ![i] = job.p]
            /\ main' = "scan" /\ job' = next /\ Skews("packet")
            /\ UNCHANGED <<owned, seq, timer, is_set>>
  /\ UNCHANGED <<live, start, nodrop, due, flush, fault, ahead, late, jumped>>

(* wlan_11n_scan_and_dispatch, up to the first empty slot.                 *)
ScanTakes ==
  /\ main = "scan" /\ job.i < WIN /\ slots[job.i] # None
  /\ slots' = [slots EXCEPT ![job.i] = None]
  /\ job' = [job EXCEPT !.i = @ + 1,
                        !.held = IF slots[job.i] = Dropped THEN None ELSE slots[job.i]]
  /\ main' = IF slots[job.i] \in Payloads THEN "scanGives" ELSE "scan"
  /\ HandsUp(slots[job.i])
  /\ UNCHANGED <<live, start, nodrop, timing, flush, owned, seq, fault,
                 skewed, late, jumped>>

ScanRotates ==
  /\ main = "scan" /\ (job.i < WIN => slots[job.i] = None)
  /\ slots' = IF job.i > 0 THEN Rotated(slots, job.i) ELSE slots
  /\ SetStart((start + job.i) % MOD)
  /\ IF job.i > 0 THEN Skews("packet") ELSE UNCHANGED skewed
  /\ Ends(job.prev, (start + job.i) % MOD)
  /\ UNCHANGED <<live, nodrop, due, flush, owned, seq, fault, late, jumped>>

-----------------------------------------------------------------------------
(* Setting up and taking down. *)

(* wlan_11n_create_rxreorder_tbl: a new table starts at ssn, or after the  *)
(* last number received (which may be MOD itself).                         *)
Create ==
  /\ main = "idle" /\ ~live
  /\ live' = TRUE /\ start' \in 0..MOD /\ slots' = Empty /\ nodrop' = FALSE
  /\ is_set' = FALSE
  /\ ahead' = {} /\ skewed' = "no" /\ late' = 0 /\ jumped' = FALSE
  /\ UNCHANGED <<timer, due, main, job, flush, owned, seq, fault>>

(* What moves the window from outside: an ADDBA for a table that exists,   *)
(* to ssn, or a DELBA, past its end.                                       *)
MoveTo(kind, w) ==
  /\ main = "idle" /\ live
  /\ job' = [NoJob EXCEPT !.kind = kind, !.to = w, !.n = Count(w)]
  /\ main' = "shift"
  /\ UNCHANGED <<table, timing, flush, owned, seq, fault, ahead, skewed>>


CreateAgain ==
  /\ Comes /\ jumped' = TRUE
  /\ \E ssn \in Numbers : MoveTo("addba", ssn)

(* wlan_11n_delete_rxreorder_tbl_entry: the window is emptied, the timer   *)
(* stopped and freed, and then the table.  A flush that was to come would  *)
(* read it: the model ends there.                                          *)
Delete == MoveTo("delba", (start + WIN) % MOD) /\ UNCHANGED <<late, jumped>>

DeleteFrees ==
  /\ main = "free"
  /\ live' = FALSE /\ start' = 0 /\ slots' = Empty /\ nodrop' = FALSE
  /\ is_set' = FALSE /\ timer' = FALSE
  /\ fault' = IF due \/ flush.pc # "idle" THEN "freed" ELSE "no"
  /\ main' = "idle" /\ job' = NoJob
  /\ ahead' = {} /\ skewed' = "no" /\ late' = 0 /\ jumped' = FALSE
  /\ owned' = {} /\ seq' = [p \in Payloads |-> 0]
  /\ due' = FALSE /\ flush' = NoFlush

(* wlan_set_rxreorder_tbl_no_drop_flag, when host sleep begins or ends.    *)
SetNoDrop ==
  /\ main = "idle" /\ live
  /\ nodrop' \in BOOLEAN
  /\ UNCHANGED <<live, start, slots, timing, main, job, flush, owned, seq, fault,
                 history>>

Main ==
  \/ Receive \/ ReceiveBar \/ wlan_11n_rxba_sync_event
  \/ ShiftTakes \/ ShiftRotates \/ Given \/ Stores \/ ScanTakes \/ ScanRotates
  \/ Create \/ CreateAgain \/ Delete \/ DeleteFrees \/ SetNoDrop

-----------------------------------------------------------------------------
(* The timeout, wlan_flush_data *)

(* A timer that was started again while its work was queued does not go    *)
(* off before that: it is set to 50 ms for every slot of the window.       *)
TimerExpires ==
  /\ Yields /\ timer /\ ~due
  /\ timer' = FALSE /\ due' = TRUE
  /\ UNCHANGED <<table, is_set, main, job, flush, owned, seq, fault, history>>

FlushBegins ==
  /\ due /\ flush.pc = "idle"
  /\ due' = FALSE /\ is_set' = FALSE
  /\ flush' = [NoFlush EXCEPT !.pc = "find", !.i = WIN - 1]
  /\ UNCHANGED <<table, timer, main, job, owned, seq, fault, history>>

(* wlan_11n_find_last_seqnum looks without the lock, from the top.         *)
FlushFinds ==
  /\ flush.pc = "find"
  /\ flush' = IF slots[flush.i] # None THEN [flush EXCEPT !.pc = "aim"]
              ELSE IF flush.i = 0 THEN NoFlush ELSE [flush EXCEPT !.i = @ - 1]
  /\ UNCHANGED <<table, timing, main, job, owned, seq, fault, history>>

FlushAims ==
  /\ flush.pc = "aim"
  /\ flush' = [NoFlush EXCEPT !.pc = "compare", !.to = (start + flush.i + 1) % MOD]
  /\ UNCHANGED <<table, timing, main, job, owned, seq, fault, history>>

(* Count, in a build without optimisation: start_win is read for the       *)
(* comparison, for the bound and for the difference.                       *)
FlushCompares ==
  /\ flush.pc = "compare"
  /\ flush' = IF flush.to > start THEN [flush EXCEPT !.pc = "bound"]
              ELSE [flush EXCEPT !.pc = "take", !.n = WIN]
  /\ jumped' = (jumped \/ TooMany(flush.to))
  /\ UNCHANGED <<table, timing, main, job, owned, seq, fault, ahead, skewed, late>>

FlushBounds ==
  /\ flush.pc = "bound"
  /\ flush' = IF flush.to - start < WIN THEN [flush EXCEPT !.pc = "count"]
              ELSE [flush EXCEPT !.pc = "take", !.n = WIN]
  /\ UNCHANGED <<table, timing, main, job, owned, seq, fault, history>>

(* The model ends where the slots to be moved are not those of the table.  *)
FlushCounts ==
  /\ flush.pc = "count"
  /\ LET n == flush.to - start
     IN  IF n \in 0..WIN
         THEN flush' = [flush EXCEPT !.pc = "take", !.n = n] /\ UNCHANGED fault
         ELSE fault' = "outside" /\ UNCHANGED flush
  /\ UNCHANGED <<table, timing, main, job, owned, seq, history>>

FlushTakes ==
  /\ flush.pc = "take" /\ flush.i < flush.n
  /\ LET p == slots[flush.i]
     IN  IF p \in Payloads
         THEN /\ flush' = [flush EXCEPT !.i = @ + 1, !.pc = "gives", !.held = p]
              /\ HandsUp(p)
         ELSE flush' = [flush EXCEPT !.i = @ + 1] /\ UNCHANGED ahead
  /\ slots' = [slots EXCEPT ![flush.i] = None]
  /\ UNCHANGED <<live, start, nodrop, timing, main, job, owned, seq, fault,
                 skewed, late, jumped>>

FlushGives ==
  /\ flush.pc = "gives"
  /\ Frees(flush.held)
  /\ flush' = [flush EXCEPT !.pc = "take", !.held = None]
  /\ UNCHANGED <<table, timing, main, job, fault, history>>

(* Mutant: the slots move and the window stays.                            *)
FlushRotatesSlots ==
  /\ flush.pc = "take" /\ flush.i = flush.n
  /\ slots' = Rotated(slots, flush.n)
  /\ flush' = NoFlush
  /\ skewed' = IF main \in Holds /\ skewed # "addba" THEN "packet" ELSE skewed
  /\ UNCHANGED <<live, start, nodrop, timing, main, job, owned, seq, fault, ahead, late,
                 jumped>>

FlushRotates ==
  /\ flush.pc = "take" /\ flush.i = flush.n
  /\ slots' = Rotated(slots, flush.n) /\ SetStart(flush.to)
  /\ flush' = NoFlush
  /\ skewed' = IF main \in Holds /\ skewed # "addba" THEN "packet" ELSE skewed
  /\ UNCHANGED <<live, nodrop, timing, main, job, owned, seq, fault, late, jumped>>

wlan_flush_data ==
  /\ Yields
  /\ \/ FlushBegins \/ FlushFinds \/ FlushAims
     \/ FlushCompares \/ FlushBounds \/ FlushCounts
     \/ FlushTakes \/ FlushGives \/ FlushRotates

Next == fault = "no" /\ (Main \/ TimerExpires \/ wlan_flush_data)

Spec == Init /\ [][Next]_vars

-----------------------------------------------------------------------------
(* Properties *)
Jobs ==
  [kind : {"none", "packet", "bar", "addba", "delba"}, q : Numbers,
   p : Payloads \cup {None, Dropped}, prev : 0..MOD, to : 0..MOD,
   n : 0..WIN, i : 0..WIN, held : Payloads \cup {None}]
Flushes ==
  [pc : {"idle", "find", "aim", "compare", "bound", "count", "take", "gives"},
   i : 0..WIN, n : 0..WIN, to : Numbers, held : Payloads \cup {None}]

TypeOK ==
  /\ live \in BOOLEAN /\ nodrop \in BOOLEAN
  /\ start \in 0..MOD /\ slots \in [Indices -> Payloads \cup {None, Dropped}]
  /\ is_set \in BOOLEAN /\ timer \in BOOLEAN /\ due \in BOOLEAN
  /\ main \in {"idle", "shift", "shiftGives", "store", "scan", "scanGives", "free"}
  /\ job \in Jobs /\ flush \in Flushes
  /\ owned \subseteq Payloads /\ seq \in [Payloads -> Numbers]
  /\ fault \in {"no", "freed", "outside"}
  /\ ahead \subseteq Numbers /\ skewed \in {"no", "packet", "addba"}
  /\ late \in 0..MAX_LATE /\ jumped \in BOOLEAN

Calm == main = "idle" /\ flush.pc = "idle" /\ fault = "no"

(* A packet is stored inside the window, whatever its number.              *)
StoresInWindow ==
  main = "store" /\ job.kind # "bar" => Index(job.q, job.to) \in Indices

(* The slot a packet is in tells its number, unless a flush was overtaken. *)
SlotsExact ==
  Calm /\ skewed = "no" =>
    \A i \in Indices : slots[i] \in Payloads => seq[slots[i]] = (start + i) % MOD

(* The window has passed every number that was taken for the stack, so     *)
(* that nothing older is taken after it.                                   *)
DeliveredIsPast ==
  Calm /\ skewed = "no" /\ ~jumped => ahead = {}

(* A payload the driver has is in one place, a slot or the hands of the    *)
(* main work or the flush: it is neither handed up twice nor handed up and *)
(* still in a slot; nor is it forgotten, unless a flush was overtaken.     *)
PayloadsConserved ==
  LET hands == {job.p, job.held, flush.held} \cap Payloads
  IN  /\ \A i, j \in Indices : slots[i] \in Payloads =>
           slots[i] \in owned /\ (slots[i] = slots[j] => i = j)
      /\ hands \subseteq owned \ Range(slots)
      /\ job.held # None => job.held # flush.held
      /\ skewed = "no" => owned \subseteq Range(slots) \cup hands

(* What is buffered will be flushed: the timer runs, or its work is queued.*)
BufferedIsWatched ==
  Calm /\ skewed # "addba" /\ slots # Empty => timer \/ due
=============================================================================
