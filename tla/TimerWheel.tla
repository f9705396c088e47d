------------------------------ MODULE TimerWheel ------------------------------
(***************************************************************************)
(* The software timers: uC/OS-II's timer manager (os_tmr.c), a wheel of    *)
(* doubly linked lists of timers and a task that turns it ten times a      *)
(* second, and the calls of kernel/api/src/timer.c on it.                  *)
(*                                                                         *)
(* Each OSTmr* function runs with the scheduler locked and is one step,    *)
(* and so is each timer OSTmr_Task looks at; it keeps the scheduler locked *)
(* from one to the next.  mod_timer takes no lock between its three steps, *)
(* and another thread may come in between.                                 *)
(***************************************************************************)
EXTENDS Integers, Sequences, Functions

CONSTANTS TIMER_MAX,    \* OS_TMR_CFG_MAX
          WHEEL,        \* OS_TMR_CFG_WHEEL_SIZE
          TIME_MOD,     \* 2^32: OSTmrTime and OSTmrMatch are INT32U
          Delays,       \* delays in timer ticks, 1 and up
          Opts,         \* the options timers are created with
          Callers,      \* the threads that call mod_timer
          MAX_SIGNAL    \* bound: ticks OSTmr_Task has not yet taken

ASSUME WheelAssumption ==
  /\ TIMER_MAX \in Nat \ {0}
  /\ WHEEL \in Nat \ {0} /\ TIME_MOD \in Nat \ {0} /\ TIME_MOD % WHEEL = 0
ASSUME UseAssumption ==
  /\ Delays \subseteq 1..(TIME_MOD - 1)
  /\ Opts \subseteq {"ONE_SHOT", "PERIODIC"}
  /\ MAX_SIGNAL \in Nat

Timers == 1..TIMER_MAX
NULL == 0
Pointers == Timers \cup {NULL}
Spokes == 0..(WHEEL - 1)
Spoke(match) == match % WHEEL

VARIABLES
  OSTmrTime,
  tmr,            \* OSTmrTbl: state, opt, dly (OSTmrDly and OSTmrPeriod, which
                  \*   timer.c keeps equal), match, next and prev
  first,          \* OSTmrWheelTbl[].OSTmrFirst
  entries,        \* OSTmrWheelTbl[].OSTmrEntries
  OSTmrFreeList,
  signal,         \* the count of OSTmrSemSignal
  walking,        \* OSTmr_Task goes through a spoke, with the scheduler locked
  ptmr,           \* the timer it looks at next
  caller,         \* where each caller is in mod_timer, and its arguments
  spokes,         \* history: each spoke's timers, the last one linked first
  unused          \* history: the timers not in use, the last one freed first

lists == <<tmr, first, entries, spokes>>
pool == <<OSTmrFreeList, unused>>
task == <<OSTmrTime, signal, walking, ptmr>>
vars == <<lists, pool, task, caller>>

-----------------------------------------------------------------------------
(* OSTmr_Init                                                              *)
Init ==
  /\ OSTmrTime = 0
  /\ tmr = [t \in Timers |->
              [state |-> "UNUSED", opt |-> "NONE", dly |-> 0, match |-> 0,
               next |-> IF t = TIMER_MAX THEN NULL ELSE t + 1, prev |-> NULL]]
  /\ first = [s \in Spokes |-> NULL] /\ entries = [s \in Spokes |-> 0]
  /\ OSTmrFreeList = 1
  /\ signal = 0 /\ walking = FALSE /\ ptmr = NULL
  /\ caller = [c \in Callers |-> [pc |-> "idle", tmr |-> NULL, dly |-> 0]]
  /\ spokes = [s \in Spokes |-> <<>>]
  /\ unused = [i \in 1..TIMER_MAX |-> i]

-----------------------------------------------------------------------------
(* The lists.  OSTmr_Link puts the timer first in the spoke of its match,  *)
(* OSTmr_Unlink takes it out wherever it is.                               *)
Lists == [tmr |-> tmr, first |-> first, entries |-> entries, spokes |-> spokes]

Become(w) ==
  tmr' = w.tmr /\ first' = w.first /\ entries' = w.entries /\ spokes' = w.spokes

Without(s, e) ==
  LET k == CHOOSE i \in DOMAIN s : s[i] = e
  IN  [i \in 1..(Len(s) - 1) |-> IF i < k THEN s[i] ELSE s[i + 1]]

OSTmr_Link(w, t) ==
  LET match == (w.tmr[t].dly + OSTmrTime') % TIME_MOD
      s == Spoke(match)
      old == w.first[s]
  IN  [tmr |-> [x \in Timers |->
         IF x = t THEN [w.tmr[x] EXCEPT !.state = "RUNNING", !.match = match,
                                        !.next = old, !.prev = NULL]
         ELSE IF x = old THEN [w.tmr[x] EXCEPT !.prev = t]
         ELSE w.tmr[x]],
       first |-> [w.first EXCEPT ![s] = t],
       entries |-> [w.entries EXCEPT ![s] = IF old = NULL THEN 1 ELSE @ + 1],
       spokes |-> [w.spokes EXCEPT ![s] = <<t>> \o @]]

(* Mutant: the timer after the one taken out still points back to it.      *)
OSTmr_UnlinkOneWay(w, t) ==
  LET s == Spoke(w.tmr[t].match)
      next == w.tmr[t].next
      prev == w.tmr[t].prev
      head == w.first[s] = t
  IN  [tmr |-> [x \in Timers |->
         IF x = t THEN [w.tmr[x] EXCEPT !.state = "STOPPED", !.next = NULL,
                                        !.prev = NULL]
         ELSE IF x = prev /\ ~head THEN [w.tmr[x] EXCEPT !.next = next]
         ELSE w.tmr[x]],
       first |-> IF head THEN [w.first EXCEPT ![s] = next] ELSE w.first,
       entries |-> [w.entries EXCEPT ![s] = @ - 1],
       spokes |-> [w.spokes EXCEPT ![s] = Without(@, t)]]

OSTmr_Unlink(w, t) ==
  LET s == Spoke(w.tmr[t].match)
      next == w.tmr[t].next
      prev == w.tmr[t].prev
      head == w.first[s] = t
  IN  [tmr |-> [x \in Timers |->
         IF x = t THEN [w.tmr[x] EXCEPT !.state = "STOPPED", !.next = NULL,
                                        !.prev = NULL]
         ELSE IF x = next THEN [w.tmr[x] EXCEPT !.prev = IF head THEN NULL ELSE prev]
         ELSE IF x = prev /\ ~head THEN [w.tmr[x] EXCEPT !.next = next]
         ELSE w.tmr[x]],
       first |-> IF head THEN [w.first EXCEPT ![s] = next] ELSE w.first,
       entries |-> [w.entries EXCEPT ![s] = @ - 1],
       spokes |-> [w.spokes EXCEPT ![s] = Without(@, t)]]

-----------------------------------------------------------------------------
(* The functions of os_tmr.c, called with the scheduler unlocked.          *)
SchedUnlocked == ~walking /\ UNCHANGED task

OSTmrCreate(t, dly, opt) ==
  /\ SchedUnlocked
  /\ OSTmrFreeList # NULL /\ t = OSTmrFreeList
  /\ OSTmrFreeList' = tmr[t].next /\ unused' = Tail(unused)
  /\ tmr' = [tmr EXCEPT ![t].state = "STOPPED", ![t].opt = opt, ![t].dly = dly,
                        ![t].next = NULL, ![t].prev = NULL]
  /\ UNCHANGED <<first, entries, spokes>>

OSTmrStart(t) ==
  /\ SchedUnlocked
  /\ CASE tmr[t].state = "RUNNING" -> Become(OSTmr_Link(OSTmr_Unlink(Lists, t), t))
       [] tmr[t].state = "UNUSED" -> UNCHANGED lists
       [] OTHER -> Become(OSTmr_Link(Lists, t))
  /\ UNCHANGED pool

OSTmrStop(t) ==
  /\ SchedUnlocked
  /\ IF tmr[t].state = "RUNNING" THEN Become(OSTmr_Unlink(Lists, t))
                                 ELSE UNCHANGED lists
  /\ UNCHANGED pool

OSTmrDel(t) ==
  /\ SchedUnlocked
  /\ tmr[t].state # "UNUSED"
  /\ LET w == IF tmr[t].state = "RUNNING" THEN OSTmr_Unlink(Lists, t) ELSE Lists
     IN  Become([w EXCEPT !.tmr[t] =
                   [@ EXCEPT !.state = "UNUSED", !.opt = "NONE", !.match = 0,
                             !.next = OSTmrFreeList, !.prev = NULL]])
  /\ OSTmrFreeList' = t /\ unused' = <<t>> \o unused

-----------------------------------------------------------------------------
(* OSTimeTickHook calls OSTmrSignal every so many ticks.                   *)
OSTmrSignal ==
  /\ signal < MAX_SIGNAL
  /\ signal' = signal + 1
  /\ UNCHANGED <<lists, pool, OSTmrTime, walking, ptmr, caller>>

(* OSTmr_Task: OSSemPend, then every timer of the spoke.                   *)
TaskTurn ==
  /\ ~walking /\ signal > 0
  /\ signal' = signal - 1
  /\ OSTmrTime' = (OSTmrTime + 1) % TIME_MOD
  /\ ptmr' = first[Spoke(OSTmrTime')]
  /\ walking' = TRUE
  /\ UNCHANGED <<lists, pool, caller>>

(* Mutant: the next timer is looked up after this one is unlinked.         *)
TaskExpireLateNext ==
  /\ walking /\ ptmr # NULL
  /\ tmr[ptmr].match = OSTmrTime
  /\ UNCHANGED <<OSTmrTime, signal, walking>>
  /\ LET w == OSTmr_Unlink(Lists, ptmr)
     IN  Become(IF tmr[ptmr].opt = "PERIODIC"
                THEN OSTmr_Link(w, ptmr)
                ELSE [w EXCEPT !.tmr[ptmr].state = "COMPLETED"])
  /\ ptmr' = tmr'[ptmr].next
  /\ UNCHANGED <<pool, caller>>

TaskExpire ==
  /\ walking /\ ptmr # NULL
  /\ tmr[ptmr].match = OSTmrTime
  /\ ptmr' = tmr[ptmr].next
  /\ UNCHANGED <<OSTmrTime, signal, walking>>
  /\ LET w == OSTmr_Unlink(Lists, ptmr)
     IN  Become(IF tmr[ptmr].opt = "PERIODIC"
                THEN OSTmr_Link(w, ptmr)
                ELSE [w EXCEPT !.tmr[ptmr].state = "COMPLETED"])
  /\ UNCHANGED <<pool, caller>>

TaskPass ==
  /\ walking /\ ptmr # NULL
  /\ tmr[ptmr].match # OSTmrTime
  /\ ptmr' = tmr[ptmr].next
  /\ UNCHANGED <<OSTmrTime, signal, walking, lists, pool, caller>>

TaskDone ==
  /\ walking /\ ptmr = NULL
  /\ walking' = FALSE
  /\ UNCHANGED <<OSTmrTime, signal, ptmr, lists, pool, caller>>

OSTmr_Task == TaskTurn \/ TaskExpire \/ TaskPass \/ TaskDone

-----------------------------------------------------------------------------
(* timer.c.  A caller uses a timer it was given and nobody has freed.      *)
InUse(t) == tmr[t].state # "UNUSED"
Held(t) == \E c \in Callers : caller[c].tmr = t

timer_setup(t, dly, opt) == OSTmrCreate(t, dly, opt) /\ UNCHANGED caller

add_timer(t) == InUse(t) /\ OSTmrStart(t) /\ UNCHANGED caller

del_timer(t) == InUse(t) /\ OSTmrStop(t) /\ UNCHANGED caller

timer_free(t) == ~Held(t) /\ OSTmrDel(t) /\ UNCHANGED caller

(* mod_timer looks whether the timer is pending, sets its delay, and       *)
(* starts it.                                                              *)
ModPending(c, t, dly) ==
  /\ caller[c].pc = "idle" /\ InUse(t) /\ ~walking
  /\ tmr[t].state # "RUNNING"
  /\ caller' = [caller EXCEPT ![c] = [pc |-> "set", tmr |-> t, dly |-> dly]]
  /\ UNCHANGED <<lists, pool, task>>

ModSet(c) ==
  /\ caller[c].pc = "set" /\ ~walking
  /\ tmr' = [tmr EXCEPT ![caller[c].tmr].dly = caller[c].dly]
  /\ caller' = [caller EXCEPT ![c].pc = "start"]
  /\ UNCHANGED <<first, entries, spokes, pool, task>>

ModStart(c) ==
  /\ caller[c].pc = "start"
  /\ OSTmrStart(caller[c].tmr)
  /\ caller' = [caller EXCEPT ![c] = [pc |-> "idle", tmr |-> NULL, dly |-> 0]]

mod_timer(c) == ModSet(c) \/ ModStart(c)

Next ==
  \/ OSTmrSignal \/ OSTmr_Task
  \/ \E t \in Timers :
       \/ add_timer(t) \/ del_timer(t) \/ timer_free(t)
       \/ \E d \in Delays :
            \/ \E o \in Opts : timer_setup(t, d, o)
            \/ \E c \in Callers : ModPending(c, t, d)
  \/ \E c \in Callers : mod_timer(c)

Spec == Init /\ [][Next]_vars

(* The tick interrupt and the timer task go on for ever.                   *)
FairSpec == Spec /\ WF_vars(OSTmrSignal) /\ WF_vars(OSTmr_Task)

-----------------------------------------------------------------------------
(* Properties *)

States == {"UNUSED", "STOPPED", "RUNNING", "COMPLETED"}

(* What the declarations allow; a timer in use has a delay.                *)
TypeOK ==
  /\ OSTmrTime \in 0..(TIME_MOD - 1)
  /\ tmr \in [Timers -> [state : States, opt : Opts \cup {"NONE"},
                         dly : Delays \cup {0}, match : 0..(TIME_MOD - 1),
                         next : Pointers, prev : Pointers]]
  /\ first \in [Spokes -> Pointers] /\ entries \in [Spokes -> Nat]
  /\ OSTmrFreeList \in Pointers
  /\ signal \in 0..MAX_SIGNAL /\ walking \in BOOLEAN /\ ptmr \in Pointers
  /\ caller \in [Callers -> [pc : {"idle", "set", "start"}, tmr : Pointers,
                             dly : Delays \cup {0}]]
  /\ spokes \in [Spokes -> Seq(Timers)] /\ unused \in Seq(Timers)
  /\ \A t \in Timers : InUse(t) => tmr[t].dly \in Delays

(* The timers linked from h by their next pointers are those of s, in that *)
(* order, and the last one's is null.                                      *)
Chain(h, s) ==
  /\ h = IF s = <<>> THEN NULL ELSE s[1]
  /\ \A i \in 1..Len(s) :
       tmr[s[i]].next = IF i = Len(s) THEN NULL ELSE s[i + 1]

(* Every spoke is a list of distinct timers linked both ways and counted,  *)
(* and a timer is in the spoke of its match exactly while it is running;   *)
(* the free list has exactly the timers not in use.  No order of starts,   *)
(* stops, frees and expiries, also in the middle of the task's walk, loses *)
(* a timer or leaves it in two lists.                                      *)
WheelConsistent ==
  /\ TypeOK
  /\ \A s \in Spokes :
       /\ IsInjective(spokes[s]) /\ Chain(first[s], spokes[s])
       /\ entries[s] = Len(spokes[s])
       /\ Range(spokes[s]) =
            {t \in Timers : tmr[t].state = "RUNNING" /\ Spoke(tmr[t].match) = s}
       /\ \A i \in 1..Len(spokes[s]) :
            tmr[spokes[s][i]].prev = IF i = 1 THEN NULL ELSE spokes[s][i - 1]
  /\ IsInjective(unused) /\ Chain(OSTmrFreeList, unused)
  /\ Range(unused) = {t \in Timers : ~InUse(t)}

(* The timers keep the promise of TimerService: each one that is running   *)
(* goes off at the tick it was set for, not before and not a turn of the   *)
(* clock later, whatever is linked and unlinked in the meantime.           *)
Left == [t \in Timers |->
  IF tmr[t].state = "RUNNING" THEN (tmr[t].match - OSTmrTime) % TIME_MOD ELSE -1]
Service == INSTANCE TimerService WITH left <- Left
ServiceSpec == Service!FairSpec
=============================================================================
