------------------------------ MODULE WorkQueue ------------------------------
(***************************************************************************)
(* A work queue of kernel/api (task.c and wait.c): a linked list threaded  *)
(* through the works themselves, a semaphore, and the thread that runs     *)
(* them.  insertTailList and removeHeadList run with interrupts off and    *)
(* are one step each; any other thread, the timer task or an interrupted   *)
(* schedule_work may come in between.                                      *)
(*                                                                         *)
(* The history variable fifo holds the works scheduled and not yet taken   *)
(* off the list, in order: what the list should contain.  It is emptied    *)
(* when the thread finds no entry.                                         *)
(***************************************************************************)
EXTENDS Integers, Sequences, Functions

CONSTANTS Works,        \* the work_structs
          NULL,         \* the null list entry
          Threads,      \* the callers of schedule_work
          SIZE_MOD,     \* 2^8: LIST_HEADER.size is a UCHAR
          SEM_MAX,      \* 2^16 - 1: OSEventCnt is an INT16U
          Requeue,      \* callers schedule works that are still queued
          MAX_PENDING   \* bound: works scheduled and not yet taken

ASSUME WorksAssumption == NULL \notin Works /\ Requeue \in BOOLEAN
ASSUME BoundsAssumption ==
  /\ SIZE_MOD \in Nat /\ SEM_MAX \in Nat \ {0}
  /\ MAX_PENDING \in Nat /\ MAX_PENDING < SIZE_MOD

VARIABLES
  pHead, pTail, size,   \* the LIST_HEADER
  pNext,                \* the LIST_ENTRY of every work
  sem,                  \* thread_event's count
  at,                   \* where os_workqueue_thread is
  cur,                  \* the work it took
  caller,               \* where each caller is in schedule_work
  fifo                  \* history: the works scheduled and not taken

list == <<pHead, pTail, size, pNext>>
vars == <<list, sem, at, cur, caller, fifo>>

Entries == Works \cup {NULL}

Init ==
  /\ pHead = NULL /\ pTail = NULL /\ size = 0
  /\ pNext \in [Works -> {NULL}]
  /\ sem = 0 /\ at = "pend" /\ cur = NULL
  /\ caller = [t \in Threads |-> "idle"]
  /\ fifo = <<>>

-----------------------------------------------------------------------------
(* schedule_work: insertTailList, then wake_up.                            *)
insertTailList(w) ==
  LET linked == [pNext EXCEPT ![w] = NULL]
  IN  /\ IF pTail # NULL
         THEN pNext' = [linked EXCEPT ![pTail] = w] /\ UNCHANGED pHead
         ELSE pNext' = linked /\ pHead' = w
      /\ pTail' = w
      /\ size' = (size + 1) % SIZE_MOD

schedule_work(t, w) ==
  /\ caller[t] = "idle"
  /\ Len(fifo) < MAX_PENDING
  /\ Requeue \/ w \notin Range(fifo)
  /\ insertTailList(w)
  /\ fifo' = Append(fifo, w)
  /\ caller' = [caller EXCEPT ![t] = "wake"]
  /\ UNCHANGED <<sem, at, cur>>

(* Mutant: the count is not checked against its limit.                     *)
wake_upUncapped(t) ==
  /\ caller[t] = "wake"
  /\ caller' = [caller EXCEPT ![t] = "idle"]
  /\ IF at = "waiting"
     THEN at' = "drain" /\ UNCHANGED sem
     ELSE sem' = sem + 1 /\ UNCHANGED at
  /\ UNCHANGED <<list, cur, fifo>>

(* Mutant: the event is not counted when nobody waits for it.              *)
wake_upUncounted(t) ==
  /\ caller[t] = "wake"
  /\ caller' = [caller EXCEPT ![t] = "idle"]
  /\ at' = IF at = "waiting" THEN "drain" ELSE at
  /\ UNCHANGED <<list, sem, cur, fifo>>

(* OSSemPost readies the thread when it waits and counts when it does not; *)
(* a full count is reported and ignored.                                   *)
wake_up(t) ==
  /\ caller[t] = "wake"
  /\ caller' = [caller EXCEPT ![t] = "idle"]
  /\ IF at = "waiting"
     THEN at' = "drain" /\ UNCHANGED sem
     ELSE /\ sem' = IF sem < SEM_MAX THEN sem + 1 ELSE sem
          /\ UNCHANGED at
  /\ UNCHANGED <<list, cur, fifo>>

-----------------------------------------------------------------------------
(* os_workqueue_thread *)

(* OSSemPend in wait_event_timeout.                                        *)
Pend ==
  /\ at = "pend"
  /\ IF sem > 0
     THEN sem' = sem - 1 /\ at' = "drain"
     ELSE at' = "waiting" /\ UNCHANGED sem
  /\ UNCHANGED <<list, cur, caller, fifo>>

(* After five seconds the thread pends again without a look at the list.   *)
Timeout ==
  /\ at = "waiting"
  /\ at' = "pend"
  /\ UNCHANGED <<list, sem, cur, caller, fifo>>

(* The head of the loop: it goes on while size is not 0.                   *)
Drained ==
  /\ at = "drain" /\ size = 0
  /\ at' = "pend"
  /\ UNCHANGED <<list, sem, cur, caller, fifo>>

(* Mutant: the tail still points to a work that was taken.                 *)
TakeStaleTail ==
  /\ at = "drain" /\ size # 0 /\ pHead # NULL
  /\ pHead' = pNext[pHead]
  /\ size' = size - 1
  /\ cur' = pHead
  /\ fifo' = Tail(fifo)
  /\ at' = "run"
  /\ UNCHANGED <<pTail, pNext, sem, caller>>

(* removeHeadList on a list that has a head.                               *)
Take ==
  /\ at = "drain" /\ size # 0 /\ pHead # NULL
  /\ pHead' = pNext[pHead]
  /\ pTail' = IF pNext[pHead] = NULL THEN NULL ELSE pTail
  /\ size' = size - 1
  /\ cur' = pHead
  /\ fifo' = Tail(fifo)
  /\ at' = "run"
  /\ UNCHANGED <<pNext, sem, caller>>

(* removeHeadList finds no head although size says there is one: the loop  *)
(* is left, and size starts from 0 again.                                  *)
NoEntry ==
  /\ at = "drain" /\ size # 0 /\ pHead = NULL
  /\ size' = 0 /\ fifo' = <<>>
  /\ at' = "pend"
  /\ UNCHANGED <<pHead, pTail, pNext, sem, cur, caller>>

Run ==
  /\ at = "run"
  /\ cur' = NULL
  /\ at' = "drain"
  /\ UNCHANGED <<list, sem, caller, fifo>>

os_workqueue_thread == Pend \/ Timeout \/ Drained \/ Take \/ NoEntry \/ Run

Next ==
  \/ os_workqueue_thread
  \/ \E t \in Threads : wake_up(t) \/ \E w \in Works : schedule_work(t, w)

Spec == Init /\ [][Next]_vars

(* Every thread runs in the end; the timeout is not counted on.            *)
FairSpec ==
  /\ Spec
  /\ WF_vars(Pend \/ Drained \/ Take \/ NoEntry \/ Run)
  /\ \A t \in Threads : WF_vars(wake_up(t))

-----------------------------------------------------------------------------
(* Properties *)

TypeOK ==
  /\ pHead \in Entries /\ pTail \in Entries /\ size \in Nat
  /\ pNext \in [Works -> Entries]
  /\ sem \in 0..SEM_MAX
  /\ at \in {"pend", "waiting", "drain", "run"} /\ cur \in Entries
  /\ caller \in [Threads -> {"idle", "wake"}]
  /\ fifo \in Seq(Works)
  /\ at = "run" <=> cur # NULL

(* The list is what was scheduled: it starts at the oldest work, every     *)
(* entry points to the next, the last points nowhere, and size counts      *)
(* them.  It holds when no caller schedules a work that is still queued.   *)
ListIsFifo ==
  /\ size = Len(fifo)
  /\ pHead = IF fifo = <<>> THEN NULL ELSE fifo[1]
  /\ pTail = IF fifo = <<>> THEN NULL ELSE fifo[Len(fifo)]
  /\ \A i \in 1..Len(fifo) :
       pNext[fifo[i]] = IF i = Len(fifo) THEN NULL ELSE fifo[i + 1]

(* The thread never waits for its semaphore while there is work, unless a  *)
(* caller that has inserted is still on its way to wake_up: a schedule     *)
(* between the thread's last look at size and its OSSemPend is not lost.   *)
NoLostWakeup ==
  size # 0 =>
    \/ at \in {"drain", "run"}
    \/ at = "pend" /\ sem > 0
    \/ \E t \in Threads : caller[t] = "wake"

(* The queue implements first-in first-out work with no lost schedule.     *)
Abstract == INSTANCE FifoWork WITH pending <- fifo, running <- cur
FifoSpec == Abstract!FairSpec
=============================================================================
