--------------------------- MODULE WorkQueueProofs ---------------------------
(***************************************************************************)
(* A work queue of any size, with any number of callers.                   *)
(*                                                                         *)
(* NoLostWakeup is inductive given the types, whether or not callers       *)
(* schedule works that are still queued.  What the list contains is proved *)
(* for callers that do not: then the works in fifo are distinct, which is  *)
(* what makes a store to one entry's pNext leave the others alone.         *)
(***************************************************************************)
EXTENDS WorkQueue, DistinctSeqs

USE WorksAssumption, BoundsAssumption

(* The part of TypeOK about the semaphore and the threads.                 *)
Control ==
  /\ size \in Nat
  /\ sem \in 0..SEM_MAX
  /\ at \in {"pend", "waiting", "drain", "run"}
  /\ caller \in [Threads -> {"idle", "wake"}]

WakeInv == Control /\ NoLostWakeup

LEMMA InitWake == Init => WakeInv
BY DEF Init, WakeInv, Control, NoLostWakeup

LEMMA StepWake == WakeInv /\ [Next]_vars => WakeInv'
<1> SUFFICES ASSUME WakeInv, [Next]_vars PROVE WakeInv' OBVIOUS
<1> USE DEF WakeInv, Control, NoLostWakeup
<1>1. ASSUME NEW t \in Threads, NEW w \in Works, schedule_work(t, w)
      PROVE  WakeInv'
  <2>1. /\ caller' = [caller EXCEPT ![t] = "wake"] /\ sem' = sem /\ at' = at
        /\ size' = (size + 1) % SIZE_MOD
    BY <1>1 DEF schedule_work, insertTailList
  <2>2. size' \in Nat BY <2>1
  <2>3. caller'[t] = "wake" BY <2>1
  <2> QED BY <2>1, <2>2, <2>3
<1>2. ASSUME NEW t \in Threads, wake_up(t)
      PROVE  WakeInv'
  <2>1. /\ caller' = [caller EXCEPT ![t] = "idle"] /\ size' = size
    BY <1>2 DEF wake_up, list
  <2>2. CASE at = "waiting"
    <3>1. at' = "drain" /\ sem' = sem BY <1>2, <2>2 DEF wake_up
    <3> QED BY <2>1, <3>1
  <2>3. CASE at # "waiting"
    <3>1. at' = at /\ sem' = IF sem < SEM_MAX THEN sem + 1 ELSE sem
      BY <1>2, <2>3 DEF wake_up
    <3>2. sem' \in 0..SEM_MAX /\ sem' > 0 BY <3>1
    <3> QED BY <2>1, <2>3, <3>1, <3>2
  <2> QED BY <2>2, <2>3
<1>3. ASSUME os_workqueue_thread PROVE WakeInv'
  <2>1. CASE Pend
    <3>1. CASE sem > 0 BY <2>1, <3>1 DEF Pend, list
    <3>2. CASE ~(sem > 0) BY <2>1, <3>2 DEF Pend, list
    <3> QED BY <3>1, <3>2
  <2>2. CASE Timeout BY <2>2 DEF Timeout, list
  <2>3. CASE Drained BY <2>3 DEF Drained, list
  <2>4. CASE Take BY <2>4 DEF Take
  <2>5. CASE NoEntry BY <2>5 DEF NoEntry
  <2>6. CASE Run BY <2>6 DEF Run, list
  <2> QED BY <1>3, <2>1, <2>2, <2>3, <2>4, <2>5, <2>6 DEF os_workqueue_thread
<1>4. CASE UNCHANGED vars BY <1>4 DEF vars, list
<1> QED BY <1>1, <1>2, <1>3, <1>4 DEF Next

(* The thread of a work queue never sleeps on scheduled work, for any      *)
(* interleaving of schedule_work's two steps with the thread's loop, and   *)
(* even when works are scheduled twice.                                    *)
THEOREM NoLostWakeupHolds == Spec => []NoLostWakeup
<1>1. WakeInv => NoLostWakeup BY DEF WakeInv
<1> QED BY <1>1, InitWake, StepWake, PTL DEF Spec

-----------------------------------------------------------------------------
(* The list, when no work is scheduled while it is queued                  *)

ListInv ==
  /\ fifo \in Seq(Works) /\ IsInjective(fifo) /\ Len(fifo) <= MAX_PENDING
  /\ pNext \in [Works -> Entries]
  /\ cur \in Entries
  /\ at = "run" <=> cur # NULL
  /\ ListIsFifo

LEMMA InitList == Init => ListInv
<1> SUFFICES ASSUME Init PROVE ListInv OBVIOUS
<1>1. fifo = <<>> /\ fifo \in Seq(Works) BY DEF Init
<1>2. pNext \in [Works -> Entries] BY DEF Init, Entries
<1> QED BY <1>1, <1>2 DEF Init, ListInv, ListIsFifo, IsInjective, Entries

(* Inserting at the tail extends the list by the work.                     *)
LEMMA ScheduleList ==
  ASSUME ~Requeue, ListInv, NEW t \in Threads, NEW w \in Works,
         schedule_work(t, w)
  PROVE  ListInv' /\ w \notin Range(fifo)
<1> USE DEF ListInv
<1>1. /\ Len(fifo) < MAX_PENDING /\ w \notin Range(fifo)
      /\ insertTailList(w) /\ fifo' = Append(fifo, w)
      /\ at' = at /\ cur' = cur
  BY DEF schedule_work
<1>2. /\ fifo' \in Seq(Works) /\ IsInjective(fifo')
  BY <1>1, AppendNew
<1>3. /\ Len(fifo) \in Nat /\ Len(fifo') = Len(fifo) + 1
      /\ fifo'[Len(fifo) + 1] = w
      /\ \A i \in 1..Len(fifo) : fifo'[i] = fifo[i] /\ fifo[i] \in Works
      /\ \A i \in 1..Len(fifo) : fifo[i] # w
  BY <1>1 DEF Range
<1>4. size' = Len(fifo) + 1
  <2>1. size = Len(fifo) /\ size' = (size + 1) % SIZE_MOD
    BY <1>1 DEF ListIsFifo, insertTailList
  <2>2. size + 1 \in 0..(SIZE_MOD - 1) BY <1>1, <1>3, <2>1
  <2> QED BY <1>3, <2>1, <2>2
<1>5. CASE fifo = <<>>
  <2>1. pTail = NULL /\ Len(fifo) = 0 BY <1>5 DEF ListIsFifo
  <2>2. /\ pHead' = w /\ pTail' = w /\ pNext' = [pNext EXCEPT ![w] = NULL]
    BY <1>1, <2>1 DEF insertTailList
  <2>3. pNext' \in [Works -> Entries] /\ pNext'[w] = NULL BY <2>2 DEF Entries
  <2>4. ListIsFifo'
    <3>1. fifo' # <<>> /\ Len(fifo') = 1 /\ fifo'[1] = w BY <1>3, <2>1
    <3> QED BY <1>4, <2>1, <2>2, <2>3, <3>1 DEF ListIsFifo
  <2> QED BY <1>1, <1>2, <1>3, <2>3, <2>4
<1>6. CASE fifo # <<>>
  <2>1. Len(fifo) >= 1 /\ pTail = fifo[Len(fifo)] /\ pTail \in Works
        /\ pTail # NULL /\ pTail # w
    BY <1>3, <1>6 DEF ListIsFifo
  <2>2. /\ pHead' = pHead /\ pTail' = w
        /\ pNext' = [[pNext EXCEPT ![w] = NULL] EXCEPT ![pTail] = w]
    BY <1>1, <2>1 DEF insertTailList
  <2>3. /\ pNext' \in [Works -> Entries]
        /\ pNext'[w] = NULL /\ pNext'[pTail] = w
        /\ \A v \in Works : v # w /\ v # pTail => pNext'[v] = pNext[v]
    BY <2>1, <2>2 DEF Entries
  <2>4. \A i \in 1..Len(fifo) : i # Len(fifo) => fifo[i] # pTail
    BY <1>3, <2>1 DEF IsInjective
  <2>5. ListIsFifo'
    <3>1. pHead' = fifo'[1] /\ fifo' # <<>>
      BY <1>3, <1>6, <2>1, <2>2 DEF ListIsFifo
    <3>2. pTail' = fifo'[Len(fifo')] BY <1>3, <2>2
    <3>3. ASSUME NEW i \in 1..Len(fifo')
          PROVE  pNext'[fifo'[i]] = IF i = Len(fifo') THEN NULL ELSE fifo'[i + 1]
      <4>1. CASE i = Len(fifo') BY <1>3, <2>3, <4>1
      <4>2. CASE i = Len(fifo) BY <1>3, <2>1, <2>3, <4>2
      <4>3. CASE i \in 1..(Len(fifo) - 1)
        <5>1. pNext[fifo[i]] = fifo[i + 1] BY <1>3, <4>3 DEF ListIsFifo
        <5>2. fifo'[i] = fifo[i] /\ fifo'[i + 1] = fifo[i + 1]
          BY <1>3, <4>3
        <5>3. pNext'[fifo[i]] = pNext[fifo[i]] BY <1>3, <2>3, <2>4, <4>3
        <5> QED BY <1>3, <4>3, <5>1, <5>2, <5>3
      <4> QED BY <1>3, <4>1, <4>2, <4>3
    <3> QED BY <1>3, <1>4, <3>1, <3>2, <3>3 DEF ListIsFifo
  <2> QED BY <1>1, <1>2, <1>3, <2>3, <2>5
<1> QED BY <1>1, <1>5, <1>6

(* Removing the head takes the oldest work off.                            *)
LEMMA TakeList ==
  ASSUME ListInv, Take
  PROVE  ListInv' /\ fifo # <<>> /\ cur' = Head(fifo)
<1> USE DEF ListInv
<1>1. /\ pHead # NULL /\ pHead' = pNext[pHead]
      /\ pTail' = IF pNext[pHead] = NULL THEN NULL ELSE pTail
      /\ size' = size - 1 /\ cur' = pHead /\ fifo' = Tail(fifo)
      /\ at' = "run" /\ pNext' = pNext
  BY DEF Take
<1>2. fifo # <<>> /\ pHead = fifo[1] /\ pHead = Head(fifo)
  BY <1>1 DEF ListIsFifo
<1>3. /\ Len(fifo) \in Nat \ {0} /\ Len(fifo') = Len(fifo) - 1
      /\ \A i \in 1..(Len(fifo) - 1) : fifo'[i] = fifo[i + 1]
      /\ \A i \in 1..Len(fifo) : fifo[i] \in Works
  BY <1>1, <1>2
<1>4. fifo' \in Seq(Works) /\ IsInjective(fifo')
  BY <1>1, <1>2, TakeHead
<1>5. ListIsFifo'
  <2>1. size' = Len(fifo') BY <1>1, <1>3 DEF ListIsFifo
  <2>2. pNext[pHead] = IF 1 = Len(fifo) THEN NULL ELSE fifo[2]
    BY <1>2, <1>3 DEF ListIsFifo
  <2>3. CASE Len(fifo) = 1
    <3>1. fifo' = <<>> BY <1>3, <1>4, <2>3
    <3> QED BY <1>1, <1>3, <2>1, <2>2, <2>3, <3>1 DEF ListIsFifo
  <2>4. CASE Len(fifo) # 1
    <3>1. fifo' # <<>> /\ fifo'[1] = fifo[2] /\ fifo'[1] \in Works
          /\ fifo'[Len(fifo')] = fifo[Len(fifo)]
      BY <1>3, <2>4
    <3>2. pHead' = fifo'[1] /\ pHead' # NULL BY <1>1, <2>2, <2>4, <3>1
    <3>3. pTail' = fifo'[Len(fifo')]
      BY <1>1, <1>2, <3>1, <3>2 DEF ListIsFifo
    <3>4. ASSUME NEW i \in 1..Len(fifo')
          PROVE  pNext'[fifo'[i]] = IF i = Len(fifo') THEN NULL ELSE fifo'[i + 1]
      <4>1. i + 1 \in 1..Len(fifo) /\ fifo'[i] = fifo[i + 1] BY <1>3
      <4>2. pNext[fifo[i + 1]] =
              IF i + 1 = Len(fifo) THEN NULL ELSE fifo[i + 2]
        BY <4>1 DEF ListIsFifo
      <4>3. pNext'[fifo'[i]] =
              IF i + 1 = Len(fifo) THEN NULL ELSE fifo[i + 2]
        BY <1>1, <4>1, <4>2
      <4>4. CASE i = Len(fifo') BY <1>3, <4>3, <4>4
      <4>5. CASE i # Len(fifo')
        <5>1. i + 1 \in 1..(Len(fifo) - 1) /\ i + 1 # Len(fifo)
              /\ (i + 1) + 1 = i + 2
          BY <1>3, <4>5
        <5>2. fifo'[i + 1] = fifo[i + 2] BY <1>3, <5>1
        <5> QED BY <4>3, <4>5, <5>1, <5>2
      <4> QED BY <4>4, <4>5
    <3> QED BY <2>1, <3>1, <3>2, <3>3, <3>4 DEF ListIsFifo
  <2> QED BY <2>3, <2>4
<1>6. cur' # NULL /\ cur' \in Entries BY <1>1, <1>2, <1>3 DEF Entries
<1> QED BY <1>1, <1>2, <1>3, <1>4, <1>5, <1>6

(* The thread never finds size and list in disagreement.                   *)
LEMMA NoEntryImpossible ==
  ASSUME ListInv PROVE ~NoEntry
<1> SUFFICES ASSUME NoEntry PROVE FALSE OBVIOUS
<1>1. size # 0 /\ pHead = NULL /\ fifo \in Seq(Works)
  BY DEF NoEntry, ListInv
<1>2. fifo # <<>> => fifo[1] \in Works BY <1>1
<1>3. fifo # <<>> BY <1>1 DEF ListInv, ListIsFifo
<1> QED BY <1>1, <1>2, <1>3 DEF ListInv, ListIsFifo

LEMMA StepList ==
  ASSUME ~Requeue, ListInv, [Next]_vars PROVE ListInv'
<1>1. ASSUME NEW t \in Threads, NEW w \in Works, schedule_work(t, w)
      PROVE  ListInv'
  BY <1>1, ScheduleList
<1>2. ASSUME NEW t \in Threads, wake_up(t) PROVE ListInv'
  BY <1>2 DEF wake_up, list, ListInv, ListIsFifo
<1>3. CASE Take BY <1>3, TakeList
<1>4. CASE Pend \/ Timeout \/ Drained
  BY <1>4 DEF Pend, Timeout, Drained, list, ListInv, ListIsFifo
<1>5. CASE Run
  BY <1>5 DEF Run, list, ListInv, ListIsFifo, Entries
<1>6. CASE UNCHANGED vars BY <1>6 DEF vars, list, ListInv, ListIsFifo
<1> QED BY <1>1, <1>2, <1>3, <1>4, <1>5, <1>6, NoEntryImpossible
        DEF Next, os_workqueue_thread

(* The linked list is the sequence of works scheduled and not yet run, as  *)
(* long as no caller schedules a work that is still queued.                *)
THEOREM ListIsFifoHolds ==
  ASSUME ~Requeue
  PROVE  Spec => []ListIsFifo
<1>1. ListInv => ListIsFifo BY DEF ListInv
<1>2. ListInv /\ [Next]_vars => ListInv' BY StepList
<1> QED BY <1>1, <1>2, InitList, PTL DEF Spec

(* The head and the tail are null or a work, and the thread has one exactly *)
(* while it runs it.                                                       *)
THEOREM TypesHold ==
  ASSUME ~Requeue
  PROVE  Spec => []TypeOK
<1>1. ListInv /\ Control => TypeOK
  <2> SUFFICES ASSUME ListInv, Control PROVE TypeOK OBVIOUS
  <2>1. fifo \in Seq(Works) /\ Len(fifo) \in Nat BY DEF ListInv
  <2>2. fifo # <<>> => fifo[1] \in Works /\ fifo[Len(fifo)] \in Works
    <3>1. fifo # <<>> => 1 \in 1..Len(fifo) /\ Len(fifo) \in 1..Len(fifo) BY <2>1
    <3> QED BY <2>1, <3>1
  <2>3. pHead \in Entries /\ pTail \in Entries
    BY <2>2 DEF ListInv, ListIsFifo, Entries
  <2> QED BY <2>1, <2>3 DEF ListInv, Control, TypeOK
<1>2. ListInv /\ [Next]_vars => ListInv' BY StepList
<1>3. WakeInv => Control BY DEF WakeInv
<1> QED BY <1>1, <1>2, <1>3, InitList, InitWake, StepWake, PTL DEF Spec

(* Then the queue is first-in first-out: every step of the list, the       *)
(* semaphore and the thread is a step of FifoWork or changes nothing there.*)
THEOREM ImplementsFifo ==
  ASSUME ~Requeue
  PROVE  Spec => Abstract!Spec
<1>1. Init => Abstract!Init BY DEF Init, Abstract!Init
<1>2. ListInv /\ [Next]_vars => [Abstract!Next]_(Abstract!vars)
  <2> SUFFICES ASSUME ListInv, [Next]_vars
               PROVE  [Abstract!Next]_(Abstract!vars)
    OBVIOUS
  <2> USE DEF Abstract!Next, Abstract!vars
  <2>1. ASSUME NEW t \in Threads, NEW w \in Works, schedule_work(t, w)
        PROVE  Abstract!Schedule(w)
    <3>1. /\ Requeue \/ w \notin Range(fifo)
          /\ fifo' = Append(fifo, w) /\ cur' = cur
      BY <2>1 DEF schedule_work
    <3> QED BY <3>1 DEF Abstract!Schedule, Abstract!Range, Range
  <2>2. ASSUME NEW t \in Threads, wake_up(t)
        PROVE  UNCHANGED Abstract!vars
    BY <2>2 DEF wake_up
  <2>3. CASE Take
    <3>1. cur = NULL BY <2>3 DEF Take, ListInv
    <3> QED BY <2>3, <3>1, TakeList DEF Take, Abstract!Start
  <2>4. CASE Pend \/ Timeout \/ Drained
    BY <2>4 DEF Pend, Timeout, Drained
  <2>5. CASE Run
    <3>1. cur # NULL BY <2>5 DEF Run, ListInv
    <3> QED BY <2>5, <3>1 DEF Run, Abstract!Finish
  <2>6. CASE UNCHANGED vars BY <2>6 DEF vars
  <2> QED BY <2>1, <2>2, <2>3, <2>4, <2>5, <2>6, NoEntryImpossible
          DEF Next, os_workqueue_thread
<1>3. ListInv /\ [Next]_vars => ListInv' BY StepList
<1> QED BY <1>1, <1>2, <1>3, InitList, PTL DEF Spec, Abstract!Spec
=============================================================================
