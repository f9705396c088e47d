---------------------------- MODULE TimerService ----------------------------
(***************************************************************************)
(* What the timers promise: a timer that is armed for d ticks goes off at  *)
(* the d-th tick after, unless it is disarmed or armed again before; none  *)
(* goes off early, and none is passed over.                                *)
(***************************************************************************)
EXTENDS Integers

CONSTANTS Timers,   \* the timers
          Delays    \* the delays, in ticks, they are armed for

VARIABLE left       \* ticks left of an armed timer; Off when it is not armed

Off == -1

Init == left = [t \in Timers |-> Off]

NoneDue == \A t \in Timers : left[t] # 0

Arm(t, d) ==
  /\ NoneDue
  /\ left' = [left EXCEPT ![t] = d]

Disarm(t) ==
  /\ NoneDue
  /\ left' = [left EXCEPT ![t] = Off]

Tick ==
  /\ NoneDue
  /\ left' = [t \in Timers |-> IF left[t] = Off THEN Off ELSE left[t] - 1]

(* A timer goes off; a periodic one is armed again at once.                *)
Fire(t) ==
  /\ left[t] = 0
  /\ \E d \in Delays \cup {Off} : left' = [left EXCEPT ![t] = d]

Next ==
  \/ Tick
  \/ \E t \in Timers :
       Fire(t) \/ Disarm(t) \/ \E d \in Delays : Arm(t, d)

Spec == Init /\ [][Next]_left

FairSpec == Spec /\ \A t \in Timers : WF_left(Fire(t))
=============================================================================
