------------------------------ MODULE FifoWork ------------------------------
(***************************************************************************)
(* What a work queue promises its callers: the works scheduled are run one *)
(* at a time, in the order they were scheduled, each schedule once.        *)
(***************************************************************************)
EXTENDS Naturals, Sequences, Functions

CONSTANTS Works,        \* the work_structs
          NULL,         \* no work
          Requeue       \* a work may be scheduled again before it has run

VARIABLES pending,      \* the works scheduled and not started, oldest first
          running       \* the work whose function is being called

vars == <<pending, running>>

Init == pending = <<>> /\ running = NULL

Schedule(w) ==
  /\ Requeue \/ w \notin Range(pending)
  /\ pending' = Append(pending, w)
  /\ UNCHANGED running

Start ==
  /\ running = NULL /\ pending # <<>>
  /\ running' = Head(pending)
  /\ pending' = Tail(pending)

Finish ==
  /\ running # NULL
  /\ running' = NULL
  /\ UNCHANGED pending

Next == Start \/ Finish \/ \E w \in Works : Schedule(w)

Spec == Init /\ [][Next]_vars

FairSpec == Spec /\ WF_vars(Start) /\ WF_vars(Finish)
=============================================================================
