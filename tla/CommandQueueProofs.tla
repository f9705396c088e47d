------------------------- MODULE CommandQueueProofs -------------------------
(***************************************************************************)
(* Theorems about the command queue, for any callers, any number of        *)
(* command nodes and any bounds.  A node is in one place, no node refers   *)
(* to a request that is gone, the main work's local does only after a      *)
(* cancel, a response ends the command it answers, and a caller that waits *)
(* with its condition true is owed a wake-up.                              *)
(*                                                                         *)
(* Further: no waiting call is without its node (NoCallDropped), somebody  *)
(* has to act for it as long as no send fails (SomeoneActs), a cancel's    *)
(* mark never reaches a later command (CancelsSpent), and the card has one *)
(* command at a time (CommandsOneAtATime).                                 *)
(***************************************************************************)
EXTENDS CommandQueue, DistinctSeqs

Places == {"idle", "asked", "wait", "waiting", "woken", "cancel", "unlinked",
           "canceling"}

(* The phases in which nothing is being freed.                             *)
Calm == {"idle", "loop", "send", "handle"}

(* What main_work holds in each of its phases.                             *)
Phases ==
  /\ main \in Calm => mnode = None
  /\ main \in {"send", "handle"} => curr # None
  /\ main \in {"giveup", "clean", "release"} =>
       mnode # None /\ curr \in {None, mnode}

(* A caller has a node in its hand between unlinking and inserting it.     *)
Hands == \A c \in Callers : at[c] = "unlinked" <=> hand[c] # None

(* The main work's local is the request of the command in processing, or   *)
(* that command was canceled.                                              *)
Locals ==
  /\ pioctl_buf # None => main \in {"send", "handle"}
  /\ pioctl_buf \notin {None, pioctl[curr]} => curr \in canceled

(* The command in processing is with the card, or its response is on the   *)
(* way, or is being handled; never two of these.                           *)
OneAnswer ==
  /\ resp # None => /\ main \in {"loop", "handle"} /\ curr # None /\ resp.node = curr
                    /\ card = None /\ up = None
  /\ card # None => main \in {"idle", "loop"} /\ card = curr /\ up = None
  /\ up # None => main \in {"idle", "loop"} /\ up.node = curr

(* A node that works for a request is pending or in processing, and the    *)
(* request's caller is in its call and has not been answered; two nodes do *)
(* not work for the same one.                                              *)
Requests ==
  /\ \A n \in Nodes : pioctl[n] # None =>
       /\ n \in Range(pending) \/ (n = curr /\ main \in Calm)
       /\ at[pioctl[n]] \notin {"idle", "unlinked", "canceling"}
       /\ ~cond[pioctl[n]]
  /\ \A m \in Nodes, n \in Nodes : pioctl[n] # None /\ pioctl[m] = pioctl[n] => m = n

IInv ==
  /\ TypeOK /\ NodesConserved
  /\ Phases /\ Hands /\ Locals /\ OneAnswer /\ Requests

-----------------------------------------------------------------------------
(* What a post does to the callers: one that waits may become woken.       *)
LEMMA WakeUp ==
  ASSUME TypeOK, NEW f \in [Callers -> Places], wake_up(f),
         \A c \in Callers : at[c] = "waiting" => f[c] = "waiting"
  PROVE  /\ at' \in [Callers -> Places] /\ sem' \in 0..SEM_MAX
         /\ \A c \in Callers : at'[c] # f[c] => f[c] = "waiting" /\ at'[c] = "woken"
<1> USE BoundsAssumption
<1>1. CASE Waiting = {} BY <1>1 DEF wake_up, TypeOK
<1>2. CASE Waiting # {}
  <2>1. PICK c \in Waiting : at' = [f EXCEPT ![c] = "woken"] BY <1>2 DEF wake_up
  <2>2. c \in Callers /\ f[c] = "waiting" BY DEF Waiting
  <2>3. sem' = sem BY <1>2 DEF wake_up
  <2> QED BY <2>1, <2>2, <2>3 DEF TypeOK, Places
<1> QED BY <1>1, <1>2

(* Completing a node's request.                                            *)
LEMMA Completes ==
  ASSUME TypeOK, NEW n \in Nodes, Complete(n)
  PROVE  /\ at' \in [Callers -> Places] /\ sem' \in 0..SEM_MAX
         /\ cond' \in [Callers -> BOOLEAN]
         /\ \A c \in Callers : at'[c] # at[c] => at[c] = "waiting" /\ at'[c] = "woken"
         /\ \A c \in Callers : c # pioctl[n] => cond'[c] = cond[c]
<1>1. /\ at \in [Callers -> Places] /\ cond \in [Callers -> BOOLEAN]
      /\ sem \in 0..SEM_MAX /\ pioctl[n] \in Callers \cup {None}
  BY DEF TypeOK, Places
<1>2. CASE pioctl[n] = None BY <1>1, <1>2 DEF Complete, calls
<1>3. CASE pioctl[n] # None
  <2>1. wake_up(at) /\ cond' = [cond EXCEPT ![pioctl[n]] = TRUE]
    BY <1>3 DEF Complete, moal_ioctl_complete
  <2> QED BY <1>1, <2>1, WakeUp
<1> QED BY <1>2, <1>3

(* What a cancel unlinks.                                                  *)
LEMMA Unlinks ==
  ASSUME TypeOK, NEW c \in Callers, CancelPending(c)
  PROVE  \E i \in 1..Len(pending) :
           /\ WorksFor(pending[i], c) /\ pending[i] \in Nodes /\ pending[i] \in Range(pending)
           /\ pending' = RemoveAt(pending, i)
           /\ hand' = [hand EXCEPT ![c] = pending[i]]
           /\ pioctl' = [pioctl EXCEPT ![pending[i]] = None]
<1>1. pending \in Seq(Nodes) BY DEF TypeOK
<1>2. DOMAIN pending = 1..Len(pending) BY <1>1
<1>3. \A i \in 1..Len(pending) : pending[i] \in Nodes /\ pending[i] \in Range(pending)
  BY <1>1 DEF Range
<1>4. \E i \in DOMAIN pending :
           /\ WorksFor(pending[i], c)
           /\ pending' = RemoveAt(pending, i)
           /\ hand' = [hand EXCEPT ![c] = pending[i]]
           /\ pioctl' = [pioctl EXCEPT ![pending[i]] = None]
  BY Zenon DEF CancelPending
<1> QED BY <1>2, <1>3, <1>4, Zenon

-----------------------------------------------------------------------------
LEMMA InitInv == Init => IInv
<1> SUFFICES ASSUME Init PROVE IInv
  OBVIOUS
<1> USE NamesAssumption, BoundsAssumption
<1>1. free \in Seq(Nodes) /\ IsInjective(free) /\ Range(free) = Nodes
  <2>1. Cardinality(Nodes) \in Nat BY FS_CardinalityType
  <2>2. free \in [1..Cardinality(Nodes) -> Nodes] /\ IsInjective(free) /\ Range(free) = Nodes
    BY DEF Init
  <2> QED BY <2>1, <2>2
<1>2. pending \in Seq(Nodes) /\ IsInjective(pending) /\ Range(pending) = {}
  BY DEF Init, IsInjective, Range
<1>3. TypeOK
  <2>1. sem \in 0..SEM_MAX /\ works \in Nat BY DEF Init
  <2> QED BY <1>1, <1>2, <2>1 DEF Init, TypeOK, Responses
<1>4. NodesConserved
  <2>1. Range(hand) \subseteq {None} /\ \A c \in Callers : hand[c] = None
    BY DEF Init, Range
  <2> QED BY <1>1, <1>2, <2>1 DEF Init, NodesConserved
<1>5. Phases /\ Hands /\ Locals /\ OneAnswer /\ Requests
  BY DEF Init, Phases, Hands, Locals, OneAnswer, Requests, Calm
<1> QED BY <1>3, <1>4, <1>5 DEF IInv

LEMMA TypeStep == IInv /\ [Next]_vars => TypeOK'
<1> SUFFICES ASSUME IInv, [Next]_vars PROVE TypeOK'
  OBVIOUS
<1> USE NamesAssumption, BoundsAssumption DEF IInv
<1>t. TypeOK OBVIOUS
<1>p. Phases /\ OneAnswer OBVIOUS
<1>h. Hands OBVIOUS
<1>i. IsInjective(free) /\ IsInjective(pending) BY DEF NodesConserved
<1> USE DEF queues, timing, memory, running, device, calls
<1> HIDE DEF IInv
<1>1. ASSUME NEW c \in Callers, Ask(c) PROVE TypeOK'
  BY <1>1, <1>t DEF Ask, TypeOK
<1>2. ASSUME NEW c \in Callers, AskRefused(c) PROVE TypeOK'
  BY <1>2, <1>t DEF AskRefused, Cleaned, TypeOK
<1>3. ASSUME NEW c \in Callers, AskNoBuffer(c) PROVE TypeOK'
  BY <1>3, <1>t DEF AskNoBuffer, TypeOK
<1>4. ASSUME NEW c \in Callers, AskNoNode(c) PROVE TypeOK'
  BY <1>4, <1>t DEF AskNoNode, TypeOK, vars
<1>5. ASSUME NEW c \in Callers, QueueWork(c) PROVE TypeOK'
  BY <1>5, <1>t DEF QueueWork, TypeOK
<1>6. ASSUME NEW c \in Callers, Pend(c) PROVE TypeOK'
  BY <1>6, <1>t DEF Pend, TypeOK
<1>7. ASSUME NEW c \in Callers, Woken(c) PROVE TypeOK'
  <2>1. cond' \in [Callers -> BOOLEAN] /\ pioctl_buf' \in Callers \cup {None, Freed}
    BY <1>7, <1>t DEF Woken, FreeRequest, TypeOK
  <2> QED BY <1>7, <1>t, <2>1 DEF Woken, TypeOK
<1>8. ASSUME NEW c \in Callers, CancelCurrent(c) PROVE TypeOK'
  BY <1>8, <1>t DEF CancelCurrent, WorksFor, TypeOK
<1>9. ASSUME NEW c \in Callers, CancelPending(c) PROVE TypeOK'
  <2>1. PICK i \in 1..Len(pending) :
          /\ pending' = RemoveAt(pending, i)
          /\ hand' = [hand EXCEPT ![c] = pending[i]]
          /\ pioctl' = [pioctl EXCEPT ![pending[i]] = None]
    BY <1>9, <1>t, Unlinks
  <2>2. pending' \in Seq(Nodes) /\ pending[i] \in Nodes
    BY <1>t, <1>i, <2>1, RemoveOne DEF RemoveAt, TypeOK
  <2>3. at' \in [Callers -> Places] BY <1>9, <1>t DEF CancelPending, TypeOK, Places
  <2> QED BY <1>9, <1>t, <2>1, <2>2, <2>3 DEF CancelPending, TypeOK, Places
<1>27. ASSUME NEW c \in Callers, CancelInserts(c) PROVE TypeOK'
  <2>1. hand[c] \in Nodes BY <1>27, <1>h, <1>t DEF CancelInserts, Hands, TypeOK
  <2>2. free' \in Seq(Nodes) /\ hand' \in [Callers -> Nodes \cup {None}]
        /\ at' \in [Callers -> Places]
    BY <1>27, <1>t, <2>1 DEF CancelInserts, TypeOK, Places
  <2> QED BY <1>27, <1>t, <2>1, <2>2 DEF CancelInserts, Cleaned, TypeOK, Places
<1>10. ASSUME NEW c \in Callers, CancelNothing(c) PROVE TypeOK'
  BY <1>10, <1>t DEF CancelNothing, TypeOK
<1>11. ASSUME NEW c \in Callers, CancelCompletes(c) PROVE TypeOK'
  <2>1. at' \in [Callers -> Places] /\ sem' \in 0..SEM_MAX
    <3>1. /\ [at EXCEPT ![c] = "idle"] \in [Callers -> Places]
          /\ at[c] = "canceling" /\ wake_up([at EXCEPT ![c] = "idle"])
      BY <1>11, <1>t DEF CancelCompletes, TypeOK, Places
    <3>2. \A d \in Callers : at[d] = "waiting" => [at EXCEPT ![c] = "idle"][d] = "waiting"
      BY <1>t, <3>1 DEF TypeOK
    <3> QED BY <1>t, <3>1, <3>2, WakeUp
  <2>2. cond' \in [Callers -> BOOLEAN] /\ pioctl_buf' \in Callers \cup {None, Freed}
    BY <1>11, <1>t DEF CancelCompletes, FreeRequest, TypeOK
  <2> QED BY <1>11, <1>t, <2>1, <2>2 DEF CancelCompletes, TypeOK, Places
<1>12. CASE TimerExpires
  <2>1. /\ timer' \in BOOLEAN /\ due' \in BOOLEAN
        /\ UNCHANGED <<queues, curr, resp, cmd_sent, is_set, running, device, calls>>
    BY <1>12 DEF TimerExpires
  <2> QED BY <1>t, <2>1 DEF TypeOK
<1>13. CASE wlan_cmd_timeout_func
  <2>1. works' \in Nat BY <1>13, <1>t DEF wlan_cmd_timeout_func, TypeOK
  <2>2. dbg' \in BOOLEAN BY <1>13, <1>t DEF wlan_cmd_timeout_func, TypeOK
  <2>3. /\ due' \in BOOLEAN /\ is_set' \in BOOLEAN
        /\ UNCHANGED <<queues, curr, resp, cmd_sent, timer, main, mnode, memory, intr,
                      device, calls>>
    BY <1>13 DEF wlan_cmd_timeout_func
  <2> QED BY <1>t, <2>1, <2>2, <2>3 DEF TypeOK
<1>14. CASE MainDumps
  <2>1. works' \in Nat BY <1>14, <1>t DEF MainDumps, TypeOK
  <2>2. /\ dbg' \in BOOLEAN
        /\ UNCHANGED <<queues, curr, resp, cmd_sent, timing, main, mnode, memory, intr,
                      device, calls>>
    BY <1>14 DEF MainDumps
  <2> QED BY <1>t, <2>1, <2>2 DEF TypeOK
<1>15. CASE MainStarts
  <2>1. works' \in Nat BY <1>15, <1>t DEF MainStarts, TypeOK
  <2>2. cmd_sent' \in BOOLEAN /\ port' \in BOOLEAN
    BY <1>15, <1>t DEF MainStarts, TypeOK
  <2>3. resp' \in Responses /\ up' \in Responses
    BY <1>15, <1>t DEF MainStarts, TypeOK, Responses
  <2> QED BY <1>15, <1>t, <2>1, <2>2, <2>3 DEF MainStarts, TypeOK
<1>16. CASE MainEnds BY <1>16, <1>t DEF MainEnds, TypeOK
<1>17. CASE ExecNextCmd
  <2>1. Head(pending) \in Nodes /\ Tail(pending) \in Seq(Nodes)
    BY <1>17, <1>t DEF ExecNextCmd, TypeOK
  <2> QED BY <1>17, <1>t, <2>1 DEF ExecNextCmd, TypeOK
<1>18. CASE SendSucceeds BY <1>18, <1>t DEF SendSucceeds, TypeOK
<1>19. CASE SendFails
  <2>1. curr \in Nodes BY <1>19, <1>t, <1>p DEF SendFails, Phases, TypeOK
  <2>2. at' \in [Callers -> Places] /\ sem' \in 0..SEM_MAX /\ cond' \in [Callers -> BOOLEAN]
    BY <1>19, <1>t, <2>1, Completes DEF SendFails
  <2>3. pioctl' \in [Nodes -> Callers \cup {None}] /\ canceled' \subseteq Nodes
        /\ free' \in Seq(Nodes)
    BY <1>19, <1>t, <2>1 DEF SendFails, Cleaned, TypeOK
  <2>4. pioctl_buf' = None /\ fault' \in BOOLEAN
    BY <1>19, <1>t DEF SendFails, WriteRequest, TypeOK
  <2> QED BY <1>19, <1>t, <2>1, <2>2, <2>3, <2>4 DEF SendFails, TypeOK, Places
<1>20. CASE GiveUp BY <1>20, <1>t DEF GiveUp, TypeOK
<1>21. CASE RespondCanceled \/ Handled \/ RespondBad
  <2>1. curr \in Nodes
    BY <1>21, <1>t, <1>p DEF RespondCanceled, Handled, RespondBad, OneAnswer, Phases, TypeOK
  <2>2. at' \in [Callers -> Places] /\ sem' \in 0..SEM_MAX /\ cond' \in [Callers -> BOOLEAN]
    BY <1>21, <1>t, <2>1, Completes DEF RespondCanceled, Handled, RespondBad
  <2>3. Frees(curr) /\ curr' \in {None, curr}
    BY <1>21 DEF RespondCanceled, Handled, RespondBad
  <2>4. fault' \in BOOLEAN
    BY <1>21, <1>t DEF RespondCanceled, Handled, RespondBad, WriteRequest, TypeOK
  <2>5. timer' \in BOOLEAN /\ is_set' \in BOOLEAN /\ due' \in BOOLEAN
    BY <1>21, <1>t DEF RespondCanceled, Handled, RespondBad, StopTimer, TypeOK
  <2> QED BY <1>t, <2>1, <2>2, <2>3, <2>4, <2>5 DEF Frees, Cleaned, TypeOK, Places, Responses
<1>28. CASE Respond
  <2>1. curr \in Nodes BY <1>28, <1>t, <1>p DEF Respond, OneAnswer, TypeOK
  <2> QED BY <1>28, <1>t, <2>1 DEF Respond, StopTimer, TypeOK
<1>22. CASE Clean BY <1>22, <1>t, <1>p DEF Clean, Phases, TypeOK
<1>23. CASE Release BY <1>23, <1>t DEF Release, TypeOK
<1>24. CASE CardReady BY <1>24, <1>t DEF CardReady, SDIO_IRQHandler, TypeOK
<1>25. CASE CardAnswers
  BY <1>25, <1>t DEF CardAnswers, SDIO_IRQHandler, TypeOK, Responses
<1>26. CASE UNCHANGED vars BY <1>26, <1>t DEF vars, TypeOK
<1> QED
  BY <1>1, <1>2, <1>3, <1>4, <1>5, <1>6, <1>7, <1>8, <1>9, <1>10, <1>11, <1>12,
     <1>13, <1>14, <1>15, <1>16, <1>17, <1>18, <1>19, <1>20, <1>21, <1>22, <1>23,
     <1>24, <1>25, <1>26, <1>27, <1>28
  DEF Next, System, Caller, Main

LEMMA PhasesStep == IInv /\ [Next]_vars => Phases' /\ OneAnswer'
<1> SUFFICES ASSUME IInv, [Next]_vars PROVE Phases' /\ OneAnswer'
  OBVIOUS
<1>i. TypeOK /\ Phases /\ OneAnswer BY DEF IInv
<1> USE NamesAssumption DEF queues, timing, memory, running, device, calls, Phases,
        OneAnswer, Calm
<1>1. ASSUME NEW c \in Callers, Caller(c) PROVE Phases' /\ OneAnswer'
  <2>1. UNCHANGED <<main, mnode, curr, resp, card, up>>
    BY <1>1 DEF Caller, Ask, AskRefused, AskNoBuffer, AskNoNode, QueueWork, Pend,
         Woken, CancelCurrent, CancelPending, CancelInserts, CancelNothing, CancelCompletes, vars
  <2> QED BY <1>i, <2>1
<1>2. CASE TimerExpires \/ wlan_cmd_timeout_func \/ MainDumps \/ CardReady \/ UNCHANGED vars
  <2>1. UNCHANGED <<main, mnode, curr, resp, card, up>>
    BY <1>2 DEF TimerExpires, wlan_cmd_timeout_func, MainDumps, CardReady,
         SDIO_IRQHandler, vars
  <2> QED BY <1>i, <2>1
<1>3. CASE MainStarts BY <1>3, <1>i DEF MainStarts
<1>4. CASE MainEnds BY <1>4, <1>i DEF MainEnds
<1>5. CASE ExecNextCmd
  <2>1. curr' # None
    <3>1. Head(pending) \in Nodes BY <1>5, <1>i DEF ExecNextCmd, TypeOK
    <3> QED BY <1>5, <3>1 DEF ExecNextCmd
  <2> QED BY <1>5, <1>i, <2>1 DEF ExecNextCmd, TypeOK, Responses
<1>6. CASE SendSucceeds BY <1>6, <1>i DEF SendSucceeds
<1>7. CASE SendFails BY <1>7, <1>i DEF SendFails
<1>8. CASE GiveUp BY <1>8, <1>i DEF GiveUp
<1>9. CASE RespondCanceled \/ Respond \/ Handled \/ RespondBad
  BY <1>9, <1>i DEF RespondCanceled, Respond, Handled, RespondBad, Frees
<1>10. CASE Clean BY <1>10, <1>i DEF Clean
<1>11. CASE Release BY <1>11, <1>i DEF Release
<1>12. CASE CardAnswers BY <1>12, <1>i DEF CardAnswers, SDIO_IRQHandler
<1> QED
  BY <1>1, <1>2, <1>3, <1>4, <1>5, <1>6, <1>7, <1>8, <1>9, <1>10, <1>11, <1>12
  DEF Next, System, Main

LEMMA HandsStep == IInv /\ [Next]_vars => Hands'
<1> SUFFICES ASSUME IInv, [Next]_vars PROVE Hands'
  OBVIOUS
<1>i. TypeOK /\ Hands /\ Phases /\ OneAnswer BY DEF IInv
<1>t. /\ at \in [Callers -> Places] /\ hand \in [Callers -> Nodes \cup {None}]
      /\ pending \in Seq(Nodes)
  BY <1>i DEF TypeOK, Places
<1> USE NamesAssumption DEF queues, timing, memory, running, device, calls
<1>0. ASSUME hand' = hand, \A c \in Callers : at'[c] = "unlinked" <=> at[c] = "unlinked"
      PROVE  Hands'
  BY <1>0, <1>i DEF Hands
<1>1. ASSUME NEW c \in Callers,
             \/ Ask(c) \/ AskRefused(c) \/ AskNoBuffer(c) \/ AskNoNode(c) \/ QueueWork(c)
             \/ Pend(c) \/ Woken(c) \/ CancelCurrent(c) \/ CancelNothing(c)
      PROVE  Hands'
  <2>1. hand' = hand /\ \A d \in Callers : at'[d] = "unlinked" <=> at[d] = "unlinked"
    BY <1>1, <1>t DEF Ask, AskRefused, AskNoBuffer, AskNoNode, QueueWork, Pend, Woken,
         CancelCurrent, CancelNothing, vars
  <2> QED BY <1>0, <2>1
<1>2. ASSUME NEW c \in Callers, CancelPending(c) PROVE Hands'
  <2>1. PICK i \in 1..Len(pending) : hand' = [hand EXCEPT ![c] = pending[i]]
    BY <1>2, <1>i, Unlinks
  <2>2. pending[i] \in Nodes /\ at' = [at EXCEPT ![c] = "unlinked"]
    BY <1>2, <1>t DEF CancelPending
  <2> QED BY <1>i, <1>t, <2>1, <2>2 DEF Hands
<1>3. ASSUME NEW c \in Callers, CancelInserts(c) PROVE Hands'
  BY <1>3, <1>i, <1>t DEF CancelInserts, Hands
<1>4. ASSUME NEW c \in Callers, CancelCompletes(c) PROVE Hands'
  <2> DEFINE f == [at EXCEPT ![c] = "idle"]
  <2>1. at[c] = "canceling" /\ wake_up(f) /\ hand' = hand
    BY <1>4 DEF CancelCompletes
  <2>2. /\ f \in [Callers -> Places] /\ f[c] = "idle"
        /\ \A d \in Callers : d # c => f[d] = at[d]
    BY <1>t DEF Places
  <2>3. \A d \in Callers : at[d] = "waiting" => f[d] = "waiting" BY <2>1, <2>2
  <2> HIDE DEF f
  <2>4. \A d \in Callers : at'[d] # f[d] => f[d] = "waiting" /\ at'[d] = "woken"
    BY <1>i, <2>1, <2>2, <2>3, WakeUp
  <2>5. \A d \in Callers : at'[d] = "unlinked" <=> at[d] = "unlinked"
    BY <2>1, <2>2, <2>4
  <2> QED BY <1>0, <2>1, <2>5
<1>5. CASE SendFails \/ RespondCanceled \/ Handled \/ RespondBad
  <2>1. curr \in Nodes /\ Complete(curr) /\ hand' = hand
    BY <1>5, <1>i DEF SendFails, RespondCanceled, Handled, RespondBad, Frees, Phases,
         OneAnswer, TypeOK
  <2>2. \A d \in Callers : at'[d] # at[d] => at[d] = "waiting" /\ at'[d] = "woken"
    BY <1>i, <2>1, Completes
  <2>3. \A d \in Callers : at'[d] = "unlinked" <=> at[d] = "unlinked"
    BY <2>2
  <2> QED BY <1>0, <2>1, <2>3
<1>6. CASE TimerExpires \/ wlan_cmd_timeout_func \/ MainDumps \/ MainStarts \/ MainEnds
           \/ ExecNextCmd \/ SendSucceeds \/ GiveUp \/ Respond \/ Clean \/ Release
           \/ CardReady \/ CardAnswers \/ UNCHANGED vars
  <2>1. UNCHANGED <<at, hand>>
    BY <1>6 DEF TimerExpires, wlan_cmd_timeout_func, MainDumps, MainStarts, MainEnds,
         ExecNextCmd, SendSucceeds, GiveUp, Respond, Clean, Release, CardReady, CardAnswers,
         SDIO_IRQHandler, vars
  <2> QED BY <1>0, <2>1
<1> QED
  BY <1>1, <1>2, <1>3, <1>4, <1>5, <1>6 DEF Next, System, Caller, Main

(* The local follows the request: what parts it from curr_cmd's node is    *)
(* only a cancel that flags the node.                                      *)
LEMMA LocalsStep == IInv /\ [Next]_vars => Locals'
<1> SUFFICES ASSUME IInv, [Next]_vars PROVE Locals'
  OBVIOUS
<1>i. TypeOK /\ NodesConserved /\ Phases /\ Hands /\ Locals /\ Requests BY DEF IInv
<1>t. /\ pioctl \in [Nodes -> Callers \cup {None}] /\ canceled \subseteq Nodes
      /\ free \in Seq(Nodes) /\ pending \in Seq(Nodes) /\ IsInjective(free)
      /\ hand \in [Callers -> Nodes \cup {None}] /\ curr \in Nodes \cup {None}
      /\ cond \in [Callers -> BOOLEAN] /\ at \in [Callers -> Places]
  BY <1>i DEF TypeOK, NodesConserved, Places
<1> USE NamesAssumption DEF queues, timing, memory, running, device, calls
<1>0. CASE pioctl_buf' = None BY <1>0 DEF Locals
<1>c. pioctl_buf # None => curr \in Nodes /\ main \in {"send", "handle"}
  BY <1>i, <1>t DEF Locals, Phases
(* What leaves curr_cmd's node and the local alone.                        *)
<1>1. ASSUME UNCHANGED <<pioctl_buf, main, curr>>,
             pioctl_buf # None => /\ pioctl'[curr] = pioctl[curr]
                                  /\ curr \in canceled => curr \in canceled'
      PROVE  Locals'
  BY <1>1, <1>i DEF Locals
<1>2. ASSUME NEW c \in Callers, Ask(c) \/ AskRefused(c) PROVE Locals'
  <2> DEFINE h == Head(free)
  <2>1. /\ free # <<>> /\ UNCHANGED <<pioctl_buf, main, curr>>
        /\ canceled' = canceled \/ canceled' = canceled \ {h}
        /\ \E v : pioctl' = [pioctl EXCEPT ![h] = v]
    BY <1>2 DEF Ask, AskRefused, Cleaned
  <2>2. h \in Range(free) BY <1>t, <2>1, TakeHead
  <2> HIDE DEF h
  <2>3. pioctl_buf # None => curr # h
    BY <1>c, <1>i, <2>2 DEF NodesConserved
  <2> QED BY <1>1, <1>c, <1>t, <2>1, <2>3
<1>3. ASSUME NEW c \in Callers,
             \/ AskNoBuffer(c) \/ AskNoNode(c) \/ QueueWork(c) \/ Pend(c) \/ CancelNothing(c)
      PROVE  Locals'
  <2>1. UNCHANGED <<pioctl_buf, main, curr, pioctl, canceled>>
    BY <1>3 DEF AskNoBuffer, AskNoNode, QueueWork, Pend, CancelNothing, vars
  <2> QED BY <1>1, <2>1
<1>4. ASSUME NEW c \in Callers, Woken(c) \/ CancelCompletes(c) PROVE Locals'
  <2>1. /\ UNCHANGED <<main, curr, pioctl, canceled>>
        /\ pioctl_buf' # pioctl_buf => pioctl_buf = c /\ (cond[c] \/ at[c] = "canceling")
    BY <1>4 DEF Woken, CancelCompletes, FreeRequest
  <2>2. CASE pioctl_buf' = pioctl_buf BY <1>1, <2>1, <2>2
  <2>3. CASE pioctl_buf' # pioctl_buf
    <3>1. pioctl_buf = c /\ c # None /\ curr \in Nodes /\ main \in {"send", "handle"}
      BY <1>c, <2>1, <2>3
    <3>2. pioctl[curr] # c
      BY <1>i, <2>1, <2>3, <3>1 DEF Requests
    <3>3. curr \in canceled BY <1>i, <3>1, <3>2 DEF Locals
    <3> QED BY <2>1, <3>1, <3>3 DEF Locals
  <2> QED BY <2>2, <2>3
<1>5. ASSUME NEW c \in Callers, CancelCurrent(c) PROVE Locals'
  BY <1>5, <1>i DEF CancelCurrent, Locals
<1>6. ASSUME NEW c \in Callers, CancelPending(c) PROVE Locals'
  <2>1. PICK k \in 1..Len(pending) : /\ pioctl' = [pioctl EXCEPT ![pending[k]] = None]
                                     /\ pending[k] \in Range(pending)
    BY <1>6, <1>i, Unlinks
  <2>2. UNCHANGED <<pioctl_buf, main, curr, canceled>> BY <1>6 DEF CancelPending
  <2>3. pending[k] \in Range(pending) BY <2>1
  <2>4. pioctl_buf # None => curr # pending[k] BY <1>c, <1>i, <2>3 DEF NodesConserved
  <2> QED BY <1>1, <1>c, <1>t, <2>1, <2>2, <2>4
<1>7. ASSUME NEW c \in Callers, CancelInserts(c) PROVE Locals'
  <2>1. /\ pioctl' = [pioctl EXCEPT ![hand[c]] = None] /\ canceled' = canceled \ {hand[c]}
        /\ UNCHANGED <<pioctl_buf, main, curr>> /\ at[c] = "unlinked"
    BY <1>7 DEF CancelInserts, Cleaned
  <2>2. hand[c] \in Range(hand) \ {None} BY <1>i, <1>t, <2>1 DEF Hands, Range
  <2>3. pioctl_buf # None => curr # hand[c] BY <1>c, <1>i, <2>2 DEF NodesConserved
  <2> QED BY <1>1, <1>c, <1>t, <2>1, <2>3
<1>8. CASE \/ TimerExpires \/ wlan_cmd_timeout_func \/ MainDumps \/ CardReady
           \/ CardAnswers \/ UNCHANGED vars
  <2>1. UNCHANGED <<pioctl_buf, main, curr, pioctl, canceled>>
    BY <1>8 DEF TimerExpires, wlan_cmd_timeout_func, MainDumps, CardReady, CardAnswers,
         SDIO_IRQHandler, vars
  <2> QED BY <1>1, <2>1
<1>9. CASE \/ MainStarts \/ MainEnds \/ GiveUp \/ Clean \/ Release
  <2>1. pioctl_buf' = pioctl_buf /\ main \notin {"send", "handle"}
    BY <1>9 DEF MainStarts, MainEnds, GiveUp, Clean, Release
  <2> QED BY <1>0, <1>c, <2>1
<1>10. CASE ExecNextCmd
  BY <1>10 DEF ExecNextCmd, Locals
<1>11. CASE Respond
  BY <1>11 DEF Respond, Locals
<1>12. CASE SendSucceeds \/ SendFails \/ RespondCanceled \/ Handled \/ RespondBad
  BY <1>0, <1>12 DEF SendSucceeds, SendFails, RespondCanceled, Handled, RespondBad, Frees
<1> QED
  BY <1>2, <1>3, <1>4, <1>5, <1>6, <1>7, <1>8, <1>9, <1>10, <1>11, <1>12
  DEF Next, System, Caller, Main

LEMMA NodesStep == IInv /\ [Next]_vars => NodesConserved'
<1> SUFFICES ASSUME IInv, [Next]_vars PROVE NodesConserved'
  OBVIOUS
<1>t. TypeOK BY DEF IInv
<1>p. Phases /\ OneAnswer /\ Hands BY DEF IInv
<1>n. NodesConserved BY DEF IInv
<1>h. hand \in [Callers -> Nodes \cup {None}] BY <1>t DEF TypeOK
<1>q. free \in Seq(Nodes) /\ pending \in Seq(Nodes) /\ IsInjective(free) /\ IsInjective(pending)
  BY <1>t, <1>n DEF TypeOK, NodesConserved
<1> USE NamesAssumption DEF queues, timing, memory, running, device, calls
<1>1. ASSUME UNCHANGED <<free, pending, curr, lost, mnode, hand>>,
             main \in {"giveup", "release"} <=> main' \in {"giveup", "release"}
      PROVE  NodesConserved'
  BY <1>1, <1>n DEF NodesConserved
<1>2. ASSUME NEW c \in Callers, Caller(c) PROVE NodesConserved'
  <2>1. UNCHANGED <<curr, mnode, main>>
    BY <1>2 DEF Caller, Ask, AskRefused, AskNoBuffer, AskNoNode, QueueWork, Pend,
         Woken, CancelCurrent, CancelPending, CancelInserts, CancelNothing, CancelCompletes, vars
  <2>2. CASE Ask(c)
    <3>1. /\ free # <<>> /\ free' = Tail(free) /\ pending' = Append(pending, Head(free))
          /\ UNCHANGED <<lost, hand>>
      BY <2>2 DEF Ask
    <3>2. /\ IsInjective(free') /\ Range(free) = Range(free') \cup {Head(free)}
          /\ Head(free) \notin Range(free') /\ Head(free) \in Nodes
      BY <1>q, <3>1, TakeHead
    <3>3. Head(free) \notin Range(pending) BY <1>n, <3>2 DEF NodesConserved
    <3>4. IsInjective(pending') /\ Range(pending') = Range(pending) \cup {Head(free)}
      BY <1>q, <3>1, <3>2, <3>3, AppendNew
    <3> QED BY <1>n, <2>1, <3>1, <3>2, <3>3, <3>4 DEF NodesConserved
  <2>3. CASE AskRefused(c)
    <3>1. /\ free # <<>> /\ free' = Append(Tail(free), Head(free)) /\ UNCHANGED <<pending, lost, hand>>
      BY <2>3 DEF AskRefused
    <3>2. /\ Tail(free) \in Seq(Nodes) /\ Head(free) \in Nodes /\ IsInjective(Tail(free))
          /\ Range(free) = Range(Tail(free)) \cup {Head(free)}
          /\ Head(free) \notin Range(Tail(free))
      BY <1>q, <3>1, TakeHead
    <3>3. /\ IsInjective(Append(Tail(free), Head(free)))
          /\ Range(Append(Tail(free), Head(free))) = Range(Tail(free)) \cup {Head(free)}
      <4> DEFINE t == Tail(free)
                 h == Head(free)
      <4> HIDE DEF t, h
      <4>1. t \in Seq(Nodes) /\ h \in Nodes /\ IsInjective(t) /\ h \notin Range(t)
        BY <3>2 DEF t, h
      <4>2. IsInjective(Append(t, h)) /\ Range(Append(t, h)) = Range(t) \cup {h}
        BY <4>1, AppendNew
      <4> QED BY <4>2 DEF t, h
    <3> QED BY <1>n, <2>1, <3>1, <3>2, <3>3 DEF NodesConserved
  <2>4. CASE AskNoBuffer(c)
    <3>1. /\ free # <<>> /\ free' = Tail(free) /\ pending' = pending
          /\ lost' = lost \cup {Head(free)} /\ hand' = hand
      BY <2>4 DEF AskNoBuffer
    <3>2. /\ IsInjective(free') /\ Range(free) = Range(free') \cup {Head(free)}
          /\ Head(free) \notin Range(free') /\ Head(free) \in Nodes
      BY <1>q, <3>1, TakeHead
    <3> QED BY <1>n, <2>1, <3>1, <3>2 DEF NodesConserved
  <2>5. CASE CancelPending(c)
    <3>1. PICK i \in 1..Len(pending) :
            /\ pending' = RemoveAt(pending, i)
            /\ hand' = [hand EXCEPT ![c] = pending[i]]
      BY <2>5, <1>t, Unlinks
    <3>2. /\ IsInjective(pending') /\ Range(pending) = Range(pending') \cup {pending[i]}
          /\ pending[i] \notin Range(pending') /\ pending[i] \in Nodes
      BY <1>q, <3>1, RemoveOne DEF RemoveAt
    <3>3. at[c] = "cancel" /\ UNCHANGED <<free, lost>> BY <2>5 DEF CancelPending
    <3>4. hand[c] = None BY <1>p, <3>3 DEF Hands
    <3>5. Range(hand') \ {None} = (Range(hand) \ {None}) \cup {pending[i]}
      BY <1>h, <3>1, <3>2, <3>4 DEF Range
    <3>6. \A d, e \in Callers : hand'[d] = hand'[e] => d = e \/ hand'[d] = None
      <4>1. pending[i] \notin Range(hand) \ {None} BY <1>n, <3>2 DEF NodesConserved
      <4>2. \A d \in Callers : hand[d] # pending[i] BY <1>h, <3>2, <4>1 DEF Range
      <4>3. \A d \in Callers : hand'[d] = IF d = c THEN pending[i] ELSE hand[d]
        BY <1>h, <3>1
      <4>4. \A d, e \in Callers : hand[d] = hand[e] => d = e \/ hand[d] = None
        BY <1>n DEF NodesConserved
      <4> QED BY <4>2, <4>3, <4>4
    <3> QED BY <1>n, <2>1, <3>2, <3>3, <3>5, <3>6 DEF NodesConserved
  <2>7. CASE CancelInserts(c)
    <3> DEFINE n == hand[c]
    <3>1. /\ free' = Append(free, n) /\ hand' = [hand EXCEPT ![c] = None]
          /\ at[c] = "unlinked" /\ UNCHANGED <<pending, lost>>
      BY <2>7 DEF CancelInserts
    <3>2. n \in Nodes /\ n \in Range(hand) \ {None} BY <1>h, <1>p, <3>1 DEF Hands, Range
    <3>3. n \notin Range(free) BY <1>n, <3>2 DEF NodesConserved
    <3>4. \A d, e \in Callers : hand[d] = hand[e] => d = e \/ hand[d] = None
      BY <1>n DEF NodesConserved
    <3>5. \A d \in Callers : hand'[d] = IF d = c THEN None ELSE hand[d] BY <1>h, <3>1
    <3>6. Range(hand') \ {None} = (Range(hand) \ {None}) \ {n}
      BY <1>h, <3>1, <3>2, <3>4, <3>5 DEF Range
    <3>7. \A d, e \in Callers : hand'[d] = hand'[e] => d = e \/ hand'[d] = None
      BY <3>4, <3>5
    <3> HIDE DEF n
    <3>8. IsInjective(free') /\ Range(free') = Range(free) \cup {n}
      BY <1>q, <3>1, <3>2, <3>3, AppendNew
    <3>9. UNCHANGED <<pending, lost, curr, mnode, main>> BY <2>1, <3>1
    <3>10. /\ n \notin Range(pending) \cup lost
           /\ main \in {"giveup", "release"} \/ n \notin {curr, mnode}
      BY <1>n, <3>2 DEF NodesConserved
    <3> QED BY <1>n, <3>2, <3>6, <3>7, <3>8, <3>9, <3>10 DEF NodesConserved
  <2>6. CASE AskNoNode(c) \/ QueueWork(c) \/ Pend(c) \/ Woken(c) \/ CancelCurrent(c)
             \/ CancelNothing(c) \/ CancelCompletes(c)
    <3>1. UNCHANGED <<free, pending, lost, hand>>
      BY <2>6 DEF AskNoNode, QueueWork, Pend, Woken, CancelCurrent, CancelNothing,
           CancelCompletes, vars
    <3> QED BY <1>1, <2>1, <3>1
  <2> QED BY <1>2, <2>2, <2>3, <2>4, <2>5, <2>6, <2>7 DEF Caller
<1>3. CASE TimerExpires \/ wlan_cmd_timeout_func \/ MainDumps \/ MainStarts \/ MainEnds
           \/ SendSucceeds \/ Respond \/ CardReady \/ CardAnswers \/ UNCHANGED vars
  <2>1. /\ UNCHANGED <<free, pending, curr, lost, mnode, hand>>
        /\ main \in {"giveup", "release"} <=> main' \in {"giveup", "release"}
    BY <1>3 DEF TimerExpires, wlan_cmd_timeout_func, MainDumps, MainStarts, MainEnds,
         SendSucceeds, Respond, CardReady, CardAnswers, SDIO_IRQHandler, vars
  <2> QED BY <1>1, <2>1
<1>4. CASE ExecNextCmd
  <2>1. /\ pending # <<>> /\ pending' = Tail(pending) /\ curr' = Head(pending) /\ curr = None
        /\ main = "loop" /\ main' = "send" /\ UNCHANGED <<free, lost, mnode, hand>>
    BY <1>4 DEF ExecNextCmd
  <2>2. /\ IsInjective(pending') /\ Range(pending) = Range(pending') \cup {Head(pending)}
        /\ Head(pending) \notin Range(pending') /\ Head(pending) \in Nodes
    BY <1>q, <2>1, TakeHead
  <2>3. mnode = None BY <1>p, <2>1 DEF Phases, Calm
  <2> QED BY <1>n, <2>1, <2>2, <2>3 DEF NodesConserved
<1>5. CASE SendFails
  <2>1. /\ main = "send" /\ main' = "giveup" /\ mnode' = curr /\ free' = Append(free, curr)
        /\ UNCHANGED <<pending, lost, curr, hand>> /\ mnode = None /\ curr # None
    BY <1>5, <1>p DEF SendFails, Phases, Calm
  <2>2. curr \in Nodes /\ curr \notin Range(free) \cup Range(pending) /\ curr \notin lost
    BY <1>n, <1>t, <2>1 DEF NodesConserved, TypeOK
  <2>3. IsInjective(free') /\ Range(free') = Range(free) \cup {curr}
    BY <1>q, <2>1, <2>2, AppendNew
  <2> QED BY <1>n, <2>1, <2>2, <2>3 DEF NodesConserved
<1>6. CASE GiveUp \/ Release
  <2>1. /\ main \in {"giveup", "release"} /\ main' \notin {"giveup", "release"}
        /\ curr' = None /\ mnode' = None /\ UNCHANGED <<free, pending, lost, hand>>
    BY <1>6 DEF GiveUp, Release
  <2> QED BY <1>n, <2>1 DEF NodesConserved
<1>7. CASE RespondCanceled \/ Handled \/ RespondBad
  <2>1. /\ main \in {"loop", "handle"} /\ main' = "clean" /\ mnode' = curr
        /\ curr' \in {None, curr} /\ UNCHANGED <<free, pending, lost, hand>>
        /\ mnode = None /\ curr # None
    BY <1>7, <1>p DEF RespondCanceled, Handled, RespondBad, Frees, Phases, Calm, OneAnswer
  <2> QED BY <1>n, <2>1 DEF NodesConserved
<1>8. CASE Clean
  <2>1. /\ main = "clean" /\ main' = "release" /\ free' = Append(free, mnode)
        /\ UNCHANGED <<pending, lost, curr, mnode, hand>> /\ mnode # None /\ curr \in {None, mnode}
    BY <1>8, <1>p DEF Clean, Phases
  <2>2. mnode \in Nodes /\ mnode \notin Range(free) \cup Range(pending) /\ mnode \notin lost
    BY <1>n, <1>t, <2>1 DEF NodesConserved, TypeOK
  <2>3. IsInjective(free') /\ Range(free') = Range(free) \cup {mnode}
    BY <1>q, <2>1, <2>2, AppendNew
  <2> QED BY <1>n, <2>1, <2>2, <2>3 DEF NodesConserved
<1> QED
  BY <1>2, <1>3, <1>4, <1>5, <1>6, <1>7, <1>8 DEF Next, System, Main

(* The end of a call's command: the request is completed and the node      *)
(* cleaned, wherever main_work goes.                                       *)
LEMMA Ended ==
  ASSUME IInv, NEW n \in Nodes, Complete(n), Cleaned(n), n = curr, pending' = pending
  PROVE  Requests' /\ \A m \in Nodes : pioctl'[m] # None => m \in Range(pending)
<1> USE NamesAssumption
<1>1. TypeOK /\ Requests BY DEF IInv
<1>2. /\ pioctl \in [Nodes -> Callers \cup {None}] /\ pioctl' = [pioctl EXCEPT ![n] = None]
  BY <1>1 DEF TypeOK, Cleaned
<1>3. /\ \A c \in Callers : at'[c] # at[c] => at[c] = "waiting" /\ at'[c] = "woken"
      /\ \A c \in Callers : c # pioctl[n] => cond'[c] = cond[c]
  BY <1>1, Completes
<1>4. ASSUME NEW m \in Nodes, pioctl'[m] # None
      PROVE  /\ m \in Range(pending) /\ pioctl'[m] = pioctl[m] /\ m # n
             /\ at'[pioctl[m]] \notin {"idle", "unlinked", "canceling"} /\ ~cond'[pioctl[m]]
  <2>1. m # n /\ pioctl'[m] = pioctl[m] /\ pioctl[m] \in Callers BY <1>2, <1>4
  <2>2. pioctl[m] # pioctl[n] /\ m \in Range(pending) BY <1>1, <1>4, <2>1 DEF Requests
  <2>3. at[pioctl[m]] \notin {"idle", "unlinked", "canceling"} /\ ~cond[pioctl[m]]
    BY <1>1, <1>4, <2>1 DEF Requests
  <2> QED BY <1>3, <2>1, <2>2, <2>3
<1>5. ASSUME NEW m \in Nodes, NEW k \in Nodes, pioctl'[k] # None, pioctl'[m] = pioctl'[k]
      PROVE  m = k
  BY <1>1, <1>4, <1>5 DEF Requests
<1> QED BY <1>2, <1>4, <1>5 DEF Requests

LEMMA RequestsStep == IInv /\ [Next]_vars => Requests'
<1> SUFFICES ASSUME IInv, [Next]_vars PROVE Requests'
  OBVIOUS
<1>i. TypeOK /\ NodesConserved /\ Phases /\ OneAnswer /\ Requests BY DEF IInv
<1>t. /\ at \in [Callers -> Places] /\ cond \in [Callers -> BOOLEAN]
      /\ pioctl \in [Nodes -> Callers \cup {None}]
      /\ free \in Seq(Nodes) /\ pending \in Seq(Nodes)
      /\ IsInjective(free) /\ IsInjective(pending)
  BY <1>i DEF TypeOK, NodesConserved, Places
<1> USE NamesAssumption DEF queues, timing, memory, running, device, calls
<1>0. ASSUME UNCHANGED <<pioctl, pending, curr, cond>>,
             main \in Calm => main' \in Calm,
             \A c \in Callers : at'[c] \in {"idle", "unlinked", "canceling"} =>
               \A n \in Nodes : pioctl[n] # c
      PROVE  Requests'
  BY <1>0, <1>i, <1>t DEF Requests
<1>1. ASSUME NEW c \in Callers, Ask(c) PROVE Requests'
  <2>1. /\ free # <<>> /\ pioctl' = [pioctl EXCEPT ![Head(free)] = c] /\ at[c] = "idle"
        /\ pending' = Append(pending, Head(free)) /\ at' = [at EXCEPT ![c] = "asked"]
        /\ cond' = [cond EXCEPT ![c] = FALSE] /\ UNCHANGED <<curr, main>>
    BY <1>1 DEF Ask
  <2>2. Head(free) \in Nodes /\ Head(free) \notin Range(pending)
    BY <1>i, <1>t, <2>1, TakeHead DEF NodesConserved
  <2>3. Range(pending') = Range(pending) \cup {Head(free)}
    BY <1>t, <2>1, <2>2, AppendNew
  <2>4. \A n \in Nodes : pioctl[n] # c BY <1>i, <2>1 DEF Requests
  <2>5. \A n \in Nodes : pioctl'[n] = IF n = Head(free) THEN c ELSE pioctl[n]
    BY <1>t, <2>1
  <2>6. \A d \in Callers : /\ at'[d] = IF d = c THEN "asked" ELSE at[d]
                           /\ cond'[d] = IF d = c THEN FALSE ELSE cond[d]
    BY <1>t, <2>1
  <2>7. \A n \in Nodes : pioctl[n] \in Callers \cup {None} BY <1>t
  <2>8. ASSUME NEW n \in Nodes, pioctl'[n] # None
        PROVE  /\ n \in Range(pending') \/ (n = curr' /\ main' \in Calm)
               /\ at'[pioctl'[n]] \notin {"idle", "unlinked", "canceling"} /\ ~cond'[pioctl'[n]]
    <3>1. CASE n = Head(free) BY <2>3, <2>5, <2>6, <3>1
    <3>2. CASE n # Head(free)
      <4>1. pioctl'[n] = pioctl[n] /\ pioctl[n] # c /\ pioctl[n] \in Callers
        BY <2>4, <2>5, <2>7, <2>8, <3>2
      <4>2. /\ n \in Range(pending) \/ (n = curr /\ main \in Calm)
            /\ at[pioctl[n]] \notin {"idle", "unlinked", "canceling"} /\ ~cond[pioctl[n]]
        BY <1>i, <2>8, <4>1 DEF Requests
      <4> QED BY <2>1, <2>3, <2>6, <4>1, <4>2
    <3> QED BY <3>1, <3>2
  <2>9. ASSUME NEW m \in Nodes, NEW n \in Nodes, pioctl'[n] # None, pioctl'[m] = pioctl'[n]
        PROVE  m = n
    BY <1>i, <2>4, <2>5, <2>9 DEF Requests
  <2> QED BY <2>8, <2>9 DEF Requests
<1>2. ASSUME NEW c \in Callers, AskRefused(c) PROVE Requests'
  <2>1. /\ free # <<>> /\ pioctl' = [pioctl EXCEPT ![Head(free)] = None]
        /\ UNCHANGED <<pending, curr, main, at, cond>>
    BY <1>2 DEF AskRefused, Cleaned
  <2>2. Head(free) \in Nodes BY <1>t, <2>1, TakeHead
  <2> QED BY <1>i, <1>t, <2>1, <2>2 DEF Requests
<1>3. ASSUME NEW c \in Callers,
             AskNoBuffer(c) \/ AskNoNode(c) \/ QueueWork(c) \/ Pend(c)
      PROVE  Requests'
  <2>1. /\ UNCHANGED <<pioctl, pending, curr, cond, main>>
        /\ at' = at \/ (at' = [at EXCEPT ![c] = at'[c]] /\ at'[c] \in {"wait", "woken", "waiting"})
    BY <1>3, <1>t DEF AskNoBuffer, AskNoNode, QueueWork, Pend, vars
  <2>2. \A d \in Callers : at'[d] \in {"idle", "unlinked", "canceling"} => at[d] = at'[d]
    BY <1>t, <2>1
  <2> QED BY <1>0, <1>i, <1>t, <2>1, <2>2 DEF Requests
<1>4. ASSUME NEW c \in Callers, Woken(c) PROVE Requests'
  <2>1. /\ at' = [at EXCEPT ![c] = IF cond[c] THEN "idle" ELSE "cancel"] /\ at[c] = "woken"
        /\ cond' = [cond EXCEPT ![c] = FALSE] \/ cond' = cond
        /\ UNCHANGED <<pioctl, pending, curr, main>>
    BY <1>4 DEF Woken, FreeRequest
  <2>2. \A d \in Callers : /\ at'[d] = IF d = c THEN (IF cond[c] THEN "idle" ELSE "cancel") ELSE at[d]
                           /\ cond'[d] => cond[d]
    BY <1>t, <2>1
  <2>3. ASSUME NEW n \in Nodes, pioctl[n] # None
        PROVE  /\ at'[pioctl[n]] \notin {"idle", "unlinked", "canceling"}
               /\ ~cond'[pioctl[n]]
    <3>1. pioctl[n] \in Callers BY <1>t, <2>3
    <3>2. at[pioctl[n]] \notin {"idle", "unlinked", "canceling"} /\ ~cond[pioctl[n]]
      BY <1>i, <2>3 DEF Requests
    <3> QED BY <2>2, <3>1, <3>2
  <2> QED BY <1>i, <2>1, <2>3 DEF Requests
<1>5. ASSUME NEW c \in Callers, CancelCurrent(c) \/ CancelPending(c) PROVE Requests'
  <2>1. PICK n \in Nodes :
          /\ pioctl[n] = c /\ pioctl' = [pioctl EXCEPT ![n] = None]
          /\ \A m \in Range(pending) : m = n \/ m \in Range(pending')
    <3>1. CASE CancelCurrent(c) BY <1>5, <3>1 DEF CancelCurrent, WorksFor
    <3>2. CASE CancelPending(c)
      <4>1. PICK i \in 1..Len(pending) :
              /\ WorksFor(pending[i], c) /\ pending' = RemoveAt(pending, i)
              /\ pioctl' = [pioctl EXCEPT ![pending[i]] = None]
        BY <1>i, <3>2, Unlinks
      <4>2. Range(pending) = Range(pending') \cup {pending[i]}
        BY <1>t, <4>1, RemoveOne DEF RemoveAt
      <4> QED BY <4>1, <4>2 DEF WorksFor
    <3> QED BY <1>5, <3>1, <3>2
  <2>2. (\E v \in Places : at' = [at EXCEPT ![c] = v]) /\ UNCHANGED <<curr, main, cond>>
    BY <1>5 DEF CancelCurrent, CancelPending, Places
  <2>3. ASSUME NEW m \in Nodes, pioctl'[m] # None
        PROVE  /\ m # n /\ pioctl'[m] = pioctl[m] /\ pioctl[m] \in Callers /\ pioctl[m] # c
               /\ m \in Range(pending') \/ (m = curr' /\ main' \in Calm)
               /\ at'[pioctl[m]] \notin {"idle", "unlinked", "canceling"} /\ ~cond'[pioctl[m]]
    <3>1. m # n /\ pioctl'[m] = pioctl[m] /\ pioctl[m] \in Callers BY <1>t, <2>1, <2>3
    <3>2. pioctl[m] # c BY <1>i, <2>1, <3>1 DEF Requests
    <3>3. /\ m \in Range(pending) \/ (m = curr /\ main \in Calm)
          /\ at[pioctl[m]] \notin {"idle", "unlinked", "canceling"} /\ ~cond[pioctl[m]]
      BY <1>i, <2>3, <3>1 DEF Requests
    <3>4. at'[pioctl[m]] = at[pioctl[m]] BY <1>t, <2>2, <3>1, <3>2
    <3> QED BY <2>1, <2>2, <3>1, <3>2, <3>3, <3>4
  <2> QED BY <1>i, <2>3 DEF Requests
<1>6. ASSUME NEW c \in Callers, CancelNothing(c) PROVE Requests'
  <2>1. /\ at' = [at EXCEPT ![c] = "canceling"]
        /\ UNCHANGED <<pioctl, pending, curr, cond, main>>
        /\ \A n \in {curr} \cup Range(pending) : ~WorksFor(n, c)
    BY <1>6 DEF CancelNothing
  <2>2. \A n \in Nodes : pioctl[n] # c BY <1>i, <2>1 DEF Requests, WorksFor
  <2>3. \A d \in Callers : d # c => at'[d] = at[d] BY <1>t, <2>1
  <2>4. ASSUME NEW d \in Callers, at'[d] \in {"idle", "unlinked", "canceling"}, NEW n \in Nodes
        PROVE  pioctl[n] # d
    BY <1>i, <2>2, <2>3, <2>4 DEF Requests
  <2> QED BY <1>0, <2>1, <2>4
<1>12. ASSUME NEW c \in Callers, CancelInserts(c) PROVE Requests'
  <2>1. /\ at[c] = "unlinked" /\ at' = [at EXCEPT ![c] = "canceling"]
        /\ pioctl' = [pioctl EXCEPT ![hand[c]] = None]
        /\ UNCHANGED <<pending, curr, main, cond>>
    BY <1>12 DEF CancelInserts, Cleaned
  <2>2. /\ \A n \in Nodes : pioctl'[n] # None => pioctl'[n] = pioctl[n] /\ pioctl[n] \in Callers
        /\ \A d \in Callers : at'[d] # at[d] => d = c
    BY <1>t, <2>1
  <2>3. \A n \in Nodes : pioctl[n] # c BY <1>i, <2>1 DEF Requests
  <2>4. ASSUME NEW n \in Nodes, pioctl'[n] # None
        PROVE  /\ n \in Range(pending) \/ (n = curr /\ main \in Calm)
               /\ at'[pioctl'[n]] \notin {"idle", "unlinked", "canceling"}
               /\ ~cond[pioctl'[n]]
    <3>1. pioctl'[n] = pioctl[n] /\ pioctl[n] \in Callers /\ at'[pioctl[n]] = at[pioctl[n]]
      BY <2>2, <2>3, <2>4
    <3> QED BY <1>i, <2>4, <3>1 DEF Requests
  <2>5. \A m \in Nodes, n \in Nodes : pioctl'[n] # None /\ pioctl'[m] = pioctl'[n] => m = n
    BY <1>i, <2>2 DEF Requests
  <2> QED BY <2>1, <2>4, <2>5 DEF Requests
<1>7. ASSUME NEW c \in Callers, CancelCompletes(c) PROVE Requests'
  <2>1. /\ at[c] = "canceling" /\ wake_up([at EXCEPT ![c] = "idle"])
        /\ cond' = [cond EXCEPT ![c] = FALSE] /\ UNCHANGED <<pioctl, pending, curr, main>>
    BY <1>7 DEF CancelCompletes, FreeRequest
  <2>2. \A d \in Callers : at[d] = "waiting" => [at EXCEPT ![c] = "idle"][d] = "waiting"
    BY <1>t, <2>1
  <2>3. \A d \in Callers : at'[d] # [at EXCEPT ![c] = "idle"][d] => at'[d] = "woken"
    <3>1. [at EXCEPT ![c] = "idle"] \in [Callers -> Places] BY <1>t DEF Places
    <3> QED BY <1>i, <2>1, <2>2, <3>1, WakeUp
  <2>4. \A d \in Callers : /\ at'[d] \in {"idle", "unlinked", "canceling"}
                              => at[d] \in {"idle", "unlinked", "canceling"}
                           /\ cond'[d] => cond[d]
    BY <1>t, <2>1, <2>3
  <2>5. \A n \in Nodes : pioctl[n] # None => pioctl[n] \in Callers BY <1>t
  <2> QED BY <1>i, <2>1, <2>4, <2>5 DEF Requests
<1>8. CASE TimerExpires \/ wlan_cmd_timeout_func \/ MainDumps \/ MainStarts \/ MainEnds
           \/ SendSucceeds \/ Respond \/ CardReady \/ CardAnswers \/ UNCHANGED vars
  <2>1. /\ UNCHANGED <<pioctl, pending, curr, at, cond>>
        /\ main \in Calm => main' \in Calm
    BY <1>8 DEF TimerExpires, wlan_cmd_timeout_func, MainDumps, MainStarts, MainEnds,
         SendSucceeds, Respond, CardReady, CardAnswers, SDIO_IRQHandler, Calm, vars
  <2> QED BY <1>0, <1>i, <2>1 DEF Requests
<1>9. CASE ExecNextCmd
  <2>1. /\ pending # <<>> /\ pending' = Tail(pending) /\ curr' = Head(pending) /\ curr = None
        /\ main' \in Calm /\ UNCHANGED <<pioctl, at, cond>>
    BY <1>9 DEF ExecNextCmd, Calm
  <2>2. Range(pending) = Range(pending') \cup {Head(pending)}
    BY <1>t, <2>1, TakeHead
  <2> QED BY <1>i, <2>1, <2>2 DEF Requests
<1>10. CASE SendFails \/ RespondCanceled \/ Handled \/ RespondBad
  <2>1. curr \in Nodes /\ Complete(curr) /\ Cleaned(curr) /\ pending' = pending
    BY <1>10, <1>i DEF SendFails, RespondCanceled, Handled, RespondBad, Frees, Phases,
         OneAnswer, TypeOK
  <2> QED BY <2>1, Ended
<1>11. CASE GiveUp \/ Clean \/ Release
  <2>1. /\ UNCHANGED <<pioctl, pending, at, cond>>
        /\ main \in {"giveup", "clean", "release"}
    BY <1>11 DEF GiveUp, Clean, Release
  <2> QED BY <1>i, <2>1 DEF Requests, Calm
<1> QED
  BY <1>1, <1>2, <1>3, <1>4, <1>5, <1>6, <1>7, <1>8, <1>9, <1>10, <1>11, <1>12
  DEF Next, System, Caller, Main

-----------------------------------------------------------------------------
THEOREM Invariance == Spec => []IInv
<1>1. IInv /\ [Next]_vars => IInv'
  BY TypeStep, NodesStep, PhasesStep, HandsStep, LocalsStep, RequestsStep DEF IInv
<1> QED BY InitInv, <1>1, PTL DEF Spec

(* Every variable of the command queue keeps its type.                     *)
THEOREM TypeCorrect == Spec => []TypeOK
<1>1. IInv => TypeOK BY DEF IInv
<1> QED BY <1>1, Invariance, PTL

(* No node is lost or in two places, whatever order of calls, cancels,     *)
(* failures, timeouts and responses the queues have seen.                  *)
THEOREM Conservation == Spec => []NodesConserved
<1>1. IInv => NodesConserved BY DEF IInv
<1> QED BY <1>1, Invariance, PTL

(* No command node refers to a request its caller has let go of.  What the *)
(* main work keeps in a local over a transfer or a handler is a request    *)
(* that still is the node's, unless its caller canceled it meanwhile.      *)
THEOREM LiveRequests == Spec => []RequestLive
<1>1. IInv => RequestLive BY DEF IInv, RequestLive, Requests, Locals, Phases
<1> QED BY <1>1, Invariance, PTL

(* When the memory of a freed request is overwritten.                      *)
Overwritten == fault' # fault =>
  main \in {"send", "handle"} /\ pioctl_buf = Freed /\ curr \in canceled
OverwrittenAfterCancel == [][Overwritten]_vars

(* A freed request is overwritten through the local pioctl_buf in no other *)
(* way: the main work was in a transfer that failed, or in a handler, and  *)
(* the command was canceled meanwhile.                                     *)
THEOREM OnlyCanceledOverwritten == Spec => OverwrittenAfterCancel
<1>1. IInv /\ [Next]_vars => [Overwritten]_vars
  <2> SUFFICES ASSUME IInv, [Next]_vars, fault' # fault
               PROVE  main \in {"send", "handle"} /\ pioctl_buf = Freed /\ curr \in canceled
    BY DEF Overwritten
  <2> USE NamesAssumption DEF queues, timing, memory, running, device, calls
  <2>1. TypeOK /\ Locals /\ Phases BY DEF IInv
  <2>2. ASSUME NEW c \in Callers, Caller(c) PROVE FALSE
    BY <2>2 DEF Caller, Ask, AskRefused, AskNoBuffer, AskNoNode, QueueWork, Pend,
         Woken, CancelCurrent, CancelPending, CancelInserts, CancelNothing,
         CancelCompletes, vars
  <2>3. CASE \/ TimerExpires \/ wlan_cmd_timeout_func \/ MainDumps \/ MainStarts
             \/ MainEnds \/ ExecNextCmd \/ SendSucceeds \/ GiveUp \/ RespondCanceled
             \/ Respond \/ RespondBad \/ Clean \/ Release \/ CardReady
             \/ CardAnswers \/ UNCHANGED vars
    BY <2>3
    DEF TimerExpires, wlan_cmd_timeout_func, MainDumps, MainStarts, MainEnds,
        ExecNextCmd, SendSucceeds, GiveUp, RespondCanceled, Respond, RespondBad,
        Clean, Release, CardReady, CardAnswers, SDIO_IRQHandler, vars
  <2>4. CASE SendFails \/ Handled
    <3>1. main \in {"send", "handle"} /\ pioctl_buf = Freed
      BY <2>4 DEF SendFails, Handled, WriteRequest
    <3>2. curr \in Nodes BY <2>1, <3>1 DEF TypeOK, Phases
    <3>3. Freed \notin {None, pioctl[curr]} BY <2>1, <3>2 DEF TypeOK
    <3> QED BY <2>1, <3>1, <3>3 DEF Locals
  <2> QED BY <2>2, <2>3, <2>4 DEF Next, System, Main
<1> QED BY <1>1, Invariance, PTL DEF Spec, OverwrittenAfterCancel

(* A response is handled as the answer to the command that it does answer. *)
THEOREM Matching == Spec => []AnswersMatch
<1>1. IInv => AnswersMatch BY DEF IInv, AnswersMatch, OneAnswer
<1> QED BY <1>1, Invariance, PTL

(* The command timer runs, or has gone off, for the whole time in which    *)
(* the card has a command to answer, unless the command was reported.      *)
THEOREM Watching == Spec => []CurrentIsWatched
<1> USE NamesAssumption DEF queues, timing, memory, running, device, calls, CurrentIsWatched
<1>1. Init => CurrentIsWatched BY DEF Init
<1>2. IInv /\ CurrentIsWatched /\ [Next]_vars => CurrentIsWatched'
  <2> SUFFICES ASSUME TypeOK, OneAnswer, CurrentIsWatched, [Next]_vars
               PROVE  CurrentIsWatched'
    BY DEF IInv
  <2>1. ASSUME NEW c \in Callers, Caller(c) PROVE CurrentIsWatched'
    <3>1. UNCHANGED <<curr, card, timer, is_set, due>>
      BY <2>1 DEF Caller, Ask, AskRefused, AskNoBuffer, AskNoNode, QueueWork, Pend,
           Woken, CancelCurrent, CancelPending, CancelInserts, CancelNothing, CancelCompletes, vars
    <3> QED BY <3>1
  <2>2. CASE TimerExpires \/ wlan_cmd_timeout_func
    BY <2>2 DEF TimerExpires, wlan_cmd_timeout_func
  <2>3. CASE MainDumps \/ MainStarts \/ MainEnds \/ SendFails \/ Clean \/ CardReady
             \/ UNCHANGED vars
    <3>1. UNCHANGED <<curr, card, timer, is_set, due>>
      BY <2>3 DEF MainDumps, MainStarts, MainEnds, SendFails, Clean, CardReady,
           SDIO_IRQHandler, vars
    <3> QED BY <3>1
  <2>4. CASE ExecNextCmd
    <3>1. Head(pending) \in Nodes BY <2>4 DEF ExecNextCmd, TypeOK
    <3>2. card = None BY <2>4 DEF ExecNextCmd, OneAnswer
    <3> QED BY <2>4, <3>1, <3>2 DEF ExecNextCmd
  <2>5. CASE SendSucceeds BY <2>5 DEF SendSucceeds
  <2>6. CASE GiveUp \/ Release BY <2>6 DEF GiveUp, Release
  <2>7. CASE RespondCanceled \/ Respond \/ RespondBad
    BY <2>7 DEF RespondCanceled, Respond, RespondBad, StopTimer
  <2>9. CASE Handled BY <2>9 DEF Handled
  <2>8. CASE CardAnswers BY <2>8 DEF CardAnswers, SDIO_IRQHandler
  <2> QED BY <2>1, <2>2, <2>3, <2>4, <2>5, <2>6, <2>7, <2>8, <2>9 DEF Next, System, Main
<1> QED BY <1>1, <1>2, Invariance, PTL DEF Spec

-----------------------------------------------------------------------------
(* The wake-ups.  Owed are the callers whose request has been completed    *)
(* and who have still to be woken; Owing are those woken in another's      *)
(* stead, who will cancel their own requests, and so post.                 *)
OwedIn(f, g) == {c \in Callers : g[c] /\ f[c] \in {"asked", "wait", "waiting"}}
OwingIn(f, g) == {c \in Callers : \/ f[c] \in {"cancel", "unlinked", "canceling"}
                                  \/ f[c] = "woken" /\ ~g[c]}

Debts ==
  /\ sem > 0 => Waiting = {}
  /\ Cardinality(OwedIn(at, cond)) <= sem + Cardinality(OwingIn(at, cond))

(* The two sets are finite.                                                *)
LEMMA Counts ==
  ASSUME NEW f, NEW g
  PROVE  /\ IsFiniteSet(OwedIn(f, g)) /\ Cardinality(OwedIn(f, g)) \in Nat
         /\ Cardinality(OwedIn(f, g)) <= SEM_MAX
         /\ IsFiniteSet(OwingIn(f, g)) /\ Cardinality(OwingIn(f, g)) \in Nat
<1> USE NamesAssumption, BoundsAssumption
<1>1. OwedIn(f, g) \in SUBSET Callers /\ OwingIn(f, g) \in SUBSET Callers
  BY DEF OwedIn, OwingIn
<1>2. /\ IsFiniteSet(OwedIn(f, g)) /\ IsFiniteSet(OwingIn(f, g))
      /\ Cardinality(OwedIn(f, g)) <= Cardinality(Callers)
  BY <1>1, FS_Subset
<1>3. /\ Cardinality(OwedIn(f, g)) \in Nat /\ Cardinality(OwingIn(f, g)) \in Nat
      /\ Cardinality(Callers) \in Nat
  BY <1>2, FS_CardinalityType
<1> QED BY <1>2, <1>3

(* A post pays one debt, at once or by the count of the semaphore.         *)
LEMMA PostPays ==
  ASSUME TypeOK, sem > 0 => Waiting = {}, NEW f \in [Callers -> Places], wake_up(f),
         \A c \in Callers : at[c] = "waiting" <=> f[c] = "waiting",
         Cardinality(OwedIn(f, cond')) <= sem + Cardinality(OwingIn(f, cond')) + 1
  PROVE  Debts'
<1> USE BoundsAssumption
<1> DEFINE O == OwedIn(f, cond')
           G == OwingIn(f, cond')
<1>0. /\ IsFiniteSet(O) /\ IsFiniteSet(G) /\ Cardinality(O) \in Nat /\ Cardinality(G) \in Nat
      /\ Cardinality(O) <= SEM_MAX
  BY Counts
<1>1. sem \in 0..SEM_MAX BY DEF TypeOK
<1>2. CASE Waiting = {}
  <2>1. at' = f /\ sem' = IF sem < SEM_MAX THEN sem + 1 ELSE sem BY <1>2 DEF wake_up
  <2>2. Waiting' = {} BY <1>2, <2>1 DEF Waiting
  <2>3. Cardinality(O) <= sem' + Cardinality(G)
    <3> HIDE DEF O, G
    <3>1. Cardinality(O) <= sem + Cardinality(G) + 1 BY DEF O, G
    <3> QED BY <1>0, <1>1, <2>1, <3>1
  <2> QED BY <2>1, <2>2, <2>3 DEF Debts
<1>3. CASE Waiting # {}
  <2>1. PICK d \in Waiting : at' = [f EXCEPT ![d] = "woken"] BY <1>3 DEF wake_up
  <2>2. sem' = sem /\ sem = 0 BY <1>1, <1>3 DEF wake_up
  <2>3. d \in Callers /\ f[d] = "waiting" BY DEF Waiting
  <2>4. \A c \in Callers : at'[c] = IF c = d THEN "woken" ELSE f[c] BY <2>1, <2>3
  <2> DEFINE O2 == OwedIn(at', cond')
             G2 == OwingIn(at', cond')
  <2>5. /\ IsFiniteSet(O2) /\ IsFiniteSet(G2) /\ Cardinality(O2) \in Nat /\ Cardinality(G2) \in Nat
    BY Counts
  <2>6. Cardinality(O) <= Cardinality(G) + 1 BY <1>0, <2>2
  <2>7. CASE cond'[d]
    <3>1. d \in O /\ O2 = O \ {d} /\ G2 = G BY <2>3, <2>4, <2>7 DEF OwedIn, OwingIn
    <3> HIDE DEF O, G, O2, G2
    <3>2. Cardinality(O2) = Cardinality(O) - 1 BY <1>0, <3>1, FS_RemoveElement
    <3> QED BY <1>0, <2>2, <2>5, <2>6, <3>1, <3>2 DEF Debts, O2, G2
  <2>8. CASE ~cond'[d]
    <3>1. d \notin G /\ O2 = O /\ G2 = G \cup {d} BY <2>3, <2>4, <2>8 DEF OwedIn, OwingIn
    <3> HIDE DEF O, G, O2, G2
    <3>2. Cardinality(G2) = Cardinality(G) + 1 BY <1>0, <3>1, FS_AddElement
    <3> QED BY <1>0, <2>2, <2>5, <2>6, <3>1, <3>2 DEF Debts, O2, G2
  <2> QED BY <2>7, <2>8
<1> QED BY <1>2, <1>3

LEMMA CompletePays ==
  ASSUME IInv, Debts, NEW n \in Nodes, Complete(n)
  PROVE  Debts'
<1> USE NamesAssumption
<1>1. TypeOK /\ Requests BY DEF IInv
<1>2. /\ at \in [Callers -> Places] /\ cond \in [Callers -> BOOLEAN] /\ sem \in Nat
      /\ pioctl[n] \in Callers \cup {None}
  BY <1>1, BoundsAssumption DEF TypeOK, Places
<1>3. CASE pioctl[n] = None BY <1>3 DEF Complete, calls, Debts, Waiting
<1>4. CASE pioctl[n] # None
  <2> DEFINE c == pioctl[n]
             O == OwedIn(at, cond)
             G == OwingIn(at, cond)
             O2 == OwedIn(at, cond')
             G2 == OwingIn(at, cond')
  <2>1. c \in Callers /\ wake_up(at) /\ cond' = [cond EXCEPT ![c] = TRUE]
    BY <1>2, <1>4 DEF Complete, moal_ioctl_complete
  <2>2. at[c] \in {"asked", "wait", "waiting", "woken", "cancel"} /\ ~cond[c]
    BY <1>1, <1>2, <1>4, <2>1 DEF Requests, Places
  <2>3. \A d \in Callers : cond'[d] = IF d = c THEN TRUE ELSE cond[d]
    BY <1>2, <2>1
  <2>4. /\ IsFiniteSet(O) /\ IsFiniteSet(G) /\ Cardinality(O) \in Nat /\ Cardinality(G) \in Nat
        /\ IsFiniteSet(O2) /\ IsFiniteSet(G2)
        /\ Cardinality(O2) \in Nat /\ Cardinality(G2) \in Nat
    BY Counts
  <2>5. Cardinality(O) <= sem + Cardinality(G) BY DEF Debts
  <2>6. Cardinality(O2) <= sem + Cardinality(G2) + 1
    <3>1. CASE at[c] \in {"asked", "wait", "waiting"}
      <4>1. O2 = O \cup {c} /\ c \notin O /\ G2 = G
        BY <2>1, <2>2, <2>3, <3>1 DEF OwedIn, OwingIn
      <4> HIDE DEF O, G, O2, G2
      <4>2. Cardinality(O2) = Cardinality(O) + 1 BY <2>4, <4>1, FS_AddElement
      <4> QED BY <1>2, <2>4, <2>5, <4>1, <4>2
    <3>2. CASE at[c] = "woken"
      <4>1. O2 = O /\ c \in G /\ G2 = G \ {c}
        BY <2>1, <2>2, <2>3, <3>2 DEF OwedIn, OwingIn
      <4> HIDE DEF O, G, O2, G2
      <4>2. Cardinality(G2) = Cardinality(G) - 1 BY <2>4, <4>1, FS_RemoveElement
      <4> QED BY <1>2, <2>4, <2>5, <4>1, <4>2
    <3>3. CASE at[c] = "cancel"
      <4>1. O2 = O
        BY <2>1, <2>2, <2>3, <3>3 DEF OwedIn
      <4>2. G2 = G
        <5>1. \A d \in Callers : at[d] = "woken" => cond'[d] = cond[d]
          BY <2>3, <3>3
        <5>2. \A d \in Callers : d \in G2 <=> d \in G BY <5>1 DEF OwingIn
        <5>3. G \subseteq Callers /\ G2 \subseteq Callers BY DEF OwingIn
        <5> HIDE DEF G, G2
        <5> QED BY <5>2, <5>3
      <4> HIDE DEF O, G, O2, G2
      <4> QED BY <1>2, <2>4, <2>5, <4>1, <4>2
    <3> QED BY <2>2, <3>1, <3>2, <3>3
  <2>7. sem > 0 => Waiting = {} BY DEF Debts
  <2> HIDE DEF c
  <2> QED BY <1>1, <1>2, <2>1, <2>6, <2>7, PostPays
<1> QED BY <1>2, <1>3, <1>4

LEMMA DebtsStep == IInv /\ Debts /\ [Next]_vars => Debts'
<1> SUFFICES ASSUME IInv, Debts, [Next]_vars PROVE Debts'
  OBVIOUS
<1>i. TypeOK /\ Phases /\ OneAnswer BY DEF IInv
<1>t. /\ at \in [Callers -> Places] /\ cond \in [Callers -> BOOLEAN] /\ sem \in Nat
  BY <1>i, BoundsAssumption DEF TypeOK, Places
<1> DEFINE O == OwedIn(at, cond)
           G == OwingIn(at, cond)
<1>c. /\ IsFiniteSet(O) /\ IsFiniteSet(G) /\ Cardinality(O) \in Nat /\ Cardinality(G) \in Nat
  BY Counts
<1>d. (sem > 0 => Waiting = {}) /\ Cardinality(O) <= sem + Cardinality(G) BY DEF Debts
<1> USE NamesAssumption DEF queues, timing, memory, running, device, calls
<1>0. CASE UNCHANGED calls BY <1>0 DEF Debts, Waiting
<1>1. ASSUME NEW c \in Callers,
             \/ Ask(c) \/ QueueWork(c) \/ Woken(c) \/ CancelCurrent(c) \/ CancelPending(c)
             \/ CancelInserts(c) \/ CancelNothing(c)
      PROVE  Debts'
  <2>1. sem' = sem /\ Waiting' = Waiting
    BY <1>1, <1>t DEF Ask, QueueWork, Woken, CancelCurrent, CancelPending, CancelInserts,
         CancelNothing, Waiting
  <2>2. OwedIn(at', cond') = O /\ OwingIn(at', cond') = G
    BY <1>1, <1>t DEF Ask, QueueWork, Woken, FreeRequest, CancelCurrent, CancelPending,
         CancelInserts, CancelNothing, OwedIn, OwingIn
  <2> QED BY <1>d, <2>1, <2>2 DEF Debts
<1>2. ASSUME NEW c \in Callers, Pend(c) PROVE Debts'
  <2> DEFINE O2 == OwedIn(at', cond')
             G2 == OwingIn(at', cond')
  <2>1. at[c] = "wait" /\ cond' = cond BY <1>2 DEF Pend
  <2>2. /\ IsFiniteSet(O2) /\ IsFiniteSet(G2) /\ Cardinality(O2) \in Nat /\ Cardinality(G2) \in Nat
    BY Counts
  <2>3. CASE sem = 0
    <3>1. sem' = 0 /\ at' = [at EXCEPT ![c] = "waiting"] BY <1>2, <2>3 DEF Pend
    <3>2. O2 = O /\ G2 = G BY <1>t, <2>1, <3>1 DEF OwedIn, OwingIn
    <3> QED BY <1>d, <2>3, <3>1, <3>2 DEF Debts
  <2>4. CASE sem > 0
    <3>1. sem' = sem - 1 /\ at' = [at EXCEPT ![c] = "woken"] BY <1>2, <2>4 DEF Pend
    <3>2. Waiting' = {} BY <1>d, <1>t, <2>4, <3>1 DEF Waiting
    <3>3. Cardinality(O2) <= sem' + Cardinality(G2)
      <4>1. CASE cond[c]
        <5>1. c \in O /\ O2 = O \ {c} /\ G2 = G
          BY <1>t, <2>1, <3>1, <4>1 DEF OwedIn, OwingIn
        <5> HIDE DEF O, G, O2, G2
        <5>2. Cardinality(O2) = Cardinality(O) - 1 BY <1>c, <5>1, FS_RemoveElement
        <5> QED BY <1>c, <1>d, <1>t, <2>2, <2>4, <3>1, <5>1, <5>2
      <4>2. CASE ~cond[c]
        <5>1. c \notin G /\ O2 = O /\ G2 = G \cup {c}
          BY <1>t, <2>1, <3>1, <4>2 DEF OwedIn, OwingIn
        <5> HIDE DEF O, G, O2, G2
        <5>2. Cardinality(G2) = Cardinality(G) + 1 BY <1>c, <5>1, FS_AddElement
        <5> QED BY <1>c, <1>d, <1>t, <2>2, <2>4, <3>1, <5>1, <5>2
      <4> QED BY <4>1, <4>2
    <3> QED BY <3>2, <3>3 DEF Debts
  <2> QED BY <1>t, <2>3, <2>4
<1>3. ASSUME NEW c \in Callers, CancelCompletes(c) PROVE Debts'
  <2> DEFINE f == [at EXCEPT ![c] = "idle"]
             O2 == OwedIn(f, cond')
             G2 == OwingIn(f, cond')
  <2>1. at[c] = "canceling" /\ wake_up(f) /\ cond' = [cond EXCEPT ![c] = FALSE]
    BY <1>3 DEF CancelCompletes, FreeRequest
  <2>2. f \in [Callers -> Places] /\ \A d \in Callers : f[d] = IF d = c THEN "idle" ELSE at[d]
    BY <1>t DEF Places
  <2>3. \A d \in Callers : cond'[d] = IF d = c THEN FALSE ELSE cond[d] BY <1>t, <2>1
  <2>4. /\ IsFiniteSet(O2) /\ IsFiniteSet(G2) /\ Cardinality(O2) \in Nat /\ Cardinality(G2) \in Nat
    BY Counts
  <2>5. Cardinality(O2) <= sem + Cardinality(G2) + 1
    <3> HIDE DEF f
    <3>0. O2 = O BY <2>1, <2>2, <2>3 DEF OwedIn
    <3>1. c \in G /\ G2 = G \ {c}
      <4>1. \A d \in Callers : d # c => f[d] = at[d] /\ cond'[d] = cond[d] BY <2>2, <2>3
      <4>2. f[c] = "idle" BY <2>2
      <4>3. c \in G /\ c \notin G2 BY <2>1, <4>2 DEF OwingIn
      <4>4. \A d \in Callers : d # c => (d \in G2 <=> d \in G) BY <4>1 DEF OwingIn
      <4>5. G \subseteq Callers /\ G2 \subseteq Callers BY DEF OwingIn
      <4> HIDE DEF G, G2
      <4> QED BY <4>3, <4>4, <4>5
    <3> HIDE DEF O, G, O2, G2
    <3>2. Cardinality(G2) = Cardinality(G) - 1 BY <1>c, <3>1, FS_RemoveElement
    <3> QED BY <1>c, <1>d, <1>t, <2>4, <3>0, <3>1, <3>2
  <2>6. \A d \in Callers : at[d] = "waiting" <=> f[d] = "waiting" BY <2>1, <2>2
  <2> HIDE DEF f
  <2> QED BY <1>d, <1>i, <2>1, <2>2, <2>5, <2>6, PostPays
<1>4. CASE SendFails \/ RespondCanceled \/ Handled \/ RespondBad
  <2>1. curr \in Nodes /\ Complete(curr)
    BY <1>4, <1>i DEF SendFails, RespondCanceled, Handled, RespondBad, Phases, OneAnswer, TypeOK
  <2> QED BY <2>1, CompletePays
<1>5. ASSUME NEW c \in Callers, AskRefused(c) \/ AskNoBuffer(c) \/ AskNoNode(c)
      PROVE  UNCHANGED calls
  BY <1>5 DEF AskRefused, AskNoBuffer, AskNoNode, vars
<1>6. CASE TimerExpires \/ wlan_cmd_timeout_func \/ MainDumps \/ MainStarts \/ MainEnds
           \/ ExecNextCmd \/ SendSucceeds \/ GiveUp \/ Respond \/ Clean \/ Release
           \/ CardReady \/ CardAnswers \/ UNCHANGED vars
  <2>1. UNCHANGED calls
    BY <1>6 DEF TimerExpires, wlan_cmd_timeout_func, MainDumps, MainStarts, MainEnds,
         ExecNextCmd, SendSucceeds, GiveUp, Respond, Clean, Release, CardReady, CardAnswers,
         SDIO_IRQHandler, vars
  <2> QED BY <1>0, <2>1
<1> QED
  BY <1>0, <1>1, <1>2, <1>3, <1>4, <1>5, <1>6 DEF Next, System, Caller, Main

(* However the completions of several callers' requests cross, as long as  *)
(* the semaphore can count them all: when a caller waits with its request  *)
(* completed, another one is about to post.                                *)
THEOREM WakeupsKept == Spec => []WakeupsOwed
<1>1. Init => Debts
  <2> SUFFICES ASSUME Init PROVE Debts
    OBVIOUS
  <2>1. sem = 0 /\ OwedIn(at, cond) = {} BY DEF Init, OwedIn
  <2>2. Cardinality(OwedIn(at, cond)) = 0 BY <2>1, FS_EmptySet
  <2>3. Cardinality(OwingIn(at, cond)) \in Nat BY Counts
  <2> QED BY <2>1, <2>2, <2>3 DEF Debts
<1>2. IInv /\ Debts => WakeupsOwed
  <2> SUFFICES ASSUME IInv, Debts PROVE WakeupsOwed
    OBVIOUS
  <2> DEFINE W == {c \in Waiting : cond[c]}
             O == OwedIn(at, cond)
             G == OwingIn(at, cond)
  <2>1. W \in SUBSET O BY DEF Waiting, OwedIn
  <2>2. IsFiniteSet(O) /\ Cardinality(O) \in Nat /\ Cardinality(G) \in Nat BY Counts
  <2>3. sem \in Nat BY BoundsAssumption DEF IInv, TypeOK
  <2>4. Cardinality(W) <= Cardinality(G)
    <3>1. CASE sem = 0
      <4>1. Cardinality(O) <= Cardinality(G)
        <5>1. Cardinality(O) <= sem + Cardinality(G) BY DEF Debts
        <5> HIDE DEF O, G
        <5> QED BY <2>2, <3>1, <5>1
      <4> HIDE DEF W, O, G
      <4>2. IsFiniteSet(W) /\ Cardinality(W) <= Cardinality(O) BY <2>1, <2>2, FS_Subset
      <4>3. Cardinality(W) \in Nat BY <4>2, FS_CardinalityType
      <4> QED BY <2>2, <4>1, <4>2, <4>3
    <3>2. CASE sem > 0
      <4>1. W = {} BY <3>2 DEF Debts
      <4> HIDE DEF W, O, G
      <4>2. Cardinality(W) = 0 BY <4>1, FS_EmptySet
      <4> QED BY <2>2, <4>2
    <3> QED BY <2>3, <3>1, <3>2
  <2>5. sem > 0 => Waiting = {} BY DEF Debts
  <2>6. G = {c \in Callers : at[c] \in {"cancel", "unlinked", "canceling"} \/ (at[c] = "woken" /\ ~cond[c])}
    BY DEF OwingIn
  <2> HIDE DEF G
  <2> QED BY <2>4, <2>5, <2>6, Zenon DEF WakeupsOwed
<1>3. IInv /\ Debts /\ [Next]_vars => Debts' BY DebtsStep
<1> QED BY <1>1, <1>2, <1>3, Invariance, PTL DEF Spec

-----------------------------------------------------------------------------
(* That no call is forgotten.                                              *)

(* Where a caller is from the time its command is queued until it is       *)
(* answered or has given up.                                               *)
Asking == {"asked", "wait", "waiting", "woken", "cancel"}
Unanswered(c) == at[c] \in Asking /\ ~cond[c]

(* The node of a call that is not answered is pending or in processing.    *)
CallsHaveNodes ==
  \A c \in Callers : Unanswered(c) => \E n \in Range(pending) \cup {curr} : WorksFor(n, c)

(* The same without the places of the nodes, which Requests gives.         *)
HaveNodes == \A c \in Callers : Unanswered(c) => \E n \in Nodes : pioctl[n] = c

(* The first node of cmd_free_q works for no request.                      *)
LEMMA FreeHead ==
  ASSUME IInv, free # <<>>
  PROVE  Head(free) \in Nodes /\ pioctl[Head(free)] = None
<1>1. /\ free \in Seq(Nodes) /\ IsInjective(free) /\ Phases /\ Requests /\ NodesConserved
  BY DEF IInv, TypeOK, NodesConserved
<1>2. Head(free) \in Nodes /\ Head(free) \in Range(free) BY <1>1, TakeHead
<1>3. Head(free) \notin Range(pending) BY <1>1, <1>2 DEF NodesConserved
<1>4. main \in Calm => Head(free) # curr
  BY <1>1, <1>2, NamesAssumption DEF NodesConserved, Calm
<1> QED BY <1>1, <1>2, <1>3, <1>4 DEF Requests

LEMMA HaveNodesStep == IInv /\ HaveNodes /\ [Next]_vars => HaveNodes'
<1> SUFFICES ASSUME IInv, HaveNodes, [Next]_vars PROVE HaveNodes'
  OBVIOUS
<1>i. TypeOK /\ NodesConserved /\ Phases /\ Hands /\ OneAnswer /\ Requests BY DEF IInv
<1>t. /\ at \in [Callers -> Places] /\ cond \in [Callers -> BOOLEAN]
      /\ pioctl \in [Nodes -> Callers \cup {None}]
  BY <1>i DEF TypeOK, Places
<1> USE NamesAssumption DEF queues, timing, memory, running, device, calls
(* A step that takes the node of a caller's request leaves it answered.    *)
<1>0. ASSUME \A c \in Callers : at'[c] \in Asking /\ ~cond'[c] =>
               \/ Unanswered(c) /\ \A n \in Nodes : pioctl[n] = c => pioctl'[n] = c
               \/ \E n \in Nodes : pioctl'[n] = c
      PROVE  HaveNodes'
  BY <1>0 DEF HaveNodes, Unanswered
<1>1. ASSUME NEW c \in Callers, Ask(c) PROVE HaveNodes'
  <2>1. /\ free # <<>> /\ pioctl' = [pioctl EXCEPT ![Head(free)] = c]
        /\ at' = [at EXCEPT ![c] = "asked"] /\ cond' = [cond EXCEPT ![c] = FALSE]
    BY <1>1 DEF Ask
  <2>2. Head(free) \in Nodes /\ pioctl[Head(free)] = None BY <2>1, FreeHead
  <2>3. pioctl'[Head(free)] = c BY <1>t, <2>1, <2>2
  <2>4. ASSUME NEW d \in Callers, d # c, at'[d] \in Asking /\ ~cond'[d]
        PROVE  Unanswered(d) /\ \A n \in Nodes : pioctl[n] = d => pioctl'[n] = d
    <3>1. Unanswered(d) BY <1>t, <2>1, <2>4 DEF Unanswered
    <3>2. ASSUME NEW n \in Nodes, pioctl[n] = d PROVE pioctl'[n] = d
      <4>1. n # Head(free) BY <2>2, <3>2
      <4> QED BY <1>t, <2>1, <3>2, <4>1
    <3> QED BY <3>1, <3>2
  <2> QED BY <1>0, <2>2, <2>3, <2>4
<1>2. ASSUME NEW c \in Callers, AskRefused(c) PROVE HaveNodes'
  <2>1. /\ free # <<>> /\ pioctl' = [pioctl EXCEPT ![Head(free)] = None]
        /\ UNCHANGED <<at, cond>>
    BY <1>2 DEF AskRefused, Cleaned
  <2>2. Head(free) \in Nodes /\ pioctl[Head(free)] = None BY <2>1, FreeHead
  <2>3. \A n \in Nodes : pioctl'[n] = pioctl[n] BY <1>t, <2>1, <2>2
  <2> QED BY <1>0, <2>1, <2>3 DEF Unanswered
<1>3. ASSUME NEW c \in Callers,
             \/ AskNoBuffer(c) \/ AskNoNode(c) \/ QueueWork(c) \/ Pend(c) \/ Woken(c)
             \/ CancelNothing(c)
      PROVE  HaveNodes'
  <2>1. pioctl' = pioctl
    BY <1>3 DEF AskNoBuffer, AskNoNode, QueueWork, Pend, Woken, CancelNothing, vars
  <2>2. \A d \in Callers : at'[d] \in Asking /\ ~cond'[d] => at[d] \in Asking /\ ~cond[d]
    BY <1>3, <1>t
    DEF AskNoBuffer, AskNoNode, QueueWork, Pend, Woken, FreeRequest, CancelNothing, vars,
        Asking
  <2> QED BY <1>0, <2>1, <2>2 DEF Unanswered
<1>4. ASSUME NEW c \in Callers, CancelCurrent(c) \/ CancelPending(c) PROVE HaveNodes'
  <2>1. PICK n \in Nodes : pioctl[n] = c /\ pioctl' = [pioctl EXCEPT ![n] = None]
    <3>1. CASE CancelCurrent(c) BY <3>1 DEF CancelCurrent, WorksFor
    <3>2. CASE CancelPending(c) BY <1>i, <3>2, Unlinks DEF WorksFor
    <3> QED BY <1>4, <3>1, <3>2
  <2>2. /\ cond' = cond
        /\ \E v \in {"unlinked", "canceling"} : at' = [at EXCEPT ![c] = v]
    BY <1>4 DEF CancelCurrent, CancelPending
  <2>3. ASSUME NEW d \in Callers, at'[d] \in Asking, ~cond'[d]
        PROVE  Unanswered(d) /\ \A m \in Nodes : pioctl[m] = d => pioctl'[m] = d
    <3>1. d # c /\ at'[d] = at[d] BY <1>t, <2>2, <2>3 DEF Asking
    <3>2. \A m \in Nodes : pioctl[m] = d => pioctl'[m] = d BY <1>t, <2>1, <3>1
    <3> QED BY <2>2, <2>3, <3>1, <3>2 DEF Unanswered
  <2> QED BY <1>0, <2>3
<1>8. ASSUME NEW c \in Callers, CancelInserts(c) PROVE HaveNodes'
  <2>1. /\ at[c] = "unlinked" /\ at' = [at EXCEPT ![c] = "canceling"] /\ cond' = cond
        /\ pioctl' = [pioctl EXCEPT ![hand[c]] = None]
    BY <1>8 DEF CancelInserts, Cleaned
  <2>2. hand[c] \in Nodes /\ hand[c] \in Range(hand) \ {None}
    BY <1>i, <2>1 DEF Hands, Range, TypeOK
  <2>3. pioctl[hand[c]] = None BY <1>i, <2>2 DEF NodesConserved, Phases, Requests, Calm
  <2>4. \A n \in Nodes : pioctl'[n] = pioctl[n] BY <1>t, <2>1, <2>2, <2>3
  <2>5. \A d \in Callers : at'[d] \in Asking => at[d] = at'[d] BY <1>t, <2>1 DEF Asking
  <2> QED BY <1>0, <2>1, <2>4, <2>5 DEF Unanswered
<1>5. ASSUME NEW c \in Callers, CancelCompletes(c) PROVE HaveNodes'
  <2> DEFINE f == [at EXCEPT ![c] = "idle"]
  <2>1. /\ at[c] = "canceling" /\ wake_up(f) /\ pioctl' = pioctl
        /\ cond' = [cond EXCEPT ![c] = FALSE]
    BY <1>5 DEF CancelCompletes, FreeRequest
  <2>2. f \in [Callers -> Places] /\ f[c] = "idle" /\ \A d \in Callers : d # c => f[d] = at[d]
    BY <1>t DEF Places
  <2>3. \A d \in Callers : at'[d] # f[d] => f[d] = "waiting" /\ at'[d] = "woken"
    <3>1. \A d \in Callers : at[d] = "waiting" => f[d] = "waiting" BY <2>1, <2>2
    <3> HIDE DEF f
    <3> QED BY <1>i, <2>1, <2>2, <3>1, WakeUp
  <2> HIDE DEF f
  <2>4. ASSUME NEW d \in Callers, at'[d] \in Asking, ~cond'[d] PROVE Unanswered(d)
    <3>1. d # c BY <2>2, <2>3, <2>4 DEF Asking
    <3>2. at[d] \in Asking BY <2>2, <2>3, <2>4, <3>1 DEF Asking
    <3>3. cond[d] = cond'[d] BY <1>t, <2>1, <3>1
    <3> QED BY <2>4, <3>2, <3>3 DEF Unanswered
  <2> QED BY <1>0, <2>1, <2>4
<1>6. CASE SendFails \/ RespondCanceled \/ Handled \/ RespondBad
  <2>1. curr \in Nodes /\ Complete(curr) /\ Cleaned(curr)
    BY <1>6, <1>i DEF SendFails, RespondCanceled, Handled, RespondBad, Frees, Phases,
         OneAnswer, TypeOK
  <2>2. pioctl' = [pioctl EXCEPT ![curr] = None] BY <2>1 DEF Cleaned
  <2>3. /\ \A d \in Callers : at'[d] # at[d] => at[d] = "waiting" /\ at'[d] = "woken"
        /\ \A d \in Callers : d # pioctl[curr] => cond'[d] = cond[d]
    BY <1>i, <2>1, Completes
  <2>4. pioctl[curr] # None => cond'[pioctl[curr]]
    <3>1. pioctl[curr] # None => cond' = [cond EXCEPT ![pioctl[curr]] = TRUE]
      BY <2>1 DEF Complete, moal_ioctl_complete
    <3> QED BY <1>t, <2>1, <3>1
  <2>5. ASSUME NEW d \in Callers, at'[d] \in Asking, ~cond'[d]
        PROVE  Unanswered(d) /\ \A m \in Nodes : pioctl[m] = d => pioctl'[m] = d
    <3>1. d # pioctl[curr] BY <2>4, <2>5
    <3>2. Unanswered(d) BY <2>3, <2>5, <3>1 DEF Unanswered, Asking
    <3>3. \A m \in Nodes : pioctl[m] = d => pioctl'[m] = d BY <1>t, <2>2, <3>1
    <3> QED BY <3>2, <3>3
  <2> QED BY <1>0, <2>5
<1>7. CASE TimerExpires \/ wlan_cmd_timeout_func \/ MainDumps \/ MainStarts \/ MainEnds
           \/ ExecNextCmd \/ SendSucceeds \/ GiveUp \/ Respond \/ Clean \/ Release
           \/ CardReady \/ CardAnswers \/ UNCHANGED vars
  <2>1. UNCHANGED <<pioctl, at, cond>>
    BY <1>7 DEF TimerExpires, wlan_cmd_timeout_func, MainDumps, MainStarts, MainEnds,
         ExecNextCmd, SendSucceeds, GiveUp, Respond, Clean, Release, CardReady, CardAnswers,
         SDIO_IRQHandler, vars
  <2> QED BY <1>0, <2>1 DEF Unanswered
<1> QED
  BY <1>1, <1>2, <1>3, <1>4, <1>5, <1>6, <1>7, <1>8 DEF Next, System, Caller, Main

LEMMA NodesFor == IInv /\ HaveNodes => CallsHaveNodes
<1> SUFFICES ASSUME IInv, HaveNodes, NEW c \in Callers, Unanswered(c)
             PROVE  \E n \in Range(pending) \cup {curr} : WorksFor(n, c)
  BY DEF CallsHaveNodes
<1>1. PICK n \in Nodes : pioctl[n] = c BY DEF HaveNodes
<1>2. n \in Range(pending) \cup {curr} BY <1>1, NamesAssumption DEF IInv, Requests
<1> QED BY <1>1, <1>2 DEF WorksFor

(* A call that is neither answered nor canceled still has its command in   *)
(* cmd_pending_q or in curr_cmd, after whatever cancels, timeouts, failed  *)
(* sends and early wake-ups there were: none is dropped with its caller    *)
(* left waiting.                                                           *)
THEOREM NoCallDropped == Spec => []CallsHaveNodes
<1>1. Init => HaveNodes BY DEF Init, HaveNodes, Unanswered, Asking
<1> QED BY <1>1, HaveNodesStep, NodesFor, Invariance, PTL DEF Spec

-----------------------------------------------------------------------------
(* That someone always has to act.  A send that fails leaves the commands  *)
(* behind it pending until main_work happens to be scheduled again: this   *)
(* is about the runs in which none does.                                   *)
Reliable == Init /\ [][Next /\ ~SendFails]_vars

(* While a call is unanswered the main work goes on or is scheduled, or a  *)
(* caller is about to schedule it, or the card owes an answer or the       *)
(* interrupt that its command port is free.                                *)
CallsDriven ==
  (\E c \in Callers : Unanswered(c)) =>
    \/ main # "idle" \/ works > 0
    \/ \E d \in Callers : at[d] = "asked"
    \/ card # None
    \/ cmd_sent /\ ~port

Flag(b) == IF b THEN 1 ELSE 0

(* A run of main_work is scheduled for every interrupt, beside the one     *)
(* that will only dump the registers; between runs a command that no other *)
(* holds up has one scheduled, or soon will have; and the command in       *)
(* processing is with the card or its answer on the way.                   *)
Driven ==
  /\ main # "giveup"
  /\ works >= Flag(dbg) + Flag(intr)
  /\ main = "idle" /\ pending # <<>> /\ curr = None /\ ~cmd_sent =>
       (\E d \in Callers : at[d] = "asked") \/ works > Flag(dbg)
  /\ main \in {"idle", "loop"} /\ curr # None => card = curr \/ up # None \/ resp # None
  /\ up # None \/ port => intr

LEMMA DrivenStep == IInv /\ Driven /\ [Next /\ ~SendFails]_vars => Driven'
<1> SUFFICES ASSUME IInv, Driven, [Next]_vars, ~SendFails \/ UNCHANGED vars PROVE Driven'
  OBVIOUS
<1>i. TypeOK /\ Phases /\ OneAnswer BY DEF IInv
<1>t. /\ at \in [Callers -> Places] /\ works \in Nat /\ dbg \in BOOLEAN /\ intr \in BOOLEAN
      /\ pending \in Seq(Nodes)
  BY <1>i DEF TypeOK, Places
<1>f. Flag(TRUE) = 1 /\ Flag(FALSE) = 0 BY DEF Flag
<1>w. works >= Flag(dbg) + Flag(intr) BY DEF Driven
<1> USE NamesAssumption DEF queues, timing, memory, running, device, calls
(* What leaves the main work, its schedule and the card alone, and makes   *)
(* nothing pending.                                                        *)
<1>0. ASSUME UNCHANGED <<main, works, dbg, intr, curr, resp, cmd_sent, card, port, up>>,
             pending' # <<>> => pending # <<>>,
             \A d \in Callers : at[d] = "asked" => at'[d] = "asked"
      PROVE  Driven'
  BY <1>0 DEF Driven
<1>1. ASSUME NEW c \in Callers, Ask(c) PROVE Driven'
  <2>1. /\ at' = [at EXCEPT ![c] = "asked"]
        /\ UNCHANGED <<main, works, dbg, intr, curr, resp, cmd_sent, card, port, up>>
    BY <1>1 DEF Ask
  <2>2. at'[c] = "asked" BY <1>t, <2>1
  <2> QED BY <2>1, <2>2 DEF Driven
<1>2. ASSUME NEW c \in Callers, QueueWork(c) PROVE Driven'
  <2>1. /\ works' = works + 1
        /\ UNCHANGED <<main, pending, dbg, intr, curr, resp, cmd_sent, card, port, up>>
    BY <1>2 DEF QueueWork
  <2>2. /\ works' > Flag(dbg) /\ works' >= Flag(dbg) + Flag(intr)
    BY <1>t, <1>w, <2>1 DEF Flag
  <2> QED BY <2>1, <2>2 DEF Driven
<1>3. ASSUME NEW c \in Callers,
             \/ AskRefused(c) \/ AskNoBuffer(c) \/ AskNoNode(c) \/ Pend(c) \/ Woken(c)
             \/ CancelCurrent(c) \/ CancelPending(c) \/ CancelInserts(c) \/ CancelNothing(c)
      PROVE  Driven'
  <2>1. UNCHANGED <<main, works, dbg, intr, curr, resp, cmd_sent, card, port, up>>
    BY <1>3 DEF AskRefused, AskNoBuffer, AskNoNode, Pend, Woken, CancelCurrent,
         CancelPending, CancelInserts, CancelNothing, vars
  <2>2. pending' # <<>> => pending # <<>>
    BY <1>3 DEF AskRefused, AskNoBuffer, AskNoNode, Pend, Woken, CancelCurrent,
         CancelPending, CancelInserts, CancelNothing, vars
  <2>3. \A d \in Callers : at[d] = "asked" => at'[d] = "asked"
    BY <1>3, <1>t DEF AskRefused, AskNoBuffer, AskNoNode, Pend, Woken, CancelCurrent,
         CancelPending, CancelInserts, CancelNothing, vars
  <2> QED BY <1>0, <2>1, <2>2, <2>3
<1>4. ASSUME NEW c \in Callers, CancelCompletes(c) PROVE Driven'
  <2> DEFINE f == [at EXCEPT ![c] = "idle"]
  <2>1. /\ at[c] = "canceling" /\ wake_up(f)
        /\ UNCHANGED <<pending, main, works, dbg, intr, curr, resp, cmd_sent, card, port, up>>
    BY <1>4 DEF CancelCompletes
  <2>2. f \in [Callers -> Places] /\ \A d \in Callers : d # c => f[d] = at[d]
    BY <1>t DEF Places
  <2>3. \A d \in Callers : at'[d] # f[d] => f[d] = "waiting" /\ at'[d] = "woken"
    <3>1. \A d \in Callers : at[d] = "waiting" => f[d] = "waiting" BY <2>1, <2>2
    <3> HIDE DEF f
    <3> QED BY <1>i, <2>1, <2>2, <3>1, WakeUp
  <2> HIDE DEF f
  <2>4. ASSUME NEW d \in Callers, at[d] = "asked" PROVE at'[d] = "asked"
    BY <2>1, <2>2, <2>3, <2>4
  <2> QED BY <1>0, <2>1, <2>4
<1>5. CASE TimerExpires \/ UNCHANGED vars
  <2>1. UNCHANGED <<pending, at, main, works, dbg, intr, curr, resp, cmd_sent, card, port, up>>
    BY <1>5 DEF TimerExpires, vars
  <2> QED BY <1>0, <2>1
<1>6. CASE wlan_cmd_timeout_func
  <2>1. /\ \/ dbg' = TRUE /\ works' = works + 1 /\ curr # None
           \/ UNCHANGED <<dbg, works>>
        /\ UNCHANGED <<pending, at, main, intr, curr, resp, cmd_sent, card, port, up>>
    BY <1>6 DEF wlan_cmd_timeout_func
  <2>2. works' >= Flag(dbg') + Flag(intr') BY <1>t, <1>w, <2>1 DEF Flag
  <2> QED BY <2>1, <2>2 DEF Driven
<1>7. CASE MainDumps
  <2>1. /\ works' = works - 1 /\ dbg = TRUE /\ dbg' = FALSE
        /\ UNCHANGED <<pending, at, main, intr, curr, resp, cmd_sent, card, port, up>>
    BY <1>7, <1>t DEF MainDumps
  <2>2. /\ works' >= Flag(dbg') + Flag(intr')
        /\ works > Flag(dbg) => works' > Flag(dbg')
    BY <1>t, <1>w, <2>1 DEF Flag
  <2> QED BY <2>1, <2>2 DEF Driven
<1>8. CASE MainStarts
  <2>1. /\ works' = works - 1 /\ works > 0 /\ ~dbg /\ dbg' = dbg /\ intr' = FALSE
        /\ main = "idle" /\ main' = "loop" /\ UNCHANGED <<curr, card>>
    BY <1>8 DEF MainStarts
  <2>2. works' >= Flag(dbg') + Flag(intr') BY <1>t, <1>w, <2>1 DEF Flag
  <2>3. CASE intr
    <3>1. port' = FALSE /\ up' = None /\ resp' = IF curr = None THEN None ELSE up
      BY <1>8, <2>3 DEF MainStarts
    <3>2. curr # None => card = curr \/ up # None \/ resp # None
      BY <2>1 DEF Driven
    <3>3. resp = None BY <1>i, <2>1 DEF OneAnswer
    <3> QED BY <2>1, <2>2, <3>1, <3>2, <3>3 DEF Driven
  <2>4. CASE ~intr
    <3>1. UNCHANGED <<port, up, resp>> BY <1>8, <2>4 DEF MainStarts
    <3>2. /\ up = None /\ ~port
          /\ curr # None => card = curr \/ up # None \/ resp # None
      BY <2>1, <2>4 DEF Driven
    <3> QED BY <2>1, <2>2, <3>1, <3>2 DEF Driven
  <2> QED BY <2>3, <2>4
<1>9. CASE MainEnds
  <2>1. /\ main = "loop" /\ main' = "idle" /\ (cmd_sent \/ curr # None \/ pending = <<>>)
        /\ UNCHANGED <<pending, at, works, dbg, intr, curr, resp, cmd_sent, card, port, up>>
    BY <1>9 DEF MainEnds
  <2> QED BY <2>1 DEF Driven
<1>10. CASE ExecNextCmd
  <2>1. /\ main' = "send" /\ UNCHANGED <<works, dbg, intr, port, up>>
    BY <1>10 DEF ExecNextCmd
  <2> QED BY <2>1 DEF Driven
<1>11. CASE SendSucceeds
  <2>1. /\ main' = "loop" /\ card' = curr
        /\ UNCHANGED <<works, dbg, intr, curr, port, up>>
    BY <1>11 DEF SendSucceeds
  <2> QED BY <2>1 DEF Driven
<1>12. CASE GiveUp BY <1>12 DEF GiveUp, Driven
<1>13. CASE RespondCanceled \/ Respond \/ Handled \/ RespondBad \/ Clean
  <2>1. /\ main' \in {"handle", "clean", "release"}
        /\ UNCHANGED <<works, dbg, intr, port, up>>
    BY <1>13 DEF RespondCanceled, Respond, Handled, RespondBad, Frees, Clean
  <2> QED BY <2>1 DEF Driven
<1>14. CASE Release
  <2>1. main' = "loop" /\ curr' = None /\ UNCHANGED <<works, dbg, intr, port, up>>
    BY <1>14 DEF Release
  <2> QED BY <2>1 DEF Driven
<1>15. CASE CardReady \/ CardAnswers
  <2>1. /\ intr' = TRUE /\ works' = works + 1
        /\ UNCHANGED <<pending, at, main, dbg, curr, resp, cmd_sent>>
    BY <1>15 DEF CardReady, CardAnswers, SDIO_IRQHandler
  <2>2. works' >= Flag(dbg') + Flag(intr') /\ works' > Flag(dbg')
    BY <1>t, <1>w, <2>1 DEF Flag
  <2>3. (card' = card /\ up' = up) \/ up' # None
    BY <1>15, <1>i, ResponseAssumption DEF CardReady, CardAnswers, TypeOK
  <2> QED BY <2>1, <2>2, <2>3 DEF Driven
<1>16. CASE SendFails /\ UNCHANGED vars BY <1>16, <1>5
<1> QED
  BY <1>1, <1>2, <1>3, <1>4, <1>5, <1>6, <1>7, <1>8, <1>9, <1>10, <1>11, <1>12, <1>13,
     <1>14, <1>15, <1>16
  DEF Next, System, Caller, Main

(* Nothing sleeps on an unanswered call: unless a send fails, there never  *)
(* is a state in which a call is unanswered, main_work is idle and not     *)
(* scheduled, nobody is about to schedule it and the card owes nothing.    *)
(* This is the part of the liveness of calls that is a safety property.    *)
THEOREM SomeoneActs == Reliable => []CallsDriven
<1> USE NamesAssumption
<1>1. Init => HaveNodes BY DEF Init, HaveNodes, Unanswered, Asking
<1>2. Init => Driven BY DEF Init, Driven, Flag
<1>3. IInv /\ (HaveNodes /\ Driven) /\ [Next /\ ~SendFails]_vars
        => (IInv /\ (HaveNodes /\ Driven))'
  <2>1. [Next /\ ~SendFails]_vars => [Next]_vars OBVIOUS
  <2>2. IInv /\ [Next]_vars => IInv'
    BY TypeStep, NodesStep, PhasesStep, HandsStep, LocalsStep, RequestsStep DEF IInv
  <2> QED BY <2>1, <2>2, HaveNodesStep, DrivenStep
<1>4. IInv /\ HaveNodes /\ Driven => CallsDriven
  <2> SUFFICES ASSUME IInv, HaveNodes, Driven, NEW c \in Callers, Unanswered(c),
                      main = "idle", ~(works > 0), card = None,
                      \A d \in Callers : at[d] # "asked"
               PROVE  cmd_sent /\ ~port
    BY DEF CallsDriven
  <2>1. works \in Nat /\ dbg \in BOOLEAN /\ intr \in BOOLEAN /\ pending \in Seq(Nodes)
    BY DEF IInv, TypeOK
  <2>2. works >= Flag(dbg) + Flag(intr) BY DEF Driven
  <2>3. ~intr BY <2>1, <2>2 DEF Flag
  <2>4. resp = None BY DEF IInv, OneAnswer
  <2>5. up = None /\ ~port BY <2>3 DEF Driven
  <2>6. curr = None BY <2>4, <2>5 DEF Driven
  <2>7. PICK n \in Range(pending) \cup {curr} : n \in Nodes BY NodesFor DEF CallsHaveNodes, WorksFor
  <2>8. pending # <<>>
    <3>1. n \in Range(pending) BY <2>6, <2>7
    <3> QED BY <3>1 DEF Range
  <2>9. ~(works > Flag(dbg)) BY <2>1 DEF Flag
  <2>10. cmd_sent BY <2>6, <2>8, <2>9 DEF Driven
  <2> QED BY <2>5, <2>10
<1>5. Init => IInv BY InitInv
<1> QED BY <1>1, <1>2, <1>3, <1>4, <1>5, PTL DEF Reliable

-----------------------------------------------------------------------------
(* What a node carries from one request to the next.                       *)

(* CMD_F_CANCELED is only on nodes whose request is gone, and on none that *)
(* is free or about to be.                                                 *)
FlagsSpent ==
  /\ canceled \cap Range(free) = {}
  /\ \A n \in canceled : pioctl[n] = None
  /\ main = "clean" => mnode \notin canceled

LEMMA FlagsStep == IInv /\ FlagsSpent /\ [Next]_vars => FlagsSpent'
<1> SUFFICES ASSUME IInv, FlagsSpent, [Next]_vars PROVE FlagsSpent'
  OBVIOUS
<1>i. TypeOK /\ Phases /\ Hands /\ OneAnswer /\ Requests /\ NodesConserved BY DEF IInv
<1>t. /\ free \in Seq(Nodes) /\ pending \in Seq(Nodes) /\ IsInjective(free)
      /\ IsInjective(pending) /\ pioctl \in [Nodes -> Callers \cup {None}]
      /\ canceled \subseteq Nodes /\ curr \in Nodes \cup {None}
      /\ mnode \in Nodes \cup {None}
  BY <1>i DEF TypeOK, NodesConserved
<1> USE NamesAssumption DEF queues, timing, memory, running, device, calls
<1>1. ASSUME NEW c \in Callers, Ask(c) PROVE FlagsSpent'
  <2>1. /\ free # <<>> /\ free' = Tail(free)
        /\ pioctl' = [pioctl EXCEPT ![Head(free)] = c]
        /\ UNCHANGED <<canceled, main, mnode>>
    BY <1>1 DEF Ask
  <2>2. Range(free) = Range(free') \cup {Head(free)} /\ Head(free) \in Nodes
    BY <1>t, <2>1, TakeHead
  <2> QED BY <1>t, <2>1, <2>2 DEF FlagsSpent
<1>2. ASSUME NEW c \in Callers, AskRefused(c) PROVE FlagsSpent'
  <2> DEFINE t == Tail(free)
             h == Head(free)
  <2>1. /\ free # <<>> /\ free' = Append(t, h)
        /\ pioctl' = [pioctl EXCEPT ![h] = None] /\ canceled' = canceled \ {h}
        /\ UNCHANGED <<main, mnode>>
    BY <1>2 DEF AskRefused, Cleaned
  <2>2. /\ t \in Seq(Nodes) /\ h \in Nodes /\ IsInjective(t) /\ h \notin Range(t)
        /\ Range(free) = Range(t) \cup {h}
    BY <1>t, <2>1, TakeHead
  <2> HIDE DEF t, h
  <2>3. Range(free') = Range(free) BY <2>1, <2>2, AppendNew
  <2> QED BY <1>t, <2>1, <2>2, <2>3 DEF FlagsSpent
<1>3. ASSUME NEW c \in Callers, AskNoBuffer(c) PROVE FlagsSpent'
  <2>1. /\ free # <<>> /\ free' = Tail(free)
        /\ UNCHANGED <<pioctl, canceled, main, mnode>>
    BY <1>3 DEF AskNoBuffer
  <2>2. Range(free) = Range(free') \cup {Head(free)}
    BY <1>t, <2>1, TakeHead
  <2> QED BY <2>1, <2>2 DEF FlagsSpent
<1>4. ASSUME NEW c \in Callers, CancelCurrent(c) PROVE FlagsSpent'
  <2>1. /\ curr \in Nodes /\ pioctl[curr] = c
        /\ pioctl' = [pioctl EXCEPT ![curr] = None]
        /\ canceled' = canceled \cup {curr}
        /\ UNCHANGED <<free, main, mnode>>
    BY <1>4 DEF CancelCurrent, WorksFor
  <2>2. curr \in Range(pending) \/ main \in Calm
    BY <1>i, <2>1 DEF Requests
  <2>3. curr \notin Range(free) /\ (main = "clean" => curr # mnode)
    BY <1>i, <2>1, <2>2 DEF NodesConserved, Calm
  <2> QED BY <1>t, <2>1, <2>3 DEF FlagsSpent
<1>5. ASSUME NEW c \in Callers, CancelPending(c) PROVE FlagsSpent'
  <2>1. \E n \in Nodes : pioctl' = [pioctl EXCEPT ![n] = None]
    BY <1>5, <1>i, Unlinks
  <2>2. UNCHANGED <<free, canceled, main, mnode>> BY <1>5 DEF CancelPending
  <2> QED BY <1>t, <2>1, <2>2 DEF FlagsSpent
<1>10. ASSUME NEW c \in Callers, CancelInserts(c) PROVE FlagsSpent'
  <2>1. /\ at[c] = "unlinked" /\ free' = Append(free, hand[c])
        /\ pioctl' = [pioctl EXCEPT ![hand[c]] = None] /\ canceled' = canceled \ {hand[c]}
        /\ UNCHANGED <<main, mnode>>
    BY <1>10 DEF CancelInserts, Cleaned
  <2>2. hand[c] \in Nodes /\ hand[c] \in Range(hand) \ {None}
    BY <1>i, <2>1 DEF Hands, Range, TypeOK
  <2>3. hand[c] \notin Range(free) BY <1>i, <2>2 DEF NodesConserved
  <2>4. Range(free') = Range(free) \cup {hand[c]}
    BY <1>t, <2>1, <2>2, <2>3, AppendNew
  <2> QED BY <1>t, <2>1, <2>2, <2>4 DEF FlagsSpent
<1>6. CASE SendFails
  <2>1. /\ main = "send" /\ main' = "giveup" /\ free' = Append(free, curr)
        /\ pioctl' = [pioctl EXCEPT ![curr] = None] /\ canceled' = canceled \ {curr}
    BY <1>6 DEF SendFails, Cleaned
  <2>2. curr \in Nodes /\ curr \notin Range(free)
    BY <1>i, <1>t, <2>1 DEF Phases, NodesConserved
  <2>3. Range(free') = Range(free) \cup {curr}
    BY <1>t, <2>1, <2>2, AppendNew
  <2> QED BY <1>t, <2>1, <2>2, <2>3 DEF FlagsSpent
<1>7. CASE RespondCanceled \/ Handled \/ RespondBad
  <2>1. /\ resp # None \/ main = "handle"
        /\ main' = "clean" /\ mnode' = curr /\ free' = free
        /\ pioctl' = [pioctl EXCEPT ![curr] = None] /\ canceled' = canceled \ {curr}
    BY <1>7 DEF RespondCanceled, Handled, RespondBad, Frees, Cleaned
  <2>2. curr \in Nodes BY <1>i, <1>t, <2>1 DEF OneAnswer, Phases
  <2> QED BY <1>t, <2>1, <2>2 DEF FlagsSpent
<1>8. CASE Clean
  <2>1. /\ main = "clean" /\ main' = "release" /\ free' = Append(free, mnode)
        /\ UNCHANGED <<pioctl, canceled>>
    BY <1>8 DEF Clean
  <2>2. mnode \in Nodes /\ mnode \notin Range(free)
    BY <1>i, <1>t, <2>1 DEF Phases, NodesConserved
  <2>3. Range(free') = Range(free) \cup {mnode}
    BY <1>t, <2>1, <2>2, AppendNew
  <2> QED BY <2>1, <2>3 DEF FlagsSpent
<1>9. CASE \/ TimerExpires \/ wlan_cmd_timeout_func \/ MainDumps \/ MainStarts
           \/ MainEnds \/ ExecNextCmd \/ SendSucceeds \/ GiveUp \/ Respond \/ Release
           \/ CardReady \/ CardAnswers \/ UNCHANGED vars
           \/ \E c \in Callers : \/ AskNoNode(c) \/ QueueWork(c) \/ Pend(c) \/ Woken(c)
                                 \/ CancelNothing(c) \/ CancelCompletes(c)
  <2>1. UNCHANGED <<free, pioctl, canceled>> /\ (main' = "clean" => UNCHANGED <<main, mnode>>)
    BY <1>9
    DEF TimerExpires, wlan_cmd_timeout_func, MainDumps, MainStarts, MainEnds,
        ExecNextCmd, SendSucceeds, GiveUp, Respond, Release, CardReady, CardAnswers,
        SDIO_IRQHandler, AskNoNode, QueueWork, Pend, Woken, CancelNothing,
        CancelCompletes, vars
  <2> QED BY <2>1 DEF FlagsSpent
<1> QED
  BY <1>1, <1>2, <1>3, <1>4, <1>5, <1>6, <1>7, <1>8, <1>9, <1>10 DEF Next, System, Caller, Main

(* A cancel does not outlive its request: CMD_F_CANCELED, which makes      *)
(* wlan_process_cmdresp throw a response away, is never on a node that a   *)
(* caller takes from cmd_free_q or that works for a live request, although *)
(* a cancel may hit curr_cmd after its node was freed and taken again.     *)
THEOREM CancelsSpent == Spec => []FlagsSpent
<1>1. Init => FlagsSpent BY DEF Init, FlagsSpent
<1> QED BY <1>1, FlagsStep, Invariance, PTL DEF Spec

(* The card is given a command only after the one before it was answered   *)
(* and the answer was read and handled.                                    *)
OneAtATime ==
  [][card' # card /\ card' # None =>
       card = None /\ up = None /\ resp = None /\ card' = curr]_vars

(* The firmware never has two commands to answer, and none while the       *)
(* answer to another is unread, over timeouts, cancels and failed sends:   *)
(* wlan_exec_next_cmd checks curr_cmd and cmd_sent only.                   *)
THEOREM CommandsOneAtATime == Spec => OneAtATime
<1> DEFINE Given == card = None /\ up = None /\ resp = None /\ card' = curr
<1>1. IInv /\ [Next]_vars => [card' # card /\ card' # None => Given]_vars
  <2> SUFFICES ASSUME IInv, [Next]_vars, card' # card, card' # None PROVE Given
    OBVIOUS
  <2>1. SendSucceeds
    <3>1. ASSUME NEW c \in Callers, Caller(c) PROVE FALSE
      BY <3>1 DEF Caller, Ask, AskRefused, AskNoBuffer, AskNoNode, QueueWork, Pend,
           Woken, CancelCurrent, CancelPending, CancelInserts, CancelNothing, CancelCompletes, vars,
           device
    <3>2. CASE \/ TimerExpires \/ wlan_cmd_timeout_func \/ MainDumps \/ MainStarts
               \/ MainEnds \/ ExecNextCmd \/ SendFails \/ GiveUp \/ RespondCanceled
               \/ Respond \/ Handled \/ RespondBad \/ Clean \/ Release \/ CardReady
               \/ CardAnswers \/ UNCHANGED vars
      BY <3>2
      DEF TimerExpires, wlan_cmd_timeout_func, MainDumps, MainStarts, MainEnds,
          ExecNextCmd, SendFails, GiveUp, RespondCanceled, Respond, Handled, RespondBad,
          Frees, Clean, Release, CardReady, CardAnswers, vars, device
    <3> QED BY <3>1, <3>2 DEF Next, System, Main
  <2>2. main = "send" /\ card' = curr BY <2>1 DEF SendSucceeds
  <2> QED BY <2>2 DEF IInv, OneAnswer
<1> QED BY <1>1, Invariance, PTL DEF Spec, OneAtATime

=============================================================================
