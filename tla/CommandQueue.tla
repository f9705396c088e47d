---------------------------- MODULE CommandQueue ----------------------------
(***************************************************************************)
(* The driver's commands to the card's firmware: tasks that call           *)
(* woal_request_ioctl and wait (moal_ioctl.c), the queues of command nodes *)
(* (mlan_cmdevt.c), the main work that sends one command and handles its   *)
(* response (mlan_shim.c), the command timer, and the card.                *)
(*                                                                         *)
(* The main work's task has the highest priority: it gives the processor   *)
(* up only where it blocks, which is while the SDIO bus transfers a        *)
(* command and where it needs the heap's mutex for a buffer.  Between two  *)
(* such places it is one step.  Scans, power save, soft reset, start and   *)
(* data are left out: the adapter is ready and awake.                      *)
(***************************************************************************)
EXTENDS Integers, Functions, FiniteSets, SequencesExt

CONSTANTS Callers,      \* the calling tasks, by priority: 0 is the highest
          Nodes,        \* the cmd_ctrl_nodes
          None,         \* MNULL
          Freed,        \* the address of a request that is freed
          SEM_MAX,      \* 2^16 - 1: OSEventCnt is an INT16U
          MAX_WORKS,    \* bound: times main_work is scheduled when a call starts
          MAX_LOST      \* bound: failed allocations of a command buffer

ASSUME NamesAssumption ==
  /\ Callers \subseteq Nat /\ IsFiniteSet(Callers)
  /\ IsFiniteSet(Nodes)
  /\ None \notin Nodes \cup Callers /\ Freed \notin Callers \cup {None}
ASSUME BoundsAssumption ==
  /\ SEM_MAX \in Nat \ {0} /\ Cardinality(Callers) <= SEM_MAX
  /\ MAX_WORKS \in Nat \ {0} /\ MAX_LOST \in Nat

VARIABLES
  free, pending,    \* cmd_free_q and cmd_pending_q
  curr,             \* curr_cmd
  pioctl,           \* the request each node works for, by its caller
  canceled,         \* the nodes with CMD_F_CANCELED
  lost,             \* the nodes wlan_get_cmd_node dropped
  hand,             \* the node a canceling caller has unlinked
  resp,             \* cmd_resp_received and the respbuf of curr_cmd
  cmd_sent,
  timer, is_set,    \* the command timer runs; cmd_timer_is_set
  due,              \* its work is in the timer tasklet's queue
  main, mnode,      \* where the main work is, and the node it frees
  pioctl_buf,       \* the request it holds in a local
  fault,            \* it wrote through the local into memory of another's
  works,            \* the times main_work is scheduled and has not run
  dbg,              \* sdio_reg_dbg: its next run only dumps registers
  intr,             \* sdio_int_pending
  card,             \* the command the firmware has to answer
  port, up,         \* the card takes a command; it has a response to read
  at,               \* where each caller is in woal_request_ioctl
  cond,             \* wait->condition
  sem               \* the count of ioctl_wait_q

queues  == <<free, pending, pioctl, canceled, lost, hand>>
timing  == <<timer, is_set, due>>
memory  == <<pioctl_buf, fault>>
running == <<main, mnode, memory, works, dbg, intr>>
device  == <<card, port, up>>
calls   == <<at, cond, sem>>
vars == <<queues, curr, resp, cmd_sent, timing, running, device, calls>>

Answers == {"good", "bad"}

ASSUME ResponseAssumption ==
  \A n \in Nodes, kind \in Answers : [node |-> n, kind |-> kind] # None

Init ==
  /\ free \in {s \in [1..Cardinality(Nodes) -> Nodes] : IsInjective(s) /\ Range(s) = Nodes}
  /\ pending = <<>> /\ curr = None
  /\ pioctl = [n \in Nodes |-> None] /\ canceled = {} /\ lost = {}
  /\ hand = [c \in Callers |-> None]
  /\ resp = None /\ cmd_sent = FALSE
  /\ timer = FALSE /\ is_set = FALSE /\ due = FALSE
  /\ main = "idle" /\ mnode = None /\ works = 0 /\ dbg = FALSE /\ intr = FALSE
  /\ pioctl_buf = None /\ fault = FALSE
  /\ card = None /\ port = FALSE /\ up = None
  /\ at = [c \in Callers |-> "idle"]
  /\ cond = [c \in Callers |-> FALSE] /\ sem = 0

-----------------------------------------------------------------------------
(* The processor is left to the other tasks.                               *)
Yields ==
  \/ main \in {"send", "handle", "clean", "release", "giveup"}
  \/ main = "idle" /\ works = 0

(* A caller runs when no caller of a higher priority is ready; one that is *)
(* canceling may be blocked on the heap's mutex, too.                      *)
Runs(c) ==
  /\ Yields
  /\ \A d \in Callers : d < c => at[d] \in {"idle", "waiting", "canceling"}

Waiting == {c \in Callers : at[c] = "waiting"}

(* Mutant: the count is not checked against its limit.                     *)
wake_upUncapped(f) ==
  IF Waiting = {}
  THEN sem' = sem + 1 /\ at' = f
  ELSE /\ UNCHANGED sem
       /\ \E c \in Waiting : /\ \A d \in Waiting : c <= d
                            /\ at' = [f EXCEPT ![c] = "woken"]

(* OSSemPost: the waiting task of the highest priority is readied, whoever *)
(* it is that the post is meant for; f is where the callers are.           *)
wake_up(f) ==
  IF Waiting = {}
  THEN /\ sem' = IF sem < SEM_MAX THEN sem + 1 ELSE sem
       /\ at' = f
  ELSE /\ UNCHANGED sem
       /\ \E c \in Waiting : /\ \A d \in Waiting : c <= d
                            /\ at' = [f EXCEPT ![c] = "woken"]

(* moal_ioctl_complete wakes nobody for a failed request whose status code *)
(* is MLAN_ERROR_CMD_TIMEOUT.  No completion here has that one: the timer  *)
(* function sets it, and whatever completes the request sets another first.*)
moal_ioctl_complete(c) ==
  /\ cond' = [cond EXCEPT ![c] = TRUE]
  /\ wake_up(at)

(* The request of a node is completed, if it has one.                      *)
Complete(n) ==
  IF pioctl[n] = None THEN UNCHANGED calls
                      ELSE moal_ioctl_complete(pioctl[n])

(* The main work writes through its local.  Into a request that is freed   *)
(* this spoils what the heap has put in its place, if it has.              *)
WriteRequest == fault' \in IF pioctl_buf = Freed THEN BOOLEAN ELSE {fault}

(* A call returns, and its request is freed.                               *)
FreeRequest(c) ==
  /\ cond' = [cond EXCEPT ![c] = FALSE]
  /\ pioctl_buf' = IF pioctl_buf = c THEN Freed ELSE pioctl_buf

WorksFor(n, c) == n \in Nodes /\ pioctl[n] = c

(* wlan_clean_cmd_node, up to the response buffer.                         *)
Cleaned(n) ==
  /\ pioctl' = [pioctl EXCEPT ![n] = None]
  /\ canceled' = canceled \ {n}

-----------------------------------------------------------------------------
(* A caller in woal_request_ioctl.                                         *)

(* mlan_ioctl prepares a command and queues it; with interrupts off.       *)
Ask(c) ==
  /\ Runs(c) /\ at[c] = "idle" /\ free # <<>> /\ works < MAX_WORKS
  /\ free' = Tail(free)
  /\ pioctl' = [pioctl EXCEPT ![Head(free)] = c]
  /\ pending' = Append(pending, Head(free))
  /\ at' = [at EXCEPT ![c] = "asked"]
  /\ cond' = [cond EXCEPT ![c] = FALSE]
  /\ UNCHANGED <<curr, canceled, lost, hand, resp, cmd_sent, timing, running,
                 device, sem>>

(* Preparing fails: the node goes to the end of cmd_free_q.                *)
AskRefused(c) ==
  /\ Runs(c) /\ at[c] = "idle" /\ free # <<>>
  /\ free' = Append(Tail(free), Head(free))
  /\ Cleaned(Head(free))
  /\ UNCHANGED <<pending, curr, lost, hand, resp, cmd_sent, timing, running,
                 device, calls>>

(* There is no buffer for the command: the node is in no queue any more.   *)
AskNoBuffer(c) ==
  /\ Runs(c) /\ at[c] = "idle" /\ free # <<>>
  /\ Cardinality(lost) < MAX_LOST
  /\ free' = Tail(free)
  /\ lost' = lost \cup {Head(free)}
  /\ UNCHANGED <<pending, curr, pioctl, canceled, hand, resp, cmd_sent, timing,
                 running, device, calls>>

(* No node is free: the call fails and nothing is scheduled.               *)
AskNoNode(c) ==
  /\ Runs(c) /\ at[c] = "idle" /\ free = <<>>
  /\ UNCHANGED vars

(* queue_work of main_work.                                                *)
QueueWork(c) ==
  /\ Runs(c) /\ at[c] = "asked"
  /\ works' = works + 1
  /\ at' = [at EXCEPT ![c] = "wait"]
  /\ UNCHANGED <<queues, curr, resp, cmd_sent, timing, main, mnode, memory, dbg,
                 intr, device, cond, sem>>

(* wait_event_interruptible, which is OSSemPend.                           *)
Pend(c) ==
  /\ Runs(c) /\ at[c] = "wait"
  /\ IF sem > 0
     THEN sem' = sem - 1 /\ at' = [at EXCEPT ![c] = "woken"]
     ELSE at' = [at EXCEPT ![c] = "waiting"] /\ UNCHANGED sem
  /\ UNCHANGED <<queues, curr, resp, cmd_sent, timing, running, device, cond>>

(* The condition is looked at once, after the wait; when it is true the    *)
(* call returns.                                                           *)
Woken(c) ==
  /\ Runs(c) /\ at[c] = "woken"
  /\ at' = [at EXCEPT ![c] = IF cond[c] THEN "idle" ELSE "cancel"]
  /\ IF cond[c] THEN FreeRequest(c) ELSE UNCHANGED <<cond, pioctl_buf>>
  /\ UNCHANGED <<queues, curr, resp, cmd_sent, timing, main, mnode, fault, works,
                 dbg, intr, device, sem>>

(* Mutant: the node goes on referring to the request.                      *)
CancelCurrentKept(c) ==
  /\ Runs(c) /\ at[c] = "cancel"
  /\ WorksFor(curr, c)
  /\ canceled' = canceled \cup {curr}
  /\ at' = [at EXCEPT ![c] = "canceling"]
  /\ UNCHANGED <<free, pending, curr, pioctl, lost, hand, resp, cmd_sent, timing,
                 running, device, cond, sem>>

(* wlan_cancel_pending_ioctl, under the command lock: the command in       *)
(* processing is flagged.                                                  *)
CancelCurrent(c) ==
  /\ Runs(c) /\ at[c] = "cancel"
  /\ WorksFor(curr, c)
  /\ pioctl' = [pioctl EXCEPT ![curr] = None]
  /\ canceled' = canceled \cup {curr}
  /\ at' = [at EXCEPT ![c] = "canceling"]
  /\ UNCHANGED <<free, pending, curr, lost, hand, resp, cmd_sent, timing, running,
                 device, cond, sem>>

(* Mutant: the node is not taken out of cmd_pending_q.                     *)
CancelPendingLinked(c) ==
  /\ Runs(c) /\ at[c] = "cancel"
  /\ ~WorksFor(curr, c)
  /\ \E n \in Range(pending) : /\ WorksFor(n, c)
                              /\ hand' = [hand EXCEPT ![c] = n]
                              /\ pioctl' = [pioctl EXCEPT ![n] = None]
  /\ at' = [at EXCEPT ![c] = "unlinked"]
  /\ UNCHANGED <<free, pending, canceled, curr, lost, resp, cmd_sent, timing,
                 running, device, cond, sem>>

(* One that is pending is unlinked, and the lock released;                 *)
CancelPending(c) ==
  /\ Runs(c) /\ at[c] = "cancel"
  /\ ~WorksFor(curr, c)
  /\ \E i \in DOMAIN pending :
       /\ WorksFor(pending[i], c)
       /\ pending' = RemoveAt(pending, i)
       /\ hand' = [hand EXCEPT ![c] = pending[i]]
       /\ pioctl' = [pioctl EXCEPT ![pending[i]] = None]
  /\ at' = [at EXCEPT ![c] = "unlinked"]
  /\ UNCHANGED <<free, canceled, curr, lost, resp, cmd_sent, timing, running, device,
                 cond, sem>>

(* it goes back to cmd_free_q, and its command buffer is freed.            *)
CancelInserts(c) ==
  /\ Runs(c) /\ at[c] = "unlinked"
  /\ free' = Append(free, hand[c])
  /\ Cleaned(hand[c])
  /\ hand' = [hand EXCEPT ![c] = None]
  /\ at' = [at EXCEPT ![c] = "canceling"]
  /\ UNCHANGED <<pending, curr, lost, resp, cmd_sent, timing, running, device, cond,
                 sem>>

(* It was completed after the caller had looked at the condition.          *)
CancelNothing(c) ==
  /\ Runs(c) /\ at[c] = "cancel"
  /\ \A n \in {curr} \cup Range(pending) : ~WorksFor(n, c)
  /\ at' = [at EXCEPT ![c] = "canceling"]
  /\ UNCHANGED <<queues, curr, resp, cmd_sent, timing, running, device, cond,
                 sem>>

(* Mutant: the canceled request is not completed.                          *)
CancelCompletesNot(c) ==
  /\ Runs(c) /\ at[c] = "canceling"
  /\ at' = [at EXCEPT ![c] = "idle"]
  /\ FreeRequest(c)
  /\ UNCHANGED <<queues, curr, resp, cmd_sent, timing, main, mnode, fault, works,
                 dbg, intr, device, sem>>

(* The request is completed, again if it was before, and the call returns. *)
CancelCompletes(c) ==
  /\ Runs(c) /\ at[c] = "canceling"
  /\ wake_up([at EXCEPT ![c] = "idle"])
  /\ FreeRequest(c)
  /\ UNCHANGED <<queues, curr, resp, cmd_sent, timing, main, mnode, fault, works,
                 dbg, intr, device>>

Caller(c) ==
  \/ Ask(c) \/ AskRefused(c) \/ AskNoBuffer(c) \/ AskNoNode(c)
  \/ QueueWork(c) \/ Pend(c) \/ Woken(c)
  \/ CancelCurrent(c) \/ CancelPending(c) \/ CancelInserts(c) \/ CancelNothing(c)
  \/ CancelCompletes(c)

-----------------------------------------------------------------------------
(* The command timer: its OS_TMR goes off, and then its tasklet runs.      *)
TimerExpires ==
  /\ main # "loop" /\ timer /\ ~due
  /\ timer' = FALSE /\ due' = TRUE
  /\ UNCHANGED <<queues, curr, resp, cmd_sent, is_set, running, device, calls>>

(* Mutant: the command that timed out is given up.                         *)
wlan_cmd_timeout_funcFrees ==
  /\ Yields /\ due
  /\ due' = FALSE /\ is_set' = FALSE
  /\ IF curr # None
     THEN /\ dbg' = TRUE /\ works' = works + 1
          /\ Cleaned(curr) /\ free' = Append(free, curr)
          /\ Complete(curr)
     ELSE UNCHANGED <<dbg, works, pioctl, canceled, free, calls>>
  /\ curr' = None
  /\ UNCHANGED <<pending, lost, hand, resp, cmd_sent, timer, main, mnode, memory,
                 intr, device>>

(* wlan_cmd_timeout_func: the command is reported, and not sent again.     *)
wlan_cmd_timeout_func ==
  /\ Yields /\ due
  /\ due' = FALSE /\ is_set' = FALSE
  /\ IF curr # None
     THEN dbg' = TRUE /\ works' = works + 1
     ELSE UNCHANGED <<dbg, works>>
  /\ UNCHANGED <<queues, curr, resp, cmd_sent, timer, main, mnode, memory, intr,
                 device, calls>>

-----------------------------------------------------------------------------
(* The main work: woal_main_work_queue and mlan_main_process.              *)

(* A run that only dumps the card's registers.                             *)
MainDumps ==
  /\ main = "idle" /\ works > 0 /\ dbg
  /\ works' = works - 1 /\ dbg' = FALSE
  /\ UNCHANGED <<queues, curr, resp, cmd_sent, timing, main, mnode, memory, intr,
                 device, calls>>

(* The run starts with the interrupt, if there was one: the command port   *)
(* may be free again, and a response is read for the command in processing.*)
MainStarts ==
  /\ main = "idle" /\ works > 0 /\ ~dbg
  /\ works' = works - 1 /\ main' = "loop" /\ intr' = FALSE
  /\ IF intr
     THEN /\ cmd_sent' = (cmd_sent /\ ~port)
          /\ port' = FALSE /\ up' = None
          /\ resp' = IF curr = None THEN None ELSE up
     ELSE UNCHANGED <<cmd_sent, port, up, resp>>
  /\ UNCHANGED <<queues, curr, timing, mnode, memory, dbg, card, calls>>

MainEnds ==
  /\ main = "loop" /\ resp = None
  /\ cmd_sent \/ curr # None \/ pending = <<>>
  /\ main' = "idle"
  /\ UNCHANGED <<queues, curr, resp, cmd_sent, timing, mnode, memory, works, dbg,
                 intr, device, calls>>

(* wlan_exec_next_cmd: the oldest command is being written to the card.    *)
(* The address of its request is kept in a local.                          *)
ExecNextCmd ==
  /\ main = "loop" /\ resp = None
  /\ ~cmd_sent /\ curr = None /\ pending # <<>>
  /\ curr' = Head(pending) /\ pending' = Tail(pending)
  /\ cmd_sent' = TRUE
  /\ pioctl_buf' = pioctl[Head(pending)]
  /\ main' = "send"
  /\ UNCHANGED <<free, pioctl, canceled, lost, hand, resp, timing, mnode, fault,
                 works, dbg, intr, device, calls>>

(* Mutant: the command timer is not started.                               *)
SendSucceedsUnwatched ==
  /\ main = "send"
  /\ card' = curr
  /\ is_set' = TRUE
  /\ main' = "loop" /\ pioctl_buf' = None
  /\ UNCHANGED <<queues, curr, resp, cmd_sent, timer, due, mnode, fault, works, dbg,
                 intr, port, up, calls>>

(* The card has it, and the command timer is started.                      *)
SendSucceeds ==
  /\ main = "send"
  /\ card' = curr
  /\ timer' = TRUE /\ is_set' = TRUE
  /\ main' = "loop" /\ pioctl_buf' = None
  /\ UNCHANGED <<queues, curr, resp, cmd_sent, due, mnode, fault, works, dbg, intr,
                 port, up, calls>>

(* The failure is written through the local, which may have become stale   *)
(* in the transfer; the node's request, if it still has one, is completed. *)
(* The node goes to cmd_free_q while it still is curr_cmd, and its buffer  *)
(* is freed.  The card has not taken the command.                          *)
SendFails ==
  /\ main = "send"
  /\ cmd_sent' = FALSE
  /\ WriteRequest /\ pioctl_buf' = None
  /\ Complete(curr)
  /\ Cleaned(curr)
  /\ free' = Append(free, curr)
  /\ main' = "giveup" /\ mnode' = curr
  /\ UNCHANGED <<pending, curr, lost, hand, resp, timing, works, dbg, intr, device>>

(* curr_cmd is cleared and the loop is left, whatever is still pending.    *)
GiveUp ==
  /\ main = "giveup"
  /\ curr' = None /\ mnode' = None
  /\ main' = "idle"
  /\ UNCHANGED <<queues, resp, cmd_sent, timing, memory, works, dbg, intr, device,
                 calls>>

-----------------------------------------------------------------------------
(* wlan_process_cmdresp: the response ends the command in processing,      *)
(* whichever command it answers.                                           *)
StopTimer ==
  /\ timer' = (timer /\ ~is_set)
  /\ is_set' = FALSE
  /\ UNCHANGED due

Frees(n) ==
  /\ Cleaned(n)
  /\ main' = "clean" /\ mnode' = n /\ pioctl_buf' = None
  /\ resp' = None
  /\ UNCHANGED <<free, pending, lost, hand, cmd_sent, works, dbg, intr, device>>

(* Its caller has canceled it.                                             *)
RespondCanceled ==
  /\ main = "loop" /\ resp # None /\ curr \in canceled
  /\ StopTimer /\ Frees(curr)
  /\ curr' = None
  /\ Complete(curr) /\ UNCHANGED fault

(* The handler of the response gets the request's address in a local.  It  *)
(* allocates and frees buffers, where it waits for the heap's mutex.       *)
Respond ==
  /\ main = "loop" /\ resp # None /\ curr \notin canceled
  /\ resp.kind = "good"
  /\ StopTimer
  /\ main' = "handle" /\ pioctl_buf' = pioctl[curr]
  /\ UNCHANGED <<queues, curr, resp, cmd_sent, mnode, fault, works, dbg, intr, device,
                 calls>>

(* It takes the response, or fails.  It may have written to the request,   *)
(* which may have been canceled meanwhile; what is completed is the one    *)
(* the node has by now, if any.                                            *)
Handled ==
  /\ main = "handle"
  /\ WriteRequest
  /\ Frees(curr)
  /\ curr' = None
  /\ Complete(curr)
  /\ UNCHANGED timing

(* The firmware reports an error, or the response is no response: the node *)
(* is freed while it still is curr_cmd.                                    *)
RespondBad ==
  /\ main = "loop" /\ resp # None /\ curr \notin canceled
  /\ resp.kind = "bad"
  /\ StopTimer /\ Frees(curr)
  /\ UNCHANGED curr
  /\ Complete(curr) /\ UNCHANGED fault

(* The response buffer is freed, and the node is inserted in cmd_free_q;   *)
Clean ==
  /\ main = "clean"
  /\ free' = Append(free, mnode)
  /\ main' = "release"
  /\ UNCHANGED <<pending, pioctl, canceled, lost, hand, curr, resp, cmd_sent, timing,
                 mnode, memory, works, dbg, intr, device, calls>>

(* Mutant: the main work does not look for the next command.               *)
ReleaseStops ==
  /\ main = "release"
  /\ curr' = None /\ mnode' = None
  /\ main' = "idle"
  /\ UNCHANGED <<queues, resp, cmd_sent, timing, memory, works, dbg, intr, device,
                 calls>>

(* its command buffer is freed, and curr_cmd cleared if it was not before. *)
Release ==
  /\ main = "release"
  /\ curr' = None /\ mnode' = None
  /\ main' = "loop"
  /\ UNCHANGED <<queues, resp, cmd_sent, timing, memory, works, dbg, intr, device,
                 calls>>

Main ==
  \/ MainDumps \/ MainStarts \/ MainEnds
  \/ ExecNextCmd \/ SendSucceeds \/ SendFails \/ GiveUp
  \/ RespondCanceled \/ Respond \/ Handled \/ RespondBad \/ Clean \/ Release

-----------------------------------------------------------------------------
(* The card.  Its interrupt schedules main_work.                           *)
SDIO_IRQHandler ==
  /\ intr' = TRUE
  /\ works' = works + 1
  /\ UNCHANGED <<queues, curr, resp, cmd_sent, timing, main, mnode, memory, dbg, calls>>

(* The command port is free again.                                         *)
CardReady ==
  /\ main \notin {"send", "loop"} /\ cmd_sent /\ ~port
  /\ port' = TRUE
  /\ SDIO_IRQHandler
  /\ UNCHANGED <<card, up>>

CardAnswers ==
  /\ main # "loop" /\ card # None
  /\ \E kind \in Answers : up' = [node |-> card, kind |-> kind]
  /\ card' = None
  /\ SDIO_IRQHandler
  /\ UNCHANGED port

System ==
  \/ \E c \in Callers : Caller(c)
  \/ TimerExpires \/ wlan_cmd_timeout_func
  \/ Main
  \/ CardReady \/ CardAnswers

(* Nothing is said of what happens once another's memory is overwritten.   *)
Next == (~fault /\ System) \/ (fault /\ UNCHANGED vars)

Spec == Init /\ [][Next]_vars

(* The main work goes on when it can and a caller that is ready again and  *)
(* again gets the processor; the card frees its command port.  No caller   *)
(* need ask, and no send need fail.                                        *)
SchedSpec ==
  /\ Spec
  /\ WF_vars(~fault /\ (MainDumps \/ MainStarts \/ MainEnds \/ ExecNextCmd \/ SendSucceeds
              \/ GiveUp \/ RespondCanceled \/ Respond \/ Handled \/ RespondBad \/ Clean
              \/ Release))
  /\ \A c \in Callers : SF_vars(~fault /\ (QueueWork(c) \/ Pend(c) \/ Woken(c)
         \/ CancelCurrent(c) \/ CancelPending(c) \/ CancelInserts(c) \/ CancelNothing(c)
         \/ CancelCompletes(c)))
  /\ WF_vars(~fault /\ CardReady)

(* The firmware answers every command.                                     *)
FairSpec == SchedSpec /\ WF_vars(~fault /\ CardAnswers)

-----------------------------------------------------------------------------
(* Properties *)

Responses == [node : Nodes, kind : Answers] \cup {None}

TypeOK ==
  /\ free \in Seq(Nodes) /\ pending \in Seq(Nodes)
  /\ curr \in Nodes \cup {None}
  /\ pioctl \in [Nodes -> Callers \cup {None}]
  /\ canceled \subseteq Nodes /\ lost \subseteq Nodes
  /\ resp \in Responses /\ up \in Responses
  /\ cmd_sent \in BOOLEAN /\ port \in BOOLEAN
  /\ timer \in BOOLEAN /\ is_set \in BOOLEAN /\ due \in BOOLEAN
  /\ main \in {"idle", "loop", "send", "giveup", "handle", "clean", "release"}
  /\ mnode \in Nodes \cup {None}
  /\ hand \in [Callers -> Nodes \cup {None}]
  /\ pioctl_buf \in Callers \cup {None, Freed} /\ fault \in BOOLEAN
  /\ works \in Nat /\ dbg \in BOOLEAN /\ intr \in BOOLEAN
  /\ card \in Nodes \cup {None}
  /\ at \in [Callers -> {"idle", "asked", "wait", "waiting", "woken", "cancel", "unlinked",
                       "canceling"}]
  /\ cond \in [Callers -> BOOLEAN]
  /\ sem \in 0..SEM_MAX

(* No command node is in two places or in none: each is once in cmd_free_q *)
(* or cmd_pending_q, is curr_cmd, is being freed, is in the hands of one   *)
(* caller that cancels it or was dropped.  The one exception is curr_cmd   *)
(* after it went to cmd_free_q and before the main work, blocked on the    *)
(* heap's mutex, has cleared it: a caller may even have taken the node     *)
(* again by then.                                                          *)
NodesConserved ==
  LET queued == Range(free) \cup Range(pending)
      ending == main \in {"giveup", "release"}
      held   == (IF ending THEN {} ELSE {curr, mnode}) \ {None}
      hands  == Range(hand) \ {None}
  IN  /\ IsInjective(free) /\ IsInjective(pending)
      /\ Range(free) \cap Range(pending) = {}
      /\ lost \cap queued = {} /\ lost \cap held = {}
      /\ held \cap queued = {}
      /\ hands \cap (queued \cup held \cup lost) = {}
      /\ \A c, d \in Callers : hand[c] = hand[d] => c = d \/ hand[c] = None
      /\ ending => curr \in {None, mnode}
      /\ queued \cup held \cup hands \cup lost = Nodes

(* No node refers to a request its caller has let go of, and no two nodes  *)
(* to the same one.  The main work's local is the request of curr_cmd      *)
(* unless that was canceled during the transfer or in the handler; only    *)
(* then can it be stale, and the code writes to a freed request.           *)
RequestLive ==
  /\ \A n \in Nodes : pioctl[n] # None =>
       /\ at[pioctl[n]] # "idle"
       /\ \A m \in Nodes : pioctl[m] = pioctl[n] => m = n
  /\ pioctl_buf # None =>
       /\ main \in {"send", "handle"} /\ curr # None
       /\ pioctl_buf # pioctl[curr] => curr \in canceled

(* A response ends the command it answers, although nothing compares them: *)
(* a command stays curr_cmd until its response comes, when its caller has  *)
(* canceled it and when it has timed out, too.  After a command that the   *)
(* card took although sending it failed, each answer may go to the next.   *)
AnswersMatch == resp # None => curr # None /\ resp.node = curr

(* A command the card has not answered is watched by the command timer, or *)
(* has been reported as late.                                              *)
CurrentIsWatched ==
  curr # None /\ curr = card /\ is_set => timer \/ due

(* When a task was woken by the completion of another's request, that one  *)
(* will be woken in its turn: no more tasks wait with their condition true *)
(* than there are tasks about to cancel their own requests.                *)
WakeupsOwed ==
  /\ sem > 0 => Waiting = {}
  /\ Cardinality({c \in Waiting : cond[c]}) <=
       Cardinality({c \in Callers : \/ at[c] \in {"cancel", "unlinked", "canceling"}
                                    \/ at[c] = "woken" /\ ~cond[c]})

(* Every call returns when the firmware answers, unless a send has failed  *)
(* or a freed request was overwritten.                                     *)
CallEnds == \A c \in Callers : at[c] = "asked" ~> at[c] = "idle" \/ main = "giveup" \/ fault
=============================================================================
