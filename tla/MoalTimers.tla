------------------------------ MODULE MoalTimers ------------------------------
(***************************************************************************)
(* The WLAN driver's timers (moal_main.h, moal_shim.c) on the timer wheel, *)
(* and the timer tasklet that calls their functions: OSTmr_Task queues the *)
(* work of an expired timer, and the tasklet's thread takes it later.  The *)
(* functions it calls take the driver's locks and the heap's mutex and may *)
(* block; ticks go by in the meantime.                                     *)
(*                                                                         *)
(* A user is a place that holds a moal_drv_timer: the command timer, a     *)
(* receive reorder table's timer, the reassociation timer.  Each user's    *)
(* timer is started, stopped and freed by one thread, so a call of it that *)
(* changes only this timer is one step.                                    *)
(***************************************************************************)
EXTENDS TimerWheel

CONSTANTS Users,        \* where moal_drv_timers are held
          Nobody,
          SETUP_DLY     \* the delay timer_setup is called with

ASSUME UsersAssumption ==
  /\ Nobody \notin Users
  /\ SETUP_DLY \in Delays /\ "ONE_SHOT" \in Opts

VARIABLES
  drv,      \* the users' moal_drv_timers: live, tl, canceled (timer_is_canceled)
            \*   and period (time_period)
  arg,      \* whose function and context the work of each timer holds
  work,     \* the tasklet's queue: the timers whose works it holds
  cur,      \* whose timer function the tasklet calls
  fault     \* the code has used a null timer, freed a work that is queued, or
            \*   queued one twice: what it does from there on is not modelled

moalVars == <<drv, arg, work, cur, fault>>
allVars == <<vars, moalVars>>

NoTimer == [live |-> FALSE, tl |-> NULL, canceled |-> TRUE, period |-> 0]

MoalInit ==
  /\ Init
  /\ drv = [u \in Users |-> NoTimer]
  /\ arg = [t \in Timers |-> Nobody]
  /\ work = <<>> /\ cur = Nobody /\ fault = FALSE

-----------------------------------------------------------------------------
(* Mutant: the work is not given the user's function and context.          *)
InitNoWork(u) ==
  LET t == OSTmrFreeList
  IN  /\ ~drv[u].live /\ t # NULL
      /\ timer_setup(t, SETUP_DLY, "ONE_SHOT")
      /\ drv' = [drv EXCEPT ![u] = [NoTimer EXCEPT !.live = TRUE, !.tl = t]]
      /\ UNCHANGED <<arg, work, cur, fault>>

(* moal_init_timer, or woal_initialize_timer on a timer of the handle.     *)
moal_init_timer(u) ==
  LET t == OSTmrFreeList
  IN  /\ ~drv[u].live /\ t # NULL
      /\ timer_setup(t, SETUP_DLY, "ONE_SHOT")
      /\ drv' = [drv EXCEPT ![u] = [NoTimer EXCEPT !.live = TRUE, !.tl = t]]
      /\ arg' = [arg EXCEPT ![t] = u]
      /\ UNCHANGED <<work, cur, fault>>

(* No memory for the work: the OS_TMR goes back, and the moal_drv_timer is *)
(* used with a null tl.                                                    *)
InitNoWorkMemory(u) ==
  /\ ~drv[u].live /\ OSTmrFreeList # NULL
  /\ SchedUnlocked
  /\ tmr' = [tmr EXCEPT ![OSTmrFreeList].dly = SETUP_DLY]
  /\ drv' = [drv EXCEPT ![u] = [NoTimer EXCEPT !.live = TRUE]]
  /\ UNCHANGED <<first, entries, spokes, pool, caller, arg, work, cur, fault>>

(* OSTmrCreate has no timer left: timer_setup reports it and then sets the *)
(* priv of the null timer.                                                 *)
InitFaults(u) ==
  /\ ~drv[u].live /\ ~walking /\ OSTmrFreeList = NULL
  /\ fault' = TRUE
  /\ UNCHANGED <<vars, drv, arg, work, cur>>

(* mod_timer leaves a pending timer as it is; any other it starts with the *)
(* new delay.                                                              *)
mod_timer_at_once(t, dly) ==
  IF t = NULL \/ (t # NULL /\ tmr[t].state = "RUNNING")
  THEN SchedUnlocked /\ UNCHANGED lists
  ELSE /\ SchedUnlocked
       /\ Become(OSTmr_Link([Lists EXCEPT !.tmr[t].dly = dly], t))

(* Mutant: the timer stays marked as cancelled.                            *)
StartStillCanceled(u, msec) ==
  /\ drv[u].live
  /\ mod_timer_at_once(drv[u].tl, msec)
  /\ drv' = [drv EXCEPT ![u].period = msec]
  /\ UNCHANGED <<pool, caller, arg, work, cur, fault>>

moal_start_timer(u, msec) ==
  /\ drv[u].live
  /\ mod_timer_at_once(drv[u].tl, msec)
  /\ drv' = [drv EXCEPT ![u].period = msec, ![u].canceled = FALSE]
  /\ UNCHANGED <<pool, caller, arg, work, cur, fault>>

moal_stop_timer(u) ==
  /\ drv[u].live
  /\ \/ drv[u].tl # NULL /\ del_timer(drv[u].tl)
     \/ drv[u].tl = NULL /\ SchedUnlocked /\ UNCHANGED <<lists, pool, caller>>
  /\ drv' = [drv EXCEPT ![u].period = 0, ![u].canceled = TRUE]
  /\ UNCHANGED <<arg, work, cur, fault>>

(* moal_free_timer gives the OS_TMR and its work back only when the timer  *)
(* was started and has not been stopped.                                   *)
FreesTimer(u) == ~drv[u].canceled /\ drv[u].period # 0

moal_free_timer(u) ==
  /\ drv[u].live
  /\ FreesTimer(u) => drv[u].tl # NULL /\ drv[u].tl \notin Range(work)
  /\ IF FreesTimer(u)
     THEN timer_free(drv[u].tl)
     ELSE SchedUnlocked /\ UNCHANGED <<lists, pool, caller>>
  /\ drv' = [drv EXCEPT ![u] = NoTimer]
  /\ UNCHANGED <<arg, work, cur, fault>>

(* timer_free of the null timer, or of one whose work is still queued.     *)
FreeFaults(u) ==
  /\ drv[u].live /\ ~walking
  /\ FreesTimer(u) /\ (drv[u].tl = NULL \/ drv[u].tl \in Range(work))
  /\ fault' = TRUE
  /\ UNCHANGED <<vars, drv, arg, work, cur>>

-----------------------------------------------------------------------------
(* OSTmr_Task, and timer_tasklet_callback for a timer that expires.  Of    *)
(* the two tasks the tasklet's comes first: once the walk unlocks the      *)
(* scheduler it empties its queue before the timer task takes another      *)
(* tick, unless it blocks inside a timer function.                         *)
Turn ==
  /\ \/ OSTmrSignal
     \/ (work = <<>> \/ cur # Nobody) /\ TaskTurn
     \/ TaskPass \/ TaskDone
  /\ UNCHANGED moalVars

(* Mutant: an expiry is dropped when another is still queued.              *)
ExpireOneSlot ==
  /\ TaskExpire
  /\ work' = IF work = <<>> THEN <<ptmr>> ELSE work
  /\ fault' = (ptmr \in Range(work))
  /\ UNCHANGED <<drv, arg, cur>>

(* A work that is still queued is linked a second time, which tangles the  *)
(* tasklet's list (Requeue in WorkQueue).                                  *)
Expire ==
  /\ TaskExpire
  /\ work' = Append(work, ptmr)
  /\ fault' = (ptmr \in Range(work))
  /\ UNCHANGED <<drv, arg, cur>>

(* The tasklet's thread takes a work off the queue, then calls it.         *)
TakeWork ==
  /\ ~walking /\ cur = Nobody /\ work # <<>>
  /\ cur' = arg[Head(work)] /\ work' = Tail(work)
  /\ UNCHANGED <<vars, drv, arg, fault>>

FunctionReturns ==
  /\ ~walking /\ cur # Nobody
  /\ cur' = Nobody
  /\ UNCHANGED <<vars, drv, arg, work, fault>>

Tasklet == TakeWork \/ FunctionReturns

MoalNext ==
  /\ ~fault
  /\ \/ Turn \/ Expire \/ Tasklet
     \/ \E u \in Users :
          \/ moal_init_timer(u) \/ InitNoWorkMemory(u) \/ InitFaults(u)
          \/ moal_stop_timer(u) \/ moal_free_timer(u) \/ FreeFaults(u)
          \/ \E d \in Delays : moal_start_timer(u, d)

MoalSpec == MoalInit /\ [][MoalNext]_allVars

(* The tick and the timer task go on, up to a fault.  The tasklet's thread *)
(* has the higher priority of the two and runs whenever the timer task     *)
(* unlocks the scheduler; a timer function that blocks comes back.         *)
MoalFairSpec ==
  /\ MoalSpec
  /\ WF_allVars(~fault /\ (Turn \/ Expire))
  /\ SF_allVars(~fault /\ Tasklet)

-----------------------------------------------------------------------------
(* Properties *)

MoalTypeOK ==
  /\ drv \in [Users -> [live : BOOLEAN, tl : Pointers, canceled : BOOLEAN,
                        period : Delays \cup {0}]]
  /\ arg \in [Timers -> Users \cup {Nobody}]
  /\ work \in Seq({t \in Timers : arg[t] # Nobody})
  /\ cur \in Users \cup {Nobody} /\ fault \in BOOLEAN

(* moal_free_timer decides by timer_is_canceled and time_period alone, and *)
(* that is enough: a timer in the wheel always belongs to the live         *)
(* moal_drv_timer it was set up for, whose flags say it is started, so a   *)
(* freed one never goes off later; and no two users share a timer.         *)
RunningIsArmed ==
  /\ \A t \in Timers :
       tmr[t].state = "RUNNING" =>
         LET u == arg[t]
         IN  u \in Users /\ drv[u].live /\ drv[u].tl = t
             /\ ~drv[u].canceled /\ drv[u].period # 0
  /\ \A u \in Users : drv[u].live /\ drv[u].tl # NULL =>
       InUse(drv[u].tl) /\ arg[drv[u].tl] = u

(* A timer that was started goes off or is stopped: its function is called *)
(* unless it is stopped or freed before, also while the functions of       *)
(* others block and ticks go by.  The exceptions are those of fault: among *)
(* them a timer that is started again while its work waits behind such a   *)
(* function and expires before it is taken; the tangled list may then keep *)
(* any work from its thread.                                               *)
StartedGoesOff ==
  \A u \in Users :
    drv[u].live /\ drv[u].tl # NULL /\ tmr[drv[u].tl].state = "RUNNING"
      ~> cur = u \/ drv[u].canceled \/ fault

(* "Free the timer": an OS_TMR in use belongs to a live moal_drv_timer.    *)
NoTimerLeaked ==
  \A t \in Timers : InUse(t) => \E u \in Users : drv[u].live /\ drv[u].tl = t
=============================================================================
