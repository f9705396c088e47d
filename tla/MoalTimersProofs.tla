--------------------------- MODULE MoalTimersProofs ---------------------------
(***************************************************************************)
(* The driver's timers, for any users, timers and delays: their flags say  *)
(* which timers are in the wheel (RunningIsArmed).  The driver's calls are *)
(* steps of the wheel but for two: moal_start_timer sets the delay and     *)
(* starts the timer at once, and a timer_setup that finds no memory for    *)
(* the work leaves its delay in a timer that is not in use.                *)
(*                                                                         *)
(* With them come when a work is queued twice (WorksQueuedOnce), the       *)
(* promise of TimerService (DriverTimersServe) and the one way in which a  *)
(* timer is lost (LeaksOnlyStopped).                                       *)
(***************************************************************************)
EXTENDS MoalTimers, TimerWheelProofs

Drv == [live : BOOLEAN, tl : Pointers, canceled : BOOLEAN, period : Delays \cup {0}]

MInv == IInv /\ MoalTypeOK /\ RunningIsArmed

LEMMA Still ==
  ASSUME IInv, UNCHANGED vars
  PROVE  IInv'
BY StepKeeps

LEMMA NothingDone ==
  ASSUME SchedUnlocked, UNCHANGED <<lists, pool, caller>>
  PROVE  UNCHANGED vars
BY DEF SchedUnlocked, vars

(* The delay of a timer that is not in use.                                *)
LEMMA SpareKeeps ==
  ASSUME IInv, NEW u \in Users, InitNoWorkMemory(u)
  PROVE  /\ IInv'
         /\ \A x \in Timers :
              tmr'[x].state = tmr[x].state /\ tmr'[x].match = tmr[x].match
<1> DEFINE t == OSTmrFreeList
<1>1. /\ t # NULL /\ ~walking /\ tmr' = [tmr EXCEPT ![t].dly = SETUP_DLY]
      /\ UNCHANGED <<first, entries, spokes, OSTmrFreeList, unused, caller>>
      /\ UNCHANGED <<OSTmrTime, signal, walking, ptmr>>
  BY DEF InitNoWorkMemory, SchedUnlocked, pool, task
<1>2. /\ tmr \in [Timers -> Tmr] /\ WellLinked(tmr, first, entries, spokes)
      /\ FreeLinked /\ t \in Timers
  BY <1>1 DEF IInv, Linked, WellLinked, FreeLinked, Pointers
<1> HIDE DEF t
<1>3. /\ tmr' \in [Timers -> Tmr] /\ tmr'[t] = [tmr[t] EXCEPT !.dly = SETUP_DLY]
      /\ \A x \in Timers \ {t} : tmr'[x] = tmr[x]
  <2>1. [tmr[t] EXCEPT !.dly = SETUP_DLY] \in Tmr BY <1>2, UsersAssumption DEF Tmr
  <2> QED BY <1>1, <1>2, <2>1
<1>4. \A x \in Timers :
        /\ tmr'[x].state = tmr[x].state /\ tmr'[x].match = tmr[x].match
        /\ tmr'[x].next = tmr[x].next /\ tmr'[x].prev = tmr[x].prev
        /\ tmr'[x].dly \in Delays \cup {tmr[x].dly}
  <2>1. tmr[t] \in Tmr /\ SETUP_DLY \in Delays BY <1>2, UsersAssumption
  <2>2. /\ tmr'[t].state = tmr[t].state /\ tmr'[t].match = tmr[t].match
        /\ tmr'[t].next = tmr[t].next /\ tmr'[t].prev = tmr[t].prev
        /\ tmr'[t].dly = SETUP_DLY
    BY <1>3, <2>1 DEF Tmr
  <2> QED BY <1>3, <2>1, <2>2
<1>5. WellLinked(tmr', first', entries', spokes')
  <2>1. WellLinked(tmr', first, entries, spokes) BY <1>2, <1>3, <1>4, TouchKeeps
  <2> QED BY <1>1, <2>1
<1>6. FreeLinked'
  <2>1. \A i \in 1..Len(unused) : unused[i] \in Timers BY <1>2 DEF FreeLinked
  <2>2. {x \in Timers : tmr'[x].state # "UNUSED"} = {x \in Timers : tmr[x].state # "UNUSED"}
    BY <1>4
  <2>3. \A x \in Timers : InUse(x)' <=> InUse(x) BY <1>4 DEF InUse
  <2> QED BY <1>1, <1>2, <1>4, <2>1, <2>3 DEF FreeLinked
<1>7. TypeOK'
  <2>1. \A x \in Timers : InUse(x)' => tmr'[x].dly \in Delays
    BY <1>4 DEF IInv, TypeOK, InUse
  <2>2. /\ OSTmrTime' \in 0..(TIME_MOD - 1) /\ signal' \in 0..MAX_SIGNAL
        /\ walking' \in BOOLEAN /\ ptmr' \in Pointers /\ caller' \in WheelType
    BY <1>1 DEF IInv, TypeOK, WheelType
  <2>3. /\ tmr' \in [Timers -> Tmr]
        /\ first' \in [Spokes -> Pointers] /\ entries' \in [Spokes -> Nat]
        /\ spokes' \in [Spokes -> Seq(Timers)]
    BY <1>5 DEF WellLinked
  <2>4. OSTmrFreeList' \in Pointers /\ unused' \in Seq(Timers)
    BY <1>6 DEF FreeLinked
  <2> QED BY <2>1, <2>2, <2>3, <2>4 DEF TypeOK, Tmr, WheelType
<1>8. CallersHold' BY <1>1, <1>4 DEF IInv, CallersHold, InUse
<1>9. Walk'
  <2>1. \A x \in Timers : ~Due(x) BY <1>1 DEF IInv, Walk
  <2> QED BY <1>1, <1>4, <2>1 DEF Walk, Due
<1>10. Linked'
  <2>1. WellLinked(tmr, first, entries, spokes)' BY <1>5, NextLists
  <2> QED BY <1>6, <2>1 DEF Linked
<1> QED BY <1>4, <1>7, <1>8, <1>9, <1>10 DEF IInv

(* Timer t alone was started, for d ticks.                                 *)
StartedFor(t, d) ==
  /\ ~walking /\ OSTmrTime' = OSTmrTime
  /\ tmr'[t].state = "RUNNING" /\ tmr'[t].match = (d + OSTmrTime) % TIME_MOD
  /\ \A x \in Timers \ {t} : Same(tmr', tmr, x)

(* Setting the delay of a timer that does not run and starting it.         *)
LEMMA AtOnceKeeps ==
  ASSUME IInv, NEW t \in Timers, InUse(t), NEW d \in Delays,
         mod_timer_at_once(t, d), UNCHANGED <<pool, caller>>
  PROVE  /\ IInv'
         /\ \A x \in Timers \ {t} : tmr'[x].state = tmr[x].state
         /\ tmr'[t].state # "UNUSED"
         /\ UNCHANGED vars \/ StartedFor(t, d)
<1>1. CASE tmr[t].state = "RUNNING"
  <2>1. UNCHANGED vars
    BY <1>1, NothingDone DEF mod_timer_at_once
  <2> QED BY <1>1, <2>1, Still DEF vars, lists
<1>2. CASE tmr[t].state # "RUNNING"
  <2> DEFINE T == [tmr EXCEPT ![t].dly = d]
             w == [Lists EXCEPT !.tmr[t].dly = d]
             m == (d + OSTmrTime) % TIME_MOD
  <2>1. /\ ~walking /\ UNCHANGED <<OSTmrTime, signal, walking, ptmr>>
        /\ Become(OSTmr_Link(w, t))
    <3>1. t # NULL BY DEF Timers, NULL
    <3> QED BY <1>2, <3>1 DEF mod_timer_at_once, SchedUnlocked, task
  <2>2. /\ WellLinked(tmr, first, entries, spokes) /\ tmr \in [Timers -> Tmr]
        /\ OSTmrTime \in 0..(TIME_MOD - 1)
    BY DEF IInv, Linked, WellLinked, TypeOK
  <2>3. /\ w.tmr = T /\ w.first = first /\ w.entries = entries /\ w.spokes = spokes
    BY DEF Lists
  <2>4. LinkedFor(T, first, entries, spokes, t, (T[t].dly + OSTmrTime') % TIME_MOD,
                  tmr', first', entries', spokes')
    <3> HIDE DEF w, T
    <3> QED BY <2>1, <2>3, LinkIs DEF Become
  <2>5. /\ T \in [Timers -> Tmr] /\ T[t] = [tmr[t] EXCEPT !.dly = d]
        /\ \A x \in Timers \ {t} : T[x] = tmr[x]
    <3>1. [tmr[t] EXCEPT !.dly = d] \in Tmr BY <2>2 DEF Tmr
    <3> QED BY <2>2, <3>1
  <2> HIDE DEF T, w
  <2>6. T[t].state = tmr[t].state /\ T[t].dly = d BY <2>2, <2>5 DEF Tmr
  <2>7. WellLinked(T, first, entries, spokes)
    <3>1. \A x \in Timers :
            /\ T[x].state = "RUNNING" <=> tmr[x].state = "RUNNING"
            /\ tmr[x].state = "RUNNING" =>
                 /\ T[x].match = tmr[x].match /\ T[x].next = tmr[x].next
                 /\ T[x].prev = tmr[x].prev
      BY <1>2, <2>5, <2>6
    <3> QED BY <2>2, <2>5, <3>1, TouchKeeps
  <2>8. m \in Matches /\ m # OSTmrTime BY <2>2, Fresh DEF Matches
  <2>9. LinkedFor(T, first, entries, spokes, t, m, tmr', first', entries', spokes')
    BY <2>1, <2>4, <2>6
  <2> HIDE DEF m
  <2>10. NowRuns(T, t, m, tmr', first', entries', spokes')
    <3>1. T[t].state # "RUNNING" BY <1>2, <2>6
    <3> QED BY <2>7, <2>8, <2>9, <3>1, LinkKeeps
  <2>11. /\ WellLinked(tmr', first', entries', spokes')
         /\ tmr'[t].state = "RUNNING" /\ tmr'[t].match = m /\ tmr'[t].dly = d
         /\ \A x \in Timers \ {t} :
              Same(tmr', tmr, x) /\ (tmr[x].state # "RUNNING" => tmr'[x] = tmr[x])
    BY <2>5, <2>6, <2>10 DEF NowRuns, Same
  <2>12. TypeOK' /\ Linked' /\ CallersHold'
    <3>1. \A x \in Timers : /\ InUse(x)' <=> InUse(x)
                            /\ ~InUse(x) => tmr'[x] = tmr[x]
                            /\ tmr'[x].dly \in Delays \cup {tmr[x].dly}
      BY <2>11 DEF InUse, Same
    <3>2. /\ OSTmrTime' \in Matches /\ signal' \in 0..MAX_SIGNAL
          /\ walking' \in BOOLEAN /\ ptmr' \in Pointers
      BY <2>1 DEF IInv, TypeOK, Matches
    <3> QED BY <2>11, <3>1, <3>2, CallersStay, RestKeeps
  <2>13. Walk'
    <3>1. \A x \in Timers : ~Due(x) BY <2>1 DEF IInv, Walk
    <3> QED BY <2>1, <2>8, <2>11, <3>1 DEF Walk, Due, Same
  <2>14. StartedFor(t, d) BY <2>1, <2>11 DEF StartedFor, m
  <2> QED BY <2>11, <2>12, <2>13, <2>14 DEF IInv, Same
<1> QED BY <1>1, <1>2

-----------------------------------------------------------------------------
LEMMA DrvTypes ==
  ASSUME MoalTypeOK
  PROVE  /\ drv \in [Users -> Drv] /\ NoTimer \in Drv /\ Nobody \notin Users
         /\ arg \in [Timers -> Users \cup {Nobody}] /\ work \in Seq(Timers)
<1>1. work \in Seq(Timers)
  <2>1. work \in Seq({t \in Timers : arg[t] # Nobody}) BY DEF MoalTypeOK
  <2> QED BY <2>1
<1> QED BY <1>1, UsersAssumption DEF MoalTypeOK, Drv, NoTimer, Pointers

LEMMA NextDrv ==
  ASSUME MoalTypeOK, NEW u \in Users, NEW r \in Drv, drv' = [drv EXCEPT ![u] = r]
  PROVE  /\ drv' \in [Users -> Drv] /\ drv'[u] = r
         /\ \A v \in Users \ {u} : drv'[v] = drv[v]
BY DrvTypes

(* A step of a live timer's owner, whose flags become r.                   *)
LEMMA ArmedStays ==
  ASSUME MoalTypeOK, RunningIsArmed, NEW u \in Users, NEW r \in Drv, drv[u].live,
         drv' = [drv EXCEPT ![u] = r], arg' = arg,
         \A x \in Timers \ {drv[u].tl} : tmr'[x].state = tmr[x].state,
         \A x \in Timers : x = drv[u].tl /\ tmr'[x].state = "RUNNING" =>
           r.live /\ r.tl = x /\ ~r.canceled /\ r.period # 0,
         r.live /\ r.tl # NULL => r.tl = drv[u].tl /\ tmr'[r.tl].state # "UNUSED"
  PROVE  RunningIsArmed'
<1>1. /\ drv'[u] = r /\ \A v \in Users \ {u} : drv'[v] = drv[v]
      /\ \A v \in Users : drv[v] \in Drv
  BY NextDrv, DrvTypes
<1>2. \A v \in Users : drv[v].tl \in Pointers BY <1>1 DEF Drv
<1>3. ASSUME NEW x \in Timers, tmr'[x].state = "RUNNING"
      PROVE  /\ arg[x] \in Users /\ drv'[arg[x]].live /\ drv'[arg[x]].tl = x
             /\ ~drv'[arg[x]].canceled /\ drv'[arg[x]].period # 0
  <2>1. CASE x = drv[u].tl
    <3>1. x # NULL BY DEF Timers, NULL
    <3>2. arg[x] = u BY <2>1, <3>1 DEF RunningIsArmed
    <3> QED BY <1>1, <1>3, <2>1, <3>2
  <2>2. CASE x # drv[u].tl
    <3>1. tmr[x].state = "RUNNING" BY <1>3, <2>2
    <3> QED BY <1>1, <2>2, <3>1 DEF RunningIsArmed
  <2> QED BY <2>1, <2>2
<1>4. ASSUME NEW v \in Users, drv'[v].live, drv'[v].tl # NULL
      PROVE  tmr'[drv'[v].tl].state # "UNUSED" /\ arg[drv'[v].tl] = v
  <2>1. CASE v = u BY <1>1, <1>4, <2>1 DEF RunningIsArmed
  <2>2. CASE v # u
    <3>1. drv'[v] = drv[v] /\ drv[v].tl \in Timers
      BY <1>1, <1>2, <1>4, <2>2 DEF Pointers
    <3>2. InUse(drv[v].tl) /\ arg[drv[v].tl] = v
      BY <1>4, <3>1 DEF RunningIsArmed
    <3>3. drv[v].tl # drv[u].tl BY <1>4, <2>2, <3>1, <3>2 DEF RunningIsArmed
    <3> QED BY <3>1, <3>2, <3>3 DEF InUse
  <2> QED BY <2>1, <2>2
<1> QED BY <1>3, <1>4 DEF RunningIsArmed, InUse

(* A step of a moal_drv_timer that was not live.                           *)
LEMMA FreshArmed ==
  ASSUME MoalTypeOK, RunningIsArmed, NEW u \in Users, ~drv[u].live,
         NEW r \in Drv, drv' = [drv EXCEPT ![u] = r],
         \A x \in Timers : tmr'[x].state = tmr[x].state \/ x = r.tl,
         r.tl # NULL => tmr[r.tl].state = "UNUSED" /\ tmr'[r.tl].state = "STOPPED",
         arg' = IF r.tl = NULL THEN arg ELSE [arg EXCEPT ![r.tl] = u]
  PROVE  RunningIsArmed'
<1>1. /\ drv'[u] = r /\ \A v \in Users \ {u} : drv'[v] = drv[v]
      /\ \A v \in Users : drv[v] \in Drv
      /\ r.tl \in Pointers /\ arg \in [Timers -> Users \cup {Nobody}]
  BY NextDrv, DrvTypes DEF Drv
<1>2. \A v \in Users : drv[v].tl \in Pointers BY <1>1 DEF Drv
<1>3. /\ r.tl # NULL => r.tl \in Timers /\ arg'[r.tl] = u
      /\ \A x \in Timers : x # r.tl => arg'[x] = arg[x]
  BY <1>1 DEF Pointers
<1>4. ASSUME NEW x \in Timers, tmr'[x].state = "RUNNING"
      PROVE  /\ arg'[x] \in Users /\ drv'[arg'[x]].live /\ drv'[arg'[x]].tl = x
             /\ ~drv'[arg'[x]].canceled /\ drv'[arg'[x]].period # 0
  <2>1. x # NULL BY DEF Timers, NULL
  <2>2. x # r.tl BY <1>4, <2>1
  <2>3. tmr[x].state = "RUNNING" /\ arg'[x] = arg[x] BY <1>3, <1>4, <2>2
  <2> QED BY <1>1, <2>3 DEF RunningIsArmed
<1>5. ASSUME NEW v \in Users, drv'[v].live, drv'[v].tl # NULL
      PROVE  tmr'[drv'[v].tl].state # "UNUSED" /\ arg'[drv'[v].tl] = v
  <2>1. CASE v = u BY <1>1, <1>3, <1>5, <2>1
  <2>2. CASE v # u
    <3>1. drv'[v] = drv[v] /\ drv[v].tl \in Timers
      BY <1>1, <1>2, <1>5, <2>2 DEF Pointers
    <3>2. InUse(drv[v].tl) /\ arg[drv[v].tl] = v
      BY <1>5, <3>1 DEF RunningIsArmed
    <3>3. drv[v].tl # r.tl BY <1>5, <3>1, <3>2 DEF InUse
    <3> QED BY <1>3, <3>1, <3>2, <3>3 DEF InUse
  <2> QED BY <2>1, <2>2
<1> QED BY <1>4, <1>5 DEF RunningIsArmed, InUse

(* The types after a step that changes drv alone, or nothing of the driver.*)
LEMMA TypesStay ==
  ASSUME MoalTypeOK, NEW u \in Users, NEW r \in Drv, drv' = [drv EXCEPT ![u] = r],
         arg' \in [Timers -> Users \cup {Nobody}], UNCHANGED <<work, cur, fault>>,
         \A t \in Timers : arg[t] # Nobody => arg'[t] # Nobody
  PROVE  MoalTypeOK'
<1>1. drv' \in [Users -> Drv] BY NextDrv
<1>2. work' \in Seq({t \in Timers : arg'[t] # Nobody})
  <2>1. work \in Seq({t \in Timers : arg[t] # Nobody}) BY DEF MoalTypeOK
  <2>2. \A i \in 1..Len(work) : work[i] \in {t \in Timers : arg'[t] # Nobody}
    BY <2>1
  <2> QED BY <2>1, <2>2
<1> QED BY <1>1, <1>2 DEF MoalTypeOK, Drv

LEMMA InitStep ==
  ASSUME MInv, NEW u \in Users, moal_init_timer(u)
  PROVE  MInv'
<1> DEFINE t == OSTmrFreeList
           r == [NoTimer EXCEPT !.live = TRUE, !.tl = t]
           e == [tmr[t] EXCEPT !.state = "STOPPED", !.opt = "ONE_SHOT",
                               !.dly = SETUP_DLY, !.next = NULL, !.prev = NULL]
<1>1. /\ ~drv[u].live /\ t # NULL /\ timer_setup(t, SETUP_DLY, "ONE_SHOT")
      /\ drv' = [drv EXCEPT ![u] = r] /\ arg' = [arg EXCEPT ![t] = u]
      /\ UNCHANGED <<work, cur, fault>> /\ tmr' = [tmr EXCEPT ![t] = e]
  BY DEF moal_init_timer, timer_setup, OSTmrCreate
<1>2. IInv /\ MoalTypeOK /\ RunningIsArmed BY DEF MInv
<1>3. t \in Timers /\ tmr \in [Timers -> Tmr] /\ FreeLinked
  BY <1>1, <1>2 DEF IInv, Linked, WellLinked, FreeLinked, Pointers
<1>4. r \in Drv /\ r.tl = t
  BY <1>3 DEF Drv, NoTimer, Pointers
<1>5. e.state = "STOPPED" BY <1>3 DEF Tmr
<1>6. tmr[t].state = "UNUSED"
  <2>1. unused # <<>> /\ t = unused[1] /\ unused \in Seq(Timers)
    BY <1>1, <1>3 DEF FreeLinked
  <2>2. t \in Range(unused)
    <3>1. 1 \in DOMAIN unused BY <2>1
    <3> QED BY <2>1, <3>1 DEF Range
  <2> QED BY <1>3, <2>2 DEF FreeLinked, InUse
<1> HIDE DEF t, r, e
<1>7. tmr'[t].state = "STOPPED" /\ \A x \in Timers \ {t} : tmr'[x] = tmr[x]
  BY <1>1, <1>3, <1>5
<1>8. RunningIsArmed'
  <2>1. \A x \in Timers : tmr'[x].state = tmr[x].state \/ x = r.tl
    BY <1>4, <1>7
  <2> QED BY <1>1, <1>2, <1>4, <1>6, <1>7, <2>1, FreshArmed
<1>9. IInv' BY <1>1, <1>2, <1>3, UsersAssumption, CreateKeeps
<1>10. MoalTypeOK'
  <2>1. /\ arg' \in [Timers -> Users \cup {Nobody}]
        /\ \A x \in Timers : arg[x] # Nobody => arg'[x] # Nobody
    BY <1>1, <1>2, <1>3, DrvTypes
  <2> QED BY <1>1, <1>2, <1>4, <2>1, TypesStay
<1> QED BY <1>8, <1>9, <1>10 DEF MInv

LEMMA NoWorkMemoryStep ==
  ASSUME MInv, NEW u \in Users, InitNoWorkMemory(u)
  PROVE  MInv'
<1> DEFINE r == [NoTimer EXCEPT !.live = TRUE]
<1>1. /\ ~drv[u].live /\ drv' = [drv EXCEPT ![u] = r] /\ UNCHANGED <<arg, work, cur, fault>>
  BY DEF InitNoWorkMemory
<1>2. IInv /\ MoalTypeOK /\ RunningIsArmed BY DEF MInv
<1>3. IInv' /\ \A x \in Timers : tmr'[x].state = tmr[x].state
  BY <1>2, SpareKeeps
<1>4. r \in Drv /\ r.tl = NULL BY DEF Drv, NoTimer, Pointers
<1> HIDE DEF r
<1>5. RunningIsArmed' BY <1>1, <1>2, <1>3, <1>4, FreshArmed
<1>6. MoalTypeOK' BY <1>1, <1>2, <1>4, DrvTypes, TypesStay
<1> QED BY <1>3, <1>5, <1>6 DEF MInv

LEMMA StartStep ==
  ASSUME MInv, NEW u \in Users, NEW d \in Delays, moal_start_timer(u, d)
  PROVE  MInv'
<1> DEFINE t == drv[u].tl
           r == [drv[u] EXCEPT !.period = d, !.canceled = FALSE]
<1>1. IInv /\ MoalTypeOK /\ RunningIsArmed BY DEF MInv
<1>2. drv[u] \in Drv /\ drv \in [Users -> Drv] BY <1>1, DrvTypes
<1>3. /\ drv[u].live /\ mod_timer_at_once(t, d) /\ UNCHANGED <<pool, caller>>
      /\ drv' = [drv EXCEPT ![u] = r] /\ UNCHANGED <<arg, work, cur, fault>>
  BY <1>2 DEF moal_start_timer
<1>4. /\ r \in Drv /\ r.live /\ r.tl = t /\ ~r.canceled /\ r.period = d
      /\ t \in Pointers /\ d # 0
  <2>1. d # 0 BY Sizes
  <2>2. r \in Drv /\ r.live /\ r.tl = t BY <1>2, <1>3 DEF Drv
  <2>3. ~r.canceled /\ r.period = d /\ t \in Pointers BY <1>2 DEF Drv
  <2> QED BY <2>1, <2>2, <2>3
<1>5. IInv' /\ (\A x \in Timers \ {t} : tmr'[x].state = tmr[x].state)
      /\ (t # NULL => tmr'[t].state # "UNUSED")
  <2>1. CASE t = NULL
    <3>1. UNCHANGED vars BY <1>3, <2>1, NothingDone DEF mod_timer_at_once
    <3> QED BY <1>1, <2>1, <3>1, Still DEF vars, lists
  <2>2. CASE t # NULL
    <3>1. t \in Timers /\ InUse(t)
      BY <1>1, <1>3, <1>4, <2>2 DEF Pointers, RunningIsArmed
    <3> QED BY <1>1, <1>3, <3>1, AtOnceKeeps
  <2> QED BY <2>1, <2>2
<1> HIDE DEF t, r
<1>6. RunningIsArmed'
  BY <1>1, <1>3, <1>4, <1>5, ArmedStays DEF t
<1>7. MoalTypeOK' BY <1>1, <1>3, <1>4, DrvTypes, TypesStay
<1> QED BY <1>5, <1>6, <1>7 DEF MInv

LEMMA StopStep ==
  ASSUME MInv, NEW u \in Users, moal_stop_timer(u)
  PROVE  MInv'
<1> DEFINE t == drv[u].tl
           r == [drv[u] EXCEPT !.period = 0, !.canceled = TRUE]
<1>1. IInv /\ MoalTypeOK /\ RunningIsArmed BY DEF MInv
<1>2. drv[u] \in Drv /\ drv \in [Users -> Drv] BY <1>1, DrvTypes
<1>3. /\ drv[u].live /\ drv' = [drv EXCEPT ![u] = r] /\ UNCHANGED <<arg, work, cur, fault>>
      /\ \/ t # NULL /\ del_timer(t)
         \/ t = NULL /\ SchedUnlocked /\ UNCHANGED <<lists, pool, caller>>
  BY <1>2 DEF moal_stop_timer
<1>4. r \in Drv /\ r.live /\ r.tl = t /\ t \in Pointers BY <1>2, <1>3 DEF Drv
<1>5. /\ IInv' /\ \A x \in Timers \ {t} : tmr'[x].state = tmr[x].state
      /\ t # NULL => tmr'[t].state # "RUNNING" /\ tmr'[t].state # "UNUSED"
  <2>1. CASE t = NULL
    <3>1. UNCHANGED vars BY <1>3, <2>1, NothingDone
    <3> QED BY <1>1, <2>1, <3>1, Still DEF vars, lists
  <2>2. CASE t # NULL
    <3>1. t \in Timers /\ del_timer(t) BY <1>3, <1>4, <2>2 DEF Pointers
    <3>2. Changed(t) /\ tmr'[t].state # "RUNNING" /\ InUse(t)
      BY <1>1, <3>1, StopChanges DEF del_timer
    <3>3. \A x \in Timers \ {t} : tmr'[x].state = tmr[x].state
      BY <3>2 DEF Changed, Same
    <3>4. tmr'[t].state # "UNUSED" BY <3>2 DEF Changed, InUse
    <3>5. IInv' BY <1>1, <3>1, DelKeeps
    <3> QED BY <3>2, <3>3, <3>4, <3>5
  <2> QED BY <2>1, <2>2
<1> HIDE DEF t, r
<1>6. RunningIsArmed'
  <2>1. \A x \in Timers : x # NULL BY DEF Timers, NULL
  <2> QED BY <1>1, <1>3, <1>4, <1>5, <2>1, ArmedStays DEF t
<1>7. MoalTypeOK' BY <1>1, <1>3, <1>4, DrvTypes, TypesStay
<1> QED BY <1>5, <1>6, <1>7 DEF MInv

(* timer_free touches the state of one timer.                              *)
LEMMA FreeStates ==
  ASSUME IInv, NEW t \in Timers, timer_free(t)
  PROVE  /\ tmr'[t].state = "UNUSED"
         /\ \A x \in Timers \ {t} : tmr'[x].state = tmr[x].state
<1> DEFINE w == IF tmr[t].state = "RUNNING" THEN OSTmr_Unlink(Lists, t) ELSE Lists
           T == w.tmr
<1>1. tmr' = [T EXCEPT ![t] = [@ EXCEPT !.state = "UNUSED", !.opt = "NONE", !.match = 0,
                                        !.next = OSTmrFreeList, !.prev = NULL]]
  BY DEF timer_free, OSTmrDel, Become, OSTmr_Unlink, Lists
<1>2. T \in [Timers -> Tmr] /\ \A x \in Timers \ {t} : Same(T, tmr, x)
  <2>0. WellLinked(tmr, first, entries, spokes) BY DEF IInv, Linked
  <2>1. CASE tmr[t].state = "RUNNING"
    <3> DEFINE F == w.first
               N == w.entries
               P == w.spokes
    <3>1. UnlinkedFrom(tmr, first, entries, spokes, t, T, F, N, P)
      BY <2>1, UnlinkIs DEF Lists
    <3> HIDE DEF w, T, F, N, P
    <3>2. NowStopped(tmr, t, T, F, N, P) BY <2>0, <2>1, <3>1, UnlinkKeeps
    <3> QED BY <3>2 DEF NowStopped, WellLinked
  <2>2. CASE tmr[t].state # "RUNNING" BY <2>0, <2>2 DEF Lists, Same, WellLinked
  <2> QED BY <2>1, <2>2
<1> HIDE DEF w, T
<1>3. tmr'[t].state = "UNUSED" BY <1>1, <1>2 DEF Tmr
<1> QED BY <1>1, <1>2, <1>3 DEF Same

LEMMA FreeStep ==
  ASSUME MInv, NEW u \in Users, moal_free_timer(u)
  PROVE  MInv'
<1> DEFINE t == drv[u].tl
<1>1. IInv /\ MoalTypeOK /\ RunningIsArmed BY DEF MInv
<1>2. drv[u] \in Drv /\ drv \in [Users -> Drv] /\ NoTimer \in Drv BY <1>1, DrvTypes
<1>3. /\ drv[u].live /\ drv' = [drv EXCEPT ![u] = NoTimer]
      /\ UNCHANGED <<arg, work, cur, fault>>
      /\ FreesTimer(u) => t # NULL
      /\ IF FreesTimer(u) THEN timer_free(t)
                          ELSE SchedUnlocked /\ UNCHANGED <<lists, pool, caller>>
  BY DEF moal_free_timer
<1>4. ~NoTimer.live /\ t \in Pointers BY <1>2 DEF Drv, NoTimer
<1>5. /\ IInv' /\ \A x \in Timers \ {t} : tmr'[x].state = tmr[x].state
      /\ t \in Timers => tmr'[t].state # "RUNNING"
  <2>1. CASE FreesTimer(u)
    <3>1. t \in Timers /\ timer_free(t) BY <1>3, <1>4, <2>1 DEF Pointers
    <3>2. IInv' BY <1>1, <3>1, FreedKeeps
    <3> QED BY <1>1, <3>1, <3>2, FreeStates
  <2>2. CASE ~FreesTimer(u)
    <3>1. UNCHANGED vars BY <1>3, <2>2, NothingDone
    <3>2. IInv' /\ tmr' = tmr BY <1>1, <3>1, Still DEF vars, lists
    <3>3. t \in Timers => tmr[t].state # "RUNNING"
      <4>1. ASSUME t \in Timers, tmr[t].state = "RUNNING" PROVE FALSE
        <5>1. arg[t] = u
          <6>1. t # NULL BY <4>1 DEF Timers, NULL
          <6> QED BY <1>1, <1>3, <6>1 DEF RunningIsArmed
        <5>2. ~drv[u].canceled /\ drv[u].period # 0
          BY <1>1, <4>1, <5>1 DEF RunningIsArmed
        <5> QED BY <2>2, <5>2 DEF FreesTimer
      <4> QED BY <4>1
    <3> QED BY <3>2, <3>3
  <2> QED BY <2>1, <2>2
<1> HIDE DEF t
<1>6. RunningIsArmed'
  BY <1>1, <1>2, <1>3, <1>4, <1>5, ArmedStays DEF t
<1>7. MoalTypeOK' BY <1>1, <1>2, <1>3, DrvTypes, TypesStay
<1> QED BY <1>5, <1>6, <1>7 DEF MInv

(* A step of the wheel that sets no timer going and frees none.            *)
LEMMA QuietArmed ==
  ASSUME RunningIsArmed, UNCHANGED <<drv, arg>>, MoalTypeOK,
         \A x \in Timers :
           /\ tmr'[x].state = "RUNNING" => tmr[x].state = "RUNNING"
           /\ tmr[x].state # "UNUSED" => tmr'[x].state # "UNUSED"
  PROVE  RunningIsArmed'
<1>1. \A v \in Users : drv[v].tl \in Pointers BY DrvTypes DEF Drv
<1>2. \A v \in Users : drv[v].tl # NULL => drv[v].tl \in Timers
  BY <1>1 DEF Pointers
<1> QED BY <1>2 DEF RunningIsArmed, InUse

LEMMA TurnStep ==
  ASSUME MInv, Turn
  PROVE  MInv'
<1>1. IInv /\ MoalTypeOK /\ RunningIsArmed BY DEF MInv
<1>2. UNCHANGED <<drv, arg, work, cur, fault>> BY DEF Turn, moalVars
<1>3. tmr' = tmr BY DEF Turn, OSTmrSignal, TaskTurn, TaskPass, TaskDone, lists
<1>4. IInv' BY <1>1, SignalKeeps, TurnKeeps, PassKeeps, DoneKeeps DEF Turn
<1>5. RunningIsArmed' BY <1>1, <1>2, <1>3, QuietArmed
<1>6. MoalTypeOK' BY <1>1, <1>2 DEF MoalTypeOK
<1> QED BY <1>4, <1>5, <1>6 DEF MInv

LEMMA ExpireStep ==
  ASSUME MInv, Expire
  PROVE  MInv'
<1>1. IInv /\ MoalTypeOK /\ RunningIsArmed BY DEF MInv
<1>2. /\ TaskExpire /\ work' = Append(work, ptmr) /\ fault' \in BOOLEAN
      /\ UNCHANGED <<drv, arg, cur>>
  BY DEF Expire
<1>3. Expired(ptmr)
  <2>1. walking /\ ptmr # NULL BY <1>2 DEF TaskExpire
  <2>2. \E k \in 1..Len(Here) : ptmr = Here[k]
    BY <1>1, <2>1, WalkedSpoke DEF IInv, Walk, Here
  <2> QED BY <1>1, <1>2, <2>2, ExpireChanges
<1>4. ptmr \in Timers /\ arg[ptmr] # Nobody
  BY <1>1, <1>3, UsersAssumption DEF Expired, RunningIsArmed
<1>5. \A x \in Timers :
        /\ tmr'[x].state = "RUNNING" => tmr[x].state = "RUNNING"
        /\ tmr[x].state # "UNUSED" => tmr'[x].state # "UNUSED"
  BY <1>3 DEF Expired, Same
<1>6. RunningIsArmed' BY <1>1, <1>2, <1>5, QuietArmed
<1>7. MoalTypeOK'
  <2> DEFINE A == {t \in Timers : arg[t] # Nobody}
  <2>1. work \in Seq(A) /\ ptmr \in A BY <1>1, <1>4 DEF MoalTypeOK
  <2> HIDE DEF A
  <2>2. work' \in Seq(A) BY <1>2, <2>1
  <2>3. A = {t \in Timers : arg'[t] # Nobody} BY <1>2 DEF A
  <2> QED BY <1>1, <1>2, <2>2, <2>3 DEF MoalTypeOK
<1>8. IInv' BY <1>1, <1>2, ExpireKeeps
<1> QED BY <1>6, <1>7, <1>8 DEF MInv

(* The steps that leave the wheel and the driver's flags as they are.      *)
LEMMA AsideStep ==
  ASSUME MInv, UNCHANGED <<vars, drv, arg>>,
         work' \in Seq({t \in Timers : arg[t] # Nobody}),
         cur' \in Users \cup {Nobody}, fault' \in BOOLEAN
  PROVE  MInv'
<1>1. IInv /\ MoalTypeOK /\ RunningIsArmed BY DEF MInv
<1>2. tmr' = tmr /\ UNCHANGED vars BY DEF vars, lists
<1>3. RunningIsArmed' BY <1>1, <1>2, QuietArmed
<1>4. MoalTypeOK' BY <1>1 DEF MoalTypeOK
<1> QED BY <1>1, <1>2, <1>3, <1>4, Still DEF MInv

LEMMA TaskletStep ==
  ASSUME MInv, Tasklet
  PROVE  MInv'
<1> DEFINE A == {t \in Timers : arg[t] # Nobody}
<1>1. /\ work \in Seq(A) /\ cur \in Users \cup {Nobody} /\ fault \in BOOLEAN
      /\ \A t \in A : arg[t] \in Users \cup {Nobody}
  BY DEF MInv, MoalTypeOK
<1> HIDE DEF A
<1>2. CASE TakeWork
  <2>1. Head(work) \in A /\ Tail(work) \in Seq(A) BY <1>1, <1>2 DEF TakeWork
  <2>2. arg[Head(work)] \in Users \cup {Nobody} BY <1>1, <2>1
  <2> QED BY <1>1, <1>2, <2>1, <2>2, AsideStep DEF TakeWork, A
<1>3. CASE FunctionReturns BY <1>1, <1>3, AsideStep DEF FunctionReturns, A
<1> QED BY <1>2, <1>3 DEF Tasklet

LEMMA MoalInitHolds == MoalInit => MInv
<1> SUFFICES ASSUME MoalInit PROVE MInv OBVIOUS
<1>1. IInv BY InitHolds DEF MoalInit
<1>2. MoalTypeOK
  <2>1. NoTimer \in Drv BY DEF NoTimer, Drv, Pointers
  <2>2. drv \in [Users -> Drv] /\ arg \in [Timers -> Users \cup {Nobody}]
    BY <2>1 DEF MoalInit
  <2>3. work = <<>> /\ cur \in Users \cup {Nobody} /\ fault \in BOOLEAN
    BY DEF MoalInit
  <2>4. work \in Seq({t \in Timers : arg[t] # Nobody}) BY <2>3
  <2> QED BY <2>2, <2>3, <2>4 DEF MoalTypeOK, Drv
<1>3. RunningIsArmed
  <2>1. \A t \in Timers : tmr[t].state # "RUNNING" BY DEF MoalInit, Init
  <2>2. \A u \in Users : ~drv[u].live BY DEF MoalInit, NoTimer
  <2> QED BY <2>1, <2>2 DEF RunningIsArmed
<1> QED BY <1>1, <1>2, <1>3 DEF MInv

LEMMA MoalStepKeeps == MInv /\ [MoalNext]_allVars => MInv'
<1> SUFFICES ASSUME MInv, [MoalNext]_allVars PROVE MInv' OBVIOUS
<1>0. /\ work \in Seq({t \in Timers : arg[t] # Nobody})
      /\ cur \in Users \cup {Nobody} /\ fault \in BOOLEAN
  BY DEF MInv, MoalTypeOK
<1>1. CASE Turn BY <1>1, TurnStep
<1>2. CASE Expire BY <1>2, ExpireStep
<1>3. CASE Tasklet BY <1>3, TaskletStep
<1>4. ASSUME NEW u \in Users, moal_init_timer(u) PROVE MInv' BY <1>4, InitStep
<1>5. ASSUME NEW u \in Users, InitNoWorkMemory(u) PROVE MInv'
  BY <1>5, NoWorkMemoryStep
<1>6. ASSUME NEW u \in Users, InitFaults(u) \/ FreeFaults(u) PROVE MInv'
  BY <1>0, <1>6, AsideStep DEF InitFaults, FreeFaults
<1>7. ASSUME NEW u \in Users, moal_stop_timer(u) PROVE MInv' BY <1>7, StopStep
<1>8. ASSUME NEW u \in Users, moal_free_timer(u) PROVE MInv' BY <1>8, FreeStep
<1>9. ASSUME NEW u \in Users, NEW d \in Delays, moal_start_timer(u, d) PROVE MInv'
  BY <1>9, StartStep
<1>10. CASE UNCHANGED allVars
  BY <1>0, <1>10, AsideStep DEF allVars, moalVars
<1> QED
  BY <1>1, <1>2, <1>3, <1>4, <1>5, <1>6, <1>7, <1>8, <1>9, <1>10 DEF MoalNext

LEMMA MoalInvariant == MoalSpec => []MInv
<1>1. MInv /\ [MoalNext]_allVars => MInv' BY MoalStepKeeps
<1> QED BY <1>1, MoalInitHolds, PTL DEF MoalSpec

(* moal_main.h and moal_shim.c keep the moal_drv_timers in their types, *)
(* and only the works of started timers come into the tasklet's queue, for *)
(* any number of users and timers.                                         *)
THEOREM MoalTypesHold == MoalSpec => []MoalTypeOK
<1>1. MInv => MoalTypeOK BY DEF MInv
<1> QED BY <1>1, MoalInvariant, PTL

(* The test of moal_free_timer, timer_is_canceled and time_period, leaves  *)
(* no timer of a freed moal_drv_timer in the wheel, and no two users ever  *)
(* hold the same OS_TMR, whatever fails in between.                        *)
THEOREM ArmedHolds == MoalSpec => []RunningIsArmed
<1>1. MInv => RunningIsArmed BY DEF MInv
<1> QED BY <1>1, MoalInvariant, PTL

-----------------------------------------------------------------------------
(* The tasklet's queue.  Up to a fault its works are distinct, and only    *)
(* when a timer function blocks is the work of a timer the walk has still  *)
(* to meet among them.                                                     *)
QueuedOnce ==
  /\ ~fault => IsInjective(work)
  /\ cur = Nobody => \A t \in Timers : Due(t) => t \notin Range(work)

(* Outside the walk no timer is due.                                       *)
LEMMA OnceOutside ==
  ASSUME IInv', ~walking', ~fault' => IsInjective(work')
  PROVE  QueuedOnce'
<1>1. \A t \in Timers : ~Due(t)' BY DEF IInv, Walk
<1> QED BY <1>1 DEF QueuedOnce

LEMMA OnceExpire ==
  ASSUME MInv, QueuedOnce, ~fault, Expire
  PROVE  QueuedOnce' /\ (cur = Nobody => IsInjective(work'))
<1>1. IInv /\ work \in Seq(Timers) /\ IsInjective(work)
  BY DrvTypes DEF MInv, QueuedOnce
<1>2. PICK t \in Timers : t = ptmr /\ Expired(t)
  <2>1. walking /\ ptmr # NULL /\ TaskExpire BY DEF Expire, TaskExpire
  <2>2. \E k \in 1..Len(Here) : ptmr = Here[k]
    BY <1>1, <2>1, WalkedSpoke DEF IInv, Walk, Here
  <2>3. Expired(ptmr) BY <1>1, <2>1, <2>2, ExpireChanges
  <2> QED BY <2>3 DEF Expired
<1>3. /\ work' = Append(work, t) /\ fault' = (t \in Range(work))
      /\ cur' = cur /\ OSTmrTime' = OSTmrTime
  BY <1>2 DEF Expire, TaskExpire
<1>4. Due(t) BY <1>2 DEF Expired, Due
<1>5. ASSUME t \notin Range(work)
      PROVE  IsInjective(work') /\ Range(work') = Range(work) \cup {t}
  BY <1>1, <1>3, <1>5, AppendNew
<1>6. cur = Nobody => t \notin Range(work) BY <1>4 DEF QueuedOnce
<1>7. ASSUME cur = Nobody, NEW x \in Timers, Due(x)' PROVE x \notin Range(work')
  <2>1. x # t
    <3> SUFFICES ASSUME x = t PROVE FALSE OBVIOUS
    <3>1. tmr[t].dly \in Delays /\ OSTmrTime \in 0..(TIME_MOD - 1)
      BY <1>1, <1>4 DEF IInv, TypeOK, InUse, Due
    <3>2. tmr'[t].match = (tmr[t].dly + OSTmrTime) % TIME_MOD /\ tmr'[t].match = OSTmrTime
      BY <1>2, <1>3, <1>7 DEF Expired, Due
    <3> QED BY <3>1, <3>2, Fresh
  <2>2. Due(x) BY <1>2, <1>3, <1>7, <2>1 DEF Expired, Same, Due
  <2> QED BY <1>5, <1>6, <1>7, <2>1, <2>2 DEF QueuedOnce
<1> QED BY <1>3, <1>5, <1>6, <1>7 DEF QueuedOnce

LEMMA OnceStep ==
  MInv /\ QueuedOnce /\ [MoalNext]_allVars =>
    QueuedOnce' /\ (IsInjective(work) /\ ~IsInjective(work') => cur # Nobody)
<1> SUFFICES ASSUME MInv, QueuedOnce, [MoalNext]_allVars
             PROVE  /\ QueuedOnce'
                    /\ IsInjective(work) /\ ~IsInjective(work') => cur # Nobody
  OBVIOUS
<1>1. IInv' BY MoalStepKeeps DEF MInv
<1>2. work \in Seq(Timers) BY DrvTypes DEF MInv
<1>3. CASE Expire /\ ~fault BY <1>3, OnceExpire
<1>4. CASE Turn /\ ~fault
  <2>1. UNCHANGED <<work, cur, fault>> /\ IsInjective(work)
    BY <1>4 DEF Turn, moalVars, QueuedOnce
  <2>2. CASE TaskTurn /\ (work = <<>> \/ cur # Nobody)
    <3>1. work = <<>> => Range(work) = {} BY DEF Range
    <3> QED BY <2>1, <2>2, <3>1 DEF QueuedOnce
  <2>3. CASE OSTmrSignal \/ TaskPass \/ TaskDone
    <3>1. tmr' = tmr /\ OSTmrTime' = OSTmrTime
      BY <2>3 DEF OSTmrSignal, TaskPass, TaskDone, lists
    <3> QED BY <2>1, <3>1 DEF QueuedOnce, Due
  <2> QED BY <1>4, <2>2, <2>3 DEF Turn
<1>5. CASE Tasklet /\ ~fault
  <2>1. IsInjective(work')
    <3>1. IsInjective(work) BY <1>5 DEF QueuedOnce
    <3>2. work' = work \/ (work # <<>> /\ work' = Tail(work))
      BY <1>5 DEF Tasklet, TakeWork, FunctionReturns
    <3> QED BY <1>2, <3>1, <3>2, TakeHead
  <2>2. ~walking'
    BY <1>5 DEF Tasklet, TakeWork, FunctionReturns, vars, task
  <2> QED BY <1>1, <2>1, <2>2, OnceOutside
<1>6. CASE ~fault /\ \E u \in Users :
          \/ moal_init_timer(u) \/ InitNoWorkMemory(u) \/ InitFaults(u)
          \/ moal_stop_timer(u) \/ moal_free_timer(u) \/ FreeFaults(u)
          \/ \E d \in Delays : moal_start_timer(u, d)
  <2>1. work' = work /\ IsInjective(work)
    BY <1>6 DEF moal_init_timer, InitNoWorkMemory, InitFaults, moal_stop_timer,
                moal_free_timer, FreeFaults, moal_start_timer, QueuedOnce
  <2>2. ~walking /\ UNCHANGED walking
    BY <1>6 DEF moal_init_timer, InitNoWorkMemory, InitFaults, moal_stop_timer,
                moal_free_timer, FreeFaults, moal_start_timer, timer_setup, OSTmrCreate,
                del_timer, OSTmrStop, timer_free, OSTmrDel, mod_timer_at_once,
                SchedUnlocked, vars, task
  <2> QED BY <1>1, <2>1, <2>2, OnceOutside
<1>7. CASE UNCHANGED allVars
  BY <1>7 DEF allVars, moalVars, vars, lists, task, QueuedOnce, Due
<1> QED BY <1>3, <1>4, <1>5, <1>6, <1>7 DEF MoalNext

(* timer_tasklet_callback queues an expired timer's work while others may  *)
(* still be queued.  A work comes into the queue a second time, where it   *)
(* tangles the tasklet's linked list, in one case only: the tasklet is     *)
(* inside a timer function.  As long as no function blocks across a tick,  *)
(* the works in the queue are distinct, however often their users start    *)
(* and stop the timers.                                                    *)
THEOREM WorksQueuedOnce ==
  MoalSpec => [][IsInjective(work) /\ ~IsInjective(work') => cur # Nobody]_allVars
<1>1. MoalInit => QueuedOnce
  <2> SUFFICES ASSUME MoalInit PROVE QueuedOnce OBVIOUS
  <2>1. work = <<>> BY DEF MoalInit
  <2>2. IsInjective(work) /\ Range(work) = {} BY <2>1 DEF IsInjective, Range
  <2> QED BY <2>2 DEF QueuedOnce
<1>2. MInv /\ QueuedOnce /\ [MoalNext]_allVars =>
        /\ QueuedOnce'
        /\ [IsInjective(work) /\ ~IsInjective(work') => cur # Nobody]_allVars
  BY OnceStep
<1> QED BY <1>1, <1>2, MoalInvariant, PTL DEF MoalSpec

-----------------------------------------------------------------------------
(* The driver's timers keep the promise of TimerService.                   *)
LEMMA StartedServes ==
  ASSUME IInv, NEW t \in Timers, NEW d \in Delays, StartedFor(t, d)
  PROVE  Service!Arm(t, d)
<1>1. ~walking /\ OSTmrTime' = OSTmrTime /\ OSTmrTime \in 0..(TIME_MOD - 1)
  BY DEF StartedFor, IInv, TypeOK
<1>2. \A x \in Timers \ {t} : Left'[x] = Left[x]
  <2>1. \A x \in Timers \ {t} :
          tmr'[x].state = tmr[x].state /\ tmr'[x].match = tmr[x].match
    BY DEF StartedFor, Same
  <2> QED BY <1>1, <2>1, SameLeft
<1>3. Left'[t] = d
  <2>1. (((d + OSTmrTime) % TIME_MOD) - OSTmrTime) % TIME_MOD = d BY <1>1, Fresh
  <2> QED BY <1>1, <2>1, LeftIs DEF StartedFor, LeftOf
<1>4. Left' = [Left EXCEPT ![t] = d] BY <1>2, <1>3, LeftIs
<1> QED BY <1>1, <1>4, NoneDueOutside DEF Service!Arm

LEMMA InitServes ==
  ASSUME MInv, NEW u \in Users, moal_init_timer(u)
  PROVE  UNCHANGED Left
<1>1. timer_setup(OSTmrFreeList, SETUP_DLY, "ONE_SHOT") /\ OSTmrFreeList # NULL
  BY DEF moal_init_timer
<1>2. OSTmrFreeList \in Timers
  BY <1>1 DEF MInv, IInv, TypeOK, Pointers
<1>3. SETUP_DLY \in Delays /\ "ONE_SHOT" \in Opts BY UsersAssumption
<1> QED BY <1>1, <1>2, <1>3, SetupServes DEF MInv

LEMMA NoWorkMemoryServes ==
  ASSUME MInv, NEW u \in Users, InitNoWorkMemory(u)
  PROVE  UNCHANGED Left
<1>1. OSTmrTime' = OSTmrTime BY DEF InitNoWorkMemory, SchedUnlocked, task
<1>2. \A x \in Timers : tmr'[x].state = tmr[x].state /\ tmr'[x].match = tmr[x].match
  BY SpareKeeps DEF MInv
<1> QED BY <1>1, <1>2, Stutters

LEMMA StartServesDriver ==
  ASSUME MInv, NEW u \in Users, NEW d \in Delays, moal_start_timer(u, d)
  PROVE  Service!Next \/ UNCHANGED Left
<1>1. /\ IInv /\ RunningIsArmed /\ drv[u].live /\ UNCHANGED <<pool, caller>>
      /\ mod_timer_at_once(drv[u].tl, d) /\ drv[u].tl \in Pointers
  BY DrvTypes DEF MInv, moal_start_timer, Drv
<1>2. CASE drv[u].tl = NULL
  <2>1. tmr' = tmr /\ OSTmrTime' = OSTmrTime
    BY <1>1, <1>2 DEF mod_timer_at_once, SchedUnlocked, lists, task
  <2> QED BY <2>1, Stutters
<1>3. CASE drv[u].tl # NULL
  <2>1. PICK t \in Timers : t = drv[u].tl BY <1>1, <1>3 DEF Pointers
  <2>2. InUse(t) /\ mod_timer_at_once(t, d) BY <1>1, <1>3, <2>1 DEF RunningIsArmed
  <2>3. UNCHANGED vars \/ StartedFor(t, d) BY <1>1, <2>2, AtOnceKeeps
  <2>4. CASE UNCHANGED vars BY <2>4, Stutters DEF vars, lists, task
  <2>5. CASE StartedFor(t, d) BY <1>1, <2>5, StartedServes DEF Service!Next
  <2> QED BY <2>3, <2>4, <2>5
<1> QED BY <1>2, <1>3

LEMMA DriverServes == MInv /\ [MoalNext]_allVars => [Service!Next]_Left
<1> SUFFICES ASSUME MInv, [MoalNext]_allVars PROVE Service!Next \/ UNCHANGED Left
  OBVIOUS
<1>0. IInv BY DEF MInv
<1>1. CASE TakeWork \/ FunctionReturns \/ OSTmrSignal \/ TaskPass \/ TaskDone
      \/ UNCHANGED allVars \/ \E u \in Users : InitFaults(u) \/ FreeFaults(u)
  <2>1. tmr' = tmr /\ OSTmrTime' = OSTmrTime
    BY <1>1 DEF TakeWork, FunctionReturns, OSTmrSignal, TaskPass, TaskDone, allVars,
                InitFaults, FreeFaults, vars, lists, task
  <2> QED BY <2>1, Stutters
<1>2. CASE TaskTurn BY <1>0, <1>2, TurnServes DEF Service!Next
<1>3. CASE Expire BY <1>0, <1>3, ExpireServes DEF Expire, Service!Next
<1>4. ASSUME NEW u \in Users, moal_init_timer(u) PROVE UNCHANGED Left
  BY <1>4, InitServes
<1>5. ASSUME NEW u \in Users, InitNoWorkMemory(u) PROVE UNCHANGED Left
  BY <1>5, NoWorkMemoryServes
<1>6. ASSUME NEW u \in Users, NEW d \in Delays, moal_start_timer(u, d)
      PROVE  Service!Next \/ UNCHANGED Left
  BY <1>6, StartServesDriver
<1>7. ASSUME NEW u \in Users, moal_stop_timer(u) \/ moal_free_timer(u)
      PROVE  Service!Next \/ UNCHANGED Left
  <2>0. drv[u].tl \in Pointers BY DrvTypes DEF MInv, Drv
  <2>1. CASE SchedUnlocked /\ UNCHANGED <<lists, pool, caller>>
    <3>1. tmr' = tmr /\ OSTmrTime' = OSTmrTime BY <2>1 DEF SchedUnlocked, lists, task
    <3> QED BY <3>1, Stutters
  <2>2. CASE drv[u].tl # NULL /\ del_timer(drv[u].tl)
    <3>1. PICK t \in Timers : t = drv[u].tl BY <2>0, <2>2 DEF Pointers
    <3>2. del_timer(t) BY <2>2, <3>1
    <3>3. Changed(t) /\ tmr'[t].state # "RUNNING"
      BY <1>0, <3>2, StopChanges DEF del_timer
    <3> QED BY <1>0, <3>3, ChangedServes DEF Service!Next
  <2>3. CASE drv[u].tl # NULL /\ timer_free(drv[u].tl)
    <3>1. PICK t \in Timers : t = drv[u].tl BY <2>0, <2>3 DEF Pointers
    <3>2. timer_free(t) BY <2>3, <3>1
    <3> QED BY <1>0, <3>2, FreeServes DEF Service!Next
  <2> QED BY <1>7, <2>1, <2>2, <2>3 DEF moal_stop_timer, moal_free_timer
<1> QED
  BY <1>1, <1>2, <1>3, <1>4, <1>5, <1>6, <1>7 DEF MoalNext, Turn, Tasklet

(* The driver's use of the timers, with its own mod_timer and whatever     *)
(* fails when one is set up, keeps the promise the wheel makes: no timer   *)
(* goes off before the tick it was last started for, or after it was       *)
(* stopped or freed, and the walk passes none over.                        *)
THEOREM DriverTimersServe == MoalSpec => Service!Spec
<1>1. MInv /\ [MoalNext]_allVars => [Service!Next]_Left BY DriverServes
<1>2. MoalInit => Service!Init BY StartOfService DEF MoalInit
<1> QED BY <1>1, <1>2, MoalInvariant, PTL DEF MoalSpec, Service!Spec

-----------------------------------------------------------------------------
(* The OS_TMRs in use that no live moal_drv_timer holds.                   *)
Orphans == {t \in Timers : InUse(t) /\ ~\E u \in Users : drv[u].live /\ drv[u].tl = t}

(* A moal_drv_timer is freed that was never started, or was stopped.       *)
LosesTimer(u) ==
  /\ moal_free_timer(u) /\ ~FreesTimer(u) /\ drv[u].tl # NULL
  /\ Orphans' = Orphans \cup {drv[u].tl}

LEMMA SameOrphans ==
  ASSUME \A t \in Timers : InUse(t)' <=> InUse(t),
         \A u \in Users : drv'[u].live = drv[u].live /\ drv'[u].tl = drv[u].tl
  PROVE  Orphans' = Orphans
BY DEF Orphans

(* Only u, whose moal_drv_timer becomes r, may hold another timer.         *)
LEMMA OtherOrphans ==
  ASSUME MoalTypeOK, NEW u \in Users, NEW r \in Drv, drv' = [drv EXCEPT ![u] = r],
         NEW x \in Timers, InUse(x)' <=> InUse(x),
         ~(drv[u].live /\ drv[u].tl = x), ~(r.live /\ r.tl = x)
  PROVE  x \in Orphans' <=> x \in Orphans
<1>1. drv'[u] = r /\ \A v \in Users \ {u} : drv'[v] = drv[v] BY NextDrv
<1> QED BY <1>1 DEF Orphans

LEMMA InitOrphans ==
  ASSUME MInv, NEW u \in Users, moal_init_timer(u)
  PROVE  Orphans' = Orphans
<1> DEFINE t == OSTmrFreeList
           r == [NoTimer EXCEPT !.live = TRUE, !.tl = t]
           e == [tmr[t] EXCEPT !.state = "STOPPED", !.opt = "ONE_SHOT",
                               !.dly = SETUP_DLY, !.next = NULL, !.prev = NULL]
<1>1. /\ ~drv[u].live /\ t # NULL
      /\ drv' = [drv EXCEPT ![u] = r] /\ tmr' = [tmr EXCEPT ![t] = e]
  BY DEF moal_init_timer, timer_setup, OSTmrCreate
<1>2. IInv /\ MoalTypeOK BY DEF MInv
<1>3. t \in Timers /\ tmr \in [Timers -> Tmr] /\ FreeLinked
  BY <1>1, <1>2 DEF IInv, Linked, WellLinked, FreeLinked, Pointers
<1>4. r \in Drv /\ r.live /\ r.tl = t BY <1>3 DEF Drv, NoTimer, Pointers
<1>5. ~InUse(t)
  <2>1. unused # <<>> /\ t = unused[1] /\ unused \in Seq(Timers)
    BY <1>1, <1>3 DEF FreeLinked
  <2>2. 1 \in DOMAIN unused BY <2>1
  <2>3. t \in Range(unused) BY <2>1, <2>2 DEF Range
  <2> QED BY <1>3, <2>3 DEF FreeLinked, InUse
<1> HIDE DEF t, r, e
<1>6. \A x \in Timers \ {t} : tmr'[x] = tmr[x] BY <1>1, <1>3
<1>7. \A x \in Timers \ {t} : x \in Orphans' <=> x \in Orphans
  BY <1>1, <1>2, <1>4, <1>6, OtherOrphans DEF InUse
<1>8. t \notin Orphans BY <1>5 DEF Orphans
<1>9. t \notin Orphans'
  <2>1. drv'[u] = r BY <1>1, <1>2, <1>4, NextDrv
  <2> QED BY <1>4, <2>1 DEF Orphans
<1> QED BY <1>7, <1>8, <1>9 DEF Orphans

LEMMA NoWorkMemoryOrphans ==
  ASSUME MInv, NEW u \in Users, InitNoWorkMemory(u)
  PROVE  Orphans' = Orphans
<1> DEFINE r == [NoTimer EXCEPT !.live = TRUE]
<1>1. ~drv[u].live /\ drv' = [drv EXCEPT ![u] = r] BY DEF InitNoWorkMemory
<1>2. r \in Drv /\ r.tl = NULL BY DEF Drv, NoTimer, Pointers
<1> HIDE DEF r
<1>3. \A x \in Timers : tmr'[x].state = tmr[x].state /\ x # NULL
  BY SpareKeeps DEF MInv, Timers, NULL
<1>4. \A x \in Timers : x \in Orphans' <=> x \in Orphans
  BY <1>1, <1>2, <1>3, OtherOrphans DEF MInv, InUse
<1> QED BY <1>4 DEF Orphans

LEMMA StartOrphans ==
  ASSUME MInv, NEW u \in Users, NEW d \in Delays, moal_start_timer(u, d)
  PROVE  Orphans' = Orphans
<1>1. /\ IInv /\ RunningIsArmed /\ drv[u].live /\ UNCHANGED <<pool, caller>>
      /\ mod_timer_at_once(drv[u].tl, d) /\ drv[u].tl \in Pointers
      /\ drv \in [Users -> Drv]
  BY DrvTypes DEF MInv, moal_start_timer, Drv
<1>2. \A x \in Timers : InUse(x)' <=> InUse(x)
  <2>1. CASE drv[u].tl = NULL
    BY <1>1, <2>1 DEF mod_timer_at_once, lists, InUse
  <2>2. CASE drv[u].tl # NULL
    <3>1. PICK t \in Timers : t = drv[u].tl BY <1>1, <2>2 DEF Pointers
    <3>2. InUse(t) /\ mod_timer_at_once(t, d) BY <1>1, <2>2, <3>1 DEF RunningIsArmed
    <3> QED BY <1>1, <3>2, AtOnceKeeps DEF InUse
  <2> QED BY <2>1, <2>2
<1>3. drv' = [drv EXCEPT ![u] = [drv[u] EXCEPT !.period = d, !.canceled = FALSE]]
  BY <1>1 DEF moal_start_timer
<1>4. \A v \in Users : drv'[v].live = drv[v].live /\ drv'[v].tl = drv[v].tl
  BY <1>1, <1>3 DEF Drv
<1> QED BY <1>2, <1>4, SameOrphans

LEMMA StopOrphans ==
  ASSUME MInv, NEW u \in Users, moal_stop_timer(u)
  PROVE  Orphans' = Orphans
<1>1. IInv /\ drv \in [Users -> Drv] /\ drv[u].tl \in Pointers
  BY DrvTypes DEF MInv, Drv
<1>2. \A x \in Timers : InUse(x)' <=> InUse(x)
  <2>1. CASE drv[u].tl = NULL BY <2>1 DEF moal_stop_timer, lists, InUse
  <2>2. CASE drv[u].tl # NULL
    <3>1. PICK t \in Timers : t = drv[u].tl BY <1>1, <2>2 DEF Pointers
    <3>2. del_timer(t) BY <2>2, <3>1 DEF moal_stop_timer
    <3>3. Changed(t) BY <1>1, <3>2, StopChanges DEF del_timer
    <3> QED BY <3>3 DEF Changed, Same, InUse
  <2> QED BY <2>1, <2>2
<1>3. drv' = [drv EXCEPT ![u] = [drv[u] EXCEPT !.period = 0, !.canceled = TRUE]]
  BY <1>1 DEF moal_stop_timer
<1>4. \A v \in Users : drv'[v].live = drv[v].live /\ drv'[v].tl = drv[v].tl
  BY <1>1, <1>3 DEF Drv
<1> QED BY <1>2, <1>4, SameOrphans

LEMMA FreeOrphans ==
  ASSUME MInv, NEW u \in Users, moal_free_timer(u)
  PROVE  Orphans' = Orphans \/ LosesTimer(u)
<1> DEFINE t == drv[u].tl
<1>1. IInv /\ MoalTypeOK /\ RunningIsArmed BY DEF MInv
<1>2. /\ drv[u].live /\ drv' = [drv EXCEPT ![u] = NoTimer] /\ NoTimer \in Drv
      /\ ~NoTimer.live /\ t \in Pointers
  BY <1>1, DrvTypes DEF moal_free_timer, Drv, NoTimer
<1>3. drv'[u] = NoTimer /\ \A v \in Users \ {u} : drv'[v] = drv[v]
  BY <1>1, <1>2, NextDrv
<1>4. CASE FreesTimer(u)
  <2>1. PICK x \in Timers : x = t
    BY <1>2, <1>4 DEF moal_free_timer, FreesTimer, Pointers
  <2>2. timer_free(x) BY <1>4, <2>1 DEF moal_free_timer
  <2> HIDE DEF t
  <2>3. tmr'[x].state = "UNUSED" /\ \A y \in Timers \ {x} : tmr'[y].state = tmr[y].state
    BY <1>1, <2>2, FreeStates
  <2>4. ~InUse(x)' /\ \A y \in Timers \ {x} : InUse(y)' <=> InUse(y)
    BY <2>3 DEF InUse
  <2>5. \A y \in Timers \ {x} : y \in Orphans' <=> y \in Orphans
    BY <1>1, <1>2, <2>1, <2>4, OtherOrphans DEF t
  <2>6. x \notin Orphans BY <1>2, <2>1 DEF Orphans, t
  <2>7. x \notin Orphans' BY <2>4 DEF Orphans
  <2> QED BY <2>5, <2>6, <2>7 DEF Orphans
<1>5. CASE ~FreesTimer(u)
  <2>1. \A x \in Timers : InUse(x)' <=> InUse(x)
    BY <1>5 DEF moal_free_timer, lists, InUse
  <2>2. \A x \in Timers \ {t} : x \in Orphans' <=> x \in Orphans
    BY <1>1, <1>2, <2>1, OtherOrphans
  <2>3. CASE t = NULL
    <3>1. \A x \in Timers : x # NULL BY DEF Timers, NULL
    <3> QED BY <2>2, <2>3, <3>1 DEF Orphans
  <2>4. CASE t # NULL
    <3>1. t \in Timers /\ InUse(t) /\ arg[t] = u
      BY <1>1, <1>2, <2>4 DEF Pointers, RunningIsArmed
    <3>2. \A v \in Users \ {u} : ~(drv[v].live /\ drv[v].tl = t)
      BY <1>1, <2>4, <3>1 DEF RunningIsArmed
    <3>3. t \in Orphans' BY <1>2, <1>3, <2>1, <3>1, <3>2 DEF Orphans
    <3>4. Orphans' = Orphans \cup {t} BY <2>2, <3>1, <3>3 DEF Orphans
    <3> QED BY <1>5, <2>4, <3>4 DEF LosesTimer
  <2> QED BY <2>3, <2>4
<1> QED BY <1>4, <1>5

(* "Free the timer", says moal_free_timer.  An OS_TMR is lost to its users *)
(* in one way only: a timer that was set up and is not started, or not     *)
(* started again after a stop, is freed, and then it is that one timer and *)
(* for good.  Nothing else that is done to the timers, and no failure to   *)
(* set one up, loses one.                                                  *)
THEOREM LeaksOnlyStopped ==
  MoalSpec => [][Orphans' # Orphans => \E u \in Users : LosesTimer(u)]_allVars
<1>1. ASSUME MInv, [MoalNext]_allVars
      PROVE  Orphans' = Orphans \/ \E u \in Users : LosesTimer(u)
  <2>1. CASE Turn \/ Tasklet \/ UNCHANGED allVars
             \/ \E u \in Users : InitFaults(u) \/ FreeFaults(u)
    <3>1. tmr' = tmr /\ drv' = drv
      BY <2>1 DEF Turn, Tasklet, TakeWork, FunctionReturns, OSTmrSignal, TaskTurn,
                  TaskPass, TaskDone, allVars, moalVars, InitFaults, FreeFaults, vars,
                  lists
    <3> QED BY <3>1, SameOrphans DEF InUse
  <2>2. CASE Expire
    <3>1. IInv /\ TaskExpire /\ walking /\ ptmr # NULL /\ drv' = drv
      BY <1>1, <2>2 DEF MInv, Expire, TaskExpire
    <3>2. \E k \in 1..Len(Here) : ptmr = Here[k]
      BY <3>1, WalkedSpoke DEF IInv, Walk, Here
    <3>3. Expired(ptmr) BY <3>1, <3>2, ExpireChanges
    <3>4. \A x \in Timers : InUse(x)' <=> InUse(x)
      BY <3>3 DEF Expired, Same, InUse
    <3> QED BY <3>1, <3>4, SameOrphans
  <2>3. ASSUME NEW u \in Users, moal_init_timer(u) PROVE Orphans' = Orphans
    BY <1>1, <2>3, InitOrphans
  <2>4. ASSUME NEW u \in Users, InitNoWorkMemory(u) PROVE Orphans' = Orphans
    BY <1>1, <2>4, NoWorkMemoryOrphans
  <2>5. ASSUME NEW u \in Users, moal_stop_timer(u) PROVE Orphans' = Orphans
    BY <1>1, <2>5, StopOrphans
  <2>6. ASSUME NEW u \in Users, moal_free_timer(u)
        PROVE  Orphans' = Orphans \/ LosesTimer(u)
    BY <1>1, <2>6, FreeOrphans
  <2>7. ASSUME NEW u \in Users, NEW d \in Delays, moal_start_timer(u, d)
        PROVE  Orphans' = Orphans
    BY <1>1, <2>7, StartOrphans
  <2> QED BY <1>1, <2>1, <2>2, <2>3, <2>4, <2>5, <2>6, <2>7 DEF MoalNext
<1>2. MInv /\ [MoalNext]_allVars =>
        [Orphans' # Orphans => \E u \in Users : LosesTimer(u)]_allVars
  BY <1>1
<1> QED BY <1>2, MoalInvariant, PTL DEF MoalSpec
=============================================================================
