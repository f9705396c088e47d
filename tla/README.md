# TLA+ models of YJD

YJD is the firmware of a printer-port-to-WLAN adapter on an STM32F4: bytes
strobed in on a parallel printer port are collected in blocks and sent over TCP
to a server, through lwIP and Marvell's 8782 SDIO WLAN driver, on uC/OS-II. The
driver is the Linux driver, put on a small "kernel API" (`kernel/api`) that
gives it work queues, timers, a heap and events on top of uC/OS-II.

This directory holds TLA+ models of the parts whose correctness rests on
interleavings, on limits and on long sequences of calls, the TLC runs that check
them, and TLAPS proofs of what matters most.

## 1. Inventory

| Component | Source | State | Operations | Modelled in |
|---|---|---|---|---|
| Parallel capture | `drivers/.../exti.c`, `app/src/task_parallet.c` | `pblock`, the blocks' `len`, `fst`, `u8Buf` | `EXTI9_5_IRQHandler`, `task_parallet` | `ParallelCapture` |
| TCP client | `app/src/TCP_CLient.C` | the block held, `len`, `send_buffer`, `wifi_time` | `Task_TCP_Client`, `send_ex` | `ParallelCapture` |
| Start-up, watchdog | `app/src/main.c` | queue, partition, tasks, IWDG | `main_thread`, `task_led` | `ParallelCapture` (Init, Watchdog) |
| Work queues | `kernel/api/src/task.c`, `wait.c` | linked list, its size, semaphore | `schedule_work`, `os_workqueue_thread` | `WorkQueue` |
| Software timers | `kernel/api/src/timer.c`, uC/OS-II `os_tmr.c` | wheel, free list, `OSTmrTime` | `timer_setup`, `add_timer`, `mod_timer`, `del_timer`, `timer_free`, `OSTmr_Task` | `TimerWheel` |
| Driver timers | `moal_main.h`, `moal_shim.c` | `moal_drv_timer` flags, the tasklet's queue | `moal_init_timer`, `_start_`, `_stop_`, `_free_timer` | `MoalTimers` |
| Heap | `kernel/api/src/memory.c`, `app/src/sys_misc.c` | linked blocks, `lfree`, guard words | `mem_malloc`, `mem_slide_check`, `mem_free`, `mem_trim`, the statistics task's `App_TaskStatHook` | `Heap` |
| Firmware commands | `mlan_cmdevt.c`, `moal_ioctl.c` | free and pending queues, `curr_cmd`, command timer, waiting callers | `woal_request_ioctl`, prepare, send, response, cancel, timeout | `CommandQueue` |
| Driver main work | `moal_main.c`, `mlan_shim.c` | `main_work`, `sdio_int_pending` | `woal_main_work_queue`, `mlan_main_process` | `CommandQueue` (commands only) |
| RX reordering | `mlan_11n_rxreorder.c` | window, slots, timer | packet, BAR, firmware drops, ADDBA, DELBA, timeout | `RxReorder` |
| Semaphores, mutexes, mailboxes, queues | `kernel/api/src/{sem,mutex,mbox,msg_q}.c` | tables of handles | create, take, post | not modelled |
| SDIO ports | `mlan_sdio.c` | port bitmaps, current ports | interrupt, read, write | not modelled |
| DHCP | `net/udhcp-0.9.8` | lease table, client state | offer, request, release, expiry | not modelled |
| lwIP, uC/OS-II core, WPA, BSP, peripheral drivers, configuration interfaces | | | | not modelled, see 8 |

How they interact. The port's interrupt writes into `*pblock`; `task_parallet`
polls that block every 10 ticks, posts it to `hParalletMsgQueue` when the line
has been idle for 1000 ticks (a tick is 0.1 ms), and takes the next one from the
partition `g_hParalletRxMem`; `Task_TCP_Client` takes blocks off the queue, links
to the server for each, sends a header and the bytes, and puts the block back.
Nothing but task priority and the order of the statements keeps the three apart.
The driver is driven by works: the SDIO thread and the configuration calls
schedule `main_work`; expired timers schedule their own work on a second queue,
the timer tasklet, because uC/OS-II's timer task may not block. The timers' users
hold `moal_drv_timer`s with flags of their own.

A task that configures the driver builds a request, queues a command node for it,
schedules `main_work` and waits on a semaphore all callers share; the main work sends
one command at a time and completes the request with the response. Received packets
go from the main work through the reorder table to the stack, or from the tasklet
when the table's timer goes off. All of them take their buffers from one heap.

What is hard: the interrupt between any two statements; priority as the only
exclusion; 16-bit time; resets that restart everything except what the server has
seen; a list threaded through its entries by callers at any level; a wheel
walked while it is relinked; a timeout that is decided in one task and acted on in
another after its cause is gone; a wake-up that reaches somebody else; a window moved
by two tasks; a heap list that a long sequence of calls must leave in order. What makes each component correct is stated as
the properties in section 3; the list of hazards, each at its line, is in
`PROJECT.json`.

## 2. Modules

| Module | What it is |
|---|---|
| `ParallelCapture` | interrupt, `task_parallet`, `Task_TCP_Client`, watchdog and their shared blocks |
| `DistinctSeqs` | lemmas on sequences without repetition, with the pigeonhole argument |
| `ParallelCaptureProofs` | the inductive invariant of the pipeline, the order of the blocks and of the bytes in them, and ten theorems |
| `FifoWork` | what a work queue promises |
| `WorkQueue` | the linked list, the semaphore and the thread of `task.c` |
| `WorkQueueProofs` | types, no lost wake-up, the list is a FIFO, refinement of `FifoWork` |
| `TimerService` | what timers promise: going off on the tick, none early, none late |
| `TimerWheel` | `os_tmr.c` and `timer.c` |
| `TimerWheelProofs` | the lists of the wheel and refinement of `TimerService`, three theorems |
| `MoalTimers` | EXTENDS `TimerWheel` with the driver's timers and the tasklet |
| `MoalTimersProofs` | the driver's timers on the wheel's invariant and five theorems, among them refinement of `TimerService` |
| `Allocator` | what a heap promises: nobody else has the words handed out |
| `Heap` | `memory.c`: first fit, splitting, joining, trimming and the check, after a failure and by the statistics task |
| `HeapProofs` | the inductive invariant of the heap and ten theorems, among them refinement of `Allocator` |
| `CommandQueue` | callers, command nodes, main work, command timer and card |
| `CommandQueueProofs` | its inductive invariant and eleven theorems |
| `RxReorder` | the reorder table between the main work and the flush |
| `RxReorderProofs` | its inductive invariant and nine theorems: every invariant of the run, what the wrapped comparisons mean, and the order in which packets are taken from their slots |
| `MC*` | instances for TLC, with one `.cfg` per question |

`WorkQueue` implements `FifoWork` (`Abstract`), `TimerWheel` implements
`TimerService` (`Service`), and `MoalTimers` through it; `Heap` implements `Allocator` (`Promise`). `MoalTimers` composes the timers with the queue of the
tasklet, which it takes as the FIFO that `WorkQueue` shows it to be for works that
are not queued twice; where one is, it ends with `fault`.

Definitions that begin with "Mutant:" in their comment are deliberate errors, one
for each property, that the property must detect; no specification uses them.

### ParallelCapture and the code

A step is what runs without the interrupt being able to change what it reads:
`ParGet` is `OSMemGet`, then `ParMemset`, `ParSetLen` and `ParSetFst` are the three
statements after it, one step each, because the interrupt uses `pblock` from the
moment it is assigned. `ParPoll` reads `fst` and writes `end`, `ParCompare` reads
`fst` again. `ParPost` and the next `ParGet` are two steps, the window in which a
queued block is still filled. The client's steps end at every kernel or network
call. `ParSleeps` is the priority rule: `Task_TCP_Client` takes steps only while
`task_parallet` is in `OSTimeDly`. A free block's first four bytes hold the
partition's link, and they are also `len` and `fst`: `Linked`, `LinkLo`, `LinkHi`
model what the interrupt finds there after `OSMemGet`. The real link is an address
in SRAM, so its low half may look like any length, and its high half (0x2000 or
0x2001) is not 0.

The model gives the partition memory of its own. In the code it is too small: `MemPart`
is 12 times 2048 bytes (`main.c:14`), and `OSMemCreate` is told to lay out blocks of
`BUF_SIZE + 6`, which are 2054 (`main.c:186`), so that the last 72 bytes of the last block
lie behind the array, over whatever the linker has put there. They are the end of that
block's data; its link, `len`, `fst` and `end` come first and are inside. What the
block's last bytes and that neighbour do to each other is not modelled.

`SystemReset` starts all of RAM over; `nbytes` (what the printer sent) and `wire`
(what the server got) survive it. A link or send that fails, an access point that
is not found, a partition that is empty and the watchdog lead there.

### WorkQueue and the code

`insertTailList` and `removeHeadList` run with interrupts off: one step each.
`schedule_work` is two steps, the insertion and `wake_up`, and any thread may come
in between. `Pend`/`Timeout`/`Drained`/`Take`/`NoEntry`/`Run` are the paths of
`os_workqueue_thread`. `Requeue` says whether callers may schedule a work that is
queued. `fifo` and `due` are histories: what the list should contain, and what is
owed.

### TimerWheel, MoalTimers and the code

Every `OSTmr*` function is one step, as it runs with the scheduler locked;
`OSTmr_Task` is one step per timer it looks at, with the scheduler locked over the
whole walk (`walking`), so that only the tick interrupt comes in between.
`mod_timer` takes no lock and is three steps (`ModPending`, `ModSet`, `ModStart`)
for the threads in `Callers`. `timer_setup`'s milliseconds are taken in wheel ticks;
the code's minimum is one (100 ms). `spokes` and `unused` are histories: the lists
as sequences.

In `MoalTimers` each timer has one user, whose calls are one step each. `arg` is
the function and context in the timer's work; `work` is the tasklet's queue, of the
timers whose works it holds. `fault` marks the places where the code has used a null
timer, freed a work that is queued, or queued one a second time: what happens then
depends on memory contents or on a tangled list, and the model stops.
`FunctionReturns` ends a timer function; a function that blocks is one that has not
returned while other steps go on. The tasklet's task has a higher priority than the
timer task, and once the walk unlocks the scheduler it empties its queue before the
next tick is taken, unless it is inside a function that blocks (on a mutex, the heap's
for example, that a task of lower priority holds: the statistics task checks the heap
with it). Then `Turn` takes ticks, timers are started again by
other tasks and expire while their works still wait, and a work may be queued twice. `woal_timer_handler` is not used by the code
(`woal_initialize_timer` passes the user's function straight to `timer_setup`), so
an expiry changes no flag of the `moal_drv_timer`.

### Heap and the code

A block is the offset of its `struct mem`; sizes are in words. `mem_malloc_ex`,
`mem_free` and `mem_trim` hold the heap's mutex from beginning to end and are one
step each; `mem_malloc`, which lets go of it between a failed try, the check of the
list and the second try, is three (`MallocFails`, `mem_slide_check`, `mem_malloc`
again), with everybody else in between. The same check is made by the statistics task
(`App_TaskStatHook`): `OSStatInit` (`main.c:144`) lets `OS_TaskStat` go on, which calls
its hook every tenth of a second (`os_core.c:1829-1841`, `os_cpu_c.c:212`,
`sys_misc.c:74-78`), at any point between the calls of the others. `Allocate` splits (`Split`) or takes the
block whole. `plug_holes` joins forward and backward. `mem_trim` has the three cases
of the code: the next block is free and slides down (`TrimSlides`), a new free block
is made (`TrimSplits`), or nothing changes (`TrimKeeps`). `flags` is the set of words
that read as the guard; headers and callers overwrite it where they write. `asked` and
`trimmed` are histories: what a caller may use, and whose end a trim has moved.
`Spinning` is the endless loop of `mem_slide_check`, in which the mutex is held, of a
thread or of the statistics task (`stat_spins`).

### CommandQueue and the code

The task of the main work has the highest priority of those that use the driver. It
gives the processor up only where it blocks: while the SDIO bus transfers a command
(`send`), and on the heap's mutex where it frees a buffer (`clean`, `release`,
`giveup`) or where the handler of a response allocates or frees one (`handle`). What it does between two such places is one step. The callers follow their
priorities (`Runs`). `Ask` and `QueueWork` are the two halves of
`woal_request_ioctl`, `Pend` and `Woken` the wait: `wait_event_interruptible` is a
`OSSemPend` on one semaphore whatever its condition, so that a completion wakes the
waiting task of the highest priority (`wake_up`), and the one woken finds its own
condition false and cancels (`CancelCurrent`, `CancelPending`, `CancelNothing`, then
`CancelCompletes`, as `wlan_cancel_pending_ioctl` completes the request outside the
lock). A request that is completed after its caller has looked at the condition
and before the cancel is completed twice; the second post stays in the semaphore and
ends the next wait at once, which cancels in its turn. `CancelPending` and
`CancelInserts` are two steps, as the lock is released before the node, which is then in
nobody's queue (`hand`), goes back and its buffer is freed.

`pioctl_buf` is the local in which `wlan_dnld_cmd_to_fw` (:376) keeps the request over the
transfer, and `wlan_process_cmdresp` (:1170) over the handler (`Respond`, `Handled`). A
call that is canceled in between returns and its request is freed (`FreeRequest`), and
the local becomes `Freed`. `WriteRequest` is the write through it after a failed transfer
(:435) and in the handler, of which the model takes that it may write: whether it spoils
another's memory depends on what the heap has put there, and if it does the model stops
(`fault`). `moal_ioctl_complete` wakes nobody for a failed request whose code is
`MLAN_ERROR_CMD_TIMEOUT` (`moal_shim.c:545-550`); the timer function sets that code, and
everything here that completes the request sets another one first, so that the case
does not come about.

`due` is the command timer's work in the tasklet's queue; `StopTimer` does not take it
back, so that the late function clears the flag of the next command's timer. `card` is
the command the firmware has to answer. A timed-out command stays `curr_cmd`. The
model assumes that a send reported as failed was not taken by the card, that each
scheduling of the work gives one run, and one node per request; scans, power save,
soft reset, events and data are left out.

### RxReorder and the code

One table, of one sender and one traffic class. `mlan_11n_rxreorder_pkt` is
`Arrives`, the shift of the window if the number is beyond it (`ShiftTakes`,
`ShiftRotates`), `Stores` and the scan (`ScanTakes`, `ScanRotates`); an ADDBA for an
existing table and a DELBA use the shift alone. The main work leaves the processor to
the tasklet only where a packet is handed to the stack, which allocates (`shiftGives`,
`scanGives`). The flush (`wlan_flush_data`) is interrupted between any two accesses
outside `rx_pkt_lock`: it finds the last slot (`FlushFinds`), computes the new start
(`FlushAims`) and the number of slots to move, for which it reads `start_win` three
times in the project's build without optimisation (`FlushCompares`, `FlushBounds`,
`FlushCounts`), takes and hands up each packet and rotates. `owned` and `seq` follow the
payloads. The histories: `ahead` (numbers taken to be handed up that the window has not passed),
`jumped` (a move that gives the order up by design or over the wrap), `skewed` (the
window was moved between the flush's computation and its rotation, or the other way
round). After a skew the slots no longer tell the numbers; what the model then still
demands is that no payload is in two places and that a timer watches. `fault` is where
the flush uses a freed table, or a number of slots outside the table: the model stops.

## 3. What is checked

Safety and liveness of the pipeline (`MCParallelCapture*.cfg`)

- `BlockOwnership`, `NoFillWhileSending`: a block is in one place at a time; the
  one overlap, after `OSQPost`, is closed before the client can get at it.
- `SendInBounds`: the length read before a link that may take minutes is still the
  block's; the sender never leaves the bytes stored.
- `PostNeverFails`: the ignored result of `OSQPost` is always success.
- `WireInOrder`: over any number of blocks, partial sends and resets the server
  gets bytes in strobe order, none twice and none that was not strobed in.
- `NoSilentLoss`: a stored byte is sent or still in a block that is in use. What
  the code does lose is left out of `kept` by name: bytes in RAM at a reset, a
  block whose connection was found closed, and bytes that come between `OSMemGet`
  and `len = 0`.
- `IdleBlockClosed`, `QueueServed`: an idle block is posted within a turn of the
  16-bit clock; a queued block is taken or the board reset. `IdleBlockClosed` has
  the exceptions the code has: a last byte at tick 0, or in the last 1000 ticks
  before the wrap.
- `NoSendAfterFailure` is violated: see findings.

Work queues (`MCWorkQueue*.cfg`): `ListIsFifo`, `NoLostWakeup`, `FifoSpec`.
`MCWorkQueueTangled` keeps `NoLostWakeup` with two works scheduled while queued. Nothing
more holds of it: `insertTailList` sets the queued entry's `pNext` to null, which cuts
off the works behind it, and they may never run. Linux's work queues, which the
comment at `task.c:187` refers to, leave a queued work where it is. In this firmware it takes
a function that blocks in the tasklet while another timer expires, is started again and
expires once more, its work still in the queue. `MoalTimers` reaches that and ends
there (`fault`).

Timers (`MCTimerWheel.cfg`, `MCMoalTimers*.cfg`): `WheelConsistent` (every spoke and
the free list well formed at every step of the walk), `ServiceSpec` (going off on the
tick, with wrap, restarts and a thread inside `mod_timer`), `RunningIsArmed` (the
flags `moal_free_timer` decides by agree with the wheel), `StartedGoesOff` (a started
timer's function is called unless it is stopped or freed first, also while functions of
others block; not claimed after a `fault`, such as a work queued twice, which may keep any
work from its thread); `NoTimerLeaked` is violated.

Heap (`MCHeap*.cfg`): `Chained` and `HolesPlugged` (the list covers the pool without
gap, overlap or neighbouring holes), `LowestFree`, `RequestsFit` (what was asked for
fits, with the guard behind it), `UntrimmedGuarded`, `FailsOnlyFull` (the search's
bound and its start never hide a block with room), `PromiseSpec` (nothing is handed out
twice); `NeverSpins` is violated.

Commands (`MCCommandQueue.cfg`): `NodesConserved` (no command node is lost or in two
places, except where the code puts `curr_cmd` back before it clears it),
`RequestLive` (no node refers to a request that was freed; the main work's local does
only if the command was canceled in the transfer or in the handler), `AnswersMatch` (a response
meets the command it answers, although nothing compares them), `CurrentIsWatched`,
`WakeupsOwed` (for each completed caller that still waits somebody is about to post),
`CallEnds` (a call returns if the firmware answers, unless a send has failed: then the
main loop ends with commands pending and nothing schedules it; or unless a freed request
was written and the memory was another's by then).

RX reordering (`MCRxReorder.cfg`): `StoresInWindow` (the unchecked slot index),
`SlotsExact` (a slot tells the number of its packet, over the wrap, for every kind of
move), `DeliveredIsPast` (the window has passed what was taken for the stack, so that
nothing older is taken after it), `PayloadsConserved`, `BufferedIsWatched` (what waits in a slot has a
timer running or a flush queued; the exception is an ADDBA that moves the window in
the middle of a flush, which starts no timer).

### Findings

1. `TCP_CLient.C:182`: a failed header is not noticed and the block is sent behind it.
2. `moal_shim.c:284`: `moal_free_timer` after `moal_stop_timer` leaks an `OS_TMR`.
   Deleting a reorder table does just that; there are 20.
3. `memory.c:474`: `mem_trim` moves the end of a used block and writes no guard there;
   the next check takes it for an overflow and spins with the heap held. No request need
   fail for it: the statistics task checks the heap every tenth of a second.

What the models reach, and no comment, document or test speaks of: a stopped timer
whose expiry is queued still calls its function (`timer.c:133`); modifying a pending
timer has no effect on when it goes off (`timer.c:83`); a completion wakes another
caller, whose call then fails as canceled (`moal_ioctl.c:231`); a call that is canceled
while its command is transferred or its response handled has its request freed, and the
main work then writes to it through its local (`mlan_cmdevt.c:435`, and the handlers
called at `:1262`); a work queued a second time in the tasklet while a timer function
blocks across ticks (`os_tmr.c:1053`, `task.c:64`); a flush that is
overtaken rotates the window twice, so that packets are dropped as old or duplicate,
and may compute a number of slots below zero (`mlan_11n_rxreorder.c:178`); a window
that moves over number 4095 empties the slots it does not pass (`:177`).

## 4. Bounds

| Run | Bounds | Why they are enough |
|---|---|---|
| capture_safety | 2 blocks of 2 usable bytes, 4 bytes strobed in, clock of 6 ticks, idle 1, poll 1, late 1, 1 byte a send, 2 link tries | one block is filled while the other is queued or sent; a block gets full; both are exhausted; the clock wraps several times; the client is preempted everywhere |
| capture_live | 3 blocks of 1 byte, 2 bytes, clock of 8 | one block sent, one queued behind it and one to fill, so that the partition does not run empty (which resets the board); the clock wraps inside the wait |
| work_* | 1 to 3 works, 2 or 3 callers, up to 6 schedules outstanding | list of 0, 1, 2 and more entries; every caller between insertion and wake-up at once |
| wheel | 3 timers, one caller, 2 spokes, clock of 4, delay 3 | two timers on one spoke, of which one is not due; the wrap; head, middle and tail removed |
| moal, moal_leak | 2 users, 2 timers | one timer leaked or expired while the other is in use; the pool empty |
| heap, heap_spin | 12 words, header 1, least block 2, requests of 1, 3 and 5; 2 threads (1 for heap_spin) | up to four blocks: holes before, behind and on both sides; both sides of the split's and the bound's decisions; a full heap with another thread between the tries |
| commands | 2 callers, 2 nodes, semaphore up to 2, 1 scheduled work at a start, 1 lost node | one command sent while one is pending; wake-ups by the other's completion; nodes used up |
| reorder | window of 3 in 6 numbers, 2 payloads, 1 arrival after a skew | every position relative to window and wrap, shifts by one, two and the whole window, a packet between every two steps of the flush |

`MAX_BYTES`, `MAX_LATE`, `MAX_PENDING`, `MAX_SIGNAL`, `MAX_WORKS` and `MAX_LOST` bound counters
only for TLC; `MAX_LATE` of `RxReorder` bounds what comes after a flush was overtaken,
where most states are and few properties remain. `MCRxReorder` uses the symmetry of the
payloads, which is sound as all its properties are invariants.
The small numbers stand for 12 blocks of 2047 bytes, a clock of 65536 ticks,
1000 idle ticks, polls every 10, chunks of 600 bytes, 300 tries, 20 timers, 8
spokes, 4096 sequence numbers, windows of 16 or 32, 20 command nodes. The proofs in
section 6 have no such bounds.

`CHECK_DEADLOCK FALSE` in the `MCMoalTimers` and `MCRxReorder` configurations is for
`fault`, where the model stops on purpose, and in `MCHeap` for the spinning check, which
holds the mutex for good; all others check deadlock. `CommandQueue` stutters after its
`fault`, so that its run can check for deadlock everywhere else.

## 5. Fairness

- `ParallelCapture`: weak fairness of the tick, of `task_parallet` (the highest
  application task that is ready) and of the watchdog; strong fairness of the
  client, which every poll preempts for a few instructions. No fairness of the
  interrupt, nor of the network succeeding. Each client step may fail or be
  delayed, but a network call returns.
- `WorkQueue`: weak fairness of the thread and of a caller between insertion and
  wake-up: uC/OS-II runs every ready task in the end, as the tasks above it block.
  A work's function returns. The five-second timeout is not relied on.
- `TimerWheel`: the tick interrupt and the timer task, weakly. `OSTmr_Task` has the
  lowest priority but for the statistics and idle tasks, and the tasks above it block.
- `MoalTimers`: the same, and strong fairness of the tasklet, whose thread has a
  higher priority than the timer task and is disabled only while the timer task has
  the scheduler locked. A timer function that blocks comes back: what it waits for is a
  mutex, which its holder gives back without waiting for timers.

- `CommandQueue`: weak fairness of the main work, whose task is the highest, of the
  card's command port and of the firmware's answers; strong fairness of each caller
  inside its call, as the tasks above it block again and again. None that a send
  succeeds, that a timer expires or that a caller asks.
- `Heap` and `RxReorder` state no liveness.

## 6. What is proved

With TLAPS, for all values of the constants that the named `ASSUME`s admit.

`ParallelCaptureProofs`: `TypeCorrect`, `OwnershipHolds`, `NoFillWhileSendingHolds`,
`SendInBoundsHolds`, `PostNeverFailsHolds`, `WireInOrderHolds`, `NoSilentLossHolds`,
`WholeBlocksSent`, `LostOnlySkipped`, `NoEmptyMessageSent`. The inductive invariant `IInv` is
`TypeOK /\ BlockOwnership /\ NoFillWhileSending /\ SendInBounds`: no part is
inductive alone. That the client's block is not filled needs the block it takes from
the queue not to be `pblock`, which is ownership outside the window, and the window
is shut while the client runs, which is the priority rule together with the types of
the program counters; that `len` stays the block's needs that nobody fills it.
`PostNeverFails` follows from it: a queue of distinct blocks that does not contain
`pblock` is shorter than the partition (`PigeonHole` in `DistinctSeqs`), and
`MEM_PART <= MAX_QUE` (they are equal in `main.h`).

`WireInOrder` and `NoSilentLoss` rest on a second invariant, `Order`, on top of `IInv`, by parts: `Caught` says that the bytes of a block are in the order
of their strobes, `Ahead` that those of the client's block come before those of each
queued block, these in queue order, and these before `pblock`'s, and `Sent` that what
the server has was strobed in before whatever is still to be sent. `Window` and
`Drained` are what these need about the moments in which a block changes place: after
`OSQPost` the posted block is the last of the queue, and a block that the client returns
has been sent to its `len`.

The other three say what the server reads and what the pool loses. `SentWhole`, on top
of `IInv`: since the last header the wire has got the first `off` bytes of the client's
block and nothing else, and all of it before `OSMemPut`. `OnlySkippedLost` is an action
property: the set of blocks that nobody has grows only where `Task_TCP_Client` finds its
connection not established and forgets the block, and shrinks only with a reset; the
case of `OSMemPut` is the pigeonhole argument again. `NonEmpty` follows a block from the
interrupt to the header: its `fst` is set, or the walk to `OSQPost` comes about, only
after a byte is stored, although the refill's three statements run between interrupts.

`WorkQueueProofs`: `NoLostWakeupHolds` without any assumption on the callers;
`ListIsFifoHolds`, `TypesHold` and `ImplementsFifo` (refinement of `FifoWork!Spec`)
under `~Requeue`: a work that is scheduled while it is queued tangles the list.

`TimerWheelProofs`: `TypesHold`, `WheelStaysConsistent`, `TimersServe` (the safety of
`TimerService`; that a due timer goes off stays with TLC). What `OSTmr_Link` and
`OSTmr_Unlink` do is first shown on any well linked tables (`LinkKeeps`, `UnlinkKeeps`),
so that a step that does both is two uses of them. `IInv` is
`TypeOK /\ Linked /\ CallersHold /\ Walk`: `CallersHold` keeps the timer of a thread
inside `mod_timer` from being freed, `Walk` says that outside the walk no timer is due
and that inside it none the task has passed is. It survives the expiry of a
periodic timer onto the spoke being walked, because the timer is linked in front of the
task and its new match is not the present tick (`Fresh`: delays are 1 to
`TIME_MOD - 1`).

`MoalTimersProofs`: `MoalTypesHold`, `ArmedHolds`, `WorksQueuedOnce`,
`DriverTimersServe`, `LeaksOnlyStopped`. The inductive invariant `MInv` is
`IInv /\ MoalTypeOK /\ RunningIsArmed`. Most of the driver's calls are calls of
`timer.c`, for which the wheel's lemmas stand; `moal_start_timer`, which sets the delay
and starts the timer in one step, and a `timer_setup` without memory are shown to keep
the wheel's invariant here (`AtOnceKeeps`, `SpareKeeps`). That stopping or freeing one
user's timer disarms no other's is the second half of `RunningIsArmed`: no two users
hold one timer. `WorksQueuedOnce` says when the tasklet's list can tangle: a work comes into the queue a
second time only while the tasklet is inside a timer function. It needs `QueuedOnce`: before
a fault the queue has no work twice, and with the tasklet outside a function a timer the
walk has still to meet has none queued, because the tick was taken on an empty queue and
each expiry queues another timer. Up to that case, which does come about when a function
blocks across ticks, the tasklet's queue is the FIFO of `WorkQueue`.
`LeaksOnlyStopped` locates finding 2: in every step that loses an `OS_TMR` to its users
`moal_free_timer` is called for a timer that is not started, that timer is the one lost,
and no step gets one back.

`HeapProofs`: `TypeCorrect`, `Partition`, `NoTwoHoles`, `SearchStart`, `Requests`,
`FailsOnlyWhenFull`, `Guards`, `AlarmAfterTrim`, `SpinNeedsTrim`, `HeapIsAllocator`. `Invariance` proves the first five
together: that a split or a join leaves the list a partition needs `Chained` and
`HolesPlugged` (a join meets at most one hole on each side), that `lfree` is found
again needs `LowestFree`, and that a new header does not fall into a caller's words needs
`RequestsFit`. `FailsOnlyWhenFull` follows from `LowestFree` and the arithmetic of the
bound; `Guards` is inductive on top of the invariant, as a guard can be overwritten
only by words of another block. From it come `AlarmAfterTrim`, that a failed request
or the statistics task spins only on a block that `mem_trim` has cut, and `SpinNeedsTrim`, that the heap without
`mem_trim` (`UntrimmedSpec`) never spins: the trim is the only cause of finding 3.
`HeapIsAllocator` maps each step to one of `Allocator`,
with disjointness from `Chained`.

`CommandQueueProofs`: `TypeCorrect`, `Conservation`, `LiveRequests`, `OnlyCanceledOverwritten`, `Matching`,
`Watching`, `WakeupsKept`, `NoCallDropped`, `SomeoneActs`, `CancelsSpent`,
`CommandsOneAtATime`. The inductive invariant `IInv` is `TypeOK /\ NodesConserved /\ Phases /\
Hands /\ Locals /\ OneAnswer /\ Requests`: `Phases` ties the main work's place to what `curr_cmd` and the
queues hold there, `OneAnswer` says that a command is with the card, answered or
neither, and that it is `curr_cmd` until then, `Requests` what each caller's place says
about the nodes that work for it, `Hands` that a canceling caller holds a node exactly
between unlinking it and putting it back, and `Locals` that the main work's local is
`curr_cmd`'s request or `curr_cmd` is canceled. From `Locals` come the second half of `LiveRequests` and
`OnlyCanceledOverwritten`: a freed request is written in no other case than a cancel during
the transfer or the handler. `CurrentIsWatched` is inductive on
top of `IInv`: a command at the card is `curr_cmd`, for which the timer was started. `WakeupsOwed` is not inductive by itself: `Debts`
says of all callers, also those not yet waiting, that no more are owed a wake-up than the
semaphore holds or tasks about to cancel will post.

`NoCallDropped` follows from `HaveNodes`: a call that is not answered has a node that
works for it. `SomeoneActs` is the safety part of `CallEnds` and, like it, leaves failed
sends out (`Reliable`): after one the main loop does end with commands pending.
`Driven` behind it counts the runs of `main_work` that are owed to the interrupt and to
the timer, and says where curr_cmd's command is when the loop is over; it alone uses
`ResponseAssumption`, that a response the card has sent is not `None`. `FlagsSpent` says
that `CMD_F_CANCELED` is only on nodes that work for nobody and are not about to be
freed, although a cancel can hit `curr_cmd` after its node went back to `cmd_free_q` and
another caller took it: that node is then marked while it is pending, but its request was
cleared with it. `OneAtATime` is an action property of `OneAnswer`.

`RxReorderProofs`: `TypeCorrect`, `InWindow`, `Conserved`, `Watched`, `Slotted`,
`InOrder`, `WindowTests`, `InOrderSteps`, `OnlyForward`, from `WindowAssumption` (`2 * WIN <= MOD`: there are 4096 numbers, `MAX_TID_VALUE`, and
windows of at most 0x3ff, `MLAN_AMPDU_MAX_RXWINSIZE`).
`Invariance` proves `Inv`: `Stages` says what the locals hold by where the two tasks are,
`Aimed` that a packet on its way to its slot has one, `Apart` that the slots and the
tasks' hands share no payload, and `Even` that, unless a flush was overtaken, whoever
will move the slots down has emptied those that are moved out, without which the
rotation would lose them. Three more invariants rest on it. `Watch`: a filled slot is
watched by the timer, by a packet that will start it when it ends, or by the flush that
will empty it. `Exact`: a move that leaves a slot filled moves the slots by as many as
the numbers. `Past`: a move is no further than half of the numbers and passes every slot
that is emptied for it, so that by the wrapped comparison what was handed up lies before
the window (`Passed`, `ShortMove`). With `Exact` and `Past` in hand two action properties
follow: a packet that is taken for the stack comes after all that were taken ahead of
the window (`InOrderSteps`), and nothing moves the window back (`OnlyForward`), both unless
the order was given up or a flush overtaken. `WindowTests` is about the comparisons
themselves: each is a distance on the circle of the numbers; at exactly half of the
numbers the two branches for an old packet disagree.

Every invariant of a passing run is proved. Only model-checked is what has liveness
(`IdleBlockClosed`, `QueueServed`, `FifoSpec`, `ServiceSpec`, `StartedGoesOff`,
`CallEnds`), which is out of the prover's reach.

## 7. Plan

1. Done: the pipeline, work queues, the timer wheel, the heap, the command queue,
   the reorder table and the driver's timers, with proofs.
   Beyond the properties of the runs, the theorems now cover what the server reads of
   each block, the calls' progress, the order in which packets are
   taken and the causes of findings 2 and 3.
2. Left: the scan queue and soft reset in `CommandQueue`; the order of the SDIO ports
   (`mlan_sdio.c`) and its wrap.

## 8. What is not modelled

lwIP, the uC/OS-II scheduler and the BSP are third-party code; the first appears as
nondeterministic outcomes of `Wifi_Connect`, `TCP_Link`, `get_socket`,
`TCP_Send_Data`, the second as priorities and fairness. The peripheral drivers
are register access. Of the SDIO ports (`mlan_sdio.c`) `CommandQueue` keeps only that a
command is sent, fails to be sent or is answered; `wifi.uvproj` defines none of the
aggregation options, so that what is left is the order in which the ports of the two
bitmaps are used. A write that failed (:1529) and a read without memory (:1390) have
moved `curr_wr_port` and `curr_rd_port` on all the same; what the card does then is not
in this repository. The WPA code is cryptographic computation. The configuration
interfaces (`moal_priv.c`, `moal_eth_ioctl.c`, `usr_cfg.c`) parse text. Application tasks
that `main_thread` does not start are left out. The start of the board is left out:
before `task_led` runs there is no watchdog, and a failed `SD_Init` or `Init_W8782`
hangs it. Errors of `OSSemPend` and `OSSemPost` other than the time-out and the full
count, and the printing in all components, are left out.
