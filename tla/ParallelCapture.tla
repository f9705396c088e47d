--------------------------- MODULE ParallelCapture ---------------------------
(***************************************************************************)
(* The capture pipeline of the application: bytes strobed in on the        *)
(* printer port by EXTI9_5_IRQHandler, collected in blocks of a uC/OS-II   *)
(* memory partition, closed by task_parallet when the line has been idle,  *)
(* queued, and sent to the server by Task_TCP_Client.                      *)
(*                                                                         *)
(* The interrupt may come between any two steps of either task.            *)
(* task_parallet has the higher priority: Task_TCP_Client takes a step     *)
(* only while task_parallet is in OSTimeDly.  Blocks are numbered in       *)
(* address order, 0 is NULL; captured bytes are numbered 1, 2, 3, ... in   *)
(* the order the interrupts come, so 0 is a byte memset has cleared.       *)
(***************************************************************************)
EXTENDS Integers, Sequences, Functions

CONSTANTS MEM_PART,     \* blocks in the partition
          MAX_QUE,      \* slots of the message queue
          BUF_SIZE,     \* bytes of u8Buf
          WRAP,         \* 2^16: fst and end are INT16U
          IDLE,         \* idle ticks that close a block
          POLL,         \* ticks task_parallet sleeps between two polls
          CHUNK,        \* bytes of the block passed to one send_ex
          LINK_TRIES,   \* failed TCP_Link calls before the reset
          LinkLo,       \* low half of a non-null free-list link: overlays len
          LinkHi,       \* high half of a non-null free-list link: overlays fst
          MAX_LATE,     \* bound: ticks task_parallet may run late
          MAX_BYTES     \* bound: bytes strobed in

ASSUME PoolAssumption ==
  /\ MEM_PART \in Nat \ {0}
  /\ MAX_QUE \in Nat /\ MEM_PART <= MAX_QUE
ASSUME BufferAssumption ==
  /\ BUF_SIZE \in Nat /\ BUF_SIZE >= 2
  /\ CHUNK \in Nat \ {0}
  /\ LINK_TRIES \in Nat \ {0}
ASSUME TimeAssumption ==
  /\ WRAP \in Nat \ {0}
  /\ IDLE \in Nat /\ POLL \in Nat \ {0}
  /\ MAX_LATE \in Nat /\ MAX_BYTES \in Nat
  /\ LinkLo \in Nat /\ LinkHi \in 1..(WRAP - 1)

VARIABLES
  now,       \* os_time_get() in an INT16U
  nbytes,    \* bytes strobed in so far
  pblock,    \* the block the interrupt fills
  blk,       \* the blocks' memory
  freeList,  \* the partition's free list, first block first
  queue,     \* hParalletMsgQueue
  parPc,     \* where task_parallet is
  first,     \* task_parallet is still before its loop
  dly,       \* ticks until task_parallet is due; negative when it runs late
  end,       \* pblock->end, which only the poll that writes it reads
  cliPc,     \* where Task_TCP_Client is
  cblk,      \* the block Task_TCP_Client holds
  len,       \* its local len: bytes still to send
  off,       \* send_buffer - pblock->u8Buf
  chunk,     \* bytes the running send_ex still has to send
  tries,     \* wifi_time
  sendErr,   \* history: a send_ex on this connection has failed
  wire,      \* history: the bytes the server has been sent
  kept       \* history: bytes stored, outside a refill, since the last reset,
             \*   less those of a block skipped by Task_TCP_Client

parVars == <<parPc, first, dly, end>>
cliVars == <<cliPc, cblk, len, off, chunk, tries, sendErr>>
vars == <<now, nbytes, pblock, blk, freeList, queue, parVars, cliVars,
          wire, kept>>

-----------------------------------------------------------------------------
Null == 0
Blocks == 1..MEM_PART
Times == 0..(WRAP - 1)
Msg == [len : Nat, fst : Times, buf : [0..(BUF_SIZE - 1) -> Nat]]

Lower(a, b) == IF a < b THEN a ELSE b

(* A free block holds the link to the next free block in its first four    *)
(* bytes, which are also the block's len and fst.                          *)
Linked(m, next) ==
  IF next = Null THEN [m EXCEPT !.len = 0, !.fst = 0]
                 ELSE [m EXCEPT !.len = LinkLo, !.fst = LinkHi]

First(list) == IF list = <<>> THEN Null ELSE Head(list)

(* The bytes a block holds, as Task_TCP_Client would send them.            *)
Content(b) == {blk[b].buf[i] : i \in 0..(blk[b].len - 1)}

-----------------------------------------------------------------------------
(* RAM after main_thread has created the queue, the partition and the      *)
(* tasks: every block is free, linked in address order.  MemPart has room  *)
(* for blocks of BUF_SIZE bytes, and OSMemCreate lays out blocks of        *)
(* BUF_SIZE + 6 on it: the end of the last one's u8Buf lies behind the     *)
(* array.  Here the partition's memory is its own.                         *)
BootMem ==
  [b \in Blocks |->
     Linked([len |-> 0, fst |-> 0, buf |-> [i \in 0..(BUF_SIZE - 1) |-> 0]],
            IF b = MEM_PART THEN Null ELSE b + 1)]

BootBlocks == [b \in Blocks |-> b]

Init ==
  /\ now = 0 /\ nbytes = 0 /\ wire = <<>>
  /\ pblock = Null /\ blk = BootMem /\ freeList = BootBlocks /\ queue = <<>>
  /\ parPc = "get" /\ first = TRUE /\ dly = 0 /\ end = 0
  /\ cliPc = "wifi" /\ cblk = Null /\ len = 0 /\ off = 0 /\ chunk = 0
  /\ tries = 0 /\ sendErr = FALSE
  /\ kept = {}

(* NVIC_SystemReset, or the watchdog: all of RAM starts over.  What has    *)
(* been sent and what has been strobed in are outside the board.           *)
SystemReset ==
  /\ now' = 0
  /\ pblock' = Null /\ blk' = BootMem /\ freeList' = BootBlocks /\ queue' = <<>>
  /\ parPc' = "get" /\ first' = TRUE /\ dly' = 0 /\ end' = 0
  /\ cliPc' = "wifi" /\ cblk' = Null /\ len' = 0 /\ off' = 0 /\ chunk' = 0
  /\ tries' = 0 /\ sendErr' = FALSE
  /\ kept' = {}
  /\ UNCHANGED <<nbytes, wire>>

-----------------------------------------------------------------------------
(* Mutant: the time is kept in more than 16 bits.                          *)
TickWide ==
  /\ dly > -MAX_LATE
  /\ now' = now + 1
  /\ dly' = dly - 1
  /\ UNCHANGED <<nbytes, pblock, blk, freeList, queue, parPc, first, end,
                 cliVars, wire, kept>>

(* SysTick.  task_parallet is started at most MAX_LATE ticks after it is   *)
(* due: the drivers' tasks have higher priorities and take their time.     *)
Tick ==
  /\ dly > -MAX_LATE
  /\ now' = (now + 1) % WRAP
  /\ dly' = dly - 1
  /\ UNCHANGED <<nbytes, pblock, blk, freeList, queue, parPc, first, end,
                 cliVars, wire, kept>>

(* EXTI9_5_IRQHandler.  The byte is lost when there is no block, when the  *)
(* strobe is already gone (bit 8 of parallel_read) and when the block is   *)
(* full.                                                                   *)
Refilling == parPc \in {"memset", "setLen"}

(* Mutant: the last byte of the buffer is used too.                        *)
StoreFull(b, byte) ==
  IF blk[b].len < BUF_SIZE
  THEN /\ blk' = [blk EXCEPT ![b] =
                    [len |-> @.len + 1, fst |-> now,
                     buf |-> [@.buf EXCEPT ![blk[b].len] = byte]]]
       /\ kept' = IF Refilling THEN kept ELSE kept \cup {byte}
  ELSE UNCHANGED <<blk, kept>>

Store(b, byte) ==
  IF blk[b].len < BUF_SIZE - 1
  THEN /\ blk' = [blk EXCEPT ![b] =
                    [len |-> @.len + 1, fst |-> now,
                     buf |-> [@.buf EXCEPT ![blk[b].len] = byte]]]
       /\ kept' = IF Refilling THEN kept ELSE kept \cup {byte}
  ELSE /\ blk' = [blk EXCEPT ![b].len = BUF_SIZE - 1]
       /\ UNCHANGED kept

EXTI9_5_IRQHandler ==
  /\ nbytes < MAX_BYTES
  /\ nbytes' = nbytes + 1
  /\ \E strobe \in BOOLEAN :
       IF pblock # Null /\ strobe
       THEN Store(pblock, nbytes + 1)
       ELSE UNCHANGED <<blk, kept>>
  /\ UNCHANGED <<now, pblock, freeList, queue, parVars, cliVars, wire>>

-----------------------------------------------------------------------------
(* task_parallet *)

OSTimeDly == parPc' = "poll" /\ dly' = POLL

(* pblock = OSMemGet(...), before the loop and after a post.               *)
ParGet ==
  /\ parPc = "get"
  /\ IF freeList # <<>>
     THEN /\ pblock' = Head(freeList) /\ freeList' = Tail(freeList)
          /\ parPc' = "memset" /\ UNCHANGED dly
     ELSE /\ pblock' = Null
          /\ IF first THEN parPc' = "err" /\ UNCHANGED dly ELSE OSTimeDly
          /\ UNCHANGED freeList
  /\ UNCHANGED <<now, nbytes, blk, queue, first, end, cliVars, wire, kept>>

ParMemset ==
  /\ parPc = "memset"
  /\ blk' = [blk EXCEPT ![pblock].buf = [i \in 0..(BUF_SIZE - 1) |-> 0]]
  /\ parPc' = "setLen"
  /\ UNCHANGED <<now, nbytes, pblock, freeList, queue, first, dly, end,
                 cliVars, wire, kept>>

ParSetLen ==
  /\ parPc = "setLen"
  /\ blk' = [blk EXCEPT ![pblock].len = 0]
  /\ parPc' = "setFst"
  /\ UNCHANGED <<now, nbytes, pblock, freeList, queue, first, dly, end,
                 cliVars, wire, kept>>

ParSetFst ==
  /\ parPc = "setFst"
  /\ blk' = [blk EXCEPT ![pblock].fst = 0]
  /\ end' = 0
  /\ first' = FALSE
  /\ IF first THEN parPc' = "poll" /\ UNCHANGED dly ELSE OSTimeDly
  /\ UNCHANGED <<now, nbytes, pblock, freeList, queue, cliVars, wire, kept>>

(* Mutant: end is taken when the line is first seen busy, and not again.   *)
ParPollOnce ==
  /\ parPc = "poll" /\ dly <= 0 /\ pblock # Null
  /\ IF blk[pblock].fst # 0
     THEN /\ end' = IF end = 0 THEN now ELSE end
          /\ parPc' = "compare" /\ UNCHANGED dly
     ELSE OSTimeDly /\ UNCHANGED end
  /\ UNCHANGED <<now, nbytes, pblock, blk, freeList, queue, first, cliVars,
                 wire, kept>>

(* The head of the loop, once OSTimeDly is over.                           *)
ParPoll ==
  /\ parPc = "poll" /\ dly <= 0 /\ pblock # Null
  /\ IF blk[pblock].fst # 0
     THEN end' = now /\ parPc' = "compare" /\ UNCHANGED dly
     ELSE OSTimeDly /\ UNCHANGED end
  /\ UNCHANGED <<now, nbytes, pblock, blk, freeList, queue, first, cliVars,
                 wire, kept>>

(* Without a block the loop tries OSMemGet once more and, whatever it      *)
(* returns, resets the board.                                              *)
ParNoBlock ==
  /\ parPc = "poll" /\ dly <= 0 /\ pblock = Null
  /\ SystemReset

(* end - fst is an int: negative, so not idle, once end has wrapped.       *)
ParCompare ==
  /\ parPc = "compare"
  /\ IF end - blk[pblock].fst > IDLE
     THEN parPc' = "post" /\ UNCHANGED dly
     ELSE OSTimeDly
  /\ UNCHANGED <<now, nbytes, pblock, blk, freeList, queue, first, end,
                 cliVars, wire, kept>>

(* Mutant: the loop goes on with the block it has posted.                  *)
ParPostKeep ==
  /\ parPc = "post"
  /\ queue' = IF Len(queue) < MAX_QUE THEN Append(queue, pblock) ELSE queue
  /\ OSTimeDly
  /\ UNCHANGED <<now, nbytes, pblock, blk, freeList, first, end, cliVars,
                 wire, kept>>

(* OSQPost, whose result is not looked at.                                 *)
ParPost ==
  /\ parPc = "post"
  /\ queue' = IF Len(queue) < MAX_QUE THEN Append(queue, pblock) ELSE queue
  /\ parPc' = "get"
  /\ UNCHANGED <<now, nbytes, pblock, blk, freeList, first, dly, end, cliVars,
                 wire, kept>>

Parallet ==
  \/ ParGet \/ ParMemset \/ ParSetLen \/ ParSetFst
  \/ ParPoll \/ ParNoBlock \/ ParCompare \/ ParPost

-----------------------------------------------------------------------------
(* Mutant: the client is scheduled whatever task_parallet is doing.        *)
ParSleepsOrNot == TRUE

(* Task_TCP_Client, which runs while task_parallet sleeps.                 *)
ParSleeps == parPc = "err" \/ (parPc = "poll" /\ dly > 0)

CliAt(pc) ==
  /\ ParSleeps /\ cliPc = pc
  /\ UNCHANGED <<now, nbytes, pblock, parVars>>

CliWifi_Connect ==
  /\ CliAt("wifi")
  /\ cliPc' \in {"accept", "hang"}
  /\ UNCHANGED <<blk, freeList, queue, cblk, len, off, chunk, tries, sendErr,
                 wire, kept>>

(* Mutant: the client looks at the oldest message and leaves it queued.    *)
CliPeek ==
  /\ CliAt("accept")
  /\ queue # <<>>
  /\ cblk' = Head(queue) /\ UNCHANGED queue
  /\ cliPc' = "readLen"
  /\ UNCHANGED <<blk, freeList, len, off, chunk, tries, sendErr, wire, kept>>

(* OSQQuery and OSQAccept.                                                 *)
CliAccept ==
  /\ CliAt("accept")
  /\ queue # <<>>
  /\ cblk' = Head(queue) /\ queue' = Tail(queue)
  /\ cliPc' = "readLen"
  /\ UNCHANGED <<blk, freeList, len, off, chunk, tries, sendErr, wire, kept>>

(* len = pblock->len, which goes into the header and bounds what is sent.  *)
CliReadLen ==
  /\ CliAt("readLen")
  /\ len' = blk[cblk].len
  /\ cliPc' = "link"
  /\ UNCHANGED <<blk, freeList, queue, cblk, off, chunk, tries, sendErr, wire,
                 kept>>

CliTCP_Link ==
  /\ CliAt("link")
  /\ cliPc' \in {"getSocket", "relink"}
  /\ tries' = 0 /\ sendErr' = FALSE
  /\ UNCHANGED <<blk, freeList, queue, cblk, len, off, chunk, wire, kept>>

(* Mutant: the count starts again from 0 when it reaches the limit.        *)
CliRelinkForever ==
  /\ CliAt("relink")
  /\ cliPc' \in {"getSocket", "relink"}
  /\ tries' = (tries + 1) % LINK_TRIES
  /\ UNCHANGED <<blk, freeList, queue, cblk, len, off, chunk, sendErr, wire,
                 kept>>

(* One turn of the loop that links again: the count is looked at after the *)
(* call, also when the call has just succeeded.                            *)
CliRelink ==
  /\ CliAt("relink")
  /\ tries + 1 < LINK_TRIES
  /\ cliPc' \in {"getSocket", "relink"}
  /\ tries' = tries + 1
  /\ UNCHANGED <<blk, freeList, queue, cblk, len, off, chunk, sendErr, wire,
                 kept>>

CliGiveUp ==
  /\ ParSleeps /\ cliPc = "relink"
  /\ tries + 1 >= LINK_TRIES
  /\ SystemReset

(* The loop around get_socket ends once there is a socket; a turn that     *)
(* finds none changes nothing.                                             *)
CliGetSocket ==
  /\ CliAt("getSocket")
  /\ cliPc' = "state"
  /\ UNCHANGED <<blk, freeList, queue, cblk, len, off, chunk, tries, sendErr,
                 wire, kept>>

CliEstablished ==
  /\ CliAt("state")
  /\ cliPc' = "header"
  /\ UNCHANGED <<blk, freeList, queue, cblk, len, off, chunk, tries, sendErr,
                 wire, kept>>

(* The connection is gone by the time its state is read: the block is      *)
(* neither sent nor returned to the partition.                             *)
CliNotEstablished ==
  /\ CliAt("state")
  /\ cblk' = Null
  /\ kept' = kept \ Content(cblk)
  /\ cliPc' = "accept"
  /\ UNCHANGED <<blk, freeList, queue, len, off, chunk, tries, sendErr, wire>>

(* The result of the header's send_ex is overwritten by the first chunk's. *)
CliSendHeader ==
  /\ CliAt("header")
  /\ sendErr' \in BOOLEAN
  /\ off' = 0
  /\ cliPc' = "chunk"
  /\ UNCHANGED <<blk, freeList, queue, cblk, len, chunk, tries, wire, kept>>

(* Mutant: the loop ends when no more than one chunk is left.              *)
CliChunkDropsTail ==
  /\ CliAt("chunk")
  /\ chunk' = Lower(CHUNK, len)
  /\ cliPc' = IF len <= CHUNK THEN "put" ELSE "send"
  /\ UNCHANGED <<blk, freeList, queue, cblk, len, off, tries, sendErr, wire,
                 kept>>

(* The head of the do loop; send_ex sends nothing when len is 0.           *)
CliChunk ==
  /\ CliAt("chunk")
  /\ chunk' = Lower(CHUNK, len)
  /\ cliPc' = IF len = 0 THEN "put" ELSE "send"
  /\ UNCHANGED <<blk, freeList, queue, cblk, len, off, tries, sendErr, wire,
                 kept>>

(* Mutant: the send pointer does not move on.                              *)
CliTCP_Send_DataStuck ==
  /\ CliAt("send")
  /\ \E n \in 1..chunk :
       /\ wire' = wire \o [i \in 1..n |-> blk[cblk].buf[off + i - 1]]
       /\ chunk' = chunk - n /\ len' = len - n
       /\ cliPc' = IF n < chunk THEN "send" ELSE IF n < len THEN "chunk" ELSE "put"
  /\ UNCHANGED <<blk, freeList, queue, cblk, off, tries, sendErr, kept>>

(* TCP_Send_Data inside send_ex takes n bytes of what is left.             *)
CliTCP_Send_Data ==
  /\ CliAt("send")
  /\ \E n \in 1..chunk :
       /\ wire' = wire \o [i \in 1..n |-> blk[cblk].buf[off + i - 1]]
       /\ off' = off + n /\ chunk' = chunk - n /\ len' = len - n
       /\ cliPc' = IF n < chunk THEN "send" ELSE IF n < len THEN "chunk" ELSE "put"
  /\ UNCHANGED <<blk, freeList, queue, cblk, tries, sendErr, kept>>

CliSendFails ==
  /\ CliAt("send")
  /\ sendErr' = TRUE
  /\ cliPc' = "failed"
  /\ UNCHANGED <<blk, freeList, queue, cblk, len, off, chunk, tries, wire, kept>>

(* OSMemPut and TCP_Unlink.                                                *)
CliOSMemPut ==
  /\ CliAt("put")
  /\ IF Len(freeList) < MEM_PART
     THEN /\ blk' = [blk EXCEPT ![cblk] = Linked(@, First(freeList))]
          /\ freeList' = <<cblk>> \o freeList
     ELSE UNCHANGED <<blk, freeList>>
  /\ cblk' = Null
  /\ cliPc' = "accept"
  /\ UNCHANGED <<queue, len, off, chunk, tries, sendErr, wire, kept>>

(* After a failed chunk the block is returned and the board reset.         *)
CliFailed ==
  /\ ParSleeps /\ cliPc = "failed"
  /\ SystemReset

TCP_Client ==
  \/ CliWifi_Connect \/ CliAccept \/ CliReadLen
  \/ CliTCP_Link \/ CliRelink \/ CliGiveUp \/ CliGetSocket
  \/ CliEstablished \/ CliNotEstablished
  \/ CliSendHeader \/ CliChunk \/ CliTCP_Send_Data \/ CliSendFails
  \/ CliOSMemPut \/ CliFailed

(* A client that spins after Wifi_Connect has failed keeps task_led, the   *)
(* lowest task, from reloading the watchdog.                               *)
Watchdog == cliPc = "hang" /\ SystemReset

Next == Tick \/ EXTI9_5_IRQHandler \/ Parallet \/ TCP_Client \/ Watchdog

Spec == Init /\ [][Next]_vars

(* The fairness of the scheduler: the tick and the highest of the tasks    *)
(* run when they can; the client is preempted by every poll, but           *)
(* task_parallet sleeps again after a few instructions, so the client runs *)
(* infinitely often.                                                       *)
FairSpec ==
  /\ Spec
  /\ WF_vars(Tick) /\ WF_vars(Parallet)
  /\ SF_vars(TCP_Client)
  /\ WF_vars(Watchdog)

-----------------------------------------------------------------------------
(* Properties *)

ParPcs == {"get", "memset", "setLen", "setFst", "poll", "compare", "post", "err"}
Holding == {"readLen", "link", "relink", "getSocket", "state", "header", "chunk",
            "send", "put", "failed"}
CliPcs == {"wifi", "hang", "accept"} \cup Holding

(* The type of every variable: what the C declarations allow, and which    *)
(* local of Task_TCP_Client is meaningful where.                           *)
TypeOK ==
  /\ now \in Times /\ nbytes \in Nat
  /\ pblock \in Blocks \cup {Null}
  /\ blk \in [Blocks -> Msg]
  /\ freeList \in Seq(Blocks) /\ queue \in Seq(Blocks)
  /\ parPc \in ParPcs /\ first \in BOOLEAN /\ dly \in Int /\ end \in Times
  /\ cliPc \in CliPcs /\ cblk \in Blocks \cup {Null}
  /\ len \in Nat /\ off \in Nat /\ chunk \in Nat /\ tries \in Nat
  /\ sendErr \in BOOLEAN
  /\ wire \in Seq(Nat) /\ kept \in SUBSET Nat
  /\ cliPc \in Holding <=> cblk # Null
  /\ parPc \in {"memset", "setLen", "setFst", "compare", "post"} => pblock # Null

(* A block is in one place at a time: on the free list once, in the queue  *)
(* once, held by the client, or filled by the interrupt.  The one overlap  *)
(* is the window between OSQPost and the OSMemGet after it, when the       *)
(* interrupt still fills the block just queued.                            *)
BlockOwnership ==
  /\ IsInjective(freeList) /\ IsInjective(queue)
  /\ Range(freeList) \cap Range(queue) = {}
  /\ cblk # Null => cblk \notin Range(freeList) \cup Range(queue)
  /\ pblock # Null => pblock \notin Range(freeList)
  /\ pblock # Null /\ parPc # "get" => pblock \notin Range(queue)

(* The interrupt never fills the block Task_TCP_Client is sending, also    *)
(* not in the window after OSQPost: task_parallet's priority closes it     *)
(* before the client can accept the block.                                 *)
NoFillWhileSending == cblk # Null => pblock # cblk

(* send_ex is never given memory beyond the bytes the interrupt stored: the *)
(* len read before linking is still the block's len, and what is sent and  *)
(* what is left add up to it.  Only while OSMemGet's block still holds its *)
(* free-list link can a len exceed the buffer.                             *)
SendInBounds ==
  /\ \A b \in Blocks :
       blk[b].len < BUF_SIZE \/ b \in Range(freeList)
                             \/ (b = pblock /\ Refilling)
  /\ cliPc \in {"link", "relink", "getSocket", "state", "header"} =>
       len = blk[cblk].len
  /\ cliPc \in {"chunk", "send"} => off + len = blk[cblk].len
  /\ cliPc = "send" => chunk <= len

(* OSQPost's result is ignored, and a block it refused would be lost: it   *)
(* never refuses, whatever the server and the network do.                  *)
PostNeverFails == parPc = "post" => Len(queue) < MAX_QUE

(* The server gets the bytes in the order they were strobed in, none       *)
(* twice, and never a cleared or left-over byte of the buffer, over any    *)
(* number of blocks, reconnections and resets.                             *)
WireInOrder ==
  \A i \in 1..Len(wire) : wire[i] > (IF i = 1 THEN 0 ELSE wire[i - 1])

(* A byte the interrupt has stored is sent, or still in the block being    *)
(* filled, queued or sent.  The exceptions are the ones kept leaves out: a *)
(* reset, a connection found closed, and an interrupt between OSMemGet and *)
(* len = 0.                                                                *)
Live ==
  LET filling == IF pblock = Null \/ Refilling THEN {} ELSE {pblock}
      sending == IF cblk = Null THEN {} ELSE {cblk}
  IN  UNION {Content(b) : b \in filling \cup sending \cup Range(queue)}

NoSilentLoss == kept \subseteq Range(wire) \cup Live

(* A block whose last byte came early enough before the 16-bit time wraps  *)
(* is closed within one turn of the clock: posted, touched by another byte *)
(* or lost in a reset.  For fst 0 and for the last IDLE ticks before the   *)
(* wrap this is not so: the block waits for another byte.                  *)
Waiting(t) ==
  parPc \in {"poll", "compare"} /\ pblock # Null /\ blk[pblock].fst = t
IdleBlockClosed ==
  \A t \in 1..(WRAP - 1 - IDLE - POLL - 2 * MAX_LATE) : Waiting(t) ~> ~Waiting(t)

(* A queued block leaves the queue: the client takes it, or the board is   *)
(* reset after failing to link, to send or to join the network.            *)
QueueServed ==
  \A b \in Blocks : b \in Range(queue) ~> b \notin Range(queue)

(* The comment at the sending loop, "exit when sending fails": after a     *)
(* send_ex on a connection has failed nothing more is sent on it.          *)
NoSendAfterFailure == [][sendErr => wire' = wire]_vars

=============================================================================
