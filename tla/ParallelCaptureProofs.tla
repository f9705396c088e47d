------------------------ MODULE ParallelCaptureProofs ------------------------
(***************************************************************************)
(* The capture pipeline's safety for any pool, buffer, queue and clock.    *)
(*                                                                         *)
(* The inductive invariant is IInv.  Block ownership alone is not          *)
(* inductive: that the interrupt does not fill the block being sent        *)
(* (NoFillWhileSending) rests on the queue being empty of pblock whenever  *)
(* the client can accept, and the bounds of what is sent (SendInBounds),   *)
(* on which even the type of wire rests, on both.                          *)
(*                                                                         *)
(* On top of it Order is: what reaches the server are bytes captured, in   *)
(* their order (WireInOrder); and NoSilentLoss: every byte stored is there *)
(* or in a block in use, unless a named exception has cost it.             *)
(*                                                                         *)
(* What the server reads: a header is followed by exactly its bytes        *)
(* (WholeBlocksSent) and announces at least one (NoEmptyMessageSent); and  *)
(* no block is lost to the pool but those a closed connection drops        *)
(* (LostOnlySkipped).                                                      *)
(***************************************************************************)
EXTENDS ParallelCapture, DistinctSeqs

IInv == TypeOK /\ BlockOwnership /\ NoFillWhileSending /\ SendInBounds

USE PoolAssumption, BufferAssumption, TimeAssumption

(* Overlaying the free-list link leaves a block of memory a block.         *)
LEMMA LinkedType ==
  ASSUME NEW m \in Msg, NEW next
  PROVE  Linked(m, next) \in Msg
<1>1. LinkLo \in Nat /\ LinkHi \in Times /\ 0 \in Times
  BY DEF Times
<1>2. /\ [m EXCEPT !.len = 0, !.fst = 0] \in Msg
      /\ [m EXCEPT !.len = LinkLo, !.fst = LinkHi] \in Msg
  BY <1>1 DEF Msg
<1> QED BY <1>2 DEF Linked

(* The assignments to a single field of a block.                           *)
LEMMA FieldTypes ==
  ASSUME NEW m \in Msg, NEW n \in Nat, NEW t \in Times,
         NEW f \in [0..(BUF_SIZE - 1) -> Nat]
  PROVE  /\ [m EXCEPT !.len = n] \in Msg /\ [m EXCEPT !.len = n].len = n
         /\ [m EXCEPT !.fst = t] \in Msg /\ [m EXCEPT !.fst = t].len = m.len
         /\ [m EXCEPT !.buf = f] \in Msg /\ [m EXCEPT !.buf = f].len = m.len
BY DEF Msg

(* Memory after a reset: typed, and every block free once.                 *)
LEMMA BootType ==
  /\ BootMem \in [Blocks -> Msg]
  /\ BootBlocks \in Seq(Blocks) /\ IsInjective(BootBlocks)
  /\ Range(BootBlocks) = Blocks
<1>1. BootMem \in [Blocks -> Msg]
  <2> DEFINE m == [len |-> 0, fst |-> 0, buf |-> [i \in 0..(BUF_SIZE - 1) |-> 0]]
  <2>1. m \in Msg
    <3>1. 0 \in Times BY DEF Times
    <3> QED BY <3>1 DEF Msg
  <2> HIDE DEF m
  <2>2. \A b \in Blocks :
          Linked(m, IF b = MEM_PART THEN Null ELSE b + 1) \in Msg
    BY <2>1, LinkedType
  <2> QED BY <2>2 DEF BootMem, m
<1>2. BootBlocks \in Seq(Blocks) /\ DOMAIN BootBlocks = Blocks
  BY DEF BootBlocks, Blocks
<1>3. IsInjective(BootBlocks) /\ Range(BootBlocks) = Blocks
  BY <1>2 DEF BootBlocks, Blocks, IsInjective, Range
<1> QED BY <1>1, <1>2, <1>3

LEMMA EmptyQueue ==
  <<>> \in Seq(Blocks) /\ <<>> \in Seq(Nat) /\ IsInjective(<<>>) /\ Range(<<>>) = {}
BY DEF IsInjective, Range

LEMMA InitIInv == Init => IInv
<1> SUFFICES ASSUME Init PROVE IInv OBVIOUS
<1>1. TypeOK
  <2>1. 0 \in Times /\ {} \in SUBSET Nat BY DEF Times
  <2>2. (first \in BOOLEAN /\ sendErr \in BOOLEAN) BY DEF Init
  <2>3. (wire \in Seq(Nat) /\ nbytes \in Nat /\ kept \in SUBSET Nat)
    BY EmptyQueue, <2>1 DEF Init, TypeOK
  <2>4. (cliPc \in Holding <=> cblk # Null) BY DEF Init, Holding
  <2> QED BY <2>1, <2>2, <2>3, <2>4, BootType, EmptyQueue
          DEF Init, TypeOK, ParPcs, CliPcs, Null
<1>2. BlockOwnership
  BY BootType, EmptyQueue DEF Init, BlockOwnership, Null
<1>3. NoFillWhileSending
  BY DEF Init, NoFillWhileSending
<1>4. SendInBounds
  BY BootType DEF Init, SendInBounds
<1> QED BY <1>1, <1>2, <1>3, <1>4 DEF IInv

(* A reset restores every part of the invariant, whatever it interrupts.   *)
LEMMA ResetIInv == TypeOK /\ SystemReset => IInv'
<1> SUFFICES ASSUME TypeOK, SystemReset PROVE IInv' OBVIOUS
<1>1. TypeOK'
  <2>1. 0 \in Times /\ {} \in SUBSET Nat BY DEF Times
  <2>2. (first \in BOOLEAN /\ sendErr \in BOOLEAN)' BY DEF SystemReset
  <2>3. (wire \in Seq(Nat) /\ nbytes \in Nat /\ kept \in SUBSET Nat)'
    BY EmptyQueue, <2>1 DEF SystemReset, TypeOK
  <2>4. (cliPc \in Holding <=> cblk # Null)' BY DEF SystemReset, Holding
  <2> QED BY <2>1, <2>2, <2>3, <2>4, BootType, EmptyQueue
          DEF SystemReset, TypeOK, ParPcs, CliPcs, Null
<1>2. BlockOwnership'
  BY BootType, EmptyQueue DEF SystemReset, BlockOwnership, Null
<1>3. NoFillWhileSending'
  BY DEF SystemReset, NoFillWhileSending
<1>4. SendInBounds'
  BY BootType DEF SystemReset, SendInBounds
<1> QED BY <1>1, <1>2, <1>3, <1>4 DEF IInv

(* The clock touches neither memory nor the blocks' owners.                *)
LEMMA TickIInv == IInv /\ Tick => IInv'
<1> SUFFICES ASSUME IInv, Tick PROVE IInv' OBVIOUS
<1> USE DEF Tick, IInv
<1>1. TypeOK' BY DEF TypeOK, Times, cliVars
<1>2. BlockOwnership' BY DEF BlockOwnership, cliVars
<1>3. NoFillWhileSending' BY DEF NoFillWhileSending, cliVars
<1>4. SendInBounds' BY DEF SendInBounds, Refilling, cliVars
<1> QED BY <1>1, <1>2, <1>3, <1>4

(* The interrupt writes only to pblock, which the client does not hold.    *)
LEMMA InterruptIInv == IInv /\ EXTI9_5_IRQHandler => IInv'
<1> SUFFICES ASSUME IInv, EXTI9_5_IRQHandler PROVE IInv' OBVIOUS
<1> USE DEF IInv
<1>1. PICK strobe \in BOOLEAN :
        IF pblock # Null /\ strobe THEN Store(pblock, nbytes + 1)
                                   ELSE UNCHANGED <<blk, kept>>
  BY DEF EXTI9_5_IRQHandler
<1>2. /\ nbytes' = nbytes + 1
      /\ UNCHANGED <<now, pblock, freeList, queue, parVars, cliVars, wire>>
  BY DEF EXTI9_5_IRQHandler
<1>3. /\ blk' \in [Blocks -> Msg] /\ kept' \in SUBSET Nat
      /\ \A b \in Blocks : b # pblock => blk'[b] = blk[b]
      /\ pblock \in Blocks /\ blk'[pblock].len # blk[pblock].len =>
           blk'[pblock].len < BUF_SIZE
  <2>1. CASE pblock # Null /\ strobe
    <3>1. Store(pblock, nbytes + 1) /\ pblock \in Blocks /\ blk[pblock] \in Msg
          /\ nbytes + 1 \in Nat /\ now \in Times /\ blk \in [Blocks -> Msg]
          /\ kept \in SUBSET Nat
      BY <1>1, <2>1 DEF TypeOK
    <3>2. CASE blk[pblock].len < BUF_SIZE - 1
      <4> DEFINE m == [len |-> blk[pblock].len + 1, fst |-> now,
                       buf |-> [blk[pblock].buf EXCEPT
                                  ![blk[pblock].len] = nbytes + 1]]
      <4>1. blk' = [blk EXCEPT ![pblock] = m] /\ kept' \in SUBSET Nat
        BY <3>1, <3>2 DEF Store
      <4>2. m \in Msg /\ m.len < BUF_SIZE BY <3>1, <3>2 DEF Msg
      <4> HIDE DEF m
      <4> QED BY <3>1, <4>1, <4>2
    <3>3. CASE ~(blk[pblock].len < BUF_SIZE - 1)
      <4>1. blk' = [blk EXCEPT ![pblock].len = BUF_SIZE - 1] /\ kept' = kept
        BY <3>1, <3>3 DEF Store
      <4> DEFINE m == [blk[pblock] EXCEPT !.len = BUF_SIZE - 1]
      <4>2. BUF_SIZE - 1 \in Nat /\ BUF_SIZE - 1 < BUF_SIZE /\ 0 \in Times
            /\ blk[pblock].buf \in [0..(BUF_SIZE - 1) -> Nat]
        BY <3>1 DEF Msg, Times
      <4>4. m \in Msg /\ m.len < BUF_SIZE BY <3>1, <4>2, FieldTypes
      <4>5. blk' = [blk EXCEPT ![pblock] = m] BY <3>1, <4>1
      <4> HIDE DEF m
      <4> QED BY <3>1, <4>1, <4>4, <4>5
    <3> QED BY <3>2, <3>3
  <2>2. CASE ~(pblock # Null /\ strobe) BY <1>1, <2>2 DEF TypeOK
  <2> QED BY <2>1, <2>2
<1>4. TypeOK' BY <1>2, <1>3 DEF TypeOK, parVars, cliVars
<1>5. BlockOwnership' BY <1>2 DEF BlockOwnership, parVars, cliVars
<1>6. NoFillWhileSending' BY <1>2 DEF NoFillWhileSending, parVars, cliVars
<1>7. SendInBounds'
  <2>1. cblk # Null => cblk \in Blocks /\ blk'[cblk] = blk[cblk]
    BY <1>3 DEF NoFillWhileSending, TypeOK
  <2>2. cliPc \in Holding => cblk # Null BY DEF TypeOK
  <2>3. \A b \in Blocks : blk'[b].len = blk[b].len \/ blk'[b].len < BUF_SIZE
    BY <1>3
  <2> QED BY <1>2, <2>1, <2>2, <2>3
          DEF SendInBounds, Holding, Refilling, parVars, cliVars
<1> QED BY <1>4, <1>5, <1>6, <1>7

-----------------------------------------------------------------------------
(* task_parallet *)

(* The block OSMemGet hands out is nobody else's.                          *)
LEMMA ParGetIInv == IInv /\ ParGet => IInv'
<1> SUFFICES ASSUME IInv, ParGet PROVE IInv' OBVIOUS
<1> USE DEF IInv
<1>0. /\ freeList \in Seq(Blocks) /\ IsInjective(freeList)
      /\ pblock \in Blocks \cup {Null} /\ dly \in Int /\ POLL \in Int
  BY DEF TypeOK, BlockOwnership
<1>1. CASE freeList # <<>>
  <2>1. /\ pblock' = Head(freeList) /\ freeList' = Tail(freeList)
        /\ parPc' = "memset" /\ parPc = "get" /\ dly' = dly
        /\ UNCHANGED <<now, nbytes, blk, queue, first, end, cliVars, wire, kept>>
    BY <1>1 DEF ParGet
  <2>2. /\ Tail(freeList) \in Seq(Blocks) /\ Head(freeList) \in Blocks
        /\ IsInjective(Tail(freeList))
        /\ Range(freeList) = Range(Tail(freeList)) \cup {Head(freeList)}
        /\ Head(freeList) \notin Range(Tail(freeList))
    BY <1>0, <1>1, TakeHead
  <2>3. TypeOK' BY <2>1, <2>2 DEF TypeOK, cliVars, ParPcs, Blocks, Null
  <2>4. BlockOwnership' BY <2>1, <2>2 DEF BlockOwnership, cliVars
  <2>5. NoFillWhileSending'
    BY <2>1, <2>2 DEF NoFillWhileSending, BlockOwnership, cliVars
  <2>6. SendInBounds' BY <2>1, <2>2 DEF SendInBounds, Refilling, cliVars
  <2> QED BY <2>3, <2>4, <2>5, <2>6
<1>2. CASE freeList = <<>>
  <2>1. /\ pblock' = Null /\ parPc' \in {"err", "poll"} /\ dly' \in Int
        /\ parPc = "get"
        /\ UNCHANGED <<now, nbytes, blk, freeList, queue, first, end, cliVars,
                       wire, kept>>
    BY <1>0, <1>2 DEF ParGet, OSTimeDly
  <2>3. TypeOK' BY <2>1 DEF TypeOK, cliVars, ParPcs, Null
  <2>4. BlockOwnership' BY <2>1 DEF BlockOwnership, cliVars
  <2>5. NoFillWhileSending' BY <2>1 DEF NoFillWhileSending, cliVars
  <2>6. SendInBounds' BY <2>1 DEF SendInBounds, Refilling, cliVars
  <2> QED BY <2>3, <2>4, <2>5, <2>6
<1> QED BY <1>1, <1>2

(* The three writes that make a block of memory an empty block.            *)
LEMMA ParRefillIInv ==
  IInv /\ (ParMemset \/ ParSetLen \/ ParSetFst) => IInv'
<1> SUFFICES ASSUME IInv, ParMemset \/ ParSetLen \/ ParSetFst PROVE IInv'
  OBVIOUS
<1> USE DEF IInv
<1>1. /\ pblock \in Blocks /\ blk \in [Blocks -> Msg] /\ blk[pblock] \in Msg
      /\ parPc \in {"memset", "setLen", "setFst"}
      /\ parPc' \in {"setLen", "setFst", "poll"} /\ dly' \in Int /\ end' \in Times
      /\ first' \in BOOLEAN
      /\ UNCHANGED <<now, nbytes, pblock, freeList, queue, cliVars, wire, kept>>
  <2>1. parPc \in {"memset", "setLen", "setFst"}
    BY DEF ParMemset, ParSetLen, ParSetFst
  <2>2. /\ parPc' \in {"setLen", "setFst", "poll"}
        /\ UNCHANGED <<now, nbytes, pblock, freeList, queue, cliVars, wire, kept>>
    BY DEF ParMemset, ParSetLen, ParSetFst, OSTimeDly
  <2>3. /\ first' \in BOOLEAN
    BY DEF ParMemset, ParSetLen, ParSetFst, TypeOK
  <2>4. dly' \in Int /\ end' \in Times
    <3>1. dly \in Int /\ end \in Times /\ POLL \in Int /\ 0 \in Times
      BY DEF TypeOK, Times
    <3>2. CASE ParMemset \/ ParSetLen BY <3>1, <3>2 DEF ParMemset, ParSetLen
    <3>3. CASE ParSetFst BY <3>1, <3>3 DEF ParSetFst, OSTimeDly
    <3> QED BY <3>2, <3>3
  <2>5. pblock \in Blocks /\ blk \in [Blocks -> Msg] /\ blk[pblock] \in Msg
    BY <2>1 DEF TypeOK
  <2> QED BY <2>1, <2>2, <2>3, <2>4, <2>5
<1>2. /\ blk' \in [Blocks -> Msg]
      /\ \A b \in Blocks : b # pblock => blk'[b] = blk[b]
      /\ blk'[pblock].len < BUF_SIZE \/ parPc' = "setLen"
  <2>1. 0 \in Nat /\ 0 \in Times /\ blk[pblock].buf \in [0..(BUF_SIZE - 1) -> Nat]
    BY <1>1 DEF Times, Msg
  <2>2. CASE ParMemset
    <3> DEFINE f == [i \in 0..(BUF_SIZE - 1) |-> 0]
    <3> DEFINE m == [blk[pblock] EXCEPT !.buf = f]
    <3>1. f \in [0..(BUF_SIZE - 1) -> Nat] OBVIOUS
    <3>2. m \in Msg
      <4> HIDE DEF f
      <4> QED BY <1>1, <2>1, <3>1, FieldTypes
    <3>3. blk' = [blk EXCEPT ![pblock] = m] /\ parPc' = "setLen"
      BY <1>1, <2>2 DEF ParMemset
    <3> HIDE DEF m
    <3> QED BY <1>1, <3>2, <3>3
  <2>3. CASE ParSetLen
    <3> DEFINE m == [blk[pblock] EXCEPT !.len = 0]
    <3>1. m \in Msg /\ m.len = 0 BY <1>1, <2>1, FieldTypes
    <3>2. blk' = [blk EXCEPT ![pblock] = m]
      BY <1>1, <2>3 DEF ParSetLen
    <3> HIDE DEF m
    <3> QED BY <1>1, <3>1, <3>2
  <2>4. CASE ParSetFst
    <3> DEFINE m == [blk[pblock] EXCEPT !.fst = 0]
    <3>1. m \in Msg /\ m.len = blk[pblock].len BY <1>1, <2>1, FieldTypes
    <3>2. blk' = [blk EXCEPT ![pblock] = m] /\ parPc = "setFst"
      BY <1>1, <2>4 DEF ParSetFst
    <3>3. blk[pblock].len < BUF_SIZE
      BY <1>1, <3>2 DEF SendInBounds, BlockOwnership, Refilling, Null, Blocks
    <3> HIDE DEF m
    <3> QED BY <1>1, <3>1, <3>2, <3>3
  <2> QED BY <2>2, <2>3, <2>4
<1>3. TypeOK' BY <1>1, <1>2 DEF TypeOK, ParPcs, cliVars, Blocks, Null
<1>4. BlockOwnership' BY <1>1 DEF BlockOwnership, cliVars
<1>5. NoFillWhileSending' BY <1>1 DEF NoFillWhileSending, cliVars
<1>6. SendInBounds'
  <2>1. cblk # Null => cblk \in Blocks /\ blk'[cblk] = blk[cblk]
    BY <1>2 DEF NoFillWhileSending, TypeOK
  <2>2. cliPc \in Holding => cblk # Null BY DEF TypeOK
  <2> QED BY <1>1, <1>2, <2>1, <2>2
          DEF SendInBounds, Holding, Refilling, parVars, cliVars
<1> QED BY <1>3, <1>4, <1>5, <1>6

(* Polling changes only where the task is.                                 *)
LEMMA ParPollIInv == IInv /\ (ParPoll \/ ParCompare) => IInv'
<1> SUFFICES ASSUME IInv, ParPoll \/ ParCompare PROVE IInv' OBVIOUS
<1> USE DEF IInv
<1>1. /\ parPc \in {"poll", "compare"} /\ parPc' \in {"poll", "compare", "post"}
      /\ pblock # Null /\ dly' \in Int /\ end' \in Times
      /\ UNCHANGED <<now, nbytes, pblock, blk, freeList, queue, first, cliVars,
                     wire, kept>>
  BY DEF ParPoll, ParCompare, OSTimeDly, TypeOK
<1>2. TypeOK' BY <1>1 DEF TypeOK, ParPcs, cliVars
<1>3. BlockOwnership' BY <1>1 DEF BlockOwnership, cliVars
<1>4. NoFillWhileSending' BY <1>1 DEF NoFillWhileSending, cliVars
<1>5. SendInBounds' BY <1>1 DEF SendInBounds, Refilling, cliVars
<1> QED BY <1>2, <1>3, <1>4, <1>5

(* A queued block was not queued before, and stays pblock until OSMemGet.  *)
LEMMA ParPostIInv == IInv /\ ParPost => IInv'
<1> SUFFICES ASSUME IInv, ParPost PROVE IInv' OBVIOUS
<1> USE DEF IInv
<1>1. /\ parPc = "post" /\ parPc' = "get" /\ pblock \in Blocks
      /\ queue \in Seq(Blocks) /\ IsInjective(queue) /\ pblock \notin Range(queue)
      /\ queue' \in {Append(queue, pblock), queue}
      /\ UNCHANGED <<now, nbytes, pblock, blk, freeList, first, dly, end, cliVars,
                     wire, kept>>
  BY DEF ParPost, TypeOK, BlockOwnership
<1>2. /\ queue' \in Seq(Blocks) /\ IsInjective(queue')
      /\ Range(queue') \subseteq Range(queue) \cup {pblock}
  <2>1. /\ Append(queue, pblock) \in Seq(Blocks)
        /\ IsInjective(Append(queue, pblock))
        /\ Range(Append(queue, pblock)) = Range(queue) \cup {pblock}
    BY <1>1, AppendNew
  <2> QED BY <1>1, <2>1
<1>3. TypeOK' BY <1>1, <1>2 DEF TypeOK, ParPcs, cliVars
<1>4. BlockOwnership'
  BY <1>1, <1>2 DEF BlockOwnership, NoFillWhileSending, cliVars, Blocks, Null
<1>5. NoFillWhileSending' BY <1>1 DEF NoFillWhileSending, cliVars
<1>6. SendInBounds' BY <1>1 DEF SendInBounds, Refilling, cliVars
<1> QED BY <1>3, <1>4, <1>5, <1>6

-----------------------------------------------------------------------------
(* Task_TCP_Client *)

(* Where the client may run, task_parallet is neither refilling nor between *)
(* its post and its OSMemGet.                                              *)
LEMMA ClientRuns ==
  ASSUME IInv, ParSleeps
  PROVE  /\ parPc \notin {"get", "memset", "setLen"} /\ ~Refilling
         /\ pblock # Null => pblock \notin Range(queue)
BY DEF IInv, BlockOwnership, ParSleeps, Refilling

(* The steps that only move the client on, with what is in its locals.     *)
LEMMA CliMoveIInv ==
  IInv /\ (\/ CliWifi_Connect \/ CliReadLen \/ CliTCP_Link \/ CliRelink
           \/ CliGetSocket \/ CliEstablished \/ CliSendHeader \/ CliChunk
           \/ CliSendFails)
       => IInv'
<1> DEFINE Move == \/ CliWifi_Connect \/ CliReadLen \/ CliTCP_Link \/ CliRelink
                   \/ CliGetSocket \/ CliEstablished \/ CliSendHeader \/ CliChunk
                   \/ CliSendFails
<1> SUFFICES ASSUME IInv, Move PROVE IInv' OBVIOUS
<1> USE DEF IInv, CliAt
<1>1. UNCHANGED <<now, nbytes, pblock, parVars, blk, freeList, queue, cblk, wire,
                  kept>>
  BY DEF CliWifi_Connect, CliReadLen, CliTCP_Link, CliRelink, CliGetSocket,
         CliEstablished, CliSendHeader, CliChunk, CliSendFails
<1>2. /\ cliPc' \in CliPcs /\ (cliPc' \in Holding <=> cliPc \in Holding)
  BY DEF CliWifi_Connect, CliReadLen, CliTCP_Link, CliRelink, CliGetSocket,
         CliEstablished, CliSendHeader, CliChunk, CliSendFails, CliPcs, Holding
<1>3. sendErr' \in BOOLEAN
  BY DEF CliWifi_Connect, CliReadLen, CliTCP_Link, CliRelink, CliGetSocket,
         CliEstablished, CliSendHeader, CliChunk, CliSendFails, TypeOK
<1>4. cblk # Null => blk[cblk].len \in Nat
  BY DEF TypeOK, Msg
<1>5. len' \in Nat /\ off' \in Nat /\ chunk' \in Nat /\ tries' \in Nat
  BY <1>4
  DEF CliWifi_Connect, CliReadLen, CliTCP_Link, CliRelink, CliGetSocket,
      CliEstablished, CliSendHeader, CliChunk, CliSendFails, Lower, TypeOK, Holding
<1>6. TypeOK' BY <1>1, <1>2, <1>3, <1>5 DEF TypeOK, parVars
<1>7. BlockOwnership' BY <1>1 DEF BlockOwnership, parVars
<1>8. NoFillWhileSending' BY <1>1 DEF NoFillWhileSending, parVars
<1>9. SendInBounds'
  <2>1. /\ cliPc' \in {"link", "relink", "getSocket", "state", "header"} =>
             len' = blk[cblk].len
        /\ cliPc' \in {"chunk", "send"} => off' + len' = blk[cblk].len
        /\ cliPc' = "send" => chunk' <= len'
    BY <1>4
    DEF SendInBounds, CliWifi_Connect, CliReadLen, CliTCP_Link, CliRelink,
        CliGetSocket, CliEstablished, CliSendHeader, CliChunk, CliSendFails, Lower,
        TypeOK, Holding
  <2> QED BY <1>1, <2>1 DEF SendInBounds, Refilling, parVars
<1> QED BY <1>6, <1>7, <1>8, <1>9

(* The block accepted is not the one the interrupt fills.                  *)
LEMMA CliAcceptIInv == IInv /\ CliAccept => IInv'
<1> SUFFICES ASSUME IInv, CliAccept PROVE IInv' OBVIOUS
<1>1. /\ ParSleeps /\ cliPc = "accept" /\ cliPc' = "readLen" /\ queue # <<>>
      /\ cblk' = Head(queue) /\ queue' = Tail(queue)
      /\ UNCHANGED <<now, nbytes, pblock, parVars, blk, freeList, len, off, chunk,
                     tries, sendErr, wire, kept>>
  BY DEF CliAccept, CliAt
<1>2. /\ Tail(queue) \in Seq(Blocks) /\ Head(queue) \in Blocks
      /\ IsInjective(Tail(queue))
      /\ Range(queue) = Range(Tail(queue)) \cup {Head(queue)}
      /\ Head(queue) \notin Range(Tail(queue))
  <2>1. queue \in Seq(Blocks) /\ IsInjective(queue)
    BY DEF IInv, TypeOK, BlockOwnership
  <2> QED BY <1>1, <2>1, TakeHead
<1>3. pblock # Null => pblock \notin Range(queue)
  BY <1>1, ClientRuns
<1> USE DEF IInv
<1>4. TypeOK'
  BY <1>1, <1>2 DEF TypeOK, parVars, CliPcs, Holding, Blocks, Null
<1>5. BlockOwnership' BY <1>1, <1>2 DEF BlockOwnership, parVars
<1>6. NoFillWhileSending'
  BY <1>1, <1>2, <1>3 DEF NoFillWhileSending, Blocks, Null
<1>7. SendInBounds' BY <1>1 DEF SendInBounds, Refilling, parVars
<1> QED BY <1>4, <1>5, <1>6, <1>7

(* A block skipped leaves every list.                                      *)
LEMMA CliNotEstablishedIInv == IInv /\ CliNotEstablished => IInv'
<1> SUFFICES ASSUME IInv, CliNotEstablished PROVE IInv' OBVIOUS
<1> USE DEF IInv
<1>1. /\ cblk' = Null /\ cliPc' = "accept" /\ kept' \subseteq kept
      /\ UNCHANGED <<now, nbytes, pblock, parVars, blk, freeList, queue, len, off,
                     chunk, tries, sendErr, wire>>
  BY DEF CliNotEstablished, CliAt
<1>2. TypeOK' BY <1>1 DEF TypeOK, parVars, CliPcs, Holding, Null
<1>3. BlockOwnership' BY <1>1 DEF BlockOwnership, parVars
<1>4. NoFillWhileSending' BY <1>1 DEF NoFillWhileSending
<1>5. SendInBounds' BY <1>1 DEF SendInBounds, Refilling, parVars
<1> QED BY <1>2, <1>3, <1>4, <1>5

(* What TCP_Send_Data reads is inside the block.                           *)
LEMMA CliTCP_Send_DataIInv == IInv /\ CliTCP_Send_Data => IInv'
<1> SUFFICES ASSUME IInv, CliTCP_Send_Data PROVE IInv' OBVIOUS
<1> USE DEF IInv
<1>1. PICK n \in 1..chunk :
        /\ wire' = wire \o [i \in 1..n |-> blk[cblk].buf[off + i - 1]]
        /\ off' = off + n /\ chunk' = chunk - n /\ len' = len - n
        /\ cliPc' = IF n < chunk THEN "send" ELSE IF n < len THEN "chunk" ELSE "put"
  BY DEF CliTCP_Send_Data
<1>2. /\ ParSleeps /\ cliPc = "send"
      /\ UNCHANGED <<now, nbytes, pblock, parVars, blk, freeList, queue, cblk,
                     tries, sendErr, kept>>
  BY DEF CliTCP_Send_Data, CliAt
<1>3. /\ cblk # Null /\ cblk \in Blocks /\ blk[cblk] \in Msg
      /\ chunk \in Nat /\ len \in Nat /\ off \in Nat
      /\ chunk <= len /\ off + len = blk[cblk].len
      /\ blk[cblk].len < BUF_SIZE
  <2>1. cblk # Null /\ cblk \in Blocks BY <1>2 DEF TypeOK, Holding
  <2>2. ~Refilling BY <1>2, ClientRuns
  <2>3. cblk \notin Range(freeList) BY <2>1 DEF BlockOwnership
  <2> QED BY <1>2, <2>1, <2>2, <2>3 DEF TypeOK, SendInBounds
<1>4. wire' \in Seq(Nat)
  <2>1. [i \in 1..n |-> blk[cblk].buf[off + i - 1]] \in Seq(Nat)
    <3>1. blk[cblk].buf \in [0..(BUF_SIZE - 1) -> Nat] BY <1>3 DEF Msg
    <3>2. \A i \in 1..n : off + i - 1 \in 0..(BUF_SIZE - 1) BY <1>3
    <3>3. \A i \in 1..n : blk[cblk].buf[off + i - 1] \in Nat BY <3>1, <3>2
    <3>4. n \in Nat BY <1>3
    <3> QED BY <3>3, <3>4
  <2>2. wire \in Seq(Nat) BY DEF TypeOK
  <2> QED BY <1>1, <2>1, <2>2
<1>5. len' \in Nat /\ off' \in Nat /\ chunk' \in Nat /\ cliPc' \in {"send", "chunk", "put"}
  BY <1>1, <1>3
<1>6. TypeOK' BY <1>2, <1>3, <1>4, <1>5 DEF TypeOK, parVars, CliPcs, Holding
<1>7. BlockOwnership' BY <1>2 DEF BlockOwnership, parVars
<1>8. NoFillWhileSending' BY <1>2 DEF NoFillWhileSending
<1>9. SendInBounds'
  BY <1>1, <1>2, <1>3, <1>5 DEF SendInBounds, Refilling, parVars
<1> QED BY <1>6, <1>7, <1>8, <1>9

(* The block returned was on no list, so it is on the free list once.      *)
LEMMA CliOSMemPutIInv == IInv /\ CliOSMemPut => IInv'
<1> SUFFICES ASSUME IInv, CliOSMemPut PROVE IInv' OBVIOUS
<1> USE DEF IInv
<1>1. /\ ParSleeps /\ cliPc = "put" /\ cliPc' = "accept" /\ cblk' = Null
      /\ UNCHANGED <<now, nbytes, pblock, parVars, queue, len, off, chunk, tries,
                     sendErr, wire, kept>>
  BY DEF CliOSMemPut, CliAt
<1>2. /\ cblk \in Blocks /\ freeList \in Seq(Blocks) /\ IsInjective(freeList)
      /\ cblk \notin Range(freeList) /\ cblk \notin Range(queue) /\ cblk # pblock
      /\ blk \in [Blocks -> Msg]
  BY <1>1 DEF TypeOK, Holding, BlockOwnership, NoFillWhileSending
<1>3. \/ /\ freeList' = <<cblk>> \o freeList
         /\ blk' = [blk EXCEPT ![cblk] = Linked(blk[cblk], First(freeList))]
      \/ /\ freeList' = freeList
         /\ blk' = blk
  BY <1>2 DEF CliOSMemPut
<1>4. /\ <<cblk>> \o freeList \in Seq(Blocks)
      /\ IsInjective(<<cblk>> \o freeList)
      /\ Range(<<cblk>> \o freeList) = Range(freeList) \cup {cblk}
  BY <1>2, PushNew
<1>5. /\ freeList' \in Seq(Blocks) /\ IsInjective(freeList')
      /\ Range(freeList) \subseteq Range(freeList')
      /\ Range(freeList') \subseteq Range(freeList) \cup {cblk}
      /\ blk' \in [Blocks -> Msg]
      /\ \A b \in Blocks : blk'[b] = blk[b] \/ b \in Range(freeList')
  <2>1. Linked(blk[cblk], First(freeList)) \in Msg BY <1>2, LinkedType
  <2> QED BY <1>2, <1>3, <1>4, <2>1
<1>6. TypeOK' BY <1>1, <1>5 DEF TypeOK, parVars, CliPcs, Holding, Null
<1>7. BlockOwnership'
  BY <1>1, <1>2, <1>5 DEF BlockOwnership, parVars
<1>8. NoFillWhileSending' BY <1>1 DEF NoFillWhileSending
<1>9. SendInBounds'
  BY <1>1, <1>5 DEF SendInBounds, Refilling, parVars
<1> QED BY <1>6, <1>7, <1>8, <1>9

-----------------------------------------------------------------------------
(* Every step keeps the invariant.                                         *)
LEMMA StepIInv == IInv /\ [Next]_vars => IInv'
<1> SUFFICES ASSUME IInv, [Next]_vars PROVE IInv' OBVIOUS
<1>1. CASE Tick BY <1>1, TickIInv
<1>2. CASE EXTI9_5_IRQHandler BY <1>2, InterruptIInv
<1>3. CASE Parallet
  BY <1>3, ParGetIInv, ParRefillIInv, ParPollIInv, ParPostIInv, ResetIInv
  DEF Parallet, ParNoBlock, IInv
<1>4. CASE TCP_Client
  BY <1>4, CliMoveIInv, CliAcceptIInv, CliNotEstablishedIInv,
     CliTCP_Send_DataIInv, CliOSMemPutIInv, ResetIInv
  DEF TCP_Client, CliGiveUp, CliFailed, IInv
<1>5. CASE Watchdog BY <1>5, ResetIInv DEF Watchdog, IInv
<1>6. CASE UNCHANGED vars
  BY <1>6
  DEF vars, parVars, cliVars, IInv, TypeOK, BlockOwnership, NoFillWhileSending,
      SendInBounds, Refilling
<1> QED BY <1>1, <1>2, <1>3, <1>4, <1>5, <1>6 DEF Next

LEMMA Invariance == Spec => []IInv
<1>1. Init => IInv BY InitIInv
<1>2. IInv /\ [Next]_vars => IInv' BY StepIInv
<1> QED BY <1>1, <1>2, PTL DEF Spec

(* Every variable keeps its type, and the client holds a block exactly     *)
(* between its OSQAccept and its OSMemPut.                                 *)
THEOREM TypeCorrect == Spec => []TypeOK
<1>1. IInv => TypeOK BY DEF IInv
<1> QED BY <1>1, Invariance, PTL

(* No block is freed twice, queued twice, or free and in use at once: see  *)
(* OSMemGet and OSMemPut in task_parallet.c and TCP_CLient.C.              *)
THEOREM OwnershipHolds == Spec => []BlockOwnership
<1>1. IInv => BlockOwnership BY DEF IInv
<1> QED BY <1>1, Invariance, PTL

(* EXTI9_5_IRQHandler never writes to the block Task_TCP_Client sends.     *)
THEOREM NoFillWhileSendingHolds == Spec => []NoFillWhileSending
<1>1. IInv => NoFillWhileSending BY DEF IInv
<1> QED BY <1>1, Invariance, PTL

(* send_ex stays inside the bytes the interrupt stored in the block.       *)
THEOREM SendInBoundsHolds == Spec => []SendInBounds
<1>1. IInv => SendInBounds BY DEF IInv
<1> QED BY <1>1, Invariance, PTL

(* The queue has as many slots as the pool has blocks, and the block being *)
(* posted is not in it.                                                    *)
LEMMA PostFits == IInv => PostNeverFails
<1> SUFFICES ASSUME IInv, parPc = "post" PROVE Len(queue) < MAX_QUE
  BY DEF PostNeverFails
<1>1. /\ pblock \in 1..MEM_PART /\ pblock \notin Range(queue)
      /\ queue \in Seq(1..MEM_PART) /\ IsInjective(queue)
  BY DEF IInv, TypeOK, BlockOwnership, Blocks
<1>2. Len(queue) < MEM_PART BY <1>1, PigeonHole
<1> QED BY <1>1, <1>2

(* The OSQPost of task_parallet, whose result is ignored, always succeeds. *)
THEOREM PostNeverFailsHolds == Spec => []PostNeverFails
BY PostFits, Invariance, PTL

-----------------------------------------------------------------------------
(* The order of the bytes.  Order is inductive on top of IInv.  What is on *)
(* the wire says nothing of the next byte; the order is kept in the        *)
(* blocks, from the client's over the queue to pblock, and within each     *)
(* block by its index.                                                     *)

(* A block that holds captured bytes: queued, with the client, or pblock   *)
(* once it has been emptied.                                               *)
Filled(b) ==
  \/ b \in Range(queue)
  \/ b = cblk
  \/ b = pblock /\ ~Refilling

(* The first byte of a block that is still to be sent.                     *)
From(b) == IF b = cblk /\ cliPc \in {"chunk", "send", "put", "failed"} THEN off ELSE 0

(* Block a was filled before block b: the client's before every other, and *)
(* every other before pblock.                                              *)
Before(a, b) ==
  /\ Filled(a) /\ Filled(b) /\ a # b
  /\ \/ a = cblk
     \/ b = pblock
     \/ \E i, j \in 1..Len(queue) : i < j /\ queue[i] = a /\ queue[j] = b

(* Between OSQPost and OSMemGet pblock is the last block of the queue.     *)
Window ==
  parPc = "get" /\ pblock # Null => queue # <<>> /\ queue[Len(queue)] = pblock

(* The bytes of the client's block before its send pointer have been sent, *)
(* all of them when the block is returned.                                 *)
Drained ==
  /\ cliPc \in {"chunk", "send", "put"} =>
       \A i \in 0..(blk[cblk].len - 1) : i < off => blk[cblk].buf[i] \in Range(wire)
  /\ cliPc = "put" => off = blk[cblk].len

(* The bytes of a block are bytes captured, in the order of their strobes. *)
Caught ==
  \A b \in Blocks : Filled(b) =>
    \A i \in 0..(blk[b].len - 1) :
      /\ blk[b].buf[i] \in 1..nbytes
      /\ \A j \in 0..(i - 1) : blk[b].buf[j] < blk[b].buf[i]

(* And so from one block to the next.                                      *)
Ahead ==
  \A a, b \in Blocks : Before(a, b) =>
    \A i \in 0..(blk[a].len - 1), j \in 0..(blk[b].len - 1) :
      blk[a].buf[i] < blk[b].buf[j]

(* What has been sent was captured before whatever is still to be sent.    *)
Sent ==
  \A k \in 1..Len(wire) :
    /\ wire[k] \in 1..nbytes
    /\ \A l \in 1..(k - 1) : wire[l] < wire[k]
    /\ \A b \in Blocks : Filled(b) =>
         \A i \in 0..(blk[b].len - 1) : i >= From(b) => wire[k] < blk[b].buf[i]

Order == Window /\ Drained /\ Caught /\ Ahead /\ Sent

(* A step that stores and sends nothing (a strobe may be lost), leaves     *)
(* alone the bytes of every block that still holds some, and puts no block *)
(* before another.                                                         *)
Quiet ==
  /\ nbytes' \in {nbytes, nbytes + 1} /\ wire' = wire
  /\ \A b \in Blocks : Filled(b)' =>
       \/ blk'[b].len = 0
       \/ /\ Filled(b) /\ From(b)' = From(b)
          /\ blk'[b].len = blk[b].len /\ blk'[b].buf = blk[b].buf
  /\ \A a, b \in Blocks : Before(a, b)' =>
       blk'[a].len = 0 \/ blk'[b].len = 0 \/ Before(a, b)

LEMMA QuietOrder ==
  ASSUME IInv, Caught, Ahead, Sent, Quiet
  PROVE  Caught' /\ Ahead' /\ Sent'
<1>0. nbytes \in Nat /\ \A n \in 1..nbytes : n \in 1..nbytes'
  BY DEF IInv, TypeOK, Quiet
<1>1. Caught' BY <1>0 DEF Quiet, Caught
<1>2. Ahead'
  <2> SUFFICES ASSUME NEW a \in Blocks, NEW b \in Blocks, Before(a, b)',
                      NEW i \in 0..(blk'[a].len - 1), NEW j \in 0..(blk'[b].len - 1)
               PROVE  blk'[a].buf[i] < blk'[b].buf[j]
    BY DEF Ahead
  <2>1. Filled(a)' /\ Filled(b)' BY DEF Before
  <2>2. blk'[a].len # 0 /\ blk'[b].len # 0 OBVIOUS
  <2>3. /\ blk'[a].len = blk[a].len /\ blk'[a].buf = blk[a].buf
        /\ blk'[b].len = blk[b].len /\ blk'[b].buf = blk[b].buf
        /\ Before(a, b)
    BY <2>1, <2>2 DEF Quiet
  <2> QED BY <2>3 DEF Ahead
<1>3. Sent'
  <2> SUFFICES ASSUME NEW k \in 1..Len(wire'), NEW b \in Blocks, Filled(b)',
                      NEW i \in 0..(blk'[b].len - 1), i >= From(b)'
               PROVE  wire'[k] < blk'[b].buf[i]
    BY <1>0 DEF Sent, Quiet
  <2>1. blk'[b].len # 0 OBVIOUS
  <2>2. /\ Filled(b) /\ From(b)' = From(b) /\ wire' = wire
        /\ blk'[b].len = blk[b].len /\ blk'[b].buf = blk[b].buf
    BY <2>1 DEF Quiet
  <2> QED BY <2>2 DEF Sent
<1> QED BY <1>1, <1>2, <1>3

(* After a reset the blocks are all free and what was sent is older than   *)
(* any byte to come.                                                       *)
LEMMA ResetOrder == IInv /\ Order /\ SystemReset => Order' /\ NoSilentLoss'
<1> SUFFICES ASSUME IInv, Order, SystemReset PROVE Order' /\ NoSilentLoss'
  OBVIOUS
<1>1. /\ nbytes' = nbytes /\ wire' = wire /\ kept' = {} /\ pblock' = Null
      /\ queue' = <<>> /\ cblk' = Null /\ cliPc' = "wifi" /\ parPc' = "get"
  BY DEF SystemReset
<1>2. \A b \in Blocks : ~Filled(b)'
  BY <1>1, EmptyQueue DEF Filled, Blocks, Null
<1>3. Quiet BY <1>1, <1>2 DEF Quiet, Before
<1>4. Caught' /\ Ahead' /\ Sent' BY <1>3, QuietOrder DEF Order
<1>5. Window' /\ Drained' BY <1>1 DEF Window, Drained
<1> QED BY <1>1, <1>4, <1>5 DEF Order, NoSilentLoss

LEMMA InitOrder == Init => Order /\ NoSilentLoss
<1> SUFFICES ASSUME Init PROVE Order /\ NoSilentLoss OBVIOUS
<1>1. /\ nbytes = 0 /\ wire = <<>> /\ kept = {} /\ pblock = Null
      /\ queue = <<>> /\ cblk = Null /\ cliPc = "wifi" /\ parPc = "get"
  BY DEF Init
<1>2. \A b \in Blocks : ~Filled(b)
  BY <1>1, EmptyQueue DEF Filled, Blocks, Null
<1>3. Caught /\ Ahead /\ Sent
  BY <1>1, <1>2 DEF Caught, Ahead, Sent, Before
<1>4. Window /\ Drained BY <1>1 DEF Window, Drained
<1> QED BY <1>1, <1>3, <1>4 DEF Order, NoSilentLoss

(* What is live stays live while its bytes stay in its block.              *)
LEMMA LiveStays ==
  ASSUME IInv, UNCHANGED <<pblock, queue, cblk>>, Refilling' => Refilling,
         \A b \in Blocks : Filled(b) => Content(b) \subseteq Content(b)'
  PROVE  Live \subseteq Live'
<1> SUFFICES ASSUME NEW x \in Live PROVE x \in Live' OBVIOUS
<1>1. PICK b : /\ x \in Content(b)
               /\ \/ b = pblock /\ pblock # Null /\ ~Refilling
                  \/ b = cblk /\ cblk # Null
                  \/ b \in Range(queue)
  BY DEF Live
<1>2. b \in Blocks /\ Filled(b) BY <1>1 DEF IInv, TypeOK, Range, Filled
<1>3. x \in Content(b)' BY <1>1, <1>2
<1> QED BY <1>1, <1>3 DEF Live

-----------------------------------------------------------------------------
(* The steps that move no block and write to none.                         *)
LEMMA StillOrder ==
  ASSUME IInv, Order, NoSilentLoss,
         UNCHANGED <<nbytes, pblock, blk, queue, cblk, wire, kept>>,
         Refilling' = Refilling, parPc' = "get" => parPc = "get",
         cblk # Null => From(cblk)' = From(cblk), Drained'
  PROVE  Order' /\ NoSilentLoss'
<1>1. \A b \in Blocks : (Filled(b)' <=> Filled(b)) /\ From(b)' = From(b)
  BY DEF Filled, From, Blocks, Null
<1>2. Quiet BY <1>1 DEF Quiet, Before
<1>3. Caught' /\ Ahead' /\ Sent' BY <1>2, QuietOrder DEF Order
<1>4. Window' BY DEF Order, Window
<1>5. Live' = Live BY DEF Live, Content
<1> QED BY <1>3, <1>4, <1>5 DEF Order, NoSilentLoss

LEMMA ClockOrder ==
  IInv /\ Order /\ NoSilentLoss /\ (Tick \/ ParPoll \/ ParCompare)
    => Order' /\ NoSilentLoss'
<1> SUFFICES ASSUME IInv, Order, NoSilentLoss, Tick \/ ParPoll \/ ParCompare
             PROVE  Order' /\ NoSilentLoss'
  OBVIOUS
<1>1. UNCHANGED <<nbytes, pblock, blk, queue, cliVars, wire, kept>>
  BY DEF Tick, ParPoll, ParCompare
<1>2. Refilling' = Refilling /\ (parPc' = "get" => parPc = "get")
  BY DEF Tick, ParPoll, ParCompare, Refilling, OSTimeDly
<1>3. Drained' BY <1>1 DEF Order, Drained, cliVars
<1>4. From(cblk)' = From(cblk) BY <1>1 DEF From, cliVars
<1> QED BY <1>1, <1>2, <1>3, <1>4, StillOrder DEF cliVars

(* The client's steps between OSQAccept and OSMemPut, but for the send.    *)
LEMMA CliMoveOrder ==
  IInv /\ Order /\ NoSilentLoss
    /\ (\/ CliWifi_Connect \/ CliReadLen \/ CliTCP_Link \/ CliRelink
        \/ CliGetSocket \/ CliEstablished \/ CliSendHeader \/ CliChunk
        \/ CliSendFails)
    => Order' /\ NoSilentLoss'
<1> DEFINE Move == \/ CliWifi_Connect \/ CliReadLen \/ CliTCP_Link \/ CliRelink
                   \/ CliGetSocket \/ CliEstablished \/ CliSendHeader \/ CliChunk
                   \/ CliSendFails
<1> SUFFICES ASSUME IInv, Order, NoSilentLoss, Move
             PROVE  Order' /\ NoSilentLoss'
  OBVIOUS
<1> USE DEF CliAt
<1>1. UNCHANGED <<nbytes, pblock, parVars, blk, queue, cblk, wire, kept>>
  BY DEF CliWifi_Connect, CliReadLen, CliTCP_Link, CliRelink, CliGetSocket,
         CliEstablished, CliSendHeader, CliChunk, CliSendFails
<1>2. Refilling' = Refilling /\ (parPc' = "get" => parPc = "get")
  BY <1>1 DEF Refilling, parVars
<1>3. From(cblk)' = From(cblk)
  BY <1>1 DEF CliWifi_Connect, CliReadLen, CliTCP_Link, CliRelink, CliGetSocket,
              CliEstablished, CliSendHeader, CliChunk, CliSendFails, From
<1>4. Drained'
  <2>1. CASE CliSendHeader
    <3>1. off' = 0 /\ cliPc' = "chunk" BY <2>1 DEF CliSendHeader
    <3> QED BY <3>1 DEF Drained
  <2>2. CASE CliChunk
    <3>1. /\ cliPc = "chunk" /\ off' = off
          /\ cliPc' \in {"put", "send"} /\ (cliPc' = "put" => len = 0)
      BY <2>2 DEF CliChunk
    <3>2. cblk # Null /\ blk[cblk].len \in Nat /\ off \in Nat
      BY <3>1 DEF IInv, TypeOK, Holding, Msg
    <3>3. off + len = blk[cblk].len BY <3>1 DEF IInv, SendInBounds
    <3> QED BY <1>1, <3>1, <3>2, <3>3 DEF Order, Drained
  <2>3. CASE ~CliSendHeader /\ ~CliChunk
    <3>1. cliPc' \notin {"chunk", "send", "put"}
      BY <2>3 DEF CliWifi_Connect, CliReadLen, CliTCP_Link, CliRelink,
                  CliGetSocket, CliEstablished, CliSendFails
    <3> QED BY <3>1 DEF Drained
  <2> QED BY <2>1, <2>2, <2>3
<1> QED BY <1>1, <1>2, <1>3, <1>4, StillOrder

-----------------------------------------------------------------------------
(* task_parallet *)

(* OSMemGet: the posted block is the queue's, the new one still holds      *)
(* whatever was in it before.                                              *)
LEMMA ParGetOrder ==
  IInv /\ Order /\ NoSilentLoss /\ ParGet => Order' /\ NoSilentLoss'
<1> SUFFICES ASSUME IInv, Order, NoSilentLoss, ParGet
             PROVE  Order' /\ NoSilentLoss'
  OBVIOUS
<1>1. /\ parPc = "get" /\ parPc' # "get" /\ (pblock' = Null \/ Refilling')
      /\ UNCHANGED <<nbytes, blk, queue, cliVars, wire, kept>>
  BY DEF ParGet, OSTimeDly, Refilling
<1>2. ~Refilling /\ queue \in Seq(Blocks) BY <1>1 DEF Refilling, IInv, TypeOK
<1>3. pblock # Null => pblock \in Range(queue)
  <2>1. ASSUME pblock # Null
        PROVE  Len(queue) \in DOMAIN queue /\ queue[Len(queue)] = pblock
    BY <1>1, <1>2, <2>1 DEF Order, Window
  <2> QED BY <2>1 DEF Range
<1>4. \A b \in Blocks : Filled(b)' => Filled(b) /\ From(b)' = From(b)
  BY <1>1 DEF Filled, From, cliVars, Blocks, Null
<1>5. \A a, b \in Blocks : Before(a, b)' => Before(a, b)
  <2> SUFFICES ASSUME NEW a \in Blocks, NEW b \in Blocks, Before(a, b)'
               PROVE  Before(a, b)
    OBVIOUS
  <2>1. Filled(a) /\ Filled(b) /\ a # b BY <1>4 DEF Before
  <2>2. CASE a = cblk BY <2>1, <2>2 DEF Before
  <2>3. CASE b = pblock'
    <3>1. b \in Range(queue) \/ b = cblk
      BY <1>1, <2>3 DEF Before, Filled, cliVars, Blocks, Null
    <3>2. Refilling' /\ pblock' \notin Range(queue) /\ b # cblk
      <4>1. freeList # <<>> /\ pblock' = Head(freeList) /\ Refilling'
        BY <1>1, <2>3 DEF ParGet, Blocks, Null, Refilling
      <4>2. pblock' \in Range(freeList)
        BY <4>1, TakeHead DEF IInv, TypeOK, BlockOwnership
      <4> QED BY <2>3, <4>1, <4>2 DEF IInv, BlockOwnership, Blocks, Null
    <3> QED BY <2>3, <3>1, <3>2
  <2>4. CASE a # cblk /\ b # pblock'
    BY <1>1, <2>1, <2>4 DEF Before, cliVars
  <2> QED BY <2>2, <2>3, <2>4
<1>6. Quiet BY <1>1, <1>4, <1>5 DEF Quiet
<1>7. Caught' /\ Ahead' /\ Sent' BY <1>6, QuietOrder DEF Order
<1>8. Window' /\ Drained' BY <1>1 DEF Order, Window, Drained, cliVars
<1>9. NoSilentLoss'
  <2>1. Live \subseteq Live'
    BY <1>1, <1>3 DEF Live, Content, cliVars
  <2> QED BY <1>1, <2>1 DEF NoSilentLoss
<1> QED BY <1>7, <1>8, <1>9 DEF Order

(* The block being emptied is neither queued nor with the client, and      *)
(* holds nothing when it counts as filled.                                 *)
LEMMA ParRefillOrder ==
  IInv /\ Order /\ NoSilentLoss /\ (ParMemset \/ ParSetLen \/ ParSetFst)
    => Order' /\ NoSilentLoss'
<1> SUFFICES ASSUME IInv, Order, NoSilentLoss, ParMemset \/ ParSetLen \/ ParSetFst
             PROVE  Order' /\ NoSilentLoss'
  OBVIOUS
<1>1. /\ parPc \in {"memset", "setLen", "setFst"} /\ parPc' # "get"
      /\ UNCHANGED <<nbytes, pblock, queue, cliVars, wire, kept>>
  BY DEF ParMemset, ParSetLen, ParSetFst, OSTimeDly
<1>2. /\ pblock \in Blocks /\ pblock \notin Range(queue) /\ pblock # cblk
      /\ blk \in [Blocks -> Msg]
  <2>1. pblock \in Blocks BY <1>1 DEF IInv, TypeOK
  <2>2. pblock # Null BY <2>1 DEF Blocks, Null
  <2> QED BY <1>1, <2>1, <2>2 DEF IInv, TypeOK, BlockOwnership, NoFillWhileSending
<1>3. /\ \A b \in Blocks : b # pblock => blk'[b] = blk[b]
      /\ \/ parPc' = "setLen" /\ Refilling /\ Refilling'
         \/ parPc = "setLen" /\ Refilling /\ ~Refilling' /\ blk'[pblock].len = 0
         \/ /\ parPc = "setFst" /\ ~Refilling /\ ~Refilling'
            /\ blk'[pblock].len = blk[pblock].len
            /\ blk'[pblock].buf = blk[pblock].buf
  <2>1. CASE ParMemset BY <1>2, <2>1 DEF ParMemset, Refilling
  <2>2. CASE ParSetLen BY <1>2, <2>2 DEF ParSetLen, Refilling, Msg
  <2>3. CASE ParSetFst BY <1>2, <2>3 DEF ParSetFst, Refilling, Msg, OSTimeDly
  <2> QED BY <2>1, <2>2, <2>3
<1>4. \A b \in Blocks : Filled(b)' =>
        \/ blk'[b].len = 0
        \/ /\ Filled(b) /\ From(b)' = From(b)
           /\ blk'[b].len = blk[b].len /\ blk'[b].buf = blk[b].buf
  BY <1>1, <1>2, <1>3 DEF Filled, From, cliVars
<1>5. Quiet
  BY <1>1, <1>4 DEF Quiet, Before, cliVars
<1>6. Caught' /\ Ahead' /\ Sent' BY <1>5, QuietOrder DEF Order
<1>7. cblk # Null => cblk \in Blocks /\ blk'[cblk] = blk[cblk]
  BY <1>2, <1>3 DEF IInv, TypeOK
<1>8. Window' /\ Drained'
  <2>1. cliPc \in {"chunk", "send", "put"} => cblk # Null
    BY DEF IInv, TypeOK, Holding
  <2> QED BY <1>1, <1>7, <2>1 DEF Order, Window, Drained, cliVars
<1>9. NoSilentLoss'
  <2>1. \A b \in Blocks : Filled(b) => Content(b) \subseteq Content(b)'
    BY <1>1, <1>2, <1>3 DEF Filled, Content
  <2>2. Live \subseteq Live' BY <1>1, <1>3, <2>1, LiveStays DEF cliVars
  <2> QED BY <1>1, <2>2 DEF NoSilentLoss
<1> QED BY <1>6, <1>8, <1>9 DEF Order

(* OSQPost: pblock was the last block and is now the queue's last.         *)
LEMMA ParPostOrder ==
  IInv /\ Order /\ NoSilentLoss /\ ParPost => Order' /\ NoSilentLoss'
<1> SUFFICES ASSUME IInv, Order, NoSilentLoss, ParPost
             PROVE  Order' /\ NoSilentLoss'
  OBVIOUS
<1>1. /\ parPc = "post" /\ parPc' = "get" /\ pblock \in Blocks
      /\ pblock # Null /\ pblock # cblk /\ queue' = Append(queue, pblock)
      /\ UNCHANGED <<nbytes, pblock, blk, cliVars, wire, kept>>
      /\ queue \in Seq(Blocks)
  <2>1. parPc = "post" /\ pblock \in Blocks /\ pblock # Null /\ queue \in Seq(Blocks)
    BY DEF ParPost, IInv, TypeOK
  <2>2. Len(queue) < MAX_QUE BY <2>1, PostFits DEF PostNeverFails
  <2>3. pblock # cblk BY <2>1 DEF IInv, NoFillWhileSending
  <2> QED BY <2>1, <2>2, <2>3 DEF ParPost
<1>2. /\ Len(queue) \in Nat /\ DOMAIN queue = 1..Len(queue)
      /\ Len(queue') = Len(queue) + 1 /\ DOMAIN queue' = 1..(Len(queue) + 1)
      /\ \A i \in 1..Len(queue) : queue'[i] = queue[i]
      /\ queue'[Len(queue) + 1] = pblock
  BY <1>1
<1>3. Range(queue') = Range(queue) \cup {pblock}
  BY <1>2 DEF Range
<1>4. ~Refilling /\ ~Refilling' BY <1>1 DEF Refilling
<1>5. \A b \in Blocks : (Filled(b)' <=> Filled(b)) /\ From(b)' = From(b)
  BY <1>1, <1>3, <1>4 DEF Filled, From, cliVars
<1>6. \A a, b \in Blocks : Before(a, b)' => Before(a, b)
  <2> SUFFICES ASSUME NEW a \in Blocks, NEW b \in Blocks, Before(a, b)',
                      a # cblk, b # pblock
               PROVE  Before(a, b)
    BY <1>1, <1>5 DEF Before, cliVars
  <2>1. PICK i \in 1..Len(queue'), j \in 1..Len(queue') :
          i < j /\ queue'[i] = a /\ queue'[j] = b
    BY <1>1 DEF Before, cliVars
  <2>2. i \in 1..Len(queue) /\ j \in 1..Len(queue) BY <1>2, <2>1
  <2> QED BY <1>2, <1>5, <2>1, <2>2 DEF Before
<1>7. Quiet BY <1>1, <1>5, <1>6 DEF Quiet
<1>8. Caught' /\ Ahead' /\ Sent' BY <1>7, QuietOrder DEF Order
<1>9. Window' BY <1>1, <1>2 DEF Window
<1>10. Drained' BY <1>1 DEF Order, Drained, cliVars
<1>11. NoSilentLoss'
  <2>1. Live \subseteq Live'
    BY <1>1, <1>3, <1>4 DEF Live, Content, cliVars
  <2> QED BY <1>1, <2>1 DEF NoSilentLoss
<1> QED BY <1>8, <1>9, <1>10, <1>11 DEF Order

-----------------------------------------------------------------------------
(* EXTI9_5_IRQHandler *)

(* The interrupt leaves a filled block as it is, or adds the youngest byte *)
(* to pblock.                                                              *)
Stored ==
  /\ pblock \in Blocks /\ blk'[pblock].len = blk[pblock].len + 1
  /\ \A i \in 0..(blk[pblock].len - 1) : blk'[pblock].buf[i] = blk[pblock].buf[i]
  /\ blk'[pblock].buf[blk[pblock].len] = nbytes + 1
  /\ kept' \subseteq kept \cup {nbytes + 1}

Untouched ==
  /\ pblock \in Blocks =>
       blk'[pblock].len = blk[pblock].len /\ blk'[pblock].buf = blk[pblock].buf
  /\ kept' = kept

LEMMA InterruptStores ==
  ASSUME IInv, EXTI9_5_IRQHandler
  PROVE  /\ nbytes' = nbytes + 1 /\ nbytes \in Nat
         /\ UNCHANGED <<pblock, queue, parPc, cliVars, wire>>
         /\ pblock # Null => pblock # cblk
         /\ \A b \in Blocks : b # pblock => blk'[b] = blk[b]
         /\ Refilling => kept' = kept
         /\ ~Refilling => Stored \/ Untouched
<1>1. /\ nbytes' = nbytes + 1 /\ nbytes \in Nat
      /\ UNCHANGED <<pblock, queue, parPc, cliVars, wire>>
      /\ pblock # Null => pblock # cblk
      /\ blk \in [Blocks -> Msg] /\ pblock \in Blocks \cup {Null}
  BY DEF EXTI9_5_IRQHandler, parVars, IInv, TypeOK, NoFillWhileSending
<1>2. PICK strobe \in BOOLEAN :
        IF pblock # Null /\ strobe THEN Store(pblock, nbytes + 1)
                                   ELSE UNCHANGED <<blk, kept>>
  BY DEF EXTI9_5_IRQHandler
<1>3. CASE ~(pblock # Null /\ strobe)
  BY <1>1, <1>2, <1>3 DEF Untouched
<1>4. CASE pblock # Null /\ strobe
  <2>1. /\ Store(pblock, nbytes + 1) /\ pblock \in Blocks /\ blk[pblock] \in Msg
        /\ blk[pblock].len \in Nat /\ blk[pblock].buf \in [0..(BUF_SIZE - 1) -> Nat]
    BY <1>1, <1>2, <1>4 DEF Msg
  <2>2. CASE blk[pblock].len < BUF_SIZE - 1
    <3> DEFINE f == [blk[pblock].buf EXCEPT ![blk[pblock].len] = nbytes + 1]
               m == [len |-> blk[pblock].len + 1, fst |-> now, buf |-> f]
    <3>1. /\ blk' = [blk EXCEPT ![pblock] = m]
          /\ kept' = IF Refilling THEN kept ELSE kept \cup {nbytes + 1}
      BY <2>1, <2>2 DEF Store
    <3>2. /\ \A i \in 0..(blk[pblock].len - 1) : f[i] = blk[pblock].buf[i]
          /\ f[blk[pblock].len] = nbytes + 1
      BY <2>1, <2>2
    <3>3. m.len = blk[pblock].len + 1 /\ m.buf = f OBVIOUS
    <3>4. blk'[pblock] = m /\ \A b \in Blocks : b # pblock => blk'[b] = blk[b]
      <4> HIDE DEF m
      <4> QED BY <1>1, <2>1, <3>1
    <3> HIDE DEF f, m
    <3> QED BY <1>1, <2>1, <3>1, <3>2, <3>3, <3>4 DEF Stored
  <2>3. CASE ~(blk[pblock].len < BUF_SIZE - 1)
    <3>1. blk' = [blk EXCEPT ![pblock].len = BUF_SIZE - 1] /\ kept' = kept
      BY <2>1, <2>3 DEF Store
    <3>2. blk'[pblock].len = BUF_SIZE - 1 /\ blk'[pblock].buf = blk[pblock].buf
      BY <1>1, <2>1, <3>1 DEF Msg
    <3>3. ~Refilling => blk[pblock].len = BUF_SIZE - 1
      BY <2>1, <2>3, <1>4 DEF IInv, SendInBounds, BlockOwnership
    <3>4. \A b \in Blocks : b # pblock => blk'[b] = blk[b]
      BY <1>1, <3>1
    <3> QED BY <1>1, <3>1, <3>2, <3>3, <3>4 DEF Untouched
  <2> QED BY <2>2, <2>3
<1> QED BY <1>3, <1>4

LEMMA InterruptOrder ==
  IInv /\ Order /\ NoSilentLoss /\ EXTI9_5_IRQHandler => Order' /\ NoSilentLoss'
<1> SUFFICES ASSUME IInv, Order, NoSilentLoss, EXTI9_5_IRQHandler
             PROVE  Order' /\ NoSilentLoss'
  OBVIOUS
<1>1. /\ nbytes' = nbytes + 1 /\ nbytes \in Nat
      /\ UNCHANGED <<pblock, queue, parPc, cliVars, wire>>
      /\ pblock # Null => pblock # cblk
      /\ \A b \in Blocks : b # pblock => blk'[b] = blk[b]
      /\ Refilling => kept' = kept
      /\ ~Refilling => Stored \/ Untouched
  BY InterruptStores
<1>2. /\ \A b : (Filled(b)' <=> Filled(b)) /\ From(b)' = From(b)
      /\ \A a, b : Before(a, b)' <=> Before(a, b)
      /\ Refilling' <=> Refilling
  BY <1>1 DEF Filled, From, Before, Refilling, cliVars
<1>3. cblk # Null => cblk \in Blocks /\ blk'[cblk] = blk[cblk]
  BY <1>1 DEF IInv, TypeOK, Blocks, Null
<1>4. Window' /\ Drained'
  <2>1. cliPc \in {"chunk", "send", "put"} => cblk # Null
    BY DEF IInv, TypeOK, Holding
  <2> QED BY <1>1, <1>3, <2>1 DEF Order, Window, Drained, cliVars
<1>5. /\ \A b \in Blocks : blk[b].len \in Nat
      /\ pblock \in Blocks /\ Refilling => ~Filled(pblock)
  <2>1. pblock \in Blocks => pblock # Null BY DEF Blocks, Null
  <2> QED BY <1>1, <2>1
          DEF IInv, TypeOK, Msg, Filled, Refilling, BlockOwnership
<1>6. CASE Refilling \/ Untouched
  <2>1. /\ kept' = kept
        /\ \A b \in Blocks : Filled(b) =>
             blk'[b].len = blk[b].len /\ blk'[b].buf = blk[b].buf
    BY <1>1, <1>5, <1>6 DEF Untouched
  <2>2. Quiet BY <1>1, <1>2, <2>1 DEF Quiet
  <2>3. Caught' /\ Ahead' /\ Sent' BY <2>2, QuietOrder DEF Order
  <2>4. Live \subseteq Live'
    BY <1>1, <1>2, <2>1, LiveStays DEF Content, cliVars
  <2>5. NoSilentLoss' BY <1>1, <2>1, <2>4 DEF NoSilentLoss
  <2> QED BY <1>4, <2>3, <2>5 DEF Order
<1>7. CASE ~Refilling /\ Stored
  <2>1. /\ pblock \in Blocks /\ pblock # Null /\ blk[pblock].len \in Nat
        /\ blk'[pblock].len = blk[pblock].len + 1
        /\ \A i \in 0..(blk[pblock].len - 1) :
             blk'[pblock].buf[i] = blk[pblock].buf[i]
        /\ blk'[pblock].buf[blk[pblock].len] = nbytes + 1
        /\ kept' \subseteq kept \cup {nbytes + 1}
        /\ Filled(pblock)
    BY <1>5, <1>7 DEF Stored, Filled, Blocks, Null
  <2>2. \A b \in Blocks : Filled(b) => \A i \in 0..(blk'[b].len - 1) :
          \/ i \in 0..(blk[b].len - 1) /\ blk'[b].buf[i] = blk[b].buf[i]
          \/ b = pblock /\ i = blk[b].len /\ blk'[b].buf[i] = nbytes + 1
    BY <1>1, <2>1
  <2>3. \A b \in Blocks : Filled(b) =>
          \A i \in 0..(blk[b].len - 1) : blk[b].buf[i] \in 1..nbytes
    BY DEF Order, Caught
  <2>4. Caught'
    <3> SUFFICES ASSUME NEW b \in Blocks, Filled(b),
                        NEW i \in 0..(blk'[b].len - 1), NEW j \in 0..(i - 1)
                 PROVE  /\ blk'[b].buf[i] \in 1..(nbytes + 1)
                        /\ blk'[b].buf[j] < blk'[b].buf[i]
      <4>1. ASSUME NEW b \in Blocks, Filled(b), NEW i \in 0..(blk'[b].len - 1)
            PROVE  blk'[b].buf[i] \in 1..(nbytes + 1)
        BY <1>1, <2>2, <2>3, <4>1
      <4> QED BY <1>1, <1>2, <4>1 DEF Caught
    <3>1. /\ j \in 0..(blk[b].len - 1) /\ blk'[b].buf[j] = blk[b].buf[j]
          /\ blk[b].buf[j] \in 1..nbytes
      <4>1. blk[b].len \in Nat /\ j \in 0..(blk'[b].len - 1)
        BY <1>1, <1>5, <2>1
      <4>2. j # blk[b].len BY <2>2, <4>1
      <4>3. j \in 0..(blk[b].len - 1) /\ blk'[b].buf[j] = blk[b].buf[j]
        BY <2>2, <4>1, <4>2
      <4> QED BY <2>3, <4>3
    <3>2. CASE i \in 0..(blk[b].len - 1) /\ blk'[b].buf[i] = blk[b].buf[i]
      BY <1>1, <2>3, <3>1, <3>2 DEF Order, Caught
    <3>3. CASE blk'[b].buf[i] = nbytes + 1
      BY <1>1, <3>1, <3>3
    <3> QED BY <2>2, <3>2, <3>3
  <2>5. Ahead'
    <3> SUFFICES ASSUME NEW a \in Blocks, NEW b \in Blocks, Before(a, b),
                        NEW i \in 0..(blk'[a].len - 1), NEW j \in 0..(blk'[b].len - 1)
                 PROVE  blk'[a].buf[i] < blk'[b].buf[j]
      BY <1>2 DEF Ahead
    <3>1. Filled(a) /\ Filled(b) /\ a # b BY DEF Before
    <3>2. a # pblock
      <4> SUFFICES ASSUME a = pblock PROVE FALSE OBVIOUS
      <4>1. PICK k \in 1..Len(queue), l \in 1..Len(queue) :
              k < l /\ queue[k] = pblock /\ queue[l] = b
        BY <1>1, <2>1, <3>1 DEF Before
      <4>2. queue \in Seq(Blocks) /\ IsInjective(queue)
        BY DEF IInv, TypeOK, BlockOwnership
      <4>3. pblock \in Range(queue) BY <4>1, <4>2 DEF Range
      <4>4. queue[Len(queue)] = pblock
        BY <2>1, <4>3 DEF IInv, BlockOwnership, Order, Window
      <4> QED BY <4>1, <4>2, <4>4 DEF IsInjective
    <3>3. blk'[a] = blk[a] BY <1>1, <3>2
    <3>4. CASE j \in 0..(blk[b].len - 1) /\ blk'[b].buf[j] = blk[b].buf[j]
      BY <3>3, <3>4 DEF Order, Ahead
    <3>5. CASE blk'[b].buf[j] = nbytes + 1
      BY <1>1, <2>3, <3>1, <3>3, <3>5
    <3> QED BY <2>2, <3>1, <3>4, <3>5
  <2>6. Sent'
    <3> SUFFICES ASSUME NEW k \in 1..Len(wire)
                 PROVE  /\ wire[k] \in 1..(nbytes + 1)
                        /\ \A l \in 1..(k - 1) : wire[l] < wire[k]
                        /\ \A b \in Blocks : Filled(b) =>
                             \A i \in 0..(blk'[b].len - 1) :
                               i >= From(b) => wire[k] < blk'[b].buf[i]
      BY <1>1, <1>2 DEF Sent
    <3>1. wire[k] \in 1..nbytes BY DEF Order, Sent
    <3>2. \A b \in Blocks : Filled(b) => \A i \in 0..(blk'[b].len - 1) :
            i >= From(b) => wire[k] < blk'[b].buf[i]
      BY <1>1, <2>2, <3>1 DEF Order, Sent
    <3> QED BY <1>1, <3>1, <3>2 DEF Order, Sent
  <2>7. NoSilentLoss'
    <3>1. nbytes + 1 \in Live'
      BY <1>1, <1>2, <1>7, <2>1 DEF Live, Content
    <3>2. \A b \in Blocks : Content(b) \subseteq Content(b)'
      <4>1. \A b \in Blocks : \A i \in 0..(blk[b].len - 1) :
              i \in 0..(blk'[b].len - 1) /\ blk'[b].buf[i] = blk[b].buf[i]
        BY <1>1, <1>5, <2>1
      <4> QED BY <4>1 DEF Content
    <3>3. Live \subseteq Live' BY <1>1, <1>2, <3>2, LiveStays DEF cliVars
    <3> QED BY <1>1, <2>1, <3>1, <3>3 DEF NoSilentLoss
  <2> QED BY <1>4, <2>4, <2>5, <2>6, <2>7 DEF Order
<1> QED BY <1>1, <1>6, <1>7

-----------------------------------------------------------------------------
(* Task_TCP_Client *)

(* OSQAccept: the first block of the queue becomes the client's.           *)
LEMMA CliAcceptOrder ==
  IInv /\ Order /\ NoSilentLoss /\ CliAccept => Order' /\ NoSilentLoss'
<1> SUFFICES ASSUME IInv, Order, NoSilentLoss, CliAccept
             PROVE  Order' /\ NoSilentLoss'
  OBVIOUS
<1>1. /\ ParSleeps /\ cliPc = "accept" /\ cliPc' = "readLen" /\ queue # <<>>
      /\ cblk' = Head(queue) /\ queue' = Tail(queue)
      /\ UNCHANGED <<nbytes, pblock, parPc, blk, wire, kept>>
  BY DEF CliAccept, CliAt, parVars
<1>2. cblk = Null BY <1>1 DEF IInv, TypeOK, Holding
<1>3. ~Refilling /\ ~Refilling' /\ parPc # "get"
      /\ (pblock # Null => pblock \notin Range(queue))
  BY <1>1, ClientRuns DEF Refilling
<1>4. /\ Len(queue) \in Nat \ {0} /\ DOMAIN queue = 1..Len(queue)
      /\ Len(queue') = Len(queue) - 1 /\ cblk' = queue[1] /\ cblk' \in Blocks
      /\ \A i \in 1..Len(queue') : queue'[i] = queue[i + 1]
      /\ Range(queue) = Range(queue') \cup {cblk'} /\ cblk' \notin Range(queue')
  <2>1. queue \in Seq(Blocks) /\ IsInjective(queue)
    BY DEF IInv, TypeOK, BlockOwnership
  <2> QED BY <1>1, <2>1, TakeHead
<1>5. \A b \in Blocks : (Filled(b)' <=> Filled(b)) /\ From(b)' = 0 /\ From(b) = 0
  BY <1>1, <1>2, <1>3, <1>4 DEF Filled, From, Blocks, Null
<1>6. \A a, b \in Blocks : Before(a, b)' => Before(a, b)
  <2> SUFFICES ASSUME NEW a \in Blocks, NEW b \in Blocks, Before(a, b)',
                      b # pblock
               PROVE  Before(a, b)
    BY <1>1, <1>5 DEF Before
  <2>1. Filled(a) /\ Filled(b) /\ a # b BY <1>5 DEF Before
  <2>2. CASE a = cblk'
    <3>1. b \in Range(queue)
      BY <1>2, <2>1 DEF Filled, Blocks, Null
    <3>2. PICK j \in 1..Len(queue) : queue[j] = b BY <1>4, <3>1 DEF Range
    <3>3. 1 \in 1..Len(queue) /\ 1 < j /\ queue[1] = a
      BY <1>4, <2>1, <2>2, <3>2
    <3> QED BY <2>1, <3>2, <3>3 DEF Before
  <2>3. CASE a # cblk'
    <3>1. PICK i \in 1..Len(queue'), j \in 1..Len(queue') :
            i < j /\ queue'[i] = a /\ queue'[j] = b
      BY <1>1, <2>3 DEF Before
    <3>2. /\ i + 1 \in 1..Len(queue) /\ j + 1 \in 1..Len(queue) /\ i + 1 < j + 1
          /\ queue[i + 1] = a /\ queue[j + 1] = b
      BY <1>4, <3>1
    <3> QED BY <2>1, <3>2 DEF Before
  <2> QED BY <2>2, <2>3
<1>7. Quiet BY <1>1, <1>5, <1>6 DEF Quiet
<1>8. Caught' /\ Ahead' /\ Sent' BY <1>7, QuietOrder DEF Order
<1>9. Window' /\ Drained' BY <1>1, <1>3 DEF Window, Drained
<1>10. NoSilentLoss'
  <2>1. cblk' # Null BY <1>4 DEF Blocks, Null
  <2>2. Live \subseteq Live'
    BY <1>1, <1>2, <1>3, <1>4, <2>1 DEF Live, Content
  <2> QED BY <1>1, <2>2 DEF NoSilentLoss
<1> QED BY <1>8, <1>9, <1>10 DEF Order

(* The client lets go of its block: skipped, with its bytes no longer      *)
(* counted as kept, or returned, with all of them sent.                    *)
LEMMA ReleaseOrder ==
  ASSUME IInv, Order, NoSilentLoss, ParSleeps, cblk \in Blocks, cblk' = Null,
         cliPc' = "accept", UNCHANGED <<nbytes, pblock, parPc, queue, wire>>,
         \A b \in Blocks : b # cblk => blk'[b] = blk[b],
         kept' \subseteq kept, kept' \cap Content(cblk) \subseteq Range(wire)
  PROVE  Order' /\ NoSilentLoss'
<1>1. ~Refilling /\ ~Refilling' /\ parPc # "get"
  BY ClientRuns DEF Refilling
<1>2. cblk # pblock /\ cblk \notin Range(queue) /\ cblk # Null
  BY DEF IInv, BlockOwnership, NoFillWhileSending, Blocks, Null
<1>3. \A b \in Blocks : Filled(b)' =>
        b # cblk /\ Filled(b) /\ From(b)' = From(b) /\ blk'[b] = blk[b]
  BY <1>1, <1>2 DEF Filled, From, Blocks, Null
<1>4. \A a, b \in Blocks : Before(a, b)' => Before(a, b)
  BY <1>3 DEF Before, Blocks, Null
<1>5. Quiet BY <1>3, <1>4 DEF Quiet
<1>6. Caught' /\ Ahead' /\ Sent' BY <1>5, QuietOrder DEF Order
<1>7. Window' /\ Drained' BY <1>1 DEF Window, Drained
<1>8. NoSilentLoss'
  <2>1. \A b \in Blocks : b # cblk => Content(b)' = Content(b) BY DEF Content
  <2>2. queue \in Seq(Blocks) /\ pblock \in Blocks \cup {Null}
    BY DEF IInv, TypeOK
  <2>3. Range(queue) \subseteq Blocks BY <2>2 DEF Range
  <2>4. Live \subseteq Live' \cup Content(cblk)
    BY <1>1, <1>2, <2>1, <2>2, <2>3 DEF Live
  <2> QED BY <2>4 DEF NoSilentLoss
<1> QED BY <1>6, <1>7, <1>8 DEF Order

LEMMA CliNotEstablishedOrder ==
  IInv /\ Order /\ NoSilentLoss /\ CliNotEstablished => Order' /\ NoSilentLoss'
<1> SUFFICES ASSUME IInv, Order, NoSilentLoss, CliNotEstablished
             PROVE  Order' /\ NoSilentLoss'
  OBVIOUS
<1>1. /\ ParSleeps /\ cliPc = "state" /\ cliPc' = "accept" /\ cblk' = Null
      /\ kept' = kept \ Content(cblk)
      /\ UNCHANGED <<nbytes, pblock, parPc, blk, queue, wire>>
  BY DEF CliNotEstablished, CliAt, parVars
<1>2. cblk \in Blocks BY <1>1 DEF IInv, TypeOK, Holding
<1> QED BY <1>1, <1>2, ReleaseOrder

LEMMA CliOSMemPutOrder ==
  IInv /\ Order /\ NoSilentLoss /\ CliOSMemPut => Order' /\ NoSilentLoss'
<1> SUFFICES ASSUME IInv, Order, NoSilentLoss, CliOSMemPut
             PROVE  Order' /\ NoSilentLoss'
  OBVIOUS
<1>1. /\ ParSleeps /\ cliPc = "put" /\ cliPc' = "accept" /\ cblk' = Null
      /\ UNCHANGED <<nbytes, pblock, parPc, queue, wire, kept>>
  BY DEF CliOSMemPut, CliAt, parVars
<1>2. cblk \in Blocks /\ blk \in [Blocks -> Msg] /\ blk[cblk].len \in Nat
  BY <1>1 DEF IInv, TypeOK, Holding, Msg
<1>3. \A b \in Blocks : b # cblk => blk'[b] = blk[b]
  BY <1>2 DEF CliOSMemPut
<1>4. Content(cblk) \subseteq Range(wire)
  BY <1>1, <1>2 DEF Order, Drained, Content
<1> QED BY <1>1, <1>2, <1>3, <1>4, ReleaseOrder

(* TCP_Send_Data: the bytes sent are the oldest ones left, and follow      *)
(* whatever is on the wire.                                                *)
LEMMA CliTCP_Send_DataOrder ==
  IInv /\ Order /\ NoSilentLoss /\ CliTCP_Send_Data => Order' /\ NoSilentLoss'
<1> SUFFICES ASSUME IInv, Order, NoSilentLoss, CliTCP_Send_Data
             PROVE  Order' /\ NoSilentLoss'
  OBVIOUS
<1>1. PICK n \in 1..chunk :
        /\ wire' = wire \o [i \in 1..n |-> blk[cblk].buf[off + i - 1]]
        /\ off' = off + n /\ len' = len - n
        /\ cliPc' = IF n < chunk THEN "send" ELSE IF n < len THEN "chunk" ELSE "put"
  BY DEF CliTCP_Send_Data
<1>2. /\ ParSleeps /\ cliPc = "send"
      /\ UNCHANGED <<nbytes, pblock, parPc, blk, queue, cblk, kept>>
  BY DEF CliTCP_Send_Data, CliAt, parVars
<1>3. /\ cblk # Null /\ cblk \in Blocks /\ blk[cblk].len \in Nat
      /\ chunk \in Nat /\ len \in Nat /\ off \in Nat /\ nbytes \in Nat
      /\ chunk <= len /\ off + len = blk[cblk].len
  BY <1>2 DEF IInv, TypeOK, Holding, Msg, SendInBounds
<1>4. n \in Nat \ {0} /\ n <= len /\ off' = off + n
      /\ (cliPc' = "put" => n = len)
      /\ cliPc' \in {"send", "chunk", "put"}
  BY <1>1, <1>3
<1> DEFINE part == [i \in 1..n |-> blk[cblk].buf[off + i - 1]]
<1>5. /\ \A i \in 0..(blk[cblk].len - 1) : blk[cblk].buf[i] \in 1..nbytes
      /\ \A i \in 0..(blk[cblk].len - 1) : \A j \in 0..(i - 1) :
           blk[cblk].buf[j] < blk[cblk].buf[i]
      /\ Filled(cblk)
  BY <1>3 DEF Order, Caught, Filled
<1>6. /\ Len(wire) \in Nat /\ Len(wire') = Len(wire) + n
      /\ DOMAIN wire = 1..Len(wire) /\ DOMAIN wire' = 1..(Len(wire) + n)
      /\ \A k \in 1..Len(wire) : wire'[k] = wire[k]
      /\ \A i \in 1..n : wire'[Len(wire) + i] = blk[cblk].buf[off + i - 1]
  <2>1. wire \in Seq(Nat) BY DEF IInv, TypeOK
  <2>2. part \in Seq(Nat) /\ Len(part) = n
    <3>1. \A i \in 1..n : off + i - 1 \in 0..(blk[cblk].len - 1)
      BY <1>3, <1>4
    <3>2. \A i \in 1..n : blk[cblk].buf[off + i - 1] \in Nat BY <1>5, <3>1
    <3>3. part \in Seq(Nat) /\ DOMAIN part = 1..n BY <1>4, <3>2
    <3> HIDE DEF part
    <3> QED BY <1>4, <3>3
  <2> QED BY <1>1, <2>1, <2>2
<1>7. \A k \in 1..Len(wire') :
        \/ k \in 1..Len(wire) /\ wire'[k] = wire[k]
        \/ \E m \in off..(off + n - 1) :
             k = Len(wire) + (m - off) + 1 /\ wire'[k] = blk[cblk].buf[m]
  <2> SUFFICES ASSUME NEW k \in 1..Len(wire'), k > Len(wire)
               PROVE  \E m \in off..(off + n - 1) :
                        k = Len(wire) + (m - off) + 1 /\ wire'[k] = blk[cblk].buf[m]
    BY <1>6
  <2> DEFINE x == k - Len(wire)
  <2>1. x \in 1..n /\ k = Len(wire) + x BY <1>4, <1>6
  <2>2. wire'[k] = blk[cblk].buf[off + x - 1] BY <1>6, <2>1
  <2>3. /\ off + x - 1 \in off..(off + n - 1)
        /\ k = Len(wire) + ((off + x - 1) - off) + 1
    BY <1>3, <1>4, <1>6, <2>1
  <2> QED BY <2>2, <2>3
<1>8. \A m \in off..(off + n - 1) : m \in 0..(blk[cblk].len - 1)
  BY <1>3, <1>4
<1>9. Caught' /\ Ahead' /\ Window'
  <2>1. Refilling' = Refilling BY <1>2 DEF Refilling
  <2> QED BY <1>2, <2>1 DEF Order, Caught, Ahead, Window, Filled, Before
<1>10. Drained'
  <2>1. \A i \in 0..(blk[cblk].len - 1) :
          i < off + n => blk[cblk].buf[i] \in Range(wire')
    <3> SUFFICES ASSUME NEW i \in 0..(blk[cblk].len - 1), i < off + n
                 PROVE  blk[cblk].buf[i] \in Range(wire')
      OBVIOUS
    <3>1. CASE i < off
      <4>1. blk[cblk].buf[i] \in Range(wire)
        BY <1>2, <3>1 DEF Order, Drained
      <4> QED BY <1>4, <1>6, <4>1 DEF Range
    <3>2. CASE ~(i < off)
      <4> DEFINE x == i - off + 1
      <4>1. x \in 1..n /\ off + x - 1 = i BY <1>3, <1>4, <3>2
      <4>2. wire'[Len(wire) + x] = blk[cblk].buf[i] BY <1>6, <4>1
      <4>3. Len(wire) + x \in DOMAIN wire' BY <1>4, <1>6, <4>1
      <4> HIDE DEF x
      <4> QED BY <4>2, <4>3 DEF Range
    <3> QED BY <3>1, <3>2
  <2>2. cliPc' = "put" => off' = blk[cblk].len BY <1>3, <1>4
  <2> QED BY <1>2, <1>4, <2>1, <2>2 DEF Drained
<1>11. Sent'
  <2> SUFFICES ASSUME NEW k \in 1..Len(wire')
               PROVE  /\ wire'[k] \in 1..nbytes
                      /\ \A l \in 1..(k - 1) : wire'[l] < wire'[k]
                      /\ \A b \in Blocks : Filled(b) =>
                           \A i \in 0..(blk[b].len - 1) :
                             i >= From(b)' => wire'[k] < blk[b].buf[i]
    <3>1. Refilling' = Refilling BY <1>2 DEF Refilling
    <3>2. \A b : Filled(b)' <=> Filled(b) BY <1>2, <3>1 DEF Filled
    <3> QED BY <1>2, <3>2 DEF Sent
  <2>1. \A b \in Blocks : /\ From(b)' = (IF b = cblk THEN off + n ELSE 0)
                          /\ From(b) = (IF b = cblk THEN off ELSE 0)
    BY <1>2, <1>4 DEF From
  <2>2. CASE k \in 1..Len(wire) /\ wire'[k] = wire[k]
    <3>1. \A l \in 1..(k - 1) : l \in 1..Len(wire) /\ wire'[l] = wire[l]
      BY <1>6, <2>2
    <3>2. \A b \in Blocks : From(b)' >= From(b) /\ From(b) \in Nat /\ From(b)' \in Nat
      BY <1>3, <1>4, <2>1
    <3>3. \A b \in Blocks : \A i \in 0..(blk[b].len - 1) :
            i >= From(b)' => i >= From(b)
      BY <3>2
    <3> QED BY <2>2, <3>1, <3>3 DEF Order, Sent
  <2>3. ASSUME NEW m \in off..(off + n - 1),
               k = Len(wire) + (m - off) + 1, wire'[k] = blk[cblk].buf[m]
        PROVE  /\ wire'[k] \in 1..nbytes
               /\ \A l \in 1..(k - 1) : wire'[l] < wire'[k]
               /\ \A b \in Blocks : Filled(b) =>
                    \A i \in 0..(blk[b].len - 1) :
                      i >= From(b)' => wire'[k] < blk[b].buf[i]
    <3>1. m \in 0..(blk[cblk].len - 1) /\ m >= off BY <1>3, <1>8
    <3>2. wire'[k] \in 1..nbytes BY <1>5, <2>3, <3>1
    <3>3. ASSUME NEW l \in 1..(k - 1) PROVE wire'[l] < wire'[k]
      <4>1. l \in 1..Len(wire') BY <1>6, <3>3
      <4>2. CASE l \in 1..Len(wire) /\ wire'[l] = wire[l]
        BY <1>3, <1>5, <2>1, <2>3, <3>1, <4>2 DEF Order, Sent
      <4>3. ASSUME NEW p \in off..(off + n - 1),
                   l = Len(wire) + (p - off) + 1, wire'[l] = blk[cblk].buf[p]
            PROVE  wire'[l] < wire'[k]
        <5>1. p \in 0..(m - 1) BY <1>3, <1>6, <2>3, <3>1, <3>3, <4>3
        <5> QED BY <1>5, <2>3, <3>1, <4>3, <5>1
      <4> QED BY <1>7, <4>1, <4>2, <4>3
    <3>4. ASSUME NEW b \in Blocks, Filled(b),
                 NEW i \in 0..(blk[b].len - 1), i >= From(b)'
          PROVE  wire'[k] < blk[b].buf[i]
      <4>1. CASE b = cblk
        <5>1. m \in 0..(i - 1) BY <1>3, <1>4, <2>1, <3>1, <3>4, <4>1
        <5> QED BY <1>5, <2>3, <3>4, <4>1, <5>1
      <4>2. CASE b # cblk
        <5>1. Before(cblk, b) BY <1>5, <3>4, <4>2 DEF Before
        <5> QED BY <1>3, <2>3, <3>1, <3>4, <5>1 DEF Order, Ahead
      <4> QED BY <4>1, <4>2
    <3> QED BY <3>2, <3>3, <3>4
  <2> QED BY <1>7, <2>2, <2>3
<1>12. NoSilentLoss'
  <2>1. Range(wire) \subseteq Range(wire')
    BY <1>4, <1>6 DEF Range
  <2>2. Live' = Live
    <3>1. Refilling' = Refilling BY <1>2 DEF Refilling
    <3> QED BY <1>2, <3>1 DEF Live, Content
  <2> QED BY <1>2, <2>1, <2>2 DEF NoSilentLoss
<1> QED BY <1>9, <1>10, <1>11, <1>12 DEF Order

-----------------------------------------------------------------------------
LEMMA StepOrder ==
  IInv /\ Order /\ NoSilentLoss /\ [Next]_vars => Order' /\ NoSilentLoss'
<1> SUFFICES ASSUME IInv, Order, NoSilentLoss, [Next]_vars
             PROVE  Order' /\ NoSilentLoss'
  OBVIOUS
<1>1. CASE Tick BY <1>1, ClockOrder
<1>2. CASE EXTI9_5_IRQHandler BY <1>2, InterruptOrder
<1>3. CASE Parallet
  BY <1>3, ParGetOrder, ParRefillOrder, ClockOrder, ParPostOrder, ResetOrder
  DEF Parallet, ParNoBlock
<1>4. CASE TCP_Client
  BY <1>4, CliMoveOrder, CliAcceptOrder, CliNotEstablishedOrder,
     CliTCP_Send_DataOrder, CliOSMemPutOrder, ResetOrder
  DEF TCP_Client, CliGiveUp, CliFailed
<1>5. CASE Watchdog BY <1>5, ResetOrder DEF Watchdog
<1>6. CASE UNCHANGED vars
  <2>1. UNCHANGED <<nbytes, pblock, blk, queue, cblk, wire, kept, parPc, cliPc, off>>
    BY <1>6 DEF vars, parVars, cliVars
  <2>2. Refilling' = Refilling /\ From(cblk)' = From(cblk) /\ Drained'
    BY <2>1 DEF Refilling, From, Order, Drained
  <2> QED BY <2>1, <2>2, StillOrder
<1> QED BY <1>1, <1>2, <1>3, <1>4, <1>5, <1>6 DEF Next

LEMMA OrderKept == Spec => [](Order /\ NoSilentLoss)
<1>1. Init => Order /\ NoSilentLoss BY InitOrder
<1>2. IInv /\ (Order /\ NoSilentLoss) /\ [Next]_vars => (Order /\ NoSilentLoss)'
  BY StepOrder
<1> QED BY <1>1, <1>2, Invariance, PTL DEF Spec

(* The server receives the bytes in the order of their strobes, none twice *)
(* and none made up, whatever EXTI9_5_IRQHandler, the two tasks, the       *)
(* network and the resets do: the contract of send_ex's loop over the      *)
(* blocks of the queue.                                                    *)
THEOREM WireInOrderHolds == Spec => []WireInOrder
<1>1. IInv /\ Order => WireInOrder
  <2> SUFFICES ASSUME IInv, Sent, NEW i \in 1..Len(wire)
               PROVE  wire[i] > (IF i = 1 THEN 0 ELSE wire[i - 1])
    BY DEF WireInOrder, Order
  <2>1. wire[i] \in 1..nbytes /\ \A l \in 1..(i - 1) : wire[l] < wire[i]
    BY DEF Sent
  <2>2. wire \in Seq(Nat) BY DEF IInv, TypeOK
  <2>3. CASE i = 1 BY <2>1, <2>3
  <2>4. CASE i # 1
    <3>1. i - 1 \in 1..(i - 1) /\ i - 1 \in 1..Len(wire) BY <2>4
    <3>2. wire[i - 1] < wire[i] BY <2>1, <3>1
    <3>3. wire[i - 1] \in Nat /\ wire[i] \in Nat BY <2>2, <3>1
    <3> QED BY <2>4, <3>2, <3>3
  <2> QED BY <2>3, <2>4
<1> QED BY <1>1, Invariance, OrderKept, PTL

(* A byte EXTI9_5_IRQHandler has stored is sent or still in a block that   *)
(* will be, unless a reset, a closed connection or the refill cost it.     *)
THEOREM NoSilentLossHolds == Spec => []NoSilentLoss
BY OrderKept, PTL

-----------------------------------------------------------------------------
(* What is sent of one block.  SentWhole is inductive on top of IInv.      *)

(* Since the header the server has been sent the block's first off bytes   *)
(* and nothing else, and the whole block when it is returned.              *)
SentWhole ==
  /\ cliPc \in {"chunk", "send", "put"} =>
       /\ off <= Len(wire)
       /\ \A i \in 1..off : wire[Len(wire) - off + i] = blk[cblk].buf[i - 1]
  /\ cliPc = "put" => off = blk[cblk].len

(* The clock, the interrupt and task_parallet leave the client's block and *)
(* locals alone.                                                           *)
LEMMA ClientUndisturbed ==
  ASSUME IInv,
         \/ Tick \/ EXTI9_5_IRQHandler \/ ParGet \/ ParMemset \/ ParSetLen
         \/ ParSetFst \/ ParPoll \/ ParCompare \/ ParPost
  PROVE  UNCHANGED <<cliVars, wire>> /\ (cblk # Null => blk'[cblk] = blk[cblk])
<1>1. CASE Tick \/ ParGet \/ ParPoll \/ ParCompare \/ ParPost
  BY <1>1 DEF Tick, ParGet, ParPoll, ParCompare, ParPost
<1>2. CASE EXTI9_5_IRQHandler
  BY <1>2, InterruptStores DEF IInv, TypeOK, Blocks, Null
<1>3. CASE ParMemset \/ ParSetLen \/ ParSetFst
  <2>1. /\ pblock # Null /\ blk \in [Blocks -> Msg] /\ cblk \in Blocks \cup {Null}
        /\ pblock # cblk
    BY <1>3 DEF ParMemset, ParSetLen, ParSetFst, IInv, TypeOK, NoFillWhileSending
  <2>2. \A b \in Blocks : b # pblock => blk'[b] = blk[b]
    BY <1>3, <2>1 DEF ParMemset, ParSetLen, ParSetFst
  <2>3. UNCHANGED <<cliVars, wire>>
    BY <1>3 DEF ParMemset, ParSetLen, ParSetFst
  <2> QED BY <2>1, <2>2, <2>3
<1> QED BY <1>1, <1>2, <1>3

(* TCP_Send_Data appends to the wire the next bytes of the block.          *)
LEMMA SendSentWhole ==
  IInv /\ SentWhole /\ CliTCP_Send_Data => SentWhole'
<1> SUFFICES ASSUME IInv, SentWhole, CliTCP_Send_Data PROVE SentWhole'
  OBVIOUS
<1>1. PICK n \in 1..chunk :
        /\ wire' = wire \o [i \in 1..n |-> blk[cblk].buf[off + i - 1]]
        /\ off' = off + n /\ len' = len - n
        /\ cliPc' = IF n < chunk THEN "send" ELSE IF n < len THEN "chunk" ELSE "put"
  BY DEF CliTCP_Send_Data
<1>2. cliPc = "send" /\ ParSleeps /\ UNCHANGED <<blk, cblk>>
  BY DEF CliTCP_Send_Data, CliAt
<1>3. /\ cblk \in Blocks /\ blk[cblk] \in Msg /\ blk[cblk].len \in Nat
      /\ chunk \in Nat /\ len \in Nat /\ off \in Nat /\ wire \in Seq(Nat)
      /\ chunk <= len /\ off + len = blk[cblk].len
      /\ blk[cblk].len < BUF_SIZE
  <2>1. cblk # Null /\ cblk \in Blocks BY <1>2 DEF IInv, TypeOK, Holding
  <2>2. ~Refilling BY <1>2, ClientRuns
  <2>3. cblk \notin Range(freeList) BY <2>1 DEF IInv, BlockOwnership
  <2> QED BY <1>2, <2>1, <2>2, <2>3 DEF IInv, TypeOK, SendInBounds, Msg
<1>4. n \in Nat \ {0} /\ n <= len /\ (cliPc' = "put" => n = len)
  BY <1>1, <1>3
<1> DEFINE part == [i \in 1..n |-> blk[cblk].buf[off + i - 1]]
<1>5. part \in Seq(Nat) /\ Len(part) = n
      /\ \A i \in 1..n : part[i] = blk[cblk].buf[off + i - 1]
  <2>1. \A i \in 1..n : off + i - 1 \in 0..(BUF_SIZE - 1) BY <1>3, <1>4
  <2>2. blk[cblk].buf \in [0..(BUF_SIZE - 1) -> Nat] BY <1>3 DEF Msg
  <2>3. \A i \in 1..n : blk[cblk].buf[off + i - 1] \in Nat BY <2>1, <2>2
  <2>4. part \in Seq(Nat) /\ DOMAIN part = 1..n BY <1>4, <2>3
  <2> QED BY <1>4, <2>4
<1>6. /\ Len(wire') = Len(wire) + n /\ Len(wire) \in Nat
      /\ \A k \in 1..Len(wire) : wire'[k] = wire[k]
      /\ \A i \in 1..n : wire'[Len(wire) + i] = blk[cblk].buf[off + i - 1]
  <2> HIDE DEF part
  <2>1. wire' = wire \o part BY <1>1 DEF part
  <2>2. /\ Len(wire') = Len(wire) + n
        /\ \A k \in 1..(Len(wire) + n) :
             wire'[k] = IF k <= Len(wire) THEN wire[k] ELSE part[k - Len(wire)]
    BY <1>3, <1>5, <2>1, ConcatProperties
  <2>3. Len(wire) \in Nat BY <1>3
  <2>4. ASSUME NEW i \in 1..n
        PROVE  wire'[Len(wire) + i] = blk[cblk].buf[off + i - 1]
    <3>1. /\ Len(wire) + i \in 1..(Len(wire) + n) /\ ~(Len(wire) + i <= Len(wire))
          /\ Len(wire) + i - Len(wire) = i
      BY <1>4, <2>3
    <3>2. wire'[Len(wire) + i] = part[Len(wire) + i - Len(wire)] BY <2>2, <3>1
    <3>3. part[Len(wire) + i - Len(wire)] = part[i] BY <3>1
    <3>4. part[i] = blk[cblk].buf[off + i - 1] BY <1>5
    <3> QED BY <3>2, <3>3, <3>4
  <2> QED BY <1>4, <2>2, <2>3, <2>4
<1>7. off <= Len(wire) /\ \A i \in 1..off : wire[Len(wire) - off + i] = blk[cblk].buf[i - 1]
  BY <1>2 DEF SentWhole
<1>8. off' <= Len(wire') BY <1>1, <1>3, <1>4, <1>6, <1>7
<1>9. ASSUME NEW i \in 1..off'
      PROVE  wire'[Len(wire') - off' + i] = blk[cblk].buf[i - 1]
  <2>1. Len(wire') - off' + i = Len(wire) - off + i /\ i \in 1..(off + n)
    BY <1>1, <1>3, <1>4, <1>6
  <2>2. CASE i <= off
    <3>1. i \in 1..off /\ Len(wire) - off + i \in 1..Len(wire)
      BY <1>3, <1>6, <1>7, <2>1, <2>2
    <3>2. wire'[Len(wire) - off + i] = wire[Len(wire) - off + i] BY <1>6, <3>1
    <3> QED BY <1>7, <2>1, <3>1, <3>2
  <2>3. CASE i > off
    <3> DEFINE x == i - off
    <3>1. x \in 1..n /\ Len(wire) - off + i = Len(wire) + x /\ off + x - 1 = i - 1
      BY <1>3, <1>4, <1>6, <2>1, <2>3
    <3>2. wire'[Len(wire) + x] = blk[cblk].buf[off + x - 1] BY <1>6, <3>1
    <3> HIDE DEF x
    <3> QED BY <2>1, <3>1, <3>2
  <2> QED BY <1>3, <1>4, <2>1, <2>2, <2>3
<1>10. cliPc' = "put" => off' = blk[cblk].len BY <1>1, <1>3, <1>4
<1> QED BY <1>2, <1>8, <1>9, <1>10 DEF SentWhole

LEMMA StepSentWhole == IInv /\ SentWhole /\ [Next]_vars => SentWhole'
<1> SUFFICES ASSUME IInv, SentWhole, [Next]_vars PROVE SentWhole'
  OBVIOUS
<1>0. cliPc \in {"chunk", "send", "put"} => cblk # Null
  BY DEF IInv, TypeOK, Holding
<1>1. CASE \/ Tick \/ EXTI9_5_IRQHandler \/ ParGet \/ ParMemset \/ ParSetLen
           \/ ParSetFst \/ ParPoll \/ ParCompare \/ ParPost
  BY <1>0, <1>1, ClientUndisturbed DEF SentWhole, cliVars
<1>2. CASE CliTCP_Send_Data BY <1>2, SendSentWhole
<1>3. CASE CliSendHeader
  <2>1. off' = 0 /\ cliPc' = "chunk" /\ wire' = wire BY <1>3 DEF CliSendHeader
  <2>2. Len(wire) \in Nat BY DEF IInv, TypeOK
  <2> QED BY <2>1, <2>2 DEF SentWhole
<1>4. CASE CliChunk
  <2>1. /\ cliPc = "chunk" /\ UNCHANGED <<off, wire, blk, cblk>>
        /\ cliPc' \in {"put", "send"} /\ (cliPc' = "put" => len = 0)
    BY <1>4 DEF CliChunk, CliAt
  <2>2. off + len = blk[cblk].len /\ off \in Nat
    BY <2>1 DEF IInv, TypeOK, SendInBounds
  <2>3. cliPc' = "put" => off = blk[cblk].len BY <2>1, <2>2
  <2> QED BY <2>1, <2>3 DEF SentWhole
<1>5. CASE \/ CliWifi_Connect \/ CliAccept \/ CliReadLen \/ CliTCP_Link \/ CliRelink
           \/ CliGetSocket \/ CliEstablished \/ CliNotEstablished \/ CliSendFails
           \/ CliOSMemPut \/ SystemReset
  <2>1. cliPc' \notin {"chunk", "send", "put"}
    BY <1>5 DEF CliWifi_Connect, CliAccept, CliReadLen, CliTCP_Link, CliRelink,
                CliGetSocket, CliEstablished, CliNotEstablished, CliSendFails,
                CliOSMemPut, SystemReset
  <2> QED BY <2>1 DEF SentWhole
<1>6. CASE UNCHANGED vars BY <1>6 DEF SentWhole, vars, cliVars
<1> QED
  BY <1>1, <1>2, <1>3, <1>4, <1>5, <1>6
  DEF Next, Parallet, TCP_Client, ParNoBlock, CliGiveUp, CliFailed, Watchdog

(* Every header is followed by as many bytes as it announces, the ones of  *)
(* its block, before OSMemPut returns the block and another header is      *)
(* sent: the do loop of Task_TCP_Client around send_ex.                    *)
THEOREM WholeBlocksSent == Spec => []SentWhole
<1>1. Init => SentWhole BY DEF Init, SentWhole
<1>2. IInv /\ SentWhole /\ [Next]_vars => SentWhole' BY StepSentWhole
<1> QED BY <1>1, <1>2, Invariance, PTL DEF Spec

-----------------------------------------------------------------------------
(* The blocks nobody has.                                                  *)

Lost == Blocks \ (Range(freeList) \cup Range(queue) \cup {pblock, cblk})

(* A block is lost only by the client finding its connection closed, and   *)
(* then it is that block alone; nothing but a reset brings one back.       *)
OnlySkippedLost ==
  [][Lost' # Lost => \/ Lost' = {}
                     \/ CliNotEstablished /\ Lost' = Lost \cup {cblk}]_vars

(* OSMemGet in task_parallet: the block it leaves is Null or queued.       *)
LEMMA GetLosesNone == IInv /\ Order /\ ParGet => Lost' = Lost
<1> SUFFICES ASSUME IInv, Order, ParGet PROVE Lost' = Lost OBVIOUS
<1>1. /\ parPc = "get" /\ queue \in Seq(Blocks) /\ freeList \in Seq(Blocks)
      /\ IsInjective(freeList) /\ UNCHANGED <<queue, cblk>>
  BY DEF ParGet, IInv, TypeOK, BlockOwnership, cliVars
<1>2. pblock \in {Null} \cup Range(queue)
  <2>1. ASSUME pblock # Null
        PROVE  Len(queue) \in DOMAIN queue /\ queue[Len(queue)] = pblock
    BY <1>1, <2>1 DEF Order, Window
  <2> QED BY <2>1 DEF Range
<1>3. Range(freeList) \cup {Null} = Range(freeList') \cup {pblock', Null}
  <2>1. CASE freeList # <<>>
    <3>1. pblock' = Head(freeList) /\ freeList' = Tail(freeList)
      BY <2>1 DEF ParGet
    <3>2. Range(freeList) = Range(Tail(freeList)) \cup {Head(freeList)}
      BY <1>1, <2>1, TakeHead
    <3> QED BY <3>1, <3>2
  <2>2. CASE freeList = <<>>
    <3>1. pblock' = Null /\ freeList' = freeList BY <2>2 DEF ParGet
    <3> QED BY <3>1
  <2> QED BY <2>1, <2>2
<1>4. Null \notin Blocks BY DEF Blocks, Null
<1> QED BY <1>1, <1>2, <1>3, <1>4 DEF Lost

(* OSMemPut never refuses the block: the free list has room for it.        *)
LEMMA PutLosesNone == IInv /\ CliOSMemPut => Lost' = Lost
<1> SUFFICES ASSUME IInv, CliOSMemPut PROVE Lost' = Lost OBVIOUS
<1>1. /\ cliPc = "put" /\ cblk' = Null /\ UNCHANGED <<pblock, queue>>
  BY DEF CliOSMemPut, CliAt
<1>2. /\ cblk \in Blocks /\ freeList \in Seq(Blocks) /\ IsInjective(freeList)
      /\ cblk \notin Range(freeList)
  BY <1>1 DEF IInv, TypeOK, Holding, BlockOwnership
<1>3. Len(freeList) < MEM_PART BY <1>2, PigeonHole DEF Blocks
<1>4. Range(freeList') = Range(freeList) \cup {cblk}
  BY <1>2, <1>3, PushNew DEF CliOSMemPut
<1>5. Null \notin Blocks BY DEF Blocks, Null
<1> QED BY <1>1, <1>4, <1>5 DEF Lost

(* Blocks leave circulation in one place only, the branch of               *)
(* Task_TCP_Client for a connection that is not established: neither       *)
(* task_parallet's ignored OSQPost, nor OSMemPut, nor any other path of    *)
(* the two tasks drops one.                                                *)
THEOREM LostOnlySkipped == Spec => OnlySkippedLost
<1> DEFINE Named == \/ Lost' = {}
                    \/ CliNotEstablished /\ Lost' = Lost \cup {cblk}
<1>1. IInv /\ Order /\ [Next]_vars => [Lost' # Lost => Named]_vars
  <2> SUFFICES ASSUME IInv, Order, [Next]_vars PROVE Lost' = Lost \/ Named
    OBVIOUS
  <2>1. CASE ParGet BY <2>1, GetLosesNone
  <2>2. CASE CliOSMemPut BY <2>2, PutLosesNone
  <2>3. CASE \/ Tick \/ EXTI9_5_IRQHandler \/ ParMemset \/ ParSetLen \/ ParSetFst
             \/ ParPoll \/ ParCompare
    BY <2>3 DEF Tick, EXTI9_5_IRQHandler, ParMemset, ParSetLen, ParSetFst, ParPoll,
                ParCompare, Lost, cliVars
  <2>4. CASE ParPost
    <3>1. /\ parPc = "post" /\ pblock \in Blocks /\ queue \in Seq(Blocks)
          /\ IsInjective(queue) /\ pblock \notin Range(queue)
          /\ UNCHANGED <<pblock, freeList, cblk>>
      BY <2>4 DEF ParPost, IInv, TypeOK, BlockOwnership, cliVars
    <3>2. queue' = Append(queue, pblock)
      BY <2>4, <3>1, PostFits DEF ParPost, PostNeverFails
    <3>3. Range(queue') = Range(queue) \cup {pblock} BY <3>1, <3>2, AppendNew
    <3> QED BY <3>1, <3>3 DEF Lost
  <2>5. CASE \/ CliWifi_Connect \/ CliReadLen \/ CliTCP_Link \/ CliRelink
             \/ CliGetSocket \/ CliEstablished \/ CliSendHeader \/ CliChunk
             \/ CliTCP_Send_Data \/ CliSendFails
    BY <2>5 DEF CliWifi_Connect, CliReadLen, CliTCP_Link, CliRelink, CliGetSocket,
                CliEstablished, CliSendHeader, CliChunk, CliTCP_Send_Data,
                CliSendFails, CliAt, Lost
  <2>6. CASE CliAccept
    <3>1. /\ cblk = Null /\ queue # <<>> /\ queue \in Seq(Blocks)
          /\ IsInjective(queue) /\ cblk' = Head(queue) /\ queue' = Tail(queue)
          /\ UNCHANGED <<pblock, freeList>>
      BY <2>6 DEF CliAccept, CliAt, IInv, TypeOK, BlockOwnership, Holding
    <3>2. Range(queue) = Range(Tail(queue)) \cup {Head(queue)}
      BY <3>1, TakeHead
    <3>3. Null \notin Blocks BY DEF Blocks, Null
    <3> QED BY <3>1, <3>2, <3>3 DEF Lost
  <2>7. CASE CliNotEstablished
    <3>1. /\ cliPc = "state" /\ cblk' = Null
          /\ UNCHANGED <<pblock, freeList, queue>>
      BY <2>7 DEF CliNotEstablished, CliAt
    <3>2. /\ cblk \in Blocks /\ cblk \notin Range(freeList) \cup Range(queue)
          /\ cblk # pblock
      BY <3>1 DEF IInv, TypeOK, Holding, BlockOwnership, NoFillWhileSending
    <3>3. Null \notin Blocks BY DEF Blocks, Null
    <3> QED BY <2>7, <3>1, <3>2, <3>3 DEF Lost
  <2>8. CASE SystemReset
    <3>1. freeList' = BootBlocks BY <2>8 DEF SystemReset
    <3> QED BY <3>1, BootType DEF Lost
  <2>9. CASE UNCHANGED vars BY <2>9 DEF Lost, vars, cliVars
  <2> QED
    BY <2>1, <2>2, <2>3, <2>4, <2>5, <2>6, <2>7, <2>8, <2>9
    DEF Next, Parallet, TCP_Client, ParNoBlock, CliGiveUp, CliFailed, Watchdog
<1>2. IInv /\ (Order /\ NoSilentLoss) /\ [Next]_vars => [Lost' # Lost => Named]_vars
  BY <1>1
<1> QED BY <1>2, Invariance, OrderKept, PTL DEF Spec, OnlySkippedLost

-----------------------------------------------------------------------------
(* No empty message.  NonEmpty is inductive on top of IInv.                *)

(* A block with a time stamp being polled, or on its way to the server,    *)
(* holds a byte.                                                           *)
NonEmpty ==
  /\ parPc = "poll" /\ pblock # Null => blk[pblock].fst = 0 \/ blk[pblock].len > 0
  /\ parPc \in {"compare", "post"} => blk[pblock].len > 0
  /\ \A b \in Range(queue) : blk[b].len > 0
  /\ cblk # Null => blk[cblk].len > 0

(* A header is sent only for a block with something to send.               *)
NoEmptyMessage == cliPc = "header" => len > 0

(* The interrupt only adds to what a block holds.                          *)
LEMMA InterruptNonEmpty == IInv /\ NonEmpty /\ EXTI9_5_IRQHandler => NonEmpty'
<1> SUFFICES ASSUME IInv, NonEmpty, EXTI9_5_IRQHandler PROVE NonEmpty'
  OBVIOUS
<1>1. /\ blk \in [Blocks -> Msg] /\ pblock \in Blocks \cup {Null} /\ now \in Times
      /\ queue \in Seq(Blocks) /\ cblk \in Blocks \cup {Null}
      /\ \A b \in Blocks : blk[b].len \in Nat
      /\ parPc \in {"compare", "post"} => pblock # Null
  BY DEF IInv, TypeOK, Msg
<1>2. PICK strobe \in BOOLEAN :
        IF pblock # Null /\ strobe THEN Store(pblock, nbytes + 1)
                                   ELSE UNCHANGED <<blk, kept>>
  BY DEF EXTI9_5_IRQHandler
<1>3. UNCHANGED <<pblock, queue, parPc, cblk>>
  BY DEF EXTI9_5_IRQHandler, parVars, cliVars
<1>4. \A b \in Blocks : blk'[b] = blk[b] \/ blk'[b].len > 0
  <2>1. CASE pblock # Null /\ strobe
    <3>1. Store(pblock, nbytes + 1) /\ pblock \in Blocks /\ blk[pblock] \in Msg
          /\ blk[pblock].len \in Nat /\ BUF_SIZE - 1 > 0
      BY <1>1, <1>2, <2>1
    <3>2. CASE blk[pblock].len < BUF_SIZE - 1
      <4> DEFINE m == [len |-> blk[pblock].len + 1, fst |-> now,
                       buf |-> [blk[pblock].buf EXCEPT
                                  ![blk[pblock].len] = nbytes + 1]]
      <4>1. blk' = [blk EXCEPT ![pblock] = m] BY <3>1, <3>2 DEF Store
      <4>2. m.len > 0 BY <3>1
      <4> HIDE DEF m
      <4> QED BY <1>1, <4>1, <4>2
    <3>3. CASE ~(blk[pblock].len < BUF_SIZE - 1)
      <4> DEFINE m == [blk[pblock] EXCEPT !.len = BUF_SIZE - 1]
      <4>1. blk' = [blk EXCEPT ![pblock] = m] BY <1>1, <3>1, <3>3 DEF Store
      <4>2. m.len > 0 BY <3>1 DEF Msg
      <4> HIDE DEF m
      <4> QED BY <1>1, <4>1, <4>2
    <3> QED BY <3>2, <3>3
  <2>2. CASE ~(pblock # Null /\ strobe) BY <1>2, <2>2
  <2> QED BY <2>1, <2>2
<1>5. Range(queue) \subseteq Blocks BY <1>1 DEF Range
<1> QED BY <1>1, <1>3, <1>4, <1>5 DEF NonEmpty

LEMMA StepNonEmpty == IInv /\ NonEmpty /\ [Next]_vars => NonEmpty'
<1> SUFFICES ASSUME IInv, NonEmpty, [Next]_vars PROVE NonEmpty'
  OBVIOUS
<1>0. /\ queue \in Seq(Blocks) /\ pblock \in Blocks \cup {Null}
      /\ cblk \in Blocks \cup {Null} /\ blk \in [Blocks -> Msg]
      /\ Range(queue) \subseteq Blocks
  BY DEF IInv, TypeOK, Range
<1>1. CASE Tick
  BY <1>1 DEF Tick, NonEmpty, cliVars
<1>2. CASE EXTI9_5_IRQHandler BY <1>2, InterruptNonEmpty
<1>3. CASE ParGet
  <2>1. /\ UNCHANGED <<blk, queue, cblk>>
        /\ parPc' \in {"memset", "err"} \/ (parPc' = "poll" /\ pblock' = Null)
    BY <1>3 DEF ParGet, OSTimeDly, cliVars
  <2> QED BY <2>1 DEF NonEmpty
<1>4. CASE ParMemset \/ ParSetLen \/ ParSetFst
  <2>1. /\ parPc \in {"memset", "setLen", "setFst"}
        /\ UNCHANGED <<pblock, queue, cblk>>
        /\ parPc' \in {"setLen", "setFst"}
           \/ (parPc' = "poll" /\ blk' = [blk EXCEPT ![pblock].fst = 0])
    BY <1>4 DEF ParMemset, ParSetLen, ParSetFst, OSTimeDly, cliVars
  <2>2. pblock \in Blocks /\ pblock \notin Range(queue) /\ pblock # cblk
    <3>1. pblock \in Blocks /\ pblock # Null BY <2>1 DEF IInv, TypeOK
    <3> QED BY <2>1, <3>1 DEF IInv, BlockOwnership, NoFillWhileSending
  <2>3. \A b \in Blocks : b # pblock => blk'[b] = blk[b]
    BY <1>0, <1>4, <2>2 DEF ParMemset, ParSetLen, ParSetFst
  <2>4. parPc' = "poll" => blk'[pblock].fst = 0
    BY <1>0, <2>1, <2>2 DEF Msg
  <2> QED BY <1>0, <2>1, <2>2, <2>3, <2>4 DEF NonEmpty
<1>5. CASE ParPoll
  <2>1. /\ parPc = "poll" /\ pblock # Null /\ UNCHANGED <<pblock, blk, queue, cblk>>
        /\ parPc' = "poll" \/ (parPc' = "compare" /\ blk[pblock].fst # 0)
    BY <1>5 DEF ParPoll, OSTimeDly, cliVars
  <2> QED BY <2>1 DEF NonEmpty
<1>6. CASE ParCompare
  <2>1. /\ parPc = "compare" /\ UNCHANGED <<pblock, blk, queue, cblk>>
        /\ parPc' \in {"poll", "post"}
    BY <1>6 DEF ParCompare, OSTimeDly, cliVars
  <2> QED BY <2>1 DEF NonEmpty
<1>7. CASE ParPost
  <2>1. /\ parPc = "post" /\ parPc' = "get" /\ UNCHANGED <<pblock, blk, cblk>>
        /\ pblock \in Blocks /\ pblock \notin Range(queue) /\ IsInjective(queue)
        /\ queue' \in {queue, Append(queue, pblock)}
    BY <1>7 DEF ParPost, cliVars, IInv, TypeOK, BlockOwnership
  <2>2. Range(Append(queue, pblock)) = Range(queue) \cup {pblock}
    BY <1>0, <2>1, AppendNew
  <2> QED BY <2>1, <2>2 DEF NonEmpty
<1>8. CASE CliAccept
  <2>1. /\ queue # <<>> /\ IsInjective(queue)
        /\ cblk' = Head(queue) /\ queue' = Tail(queue)
        /\ UNCHANGED <<pblock, blk, parPc>>
    BY <1>8 DEF CliAccept, CliAt, parVars, IInv, BlockOwnership
  <2>2. Range(queue) = Range(Tail(queue)) \cup {Head(queue)}
    BY <1>0, <2>1, TakeHead
  <2> QED BY <2>1, <2>2 DEF NonEmpty
<1>9. CASE CliOSMemPut
  <2>1. /\ cliPc = "put" /\ cblk' = Null /\ UNCHANGED <<pblock, parPc, queue>>
    BY <1>9 DEF CliOSMemPut, CliAt, parVars
  <2>2. cblk \in Blocks /\ cblk # pblock /\ cblk \notin Range(queue)
    BY <2>1 DEF IInv, TypeOK, Holding, BlockOwnership, NoFillWhileSending
  <2>3. \A b \in Blocks : b # cblk => blk'[b] = blk[b]
    BY <1>0, <1>9, <2>2 DEF CliOSMemPut
  <2>4. parPc \in {"compare", "post"} => pblock # Null BY DEF IInv, TypeOK
  <2> QED BY <1>0, <2>1, <2>2, <2>3, <2>4 DEF NonEmpty
<1>10. CASE \/ CliWifi_Connect \/ CliReadLen \/ CliTCP_Link \/ CliRelink
            \/ CliGetSocket \/ CliEstablished \/ CliNotEstablished \/ CliSendHeader
            \/ CliChunk \/ CliTCP_Send_Data \/ CliSendFails
  <2>1. UNCHANGED <<pblock, parPc, blk, queue>> /\ cblk' \in {cblk, Null}
    BY <1>10
    DEF CliWifi_Connect, CliReadLen, CliTCP_Link, CliRelink, CliGetSocket,
        CliEstablished, CliNotEstablished, CliSendHeader, CliChunk,
        CliTCP_Send_Data, CliSendFails, CliAt, parVars
  <2> QED BY <2>1 DEF NonEmpty
<1>11. CASE SystemReset
  BY <1>11, EmptyQueue DEF SystemReset, NonEmpty
<1>12. CASE UNCHANGED vars BY <1>12 DEF NonEmpty, vars, parVars, cliVars
<1> QED
  BY <1>1, <1>2, <1>3, <1>4, <1>5, <1>6, <1>7, <1>8, <1>9, <1>10, <1>11, <1>12
  DEF Next, Parallet, TCP_Client, ParNoBlock, CliGiveUp, CliFailed, Watchdog

(* The server never gets a header without bytes: task_parallet posts a     *)
(* block only after a byte, and no interleaving of the interrupt with the  *)
(* refill lets an empty one through.                                       *)
THEOREM NoEmptyMessageSent == Spec => []NoEmptyMessage
<1>1. Init => NonEmpty BY EmptyQueue DEF Init, NonEmpty
<1>2. IInv /\ NonEmpty /\ [Next]_vars => NonEmpty' BY StepNonEmpty
<1>3. IInv /\ NonEmpty => NoEmptyMessage
  BY DEF IInv, TypeOK, SendInBounds, NonEmpty, NoEmptyMessage, Holding
<1> QED BY <1>1, <1>2, <1>3, Invariance, PTL DEF Spec

=============================================================================
