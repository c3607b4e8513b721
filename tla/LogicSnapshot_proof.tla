-------------------------- MODULE LogicSnapshot_proof --------------------------
(***************************************************************************)
(* Proofs about LogicSnapshot.  LInv holds of every number of channels: it *)
(* says how far every block is filled (PosInv), that _pending_spills and   *)
(* the manager agree (PendInv), and what a slot may say of a block         *)
(* (SlotInv).  SingleInv is what one channel adds: only full blocks are    *)
(* handed over, so nothing captured later is missing on disk.              *)
(***************************************************************************)
EXTENDS LogicSnapshot, SpillManager_proof, FiniteSetTheorems

Gone == cap_pc \in {"cleared", "stopping"}

InBlock == {"fill", "check", "scan", "enqueue", "next", "endTail"}

\* Where the collect thread is, against the flags and counters of its loops.
PhaseInv ==
    /\ cap_pc = "enqueue" <=> call # "none"
    /\ ending => off > 0 /\ cap_pc \in {"endTail", "check", "scan", "enqueue", "next",
                                        "ended", "crashed"}
    /\ cap_pc = "endTail" => ending
    /\ cap_pc \in InBlock => blk < NBLK
    /\ cap_pc \in InBlock /\ ~ending => left > 0
    /\ cap_pc = "alloc" /\ left = 0 => chan = 0
    /\ off > 0 => blk < NBLK

\* How far channel c has come in block blk.
FilledTo == IF ending THEN PARTS ELSE off + Segment

Level(c) ==
    IF cap_pc \in {"alloc", "fill", "endTail", "overrun"}
    THEN IF c < chan THEN FilledTo ELSE off
    ELSE IF cap_pc \in {"check", "scan", "enqueue", "next"}
         THEN IF c <= chan THEN FilledTo ELSE off
         ELSE IF ending THEN PARTS ELSE off

PosInv ==
    cap_pc # "crashed" =>
        \A x \in Blocks :
            /\ x[2] < blk => fill[x] = PARTS
            /\ x[2] = blk => fill[x] = Level(x[1])
            /\ x[2] > blk => fill[x] = 0

PendInv ==
    IF Gone THEN /\ pending = {} /\ Queued = {} /\ InHand = {} /\ completed = {}
                 /\ slot = [x \in Blocks |-> "none"]
            ELSE pending = UnderWay

SlotInv ==
    /\ SpilledIsIndexed /\ NullIsWhole
    /\ ~Gone => \A x \in Blocks :
          /\ slot[x] = "ram" /\ x \notin pending => index[x] = NoImage
          /\ slot[x] = "none" => \/ fill[x] = PARTS
                                 \/ x \notin pending /\ index[x] = NoImage
    /\ call # "none" => slot[enq_block] = "ram"

LInv == SMInv /\ LTypeOK /\ PhaseInv /\ PosInv /\ PendInv /\ SlotInv
-----------------------------------------------------------------------------
\* A read moves bytes and nothing else.
LEMMA ReadStep ==
    ASSUME LInv, NEW c \in Channels, ReadSpilled(c)
    PROVE  /\ UNCHANGED snap_vars
           /\ UNCHANGED <<write_queue, job, io_pc, completed, failed, disk_usage>>
           /\ UNCHANGED <<call, enq_block, stop_io>>
           /\ Queued' = Queued /\ InHand' = InHand /\ UnderWay' = UnderWay
           /\ \A x \in Blocks : index'[x] = index[x]
                                \/ (index[x] # NoImage /\ index'[x] = Lost)
           /\ \A x \in Blocks : index[x] # NoImage => index'[x] # NoImage
<1>1. ReadSeek(c) /\ SMInv /\ UNCHANGED snap_vars
  BY DEF ReadSpilled, LInv
<1>2. /\ UNCHANGED <<write_queue, job, io_pc, completed, failed, disk_usage>>
      /\ UNCHANGED <<call, enq_block, stop_io>>
  BY <1>1 DEF ReadSeek, call_vars
<1>3. Queued' = Queued /\ InHand' = InHand /\ UnderWay' = UnderWay
  BY <1>2 DEF Queued, InHand, UnderWay
<1>4. QED  BY <1>1, <1>2, <1>3, StreamStep

\* Every step of the composition is a step of the manager or leaves it alone.
LEMMA ManagerStep ==
    ASSUME LInv, [LNext]_all_vars
    PROVE  [Next]_vars
<1>1. CASE IoNext
  <2>1. ASSUME io_pc = "write", IoWrite(fill[job]) PROVE [Next]_vars
    <3>1. fill[job] \in Images
      BY <2>1 DEF LInv, SMInv, ThreadsInv, Working, LTypeOK, SnapTypeOK, Images
    <3>2. QED  BY <2>1, <3>1 DEF Next, IoThread
  <2>2. 0 \in Images
    BY ConstantsAssumption DEF Images, ConstantsAssumption
  <2>3. QED  BY <1>1, <2>1, <2>2 DEF IoNext, DiskWrite, Next, IoThread
<1>2. ASSUME NEW n \in 1 .. MAX_PACKET, AppendBegin(n) PROVE [Next]_vars
  BY <1>2 DEF AppendBegin, CheckPending, Next
<1>3. CASE AllocateNext
  BY <1>3 DEF AllocateNext
<1>4. CASE Fill
  BY <1>4 DEF Fill
<1>5. CASE FillSentinel
  BY <1>5 DEF FillSentinel
<1>6. CASE NextChannel
  BY <1>6 DEF NextChannel
<1>7. CASE AppendEnd
  BY <1>7 DEF AppendEnd, CheckPending, Next
<1>8. CASE SpillNothing
  BY <1>8 DEF SpillNothing
<1>9. CASE SpillCheck
  BY <1>9 DEF SpillCheck, CheckPending, Next
<1>10. CASE SpillRelieved
  BY <1>10 DEF SpillRelieved
<1>11. CASE SpillOldest
  <2>1. PICK x \in Blocks : Oldest(x) /\ EnqueueCall(x)
    BY <1>11 DEF SpillOldest
  <2>2. slot[x] = "ram" /\ x \notin pending /\ ~Gone
    BY <1>11, <2>1 DEF SpillOldest, Oldest, Spillable, Gone
  <2>3. x \notin UnderWay /\ index[x] = NoImage
    BY <2>2 DEF LInv, PendInv, SlotInv
  <2>4. QED  BY <2>1, <2>3 DEF Enqueue, Next
<1>12. CASE SpillTest
  BY <1>12 DEF SpillTest, Next
<1>13. CASE SpillEnqueued
  BY <1>13 DEF SpillEnqueued, Next
<1>14. CASE SpillRefused
  BY <1>14 DEF SpillRefused, Next
<1>15. CASE EndBegin
  BY <1>15 DEF EndBegin
<1>16. CASE EndIdle
  BY <1>16 DEF EndIdle, CheckPending, Next
<1>17. CASE EndTail
  BY <1>17 DEF EndTail
<1>18. CASE EndTailSentinel
  BY <1>18 DEF EndTailSentinel
<1>19. CASE EndNext
  BY <1>19 DEF EndNext
<1>20. CASE Clear
  BY <1>20 DEF Clear, Next
<1>21. CASE DeleteManager
  BY <1>21 DEF DeleteManager, Next
<1>22. CASE NewManager
  BY <1>22 DEF NewManager, Next
<1>23. ASSUME NEW d \in Decoders, StartDecoder(d) PROVE [Next]_vars
  BY <1>23 DEF StartDecoder
<1>24. ASSUME NEW d \in Decoders, GetSamples(d) PROVE [Next]_vars
  BY <1>24 DEF GetSamples
<1>25. ASSUME NEW d \in Decoders, ChunkSent(d) PROVE [Next]_vars
  BY <1>25 DEF ChunkSent
<1>26. CASE DecodeEnd
  BY <1>26 DEF DecodeEnd
<1>27. CASE UNCHANGED all_vars
  BY <1>27 DEF all_vars
<1>28. ASSUME NEW c \in Channels, ReadSpilled(c) PROVE [Next]_vars
  BY <1>28 DEF ReadSpilled, Next
<1>29. QED
  BY <1>1, <1>2, <1>3, <1>4, <1>5, <1>6, <1>7, <1>8, <1>9, <1>10, <1>11, <1>12, <1>13, <1>14, <1>15, <1>16, <1>17, <1>18, <1>19, <1>20, <1>21, <1>22, <1>23, <1>24, <1>25, <1>26, <1>27, <1>28
  DEF LNext, Append1, Spill, End, Restart, Decode

-----------------------------------------------------------------------------
(* Types.                                                                  *)

SnapTypes ==
    /\ slot \in [Blocks -> {"none", "ram", "disk"}]
    /\ pending \subseteq Blocks
    /\ ram_usage \in Int

LEMMA BlocksFinite == IsFiniteSet(Blocks)
<1>1. IsFiniteSet(Channels) /\ IsFiniteSet(BlockIds)
  BY FS_Interval, ConstantsAssumption DEF Channels, BlockIds, ConstantsAssumption
<1>2. QED  BY <1>1, FS_Product DEF Blocks

LEMMA CheckPendingTypes ==
    ASSUME SnapTypes, CheckPending
    PROVE  SnapTypes'
<1> DEFINE freed == {x \in Collected \cap pending : slot[x] = "ram"}
<1>1. freed \subseteq Blocks
  BY DEF SnapTypes
<1>2. Cardinality(freed) \in Nat
  BY <1>1, BlocksFinite, FS_Subset, FS_CardinalityType
<1>3. ram_usage' = ram_usage - Cardinality(freed) /\ pending' = pending \ Collected
  BY DEF CheckPending
<1>4. slot' = [x \in Blocks |-> IF x \in freed THEN "disk" ELSE slot[x]]
  BY DEF CheckPending
<1>5. slot' \in [Blocks -> {"none", "ram", "disk"}]
  BY <1>4 DEF SnapTypes
<1>6. QED  BY <1>2, <1>3, <1>5 DEF SnapTypes

LEMMA NoDecoderType ==
    /\ NoDecoder \in DecoderStates
    /\ [NoDecoder EXCEPT !.state = "ready"] \in DecoderStates
BY ConstantsAssumption
DEF NoDecoder, DecoderStates, Positions, ConstantsAssumption

\* The snapshot's variables keep their types.
LEMMA SnapTypeStep ==
    ASSUME LInv, [LNext]_all_vars
    PROVE  SnapTypeOK'
<1>0. SnapTypeOK /\ SnapTypes /\ PhaseInv
  BY DEF LInv, LTypeOK, SnapTypeOK, SnapTypes
<1> USE <1>0, ConstantsAssumption, SnapshotAssumption
<1> USE DEF SnapTypeOK, SnapTypes, SnapshotAssumption, ConstantsAssumption, PhaseInv, InBlock, snap_vars
<1>1. CASE IoNext
  BY <1>1 DEF IoNext
<1>2. ASSUME NEW n \in 1 .. MAX_PACKET, AppendBegin(n) PROVE SnapTypeOK'
  <2>1. CheckPending /\ able_free' \in BOOLEAN
    BY <1>2 DEF AppendBegin
  <2>2. SnapTypes' /\ 0 \in Channels
    BY <2>1, CheckPendingTypes DEF Channels
  <2>3. received' \in 0 .. TOTAL /\ left' \in 0 .. MAX_PACKET /\ chan' = 0
    BY <1>2 DEF AppendBegin
  <2>4. QED  BY <1>2, <2>1, <2>2, <2>3 DEF AppendBegin
<1>3. CASE AllocateNext
  BY <1>3 DEF AllocateNext, Allocate
<1>4. CASE Fill
  <2>1. fill' = [fill EXCEPT ![<<chan, blk>>] = off + Segment] /\ off + Segment \in 0 .. PARTS
    BY <1>4 DEF Fill, Segment
  <2>2. CASE UNCHANGED <<slot, ram_usage, free_list>>
    BY <1>4, <2>1, <2>2 DEF Fill
  <2>3. CASE DropUniform(<<chan, blk>>)
    <3>1. <<chan, blk>> \in Blocks
      BY <1>4 DEF Fill, Blocks, BlockIds
    <3>2. /\ slot' \in [Blocks -> {"none", "ram", "disk"}]
          /\ ram_usage' \in Int /\ free_list' \subseteq Blocks
      BY <2>3, <3>1 DEF DropUniform
    <3>3. QED  BY <1>4, <2>1, <3>2 DEF Fill
  <2>4. QED  BY <1>4, <2>2, <2>3 DEF Fill
<1>5. CASE FillSentinel
  BY <1>5 DEF FillSentinel
<1>6. CASE NextChannel
  BY <1>6 DEF NextChannel, Segment, Channels
<1>7. CASE AppendEnd
  BY <1>7, CheckPendingTypes DEF AppendEnd
<1>8. CASE SpillNothing
  BY <1>8 DEF SpillNothing
<1>9. CASE SpillCheck
  BY <1>9, CheckPendingTypes DEF SpillCheck
<1>10. CASE SpillRelieved
  BY <1>10 DEF SpillRelieved
<1>11. CASE SpillOldest
  BY <1>11 DEF SpillOldest
<1>12. CASE SpillTest
  BY <1>12 DEF SpillTest
<1>13. CASE SpillEnqueued
  BY <1>13 DEF SpillEnqueued, EnqueuePush, ThreadsInv, LInv, SMInv
<1>14. CASE SpillRefused
  BY <1>14 DEF SpillRefused
<1>15. CASE EndBegin
  BY <1>15 DEF EndBegin
<1>16. CASE EndIdle
  BY <1>16, CheckPendingTypes DEF EndIdle, Channels
<1>17. CASE EndTail
  <2>1. fill' = [fill EXCEPT ![<<chan, blk>>] = PARTS] /\ PARTS \in 0 .. PARTS
    BY <1>17 DEF EndTail
  <2>2. CASE UNCHANGED <<slot, ram_usage, free_list>>
    BY <1>17, <2>1, <2>2 DEF EndTail
  <2>3. CASE DropUniform(<<chan, blk>>)
    <3>1. <<chan, blk>> \in Blocks
      BY <1>17 DEF EndTail, Blocks, BlockIds
    <3>2. /\ slot' \in [Blocks -> {"none", "ram", "disk"}]
          /\ ram_usage' \in Int /\ free_list' \subseteq Blocks
      BY <2>3, <3>1 DEF DropUniform
    <3>3. QED  BY <1>17, <2>1, <3>2 DEF EndTail
  <2>4. QED  BY <1>17, <2>2, <2>3 DEF EndTail
<1>18. CASE EndTailSentinel
  BY <1>18 DEF EndTailSentinel
<1>19. CASE EndNext
  BY <1>19 DEF EndNext, Channels
<1>20. CASE Clear
  <2>1. dec' \in [Decoders -> DecoderStates]
    BY <1>20, NoDecoderType DEF Clear
  <2>2. /\ slot' \in [Blocks -> {"none", "ram", "disk"}]
        /\ fill' \in [Blocks -> 0 .. PARTS]
        /\ cur_ref' \in [Channels -> BlockIds]
        /\ 0 \in Channels
    BY <1>20 DEF Clear, Channels, BlockIds
  <2>3. /\ pending' = {} /\ free_list' = {} /\ ram_usage' = 0 /\ able_free' = TRUE
        /\ mem_failed' = FALSE /\ received' = 0 /\ blk' = 0 /\ off' = 0 /\ chan' = 0
        /\ left' = 0 /\ ending' = FALSE /\ cap_pc' = "cleared"
    BY <1>20 DEF Clear
  <2>4. /\ 0 \in 0 .. TOTAL /\ 0 \in 0 .. NBLK /\ 0 \in 0 .. PARTS - 1
        /\ 0 \in 0 .. MAX_PACKET
    OBVIOUS
  <2>5. QED
    <3>1. slot' \in [Blocks -> {"none", "ram", "disk"}]
      BY <2>1, <2>2, <2>3, <2>4
    <3>2. fill' \in [Blocks -> 0 .. PARTS]
      BY <2>1, <2>2, <2>3, <2>4
    <3>3. pending' \subseteq Blocks /\ free_list' \subseteq Blocks
      BY <2>1, <2>2, <2>3, <2>4
    <3>4. ram_usage' \in Int
      BY <2>1, <2>2, <2>3, <2>4
    <3>5. cur_ref' \in [Channels -> BlockIds]
      BY <2>1, <2>2, <2>3, <2>4
    <3>6. able_free' \in BOOLEAN /\ mem_failed' \in BOOLEAN /\ ending' \in BOOLEAN
      BY <2>1, <2>2, <2>3, <2>4
    <3>7. received' \in 0 .. TOTAL
      BY <2>1, <2>2, <2>3, <2>4
    <3>8. blk' \in 0 .. NBLK /\ off' \in 0 .. PARTS - 1
      BY <2>1, <2>2, <2>3, <2>4
    <3>9. chan' \in Channels
      BY <2>1, <2>2, <2>3, <2>4
    <3>10. left' \in 0 .. MAX_PACKET
      BY <2>1, <2>2, <2>3, <2>4
    <3>11. dec' \in [Decoders -> DecoderStates]
      BY <2>1, <2>2, <2>3, <2>4
    <3>12. QED  BY <2>3, <3>1, <3>2, <3>3, <3>4, <3>5, <3>6, <3>7, <3>8, <3>9, <3>10, <3>11
<1>21. CASE DeleteManager
  BY <1>21 DEF DeleteManager
<1>22. CASE NewManager
  BY <1>22 DEF NewManager
<1>23. ASSUME NEW d \in Decoders, StartDecoder(d) PROVE SnapTypeOK'
  BY <1>23, NoDecoderType DEF StartDecoder
<1>24. ASSUME NEW d \in Decoders, GetSamples(d) PROVE SnapTypeOK'
  BY <1>24 DEF GetSamples, DecoderStates, Positions, ChunkEnd, Before, Blocks, BlockIds
<1>25. ASSUME NEW d \in Decoders, ChunkSent(d) PROVE SnapTypeOK'
  <2>1. [dec[d] EXCEPT !.state = "ready", !.at = dec[d].to, !.hold = NoBlock]
          \in DecoderStates
    BY DEF DecoderStates
  <2>2. QED  BY <1>25, <2>1 DEF ChunkSent
<1>26. CASE DecodeEnd
  BY <1>26 DEF DecodeEnd
<1>27. CASE UNCHANGED all_vars
  BY <1>27 DEF all_vars
<1>28. ASSUME NEW c \in Channels, ReadSpilled(c) PROVE SnapTypeOK'
  BY <1>28 DEF ReadSpilled
<1>29. QED
  BY <1>1, <1>2, <1>3, <1>4, <1>5, <1>6, <1>7, <1>8, <1>9, <1>10, <1>11, <1>12, <1>13, <1>14, <1>15, <1>16, <1>17, <1>18, <1>19, <1>20, <1>21, <1>22, <1>23, <1>24, <1>25, <1>26, <1>27, <1>28
  DEF LNext, Append1, Spill, End, Restart, Decode
\* The collect thread's loops.
LEMMA PhaseStep ==
    ASSUME LInv, [LNext]_all_vars
    PROVE  PhaseInv'
<1> USE ConstantsAssumption, SnapshotAssumption
<1> USE DEF LInv, LTypeOK, SMInv, TypeOK, SnapTypeOK, SnapshotAssumption, ConstantsAssumption, PhaseInv, InBlock, all_vars, snap_vars, vars, call_vars
<1>1. CASE IoNext
  BY <1>1 DEF IoNext, DiskWrite, IoTake, IoWrite, IoWriteFails, IoIndex, IoUsage, IoComplete, IoRetire, IoExit
<1>2. ASSUME NEW n \in 1 .. MAX_PACKET, AppendBegin(n) PROVE PhaseInv'
  BY <1>2 DEF AppendBegin, CheckPending, DrainCompleted, Channels
<1>3. CASE AllocateNext
  BY <1>3 DEF AllocateNext
<1>4. CASE Fill
  BY <1>4 DEF Fill, Segment
<1>5. CASE FillSentinel
  BY <1>5 DEF FillSentinel
<1>6. CASE NextChannel
  BY <1>6 DEF NextChannel, Segment, Channels
<1>7. CASE AppendEnd
  BY <1>7 DEF AppendEnd, CheckPending, DrainCompleted
<1>8. CASE SpillNothing
  BY <1>8 DEF SpillNothing
<1>9. CASE SpillCheck
  BY <1>9 DEF SpillCheck, CheckPending, DrainCompleted
<1>10. CASE SpillRelieved
  BY <1>10 DEF SpillRelieved
<1>11. CASE SpillOldest
  BY <1>11 DEF SpillOldest, EnqueueCall
<1>12. CASE SpillTest
  BY <1>12 DEF SpillTest, EnqueueTest
<1>13. CASE SpillEnqueued
  BY <1>13 DEF SpillEnqueued, EnqueuePush
<1>14. CASE SpillRefused
  BY <1>14 DEF SpillRefused, EnqueueRefuse
<1>15. CASE EndBegin
  BY <1>15 DEF EndBegin
<1>16. CASE EndIdle
  BY <1>16 DEF EndIdle, CheckPending, DrainCompleted
<1>17. CASE EndTail
  BY <1>17 DEF EndTail
<1>18. CASE EndTailSentinel
  BY <1>18 DEF EndTailSentinel
<1>19. CASE EndNext
  BY <1>19 DEF EndNext, Channels
<1>20. CASE Clear
  BY <1>20 DEF Clear, DrainCompleted
<1>21. CASE DeleteManager
  BY <1>21 DEF DeleteManager, Stop
<1>22. CASE NewManager
  BY <1>22 DEF NewManager, Renew
<1>23. ASSUME NEW d \in Decoders, StartDecoder(d) PROVE PhaseInv'
  BY <1>23 DEF StartDecoder
<1>24. ASSUME NEW d \in Decoders, GetSamples(d) PROVE PhaseInv'
  BY <1>24 DEF GetSamples
<1>25. ASSUME NEW d \in Decoders, ChunkSent(d) PROVE PhaseInv'
  BY <1>25 DEF ChunkSent
<1>26. CASE DecodeEnd
  BY <1>26 DEF DecodeEnd
<1>27. CASE UNCHANGED all_vars
  BY <1>27 DEF all_vars
<1>28. ASSUME NEW c \in Channels, ReadSpilled(c) PROVE PhaseInv'
  BY <1>28, ReadStep
<1>29. QED
  BY <1>1, <1>2, <1>3, <1>4, <1>5, <1>6, <1>7, <1>8, <1>9, <1>10, <1>11, <1>12, <1>13, <1>14, <1>15, <1>16, <1>17, <1>18, <1>19, <1>20, <1>21, <1>22, <1>23, <1>24, <1>25, <1>26, <1>27, <1>28
  DEF LNext, Append1, Spill, End, Restart, Decode

\* How far every block is filled.
LEMMA PosStep ==
    ASSUME LInv, [LNext]_all_vars
    PROVE  PosInv'
<1> USE ConstantsAssumption DEF ConstantsAssumption
<1> USE DEF LInv, LTypeOK, SnapTypeOK, PhaseInv, PosInv, Level, FilledTo, Segment, InBlock, Blocks, BlockIds, Channels, snap_vars
<1>1. CASE IoNext
  BY <1>1 DEF IoNext
<1>2. ASSUME NEW n \in 1 .. MAX_PACKET, AppendBegin(n) PROVE PosInv'
  BY <1>2 DEF AppendBegin, Channels
<1>3. CASE AllocateNext
  BY <1>3 DEF AllocateNext
<1>4. CASE Fill
  <2>1. /\ fill' = [fill EXCEPT ![<<chan, blk>>] = FilledTo]
        /\ UNCHANGED <<chan, blk, off, left, ending>>
        /\ cap_pc' \in {"check", "next"}
    BY <1>4 DEF Fill
  <2>2. FilledTo' = FilledTo
    BY <2>1
  <2>3. SUFFICES ASSUME NEW x \in Blocks
                 PROVE  /\ x[2] < blk => fill'[x] = PARTS
                        /\ x[2] = blk => fill'[x] = IF x[1] <= chan THEN FilledTo ELSE off
                        /\ x[2] > blk => fill'[x] = 0
    BY <2>1, <2>2
  <2>4. x = <<x[1], x[2]>> /\ x[1] \in Int /\ x[2] \in Int /\ chan \in Int /\ blk \in Int
    OBVIOUS
  <2>5. CASE x = <<chan, blk>>
    BY <2>1, <2>4, <2>5
  <2>6. CASE x # <<chan, blk>>
    <3>1. fill'[x] = fill[x] /\ (x[2] = blk => x[1] # chan)
      BY <2>1, <2>4, <2>6
    <3>2. x[2] = blk => fill[x] = IF x[1] < chan THEN FilledTo ELSE off
      BY <1>4 DEF Fill
    <3>3. (x[2] < blk => fill[x] = PARTS) /\ (x[2] > blk => fill[x] = 0)
      BY <1>4 DEF Fill
    <3>4. QED  BY <2>4, <3>1, <3>2, <3>3
  <2>7. QED  BY <2>5, <2>6
<1>5. CASE FillSentinel
  BY <1>5 DEF FillSentinel
<1>6. CASE NextChannel
  <2>1. /\ fill' = fill /\ cap_pc' = "alloc" /\ ending' = FALSE /\ ending = FALSE
        /\ chan \in 0 .. NCH - 1
        /\ \A x \in Blocks :
              /\ x[1] \in 0 .. NCH - 1
              /\ x[2] < blk => fill[x] = PARTS
              /\ x[2] = blk => fill[x] = IF x[1] <= chan THEN off + Segment ELSE off
              /\ x[2] > blk => fill[x] = 0
    BY <1>6 DEF NextChannel
  <2>2. CASE chan + 1 < NCH
    BY <1>6, <2>1, <2>2 DEF NextChannel
  <2>3. CASE ~(chan + 1 < NCH)
    <3>1. \A x \in Blocks : x[1] <= chan /\ x[2] \in Int
      BY <2>1, <2>3
    <3>2. chan' = 0 /\ off \in Int /\ Segment \in Int /\ PARTS \in Int /\ blk \in Int
      BY <1>6, <2>3 DEF NextChannel
    <3>3. CASE off + Segment = PARTS
      <4>1. blk' = blk + 1 /\ off' = 0
        BY <1>6, <2>3, <3>3 DEF NextChannel
      <4>2. QED  BY <2>1, <3>1, <3>2, <3>3, <4>1
    <3>4. CASE off + Segment # PARTS
      <4>1. blk' = blk /\ off' = off + Segment
        BY <1>6, <2>3, <3>4 DEF NextChannel
      <4>2. QED  BY <2>1, <3>1, <3>2, <4>1
    <3>5. QED  BY <3>3, <3>4
  <2>4. QED  BY <2>2, <2>3
<1>7. CASE AppendEnd
  BY <1>7 DEF AppendEnd
<1>8. CASE SpillNothing
  BY <1>8 DEF SpillNothing
<1>9. CASE SpillCheck
  BY <1>9 DEF SpillCheck
<1>10. CASE SpillRelieved
  BY <1>10 DEF SpillRelieved
<1>11. CASE SpillOldest
  BY <1>11 DEF SpillOldest
<1>12. CASE SpillTest
  BY <1>12 DEF SpillTest
<1>13. CASE SpillEnqueued
  BY <1>13 DEF SpillEnqueued
<1>14. CASE SpillRefused
  BY <1>14 DEF SpillRefused
<1>15. CASE EndBegin
  BY <1>15 DEF EndBegin
<1>16. CASE EndIdle
  BY <1>16 DEF EndIdle
<1>17. CASE EndTail
  <2>1. /\ fill' = [fill EXCEPT ![<<chan, blk>>] = FilledTo]
        /\ UNCHANGED <<chan, blk, off, left, ending>>
        /\ cap_pc' \in {"check", "next"}
    BY <1>17 DEF EndTail
  <2>2. FilledTo' = FilledTo
    BY <2>1
  <2>3. SUFFICES ASSUME NEW x \in Blocks
                 PROVE  /\ x[2] < blk => fill'[x] = PARTS
                        /\ x[2] = blk => fill'[x] = IF x[1] <= chan THEN FilledTo ELSE off
                        /\ x[2] > blk => fill'[x] = 0
    BY <2>1, <2>2
  <2>4. x = <<x[1], x[2]>> /\ x[1] \in Int /\ x[2] \in Int /\ chan \in Int /\ blk \in Int
    OBVIOUS
  <2>5. CASE x = <<chan, blk>>
    BY <2>1, <2>4, <2>5
  <2>6. CASE x # <<chan, blk>>
    <3>1. fill'[x] = fill[x] /\ (x[2] = blk => x[1] # chan)
      BY <2>1, <2>4, <2>6
    <3>2. x[2] = blk => fill[x] = IF x[1] < chan THEN FilledTo ELSE off
      BY <1>17 DEF EndTail
    <3>3. (x[2] < blk => fill[x] = PARTS) /\ (x[2] > blk => fill[x] = 0)
      BY <1>17 DEF EndTail
    <3>4. QED  BY <2>4, <3>1, <3>2, <3>3
  <2>7. QED  BY <2>5, <2>6
<1>18. CASE EndTailSentinel
  BY <1>18 DEF EndTailSentinel
<1>19. CASE EndNext
  <2>1. /\ UNCHANGED <<fill, blk, off, left, ending>> /\ ending /\ cap_pc = "next"
        /\ FilledTo' = FilledTo
    BY <1>19 DEF EndNext
  <2>2. CASE chan + 1 < NCH
    <3>1. chan' = chan + 1 /\ cap_pc' = "endTail"
      BY <1>19, <2>2 DEF EndNext
    <3>2. \A c \in Channels : c <= chan <=> c < chan + 1
      OBVIOUS
    <3>3. QED  BY <2>1, <3>1, <3>2
  <2>3. CASE ~(chan + 1 < NCH)
    <3>1. chan' = chan /\ cap_pc' = "ended"
      BY <1>19, <2>3 DEF EndNext
    <3>2. \A c \in Channels : c <= chan
      BY <2>3
    <3>3. QED  BY <2>1, <3>1, <3>2
  <2>4. QED  BY <2>2, <2>3
<1>20. CASE Clear
  BY <1>20 DEF Clear
<1>21. CASE DeleteManager
  BY <1>21 DEF DeleteManager
<1>22. CASE NewManager
  BY <1>22 DEF NewManager
<1>23. ASSUME NEW d \in Decoders, StartDecoder(d) PROVE PosInv'
  BY <1>23 DEF StartDecoder
<1>24. ASSUME NEW d \in Decoders, GetSamples(d) PROVE PosInv'
  BY <1>24 DEF GetSamples
<1>25. ASSUME NEW d \in Decoders, ChunkSent(d) PROVE PosInv'
  BY <1>25 DEF ChunkSent
<1>26. CASE DecodeEnd
  BY <1>26 DEF DecodeEnd
<1>27. CASE UNCHANGED all_vars
  BY <1>27 DEF all_vars
<1>28. ASSUME NEW c \in Channels, ReadSpilled(c) PROVE PosInv'
  BY <1>28 DEF ReadSpilled
<1>29. QED
  BY <1>1, <1>2, <1>3, <1>4, <1>5, <1>6, <1>7, <1>8, <1>9, <1>10, <1>11, <1>12, <1>13, <1>14, <1>15, <1>16, <1>17, <1>18, <1>19, <1>20, <1>21, <1>22, <1>23, <1>24, <1>25, <1>26, <1>27, <1>28
  DEF LNext, Append1, Spill, End, Restart, Decode

-----------------------------------------------------------------------------
(* _pending_spills and the manager.                                        *)

LEMMA QuietUnderWay ==
    ASSUME UNCHANGED <<write_queue, job, io_pc, completed, failed>>
    PROVE  UnderWay' = UnderWay
BY DEF UnderWay, Queued, InHand

LEMMA JobContents ==
    ASSUME LInv, io_pc = "write"
    PROVE  job \in Blocks /\ fill[job] \in Images
BY DEF LInv, SMInv, ThreadsInv, Working, LTypeOK, SnapTypeOK, Images

LEMMA CheckUnderWay ==
    ASSUME SMInv, pending = UnderWay, CheckPending
    PROVE  pending' = UnderWay'
<1>1. CASE pending = {}
  <2>1. pending' = {} /\ UNCHANGED vars
    BY <1>1 DEF CheckPending
  <2>2. QED  BY <1>1, <2>1, QuietUnderWay DEF vars
<1>2. CASE pending # {}
  BY <1>2, DrainUnderWay DEF CheckPending, Collected
<1>3. QED  BY <1>1, <1>2

\* What is pending is what the manager has not reported.
LEMMA PendStep ==
    ASSUME LInv, [LNext]_all_vars
    PROVE  PendInv'
<1> USE DEF LInv, PendInv, Gone, snap_vars, vars, io_vars, call_vars
<1>1. CASE IoNext
  <2>1. CASE ~Gone
    BY <1>1, <2>1, IoUnderWay, JobContents DEF IoNext, DiskWrite
  <2>2. CASE Gone
    <3>1. write_queue = <<>> /\ io_pc \notin Working
      <4>1. write_queue \in Seq(Blocks)
        BY DEF SMInv, TypeOK
      <4>2. write_queue # <<>> => Head(write_queue) \in Queued
        BY <4>1 DEF Queued
      <4>3. QED  BY <2>2, <4>2 DEF InHand, Working
    <3>2. IoRetire \/ IoExit
      BY <1>1, <3>1
      DEF IoNext, DiskWrite, IoTake, IoWrite, IoWriteFails, IoIndex, IoUsage, IoComplete,
          Working
    <3>3. QED  BY <1>1, <2>2, <3>2 DEF IoNext, IoRetire, IoExit, Queued, InHand
  <2>3. QED  BY <2>1, <2>2
<1>2. ASSUME NEW n \in 1 .. MAX_PACKET, AppendBegin(n) PROVE PendInv'
  BY <1>2, CheckUnderWay DEF AppendBegin
<1>3. CASE AllocateNext
  BY <1>3, QuietUnderWay DEF AllocateNext, Queued, InHand
<1>4. CASE Fill
  BY <1>4, QuietUnderWay DEF Fill, Queued, InHand
<1>5. CASE FillSentinel
  BY <1>5, QuietUnderWay DEF FillSentinel, Queued, InHand
<1>6. CASE NextChannel
  BY <1>6, QuietUnderWay DEF NextChannel, Queued, InHand
<1>7. CASE AppendEnd
  BY <1>7, CheckUnderWay DEF AppendEnd
<1>8. CASE SpillNothing
  BY <1>8, QuietUnderWay DEF SpillNothing, Queued, InHand
<1>9. CASE SpillCheck
  BY <1>9, CheckUnderWay DEF SpillCheck
<1>10. CASE SpillRelieved
  BY <1>10, QuietUnderWay DEF SpillRelieved, Queued, InHand
<1>11. CASE SpillOldest
  BY <1>11, QuietUnderWay DEF SpillOldest, EnqueueCall
<1>12. CASE SpillTest
  BY <1>12, QuietUnderWay DEF SpillTest, EnqueueTest
<1>13. CASE SpillEnqueued
  BY <1>13, PushUnderWay DEF SpillEnqueued
<1>14. CASE SpillRefused
  BY <1>14, QuietUnderWay DEF SpillRefused, EnqueueRefuse
<1>15. CASE EndBegin
  BY <1>15, QuietUnderWay DEF EndBegin, Queued, InHand
<1>16. CASE EndIdle
  BY <1>16, CheckUnderWay DEF EndIdle
<1>17. CASE EndTail
  BY <1>17, QuietUnderWay DEF EndTail, Queued, InHand
<1>18. CASE EndTailSentinel
  BY <1>18, QuietUnderWay DEF EndTailSentinel, Queued, InHand
<1>19. CASE EndNext
  BY <1>19, QuietUnderWay DEF EndNext, Queued, InHand
<1>20. CASE Clear
  <2>1. Queued = {} /\ InHand = {}
    BY <1>20 DEF Clear, Idle, active_writes, Queued, InHand
  <2>2. pending = UnderWay
    BY <1>20 DEF Clear
  <2>3. completed' = {} /\ UNCHANGED <<write_queue, io_pc, job>>
    BY <1>20, <2>2 DEF Clear, DrainCompleted, UnderWay
  <2>4. QED  BY <1>20, <2>1, <2>3 DEF Clear, Queued, InHand
<1>21. CASE DeleteManager
  BY <1>21 DEF DeleteManager, Stop, Queued, InHand
<1>22. CASE NewManager
  <2>1. Len(write_queue') = 0 /\ io_pc' \in {"wait", "absent"}
        /\ completed' = {} /\ failed' = {} /\ pending' = {} /\ ~Gone'
    BY <1>22, ConstantsAssumption DEF NewManager, Renew, ConstantsAssumption
  <2>2. UnderWay' = {}
    BY <2>1 DEF UnderWay, Queued, InHand
  <2>3. QED  BY <2>1, <2>2
<1>23. ASSUME NEW d \in Decoders, StartDecoder(d) PROVE PendInv'
  BY <1>23, QuietUnderWay DEF StartDecoder, Queued, InHand
<1>24. ASSUME NEW d \in Decoders, GetSamples(d) PROVE PendInv'
  BY <1>24, QuietUnderWay DEF GetSamples, Queued, InHand
<1>25. ASSUME NEW d \in Decoders, ChunkSent(d) PROVE PendInv'
  BY <1>25, QuietUnderWay DEF ChunkSent, Queued, InHand
<1>26. CASE DecodeEnd
  BY <1>26, QuietUnderWay DEF DecodeEnd, Queued, InHand
<1>27. CASE UNCHANGED all_vars
  BY <1>27, QuietUnderWay DEF all_vars, Queued, InHand
<1>28. ASSUME NEW c \in Channels, ReadSpilled(c) PROVE PendInv'
  BY <1>28, ReadStep
<1>29. QED
  BY <1>1, <1>2, <1>3, <1>4, <1>5, <1>6, <1>7, <1>8, <1>9, <1>10, <1>11, <1>12, <1>13, <1>14, <1>15, <1>16, <1>17, <1>18, <1>19, <1>20, <1>21, <1>22, <1>23, <1>24, <1>25, <1>26, <1>27, <1>28
  DEF LNext, Append1, Spill, End, Restart, Decode

-----------------------------------------------------------------------------
(* What a slot may say of a block.                                         *)

LEMMA CurrentBlock ==
    ASSUME LInv, cap_pc \in InBlock
    PROVE  <<chan, blk>> \in Blocks
<1>1. chan \in Channels /\ blk \in 0 .. NBLK /\ blk < NBLK
  BY DEF LInv, LTypeOK, SnapTypeOK, PhaseInv
<1>2. blk \in BlockIds
  BY <1>1, ConstantsAssumption DEF BlockIds, ConstantsAssumption
<1>3. QED  BY <1>1, <1>2 DEF Blocks

LEMMA CheckSlots ==
    ASSUME SMInv, SlotInv, LTypeOK, CheckPending, UNCHANGED fill, ~Gone, ~Gone', call = "none"
    PROVE  SlotInv'
<1> DEFINE freed == {x \in Collected \cap pending : slot[x] = "ram"}
<1>1. \A x \in Blocks : slot'[x] = IF x \in freed THEN "disk" ELSE slot[x]
  BY DEF CheckPending
<1>2. /\ UNCHANGED <<index, call>>
      /\ pending' = pending \ Collected
  BY DEF CheckPending, DrainCompleted, vars, io_vars, call_vars
<1>3. \A x \in freed : index[x] # NoImage
  BY DEF Collected, SMInv, CompletedIsIndexed
<1>4. QED
  BY <1>1, <1>2, <1>3 DEF SlotInv, SpilledIsIndexed, NullIsWhole

\* A slot that says "on disk", and one that does not.
LEMMA SlotStep ==
    ASSUME LInv, [LNext]_all_vars
    PROVE  SlotInv'
<1> USE DEF LInv, SlotInv, SpilledIsIndexed, NullIsWhole, Gone, LTypeOK, SnapTypeOK, SMInv, TypeOK, PhaseInv, snap_vars, vars, io_vars, call_vars
<1>1. CASE IoNext
  <2>1. /\ UNCHANGED snap_vars /\ UNCHANGED <<call, enq_block>>
        /\ \A x \in Blocks : \/ index'[x] = index[x]
                             \/ x \in UnderWay /\ index'[x] # NoImage
                             \/ index[x] # NoImage /\ index'[x] # NoImage
    <3>1. CASE IoIndex
      BY <1>1, <3>1, NoImageAssumption DEF IoNext, IoIndex, ThreadsInv, UnderWay, InHand
    <3>2. CASE IoTake \/ IoUsage \/ IoComplete \/ IoRetire \/ IoExit
      BY <1>1, <3>2 DEF IoNext, IoTake, IoUsage, IoComplete, IoRetire, IoExit
    <3>3. CASE IoWriteFails \/ (io_pc = "write" /\ IoWrite(fill[job]))
      <4>1. fill[job] \in Images /\ SMInv
        BY <3>3 DEF IoWriteFails, ThreadsInv, Working, Images
      <4>2. QED  BY <1>1, <3>3, <4>1, StreamStep DEF IoNext, IoWrite, IoWriteFails
    <3>4. QED  BY <1>1, <3>1, <3>2, <3>3 DEF IoNext, DiskWrite
  <2>2. ~Gone => pending = UnderWay
    BY DEF PendInv
  <2>3. QED  BY <2>1, <2>2
<1>2. ASSUME NEW n \in 1 .. MAX_PACKET, AppendBegin(n) PROVE SlotInv'
  BY <1>2, CheckSlots DEF AppendBegin
<1>3. CASE AllocateNext
  <2>1. CASE slot' = slot
    BY <1>3, <2>1 DEF AllocateNext
  <2>2. CASE slot' # slot
    <3>1. /\ <<chan, blk>> \in Blocks /\ slot[<<chan, blk>>] = "none" /\ cap_pc = "alloc"
          /\ slot' = [slot EXCEPT ![<<chan, blk>>] = "ram"]
      BY <1>3, <2>2 DEF AllocateNext, Allocate, Blocks, BlockIds
    <3>2. fill[<<chan, blk>>] = off /\ off # PARTS
      <4>1. fill[<<chan, blk>>] = Level(chan)
        BY <3>1 DEF PosInv
      <4>2. chan \in Int /\ off \in 0 .. PARTS - 1 /\ PARTS \in Nat
        BY ConstantsAssumption DEF Channels, ConstantsAssumption
      <4>3. QED  BY <3>1, <4>1, <4>2 DEF Level
    <3>3. <<chan, blk>> \notin pending /\ index[<<chan, blk>>] = NoImage
      BY <3>1, <3>2
    <3>4. QED  BY <1>3, <3>1, <3>3 DEF AllocateNext
  <2>3. QED  BY <2>1, <2>2
<1>4. CASE Fill
  <2>1. <<chan, blk>> \in Blocks
    BY <1>4, CurrentBlock DEF Fill, InBlock
  <2>2. call = "none" /\ ~Gone /\ ~Gone'
    BY <1>4 DEF Fill
  <2>3. ending <=> cap_pc = "endTail"
    BY <1>4 DEF Fill
  <2>4. fill' = [fill EXCEPT ![<<chan, blk>>] = FilledTo]
    BY <1>4, <2>3 DEF Fill, FilledTo
  <2>5. /\ fill' = [fill EXCEPT ![<<chan, blk>>] = FilledTo]
        /\ slot[<<chan, blk>>] = "ram" /\ call = "none" /\ <<chan, blk>> \in Blocks
        /\ UNCHANGED <<vars, pending>> /\ ~Gone /\ ~Gone'
    BY <1>4, <2>1, <2>2, <2>4 DEF Fill
  <2>6. CASE slot' = slot
    BY <2>5, <2>6
  <2>7. CASE slot' = [slot EXCEPT ![<<chan, blk>>] = "none"] /\ FilledTo = PARTS
    BY <2>5, <2>7
  <2>8. QED  BY <1>4, <2>6, <2>7 DEF Fill, FilledTo, DropUniform
<1>5. CASE FillSentinel
  BY <1>5 DEF FillSentinel
<1>6. CASE NextChannel
  BY <1>6 DEF NextChannel
<1>7. CASE AppendEnd
  BY <1>7, CheckSlots DEF AppendEnd
<1>8. CASE SpillNothing
  BY <1>8 DEF SpillNothing
<1>9. CASE SpillCheck
  BY <1>9, CheckSlots DEF SpillCheck
<1>10. CASE SpillRelieved
  BY <1>10 DEF SpillRelieved
<1>11. CASE SpillOldest
  BY <1>11 DEF SpillOldest, EnqueueCall, Oldest, Spillable
<1>12. CASE SpillTest
  BY <1>12 DEF SpillTest, EnqueueTest
<1>13. CASE SpillEnqueued
  BY <1>13 DEF SpillEnqueued, EnqueuePush
<1>14. CASE SpillRefused
  BY <1>14 DEF SpillRefused, EnqueueRefuse
<1>15. CASE EndBegin
  BY <1>15 DEF EndBegin
<1>16. CASE EndIdle
  BY <1>16, CheckSlots DEF EndIdle
<1>17. CASE EndTail
  <2>1. <<chan, blk>> \in Blocks
    BY <1>17, CurrentBlock DEF EndTail, InBlock
  <2>2. call = "none" /\ ~Gone /\ ~Gone'
    BY <1>17 DEF EndTail
  <2>3. ending <=> cap_pc = "endTail"
    BY <1>17 DEF EndTail
  <2>4. fill' = [fill EXCEPT ![<<chan, blk>>] = FilledTo]
    BY <1>17, <2>3 DEF EndTail, FilledTo
  <2>5. /\ fill' = [fill EXCEPT ![<<chan, blk>>] = FilledTo]
        /\ slot[<<chan, blk>>] = "ram" /\ call = "none" /\ <<chan, blk>> \in Blocks
        /\ UNCHANGED <<vars, pending>> /\ ~Gone /\ ~Gone'
    BY <1>17, <2>1, <2>2, <2>4 DEF EndTail
  <2>6. CASE slot' = slot
    BY <2>5, <2>6
  <2>7. CASE slot' = [slot EXCEPT ![<<chan, blk>>] = "none"] /\ FilledTo = PARTS
    BY <2>5, <2>7
  <2>8. QED  BY <1>17, <2>6, <2>7 DEF EndTail, FilledTo, DropUniform
<1>18. CASE EndTailSentinel
  BY <1>18 DEF EndTailSentinel
<1>19. CASE EndNext
  BY <1>19 DEF EndNext
<1>20. CASE Clear
  BY <1>20 DEF Clear, DrainCompleted
<1>21. CASE DeleteManager
  BY <1>21 DEF DeleteManager, Stop, PendInv
<1>22. CASE NewManager
  BY <1>22 DEF NewManager, Renew, PendInv
<1>23. ASSUME NEW d \in Decoders, StartDecoder(d) PROVE SlotInv'
  BY <1>23 DEF StartDecoder
<1>24. ASSUME NEW d \in Decoders, GetSamples(d) PROVE SlotInv'
  BY <1>24 DEF GetSamples
<1>25. ASSUME NEW d \in Decoders, ChunkSent(d) PROVE SlotInv'
  BY <1>25 DEF ChunkSent
<1>26. CASE DecodeEnd
  BY <1>26 DEF DecodeEnd
<1>27. CASE UNCHANGED all_vars
  BY <1>27 DEF all_vars
<1>28. ASSUME NEW c \in Channels, ReadSpilled(c) PROVE SlotInv'
  BY <1>28, ReadStep
<1>29. QED
  BY <1>1, <1>2, <1>3, <1>4, <1>5, <1>6, <1>7, <1>8, <1>9, <1>10, <1>11, <1>12, <1>13, <1>14, <1>15, <1>16, <1>17, <1>18, <1>19, <1>20, <1>21, <1>22, <1>23, <1>24, <1>25, <1>26, <1>27, <1>28
  DEF LNext, Append1, Spill, End, Restart, Decode

-----------------------------------------------------------------------------
LEMMA LInvInit ==
    ASSUME LInit
    PROVE  LInv
<1>1. SMInv
  BY SMInvInit DEF LInit
<1>2. SnapTypeOK
  <2>1. /\ slot \in [Blocks -> {"none", "ram", "disk"}]
        /\ fill \in [Blocks -> 0 .. PARTS]
        /\ cur_ref \in [Channels -> BlockIds]
        /\ 0 \in Channels
    BY ConstantsAssumption
    DEF LInit, SnapInit, Channels, BlockIds, ConstantsAssumption
  <2>2. /\ 0 \in 0 .. TOTAL /\ 0 \in 0 .. NBLK /\ 0 \in 0 .. PARTS - 1
        /\ 0 \in 0 .. MAX_PACKET
    BY ConstantsAssumption, SnapshotAssumption DEF ConstantsAssumption, SnapshotAssumption
  <2>3. dec \in [Decoders -> DecoderStates]
    BY NoDecoderType DEF LInit, SnapInit
  <2>4. /\ pending = {} /\ free_list = {} /\ ram_usage = 0 /\ able_free = TRUE
        /\ mem_failed = FALSE /\ received = 0 /\ blk = 0 /\ off = 0 /\ chan = 0
        /\ left = 0 /\ ending = FALSE /\ cap_pc = "idle"
    BY DEF LInit, SnapInit
  <2>5. pending \subseteq Blocks /\ free_list \subseteq Blocks /\ ram_usage \in Int
    BY <2>4
  <2>6. /\ able_free \in BOOLEAN /\ mem_failed \in BOOLEAN /\ ending \in BOOLEAN
        /\ received \in 0 .. TOTAL /\ blk \in 0 .. NBLK /\ off \in 0 .. PARTS - 1
        /\ chan \in Channels /\ left \in 0 .. MAX_PACKET
    BY <2>1, <2>2, <2>4
  <2>7. QED  BY <2>1, <2>3, <2>4, <2>5, <2>6 DEF SnapTypeOK
<1>3. /\ Queued = {} /\ InHand = {} /\ call = "none" /\ completed = {} /\ failed = {}
      /\ index = [x \in Blocks |-> NoImage]
  BY ConstantsAssumption DEF LInit, Init, Queued, InHand, ConstantsAssumption
<1>4. PhaseInv /\ PosInv
  BY <1>3, ConstantsAssumption
  DEF LInit, SnapInit, PhaseInv, PosInv, Level, InBlock, Blocks, BlockIds, ConstantsAssumption
<1>5. PendInv
  BY <1>3 DEF LInit, SnapInit, PendInv, Gone, UnderWay
<1>6. SlotInv
  BY <1>3 DEF LInit, SnapInit, SlotInv, SpilledIsIndexed, NullIsWhole
<1>7. QED  BY <1>1, <1>2, <1>4, <1>5, <1>6 DEF LInv, LTypeOK, SMInv

LEMMA LInvStep ==
    ASSUME LInv, [LNext]_all_vars
    PROVE  LInv'
<1>1. SMInv'
  BY ManagerStep, SMInvStep DEF LInv
<1>2. QED
  BY <1>1, SnapTypeStep, PhaseStep, PosStep, PendStep, SlotStep DEF LInv, LTypeOK, SMInv

THEOREM LInvariant == LSpec => []LInv
<1>1. LInit => LInv
  BY LInvInit
<1>2. LInv /\ [LNext]_all_vars => LInv'
  BY LInvStep
<1>3. QED  BY <1>1, <1>2, PTL DEF LSpec

\* The snapshot only uses the manager the way SpillManager lets it be used:
\* what is proved of every client of the manager holds of this one.
THEOREM UsesManager == LSpec => Spec
<1>1. LInit => Init
  BY DEF LInit
<1>2. LInv /\ [LNext]_all_vars => [Next]_vars
  BY ManagerStep
<1>3. QED  BY <1>1, <1>2, LInvariant, PTL DEF LSpec, Spec

\* Types of the snapshot's variables, for any number of channels, blocks,
\* decoders and any limits.
THEOREM SnapshotTypeCorrect == LSpec => []LTypeOK
BY LInvariant, PTL DEF LInv

\* A slot marked SPILLED_SENTINEL always has its entry in the index, so that
\* load_block looks for it in the file (check_pending_spills, load_block).
THEOREM SpilledHasEntry == LSpec => []SpilledIsIndexed
BY LInvariant, PTL DEF LInv, SlotInv

\* _pending_spills is the set of the blocks the manager still has or has not
\* reported, so no report is lost and none is waited for in vain.
THEOREM PendingAgrees == LSpec => []PendingIsUnderWay
<1>1. LInv => PendingIsUnderWay
  BY DEF LInv, PendInv, Gone, PendingIsUnderWay
<1>2. QED  BY <1>1, LInvariant, PTL

\* A NULL slot is a block not begun or one given up whole, never half a block.
THEOREM NullSlotIsWhole == LSpec => []NullIsWhole
BY LInvariant, PTL DEF LInv, SlotInv

\* No block is handed over twice at once by this client.
THEOREM SpilledOnce == LSpec => []QueuedOnce
BY UsesManager, EveryJobOnce, PTL

-----------------------------------------------------------------------------
(* The block that spill_oldest_block is called for.                        *)

Checking == cap_pc \in {"check", "scan", "enqueue"}

FullInv == Checking => fill[<<chan, blk>>] = PARTS

\* A block that is looked at by spill_oldest_block is full.
LEMMA FullStep ==
    ASSUME LInv, FullInv, [LNext]_all_vars
    PROVE  FullInv'
<1> USE DEF FullInv, Checking, snap_vars
<1>1. CASE IoNext
  BY <1>1 DEF IoNext
<1>2. CASE Fill
  <2>1. <<chan, blk>> \in Blocks
    BY <1>2, CurrentBlock DEF Fill, InBlock
  <2>2. QED  BY <1>2, <2>1 DEF Fill, LInv, LTypeOK, SnapTypeOK
<1>3. CASE EndTail
  <2>1. <<chan, blk>> \in Blocks
    BY <1>3, CurrentBlock DEF EndTail, InBlock
  <2>2. QED  BY <1>3, <2>1 DEF EndTail, LInv, LTypeOK, SnapTypeOK
<1>4. CASE Spill
  BY <1>4 DEF Spill, SpillNothing, SpillCheck, SpillRelieved, SpillOldest, SpillTest,
              SpillEnqueued, SpillRefused
<1>5. CASE \/ \E n \in 1 .. MAX_PACKET : AppendBegin(n)
           \/ AllocateNext \/ FillSentinel \/ NextChannel \/ AppendEnd
  BY <1>5 DEF AppendBegin, AllocateNext, FillSentinel, NextChannel, AppendEnd
<1>6. CASE EndBegin \/ EndIdle \/ EndTailSentinel \/ EndNext \/ Restart
  BY <1>6 DEF EndBegin, EndIdle, EndTailSentinel, EndNext, Restart, Clear, DeleteManager,
              NewManager
<1>7. CASE (\E d \in Decoders : Decode(d)) \/ DecodeEnd
  BY <1>7 DEF Decode, StartDecoder, GetSamples, ChunkSent, DecodeEnd
<1>8. CASE UNCHANGED all_vars
  BY <1>8 DEF all_vars
<1>9. ASSUME NEW c \in Channels, ReadSpilled(c) PROVE FullInv'
  BY <1>9 DEF ReadSpilled
<1>10. QED
  BY <1>1, <1>2, <1>3, <1>4, <1>5, <1>6, <1>7, <1>8, <1>9 DEF LNext, Append1, End

LEMMA FullInvariant == LSpec => []FullInv
<1>1. LInit => FullInv
  BY DEF LInit, SnapInit, FullInv, Checking
<1>2. LInv /\ FullInv /\ [LNext]_all_vars => FullInv'
  BY FullStep
<1>3. QED  BY <1>1, <1>2, LInvariant, PTL DEF LSpec
=============================================================================
