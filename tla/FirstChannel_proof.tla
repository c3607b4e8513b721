-------------------------- MODULE FirstChannel_proof --------------------------
(***************************************************************************)
(* What LogicSnapshot keeps of every bit it is given of the first channel, *)
(* however many there are.  A block of it is full when it is handed to the *)
(* manager, so its copy on disk is whole or is lost as a whole, the I/O    *)
(* thread reads memory that is still there, and the store implements       *)
(* BlockStore.  Of a later channel all of this fails (see README), because *)
(* the end of a block of one channel spills the half of a later one's.     *)
(***************************************************************************)
EXTENDS LogicSnapshot_proof

\* The memory the I/O thread has still to read.
ToRead == Queued \cup (IF io_pc = "write" THEN {job} ELSE {})

\* The channel that is kept: the others finish their blocks after it.
KeptChannels == {0}
KeptBlocks   == KeptChannels \X BlockIds

KeptInv ==
    /\ ~Gone => /\ \A x \in pending \cap KeptBlocks : fill[x] = PARTS /\ slot[x] # "disk"
                /\ \A x \in KeptBlocks :
                      index[x] # NoImage => fill[x] = PARTS /\ index[x] \in {PARTS, Lost}
                /\ io_pc = "index" /\ job \in KeptBlocks => image \in {PARTS, Lost}
    /\ call # "none" /\ enq_block \in KeptBlocks => fill[enq_block] = PARTS
    /\ \A x \in ToRead \cap KeptBlocks : slot[x] = "ram"
    /\ \A x \in KeptBlocks : slot[x] = "ram" => x[2] <= blk
    /\ cap_pc = "crashed" => chan \notin KeptChannels

LEMMA KeptIsPart ==
    /\ 0 \in KeptChannels /\ KeptChannels \subseteq Channels /\ KeptBlocks \subseteq Blocks
    /\ NCH = 1 => KeptChannels = Channels /\ KeptBlocks = Blocks
BY ConstantsAssumption
DEF KeptChannels, KeptBlocks, Channels, Blocks, ConstantsAssumption

-----------------------------------------------------------------------------
LEMMA ToReadIsPending ==
    ASSUME LInv
    PROVE  /\ ToRead \subseteq pending
           /\ ToRead \cap completed = {}
           /\ ~Gone => InHand \subseteq pending
           /\ Gone => ToRead = {} /\ io_pc \notin Working
<1>1. ToRead \subseteq UnderWay /\ InHand \subseteq UnderWay /\ ToRead \cap completed = {}
  BY DEF ToRead, UnderWay, InHand, LInv, SMInv, QueuedOnce
<1>2. Gone => ToRead = {} /\ io_pc \notin Working
  BY DEF ToRead, LInv, PendInv, InHand, Working
<1>3. QED  BY <1>1, <1>2 DEF LInv, PendInv

\* The block being filled is nobody's but the collect thread's.
LEMMA CurrentIsOwn ==
    ASSUME LInv, KeptInv, cap_pc \in {"fill", "endTail"}, chan \in KeptChannels
    PROVE  /\ <<chan, blk>> \in KeptBlocks /\ fill[<<chan, blk>>] # PARTS
           /\ <<chan, blk>> \notin pending /\ index[<<chan, blk>>] = NoImage
           /\ <<chan, blk>> \notin ToRead
           /\ slot[<<chan, blk>>] # "disk"
           /\ call = "none" /\ ~Gone
           /\ cap_pc = "endTail" => slot[<<chan, blk>>] = "ram"
<1>1. <<chan, blk>> \in Blocks /\ <<chan, blk>> \in KeptBlocks
  BY CurrentBlock DEF InBlock, Blocks, KeptBlocks
<1>2. chan \in Int /\ off \in 0 .. PARTS - 1 /\ PARTS \in Nat
  BY ConstantsAssumption
  DEF LInv, LTypeOK, SnapTypeOK, Channels, ConstantsAssumption
<1>3. fill[<<chan, blk>>] = off
  BY <1>1, <1>2 DEF LInv, PosInv, Level
<1>4. call = "none" /\ ~Gone /\ (cap_pc = "endTail" => off > 0)
  BY DEF LInv, PhaseInv, Gone
<1>5. /\ <<chan, blk>> \notin pending /\ index[<<chan, blk>>] = NoImage
      /\ off # PARTS
  BY <1>1, <1>2, <1>3, <1>4 DEF KeptInv
<1>6. slot[<<chan, blk>>] # "disk"
  BY <1>1, <1>5 DEF LInv, SlotInv, SpilledIsIndexed
<1>7. cap_pc = "endTail" => slot[<<chan, blk>>] = "ram"
  BY <1>1, <1>2, <1>3, <1>4, <1>6 DEF LInv, SlotInv, NullIsWhole, LTypeOK, SnapTypeOK
<1>8. QED  BY <1>1, <1>2, <1>3, <1>4, <1>5, <1>6, <1>7, ToReadIsPending

LEMMA NoCall ==
    ASSUME LInv, cap_pc # "enqueue"
    PROVE  call = "none"
BY DEF LInv, PhaseInv

LEMMA CheckKept ==
    ASSUME LInv, KeptInv, CheckPending, UNCHANGED <<fill, blk>>, ~Gone, ~Gone',
           call = "none", cap_pc' # "crashed"
    PROVE  KeptInv'
<1>1. /\ UNCHANGED <<write_queue, job, io_pc, image, index, call>>
      /\ pending' = pending \ Collected
      /\ \A x \in Blocks : slot'[x] = IF x \in Collected \cap pending /\ slot[x] = "ram"
                                       THEN "disk" ELSE slot[x]
  BY DEF CheckPending, DrainCompleted, vars, io_vars, call_vars
<1>2. ToRead' = ToRead /\ ToRead \subseteq Blocks /\ ToRead \cap Collected = {}
  BY <1>1, ToReadIsPending DEF ToRead, Queued, Collected, LInv, LTypeOK, SnapTypeOK
<1>3. QED  BY <1>1, <1>2, KeptIsPart DEF KeptInv

LEMMA FinishKept ==
    ASSUME LInv, KeptInv, Fill \/ EndTail
    PROVE  KeptInv'
<1>1. /\ <<chan, blk>> \in Blocks /\ slot \in [Blocks -> {"none", "ram", "disk"}]
      /\ fill \in [Blocks -> 0 .. PARTS]
  BY CurrentBlock DEF Fill, EndTail, InBlock, LInv, LTypeOK, SnapTypeOK
<1>2. /\ \A x \in Blocks : x # <<chan, blk>> => fill'[x] = fill[x] /\ slot'[x] = slot[x]
      /\ slot'[<<chan, blk>>] = "ram" => slot[<<chan, blk>>] = "ram"
      /\ UNCHANGED <<vars, pending, blk>> /\ cap_pc' \notin {"crashed", "cleared", "stopping"}
      /\ ~Gone
  BY <1>1 DEF Fill, EndTail, DropUniform, Gone
<1>3. ToRead' = ToRead /\ ToRead \subseteq Blocks /\ pending \subseteq Blocks
  BY <1>2, ToReadIsPending DEF ToRead, Queued, vars, LInv, LTypeOK, SnapTypeOK
<1>4. call = "none" /\ call' = "none"
  BY <1>2, NoCall DEF Fill, EndTail, vars
<1>5. <<chan, blk>> \in KeptBlocks =>
         /\ <<chan, blk>> \notin pending /\ index[<<chan, blk>>] = NoImage
         /\ <<chan, blk>> \notin ToRead
  <2>1. <<chan, blk>> \in KeptBlocks => chan \in KeptChannels
    BY DEF KeptBlocks
  <2>2. QED  BY <2>1, CurrentIsOwn DEF Fill, EndTail
<1>6. /\ UNCHANGED <<index, io_pc, image, job, blk, pending>>
      /\ \A x \in KeptBlocks : x # <<chan, blk>> => fill'[x] = fill[x] /\ slot'[x] = slot[x]
  BY <1>2, KeptIsPart DEF vars
<1>7. ~Gone' /\ cap_pc' # "crashed"
  BY <1>2 DEF Gone
<1>8. QED  BY <1>2, <1>3, <1>4, <1>5, <1>6, <1>7 DEF KeptInv

\* One step keeps KeptInv.
LEMMA KeptStep ==
    ASSUME LInv, FullInv, KeptInv, [LNext]_all_vars
    PROVE  KeptInv'
<1> USE KeptIsPart DEF KeptInv, Gone, snap_vars, vars, io_vars, call_vars
<1>1. CASE IoNext
  <2>1. CASE IoWrite(fill[job]) /\ io_pc = "write"
    <3>1. ~Gone /\ job \in pending
      BY <2>1, ToReadIsPending DEF Working, InHand
    <3>2. fill[job] \in Images
      BY <2>1 DEF LInv, SMInv, ThreadsInv, Working, LTypeOK, SnapTypeOK, Images
    <3>3. \A x \in Blocks : index'[x] = index[x] \/ (index[x] # NoImage /\ index'[x] = Lost)
      BY <2>1, <3>2, StreamStep DEF LInv
    <3>4. UNCHANGED <<write_queue, job, call, enq_block>> /\ io_pc' = "index" /\ image' = fill[job]
      BY <2>1 DEF IoWrite
    <3>5. QED  BY <1>1, <2>1, <3>1, <3>3, <3>4 DEF IoNext, ToRead, Queued
  <2>2. CASE IoIndex
    <3>1. ~Gone /\ job \in pending
      BY <2>2, ToReadIsPending DEF Working, InHand, IoIndex
    <3>2. QED
      BY <1>1, <2>2, <3>1 DEF IoNext, IoIndex, ToRead, Queued, LInv, SMInv, TypeOK
  <2>3. CASE IoTake
    <3>1. /\ write_queue \in Seq(Blocks) /\ write_queue # <<>>
          /\ \A i, j \in 1 .. Len(write_queue) :
                write_queue[i] = write_queue[j] => i = j
      BY <2>3 DEF LInv, SMInv, TypeOK, QueuedOnce, IoTake
    <3>2. Queued' \subseteq Queued /\ job' \in Queued
      BY <2>3, <3>1, QueuedTail DEF IoTake, Queued
    <3>3. QED  BY <1>1, <2>3, <3>2 DEF IoNext, IoTake, ToRead
  <2>4. CASE IoUsage \/ IoComplete \/ IoRetire \/ IoExit
    BY <1>1, <2>4 DEF IoNext, IoUsage, IoComplete, IoRetire, IoExit, ToRead, Queued
  <2>5. CASE IoWriteFails
    <3>1. \A x \in Blocks : index'[x] = index[x] \/ (index[x] # NoImage /\ index'[x] = Lost)
      BY <2>5, StreamStep DEF LInv
    <3>2. UNCHANGED <<write_queue, job, image, call, enq_block>> /\ io_pc' = "retire"
      BY <2>5 DEF IoWriteFails
    <3>3. QED  BY <1>1, <3>1, <3>2 DEF IoNext, ToRead, Queued
  <2>6. QED  BY <1>1, <2>1, <2>2, <2>3, <2>4, <2>5 DEF IoNext, DiskWrite
<1>2. ASSUME NEW n \in 1 .. MAX_PACKET, AppendBegin(n) PROVE KeptInv'
  BY <1>2, CheckKept, NoCall DEF AppendBegin
<1>3. CASE AllocateNext
  <2>1. \A x \in Blocks : slot'[x] = "ram" => slot[x] = "ram" \/ x = <<chan, blk>>
    BY <1>3 DEF AllocateNext, Allocate, LInv, LTypeOK, SnapTypeOK
  <2>2. \A x \in Blocks : /\ slot[x] = "ram" => slot'[x] = "ram"
                          /\ slot'[x] = "disk" => slot[x] = "disk"
    BY <1>3 DEF AllocateNext, Allocate, LInv, LTypeOK, SnapTypeOK
  <2>3. blk \in Int /\ ToRead' = ToRead /\ ToRead \subseteq Blocks
    BY <1>3, ToReadIsPending DEF AllocateNext, ToRead, Queued, LInv, LTypeOK, SnapTypeOK
  <2>4. /\ UNCHANGED <<fill, pending, index, io_pc, job, image, call, enq_block, blk, chan>>
        /\ cap_pc' \in {"overrun", "tail", "fill"} /\ cap_pc = "alloc"
    BY <1>3 DEF AllocateNext
  <2>5. /\ \A x \in pending \cap KeptBlocks : slot'[x] # "disk"
        /\ \A x \in ToRead \cap KeptBlocks : slot'[x] = "ram"
    BY <2>2, <2>3, <2>4
  <2>6. \A x \in KeptBlocks : slot'[x] = "ram" => x[2] <= blk
    BY <2>1, <2>3
  <2>7. QED  BY <2>3, <2>4, <2>5, <2>6
<1>4. CASE Fill
  BY <1>4, FinishKept
<1>5. CASE FillSentinel
  <2>1. chan \notin KeptChannels
    BY <1>5, CurrentIsOwn DEF FillSentinel
  <2>2. QED  BY <1>5, <2>1 DEF FillSentinel, ToRead, Queued
<1>6. CASE NextChannel
  <2>1. blk \in Int /\ blk' \in {blk, blk + 1}
    BY <1>6 DEF NextChannel, LInv, LTypeOK, SnapTypeOK
  <2>2. \A x \in Blocks : x[2] \in Int
    BY DEF Blocks, BlockIds
  <2>3. \A x \in KeptBlocks : slot[x] = "ram" => x[2] <= blk'
    BY <2>1, <2>2
  <2>4. ToRead' = ToRead
    BY <1>6 DEF NextChannel, ToRead, Queued
  <2>5. QED  BY <1>6, <2>3, <2>4 DEF NextChannel
<1>7. CASE AppendEnd
  BY <1>7, CheckKept, NoCall DEF AppendEnd
<1>8. CASE SpillNothing
  BY <1>8 DEF SpillNothing, ToRead, Queued
<1>9. CASE SpillCheck
  BY <1>9, CheckKept, NoCall DEF SpillCheck
<1>10. CASE SpillRelieved
  BY <1>10 DEF SpillRelieved, ToRead, Queued
<1>11. CASE SpillOldest
  <2>1. PICK x \in Blocks : Oldest(x) /\ EnqueueCall(x)
    BY <1>11 DEF SpillOldest
  <2>2. x \in KeptBlocks => fill[x] = PARTS
    <3>1. SUFFICES ASSUME x \in KeptBlocks PROVE fill[x] = PARTS
      OBVIOUS
    <3>2. x # <<chan, blk>> /\ slot[x] = "ram"
      BY <2>1 DEF Oldest, Spillable
    <3>3. /\ x = <<x[1], x[2]>> /\ x[1] = 0 /\ x[2] \in Int
          /\ x[2] <= blk /\ blk \in Int /\ chan \in Channels
      BY <3>1, <3>2 DEF LInv, LTypeOK, SnapTypeOK, KeptChannels, KeptBlocks, BlockIds
    <3>4. CASE x[2] < blk
      BY <1>11, <3>4 DEF LInv, PosInv, SpillOldest
    <3>5. CASE x[2] = blk
      <4>1. fill[<<chan, blk>>] = PARTS /\ <<chan, blk>> \in Blocks
        BY <1>11, CurrentBlock DEF FullInv, Checking, SpillOldest, InBlock
      <4>2. fill[x] = Level(x[1]) /\ fill[<<chan, blk>>] = Level(chan)
        BY <1>11, <3>5, <4>1 DEF LInv, PosInv, SpillOldest
      <4>3. Level(x[1]) = FilledTo /\ Level(chan) = FilledTo
        BY <1>11, <3>3 DEF Level, SpillOldest, Channels
      <4>4. QED  BY <4>1, <4>2, <4>3
    <3>6. QED  BY <3>3, <3>4, <3>5
  <2>3. enq_block' = x /\ UNCHANGED <<fill, index, image, job, io_pc, pending, slot, blk>>
    BY <1>11, <2>1 DEF SpillOldest, EnqueueCall
  <2>4. QED  BY <1>11, <2>1, <2>2, <2>3 DEF SpillOldest, EnqueueCall, ToRead, Queued
<1>12. CASE SpillTest
  BY <1>12 DEF SpillTest, EnqueueTest, ToRead, Queued
<1>13. CASE SpillEnqueued
  <2>1. /\ write_queue \in Seq(Blocks) /\ enq_block \in Blocks
        /\ write_queue' = Append(write_queue, enq_block) /\ call # "none" /\ call' = "none"
    BY <1>13 DEF LInv, SMInv, TypeOK, ThreadsInv, SpillEnqueued, EnqueuePush
  <2>2. Queued' = Queued \cup {enq_block}
    BY <2>1, QueuedAppend DEF Queued
  <2>3. slot[enq_block] = "ram"
    BY <2>1 DEF LInv, SlotInv
  <2>4. QED  BY <1>13, <2>1, <2>2, <2>3 DEF SpillEnqueued, EnqueuePush, ToRead
<1>14. CASE SpillRefused
  BY <1>14 DEF SpillRefused, EnqueueRefuse, ToRead, Queued
<1>15. CASE EndBegin
  BY <1>15 DEF EndBegin, ToRead, Queued
<1>16. CASE EndIdle
  BY <1>16, CheckKept, NoCall DEF EndIdle
<1>17. CASE EndTail
  BY <1>17, FinishKept
<1>18. CASE EndTailSentinel
  <2>1. chan \notin KeptChannels
    BY <1>18, CurrentIsOwn DEF EndTailSentinel
  <2>2. QED  BY <1>18, <2>1 DEF EndTailSentinel, ToRead, Queued
<1>19. CASE EndNext
  BY <1>19 DEF EndNext, ToRead, Queued
<1>20. CASE Clear
  <2>1. ToRead' = {} /\ call' = "none"
    BY <1>20 DEF Clear, DrainCompleted, Idle, active_writes, ToRead, Queued, LInv, PhaseInv
  <2>2. QED  BY <1>20, <2>1 DEF Clear
<1>21. CASE DeleteManager
  BY <1>21 DEF DeleteManager, Stop, ToRead, Queued
<1>22. CASE NewManager
  <2>1. /\ Len(write_queue') = 0 /\ io_pc' \in {"wait", "absent"} /\ call' = "none"
        /\ pending' = {} /\ index' = [x \in Blocks |-> NoImage] /\ slot' = slot
        /\ cap_pc' = "idle" /\ blk' = blk
    BY <1>22, ConstantsAssumption
    DEF NewManager, Renew, ConstantsAssumption, LInv, PendInv, PhaseInv
  <2>2. ToRead' = {}
    BY <2>1 DEF ToRead, Queued
  <2>3. QED  BY <2>1, <2>2
<1>23. ASSUME NEW d \in Decoders, StartDecoder(d) PROVE KeptInv'
  BY <1>23 DEF StartDecoder, ToRead, Queued
<1>24. ASSUME NEW d \in Decoders, GetSamples(d) PROVE KeptInv'
  BY <1>24 DEF GetSamples, ToRead, Queued
<1>25. ASSUME NEW d \in Decoders, ChunkSent(d) PROVE KeptInv'
  BY <1>25 DEF ChunkSent, ToRead, Queued
<1>26. CASE DecodeEnd
  BY <1>26 DEF DecodeEnd, ToRead, Queued
<1>27. CASE UNCHANGED all_vars
  BY <1>27 DEF all_vars, ToRead, Queued
<1>28. ASSUME NEW c \in Channels, ReadSpilled(c) PROVE KeptInv'
  <2>1. /\ UNCHANGED <<write_queue, job, io_pc, call, enq_block>> /\ UNCHANGED snap_vars
        /\ \A x \in Blocks : index'[x] = index[x] \/ (index[x] # NoImage /\ index'[x] = Lost)
    BY <1>28, ReadStep
  <2>2. image' \in {image, Lost}
    BY <1>28 DEF ReadSpilled, ReadSeek
  <2>3. QED  BY <2>1, <2>2 DEF ToRead, Queued
<1>29. QED
  BY <1>1, <1>2, <1>3, <1>4, <1>5, <1>6, <1>7, <1>8, <1>9, <1>10, <1>11, <1>12, <1>13, <1>14, <1>15, <1>16, <1>17, <1>18, <1>19, <1>20, <1>21, <1>22, <1>23, <1>24, <1>25, <1>26, <1>27, <1>28
  DEF LNext, Append1, Spill, End, Restart, Decode

LEMMA KeptInit ==
    ASSUME LInit
    PROVE  KeptInv
<1>1. ToRead = {}
  BY ConstantsAssumption DEF LInit, Init, ToRead, Queued, ConstantsAssumption
<1>2. /\ pending = {} /\ call = "none" /\ io_pc # "index" /\ cap_pc = "idle"
      /\ \A x \in Blocks : index[x] = NoImage /\ slot[x] = "none"
  BY ConstantsAssumption DEF LInit, Init, SnapInit, ConstantsAssumption
<1>3. QED  BY <1>1, <1>2, KeptIsPart DEF KeptInv

LEMMA KeptInvariant == LSpec => []KeptInv
<1>1. LInit => KeptInv
  BY KeptInit
<1>2. LInv /\ FullInv /\ KeptInv /\ [LNext]_all_vars => KeptInv'
  BY KeptStep
<1>3. QED  BY <1>1, <1>2, LInvariant, FullInvariant, PTL DEF LSpec

\* On disk there is a full block, or nothing but the belief that there is.
DiskWhole ==
    \A x \in KeptBlocks : slot[x] = "disk" => fill[x] = PARTS /\ index[x] \in {PARTS, Lost}

LEMMA DiskIsWhole == LInv /\ KeptInv => DiskWhole
<1> SUFFICES ASSUME LInv, KeptInv, NEW x \in KeptBlocks, slot[x] = "disk"
             PROVE  fill[x] = PARTS /\ index[x] \in {PARTS, Lost}
  BY DEF DiskWhole
<1>1. index[x] # NoImage
  BY KeptIsPart DEF LInv, SlotInv, SpilledIsIndexed
<1>2. ~Gone
  BY KeptIsPart DEF LInv, PendInv
<1>3. QED  BY <1>1, <1>2 DEF KeptInv

LEMMA DiskIsWholeNext == (LInv /\ KeptInv => DiskWhole)'
BY DiskIsWhole, PTL

\* However many channels there are, what is on disk of the first is what was
\* captured of it: nothing is added to a block after its copy was taken
\* (spill_oldest_block, write_block_to_file).  Only a block whose write failed
\* after fwrite had taken it (spillmanager.cpp 325) is lost, and it was full.
THEOREM FirstChannelIsWhole ==
    LSpec => [](\A x \in Blocks : x[1] = 0 /\ slot[x] = "disk" =>
                    \/ index[x] = fill[x]
                    \/ index[x] = Lost /\ fill[x] = PARTS)
<1>1. \A x \in Blocks : x[1] = 0 => x \in KeptBlocks
  BY DEF Blocks, KeptBlocks, KeptChannels
<1>2. DiskWhole => \A x \in Blocks : x[1] = 0 /\ slot[x] = "disk" =>
                      \/ index[x] = fill[x]
                      \/ index[x] = Lost /\ fill[x] = PARTS
  BY <1>1 DEF DiskWhole
<1>3. QED  BY <1>2, DiskIsWhole, LInvariant, KeptInvariant, PTL

\* With one channel all that was captured is kept, but for blocks whose write
\* failed after fwrite had taken them.
THEOREM NothingElseIsLost ==
    ASSUME NCH = 1
    PROVE  LSpec => []NoDataLoss
<1>1. DiskWhole => NoDataLoss
  BY KeptIsPart DEF DiskWhole, NoDataLoss
<1>2. QED  BY <1>1, DiskIsWhole, LInvariant, KeptInvariant, PTL

\* With one channel, a block waiting for the I/O thread is not freed before it
\* has been read (WriteJob::data; calc_mipmap, clear, check_pending_spills).
THEOREM JobsReadLiveMemory ==
    ASSUME NCH = 1
    PROVE  LSpec => []JobsAlive
<1>1. LInv /\ KeptInv => JobsAlive
  BY KeptIsPart, ToReadIsPending
  DEF KeptInv, JobsAlive, ToRead, Alive, LInv, LTypeOK, SnapTypeOK
<1>2. QED  BY <1>1, LInvariant, KeptInvariant, PTL

\* With one channel the assertion of capture_ended holds: the tail block has not
\* gone to disk.
THEOREM TailStaysInRam ==
    ASSUME NCH = 1
    PROVE  LSpec => []TailInRam
<1>1. LInv /\ KeptInv => TailInRam
  BY CurrentIsOwn, KeptIsPart DEF TailInRam, LInv, LTypeOK, SnapTypeOK
<1>2. QED  BY <1>1, LInvariant, KeptInvariant, PTL

-----------------------------------------------------------------------------
(* The abstract store.                                                     *)

KeptStored == [x \in KeptBlocks |-> Stored[x]]

Kept == INSTANCE BlockStore WITH NCH <- 1, stored <- KeptStored

LEMMA KeptTable ==
    /\ Kept!Channels = KeptChannels /\ Kept!BlockIds = BlockIds
    /\ Kept!Channels \X Kept!BlockIds = KeptBlocks
BY DEF Kept!Channels, Kept!BlockIds, KeptBlocks, KeptChannels, BlockIds

LEMMA StoredBlock ==
    \A x \in KeptBlocks : KeptStored[x] = IF slot[x] = "disk" THEN index[x] ELSE fill[x]
BY KeptIsPart DEF KeptStored, Stored

LEMMA StoredBlockNext ==
    (\A x \in KeptBlocks : KeptStored[x] = IF slot[x] = "disk" THEN index[x] ELSE fill[x])'
BY StoredBlock, PTL

\* A step that fills no block of the channel takes away full blocks, or none.
LEMMA QuietStep ==
    ASSUME LInv, KeptInv, LInv', KeptInv',
           \A x \in KeptBlocks :
              /\ fill'[x] = fill[x]
              /\ slot[x] = "disk" => /\ slot'[x] = "disk"
                                     /\ index[x] = Lost => index'[x] = Lost
    PROVE  Kept!SNext
<1> DEFINE S == {x \in KeptBlocks : KeptStored'[x] # KeptStored[x]}
<1>1. \A x \in KeptBlocks :
         /\ slot[x] = "disk" => fill[x] = PARTS /\ index[x] \in {PARTS, Lost}
         /\ slot'[x] = "disk" => fill'[x] = PARTS /\ index'[x] \in {PARTS, Lost}
         /\ fill[x] \in 0 .. PARTS
  BY DiskIsWhole, DiskIsWholeNext, KeptIsPart DEF DiskWhole, LInv, LTypeOK, SnapTypeOK
<1>2. Lost \notin 0 .. PARTS /\ PARTS \in 0 .. PARTS
  BY LostAssumption, ConstantsAssumption DEF Images, ConstantsAssumption
<1>3. ASSUME NEW x \in S PROVE KeptStored[x] = PARTS /\ KeptStored'[x] = Lost
  BY <1>1, <1>2, StoredBlock, StoredBlockNext
<1>4. KeptStored' = [x \in KeptBlocks |-> IF x \in S THEN Lost ELSE KeptStored[x]]
  BY <1>3 DEF KeptStored
<1> HIDE DEF S
<1>5. S \in SUBSET KeptBlocks
  BY DEF S
<1>6. Kept!Lose(S)
  BY <1>3, <1>4, KeptTable DEF Kept!Lose
<1>7. QED  BY <1>5, <1>6, KeptTable DEF Kept!SNext

\* the same where the manager, or the slots, are left alone
LEMMA CheckQuiet ==
    ASSUME LInv, KeptInv, LInv', KeptInv', CheckPending, UNCHANGED fill
    PROVE  Kept!SNext
<1>1. UNCHANGED index /\ \A x \in Blocks : slot[x] = "disk" => slot'[x] = "disk"
  BY DEF CheckPending, DrainCompleted, vars, io_vars
<1>2. QED  BY <1>1, KeptIsPart, QuietStep

LEMMA SameQuiet ==
    ASSUME LInv, KeptInv, LInv', KeptInv', UNCHANGED <<fill, slot, index>>
    PROVE  Kept!SNext
BY QuietStep

\* The block being filled is the next one to fill.
LEMMA Receives ==
    ASSUME LInv, KeptInv, cap_pc \in {"fill", "endTail"}, chan \in KeptChannels,
           NEW n \in 1 .. PARTS, n > off,
           fill' = [fill EXCEPT ![<<chan, blk>>] = n],
           UNCHANGED index,
           slot' \in {slot, [slot EXCEPT ![<<chan, blk>>] = "none"]}
    PROVE  Kept!SNext
<1>1. /\ <<chan, blk>> \in KeptBlocks /\ chan \in Kept!Channels /\ blk \in Kept!BlockIds
      /\ slot[<<chan, blk>>] # "disk"
      /\ off \in 0 .. PARTS - 1 /\ PARTS \in Nat \ {0}
  BY CurrentIsOwn, KeptTable, ConstantsAssumption
  DEF KeptBlocks, LInv, LTypeOK, SnapTypeOK, ConstantsAssumption
<1>2. /\ slot \in [Blocks -> {"none", "ram", "disk"}] /\ fill \in [Blocks -> 0 .. PARTS]
      /\ KeptBlocks \subseteq Blocks
  BY KeptIsPart DEF LInv, LTypeOK, SnapTypeOK
<1>3. fill[<<chan, blk>>] = off
  <2>1. chan \in Int
    BY DEF LInv, LTypeOK, SnapTypeOK, Channels
  <2>2. QED  BY <1>1, <1>2, <2>1 DEF LInv, PosInv, Level
<1>4. ASSUME NEW a \in Kept!BlockIds
      PROVE  /\ a < blk => KeptStored[<<chan, a>>] \in {PARTS, Lost}
             /\ a > blk => KeptStored[<<chan, a>>] = 0
  <2>1. <<chan, a>> \in KeptBlocks
    BY KeptTable DEF KeptBlocks
  <2>2. /\ a < blk => fill[<<chan, a>>] = PARTS
        /\ a > blk => fill[<<chan, a>>] = 0
    BY <1>2, <2>1 DEF LInv, PosInv
  <2>3. slot[<<chan, a>>] = "disk" =>
           fill[<<chan, a>>] = PARTS /\ index[<<chan, a>>] \in {PARTS, Lost}
    BY <2>1, DiskIsWhole DEF DiskWhole
  <2>4. QED  BY <1>1, <2>1, <2>2, <2>3, StoredBlock
<1>5. KeptStored' = [KeptStored EXCEPT ![<<chan, blk>>] = n]
  <2>1. ASSUME NEW x \in KeptBlocks
        PROVE  KeptStored'[x] = IF x = <<chan, blk>> THEN n ELSE KeptStored[x]
    <3>1. KeptStored'[x] = IF slot'[x] = "disk" THEN index'[x] ELSE fill'[x]
      BY StoredBlockNext
    <3>2. CASE x = <<chan, blk>>
      <4>1. slot'[x] # "disk" /\ fill'[x] = n
        BY <1>1, <1>2, <3>2
      <4>2. QED  BY <3>1, <3>2, <4>1
    <3>3. CASE x # <<chan, blk>>
      <4>1. slot'[x] = slot[x] /\ fill'[x] = fill[x]
        BY <1>1, <1>2, <3>3
      <4>2. QED  BY <3>1, <3>3, <4>1, StoredBlock
    <3>4. QED  BY <3>2, <3>3
  <2>2. QED  BY <1>1, <2>1 DEF KeptStored
<1>6. KeptStored[<<chan, blk>>] \in 0 .. n - 1
  BY <1>1, <1>3, StoredBlock
<1>7. Kept!Receive(chan, blk, n)
  BY <1>4, <1>5, <1>6 DEF Kept!Receive
<1>8. QED  BY <1>1, <1>7 DEF Kept!SNext

LEMMA FillReceives ==
    ASSUME LInv, KeptInv, Fill \/ EndTail, chan \in KeptChannels
    PROVE  Kept!SNext
<1>1. /\ off \in 0 .. PARTS - 1 /\ PARTS \in Nat \ {0}
      /\ cap_pc = "fill" => left \in Nat \ {0}
  BY SnapshotAssumption, ConstantsAssumption
  DEF LInv, LTypeOK, SnapTypeOK, PhaseInv, InBlock, ConstantsAssumption, SnapshotAssumption
<1>2. PICK n \in 1 .. PARTS : n > off /\ fill' = [fill EXCEPT ![<<chan, blk>>] = n]
  <2>1. CASE Fill
    <3>1. off + Segment \in 1 .. PARTS /\ off + Segment > off
      BY <1>1, <2>1 DEF Fill, Segment
    <3>2. QED  BY <2>1, <3>1 DEF Fill
  <2>2. CASE EndTail
    <3>1. PARTS \in 1 .. PARTS /\ PARTS > off
      BY <1>1
    <3>2. QED  BY <2>2, <3>1 DEF EndTail
  <2>3. QED  BY <2>1, <2>2
<1>3. cap_pc \in {"fill", "endTail"} /\ UNCHANGED index
  BY DEF Fill, EndTail, vars
<1>4. slot' \in {slot, [slot EXCEPT ![<<chan, blk>>] = "none"]}
  BY DEF Fill, EndTail, DropUniform
<1>5. QED  BY <1>2, <1>3, <1>4, Receives

LEMMA OtherFills ==
    ASSUME LInv, KeptInv, LInv', KeptInv', Fill \/ EndTail, chan \notin KeptChannels
    PROVE  Kept!SNext
<1>1. /\ slot \in [Blocks -> {"none", "ram", "disk"}] /\ fill \in [Blocks -> 0 .. PARTS]
      /\ KeptBlocks \subseteq Blocks /\ \A x \in KeptBlocks : x # <<chan, blk>>
  BY KeptIsPart DEF KeptBlocks, LInv, LTypeOK, SnapTypeOK
<1>2. \A x \in KeptBlocks : fill'[x] = fill[x] /\ slot'[x] = slot[x]
  BY <1>1 DEF Fill, EndTail, DropUniform
<1>3. UNCHANGED index
  BY DEF Fill, EndTail, vars
<1>4. QED  BY <1>2, <1>3, QuietStep

\* The I/O thread loses blocks only as a whole and only once.
LEMMA IoQuiet ==
    ASSUME LInv, KeptInv, LInv', KeptInv', IoNext
    PROVE  Kept!SNext
<1>1. UNCHANGED snap_vars /\ UNCHANGED <<fill, slot>>
  BY DEF IoNext, snap_vars
<1>2. \A x \in KeptBlocks : slot[x] = "disk" /\ index[x] = Lost => index'[x] = Lost
  <2>1. CASE io_pc = "write" /\ IoWrite(fill[job])
    <3>1. fill[job] \in Images
      BY <2>1 DEF LInv, SMInv, ThreadsInv, Working, LTypeOK, SnapTypeOK, Images
    <3>2. QED  BY <2>1, <3>1, StreamStep, KeptIsPart DEF LInv
  <2>2. CASE IoWriteFails
    BY <2>2, StreamStep, KeptIsPart DEF LInv
  <2>3. CASE IoIndex
    <3>1. ~Gone /\ job \in pending
      BY <2>3, ToReadIsPending DEF Working, InHand, IoIndex
    <3>2. \A x \in KeptBlocks : slot[x] = "disk" => x # job
      BY <3>1 DEF KeptInv
    <3>3. QED
      BY <2>3, <3>2, KeptIsPart DEF IoIndex, LInv, SMInv, TypeOK
  <2>4. CASE IoTake \/ IoUsage \/ IoComplete \/ IoRetire \/ IoExit
    BY <2>4 DEF IoTake, IoUsage, IoComplete, IoRetire, IoExit
  <2>5. QED  BY <2>1, <2>2, <2>3, <2>4 DEF IoNext, DiskWrite
<1>3. QED  BY <1>1, <1>2, QuietStep

\* Filling and clearing, and a write that fails, change what a reader finds.
LEMMA StoreStep ==
    ASSUME LInv, KeptInv, LInv', KeptInv', [LNext]_all_vars
    PROVE  Kept!SNext
<1> USE DEF snap_vars, vars
<1>1. CASE IoNext
  BY <1>1, IoQuiet
<1>2. ASSUME NEW n \in 1 .. MAX_PACKET, AppendBegin(n) PROVE Kept!SNext
  BY <1>2, CheckQuiet DEF AppendBegin
<1>3. CASE AllocateNext
  <2>1. \A x \in Blocks : slot[x] = "disk" => slot'[x] = "disk"
    BY <1>3 DEF AllocateNext, Allocate, LInv, LTypeOK, SnapTypeOK
  <2>2. QED  BY <1>3, <2>1, KeptIsPart, QuietStep DEF AllocateNext
<1>4. CASE Fill \/ EndTail
  BY <1>4, FillReceives, OtherFills
<1>5. CASE FillSentinel \/ NextChannel
  BY <1>5, SameQuiet DEF FillSentinel, NextChannel
<1>6. CASE AppendEnd \/ SpillCheck \/ EndIdle
  BY <1>6, CheckQuiet DEF AppendEnd, SpillCheck, EndIdle
<1>7. CASE \/ SpillNothing \/ SpillRelieved \/ SpillOldest \/ SpillTest \/ SpillEnqueued
           \/ SpillRefused
  BY <1>7, SameQuiet
  DEF SpillNothing, SpillRelieved, SpillOldest, SpillTest, SpillEnqueued, SpillRefused,
      EnqueueCall, EnqueueTest, EnqueuePush, EnqueueRefuse, io_vars
<1>8. CASE EndBegin \/ EndTailSentinel \/ EndNext
  BY <1>8, SameQuiet DEF EndBegin, EndTailSentinel, EndNext
<1>9. CASE Clear
  <2>1. KeptStored' = [x \in KeptBlocks |-> 0]
    <3>1. \A x \in KeptBlocks : slot'[x] = "none" /\ fill'[x] = 0
      BY <1>9, KeptIsPart DEF Clear
    <3>2. QED  BY <3>1, StoredBlockNext DEF KeptStored
  <2>2. QED  BY <2>1, KeptTable DEF Kept!SNext, Kept!Reset
<1>10. CASE DeleteManager
  BY <1>10, SameQuiet DEF DeleteManager, Stop, io_vars
<1>11. CASE NewManager
  <2>1. UNCHANGED <<fill, slot>> /\ \A x \in Blocks : slot[x] # "disk"
    BY <1>11 DEF NewManager, LInv, PendInv, Gone
  <2>2. QED  BY <2>1, KeptIsPart, QuietStep
<1>12. ASSUME NEW d \in Decoders, Decode(d) PROVE Kept!SNext
  BY <1>12, SameQuiet DEF Decode, StartDecoder, GetSamples, ChunkSent
<1>13. CASE DecodeEnd
  BY <1>13, SameQuiet DEF DecodeEnd
<1>14. ASSUME NEW c \in Channels, ReadSpilled(c) PROVE Kept!SNext
  BY <1>14, ReadStep, KeptIsPart, QuietStep
<1>15. CASE UNCHANGED all_vars
  BY <1>15, SameQuiet DEF all_vars
<1>16. QED
  BY <1>1, <1>2, <1>3, <1>4, <1>5, <1>6, <1>7, <1>8, <1>9, <1>10, <1>11, <1>12, <1>13,
     <1>14, <1>15
  DEF LNext, Append1, Spill, End, Restart

LEMMA KeptStart == LInit => Kept!SInit
<1>1. LInit => KeptStored = [x \in KeptBlocks |-> 0]
  BY KeptIsPart, StoredBlock DEF LInit, SnapInit, KeptStored
<1>2. QED  BY <1>1, KeptTable DEF Kept!SInit

\* Of the first channel, however many there are, RAM, write queue and file
\* together are BlockStore: what a reader finds only grows, block after block,
\* but for full blocks that a failing write takes away whole and for good.
THEOREM FirstChannelStore == LSpec => Kept!SSpec
<1>1. LInit => Kept!SInit
  BY KeptStart
<1>2. LInv /\ KeptInv /\ LInv' /\ KeptInv' /\ [LNext]_all_vars => [Kept!SNext]_KeptStored
  BY StoreStep
<1>3. QED  BY <1>1, <1>2, LInvariant, KeptInvariant, PTL DEF LSpec, Kept!SSpec

\* With one channel this is so of all of them.
THEOREM ImplementsBlockStore ==
    ASSUME NCH = 1
    PROVE  LSpec => ImplementsStore
<1>1. KeptStored = Stored
  BY KeptIsPart DEF KeptStored, Stored
<1>2. KeptStored' = Stored'
  BY KeptIsPart DEF KeptStored, Stored
<1>3. Kept!SInit => Store!SInit
  BY <1>1 DEF Kept!SInit, Store!SInit, Kept!Channels, Store!Channels, Kept!BlockIds,
              Store!BlockIds
<1>4. Kept!SNext => Store!SNext
  <2>0. Kept!Channels = Store!Channels /\ Kept!BlockIds = Store!BlockIds
    BY DEF Kept!Channels, Store!Channels, Kept!BlockIds, Store!BlockIds
  <2>1. Kept!Reset => Store!Reset
    BY <1>2, <2>0 DEF Kept!Reset, Store!Reset
  <2>2. ASSUME NEW c \in Kept!Channels, NEW b \in Kept!BlockIds, NEW n \in 1 .. PARTS,
               Kept!Receive(c, b, n)
        PROVE  Store!Receive(c, b, n)
    BY <1>1, <1>2, <2>0, <2>2 DEF Kept!Receive, Store!Receive
  <2>3. ASSUME NEW S \in SUBSET (Kept!Channels \X Kept!BlockIds), Kept!Lose(S)
        PROVE  Store!Lose(S)
    BY <1>1, <1>2, <2>0, <2>3 DEF Kept!Lose, Store!Lose
  <2>4. QED  BY <2>0, <2>1, <2>2, <2>3 DEF Kept!SNext, Store!SNext
<1>5. LInit => Store!SInit
  BY <1>3, KeptStart
<1>6. LInv /\ KeptInv /\ LInv' /\ KeptInv' /\ [LNext]_all_vars => [Store!SNext]_Stored
  BY <1>4, StoreStep
<1>7. QED
  BY <1>5, <1>6, LInvariant, KeptInvariant, PTL DEF LSpec, ImplementsStore, Store!SSpec
=============================================================================
