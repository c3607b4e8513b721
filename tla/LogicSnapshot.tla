----------------------------- MODULE LogicSnapshot -----------------------------
(***************************************************************************)
(* The sample store of a logic capture (PXTOOL/pv/data/logicsnapshot.cpp)  *)
(* with the disk cache on: the collect thread appends packets block by     *)
(* block and hands blocks over the RAM limit to the SpillManager, whose    *)
(* I/O thread writes them from the same memory; live decoders read blocks  *)
(* through pointers they keep after the snapshot's mutex is released.      *)
(*                                                                         *)
(* Every channel is filled in the same PARTS pieces per block; blk and off *)
(* are the position all channels have reached.  append_cross_payload holds *)
(* the mutex from cap_pc # "idle" to "idle"; only the I/O thread runs      *)
(* meanwhile.  One capture follows another with a new manager.             *)
(***************************************************************************)
EXTENDS SpillManager

CONSTANTS
    RAM_LIMIT,      \* ram_limit_ in blocks; 0: should_spill is never true
    TOTAL,          \* _total_sample_count in parts
    MAX_PACKET,     \* parts of the longest packet
    Decoders,       \* live decoder threads
    DecoderChannel, \* the channel each decodes
    DECODE_FIRST    \* the tasks are added before the first packet arrives

ASSUME SnapshotAssumption ==
    /\ RAM_LIMIT \in Nat /\ TOTAL \in Nat /\ MAX_PACKET \in Nat \ {0}
    /\ DecoderChannel \in [Decoders -> Channels]
    /\ DECODE_FIRST \in BOOLEAN

VARIABLES
    slot,       \* lbp[]: "none" NULL, "ram" a pointer, "disk" SPILLED_SENTINEL
    fill,       \* how many parts the block has received
    pending,    \* keys of _pending_spills
    free_list,  \* _free_block_list: uniform blocks a decoder may still read
    ram_usage,  \* _ram_usage_bytes in blocks
    cur_ref,    \* _cur_ref_block_indexs
    able_free,  \* _able_free
    mem_failed, \* _memory_failed
    received,   \* _sample_count in parts
    blk, off,   \* align_sample_count: block and part
    cap_pc,     \* where the collect thread is
    chan,       \* fill_chan, or the channel of capture_ended's loop
    left,       \* parts of the packet still to be copied
    ending,     \* capture_ended is running
    dec         \* per decoder: state, position, pointer held, end of the chunk

snap_vars == <<slot, fill, pending, free_list, ram_usage, cur_ref, able_free,
               mem_failed, received, blk, off, cap_pc, chan, left, ending, dec>>
all_vars  == <<vars, snap_vars>>

\* positions of _mutex: the collect thread does not hold it here
Unlocked == cap_pc \in {"idle", "endWait", "ended", "cleared", "stopping"}

should_spill == RAM_LIMIT > 0 /\ ram_usage > RAM_LIMIT

\* The memory of block x has been allocated and not freed.
Alive(x) == slot[x] = "ram" \/ x \in free_list

Before(x, y) == x[1] < y[1] \/ (x[1] = y[1] /\ x[2] < y[2])

\* sample positions: the block and the part of it
Positions == (0 .. NBLK) \X (0 .. PARTS - 1)

DecoderStates == [state : {"off", "ready", "using"}, at : Positions, to : Positions,
                  hold : Blocks \cup {NoBlock}, lbp : Blocks \cup {NoBlock}]

NoDecoder == [state |-> "off", at |-> <<0, 0>>, to |-> <<0, 0>>,
              hold |-> NoBlock, lbp |-> NoBlock]

SnapInit ==
    /\ slot = [x \in Blocks |-> "none"]
    /\ fill = [x \in Blocks |-> 0]
    /\ pending = {} /\ free_list = {}
    /\ ram_usage = 0
    /\ cur_ref = [c \in Channels |-> 0]
    /\ able_free = TRUE
    /\ mem_failed = FALSE
    /\ received = 0 /\ blk = 0 /\ off = 0
    /\ cap_pc = "idle" /\ chan = 0 /\ left = 0
    /\ ending = FALSE
    /\ dec = [d \in Decoders |-> NoDecoder]

LInit == Init /\ SnapInit

-----------------------------------------------------------------------------
(* Helpers: each constrains the named variables only.                      *)

\* (mutant) a block that exists already is counted again
AllocateCounts(x) ==
    /\ slot' = [slot EXCEPT ![x] = "ram"]
    /\ ram_usage' = ram_usage + 1

\* allocate_leaf_block for block x where its slot is still NULL
Allocate(x) ==
    IF slot[x] = "none"
    THEN slot' = [slot EXCEPT ![x] = "ram"] /\ ram_usage' = ram_usage + 1
    ELSE UNCHANGED <<slot, ram_usage>>

\* finished jobs that are collected: check_pending_spills asks the manager only
\* while it waits for something
Collected == IF pending = {} THEN {} ELSE completed

\* (mutants) the RAM copy is given up at the hand-over; it is marked and not freed
CheckPendingEarly ==
    /\ IF pending = {} THEN UNCHANGED vars ELSE DrainCompleted
    /\ pending' = pending \ Collected
    /\ slot' = [x \in Blocks |-> IF x \in pending THEN "disk" ELSE slot[x]]
    /\ ram_usage' = ram_usage - Cardinality({x \in pending : slot[x] = "ram"})

CheckPendingKeeps ==
    /\ IF pending = {} THEN UNCHANGED vars ELSE DrainCompleted
    /\ pending' = pending \ Collected
    /\ slot' = [x \in Blocks |-> IF x \in Collected THEN "disk" ELSE slot[x]]
    /\ UNCHANGED ram_usage

\* check_pending_spills: the RAM copy of a finished job is freed and its slot
\* marked, if the slot still is the pointer that was handed over
CheckPending ==
    LET freed == {x \in Collected \cap pending : slot[x] = "ram"} IN
    /\ IF pending = {} THEN UNCHANGED vars ELSE DrainCompleted
    /\ pending' = pending \ Collected
    /\ slot' = [x \in Blocks |-> IF x \in freed THEN "disk" ELSE slot[x]]
    /\ ram_usage' = ram_usage - Cardinality(freed)

\* (mutant) a uniform block is freed whoever may be reading it
DropUniformNow(x) ==
    /\ slot' = [slot EXCEPT ![x] = "none"]
    /\ ram_usage' = ram_usage - 1
    /\ UNCHANGED free_list

\* the uniform branch of calc_mipmap(isEnd): nothing to keep but first/last
DropUniform(x) ==
    IF able_free \/ x[2] > cur_ref[x[1]]
    THEN /\ slot' = [slot EXCEPT ![x] = "none"]
         /\ ram_usage' = ram_usage - 1
         /\ UNCHANGED free_list
    ELSE /\ slot' = [slot EXCEPT ![x] = "none"]
         /\ free_list' = free_list \cup {x}
         /\ UNCHANGED ram_usage

\* what spill_oldest_block may pick after finishing block (chan, blk)
Spillable ==
    {x \in Blocks : /\ x # <<chan, blk>>
                    /\ x[2] # cur_ref[x[1]]
                    /\ slot[x] = "ram"
                    /\ x \notin pending}

Oldest(x) == x \in Spillable /\ \A y \in Spillable : x = y \/ Before(x, y)

-----------------------------------------------------------------------------
(* append_payload.                                                         *)

\* first_payload fixes able_free, every packet collects finished spills and
\* allocates the block channel 0 goes on with
AppendBegin(n) ==
    /\ cap_pc = "idle" /\ ~mem_failed
    /\ n \in 1 .. MAX_PACKET /\ received + n <= TOTAL
    /\ received = 0 /\ DECODE_FIRST => \A d \in Decoders : dec[d].state # "off"
    /\ able_free' = IF received = 0 THEN \A d \in Decoders : dec[d].state = "off"
                                    ELSE able_free
    /\ CheckPending
    /\ received' = received + n
    /\ left' = n
    /\ chan' = 0
    /\ cap_pc' = "alloc"
    /\ UNCHANGED <<fill, free_list, cur_ref, mem_failed, blk, off, ending, dec>>

\* the block the next channel writes to; past the last root node the vector
\* is read out of its bounds
AllocateNext ==
    /\ cap_pc = "alloc"
    /\ IF blk = NBLK
       THEN cap_pc' = "overrun" /\ UNCHANGED <<slot, ram_usage>>
       ELSE /\ Allocate(<<chan, blk>>)
            /\ cap_pc' = IF left = 0 THEN "tail" ELSE "fill"
    /\ UNCHANGED <<vars, fill, pending, free_list, cur_ref, able_free, mem_failed,
                   received, blk, off, chan, left, ending, dec>>

\* (mutant) the end of the block is not looked at
SegmentWholePacket == left

\* up to the end of the packet or of the block
Segment == IF left < PARTS - off THEN left ELSE PARTS - off

\* copying through SPILLED_SENTINEL: the test is for NULL only
FillSentinel ==
    /\ cap_pc = "fill" /\ slot[<<chan, blk>>] = "disk"
    /\ cap_pc' = "crashed"
    /\ UNCHANGED <<vars, slot, fill, pending, free_list, ram_usage, cur_ref, able_free,
                   mem_failed, received, blk, off, chan, left, ending, dec>>

\* the samples of one channel up to the end of the packet or of the block;
\* at the end of a block calc_mipmap(isEnd) drops it if it has no edge
Fill ==
    LET x == <<chan, blk>> IN
    /\ cap_pc = "fill" /\ slot[x] = "ram"
    /\ fill' = [fill EXCEPT ![x] = off + Segment]
    /\ IF off + Segment = PARTS
       THEN /\ cap_pc' = "check"
            /\ \/ DropUniform(x)
               \/ UNCHANGED <<slot, ram_usage, free_list>>
       ELSE cap_pc' = "next" /\ UNCHANGED <<slot, ram_usage, free_list>>
    /\ UNCHANGED <<vars, pending, cur_ref, able_free, mem_failed, received, blk, off,
                   chan, left, ending, dec>>

\* the next channel; after the last one the aligned position moves on
NextChannel ==
    /\ cap_pc = "next" /\ ~ending
    /\ IF chan + 1 < NCH
       THEN chan' = chan + 1 /\ UNCHANGED <<blk, off, left>>
       ELSE /\ chan' = 0
            /\ left' = left - Segment
            /\ IF off + Segment = PARTS THEN blk' = blk + 1 /\ off' = 0
                                        ELSE blk' = blk /\ off' = off + Segment
    /\ cap_pc' = "alloc"
    /\ UNCHANGED <<vars, slot, fill, pending, free_list, ram_usage, cur_ref, able_free,
                   mem_failed, received, ending, dec>>

AppendEnd ==
    /\ cap_pc = "tail"
    /\ CheckPending
    /\ cap_pc' = "idle"
    /\ UNCHANGED <<fill, free_list, cur_ref, able_free, mem_failed, received, blk, off,
                   chan, left, ending, dec>>

-----------------------------------------------------------------------------
(* spill_oldest_block, called at the end of every block.                   *)

SpillNothing ==
    /\ cap_pc = "check" /\ (~should_spill \/ disk_full)
    /\ cap_pc' = "next"
    /\ UNCHANGED <<vars, slot, fill, pending, free_list, ram_usage, cur_ref, able_free,
                   mem_failed, received, blk, off, chan, left, ending, dec>>

SpillCheck ==
    /\ cap_pc = "check" /\ should_spill /\ ~disk_full
    /\ CheckPending
    /\ cap_pc' = "scan"
    /\ UNCHANGED <<fill, free_list, cur_ref, able_free, mem_failed, received, blk, off,
                   chan, left, ending, dec>>

SpillRelieved ==
    /\ cap_pc = "scan" /\ (~should_spill \/ disk_full \/ Spillable = {})
    /\ cap_pc' = "next"
    /\ UNCHANGED <<vars, slot, fill, pending, free_list, ram_usage, cur_ref, able_free,
                   mem_failed, received, blk, off, chan, left, ending, dec>>

SpillOldest ==
    /\ cap_pc = "scan" /\ should_spill /\ ~disk_full
    /\ \E x \in Blocks : Oldest(x) /\ EnqueueCall(x)
    /\ cap_pc' = "enqueue"
    /\ UNCHANGED <<slot, fill, pending, free_list, ram_usage, cur_ref, able_free,
                   mem_failed, received, blk, off, chan, left, ending, dec>>

SpillTest ==
    /\ cap_pc = "enqueue" /\ EnqueueTest
    /\ UNCHANGED snap_vars

\* (mutant) the job is handed over and not remembered
SpillEnqueuedForgets ==
    /\ cap_pc = "enqueue" /\ EnqueuePush
    /\ cap_pc' = "next"
    /\ UNCHANGED <<slot, fill, pending, free_list, cur_ref, ram_usage, able_free, mem_failed,
                   received, blk, off, chan, left, ending, dec>>

SpillEnqueued ==
    /\ cap_pc = "enqueue" /\ EnqueuePush
    /\ pending' = pending \cup {enq_block}
    /\ cap_pc' = "next"
    /\ UNCHANGED <<slot, fill, free_list, ram_usage, cur_ref, able_free, mem_failed,
                   received, blk, off, chan, left, ending, dec>>

SpillRefused ==
    /\ cap_pc = "enqueue" /\ EnqueueRefuse
    /\ mem_failed' = TRUE
    /\ cap_pc' = "next"
    /\ UNCHANGED <<slot, fill, pending, free_list, ram_usage, cur_ref, able_free,
                   received, blk, off, chan, left, ending, dec>>

-----------------------------------------------------------------------------
(* capture_ended, on the packet SR_DF_END, after any number of packets.    *)

EndBegin ==
    /\ cap_pc = "idle"
    /\ cap_pc' = "endWait"
    /\ UNCHANGED <<vars, slot, fill, pending, free_list, ram_usage, cur_ref, able_free,
                   mem_failed, received, blk, off, chan, left, ending, dec>>

\* (mutant) a capture that ends on a block boundary is given a tail too
EndIdleNoOffset ==
    /\ cap_pc = "endWait" /\ Idle
    /\ CheckPending
    /\ chan' = 0
    /\ ending' = TRUE
    /\ cap_pc' = "endTail"
    /\ UNCHANGED <<fill, free_list, cur_ref, able_free, mem_failed, received, blk, off,
                   left, dec>>

\* wait_for_idle without the mutex, then the tail of every channel
EndIdle ==
    /\ cap_pc = "endWait" /\ Idle
    /\ CheckPending
    /\ chan' = 0
    /\ ending' = (off > 0)
    /\ cap_pc' = IF off > 0 THEN "endTail" ELSE "ended"
    /\ UNCHANGED <<fill, free_list, cur_ref, able_free, mem_failed, received, blk, off,
                   left, dec>>

\* (mutant) the tail is not zeroed
EndTailUnzeroed ==
    /\ cap_pc = "endTail" /\ slot[<<chan, blk>>] = "ram"
    /\ cap_pc' = "check"
    /\ DropUniform(<<chan, blk>>)
    /\ UNCHANGED <<vars, fill, pending, cur_ref, able_free, mem_failed, received, blk, off,
                   chan, left, ending, dec>>

\* the tail is zeroed and the block finished like a full one
EndTail ==
    LET x == <<chan, blk>> IN
    /\ cap_pc = "endTail" /\ slot[x] = "ram"
    /\ fill' = [fill EXCEPT ![x] = PARTS]
    /\ cap_pc' = "check"
    /\ \/ DropUniform(x)
       \/ UNCHANGED <<slot, ram_usage, free_list>>
    /\ UNCHANGED <<vars, pending, cur_ref, able_free, mem_failed, received, blk, off,
                   chan, left, ending, dec>>

\* assert(false): the block has gone to disk
EndTailSentinel ==
    /\ cap_pc = "endTail" /\ slot[<<chan, blk>>] # "ram"
    /\ cap_pc' = "crashed"
    /\ UNCHANGED <<vars, slot, fill, pending, free_list, ram_usage, cur_ref, able_free,
                   mem_failed, received, blk, off, chan, left, ending, dec>>

EndNext ==
    /\ cap_pc = "next" /\ ending
    /\ IF chan + 1 < NCH THEN chan' = chan + 1 /\ cap_pc' = "endTail"
                         ELSE chan' = chan /\ cap_pc' = "ended"
    /\ UNCHANGED <<vars, slot, fill, pending, free_list, ram_usage, cur_ref, able_free,
                   mem_failed, received, blk, off, left, ending, dec>>

-----------------------------------------------------------------------------
(* The next capture: the decoders are stopped and joined, the snapshot is  *)
(* cleared (free_data waits for the manager to be idle), and at the first  *)
(* packet the manager is destroyed and a new one made.                     *)

Clear ==
    /\ cap_pc = "ended" /\ Idle
    /\ IF pending = {} THEN UNCHANGED vars ELSE DrainCompleted
    /\ slot' = [x \in Blocks |-> "none"]
    /\ fill' = [x \in Blocks |-> 0]
    /\ pending' = {} /\ free_list' = {} /\ ram_usage' = 0
    /\ cur_ref' = [c \in Channels |-> 0]
    /\ able_free' = TRUE /\ mem_failed' = FALSE
    /\ received' = 0 /\ blk' = 0 /\ off' = 0 /\ chan' = 0 /\ left' = 0
    /\ ending' = FALSE
    /\ dec' = [d \in Decoders |-> NoDecoder]
    /\ cap_pc' = "cleared"

DeleteManager ==
    /\ cap_pc = "cleared" /\ Stop
    /\ cap_pc' = "stopping"
    /\ UNCHANGED <<slot, fill, pending, free_list, ram_usage, cur_ref, able_free,
                   mem_failed, received, blk, off, chan, left, ending, dec>>

NewManager ==
    /\ cap_pc = "stopping" /\ Renew
    /\ cap_pc' = "idle"
    /\ UNCHANGED <<slot, fill, pending, free_list, ram_usage, cur_ref, able_free,
                   mem_failed, received, blk, off, chan, left, ending, dec>>

-----------------------------------------------------------------------------
(* A live decoder (DecoderStack::decode_data) works through its channel in *)
(* chunks of at most one block.                                            *)

\* add_decode_task: with the capture, or whenever the user adds a decoder or
\* changes one (remove_decode_task joins it first and it begins again)
StartDecoder(d) ==
    /\ cap_pc \notin {"cleared", "stopping"} /\ dec[d].state # "using"
    /\ dec' = [dec EXCEPT ![d] = [NoDecoder EXCEPT !.state = "ready"]]
    /\ UNCHANGED <<vars, slot, fill, pending, free_list, ram_usage, cur_ref, able_free,
                   mem_failed, received, blk, off, cap_pc, chan, left, ending>>

\* The end of the chunk that starts at p: the end of p's block or of the data.
ChunkEnd(p) == IF p[1] < blk THEN <<p[1] + 1, 0>> ELSE <<blk, off>>

\* get_samples, then free_decode_lpb of the previous block: the pointer to a
\* RAM block outlives the mutex; a spilled block is read through the cache
GetSamples(d) ==
    LET c == DecoderChannel[d]
        x == <<c, dec[d].at[1]>>
        p == IF slot[x] = "none" THEN NoBlock ELSE x
        freed == IF able_free \/ p = dec[d].lbp THEN {} ELSE {dec[d].lbp}
    IN
    /\ Unlocked /\ dec[d].state = "ready"
    /\ Before(dec[d].at, <<blk, off>>)
    /\ cur_ref' = IF slot[x] = "none" THEN cur_ref ELSE [cur_ref EXCEPT ![c] = x[2]]
    /\ free_list' = free_list \ freed
    /\ dec' = [dec EXCEPT ![d] =
                 [state |-> "using", at |-> dec[d].at, to |-> ChunkEnd(dec[d].at),
                  lbp |-> p, hold |-> IF slot[x] = "ram" THEN x ELSE NoBlock]]
    /\ UNCHANGED <<vars, slot, fill, pending, ram_usage, able_free, mem_failed, received,
                   blk, off, cap_pc, chan, left, ending>>

\* srd_session_send has returned: the chunk has been decoded
ChunkSent(d) ==
    /\ dec[d].state = "using"
    /\ dec' = [dec EXCEPT ![d] = [dec[d] EXCEPT !.state = "ready", !.at = dec[d].to,
                                               !.hold = NoBlock]]
    /\ UNCHANGED <<vars, slot, fill, pending, free_list, ram_usage, cur_ref, able_free,
                   mem_failed, received, blk, off, cap_pc, chan, left, ending>>

\* LogicSnapshot::decode_end, called when the last decoder is done
DecodeEnd ==
    /\ cap_pc = "ended"
    /\ \A d \in Decoders : /\ dec[d].state = "ready"
                          /\ ~Before(dec[d].at, <<blk, off>>)
    /\ free_list' = {}
    /\ UNCHANGED <<vars, slot, fill, pending, ram_usage, cur_ref, able_free, mem_failed,
                   received, blk, off, cap_pc, chan, left, ending, dec>>

-----------------------------------------------------------------------------
\* A view, a decoder or the file writer reads a spilled block: where the cache
\* does not have it, load_block positions the channel's stream under the mutex.
ReadSpilled(c) ==
    /\ Unlocked /\ \E x \in Blocks : x[1] = c /\ slot[x] = "disk"
    /\ ReadSeek(c)
    /\ UNCHANGED snap_vars

-----------------------------------------------------------------------------
\* the I/O thread reads the block through the pointer it was given
DiskWrite ==
    \/ IoTake \/ IoWriteFails \/ IoIndex \/ IoUsage \/ IoComplete \/ IoRetire \/ IoExit
    \/ io_pc = "write" /\ IoWrite(fill[job])

IoNext == DiskWrite /\ UNCHANGED snap_vars

Append1 == \/ \E n \in 1 .. MAX_PACKET : AppendBegin(n)
           \/ AllocateNext \/ Fill \/ FillSentinel \/ NextChannel \/ AppendEnd
Spill   == \/ SpillNothing \/ SpillCheck \/ SpillRelieved \/ SpillOldest
           \/ SpillTest \/ SpillEnqueued \/ SpillRefused
End     == EndBegin \/ EndIdle \/ EndTail \/ EndTailSentinel \/ EndNext
Restart == Clear \/ DeleteManager \/ NewManager
Decode(d) == StartDecoder(d) \/ GetSamples(d) \/ ChunkSent(d)

LNext == \/ IoNext \/ Append1 \/ Spill \/ End \/ Restart
         \/ \E d \in Decoders : Decode(d)
         \/ DecodeEnd
         \/ \E c \in Channels : ReadSpilled(c)

LSpec == LInit /\ [][LNext]_all_vars

\* What the collect thread does by itself once it has a packet to handle:
\* neither the device's packets nor the user's next capture are promised.
CollectStep == \/ AllocateNext \/ Fill \/ NextChannel \/ AppendEnd \/ Spill
               \/ EndIdle \/ EndTail \/ EndNext

\* Both are threads of their own; the I/O thread takes its locks only briefly.
LFairSpec == LSpec /\ WF_all_vars(IoNext) /\ WF_all_vars(CollectStep)

-----------------------------------------------------------------------------
SnapTypeOK ==
    /\ slot \in [Blocks -> {"none", "ram", "disk"}]
    /\ fill \in [Blocks -> 0 .. PARTS]
    /\ pending \subseteq Blocks
    /\ free_list \subseteq Blocks
    /\ ram_usage \in Int
    /\ cur_ref \in [Channels -> BlockIds]
    /\ able_free \in BOOLEAN /\ mem_failed \in BOOLEAN /\ ending \in BOOLEAN
    /\ received \in 0 .. TOTAL
    /\ blk \in 0 .. NBLK /\ off \in 0 .. PARTS - 1
    /\ cap_pc \in {"idle", "alloc", "fill", "next", "tail", "check", "scan", "enqueue",
                   "endWait", "endTail", "ended", "cleared", "stopping",
                   "crashed", "overrun"}
    /\ chan \in Channels
    /\ left \in 0 .. MAX_PACKET
    /\ dec \in [Decoders -> DecoderStates]

LTypeOK == TypeOK /\ SnapTypeOK

\* A slot says "on disk" only of a block load_block can find: the RAM copy is
\* given up after the index entry exists (check_pending_spills 1716-1738,
\* write_block_to_file 340-386).
SpilledIsIndexed == \A x \in Blocks : slot[x] = "disk" => index[x] # NoImage

\* What comes back from disk is all that was captured: the copy was taken
\* when the block was complete and nothing was added since.  Only a block
\* whose write failed after fwrite had taken it is lost, and then as a whole.
NoDataLoss == \A x \in Blocks : slot[x] = "disk" => index[x] \in {fill[x], Lost}

\* The I/O thread never reads memory that was freed: the job carries a raw
\* pointer, and calc_mipmap, clear() and check_pending_spills free blocks.
JobsAlive ==
    \A x \in Queued \cup (IF io_pc = "write" THEN {job} ELSE {}) : Alive(x)

\* _pending_spills is exactly what the manager has not reported back, so no
\* finished job is ever missed and none is waited for in vain.
PendingIsUnderWay == cap_pc \in {"cleared", "stopping"} \/ pending = UnderWay

\* _ram_usage_bytes: "the leaf blocks currently allocated"
RamAccounting ==
    ram_usage = Cardinality({x \in Blocks : slot[x] = "ram"}) + Cardinality(free_list)

\* assert in capture_ended: the tail of every channel is still in RAM.
TailInRam == cap_pc = "endTail" => slot[<<chan, blk>>] = "ram"

\* A decoder's pointer outlives the mutex; the block behind it does too.
ReaderSafe == \A d \in Decoders : dec[d].hold # NoBlock => Alive(dec[d].hold)

\* As long as it has not gone to disk: a block found to have no edge is kept on
\* _free_block_list until the decoder that reads it asks for another one
\* (calc_mipmap 690-703, free_decode_lpb), also if that decoder starts again.
UniformReaderSafe ==
    \A d \in Decoders : LET x == dec[d].hold IN
        x # NoBlock => Alive(x) \/ slot[x] = "disk"

\* What stays in RAM whatever the limit says: on each channel the block a decoder
\* protects, or block 0, which _cur_ref_block_indexs names at first, and the
\* block just finished.
Window == IF RAM_LIMIT > NCH + 1 THEN RAM_LIMIT ELSE NCH + 1

\* The window is exceeded by what is under way (a full queue, the job in hand,
\* one written but not yet collected) and by the block begun on each channel,
\* and by no more as long as the disk takes what it is given (spill_oldest_block
\* 1740-1780, called once per finished block).
RamBounded ==
    RAM_LIMIT > 0 =>
        \/ ram_usage <= Window + NCH + MAX_QUEUE_DEPTH + 2
        \/ disk_full \/ failed # {} \/ mem_failed

\* capture_ended comes to its end: the I/O thread empties the queue it waits
\* for, whatever fails on the way.
CaptureEnds == cap_pc = "endWait" ~> cap_pc \in {"ended", "crashed"}

\* A slot is NULL where nothing was captured or where the whole block was; a
\* reader takes NULL for a block without an edge (get_samples 738-741,
\* decode_data: chunk_const stands for it).
NullIsWhole == \A x \in Blocks : slot[x] = "none" => fill[x] \in {0, PARTS}

\* What a reader would find of a block: the bytes in RAM, or those on disk.
\* (A dropped block is described by its first, last and tog bits.)
Stored == [x \in Blocks |-> IF slot[x] = "disk" THEN index[x] ELSE fill[x]]

Store == INSTANCE BlockStore WITH stored <- Stored

\* RAM, write queue and file together are a store: what a reader finds only
\* grows, block after block (11.1 of the design: bit-identical to a capture
\* held in RAM), but for full blocks that a failing write takes away whole
\* and for good.  True of one channel.
ImplementsStore == Store!SSpec
=============================================================================
