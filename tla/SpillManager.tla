----------------------------- MODULE SpillManager -----------------------------
(***************************************************************************)
(* The disk side of the stream cache (PXTOOL/pv/data/spillmanager.cpp):    *)
(* the bounded write queue, the I/O thread that empties it into one        *)
(* append-only file per channel, the index of what is on disk, the list of *)
(* finished jobs the snapshot collects, and the disk limit.                *)
(*                                                                         *)
(* One client thread calls enqueue_spill and drain_completed; it is left   *)
(* free here (any block not under way may be enqueued at any time) and     *)
(* pinned down by LogicSnapshot.                                           *)
(*                                                                         *)
(* A block is counted as one unit of disk.  Its contents are an Image: how *)
(* many of its PARTS had been filled when it was read.                     *)
(*                                                                         *)
(* A channel's stream has a buffer twice the size of a block, so fwrite    *)
(* only fills it and the bytes go to the file when the stream is next      *)
(* positioned: for the channel's next job, or for a reader.  If that write *)
(* fails the block is Lost, whatever has been reported of it since.        *)
(***************************************************************************)
EXTENDS Integers, Sequences, FiniteSets

CONSTANTS
    NCH,              \* channels: channel_count_
    NBLK,             \* leaf blocks of a channel
    PARTS,            \* pieces a leaf block is filled in
    MAX_QUEUE_DEPTH,  \* write_queue_ bound
    DISK_LIMIT,       \* disk_limit_ in blocks; 0: no limit
    INIT_OUTCOMES,    \* what init_channels may leave behind: "wait", "absent"
    NoBlock,          \* no job, no call under way, nothing buffered
    NoImage,          \* the index has no entry
    Lost              \* the entry leads to bytes that are not the block's

Channels == 0 .. NCH - 1
BlockIds == 0 .. NBLK - 1
Blocks   == Channels \X BlockIds
Images   == 0 .. PARTS
Contents == Images \cup {Lost}

ASSUME ConstantsAssumption ==
    /\ NCH \in Nat \ {0} /\ NBLK \in Nat \ {0} /\ PARTS \in Nat \ {0}
    /\ MAX_QUEUE_DEPTH \in Nat \ {0} /\ DISK_LIMIT \in Nat
    /\ INIT_OUTCOMES \subseteq {"wait", "absent"}
ASSUME NoBlockAssumption == NoBlock \notin Blocks
ASSUME NoImageAssumption == NoImage \notin Contents
ASSUME LostAssumption == Lost \notin Images

VARIABLES
    write_queue,  \* write_queue_: blocks whose RAM pointer waits to be written
    job,          \* the WriteJob the I/O thread took
    io_pc,        \* where the I/O thread is
    image,        \* the bytes fwrite took from the job's pointer
    buffer,       \* file_buffers_: per channel, the block not yet in the file
    index,        \* block_offsets_/block_sizes_ and the bytes at that offset
    completed,    \* completed_spills_
    failed,       \* jobs given up after a failed or short write
    disk_usage,   \* disk_usage_ in blocks
    call,         \* enqueue_spill: "none", "test" (entered), "push" (disk not full)
    enq_block,    \* its argument
    stop_io       \* stop_io_: the destructor has begun

vars == <<write_queue, job, io_pc, image, buffer, index, completed, failed, disk_usage,
          call, enq_block, stop_io>>

io_vars   == <<job, io_pc, image, buffer, index, failed, disk_usage>>
call_vars == <<call, enq_block, stop_io>>

Queued == {write_queue[i] : i \in 1 .. Len(write_queue)}

\* active_writes_: from the pop to the end of write_block_to_file
active_writes == IF io_pc \in {"wait", "absent", "exit"} THEN 0 ELSE 1

\* (mutant) the limit itself is not yet full
disk_full_late == DISK_LIMIT > 0 /\ disk_usage > DISK_LIMIT

disk_full == DISK_LIMIT > 0 /\ disk_usage >= DISK_LIMIT

\* (mutant) the write in hand is not waited for
IdleQueue == write_queue = <<>>

\* what wait_for_idle waits for
Idle == write_queue = <<>> /\ active_writes = 0

\* The job in hand, until its outcome is recorded.
InHand == IF io_pc \in {"write", "index", "usage", "complete"} THEN {job} ELSE {}

\* Jobs the client has handed over and not collected.
UnderWay == Queued \cup InHand \cup completed \cup failed

Init ==
    /\ write_queue = <<>>
    /\ job = NoBlock
    /\ io_pc \in INIT_OUTCOMES
    /\ image = NoImage
    /\ buffer = [c \in Channels |-> NoBlock]
    /\ index = [x \in Blocks |-> NoImage]
    /\ completed = {}
    /\ failed = {}
    /\ disk_usage = 0
    /\ call = "none"
    /\ enq_block = NoBlock
    /\ stop_io = FALSE

-----------------------------------------------------------------------------
(* enqueue_spill: the disk is tested first, the queue later and under its  *)
(* own lock, so the I/O thread may run in between.                         *)

EnqueueCall(x) ==
    /\ call = "none" /\ ~stop_io
    /\ call' = "test"
    /\ enq_block' = x
    /\ UNCHANGED <<write_queue, completed, io_vars, stop_io>>

EnqueueTest ==
    /\ call = "test" /\ ~disk_full
    /\ call' = "push"
    /\ UNCHANGED <<write_queue, completed, io_vars, enq_block, stop_io>>

\* false is returned: the disk is full, or the queue is
EnqueueRefuse ==
    /\ \/ call = "test" /\ disk_full
       \/ call = "push" /\ Len(write_queue) >= MAX_QUEUE_DEPTH
    /\ call' = "none"
    /\ enq_block' = NoBlock
    /\ UNCHANGED <<write_queue, completed, io_vars, stop_io>>

EnqueuePush ==
    /\ call = "push" /\ Len(write_queue) < MAX_QUEUE_DEPTH
    /\ write_queue' = Append(write_queue, enq_block)
    /\ call' = "none"
    /\ enq_block' = NoBlock
    /\ UNCHANGED <<completed, io_vars, stop_io>>

\* drain_completed: the client learns the set completed
DrainCompleted ==
    /\ completed' = {}
    /\ UNCHANGED <<write_queue, io_vars, call_vars>>

-----------------------------------------------------------------------------
(* io_thread_func and write_block_to_file.                                 *)

\* (mutants) the job stays in the queue; a stopped thread takes no more jobs
IoTakeKeeps ==
    /\ io_pc = "wait" /\ write_queue # <<>>
    /\ job' = Head(write_queue)
    /\ io_pc' = "write"
    /\ UNCHANGED <<write_queue, image, buffer, index, completed, failed, disk_usage, call_vars>>

IoTakeUnlessStopped ==
    /\ io_pc = "wait" /\ write_queue # <<>> /\ ~stop_io
    /\ job' = Head(write_queue)
    /\ write_queue' = Tail(write_queue)
    /\ io_pc' = "write"
    /\ UNCHANGED <<image, buffer, index, completed, failed, disk_usage, call_vars>>

IoTake ==
    /\ io_pc = "wait" /\ write_queue # <<>>
    /\ job' = Head(write_queue)
    /\ write_queue' = Tail(write_queue)
    /\ io_pc' = "write"
    /\ UNCHANGED <<image, buffer, index, completed, failed, disk_usage, call_vars>>

\* fseek to the end of the channel's file: what the stream had buffered is
\* written, or cannot be and is discarded by the C library
SeekEnd ==
    \/ UNCHANGED index
    \/ /\ buffer[job[1]] # NoBlock
       /\ index' = [index EXCEPT ![buffer[job[1]]] = Lost]

\* (mutant) a short write passes for a whole one
IoWriteShort(v) ==
    /\ io_pc = "write"
    /\ SeekEnd
    /\ image' \in 0 .. v
    /\ buffer' = [buffer EXCEPT ![job[1]] = job]
    /\ io_pc' = "index"
    /\ UNCHANGED <<write_queue, job, completed, failed, disk_usage, call_vars>>

\* fwrite reads the block through the raw pointer of the job, finds v and
\* leaves it in the buffer.  That the block before it was lost shows in the
\* result of fseek with some C libraries only; with others this job goes on.
IoWrite(v) ==
    /\ io_pc = "write"
    /\ SeekEnd
    /\ image' = v
    /\ buffer' = [buffer EXCEPT ![job[1]] = job]
    /\ io_pc' = "index"
    /\ UNCHANGED <<write_queue, job, completed, failed, disk_usage, call_vars>>

\* (mutants) the thread returns; the job is reported finished all the same
IoWriteFailsLeaves ==
    /\ io_pc = "write"
    /\ SeekEnd
    /\ buffer' = [buffer EXCEPT ![job[1]] = NoBlock]
    /\ failed' = failed \cup {job}
    /\ io_pc' = "exit"
    /\ UNCHANGED <<write_queue, job, image, completed, disk_usage, call_vars>>

IoWriteFailsCompletes ==
    /\ io_pc = "write"
    /\ SeekEnd
    /\ buffer' = [buffer EXCEPT ![job[1]] = NoBlock]
    /\ io_pc' = "complete"
    /\ UNCHANGED <<write_queue, job, image, completed, failed, disk_usage, call_vars>>

\* fseek or ftell fails, or fwrite does without a buffer that takes the whole
\* job (setvbuf may fail): this job is dropped, and the block before it may be
\* the one that could not be written.
IoWriteFails ==
    /\ io_pc = "write"
    /\ SeekEnd
    /\ buffer' = [buffer EXCEPT ![job[1]] = NoBlock]
    /\ failed' = failed \cup {job}
    /\ io_pc' = "retire"
    /\ UNCHANGED <<write_queue, job, image, completed, disk_usage, call_vars>>

\* load_block of a block of channel c positions the stream, too (197)
ReadSeek(c) ==
    /\ buffer[c] # NoBlock /\ \E x \in Blocks : x[1] = c /\ index[x] # NoImage
    /\ buffer' = [buffer EXCEPT ![c] = NoBlock]
    /\ \/ UNCHANGED <<image, index>>
       \/ IF index[buffer[c]] = NoImage
          THEN image' = Lost /\ UNCHANGED index
          ELSE index' = [index EXCEPT ![buffer[c]] = Lost] /\ UNCHANGED image
    /\ UNCHANGED <<write_queue, job, io_pc, completed, failed, disk_usage, call_vars>>

IoIndex ==
    /\ io_pc = "index"
    /\ index' = [index EXCEPT ![job] = image]
    /\ image' = NoImage
    /\ io_pc' = "usage"
    /\ UNCHANGED <<write_queue, job, buffer, completed, failed, disk_usage, call_vars>>

\* (mutant) the bytes are taken off
IoUsageSubtracts ==
    /\ io_pc = "usage"
    /\ disk_usage' = disk_usage - 1
    /\ io_pc' = "complete"
    /\ UNCHANGED <<write_queue, job, image, buffer, index, completed, failed, call_vars>>

IoUsage ==
    /\ io_pc = "usage"
    /\ disk_usage' = disk_usage + 1
    /\ io_pc' = "complete"
    /\ UNCHANGED <<write_queue, job, image, buffer, index, completed, failed, call_vars>>

IoComplete ==
    /\ io_pc = "complete"
    /\ completed' = completed \cup {job}
    /\ io_pc' = "retire"
    /\ UNCHANGED <<write_queue, job, image, buffer, index, failed, disk_usage, call_vars>>

IoRetire ==
    /\ io_pc = "retire"
    /\ job' = NoBlock
    /\ io_pc' = "wait"
    /\ UNCHANGED <<write_queue, image, buffer, index, completed, failed, disk_usage, call_vars>>

\* (mutant) the queue is left behind
IoExitAtOnce ==
    /\ io_pc = "wait" /\ stop_io
    /\ io_pc' = "exit"
    /\ UNCHANGED <<write_queue, job, image, buffer, index, completed, failed, disk_usage, call_vars>>

IoExit ==
    /\ io_pc = "wait" /\ write_queue = <<>> /\ stop_io
    /\ io_pc' = "exit"
    /\ UNCHANGED <<write_queue, job, image, buffer, index, completed, failed, disk_usage, call_vars>>

-----------------------------------------------------------------------------
(* ~SpillManager raises stop_io_ and joins the I/O thread, which leaves    *)
(* only when the queue is empty; the files are removed after the join.  A  *)
(* new manager opens new files.  Where init_channels failed there is no    *)
(* thread: the queue is dropped unwritten.                                 *)

Stop ==
    /\ call = "none" /\ ~stop_io
    /\ stop_io' = TRUE
    /\ UNCHANGED <<write_queue, completed, io_vars, call, enq_block>>

Renew ==
    /\ stop_io /\ io_pc \in {"exit", "absent"}
    /\ stop_io' = FALSE
    /\ write_queue' = <<>>
    /\ completed' = {} /\ failed' = {} /\ disk_usage' = 0
    /\ index' = [x \in Blocks |-> NoImage]
    /\ buffer' = [c \in Channels |-> NoBlock]
    /\ io_pc' \in INIT_OUTCOMES
    /\ UNCHANGED <<job, image, call, enq_block>>

-----------------------------------------------------------------------------
IoThread(v) == IoTake \/ IoWrite(v) \/ IoWriteFails \/ IoIndex \/ IoUsage
               \/ IoComplete \/ IoRetire \/ IoExit

Enqueue(x) == x \notin UnderWay /\ index[x] = NoImage /\ EnqueueCall(x)

Next ==
    \/ \E x \in Blocks : Enqueue(x)
    \/ EnqueueTest \/ EnqueueRefuse \/ EnqueuePush
    \/ DrainCompleted
    \/ \E v \in Images : IoThread(v)
    \/ \E c \in Channels : ReadSeek(c)
    \/ Stop \/ Renew

\* The I/O thread is a thread of its own and never blocks for good; a caller
\* of enqueue_spill returns.
Fairness ==
    /\ WF_vars(IoTake) /\ WF_vars(\E v \in Images : IoWrite(v))
    /\ WF_vars(IoIndex) /\ WF_vars(IoUsage) /\ WF_vars(IoComplete)
    /\ WF_vars(IoRetire) /\ WF_vars(IoExit)

Spec == Init /\ [][Next]_vars
FairSpec == Spec /\ Fairness

-----------------------------------------------------------------------------
TypeOK ==
    /\ write_queue \in Seq(Blocks)
    /\ job \in Blocks \cup {NoBlock}
    /\ io_pc \in {"absent", "wait", "write", "index", "usage", "complete", "retire", "exit"}
    /\ image \in Contents \cup {NoImage}
    /\ buffer \in [Channels -> Blocks \cup {NoBlock}]
    /\ index \in [Blocks -> Contents \cup {NoImage}]
    /\ completed \subseteq Blocks
    /\ failed \subseteq Blocks
    /\ disk_usage \in Nat
    /\ call \in {"none", "test", "push"}
    /\ enq_block \in Blocks \cup {NoBlock}
    /\ stop_io \in BOOLEAN

\* No block is handed over twice at once: the write queue, the job in hand,
\* the finished and the failed jobs are disjoint, and the queue repeats none
\* (spillmanager.cpp 107-138, 289-313; the client's _pending_spills test).
QueuedOnce ==
    /\ \A i, j \in 1 .. Len(write_queue) :
          write_queue[i] = write_queue[j] => i = j
    /\ Queued \cap InHand = {}
    /\ (Queued \cup InHand) \cap (completed \cup failed) = {}
    /\ completed \cap failed = {}

\* A finished job has its index entry, without which load_block would not look
\* for it (340-345 before 383-386).  Its bytes may still be in the buffer.
CompletedIsIndexed == \A x \in completed : index[x] # NoImage

\* disk_full() is tested before the queue lock is taken and jobs already
\* queued are written whatever the disk holds, so the limit is overshot, but
\* never by more than a full queue, the job in hand and the one that slipped
\* in between test and push.
DiskOvershoot == DISK_LIMIT > 0 => disk_usage <= DISK_LIMIT + MAX_QUEUE_DEPTH + 1

\* ~SpillManager returns: the join ends whatever was queued.
DestructorReturns == stop_io /\ io_pc # "absent" ~> io_pc = "exit" \/ ~stop_io

\* A queued block is handed to the stream and indexed, or fails; it is never
\* forgotten while its manager lives and has a thread.
QueuedIsWritten ==
    \A x \in Blocks : x \in Queued /\ io_pc # "absent"
        ~> index[x] # NoImage \/ x \in failed

=============================================================================
