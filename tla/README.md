# PXTOOL: a TLA+ model of the capture pipeline

PXTOOL is the host program of a USB logic analyser: it collects samples from a
device, stores them, decodes protocols while samples still arrive, and shows the
result. This directory holds TLA+ modules for the part of it where threads
share memory: the sample store of a logic capture, its disk cache, the
decoder threads that read from it with the GUI thread that starts and stops
them, the hand-over of samples to a decoder inside libsigrokdecode, and the
device list of libsigrok with its hotplug and collect threads. TLC checks the
modules on small instances; TLAPS proves the main safety properties for every
value of the constants.

Contents: [parts](#the-parts-of-the-system) ·
[modules](#the-modules) · [runs](#the-runs) · [findings](#what-does-not-hold) ·
[proofs](#the-proofs) · [not modelled](#what-is-not-modelled) · [plan](#plan)

## The parts of the system

All paths are under `PXTOOL/pv` unless they begin with `lib`.

| Part | State it keeps | Operations | Hard because | Correct if |
|---|---|---|---|---|
| **SpillManager** `data/spillmanager.cpp` | write queue, job in hand, one append-only file per channel with a buffered stream, index of the blocks written, finished jobs, bytes on disk, read cache | `enqueue_spill`, `drain_completed`, `wait_for_idle`, `load_block`, I/O thread, destructor | the I/O thread writes from memory it does not own; disk test and queue test under different locks; short writes; writes that fail after they were reported | each job is written once or reported nowhere; a finished job has an index entry; the limits are kept up to a known excess; the destructor returns |
| **LogicSnapshot** `data/logicsnapshot.cpp` | per channel a table of block pointers (NULL, pointer, or `SPILLED_SENTINEL`), pending hand-overs, blocks kept for decoders, RAM count, append position | `first_payload`, `append_payload`, `capture_ended`, `clear`, `get_samples`, `free_decode_lpb`, `decode_end`, edge and pattern search | appending, spilling, writing and reading the same block; pointers that outlive the mutex | nothing captured is lost, no memory is used after it is freed, RAM stays bounded, the end of a capture is reached |
| **DecoderStack** `data/decoderstack.cpp` | decoder status, results, progress | begin, stop, the chunk loop `decode_data` | follows a live capture by polling; can be stopped or restarted at any moment | it reads every sample once, ends, and can always be stopped |
| **SigSession** `sigsession.cpp` | two capture buffers, device status, list of decode tasks, count of running ones, the current SpillManager | start, stop, packet handlers, add, reset, remove and clear decoders | queued events from the collect and decoder threads; joins that block the thread all events go to | one capture follows another; no part survives what it points to; each decoder is counted once while it works |
| **libsigrokdecode instances** `libsigrokdecode/instance.c`, `type_decoder.c` | per instance: samples handed over, conditions, flags, two condition variables | `srd_inst_decode`, `wait`, free with join (terminate and reset have no caller) | hand-shake of two threads | every chunk is worked off and given back; both threads come back |
| **StoreSession** `storesession.cpp` | progress, cancel flag, worker thread | save, export, import | a worker reads a capture while the user goes on | a file holds the whole capture or is removed |
| **libsigrok core** `libsigrok/lib_main.c`, `session.c`, `backend.c` | device list, active device, flags for attach, detach and reconnect, collect thread, session | attach, detach, activate, start, stop, release | four kinds of threads, some fields under no lock; libusb calls back from two of them, under a lock of its own; the thread that stops a capture waits for it | a device in use is neither closed nor destroyed; a capture keeps its session; the list follows the bus; a stop is heard and comes back |
| **PXLogic driver** `libsigrok/hardware/pxlogic/pxlogic.c` | handle, transfers under way, source | scan, open, close, start and stop of an acquisition | transfers end only in a callback | as above |
| **Other drivers, formats, protocol decoders, API, GUI** | | | device protocols, file formats, widgets | |

How they interact. The collect thread of libsigrok calls
`SigSession::data_feed_in`; a logic packet goes to `feed_in_logic`, which at the
first packet of a capture replaces the SpillManager, and then to
`LogicSnapshot::append_payload`. This holds the snapshot's mutex. Each time a
block of a channel is full, `calc_mipmap` frees it if it has no edge and calls
`spill_oldest_block`, which may hand one block, as a raw pointer, to the manager's
queue. The I/O thread hands it to a buffered stream and puts its key on a list of
finished jobs. The snapshot collects the list at the next packet, frees the RAM
copy and puts the sentinel in its place. A live decoder takes the mutex only for
`get_samples`; it goes on reading through the pointer while the mutex is free.
`SR_DF_END` runs `capture_ended`, which waits for the queue and zeroes the rest of
the last blocks.

Every decode trace has a thread. It takes chunks from the snapshot and sends
them, by `srd_session_send`, to a decoder instance of libsigrokdecode, which
runs in a thread of its own; a C plugin with `decode_chunk` is called directly.
What happens on these threads reaches the GUI thread as queued events: the end
of a capture, a device error, a decoder that is done. The GUI thread starts the
decoder threads, and joins them when a trace is removed, reset or cleared and
when a capture starts over.

Under all this is libsigrok. `ds_start_collect` makes a session and a collect
thread; this submits the driver's transfers, registers a source and runs the
session's loop, in which the source's callback handles libusb's events. The
hotplug thread handles them too, ten times a second, and keeps the device list.
Whichever of them handles events gets the callbacks for devices that come and
go; if the device being captured from goes, the callback stops the capture, as
`stop_capture` does on the GUI thread.

## The modules

| Module | Models |
|---|---|
| `SpillManager` | the write path of the manager, under a client that may call anything |
| `LogicSnapshot` | extends it with the snapshot, the collect thread, live decoders, and one capture after another |
| `BlockCache` | the read path of the manager: the cache of blocks read back, and its readers |
| `DecodeTasks` | the GUI thread and the decoder threads of a session: start, stop, join, count, and the range each decoder works through |
| `DecoderInst` | one instance of libsigrokdecode: the client's thread and the decoder's thread |
| `DeviceLib` | the device list and the active device of libsigrok, the session, the PXLogic driver, and the GUI, collect, hotplug and callback threads |
| `BlockStore` | abstract specification of the snapshot: what a reader finds in a block only grows, or is cleared |
| `ChunkLoan` | abstract specification of an instance: chunks without gaps, lent one at a time and handed back |
| `MC*` | values of constants for TLC |
| `*_proof` | theorems |

`LogicSnapshot` composes manager, snapshot, collect thread and readers.
`DecodeTasks` has the snapshot only as the number of samples captured, and a
chunk handed to a decoder as one step; that this step ends, and leaves the chunk
alone afterwards, is what `DecoderInst` shows (`CallReturns`, `BufferLent`).

### SpillManager

`write_queue`, `job`, `index`, `completed` and `disk_usage` are the members of
the class. `io_pc` is the position of the I/O thread between two places where
another thread can see a difference: take the job, read its bytes, enter it in
the index, count it, report it, retire it. `call` is the position of a client in
`enqueue_spill`: the disk is tested before the queue's lock is taken, so the I/O
thread can run between. `failed` is history: jobs that ended in a failed write.
The contents of a block are an *image*, the number of its PARTS that had been
filled when `fwrite` read them, which is all that data loss is about. Sizes are
counted in blocks.

Each channel's stream has a buffer of 4 MiB (`setvbuf` in `init_channels`), twice
the size of a block, so a block that `fwrite` has taken is in `buffer` and not on
disk; it goes there when the stream is next positioned, by the `fseek` of the
channel's next job (`SeekEnd`) or of a reader (`ReadSeek`). Where that write
fails the index entry of the block is `Lost`: it leads to bytes that are not the
block's. By then the block may have been reported and its RAM be free. A job can
also fail by itself (`IoWriteFails`), with the block before it lost or not. What
the C library does with a buffer it could not write differs; the model takes it
for discarded, the job that meets the failure for failed or not.

`INIT_OUTCOMES` says whether `init_channels` may fail: then
there is no I/O thread (`io_pc = "absent"`).

### LogicSnapshot

`slot`, `pending`, `free_list`, `ram_usage`, `cur_ref`, `able_free` and
`mem_failed` are members of the class (`lbp[]`, `_pending_spills`,
`_free_block_list`, `_ram_usage_bytes`, `_cur_ref_block_indexs`, `_able_free`,
`_memory_failed`). `blk` and `off` are the position up to which all channels are
filled. `cap_pc` follows the collect thread through `append_cross_payload`,
`spill_oldest_block` and `capture_ended`. It holds the mutex in all positions
but those of `Unlocked`, so decoders run only there, and the I/O thread runs
anywhere.

Abstractions:

* A packet holds a whole number of parts for every channel. Packets that cut a
  word of a channel in two (the "bit align" path) are left out.
* Whether a full block has an edge is a free choice.
* All root nodes are one table of `NBLK` blocks per channel.
* Each decoder reads one channel. `get_samples` and the `free_decode_lpb` that
  follows it are one step. A chunk ends with its block.
* Loop mode is off. A capture in stream mode without the disk cache is always in
  loop mode (`sigsession.cpp:1440`), so the cache is on in the model.
* Memory is never exhausted.
* A reader of a spilled block counts for what it does to the stream
  (`ReadSpilled`); which block it gets is the matter of `BlockCache`.
* `DECODE_FIRST` says that decoders are there before the first packet and stay;
  `exec_capture` does not enforce that. The runs about readers need it (see below).
* At the next capture the decoders have been stopped and joined.

`crashed` stands for the use of the sentinel as a pointer or the assertion in
`capture_ended`, `overrun` for an index past the table of root nodes.

### BlockCache

`lru` and `lru_tick` are the members of the class; `on_disk` is the index.
`load_block` has three critical sections, which are three steps: the search of
the cache, the look-up of the index, and eviction with the read of the file
(which holds the cache's lock throughout). The read may succeed, end early or
fail at `fseek`. The contents of a slot are named by the block they are of.
`held` are the pointers a reader goes on using after the lock is gone: a decoder
holds one per channel while a chunk is decoded. `misread` is history: blocks for
which `fseek` failed; their slot keeps the new tag with the old bytes. The
module stands beside the other two: what it needs of them is that a block is
asked for only when it is indexed (`SpilledIsIndexed`), and it does not even
assume that. Blocks the disk has lost are left to them.

### DecoderInst

The variables are the members of `struct srd_decoder_inst` under the names in
the comments; `feeder` and `thread` are the positions of the two threads,
`asleep` who sleeps on its condition variable. An action is what a thread does
while it holds `data_mutex`, or between two times it does: `DecodeCall` compares
and sets the position without the mutex, as the code does. A sleeper stays
asleep until it is signalled or wakes for no reason (`SpuriousWakeup`), so a
signal that is missing shows as a thread that never comes back.

Samples are their numbers. Which sample matches a condition is left open:
`Found(m)` is a search that ends at `m`, `NotFound` one that reaches the end of
the chunk sample by sample, and the condition "next" (none, or an empty one)
matches at once. `Jump` is a search that looks at one sample and goes to the end
of the chunk, as `find_match` does when every condition fails there by a term on a
channel that is constant in the chunk; since `all_skip_allow` is only ever and-ed,
that is decided at the first sample or not at all. `tested`, `skipped` and
`jumped` are history: how far the search has come, and which samples it passed
over at the beginning of a chunk or jumped over. The client sends chunks of any
length in order, from any first sample, until one is refused, and may free the
session between two. Left out: `srd_inst_terminate_reset`, which nothing in the
program calls, stacked decoders, and `wait({'skip': 0})`.

### DecodeTasks

A task is a decode trace with its `DecoderStack`; `active`, `connected`,
`cap_end`, `stop`, `pos`, `end` and `checked` are the members named in the
comments. `thread[t]` is the position of the trace's thread, one step per access
to something another thread changes. The GUI thread has a queue of events
(`inbox`) and runs one handler at a time. A handler is one step up to its first
join; there the GUI thread blocks (`gui = "join"`), handles no event, and the
handler goes on when the thread has ended: `StopTask`, `Join`, then one of the
`End...` actions, which is the rest of that handler.

* Python decoders hold `s_srd_session_mutex` for all their work; plugins take no
  lock.
* Qt runs a slot for an event that was queued before its connection was cut.
  So the completion of a task that was reset can meet the flag of the task
  started after it (`stolen`). For a trace that has been deleted it does not run,
  since the context object is gone; a trace deleted does not come back.
* The samples that decoders work on run from the first to the last. `SCALE`
  stands for the 64 samples of a word, of which packets, blocks and the limit
  of a capture are multiples.
* A device ends a capture by itself, at the limit or before, and in good order
  or with an error; an error makes the session `refresh`.
* `crashed` stands for the assertion in `get_samples`.

### DeviceLib

The variables from `list` to `abort` are the members of `struct sr_lib_context`
and `struct sr_session` named in the comments. `pc[w]` is where a caller `w` is
in `ds_stop_collect`, `ds_release_actived_device` or the hotplug callback: the
GUI thread, a callback thread, or, inside a callback of libusb, the hotplug or
the collect thread. `tpc[t]` is where collect thread `t` is in
`collect_run_proc`, `hpc` where the hotplug thread is in its loop. `mutext` is
never held across a wait, so each section under it is one step; fields that the
code reads outside it are read in steps of their own.

`events` is libusb's events lock. `usbq` are the messages libusb has not called
back for; `CallBack` takes the oldest, in the hotplug thread (`HotplugCallBack`)
or in a collect thread (`CollectCallBack`). `flight[t]` are the transfers of a
capture, as one: flying, cancelled (and to be dispatched by who has the events
lock), over, or lost, when the device was closed before they came back.

* An instance is named by the libusb device it was scanned as; `handle` changes
  when a reconnected device is taken for one that was missed, what the driver
  opens does not (`Opens`), since `devc->usb_dev` is set by the scan only.
* Devices are matched by handle; the match by bus and address, which libusb
  reuses, is left out.
* `early` is history: a capture has been started while another thread was still
  ending the one before, which nothing prevents. What a capture owns is said for
  the time before that (see below).
* `POLL` is the Linux fallback, without which an attach that comes during a scan
  is lost.
* Devices opened from files, `ds_remove_device`, `ds_lib_exit`, repeat mode and
  `wait_upload` are left out.

## The runs

| Run | Instance | Shows |
|---|---|---|
| `spill_manager` | 2 channels of 2 blocks, queue 1, disk limit 1, any client, restarts | no job is lost, repeated or reported before it is indexed; the disk limit is overshot by at most a queue and one job; the destructor returns; every queued block is written or fails |
| `one_channel` | 7 blocks of 2 parts, RAM 1, queue 1, disk limit 5 | nothing is lost but whole blocks whose write fails after `fwrite` took them, no freed memory is written to disk, RAM count and RAM bound, the tail is in RAM, the capture's end is reached, refinement of `BlockStore` |
| `three_channels` | 3 channels of 2 blocks, RAM 2, queue 1, a decoder on the second | what still holds of sentinel, index, pending and finished jobs and NULL slots where partial blocks are spilled; a reader of a block without edges keeps it |
| `block_cache` | 3 slots, 4 blocks, 2 readers, 5 loads | a tagged slot holds its block; a pointer lasts until all other slots have been used since. The bound is exact |
| `decoder_inst` | a C or a Python decoder, 6 samples from 0 or 3, chunks up to 3 | no chunk is used after it is given back, none is refused by a decoder that lives, no sample is left out but the first of a chunk and what the jump leaves out, both threads come back, refinement of `ChunkLoan` |
| `decode_tasks` | a Python decoder and a plugin, captures of 2 blocks, stream and buffer mode, 2 user actions | the count of running decoders is right, comes back to 0 and covers all that work; no thread is joined late, started twice or left without its trace; samples asked for are there; handlers return once the capture has ended |
| `device_list` | two plug-ins of a device on one port, the demo device, one capture of the first, reconnect after 2 turns, poll | no instance is destroyed while listed or active or left over; a capture keeps its session, device and thread handle; the list follows the bus; a stop is heard |
| `two_channels_data` | 2 channels | *violated:* data is lost |
| `spilled_under_reader` | 1 channel, 1 decoder | *violated:* a decoder reads freed memory |
| `next_sample` | as `decoder_inst` | *violated:* a sample is passed over by a decoder that asks for the next one |
| `gui_hang` | 2 Python decoders, stream mode | *violated:* the GUI thread joins a decoder that follows a live capture |
| `detach_hang` | one device, one capture | *violated:* cancelled transfers are dispatched |

Bounds and why they are enough. `MAX_QUEUE_DEPTH` is 1 where the code has 128: a
queue that is empty or full, beside the job in hand. Two channels are two streams,
one of which may hold a block while the other is written. `PARTS` is 2 or more
where data loss matters: a block that has begun and is not full. Block 0 is never
spilled while no decoder has moved on, so `NBLK` is at least 3 to have one on
disk, one pending and one being filled. Three channels are needed for the tail of
a channel to be on disk: channel 0 ends a block, and of the other two one is
protected by its reader and one is oldest. `TOTAL` bounds the samples of one
capture, which the device does too. In `decoder_inst` 6 samples hold two full
chunks, or more small ones: a match in, at the end of, and after a chunk. In
`decode_tasks` two user actions are the fewest that bring a handler about while
the events of another are queued (a capture, then a reset during it), and two
tasks the fewest where one waits for what the other holds; the proofs cover any
number of both. In `device_list` one port and two plug-ins are a device that goes
and comes back as another, or before it was missed; `RECONNECT` is 2 where the
code has 5, a wait with a turn before the last; one capture ends by itself, by the
user, by a detach, or by several of them at once. `CHOSEN` and `CAPTURED` say
which devices the user takes. The proofs cover any number of devices, ports and
captures. The runs do not check for deadlock: a capture that has ended waits for
the user, and a crash is a state without a successor.

Fairness. The I/O thread is a thread of its own and waits only for its queue, so
each of its steps is weakly fair in `FairSpec` of `SpillManager` (a failed write
is never promised). `LFairSpec` adds the collect thread inside a packet or
`capture_ended`. In `DecoderInst` each of the two threads is weakly fair once it
has something to do; the client promises neither another chunk nor to free the
session. In `DecodeTasks` the event loop, each decoder thread and the end of a
capture (single mode: the limit, or an error) are weakly fair. In `DeviceLib`
the hotplug thread and each collect thread are weakly fair, and a callback they
are in with them; transfers that carry data need never come, but those that are
cancelled, or whose device is gone, end when events are handled. No fairness is
assumed of packets, of plugs or of the user anywhere.

Every property of a passing run has a mutant of the code that breaks it: a
definition marked "(mutant)" beside the one it replaces.

## What does not hold

1. **Data loss with several channels** (`two_channels_data`).
   `spill_oldest_block` is called when one channel has finished block *b*. The
   later channels' block *b* exists already but is not full; it may be the
   oldest in RAM, since only the finished block itself is skipped. It is written
   half full, freed and marked spilled, and what is appended later goes nowhere,
   or through the sentinel. For the same reason the assertion of `capture_ended`
   that the tail is in RAM fails with three channels and a decoder, and
   `JobsAlive` fails with two (a partial block is queued and then dropped for
   having no edge). The first channel is safe, however many there are: for
   it all of these are proved (`FirstChannel_proof`).
2. **A decoder's block is freed under it** (`spilled_under_reader`).
   `_cur_ref_block_indexs` keeps a block from being *chosen* for a spill. A
   block that was already queued when the decoder reached it is freed when the
   job is done. A block without edges, in contrast, is kept (`UniformReaderSafe`),
   if the decoder was there before the first packet and has the channel to
   itself.
3. **A sample is passed over** (`next_sample`). When `wait()` returned the last
   sample of a chunk, the search of the next chunk begins by stepping over one
   sample, although the position has already been moved to the first of it. An
   edge at that sample is missed, and a decoder that asks for the next sample
   gets the one after (`NextSampleExamined`). `SkipsOnlyFirst` says that nothing
   else is passed over but by the jump of a search with conditions.
4. **The GUI thread hangs** (`gui_hang`). A decoder that is stopped before its
   thread has reached `do_decode_work` does not see the stop, since the mark is
   on a status that is then replaced. It follows the capture until it is told
   that this has ended, and only the GUI thread tells it, which is in the join.
   The same happens with two Python decoders on a live capture: the second waits
   for the mutex that the first holds as long as the capture runs, and a stop of
   the second is not seen there either. Once all decoders know of the end, every
   join returns (`StopReturns`).
5. **The loss of a device hangs the program** (`detach_hang`). When the device
   being captured from is unplugged, libusb calls back from whichever thread
   handles its events. For the collect thread the code has a path of its own. If
   it is the hotplug thread, the callback joins the collect thread while it holds
   the events lock; the collect thread cancels its transfers, which only a holder
   of that lock can dispatch. The GUI thread, which stops the capture, joins too.
   `StopHeard` and `ListFollowsBus` name this case (`Stuck`).

Some more are shown by the models with other constants, without a run of their
own; the theorems name these cases as hypotheses:

* With `INIT_OUTCOMES = {"wait", "absent"}` in `OneChannel.cfg`, `CaptureEnds`
  fails: `feed_in_logic` ignores that `init_channels` failed, blocks queue up
  with no thread, and `wait_for_idle` never returns.
* While one thread is between the join and `sr_session_destroy`, the collect
  thread is gone and the next capture may start; its session is then destroyed and
  its `collect_thread` overwritten with NULL. `CollectorOwns` excepts what comes
  after such a start (`early`). It takes two captures and one device
  (`MAX_STARTS = 2`, `Handles = {h1}`, `CHOSEN = {h1}` in `DeviceList.cfg`): there
  `CollectorOwns` without its first disjunct fails, and with it holds.
* With `DECODE_FIRST = FALSE` in `SpilledUnderReader.cfg`, `UniformReaderSafe`
  fails: `first_payload` fixes `_able_free` at the first packet, so for a decoder
  that is added later no block is kept.
* With two decoders on one channel it fails, too: there is one
  `_cur_ref_block_indexs` per channel, which `get_samples` of the second sets
  (`logicsnapshot.cpp:752`), and `calc_mipmap` then frees the block the first one
  reads.
* With a decoder `RamAccounting` fails: `free_decode_lpb` and `decode_end` free
  blocks and leave `_ram_usage_bytes` as it is. It is then too high, never too low
  (`RamNeverUndercounted`), so blocks go to disk earlier than need be.
* `DeviceLib` also has a stop that comes before `session->running` is set, which
  is dropped, and a capture whose device is closed by a reconnection, whose
  transfers never come back. No document promises otherwise.

A block is lost for good, without a trace, where the disk is full or fails when
the stream's buffer is flushed: at the `fseek` of the channel's next job, when
the block has been indexed and reported and its RAM copy freed
(`spillmanager.cpp:325`). `Lost` is that case; `NoDataLoss` and `BlockStore` name
it. The next block is written where the lost one should be, so `load_block`
may return another block's bytes for it. The design wants a write error to stop
the capture and to be reported
(`docs/superpowers/specs/2026-06-01-stream-disk-cache-design.md:453`); even a
`fwrite` that fails at once is only logged.

A search that jumps to the end of a chunk leaves out samples that a condition
could match. A term for a level or an edge cannot, since its channel is constant
there; a term for "no edge" on a channel whose level changed at the first sample
of the chunk matches the next one, and is found only in a later chunk
(`instance.c:1090` and `1311`).

Two are outside what the models hold. The end that `get_samples` returns is
exclusive, and `execute_c_decode_stack_streaming` takes it for the last sample,
so a plugin is given one sample past its chunk (`decoderstack.cpp:1488`). Where a
packet ends in the last round of words of a block, the rest comes by the
bit-align path, which calls `calc_mipmap` for the last channel only
(`logicsnapshot.cpp:397`): the blocks of the channels between have no complete
mipmap, and nothing is spilled for them.

Where the code and its documents part without a run of its own: a full write
queue ends the capture, where the design wants back-pressure; `refresh` empties
the snapshot before the decoders are stopped, so the assertion of `get_samples`
can fail (`FetchCaptured` excludes that moment, and `StopReturns` a thread that
ended so); a completion that was queued before a reset takes the new task off
the count while it works (`CountedWhileRunning` names the case), after which the
blocks kept for decoders may be given up too early.

## The proofs

`SpillManager_proof` proves, for any number of channels, blocks and parts, any
queue depth and any disk limit, the four invariants of the run `spill_manager`.
The inductive invariant adds to them what ties `io_pc` to `job` and `image`,
that a job in its last steps has an index entry, that a block in a stream's buffer
is indexed or the one in hand, and, for the overshoot, that
usage plus all that is under way exceeds the limit by no more than a queue and
one job.

`LogicSnapshot_proof` first shows that every step of the snapshot is a step of
the manager or leaves it alone (`UsesManager`): the free client of the manager
covers the real one. So the manager's theorems hold of the composition. The
snapshot's own invariant `LInv` has three parts: where the collect thread is
against its loop counters (`PhaseInv`), how far each block is filled
(`PosInv`), and how pending, queue, finished jobs and slots correspond
(`PendInv`). From it follow the types, that a sentinel has an index entry, that
pending agrees with the manager and what NULL stands for, for any number of
channels, decoders and captures.

`FirstChannel_proof` is about the first channel, the one that keeps every bit.
When a channel has finished a block those before it have, so at the moment
`spill_oldest_block` chooses a block the first channel has none that is half full.
A block of it that is handed over is therefore full (`KeptInv`, from `PosInv` and
`FullInv` of the snapshot); its image is whole, its memory stays until the job is
finished, and the tail is never spilled. For the first of any number of channels
this gives that what is read back from disk is all that was captured, or a block
lost as a whole because its write failed later (`FirstChannelIsWhole`), and the
refinement of `BlockStore` (`FirstChannelStore`), in which full blocks may be lost
but nothing else changes. The properties the run `one_channel` checks are about
all channels, and are proved where the first is the only one (`NCH = 1`). With
more channels they are false, as the runs show.

`LogicMemory_proof` is about memory, for any number of channels.

* *Readers.* `Pointers` says that `_cur_ref_block_indexs` names the block a
  decoder holds, so that `calc_mipmap` puts it aside, and `Kept` that `_able_free`
  is off. Both need that the decoders were there before the first packet and that
  no two are on one channel; without either the theorem is false (see above).
  A block with edges that was spilled is freed under its reader all the same, which
  is finding 2.
* *The count.* Every step that allocates or frees changes `_ram_usage_bytes` by as
  many blocks as it adds or removes, but for those of decoders.
* *The window.* Blocks in RAM that nobody has handed over (`Unspilled`) are at
  most the window plus one for each channel that has begun a block and has not
  been through `spill_oldest_block` with it (`Open`, `WindowInv`). Beginning a
  block adds one to both sides; a check of the RAM limit takes the channel from
  the right, and finds either room or a block to hand over, because more blocks
  than there are protected ones are there. `QueueInv` bounds what is handed over.
  With both, the blocks in RAM are bounded whatever decoders do (`RamWindow`), and
  so, where it is exact, is the count (`RamIsBounded`). Both except a disk that is
  full or fails. The bound is not the limit alone: at the smallest setting, 32 MB,
  the limit has room for 15 blocks, and with 16 or 32 channels it is what each
  channel keeps that counts (`Window`).

`BlockCache_proof` proves that hits are true, for any number of readers and slots.
For as many, a block read back stays in its slot until as many loads have followed
as there are other slots (`PointersLast`): the slot evicted is the one used
longest ago, and the ticks of the other slots are all different, so that many
loads lie between (`TicksInv`, `EvictedIsOld`). `ChunkSafe` needs a stronger
invariant: a slot the reader holds has been used later than every slot it does not
hold, and as long as it holds fewer pointers than there are slots (a cardinality
argument) one of the others exists, so the slot evicted is never a held one. It
assumes a single reader. With a second one (the view drawing, or a file being
saved, while a decoder runs) only `PointerLife` remains: 128 slots make an
overwritten pointer unlikely, not impossible.

`DecoderInst_proof` proves the safety of the hand-over for chunks and captures of
any length. The invariant says who has the chunk: a client inside
`srd_inst_decode` has either lent it (`got_new`) or has it back (`handled_all`),
everywhere else nothing is lent and the decoder stands where the next chunk
begins, and termination is wanted only by a client that joins. The step that
needs care is `NotFound`, where the flag of the last match outlives the chunk:
`Position` says that a pending match lies one before the position or at it. It
also bounds what a search leaves out (`OnlyFirstSkipped`). From
the same invariant every step is a step or a stutter of `ChunkLoan`
(`LendsChunks`). `NoWakeupLost` is what `CallReturns` and `JoinReturns` rest on:
whoever sleeps on its condition variable sleeps for a reason, a client that sleeps
has a decoder that is awake, and a client that joins too. `NextSampleExamined` is
false, so no theorem is about it.

`DecodeTasks_proof` is for any number of decoders, any capture, and any number of
user actions. It shows that the count of running decoders equals the number of
active tasks. The decrement has three possible owners, the completion event, the
handler that removes a task, and the one that clears them all; `IInv` names for
each moment the one that still has to act. `Jobs` and `Owned` say which traces a
handler is about, `Gone` that a deleted trace has no thread, `Connected` and
`Heard` that an active task will still be reported, by an event in the queue or
by its thread, `Awaited` that a task that was stopped is being waited for. The
count itself needs a lemma on the cardinality of a set that gains or loses an
element. From `IInv` follow that the count comes back to 0, that what works is
counted, that a trace outlives its thread, and that no task has two threads.

The loops are a matter of arithmetic. Data come in whole words, a decoder stops
between two words or at its end, and an end that was cut down to the data lies
within the last word (`Positions`); so a Python decoder is never one sample away
from the data's end, where it would ask for nothing (`FetchesAreCaptured`), and
every round of any decoder brings it forward (`DecodingAdvances`). That the mutex
keeps Python decoders apart (`OnePythonDecoder`) is an invariant over all ways a
thread is started, stopped and started over.

`DeviceLib_proof` is for any number of devices, ports and captures. `DeviceInv`
gives the types and `ListSound`; it adds that a detach, in the queue, in a
callback or pending, is of a device that is gone for good (`NewsTrue`), and that
an instance whose own device is on the bus is listed under it (`ListTrue`).
Without these an instance could be listed a second time after it was destroyed.

`CaptureOwnsDevice` is for any run, up to the start that comes too early: `early`
is a state of the model and no hypothesis. Its invariant `CaptureInv`, which holds
until then, says that there is one capture at a time, whose thread is the one
`collect_thread` names or is about to name (`OneCapture`), that who ends a capture
joins that thread and finds none when it closes the device (`WaitsForIt`), and
that session and active device are that thread's until it is out of the loop
(`OwnsSession`). The argument is that of a lock: the close comes after the join,
and a start comes after the close, until one does not (`EarlyStays`,
`StepCapture`).

Who handles libusb's events is the subject of `OneThreadDispatches`, which needs
no hypothesis: the hotplug thread in its wait or one collect thread in its loop,
which stays there until the callback returns (`EventsLock`). With `CaptureInv` it
gives `NeverJoinsItself`, with the same exception: when a callback on the collect
thread comes to stop the capture, `collect_thread` names that very thread, so that
the comparisons with `g_thread_self` (lib_main.c:910 and 948) do hold and it
neither joins itself nor closes the device under its own transfers. Both
invariants were checked by TLC on the instance of DeviceList before they were
proved. Nothing like it holds of the hotplug thread, which is no `collect_thread`
and joins under the lock (the run detach_hang).

The assumptions are those on the constants, declared in `SpillManager`,
`LogicSnapshot`, `BlockCache`, `DecoderInst`, `DecodeTasks` and `DeviceLib` and
evaluated by TLC in the runs.

Every safety property of a passing run has a theorem, for some of them under the
hypotheses named above. Only model-checked are the liveness properties, which are
out of the prover's reach, as ENABLED is: `DestructorReturns`, `QueuedIsWritten`,
`CaptureEnds`, `CallReturns`, `JoinReturns`, `StopReturns`, `ListFollowsBus` and
`StopHeard`. The models declare no recursive operator, so nothing is left out for
that reason.

## What is not modelled

Of the modelled parts: loop mode; the mipmap above its top bit and the edge and
pattern searches; editing of samples after a capture (`set_sample_block`); the
bit-align path; repeat mode with its two buffers; memory exhaustion; analog and
oscilloscope captures; plugins without `decode_chunk`; stacked decoders; the
comparison of pins with the terms of a condition; of libsigrok, what the list
under [DeviceLib](#devicelib) names, and triggers.

Of the others: a save reads a finished capture block by block in a worker, and its
hazards are those of the reads modelled here. The control API marshals its
requests to the GUI thread.

The modules cover a small share of the repository's lines, and will not cover a
large one: most of the 268 000 lines are device drivers, file formats, several
hundred protocol decoders, widgets, settings and vendored code. They are
sequential, or speak protocols whose other side is not in the repository, so a
model would repeat them line by line and find nothing a test does not. The
threads that share state are those of the pipeline above.

PROJECT.json lists each part with its reason, and lists the hazards no property
covers with theirs: mostly widths of integers (root index, file offsets), values
of samples, repeat mode, and editing.

## Plan

The modules were written in this order: `SpillManager`, `LogicSnapshot` with
`BlockStore`, `BlockCache`, `DecoderInst` with `ChunkLoan`, `DecodeTasks`,
`DeviceLib`, each with its proofs before the next. What would add most now:

* repeat mode with its two capture buffers, in `LogicSnapshot`: the manager is
  deleted while the view still reads through a snapshot that points to it;
* the index arithmetic of the mipmap (`calc_mipmap` takes a root index of eight
  bits), as functions checked against a reference over bounded inputs;
* the composition of `DecodeTasks` with `LogicSnapshot`, so that a decoder that
  is started over meets blocks on disk;
* `ds_lib_exit` and `ds_remove_device` in `DeviceLib`.
