------------------------------ MODULE DecodeTasks ------------------------------
(***************************************************************************)
(* The decode tasks of a session in single mode (PXTOOL/pv/sigsession.cpp, *)
(* PXTOOL/pv/data/decoderstack.cpp): every decode trace has a thread of    *)
(* its own that works through the capture.  The GUI thread adds, stops and *)
(* joins these threads, the collect thread brings the samples, and what    *)
(* has happened reaches the GUI thread as queued events.                   *)
(*                                                                         *)
(* A GUI handler is one step up to a join, where the GUI thread blocks and *)
(* handles no event.  Python decoders hold s_srd_session_mutex for all     *)
(* their work; plugins (execute_c_decode_stack_streaming) take no lock.    *)
(* Decoding is from the first sample to the last; what a chunk costs, the  *)
(* annotations and lack of memory are left out, as are repeat and loop     *)
(* mode and plugins without decode_chunk.                                  *)
(***************************************************************************)
EXTENDS Integers, Sequences, FiniteSets

CONSTANTS
    Tasks,        \* decode traces, numbered in the order in which they are made
    Plugins,      \* those decoded by a C plugin
    SCALE,        \* samples of a word: captures and blocks hold whole words
    LIMIT,        \* cur_samplelimits(): bound on the samples of a capture
    BLOCK,        \* samples of a leaf block
    PACKETS,      \* lengths of packets
    STREAM_MODES, \* whether devices stream or upload at the end
    MAX_USES,     \* bound: captures started, decoders added, removed and reset
    Ended, Failed \* queued events: the capture has ended, or with an error

ASSUME TasksAssumption ==
    /\ Tasks \subseteq Nat /\ IsFiniteSet(Tasks) /\ Plugins \subseteq Tasks
    /\ LIMIT \in Nat \ {0} /\ BLOCK \in Nat \ {0}
    /\ PACKETS \subseteq Nat \ {0}
    /\ SCALE \in Nat \ {0, 1}
    /\ \A n \in PACKETS \cup {BLOCK, LIMIT} : n % SCALE = 0
    /\ STREAM_MODES \subseteq BOOLEAN
    /\ MAX_USES \in Nat
    /\ Ended \notin Tasks /\ Failed \notin Tasks /\ Ended # Failed

VARIABLES
    gui,       \* "idle" in the event loop, "stop" between joins, "join" in one
    job,       \* what the GUI thread stops tasks for
    todo,      \* the tasks it has still to stop
    joining,   \* the task it stopped last
    traces,    \* _decode_traces
    fresh,     \* traces to be made; one that is deleted does not come back
    running,   \* _running_decoder_count
    inbox,     \* queued events: Ended, Failed, and the tasks that are done
    uses,      \* what the user has done
    stream,    \* _is_stream_mode
    collect,   \* the collect thread runs
    count,     \* get_ring_sample_count()
    active,    \* _task_active
    connected, \* _decode_connections
    cap_end,   \* _is_capture_end
    stop,      \* _stask_stauts->_bStop
    thread,    \* where the task's thread is; "ended": it can be joined
    pos, end,  \* i and end_index of its loop
    checked,   \* bCheckEnd
    mutex,     \* who holds s_srd_session_mutex; {} for nobody
    stolen     \* history: threads whose active flag an older event has cleared

gui_vars     == <<gui, job, todo, joining, traces, fresh, running, uses>>
capture_vars == <<stream, collect, count>>
task_vars    == <<active, connected, cap_end>>
loop_vars    == <<pos, end, checked>>
vars == <<gui_vars, capture_vars, task_vars, loop_vars, inbox, stop, thread, mutex, stolen>>

Joinable == {"none", "ended"}

Init ==
    /\ gui = "idle" /\ job = "none" /\ todo = {} /\ joining \in Tasks
    /\ traces \in SUBSET Tasks /\ \A t \in traces : \A u \in Tasks \ traces : t < u
    /\ fresh = Tasks \ traces
    /\ running = 0 /\ inbox = <<>> /\ uses = 0
    /\ stream = FALSE /\ collect = FALSE /\ count = 0
    /\ active = [t \in Tasks |-> FALSE] /\ connected = [t \in Tasks |-> FALSE]
    /\ cap_end = [t \in Tasks |-> TRUE]
    /\ stop = [t \in Tasks |-> FALSE] /\ thread = [t \in Tasks |-> "none"]
    /\ pos = [t \in Tasks |-> 0] /\ end = [t \in Tasks |-> 0]
    /\ checked = [t \in Tasks |-> FALSE]
    /\ mutex = {} /\ stolen = {}

\* f with the value v at the tasks in S
Set(f, S, v) == [t \in Tasks |-> IF t \in S THEN v ELSE f[t]]

-----------------------------------------------------------------------------
(* The GUI thread.                                                         *)

\* add_decode_task and begin_decode_work for the tasks in S, when n are counted
AddTasks(S, n) ==
    /\ running' = n + Cardinality(S)
    /\ active' = Set(active, S, TRUE)
    /\ connected' = Set(connected, S, TRUE)
    /\ thread' = Set(thread, S, "begin")
    /\ stolen' = stolen \ S

\* remove_decode_task for task t, up to the join
StopOne(j, t) ==
    /\ gui' = "stop" /\ job' = j /\ todo' = {t}
    /\ connected' = [connected EXCEPT ![t] = FALSE]
    /\ UNCHANGED <<joining, fresh, running, active, cap_end, capture_vars, loop_vars, inbox,
                   stop, thread, mutex, stolen>>

\* clear_all_decode_task, up to the first join
StopAll(j) ==
    /\ gui' = "stop" /\ job' = j /\ todo' = traces
    /\ connected' = Set(connected, traces, FALSE)
    /\ active' = Set(active, traces, FALSE)
    /\ UNCHANGED <<joining, traces, fresh, running, cap_end, stream, collect, loop_vars,
                   stop, thread, mutex, stolen>>

User == gui = "idle" /\ uses < MAX_USES /\ uses' = uses + 1

RemoveDecoder ==
    /\ User
    /\ \E t \in traces : traces' = traces \ {t} /\ StopOne("remove", t)

ResetDecoder ==
    /\ User
    /\ \E t \in traces : StopOne("reset", t)
    /\ UNCHANGED traces

\* a new DecoderStack, which takes the capture for finished
AddDecoder ==
    /\ User
    /\ \E t \in fresh :
          /\ \A u \in fresh : t <= u
          /\ traces' = traces \cup {t} /\ fresh' = fresh \ {t}
          /\ AddTasks({t}, running)
    /\ UNCHANGED <<gui, job, todo, joining, capture_vars, cap_end, loop_vars, inbox, stop,
                   mutex>>

ClearDecoders ==
    /\ User /\ traces # {}
    /\ StopAll("clear")
    /\ UNCHANGED <<count, inbox>>

StartCapture ==
    /\ User /\ ~collect
    /\ StopAll("start")
    /\ UNCHANGED <<count, inbox>>

NextEvent == gui = "idle" /\ inbox # <<>> /\ inbox' = Tail(inbox)

\* DSV_MSG_REV_END_PACKET: live tasks learn that the capture has ended
EndLive ==
    /\ NextEvent /\ Head(inbox) = Ended /\ stream
    /\ cap_end' = Set(cap_end, traces, TRUE)
    /\ UNCHANGED <<gui_vars, capture_vars, active, connected, loop_vars, stop, thread, mutex,
                   stolen>>

\* (mutant) tasks that run are not stopped before new ones are added
EndBufferedAdds ==
    /\ NextEvent /\ Head(inbox) = Ended /\ ~stream
    /\ cap_end' = Set(cap_end, traces, TRUE)
    /\ AddTasks(traces, running)
    /\ UNCHANGED <<gui, job, todo, joining, traces, fresh, uses, capture_vars, loop_vars,
                   stop, mutex>>

\* ... and others are started on what was uploaded
EndBuffered ==
    /\ NextEvent /\ Head(inbox) = Ended /\ ~stream
    /\ StopAll("end")
    /\ UNCHANGED <<uses, count>>

\* on_session_error calls refresh: the snapshot is emptied first
Refresh ==
    /\ NextEvent /\ Head(inbox) = Failed
    /\ count' = 0
    /\ StopAll("refresh")
    /\ UNCHANGED uses

\* (mutant) the count goes down whether the flag was set or not
DecodeDoneAlways ==
    /\ NextEvent /\ Head(inbox) \in Tasks
    /\ LET t == Head(inbox) IN
          /\ active' = [active EXCEPT ![t] = FALSE]
          /\ running' = running - 1
          /\ stolen' = IF active[t] /\ thread[t] # "ended" THEN stolen \cup {t} ELSE stolen
    /\ UNCHANGED <<gui, job, todo, joining, traces, fresh, uses, capture_vars, connected,
                   cap_end, loop_vars, stop, thread, mutex>>

\* the slot of decode_done: Qt also runs it for events that were queued before
\* the connection was cut, and then it may meet the flag of a later task; for a
\* trace that has been deleted it does not run, and here meets no flag
DecodeDone ==
    /\ NextEvent /\ Head(inbox) \in Tasks
    /\ LET t == Head(inbox) IN
          /\ active' = [active EXCEPT ![t] = FALSE]
          /\ running' = IF active[t] THEN running - 1 ELSE running
          /\ stolen' = IF active[t] /\ thread[t] # "ended" THEN stolen \cup {t} ELSE stolen
    /\ UNCHANGED <<gui, job, todo, joining, traces, fresh, uses, capture_vars, connected,
                   cap_end, loop_vars, stop, thread, mutex>>

\* stop_decode_work: the status there is now is marked, then the thread joined
StopTask ==
    /\ gui = "stop" /\ todo # {}
    /\ \E t \in todo :
          /\ \A u \in todo : t <= u
          /\ joining' = t /\ todo' = todo \ {t}
          /\ stop' = [stop EXCEPT ![t] = TRUE]
    /\ gui' = "join"
    /\ UNCHANGED <<job, traces, fresh, running, uses, capture_vars, task_vars, loop_vars,
                   inbox, thread, mutex, stolen>>

\* (mutant) the thread is told to stop and not waited for
JoinAtOnce ==
    /\ gui = "join"
    /\ gui' = "stop"
    /\ UNCHANGED <<job, todo, joining, traces, fresh, running, uses, capture_vars, task_vars,
                   loop_vars, inbox, stop, thread, mutex, stolen>>

Join ==
    /\ gui = "join" /\ thread[joining] \in Joinable
    /\ gui' = "stop"
    /\ thread' = [thread EXCEPT ![joining] = "none"]
    /\ UNCHANGED <<job, todo, joining, traces, fresh, running, uses, capture_vars, task_vars,
                   loop_vars, inbox, stop, mutex, stolen>>

Stopped(j) == gui = "stop" /\ todo = {} /\ job = j /\ gui' = "idle" /\ job' = "none"

\* what the last part of remove_decode_task leaves of the count
Claimed == IF active[joining] THEN running - 1 ELSE running

EndRemove ==
    /\ Stopped("remove")
    /\ active' = [active EXCEPT ![joining] = FALSE] /\ running' = Claimed
    /\ UNCHANGED <<todo, joining, traces, fresh, uses, capture_vars, connected, cap_end,
                   loop_vars, inbox, stop, thread, mutex, stolen>>

\* (mutant) the old task is not taken off the count
EndResetKeeps ==
    /\ Stopped("reset")
    /\ AddTasks({joining}, running)
    /\ UNCHANGED <<todo, joining, traces, fresh, uses, capture_vars, cap_end, loop_vars,
                   inbox, stop, mutex>>

\* (mutant) the count is claimed after the new task has been added
EndResetLate ==
    /\ Stopped("reset")
    /\ running' = Claimed
    /\ active' = [active EXCEPT ![joining] = FALSE]
    /\ connected' = [connected EXCEPT ![joining] = TRUE]
    /\ thread' = [thread EXCEPT ![joining] = "begin"]
    /\ stolen' = stolen \ {joining}
    /\ UNCHANGED <<todo, joining, traces, fresh, uses, capture_vars, cap_end, loop_vars,
                   inbox, stop, mutex>>

EndReset ==
    /\ Stopped("reset")
    /\ AddTasks({joining}, Claimed)
    /\ UNCHANGED <<todo, joining, traces, fresh, uses, capture_vars, cap_end, loop_vars,
                   inbox, stop, mutex>>

EndClear ==
    /\ Stopped("clear")
    /\ running' = 0 /\ traces' = {}
    /\ UNCHANGED <<todo, joining, fresh, uses, capture_vars, task_vars, loop_vars, inbox, stop,
                   thread, mutex, stolen>>

EndRefresh ==
    /\ Stopped("refresh")
    /\ running' = 0
    /\ UNCHANGED <<todo, joining, traces, fresh, uses, capture_vars, task_vars, loop_vars,
                   inbox, stop, thread, mutex, stolen>>

\* start_capture and exec_capture: the snapshot is cleared, the device started,
\* and a device that streams is followed live
EndStart ==
    /\ Stopped("start")
    /\ count' = 0 /\ collect' = TRUE
    /\ stream' \in STREAM_MODES
    /\ IF stream' THEN cap_end' = Set(cap_end, traces, FALSE) /\ AddTasks(traces, 0)
                  ELSE running' = 0 /\ UNCHANGED <<active, connected, cap_end, thread, stolen>>
    /\ UNCHANGED <<todo, joining, traces, fresh, uses, loop_vars, inbox, stop, mutex>>

EndEnd ==
    /\ Stopped("end")
    /\ cap_end' = Set(cap_end, traces, TRUE)
    /\ AddTasks(traces, 0)
    /\ UNCHANGED <<todo, joining, traces, fresh, uses, capture_vars, loop_vars, inbox, stop,
                   mutex>>

-----------------------------------------------------------------------------
(* The collect thread.                                                     *)

Packet ==
    /\ collect
    /\ \E n \in PACKETS : count + n <= LIMIT /\ count' = count + n
    /\ UNCHANGED <<gui_vars, stream, collect, task_vars, loop_vars, inbox, stop, thread, mutex,
                   stolen>>

\* SR_DF_END, at the limit, by the device or after the user's stop
CaptureEnd ==
    /\ collect /\ collect' = FALSE
    /\ \E e \in {Ended, Failed} : inbox' = Append(inbox, e)
    /\ UNCHANGED <<gui_vars, stream, count, task_vars, loop_vars, stop, thread, mutex, stolen>>

-----------------------------------------------------------------------------
(* The thread of task t.                                                   *)

Go(t, pc) == thread' = [thread EXCEPT ![t] = pc]

\* do_decode_work: a new status replaces the one stop_decode_work has marked
Begin(t) ==
    /\ thread[t] = "begin"
    /\ stop' = [stop EXCEPT ![t] = FALSE]
    /\ Go(t, IF ~stream /\ count = 0 THEN "exit" ELSE IF t \in Plugins THEN "enter" ELSE "lock")
    /\ UNCHANGED <<gui_vars, capture_vars, task_vars, loop_vars, inbox, mutex, stolen>>

\* s_srd_session_mutex, held to the end of the decode
Lock(t) ==
    /\ thread[t] = "lock" /\ mutex = {}
    /\ mutex' = {t}
    /\ Go(t, "enter")
    /\ UNCHANGED <<gui_vars, capture_vars, task_vars, loop_vars, inbox, stop, stolen>>

\* (mutant) the number of samples is taken for the last one
FirstEndPast(t) ==
    IF t \in Plugins \/ stream \/ count = 0 \/ count > LIMIT THEN LIMIT ELSE count

\* where decoding ends; sample_count - 1 wraps to a large number at 0
FirstEnd(t) ==
    IF t \in Plugins \/ stream \/ count = 0 \/ count > LIMIT THEN LIMIT - 1 ELSE count - 1

Enter(t) ==
    /\ thread[t] = "enter"
    /\ pos' = [pos EXCEPT ![t] = 0] /\ end' = [end EXCEPT ![t] = FirstEnd(t)]
    /\ checked' = [checked EXCEPT ![t] = FALSE]
    /\ Go(t, "loop")
    /\ UNCHANGED <<gui_vars, capture_vars, task_vars, inbox, stop, mutex, stolen>>

\* a plugin's end is inclusive
More(t) == ~stop[t] /\ (IF t \in Plugins THEN pos[t] <= end[t] ELSE pos[t] < end[t])

LoopEnds(t) ==
    /\ thread[t] = "loop" /\ ~More(t)
    /\ Go(t, "exit")
    /\ UNCHANGED <<gui_vars, capture_vars, task_vars, loop_vars, inbox, stop, mutex, stolen>>

\* a live task that has caught up sleeps and looks again
Poll(t) ==
    /\ thread[t] = "loop" /\ More(t) /\ ~cap_end[t]
    /\ pos[t] < count
    /\ Go(t, "fetch")
    /\ UNCHANGED <<gui_vars, capture_vars, task_vars, loop_vars, inbox, stop, mutex, stolen>>

\* (mutant) the end is not cut down to what was captured
CheckEndNot(t) ==
    /\ thread[t] = "loop" /\ More(t) /\ cap_end[t] /\ ~checked[t]
    /\ checked' = [checked EXCEPT ![t] = TRUE]
    /\ Go(t, IF count = 0 THEN "exit" ELSE "fetch")
    /\ UNCHANGED <<gui_vars, capture_vars, task_vars, pos, end, inbox, stop, mutex,
                   stolen>>

\* the first time round after the capture has ended
CheckEnd(t) ==
    /\ thread[t] = "loop" /\ More(t) /\ cap_end[t] /\ ~checked[t]
    /\ checked' = [checked EXCEPT ![t] = TRUE]
    /\ end' = [end EXCEPT ![t] = IF count > 0 /\ @ >= count THEN count - 1 ELSE @]
    /\ Go(t, IF pos[t] >= count THEN "exit" ELSE "fetch")
    /\ UNCHANGED <<gui_vars, capture_vars, task_vars, pos, inbox, stop, mutex, stolen>>

Proceed(t) ==
    /\ thread[t] = "loop" /\ More(t) /\ cap_end[t] /\ checked[t]
    /\ Go(t, IF t \notin Plugins /\ pos[t] = count THEN "exit" ELSE "fetch")
    /\ UNCHANGED <<gui_vars, capture_vars, task_vars, loop_vars, inbox, stop, mutex, stolen>>

\* get_samples: the end of the block or of the data, exclusive
ChunkEnd(t) ==
    LET block_end == (pos[t] \div BLOCK + 1) * BLOCK IN
    IF block_end < count THEN block_end ELSE count

\* assert(start_sample < sample_count) in get_samples
FetchFails(t) ==
    /\ thread[t] = "fetch" /\ pos[t] >= count
    /\ Go(t, "crashed")
    /\ UNCHANGED <<gui_vars, capture_vars, task_vars, loop_vars, inbox, stop, mutex, stolen>>

\* srd_session_send of the chunk, which fails if it is empty
FetchPython(t) ==
    /\ thread[t] = "fetch" /\ t \notin Plugins /\ pos[t] < count
    /\ LET to == IF ChunkEnd(t) > end[t] THEN end[t] ELSE ChunkEnd(t) IN
          IF to > pos[t] THEN pos' = [pos EXCEPT ![t] = to] /\ Go(t, "loop")
                         ELSE Go(t, "exit") /\ UNCHANGED pos
    /\ UNCHANGED <<gui_vars, capture_vars, task_vars, end, checked, inbox, stop,
                   mutex, stolen>>

\* decode_chunk takes the end get_samples returns for the last sample
FetchPlugin(t) ==
    /\ thread[t] = "fetch" /\ t \in Plugins /\ pos[t] < count
    /\ LET last == IF ChunkEnd(t) > end[t] THEN end[t] ELSE ChunkEnd(t) IN
          pos' = [pos EXCEPT ![t] = last + 1]
    /\ Go(t, "loop")
    /\ UNCHANGED <<gui_vars, capture_vars, task_vars, end, checked, inbox, stop, mutex, stolen>>

\* (mutant) NULL is always taken for data to come
FetchNullRetries(t) ==
    /\ thread[t] = "fetch" /\ t \in Plugins /\ pos[t] < count
    /\ Go(t, "loop")
    /\ UNCHANGED <<gui_vars, capture_vars, task_vars, loop_vars, inbox, stop, mutex, stolen>>

\* get_samples returns NULL for a block without an edge: taken for data to come
\* while the capture runs, and afterwards for zeros up to the end
FetchNull(t) ==
    /\ thread[t] = "fetch" /\ t \in Plugins /\ pos[t] < count
    /\ IF cap_end[t]
       THEN pos' = [pos EXCEPT ![t] = end[t] + 1]
       ELSE pos' = pos
    /\ Go(t, "loop")
    /\ UNCHANGED <<gui_vars, capture_vars, task_vars, end, checked, inbox, stop, mutex, stolen>>

\* the mutex is released and was_cancelled read
Exit(t) ==
    /\ thread[t] = "exit"
    /\ mutex' = mutex \ {t}
    /\ Go(t, IF stop[t] THEN "ended" ELSE "emit")
    /\ UNCHANGED <<gui_vars, capture_vars, task_vars, loop_vars, inbox, stop, stolen>>

Emit(t) ==
    /\ thread[t] = "emit"
    /\ inbox' = IF connected[t] THEN Append(inbox, t) ELSE inbox
    /\ Go(t, "ended")
    /\ UNCHANGED <<gui_vars, capture_vars, task_vars, loop_vars, stop, mutex, stolen>>

-----------------------------------------------------------------------------
UserAction == RemoveDecoder \/ ResetDecoder \/ AddDecoder \/ ClearDecoders \/ StartCapture

GuiStep == \/ EndLive \/ EndBuffered \/ Refresh \/ DecodeDone
           \/ StopTask \/ Join
           \/ EndRemove \/ EndReset \/ EndClear \/ EndRefresh \/ EndStart \/ EndEnd

Collect == Packet \/ CaptureEnd

Task(t) == \/ Begin(t) \/ Lock(t) \/ Enter(t)
           \/ LoopEnds(t) \/ Poll(t) \/ CheckEnd(t) \/ Proceed(t)
           \/ FetchFails(t) \/ FetchPython(t) \/ FetchPlugin(t) \/ FetchNull(t)
           \/ Exit(t) \/ Emit(t)

Next == UserAction \/ GuiStep \/ Collect \/ \E t \in Tasks : Task(t)

Spec == Init /\ [][Next]_vars

\* The GUI thread handles its events, every decoder thread gets on, and a
\* capture in single mode comes to its end; the user need not do anything.
FairSpec == /\ Spec
            /\ WF_vars(GuiStep) /\ WF_vars(CaptureEnd)
            /\ \A t \in Tasks : WF_vars(Task(t))

-----------------------------------------------------------------------------
TypeOK ==
    /\ gui \in {"idle", "stop", "join"}
    /\ job \in {"none", "remove", "reset", "clear", "start", "end", "refresh"}
    /\ todo \subseteq Tasks /\ joining \in Tasks
    /\ traces \subseteq Tasks /\ fresh \subseteq Tasks
    /\ running \in Int
    /\ inbox \in Seq({Ended, Failed} \cup Tasks)
    /\ uses \in 0 .. MAX_USES
    /\ stream \in BOOLEAN /\ collect \in BOOLEAN
    /\ count \in 0 .. LIMIT
    /\ active \in [Tasks -> BOOLEAN] /\ connected \in [Tasks -> BOOLEAN]
    /\ cap_end \in [Tasks -> BOOLEAN] /\ stop \in [Tasks -> BOOLEAN]
    /\ thread \in [Tasks -> {"none", "begin", "lock", "enter", "loop", "fetch", "exit", "emit",
                             "ended", "crashed"}]
    /\ pos \in [Tasks -> 0 .. LIMIT] /\ end \in [Tasks -> 0 .. LIMIT - 1]
    /\ checked \in [Tasks -> BOOLEAN]
    /\ mutex \in SUBSET Tasks
    /\ stolen \subseteq Tasks

Clearing == gui # "idle" /\ job \in {"clear", "start", "end", "refresh"}

\* Each counted task has exactly one owner of its decrement: the completion
\* event, remove_decode_task, or clear_all_decode_task for all of them
\* (sigsession.h 669-670; add_decode_task, remove_decode_task).
CountIsActive == ~Clearing => running = Cardinality({t \in Tasks : active[t]})

\* The count comes back to 0 when nothing is left to be done, so the blocks
\* kept for decoders are given up at the end (clear_task_active, decode_end).
QuietMeansDone ==
    gui = "idle" /\ inbox = <<>> /\ (\A t \in Tasks : thread[t] \in Joinable) => running = 0

\* A thread that decodes is counted, unless all tasks are being stopped or a
\* completion of the task before it, still queued, has cleared its flag.
CountedWhileRunning ==
    \A t \in Tasks : thread[t] \notin Joinable \cup {"crashed"} =>
        active[t] \/ t \in stolen \/ Clearing

\* No thread works for a trace that has been deleted.
ThreadHasTrace ==
    \A t \in Tasks \ traces : thread[t] # "none" => gui # "idle" /\ job \in {"remove", "clear"}

\* assert(_decode_state == Stopped) in begin_decode_work: a task is started
\* again only after its thread has ended.
OneThreadPerTask ==
    [][\A t \in Tasks : thread'[t] = "begin" /\ thread[t] # "begin" =>
          thread[t] \in Joinable]_vars

\* A decoder asks for samples that are there ("assert(start_sample <
\* sample_count)", get_samples), and a Python decoder never for none ("empty
\* buffer"), except while refresh has emptied the snapshot before it stops the
\* decoders.
FetchCaptured ==
    \A t \in Tasks : thread[t] = "fetch" /\ job # "refresh" =>
        pos[t] < count /\ (t \in Plugins \/ pos[t] < end[t])

\* Once every decoder has been told that the capture has ended, a handler that
\* stops decoders returns to the event loop.
StopReturns ==
    gui # "idle" /\ (\A t \in Tasks : cap_end[t]) ~>
        gui = "idle" \/ \E t \in Tasks : thread[t] = "crashed"

\* "stop_decode_work()" stops a decoder at any time and its thread ends: a
\* handler of the GUI thread returns also while the capture is running.
GuiReturns == gui = "join" ~> gui # "join"
=============================================================================
