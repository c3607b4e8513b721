------------------------------- MODULE DeviceLib -------------------------------
(***************************************************************************)
(* The device list and the collect thread of libsigrok (lib_main.c and     *)
(* session.c) with the driver of the PXLogic (hardware/pxlogic/pxlogic.c)  *)
(* and the calls of SigSession.  Four kinds of threads meet here: the GUI  *)
(* thread starts and stops captures and chooses the device; a collect      *)
(* thread per capture runs the session; the hotplug thread keeps the list; *)
(* callback threads bring its news to the session.  libusb calls back,     *)
(* under its events lock, from whichever thread handles events, and that   *)
(* may be the collect thread or the hotplug thread.                        *)
(*                                                                         *)
(* lib_ctx.mutext is never held across a wait, so a section under it is    *)
(* one step.  An instance is named by the libusb device it was scanned as, *)
(* and a libusb device is never plugged in twice.  Files opened as         *)
(* devices, repeat mode, ds_lib_exit and what a scan or an open costs are  *)
(* left out; every device that is plugged in can be opened.                *)
(***************************************************************************)
EXTENDS Integers, Sequences, FiniteSets

CONSTANTS
    Handles,    \* libusb devices: one per time that something is plugged in
    Demo,       \* the demo device, which needs no bus
    None,       \* NULL for instances and handles
    PORTS,      \* bound: devices on the bus at a time
    AT_START,   \* the devices on the bus when the program starts
    CHOSEN,     \* bound: the devices that the GUI activates
    CAPTURED,   \* bound: captures are made of these instances
    MAX_STARTS, \* bound: captures started
    RECONNECT,  \* CHECK_DEV_RECONNECT_TIMES
    POLL        \* the list is compared with the bus, as on Linux

ASSUME DeviceAssumption ==
    /\ Demo \notin Handles /\ None \notin Handles \cup {Demo} /\ Demo # None
    /\ AT_START \subseteq Handles
    /\ CHOSEN \subseteq Handles \cup {Demo} /\ CAPTURED \subseteq Handles \cup {Demo}
    /\ PORTS \in Nat /\ MAX_STARTS \in Nat /\ RECONNECT \in Nat \ {0}
    /\ POLL \in BOOLEAN

Instances == Handles \cup {Demo}
Threads   == 1 .. MAX_STARTS          \* collect threads; 0 is NULL

(* Who calls into the library: "gui", "callback" for a callback thread,    *)
(* and the two threads libusb calls back from.                             *)
Dispatchers == {"hotplug", "collect"}
Callers     == {"gui", "callback"} \cup Dispatchers

VARIABLES
    plugged,     \* the devices on the bus
    ever,        \* those that have been there
    usbq,        \* hotplug messages libusb has still to call back for
    events,      \* who holds libusb's events lock, or "free"
    list,        \* device_list
    alive,       \* instances that have not been destroyed
    handle,      \* dev->handle
    open,        \* dev->status is SR_ST_ACTIVE
    active,      \* actived_device_instance
    delay,       \* is_delay_destory_actived_device
    attach_flag, \* attach_event_flag
    detach_flag, \* detach_event_flag
    waiting,     \* is_waitting_reconnect
    times,       \* check_reconnect_times
    pending,     \* detach_device_handle
    reopen,      \* transaction_id is not cur_trans_id
    by_detached, \* is_stop_by_detached
    collect,     \* collect_thread
    sess,        \* the session, by the capture it was made for; 0 is NULL
    running,     \* session->running
    abort,       \* session->abort_session
    sources,     \* session->num_sources > 0
    tpc,         \* where a collect thread is
    di,          \* the instance it collects from
    flight,      \* its transfers
    runner,      \* the collect thread in a hotplug callback
    hpc,         \* where the hotplug thread is in its loop
    found,       \* what its scan has found
    pc,          \* where a caller is in a call, or in a hotplug callback
    arg,         \* the device of the callback
    joined,      \* the thread it joins; for the GUI, also the one it has made
    closing,     \* the GUI thread stops the capture to release the device
    working,     \* SigSession::_is_working
    posted,      \* callback threads that have not come to their event yet
    early        \* history: a capture was started while another thread than
                 \* the GUI's was still busy ending the one before

usb_vars     == <<plugged, ever, early>>   \* and the history
list_vars    == <<list, alive, handle, delay>>
hot_vars     == <<attach_flag, detach_flag, waiting, times, pending, reopen>>
session_vars == <<sess, running, abort, sources>>
thread_vars  == <<tpc, di>>
loop_vars    == <<hpc, found>>
gui_vars     == <<closing, working, posted>>
vars == <<usb_vars, usbq, events, list_vars, open, active, hot_vars, by_detached,
          collect, session_vars, thread_vars, flight, runner, loop_vars, pc, arg,
          joined, gui_vars>>

Listed(h) == \E i \in list : handle[i] = h
InUse(t)  == tpc[t] \in {"started", "loop"}

(* The driver opens devc->usb_dev, which is set by the scan for good.      *)
Opens(i) == i = Demo \/ i \in plugged

(* libusb_close with transfers under way: their callbacks never come.      *)
Lost(i) == [t \in Threads |->
              IF di[t] = i /\ i # Demo /\ flight[t] # "none" THEN "lost" ELSE flight[t]]

NotCancelled == flight      \* (mutant) no transfer is cancelled

(* current_device_acquisition_stop: what it cancels is the active device's *)
Cancelled == [t \in Threads |->
                IF di[t] = active /\ flight[t] = "flying" THEN "cancelled" ELSE flight[t]]

(* After ds_lib_init and the choice of a first device.                     *)
Init ==
    /\ plugged = AT_START /\ ever = plugged /\ usbq = <<>> /\ events = "free"
    /\ list = plugged \cup {Demo} /\ alive = list
    /\ handle = [i \in Instances |-> i]
    /\ active \in list /\ open = [i \in Instances |-> i = active] /\ delay = FALSE
    /\ attach_flag = FALSE /\ detach_flag = FALSE
    /\ waiting = FALSE /\ times = 0 /\ pending = None /\ reopen = FALSE
    /\ by_detached = FALSE /\ collect = 0
    /\ sess = 0 /\ running = FALSE /\ abort = FALSE /\ sources = FALSE
    /\ tpc = [t \in Threads |-> "none"] /\ di = [t \in Threads |-> None]
    /\ flight = [t \in Threads |-> "none"] /\ runner = 0
    /\ hpc = "wait" /\ found = {}
    /\ pc = [w \in Callers |-> "idle"] /\ arg = [w \in Dispatchers |-> None]
    /\ joined = [w \in Callers |-> 0]
    /\ closing = FALSE /\ working = FALSE /\ posted = {} /\ early = FALSE

-----------------------------------------------------------------------------
(* The bus.  libusb notes a change at once and calls back when a thread    *)
(* handles events.                                                         *)

Plug(h) ==
    /\ h \notin ever /\ Cardinality(plugged) < PORTS
    /\ plugged' = plugged \cup {h} /\ ever' = ever \cup {h}
    /\ usbq' = Append(usbq, [event |-> "exists", dev |-> h])
    /\ UNCHANGED <<early, events, list_vars, open, active, hot_vars, by_detached, collect,
                   session_vars, thread_vars, flight, runner, loop_vars, pc, arg,
                   joined, gui_vars>>

Unplug(h) ==
    /\ h \in plugged
    /\ plugged' = plugged \ {h}
    /\ usbq' = Append(usbq, [event |-> "detach", dev |-> h])
    /\ UNCHANGED <<ever, early, events, list_vars, open, active, hot_vars, by_detached, collect,
                   session_vars, thread_vars, flight, runner, loop_vars, pc, arg,
                   joined, gui_vars>>

-----------------------------------------------------------------------------
(* The GUI thread.                                                         *)

(* ds_active_device, of a handle that may no longer be in the list: from   *)
(* rebind_device, or after the release in set_device.                      *)
Activate(h) ==
    /\ pc["gui"] \in {"idle", "switch"} /\ collect = 0
    /\ pc' = [pc EXCEPT !["gui"] = "idle"]
    /\ LET old    == IF delay THEN None ELSE active
           closed == [i \in Instances |-> open[i] /\ i # active]
           back   == IF old = None THEN Demo ELSE old
       IN  /\ delay' = FALSE
           /\ alive' = IF delay THEN alive \ {active} ELSE alive
           /\ \/ ~Listed(h) /\ active' = old /\ open' = closed
              \/ \E i \in list :
                    /\ handle[i] = h
                    /\ LET chosen == IF Opens(i) THEN i ELSE back
                       IN  /\ active' = chosen
                           /\ open' = [closed EXCEPT ![chosen] = Opens(chosen)]
    /\ flight' = Lost(active)
    /\ UNCHANGED <<usb_vars, usbq, events, list, handle, hot_vars, by_detached, collect,
                   session_vars, thread_vars, runner, loop_vars, arg, joined, gui_vars>>

(* Another thread is in ds_stop_collect or ds_release_actived_device: it   *)
(* waits for the collect thread, or has yet to close the device and to     *)
(* destroy the session.  Nothing keeps a new capture from starting then.   *)
Ending == \E w \in Callers \ {"gui"} : pc[w] \in {"release", "join", "close"}

(* start_capture and ds_start_collect.  The new thread may run before its  *)
(* handle is stored.                                                       *)
StartCollect(t) ==
    /\ pc["gui"] = "idle" /\ ~working /\ collect = 0 /\ active \in CAPTURED
    /\ early' = (early \/ Ending)
    /\ tpc[t] = "none" /\ \A u \in Threads : u < t => tpc[u] # "none"
    /\ sess' = t /\ running' = FALSE /\ abort' = FALSE /\ sources' = FALSE
    /\ IF open[active] \/ Opens(active)
       THEN /\ open' = [open EXCEPT ![active] = TRUE]
            /\ tpc' = [tpc EXCEPT ![t] = "begin"]
            /\ pc' = [pc EXCEPT !["gui"] = "assign"]
            /\ joined' = [joined EXCEPT !["gui"] = t]
       ELSE UNCHANGED <<open, tpc, pc, joined>>
    /\ UNCHANGED <<plugged, ever, usbq, events, list_vars, active, hot_vars, by_detached,
                   collect, di, flight, runner, loop_vars, arg, gui_vars>>

Assign ==
    /\ pc["gui"] = "assign"
    /\ collect' = joined["gui"] /\ working' = TRUE
    /\ pc' = [pc EXCEPT !["gui"] = "idle"] /\ joined' = [joined EXCEPT !["gui"] = 0]
    /\ UNCHANGED <<usb_vars, usbq, events, list_vars, open, active, hot_vars, by_detached,
                   session_vars, thread_vars, flight, runner, loop_vars, arg, closing,
                   posted>>

(* ds_stop_collect asks the session to stop and joins the thread.  A       *)
(* session that does not run yet takes no notice (sr_session_stop).        *)
AskStop == abort' = (abort \/ (sess # 0 /\ running))
StopWithoutJoin(w) ==        \* (mutant) the thread is not waited for
    /\ AskStop /\ joined' = joined
    /\ pc' = [pc EXCEPT ![w] = IF w = "gui" /\ ~closing THEN "idle" ELSE "close"]
StopCollect(w) ==
    /\ AskStop /\ joined' = [joined EXCEPT ![w] = collect]
    /\ pc' = [pc EXCEPT ![w] = "join"]

(* stop_capture, on the GUI thread or on the thread of a callback.         *)
StopCapture(w) ==
    /\ pc[w] = "idle" /\ working
    /\ working' = FALSE
    /\ IF collect # 0 THEN StopCollect(w) ELSE UNCHANGED <<abort, joined, pc>>

GuiStop ==
    /\ StopCapture("gui")
    /\ UNCHANGED <<usb_vars, usbq, events, list_vars, open, active, hot_vars, by_detached,
                   collect, sess, running, sources, thread_vars, flight, runner,
                   loop_vars, arg, closing, posted>>

(* set_device releases the old device, and then activates the new one,     *)
(* which fails if a capture runs by now.                                   *)
SetDevice ==
    /\ pc["gui"] = "idle" /\ ~working
    /\ pc' = [pc EXCEPT !["gui"] = "release"] /\ closing' = TRUE
    /\ UNCHANGED <<usb_vars, usbq, events, list_vars, open, active, hot_vars, by_detached,
                   collect, session_vars, thread_vars, flight, runner, loop_vars, arg,
                   joined, working, posted>>

-----------------------------------------------------------------------------
(* Callback threads: on_device_lib_event of what the library posted.       *)

TaskEnded ==
    /\ "task_end" \in posted
    /\ posted' = posted \ {"task_end"} /\ working' = FALSE
    /\ UNCHANGED <<usb_vars, usbq, events, list_vars, open, active, hot_vars, by_detached,
                   collect, session_vars, thread_vars, flight, runner, loop_vars, pc,
                   arg, joined, closing>>

CurrentDetached ==
    /\ "current_detach" \in posted /\ pc["callback"] = "idle"
    /\ posted' = posted \ {"current_detach"} /\ closing' = closing
    /\ IF working THEN StopCapture("callback") ELSE UNCHANGED <<working, abort, joined, pc>>
    /\ UNCHANGED <<usb_vars, usbq, events, list_vars, open, active, hot_vars, by_detached,
                   collect, sess, running, sources, thread_vars, flight, runner,
                   loop_vars, arg>>

-----------------------------------------------------------------------------
(* ds_release_actived_device, and the end of ds_stop_collect.  A           *)
(* dispatcher is in a hotplug callback and goes on there.                  *)

Moved(w, next) == pc' = [pc EXCEPT ![w] = next]
AfterClose(w)  == IF w \in Dispatchers THEN "mark" ELSE "switch"
Releasing(w)   == w \in Dispatchers \/ (w = "gui" /\ closing)

(* The collect thread cannot join itself, and leaves the device open.      *)
Release(w) ==
    /\ pc[w] = "release"
    /\ \/ active = None /\ Moved(w, AfterClose(w)) /\ UNCHANGED <<abort, joined>>
       \/ active # None /\ collect = 0 /\ Moved(w, "close") /\ UNCHANGED <<abort, joined>>
       \/ /\ active # None /\ collect # 0
          /\ IF w = "collect" /\ collect = runner
             THEN AskStop /\ Moved(w, AfterClose(w)) /\ joined' = joined
             ELSE StopCollect(w)
    /\ UNCHANGED <<usb_vars, usbq, events, list_vars, open, active, hot_vars, by_detached,
                   collect, sess, running, sources, thread_vars, flight, runner,
                   loop_vars, arg, gui_vars>>

Join(w) ==
    /\ pc[w] = "join" /\ tpc[joined[w]] = "gone"
    /\ collect' = 0 /\ Moved(w, IF Releasing(w) THEN "close" ELSE "idle")
    /\ joined' = [joined EXCEPT ![w] = 0]
    /\ UNCHANGED <<usb_vars, usbq, events, list_vars, open, active, hot_vars, by_detached,
                   session_vars, thread_vars, flight, runner, loop_vars, arg, gui_vars>>

(* The device is closed and the session destroyed.                         *)
CloseActive(w) ==
    /\ pc[w] = "close"
    /\ open' = [i \in Instances |-> open[i] /\ i # active]
    /\ flight' = Lost(active)
    /\ sess' = 0 /\ running' = FALSE /\ abort' = FALSE /\ sources' = FALSE
    /\ Moved(w, AfterClose(w)) /\ closing' = (closing /\ w # "gui")
    /\ UNCHANGED <<usb_vars, usbq, events, list_vars, active, hot_vars, by_detached,
                   collect, thread_vars, runner, loop_vars, arg, joined, working, posted>>

-----------------------------------------------------------------------------
(* hotplug_event_listen_callback, in a thread that handles libusb's events *)
(* and has their lock, or called by the poll of the hotplug thread, which  *)
(* has not.                                                                *)

Return(w) ==
    /\ Moved(w, "idle") /\ arg' = [arg EXCEPT ![w] = None]
    /\ IF w = "collect" THEN events' = "free" /\ runner' = 0
                        ELSE UNCHANGED <<events, runner>>

(* A device that is in the list needs nothing.                             *)
Exists(w) ==
    /\ pc[w] = "exists"
    /\ IF Listed(arg[w]) THEN Return(w)
                         ELSE Moved(w, "attach") /\ UNCHANGED <<events, runner, arg>>
    /\ UNCHANGED <<usb_vars, usbq, list_vars, open, active, hot_vars, by_detached,
                   collect, session_vars, thread_vars, flight, loop_vars, joined,
                   gui_vars>>

(* While a device is missed, what comes is taken for it: its instance gets *)
(* the new handle (update_device_handle) and, if active, is closed, to be  *)
(* opened again by the hotplug thread.                                     *)
Attach(w) ==
    /\ pc[w] = "attach"
    /\ LET back == {i \in list \ {Demo} : waiting /\ pending # None /\ handle[i] = pending}
       IN  \/ \E i \in back :
                /\ handle' = [handle EXCEPT ![i] = arg[w]]
                /\ open' = [open EXCEPT ![i] = open[i] /\ i # active]
                /\ flight' = IF i = active THEN Lost(i) ELSE flight
                /\ reopen' = (reopen \/ i = active) /\ attach_flag' = attach_flag
           \/ back = {} /\ attach_flag' = TRUE /\ UNCHANGED <<handle, open, flight, reopen>>
    /\ pending' = IF waiting THEN None ELSE pending
    /\ waiting' = FALSE
    /\ Return(w)
    /\ UNCHANGED <<usb_vars, usbq, list, alive, delay, active, detach_flag, times,
                   by_detached, collect, session_vars, thread_vars, loop_vars, joined,
                   gui_vars>>

Detach(w) ==
    /\ pc[w] = "detach"
    /\ \/ /\ pending # None /\ Listed(pending) /\ ~Listed(arg[w])
          /\ Return(w) /\ by_detached' = by_detached
       \/ /\ ~(pending # None /\ Listed(pending) /\ ~Listed(arg[w]))
          /\ IF active # None /\ handle[active] = arg[w] /\ collect # 0
             THEN Moved(w, "release") /\ by_detached' = TRUE
             ELSE Moved(w, "mark") /\ by_detached' = by_detached
          /\ UNCHANGED <<events, runner, arg>>
    /\ UNCHANGED <<usb_vars, usbq, list_vars, open, active, hot_vars, collect,
                   session_vars, thread_vars, flight, loop_vars, joined, gui_vars>>

(* Wait for the device to come back.                                       *)
Mark(w) ==
    /\ pc[w] = "mark"
    /\ waiting' = TRUE /\ times' = 0 /\ pending' = arg[w]
    /\ Return(w)
    /\ UNCHANGED <<usb_vars, usbq, list_vars, open, active, attach_flag, detach_flag, reopen,
                   by_detached, collect, session_vars, thread_vars, flight, loop_vars,
                   joined, gui_vars>>

(* libusb calls back in the thread w for the oldest message.               *)
CallBack(w) ==
    /\ usbq # <<>>
    /\ usbq' = Tail(usbq)
    /\ Moved(w, Head(usbq).event) /\ arg' = [arg EXCEPT ![w] = Head(usbq).dev]

(* Transfers that end without data: cancelled, or their device is gone.    *)
Due(t) == flight[t] = "cancelled" \/ (flight[t] = "flying" /\ ~Opens(di[t]))

(* A transfer is over and handled: finish_acquisition removes the source.  *)
Finish(t) ==
    /\ flight[t] \in {"flying", "cancelled"}
    /\ flight' = [flight EXCEPT ![t] = "none"]
    /\ sources' = (sources /\ sess # t)

-----------------------------------------------------------------------------
(* The hotplug thread: usb_hotplug_process_proc.                           *)

At(here, next) == hpc = here /\ pc["hotplug"] = "idle" /\ hpc' = next

(* sr_hotplug_wait_timout, with a timeout of zero.                         *)
HandleEvents ==
    /\ IF events = "free" THEN At("wait", "events") /\ events' = "hotplug"
                          ELSE At("wait", "poll") /\ events' = events
    /\ UNCHANGED <<usb_vars, usbq, list_vars, open, active, hot_vars, by_detached, collect,
                   session_vars, thread_vars, flight, runner, found, pc, arg, joined,
                   gui_vars>>

HotplugCallBack ==
    /\ At("events", "events") /\ CallBack("hotplug")
    /\ UNCHANGED <<usb_vars, events, list_vars, open, active, hot_vars, by_detached,
                   collect, session_vars, thread_vars, flight, runner, found, joined,
                   gui_vars>>

HotplugFinish(t) ==
    /\ At("events", "events") /\ di[t] # Demo /\ Finish(t)
    /\ UNCHANGED <<usb_vars, usbq, events, list_vars, open, active, hot_vars, by_detached,
                   collect, sess, running, abort, thread_vars, runner, found, pc, arg,
                   joined, gui_vars>>

EventsHandled ==
    /\ At("events", "poll") /\ events' = "free"
    /\ usbq = <<>> /\ \A t \in Threads : Due(t) => di[t] = Demo
    /\ UNCHANGED <<usb_vars, usbq, list_vars, open, active, hot_vars, by_detached, collect,
                   session_vars, thread_vars, flight, runner, found, pc, arg, joined,
                   gui_vars>>

(* poll_usb_hotplug_fallback: while nothing is under way, the list is      *)
(* compared with the bus.                                                  *)
Quiet == POLL /\ ~attach_flag /\ ~detach_flag /\ ~waiting
NewAttached == {h \in plugged : Quiet /\ ~Listed(h)}
NoneDetached == {}           \* (mutant) only what is new is looked for
NewDetached == {h \in Handles \ plugged : Quiet /\ \E i \in list \ {Demo} : handle[i] = h}

Poll ==
    /\ At("poll", "scan")
    /\ \/ \E h \in NewAttached :
             Moved("hotplug", "exists") /\ arg' = [arg EXCEPT !["hotplug"] = h]
       \/ /\ NewAttached = {}
          /\ \E h \in NewDetached :
               Moved("hotplug", "detach") /\ arg' = [arg EXCEPT !["hotplug"] = h]
       \/ NewAttached \cup NewDetached = {} /\ UNCHANGED <<pc, arg>>
    /\ UNCHANGED <<usb_vars, usbq, events, list_vars, open, active, hot_vars, by_detached,
                   collect, session_vars, thread_vars, flight, runner, found, joined,
                   gui_vars>>

(* process_attach_event: drivers scan without the lock ...                 *)
Scan ==
    /\ IF attach_flag THEN At("scan", "append") /\ found' = {h \in plugged : ~Listed(h)}
                      ELSE At("scan", "detach") /\ found' = found
    /\ UNCHANGED <<usb_vars, usbq, events, list_vars, open, active, hot_vars, by_detached,
                   collect, session_vars, thread_vars, flight, runner, pc, arg, joined,
                   gui_vars>>

(* ... and append_device_instance_if_new keeps what is new under it.       *)
AppendFound ==
    /\ At("append", "detach")
    /\ LET new == {h \in found : ~Listed(h)}
       IN  /\ list' = list \cup new /\ alive' = alive \cup new
           /\ handle' = [i \in Instances |-> IF i \in new THEN i ELSE handle[i]]
           /\ open' = [i \in Instances |-> open[i] /\ i \notin new]
    /\ attach_flag' = FALSE /\ found' = {}
    /\ UNCHANGED <<usb_vars, usbq, events, delay, active, detach_flag, waiting, times,
                   pending, reopen, by_detached, collect, session_vars, thread_vars,
                   flight, runner, pc, arg, joined, gui_vars>>

(* process_detach_event: the active device goes on to exist.               *)
DestroyGone(i) ==            \* (mutant) the active device is destroyed, too
    /\ list' = list \ {i} /\ alive' = alive \ {i} /\ open' = [open EXCEPT ![i] = FALSE]
    /\ UNCHANGED <<delay, posted>>
RemoveGone(i) ==
    /\ list' = list \ {i}
    /\ \/ /\ i = active
          /\ delay' = TRUE /\ posted' = posted \cup {"current_detach"}
          /\ UNCHANGED <<alive, open>>
       \/ /\ i # active
          /\ alive' = alive \ {i} /\ open' = [open EXCEPT ![i] = FALSE]
          /\ UNCHANGED <<delay, posted>>

ProcessDetach ==
    /\ At("detach", "turn")
    /\ LET gone == {i \in list \ {Demo} : detach_flag /\ pending # None /\ handle[i] = pending}
       IN  \/ \E i \in gone : RemoveGone(i)
           \/ gone = {} /\ UNCHANGED <<list, alive, open, delay, posted>>
    /\ pending' = IF detach_flag THEN None ELSE pending
    /\ detach_flag' = FALSE
    /\ UNCHANGED <<usb_vars, usbq, events, handle, active, attach_flag, waiting, times,
                   reopen, by_detached, collect, session_vars, thread_vars, flight, runner,
                   found, pc, arg, joined, closing, working>>

(* One more turn of the loop in which the device did not come back.        *)
WaitOn ==                    \* (mutant) the wait does not end
    /\ times' = (IF waiting THEN times + 1 ELSE 0) /\ waiting' = waiting
    /\ detach_flag' = (waiting /\ times + 1 = RECONNECT)
WaitTurn ==
    LET last == waiting /\ times + 1 = RECONNECT
    IN  /\ times' = IF waiting /\ ~last THEN times + 1 ELSE 0
        /\ detach_flag' = last /\ waiting' = (waiting /\ ~last)

(* The end of the loop, where the active device is opened again after it   *)
(* was closed for a new handle.                                            *)
EndOfTurn ==
    /\ At("turn", "wait")
    /\ WaitTurn
    /\ open' = [i \in Instances |-> open[i] \/ (reopen /\ i = active /\ Opens(i))]
    /\ reopen' = FALSE
    /\ UNCHANGED <<usb_vars, usbq, events, list_vars, active, attach_flag, pending,
                   by_detached, collect, session_vars, thread_vars, flight, runner, found,
                   pc, arg, joined, gui_vars>>

-----------------------------------------------------------------------------
(* A collect thread: collect_run_proc and sr_session_run.                  *)

Goes(t, here, next) == tpc[t] = here /\ tpc' = [tpc EXCEPT ![t] = next]

(* dev_acquisition_start.  That transfers could not be submitted is not    *)
(* reported.                                                               *)
Begin(t) ==
    /\ di' = [di EXCEPT ![t] = active]
    /\ IF active # None /\ open[active]
       THEN /\ Goes(t, "begin", "started")
            /\ sources' = (sess # 0)
            /\ flight' = [flight EXCEPT ![t] = IF Opens(active) THEN "flying" ELSE "none"]
       ELSE Goes(t, "begin", "end_error") /\ UNCHANGED <<sources, flight>>
    /\ UNCHANGED <<usb_vars, usbq, events, list_vars, open, active, hot_vars, by_detached,
                   collect, sess, running, abort, runner, loop_vars, pc, arg, joined,
                   gui_vars>>

Run(t) ==
    /\ IF sess = 0 \/ running THEN Goes(t, "started", "end_error") /\ running' = running
                              ELSE Goes(t, "started", "loop") /\ running' = TRUE
    /\ UNCHANGED <<usb_vars, usbq, events, list_vars, open, active, hot_vars, by_detached,
                   collect, sess, abort, sources, di, flight, runner, loop_vars, pc, arg,
                   joined, gui_vars>>

(* sr_session_iteration: the source's callback handles libusb's events ... *)
InLoop(t) == tpc[t] = "loop" /\ runner # t /\ sess # 0

CollectCallBack(t) ==
    /\ InLoop(t) /\ sources /\ di[t] # Demo
    /\ events = "free" /\ events' = "collect" /\ runner' = t
    /\ CallBack("collect")
    /\ UNCHANGED <<usb_vars, list_vars, open, active, hot_vars, by_detached, collect,
                   session_vars, thread_vars, flight, loop_vars, joined, gui_vars>>

CollectFinish(t) ==
    /\ InLoop(t) /\ sources /\ (di[t] = Demo \/ events = "free")
    /\ Finish(t)
    /\ UNCHANGED <<usb_vars, usbq, events, list_vars, open, active, hot_vars, by_detached,
                   collect, sess, running, abort, thread_vars, runner, loop_vars, pc,
                   arg, joined, gui_vars>>

(* ... and then the loop looks whether to stop.                            *)
StopAcquisition(t) ==
    /\ InLoop(t) /\ sources /\ abort
    /\ flight' = Cancelled /\ abort' = FALSE
    /\ UNCHANGED <<usb_vars, usbq, events, list_vars, open, active, hot_vars, by_detached,
                   collect, sess, running, sources, thread_vars, runner, loop_vars, pc,
                   arg, joined, gui_vars>>

EndRun(t) ==
    /\ InLoop(t) /\ ~sources
    /\ Goes(t, "loop", "end")
    /\ flight' = Cancelled /\ abort' = FALSE /\ running' = FALSE
    /\ UNCHANGED <<usb_vars, usbq, events, list_vars, open, active, hot_vars, by_detached,
                   collect, sess, sources, di, runner, loop_vars, pc, arg, joined,
                   gui_vars>>

ClearHandle(t) ==
    /\ Goes(t, "end", "tail") \/ Goes(t, "end_error", "tail_error")
    /\ collect' = 0
    /\ UNCHANGED <<usb_vars, usbq, events, list_vars, open, active, hot_vars, by_detached,
                   session_vars, di, flight, runner, loop_vars, pc, arg, joined, gui_vars>>

(* The session hears of the end, from this thread or from one of its own.  *)
TellEnd(t) ==
    /\ \/ Goes(t, "tail", "gone") /\ by_detached
          /\ posted' = posted \cup {"task_end"} /\ working' = working
       \/ Goes(t, "tail", "gone") /\ ~by_detached /\ working' = FALSE /\ posted' = posted
       \/ Goes(t, "tail_error", "gone") /\ working' = FALSE /\ posted' = posted
    /\ by_detached' = FALSE /\ di' = [di EXCEPT ![t] = None]
    /\ UNCHANGED <<usb_vars, usbq, events, list_vars, open, active, hot_vars, collect,
                   session_vars, flight, runner, loop_vars, pc, arg, joined, closing>>

-----------------------------------------------------------------------------
Call(w) ==
    Release(w) \/ Join(w) \/ CloseActive(w)
Event(w) == Exists(w) \/ Attach(w) \/ Detach(w) \/ Mark(w)
Hotplug ==
    \/ HandleEvents \/ HotplugCallBack \/ (\E t \in Threads : HotplugFinish(t))
    \/ EventsHandled \/ Poll \/ Scan \/ AppendFound \/ ProcessDetach \/ EndOfTurn
Collect(t) ==
    \/ Begin(t) \/ Run(t) \/ CollectCallBack(t) \/ CollectFinish(t)
    \/ StopAcquisition(t) \/ EndRun(t) \/ ClearHandle(t) \/ TellEnd(t)
Gui ==
    \/ (\E h \in CHOSEN : Activate(h)) \/ (\E t \in Threads : StartCollect(t))
    \/ Assign \/ GuiStop \/ SetDevice

Next ==
    \/ \E h \in Handles : Plug(h) \/ Unplug(h)
    \/ Gui \/ TaskEnded \/ CurrentDetached \/ Hotplug
    \/ \E w \in Callers : Call(w)
    \/ \E w \in Dispatchers : Event(w)
    \/ \E t \in Threads : Collect(t)

Spec == Init /\ [][Next]_vars

(* Threads run.  Data need not come, so that only transfers that are due   *)
(* must come to an end.                                                    *)
FairSpec ==
    /\ Spec
    /\ WF_vars(Hotplug \/ Call("hotplug") \/ Event("hotplug"))
    /\ WF_vars(Call("collect") \/ Event("collect"))
    /\ \A t \in Threads :
         WF_vars(Begin(t) \/ Run(t) \/ StopAcquisition(t) \/ EndRun(t) \/ ClearHandle(t)
                 \/ TellEnd(t) \/ (Due(t) /\ CollectFinish(t)))

-----------------------------------------------------------------------------
(* Type invariant.                                                         *)
TypeOK ==
    /\ plugged \in SUBSET Handles /\ ever \in SUBSET Handles
    /\ usbq \in Seq([event : {"exists", "detach"}, dev : Handles])
    /\ events \in Dispatchers \cup {"free"}
    /\ list \in SUBSET Instances /\ alive \in SUBSET Instances
    /\ handle \in [Instances -> Instances] /\ open \in [Instances -> BOOLEAN]
    /\ active \in Instances \cup {None} /\ delay \in BOOLEAN
    /\ attach_flag \in BOOLEAN /\ detach_flag \in BOOLEAN
    /\ waiting \in BOOLEAN /\ times \in 0 .. RECONNECT - 1
    /\ pending \in Handles \cup {None} /\ reopen \in BOOLEAN
    /\ by_detached \in BOOLEAN /\ collect \in Threads \cup {0}
    /\ sess \in Threads \cup {0} /\ running \in BOOLEAN
    /\ abort \in BOOLEAN /\ sources \in BOOLEAN
    /\ tpc \in [Threads -> {"none", "begin", "started", "loop", "end", "end_error", "tail",
                            "tail_error", "gone"}]
    /\ di \in [Threads -> Instances \cup {None}]
    /\ flight \in [Threads -> {"none", "flying", "cancelled", "lost"}]
    /\ runner \in Threads \cup {0}
    /\ hpc \in {"wait", "events", "poll", "scan", "append", "detach", "turn"}
    /\ found \in SUBSET Handles
    /\ pc \in [Callers -> {"idle", "assign", "switch", "exists", "attach", "detach", "mark",
                           "release", "join", "close"}]
    /\ arg \in [Dispatchers -> Handles \cup {None}]
    /\ joined \in [Callers -> Threads \cup {0}]
    /\ closing \in BOOLEAN /\ working \in BOOLEAN
    /\ posted \in SUBSET {"task_end", "current_detach"}
    /\ early \in BOOLEAN

(* Nothing that is listed or active has been destroyed, nothing else is    *)
(* left over, and the flag for a later destruction is up exactly while the *)
(* active device is out of the list: the hotplug thread and the GUI thread *)
(* destroy every instance once (process_detach_event, ds_active_device).   *)
ListSound ==
    /\ alive = list \cup ({active} \ {None})
    /\ delay <=> active \notin list \cup {None}

(* A running capture has its session and its device: nobody destroys the   *)
(* one before the collect thread is out of the loop, or closes the other,  *)
(* except to open it again for a new handle, and the thread can be joined  *)
(* (ds_release_actived_device, ds_stop_collect) -- until a capture is      *)
(* started before another thread has ended the one before.                 *)
Owned(t) ==
    /\ sess' = t /\ di'[t] = active'
    /\ collect' = t \/ (pc'["gui"] = "assign" /\ joined'["gui"] = t)
    /\ InUse(t) /\ open[active] => open'[active] \/ reopen'
CollectorOwns == [][early' \/ \A t \in Threads : InUse(t)' => Owned(t)]_vars

(* The list follows the bus: what is unplugged leaves it and what is       *)
(* plugged in comes into it, whatever messages are mixed up on the way, as *)
(* long as the hotplug thread does not wait for a capture to end.          *)
Stuck == pc["hotplug"] = "join"
ListFollowsBus ==
    \A h \in Handles : []<>((Listed(h) <=> h \in plugged) \/ Stuck)

(* Who asks a running session to stop is heard: its transfers are          *)
(* cancelled and the loop ends, unless the thread that holds the events    *)
(* lock waits for just that, or the device is closed for a new handle      *)
(* (sr_session_stop, sr_session_iteration).                                *)
StopHeard ==
    \A t \in Threads :
        (tpc[t] = "loop" /\ abort /\ flight[t] = "flying")
            ~> (tpc[t] # "loop" \/ flight[t] = "lost" \/ (Stuck /\ events = "hotplug"))

(* Transfers that are cancelled are dispatched, so that the collect thread *)
(* can exit and the device be closed (ds_release_actived_device).          *)
CancelDispatched ==
    \A t \in Threads : (flight[t] = "cancelled") ~> (flight[t] # "cancelled")
=============================================================================
