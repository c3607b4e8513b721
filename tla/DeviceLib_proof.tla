----------------------------- MODULE DeviceLib_proof -----------------------------
(***************************************************************************)
(* Proofs about DeviceLib, for any devices and captures: the list and the  *)
(* active device are sound, libusb calls back in one thread at a time,     *)
(* and, until a capture is started while a thread ends the one before, a   *)
(* capture owns its session and its device and does not join itself.       *)
(***************************************************************************)
EXTENDS DeviceLib, SequenceTheorems, TLAPS

USE DeviceAssumption DEF DeviceAssumption, Instances, Dispatchers, Callers

-----------------------------------------------------------------------------
(* The list.                                                               *)

(* What libusb and the callers report as gone has been there and will not  *)
(* come back: a libusb device is plugged in once.                          *)
Gone == ever \ plugged

NewsTrue ==
    /\ \A k \in DOMAIN usbq :
         usbq[k].dev \in (IF usbq[k].event = "detach" THEN Gone ELSE ever)
    /\ \A w \in Dispatchers :
         /\ pc[w] # "idle" => arg[w] \in ever
         /\ pc[w] \in {"detach", "release", "join", "close", "mark"} => arg[w] \in Gone
    /\ pending # None => pending \in Gone

(* An instance whose own device is on the bus is listed under it.          *)
ListTrue ==
    /\ Demo \in list /\ plugged \subseteq ever /\ alive \subseteq ever \cup {Demo}
    /\ found \subseteq ever \ alive
    /\ \A i \in alive \ {Demo} : handle[i] \in ever
    /\ \A h \in plugged \cap alive : h \in list /\ handle[h] = h

-----------------------------------------------------------------------------
(* The type invariant, in parts.                                           *)

Bus ==
    /\ plugged \in SUBSET Handles
    /\ ever \in SUBSET Handles
    /\ usbq \in Seq([event : {"exists", "detach"}, dev : Handles])
    /\ events \in Dispatchers \cup {"free"}
    /\ early \in BOOLEAN

Devices ==
    /\ list \in SUBSET Instances
    /\ alive \in SUBSET Instances
    /\ handle \in [Instances -> Instances]
    /\ open \in [Instances -> BOOLEAN]
    /\ active \in Instances \cup {None}
    /\ delay \in BOOLEAN

Hot ==
    /\ attach_flag \in BOOLEAN
    /\ detach_flag \in BOOLEAN
    /\ waiting \in BOOLEAN
    /\ times \in 0 .. RECONNECT - 1
    /\ pending \in Handles \cup {None}
    /\ reopen \in BOOLEAN
    /\ by_detached \in BOOLEAN

Session ==
    /\ collect \in Threads \cup {0}
    /\ sess \in Threads \cup {0}
    /\ running \in BOOLEAN
    /\ abort \in BOOLEAN
    /\ sources \in BOOLEAN

Collectors ==
    /\ tpc \in [Threads -> {"none", "begin", "started", "loop", "end",
                 "end_error", "tail", "tail_error", "gone"}]
    /\ di \in [Threads -> Instances \cup {None}]
    /\ flight \in [Threads -> {"none", "flying", "cancelled", "lost"}]
    /\ runner \in Threads \cup {0}

Loop ==
    /\ hpc \in {"wait", "events", "poll", "scan", "append", "detach", "turn"}
    /\ found \in SUBSET Handles

Calls ==
    /\ pc \in [Callers -> {"idle", "assign", "switch", "exists", "attach",
                 "detach", "mark", "release", "join", "close"}]
    /\ arg \in [Dispatchers -> Handles \cup {None}]
    /\ joined \in [Callers -> Threads \cup {0}]
    /\ closing \in BOOLEAN
    /\ working \in BOOLEAN
    /\ posted \in SUBSET {"task_end", "current_detach"}

LEMMA TypeParts == TypeOK <=> Bus /\ Devices /\ Hot /\ Session /\ Collectors
                               /\ Loop /\ Calls
  BY DEF TypeOK, Bus, Devices, Hot, Session, Collectors, Loop, Calls

LEMMA InitTypes == Init => TypeOK
<1> SUFFICES ASSUME Init PROVE TypeOK
  OBVIOUS
<1>0. 0 \in 0 .. RECONNECT - 1
  OBVIOUS
<1>1. Bus
  <2>1. early = FALSE
    BY ONLY Init DEF Init
  <2>2. /\ plugged \in SUBSET Handles /\ ever \in SUBSET Handles
        /\ usbq \in Seq([event : {"exists", "detach"}, dev : Handles])
        /\ events \in Dispatchers \cup {"free"}
    BY DEF Init
  <2> QED
    BY ONLY <2>1, <2>2 DEF Bus
<1>2. Devices
  BY DEF Init, Devices
<1>3. Hot
  BY <1>0 DEF Init, Hot
<1>4. Session
  BY DEF Init, Session
<1>5. Collectors
  BY DEF Init, Collectors
<1>6. Loop
  BY DEF Init, Loop
<1>7. Calls
  BY DEF Init, Calls
<1> QED
  BY <1>1, <1>2, <1>3, <1>4, <1>5, <1>6, <1>7, TypeParts

LEMMA StepTypes == TypeOK /\ NewsTrue /\ [Next]_vars => TypeOK'
<1> SUFFICES ASSUME TypeOK, NewsTrue, [Next]_vars PROVE TypeOK'
  OBVIOUS
<1>0. Bus /\ Devices /\ Hot /\ Session /\ Collectors /\ Loop /\ Calls
  BY TypeParts
<1>z. 0 \in 0 .. RECONNECT - 1
  OBVIOUS
<1>p. ASSUME Bus', Devices', Hot', Session', Collectors', Loop', Calls' PROVE TypeOK'
  BY ONLY <1>p DEF TypeOK, Bus, Devices, Hot, Session, Collectors, Loop, Calls
<1>1. ASSUME NEW h \in Handles, Plug(h) PROVE TypeOK'
  <2>1. Devices' /\ Hot' /\ Session' /\ Collectors' /\ Loop' /\ Calls'
    BY <1>0, <1>1 DEF Plug, list_vars, hot_vars, session_vars, thread_vars,
       loop_vars, gui_vars, Devices, Hot, Session, Collectors, Loop, Calls
  <2>2. Bus'
    BY <1>0, <1>1 DEF Plug, list_vars, hot_vars, session_vars, thread_vars,
       loop_vars, gui_vars, Bus
  <2> QED
    BY ONLY <1>p, <2>1, <2>2
<1>2. ASSUME NEW h \in Handles, Unplug(h) PROVE TypeOK'
  <2>1. Devices' /\ Hot' /\ Session' /\ Collectors' /\ Loop' /\ Calls'
    BY <1>0, <1>2 DEF Unplug, list_vars, hot_vars, session_vars, thread_vars,
       loop_vars, gui_vars, Devices, Hot, Session, Collectors, Loop, Calls
  <2>2. Bus'
    BY <1>0, <1>2 DEF Unplug, list_vars, hot_vars, session_vars, thread_vars,
       loop_vars, gui_vars, Bus
  <2> QED
    BY ONLY <1>p, <2>1, <2>2
<1>3. ASSUME NEW h \in Instances, Activate(h) PROVE TypeOK'
  <2>1. Bus' /\ Hot' /\ Session' /\ Loop'
    BY <1>0, <1>3 DEF Activate, usb_vars, hot_vars, session_vars, thread_vars,
       loop_vars, gui_vars, Bus, Hot, Session, Loop
  <2>2. Devices'
    <3>1. active' \in Instances \cup {None} /\ delay' \in BOOLEAN
      <4>1. active' \in {active, None, Demo} \cup list
        BY <1>3 DEF Activate
      <4>2. delay' = FALSE
        BY <1>3 DEF Activate
      <4> QED
        BY <1>0, <4>1, <4>2 DEF Devices
    <3>2. alive' \in SUBSET Instances /\ list' = list /\ handle' = handle
      BY <1>0, <1>3 DEF Activate, Devices
    <3>3. open' \in [Instances -> BOOLEAN]
      <4> DEFINE closed == [i \in Instances |-> open[i] /\ i # active]
      <4>1. closed \in [Instances -> BOOLEAN]
        BY ONLY TRUE
      <4>2. open' = closed \/ \E c \in Instances \cup {None} : open' = [closed EXCEPT ![c] = Opens(c)]
        BY <1>0, <1>3 DEF Activate, Devices
      <4>3. \A c : Opens(c) \in BOOLEAN
        BY DEF Opens
      <4> HIDE DEF closed
      <4> QED
        BY ONLY <4>1, <4>2, <4>3
    <3> QED
      BY <1>0, <3>1, <3>2, <3>3 DEF Devices
  <2>3. Collectors'
    BY <1>0, <1>3 DEF Activate, Listed, Lost, Opens, usb_vars, hot_vars,
       session_vars, thread_vars, loop_vars, gui_vars, Collectors
  <2>4. Calls'
    BY <1>0, <1>3 DEF Activate, Listed, Lost, Opens, usb_vars, hot_vars,
       session_vars, thread_vars, loop_vars, gui_vars, Calls
  <2> QED
    BY ONLY <1>p, <2>1, <2>2, <2>3, <2>4
<1>4. ASSUME NEW t \in Threads, StartCollect(t) PROVE TypeOK'
  <2>1. Bus' /\ Hot' /\ Loop'
    BY <1>0, <1>4 DEF StartCollect, usb_vars, list_vars, hot_vars, loop_vars,
       gui_vars, Bus, Hot, Loop
  <2>2. Devices'
    BY <1>0, <1>4 DEF StartCollect, Ending, Opens, usb_vars, list_vars, hot_vars,
       loop_vars, gui_vars, Devices
  <2>3. Session'
    BY <1>0, <1>4 DEF StartCollect, Ending, Opens, usb_vars, list_vars, hot_vars,
       loop_vars, gui_vars, Session
  <2>4. Collectors'
    BY <1>0, <1>4 DEF StartCollect, Ending, Opens, usb_vars, list_vars, hot_vars,
       loop_vars, gui_vars, Collectors
  <2>5. Calls'
    BY <1>0, <1>4 DEF StartCollect, Ending, Opens, usb_vars, list_vars, hot_vars,
       loop_vars, gui_vars, Calls
  <2> QED
    BY ONLY <1>p, <2>1, <2>2, <2>3, <2>4, <2>5
<1>5. ASSUME Assign PROVE TypeOK'
  <2>1. Bus' /\ Devices' /\ Hot' /\ Collectors' /\ Loop'
    BY <1>0, <1>5 DEF Assign, usb_vars, list_vars, hot_vars, session_vars,
       thread_vars, loop_vars, Bus, Devices, Hot, Collectors, Loop
  <2>2. Session'
    BY <1>0, <1>5 DEF Assign, usb_vars, list_vars, hot_vars, session_vars,
       thread_vars, loop_vars, Calls, Session
  <2>3. Calls'
    BY <1>0, <1>5 DEF Assign, usb_vars, list_vars, hot_vars, session_vars,
       thread_vars, loop_vars, Calls
  <2> QED
    BY ONLY <1>p, <2>1, <2>2, <2>3
<1>6. ASSUME GuiStop PROVE TypeOK'
  <2>1. Bus' /\ Devices' /\ Hot' /\ Collectors' /\ Loop'
    BY <1>0, <1>6 DEF GuiStop, usb_vars, list_vars, hot_vars, thread_vars, loop_vars,
       Bus, Devices, Hot, Collectors, Loop
  <2>2. Session'
    BY <1>0, <1>6 DEF GuiStop, AskStop, StopCapture, StopCollect, usb_vars,
       list_vars, hot_vars, thread_vars, loop_vars, Session
  <2>3. Calls'
    <3>1. \/ pc' = pc /\ joined' = joined
          \/ pc' = [pc EXCEPT !["gui"] = "join"] /\ joined' = [joined EXCEPT !["gui"] = collect]
      BY <1>6 DEF GuiStop, StopCapture, StopCollect
    <3>2. arg' = arg /\ closing' = closing /\ working' \in BOOLEAN
      BY <1>0, <1>6 DEF GuiStop, StopCapture, Calls
    <3>3. posted' \subseteq posted
      BY <1>0, <1>6 DEF GuiStop, Calls
    <3> QED
      BY <1>0, <3>1, <3>2, <3>3 DEF Calls, Session
  <2> QED
    BY ONLY <1>p, <2>1, <2>2, <2>3
<1>7. ASSUME SetDevice PROVE TypeOK'
  <2>1. Bus' /\ Devices' /\ Hot' /\ Session' /\ Collectors' /\ Loop'
    BY <1>0, <1>7 DEF SetDevice, usb_vars, list_vars, hot_vars, session_vars,
       thread_vars, loop_vars, Bus, Devices, Hot, Session, Collectors, Loop
  <2>2. Calls'
    BY <1>0, <1>7 DEF SetDevice, usb_vars, list_vars, hot_vars, session_vars,
       thread_vars, loop_vars, Calls
  <2> QED
    BY ONLY <1>p, <2>1, <2>2
<1>8. ASSUME TaskEnded PROVE TypeOK'
  <2>1. Bus' /\ Devices' /\ Hot' /\ Session' /\ Collectors' /\ Loop'
    BY <1>0, <1>8 DEF TaskEnded, usb_vars, list_vars, hot_vars, session_vars,
       thread_vars, loop_vars, Bus, Devices, Hot, Session, Collectors, Loop
  <2>2. Calls'
    BY <1>0, <1>8 DEF TaskEnded, usb_vars, list_vars, hot_vars, session_vars,
       thread_vars, loop_vars, Calls
  <2> QED
    BY ONLY <1>p, <2>1, <2>2
<1>9. ASSUME CurrentDetached PROVE TypeOK'
  <2>1. Bus' /\ Devices' /\ Hot' /\ Collectors' /\ Loop'
    BY <1>0, <1>9 DEF CurrentDetached, usb_vars, list_vars, hot_vars, thread_vars,
       loop_vars, Bus, Devices, Hot, Collectors, Loop
  <2>2. Session'
    BY <1>0, <1>9 DEF CurrentDetached, AskStop, StopCapture, StopCollect, usb_vars,
       list_vars, hot_vars, thread_vars, loop_vars, Session
  <2>3. Calls'
    <3>1. \/ pc' = pc /\ joined' = joined
          \/ pc' = [pc EXCEPT !["callback"] = "join"] /\ joined' = [joined EXCEPT !["callback"] = collect]
      BY <1>9 DEF CurrentDetached, StopCapture, StopCollect
    <3>2. arg' = arg /\ closing' = closing /\ working' \in BOOLEAN
      BY <1>0, <1>9 DEF CurrentDetached, StopCapture, Calls
    <3>3. posted' \subseteq posted
      BY <1>0, <1>9 DEF CurrentDetached, Calls
    <3> QED
      BY <1>0, <3>1, <3>2, <3>3 DEF Calls, Session
  <2> QED
    BY ONLY <1>p, <2>1, <2>2, <2>3
<1>10. ASSUME NEW w \in Callers, Release(w) PROVE TypeOK'
  <2>1. Bus' /\ Devices' /\ Hot' /\ Collectors' /\ Loop'
    BY <1>0, <1>10 DEF Release, usb_vars, list_vars, hot_vars, thread_vars,
       loop_vars, gui_vars, Bus, Devices, Hot, Collectors, Loop
  <2>2. Session'
    BY <1>0, <1>10 DEF Release, AfterClose, AskStop, Moved, StopCollect, usb_vars,
       list_vars, hot_vars, thread_vars, loop_vars, gui_vars, Session
  <2>3. Calls'
    BY <1>0, <1>10 DEF Release, AfterClose, AskStop, Moved, StopCollect, usb_vars,
       list_vars, hot_vars, thread_vars, loop_vars, gui_vars, Session, Calls
  <2> QED
    BY ONLY <1>p, <2>1, <2>2, <2>3
<1>11. ASSUME NEW w \in Callers, Join(w) PROVE TypeOK'
  <2>1. Bus' /\ Devices' /\ Hot' /\ Collectors' /\ Loop'
    BY <1>0, <1>11 DEF Join, usb_vars, list_vars, hot_vars, session_vars,
       thread_vars, loop_vars, gui_vars, Bus, Devices, Hot, Collectors, Loop
  <2>2. Session'
    BY <1>0, <1>11 DEF Join, Moved, Releasing, usb_vars, list_vars, hot_vars,
       session_vars, thread_vars, loop_vars, gui_vars, Session
  <2>3. Calls'
    BY <1>0, <1>11 DEF Join, Moved, Releasing, usb_vars, list_vars, hot_vars,
       session_vars, thread_vars, loop_vars, gui_vars, Calls
  <2> QED
    BY ONLY <1>p, <2>1, <2>2, <2>3
<1>12. ASSUME NEW w \in Callers, CloseActive(w) PROVE TypeOK'
  <2>1. Bus' /\ Hot' /\ Loop'
    BY <1>0, <1>12 DEF CloseActive, usb_vars, list_vars, hot_vars, thread_vars,
       loop_vars, Bus, Hot, Loop
  <2>2. Devices'
    BY <1>0, <1>12 DEF CloseActive, AfterClose, Lost, Moved, usb_vars, list_vars,
       hot_vars, thread_vars, loop_vars, Devices
  <2>3. Session'
    BY <1>0, <1>12 DEF CloseActive, AfterClose, Lost, Moved, usb_vars, list_vars,
       hot_vars, thread_vars, loop_vars, Session
  <2>4. Collectors'
    BY <1>0, <1>12 DEF CloseActive, AfterClose, Lost, Moved, usb_vars, list_vars,
       hot_vars, thread_vars, loop_vars, Collectors
  <2>5. Calls'
    BY <1>0, <1>12 DEF CloseActive, AfterClose, Lost, Moved, usb_vars, list_vars,
       hot_vars, thread_vars, loop_vars, Calls
  <2> QED
    BY ONLY <1>p, <2>1, <2>2, <2>3, <2>4, <2>5
<1>13. ASSUME NEW w \in Dispatchers, Exists(w) PROVE TypeOK'
  <2>1. Devices' /\ Hot' /\ Session' /\ Loop'
    BY <1>0, <1>13 DEF Exists, usb_vars, list_vars, hot_vars, session_vars,
       thread_vars, loop_vars, gui_vars, Devices, Hot, Session, Loop
  <2>2. Bus'
    BY <1>0, <1>13 DEF Exists, Listed, Moved, Return, usb_vars, list_vars, hot_vars,
       session_vars, thread_vars, loop_vars, gui_vars, Bus
  <2>3. Collectors'
    BY <1>0, <1>13 DEF Exists, Listed, Moved, Return, usb_vars, list_vars, hot_vars,
       session_vars, thread_vars, loop_vars, gui_vars, Collectors
  <2>4. Calls'
    BY <1>0, <1>13 DEF Exists, Listed, Moved, Return, usb_vars, list_vars, hot_vars,
       session_vars, thread_vars, loop_vars, gui_vars, Calls
  <2> QED
    BY ONLY <1>p, <2>1, <2>2, <2>3, <2>4
<1>14. ASSUME NEW w \in Dispatchers, Attach(w) PROVE TypeOK'
  <2>1. Session' /\ Loop'
    BY <1>0, <1>14 DEF Attach, usb_vars, session_vars, thread_vars, loop_vars,
       gui_vars, Session, Loop
  <2>2. Bus'
    BY <1>0, <1>14 DEF Attach, Lost, Moved, Return, usb_vars, session_vars,
       thread_vars, loop_vars, gui_vars, Bus
  <2>3. Devices'
    <3>1. UNCHANGED <<list, alive, active, delay>>
      BY <1>14 DEF Attach
    <3>2. open' \in [Instances -> BOOLEAN]
      <4>1. open' = open \/ \E i \in list : open' = [open EXCEPT ![i] = open[i] /\ i # active]
        BY <1>14 DEF Attach
      <4> QED
        BY <1>0, <4>1 DEF Devices
    <3>3. handle' \in [Instances -> Instances]
      <4>1. handle' = handle \/ \E i \in list : handle' = [handle EXCEPT ![i] = arg[w]]
        BY <1>14 DEF Attach
      <4>2. arg[w] # None
        BY <1>0, <1>14 DEF Calls, Bus, Attach, NewsTrue, Gone
      <4> QED
        BY <1>0, <4>1, <4>2 DEF Devices, Calls
    <3> QED
      BY <1>0, <3>1, <3>2, <3>3 DEF Devices
  <2>4. Hot'
    BY <1>0, <1>14 DEF Attach, Lost, Moved, Return, usb_vars, session_vars,
       thread_vars, loop_vars, gui_vars, Hot
  <2>5. Collectors'
    BY <1>0, <1>14 DEF Attach, Lost, Moved, Return, usb_vars, session_vars,
       thread_vars, loop_vars, gui_vars, Collectors
  <2>6. Calls'
    BY <1>0, <1>14 DEF Attach, Lost, Moved, Return, usb_vars, session_vars,
       thread_vars, loop_vars, gui_vars, Calls
  <2> QED
    BY ONLY <1>p, <2>1, <2>2, <2>3, <2>4, <2>5, <2>6
<1>15. ASSUME NEW w \in Dispatchers, Detach(w) PROVE TypeOK'
  <2>1. Devices' /\ Session' /\ Loop'
    BY <1>0, <1>15 DEF Detach, usb_vars, list_vars, hot_vars, session_vars,
       thread_vars, loop_vars, gui_vars, Devices, Session, Loop
  <2>2. Bus'
    BY <1>0, <1>15 DEF Detach, Listed, Moved, Return, usb_vars, list_vars, hot_vars,
       session_vars, thread_vars, loop_vars, gui_vars, Bus
  <2>3. Hot'
    BY <1>0, <1>15 DEF Detach, Listed, Moved, Return, usb_vars, list_vars, hot_vars,
       session_vars, thread_vars, loop_vars, gui_vars, Hot
  <2>4. Collectors'
    BY <1>0, <1>15 DEF Detach, Listed, Moved, Return, usb_vars, list_vars, hot_vars,
       session_vars, thread_vars, loop_vars, gui_vars, Collectors
  <2>5. Calls'
    BY <1>0, <1>15 DEF Detach, Listed, Moved, Return, usb_vars, list_vars, hot_vars,
       session_vars, thread_vars, loop_vars, gui_vars, Calls
  <2> QED
    BY ONLY <1>p, <2>1, <2>2, <2>3, <2>4, <2>5
<1>16. ASSUME NEW w \in Dispatchers, Mark(w) PROVE TypeOK'
  <2>1. Devices' /\ Session' /\ Loop'
    BY <1>0, <1>16 DEF Mark, usb_vars, list_vars, session_vars, thread_vars,
       loop_vars, gui_vars, Devices, Session, Loop
  <2>2. Bus'
    BY <1>0, <1>16 DEF Mark, Moved, Return, usb_vars, list_vars, session_vars,
       thread_vars, loop_vars, gui_vars, Bus
  <2>3. Hot'
    BY <1>0, <1>16, <1>z DEF Mark, Moved, Return, usb_vars, list_vars, session_vars,
       thread_vars, loop_vars, gui_vars, Calls, Hot
  <2>4. Collectors'
    BY <1>0, <1>16 DEF Mark, Moved, Return, usb_vars, list_vars, session_vars,
       thread_vars, loop_vars, gui_vars, Collectors
  <2>5. Calls'
    BY <1>0, <1>16 DEF Mark, Moved, Return, usb_vars, list_vars, session_vars,
       thread_vars, loop_vars, gui_vars, Calls
  <2> QED
    BY ONLY <1>p, <2>1, <2>2, <2>3, <2>4, <2>5
<1>17. ASSUME HandleEvents PROVE TypeOK'
  <2>1. Devices' /\ Hot' /\ Session' /\ Collectors' /\ Calls'
    BY <1>0, <1>17 DEF HandleEvents, usb_vars, list_vars, hot_vars, session_vars,
       thread_vars, gui_vars, Devices, Hot, Session, Collectors, Calls
  <2>2. Bus'
    BY <1>0, <1>17 DEF HandleEvents, At, usb_vars, list_vars, hot_vars, session_vars,
       thread_vars, gui_vars, Bus
  <2>3. Loop'
    BY <1>0, <1>17 DEF HandleEvents, At, usb_vars, list_vars, hot_vars, session_vars,
       thread_vars, gui_vars, Loop
  <2> QED
    BY ONLY <1>p, <2>1, <2>2, <2>3
<1>18. ASSUME HotplugCallBack PROVE TypeOK'
  <2>1. Devices' /\ Hot' /\ Session' /\ Collectors'
    BY <1>0, <1>18 DEF HotplugCallBack, usb_vars, list_vars, hot_vars, session_vars,
       thread_vars, gui_vars, Devices, Hot, Session, Collectors
  <2>2. Bus'
    BY <1>0, <1>18 DEF HotplugCallBack, At, CallBack, Moved, usb_vars, list_vars,
       hot_vars, session_vars, thread_vars, gui_vars, Bus
  <2>3. Loop'
    BY <1>0, <1>18 DEF HotplugCallBack, At, CallBack, Moved, usb_vars, list_vars,
       hot_vars, session_vars, thread_vars, gui_vars, Loop
  <2>4. Calls'
    <3>1. usbq \in Seq([event : {"exists", "detach"}, dev : Handles]) /\ usbq # <<>>
      BY <1>0, <1>18 DEF HotplugCallBack, CallBack, Bus
    <3>2. Head(usbq) \in [event : {"exists", "detach"}, dev : Handles]
      BY ONLY <3>1, HeadTailProperties
    <3> QED
      BY <1>0, <1>18, <3>2 DEF HotplugCallBack, CallBack, Moved, Calls, gui_vars
  <2> QED
    BY ONLY <1>p, <2>1, <2>2, <2>3, <2>4
<1>19. ASSUME NEW t \in Threads, HotplugFinish(t) PROVE TypeOK'
  <2>1. Bus' /\ Devices' /\ Hot' /\ Calls'
    BY <1>0, <1>19 DEF HotplugFinish, usb_vars, list_vars, hot_vars, thread_vars,
       gui_vars, Bus, Devices, Hot, Calls
  <2>2. Session'
    BY <1>0, <1>19 DEF HotplugFinish, At, Finish, usb_vars, list_vars, hot_vars,
       thread_vars, gui_vars, Session
  <2>3. Collectors'
    BY <1>0, <1>19 DEF HotplugFinish, At, Finish, usb_vars, list_vars, hot_vars,
       thread_vars, gui_vars, Collectors
  <2>4. Loop'
    BY <1>0, <1>19 DEF HotplugFinish, At, Finish, usb_vars, list_vars, hot_vars,
       thread_vars, gui_vars, Loop
  <2> QED
    BY ONLY <1>p, <2>1, <2>2, <2>3, <2>4
<1>20. ASSUME EventsHandled PROVE TypeOK'
  <2>1. Devices' /\ Hot' /\ Session' /\ Collectors' /\ Calls'
    BY <1>0, <1>20 DEF EventsHandled, usb_vars, list_vars, hot_vars, session_vars,
       thread_vars, gui_vars, Devices, Hot, Session, Collectors, Calls
  <2>2. Bus'
    BY <1>0, <1>20 DEF EventsHandled, At, Due, Opens, usb_vars, list_vars, hot_vars,
       session_vars, thread_vars, gui_vars, Bus
  <2>3. Loop'
    BY <1>0, <1>20 DEF EventsHandled, At, Due, Opens, usb_vars, list_vars, hot_vars,
       session_vars, thread_vars, gui_vars, Loop
  <2> QED
    BY ONLY <1>p, <2>1, <2>2, <2>3
<1>21. ASSUME Poll PROVE TypeOK'
  <2>1. Bus' /\ Devices' /\ Hot' /\ Session' /\ Collectors'
    BY <1>0, <1>21 DEF Poll, usb_vars, list_vars, hot_vars, session_vars,
       thread_vars, gui_vars, Bus, Devices, Hot, Session, Collectors
  <2>2. Loop'
    BY <1>0, <1>21 DEF Poll, At, Listed, Moved, NewAttached, NewDetached, Quiet,
       usb_vars, list_vars, hot_vars, session_vars, thread_vars, gui_vars, Loop
  <2>3. Calls'
    BY <1>0, <1>21 DEF Poll, At, Listed, Moved, NewAttached, NewDetached, Quiet,
       usb_vars, list_vars, hot_vars, session_vars, thread_vars, gui_vars, Bus, Calls
  <2> QED
    BY ONLY <1>p, <2>1, <2>2, <2>3
<1>22. ASSUME Scan PROVE TypeOK'
  <2>1. Bus' /\ Devices' /\ Hot' /\ Session' /\ Collectors' /\ Calls'
    BY <1>0, <1>22 DEF Scan, usb_vars, list_vars, hot_vars, session_vars,
       thread_vars, gui_vars, Bus, Devices, Hot, Session, Collectors, Calls
  <2>2. Loop'
    BY <1>0, <1>22 DEF Scan, At, Listed, usb_vars, list_vars, hot_vars, session_vars,
       thread_vars, gui_vars, Bus, Loop
  <2> QED
    BY ONLY <1>p, <2>1, <2>2
<1>23. ASSUME AppendFound PROVE TypeOK'
  <2>1. Bus' /\ Session' /\ Collectors' /\ Calls'
    BY <1>0, <1>23 DEF AppendFound, usb_vars, session_vars, thread_vars, gui_vars,
       Bus, Session, Collectors, Calls
  <2>2. Devices'
    BY <1>0, <1>23 DEF AppendFound, At, Listed, usb_vars, session_vars, thread_vars,
       gui_vars, Loop, Devices
  <2>3. Hot'
    BY <1>0, <1>23 DEF AppendFound, At, Listed, usb_vars, session_vars, thread_vars,
       gui_vars, Hot
  <2>4. Loop'
    BY <1>0, <1>23 DEF AppendFound, At, Listed, usb_vars, session_vars, thread_vars,
       gui_vars, Loop
  <2> QED
    BY ONLY <1>p, <2>1, <2>2, <2>3, <2>4
<1>24. ASSUME ProcessDetach PROVE TypeOK'
  <2>1. Bus' /\ Session' /\ Collectors'
    BY <1>0, <1>24 DEF ProcessDetach, usb_vars, session_vars, thread_vars, Bus,
       Session, Collectors
  <2>2. Devices'
    BY <1>0, <1>24 DEF ProcessDetach, At, RemoveGone, usb_vars, session_vars,
       thread_vars, Devices
  <2>3. Hot'
    BY <1>0, <1>24 DEF ProcessDetach, At, RemoveGone, usb_vars, session_vars,
       thread_vars, Hot
  <2>4. Loop'
    BY <1>0, <1>24 DEF ProcessDetach, At, RemoveGone, usb_vars, session_vars,
       thread_vars, Loop
  <2>5. Calls'
    BY <1>0, <1>24 DEF ProcessDetach, At, RemoveGone, usb_vars, session_vars,
       thread_vars, Calls
  <2> QED
    BY ONLY <1>p, <2>1, <2>2, <2>3, <2>4, <2>5
<1>25. ASSUME EndOfTurn PROVE TypeOK'
  <2>1. Bus' /\ Session' /\ Collectors' /\ Calls'
    BY <1>0, <1>25 DEF EndOfTurn, usb_vars, list_vars, session_vars, thread_vars,
       gui_vars, Bus, Session, Collectors, Calls
  <2>2. Devices'
    BY <1>0, <1>25 DEF EndOfTurn, At, Opens, WaitTurn, usb_vars, list_vars,
       session_vars, thread_vars, gui_vars, Devices
  <2>3. Hot'
    <3>1. times \in 0 .. RECONNECT - 1
      BY <1>0 DEF Hot
    <3>2. times' = 0 \/ (times' = times + 1 /\ times + 1 # RECONNECT)
      BY <1>25 DEF EndOfTurn, WaitTurn
    <3>3. times' \in 0 .. RECONNECT - 1
      BY ONLY <3>1, <3>2, DeviceAssumption DEF DeviceAssumption
    <3>4. detach_flag' \in BOOLEAN /\ waiting' \in BOOLEAN
      BY <1>25 DEF EndOfTurn, WaitTurn
    <3> QED
      BY <1>0, <1>25, <3>3, <3>4 DEF EndOfTurn, Hot
  <2>4. Loop'
    BY <1>0, <1>25 DEF EndOfTurn, At, Opens, WaitTurn, usb_vars, list_vars,
       session_vars, thread_vars, gui_vars, Loop
  <2> QED
    BY ONLY <1>p, <2>1, <2>2, <2>3, <2>4
<1>26. ASSUME NEW t \in Threads, Begin(t) PROVE TypeOK'
  <2>1. Bus' /\ Devices' /\ Hot' /\ Loop' /\ Calls'
    BY <1>0, <1>26 DEF Begin, usb_vars, list_vars, hot_vars, loop_vars, gui_vars,
       Bus, Devices, Hot, Loop, Calls
  <2>2. Session'
    BY <1>0, <1>26 DEF Begin, Goes, Opens, usb_vars, list_vars, hot_vars, loop_vars,
       gui_vars, Session
  <2>3. Collectors'
    BY <1>0, <1>26 DEF Begin, Goes, Opens, usb_vars, list_vars, hot_vars, loop_vars,
       gui_vars, Devices, Collectors
  <2> QED
    BY ONLY <1>p, <2>1, <2>2, <2>3
<1>27. ASSUME NEW t \in Threads, Run(t) PROVE TypeOK'
  <2>1. Bus' /\ Devices' /\ Hot' /\ Loop' /\ Calls'
    BY <1>0, <1>27 DEF Run, usb_vars, list_vars, hot_vars, loop_vars, gui_vars, Bus,
       Devices, Hot, Loop, Calls
  <2>2. Session'
    BY <1>0, <1>27 DEF Run, Goes, usb_vars, list_vars, hot_vars, loop_vars, gui_vars,
       Session
  <2>3. Collectors'
    BY <1>0, <1>27 DEF Run, Goes, usb_vars, list_vars, hot_vars, loop_vars, gui_vars,
       Collectors
  <2> QED
    BY ONLY <1>p, <2>1, <2>2, <2>3
<1>28. ASSUME NEW t \in Threads, CollectCallBack(t) PROVE TypeOK'
  <2>1. Devices' /\ Hot' /\ Session' /\ Loop'
    BY <1>0, <1>28 DEF CollectCallBack, usb_vars, list_vars, hot_vars, session_vars,
       thread_vars, loop_vars, gui_vars, Devices, Hot, Session, Loop
  <2>2. Bus'
    BY <1>0, <1>28 DEF CollectCallBack, CallBack, InLoop, Moved, usb_vars, list_vars,
       hot_vars, session_vars, thread_vars, loop_vars, gui_vars, Bus
  <2>3. Collectors'
    BY <1>0, <1>28 DEF CollectCallBack, CallBack, InLoop, Moved, usb_vars, list_vars,
       hot_vars, session_vars, thread_vars, loop_vars, gui_vars, Collectors
  <2>4. Calls'
    <3>1. usbq \in Seq([event : {"exists", "detach"}, dev : Handles]) /\ usbq # <<>>
      BY <1>0, <1>28 DEF CollectCallBack, CallBack, Bus
    <3>2. Head(usbq) \in [event : {"exists", "detach"}, dev : Handles]
      BY ONLY <3>1, HeadTailProperties
    <3> QED
      BY <1>0, <1>28, <3>2 DEF CollectCallBack, CallBack, Moved, Calls, gui_vars
  <2> QED
    BY ONLY <1>p, <2>1, <2>2, <2>3, <2>4
<1>29. ASSUME NEW t \in Threads, CollectFinish(t) PROVE TypeOK'
  <2>1. Bus' /\ Devices' /\ Hot' /\ Loop' /\ Calls'
    BY <1>0, <1>29 DEF CollectFinish, usb_vars, list_vars, hot_vars, thread_vars,
       loop_vars, gui_vars, Bus, Devices, Hot, Loop, Calls
  <2>2. Session'
    BY <1>0, <1>29 DEF CollectFinish, Finish, InLoop, usb_vars, list_vars, hot_vars,
       thread_vars, loop_vars, gui_vars, Session
  <2>3. Collectors'
    BY <1>0, <1>29 DEF CollectFinish, Finish, InLoop, usb_vars, list_vars, hot_vars,
       thread_vars, loop_vars, gui_vars, Collectors
  <2> QED
    BY ONLY <1>p, <2>1, <2>2, <2>3
<1>30. ASSUME NEW t \in Threads, StopAcquisition(t) PROVE TypeOK'
  <2>1. Bus' /\ Devices' /\ Hot' /\ Loop' /\ Calls'
    BY <1>0, <1>30 DEF StopAcquisition, usb_vars, list_vars, hot_vars, thread_vars,
       loop_vars, gui_vars, Bus, Devices, Hot, Loop, Calls
  <2>2. Session'
    BY <1>0, <1>30 DEF StopAcquisition, Cancelled, InLoop, usb_vars, list_vars,
       hot_vars, thread_vars, loop_vars, gui_vars, Session
  <2>3. Collectors'
    BY <1>0, <1>30 DEF StopAcquisition, Cancelled, InLoop, usb_vars, list_vars,
       hot_vars, thread_vars, loop_vars, gui_vars, Collectors
  <2> QED
    BY ONLY <1>p, <2>1, <2>2, <2>3
<1>31. ASSUME NEW t \in Threads, EndRun(t) PROVE TypeOK'
  <2>1. Bus' /\ Devices' /\ Hot' /\ Loop' /\ Calls'
    BY <1>0, <1>31 DEF EndRun, usb_vars, list_vars, hot_vars, loop_vars, gui_vars,
       Bus, Devices, Hot, Loop, Calls
  <2>2. Session'
    BY <1>0, <1>31 DEF EndRun, Cancelled, Goes, InLoop, usb_vars, list_vars,
       hot_vars, loop_vars, gui_vars, Session
  <2>3. Collectors'
    BY <1>0, <1>31 DEF EndRun, Cancelled, Goes, InLoop, usb_vars, list_vars,
       hot_vars, loop_vars, gui_vars, Collectors
  <2> QED
    BY ONLY <1>p, <2>1, <2>2, <2>3
<1>32. ASSUME NEW t \in Threads, ClearHandle(t) PROVE TypeOK'
  <2>1. Bus' /\ Devices' /\ Hot' /\ Loop' /\ Calls'
    BY <1>0, <1>32 DEF ClearHandle, usb_vars, list_vars, hot_vars, session_vars,
       loop_vars, gui_vars, Bus, Devices, Hot, Loop, Calls
  <2>2. Session'
    BY <1>0, <1>32 DEF ClearHandle, Goes, usb_vars, list_vars, hot_vars,
       session_vars, loop_vars, gui_vars, Session
  <2>3. Collectors'
    BY <1>0, <1>32 DEF ClearHandle, Goes, usb_vars, list_vars, hot_vars,
       session_vars, loop_vars, gui_vars, Collectors
  <2> QED
    BY ONLY <1>p, <2>1, <2>2, <2>3
<1>33. ASSUME NEW t \in Threads, TellEnd(t) PROVE TypeOK'
  <2>1. Bus' /\ Devices' /\ Session' /\ Loop'
    BY <1>0, <1>33 DEF TellEnd, usb_vars, list_vars, hot_vars, session_vars,
       loop_vars, Bus, Devices, Session, Loop
  <2>2. Hot'
    BY <1>0, <1>33 DEF TellEnd, Goes, usb_vars, list_vars, hot_vars, session_vars,
       loop_vars, Hot
  <2>3. Collectors'
    BY <1>0, <1>33 DEF TellEnd, Goes, usb_vars, list_vars, hot_vars, session_vars,
       loop_vars, Collectors
  <2>4. Calls'
    BY <1>0, <1>33 DEF TellEnd, Goes, usb_vars, list_vars, hot_vars, session_vars,
       loop_vars, Calls
  <2> QED
    BY ONLY <1>p, <2>1, <2>2, <2>3, <2>4
<1>34. CASE UNCHANGED vars
  <2>1. Bus'
    BY <1>0, <1>34 DEF vars, usb_vars, Bus
  <2>2. Devices'
    BY <1>0, <1>34 DEF vars, list_vars, Devices
  <2>3. Hot'
    BY <1>0, <1>34 DEF vars, hot_vars, Hot
  <2>4. Session'
    BY <1>0, <1>34 DEF vars, session_vars, Session
  <2>5. Collectors'
    BY <1>0, <1>34 DEF vars, thread_vars, Collectors
  <2>6. Loop'
    BY <1>0, <1>34 DEF vars, loop_vars, Loop
  <2>7. Calls'
    BY <1>0, <1>34 DEF vars, gui_vars, Calls
  <2> QED
    BY ONLY <1>p, <2>1, <2>2, <2>3, <2>4, <2>5, <2>6, <2>7
<1> QED
  BY <1>1, <1>2, <1>3, <1>4, <1>5, <1>6, <1>7, <1>8, <1>9, <1>10, <1>11, <1>12,
       <1>13, <1>14, <1>15, <1>16, <1>17, <1>18, <1>19, <1>20, <1>21, <1>22, <1>23,
       <1>24, <1>25, <1>26, <1>27, <1>28, <1>29, <1>30, <1>31, <1>32, <1>33, <1>34
     DEF Next, Gui, Hotplug, Call, Event, Collect

LEMMA StepNews == TypeOK /\ NewsTrue /\ ListTrue /\ ListSound /\ [Next]_vars => NewsTrue'
<1> SUFFICES ASSUME TypeOK, NewsTrue, ListTrue, ListSound, [Next]_vars PROVE NewsTrue'
  OBVIOUS
<1>0. NewsTrue /\ ListTrue /\ ListSound /\ Bus /\ Devices /\ Calls
  BY TypeParts
<1>q. ASSUME UNCHANGED <<plugged, ever, usbq, pending, arg>>,
             \A w \in Dispatchers : pc'[w] = pc[w]
      PROVE  NewsTrue'
  BY <1>0, <1>q DEF NewsTrue, Gone
<1>1. ASSUME NEW h \in Handles, Plug(h) PROVE NewsTrue'
  <2>1. Gone' = Gone
    BY <1>0, <1>1 DEF Plug, Gone, Bus
  <2>2. usbq' = Append(usbq, [event |-> "exists", dev |-> h]) /\ h \in ever' /\ ever \subseteq ever'
    BY <1>1 DEF Plug
  <2>3. UNCHANGED <<pc, arg, pending>>
    BY <1>1 DEF Plug, hot_vars
  <2>4. NewsTrue!1'
    BY <1>0, <2>1, <2>2 DEF NewsTrue, Bus
  <2> QED
    BY <1>0, <2>1, <2>2, <2>3, <2>4 DEF NewsTrue
<1>2. ASSUME NEW h \in Handles, Unplug(h) PROVE NewsTrue'
  <2>1. Gone' = Gone \cup {h} /\ h \in ever
    BY <1>0, <1>2 DEF Unplug, Gone, ListTrue
  <2>2. usbq' = Append(usbq, [event |-> "detach", dev |-> h]) /\ ever' = ever
    BY <1>2 DEF Unplug
  <2>3. UNCHANGED <<pc, arg, pending>>
    BY <1>2 DEF Unplug, hot_vars
  <2>4. NewsTrue!1'
    BY <1>0, <2>1, <2>2 DEF NewsTrue, Bus
  <2> QED
    BY <1>0, <2>1, <2>2, <2>3, <2>4 DEF NewsTrue
<1>3. ASSUME NEW h \in Instances, Activate(h) PROVE NewsTrue'
  BY <1>0, <1>q, <1>3 DEF Activate, Calls, usb_vars, hot_vars
<1>4. ASSUME NEW t \in Threads, StartCollect(t) PROVE NewsTrue'
  BY <1>0, <1>q, <1>4 DEF StartCollect, Calls, usb_vars, hot_vars
<1>5. ASSUME Assign PROVE NewsTrue'
  BY <1>0, <1>q, <1>5 DEF Assign, Calls, usb_vars, hot_vars
<1>6. ASSUME GuiStop PROVE NewsTrue'
  BY <1>0, <1>q, <1>6 DEF GuiStop, StopCapture, StopCollect, Calls, usb_vars, hot_vars
<1>7. ASSUME SetDevice PROVE NewsTrue'
  BY <1>0, <1>q, <1>7 DEF SetDevice, Calls, usb_vars, hot_vars
<1>8. ASSUME TaskEnded PROVE NewsTrue'
  BY <1>q, <1>8 DEF TaskEnded, usb_vars, hot_vars
<1>9. ASSUME CurrentDetached PROVE NewsTrue'
  BY <1>0, <1>q, <1>9 DEF CurrentDetached, StopCapture, StopCollect, Calls, usb_vars,
       hot_vars
<1>10. ASSUME NEW w \in Callers, Release(w) PROVE NewsTrue'
  <2>1. UNCHANGED <<plugged, ever, usbq, pending, arg>>
    BY <1>10 DEF Release, usb_vars, hot_vars
  <2>2. \A u \in Dispatchers : pc'[u] = pc[u] \/ (u = w /\ pc[u] \in {"release", "join", "close"})
    BY <1>0, <1>10 DEF Release, StopCollect, Moved, AfterClose, Calls
  <2> QED
    BY <1>0, <2>1, <2>2 DEF NewsTrue, Gone
<1>11. ASSUME NEW w \in Callers, Join(w) PROVE NewsTrue'
  <2>1. UNCHANGED <<plugged, ever, usbq, pending, arg>>
    BY <1>11 DEF Join, usb_vars, hot_vars
  <2>2. \A u \in Dispatchers : pc'[u] = pc[u] \/ (u = w /\ pc[u] \in {"release", "join", "close"})
    BY <1>0, <1>11 DEF Join, Moved, Releasing, Calls
  <2> QED
    BY <1>0, <2>1, <2>2 DEF NewsTrue, Gone
<1>12. ASSUME NEW w \in Callers, CloseActive(w) PROVE NewsTrue'
  <2>1. UNCHANGED <<plugged, ever, usbq, pending, arg>>
    BY <1>12 DEF CloseActive, usb_vars, hot_vars
  <2>2. \A u \in Dispatchers : pc'[u] = pc[u] \/ (u = w /\ pc[u] \in {"release", "join", "close"})
    BY <1>0, <1>12 DEF CloseActive, Moved, AfterClose, Calls
  <2> QED
    BY <1>0, <2>1, <2>2 DEF NewsTrue, Gone
<1>13. ASSUME NEW w \in Dispatchers, Exists(w) PROVE NewsTrue'
  <2>1. UNCHANGED <<plugged, ever, usbq>> /\ pending' = pending
    BY <1>13 DEF Exists, usb_vars, hot_vars
  <2>2. arg' = arg \/ arg' = [arg EXCEPT ![w] = None]
    BY <1>13 DEF Exists, Return
  <2>3. \/ pc' = [pc EXCEPT ![w] = "idle"]
        \/ pc' = [pc EXCEPT ![w] = "attach"] /\ arg' = arg /\ pc[w] # "idle"
    BY <1>13 DEF Exists, Return, Moved
  <2> QED
    BY <1>0, <2>1, <2>2, <2>3 DEF NewsTrue, Gone, Calls
<1>14. ASSUME NEW w \in Dispatchers, Attach(w) PROVE NewsTrue'
  <2>1. UNCHANGED <<plugged, ever, usbq>> /\ pending' \in {pending, None}
    BY <1>14 DEF Attach, usb_vars
  <2>2. arg' = arg \/ arg' = [arg EXCEPT ![w] = None]
    BY <1>14 DEF Attach, Return
  <2>3. pc' = [pc EXCEPT ![w] = "idle"]
    BY <1>14 DEF Attach, Return, Moved
  <2> QED
    BY <1>0, <2>1, <2>2, <2>3 DEF NewsTrue, Gone, Calls
<1>15. ASSUME NEW w \in Dispatchers, Detach(w) PROVE NewsTrue'
  <2>1. UNCHANGED <<plugged, ever, usbq>> /\ pending' = pending
    BY <1>15 DEF Detach, usb_vars, hot_vars
  <2>2. arg' = arg \/ arg' = [arg EXCEPT ![w] = None]
    BY <1>15 DEF Detach, Return
  <2>3. \/ pc' = [pc EXCEPT ![w] = "idle"]
        \/ /\ pc' = [pc EXCEPT ![w] = "release"] \/ pc' = [pc EXCEPT ![w] = "mark"]
           /\ arg' = arg /\ pc[w] = "detach"
    BY <1>15 DEF Detach, Return, Moved
  <2> QED
    BY <1>0, <2>1, <2>2, <2>3 DEF NewsTrue, Gone, Calls
<1>16. ASSUME NEW w \in Dispatchers, Mark(w) PROVE NewsTrue'
  <2>1. UNCHANGED <<plugged, ever, usbq>> /\ pending' = arg[w]
    BY <1>16 DEF Mark, usb_vars
  <2>2. arg' = arg \/ arg' = [arg EXCEPT ![w] = None]
    BY <1>16 DEF Mark, Return
  <2>3. pc' = [pc EXCEPT ![w] = "idle"] /\ arg[w] \in Gone
    BY <1>0, <1>16 DEF Mark, Return, Moved, NewsTrue
  <2> QED
    BY <1>0, <2>1, <2>2, <2>3 DEF NewsTrue, Gone, Calls
<1>17. ASSUME HandleEvents PROVE NewsTrue'
  BY <1>q, <1>17 DEF HandleEvents, usb_vars, hot_vars
<1>18. ASSUME HotplugCallBack PROVE NewsTrue'
  <2>1. UNCHANGED <<plugged, ever, pending>> /\ usbq # <<>> /\ usbq' = Tail(usbq)
    BY <1>18 DEF HotplugCallBack, CallBack, usb_vars, hot_vars
  <2>2. /\ pc' = [pc EXCEPT !["hotplug"] = Head(usbq).event]
        /\ arg' = [arg EXCEPT !["hotplug"] = Head(usbq).dev]
    BY <1>18 DEF HotplugCallBack, CallBack, Moved
  <2>3. NewsTrue!1'
    <3>1. Len(usbq) > 0 /\ Len(usbq') = Len(usbq) - 1 /\ \A k \in 1 .. Len(usbq') : usbq'[k] = usbq[k + 1]
      BY ONLY <1>0, <2>1, EmptySeq, HeadTailProperties DEF Bus
    <3> QED
      BY ONLY <1>0, <2>1, <3>1 DEF NewsTrue, Bus, Gone
  <2>4. /\ Head(usbq).event \in {"exists", "detach"}
        /\ Head(usbq).dev \in (IF Head(usbq).event = "detach" THEN Gone ELSE ever)
    <3>1. Len(usbq) \in Nat \ {0}
      BY ONLY <1>0, <2>1, EmptySeq DEF Bus
    <3>2. 1 \in DOMAIN usbq /\ Head(usbq) = usbq[1]
      BY <1>0, <3>1 DEF Bus
    <3>3. Head(usbq) \in [event : {"exists", "detach"}, dev : Handles]
      BY ONLY <1>0, <2>1, HeadTailProperties DEF Bus
    <3> QED
      BY <1>0, <3>2, <3>3 DEF NewsTrue
  <2> QED
    BY <1>0, <2>1, <2>2, <2>3, <2>4 DEF NewsTrue, Gone, Calls
<1>19. ASSUME NEW t \in Threads, HotplugFinish(t) PROVE NewsTrue'
  BY <1>q, <1>19 DEF HotplugFinish, usb_vars, hot_vars
<1>20. ASSUME EventsHandled PROVE NewsTrue'
  BY <1>q, <1>20 DEF EventsHandled, usb_vars, hot_vars
<1>21. ASSUME Poll PROVE NewsTrue'
  <2>1. UNCHANGED <<plugged, ever, usbq, pending>>
    BY <1>21 DEF Poll, usb_vars, hot_vars
  <2>2. \/ UNCHANGED <<pc, arg>>
        \/ \E h \in plugged : /\ pc' = [pc EXCEPT !["hotplug"] = "exists"]
                             /\ arg' = [arg EXCEPT !["hotplug"] = h]
        \/ \E h \in NewDetached : /\ pc' = [pc EXCEPT !["hotplug"] = "detach"]
                                 /\ arg' = [arg EXCEPT !["hotplug"] = h]
    BY <1>21 DEF Poll, Moved, NewAttached
  <2>3. NewDetached \subseteq Gone
    BY <1>0 DEF NewDetached, Gone, ListTrue, ListSound, Devices
  <2> QED
    BY <1>0, <2>1, <2>2, <2>3 DEF NewsTrue, Gone, Calls, ListTrue
<1>22. ASSUME Scan PROVE NewsTrue'
  BY <1>q, <1>22 DEF Scan, usb_vars, hot_vars
<1>23. ASSUME AppendFound PROVE NewsTrue'
  BY <1>q, <1>23 DEF AppendFound, usb_vars
<1>24. ASSUME ProcessDetach PROVE NewsTrue'
  <2>1. UNCHANGED <<plugged, ever, usbq, pc, arg>> /\ pending' \in {pending, None}
    BY <1>24 DEF ProcessDetach, usb_vars
  <2> QED
    BY <1>0, <2>1 DEF NewsTrue, Gone
<1>25. ASSUME EndOfTurn PROVE NewsTrue'
  BY <1>q, <1>25 DEF EndOfTurn, usb_vars
<1>26. ASSUME NEW t \in Threads, Begin(t) PROVE NewsTrue'
  BY <1>q, <1>26 DEF Begin, usb_vars, hot_vars
<1>27. ASSUME NEW t \in Threads, Run(t) PROVE NewsTrue'
  BY <1>q, <1>27 DEF Run, usb_vars, hot_vars
<1>28. ASSUME NEW t \in Threads, CollectCallBack(t) PROVE NewsTrue'
  <2>1. UNCHANGED <<plugged, ever, pending>> /\ usbq # <<>> /\ usbq' = Tail(usbq)
    BY <1>28 DEF CollectCallBack, CallBack, usb_vars, hot_vars
  <2>2. /\ pc' = [pc EXCEPT !["collect"] = Head(usbq).event]
        /\ arg' = [arg EXCEPT !["collect"] = Head(usbq).dev]
    BY <1>28 DEF CollectCallBack, CallBack, Moved
  <2>3. NewsTrue!1'
    <3>1. Len(usbq) > 0 /\ Len(usbq') = Len(usbq) - 1 /\ \A k \in 1 .. Len(usbq') : usbq'[k] = usbq[k + 1]
      BY ONLY <1>0, <2>1, EmptySeq, HeadTailProperties DEF Bus
    <3> QED
      BY ONLY <1>0, <2>1, <3>1 DEF NewsTrue, Bus, Gone
  <2>4. /\ Head(usbq).event \in {"exists", "detach"}
        /\ Head(usbq).dev \in (IF Head(usbq).event = "detach" THEN Gone ELSE ever)
    <3>1. Len(usbq) \in Nat \ {0}
      BY ONLY <1>0, <2>1, EmptySeq DEF Bus
    <3>2. 1 \in DOMAIN usbq /\ Head(usbq) = usbq[1]
      BY <1>0, <3>1 DEF Bus
    <3>3. Head(usbq) \in [event : {"exists", "detach"}, dev : Handles]
      BY ONLY <1>0, <2>1, HeadTailProperties DEF Bus
    <3> QED
      BY <1>0, <3>2, <3>3 DEF NewsTrue
  <2> QED
    BY <1>0, <2>1, <2>2, <2>3, <2>4 DEF NewsTrue, Gone, Calls
<1>29. ASSUME NEW t \in Threads, CollectFinish(t) PROVE NewsTrue'
  BY <1>q, <1>29 DEF CollectFinish, usb_vars, hot_vars
<1>30. ASSUME NEW t \in Threads, StopAcquisition(t) PROVE NewsTrue'
  BY <1>q, <1>30 DEF StopAcquisition, usb_vars, hot_vars
<1>31. ASSUME NEW t \in Threads, EndRun(t) PROVE NewsTrue'
  BY <1>q, <1>31 DEF EndRun, usb_vars, hot_vars
<1>32. ASSUME NEW t \in Threads, ClearHandle(t) PROVE NewsTrue'
  BY <1>q, <1>32 DEF ClearHandle, usb_vars, hot_vars
<1>33. ASSUME NEW t \in Threads, TellEnd(t) PROVE NewsTrue'
  BY <1>q, <1>33 DEF TellEnd, usb_vars, hot_vars
<1>34. CASE UNCHANGED vars
  BY <1>q, <1>34 DEF vars, usb_vars, hot_vars
<1> QED
  BY <1>1, <1>2, <1>3, <1>4, <1>5, <1>6, <1>7, <1>8, <1>9, <1>10, <1>11, <1>12,
       <1>13, <1>14, <1>15, <1>16, <1>17, <1>18, <1>19, <1>20, <1>21, <1>22, <1>23,
       <1>24, <1>25, <1>26, <1>27, <1>28, <1>29, <1>30, <1>31, <1>32, <1>33, <1>34
     DEF Next, Gui, Hotplug, Call, Event, Collect

LEMMA StepList ==
  TypeOK /\ NewsTrue /\ ListTrue /\ ListSound /\ [Next]_vars => (ListTrue /\ ListSound)'
<1> SUFFICES ASSUME TypeOK, NewsTrue, ListTrue, ListSound, [Next]_vars
             PROVE  (ListTrue /\ ListSound)'
  OBVIOUS
<1>0. NewsTrue /\ ListTrue /\ ListSound /\ Bus /\ Devices
  BY TypeParts
<1>q. ASSUME UNCHANGED <<plugged, ever, list, alive, handle, active, delay, found>>
      PROVE  (ListTrue /\ ListSound)'
  BY <1>0, <1>q DEF ListTrue, ListSound
<1>1. ASSUME NEW h \in Handles, Plug(h) PROVE (ListTrue /\ ListSound)'
  <2>1. UNCHANGED <<list, alive, handle, active, delay, found>>
    BY <1>1 DEF Plug, list_vars, loop_vars
  <2>2. h \notin alive /\ plugged' = plugged \cup {h} /\ ever' = ever \cup {h}
    BY <1>0, <1>1 DEF Plug, ListTrue
  <2> QED
    BY <1>0, <2>1, <2>2 DEF ListTrue, ListSound
<1>2. ASSUME NEW h \in Handles, Unplug(h) PROVE (ListTrue /\ ListSound)'
  <2>1. UNCHANGED <<ever, list, alive, handle, active, delay, found>>
    BY <1>2 DEF Unplug, list_vars, loop_vars
  <2>2. plugged' \subseteq plugged
    BY <1>2 DEF Unplug
  <2> QED
    BY <1>0, <2>1, <2>2 DEF ListTrue, ListSound
<1>3. ASSUME NEW h \in Instances, Activate(h) PROVE (ListTrue /\ ListSound)'
  <2>1. UNCHANGED <<plugged, ever, list, handle, found>> /\ delay' = FALSE
    BY <1>3 DEF Activate, usb_vars, loop_vars
  <2>2. alive' = IF delay THEN alive \ {active} ELSE alive
    BY <1>3 DEF Activate
  <2>3. active' \in (IF delay THEN {None} ELSE {active}) \cup {Demo} \cup list
    BY <1>3 DEF Activate
  <2>4. active' \in list \cup {None} /\ alive' = list
    BY <1>0, <2>2, <2>3 DEF ListTrue, ListSound, Devices
  <2> QED
    BY <1>0, <2>1, <2>4 DEF ListTrue, ListSound, Devices
<1>4. ASSUME NEW t \in Threads, StartCollect(t) PROVE (ListTrue /\ ListSound)'
  BY <1>q, <1>4 DEF StartCollect, usb_vars, list_vars, loop_vars
<1>5. ASSUME Assign PROVE (ListTrue /\ ListSound)'
  BY <1>q, <1>5 DEF Assign, usb_vars, list_vars, loop_vars
<1>6. ASSUME GuiStop PROVE (ListTrue /\ ListSound)'
  BY <1>q, <1>6 DEF GuiStop, usb_vars, list_vars, loop_vars
<1>7. ASSUME SetDevice PROVE (ListTrue /\ ListSound)'
  BY <1>q, <1>7 DEF SetDevice, usb_vars, list_vars, loop_vars
<1>8. ASSUME TaskEnded PROVE (ListTrue /\ ListSound)'
  BY <1>q, <1>8 DEF TaskEnded, usb_vars, list_vars, loop_vars
<1>9. ASSUME CurrentDetached PROVE (ListTrue /\ ListSound)'
  BY <1>q, <1>9 DEF CurrentDetached, usb_vars, list_vars, loop_vars
<1>10. ASSUME NEW w \in Callers, Release(w) PROVE (ListTrue /\ ListSound)'
  BY <1>q, <1>10 DEF Release, usb_vars, list_vars, loop_vars
<1>11. ASSUME NEW w \in Callers, Join(w) PROVE (ListTrue /\ ListSound)'
  BY <1>q, <1>11 DEF Join, usb_vars, list_vars, loop_vars
<1>12. ASSUME NEW w \in Callers, CloseActive(w) PROVE (ListTrue /\ ListSound)'
  BY <1>q, <1>12 DEF CloseActive, usb_vars, list_vars, loop_vars
<1>13. ASSUME NEW w \in Dispatchers, Exists(w) PROVE (ListTrue /\ ListSound)'
  BY <1>q, <1>13 DEF Exists, usb_vars, list_vars, loop_vars
<1>14. ASSUME NEW w \in Dispatchers, Attach(w) PROVE (ListTrue /\ ListSound)'
  <2>1. UNCHANGED <<plugged, ever, list, alive, active, delay, found>>
    BY <1>14 DEF Attach, usb_vars, loop_vars
  <2>2. arg[w] \in ever /\ pc[w] = "attach"
    BY <1>0, <1>14 DEF Attach, NewsTrue
  <2>3. \/ handle' = handle
        \/ \E i \in list \ {Demo} : /\ pending # None /\ handle[i] = pending
                                   /\ handle' = [handle EXCEPT ![i] = arg[w]]
    BY <1>14 DEF Attach
  <2>4. CASE handle' = handle
    BY <1>0, <2>1, <2>4 DEF ListTrue, ListSound
  <2>5. ASSUME NEW i \in list \ {Demo}, pending # None, handle[i] = pending,
               handle' = [handle EXCEPT ![i] = arg[w]]
        PROVE  (ListTrue /\ ListSound)'
    <3>1. i \notin plugged
      BY <1>0, <2>5 DEF NewsTrue, ListTrue, ListSound, Gone
    <3> QED
      BY <1>0, <2>1, <2>2, <2>5, <3>1 DEF ListTrue, ListSound, Devices
  <2> QED
    BY <2>3, <2>4, <2>5
<1>15. ASSUME NEW w \in Dispatchers, Detach(w) PROVE (ListTrue /\ ListSound)'
  BY <1>q, <1>15 DEF Detach, usb_vars, list_vars, loop_vars
<1>16. ASSUME NEW w \in Dispatchers, Mark(w) PROVE (ListTrue /\ ListSound)'
  BY <1>q, <1>16 DEF Mark, usb_vars, list_vars, loop_vars
<1>17. ASSUME HandleEvents PROVE (ListTrue /\ ListSound)'
  BY <1>q, <1>17 DEF HandleEvents, usb_vars, list_vars
<1>18. ASSUME HotplugCallBack PROVE (ListTrue /\ ListSound)'
  BY <1>q, <1>18 DEF HotplugCallBack, usb_vars, list_vars
<1>19. ASSUME NEW t \in Threads, HotplugFinish(t) PROVE (ListTrue /\ ListSound)'
  BY <1>q, <1>19 DEF HotplugFinish, usb_vars, list_vars
<1>20. ASSUME EventsHandled PROVE (ListTrue /\ ListSound)'
  BY <1>q, <1>20 DEF EventsHandled, usb_vars, list_vars
<1>21. ASSUME Poll PROVE (ListTrue /\ ListSound)'
  BY <1>q, <1>21 DEF Poll, usb_vars, list_vars
<1>22. ASSUME Scan PROVE (ListTrue /\ ListSound)'
  <2>1. UNCHANGED <<plugged, ever, list, alive, handle, active, delay>>
    BY <1>22 DEF Scan, usb_vars, list_vars
  <2>2. found' = found \/ found' = {h \in plugged : ~Listed(h)}
    BY <1>22 DEF Scan
  <2>3. {h \in plugged : ~Listed(h)} \subseteq ever \ alive
    BY <1>0 DEF ListTrue, Listed
  <2> QED
    BY <1>0, <2>1, <2>2, <2>3 DEF ListTrue, ListSound
<1>23. ASSUME AppendFound PROVE (ListTrue /\ ListSound)'
  <2>1. UNCHANGED <<plugged, ever, active, delay>> /\ found' = {}
    BY <1>23 DEF AppendFound, usb_vars
  <2>2. PICK new \in SUBSET found :
           /\ list' = list \cup new /\ alive' = alive \cup new
           /\ handle' = [i \in Instances |-> IF i \in new THEN i ELSE handle[i]]
    BY <1>23 DEF AppendFound
  <2>3. new \subseteq ever \ alive /\ new \subseteq Instances
    BY <1>0, <2>2 DEF ListTrue, Bus
  <2> QED
    BY <1>0, <2>1, <2>2, <2>3 DEF ListTrue, ListSound, Devices
<1>24. ASSUME ProcessDetach PROVE (ListTrue /\ ListSound)'
  <2>1. UNCHANGED <<plugged, ever, handle, active, found>>
    BY <1>24 DEF ProcessDetach, usb_vars
  <2>2. \/ UNCHANGED <<list, alive, delay>>
        \/ \E i \in list \ {Demo} : pending # None /\ handle[i] = pending /\ RemoveGone(i)
    BY <1>24 DEF ProcessDetach
  <2>3. CASE UNCHANGED <<list, alive, delay>>
    BY <1>0, <2>1, <2>3 DEF ListTrue, ListSound
  <2>4. ASSUME NEW i \in list \ {Demo}, pending # None, handle[i] = pending, RemoveGone(i)
        PROVE  (ListTrue /\ ListSound)'
    <3>1. i \notin plugged
      BY <1>0, <2>4 DEF NewsTrue, ListTrue, ListSound, Gone
    <3>2. list' = list \ {i}
      BY <2>4 DEF RemoveGone
    <3>3. CASE i = active
      <4>1. delay' = TRUE /\ alive' = alive
        BY <2>4, <3>3 DEF RemoveGone
      <4> QED
        BY <1>0, <2>1, <3>1, <3>2, <3>3, <4>1 DEF ListTrue, ListSound, Devices
    <3>4. CASE i # active
      <4>1. delay' = delay /\ alive' = alive \ {i}
        BY <2>4, <3>4 DEF RemoveGone
      <4> QED
        BY <1>0, <2>1, <3>1, <3>2, <3>4, <4>1 DEF ListTrue, ListSound, Devices
    <3> QED
      BY <3>3, <3>4
  <2> QED
    BY <2>2, <2>3, <2>4
<1>25. ASSUME EndOfTurn PROVE (ListTrue /\ ListSound)'
  BY <1>q, <1>25 DEF EndOfTurn, usb_vars, list_vars
<1>26. ASSUME NEW t \in Threads, Begin(t) PROVE (ListTrue /\ ListSound)'
  BY <1>q, <1>26 DEF Begin, usb_vars, list_vars, loop_vars
<1>27. ASSUME NEW t \in Threads, Run(t) PROVE (ListTrue /\ ListSound)'
  BY <1>q, <1>27 DEF Run, usb_vars, list_vars, loop_vars
<1>28. ASSUME NEW t \in Threads, CollectCallBack(t) PROVE (ListTrue /\ ListSound)'
  BY <1>q, <1>28 DEF CollectCallBack, usb_vars, list_vars, loop_vars
<1>29. ASSUME NEW t \in Threads, CollectFinish(t) PROVE (ListTrue /\ ListSound)'
  BY <1>q, <1>29 DEF CollectFinish, usb_vars, list_vars, loop_vars
<1>30. ASSUME NEW t \in Threads, StopAcquisition(t) PROVE (ListTrue /\ ListSound)'
  BY <1>q, <1>30 DEF StopAcquisition, usb_vars, list_vars, loop_vars
<1>31. ASSUME NEW t \in Threads, EndRun(t) PROVE (ListTrue /\ ListSound)'
  BY <1>q, <1>31 DEF EndRun, usb_vars, list_vars, loop_vars
<1>32. ASSUME NEW t \in Threads, ClearHandle(t) PROVE (ListTrue /\ ListSound)'
  BY <1>q, <1>32 DEF ClearHandle, usb_vars, list_vars, loop_vars
<1>33. ASSUME NEW t \in Threads, TellEnd(t) PROVE (ListTrue /\ ListSound)'
  BY <1>q, <1>33 DEF TellEnd, usb_vars, list_vars, loop_vars
<1>34. CASE UNCHANGED vars
  BY <1>q, <1>34 DEF vars, usb_vars, list_vars, loop_vars
<1> QED
  BY <1>1, <1>2, <1>3, <1>4, <1>5, <1>6, <1>7, <1>8, <1>9, <1>10, <1>11, <1>12,
       <1>13, <1>14, <1>15, <1>16, <1>17, <1>18, <1>19, <1>20, <1>21, <1>22, <1>23,
       <1>24, <1>25, <1>26, <1>27, <1>28, <1>29, <1>30, <1>31, <1>32, <1>33, <1>34
     DEF Next, Gui, Hotplug, Call, Event, Collect

DeviceInv == TypeOK /\ NewsTrue /\ ListTrue /\ ListSound

LEMMA DeviceInductive == Spec => []DeviceInv
<1>1. Init => DeviceInv
  <2> SUFFICES ASSUME Init PROVE DeviceInv
    OBVIOUS
  <2>1. TypeOK
    BY InitTypes
  <2>2. NewsTrue
    BY DEF Init, NewsTrue
  <2>3. ListTrue /\ ListSound
    BY DEF Init, ListTrue, ListSound
  <2> QED
    BY <2>1, <2>2, <2>3 DEF DeviceInv
<1>2. DeviceInv /\ [Next]_vars => DeviceInv'
  BY StepTypes, StepNews, StepList DEF DeviceInv
<1> QED
  BY <1>1, <1>2, PTL DEF Spec

(* Every variable of the library, the session and its callers keeps to its *)
(* values.                                                                 *)
THEOREM TypeCorrect == Spec => []TypeOK
<1>1. DeviceInv => TypeOK
  BY DEF DeviceInv
<1> QED
  BY <1>1, DeviceInductive, PTL

(* Whatever is plugged in and out, however its messages and the handlers   *)
(* of the GUI are mixed: instances are destroyed once, those that are      *)
(* listed or active never, and the flag for a late destruction tells the   *)
(* truth.                                                                  *)
THEOREM ListIsSound == Spec => []ListSound
<1>1. DeviceInv => ListSound
  BY DEF DeviceInv
<1> QED
  BY <1>1, DeviceInductive, PTL

-----------------------------------------------------------------------------
(* The capture.                                                            *)

(* From its start to the line that forgets it, a collect thread is the one *)
(* that is stored, or about to be stored, in collect_thread.               *)
Busy(t) == tpc[t] \in {"begin", "started", "loop", "end", "end_error"}

OneCapture ==
    /\ \A t \in Threads : Busy(t) =>
         collect = t \/ (pc["gui"] = "assign" /\ joined["gui"] = t)
    /\ pc["gui"] = "assign" =>
         collect = 0 /\ \A w \in Callers : pc[w] \notin {"release", "join", "close"}

WaitsForIt ==
    \A w \in Callers :
        /\ pc[w] = "join" => \A t \in Threads : Busy(t) => t = joined[w]
        /\ pc[w] = "close" => \A t \in Threads : ~Busy(t)

OwnsSession ==
    \A t \in Threads :
        /\ tpc[t] \in {"begin", "started", "loop"} => sess = t
        /\ InUse(t) => di[t] = active /\ active # None

CaptureInv == OneCapture /\ WaitsForIt /\ OwnsSession

LEMMA NotNull == \A t \in Threads : t # 0
  BY DEF Threads

(* A capture that was started early is not forgotten.                      *)
LEMMA EarlyStays == [Next]_vars => (early => early')
<1> SUFFICES ASSUME [Next]_vars, early PROVE early'
  OBVIOUS
<1>1. ASSUME NEW h \in Handles, Plug(h) PROVE early'
  BY <1>1 DEF Plug
<1>2. ASSUME NEW h \in Handles, Unplug(h) PROVE early'
  BY <1>2 DEF Unplug
<1>3. ASSUME NEW h \in Instances, Activate(h) PROVE early'
  BY <1>3 DEF Activate, usb_vars
<1>4. ASSUME NEW t \in Threads, StartCollect(t) PROVE early'
  BY <1>4 DEF StartCollect
<1>5. ASSUME Assign PROVE early'
  BY <1>5 DEF Assign, usb_vars
<1>6. ASSUME GuiStop PROVE early'
  BY <1>6 DEF GuiStop, usb_vars
<1>7. ASSUME SetDevice PROVE early'
  BY <1>7 DEF SetDevice, usb_vars
<1>8. ASSUME TaskEnded PROVE early'
  BY <1>8 DEF TaskEnded, usb_vars
<1>9. ASSUME CurrentDetached PROVE early'
  BY <1>9 DEF CurrentDetached, usb_vars
<1>10. ASSUME NEW w \in Callers, Release(w) PROVE early'
  BY <1>10 DEF Release, usb_vars
<1>11. ASSUME NEW w \in Callers, Join(w) PROVE early'
  BY <1>11 DEF Join, usb_vars
<1>12. ASSUME NEW w \in Callers, CloseActive(w) PROVE early'
  BY <1>12 DEF CloseActive, usb_vars
<1>13. ASSUME NEW w \in Dispatchers, Exists(w) PROVE early'
  BY <1>13 DEF Exists, usb_vars
<1>14. ASSUME NEW w \in Dispatchers, Attach(w) PROVE early'
  BY <1>14 DEF Attach, usb_vars
<1>15. ASSUME NEW w \in Dispatchers, Detach(w) PROVE early'
  BY <1>15 DEF Detach, usb_vars
<1>16. ASSUME NEW w \in Dispatchers, Mark(w) PROVE early'
  BY <1>16 DEF Mark, usb_vars
<1>17. ASSUME HandleEvents PROVE early'
  BY <1>17 DEF HandleEvents, usb_vars
<1>18. ASSUME HotplugCallBack PROVE early'
  BY <1>18 DEF HotplugCallBack, usb_vars
<1>19. ASSUME NEW t \in Threads, HotplugFinish(t) PROVE early'
  BY <1>19 DEF HotplugFinish, usb_vars
<1>20. ASSUME EventsHandled PROVE early'
  BY <1>20 DEF EventsHandled, usb_vars
<1>21. ASSUME Poll PROVE early'
  BY <1>21 DEF Poll, usb_vars
<1>22. ASSUME Scan PROVE early'
  BY <1>22 DEF Scan, usb_vars
<1>23. ASSUME AppendFound PROVE early'
  BY <1>23 DEF AppendFound, usb_vars
<1>24. ASSUME ProcessDetach PROVE early'
  BY <1>24 DEF ProcessDetach, usb_vars
<1>25. ASSUME EndOfTurn PROVE early'
  BY <1>25 DEF EndOfTurn, usb_vars
<1>26. ASSUME NEW t \in Threads, Begin(t) PROVE early'
  BY <1>26 DEF Begin, usb_vars
<1>27. ASSUME NEW t \in Threads, Run(t) PROVE early'
  BY <1>27 DEF Run, usb_vars
<1>28. ASSUME NEW t \in Threads, CollectCallBack(t) PROVE early'
  BY <1>28 DEF CollectCallBack, usb_vars
<1>29. ASSUME NEW t \in Threads, CollectFinish(t) PROVE early'
  BY <1>29 DEF CollectFinish, usb_vars
<1>30. ASSUME NEW t \in Threads, StopAcquisition(t) PROVE early'
  BY <1>30 DEF StopAcquisition, usb_vars
<1>31. ASSUME NEW t \in Threads, EndRun(t) PROVE early'
  BY <1>31 DEF EndRun, usb_vars
<1>32. ASSUME NEW t \in Threads, ClearHandle(t) PROVE early'
  BY <1>32 DEF ClearHandle, usb_vars
<1>33. ASSUME NEW t \in Threads, TellEnd(t) PROVE early'
  BY <1>33 DEF TellEnd, usb_vars
<1>34. CASE UNCHANGED vars
  BY <1>34 DEF vars, usb_vars
<1> QED
  BY <1>1, <1>2, <1>3, <1>4, <1>5, <1>6, <1>7, <1>8, <1>9, <1>10, <1>11, <1>12,
       <1>13, <1>14, <1>15, <1>16, <1>17, <1>18, <1>19, <1>20, <1>21, <1>22, <1>23,
       <1>24, <1>25, <1>26, <1>27, <1>28, <1>29, <1>30, <1>31, <1>32, <1>33, <1>34
     DEF Next, Gui, Hotplug, Call, Event, Collect

LEMMA StepCapture ==
  ASSUME ~early', TypeOK, CaptureInv, [Next]_vars
  PROVE  CaptureInv'
<1> USE DEF CaptureInv
<1>0. /\ ~early' /\ OneCapture /\ WaitsForIt /\ OwnsSession
      /\ Bus /\ Devices /\ Session /\ Collectors /\ Calls
  BY TypeParts
<1>z. \A t \in Threads : t # 0
  BY NotNull
<1>q. ASSUME UNCHANGED <<collect, sess, tpc, di, active, pc, joined>>
      PROVE  CaptureInv'
  BY <1>0, <1>q DEF OneCapture, WaitsForIt, OwnsSession, Busy, InUse
<1>m. ASSUME UNCHANGED <<collect, sess, tpc, di, active, joined>>,
             \A w \in Callers : pc'[w] \in {"join", "close", "assign"} => pc'[w] = pc[w],
             pc'["gui"] = "assign" =>
               \A w \in Callers : pc'[w] = "release" => pc[w] = "release",
             pc["gui"] = "assign" => pc'["gui"] = "assign"
      PROVE  CaptureInv'
  BY <1>0, <1>m DEF OneCapture, WaitsForIt, OwnsSession, Busy, InUse
<1>1. ASSUME NEW h \in Handles, Plug(h) PROVE CaptureInv'
  BY <1>q, <1>1 DEF Plug, session_vars, thread_vars
<1>2. ASSUME NEW h \in Handles, Unplug(h) PROVE CaptureInv'
  BY <1>q, <1>2 DEF Unplug, session_vars, thread_vars
<1>3. ASSUME NEW h \in Instances, Activate(h) PROVE CaptureInv'
  <2>1. UNCHANGED <<collect, sess, tpc, di, joined>> /\ collect = 0 /\ pc["gui"] # "assign"
    BY <1>3 DEF Activate, session_vars, thread_vars
  <2>2. pc' = [pc EXCEPT !["gui"] = "idle"]
    BY <1>3 DEF Activate
  <2>3. \A t \in Threads : ~Busy(t)
    BY <1>0, <1>z, <2>1 DEF OneCapture
  <2> QED
    BY <1>0, <2>1, <2>2, <2>3 DEF OneCapture, WaitsForIt, OwnsSession, Busy, InUse, Calls
<1>4. ASSUME NEW t \in Threads, StartCollect(t) PROVE CaptureInv'
  <2>1. /\ UNCHANGED <<collect, di, active>> /\ collect = 0 /\ pc["gui"] = "idle"
        /\ ~Ending /\ sess' = t
    BY <1>0, <1>4 DEF StartCollect
  <2>2. \/ UNCHANGED <<tpc, pc, joined>>
        \/ /\ tpc' = [tpc EXCEPT ![t] = "begin"] /\ pc' = [pc EXCEPT !["gui"] = "assign"]
           /\ joined' = [joined EXCEPT !["gui"] = t]
    BY <1>4 DEF StartCollect
  <2>3. \A u \in Threads : ~Busy(u)
    BY <1>0, <1>z, <2>1 DEF OneCapture
  <2>4. \A w \in Callers : pc[w] \notin {"release", "join", "close"}
    BY <2>1 DEF Ending
  <2> QED
    BY <1>0, <2>1, <2>2, <2>3, <2>4 DEF OneCapture, WaitsForIt, OwnsSession, Busy, InUse, Calls, Collectors
<1>5. ASSUME Assign PROVE CaptureInv'
  <2>1. UNCHANGED <<sess, tpc, di, active>> /\ pc["gui"] = "assign" /\ collect' = joined["gui"]
    BY <1>5 DEF Assign, session_vars, thread_vars
  <2>2. pc' = [pc EXCEPT !["gui"] = "idle"] /\ joined' = [joined EXCEPT !["gui"] = 0]
    BY <1>5 DEF Assign
  <2> QED
    BY <1>0, <1>z, <2>1, <2>2 DEF OneCapture, WaitsForIt, OwnsSession, Busy, InUse, Calls
<1>6. ASSUME GuiStop PROVE CaptureInv'
  <2>1. UNCHANGED <<collect, sess, tpc, di, active>>
    BY <1>6 DEF GuiStop, thread_vars
  <2>2. \/ UNCHANGED <<pc, joined>>
        \/ /\ collect # 0 /\ pc["gui"] = "idle"
           /\ pc' = [pc EXCEPT !["gui"] = "join"] /\ joined' = [joined EXCEPT !["gui"] = collect]
    BY <1>6 DEF GuiStop, StopCapture, StopCollect
  <2> QED
    BY <1>0, <2>1, <2>2 DEF OneCapture, WaitsForIt, OwnsSession, Busy, InUse, Calls
<1>7. ASSUME SetDevice PROVE CaptureInv'
  <2>1. UNCHANGED <<collect, sess, tpc, di, active, joined>>
    BY <1>7 DEF SetDevice, session_vars, thread_vars
  <2>2. pc["gui"] = "idle" /\ pc' = [pc EXCEPT !["gui"] = "release"]
    BY <1>7 DEF SetDevice
  <2> QED
    BY <1>0, <1>m, <2>1, <2>2 DEF Calls
<1>8. ASSUME TaskEnded PROVE CaptureInv'
  BY <1>q, <1>8 DEF TaskEnded, session_vars, thread_vars
<1>9. ASSUME CurrentDetached PROVE CaptureInv'
  <2>1. UNCHANGED <<collect, sess, tpc, di, active>>
    BY <1>9 DEF CurrentDetached, thread_vars
  <2>2. \/ UNCHANGED <<pc, joined>>
        \/ /\ collect # 0 /\ pc["callback"] = "idle"
           /\ pc' = [pc EXCEPT !["callback"] = "join"] /\ joined' = [joined EXCEPT !["callback"] = collect]
    BY <1>9 DEF CurrentDetached, StopCapture, StopCollect
  <2> QED
    BY <1>0, <2>1, <2>2 DEF OneCapture, WaitsForIt, OwnsSession, Busy, InUse, Calls
<1>10. ASSUME NEW w \in Callers, Release(w) PROVE CaptureInv'
  <2>1. UNCHANGED <<collect, sess, tpc, di, active>> /\ pc[w] = "release"
    BY <1>10 DEF Release, thread_vars
  <2>2. \/ joined' = joined /\ \E next \in {"mark", "switch"} : pc' = [pc EXCEPT ![w] = next]
        \/ joined' = joined /\ collect = 0 /\ pc' = [pc EXCEPT ![w] = "close"]
        \/ /\ joined' = [joined EXCEPT ![w] = collect] /\ collect # 0
           /\ pc' = [pc EXCEPT ![w] = "join"]
    BY <1>10 DEF Release, StopCollect, Moved, AfterClose
  <2>3. pc["gui"] # "assign"
    BY <1>0, <2>1 DEF OneCapture
  <2>4. \A t \in Threads : Busy(t) => collect = t
    BY <1>0, <2>3 DEF OneCapture
  <2> QED
    BY <1>0, <1>z, <2>1, <2>2, <2>3, <2>4
       DEF OneCapture, WaitsForIt, OwnsSession, Busy, InUse, Calls
<1>11. ASSUME NEW w \in Callers, Join(w) PROVE CaptureInv'
  <2>1. /\ UNCHANGED <<sess, tpc, di, active>> /\ collect' = 0
        /\ pc[w] = "join" /\ tpc[joined[w]] = "gone"
    BY <1>11 DEF Join, session_vars, thread_vars
  <2>2. /\ joined' = [joined EXCEPT ![w] = 0]
        /\ \E next \in {"close", "idle"} : pc' = [pc EXCEPT ![w] = next]
    BY <1>11 DEF Join, Moved
  <2>3. \A t \in Threads : ~Busy(t)
    BY <1>0, <2>1 DEF WaitsForIt, Busy
  <2> QED
    BY <1>0, <2>1, <2>2, <2>3 DEF OneCapture, WaitsForIt, OwnsSession, Busy, InUse, Calls
<1>12. ASSUME NEW w \in Callers, CloseActive(w) PROVE CaptureInv'
  <2>1. UNCHANGED <<collect, tpc, di, active, joined>> /\ pc[w] = "close"
    BY <1>12 DEF CloseActive, thread_vars
  <2>2. \E next \in {"mark", "switch"} : pc' = [pc EXCEPT ![w] = next]
    BY <1>12 DEF CloseActive, Moved, AfterClose
  <2>3. \A t \in Threads : ~Busy(t)
    BY <1>0, <2>1 DEF WaitsForIt
  <2> QED
    BY <1>0, <2>1, <2>2, <2>3 DEF OneCapture, WaitsForIt, OwnsSession, Busy, InUse, Calls
<1>13. ASSUME NEW w \in Dispatchers, Exists(w) PROVE CaptureInv'
  <2>1. UNCHANGED <<collect, sess, tpc, di, active, joined>>
    BY <1>13 DEF Exists, session_vars, thread_vars
  <2>2. \E next \in {"idle", "attach"} : pc' = [pc EXCEPT ![w] = next]
    BY <1>13 DEF Exists, Return, Moved
  <2> QED
    BY <1>0, <1>m, <2>1, <2>2 DEF Calls
<1>14. ASSUME NEW w \in Dispatchers, Attach(w) PROVE CaptureInv'
  <2>1. UNCHANGED <<collect, sess, tpc, di, active, joined>>
    BY <1>14 DEF Attach, session_vars, thread_vars
  <2>2. \E next \in {"idle"} : pc' = [pc EXCEPT ![w] = next]
    BY <1>14 DEF Attach, Return, Moved
  <2> QED
    BY <1>0, <1>m, <2>1, <2>2 DEF Calls
<1>15. ASSUME NEW w \in Dispatchers, Detach(w) PROVE CaptureInv'
  <2>1. UNCHANGED <<collect, sess, tpc, di, active, joined>>
    BY <1>15 DEF Detach, session_vars, thread_vars
  <2>2. \E next \in {"idle", "mark", "release"} :
           pc' = [pc EXCEPT ![w] = next] /\ (next = "release" => collect # 0)
    BY <1>15 DEF Detach, Return, Moved
  <2>3. pc["gui"] = "assign" => collect = 0
    BY <1>0 DEF OneCapture
  <2> QED
    BY <1>0, <1>m, <2>1, <2>2, <2>3 DEF Calls
<1>16. ASSUME NEW w \in Dispatchers, Mark(w) PROVE CaptureInv'
  <2>1. UNCHANGED <<collect, sess, tpc, di, active, joined>>
    BY <1>16 DEF Mark, session_vars, thread_vars
  <2>2. \E next \in {"idle"} : pc' = [pc EXCEPT ![w] = next]
    BY <1>16 DEF Mark, Return, Moved
  <2> QED
    BY <1>0, <1>m, <2>1, <2>2 DEF Calls
<1>17. ASSUME HandleEvents PROVE CaptureInv'
  BY <1>q, <1>17 DEF HandleEvents, session_vars, thread_vars
<1>18. ASSUME HotplugCallBack PROVE CaptureInv'
  <2>1. UNCHANGED <<collect, sess, tpc, di, active, joined>> /\ usbq # <<>>
    BY <1>18 DEF HotplugCallBack, CallBack, session_vars, thread_vars
  <2>2. pc' = [pc EXCEPT !["hotplug"] = Head(usbq).event]
    BY <1>18 DEF HotplugCallBack, CallBack, Moved
  <2>3. Head(usbq).event \in {"exists", "detach"}
    <3>1. Head(usbq) \in [event : {"exists", "detach"}, dev : Handles]
      BY ONLY <1>0, <2>1, HeadTailProperties DEF Bus
    <3> QED
      BY ONLY <3>1
  <2> QED
    BY <1>0, <1>m, <2>1, <2>2, <2>3 DEF Calls
<1>19. ASSUME NEW t \in Threads, HotplugFinish(t) PROVE CaptureInv'
  BY <1>q, <1>19 DEF HotplugFinish, thread_vars
<1>20. ASSUME EventsHandled PROVE CaptureInv'
  BY <1>q, <1>20 DEF EventsHandled, session_vars, thread_vars
<1>21. ASSUME Poll PROVE CaptureInv'
  <2>1. UNCHANGED <<collect, sess, tpc, di, active, joined>>
    BY <1>21 DEF Poll, session_vars, thread_vars
  <2>2. pc' = pc \/ \E next \in {"exists", "detach"} : pc' = [pc EXCEPT !["hotplug"] = next]
    BY <1>21 DEF Poll, Moved
  <2> QED
    BY <1>0, <1>m, <2>1, <2>2 DEF Calls
<1>22. ASSUME Scan PROVE CaptureInv'
  BY <1>q, <1>22 DEF Scan, session_vars, thread_vars
<1>23. ASSUME AppendFound PROVE CaptureInv'
  BY <1>q, <1>23 DEF AppendFound, session_vars, thread_vars
<1>24. ASSUME ProcessDetach PROVE CaptureInv'
  BY <1>q, <1>24 DEF ProcessDetach, session_vars, thread_vars
<1>25. ASSUME EndOfTurn PROVE CaptureInv'
  BY <1>q, <1>25 DEF EndOfTurn, session_vars, thread_vars
<1>26. ASSUME NEW t \in Threads, Begin(t) PROVE CaptureInv'
  <2>1. /\ UNCHANGED <<collect, sess, active, pc, joined>> /\ tpc[t] = "begin"
        /\ di' = [di EXCEPT ![t] = active]
        /\ \E next \in {"started", "end_error"} :
             tpc' = [tpc EXCEPT ![t] = next] /\ (next = "started" => active # None)
    BY <1>26 DEF Begin, session_vars, Goes, InLoop
  <2>a. tpc = [u \in Threads |-> tpc[u]]
    BY <1>0 DEF Collectors
  <2>b. PICK next \in {"started", "end_error"} :
           tpc' = [tpc EXCEPT ![t] = next] /\ (next = "started" => active # None)
    BY <2>1
  <2>2. tpc'[t] = next /\ \A u \in Threads \ {t} : tpc'[u] = tpc[u]
    BY ONLY <1>26, <2>a, <2>b
  <2>3. tpc'[t] = "started" => active # None
    BY <2>b, <2>2
  <2>4. di'[t] = active /\ \A u \in Threads \ {t} : di'[u] = di[u]
    BY <1>0, <2>1 DEF Collectors
  <2>5. OneCapture' /\ WaitsForIt'
    BY <1>0, <2>1, <2>b, <2>2 DEF OneCapture, WaitsForIt, Busy
  <2>6. OwnsSession'
    BY <1>0, <2>1, <2>2, <2>3, <2>4 DEF OwnsSession, InUse
  <2> QED
    BY <2>5, <2>6
<1>27. ASSUME NEW t \in Threads, Run(t) PROVE CaptureInv'
  <2>1. /\ UNCHANGED <<collect, sess, active, pc, joined, di>> /\ tpc[t] = "started"
        /\ \E next \in {"loop", "end_error"} : tpc' = [tpc EXCEPT ![t] = next]
    BY <1>27 DEF Run, session_vars, Goes, InLoop
  <2> QED
    BY <1>0, <1>z, <2>1 DEF OneCapture, WaitsForIt, OwnsSession, Busy, InUse, Collectors
<1>28. ASSUME NEW t \in Threads, CollectCallBack(t) PROVE CaptureInv'
  <2>1. UNCHANGED <<collect, sess, tpc, di, active, joined>> /\ usbq # <<>>
    BY <1>28 DEF CollectCallBack, CallBack, session_vars, thread_vars
  <2>2. pc' = [pc EXCEPT !["collect"] = Head(usbq).event]
    BY <1>28 DEF CollectCallBack, CallBack, Moved
  <2>3. Head(usbq).event \in {"exists", "detach"}
    <3>1. Head(usbq) \in [event : {"exists", "detach"}, dev : Handles]
      BY ONLY <1>0, <2>1, HeadTailProperties DEF Bus
    <3> QED
      BY ONLY <3>1
  <2> QED
    BY <1>0, <1>m, <2>1, <2>2, <2>3 DEF Calls
<1>29. ASSUME NEW t \in Threads, CollectFinish(t) PROVE CaptureInv'
  BY <1>q, <1>29 DEF CollectFinish, thread_vars
<1>30. ASSUME NEW t \in Threads, StopAcquisition(t) PROVE CaptureInv'
  BY <1>q, <1>30 DEF StopAcquisition, thread_vars
<1>31. ASSUME NEW t \in Threads, EndRun(t) PROVE CaptureInv'
  <2>1. /\ UNCHANGED <<collect, sess, active, pc, joined, di>> /\ tpc[t] = "loop"
        /\ tpc' = [tpc EXCEPT ![t] = "end"]
    BY <1>31 DEF EndRun, session_vars, Goes, InLoop
  <2> QED
    BY <1>0, <1>z, <2>1 DEF OneCapture, WaitsForIt, OwnsSession, Busy, InUse, Collectors
<1>32. ASSUME NEW t \in Threads, ClearHandle(t) PROVE CaptureInv'
  <2>1. /\ UNCHANGED <<sess, active, pc, joined, di>> /\ tpc[t] \in {"end", "end_error"}
        /\ \E next \in {"tail", "tail_error"} : tpc' = [tpc EXCEPT ![t] = next]
        /\ collect' = 0
    BY <1>32 DEF ClearHandle, session_vars, Goes, InLoop
  <2> QED
    BY <1>0, <1>z, <2>1 DEF OneCapture, WaitsForIt, OwnsSession, Busy, InUse, Collectors
<1>33. ASSUME NEW t \in Threads, TellEnd(t) PROVE CaptureInv'
  <2>1. /\ UNCHANGED <<collect, sess, active, pc, joined>> /\ tpc[t] \in {"tail", "tail_error"}
        /\ tpc' = [tpc EXCEPT ![t] = "gone"] /\ di' = [di EXCEPT ![t] = None]
    BY <1>33 DEF TellEnd, session_vars, Goes, InLoop
  <2> QED
    BY <1>0, <1>z, <2>1 DEF OneCapture, WaitsForIt, OwnsSession, Busy, InUse, Collectors
<1>34. CASE UNCHANGED vars
  BY <1>q, <1>34 DEF vars, session_vars, thread_vars
<1> QED
  BY <1>1, <1>2, <1>3, <1>4, <1>5, <1>6, <1>7, <1>8, <1>9, <1>10, <1>11, <1>12,
       <1>13, <1>14, <1>15, <1>16, <1>17, <1>18, <1>19, <1>20, <1>21, <1>22, <1>23,
       <1>24, <1>25, <1>26, <1>27, <1>28, <1>29, <1>30, <1>31, <1>32, <1>33, <1>34
     DEF Next, Gui, Hotplug, Call, Event, Collect

LEMMA CaptureInductive == Spec => [](early \/ CaptureInv)
<1>1. Init => CaptureInv
  BY NotNull DEF Init, CaptureInv, OneCapture, WaitsForIt, OwnsSession, Busy, InUse
<1>2. DeviceInv /\ (early \/ CaptureInv) /\ [Next]_vars => (early \/ CaptureInv)'
  <2> SUFFICES ASSUME DeviceInv, early \/ CaptureInv, [Next]_vars, ~early' PROVE CaptureInv'
    OBVIOUS
  <2> QED
    BY EarlyStays, StepCapture DEF DeviceInv
<1> QED
  BY <1>1, <1>2, DeviceInductive, PTL DEF Spec

(* A device in use stays open.                                             *)
Kept ==
    \A t \in Threads :
        InUse(t) /\ InUse(t)' /\ active # None /\ open[active] => open'[active] \/ reopen'

LEMMA StepOpen ==
  ASSUME DeviceInv, CaptureInv, [Next]_vars
  PROVE  Kept
<1>0. /\ NewsTrue /\ ListTrue /\ ListSound /\ CaptureInv
      /\ Bus /\ Devices /\ Session /\ Collectors /\ Calls
  BY TypeParts DEF DeviceInv
<1>z. \A t \in Threads : t # 0
  BY NotNull
<1>q. ASSUME open' = open PROVE Kept
  BY <1>q DEF Kept
<1>1. ASSUME NEW h \in Handles, Plug(h) PROVE Kept
  BY <1>q, <1>1 DEF Plug
<1>2. ASSUME NEW h \in Handles, Unplug(h) PROVE Kept
  BY <1>q, <1>2 DEF Unplug
<1>3. ASSUME NEW h \in Instances, Activate(h) PROVE Kept
  <2>1. collect = 0 /\ pc["gui"] # "assign" /\ tpc' = tpc
    BY <1>3 DEF Activate, thread_vars
  <2> QED
    BY <1>0, <1>z, <2>1 DEF CaptureInv, OneCapture, Busy, InUse, Kept
<1>4. ASSUME NEW t \in Threads, StartCollect(t) PROVE Kept
  <2>1. open' = open \/ open' = [open EXCEPT ![active] = TRUE]
    BY <1>4 DEF StartCollect
  <2> QED
    BY <1>0, <2>1 DEF Kept, Devices
<1>5. ASSUME Assign PROVE Kept
  BY <1>q, <1>5 DEF Assign
<1>6. ASSUME GuiStop PROVE Kept
  BY <1>q, <1>6 DEF GuiStop
<1>7. ASSUME SetDevice PROVE Kept
  BY <1>q, <1>7 DEF SetDevice
<1>8. ASSUME TaskEnded PROVE Kept
  BY <1>q, <1>8 DEF TaskEnded
<1>9. ASSUME CurrentDetached PROVE Kept
  BY <1>q, <1>9 DEF CurrentDetached
<1>10. ASSUME NEW w \in Callers, Release(w) PROVE Kept
  BY <1>q, <1>10 DEF Release
<1>11. ASSUME NEW w \in Callers, Join(w) PROVE Kept
  BY <1>q, <1>11 DEF Join
<1>12. ASSUME NEW w \in Callers, CloseActive(w) PROVE Kept
  <2>1. pc[w] = "close" /\ tpc' = tpc
    BY <1>12 DEF CloseActive, thread_vars
  <2> QED
    BY <1>0, <2>1 DEF CaptureInv, WaitsForIt, Busy, InUse, Kept
<1>13. ASSUME NEW w \in Dispatchers, Exists(w) PROVE Kept
  BY <1>q, <1>13 DEF Exists
<1>14. ASSUME NEW w \in Dispatchers, Attach(w) PROVE Kept
  <2>1. \/ open' = open \/ reopen'
        \/ \E i \in list : i # active /\ open' = [open EXCEPT ![i] = open[i] /\ i # active]
    BY <1>14 DEF Attach
  <2>2. \/ open' = open \/ reopen'
        \/ active # None => open'[active] = open[active]
    BY <1>0, <2>1 DEF Devices
  <2> QED
    BY <2>2 DEF Kept
<1>15. ASSUME NEW w \in Dispatchers, Detach(w) PROVE Kept
  BY <1>q, <1>15 DEF Detach
<1>16. ASSUME NEW w \in Dispatchers, Mark(w) PROVE Kept
  BY <1>q, <1>16 DEF Mark
<1>17. ASSUME HandleEvents PROVE Kept
  BY <1>q, <1>17 DEF HandleEvents
<1>18. ASSUME HotplugCallBack PROVE Kept
  BY <1>q, <1>18 DEF HotplugCallBack
<1>19. ASSUME NEW t \in Threads, HotplugFinish(t) PROVE Kept
  BY <1>q, <1>19 DEF HotplugFinish
<1>20. ASSUME EventsHandled PROVE Kept
  BY <1>q, <1>20 DEF EventsHandled
<1>21. ASSUME Poll PROVE Kept
  BY <1>q, <1>21 DEF Poll
<1>22. ASSUME Scan PROVE Kept
  BY <1>q, <1>22 DEF Scan
<1>23. ASSUME AppendFound PROVE Kept
  <2>1. PICK new \in SUBSET found : open' = [i \in Instances |-> open[i] /\ i \notin new]
    BY <1>23 DEF AppendFound
  <2>2. active # None => active \notin new
    BY <1>0, <2>1 DEF ListTrue, ListSound
  <2>3. ASSUME active # None, open[active] PROVE open'[active]
    BY <1>0, <2>1, <2>2, <2>3 DEF Devices
  <2> QED
    BY <1>0, <2>3 DEF Kept
<1>24. ASSUME ProcessDetach PROVE Kept
  <2>1. open' = open \/ \E i \in list : i # active /\ open' = [open EXCEPT ![i] = FALSE]
    BY <1>24 DEF ProcessDetach, RemoveGone
  <2> QED
    BY <1>0, <2>1 DEF Kept, Devices
<1>25. ASSUME EndOfTurn PROVE Kept
  <2>1. open' = [i \in Instances |-> open[i] \/ (reopen /\ i = active /\ Opens(i))]
    BY <1>25 DEF EndOfTurn
  <2>2. ASSUME active # None, open[active] PROVE open'[active]
    BY <1>0, <2>1, <2>2 DEF Devices
  <2> QED
    BY <1>0, <2>2 DEF Kept
<1>26. ASSUME NEW t \in Threads, Begin(t) PROVE Kept
  BY <1>q, <1>26 DEF Begin
<1>27. ASSUME NEW t \in Threads, Run(t) PROVE Kept
  BY <1>q, <1>27 DEF Run
<1>28. ASSUME NEW t \in Threads, CollectCallBack(t) PROVE Kept
  BY <1>q, <1>28 DEF CollectCallBack
<1>29. ASSUME NEW t \in Threads, CollectFinish(t) PROVE Kept
  BY <1>q, <1>29 DEF CollectFinish
<1>30. ASSUME NEW t \in Threads, StopAcquisition(t) PROVE Kept
  BY <1>q, <1>30 DEF StopAcquisition
<1>31. ASSUME NEW t \in Threads, EndRun(t) PROVE Kept
  BY <1>q, <1>31 DEF EndRun
<1>32. ASSUME NEW t \in Threads, ClearHandle(t) PROVE Kept
  BY <1>q, <1>32 DEF ClearHandle
<1>33. ASSUME NEW t \in Threads, TellEnd(t) PROVE Kept
  BY <1>q, <1>33 DEF TellEnd
<1>34. CASE UNCHANGED vars
  BY <1>q, <1>34 DEF vars
<1> QED
  BY <1>1, <1>2, <1>3, <1>4, <1>5, <1>6, <1>7, <1>8, <1>9, <1>10, <1>11, <1>12,
       <1>13, <1>14, <1>15, <1>16, <1>17, <1>18, <1>19, <1>20, <1>21, <1>22, <1>23,
       <1>24, <1>25, <1>26, <1>27, <1>28, <1>29, <1>30, <1>31, <1>32, <1>33, <1>34
     DEF Next, Gui, Hotplug, Call, Event, Collect

(* Until a capture is started before another thread has ended the one      *)
(* before (ds_start_collect, ds_stop_collect), nobody destroys the session,*)
(* replaces or closes the device of a capture that runs, and its thread    *)
(* can always be joined.                                                   *)
THEOREM CaptureOwnsDevice == Spec => CollectorOwns
<1>1. /\ DeviceInv /\ (early \/ CaptureInv) /\ (early \/ CaptureInv)' /\ [Next]_vars
      => [early' \/ \A t \in Threads : InUse(t)' => Owned(t)]_vars
  <2> SUFFICES ASSUME DeviceInv, early \/ CaptureInv, (early \/ CaptureInv)', [Next]_vars,
                      ~early', NEW t \in Threads, InUse(t)'
               PROVE  Owned(t)
    OBVIOUS
  <2>0. CaptureInv /\ CaptureInv'
    BY EarlyStays
  <2>1. Kept
    BY <2>0, StepOpen
  <2>2. sess' = t /\ di'[t] = active'
    BY <2>0 DEF CaptureInv, OwnsSession, InUse
  <2>3. collect' = t \/ (pc'["gui"] = "assign" /\ joined'["gui"] = t)
    BY <2>0 DEF CaptureInv, OneCapture, Busy, InUse
  <2>4. InUse(t) => active # None
    BY <2>0 DEF CaptureInv, OwnsSession
  <2> QED
    BY <2>1, <2>2, <2>3, <2>4 DEF Owned, Kept
<1> QED
  BY <1>1, DeviceInductive, CaptureInductive, PTL DEF Spec, CollectorOwns

-----------------------------------------------------------------------------
(* The events lock.                                                        *)

(* libusb's events lock is held by the hotplug thread in its wait, or by   *)
(* the collect thread that is in a hotplug callback: that thread collects  *)
(* from a device on the bus and stays in its loop until it returns.  The   *)
(* hotplug thread is in a handler under the lock or in its poll.           *)
EventsLock ==
    /\ events = "hotplug" <=> hpc = "events"
    /\ events = "collect" <=> runner # 0
    /\ pc["collect"] # "idle" <=> runner # 0
    /\ runner # 0 => tpc[runner] = "loop" /\ di[runner] # Demo
    /\ pc["hotplug"] # "idle" => hpc \in {"events", "scan"}

LEMMA StepEvents ==
  ASSUME TypeOK, EventsLock, [Next]_vars
  PROVE  EventsLock'
<1>0. Bus /\ Session /\ Collectors /\ Loop /\ Calls /\ EventsLock
  BY TypeParts
<1>z. \A t \in Threads : t # 0
  BY NotNull
<1>q. ASSUME UNCHANGED <<events, hpc, runner, pc, tpc, di>> PROVE EventsLock'
  BY <1>0, <1>q DEF EventsLock
<1>m. ASSUME UNCHANGED <<events, hpc, runner, tpc, di>>,
             \A w \in Dispatchers : pc'[w] = "idle" <=> pc[w] = "idle"
      PROVE  EventsLock'
  BY <1>0, <1>m DEF EventsLock
<1>t. ASSUME UNCHANGED <<events, hpc, runner, pc>>,
             \A t \in Threads : tpc[t] = "loop" /\ t = runner => tpc'[t] = "loop" /\ di'[t] = di[t]
      PROVE  EventsLock'
  BY <1>0, <1>t DEF EventsLock, Collectors
<1>r. ASSUME NEW w \in Dispatchers, UNCHANGED <<hpc, tpc, di>>, Return(w), pc[w] # "idle"
      PROVE  EventsLock'
  <2>1. pc' = [pc EXCEPT ![w] = "idle"]
    BY <1>r DEF Return, Moved
  <2>2. CASE w = "collect"
    BY <1>0, <1>r, <2>1, <2>2 DEF EventsLock, Return, Bus, Calls
  <2>3. CASE w = "hotplug"
    BY <1>0, <1>r, <2>1, <2>3 DEF EventsLock, Return, Bus, Calls
  <2> QED
    BY <2>2, <2>3
<1>n. ASSUME NEW u \in Callers \ Dispatchers, NEW x, pc' = [pc EXCEPT ![u] = x]
      PROVE  \A w \in Dispatchers : pc'[w] = "idle" <=> pc[w] = "idle"
  BY <1>0, <1>n DEF Calls
<1>w. ASSUME NEW u \in Callers, NEW x, pc' = [pc EXCEPT ![u] = x], pc[u] # "idle",
             u \in Dispatchers => x # "idle"
      PROVE  \A w \in Dispatchers : pc'[w] = "idle" <=> pc[w] = "idle"
  BY <1>0, <1>w DEF Calls
<1>g. "gui" \in Callers \ Dispatchers /\ "callback" \in Callers \ Dispatchers
  OBVIOUS
<1>1. ASSUME NEW h \in Handles, Plug(h) PROVE EventsLock'
  BY <1>q, <1>1 DEF Plug, loop_vars, thread_vars
<1>2. ASSUME NEW h \in Handles, Unplug(h) PROVE EventsLock'
  BY <1>q, <1>2 DEF Unplug, loop_vars, thread_vars
<1>3. ASSUME NEW h \in Instances, Activate(h) PROVE EventsLock'
  <2>1. UNCHANGED <<events, hpc, runner, tpc, di>> /\ pc' = [pc EXCEPT !["gui"] = "idle"]
    BY <1>3 DEF Activate, loop_vars, thread_vars
  <2> QED
    BY <1>m, <1>n, <1>g, <2>1
<1>4. ASSUME NEW t \in Threads, StartCollect(t) PROVE EventsLock'
  <2>1. UNCHANGED <<events, hpc, runner, di>> /\ tpc[t] = "none"
    BY <1>4 DEF StartCollect, loop_vars
  <2>2. CASE UNCHANGED <<tpc, pc>>
    BY <1>q, <2>1, <2>2
  <2>3. CASE tpc' = [tpc EXCEPT ![t] = "begin"] /\ pc' = [pc EXCEPT !["gui"] = "assign"]
    BY <1>0, <2>1, <2>3 DEF EventsLock, Collectors, Calls
  <2> QED
    BY <1>4, <2>2, <2>3 DEF StartCollect
<1>5. ASSUME Assign PROVE EventsLock'
  <2>1. UNCHANGED <<events, hpc, runner, tpc, di>> /\ pc' = [pc EXCEPT !["gui"] = "idle"]
    BY <1>5 DEF Assign, loop_vars, thread_vars
  <2> QED
    BY <1>m, <1>n, <1>g, <2>1
<1>6. ASSUME GuiStop PROVE EventsLock'
  <2>1. UNCHANGED <<events, hpc, runner, tpc, di>>
        /\ (pc' = pc \/ pc' = [pc EXCEPT !["gui"] = "join"])
    BY <1>6 DEF GuiStop, StopCapture, StopCollect, loop_vars, thread_vars
  <2> QED
    BY <1>q, <1>m, <1>n, <1>g, <2>1
<1>7. ASSUME SetDevice PROVE EventsLock'
  <2>1. UNCHANGED <<events, hpc, runner, tpc, di>> /\ pc' = [pc EXCEPT !["gui"] = "release"]
    BY <1>7 DEF SetDevice, loop_vars, thread_vars
  <2> QED
    BY <1>m, <1>n, <1>g, <2>1
<1>8. ASSUME TaskEnded PROVE EventsLock'
  BY <1>q, <1>8 DEF TaskEnded, loop_vars, thread_vars
<1>9. ASSUME CurrentDetached PROVE EventsLock'
  <2>1. UNCHANGED <<events, hpc, runner, tpc, di>>
        /\ (pc' = pc \/ pc' = [pc EXCEPT !["callback"] = "join"])
    BY <1>9 DEF CurrentDetached, StopCapture, StopCollect, loop_vars, thread_vars
  <2> QED
    BY <1>q, <1>m, <1>n, <1>g, <2>1
<1>10. ASSUME NEW w \in Callers, Release(w) PROVE EventsLock'
  <2>1. UNCHANGED <<events, hpc, runner, tpc, di>> /\ pc[w] = "release"
    BY <1>10 DEF Release, loop_vars, thread_vars
  <2>2. \E x \in {"mark", "switch", "close", "join"} : pc' = [pc EXCEPT ![w] = x]
    BY <1>10 DEF Release, StopCollect, Moved, AfterClose
  <2> QED
    BY <1>m, <1>w, <2>1, <2>2
<1>11. ASSUME NEW w \in Callers, Join(w) PROVE EventsLock'
  <2>1. UNCHANGED <<events, hpc, runner, tpc, di>> /\ pc[w] = "join"
    BY <1>11 DEF Join, loop_vars, thread_vars
  <2>2. \E x \in {"close", "idle"} :
           pc' = [pc EXCEPT ![w] = x] /\ (w \in Dispatchers => x = "close")
    BY <1>11 DEF Join, Moved, Releasing
  <2> QED
    BY <1>m, <1>w, <2>1, <2>2
<1>12. ASSUME NEW w \in Callers, CloseActive(w) PROVE EventsLock'
  <2>1. UNCHANGED <<events, hpc, runner, tpc, di>> /\ pc[w] = "close"
    BY <1>12 DEF CloseActive, loop_vars, thread_vars
  <2>2. \E x \in {"mark", "switch"} : pc' = [pc EXCEPT ![w] = x]
    BY <1>12 DEF CloseActive, Moved, AfterClose
  <2> QED
    BY <1>m, <1>w, <2>1, <2>2
<1>13. ASSUME NEW w \in Dispatchers, Exists(w) PROVE EventsLock'
  <2>1. UNCHANGED <<hpc, tpc, di>> /\ pc[w] = "exists"
    BY <1>13 DEF Exists, loop_vars, thread_vars
  <2>2. \/ Return(w)
        \/ UNCHANGED <<events, runner>> /\ \E x \in {"attach"} : pc' = [pc EXCEPT ![w] = x]
    BY <1>13 DEF Exists, Moved
  <2> QED
    BY <1>r, <1>m, <1>w, <2>1, <2>2
<1>14. ASSUME NEW w \in Dispatchers, Attach(w) PROVE EventsLock'
  <2>1. UNCHANGED <<hpc, tpc, di>> /\ pc[w] = "attach"
    BY <1>14 DEF Attach, loop_vars, thread_vars
  <2>2. Return(w)
    BY <1>14 DEF Attach
  <2> QED
    BY <1>r, <2>1, <2>2
<1>15. ASSUME NEW w \in Dispatchers, Detach(w) PROVE EventsLock'
  <2>1. UNCHANGED <<hpc, tpc, di>> /\ pc[w] = "detach"
    BY <1>15 DEF Detach, loop_vars, thread_vars
  <2>2. \/ Return(w)
        \/ UNCHANGED <<events, runner>> /\ \E x \in {"release", "mark"} : pc' = [pc EXCEPT ![w] = x]
    BY <1>15 DEF Detach, Moved
  <2> QED
    BY <1>r, <1>m, <1>w, <2>1, <2>2
<1>16. ASSUME NEW w \in Dispatchers, Mark(w) PROVE EventsLock'
  <2>1. UNCHANGED <<hpc, tpc, di>> /\ pc[w] = "mark"
    BY <1>16 DEF Mark, loop_vars, thread_vars
  <2>2. Return(w)
    BY <1>16 DEF Mark
  <2> QED
    BY <1>r, <2>1, <2>2
<1>17. ASSUME HandleEvents PROVE EventsLock'
  <2>1. UNCHANGED <<runner, pc, tpc, di>> /\ hpc = "wait" /\ pc["hotplug"] = "idle"
        /\ \/ events = "free" /\ events' = "hotplug" /\ hpc' = "events"
           \/ events' = events /\ hpc' = "poll"
    BY <1>17 DEF HandleEvents, At, thread_vars
  <2> QED
    BY <1>0, <2>1 DEF EventsLock
<1>18. ASSUME HotplugCallBack PROVE EventsLock'
  <2>1. UNCHANGED <<events, hpc, runner, tpc, di>> /\ hpc = "events"
        /\ \E x : pc' = [pc EXCEPT !["hotplug"] = x]
    BY <1>18 DEF HotplugCallBack, CallBack, Moved, At, thread_vars
  <2> QED
    BY <1>0, <2>1 DEF EventsLock, Calls
<1>19. ASSUME NEW t \in Threads, HotplugFinish(t) PROVE EventsLock'
  BY <1>q, <1>19 DEF HotplugFinish, At, thread_vars
<1>20. ASSUME EventsHandled PROVE EventsLock'
  <2>1. UNCHANGED <<runner, pc, tpc, di>> /\ hpc = "events" /\ pc["hotplug"] = "idle"
        /\ events' = "free" /\ hpc' = "poll"
    BY <1>20 DEF EventsHandled, At, thread_vars
  <2> QED
    BY <1>0, <2>1 DEF EventsLock
<1>21. ASSUME Poll PROVE EventsLock'
  <2>1. UNCHANGED <<events, runner, tpc, di>> /\ hpc = "poll" /\ hpc' = "scan"
    BY <1>21 DEF Poll, At, thread_vars
  <2>2. pc' = pc \/ \E x : pc' = [pc EXCEPT !["hotplug"] = x]
    BY <1>21 DEF Poll, Moved
  <2> QED
    BY <1>0, <2>1, <2>2 DEF EventsLock, Calls
<1>22. ASSUME Scan PROVE EventsLock'
  <2>1. UNCHANGED <<events, runner, pc, tpc, di>> /\ hpc = "scan" /\ pc["hotplug"] = "idle"
        /\ hpc' \in {"append", "detach"}
    BY <1>22 DEF Scan, At, thread_vars
  <2> QED
    BY <1>0, <2>1 DEF EventsLock
<1>23. ASSUME AppendFound PROVE EventsLock'
  <2>1. UNCHANGED <<events, runner, pc, tpc, di>> /\ hpc = "append" /\ pc["hotplug"] = "idle"
        /\ hpc' \in {"detach"}
    BY <1>23 DEF AppendFound, At, thread_vars
  <2> QED
    BY <1>0, <2>1 DEF EventsLock
<1>24. ASSUME ProcessDetach PROVE EventsLock'
  <2>1. UNCHANGED <<events, runner, pc, tpc, di>> /\ hpc = "detach" /\ pc["hotplug"] = "idle"
        /\ hpc' \in {"turn"}
    BY <1>24 DEF ProcessDetach, At, thread_vars
  <2> QED
    BY <1>0, <2>1 DEF EventsLock
<1>25. ASSUME EndOfTurn PROVE EventsLock'
  <2>1. UNCHANGED <<events, runner, pc, tpc, di>> /\ hpc = "turn" /\ pc["hotplug"] = "idle"
        /\ hpc' \in {"wait"}
    BY <1>25 DEF EndOfTurn, At, thread_vars
  <2> QED
    BY <1>0, <2>1 DEF EventsLock
<1>26. ASSUME NEW t \in Threads, Begin(t) PROVE EventsLock'
  <2>1. UNCHANGED <<events, hpc, runner, pc>> /\ tpc[t] = "begin"
        /\ di' = [di EXCEPT ![t] = active]
        /\ \E next : tpc' = [tpc EXCEPT ![t] = next]
    BY <1>26 DEF Begin, Goes, loop_vars
  <2> QED
    BY <1>0, <1>t, <2>1 DEF Collectors
<1>27. ASSUME NEW t \in Threads, Run(t) PROVE EventsLock'
  <2>1. UNCHANGED <<events, hpc, runner, pc, di>> /\ tpc[t] = "started"
        /\ \E next : tpc' = [tpc EXCEPT ![t] = next]
    BY <1>27 DEF Run, Goes, loop_vars
  <2> QED
    BY <1>0, <1>t, <2>1 DEF Collectors
<1>28. ASSUME NEW t \in Threads, CollectCallBack(t) PROVE EventsLock'
  <2>1. UNCHANGED <<hpc, tpc, di>> /\ tpc[t] = "loop" /\ di[t] # Demo
        /\ events = "free" /\ events' = "collect" /\ runner' = t /\ usbq # <<>>
    BY <1>28 DEF CollectCallBack, CallBack, InLoop, loop_vars, thread_vars
  <2>2. pc' = [pc EXCEPT !["collect"] = Head(usbq).event]
    BY <1>28 DEF CollectCallBack, CallBack, Moved
  <2>3. Head(usbq).event # "idle"
    <3>1. Head(usbq) \in [event : {"exists", "detach"}, dev : Handles]
      BY ONLY <1>0, <2>1, HeadTailProperties DEF Bus
    <3> QED
      BY ONLY <3>1
  <2> QED
    BY <1>0, <1>z, <2>1, <2>2, <2>3 DEF EventsLock, Calls
<1>29. ASSUME NEW t \in Threads, CollectFinish(t) PROVE EventsLock'
  BY <1>q, <1>29 DEF CollectFinish, loop_vars, thread_vars
<1>30. ASSUME NEW t \in Threads, StopAcquisition(t) PROVE EventsLock'
  BY <1>q, <1>30 DEF StopAcquisition, loop_vars, thread_vars
<1>31. ASSUME NEW t \in Threads, EndRun(t) PROVE EventsLock'
  <2>1. UNCHANGED <<events, hpc, runner, pc, di>> /\ runner # t
        /\ tpc' = [tpc EXCEPT ![t] = "end"]
    BY <1>31 DEF EndRun, InLoop, Goes, loop_vars
  <2> QED
    BY <1>0, <1>t, <2>1 DEF Collectors
<1>32. ASSUME NEW t \in Threads, ClearHandle(t) PROVE EventsLock'
  <2>1. UNCHANGED <<events, hpc, runner, pc, di>> /\ tpc[t] \in {"end", "end_error"}
        /\ \E next : tpc' = [tpc EXCEPT ![t] = next]
    BY <1>32 DEF ClearHandle, Goes, loop_vars
  <2> QED
    BY <1>0, <1>t, <2>1 DEF Collectors
<1>33. ASSUME NEW t \in Threads, TellEnd(t) PROVE EventsLock'
  <2>1. UNCHANGED <<events, hpc, runner, pc>> /\ tpc[t] \in {"tail", "tail_error"}
        /\ di' = [di EXCEPT ![t] = None] /\ tpc' = [tpc EXCEPT ![t] = "gone"]
    BY <1>33 DEF TellEnd, Goes, loop_vars
  <2> QED
    BY <1>0, <1>t, <2>1 DEF Collectors
<1>34. CASE UNCHANGED vars
  BY <1>q, <1>34 DEF vars, loop_vars, thread_vars
<1> QED
  BY <1>1, <1>2, <1>3, <1>4, <1>5, <1>6, <1>7, <1>8, <1>9, <1>10, <1>11, <1>12,
       <1>13, <1>14, <1>15, <1>16, <1>17, <1>18, <1>19, <1>20, <1>21, <1>22, <1>23,
       <1>24, <1>25, <1>26, <1>27, <1>28, <1>29, <1>30, <1>31, <1>32, <1>33, <1>34
     DEF Next, Gui, Hotplug, Call, Event, Collect

(* libusb calls back in one thread at a time; only the poll of the hotplug *)
(* thread, which needs no lock, may call the handler besides.  The collect *)
(* thread that is called back is in its loop: whatever stops, starts or is *)
(* unplugged meanwhile, it leaves neither before the handler returns.      *)
THEOREM OneThreadDispatches == Spec => []EventsLock
<1>1. Init => EventsLock
  BY DEF Init, EventsLock
<1>2. DeviceInv /\ EventsLock /\ [Next]_vars => EventsLock'
  BY StepEvents DEF DeviceInv
<1> QED
  BY <1>1, <1>2, DeviceInductive, PTL DEF Spec

(* The collect thread that ends its capture from a hotplug callback is the *)
(* one that is stored, so that it recognizes itself: it neither joins      *)
(* itself nor closes the device under its own transfers.                   *)
NeverItself ==
    /\ pc["collect"] = "release" => collect = runner
    /\ pc["collect"] \notin {"join", "close"}

LEMMA StepItself ==
  ASSUME TypeOK, CaptureInv, EventsLock, NeverItself, [Next]_vars
  PROVE  NeverItself'
<1>0. /\ Bus /\ Session /\ Collectors /\ Calls
      /\ OneCapture /\ WaitsForIt /\ EventsLock /\ NeverItself
  BY TypeParts DEF CaptureInv
<1>b. pc["collect"] # "idle" => runner \in Threads /\ tpc[runner] = "loop" /\ Busy(runner)
  BY <1>0 DEF EventsLock, Collectors, Busy
<1>q. ASSUME UNCHANGED <<collect, runner>>, pc' = pc PROVE NeverItself'
  BY <1>0, <1>q DEF NeverItself
<1>o. ASSUME UNCHANGED <<collect, runner>>, NEW u \in Callers \ {"collect"}, NEW x,
             pc' = [pc EXCEPT ![u] = x]
      PROVE  NeverItself'
  BY <1>0, <1>o DEF NeverItself, Calls
<1>n. ASSUME NEW u \in Callers, NEW x, pc' = [pc EXCEPT ![u] = x],
             x \notin {"release", "join", "close"}, pc["collect"] # "release" \/ UNCHANGED <<collect, runner>>
      PROVE  NeverItself'
  BY <1>0, <1>n DEF NeverItself, Calls
<1>g. "gui" \in Callers \ {"collect"} /\ "callback" \in Callers \ {"collect"}
      /\ "hotplug" \in Callers \ {"collect"} /\ "collect" \in Callers
  OBVIOUS
<1>1. ASSUME NEW h \in Handles, Plug(h) PROVE NeverItself'
  BY <1>q, <1>1 DEF Plug
<1>2. ASSUME NEW h \in Handles, Unplug(h) PROVE NeverItself'
  BY <1>q, <1>2 DEF Unplug
<1>3. ASSUME NEW h \in Instances, Activate(h) PROVE NeverItself'
  <2>1. UNCHANGED <<collect, runner>> /\ (pc' = pc \/ \E x : pc' = [pc EXCEPT !["gui"] = x])
    BY <1>3 DEF Activate
  <2> QED
    BY <1>q, <1>o, <1>g, <2>1
<1>4. ASSUME NEW t \in Threads, StartCollect(t) PROVE NeverItself'
  <2>1. UNCHANGED <<collect, runner>> /\ (pc' = pc \/ \E x : pc' = [pc EXCEPT !["gui"] = x])
    BY <1>4 DEF StartCollect
  <2> QED
    BY <1>q, <1>o, <1>g, <2>1
<1>5. ASSUME Assign PROVE NeverItself'
  <2>1. pc["gui"] = "assign" /\ pc' = [pc EXCEPT !["gui"] = "idle"] /\ runner' = runner
    BY <1>5 DEF Assign
  <2>2. pc["collect"] # "release"
    BY <1>0, <2>1 DEF OneCapture
  <2> QED
    BY <1>n, <1>g, <2>1, <2>2
<1>6. ASSUME GuiStop PROVE NeverItself'
  <2>1. UNCHANGED <<collect, runner>> /\ (pc' = pc \/ \E x : pc' = [pc EXCEPT !["gui"] = x])
    BY <1>6 DEF GuiStop, StopCapture, StopCollect
  <2> QED
    BY <1>q, <1>o, <1>g, <2>1
<1>7. ASSUME SetDevice PROVE NeverItself'
  <2>1. UNCHANGED <<collect, runner>> /\ (pc' = pc \/ \E x : pc' = [pc EXCEPT !["gui"] = x])
    BY <1>7 DEF SetDevice
  <2> QED
    BY <1>q, <1>o, <1>g, <2>1
<1>8. ASSUME TaskEnded PROVE NeverItself'
  BY <1>q, <1>8 DEF TaskEnded
<1>9. ASSUME CurrentDetached PROVE NeverItself'
  <2>1. UNCHANGED <<collect, runner>> /\ (pc' = pc \/ \E x : pc' = [pc EXCEPT !["callback"] = x])
    BY <1>9 DEF CurrentDetached, StopCapture, StopCollect
  <2> QED
    BY <1>q, <1>o, <1>g, <2>1
<1>10. ASSUME NEW w \in Callers, Release(w) PROVE NeverItself'
  <2>1. UNCHANGED <<collect, runner>> /\ pc[w] = "release"
    BY <1>10 DEF Release
  <2>2. CASE w = "collect"
    <3>1. collect = runner /\ collect # 0
      BY <1>0, <1>b, <2>1, <2>2, NotNull DEF NeverItself
    <3>2. pc' = [pc EXCEPT !["collect"] = "mark"]
      BY <1>10, <2>2, <3>1 DEF Release, Moved, AfterClose
    <3> QED
      BY <1>n, <1>g, <2>1, <3>2
  <2>3. CASE w # "collect"
    <3>1. \E x : pc' = [pc EXCEPT ![w] = x]
      BY <1>10 DEF Release, StopCollect, Moved
    <3> QED
      BY <1>o, <2>1, <2>3, <3>1
  <2> QED
    BY <2>2, <2>3
<1>11. ASSUME NEW w \in Callers, Join(w) PROVE NeverItself'
  <2>1. pc[w] = "join" /\ tpc[joined[w]] = "gone" /\ runner' = runner
        /\ \E x : pc' = [pc EXCEPT ![w] = x]
    BY <1>11 DEF Join, Moved
  <2>2. pc["collect"] = "idle"
    BY <1>0, <1>b, <2>1 DEF WaitsForIt
  <2>3. w # "collect"
    BY <2>1, <2>2
  <2> QED
    BY <1>0, <2>1, <2>2, <2>3 DEF NeverItself, Calls
<1>12. ASSUME NEW w \in Callers, CloseActive(w) PROVE NeverItself'
  <2>1. UNCHANGED <<collect, runner>> /\ \E x \in {"mark", "switch"} : pc' = [pc EXCEPT ![w] = x]
    BY <1>12 DEF CloseActive, Moved, AfterClose
  <2> QED
    BY <1>n, <2>1
<1>13. ASSUME NEW w \in Dispatchers, Exists(w) PROVE NeverItself'
  <2>1. collect' = collect /\ pc[w] = "exists" /\ (w = "hotplug" => runner' = runner)
    BY <1>13 DEF Exists, Return
  <2>2. \E x \in {"idle", "attach"} : pc' = [pc EXCEPT ![w] = x]
    BY <1>13 DEF Exists, Return, Moved
  <2> QED
    BY <1>n, <1>o, <2>1, <2>2
<1>14. ASSUME NEW w \in Dispatchers, Attach(w) PROVE NeverItself'
  <2>1. collect' = collect /\ pc[w] = "attach" /\ (w = "hotplug" => runner' = runner)
    BY <1>14 DEF Attach, Return
  <2>2. \E x \in {"idle"} : pc' = [pc EXCEPT ![w] = x]
    BY <1>14 DEF Attach, Return, Moved
  <2> QED
    BY <1>n, <1>o, <2>1, <2>2
<1>15. ASSUME NEW w \in Dispatchers, Detach(w) PROVE NeverItself'
  <2>1. collect' = collect /\ pc[w] = "detach"
    BY <1>15 DEF Detach
  <2>2. \/ pc' = [pc EXCEPT ![w] = "idle"]
        \/ runner' = runner /\ pc' = [pc EXCEPT ![w] = "mark"]
        \/ runner' = runner /\ collect # 0 /\ pc' = [pc EXCEPT ![w] = "release"]
    BY <1>15 DEF Detach, Return, Moved
  <2>3. w = "hotplug" => runner' = runner
    BY <1>15 DEF Detach, Return
  <2>4. w = "collect" /\ collect # 0 => collect = runner
    BY <1>0, <1>b, <2>1 DEF OneCapture
  <2> QED
    BY <1>0, <2>1, <2>2, <2>3, <2>4 DEF NeverItself, Calls
<1>16. ASSUME NEW w \in Dispatchers, Mark(w) PROVE NeverItself'
  <2>1. collect' = collect /\ pc[w] = "mark" /\ (w = "hotplug" => runner' = runner)
    BY <1>16 DEF Mark, Return
  <2>2. \E x \in {"idle"} : pc' = [pc EXCEPT ![w] = x]
    BY <1>16 DEF Mark, Return, Moved
  <2> QED
    BY <1>n, <1>o, <2>1, <2>2
<1>17. ASSUME HandleEvents PROVE NeverItself'
  BY <1>q, <1>17 DEF HandleEvents
<1>18. ASSUME HotplugCallBack PROVE NeverItself'
  <2>1. UNCHANGED <<collect, runner>> /\ (pc' = pc \/ \E x : pc' = [pc EXCEPT !["hotplug"] = x])
    BY <1>18 DEF HotplugCallBack, CallBack, Moved
  <2> QED
    BY <1>q, <1>o, <1>g, <2>1
<1>19. ASSUME NEW t \in Threads, HotplugFinish(t) PROVE NeverItself'
  BY <1>q, <1>19 DEF HotplugFinish
<1>20. ASSUME EventsHandled PROVE NeverItself'
  BY <1>q, <1>20 DEF EventsHandled
<1>21. ASSUME Poll PROVE NeverItself'
  <2>1. UNCHANGED <<collect, runner>> /\ (pc' = pc \/ \E x : pc' = [pc EXCEPT !["hotplug"] = x])
    BY <1>21 DEF Poll, Moved
  <2> QED
    BY <1>q, <1>o, <1>g, <2>1
<1>22. ASSUME Scan PROVE NeverItself'
  BY <1>q, <1>22 DEF Scan
<1>23. ASSUME AppendFound PROVE NeverItself'
  BY <1>q, <1>23 DEF AppendFound
<1>24. ASSUME ProcessDetach PROVE NeverItself'
  BY <1>q, <1>24 DEF ProcessDetach
<1>25. ASSUME EndOfTurn PROVE NeverItself'
  BY <1>q, <1>25 DEF EndOfTurn
<1>26. ASSUME NEW t \in Threads, Begin(t) PROVE NeverItself'
  BY <1>q, <1>26 DEF Begin
<1>27. ASSUME NEW t \in Threads, Run(t) PROVE NeverItself'
  BY <1>q, <1>27 DEF Run
<1>28. ASSUME NEW t \in Threads, CollectCallBack(t) PROVE NeverItself'
  <2>1. collect' = collect /\ runner' = t /\ events = "free" /\ usbq # <<>>
        /\ pc' = [pc EXCEPT !["collect"] = Head(usbq).event]
    BY <1>28 DEF CollectCallBack, CallBack, Moved
  <2>2. Head(usbq).event \in {"exists", "detach"}
    <3>1. Head(usbq) \in [event : {"exists", "detach"}, dev : Handles]
      BY ONLY <1>0, <2>1, HeadTailProperties DEF Bus
    <3> QED
      BY ONLY <3>1
  <2>3. pc["collect"] = "idle"
    BY <1>0, <2>1 DEF EventsLock
  <2> QED
    BY <1>n, <1>g, <2>1, <2>2, <2>3
<1>29. ASSUME NEW t \in Threads, CollectFinish(t) PROVE NeverItself'
  BY <1>q, <1>29 DEF CollectFinish
<1>30. ASSUME NEW t \in Threads, StopAcquisition(t) PROVE NeverItself'
  BY <1>q, <1>30 DEF StopAcquisition
<1>31. ASSUME NEW t \in Threads, EndRun(t) PROVE NeverItself'
  BY <1>q, <1>31 DEF EndRun
<1>32. ASSUME NEW t \in Threads, ClearHandle(t) PROVE NeverItself'
  <2>1. UNCHANGED <<pc, runner>> /\ tpc[t] \in {"end", "end_error"}
    BY <1>32 DEF ClearHandle, Goes
  <2>2. pc["collect"] # "release"
    <3> SUFFICES ASSUME pc["collect"] = "release" PROVE FALSE
      OBVIOUS
    <3>1. collect = runner /\ collect # 0 /\ tpc[runner] = "loop"
      BY <1>0, <1>b, NotNull DEF NeverItself
    <3>2. pc["gui"] # "assign"
      BY <1>0, <3>1 DEF OneCapture
    <3> QED
      BY <1>0, <2>1, <3>1, <3>2 DEF OneCapture, Busy
  <2> QED
    BY <1>0, <2>1, <2>2 DEF NeverItself
<1>33. ASSUME NEW t \in Threads, TellEnd(t) PROVE NeverItself'
  BY <1>q, <1>33 DEF TellEnd
<1>34. CASE UNCHANGED vars
  BY <1>q, <1>34 DEF vars
<1> QED
  BY <1>1, <1>2, <1>3, <1>4, <1>5, <1>6, <1>7, <1>8, <1>9, <1>10, <1>11, <1>12,
       <1>13, <1>14, <1>15, <1>16, <1>17, <1>18, <1>19, <1>20, <1>21, <1>22, <1>23,
       <1>24, <1>25, <1>26, <1>27, <1>28, <1>29, <1>30, <1>31, <1>32, <1>33, <1>34
     DEF Next, Gui, Hotplug, Call, Event, Collect

(* Until a capture is started before another thread has ended the one      *)
(* before: a collect thread that is told of the end of its device, or ends *)
(* the capture while libusb calls it back, never joins itself and never    *)
(* closes the device from within (the two comparisons with g_thread_self   *)
(* in ds_stop_collect and ds_release_actived_device).                      *)
THEOREM NeverJoinsItself == Spec => [](early \/ NeverItself)
<1>1. Init => NeverItself
  BY DEF Init, NeverItself
<1>2. DeviceInv /\ (early \/ CaptureInv) /\ EventsLock /\ (early \/ NeverItself) /\ [Next]_vars
      => (early \/ NeverItself)'
  <2> SUFFICES ASSUME DeviceInv, early \/ CaptureInv, EventsLock, early \/ NeverItself,
                      [Next]_vars, ~early'
               PROVE  NeverItself'
    OBVIOUS
  <2> QED
    BY EarlyStays, StepItself DEF DeviceInv
<1> QED
  BY <1>1, <1>2, DeviceInductive, CaptureInductive, OneThreadDispatches, PTL DEF Spec

=============================================================================
