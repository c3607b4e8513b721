--------------------------- MODULE DecodeTasks_proof ---------------------------
(***************************************************************************)
(* Proofs about DecodeTasks, for any number of decoders, any capture and   *)
(* any number of user actions.                                             *)
(*                                                                         *)
(* The argument is about who may still take a task off the count: while    *)
(* all tasks are being stopped none is active; otherwise an active task    *)
(* has a trace or is the one being removed, and each way of starting a     *)
(* task starts one that is not active and whose thread has been joined.    *)
(***************************************************************************)
EXTENDS DecodeTasks, FiniteSetTheorems, TLAPS

-----------------------------------------------------------------------------
(* Types, in parts the provers can handle.                                 *)

Controls ==
    /\ gui \in {"idle", "stop", "join"}
    /\ job \in {"none", "remove", "reset", "clear", "start", "end", "refresh"}
    /\ todo \subseteq Tasks /\ joining \in Tasks
    /\ traces \subseteq Tasks /\ fresh \subseteq Tasks
    /\ running \in Int
    /\ uses \in 0 .. MAX_USES

Queue == inbox \in Seq({Ended, Failed} \cup Tasks)

Capture == stream \in BOOLEAN /\ collect \in BOOLEAN /\ count \in 0 .. LIMIT

Flags ==
    /\ active \in [Tasks -> BOOLEAN] /\ connected \in [Tasks -> BOOLEAN]
    /\ cap_end \in [Tasks -> BOOLEAN] /\ stop \in [Tasks -> BOOLEAN]

Points == {"none", "begin", "lock", "enter", "loop", "fetch", "exit", "emit", "ended", "crashed"}

Threads ==
    /\ thread \in [Tasks -> Points]
    /\ mutex \in SUBSET Tasks
    /\ stolen \subseteq Tasks

Loops ==
    /\ pos \in [Tasks -> 0 .. LIMIT] /\ end \in [Tasks -> 0 .. LIMIT - 1]
    /\ checked \in [Tasks -> BOOLEAN]

LEMMA TypeParts == TypeOK <=> Controls /\ Queue /\ Capture /\ Flags /\ Threads /\ Loops
  BY DEF TypeOK, Controls, Queue, Capture, Flags, Threads, Points, Loops

\* a set of tasks is finite, and its size a number
LEMMA TasksCount ==
  ASSUME NEW S \in SUBSET Tasks
  PROVE  IsFiniteSet(S) /\ Cardinality(S) \in Nat
  BY TasksAssumption, FS_Subset, FS_CardinalityType DEF TasksAssumption

\* the end of a block is a number
LEMMA BlockEndType ==
  ASSUME NEW t \in Tasks, Loops, Capture
  PROVE  ChunkEnd(t) \in Nat
<1>1. pos[t] \in Nat /\ BLOCK \in Nat \ {0} /\ count \in Nat
  BY TasksAssumption DEF TasksAssumption, Loops, Capture
<1>2. pos[t] \div BLOCK \in Nat
  BY <1>1
<1> DEFINE q == pos[t] \div BLOCK + 1
<1>3. q \in Nat
  BY <1>2
<1> HIDE DEF q
<1>4. q * BLOCK \in Nat
  BY <1>1, <1>3
<1> QED
  BY <1>1, <1>4 DEF ChunkEnd, q

LEMMA InitTypes == Init => TypeOK
<1> SUFFICES ASSUME Init PROVE TypeOK
  OBVIOUS
<1>a. LIMIT \in Nat \ {0} /\ MAX_USES \in Nat
  BY TasksAssumption DEF TasksAssumption
<1>b. /\ stream = FALSE /\ collect = FALSE /\ count = 0
      /\ pos = [t \in Tasks |-> 0] /\ end = [t \in Tasks |-> 0]
      /\ checked = [t \in Tasks |-> FALSE]
  BY DEF Init
<1>c. 0 \in 0 .. LIMIT /\ 0 \in 0 .. LIMIT - 1
  BY <1>a
<1>1. Controls
  BY <1>a DEF Init, Controls
<1>2. Queue
  BY <1>a DEF Init, Queue
<1>3. Capture
  BY <1>b, <1>c DEF Capture
<1>4. Flags
  BY <1>a DEF Init, Flags
<1>5. Threads
  BY <1>a DEF Init, Threads, Points
<1>6. Loops
  BY <1>b, <1>c DEF Loops
<1> QED
  BY <1>1, <1>2, <1>3, <1>4, <1>5, <1>6, TypeParts

LEMMA StepTypes == TypeOK /\ [Next]_vars => TypeOK'
<1> SUFFICES ASSUME TypeOK, [Next]_vars PROVE TypeOK'
  OBVIOUS
<1>0. Controls /\ Queue /\ Capture /\ Flags /\ Threads /\ Loops
  BY TypeParts
<1>a. ASSUME Controls', Queue', Capture', Flags', Threads', Loops' PROVE TypeOK'
  BY <1>a, TypeParts DEF TypeOK, Controls, Queue, Capture, Flags, Threads, Points, Loops
<1>b. /\ LIMIT \in Nat \ {0} /\ MAX_USES \in Nat /\ PACKETS \subseteq Nat /\ BLOCK \in Nat \ {0}
      /\ STREAM_MODES \subseteq BOOLEAN /\ Plugins \subseteq Tasks
  BY TasksAssumption DEF TasksAssumption
<1> USE <1>0, <1>b DEF Controls, Queue, Capture, Flags, Threads, Points,
        Loops, gui_vars, capture_vars, task_vars, loop_vars
<1>1. CASE RemoveDecoder
  <2>1. Controls'
    BY <1>1 DEF RemoveDecoder, StopOne, User
  <2>2. Queue'
    BY <1>1 DEF RemoveDecoder, StopOne, User
  <2>3. Capture'
    BY <1>1 DEF RemoveDecoder, StopOne, User
  <2>4. Flags'
    BY <1>1 DEF RemoveDecoder, StopOne, User
  <2>5. Threads'
    BY <1>1 DEF RemoveDecoder, StopOne, User
  <2>6. Loops'
    BY <1>1 DEF RemoveDecoder, StopOne, User
  <2> QED
    BY ONLY <1>a, <2>1, <2>2, <2>3, <2>4, <2>5, <2>6
<1>2. CASE ResetDecoder
  <2>1. Controls'
    BY <1>2 DEF ResetDecoder, StopOne, User
  <2>2. Queue'
    BY <1>2 DEF ResetDecoder, StopOne, User
  <2>3. Capture'
    BY <1>2 DEF ResetDecoder, StopOne, User
  <2>4. Flags'
    BY <1>2 DEF ResetDecoder, StopOne, User
  <2>5. Threads'
    BY <1>2 DEF ResetDecoder, StopOne, User
  <2>6. Loops'
    BY <1>2 DEF ResetDecoder, StopOne, User
  <2> QED
    BY ONLY <1>a, <2>1, <2>2, <2>3, <2>4, <2>5, <2>6
<1>3. CASE AddDecoder
  <2>1. Controls'
    BY <1>3, TasksCount DEF AddDecoder, AddTasks, Set, User
  <2>2. Queue'
    BY <1>3 DEF AddDecoder, AddTasks, Set, User
  <2>3. Capture'
    BY <1>3 DEF AddDecoder, AddTasks, Set, User
  <2>4. Flags'
    <3>1. PICK t \in Tasks : AddTasks({t}, running)
      BY <1>3 DEF AddDecoder
    <3>2. cap_end' = cap_end /\ stop' = stop
      BY <1>3 DEF AddDecoder
    <3> QED
      BY <3>1, <3>2 DEF AddTasks, Set
  <2>5. Threads'
    BY <1>3 DEF AddDecoder, AddTasks, Set, User
  <2>6. Loops'
    BY <1>3 DEF AddDecoder, AddTasks, Set, User
  <2> QED
    BY ONLY <1>a, <2>1, <2>2, <2>3, <2>4, <2>5, <2>6
<1>4. CASE ClearDecoders
  <2>1. Controls'
    BY <1>4 DEF ClearDecoders, StopAll, Set, User
  <2>2. Queue'
    BY <1>4 DEF ClearDecoders, StopAll, Set, User
  <2>3. Capture'
    BY <1>4 DEF ClearDecoders, StopAll, Set, User
  <2>4. Flags'
    BY <1>4 DEF ClearDecoders, StopAll, Set, User
  <2>5. Threads'
    BY <1>4 DEF ClearDecoders, StopAll, Set, User
  <2>6. Loops'
    BY <1>4 DEF ClearDecoders, StopAll, Set, User
  <2> QED
    BY ONLY <1>a, <2>1, <2>2, <2>3, <2>4, <2>5, <2>6
<1>5. CASE StartCapture
  <2>1. Controls'
    BY <1>5 DEF StartCapture, StopAll, Set, User
  <2>2. Queue'
    BY <1>5 DEF StartCapture, StopAll, Set, User
  <2>3. Capture'
    BY <1>5 DEF StartCapture, StopAll, Set, User
  <2>4. Flags'
    BY <1>5 DEF StartCapture, StopAll, Set, User
  <2>5. Threads'
    BY <1>5 DEF StartCapture, StopAll, Set, User
  <2>6. Loops'
    BY <1>5 DEF StartCapture, StopAll, Set, User
  <2> QED
    BY ONLY <1>a, <2>1, <2>2, <2>3, <2>4, <2>5, <2>6
<1>6. CASE EndLive
  <2>1. Controls'
    BY <1>6 DEF EndLive, NextEvent, Set
  <2>2. Queue'
    BY <1>6 DEF EndLive, NextEvent, Set
  <2>3. Capture'
    BY <1>6 DEF EndLive, NextEvent, Set
  <2>4. Flags'
    BY <1>6 DEF EndLive, NextEvent, Set
  <2>5. Threads'
    BY <1>6 DEF EndLive, NextEvent, Set
  <2>6. Loops'
    BY <1>6 DEF EndLive, NextEvent, Set
  <2> QED
    BY ONLY <1>a, <2>1, <2>2, <2>3, <2>4, <2>5, <2>6
<1>7. CASE EndBuffered
  <2>1. Controls'
    BY <1>7 DEF EndBuffered, NextEvent, StopAll, Set
  <2>2. Queue'
    BY <1>7 DEF EndBuffered, NextEvent, StopAll, Set
  <2>3. Capture'
    BY <1>7 DEF EndBuffered, NextEvent, StopAll, Set
  <2>4. Flags'
    BY <1>7 DEF EndBuffered, NextEvent, StopAll, Set
  <2>5. Threads'
    BY <1>7 DEF EndBuffered, NextEvent, StopAll, Set
  <2>6. Loops'
    BY <1>7 DEF EndBuffered, NextEvent, StopAll, Set
  <2> QED
    BY ONLY <1>a, <2>1, <2>2, <2>3, <2>4, <2>5, <2>6
<1>8. CASE Refresh
  <2>1. Controls'
    BY <1>8 DEF Refresh, NextEvent, StopAll, Set
  <2>2. Queue'
    BY <1>8 DEF Refresh, NextEvent, StopAll, Set
  <2>3. Capture'
    BY <1>8 DEF Refresh, NextEvent, StopAll, Set
  <2>4. Flags'
    BY <1>8 DEF Refresh, NextEvent, StopAll, Set
  <2>5. Threads'
    BY <1>8 DEF Refresh, NextEvent, StopAll, Set
  <2>6. Loops'
    BY <1>8 DEF Refresh, NextEvent, StopAll, Set
  <2> QED
    BY ONLY <1>a, <2>1, <2>2, <2>3, <2>4, <2>5, <2>6
<1>9. CASE DecodeDone
  <2>1. Controls'
    BY <1>9 DEF DecodeDone, NextEvent
  <2>2. Queue'
    BY <1>9 DEF DecodeDone, NextEvent
  <2>3. Capture'
    BY <1>9 DEF DecodeDone, NextEvent
  <2>4. Flags'
    BY <1>9 DEF DecodeDone, NextEvent
  <2>5. Threads'
    BY <1>9 DEF DecodeDone, NextEvent
  <2>6. Loops'
    BY <1>9 DEF DecodeDone, NextEvent
  <2> QED
    BY ONLY <1>a, <2>1, <2>2, <2>3, <2>4, <2>5, <2>6
<1>10. CASE StopTask
  <2>1. Controls'
    BY <1>10 DEF StopTask
  <2>2. Queue'
    BY <1>10 DEF StopTask
  <2>3. Capture'
    BY <1>10 DEF StopTask
  <2>4. Flags'
    BY <1>10 DEF StopTask
  <2>5. Threads'
    BY <1>10 DEF StopTask
  <2>6. Loops'
    BY <1>10 DEF StopTask
  <2> QED
    BY ONLY <1>a, <2>1, <2>2, <2>3, <2>4, <2>5, <2>6
<1>11. CASE Join
  <2>1. Controls'
    BY <1>11 DEF Join, Joinable
  <2>2. Queue'
    BY <1>11 DEF Join, Joinable
  <2>3. Capture'
    BY <1>11 DEF Join, Joinable
  <2>4. Flags'
    BY <1>11 DEF Join, Joinable
  <2>5. Threads'
    BY <1>11 DEF Join, Joinable
  <2>6. Loops'
    BY <1>11 DEF Join, Joinable
  <2> QED
    BY ONLY <1>a, <2>1, <2>2, <2>3, <2>4, <2>5, <2>6
<1>12. CASE EndRemove
  <2>1. Controls'
    BY <1>12 DEF EndRemove, Stopped, Claimed
  <2>2. Queue'
    BY <1>12 DEF EndRemove, Stopped, Claimed
  <2>3. Capture'
    BY <1>12 DEF EndRemove, Stopped, Claimed
  <2>4. Flags'
    BY <1>12 DEF EndRemove, Stopped, Claimed
  <2>5. Threads'
    BY <1>12 DEF EndRemove, Stopped, Claimed
  <2>6. Loops'
    BY <1>12 DEF EndRemove, Stopped, Claimed
  <2> QED
    BY ONLY <1>a, <2>1, <2>2, <2>3, <2>4, <2>5, <2>6
<1>13. CASE EndReset
  <2>1. Controls'
    BY <1>13, TasksCount DEF EndReset, Stopped, Claimed, AddTasks, Set
  <2>2. Queue'
    BY <1>13 DEF EndReset, Stopped, Claimed, AddTasks, Set
  <2>3. Capture'
    BY <1>13 DEF EndReset, Stopped, Claimed, AddTasks, Set
  <2>4. Flags'
    BY <1>13 DEF EndReset, Stopped, Claimed, AddTasks, Set
  <2>5. Threads'
    BY <1>13 DEF EndReset, Stopped, Claimed, AddTasks, Set
  <2>6. Loops'
    BY <1>13 DEF EndReset, Stopped, Claimed, AddTasks, Set
  <2> QED
    BY ONLY <1>a, <2>1, <2>2, <2>3, <2>4, <2>5, <2>6
<1>14. CASE EndClear
  <2>1. Controls'
    BY <1>14 DEF EndClear, Stopped
  <2>2. Queue'
    BY <1>14 DEF EndClear, Stopped
  <2>3. Capture'
    BY <1>14 DEF EndClear, Stopped
  <2>4. Flags'
    BY <1>14 DEF EndClear, Stopped
  <2>5. Threads'
    BY <1>14 DEF EndClear, Stopped
  <2>6. Loops'
    BY <1>14 DEF EndClear, Stopped
  <2> QED
    BY ONLY <1>a, <2>1, <2>2, <2>3, <2>4, <2>5, <2>6
<1>15. CASE EndRefresh
  <2>1. Controls'
    BY <1>15 DEF EndRefresh, Stopped
  <2>2. Queue'
    BY <1>15 DEF EndRefresh, Stopped
  <2>3. Capture'
    BY <1>15 DEF EndRefresh, Stopped
  <2>4. Flags'
    BY <1>15 DEF EndRefresh, Stopped
  <2>5. Threads'
    BY <1>15 DEF EndRefresh, Stopped
  <2>6. Loops'
    BY <1>15 DEF EndRefresh, Stopped
  <2> QED
    BY ONLY <1>a, <2>1, <2>2, <2>3, <2>4, <2>5, <2>6
<1>16. CASE EndStart
  <2>1. Controls'
    <3>1. Cardinality(traces) \in Nat
      BY TasksCount
    <3>2. running' = Cardinality(traces) \/ running' = 0
      <4>1. CASE stream'
        <5>1. AddTasks(traces, 0)
          BY <4>1, <1>16 DEF EndStart
        <5> QED
          BY <5>1, <3>1 DEF AddTasks
      <4>2. CASE ~stream'
        BY <4>2, <1>16 DEF EndStart
      <4> QED
        BY <4>1, <4>2
    <3> QED
      BY <3>1, <3>2, <1>16 DEF EndStart, Stopped
  <2>2. Queue'
    BY <1>16 DEF EndStart, Stopped, AddTasks, Set
  <2>3. Capture'
    BY <1>16 DEF EndStart, Stopped, AddTasks, Set
  <2>4. Flags'
    BY <1>16 DEF EndStart, Stopped, AddTasks, Set
  <2>5. Threads'
    BY <1>16 DEF EndStart, Stopped, AddTasks, Set
  <2>6. Loops'
    BY <1>16 DEF EndStart, Stopped, AddTasks, Set
  <2> QED
    BY ONLY <1>a, <2>1, <2>2, <2>3, <2>4, <2>5, <2>6
<1>17. CASE EndEnd
  <2>1. Controls'
    BY <1>17, TasksCount DEF EndEnd, Stopped, AddTasks, Set
  <2>2. Queue'
    BY <1>17 DEF EndEnd, Stopped, AddTasks, Set
  <2>3. Capture'
    BY <1>17 DEF EndEnd, Stopped, AddTasks, Set
  <2>4. Flags'
    BY <1>17 DEF EndEnd, Stopped, AddTasks, Set
  <2>5. Threads'
    BY <1>17 DEF EndEnd, Stopped, AddTasks, Set
  <2>6. Loops'
    BY <1>17 DEF EndEnd, Stopped, AddTasks, Set
  <2> QED
    BY ONLY <1>a, <2>1, <2>2, <2>3, <2>4, <2>5, <2>6
<1>18. CASE Packet
  <2>1. Controls'
    BY <1>18 DEF Packet
  <2>2. Queue'
    BY <1>18 DEF Packet
  <2>3. Capture'
    BY <1>18 DEF Packet
  <2>4. Flags'
    BY <1>18 DEF Packet
  <2>5. Threads'
    BY <1>18 DEF Packet
  <2>6. Loops'
    BY <1>18 DEF Packet
  <2> QED
    BY ONLY <1>a, <2>1, <2>2, <2>3, <2>4, <2>5, <2>6
<1>19. CASE CaptureEnd
  <2>1. Controls'
    BY <1>19 DEF CaptureEnd
  <2>2. Queue'
    BY <1>19 DEF CaptureEnd
  <2>3. Capture'
    BY <1>19 DEF CaptureEnd
  <2>4. Flags'
    BY <1>19 DEF CaptureEnd
  <2>5. Threads'
    BY <1>19 DEF CaptureEnd
  <2>6. Loops'
    BY <1>19 DEF CaptureEnd
  <2> QED
    BY ONLY <1>a, <2>1, <2>2, <2>3, <2>4, <2>5, <2>6
<1>20. ASSUME NEW t \in Tasks, Begin(t) PROVE TypeOK'
  <2>1. Controls'
    BY <1>20 DEF Begin, Go
  <2>2. Queue'
    BY <1>20 DEF Begin, Go
  <2>3. Capture'
    BY <1>20 DEF Begin, Go
  <2>4. Flags'
    BY <1>20 DEF Begin, Go
  <2>5. Threads'
    BY <1>20 DEF Begin, Go
  <2>6. Loops'
    BY <1>20 DEF Begin, Go
  <2> QED
    BY ONLY <1>a, <2>1, <2>2, <2>3, <2>4, <2>5, <2>6
<1>21. ASSUME NEW t \in Tasks, Lock(t) PROVE TypeOK'
  <2>1. Controls'
    BY <1>21 DEF Lock, Go
  <2>2. Queue'
    BY <1>21 DEF Lock, Go
  <2>3. Capture'
    BY <1>21 DEF Lock, Go
  <2>4. Flags'
    BY <1>21 DEF Lock, Go
  <2>5. Threads'
    BY <1>21 DEF Lock, Go
  <2>6. Loops'
    BY <1>21 DEF Lock, Go
  <2> QED
    BY ONLY <1>a, <2>1, <2>2, <2>3, <2>4, <2>5, <2>6
<1>22. ASSUME NEW t \in Tasks, Enter(t) PROVE TypeOK'
  <2>1. Controls'
    BY <1>22 DEF Enter, Go, FirstEnd
  <2>2. Queue'
    BY <1>22 DEF Enter, Go, FirstEnd
  <2>3. Capture'
    BY <1>22 DEF Enter, Go, FirstEnd
  <2>4. Flags'
    BY <1>22 DEF Enter, Go, FirstEnd
  <2>5. Threads'
    BY <1>22 DEF Enter, Go, FirstEnd
  <2>6. Loops'
    BY <1>22 DEF Enter, Go, FirstEnd
  <2> QED
    BY ONLY <1>a, <2>1, <2>2, <2>3, <2>4, <2>5, <2>6
<1>23. ASSUME NEW t \in Tasks, LoopEnds(t) PROVE TypeOK'
  <2>1. Controls'
    BY <1>23 DEF LoopEnds, Go
  <2>2. Queue'
    BY <1>23 DEF LoopEnds, Go
  <2>3. Capture'
    BY <1>23 DEF LoopEnds, Go
  <2>4. Flags'
    BY <1>23 DEF LoopEnds, Go
  <2>5. Threads'
    BY <1>23 DEF LoopEnds, Go
  <2>6. Loops'
    BY <1>23 DEF LoopEnds, Go
  <2> QED
    BY ONLY <1>a, <2>1, <2>2, <2>3, <2>4, <2>5, <2>6
<1>24. ASSUME NEW t \in Tasks, Poll(t) PROVE TypeOK'
  <2>1. Controls'
    BY <1>24 DEF Poll, Go
  <2>2. Queue'
    BY <1>24 DEF Poll, Go
  <2>3. Capture'
    BY <1>24 DEF Poll, Go
  <2>4. Flags'
    BY <1>24 DEF Poll, Go
  <2>5. Threads'
    BY <1>24 DEF Poll, Go
  <2>6. Loops'
    BY <1>24 DEF Poll, Go
  <2> QED
    BY ONLY <1>a, <2>1, <2>2, <2>3, <2>4, <2>5, <2>6
<1>25. ASSUME NEW t \in Tasks, CheckEnd(t) PROVE TypeOK'
  <2>1. Controls'
    BY <1>25 DEF CheckEnd, Go
  <2>2. Queue'
    BY <1>25 DEF CheckEnd, Go
  <2>3. Capture'
    BY <1>25 DEF CheckEnd, Go
  <2>4. Flags'
    BY <1>25 DEF CheckEnd, Go
  <2>5. Threads'
    BY <1>25 DEF CheckEnd, Go
  <2>6. Loops'
    BY <1>25 DEF CheckEnd, Go
  <2> QED
    BY ONLY <1>a, <2>1, <2>2, <2>3, <2>4, <2>5, <2>6
<1>26. ASSUME NEW t \in Tasks, Proceed(t) PROVE TypeOK'
  <2>1. Controls'
    BY <1>26 DEF Proceed, Go
  <2>2. Queue'
    BY <1>26 DEF Proceed, Go
  <2>3. Capture'
    BY <1>26 DEF Proceed, Go
  <2>4. Flags'
    BY <1>26 DEF Proceed, Go
  <2>5. Threads'
    BY <1>26 DEF Proceed, Go
  <2>6. Loops'
    BY <1>26 DEF Proceed, Go
  <2> QED
    BY ONLY <1>a, <2>1, <2>2, <2>3, <2>4, <2>5, <2>6
<1>27. ASSUME NEW t \in Tasks, FetchFails(t) PROVE TypeOK'
  <2>1. Controls'
    BY <1>27 DEF FetchFails, Go
  <2>2. Queue'
    BY <1>27 DEF FetchFails, Go
  <2>3. Capture'
    BY <1>27 DEF FetchFails, Go
  <2>4. Flags'
    BY <1>27 DEF FetchFails, Go
  <2>5. Threads'
    BY <1>27 DEF FetchFails, Go
  <2>6. Loops'
    BY <1>27 DEF FetchFails, Go
  <2> QED
    BY ONLY <1>a, <2>1, <2>2, <2>3, <2>4, <2>5, <2>6
<1>28. ASSUME NEW t \in Tasks, FetchPython(t) PROVE TypeOK'
  <2>1. Controls'
    BY <1>28 DEF FetchPython, Go
  <2>2. Queue'
    BY <1>28 DEF FetchPython, Go
  <2>3. Capture'
    BY <1>28 DEF FetchPython, Go
  <2>4. Flags'
    BY <1>28 DEF FetchPython, Go
  <2>5. Threads'
    BY <1>28 DEF FetchPython, Go
  <2>6. Loops'
    <3>0. ChunkEnd(t) \in Nat
      BY ONLY <1>0, <1>28, BlockEndType
    <3>1. ChunkEnd(t) \in Nat /\ LIMIT \in Nat /\ pos[t] \in Nat /\ end[t] \in 0 .. LIMIT - 1
      BY <3>0
    <3>2. pos'[t] \in 0 .. LIMIT /\ \E n \in Int : pos' = [pos EXCEPT ![t] = n]
      BY <3>1, <1>28 DEF FetchPython
    <3> QED
      BY <3>2, <1>28 DEF FetchPython
  <2> QED
    BY ONLY <1>a, <2>1, <2>2, <2>3, <2>4, <2>5, <2>6
<1>29. ASSUME NEW t \in Tasks, FetchPlugin(t) PROVE TypeOK'
  <2>1. Controls'
    BY <1>29 DEF FetchPlugin, Go
  <2>2. Queue'
    BY <1>29 DEF FetchPlugin, Go
  <2>3. Capture'
    BY <1>29 DEF FetchPlugin, Go
  <2>4. Flags'
    BY <1>29 DEF FetchPlugin, Go
  <2>5. Threads'
    BY <1>29 DEF FetchPlugin, Go
  <2>6. Loops'
    <3>0. ChunkEnd(t) \in Nat
      BY ONLY <1>0, <1>29, BlockEndType
    <3>1. ChunkEnd(t) \in Nat /\ LIMIT \in Nat /\ pos[t] \in Nat /\ end[t] \in 0 .. LIMIT - 1
      BY <3>0
    <3> DEFINE last == IF ChunkEnd(t) > end[t] THEN end[t] ELSE ChunkEnd(t)
    <3>a. last \in 0 .. LIMIT - 1
      BY <3>1
    <3>b. pos' = [pos EXCEPT ![t] = last + 1]
      BY <1>29 DEF FetchPlugin
    <3> HIDE DEF last
    <3>c. last + 1 \in 0 .. LIMIT
      BY <3>1, <3>a
    <3>2. pos' \in [Tasks -> 0 .. LIMIT]
      BY <3>b, <3>c
    <3> QED
      BY <3>2, <1>29 DEF FetchPlugin
  <2> QED
    BY ONLY <1>a, <2>1, <2>2, <2>3, <2>4, <2>5, <2>6
<1>30. ASSUME NEW t \in Tasks, FetchNull(t) PROVE TypeOK'
  <2>1. Controls'
    BY <1>30 DEF FetchNull, Go
  <2>2. Queue'
    BY <1>30 DEF FetchNull, Go
  <2>3. Capture'
    BY <1>30 DEF FetchNull, Go
  <2>4. Flags'
    BY <1>30 DEF FetchNull, Go
  <2>5. Threads'
    BY <1>30 DEF FetchNull, Go
  <2>6. Loops'
    <3>1. ChunkEnd(t) \in Nat
      BY ONLY <1>0, <1>30, BlockEndType
    <3>2. end[t] + 1 \in 0 .. LIMIT
      OBVIOUS
    <3>3. pos' \in [Tasks -> 0 .. LIMIT]
      BY <3>2, <1>30 DEF FetchNull
    <3> QED
      BY <3>3, <1>30 DEF FetchNull
  <2> QED
    BY ONLY <1>a, <2>1, <2>2, <2>3, <2>4, <2>5, <2>6
<1>31. ASSUME NEW t \in Tasks, Exit(t) PROVE TypeOK'
  <2>1. Controls'
    BY <1>31 DEF Exit, Go
  <2>2. Queue'
    BY <1>31 DEF Exit, Go
  <2>3. Capture'
    BY <1>31 DEF Exit, Go
  <2>4. Flags'
    BY <1>31 DEF Exit, Go
  <2>5. Threads'
    BY <1>31 DEF Exit, Go
  <2>6. Loops'
    BY <1>31 DEF Exit, Go
  <2> QED
    BY ONLY <1>a, <2>1, <2>2, <2>3, <2>4, <2>5, <2>6
<1>32. ASSUME NEW t \in Tasks, Emit(t) PROVE TypeOK'
  <2>1. Controls'
    BY <1>32 DEF Emit, Go
  <2>2. Queue'
    BY <1>32 DEF Emit, Go
  <2>3. Capture'
    BY <1>32 DEF Emit, Go
  <2>4. Flags'
    BY <1>32 DEF Emit, Go
  <2>5. Threads'
    BY <1>32 DEF Emit, Go
  <2>6. Loops'
    BY <1>32 DEF Emit, Go
  <2> QED
    BY ONLY <1>a, <2>1, <2>2, <2>3, <2>4, <2>5, <2>6
<1>33. CASE UNCHANGED vars
  BY <1>33 DEF vars, TypeOK
<1> QED
  BY <1>1, <1>2, <1>3, <1>4, <1>5, <1>6, <1>7, <1>8, <1>9, <1>10, <1>11, <1>12, <1>13, <1>14, <1>15, <1>16, <1>17, <1>18, <1>19, <1>20, <1>21, <1>22, <1>23, <1>24, <1>25, <1>26, <1>27, <1>28, <1>29, <1>30, <1>31, <1>32, <1>33
     DEF Next, UserAction, GuiStep, Collect, Task

\* Every variable keeps to its values: the program counters of the GUI thread
\* and of the decoder threads, and positions within the capture.
THEOREM TypeCorrect == Spec => []TypeOK
  BY InitTypes, StepTypes, PTL DEF Spec

-----------------------------------------------------------------------------
(* The inductive invariant.                                                *)

\* the task that is taken off or started afresh
Target == IF job \in {"remove", "reset"} THEN IF todo # {} THEN todo ELSE {joining} ELSE {}

Removed == IF job = "remove" THEN Target ELSE {}

Jobs ==
    /\ gui = "idle" <=> job = "none"
    /\ job \in {"remove", "reset"} /\ todo # {} => gui = "stop" /\ \E t \in Tasks : todo = {t}
    /\ job = "reset" => Target \subseteq traces
    /\ fresh \cap (traces \cup Removed) = {}

\* an active task has somebody who takes it off the count
Owned ==
    /\ \A t \in Tasks : active[t] => t \in traces \cup Removed
    /\ Clearing => \A t \in Tasks : ~active[t]

\* a thread that has been joined is gone
Gone ==
    /\ \A t \in Tasks : thread[t] # "none" => t \in traces \cup Removed
    /\ Clearing => \A t \in Tasks \ todo :
                      (gui = "join" /\ t = joining) \/ thread[t] = "none"
    /\ job \in {"remove", "reset"} /\ gui = "stop" /\ todo = {} => thread[joining] = "none"

\* a task that is counted is heard when it ends
Connected == \A t \in Tasks : active[t] => connected[t] \/ t \in Target

\* a thread told to stop has somebody who waits for it
Working == {"lock", "enter", "loop", "fetch", "exit"}

Awaited == \A t \in Tasks : stop[t] /\ thread[t] \in Working => gui = "join" /\ t = joining

\* a counted task that has ended has left its event
Queued(t) == \E i \in DOMAIN inbox : inbox[i] = t

Heard == \A t \in Tasks : active[t] /\ thread[t] \in Joinable => t \in Target \/ Queued(t)

IInv == /\ TypeOK /\ Jobs /\ Owned /\ Gone /\ Connected /\ Awaited /\ Heard
        /\ CountIsActive /\ CountedWhileRunning

LEMMA InitInv == Init => IInv
<1> SUFFICES ASSUME Init PROVE IInv
  OBVIOUS
<1>1. TypeOK
  BY InitTypes
<1>2. Jobs /\ Owned /\ Gone /\ Connected /\ Awaited /\ Heard /\ CountedWhileRunning
  BY DEF Init, Jobs, Owned, Gone, Connected, Awaited, Heard, CountedWhileRunning, Target, Removed,
         Clearing, Working, Joinable
<1>3. CountIsActive
  <2>1. {t \in Tasks : active[t]} = {} /\ running = 0
    BY DEF Init
  <2> QED
    BY <2>1, FS_EmptySet DEF CountIsActive
<1> QED
  BY <1>1, <1>2, <1>3 DEF IInv

-----------------------------------------------------------------------------
(* The threads: one moves, the GUI thread stays where it is.               *)

LEMMA OneThreadMoves ==
  ASSUME IInv, TypeOK', NEW t \in Tasks, NEW pc \in Points \ {"none", "begin"},
         thread[t] \notin Joinable \cup {"crashed"}, Go(t, pc),
         UNCHANGED <<gui_vars, task_vars, stolen>>,
         inbox' = inbox \/ inbox' = Append(inbox, t),
         \A u \in Tasks : stop'[u] /\ thread'[u] \in Working => stop[u] /\ thread[u] \in Working,
         pc = "ended" /\ active[t] => t \in Target \/ inbox' = Append(inbox, t)
  PROVE  IInv'
<1>0. Jobs /\ Owned /\ Gone /\ Connected /\ Awaited /\ Heard /\ CountIsActive /\ CountedWhileRunning
  BY DEF IInv
<1>1. Threads /\ Queue /\ pc # "none" /\ thread[t] \notin {"none", "ended", "crashed"}
  BY TypeParts DEF IInv, Joinable
<1>2. thread' = [thread EXCEPT ![t] = pc]
  BY DEF Go
<1>3. Jobs' /\ Owned' /\ Connected' /\ CountIsActive'
  BY <1>0 DEF Jobs, Owned, Connected, CountIsActive, Clearing, Target, Removed, gui_vars, task_vars
<1>4. Gone'
  BY <1>0, <1>1, <1>2 DEF Gone, Clearing, Target, Removed, gui_vars, Threads
<1>5. Awaited'
  BY <1>0 DEF Awaited, gui_vars
<1>6. \A u \in Tasks : Queued(u) => Queued(u)'
  <2>1. CASE inbox' = inbox
    BY <2>1 DEF Queued
  <2>2. CASE inbox' = Append(inbox, t)
    <3> SUFFICES ASSUME NEW u \in Tasks, NEW i \in DOMAIN inbox, inbox[i] = u
                 PROVE  \E j \in DOMAIN inbox' : inbox'[j] = u
      BY DEF Queued
    <3>1. i \in DOMAIN inbox' /\ inbox'[i] = u
      BY <1>1, <2>2 DEF Queue
    <3> QED
      BY <3>1
  <2> QED
    BY <2>1, <2>2
<1>7. pc = "ended" /\ active[t] => t \in Target \/ Queued(t)'
  <2> SUFFICES ASSUME inbox' = Append(inbox, t) PROVE \E j \in DOMAIN inbox' : inbox'[j] = t
    BY DEF Queued
  <2>1. Len(inbox) + 1 \in DOMAIN inbox' /\ inbox'[Len(inbox) + 1] = t
    BY <1>1 DEF Queue
  <2> QED
    BY <2>1
<1>8. Heard'
  <2> SUFFICES ASSUME NEW u \in Tasks, active'[u], thread'[u] \in Joinable
               PROVE  u \in Target' \/ Queued(u)'
    BY DEF Heard
  <2>1. active[u] /\ Target' = Target
    BY DEF Target, gui_vars, task_vars
  <2>2. CASE u = t
    <3>1. pc = "ended"
      BY <1>1, <1>2, <2>2 DEF Threads, Joinable
    <3> QED
      BY <1>7, <2>1, <2>2, <3>1
  <2>3. CASE u # t
    <3>1. thread[u] \in Joinable
      BY <1>1, <1>2, <2>3 DEF Threads
    <3> QED
      BY <1>0, <1>6, <2>1, <3>1 DEF Heard
  <2> QED
    BY <2>2, <2>3
<1>9. CountedWhileRunning'
  BY <1>0, <1>1, <1>2 DEF CountedWhileRunning, Clearing, Joinable, Threads, gui_vars, task_vars
<1> QED
  BY <1>3, <1>4, <1>5, <1>8, <1>9 DEF IInv

LEMMA ThreadStep == ASSUME IInv, TypeOK', NEW t \in Tasks, Task(t) PROVE IInv'
<1>0. Threads /\ stop \in [Tasks -> BOOLEAN] /\ Awaited /\ Connected /\ Jobs /\ Owned
  BY TypeParts DEF IInv, Flags
<1> USE DEF Go, Points, Joinable, Working
<1>1. CASE Begin(t)
  <2>1. PICK pc \in {"exit", "enter", "lock"} : Go(t, pc)
    BY <1>1 DEF Begin
  <2>2. \A u \in Tasks : stop'[u] /\ thread'[u] \in Working => stop[u] /\ thread[u] \in Working
    BY <1>0, <1>1, <2>1 DEF Begin, Threads
  <2> QED
    BY <1>1, <2>1, <2>2, OneThreadMoves DEF Begin
<1>2. CASE Lock(t)
  <2>1. \A u \in Tasks : stop'[u] /\ thread'[u] \in Working => stop[u] /\ thread[u] \in Working
    BY <1>0, <1>2 DEF Lock, Threads
  <2> QED
    BY <1>2, <2>1, OneThreadMoves DEF Lock
<1>3. CASE Enter(t)
  <2>1. \A u \in Tasks : stop'[u] /\ thread'[u] \in Working => stop[u] /\ thread[u] \in Working
    BY <1>0, <1>3 DEF Enter, Threads
  <2> QED
    BY <1>3, <2>1, OneThreadMoves DEF Enter
<1>4. CASE LoopEnds(t)
  <2>1. PICK pc \in {"loop", "fetch", "exit", "crashed"} : Go(t, pc)
    BY <1>4 DEF LoopEnds
  <2>2. /\ thread[t] \in {"loop", "fetch"} /\ stop' = stop /\ inbox' = inbox
        /\ UNCHANGED <<gui_vars, task_vars, stolen>>
    BY <1>4 DEF LoopEnds
  <2>3. \A u \in Tasks : stop'[u] /\ thread'[u] \in Working => stop[u] /\ thread[u] \in Working
    BY <1>0, <2>1, <2>2 DEF Threads
  <2> QED
    BY <2>1, <2>2, <2>3, OneThreadMoves
<1>5. CASE Poll(t)
  <2>1. PICK pc \in {"loop", "fetch", "exit", "crashed"} : Go(t, pc)
    BY <1>5 DEF Poll
  <2>2. /\ thread[t] \in {"loop", "fetch"} /\ stop' = stop /\ inbox' = inbox
        /\ UNCHANGED <<gui_vars, task_vars, stolen>>
    BY <1>5 DEF Poll
  <2>3. \A u \in Tasks : stop'[u] /\ thread'[u] \in Working => stop[u] /\ thread[u] \in Working
    BY <1>0, <2>1, <2>2 DEF Threads
  <2> QED
    BY <2>1, <2>2, <2>3, OneThreadMoves
<1>6. CASE CheckEnd(t)
  <2>1. PICK pc \in {"loop", "fetch", "exit", "crashed"} : Go(t, pc)
    BY <1>6 DEF CheckEnd
  <2>2. /\ thread[t] \in {"loop", "fetch"} /\ stop' = stop /\ inbox' = inbox
        /\ UNCHANGED <<gui_vars, task_vars, stolen>>
    BY <1>6 DEF CheckEnd
  <2>3. \A u \in Tasks : stop'[u] /\ thread'[u] \in Working => stop[u] /\ thread[u] \in Working
    BY <1>0, <2>1, <2>2 DEF Threads
  <2> QED
    BY <2>1, <2>2, <2>3, OneThreadMoves
<1>7. CASE Proceed(t)
  <2>1. PICK pc \in {"loop", "fetch", "exit", "crashed"} : Go(t, pc)
    BY <1>7 DEF Proceed
  <2>2. /\ thread[t] \in {"loop", "fetch"} /\ stop' = stop /\ inbox' = inbox
        /\ UNCHANGED <<gui_vars, task_vars, stolen>>
    BY <1>7 DEF Proceed
  <2>3. \A u \in Tasks : stop'[u] /\ thread'[u] \in Working => stop[u] /\ thread[u] \in Working
    BY <1>0, <2>1, <2>2 DEF Threads
  <2> QED
    BY <2>1, <2>2, <2>3, OneThreadMoves
<1>8. CASE FetchFails(t)
  <2>1. PICK pc \in {"loop", "fetch", "exit", "crashed"} : Go(t, pc)
    BY <1>8 DEF FetchFails
  <2>2. /\ thread[t] \in {"loop", "fetch"} /\ stop' = stop /\ inbox' = inbox
        /\ UNCHANGED <<gui_vars, task_vars, stolen>>
    BY <1>8 DEF FetchFails
  <2>3. \A u \in Tasks : stop'[u] /\ thread'[u] \in Working => stop[u] /\ thread[u] \in Working
    BY <1>0, <2>1, <2>2 DEF Threads
  <2> QED
    BY <2>1, <2>2, <2>3, OneThreadMoves
<1>9. CASE FetchPython(t)
  <2>1. PICK pc \in {"loop", "fetch", "exit", "crashed"} : Go(t, pc)
    BY <1>9 DEF FetchPython
  <2>2. /\ thread[t] \in {"loop", "fetch"} /\ stop' = stop /\ inbox' = inbox
        /\ UNCHANGED <<gui_vars, task_vars, stolen>>
    BY <1>9 DEF FetchPython
  <2>3. \A u \in Tasks : stop'[u] /\ thread'[u] \in Working => stop[u] /\ thread[u] \in Working
    BY <1>0, <2>1, <2>2 DEF Threads
  <2> QED
    BY <2>1, <2>2, <2>3, OneThreadMoves
<1>10. CASE FetchPlugin(t)
  <2>1. PICK pc \in {"loop", "fetch", "exit", "crashed"} : Go(t, pc)
    BY <1>10 DEF FetchPlugin
  <2>2. /\ thread[t] \in {"loop", "fetch"} /\ stop' = stop /\ inbox' = inbox
        /\ UNCHANGED <<gui_vars, task_vars, stolen>>
    BY <1>10 DEF FetchPlugin
  <2>3. \A u \in Tasks : stop'[u] /\ thread'[u] \in Working => stop[u] /\ thread[u] \in Working
    BY <1>0, <2>1, <2>2 DEF Threads
  <2> QED
    BY <2>1, <2>2, <2>3, OneThreadMoves
<1>11. CASE FetchNull(t)
  <2>1. PICK pc \in {"loop", "fetch", "exit", "crashed"} : Go(t, pc)
    BY <1>11 DEF FetchNull
  <2>2. /\ thread[t] \in {"loop", "fetch"} /\ stop' = stop /\ inbox' = inbox
        /\ UNCHANGED <<gui_vars, task_vars, stolen>>
    BY <1>11 DEF FetchNull
  <2>3. \A u \in Tasks : stop'[u] /\ thread'[u] \in Working => stop[u] /\ thread[u] \in Working
    BY <1>0, <2>1, <2>2 DEF Threads
  <2> QED
    BY <2>1, <2>2, <2>3, OneThreadMoves
<1>12. CASE Exit(t)
  <2>1. PICK pc \in {"ended", "emit"} : Go(t, pc) /\ (pc = "ended" => stop[t])
    BY <1>12 DEF Exit
  <2>2. /\ thread[t] = "exit" /\ stop' = stop /\ inbox' = inbox
        /\ UNCHANGED <<gui_vars, task_vars, stolen>>
    BY <1>12 DEF Exit
  <2>3. \A u \in Tasks : stop'[u] /\ thread'[u] \in Working => stop[u] /\ thread[u] \in Working
    BY <1>0, <2>1, <2>2 DEF Threads
  <2>4. pc = "ended" /\ active[t] => t \in Target
    <3> SUFFICES ASSUME stop[t], active[t] PROVE t \in Target
      BY <2>1
    <3>1. gui = "join" /\ t = joining
      BY <1>0, <2>2 DEF Awaited
    <3>2. job \in {"remove", "reset"}
      BY <1>0, <3>1, TypeParts DEF Jobs, Owned, Clearing, Controls, IInv
    <3> QED
      BY <1>0, <3>1, <3>2 DEF Jobs, Target
  <2> QED
    BY <2>1, <2>2, <2>3, <2>4, OneThreadMoves
<1>13. CASE Emit(t)
  <2>1. /\ thread[t] = "emit" /\ stop' = stop /\ Go(t, "ended")
        /\ UNCHANGED <<gui_vars, task_vars, stolen>>
    BY <1>13 DEF Emit
  <2>2. \A u \in Tasks : stop'[u] /\ thread'[u] \in Working => stop[u] /\ thread[u] \in Working
    BY <1>0, <2>1 DEF Threads
  <2>3. inbox' = inbox \/ inbox' = Append(inbox, t)
    BY <1>13 DEF Emit
  <2>4. active[t] => t \in Target \/ inbox' = Append(inbox, t)
    BY <1>0, <1>13 DEF Emit, Connected
  <2> QED
    BY <2>1, <2>2, <2>3, <2>4, OneThreadMoves
<1> QED
  BY <1>1, <1>2, <1>3, <1>4, <1>5, <1>6, <1>7, <1>8, <1>9, <1>10, <1>11, <1>12, <1>13 DEF Task

-----------------------------------------------------------------------------
(* The GUI thread and the collect thread.                                  *)

Running == {t \in Tasks : active[t]}

\* taking a task off: the count goes down if it was active
LEMMA TaskOff ==
  ASSUME NEW t \in Tasks, running = Cardinality(Running)
  PROVE  (IF active[t] THEN running - 1 ELSE running) = Cardinality(Running \ {t})
<1>1. IsFiniteSet(Running) /\ Cardinality(Running) \in Nat
  BY TasksCount DEF Running
<1>2. CASE active[t]
  <2>1. t \in Running
    BY <1>2 DEF Running
  <2> QED
    BY <1>1, <1>2, <2>1, FS_RemoveElement
<1>3. CASE ~active[t]
  <2>1. Running \ {t} = Running
    BY <1>3 DEF Running
  <2> QED
    BY <1>3, <2>1
<1> QED
  BY <1>2, <1>3

\* starting a task that is not active: the count goes up
LEMMA TaskOn ==
  ASSUME NEW S \in SUBSET Tasks, NEW t \in Tasks \ S
  PROVE  Cardinality(S \cup {t}) = Cardinality(S) + Cardinality({t})
  BY TasksCount, FS_AddElement, FS_Singleton

\* who is active once the tasks in S have been added
LEMMA AddedRun ==
  ASSUME Flags, NEW S \in SUBSET Tasks, active' = Set(active, S, TRUE)
  PROVE  Running' = Running \cup S
  BY DEF Running, Flags, Set

\* an event taken from the queue leaves the others
LEMMA OthersQueued ==
  ASSUME Queue, NextEvent, NEW t \in Tasks, t # Head(inbox), Queued(t)
  PROVE  Queued(t)'
<1>1. PICK i \in DOMAIN inbox : inbox[i] = t
  BY DEF Queued
<1>2. i - 1 \in DOMAIN inbox' /\ inbox'[i - 1] = t
  BY <1>1 DEF Queue, NextEvent
<1> QED
  BY <1>2 DEF Queued

LEMMA GuiStepInv == ASSUME IInv, TypeOK', UserAction \/ GuiStep \/ Collect PROVE IInv'
<1>0. /\ Jobs /\ Owned /\ Gone /\ Connected /\ Awaited /\ Heard /\ CountedWhileRunning
      /\ Controls /\ Flags /\ Threads /\ Queue
      /\ ~Clearing => running = Cardinality(Running)
  BY TypeParts DEF IInv, CountIsActive, Running
<1>a. ASSUME Jobs', Owned', Gone', Connected', Awaited', Heard', CountedWhileRunning',
             Clearing' \/ running' = Cardinality(Running')
      PROVE IInv'
  BY <1>a DEF IInv, CountIsActive, Running
<1>b. Ended \notin Tasks /\ Failed \notin Tasks
  BY TasksAssumption DEF TasksAssumption
<1> USE <1>0, <1>b DEF Controls, Flags, Threads, Jobs, Owned, Gone, Connected, Awaited,
        CountedWhileRunning, Clearing, Target, Removed, Working, Joinable, Points,
        gui_vars, capture_vars, task_vars, loop_vars
<1>1. CASE RemoveDecoder
  <2>1. Jobs'
    BY <1>1 DEF RemoveDecoder, StopOne, User
  <2>2. Owned'
    BY <1>1 DEF RemoveDecoder, StopOne, User
  <2>3. Gone'
    BY <1>1 DEF RemoveDecoder, StopOne, User
  <2>4. Connected'
    BY <1>1 DEF RemoveDecoder, StopOne, User
  <2>5. Awaited'
    BY <1>1 DEF RemoveDecoder, StopOne, User
  <2>6. Heard'
    <3>1. inbox' = inbox
      BY <1>1 DEF RemoveDecoder, StopOne, User
    <3>2. \A t \in Tasks : Queued(t)' <=> Queued(t)
      BY <3>1 DEF Queued
    <3> QED
      BY <3>2, <1>1 DEF Heard, RemoveDecoder, StopOne, User
  <2>7. CountedWhileRunning'
    BY <1>1 DEF RemoveDecoder, StopOne, User
  <2>8. Clearing' \/ running' = Cardinality(Running')
    BY <1>1 DEF RemoveDecoder, StopOne, User, Running
  <2> QED
    BY ONLY <1>a, <2>1, <2>2, <2>3, <2>4, <2>5, <2>6, <2>7, <2>8
<1>2. CASE ResetDecoder
  <2>1. Jobs'
    BY <1>2 DEF ResetDecoder, StopOne, User
  <2>2. Owned'
    BY <1>2 DEF ResetDecoder, StopOne, User
  <2>3. Gone'
    BY <1>2 DEF ResetDecoder, StopOne, User
  <2>4. Connected'
    BY <1>2 DEF ResetDecoder, StopOne, User
  <2>5. Awaited'
    BY <1>2 DEF ResetDecoder, StopOne, User
  <2>6. Heard'
    <3>1. inbox' = inbox
      BY <1>2 DEF ResetDecoder, StopOne, User
    <3>2. \A t \in Tasks : Queued(t)' <=> Queued(t)
      BY <3>1 DEF Queued
    <3> QED
      BY <3>2, <1>2 DEF Heard, ResetDecoder, StopOne, User
  <2>7. CountedWhileRunning'
    BY <1>2 DEF ResetDecoder, StopOne, User
  <2>8. Clearing' \/ running' = Cardinality(Running')
    BY <1>2 DEF ResetDecoder, StopOne, User, Running
  <2> QED
    BY ONLY <1>a, <2>1, <2>2, <2>3, <2>4, <2>5, <2>6, <2>7, <2>8
<1>3. CASE AddDecoder
  <2>1. Jobs'
    BY <1>3 DEF AddDecoder, AddTasks, Set, User
  <2>2. Owned'
    BY <1>3 DEF AddDecoder, AddTasks, Set, User
  <2>3. Gone'
    BY <1>3 DEF AddDecoder, AddTasks, Set, User
  <2>4. Connected'
    BY <1>3 DEF AddDecoder, AddTasks, Set, User
  <2>5. Awaited'
    BY <1>3 DEF AddDecoder, AddTasks, Set, User
  <2>6. Heard'
    <3>1. inbox' = inbox
      BY <1>3 DEF AddDecoder, AddTasks, Set, User
    <3>2. \A t \in Tasks : Queued(t)' <=> Queued(t)
      BY <3>1 DEF Queued
    <3> QED
      BY <3>2, <1>3 DEF Heard, AddDecoder, AddTasks, Set, User
  <2>7. CountedWhileRunning'
    BY <1>3 DEF AddDecoder, AddTasks, Set, User
  <2>8. Clearing' \/ running' = Cardinality(Running')
    <3>1. PICK t \in fresh : AddTasks({t}, running)
      BY <1>3 DEF AddDecoder
    <3>2. gui = "idle" /\ t \notin Running /\ Running \in SUBSET Tasks
      BY <1>3 DEF AddDecoder, User, Running
    <3>3. Running' = Running \cup {t}
      BY <3>1, AddedRun DEF AddTasks
    <3> QED
      BY <3>1, <3>2, <3>3, TaskOn DEF AddTasks
  <2> QED
    BY ONLY <1>a, <2>1, <2>2, <2>3, <2>4, <2>5, <2>6, <2>7, <2>8
<1>4. CASE ClearDecoders
  <2>1. Jobs'
    BY <1>4 DEF ClearDecoders, StopAll, Set, User
  <2>2. Owned'
    BY <1>4 DEF ClearDecoders, StopAll, Set, User
  <2>3. Gone'
    BY <1>4 DEF ClearDecoders, StopAll, Set, User
  <2>4. Connected'
    BY <1>4 DEF ClearDecoders, StopAll, Set, User
  <2>5. Awaited'
    BY <1>4 DEF ClearDecoders, StopAll, Set, User
  <2>6. Heard'
    <3>1. inbox' = inbox
      BY <1>4 DEF ClearDecoders, StopAll, Set, User
    <3>2. \A t \in Tasks : Queued(t)' <=> Queued(t)
      BY <3>1 DEF Queued
    <3> QED
      BY <3>2, <1>4 DEF Heard, ClearDecoders, StopAll, Set, User
  <2>7. CountedWhileRunning'
    BY <1>4 DEF ClearDecoders, StopAll, Set, User
  <2>8. Clearing' \/ running' = Cardinality(Running')
    BY <1>4 DEF ClearDecoders, StopAll, Set, User, Running
  <2> QED
    BY ONLY <1>a, <2>1, <2>2, <2>3, <2>4, <2>5, <2>6, <2>7, <2>8
<1>5. CASE StartCapture
  <2>1. Jobs'
    BY <1>5 DEF StartCapture, StopAll, Set, User
  <2>2. Owned'
    BY <1>5 DEF StartCapture, StopAll, Set, User
  <2>3. Gone'
    BY <1>5 DEF StartCapture, StopAll, Set, User
  <2>4. Connected'
    BY <1>5 DEF StartCapture, StopAll, Set, User
  <2>5. Awaited'
    BY <1>5 DEF StartCapture, StopAll, Set, User
  <2>6. Heard'
    <3>1. inbox' = inbox
      BY <1>5 DEF StartCapture, StopAll, Set, User
    <3>2. \A t \in Tasks : Queued(t)' <=> Queued(t)
      BY <3>1 DEF Queued
    <3> QED
      BY <3>2, <1>5 DEF Heard, StartCapture, StopAll, Set, User
  <2>7. CountedWhileRunning'
    BY <1>5 DEF StartCapture, StopAll, Set, User
  <2>8. Clearing' \/ running' = Cardinality(Running')
    BY <1>5 DEF StartCapture, StopAll, Set, User, Running
  <2> QED
    BY ONLY <1>a, <2>1, <2>2, <2>3, <2>4, <2>5, <2>6, <2>7, <2>8
<1>6. CASE EndLive
  <2>1. Jobs'
    BY <1>6 DEF EndLive, NextEvent, Set
  <2>2. Owned'
    BY <1>6 DEF EndLive, NextEvent, Set
  <2>3. Gone'
    BY <1>6 DEF EndLive, NextEvent, Set
  <2>4. Connected'
    BY <1>6 DEF EndLive, NextEvent, Set
  <2>5. Awaited'
    BY <1>6 DEF EndLive, NextEvent, Set
  <2>6. Heard'
    <3> SUFFICES ASSUME NEW t \in Tasks, active'[t], thread'[t] \in Joinable
                 PROVE  t \in Target' \/ Queued(t)'
      BY DEF Heard
    <3>1. NextEvent /\ active[t] /\ thread[t] \in Joinable /\ t # Head(inbox)
      BY <1>6 DEF EndLive, NextEvent, Set
    <3>2. Queued(t)
      BY <3>1 DEF Heard, NextEvent
    <3> QED
      BY <3>1, <3>2, OthersQueued
  <2>7. CountedWhileRunning'
    BY <1>6 DEF EndLive, NextEvent, Set
  <2>8. Clearing' \/ running' = Cardinality(Running')
    BY <1>6 DEF EndLive, NextEvent, Set, Running
  <2> QED
    BY ONLY <1>a, <2>1, <2>2, <2>3, <2>4, <2>5, <2>6, <2>7, <2>8
<1>7. CASE EndBuffered
  <2>1. Jobs'
    BY <1>7 DEF EndBuffered, NextEvent, StopAll, Set
  <2>2. Owned'
    BY <1>7 DEF EndBuffered, NextEvent, StopAll, Set
  <2>3. Gone'
    BY <1>7 DEF EndBuffered, NextEvent, StopAll, Set
  <2>4. Connected'
    BY <1>7 DEF EndBuffered, NextEvent, StopAll, Set
  <2>5. Awaited'
    BY <1>7 DEF EndBuffered, NextEvent, StopAll, Set
  <2>6. Heard'
    <3> SUFFICES ASSUME NEW t \in Tasks, active'[t], thread'[t] \in Joinable
                 PROVE  t \in Target' \/ Queued(t)'
      BY DEF Heard
    <3> QED
      BY <1>7 DEF EndBuffered, NextEvent, StopAll, Set
  <2>7. CountedWhileRunning'
    BY <1>7 DEF EndBuffered, NextEvent, StopAll, Set
  <2>8. Clearing' \/ running' = Cardinality(Running')
    BY <1>7 DEF EndBuffered, NextEvent, StopAll, Set, Running
  <2> QED
    BY ONLY <1>a, <2>1, <2>2, <2>3, <2>4, <2>5, <2>6, <2>7, <2>8
<1>8. CASE Refresh
  <2>1. Jobs'
    BY <1>8 DEF Refresh, NextEvent, StopAll, Set
  <2>2. Owned'
    BY <1>8 DEF Refresh, NextEvent, StopAll, Set
  <2>3. Gone'
    BY <1>8 DEF Refresh, NextEvent, StopAll, Set
  <2>4. Connected'
    BY <1>8 DEF Refresh, NextEvent, StopAll, Set
  <2>5. Awaited'
    BY <1>8 DEF Refresh, NextEvent, StopAll, Set
  <2>6. Heard'
    <3> SUFFICES ASSUME NEW t \in Tasks, active'[t], thread'[t] \in Joinable
                 PROVE  t \in Target' \/ Queued(t)'
      BY DEF Heard
    <3> QED
      BY <1>8 DEF Refresh, NextEvent, StopAll, Set
  <2>7. CountedWhileRunning'
    BY <1>8 DEF Refresh, NextEvent, StopAll, Set
  <2>8. Clearing' \/ running' = Cardinality(Running')
    BY <1>8 DEF Refresh, NextEvent, StopAll, Set, Running
  <2> QED
    BY ONLY <1>a, <2>1, <2>2, <2>3, <2>4, <2>5, <2>6, <2>7, <2>8
<1>9. CASE DecodeDone
  <2>1. Jobs'
    BY <1>9 DEF DecodeDone, NextEvent
  <2>2. Owned'
    BY <1>9 DEF DecodeDone, NextEvent
  <2>3. Gone'
    BY <1>9 DEF DecodeDone, NextEvent
  <2>4. Connected'
    BY <1>9 DEF DecodeDone, NextEvent
  <2>5. Awaited'
    BY <1>9 DEF DecodeDone, NextEvent
  <2>6. Heard'
    <3> SUFFICES ASSUME NEW t \in Tasks, active'[t], thread'[t] \in Joinable
                 PROVE  t \in Target' \/ Queued(t)'
      BY DEF Heard
    <3>1. NextEvent /\ active[t] /\ thread[t] \in Joinable /\ t # Head(inbox)
      BY <1>9 DEF DecodeDone, NextEvent
    <3>2. Queued(t)
      BY <3>1 DEF Heard, NextEvent
    <3> QED
      BY <3>1, <3>2, OthersQueued
  <2>7. CountedWhileRunning'
    BY <1>9 DEF DecodeDone, NextEvent
  <2>8. Clearing' \/ running' = Cardinality(Running')
    <3> DEFINE t == Head(inbox)
    <3>1. gui = "idle" /\ t \in Tasks
      BY <1>9 DEF DecodeDone, NextEvent
    <3>2. running' = (IF active[t] THEN running - 1 ELSE running) /\ active' = [active EXCEPT ![t] = FALSE]
      BY <1>9 DEF DecodeDone
    <3> HIDE DEF t
    <3>3. Running' = Running \ {t}
      BY <3>1, <3>2 DEF Running
    <3> QED
      BY <3>1, <3>2, <3>3, TaskOff
  <2> QED
    BY ONLY <1>a, <2>1, <2>2, <2>3, <2>4, <2>5, <2>6, <2>7, <2>8
<1>10. CASE StopTask
  <2>1. Jobs'
    BY <1>10 DEF StopTask
  <2>2. Owned'
    BY <1>10 DEF StopTask
  <2>3. Gone'
    BY <1>10 DEF StopTask
  <2>4. Connected'
    BY <1>10 DEF StopTask
  <2>5. Awaited'
    BY <1>10 DEF StopTask
  <2>6. Heard'
    <3>1. inbox' = inbox
      BY <1>10 DEF StopTask
    <3>2. \A t \in Tasks : Queued(t)' <=> Queued(t)
      BY <3>1 DEF Queued
    <3> QED
      BY <3>2, <1>10 DEF Heard, StopTask
  <2>7. CountedWhileRunning'
    BY <1>10 DEF StopTask
  <2>8. Clearing' \/ running' = Cardinality(Running')
    BY <1>10 DEF StopTask, Running
  <2> QED
    BY ONLY <1>a, <2>1, <2>2, <2>3, <2>4, <2>5, <2>6, <2>7, <2>8
<1>11. CASE Join
  <2>1. Jobs'
    BY <1>11 DEF Join
  <2>2. Owned'
    BY <1>11 DEF Join
  <2>3. Gone'
    BY <1>11 DEF Join
  <2>4. Connected'
    BY <1>11 DEF Join
  <2>5. Awaited'
    BY <1>11 DEF Join
  <2>6. Heard'
    <3>1. inbox' = inbox
      BY <1>11 DEF Join
    <3>2. \A t \in Tasks : Queued(t)' <=> Queued(t)
      BY <3>1 DEF Queued
    <3> QED
      BY <3>2, <1>11 DEF Heard, Join
  <2>7. CountedWhileRunning'
    BY <1>11 DEF Join
  <2>8. Clearing' \/ running' = Cardinality(Running')
    BY <1>11 DEF Join, Running
  <2> QED
    BY ONLY <1>a, <2>1, <2>2, <2>3, <2>4, <2>5, <2>6, <2>7, <2>8
<1>12. CASE EndRemove
  <2>1. Jobs'
    BY <1>12 DEF EndRemove, Stopped, Claimed
  <2>2. Owned'
    BY <1>12 DEF EndRemove, Stopped, Claimed
  <2>3. Gone'
    BY <1>12 DEF EndRemove, Stopped, Claimed
  <2>4. Connected'
    BY <1>12 DEF EndRemove, Stopped, Claimed
  <2>5. Awaited'
    BY <1>12 DEF EndRemove, Stopped, Claimed
  <2>6. Heard'
    <3>1. inbox' = inbox
      BY <1>12 DEF EndRemove, Stopped, Claimed
    <3>2. \A t \in Tasks : Queued(t)' <=> Queued(t)
      BY <3>1 DEF Queued
    <3> QED
      BY <3>2, <1>12 DEF Heard, EndRemove, Stopped, Claimed
  <2>7. CountedWhileRunning'
    BY <1>12 DEF EndRemove, Stopped, Claimed
  <2>8. Clearing' \/ running' = Cardinality(Running')
    <3>1. Running' = Running \ {joining}
      BY <1>12 DEF EndRemove, Running
    <3>2. job = "remove"
      BY <1>12 DEF EndRemove, Stopped
    <3> QED
      BY <1>12, <3>1, <3>2, TaskOff DEF EndRemove, Claimed
  <2> QED
    BY ONLY <1>a, <2>1, <2>2, <2>3, <2>4, <2>5, <2>6, <2>7, <2>8
<1>13. CASE EndReset
  <2>1. Jobs'
    BY <1>13 DEF EndReset, Stopped, AddTasks, Set
  <2>2. Owned'
    BY <1>13 DEF EndReset, Stopped, AddTasks, Set
  <2>3. Gone'
    BY <1>13 DEF EndReset, Stopped, AddTasks, Set
  <2>4. Connected'
    BY <1>13 DEF EndReset, Stopped, AddTasks, Set
  <2>5. Awaited'
    BY <1>13 DEF EndReset, Stopped, AddTasks, Set
  <2>6. Heard'
    <3>1. inbox' = inbox
      BY <1>13 DEF EndReset, Stopped, AddTasks, Set
    <3>2. \A t \in Tasks : Queued(t)' <=> Queued(t)
      BY <3>1 DEF Queued
    <3> QED
      BY <3>2, <1>13 DEF Heard, EndReset, Stopped, AddTasks, Set
  <2>7. CountedWhileRunning'
    BY <1>13 DEF EndReset, Stopped, AddTasks, Set
  <2>8. Clearing' \/ running' = Cardinality(Running')
    <3>1. job = "reset" /\ AddTasks({joining}, Claimed)
      BY <1>13 DEF EndReset, Stopped
    <3>2. Claimed = Cardinality(Running \ {joining})
      BY <3>1, TaskOff DEF Claimed
    <3>a. Running' = Running \cup {joining}
      BY <3>1, AddedRun DEF AddTasks
    <3>3. Running' = (Running \ {joining}) \cup {joining}
      BY <3>a
    <3>4. Running \ {joining} \in SUBSET Tasks
      BY DEF Running
    <3> QED
      BY <3>1, <3>2, <3>3, <3>4, TaskOn DEF AddTasks
  <2> QED
    BY ONLY <1>a, <2>1, <2>2, <2>3, <2>4, <2>5, <2>6, <2>7, <2>8
<1>14. CASE EndClear
  <2>1. Jobs'
    BY <1>14 DEF EndClear, Stopped
  <2>2. Owned'
    BY <1>14 DEF EndClear, Stopped
  <2>3. Gone'
    BY <1>14 DEF EndClear, Stopped
  <2>4. Connected'
    BY <1>14 DEF EndClear, Stopped
  <2>5. Awaited'
    BY <1>14 DEF EndClear, Stopped
  <2>6. Heard'
    <3>1. inbox' = inbox
      BY <1>14 DEF EndClear, Stopped
    <3>2. \A t \in Tasks : Queued(t)' <=> Queued(t)
      BY <3>1 DEF Queued
    <3> QED
      BY <3>2, <1>14 DEF Heard, EndClear, Stopped
  <2>7. CountedWhileRunning'
    BY <1>14 DEF EndClear, Stopped
  <2>8. Clearing' \/ running' = Cardinality(Running')
    <3>1. Running' = {} /\ running' = 0
      BY <1>14 DEF EndClear, Stopped, Running
    <3> QED
      BY <3>1, FS_EmptySet
  <2> QED
    BY ONLY <1>a, <2>1, <2>2, <2>3, <2>4, <2>5, <2>6, <2>7, <2>8
<1>15. CASE EndRefresh
  <2>1. Jobs'
    BY <1>15 DEF EndRefresh, Stopped
  <2>2. Owned'
    BY <1>15 DEF EndRefresh, Stopped
  <2>3. Gone'
    BY <1>15 DEF EndRefresh, Stopped
  <2>4. Connected'
    BY <1>15 DEF EndRefresh, Stopped
  <2>5. Awaited'
    BY <1>15 DEF EndRefresh, Stopped
  <2>6. Heard'
    <3>1. inbox' = inbox
      BY <1>15 DEF EndRefresh, Stopped
    <3>2. \A t \in Tasks : Queued(t)' <=> Queued(t)
      BY <3>1 DEF Queued
    <3> QED
      BY <3>2, <1>15 DEF Heard, EndRefresh, Stopped
  <2>7. CountedWhileRunning'
    BY <1>15 DEF EndRefresh, Stopped
  <2>8. Clearing' \/ running' = Cardinality(Running')
    <3>1. Running' = {} /\ running' = 0
      BY <1>15 DEF EndRefresh, Stopped, Running
    <3> QED
      BY <3>1, FS_EmptySet
  <2> QED
    BY ONLY <1>a, <2>1, <2>2, <2>3, <2>4, <2>5, <2>6, <2>7, <2>8
<1>16. CASE EndStart
  <2>a. /\ gui = "stop" /\ todo = {} /\ job = "start" /\ gui' = "idle" /\ job' = "none"
        /\ UNCHANGED <<todo, joining, traces, fresh, inbox, stop>>
    BY <1>16 DEF EndStart, Stopped
  <2>b. AddTasks(traces, 0) \/ UNCHANGED <<active, connected, thread, stolen>>
    BY <1>16 DEF EndStart
  <2>c. \A t \in Tasks : ~active[t] /\ thread[t] = "none"
    BY <2>a
  <2>d. ASSUME NEW t \in Tasks
        PROVE  /\ thread'[t] \in {"none", "begin"}
               /\ active'[t] => t \in traces /\ connected'[t] /\ thread'[t] = "begin"
               /\ thread'[t] = "begin" => active'[t] /\ t \in traces
    <3>1. CASE AddTasks(traces, 0)
      BY <2>c, <3>1 DEF AddTasks, Set
    <3>2. CASE UNCHANGED <<active, connected, thread, stolen>>
      BY <2>c, <3>2
    <3> QED
      BY <2>b, <3>1, <3>2
  <2>1. Jobs'
    BY <2>a, <2>d 
  <2>2. Owned'
    BY <2>a, <2>d 
  <2>3. Gone'
    BY <2>a, <2>d 
  <2>4. Connected'
    BY <2>a, <2>d 
  <2>5. Awaited'
    BY <2>a, <2>d 
  <2>6. Heard'
    <3>1. inbox' = inbox
      BY <1>16 DEF EndStart, Stopped, AddTasks, Set
    <3>2. \A t \in Tasks : Queued(t)' <=> Queued(t)
      BY <3>1 DEF Queued
    <3> QED
      BY <3>2, <2>a, <2>d DEF Heard
  <2>7. CountedWhileRunning'
    BY <2>a, <2>d 
  <2>8. Clearing' \/ running' = Cardinality(Running')
    <3>1. Running = {}
      BY <1>16 DEF EndStart, Stopped, Running
    <3>2. CASE stream'
      <4>1. AddTasks(traces, 0) /\ Cardinality(traces) \in Nat
        BY <1>16, <3>2, TasksCount DEF EndStart
      <4>2. Running' = Running \cup traces
        BY <4>1, AddedRun DEF AddTasks
      <4> QED
        BY <3>1, <4>1, <4>2 DEF AddTasks
    <3>3. CASE ~stream'
      <4>1. Running' = {} /\ running' = 0
        BY <1>16, <3>1, <3>3 DEF EndStart, Running
      <4> QED
        BY <4>1, FS_EmptySet
    <3> QED
      BY <3>2, <3>3
  <2> QED
    BY ONLY <1>a, <2>1, <2>2, <2>3, <2>4, <2>5, <2>6, <2>7, <2>8
<1>17. CASE EndEnd
  <2>1. Jobs'
    BY <1>17 DEF EndEnd, Stopped, AddTasks, Set
  <2>2. Owned'
    BY <1>17 DEF EndEnd, Stopped, AddTasks, Set
  <2>3. Gone'
    BY <1>17 DEF EndEnd, Stopped, AddTasks, Set
  <2>4. Connected'
    BY <1>17 DEF EndEnd, Stopped, AddTasks, Set
  <2>5. Awaited'
    BY <1>17 DEF EndEnd, Stopped, AddTasks, Set
  <2>6. Heard'
    <3>1. inbox' = inbox
      BY <1>17 DEF EndEnd, Stopped, AddTasks, Set
    <3>2. \A t \in Tasks : Queued(t)' <=> Queued(t)
      BY <3>1 DEF Queued
    <3> QED
      BY <3>2, <1>17 DEF Heard, EndEnd, Stopped, AddTasks, Set
  <2>7. CountedWhileRunning'
    BY <1>17 DEF EndEnd, Stopped, AddTasks, Set
  <2>8. Clearing' \/ running' = Cardinality(Running')
    <3>1. Running = {}
      BY <1>17 DEF EndEnd, Stopped, Running
    <3>2. AddTasks(traces, 0) /\ Cardinality(traces) \in Nat
      BY <1>17, TasksCount DEF EndEnd
    <3>3. Running' = Running \cup traces
      BY <3>2, AddedRun DEF AddTasks
    <3> QED
      BY <3>1, <3>2, <3>3 DEF AddTasks
  <2> QED
    BY ONLY <1>a, <2>1, <2>2, <2>3, <2>4, <2>5, <2>6, <2>7, <2>8
<1>18. CASE Packet
  <2>1. Jobs'
    BY <1>18 DEF Packet
  <2>2. Owned'
    BY <1>18 DEF Packet
  <2>3. Gone'
    BY <1>18 DEF Packet
  <2>4. Connected'
    BY <1>18 DEF Packet
  <2>5. Awaited'
    BY <1>18 DEF Packet
  <2>6. Heard'
    <3>1. inbox' = inbox
      BY <1>18 DEF Packet
    <3>2. \A t \in Tasks : Queued(t)' <=> Queued(t)
      BY <3>1 DEF Queued
    <3> QED
      BY <3>2, <1>18 DEF Heard, Packet
  <2>7. CountedWhileRunning'
    BY <1>18 DEF Packet
  <2>8. Clearing' \/ running' = Cardinality(Running')
    BY <1>18 DEF Packet, Running
  <2> QED
    BY ONLY <1>a, <2>1, <2>2, <2>3, <2>4, <2>5, <2>6, <2>7, <2>8
<1>19. CASE CaptureEnd
  <2>1. Jobs'
    BY <1>19 DEF CaptureEnd
  <2>2. Owned'
    BY <1>19 DEF CaptureEnd
  <2>3. Gone'
    BY <1>19 DEF CaptureEnd
  <2>4. Connected'
    BY <1>19 DEF CaptureEnd
  <2>5. Awaited'
    BY <1>19 DEF CaptureEnd
  <2>6. Heard'
    <3>1. PICK e \in {Ended, Failed} : inbox' = Append(inbox, e)
      BY <1>19 DEF CaptureEnd
    <3>2. ASSUME NEW t \in Tasks, Queued(t) PROVE Queued(t)'
      <4>1. PICK i \in DOMAIN inbox : inbox[i] = t
        BY <3>2 DEF Queued
      <4>2. i \in DOMAIN inbox' /\ inbox'[i] = t
        BY <3>1, <4>1 DEF Queue
      <4> QED
        BY <4>2 DEF Queued
    <3> QED
      BY <3>2, <1>19 DEF CaptureEnd, Heard
  <2>7. CountedWhileRunning'
    BY <1>19 DEF CaptureEnd
  <2>8. Clearing' \/ running' = Cardinality(Running')
    BY <1>19 DEF CaptureEnd, Running
  <2> QED
    BY ONLY <1>a, <2>1, <2>2, <2>3, <2>4, <2>5, <2>6, <2>7, <2>8
<1> QED
  BY <1>1, <1>2, <1>3, <1>4, <1>5, <1>6, <1>7, <1>8, <1>9, <1>10, <1>11, <1>12, <1>13, <1>14, <1>15, <1>16, <1>17, <1>18, <1>19 DEF UserAction, GuiStep, Collect

LEMMA StepInv == IInv /\ [Next]_vars => IInv'
<1> SUFFICES ASSUME IInv, [Next]_vars PROVE IInv'
  OBVIOUS
<1>0. TypeOK'
  BY StepTypes DEF IInv
<1>1. CASE UserAction \/ GuiStep \/ Collect
  BY <1>0, <1>1, GuiStepInv
<1>2. CASE \E t \in Tasks : Task(t)
  BY <1>0, <1>2, ThreadStep
<1>3. CASE UNCHANGED vars
  BY <1>3 DEF vars, gui_vars, capture_vars, task_vars, loop_vars, IInv, TypeOK, Jobs, Owned, Gone,
              Connected, Awaited, Heard, Queued, CountIsActive, CountedWhileRunning, Clearing,
              Target, Removed
<1> QED
  BY <1>1, <1>2, <1>3 DEF Next

LEMMA AlwaysInv == Spec => []IInv
  BY InitInv, StepInv, PTL DEF Spec

\* The count of running decoders is the number of tasks that are active, but
\* for the handler that stops them all (add_decode_task, remove_decode_task,
\* the slot of decode_done).
THEOREM CountCorrect == Spec => []CountIsActive
<1>1. IInv => CountIsActive
  BY DEF IInv
<1> QED
  BY <1>1, AlwaysInv, PTL

\* When nothing runs and no event is queued the count is 0, so decode_end has
\* run or clear_all_decode_task has.
THEOREM CountComesBack == Spec => []QuietMeansDone
<1>1. IInv => QuietMeansDone
  <2> SUFFICES ASSUME IInv, gui = "idle", inbox = <<>>, \A t \in Tasks : thread[t] \in Joinable
               PROVE  running = 0
    BY DEF QuietMeansDone
  <2>1. Target = {}
    BY DEF IInv, Jobs, Target
  <2>2. \A t \in Tasks : ~active[t]
    BY <2>1 DEF IInv, Heard, Queued
  <2>3. running = Cardinality({t \in Tasks : active[t]})
    BY DEF IInv, CountIsActive, Clearing
  <2>4. {t \in Tasks : active[t]} = {}
    BY <2>2
  <2> QED
    BY <2>3, <2>4, FS_EmptySet
<1> QED
  BY <1>1, AlwaysInv, PTL

\* A decoder that works is counted; the exception is named in stolen.
THEOREM WorkIsCounted == Spec => []CountedWhileRunning
<1>1. IInv => CountedWhileRunning
  BY DEF IInv
<1> QED
  BY <1>1, AlwaysInv, PTL

\* remove_decoder and clear_all_decoder delete a trace only after its thread
\* has been joined.
THEOREM DeletedAfterJoin == Spec => []ThreadHasTrace
<1>1. IInv => ThreadHasTrace
  BY TypeParts DEF IInv, Gone, Jobs, Removed, ThreadHasTrace, Controls
<1> QED
  BY <1>1, AlwaysInv, PTL

\* begin_decode_work always finds the thread before it ended: the assertion in
\* it holds, whatever the handlers that lead to it.
THEOREM StartedAfterJoin == Spec => OneThreadPerTask
<1> DEFINE Starts == \A t \in Tasks : thread'[t] = "begin" /\ thread[t] # "begin" =>
                        thread[t] \in Joinable
<1>1. IInv /\ [Next]_vars => [Starts]_vars
  <2> SUFFICES ASSUME IInv, Next, NEW t \in Tasks, thread'[t] = "begin", thread[t] # "begin"
               PROVE  thread[t] \in Joinable
    OBVIOUS
  <2>0. Threads /\ Gone /\ Jobs
    BY TypeParts DEF IInv
  <2>1. CASE UserAction \/ Collect
    BY <2>0, <2>1
       DEF UserAction, Collect, RemoveDecoder, ResetDecoder, AddDecoder, ClearDecoders, StartCapture,
           StopOne, StopAll, AddTasks, Set, User, Packet, CaptureEnd, Gone, Jobs, Removed, Target,
           Joinable
  <2>2. CASE GuiStep
    <3>1. CASE EndLive \/ EndBuffered \/ Refresh \/ DecodeDone
      BY <3>1 DEF EndLive, EndBuffered, Refresh, DecodeDone, StopAll
    <3>2. CASE StopTask \/ Join
      BY <2>0, <3>2 DEF StopTask, Join, Threads
    <3>3. CASE EndRemove \/ EndClear \/ EndRefresh
      BY <3>3 DEF EndRemove, EndClear, EndRefresh
    <3>4. CASE EndReset
      BY <2>0, <3>4 DEF EndReset, Stopped, AddTasks, Set, Gone, Joinable
    <3>5. CASE EndStart \/ EndEnd
      <4>1. \A u \in Tasks : thread[u] = "none"
        BY <2>0, <3>5 DEF EndStart, EndEnd, Stopped, Gone, Clearing
      <4> QED
        BY <4>1 DEF Joinable
    <3> QED
      BY <2>2, <3>1, <3>2, <3>3, <3>4, <3>5 DEF GuiStep
  <2>3. CASE \E u \in Tasks : Task(u)
    <3>1. PICK u \in Tasks : Task(u)
      BY <2>3
    <3>2. \E pc \in Points \ {"begin"} : Go(u, pc)
      BY <3>1 DEF Task, Begin, Lock, Enter, LoopEnds, Poll, CheckEnd, Proceed, FetchFails,
                  FetchPython, FetchPlugin, FetchNull, Exit, Emit, Points
    <3> QED
      BY <2>0, <3>2 DEF Go, Threads
  <2> QED
    BY <2>1, <2>2, <2>3 DEF Next
<1> QED
  BY <1>1, AlwaysInv, PTL DEF Spec, OneThreadPerTask

-----------------------------------------------------------------------------
(* What a decoder asks for has been captured.  The data come in whole      *)
(* words, a decoder stops in front of a word or at its end, and an end     *)
(* that was cut down to the data lies within the last word: so a Python    *)
(* decoder that has caught up is never one sample away from the end.       *)

\* a position between words
Whole(n) == \E k \in Nat : n = k * SCALE

Position(t) ==
    /\ checked[t] => end[t] < count
    /\ t \notin Plugins => Whole(pos[t]) \/ pos[t] = end[t]
    /\ thread[t] = "fetch" =>
          pos[t] < count /\ (IF t \in Plugins THEN pos[t] <= end[t] ELSE pos[t] < end[t])

Positions ==
    /\ Whole(count)
    /\ job # "refresh" => \A t \in Tasks : thread[t] \in {"loop", "fetch"} => Position(t)

LEMMA MultipleIsWhole ==
  ASSUME NEW n \in Nat, n % SCALE = 0 PROVE Whole(n)
<1>1. SCALE \in Nat \ {0}
  BY TasksAssumption DEF TasksAssumption
<1>2. n \div SCALE \in Nat /\ n = SCALE * (n \div SCALE) + (n % SCALE)
  BY <1>1
<1> DEFINE k == n \div SCALE
<1>3. k \in Nat /\ n = SCALE * k + 0
  BY <1>2
<1> HIDE DEF k
<1>4. n = k * SCALE
  BY <1>1, <1>3
<1> QED
  BY <1>3, <1>4 DEF Whole

LEMMA WholeSum ==
  ASSUME NEW m, NEW n, Whole(m), Whole(n) PROVE Whole(m + n)
<1>1. SCALE \in Nat
  BY TasksAssumption DEF TasksAssumption
<1>2. PICK j \in Nat, k \in Nat : m = j * SCALE /\ n = k * SCALE
  BY DEF Whole
<1>3. m + n = (j + k) * SCALE /\ j + k \in Nat
  BY <1>1, <1>2
<1> QED
  BY <1>3 DEF Whole

LEMMA WholeTimes ==
  ASSUME NEW m \in Nat, NEW n, Whole(n) PROVE Whole(m * n)
<1>1. SCALE \in Nat
  BY TasksAssumption DEF TasksAssumption
<1>2. PICK k \in Nat : n = k * SCALE
  BY DEF Whole
<1>3. m * n = (m * k) * SCALE /\ m * k \in Nat
  BY <1>1, <1>2
<1> QED
  BY <1>3 DEF Whole

\* no word has one sample
LEMMA WholeApart ==
  ASSUME NEW m, NEW n, Whole(m), Whole(n) PROVE m # n - 1
<1>1. SCALE \in Nat /\ SCALE >= 2
  BY TasksAssumption DEF TasksAssumption
<1>2. PICK j \in Nat, k \in Nat : m = j * SCALE /\ n = k * SCALE
  BY DEF Whole
<1>3. CASE k <= j
  <2>1. PICK d \in Nat : j = k + d
    <3>1. j - k \in Nat /\ j = k + (j - k)
      BY <1>3
    <3> QED
      BY <3>1
  <2>2. j * SCALE = k * SCALE + d * SCALE /\ d * SCALE \in Nat /\ k * SCALE \in Nat
    BY <1>1, <2>1
  <2> QED
    BY <1>2, <2>2
<1>4. CASE j < k
  <2>1. PICK d \in Nat : k = j + 1 + d
    <3>1. k - j - 1 \in Nat /\ k = j + 1 + (k - j - 1)
      BY <1>4
    <3> QED
      BY <3>1
  <2>2. k * SCALE = j * SCALE + SCALE + d * SCALE /\ d * SCALE \in Nat /\ j * SCALE \in Nat
    BY <1>1, <2>1
  <2> QED
    BY <1>1, <1>2, <2>2
<1> QED
  BY <1>3, <1>4

LEMMA ChunkEndWhole ==
  ASSUME NEW t \in Tasks, Loops, Capture, Whole(count) PROVE Whole(ChunkEnd(t))
<1>1. pos[t] \in Nat /\ BLOCK \in Nat \ {0} /\ BLOCK % SCALE = 0
  BY TasksAssumption DEF TasksAssumption, Loops
<1>2. pos[t] \div BLOCK \in Nat
  BY <1>1
<1> DEFINE q == pos[t] \div BLOCK + 1
<1>3. q \in Nat
  BY <1>2
<1> HIDE DEF q
<1>4. Whole(q * BLOCK)
  BY <1>1, <1>3, MultipleIsWhole, WholeTimes
<1> QED
  BY <1>4 DEF ChunkEnd, q

LEMMA InitPositions == Init => Positions
<1>1. Whole(0)
  <2>1. 0 = 0 * SCALE
    BY TasksAssumption DEF TasksAssumption
  <2> QED
    BY <2>1 DEF Whole
<1> QED
  BY <1>1 DEF Init, Positions

\* a step that leaves the loops alone and takes no samples away
LEMMA LoopsStay ==
  ASSUME IInv, Positions, count' >= count, Whole(count'), job # "refresh", UNCHANGED loop_vars,
         \A t \in Tasks : thread'[t] \in {"loop", "fetch"} => thread'[t] = thread[t]
  PROVE  Positions'
<1>1. Loops /\ Capture
  BY TypeParts DEF IInv
<1>2. count \in Int /\ \A t \in Tasks : pos[t] \in Int /\ end[t] \in Int
  BY <1>1, TasksAssumption DEF TasksAssumption, Loops, Capture
<1> SUFFICES ASSUME NEW t \in Tasks, thread'[t] \in {"loop", "fetch"}, count' \in Int
             PROVE  Position(t)'
  <2>1. count' \in Int
    BY TasksAssumption DEF Whole, TasksAssumption
  <2> QED
    BY <2>1 DEF Positions, Whole
<1>3. Position(t)
  BY DEF Positions
<1> QED
  BY <1>2, <1>3 DEF Position, Whole, loop_vars

\* a step of the thread of task t, which has a place in its loop
LEMMA LoopMoves ==
  ASSUME IInv, Positions, NEW t \in Tasks, NEW pc \in Points, Go(t, pc),
         UNCHANGED <<gui_vars, capture_vars>>,
         \A u \in Tasks \ {t} :
            pos'[u] = pos[u] /\ end'[u] = end[u] /\ checked'[u] = checked[u],
         pc \in {"loop", "fetch"} /\ job # "refresh" => Position(t)'
  PROVE  Positions'
<1>1. Threads
  BY TypeParts DEF IInv
<1>2. Whole(count)' /\ job' = job /\ count' = count
  BY DEF Positions, Whole, gui_vars, capture_vars
<1> SUFFICES ASSUME NEW u \in Tasks, job # "refresh", thread'[u] \in {"loop", "fetch"}
             PROVE  Position(u)'
  BY <1>2 DEF Positions
<1>3. CASE u = t
  BY <1>1, <1>3 DEF Go, Threads
<1>4. CASE u # t
  <2>1. thread'[u] = thread[u] /\ Position(u)
    BY <1>1, <1>4 DEF Go, Threads, Positions
  <2> QED
    BY <1>2, <1>4, <2>1 DEF Position, Whole
<1> QED
  BY <1>3, <1>4

LEMMA TaskPositions ==
  ASSUME IInv, IInv', Positions, NEW t \in Tasks, Task(t) PROVE Positions'
<1>0. /\ Threads /\ Loops /\ Capture /\ Whole(count)
      /\ job # "refresh" /\ thread[t] \in {"loop", "fetch"} => Position(t)
  BY TypeParts DEF IInv, Positions
<1>a. /\ count \in Nat /\ pos[t] \in Nat /\ end[t] \in Int
  BY <1>0, TasksAssumption DEF TasksAssumption, Loops, Capture
<1>b. /\ UNCHANGED <<gui_vars, capture_vars>>
      /\ \A u \in Tasks \ {t} : pos'[u] = pos[u] /\ end'[u] = end[u] /\ checked'[u] = checked[u]
  BY <1>0 DEF Task, Begin, Lock, Enter, LoopEnds, Poll, CheckEnd, Proceed, FetchFails,
              FetchPython, FetchPlugin, FetchNull, Exit, Emit, Loops, loop_vars
<1>c. count' = count /\ job' = job
  BY <1>b DEF gui_vars, capture_vars
<1> USE DEF Points
<1>1. CASE Begin(t) \/ Lock(t) \/ LoopEnds(t) \/ FetchFails(t) \/ Exit(t) \/ Emit(t)
  <2>1. PICK pc \in Points \ {"loop", "fetch"} : Go(t, pc)
    BY <1>1 DEF Begin, Lock, LoopEnds, FetchFails, Exit, Emit
  <2> QED
    BY <1>b, <2>1, LoopMoves
<1>2. CASE Enter(t)
  <2>1. pos'[t] = 0 /\ ~checked'[t] /\ thread'[t] = "loop" /\ Go(t, "loop")
    BY <1>0, <1>2 DEF Enter, Loops, Threads, Go
  <2>2. Whole(0)
    <3>1. 0 = 0 * SCALE
      BY TasksAssumption DEF TasksAssumption
    <3> QED
      BY <3>1 DEF Whole
  <2>3. Position(t)'
    BY <2>1, <2>2 DEF Position, Whole
  <2> QED
    BY <1>b, <2>1, <2>3, LoopMoves
<1>3. CASE Poll(t)
  <2>1. Go(t, "fetch") /\ UNCHANGED loop_vars /\ thread[t] = "loop" /\ More(t) /\ pos[t] < count
    BY <1>3 DEF Poll
  <2>2. job # "refresh" => Position(t)'
    BY <1>0, <1>c, <2>1 DEF Position, More, Whole, loop_vars
  <2> QED
    BY <1>b, <2>1, <2>2, LoopMoves
<1>4. CASE CheckEnd(t)
  <2>1. PICK pc \in {"exit", "fetch"} : Go(t, pc) /\ (pc = "fetch" => pos[t] < count)
    BY <1>a, <1>4 DEF CheckEnd
  <2>2. /\ pos' = pos /\ thread[t] = "loop" /\ More(t)
        /\ end'[t] = IF count > 0 /\ end[t] >= count THEN count - 1 ELSE end[t]
    BY <1>0, <1>4 DEF CheckEnd, Loops
  <2>3. ASSUME pc = "fetch", job # "refresh" PROVE Position(t)'
    <3>1. pos[t] < count /\ end'[t] < count
      BY <1>a, <2>1, <2>2, <2>3
    <3>2. CASE t \in Plugins
      BY <1>a, <1>c, <2>2, <3>1, <3>2 DEF Position, More
    <3>3. CASE t \notin Plugins
      <4>1. pos[t] < end[t] /\ Whole(pos[t])
        BY <1>0, <1>a, <2>2, <2>3, <3>3 DEF More, Position
      <4>2. pos[t] # count - 1
        BY <1>0, <4>1, WholeApart
      <4>3. pos[t] < end'[t]
        BY <1>a, <2>2, <3>1, <4>1, <4>2
      <4> QED
        BY <1>c, <2>2, <3>1, <3>3, <4>1, <4>3 DEF Position, Whole
    <3> QED
      BY <3>2, <3>3
  <2> QED
    BY <1>b, <2>1, <2>3, LoopMoves
<1>5. CASE Proceed(t)
  <2>1. PICK pc \in {"exit", "fetch"} : Go(t, pc)
    BY <1>5 DEF Proceed
  <2>2. UNCHANGED loop_vars /\ thread[t] = "loop" /\ More(t) /\ checked[t]
    BY <1>5 DEF Proceed
  <2>3. job # "refresh" => pos[t] < count /\ (IF t \in Plugins THEN pos[t] <= end[t]
                                                              ELSE pos[t] < end[t])
    BY <1>0, <1>a, <2>2 DEF Position, More
  <2>4. job # "refresh" => Position(t)'
    BY <1>0, <1>c, <2>2, <2>3 DEF Position, Whole, loop_vars
  <2> QED
    BY <1>b, <2>1, <2>4, LoopMoves
<1>6. CASE FetchPython(t)
  <2> DEFINE to == IF ChunkEnd(t) > end[t] THEN end[t] ELSE ChunkEnd(t)
  <2>1. Whole(ChunkEnd(t))
    BY <1>0, ChunkEndWhole
  <2>2. Whole(to) \/ to = end[t]
    BY <2>1
  <2>3. /\ UNCHANGED <<end, checked>> /\ thread[t] = "fetch" /\ t \notin Plugins
        /\ IF to > pos[t] THEN pos' = [pos EXCEPT ![t] = to] /\ Go(t, "loop")
                          ELSE Go(t, "exit") /\ UNCHANGED pos
    BY <1>6 DEF FetchPython
  <2> HIDE DEF to
  <2>4. CASE to > pos[t]
    <3>1. pos'[t] = to /\ Go(t, "loop") /\ thread'[t] = "loop"
      BY <1>0, <2>3, <2>4 DEF Loops, Go, Threads
    <3>2. job # "refresh" => Position(t)'
      BY <1>0, <1>c, <2>2, <2>3, <3>1 DEF Position, Whole
    <3> QED
      BY <1>b, <3>1, <3>2, LoopMoves
  <2>5. CASE ~(to > pos[t])
    BY <1>b, <2>3, <2>5, LoopMoves
  <2> QED
    BY <2>4, <2>5
<1>7. CASE FetchPlugin(t) \/ FetchNull(t)
  <2>1. /\ UNCHANGED <<end, checked>> /\ thread[t] = "fetch" /\ t \in Plugins
        /\ Go(t, "loop") /\ thread'[t] = "loop"
    BY <1>0, <1>7 DEF FetchPlugin, FetchNull, Go, Threads
  <2>2. job # "refresh" => Position(t)'
    BY <1>0, <1>c, <2>1 DEF Position
  <2> QED
    BY <1>b, <2>1, <2>2, LoopMoves
<1> QED
  BY <1>1, <1>2, <1>3, <1>4, <1>5, <1>6, <1>7 DEF Task

LEMMA GuiPositions ==
  ASSUME IInv, IInv', Positions, UserAction \/ GuiStep \/ Collect PROVE Positions'
<1>0. Threads /\ Capture /\ Jobs /\ Gone /\ Whole(count)
  BY TypeParts DEF IInv, Positions
<1>a. count \in Nat /\ Whole(0)
  <2>1. 0 = 0 * SCALE
    BY TasksAssumption DEF TasksAssumption
  <2> QED
    BY <1>0, <2>1, TasksAssumption DEF TasksAssumption, Capture, Whole
<1>1. CASE UserAction
  <2>1. /\ UNCHANGED <<count, loop_vars>> /\ gui = "idle"
        /\ \A t \in Tasks : thread'[t] \in {"loop", "fetch"} => thread'[t] = thread[t]
    BY <1>1 DEF UserAction, RemoveDecoder, ResetDecoder, AddDecoder, ClearDecoders, StartCapture,
                StopOne, StopAll, AddTasks, Set, User, capture_vars
  <2>2. job # "refresh"
    BY <1>0, <2>1 DEF Jobs
  <2> QED
    BY <1>0, <1>a, <2>1, <2>2, LoopsStay
<1>2. CASE EndLive \/ EndBuffered \/ DecodeDone
  <2>1. UNCHANGED <<count, loop_vars, thread>> /\ gui = "idle"
    BY <1>2 DEF EndLive, EndBuffered, DecodeDone, StopAll, NextEvent, capture_vars
  <2>2. job # "refresh"
    BY <1>0, <2>1 DEF Jobs
  <2> QED
    BY <1>0, <1>a, <2>1, <2>2, LoopsStay
<1>3. CASE Refresh
  BY <1>a, <1>3 DEF Refresh, StopAll, Positions
<1>4. CASE StopTask \/ Join \/ CaptureEnd
  <2>1. /\ UNCHANGED <<count, job, loop_vars>>
        /\ \A t \in Tasks : thread'[t] \in {"loop", "fetch"} => thread'[t] = thread[t]
    BY <1>0, <1>4 DEF StopTask, Join, CaptureEnd, Threads, capture_vars, gui_vars
  <2>2. CASE job = "refresh"
    BY <1>0, <2>1, <2>2 DEF Positions, Whole
  <2> QED
    BY <1>0, <1>a, <2>1, <2>2, LoopsStay
<1>5. CASE EndRemove \/ EndReset \/ EndClear
  <2>1. /\ UNCHANGED <<count, loop_vars>> /\ job # "refresh"
        /\ \A t \in Tasks : thread'[t] \in {"loop", "fetch"} => thread'[t] = thread[t]
    BY <1>5 DEF EndRemove, EndReset, EndClear, Stopped, AddTasks, Set, capture_vars
  <2> QED
    BY <1>0, <1>a, <2>1, LoopsStay
<1>6. CASE EndRefresh \/ EndStart \/ EndEnd
  <2>1. \A t \in Tasks : thread[t] = "none"
    BY <1>0, <1>6 DEF EndRefresh, EndStart, EndEnd, Stopped, Gone, Clearing
  <2>2. \A t \in Tasks : thread'[t] \in {"none", "begin"}
    BY <1>6, <2>1 DEF EndRefresh, EndStart, EndEnd, AddTasks, Set
  <2>3. count' \in {0, count}
    BY <1>6 DEF EndRefresh, EndStart, EndEnd, capture_vars
  <2> QED
    BY <1>0, <1>a, <2>2, <2>3 DEF Positions, Whole
<1>7. CASE Packet
  <2>1. PICK n \in PACKETS : count' = count + n
    BY <1>7 DEF Packet
  <2>2. n \in Nat /\ n % SCALE = 0
    BY TasksAssumption DEF TasksAssumption
  <2>3. Whole(count') /\ count' >= count
    BY <1>0, <1>a, <2>1, <2>2, MultipleIsWhole, WholeSum
  <2>4. UNCHANGED <<job, loop_vars, thread>>
    BY <1>7 DEF Packet, gui_vars
  <2>5. CASE job = "refresh"
    BY <2>3, <2>4, <2>5 DEF Positions, Whole
  <2> QED
    BY <2>3, <2>4, <2>5, LoopsStay
<1> QED
  BY <1>1, <1>2, <1>3, <1>4, <1>5, <1>6, <1>7 DEF GuiStep, Collect

LEMMA StepPositions == IInv /\ IInv' /\ Positions /\ [Next]_vars => Positions'
<1> SUFFICES ASSUME IInv, IInv', Positions, [Next]_vars PROVE Positions'
  OBVIOUS
<1>1. CASE UNCHANGED vars
  BY <1>1 DEF vars, gui_vars, capture_vars, loop_vars, Positions, Position, Whole
<1> QED
  BY <1>1, GuiPositions, TaskPositions DEF Next

\* get_samples is asked for samples that are there and a Python decoder is never
\* sent an empty buffer, for captures of any length and packets of any number of
\* words, except while refresh has emptied the snapshot under the decoders.
THEOREM FetchesAreCaptured == Spec => []FetchCaptured
<1>1. Positions => FetchCaptured
  BY DEF Positions, Position, FetchCaptured
<1>2. IInv /\ IInv' /\ Positions /\ [Next]_vars => Positions'
  BY StepPositions
<1> QED
  BY <1>1, <1>2, InitPositions, AlwaysInv, PTL DEF Spec

\* the block a sample is in ends after it
LEMMA BlockGoesOn ==
  ASSUME NEW n \in Nat PROVE (n \div BLOCK + 1) * BLOCK > n
<1>1. BLOCK \in Nat \ {0}
  BY TasksAssumption DEF TasksAssumption
<1>2. n \div BLOCK \in Nat /\ n % BLOCK < BLOCK /\ n = BLOCK * (n \div BLOCK) + (n % BLOCK)
  BY <1>1
<1> DEFINE q == n \div BLOCK
           r == n % BLOCK
<1>3. q \in Nat /\ r \in Int /\ r < BLOCK /\ n = BLOCK * q + r
  BY <1>1, <1>2
<1> HIDE DEF q, r
<1>4. (q + 1) * BLOCK = BLOCK * q + BLOCK /\ BLOCK * q \in Nat
  BY <1>1, <1>3
<1>5. (q + 1) * BLOCK > n
  BY <1>1, <1>3, <1>4
<1> QED
  BY <1>5 DEF q

\* A round of the loop goes on to the next one, and further on in the capture,
\* but for a plugin that is to wait for more data.
RoundAdvances ==
    [][\A t \in Tasks : thread[t] = "fetch" /\ thread'[t] # "fetch" /\ job # "refresh" =>
          /\ thread'[t] = "loop"
          /\ \/ pos'[t] > pos[t] /\ pos'[t] <= end[t] + 1
             \/ pos'[t] = pos[t] /\ t \in Plugins /\ ~cap_end[t]]_vars

LEMMA FetchAdvances ==
  ASSUME IInv, Positions, NEW t \in Tasks, Task(t), thread[t] = "fetch", job # "refresh"
  PROVE  /\ thread'[t] = "loop"
         /\ \/ pos'[t] > pos[t] /\ pos'[t] <= end[t] + 1
            \/ pos'[t] = pos[t] /\ t \in Plugins /\ ~cap_end[t]
<1>0. Threads /\ Loops /\ Capture /\ Position(t)
  BY TypeParts DEF IInv, Positions
<1>1. count \in Nat /\ pos[t] \in Nat /\ end[t] \in Int
  BY <1>0, TasksAssumption DEF TasksAssumption, Loops, Capture
<1>2. pos[t] < count
  BY <1>0 DEF Position
<1> DEFINE block_end == (pos[t] \div BLOCK + 1) * BLOCK
<1>3. block_end > pos[t]
  BY <1>1, BlockGoesOn
<1>4. block_end \in Int
  BY <1>1, TasksAssumption DEF TasksAssumption
<1>5. ChunkEnd(t) = IF block_end < count THEN block_end ELSE count
  BY DEF ChunkEnd
<1> HIDE DEF block_end
<1>6. ChunkEnd(t) > pos[t] /\ ChunkEnd(t) \in Int
  BY <1>1, <1>2, <1>3, <1>4, <1>5
<1>7. CASE FetchPython(t)
  <2>1. pos[t] < end[t] /\ t \notin Plugins
    BY <1>0, <1>7 DEF FetchPython, Position
  <2>2. pos' = [pos EXCEPT ![t] = IF ChunkEnd(t) > end[t] THEN end[t] ELSE ChunkEnd(t)]
        /\ Go(t, "loop")
    BY <1>1, <1>6, <1>7, <2>1 DEF FetchPython
  <2> QED
    BY <1>0, <1>1, <1>6, <2>1, <2>2 DEF Go, Threads, Loops
<1>8. CASE FetchPlugin(t)
  <2>1. pos[t] <= end[t]
    BY <1>0, <1>8 DEF FetchPlugin, Position
  <2> QED
    BY <1>0, <1>1, <1>6, <1>8, <2>1 DEF FetchPlugin, Go, Threads, Loops
<1>9. CASE FetchNull(t)
  <2>1. pos[t] <= end[t]
    BY <1>0, <1>9 DEF FetchNull, Position
  <2> QED
    BY <1>0, <1>1, <1>9, <2>1 DEF FetchNull, Go, Threads, Loops
<1> QED
  BY <1>1, <1>2, <1>7, <1>8, <1>9
  DEF Task, Begin, Lock, Enter, LoopEnds, Poll, CheckEnd, Proceed, FetchFails, Exit, Emit

\* A decoder that is told the capture has ended comes to the end of it: every
\* round brings it forward, at most to its end, and no round fails on an empty
\* buffer, for captures and blocks of any length
\* (decode_data 1700-1790, execute_c_decode_stack_streaming).
THEOREM DecodingAdvances == Spec => RoundAdvances
<1>1. IInv /\ Positions /\ [Next]_vars =>
      [\A t \in Tasks : thread[t] = "fetch" /\ thread'[t] # "fetch" /\ job # "refresh" =>
          /\ thread'[t] = "loop"
          /\ \/ pos'[t] > pos[t] /\ pos'[t] <= end[t] + 1
             \/ pos'[t] = pos[t] /\ t \in Plugins /\ ~cap_end[t]]_vars
  <2> SUFFICES ASSUME IInv, Positions, Next, NEW t \in Tasks, thread[t] = "fetch",
                      thread'[t] # "fetch", job # "refresh"
               PROVE  /\ thread'[t] = "loop"
                      /\ \/ pos'[t] > pos[t] /\ pos'[t] <= end[t] + 1
                         \/ pos'[t] = pos[t] /\ t \in Plugins /\ ~cap_end[t]
    BY DEF vars
  <2>0. Threads /\ Jobs /\ Gone
    BY TypeParts DEF IInv
  <2>1. ~ (UserAction \/ Collect)
    BY <2>0 DEF UserAction, Collect, RemoveDecoder, ResetDecoder, AddDecoder, ClearDecoders,
                StartCapture, StopOne, StopAll, AddTasks, Set, User, Packet, CaptureEnd, Gone,
                Jobs, Removed, Target
  <2>2. ~ GuiStep
    <3>1. ~ (EndLive \/ EndBuffered \/ Refresh \/ DecodeDone)
      BY DEF EndLive, EndBuffered, Refresh, DecodeDone, StopAll
    <3>2. ~ (StopTask \/ Join)
      BY <2>0 DEF StopTask, Join, Threads, Joinable
    <3>3. ~ (EndRemove \/ EndClear \/ EndRefresh)
      BY DEF EndRemove, EndClear, EndRefresh
    <3>4. ~ EndReset
      BY <2>0 DEF EndReset, Stopped, AddTasks, Set, Gone
    <3>5. ~ (EndStart \/ EndEnd)
      BY <2>0 DEF EndStart, EndEnd, Stopped, Gone, Clearing
    <3> QED
      BY <3>1, <3>2, <3>3, <3>4, <3>5 DEF GuiStep
  <2>3. PICK u \in Tasks : Task(u)
    BY <2>1, <2>2 DEF Next
  <2>4. \E pc \in Points : Go(u, pc)
    BY <2>3 DEF Task, Begin, Lock, Enter, LoopEnds, Poll, CheckEnd, Proceed, FetchFails,
                FetchPython, FetchPlugin, FetchNull, Exit, Emit, Points
  <2>5. u = t
    BY <2>0, <2>4 DEF Go, Threads
  <2> QED
    BY <2>3, <2>5, FetchAdvances
<1> QED
  BY <1>1, InitPositions, StepPositions, AlwaysInv, PTL DEF Spec, RoundAdvances

-----------------------------------------------------------------------------
(* The mutex of the Python decoders, s_srd_session_mutex.                  *)

\* where a Python decoder has a session, between lock and unlock of the mutex; an
\* assertion that fails leaves it locked
InSession(t) == thread[t] \in {"enter", "loop", "fetch", "crashed"}

OneSession == \A t, u \in Tasks \ Plugins : InSession(t) /\ InSession(u) => t = u

Holders == \A t \in Tasks \ Plugins : InSession(t) => mutex = {t}

\* a step that starts or joins threads takes none into the session
LEMMA OutsideSession ==
  ASSUME Holders, UNCHANGED mutex,
         \A t \in Tasks : thread'[t] = thread[t] \/ thread'[t] \in {"none", "begin"}
  PROVE  Holders'
BY DEF Holders, InSession

LEMMA HoldersStep == IInv /\ Holders /\ [Next]_vars => Holders'
<1> SUFFICES ASSUME IInv, Holders, [Next]_vars PROVE Holders'
  OBVIOUS
<1>0. Threads
  BY TypeParts DEF IInv
<1>1. CASE UserAction \/ Collect \/ UNCHANGED vars
  <2>1. /\ UNCHANGED mutex
        /\ \A t \in Tasks : thread'[t] = thread[t] \/ thread'[t] \in {"none", "begin"}
    BY <1>1 DEF UserAction, Collect, RemoveDecoder, ResetDecoder, AddDecoder, ClearDecoders,
                StartCapture, StopOne, StopAll, AddTasks, Set, Packet, CaptureEnd, vars
  <2> QED
    BY <2>1, OutsideSession
<1>2. CASE GuiStep
  <2>1. /\ UNCHANGED mutex
        /\ \A t \in Tasks : thread'[t] = thread[t] \/ thread'[t] \in {"none", "begin"}
    BY <1>0, <1>2
       DEF GuiStep, EndLive, EndBuffered, Refresh, DecodeDone, StopTask, Join, EndRemove, EndReset,
           EndClear, EndRefresh, EndStart, EndEnd, StopAll, AddTasks, Set, Threads
  <2> QED
    BY <2>1, OutsideSession
<1>3. ASSUME NEW t \in Tasks, Task(t) PROVE Holders'
  <2>1. \A u \in Tasks \ {t} : thread'[u] = thread[u]
    BY <1>0, <1>3 DEF Task, Begin, Lock, Enter, LoopEnds, Poll, CheckEnd, Proceed, FetchFails,
                      FetchPython, FetchPlugin, FetchNull, Exit, Emit, Go, Threads
  <2>2. CASE Lock(t)
    <3>1. \A u \in Tasks \ Plugins : ~InSession(u)
      BY <2>2 DEF Lock, Holders
    <3> QED
      BY <2>1, <2>2, <3>1 DEF Lock, Holders, InSession
  <2>3. CASE Begin(t) \/ Emit(t)
    <3>1. UNCHANGED mutex /\ (thread'[t] \in {"exit", "lock", "ended"} \/ t \in Plugins)
      BY <1>0, <2>3 DEF Begin, Emit, Go, Threads
    <3> QED
      BY <2>1, <3>1 DEF Holders, InSession
  <2>4. CASE Exit(t)
    <3>1. mutex' = mutex \ {t} /\ thread'[t] \in {"ended", "emit"}
      BY <1>0, <2>4 DEF Exit, Go, Threads
    <3> QED
      BY <2>1, <3>1 DEF Holders, InSession
  <2>5. CASE \/ Enter(t) \/ LoopEnds(t) \/ Poll(t) \/ CheckEnd(t) \/ Proceed(t)
             \/ FetchFails(t) \/ FetchPython(t) \/ FetchPlugin(t) \/ FetchNull(t)
    <3>1. UNCHANGED mutex /\ InSession(t)
      BY <2>5 DEF Enter, LoopEnds, Poll, CheckEnd, Proceed, FetchFails, FetchPython, FetchPlugin,
                  FetchNull, InSession
    <3> QED
      BY <2>1, <3>1 DEF Holders, InSession
  <2> QED
    BY <1>3, <2>2, <2>3, <2>4, <2>5 DEF Task
<1> QED
  BY <1>1, <1>2, <1>3 DEF Next

\* "Serialise all Python-decoder execute_decode_stack() calls with this mutex"
\* (decoderstack.h 82-88): the list of sessions of libsigrokdecode, which has no
\* lock of its own, is used by one decoder at a time, whatever is stopped,
\* started over and removed meanwhile.
THEOREM OnePythonDecoder == Spec => []OneSession
<1>1. Init => Holders
  BY DEF Init, Holders, InSession
<1>2. Holders => OneSession
  <2> SUFFICES ASSUME Holders, NEW t \in Tasks \ Plugins, NEW u \in Tasks \ Plugins,
                      InSession(t), InSession(u)
               PROVE  t = u
    BY DEF OneSession
  <2>1. mutex = {t} /\ mutex = {u}
    BY DEF Holders
  <2> QED
    BY <2>1
<1> QED
  BY <1>1, <1>2, HoldersStep, AlwaysInv, PTL DEF Spec
=============================================================================
