-------------------------- MODULE SpillManager_proof --------------------------
(***************************************************************************)
(* Proofs about SpillManager.  SMInv is inductive; it adds to the checked  *)
(* invariants where the job and the argument of enqueue_spill are, and how *)
(* much disk is already spoken for.                                        *)
(***************************************************************************)
EXTENDS SpillManager, TLAPS

Working == {"write", "index", "usage", "complete"}

\* The job in hand, and the block being enqueued, are blocks nobody else has.
ThreadsInv ==
    /\ io_pc \in Working \cup {"retire"} => job \in Blocks
    /\ io_pc = "index" => image \in Contents
    /\ io_pc \in {"usage", "complete"} => index[job] # NoImage
    /\ call # "none" => enq_block \in Blocks /\ enq_block \notin UnderWay
    /\ stop_io => call = "none"

\* What is buffered has its index entry, or is the job about to get one.
BufferInv ==
    \A c \in Channels :
        buffer[c] # NoBlock /\ index[buffer[c]] = NoImage => io_pc = "index" /\ buffer[c] = job

\* Blocks that are on disk or will get there unless their write fails.
Spoken == disk_usage + Len(write_queue)
          + (IF io_pc \in {"write", "index", "usage"} THEN 1 ELSE 0)

DiskInv ==
    /\ Len(write_queue) <= MAX_QUEUE_DEPTH
    /\ DISK_LIMIT > 0 =>
          /\ Spoken <= DISK_LIMIT + MAX_QUEUE_DEPTH + 1
          /\ call = "push" => Spoken <= DISK_LIMIT + MAX_QUEUE_DEPTH

SMInv == TypeOK /\ QueuedOnce /\ CompletedIsIndexed /\ ThreadsInv /\ BufferInv /\ DiskInv

-----------------------------------------------------------------------------
(* The write queue as a set.                                               *)

LEMMA QueuedAppend ==
    ASSUME NEW S, NEW s \in Seq(S), NEW e \in S
    PROVE  /\ Len(Append(s, e)) = Len(s) + 1
           /\ {Append(s, e)[i] : i \in 1 .. Len(Append(s, e))}
                = {s[i] : i \in 1 .. Len(s)} \cup {e}
<1>1. /\ Append(s, e) \in Seq(S)
      /\ Len(Append(s, e)) = Len(s) + 1
      /\ \A i \in 1 .. Len(s) : Append(s, e)[i] = s[i]
      /\ Append(s, e)[Len(s) + 1] = e
      /\ Len(s) \in Nat
  OBVIOUS
<1>2. 1 .. Len(Append(s, e)) = (1 .. Len(s)) \cup {Len(s) + 1}
  BY <1>1
<1>3. QED  BY <1>1, <1>2

LEMMA QueuedTail ==
    ASSUME NEW S, NEW s \in Seq(S), s # <<>>,
           \A i, j \in 1 .. Len(s) : s[i] = s[j] => i = j
    PROVE  /\ Head(s) \in S
           /\ Tail(s) \in Seq(S)
           /\ Len(Tail(s)) = Len(s) - 1
           /\ \A i, j \in 1 .. Len(Tail(s)) : Tail(s)[i] = Tail(s)[j] => i = j
           /\ Head(s) \in {s[i] : i \in 1 .. Len(s)}
           /\ {Tail(s)[i] : i \in 1 .. Len(Tail(s))}
                = {s[i] : i \in 1 .. Len(s)} \ {Head(s)}
<1>1. /\ Head(s) = s[1] /\ s[1] \in S
      /\ Tail(s) \in Seq(S)
      /\ Len(s) \in Nat \ {0}
      /\ Len(Tail(s)) = Len(s) - 1
      /\ \A i \in 1 .. Len(Tail(s)) : Tail(s)[i] = s[i + 1]
  OBVIOUS
<1>2. 1 .. Len(s) = {1} \cup {i + 1 : i \in 1 .. Len(Tail(s))}
  BY <1>1
<1>3. \A i \in 1 .. Len(Tail(s)) : i + 1 \in 1 .. Len(s) /\ i + 1 # 1
  BY <1>1
<1>4. \A i, j \in 1 .. Len(Tail(s)) : Tail(s)[i] = Tail(s)[j] => i = j
  BY <1>1, <1>3
<1>5. {s[i] : i \in 1 .. Len(s)} = {s[1]} \cup {Tail(s)[i] : i \in 1 .. Len(Tail(s))}
  BY <1>1, <1>2
<1>6. s[1] \notin {Tail(s)[i] : i \in 1 .. Len(Tail(s))}
  BY <1>1, <1>3
<1>7. QED  BY <1>1, <1>4, <1>5, <1>6
-----------------------------------------------------------------------------
\* What a step that positions a stream does to the bytes: a block that has an
\* index entry may be lost, and nothing else.
LEMMA StreamStep ==
    ASSUME SMInv, \/ IoWriteFails
                  \/ \E v \in Images : IoWrite(v)
                  \/ \E c \in Channels : ReadSeek(c)
    PROVE  /\ index' \in [Blocks -> Contents \cup {NoImage}]
           /\ buffer' \in [Channels -> Blocks \cup {NoBlock}]
           /\ image' \in Contents \cup {NoImage}
           /\ io_pc' = "index" => image' \in Contents
           /\ \A x \in Blocks : index'[x] = index[x]
                                \/ (index[x] # NoImage /\ index'[x] = Lost)
           /\ \A x \in Blocks : index[x] # NoImage => index'[x] # NoImage
<1>1. /\ buffer \in [Channels -> Blocks \cup {NoBlock}]
      /\ index \in [Blocks -> Contents \cup {NoImage}]
      /\ image \in Contents \cup {NoImage}
      /\ io_pc = "index" => image \in Contents
      /\ io_pc = "write" => job \in Blocks
      /\ \A x \in Blocks : x[1] \in Channels
      /\ Lost \in Contents
  BY DEF SMInv, TypeOK, ThreadsInv, Working, Blocks, Contents
<1>2. BufferInv
  BY DEF SMInv
<1>3. ASSUME io_pc = "write", SeekEnd
      PROVE  /\ index' \in [Blocks -> Contents \cup {NoImage}]
             /\ \A x \in Blocks : index'[x] = index[x]
                                  \/ (index[x] # NoImage /\ index'[x] = Lost)
  <2>1. job[1] \in Channels
    BY <1>1, <1>3
  <2>2. CASE UNCHANGED index
    BY <1>1, <2>2
  <2>3. CASE /\ buffer[job[1]] # NoBlock
             /\ index' = [index EXCEPT ![buffer[job[1]]] = Lost]
    <3>1. buffer[job[1]] \in Blocks /\ index[buffer[job[1]]] # NoImage
      BY <1>1, <1>2, <1>3, <2>1, <2>3 DEF BufferInv
    <3>2. QED  BY <1>1, <2>3, <3>1
  <2>4. QED  BY <1>3, <2>2, <2>3 DEF SeekEnd
<1>4. CASE IoWriteFails
  <2>1. job \in Blocks
    BY <1>1, <1>4 DEF IoWriteFails
  <2>2. /\ io_pc = "write" /\ SeekEnd /\ io_pc' = "retire" /\ image' = image
        /\ buffer' = [buffer EXCEPT ![job[1]] = NoBlock]
    BY <1>4 DEF IoWriteFails
  <2>3. QED  BY <1>1, <1>3, <2>1, <2>2, NoImageAssumption DEF Contents
<1>5. ASSUME NEW v \in Images, IoWrite(v)
      PROVE  /\ index' \in [Blocks -> Contents \cup {NoImage}]
             /\ buffer' \in [Channels -> Blocks \cup {NoBlock}]
             /\ image' \in Contents
             /\ \A x \in Blocks : index'[x] = index[x]
                                  \/ (index[x] # NoImage /\ index'[x] = Lost)
  BY <1>1, <1>3, <1>5 DEF IoWrite, Contents
<1>6. ASSUME NEW c \in Channels, ReadSeek(c)
      PROVE  /\ index' \in [Blocks -> Contents \cup {NoImage}]
             /\ buffer' \in [Channels -> Blocks \cup {NoBlock}]
             /\ image' \in Contents \cup {NoImage}
             /\ io_pc' = "index" => image' \in Contents
             /\ \A x \in Blocks : index'[x] = index[x]
                                  \/ (index[x] # NoImage /\ index'[x] = Lost)
  <2>1. buffer[c] \in Blocks
    BY <1>1, <1>6 DEF ReadSeek
  <2>2. QED  BY <1>1, <1>6, <2>1 DEF ReadSeek
<1>7. QED  BY <1>4, <1>5, <1>6, NoImageAssumption DEF Contents

(* Types.                                                                  *)
LEMMA TypeStep ==
    ASSUME SMInv, [Next]_vars
    PROVE  TypeOK'
<1> USE ConstantsAssumption DEF ConstantsAssumption
<1> USE DEF SMInv, TypeOK, ThreadsInv, Working, vars, io_vars, call_vars
<1>1. ASSUME NEW x \in Blocks, Enqueue(x) PROVE TypeOK'
  BY <1>1 DEF Enqueue, EnqueueCall
<1>2. ASSUME NEW v \in Images, IoWrite(v) PROVE TypeOK'
  BY <1>2, StreamStep DEF IoWrite
<1>3. CASE EnqueueTest
  BY <1>3 DEF EnqueueTest
<1>4. CASE EnqueueRefuse
  BY <1>4 DEF EnqueueRefuse
<1>5. CASE EnqueuePush
  BY <1>5 DEF EnqueuePush
<1>6. CASE DrainCompleted
  BY <1>6 DEF DrainCompleted
<1>7. CASE IoTake
  BY <1>7 DEF IoTake
<1>8. CASE IoWriteFails
  BY <1>8, StreamStep DEF IoWriteFails
<1>9. CASE IoIndex
  BY <1>9 DEF IoIndex
<1>10. CASE IoUsage
  BY <1>10 DEF IoUsage
<1>11. CASE IoComplete
  BY <1>11 DEF IoComplete
<1>12. CASE IoRetire
  BY <1>12 DEF IoRetire
<1>13. CASE IoExit
  BY <1>13 DEF IoExit
<1>14. CASE Stop
  BY <1>14 DEF Stop
<1>15. CASE Renew
  <2>1. /\ write_queue' \in Seq(Blocks) /\ index' \in [Blocks -> Contents \cup {NoImage}]
        /\ buffer' \in [Channels -> Blocks \cup {NoBlock}]
    BY <1>15 DEF Renew
  <2>2. QED  BY <1>15, <2>1 DEF Renew
<1>16. CASE UNCHANGED vars
  BY <1>16 DEF vars
<1>17. ASSUME NEW c \in Channels, ReadSeek(c) PROVE TypeOK'
  BY <1>17, StreamStep DEF ReadSeek
<1>18. QED
  BY <1>1, <1>2, <1>3, <1>4, <1>5, <1>6, <1>7, <1>8, <1>9, <1>10, <1>11, <1>12, <1>13, <1>14, <1>15, <1>16, <1>17 DEF Next, IoThread

\* A finished job keeps its index entry.
LEMMA CompletedStep ==
    ASSUME SMInv, [Next]_vars
    PROVE  CompletedIsIndexed'
<1> USE ConstantsAssumption DEF ConstantsAssumption
<1> USE DEF SMInv, TypeOK, ThreadsInv, CompletedIsIndexed, Working, vars, io_vars, call_vars
<1>1. ASSUME NEW x \in Blocks, Enqueue(x) PROVE CompletedIsIndexed'
  BY <1>1 DEF Enqueue, EnqueueCall
<1>2. ASSUME NEW v \in Images, IoWrite(v) PROVE CompletedIsIndexed'
  BY <1>2, StreamStep DEF IoWrite
<1>3. CASE EnqueueTest
  BY <1>3 DEF EnqueueTest
<1>4. CASE EnqueueRefuse
  BY <1>4 DEF EnqueueRefuse
<1>5. CASE EnqueuePush
  BY <1>5 DEF EnqueuePush
<1>6. CASE DrainCompleted
  BY <1>6 DEF DrainCompleted
<1>7. CASE IoTake
  BY <1>7 DEF IoTake
<1>8. CASE IoWriteFails
  BY <1>8, StreamStep DEF IoWriteFails
<1>9. CASE IoIndex
  BY <1>9, NoImageAssumption DEF IoIndex
<1>10. CASE IoUsage
  BY <1>10 DEF IoUsage
<1>11. CASE IoComplete
  BY <1>11 DEF IoComplete
<1>12. CASE IoRetire
  BY <1>12 DEF IoRetire
<1>13. CASE IoExit
  BY <1>13 DEF IoExit
<1>14. CASE Stop
  BY <1>14 DEF Stop
<1>15. CASE Renew
  BY <1>15 DEF Renew
<1>16. CASE UNCHANGED vars
  BY <1>16 DEF vars
<1>17. ASSUME NEW c \in Channels, ReadSeek(c) PROVE CompletedIsIndexed'
  BY <1>17, StreamStep DEF ReadSeek
<1>18. QED
  BY <1>1, <1>2, <1>3, <1>4, <1>5, <1>6, <1>7, <1>8, <1>9, <1>10, <1>11, <1>12, <1>13, <1>14, <1>15, <1>16, <1>17 DEF Next, IoThread

\* What is buffered stays indexed.
LEMMA BufferStep ==
    ASSUME SMInv, [Next]_vars
    PROVE  BufferInv'
<1> USE LostAssumption, NoImageAssumption DEF BufferInv, Contents, vars, io_vars, call_vars
<1>0. /\ buffer \in [Channels -> Blocks \cup {NoBlock}]
      /\ index \in [Blocks -> Contents \cup {NoImage}]
      /\ BufferInv
      /\ io_pc = "index" => image \in Contents
      /\ io_pc \in Working => job \in Blocks
      /\ \A x \in Blocks : x[1] \in Channels
  BY DEF SMInv, TypeOK, ThreadsInv, Working, Blocks
<1>1. ASSUME NEW x \in Blocks, Enqueue(x) PROVE BufferInv'
  BY <1>0, <1>1 DEF Enqueue, EnqueueCall
<1>2. ASSUME NEW v \in Images, IoWrite(v) PROVE BufferInv'
  BY <1>0, <1>2 DEF IoWrite, SeekEnd, Working
<1>3. CASE EnqueueTest \/ EnqueueRefuse \/ EnqueuePush \/ DrainCompleted \/ Stop
  BY <1>0, <1>3 DEF EnqueueTest, EnqueueRefuse, EnqueuePush, DrainCompleted, Stop
<1>4. CASE IoTake
  BY <1>0, <1>4 DEF IoTake
<1>5. CASE IoWriteFails
  BY <1>0, <1>5 DEF IoWriteFails, SeekEnd, Working
<1>6. CASE IoIndex
  BY <1>0, <1>6 DEF IoIndex, Working
<1>7. CASE IoUsage \/ IoComplete \/ IoRetire \/ IoExit
  BY <1>0, <1>7 DEF IoUsage, IoComplete, IoRetire, IoExit
<1>8. CASE Renew
  BY <1>8 DEF Renew
<1>9. ASSUME NEW c \in Channels, ReadSeek(c) PROVE BufferInv'
  BY <1>0, <1>9 DEF ReadSeek
<1>10. CASE UNCHANGED vars
  BY <1>0, <1>10
<1>11. QED
  BY <1>1, <1>2, <1>3, <1>4, <1>5, <1>6, <1>7, <1>8, <1>9, <1>10 DEF Next, IoThread

\* The room taken up by blocks on their way to disk.
LEMMA DiskStep ==
    ASSUME SMInv, [Next]_vars
    PROVE  DiskInv'
<1> USE ConstantsAssumption DEF ConstantsAssumption
<1> USE DEF SMInv, TypeOK, DiskInv, Spoken, disk_full, vars, io_vars, call_vars
<1>1. ASSUME NEW x \in Blocks, Enqueue(x) PROVE DiskInv'
  BY <1>1 DEF Enqueue, EnqueueCall
<1>2. ASSUME NEW v \in Images, IoWrite(v) PROVE DiskInv'
  BY <1>2, StreamStep DEF IoWrite
<1>3. CASE EnqueueTest
  BY <1>3 DEF EnqueueTest
<1>4. CASE EnqueueRefuse
  BY <1>4 DEF EnqueueRefuse
<1>5. CASE EnqueuePush
  BY <1>5 DEF EnqueuePush
<1>6. CASE DrainCompleted
  BY <1>6 DEF DrainCompleted
<1>7. CASE IoTake
  BY <1>7 DEF IoTake
<1>8. CASE IoWriteFails
  BY <1>8, StreamStep DEF IoWriteFails
<1>9. CASE IoIndex
  BY <1>9 DEF IoIndex
<1>10. CASE IoUsage
  BY <1>10 DEF IoUsage
<1>11. CASE IoComplete
  BY <1>11 DEF IoComplete
<1>12. CASE IoRetire
  BY <1>12 DEF IoRetire
<1>13. CASE IoExit
  BY <1>13 DEF IoExit
<1>14. CASE Stop
  BY <1>14 DEF Stop
<1>15. CASE Renew
  BY <1>15 DEF Renew
<1>16. CASE UNCHANGED vars
  BY <1>16 DEF vars
<1>17. ASSUME NEW c \in Channels, ReadSeek(c) PROVE DiskInv'
  BY <1>17, StreamStep DEF ReadSeek
<1>18. QED
  BY <1>1, <1>2, <1>3, <1>4, <1>5, <1>6, <1>7, <1>8, <1>9, <1>10, <1>11, <1>12, <1>13, <1>14, <1>15, <1>16, <1>17 DEF Next, IoThread


\* No block is in two places, and each thread's block is where it should be.
LEMMA OnceStep ==
    ASSUME SMInv, [Next]_vars
    PROVE  QueuedOnce' /\ ThreadsInv'
<1> USE ConstantsAssumption
<1> USE DEF SMInv, TypeOK, QueuedOnce, ThreadsInv, Working, vars, io_vars, call_vars
<1>1. ASSUME NEW x \in Blocks, Enqueue(x) PROVE QueuedOnce' /\ ThreadsInv'
  BY <1>1 DEF Enqueue, EnqueueCall, UnderWay, Queued, InHand
<1>2. ASSUME NEW v \in Images, IoWrite(v) PROVE QueuedOnce' /\ ThreadsInv'
  BY <1>2, StreamStep DEF IoWrite, UnderWay, Queued, InHand
<1>3. CASE EnqueueTest
  BY <1>3 DEF EnqueueTest, UnderWay, Queued, InHand
<1>4. CASE EnqueueRefuse
  BY <1>4 DEF EnqueueRefuse, UnderWay, Queued, InHand
<1>5. CASE EnqueuePush
  <2>1. /\ write_queue' = Append(write_queue, enq_block)
        /\ enq_block \in Blocks /\ enq_block \notin UnderWay
        /\ call' = "none"
    BY <1>5 DEF EnqueuePush
  <2>2. Queued' = Queued \cup {enq_block}
    BY <2>1, QueuedAppend DEF Queued
  <2>3. \A i, j \in 1 .. Len(write_queue') : write_queue'[i] = write_queue'[j] => i = j
    BY <2>1 DEF UnderWay, Queued
  <2>4. QED  BY <1>5, <2>1, <2>2, <2>3 DEF EnqueuePush, UnderWay, InHand
<1>6. CASE DrainCompleted
  BY <1>6 DEF DrainCompleted, UnderWay, Queued, InHand
<1>7. CASE IoTake
  <2>1. /\ write_queue # <<>> /\ io_pc = "wait" /\ io_pc' = "write"
        /\ job' = Head(write_queue) /\ write_queue' = Tail(write_queue)
    BY <1>7 DEF IoTake
  <2>0. /\ write_queue \in Seq(Blocks)
        /\ \A i, j \in 1 .. Len(write_queue) : write_queue[i] = write_queue[j] => i = j
    OBVIOUS
  <2>a. /\ Head(write_queue) \in Blocks
        /\ \A i, j \in 1 .. Len(Tail(write_queue)) :
              Tail(write_queue)[i] = Tail(write_queue)[j] => i = j
        /\ Head(write_queue) \in {write_queue[i] : i \in 1 .. Len(write_queue)}
        /\ {Tail(write_queue)[i] : i \in 1 .. Len(Tail(write_queue))}
              = {write_queue[i] : i \in 1 .. Len(write_queue)} \ {Head(write_queue)}
    <3> HIDE DEF SMInv, TypeOK, QueuedOnce, ThreadsInv
    <3>1. QED  BY <2>0, <2>1, QueuedTail
  <2>2. /\ Queued' = Queued \ {Head(write_queue)}
        /\ Head(write_queue) \in Queued /\ Head(write_queue) \in Blocks
        /\ \A i, j \in 1 .. Len(write_queue') :
              write_queue'[i] = write_queue'[j] => i = j
    <3> HIDE DEF SMInv, TypeOK, QueuedOnce, ThreadsInv
    <3>1. Queued' = {Tail(write_queue)[i] : i \in 1 .. Len(Tail(write_queue))}
      BY <2>1 DEF Queued
    <3>2. \A i, j \in 1 .. Len(write_queue') : write_queue'[i] = write_queue'[j] => i = j
      BY <2>1, <2>a
    <3>3. QED  BY <2>a, <3>1, <3>2 DEF Queued
  <2>3. InHand = {} /\ InHand' = {Head(write_queue)}
    BY <2>1 DEF InHand
  <2>4. QED  BY <1>7, <2>1, <2>2, <2>3 DEF IoTake, UnderWay
<1>8. CASE IoWriteFails
  BY <1>8, StreamStep DEF IoWriteFails, UnderWay, Queued, InHand
<1>9. CASE IoIndex
  BY <1>9, NoImageAssumption DEF IoIndex, UnderWay, Queued, InHand
<1>10. CASE IoUsage
  BY <1>10 DEF IoUsage, UnderWay, Queued, InHand
<1>11. CASE IoComplete
  BY <1>11 DEF IoComplete, UnderWay, Queued, InHand
<1>12. CASE IoRetire
  BY <1>12 DEF IoRetire, UnderWay, Queued, InHand
<1>13. CASE IoExit
  BY <1>13 DEF IoExit, UnderWay, Queued, InHand
<1>14. CASE Stop
  BY <1>14 DEF Stop, UnderWay, Queued, InHand
<1>15. CASE Renew
  <2>1. /\ Len(write_queue') = 0 /\ call' = "none" /\ ~stop_io'
        /\ io_pc' \in {"wait", "absent"}
        /\ completed' = {} /\ failed' = {}
    BY <1>15 DEF Renew, ConstantsAssumption
  <2>2. Queued' = {} /\ InHand' = {}
    BY <2>1 DEF Queued, InHand
  <2>3. QED  BY <2>1, <2>2
<1>16. CASE UNCHANGED vars
  BY <1>16 DEF UnderWay, Queued, InHand
<1>17. ASSUME NEW c \in Channels, ReadSeek(c) PROVE QueuedOnce' /\ ThreadsInv'
  <2>1. /\ UNCHANGED <<write_queue, job, io_pc, completed, failed, call, enq_block, stop_io>>
        /\ io_pc' = "index" => image' \in Contents
        /\ \A x \in Blocks : index[x] # NoImage => index'[x] # NoImage
    BY <1>17, StreamStep DEF ReadSeek
  <2>2. UnderWay' = UnderWay /\ Queued' = Queued /\ InHand' = InHand
    BY <2>1 DEF UnderWay, Queued, InHand
  <2>3. QED  BY <2>1, <2>2
<1>18. QED
  BY <1>1, <1>2, <1>3, <1>4, <1>5, <1>6, <1>7, <1>8, <1>9, <1>10, <1>11, <1>12, <1>13, <1>14, <1>15, <1>16, <1>17 DEF Next, IoThread

-----------------------------------------------------------------------------
(* Which jobs are under way.                                               *)

LEMMA PushUnderWay ==
    ASSUME SMInv, EnqueuePush
    PROVE  UnderWay' = UnderWay \cup {enq_block}
<1>1. /\ write_queue \in Seq(Blocks) /\ enq_block \in Blocks
      /\ write_queue' = Append(write_queue, enq_block)
  BY DEF SMInv, TypeOK, ThreadsInv, EnqueuePush
<1>2. Queued' = Queued \cup {enq_block}
  BY <1>1, QueuedAppend DEF Queued
<1>3. QED  BY <1>2 DEF EnqueuePush, UnderWay, InHand, io_vars

LEMMA DrainUnderWay ==
    ASSUME SMInv, DrainCompleted
    PROVE  UnderWay' = UnderWay \ completed
BY DEF SMInv, QueuedOnce, DrainCompleted, UnderWay, Queued, InHand, io_vars

LEMMA IoUnderWay ==
    ASSUME SMInv, IoTake \/ IoWriteFails \/ IoIndex \/ IoUsage \/ IoComplete
                  \/ IoRetire \/ IoExit \/ \E v \in Images : IoWrite(v)
    PROVE  UnderWay' = UnderWay
<1>1. CASE IoTake
  <2>1. /\ write_queue \in Seq(Blocks) /\ write_queue # <<>>
        /\ \A i, j \in 1 .. Len(write_queue) : write_queue[i] = write_queue[j] => i = j
        /\ write_queue' = Tail(write_queue)
    BY <1>1 DEF SMInv, TypeOK, QueuedOnce, IoTake
  <2>2. Queued' = Queued \ {Head(write_queue)} /\ Head(write_queue) \in Queued
    BY <2>1, QueuedTail DEF Queued
  <2>3. InHand = {} /\ InHand' = {Head(write_queue)}
    BY <1>1 DEF IoTake, InHand
  <2>4. QED  BY <1>1, <2>2, <2>3 DEF IoTake, UnderWay
<1>2. CASE ~IoTake
  BY <1>2 DEF IoWriteFails, IoIndex, IoUsage, IoComplete, IoRetire, IoExit, IoWrite,
              UnderWay, Queued, InHand
<1>3. QED  BY <1>1, <1>2

-----------------------------------------------------------------------------
LEMMA SMInvInit ==
    ASSUME Init
    PROVE  SMInv
<1>1. write_queue \in Seq(Blocks) /\ Len(write_queue) = 0
  BY DEF Init
<1>2. TypeOK
  BY <1>1, ConstantsAssumption DEF Init, TypeOK, ConstantsAssumption
<1>3. QueuedOnce /\ CompletedIsIndexed /\ ThreadsInv
  BY <1>1, ConstantsAssumption
  DEF Init, QueuedOnce, CompletedIsIndexed, ThreadsInv, Working, Queued, InHand,
      ConstantsAssumption
<1>4. DiskInv
  BY <1>1, ConstantsAssumption DEF Init, DiskInv, Spoken, ConstantsAssumption
<1>5. BufferInv
  BY DEF Init, BufferInv
<1>6. QED  BY <1>2, <1>3, <1>4, <1>5 DEF SMInv

LEMMA SMInvStep ==
    ASSUME SMInv, [Next]_vars
    PROVE  SMInv'
BY TypeStep, CompletedStep, BufferStep, DiskStep, OnceStep DEF SMInv

THEOREM SMInvariant == Spec => []SMInv
<1>1. Init => SMInv
  BY SMInvInit
<1>2. SMInv /\ [Next]_vars => SMInv'
  BY SMInvStep
<1>3. QED  BY <1>1, <1>2, PTL DEF Spec

\* The variables of the manager keep their types (spillmanager.h 60-130).
THEOREM TypeCorrect == Spec => []TypeOK
BY SMInvariant, PTL DEF SMInv

\* However enqueue_spill, drain_completed and the I/O thread interleave, no
\* block is in two of: queue, hand of the I/O thread, finished, failed.
THEOREM EveryJobOnce == Spec => []QueuedOnce
BY SMInvariant, PTL DEF SMInv

\* drain_completed never reports a block that has no index entry; its bytes may
\* still be in the stream's buffer.
THEOREM ReportedIsIndexed == Spec => []CompletedIsIndexed
BY SMInvariant, PTL DEF SMInv

\* The disk is overshot by at most a full write queue and one block, whatever
\* the limit, the queue depth and the number of blocks.
THEOREM OvershootBounded == Spec => []DiskOvershoot
<1>1. SMInv => DiskOvershoot
  <2>1. ASSUME SMInv, DISK_LIMIT > 0
        PROVE  disk_usage <= DISK_LIMIT + MAX_QUEUE_DEPTH + 1
    <3>1. /\ disk_usage \in Nat /\ Len(write_queue) \in Nat
          /\ Spoken <= DISK_LIMIT + MAX_QUEUE_DEPTH + 1
      BY <2>1 DEF SMInv, TypeOK, DiskInv
    <3>2. QED  BY <3>1, ConstantsAssumption DEF Spoken, ConstantsAssumption
  <2>2. QED  BY <2>1 DEF DiskOvershoot
<1>2. QED  BY <1>1, SMInvariant, PTL
=============================================================================
