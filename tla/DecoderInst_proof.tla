--------------------------- MODULE DecoderInst_proof ---------------------------
(***************************************************************************)
(* Proofs about DecoderInst, for any length of chunks and of the capture.  *)
(*                                                                         *)
(* The argument is about who has the chunk.  While the decoder's thread is *)
(* in decode(), termination is asked for only by a client that joins; a    *)
(* client inside srd_inst_decode either has its chunk lent (got_new) or    *)
(* has it back (handled_all); and anywhere else nothing is lent and the    *)
(* decoder stands where the next chunk begins.                             *)
(***************************************************************************)
EXTENDS DecoderInst, TLAPS

\* TypeOK in parts the provers can handle
Controls ==
    /\ kind \in KINDS
    /\ feeder \in {"idle", "give", "wait", "join", "freed"}
    /\ thread \in {"none", "run", "wait", "told", "left", "gone"}
    /\ asleep \subseteq {"feeder", "thread"}
    /\ result \in {"ok", "arg", "term"}
    /\ cond \in {"next", "any"}

Flags ==
    /\ got_new \in BOOLEAN /\ handled_all \in BOOLEAN
    /\ want_term \in BOOLEAN /\ stop_signal \in BOOLEAN /\ err \in BOOLEAN
    /\ first_pos \in BOOLEAN /\ matched \in BOOLEAN

Numbers ==
    /\ cur \in Samples /\ fed \in Samples /\ to \in Samples /\ tested \in Samples
    /\ skipped \subseteq Samples /\ jumped \subseteq Samples

Lent == buf \in (Samples \X Samples) \cup {NoChunk}

LEMMA TypeParts == TypeOK <=> Controls /\ Flags /\ Numbers /\ Lent
  BY DEF TypeOK, Controls, Flags, Numbers, Lent

Outside ==
    /\ thread = "none" => /\ feeder \in {"idle", "freed"}
                          /\ buf = NoChunk /\ first_pos /\ ~matched
                          /\ ~got_new /\ ~want_term /\ tested = fed
    /\ feeder = "idle" => thread \in {"none", "wait", "gone"}
    /\ feeder = "freed" => thread \in {"none", "gone"}
    /\ thread = "told" => feeder = "join"
    /\ thread = "left" /\ feeder # "join" => ~want_term
    /\ thread = "left" /\ feeder = "wait" => ~handled_all
    /\ result = "arg" => thread = "gone"

Handshake ==
    /\ Alive /\ feeder # "join" => ~want_term
    /\ Alive /\ feeder # "wait" => buf = NoChunk /\ ~got_new
    /\ Alive /\ feeder = "idle" => cur = fed /\ ~first_pos
    /\ Alive /\ feeder = "give" => cur = fed
    /\ Alive /\ feeder = "wait" /\ buf # NoChunk =>
          buf = <<fed, to>> /\ got_new /\ ~handled_all
    /\ Alive /\ feeder = "wait" /\ buf = NoChunk =>
          handled_all /\ ~got_new /\ cur = to /\ ~first_pos /\ thread = "wait"
    /\ feeder \in {"give", "wait"} => to - fed \in 1 .. MAX_CHUNK

\* Either the sample at cur was examined and returned, or cur is the next one,
\* which is the first of a chunk.
Position ==
    Alive =>
      /\ first_pos => ~matched /\ tested = fed /\ (buf # NoChunk => cur = fed)
      /\ ~first_pos => \/ matched /\ tested = cur + 1
                       \/ tested = cur /\ (buf # NoChunk => cur = buf[1])

IInv == TypeOK /\ Outside /\ Handshake /\ Position

LEMMA InitInv == Init => IInv
<1> SUFFICES ASSUME Init PROVE IInv
  OBVIOUS
<1> USE InstAssumption DEF InstAssumption, Init, Alive, Samples
<1>1. Controls
  BY DEF Controls
<1>2. Flags
  BY DEF Flags
<1>3. Numbers
  BY DEF Numbers
<1>4. Lent
  BY DEF Lent
<1>5. Outside
  BY DEF Outside
<1>6. Handshake
  BY DEF Handshake
<1>7. Position
  BY DEF Position
<1> QED
  BY <1>1, <1>2, <1>3, <1>4, <1>5, <1>6, <1>7, TypeParts DEF IInv

LEMMA StepInv == IInv /\ [Next]_vars => IInv'
<1> SUFFICES ASSUME IInv, [Next]_vars PROVE IInv'
  OBVIOUS
<1>0. Controls /\ Flags /\ Numbers /\ Lent /\ Outside /\ Handshake /\ Position
  BY TypeParts DEF IInv
<1>a. ASSUME Controls', Flags', Numbers', Lent', Outside', Handshake', Position' PROVE IInv'
  BY <1>a, TypeParts DEF TypeOK, Controls, Flags, Numbers, Lent, IInv
<1> USE <1>0, InstAssumption DEF InstAssumption, Controls, Flags, Numbers, Lent, Outside,
                                 Handshake, Position, Alive, Samples, flags, search, client
<1>1. ASSUME NEW n \in 1 .. MAX_CHUNK, DecodeCall(n) PROVE IInv'
  <2>1. Controls'
    BY <1>1 DEF DecodeCall
  <2>2. Flags'
    BY <1>1 DEF DecodeCall
  <2>3. Numbers'
    BY <1>1 DEF DecodeCall
  <2>4. Lent'
    BY <1>1 DEF DecodeCall
  <2>5. Outside'
    BY <1>1 DEF DecodeCall
  <2>6. Handshake'
    BY <1>1 DEF DecodeCall
  <2>7. Position'
    BY <1>1 DEF DecodeCall
  <2> QED
    BY ONLY <1>a, <2>1, <2>2, <2>3, <2>4, <2>5, <2>6, <2>7
<1>2. CASE Give
  <2>1. Controls'
    BY <1>2 DEF Give
  <2>2. Flags'
    BY <1>2 DEF Give
  <2>3. Numbers'
    BY <1>2 DEF Give
  <2>4. Lent'
    BY <1>2 DEF Give
  <2>5. Outside'
    BY <1>2 DEF Give
  <2>6. Handshake'
    BY <1>2 DEF Give
  <2>7. Position'
    BY <1>2 DEF Give
  <2> QED
    BY ONLY <1>a, <2>1, <2>2, <2>3, <2>4, <2>5, <2>6, <2>7
<1>3. CASE FeederSleep
  <2>1. Controls'
    BY <1>3 DEF FeederSleep
  <2>2. Flags'
    BY <1>3 DEF FeederSleep
  <2>3. Numbers'
    BY <1>3 DEF FeederSleep
  <2>4. Lent'
    BY <1>3 DEF FeederSleep
  <2>5. Outside'
    BY <1>3 DEF FeederSleep
  <2>6. Handshake'
    BY <1>3 DEF FeederSleep
  <2>7. Position'
    BY <1>3 DEF FeederSleep
  <2> QED
    BY ONLY <1>a, <2>1, <2>2, <2>3, <2>4, <2>5, <2>6, <2>7
<1>4. CASE FeederReturn
  <2>1. Controls'
    BY <1>4 DEF FeederReturn, Answered
  <2>2. Flags'
    BY <1>4 DEF FeederReturn, Answered
  <2>3. Numbers'
    BY <1>4 DEF FeederReturn, Answered
  <2>4. Lent'
    BY <1>4 DEF FeederReturn, Answered
  <2>5. Outside'
    BY <1>4 DEF FeederReturn, Answered
  <2>6. Handshake'
    BY <1>4 DEF FeederReturn, Answered
  <2>7. Position'
    BY <1>4 DEF FeederReturn, Answered
  <2> QED
    BY ONLY <1>a, <2>1, <2>2, <2>3, <2>4, <2>5, <2>6, <2>7
<1>5. CASE Destroy
  <2>1. Controls'
    BY <1>5 DEF Destroy
  <2>2. Flags'
    BY <1>5 DEF Destroy
  <2>3. Numbers'
    BY <1>5 DEF Destroy
  <2>4. Lent'
    BY <1>5 DEF Destroy
  <2>5. Outside'
    BY <1>5 DEF Destroy
  <2>6. Handshake'
    BY <1>5 DEF Destroy
  <2>7. Position'
    BY <1>5 DEF Destroy
  <2> QED
    BY ONLY <1>a, <2>1, <2>2, <2>3, <2>4, <2>5, <2>6, <2>7
<1>6. CASE Joined
  <2>1. Controls'
    BY <1>6 DEF Joined
  <2>2. Flags'
    BY <1>6 DEF Joined
  <2>3. Numbers'
    BY <1>6 DEF Joined
  <2>4. Lent'
    BY <1>6 DEF Joined
  <2>5. Outside'
    BY <1>6 DEF Joined
  <2>6. Handshake'
    BY <1>6 DEF Joined
  <2>7. Position'
    BY <1>6 DEF Joined
  <2> QED
    BY ONLY <1>a, <2>1, <2>2, <2>3, <2>4, <2>5, <2>6, <2>7
<1>7. ASSUME NEW c \in {"next", "any"}, Wait(c) PROVE IInv'
  <2>1. Controls'
    BY <1>7 DEF Wait
  <2>2. Flags'
    BY <1>7 DEF Wait
  <2>3. Numbers'
    BY <1>7 DEF Wait
  <2>4. Lent'
    BY <1>7 DEF Wait
  <2>5. Outside'
    BY <1>7 DEF Wait
  <2>6. Handshake'
    BY <1>7 DEF Wait
  <2>7. Position'
    BY <1>7 DEF Wait
  <2> QED
    BY ONLY <1>a, <2>1, <2>2, <2>3, <2>4, <2>5, <2>6, <2>7
<1>8. CASE ThreadSleep
  <2>1. Controls'
    BY <1>8 DEF ThreadSleep
  <2>2. Flags'
    BY <1>8 DEF ThreadSleep
  <2>3. Numbers'
    BY <1>8 DEF ThreadSleep
  <2>4. Lent'
    BY <1>8 DEF ThreadSleep
  <2>5. Outside'
    BY <1>8 DEF ThreadSleep
  <2>6. Handshake'
    BY <1>8 DEF ThreadSleep
  <2>7. Position'
    BY <1>8 DEF ThreadSleep
  <2> QED
    BY ONLY <1>a, <2>1, <2>2, <2>3, <2>4, <2>5, <2>6, <2>7
<1>9. CASE WaitTerminated
  <2>1. Controls'
    BY <1>9 DEF WaitTerminated, HandBack
  <2>2. Flags'
    BY <1>9 DEF WaitTerminated, HandBack
  <2>3. Numbers'
    BY <1>9 DEF WaitTerminated, HandBack
  <2>4. Lent'
    BY <1>9 DEF WaitTerminated, HandBack
  <2>5. Outside'
    BY <1>9 DEF WaitTerminated, HandBack
  <2>6. Handshake'
    BY <1>9 DEF WaitTerminated, HandBack
  <2>7. Position'
    BY <1>9 DEF WaitTerminated, HandBack
  <2> QED
    BY ONLY <1>a, <2>1, <2>2, <2>3, <2>4, <2>5, <2>6, <2>7
<1>10. ASSUME NEW m \in Samples, Found(m) PROVE IInv'
  <2>1. Controls'
    BY <1>10 DEF Found, Searching, PassOver, Pos
  <2>2. Flags'
    BY <1>10 DEF Found, Searching, PassOver, Pos
  <2>3. Numbers'
    BY <1>10 DEF Found, Searching, PassOver, Pos
  <2>4. Lent'
    BY <1>10 DEF Found, Searching, PassOver, Pos
  <2>5. Outside'
    BY <1>10 DEF Found, Searching, PassOver, Pos
  <2>6. Handshake'
    BY <1>10 DEF Found, Searching, PassOver, Pos
  <2>7. Position'
    BY <1>10 DEF Found, Searching, PassOver, Pos
  <2> QED
    BY ONLY <1>a, <2>1, <2>2, <2>3, <2>4, <2>5, <2>6, <2>7
<1>11. CASE NotFound
  <2>1. Controls'
    BY <1>11 DEF NotFound, ReachEnd, Searching, PassOver, Pos, HandBack
  <2>2. Flags'
    BY <1>11 DEF NotFound, ReachEnd, Searching, PassOver, Pos, HandBack
  <2>3. Numbers'
    BY <1>11 DEF NotFound, ReachEnd, Searching, PassOver, Pos, HandBack
  <2>4. Lent'
    BY <1>11 DEF NotFound, ReachEnd, Searching, PassOver, Pos, HandBack
  <2>5. Outside'
    BY <1>11 DEF NotFound, ReachEnd, Searching, PassOver, Pos, HandBack
  <2>6. Handshake'
    BY <1>11 DEF NotFound, ReachEnd, Searching, PassOver, Pos, HandBack
  <2>7. Position'
    BY <1>11 DEF NotFound, ReachEnd, Searching, PassOver, Pos, HandBack
  <2> QED
    BY ONLY <1>a, <2>1, <2>2, <2>3, <2>4, <2>5, <2>6, <2>7
<1>12. CASE Leave
  <2>1. Controls'
    BY <1>12 DEF Leave
  <2>2. Flags'
    BY <1>12 DEF Leave
  <2>3. Numbers'
    BY <1>12 DEF Leave
  <2>4. Lent'
    BY <1>12 DEF Leave
  <2>5. Outside'
    BY <1>12 DEF Leave
  <2>6. Handshake'
    BY <1>12 DEF Leave
  <2>7. Position'
    BY <1>12 DEF Leave
  <2> QED
    BY ONLY <1>a, <2>1, <2>2, <2>3, <2>4, <2>5, <2>6, <2>7
<1>13. CASE ThreadEnd
  <2>1. Controls'
    BY <1>13 DEF ThreadEnd
  <2>2. Flags'
    BY <1>13 DEF ThreadEnd
  <2>3. Numbers'
    BY <1>13 DEF ThreadEnd
  <2>4. Lent'
    BY <1>13 DEF ThreadEnd
  <2>5. Outside'
    BY <1>13 DEF ThreadEnd
  <2>6. Handshake'
    BY <1>13 DEF ThreadEnd
  <2>7. Position'
    BY <1>13 DEF ThreadEnd
  <2> QED
    BY ONLY <1>a, <2>1, <2>2, <2>3, <2>4, <2>5, <2>6, <2>7
<1>14. CASE SpuriousWakeup
  <2>1. Controls'
    BY <1>14 DEF SpuriousWakeup
  <2>2. Flags'
    BY <1>14 DEF SpuriousWakeup
  <2>3. Numbers'
    BY <1>14 DEF SpuriousWakeup
  <2>4. Lent'
    BY <1>14 DEF SpuriousWakeup
  <2>5. Outside'
    BY <1>14 DEF SpuriousWakeup
  <2>6. Handshake'
    BY <1>14 DEF SpuriousWakeup
  <2>7. Position'
    BY <1>14 DEF SpuriousWakeup
  <2> QED
    BY ONLY <1>a, <2>1, <2>2, <2>3, <2>4, <2>5, <2>6, <2>7
<1>15. CASE UNCHANGED vars
  <2>1. Controls'
    BY <1>15 DEF vars
  <2>2. Flags'
    BY <1>15 DEF vars
  <2>3. Numbers'
    BY <1>15 DEF vars
  <2>4. Lent'
    BY <1>15 DEF vars
  <2>5. Outside'
    BY <1>15 DEF vars
  <2>6. Handshake'
    BY <1>15 DEF vars
  <2>7. Position'
    BY <1>15 DEF vars
  <2> QED
    BY ONLY <1>a, <2>1, <2>2, <2>3, <2>4, <2>5, <2>6, <2>7
<1>16. CASE Jump
  <2>1. Controls'
    BY <1>16 DEF Jump, ReachEnd, Searching, PassOver, Pos, HandBack
  <2>2. Flags'
    BY <1>16 DEF Jump, ReachEnd, Searching, PassOver, Pos, HandBack
  <2>3. Numbers'
    <3>1. /\ cur' = buf[2] /\ tested' = buf[2] /\ UNCHANGED <<fed, to>>
          /\ skipped' = skipped \cup tested .. Pos - 1
          /\ jumped' = jumped \cup (Pos + 1) .. (buf[2] - 1)
          /\ Pos + 1 < buf[2]
      BY <1>16 DEF Jump, ReachEnd, PassOver
    <3>2. buf[2] \in Samples
      BY <1>16 DEF Jump, ReachEnd, Searching
    <3>3. Pos \in Nat /\ tested \in Nat
      BY DEF Pos
    <3>4. tested .. Pos - 1 \subseteq Samples /\ (Pos + 1) .. (buf[2] - 1) \subseteq Samples
      BY ONLY TOTAL \in Nat, <3>1, <3>2, <3>3 DEF Samples
    <3> QED
      BY <3>1, <3>2, <3>4
  <2>4. Lent'
    BY <1>16 DEF Jump, ReachEnd, Searching, PassOver, Pos, HandBack
  <2>5. Outside'
    BY <1>16 DEF Jump, ReachEnd, Searching, PassOver, Pos, HandBack
  <2>6. Handshake'
    BY <1>16 DEF Jump, ReachEnd, Searching, PassOver, Pos, HandBack
  <2>7. Position'
    BY <1>16 DEF Jump, ReachEnd, Searching, PassOver, Pos, HandBack
  <2> QED
    BY ONLY <1>a, <2>1, <2>2, <2>3, <2>4, <2>5, <2>6, <2>7
<1> QED
  BY ONLY [Next]_vars, <1>1, <1>2, <1>3, <1>4, <1>5, <1>6, <1>7, <1>8, <1>9, <1>10, <1>11, <1>12, <1>13, <1>14, <1>15, <1>16 DEF Next, FeederStep, ThreadStep

LEMMA Invariant == Spec => []IInv
  BY InitInv, StepInv, PTL DEF Spec

-----------------------------------------------------------------------------
\* Every variable keeps its type.
THEOREM TypeCorrect == Spec => []TypeOK
<1>1. IInv => TypeOK
  BY DEF IInv
<1> QED
  BY Invariant, <1>1, PTL

\* The decoder has the caller's samples only while the caller waits for it.
THEOREM ChunkIsLent == Spec => []BufferLent
<1>1. IInv => BufferLent
  BY DEF IInv, Handshake, BufferLent
<1> QED
  BY Invariant, <1>1, PTL

\* A chunk is refused only after decode() has ended.
THEOREM ChunksAccepted == Spec => []ChunkAccepted
<1>1. IInv => ChunkAccepted
  BY DEF IInv, Outside, ChunkAccepted
<1> QED
  BY Invariant, <1>1, PTL

-----------------------------------------------------------------------------
\* What the search passes over: nothing, or the first sample of the chunk
\* after one whose last sample was returned.
LEMMA PassesOver ==
  ASSUME IInv, Searching, PassOver
  PROVE  skipped' = skipped \/ (matched /\ skipped' = skipped \cup {buf[1]})
<1> USE InstAssumption DEF InstAssumption
<1>1. buf = <<fed, to>> /\ feeder = "wait" /\ cur \in Int /\ fed \in Int /\ tested \in Int
      /\ first_pos \in BOOLEAN /\ matched \in BOOLEAN
  BY DEF IInv, Handshake, Searching, Alive, TypeOK, Samples
<1>2. \/ tested = Pos
      \/ matched /\ tested = cur /\ cur = buf[1] /\ Pos = cur + 1
  BY <1>1 DEF IInv, Position, Searching, Alive, Pos, Handshake
<1>3. CASE tested = Pos
  BY <1>1, <1>3 DEF PassOver, Pos
<1>4. CASE matched /\ tested = cur /\ cur = buf[1] /\ Pos = cur + 1
  <2>1. tested .. Pos - 1 = {buf[1]}
    BY <1>1, <1>4
  <2> QED
    BY <2>1, <1>4 DEF PassOver
<1> QED
  BY <1>2, <1>3, <1>4

\* A search passes over no sample but the first one of a chunk, after a match at
\* the end of the chunk before, and those behind the first one it looked at,
\* where that failed on constant channels.
THEOREM OnlyFirstSkipped == Spec => SkipsOnlyFirst
<1> DEFINE First == skipped' # skipped => matched /\ skipped' = skipped \cup {buf[1]}
           Rest  == jumped' # jumped => /\ cond = "any" /\ Searching
                                        /\ jumped' \ jumped \subseteq (Pos + 1) .. (buf[2] - 1)
<1>1. ASSUME IInv, [Next]_vars
      PROVE  [First /\ Rest]_vars
  <2>1. ASSUME NEW m \in Samples, Found(m)
        PROVE  First /\ Rest
    BY <1>1, <2>1, PassesOver DEF Found
  <2>2. CASE NotFound
    BY <1>1, <2>2, PassesOver DEF NotFound, ReachEnd
  <2>3. CASE Jump
    <3>1. First
      BY <1>1, <2>3, PassesOver DEF Jump, ReachEnd
    <3>2. Rest
      BY <2>3 DEF Jump, ReachEnd
    <3>3. QED  BY <3>1, <3>2
  <2>4. CASE /\ ~ \E m \in Samples : Found(m)
             /\ ~ NotFound /\ ~ Jump
    BY <1>1, <2>4 DEF Next, FeederStep, ThreadStep, vars, search, DecodeCall, Give, FeederSleep,
       FeederReturn, Destroy, Joined, Wait, ThreadSleep, WaitTerminated, Leave, ThreadEnd,
       SpuriousWakeup
  <2> QED
    BY <2>1, <2>2, <2>3, <2>4
<1> QED
  BY Invariant, <1>1, PTL DEF Spec, SkipsOnlyFirst

-----------------------------------------------------------------------------
\* the chunk and the next sample as the client sees them
Seen == IF buf # NoChunk THEN buf[1] ELSE IF first_pos THEN fed ELSE cur
LoanNow == IF thread \in {"left", "gone"} THEN Closed ELSE [lent |-> buf, seen |-> Seen]

LEMMA SeenType == IInv => Seen \in Nat /\ [lent |-> buf, seen |-> Seen] # Closed
<1> SUFFICES ASSUME IInv
             PROVE  Seen \in Nat /\ [lent |-> buf, seen |-> Seen] # Closed
  OBVIOUS
<1>1. fed \in Nat /\ cur \in Nat /\ buf \in (Nat \X Nat) \cup {NoChunk}
  BY InstAssumption DEF InstAssumption, IInv, TypeOK, Samples
<1>2. Seen \in Nat
  BY <1>1 DEF Seen
<1> QED
  BY <1>1, <1>2, InstAssumption DEF InstAssumption

LEMMA LoanInit == Init => \E s \in STARTS : LoanNow = [lent |-> NoChunk, seen |-> s]
  BY DEF Init, LoanNow, Seen

LEMMA LoanStep ==
  ASSUME IInv, IInv', [Next]_vars
  PROVE  [Loan!LNext]_LoanNow
<1> USE DEF LoanNow, flags, search, client
<1>0. Controls /\ Flags /\ Numbers /\ Lent /\ Outside /\ Handshake /\ Position
  BY TypeParts DEF IInv
<1>1. ASSUME NEW n \in 1 .. MAX_CHUNK, DecodeCall(n) PROVE LoanNow' = LoanNow
  BY <1>0, <1>1 DEF DecodeCall, Outside, Seen
<1>2. ASSUME Give PROVE [Loan!LNext]_LoanNow
  <2>1. CASE thread \in {"left", "gone"}
    BY <1>2, <2>1 DEF Give
  <2>2. CASE thread \notin {"left", "gone"}
    <3>1. /\ buf = NoChunk /\ Seen = fed /\ to - fed \in 1 .. MAX_CHUNK
          /\ fed \in Int /\ to \in Int
      BY <1>0, <1>2, <2>2
         DEF Give, Outside, Handshake, Alive, Seen, Controls, Numbers, Samples
    <3>2. LoanNow = [lent |-> NoChunk, seen |-> fed] /\ LoanNow # Closed
      BY <3>1, <2>2, SeenType
    <3>3. buf' = <<fed, fed + (to - fed)>> /\ buf' # NoChunk
      BY <3>1, <1>2, <1>0, InstAssumption
         DEF Give, InstAssumption, Numbers, Samples
    <3>4. Seen' = fed
      BY <3>3 DEF Seen
    <3>5. LoanNow' = [lent |-> <<fed, fed + (to - fed)>>, seen |-> fed]
      BY <3>3, <3>4, <2>2, <1>2 DEF Give
    <3> QED
      BY <3>1, <3>2, <3>5 DEF Loan!LNext, Loan!Lend, Seen
  <2> QED
    BY <2>1, <2>2
<1>3. ASSUME \/ FeederSleep \/ Destroy \/ Joined \/ ThreadSleep \/ ThreadEnd
             \/ SpuriousWakeup \/ UNCHANGED vars
             \/ \E c \in {"next", "any"} : Wait(c)
      PROVE  LoanNow' = LoanNow
  BY <1>0, <1>3 DEF FeederSleep, Destroy, Joined, ThreadSleep, ThreadEnd, SpuriousWakeup, vars,
     Wait, Seen, Controls
<1>4. ASSUME FeederReturn PROVE LoanNow' = LoanNow
  BY <1>0, <1>4 DEF FeederReturn, Answered, Outside, Handshake, Alive, Seen, Controls
<1>5. ASSUME WaitTerminated PROVE LoanNow' = LoanNow
  BY <1>0, <1>5 DEF WaitTerminated, HandBack, Outside, Handshake, Alive, Seen, Controls
<1>6. ASSUME NEW m \in Samples, Found(m) PROVE LoanNow' = LoanNow
  BY <1>0, <1>6, InstAssumption
     DEF Found, Searching, Handshake, Alive, Seen, Controls, Numbers, Samples, InstAssumption
<1>7. ASSUME NotFound \/ Jump PROVE [Loan!LNext]_LoanNow
  <2>1. /\ thread = "wait" /\ thread' = "wait" /\ buf # NoChunk /\ buf' = NoChunk
        /\ cur' = buf[2] /\ first_pos' = FALSE
    BY <1>0, <1>7 DEF NotFound, Jump, ReachEnd, Searching, HandBack, Handshake, Alive, Controls
  <2>2. LoanNow # Closed /\ LoanNow.lent = buf
    BY <2>1, SeenType
  <2>3. LoanNow' = [lent |-> NoChunk, seen |-> buf[2]]
    BY <2>1 DEF Seen
  <2> QED
    BY <2>1, <2>2, <2>3 DEF Loan!LNext, Loan!HandBack, Seen
<1>8. ASSUME Leave PROVE Loan!Close
  BY <1>8 DEF Leave, Loan!Close
<1> QED
  BY ONLY [Next]_vars, <1>1, <1>2, <1>3, <1>4, <1>5, <1>6, <1>7, <1>8
     DEF Next, FeederStep, ThreadStep, Loan!LNext

\* The handshake lends the client's chunks one after another.
THEOREM LendsChunks == Spec => ImplementsLoan
<1>1. Init => Loan!LInit
  BY LoanInit DEF Loan!LInit, LoanNow, Seen
<1>2. ASSUME IInv, IInv', [Next]_vars
      PROVE  [Loan!LNext]_(IF thread \in {"left", "gone"} THEN Closed
                           ELSE [lent |-> buf, seen |-> IF buf # NoChunk THEN buf[1]
                                                        ELSE IF first_pos THEN fed ELSE cur])
  BY <1>2, LoanStep DEF LoanNow, Seen
<1> QED
  BY <1>1, <1>2, Invariant, PTL DEF Spec, ImplementsLoan, Loan!LSpec
-----------------------------------------------------------------------------
(* The wake-ups.  That a call returns is liveness and stays with TLC; what *)
(* it rests on is that no signal is missing, which is safety.              *)

\* Who sleeps on its condition variable, sleeps for a reason, and the two never
\* do so together: a client that sleeps has a decoder that is awake and will
\* answer, and while a session is freed its decoder is awake.
NoLostWakeup ==
    /\ "thread" \in asleep => thread = "wait" /\ ~got_new /\ ~want_term
    /\ "feeder" \in asleep => /\ feeder = "wait" /\ ~Answered
                              /\ thread \in {"run", "wait", "left"}
                              /\ "thread" \notin asleep
    /\ feeder = "join" => "thread" \notin asleep

\* ... from these, of which the last is the termination flag of ThreadEnd and
\* srd_inst_free_all.
Wakes ==
    /\ "thread" \in asleep => thread = "wait" /\ ~got_new /\ ~want_term
    /\ "feeder" \in asleep => feeder = "wait" /\ ~Answered
    /\ thread = "gone" \/ feeder = "join" => want_term

LEMMA WakesStep ==
    ASSUME IInv, Wakes, [Next]_vars
    PROVE  Wakes'
<1>0. /\ asleep \subseteq {"feeder", "thread"}
      /\ thread = "none" => feeder \in {"idle", "freed"}
      /\ thread \in {"run", "told"} => thread # "wait" /\ thread # "gone"
  BY DEF IInv, TypeOK, Outside
<1> USE <1>0 DEF Wakes, Answered, flags, search, client
<1>1. CASE \/ \E n \in 1 .. MAX_CHUNK : DecodeCall(n)
           \/ Give \/ FeederSleep \/ FeederReturn
  BY <1>1 DEF DecodeCall, Give, FeederSleep, FeederReturn
<1>2. CASE Destroy \/ Joined \/ SpuriousWakeup
  BY <1>2 DEF Destroy, Joined, SpuriousWakeup
<1>3. CASE \/ \E c \in {"next", "any"} : Wait(c)
           \/ ThreadSleep \/ WaitTerminated \/ Leave \/ ThreadEnd
  BY <1>3 DEF Wait, ThreadSleep, WaitTerminated, Leave, ThreadEnd, HandBack
<1>4. CASE (\E m \in Samples : Found(m)) \/ NotFound \/ Jump
  BY <1>4 DEF Found, NotFound, Jump, ReachEnd, Searching, HandBack
<1>5. CASE UNCHANGED vars
  BY <1>5 DEF vars
<1>6. QED
  BY <1>1, <1>2, <1>3, <1>4, <1>5 DEF Next, FeederStep, ThreadStep

\* No wake-up is lost between srd_inst_decode, wait() and srd_inst_free_all,
\* for any chunks and any capture (g_cond_wait in a loop under data_mutex,
\* instance.c 1607-1621; the signals of ThreadEnd, HandBack, Give and Destroy).
THEOREM NoWakeupLost == Spec => []NoLostWakeup
<1>1. Init => Wakes
  BY DEF Init, Wakes
<1>2. IInv /\ Wakes /\ [Next]_vars => Wakes'
  BY WakesStep
<1>3. IInv /\ Wakes => NoLostWakeup
  BY DEF IInv, TypeOK, Outside, Handshake, Alive, Wakes, NoLostWakeup, Answered
<1> QED
  BY <1>1, <1>2, <1>3, Invariant, PTL DEF Spec
=============================================================================
