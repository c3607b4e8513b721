--------------------------- MODULE LogicMemory_proof ---------------------------
(***************************************************************************)
(* Proofs about the memory of LogicSnapshot, for any number of channels.   *)
(* First the blocks a decoder reads through a pointer: a block without an  *)
(* edge is kept for it as long as it holds the pointer.  Then the blocks   *)
(* that are counted and the blocks that are in RAM.                        *)
(***************************************************************************)
EXTENDS LogicSnapshot_proof

-----------------------------------------------------------------------------
(* A decoder that has a channel to itself: _cur_ref_block_indexs names the *)
(* block it reads until it asks for another one, so calc_mipmap puts that  *)
(* block aside.                                                            *)

\* Nothing has been captured before the first packet.
Begun ==
    received = 0 => /\ blk = 0 /\ off = 0
                    /\ cap_pc \in {"idle", "endWait", "ended", "cleared", "stopping"}

\* first_payload has seen the decoders.
Kept == received > 0 /\ Decoders # {} => ~able_free

Pointers ==
    \A d \in Decoders : LET x == dec[d].hold IN
        /\ dec[d].lbp # NoBlock => dec[d].lbp[1] = DecoderChannel[d]
        /\ x # NoBlock => /\ dec[d].state = "using" /\ dec[d].lbp = x
                          /\ received > 0
                          /\ cur_ref[x[1]] = x[2]
                          /\ slot[x] = "none" => x \in free_list

\* A step gives up no block that is being referred to.
Spares ==
    /\ free_list \subseteq free_list'
    /\ \A x \in Blocks : slot'[x] = "none" =>
          slot[x] = "none" \/ x \in free_list' \/ able_free \/ x[2] > cur_ref[x[1]]

LEMMA CheckSpares ==
    ASSUME LInv, CheckPending, UNCHANGED free_list
    PROVE  Spares
BY DEF CheckPending, Spares

LEMMA DropSpares ==
    ASSUME LInv, NEW y \in Blocks, DropUniform(y) \/ UNCHANGED <<slot, ram_usage, free_list>>
    PROVE  Spares
<1>1. CASE UNCHANGED <<slot, ram_usage, free_list>>
  BY <1>1 DEF Spares
<1>2. CASE DropUniform(y)
  <2>1. slot' = [slot EXCEPT ![y] = "none"] /\ free_list \subseteq free_list'
    BY <1>2 DEF DropUniform
  <2>2. y \in free_list' \/ able_free \/ y[2] > cur_ref[y[1]]
    BY <1>2 DEF DropUniform
  <2>3. \A x \in Blocks \ {y} : slot'[x] = slot[x]
    BY <2>1 DEF LInv, LTypeOK, SnapTypeOK
  <2>4. QED  BY <2>1, <2>2, <2>3 DEF Spares
<1>3. QED  BY <1>1, <1>2

LEMMA PointersKept ==
    ASSUME LInv, Kept, Pointers, Spares, UNCHANGED <<dec, cur_ref>>,
           received > 0 => received' > 0
    PROVE  Pointers'
<1> SUFFICES ASSUME NEW d \in Decoders
             PROVE  LET x == dec[d].hold IN
                    /\ dec[d].lbp # NoBlock => dec[d].lbp[1] = DecoderChannel[d]
                    /\ x # NoBlock => /\ dec[d].state = "using" /\ dec[d].lbp = x
                                      /\ received' > 0
                                      /\ cur_ref[x[1]] = x[2]
                                      /\ slot'[x] = "none" => x \in free_list'
  BY DEF Pointers
<1> DEFINE x == dec[d].hold
<1>1. SUFFICES ASSUME x # NoBlock, slot'[x] = "none" PROVE x \in free_list'
  BY DEF Pointers
<1>2. x \in Blocks /\ x[2] \in Int
  BY <1>1, ConstantsAssumption
  DEF LInv, LTypeOK, SnapTypeOK, DecoderStates, Blocks, BlockIds, ConstantsAssumption
<1>3. ~able_free /\ cur_ref[x[1]] = x[2] /\ (slot[x] = "none" => x \in free_list)
  BY <1>1 DEF Pointers, Kept
<1>4. QED  BY <1>1, <1>2, <1>3 DEF Spares

\* Before the first packet and after it.
LEMMA BegunStep ==
    ASSUME LInv, Begun, Kept, DECODE_FIRST, [LNext]_all_vars
    PROVE  Begun' /\ Kept'
<1>0. received \in Nat /\ blk \in Nat /\ off \in Nat
  BY ConstantsAssumption, SnapshotAssumption
  DEF LInv, LTypeOK, SnapTypeOK, ConstantsAssumption, SnapshotAssumption
<1> USE DEF Begun, Kept, snap_vars
<1>1. CASE IoNext
  BY <1>1 DEF IoNext
<1>2. ASSUME NEW n \in 1 .. MAX_PACKET, AppendBegin(n) PROVE Begun' /\ Kept'
  <2>1. n \in Nat \ {0}
    BY SnapshotAssumption DEF SnapshotAssumption
  <2>2. received' = received + n /\ received' > 0
    BY <1>0, <1>2, <2>1 DEF AppendBegin
  <2>3. Kept'
    BY <1>0, <1>2, <2>2 DEF AppendBegin
  <2>4. QED  BY <2>2, <2>3
<1>3. CASE AllocateNext \/ Fill \/ FillSentinel \/ NextChannel \/ AppendEnd
  <2>1. received # 0 /\ received' = received /\ able_free' = able_free
    BY <1>3 DEF AllocateNext, Fill, FillSentinel, NextChannel, AppendEnd
  <2>2. QED  BY <2>1
<1>4. CASE Spill
  <2>1. received # 0 /\ received' = received /\ able_free' = able_free
    BY <1>4 DEF Spill, SpillNothing, SpillCheck, SpillRelieved, SpillOldest, SpillTest,
                SpillEnqueued, SpillRefused
  <2>2. QED  BY <2>1
<1>5. CASE End
  <2>1. UNCHANGED <<received, able_free, blk, off>>
    BY <1>5 DEF End, EndBegin, EndIdle, EndTail, EndTailSentinel, EndNext
  <2>2. received = 0 => cap_pc' \in {"endWait", "ended"}
    BY <1>0, <1>5 DEF End, EndBegin, EndIdle, EndTail, EndTailSentinel, EndNext
  <2>3. QED  BY <2>1, <2>2
<1>6. CASE Restart
  BY <1>0, <1>6 DEF Restart, Clear, DeleteManager, NewManager
<1>7. ASSUME NEW d \in Decoders, Decode(d) PROVE Begun' /\ Kept'
  BY <1>7 DEF Decode, StartDecoder, GetSamples, ChunkSent
<1>8. CASE DecodeEnd
  BY <1>8 DEF DecodeEnd
<1>9. CASE UNCHANGED all_vars
  BY <1>9 DEF all_vars
<1>10. ASSUME NEW c \in Channels, ReadSpilled(c) PROVE Begun' /\ Kept'
  BY <1>10 DEF ReadSpilled
<1>11. QED
  BY <1>1, <1>2, <1>3, <1>4, <1>5, <1>6, <1>7, <1>8, <1>9, <1>10 DEF LNext, Append1

\* A decoder asks for its next block.
LEMMA GetSamplesPointers ==
    ASSUME LInv, Begun, Kept, Pointers, NEW d \in Decoders, GetSamples(d),
           \A e \in Decoders : DecoderChannel[e] = DecoderChannel[d] => e = d
    PROVE  Pointers'
<1> DEFINE c == DecoderChannel[d]
           x == <<c, dec[d].at[1]>>
           p == IF slot[x] = "none" THEN NoBlock ELSE x
<1>0. /\ dec \in [Decoders -> DecoderStates] /\ c \in Channels
      /\ cur_ref \in [Channels -> BlockIds] /\ blk \in 0 .. NBLK /\ off \in 0 .. PARTS - 1
      /\ received \in Nat
  BY SnapshotAssumption DEF LInv, LTypeOK, SnapTypeOK, SnapshotAssumption
<1>1. /\ Before(dec[d].at, <<blk, off>>)
      /\ cur_ref' = IF slot[x] = "none" THEN cur_ref ELSE [cur_ref EXCEPT ![c] = x[2]]
      /\ \A y \in free_list : y # dec[d].lbp => y \in free_list'
      /\ dec' = [dec EXCEPT ![d] =
                   [state |-> "using", at |-> dec[d].at, to |-> ChunkEnd(dec[d].at),
                    lbp |-> p, hold |-> IF slot[x] = "ram" THEN x ELSE NoBlock]]
      /\ UNCHANGED <<slot, received>>
  BY DEF GetSamples
<1>2. received > 0
  <2>1. dec[d].at \in Positions
    BY <1>0 DEF DecoderStates
  <2>2. dec[d].at[1] \in Nat /\ dec[d].at[2] \in Nat
    BY <2>1, ConstantsAssumption DEF Positions, ConstantsAssumption
  <2>3. blk # 0 \/ off # 0
    BY <1>1, <2>2 DEF Before
  <2>4. QED  BY <1>0, <2>3 DEF Begun
<1>3. ASSUME NEW e \in Decoders
      PROVE  LET y == dec'[e].hold IN
             /\ dec'[e].lbp # NoBlock => dec'[e].lbp[1] = DecoderChannel[e]
             /\ y # NoBlock => /\ dec'[e].state = "using" /\ dec'[e].lbp = y
                               /\ received > 0
                               /\ cur_ref'[y[1]] = y[2]
                               /\ slot[y] = "none" => y \in free_list'
  <2>1. CASE e = d
    <3>1. /\ dec'[e].lbp = p /\ dec'[e].state = "using"
          /\ dec'[e].hold = IF slot[x] = "ram" THEN x ELSE NoBlock
      BY <1>0, <1>1, <2>1
    <3>2. slot[x] = "ram" => cur_ref'[x[1]] = x[2]
      BY <1>0, <1>1
    <3>3. QED  BY <1>2, <2>1, <3>1, <3>2
  <2>2. CASE e # d
    <3>1. dec'[e] = dec[e] /\ DecoderChannel[e] # c
      BY <1>0, <1>1, <2>2
    <3>2. /\ dec[e].lbp # NoBlock => dec[e].lbp[1] = DecoderChannel[e]
          /\ dec[d].lbp # NoBlock => dec[d].lbp[1] = c
      BY DEF Pointers
    <3>3. ASSUME dec[e].hold # NoBlock
          PROVE  LET y == dec[e].hold IN
                 /\ dec[e].state = "using" /\ dec[e].lbp = y
                 /\ cur_ref'[y[1]] = y[2]
                 /\ slot[y] = "none" => y \in free_list'
      <4> DEFINE y == dec[e].hold
      <4>1. /\ dec[e].state = "using" /\ dec[e].lbp = y /\ cur_ref[y[1]] = y[2]
            /\ slot[y] = "none" => y \in free_list
        BY <3>3 DEF Pointers
      <4>2. y[1] # c /\ y # dec[d].lbp
        BY <3>1, <3>2, <3>3, <4>1
      <4>3. cur_ref'[y[1]] = y[2]
        BY <1>0, <1>1, <4>1, <4>2
      <4>4. QED  BY <1>1, <4>1, <4>2, <4>3
    <3>4. QED  BY <1>2, <3>1, <3>2, <3>3
  <2>3. QED  BY <2>1, <2>2
<1>4. QED  BY <1>1, <1>3 DEF Pointers

LEMMA PointersStep ==
    ASSUME LInv, Begun, Kept, Pointers, [LNext]_all_vars,
           \A d, e \in Decoders : DecoderChannel[e] = DecoderChannel[d] => e = d
    PROVE  Pointers'
<1>0. received \in Nat /\ dec \in [Decoders -> DecoderStates]
  BY SnapshotAssumption DEF LInv, LTypeOK, SnapTypeOK, SnapshotAssumption
<1> USE DEF snap_vars
<1>1. CASE IoNext
  BY <1>1, PointersKept DEF IoNext, Spares
<1>2. ASSUME NEW n \in 1 .. MAX_PACKET, AppendBegin(n) PROVE Pointers'
  <2>1. received > 0 => received' > 0
    BY <1>0, <1>2 DEF AppendBegin
  <2>2. QED  BY <1>2, <2>1, CheckSpares, PointersKept DEF AppendBegin
<1>3. CASE AllocateNext
  <2>1. Spares
    <3>1. \A x \in Blocks : slot'[x] = "none" => slot[x] = "none"
      BY <1>3 DEF AllocateNext, Allocate, LInv, LTypeOK, SnapTypeOK
    <3>2. QED  BY <1>3, <3>1 DEF AllocateNext, Spares
  <2>2. QED  BY <1>3, <2>1, PointersKept DEF AllocateNext
<1>4. CASE Fill
  <2>1. <<chan, blk>> \in Blocks
    BY <1>4, CurrentBlock DEF Fill, InBlock
  <2>2. QED  BY <1>4, <2>1, DropSpares, PointersKept DEF Fill
<1>5. CASE EndTail
  <2>1. <<chan, blk>> \in Blocks
    BY <1>5, CurrentBlock DEF EndTail, InBlock
  <2>2. QED  BY <1>5, <2>1, DropSpares, PointersKept DEF EndTail
<1>6. CASE FillSentinel \/ NextChannel
  BY <1>6, PointersKept DEF FillSentinel, NextChannel, Spares
<1>7. CASE AppendEnd \/ SpillCheck \/ EndIdle
  BY <1>7, CheckSpares, PointersKept DEF AppendEnd, SpillCheck, EndIdle
<1>8. CASE \/ SpillNothing \/ SpillRelieved \/ SpillOldest \/ SpillTest \/ SpillEnqueued
           \/ SpillRefused
  BY <1>8, PointersKept
  DEF SpillNothing, SpillRelieved, SpillOldest, SpillTest, SpillEnqueued, SpillRefused, Spares
<1>9. CASE EndBegin \/ EndTailSentinel \/ EndNext \/ DeleteManager \/ NewManager
  BY <1>9, PointersKept
  DEF EndBegin, EndTailSentinel, EndNext, DeleteManager, NewManager, Spares
<1>10. CASE Clear
  BY <1>10 DEF Clear, NoDecoder, Pointers
<1>11. ASSUME NEW d \in Decoders, StartDecoder(d) \/ ChunkSent(d) PROVE Pointers'
  <2>1. /\ dec'[d].hold = NoBlock /\ dec'[d].lbp \in {NoBlock, dec[d].lbp}
        /\ \A e \in Decoders \ {d} : dec'[e] = dec[e]
        /\ UNCHANGED <<cur_ref, free_list, slot, received>>
    BY <1>0, <1>11 DEF StartDecoder, ChunkSent, NoDecoder, DecoderStates
  <2>2. QED  BY <2>1 DEF Pointers
<1>12. ASSUME NEW d \in Decoders, GetSamples(d) PROVE Pointers'
  BY <1>12, GetSamplesPointers
<1>13. CASE DecodeEnd
  <2>1. UNCHANGED <<dec, slot, received, cur_ref>> /\ \A d \in Decoders : dec[d].state = "ready"
    BY <1>13 DEF DecodeEnd
  <2>2. QED  BY <2>1 DEF Pointers
<1>14. CASE UNCHANGED all_vars
  BY <1>14, PointersKept DEF all_vars, Spares
<1>15. ASSUME NEW c \in Channels, ReadSpilled(c) PROVE Pointers'
  BY <1>15, PointersKept DEF ReadSpilled, Spares
<1>16. QED
  BY <1>1, <1>2, <1>3, <1>4, <1>5, <1>6, <1>7, <1>8, <1>9, <1>10, <1>11, <1>12, <1>13, <1>14, <1>15
  DEF LNext, Append1, Spill, End, Restart, Decode

\* A decoder that was there before the first packet, and whose channel no other
\* decoder reads, never reads memory that was freed because a block has no edge
\* (calc_mipmap 690-703, get_samples 752, free_decode_lpb); for any number of
\* channels and decoders, and though decoders start again at any time.
THEOREM UniformReadersSafe ==
    ASSUME DECODE_FIRST,
           \A d, e \in Decoders : DecoderChannel[e] = DecoderChannel[d] => e = d
    PROVE  LSpec => []UniformReaderSafe
<1>1. LInit => Begun /\ Kept /\ Pointers
  BY DEF LInit, SnapInit, Begun, Kept, Pointers, NoDecoder
<1>2. /\ LInv /\ Begun /\ Kept /\ Pointers /\ [LNext]_all_vars
      => Begun' /\ Kept' /\ Pointers'
  BY BegunStep, PointersStep
<1>3. LInv /\ Pointers => UniformReaderSafe
  <2> SUFFICES ASSUME LInv, Pointers, NEW d \in Decoders, dec[d].hold # NoBlock
               PROVE  Alive(dec[d].hold) \/ slot[dec[d].hold] = "disk"
    BY DEF UniformReaderSafe
  <2>1. dec[d].hold \in Blocks
    BY DEF LInv, LTypeOK, SnapTypeOK, DecoderStates
  <2>2. QED  BY <2>1 DEF LInv, LTypeOK, SnapTypeOK, Pointers, Alive
<1>4. QED  BY <1>1, <1>2, <1>3, LInvariant, PTL DEF LSpec

-----------------------------------------------------------------------------
(* What is counted.  Decoders give blocks up without taking them off the   *)
(* count (free_decode_lpb, decode_end), so with decoders _ram_usage_bytes  *)
(* is never too low; without them it is right.                             *)

InRam == {x \in Blocks : slot[x] = "ram"}

CountedEnough == ram_usage >= Cardinality(InRam) + Cardinality(free_list)

CountedExactly == ram_usage = Cardinality(InRam) /\ free_list = {} /\ able_free

LEMMA RamFinite ==
    ASSUME LInv
    PROVE  /\ IsFiniteSet(InRam) /\ Cardinality(InRam) \in Nat
           /\ IsFiniteSet(free_list) /\ Cardinality(free_list) \in Nat
           /\ ram_usage \in Int
<1>1. InRam \subseteq Blocks /\ free_list \subseteq Blocks /\ ram_usage \in Int
  BY DEF InRam, LInv, LTypeOK, SnapTypeOK
<1>2. QED  BY <1>1, BlocksFinite, FS_Subset, FS_CardinalityType

\* check_pending_spills takes off what it frees
LEMMA CheckCounts ==
    ASSUME LInv, CheckPending
    PROVE  ram_usage' - Cardinality(InRam') = ram_usage - Cardinality(InRam)
<1> DEFINE freed == {x \in Collected \cap pending : slot[x] = "ram"}
<1>1. freed \subseteq InRam
  BY DEF InRam, LInv, LTypeOK, SnapTypeOK
<1>2. ram_usage' = ram_usage - Cardinality(freed)
  BY DEF CheckPending
<1>3. InRam' = InRam \ freed
  BY DEF CheckPending, InRam
<1> HIDE DEF freed
<1>4. InRam \cap freed = freed
  BY <1>1
<1>5. Cardinality(InRam') = Cardinality(InRam) - Cardinality(freed)
  <2>1. IsFiniteSet(InRam)
    BY RamFinite
  <2>2. Cardinality(InRam \ freed) = Cardinality(InRam) - Cardinality(InRam \cap freed)
    BY ONLY <2>1, FS_Difference
  <2>3. QED  BY <1>3, <1>4, <2>2
<1>6. Cardinality(freed) \in Nat
  BY <1>1, RamFinite, FS_Subset, FS_CardinalityType
<1>7. QED  BY <1>2, <1>5, <1>6, RamFinite

\* allocate_leaf_block counts the block it makes
LEMMA AllocateCountsOne ==
    ASSUME LInv, NEW x \in Blocks, Allocate(x)
    PROVE  ram_usage' - Cardinality(InRam') = ram_usage - Cardinality(InRam)
<1>1. CASE slot[x] = "none"
  <2>1. InRam' = InRam \cup {x} /\ x \notin InRam /\ ram_usage' = ram_usage + 1
    BY <1>1 DEF Allocate, InRam, LInv, LTypeOK, SnapTypeOK
  <2>2. Cardinality(InRam') = Cardinality(InRam) + 1
    BY <2>1, RamFinite, FS_AddElement
  <2>3. QED  BY <2>1, <2>2, RamFinite
<1>2. CASE slot[x] # "none"
  BY <1>2 DEF Allocate, InRam
<1>3. QED  BY <1>1, <1>2

\* calc_mipmap takes off the block it frees, and keeps counting one it puts aside
LEMMA DropCounts ==
    ASSUME LInv, NEW x \in Blocks, slot[x] = "ram",
           DropUniform(x) \/ UNCHANGED <<slot, ram_usage, free_list>>
    PROVE  /\ CountedEnough => CountedEnough'
           /\ able_free => /\ free_list' = free_list
                           /\ ram_usage' - Cardinality(InRam') = ram_usage - Cardinality(InRam)
<1>1. CASE UNCHANGED <<slot, ram_usage, free_list>>
  BY <1>1 DEF CountedEnough, InRam
<1>2. CASE DropUniform(x)
  <2>1. slot' = [slot EXCEPT ![x] = "none"]
    BY <1>2 DEF DropUniform
  <2>2. InRam' = InRam \ {x} /\ x \in InRam
    BY <2>1 DEF InRam, LInv, LTypeOK, SnapTypeOK
  <2>3. Cardinality(InRam') = Cardinality(InRam) - 1
    BY <2>2, RamFinite, FS_RemoveElement
  <2>4. CASE ram_usage' = ram_usage - 1 /\ UNCHANGED free_list
    BY <2>3, <2>4, RamFinite DEF CountedEnough
  <2>5. CASE ~able_free /\ free_list' = free_list \cup {x} /\ UNCHANGED ram_usage
    <3>1. Cardinality(free_list') \in Nat /\ Cardinality(free_list') <= Cardinality(free_list) + 1
      <4>1. IsFiniteSet(free_list) /\ Cardinality(free_list) \in Nat
        BY RamFinite
      <4>2. Cardinality(free_list \cup {x}) \in {Cardinality(free_list), Cardinality(free_list) + 1}
        BY ONLY <4>1, FS_AddElement
      <4>3. QED  BY <2>5, <4>1, <4>2
    <3>2. QED  BY <2>3, <2>5, <3>1, RamFinite DEF CountedEnough
  <2>6. QED  BY <1>2, <2>4, <2>5 DEF DropUniform
<1>3. QED  BY <1>1, <1>2

\* a step that counts what it allocates and frees, of decoders or none
LEMMA CountsKept ==
    ASSUME LInv, LInv', free_list' \subseteq free_list,
           ram_usage' - Cardinality(InRam') = ram_usage - Cardinality(InRam)
    PROVE  /\ CountedEnough => CountedEnough'
           /\ CountedExactly /\ able_free' => CountedExactly'
<1>1. Cardinality(free_list') <= Cardinality(free_list) /\ Cardinality(free_list') \in Nat
  BY RamFinite, FS_Subset, FS_CardinalityType
<1>2. Cardinality(InRam') \in Nat /\ ram_usage' \in Int
  <2>1. InRam' \subseteq Blocks /\ ram_usage' \in Int
    BY DEF InRam, LInv, LTypeOK, SnapTypeOK
  <2>2. QED  BY <2>1, BlocksFinite, FS_Subset, FS_CardinalityType
<1>3. QED  BY <1>1, <1>2, RamFinite DEF CountedEnough, CountedExactly

LEMMA CountStep ==
    ASSUME LInv, LInv', [LNext]_all_vars
    PROVE  /\ CountedEnough => CountedEnough'
           /\ Decoders = {} /\ CountedExactly => CountedExactly'
<1> DEFINE Balanced == ram_usage' - Cardinality(InRam') = ram_usage - Cardinality(InRam)
<1>a. ASSUME UNCHANGED <<slot, ram_usage>> PROVE Balanced
  BY <1>a DEF InRam
<1> USE DEF snap_vars
<1>1. CASE IoNext
  BY <1>1, <1>a, CountsKept DEF IoNext, CountedExactly
<1>2. ASSUME NEW n \in 1 .. MAX_PACKET, AppendBegin(n)
      PROVE  /\ CountedEnough => CountedEnough'
             /\ Decoders = {} /\ CountedExactly => CountedExactly'
  <2>1. CheckPending /\ free_list' = free_list
    BY <1>2 DEF AppendBegin
  <2>2. Decoders = {} /\ able_free => able_free'
    BY <1>2 DEF AppendBegin
  <2>3. QED  BY <2>1, <2>2, CheckCounts, CountsKept DEF CountedExactly
<1>3. CASE AllocateNext
  <2>1. CASE UNCHANGED <<slot, ram_usage>>
    BY <1>3, <1>a, <2>1, CountsKept DEF AllocateNext, CountedExactly
  <2>2. CASE blk # NBLK /\ Allocate(<<chan, blk>>)
    <3>1. <<chan, blk>> \in Blocks
      BY <2>2, ConstantsAssumption
      DEF LInv, LTypeOK, SnapTypeOK, Blocks, BlockIds, ConstantsAssumption
    <3>2. Balanced
      BY <2>2, <3>1, AllocateCountsOne
    <3>3. QED  BY <1>3, <3>2, CountsKept DEF AllocateNext, CountedExactly
  <2>3. QED  BY <1>3, <2>1, <2>2 DEF AllocateNext
<1>4. CASE Fill \/ EndTail
  <2>1. <<chan, blk>> \in Blocks
    BY <1>4, CurrentBlock DEF Fill, EndTail, InBlock
  <2>2. /\ slot[<<chan, blk>>] = "ram" /\ able_free' = able_free
        /\ DropUniform(<<chan, blk>>) \/ UNCHANGED <<slot, ram_usage, free_list>>
    BY <1>4 DEF Fill, EndTail
  <2>3. /\ CountedEnough => CountedEnough'
        /\ able_free => free_list' = free_list /\ Balanced
    BY <2>1, <2>2, DropCounts
  <2>4. QED  BY <2>2, <2>3, CountsKept DEF CountedExactly
<1>5. CASE FillSentinel \/ NextChannel
  BY <1>5, <1>a, CountsKept DEF FillSentinel, NextChannel, CountedExactly
<1>6. CASE AppendEnd \/ SpillCheck \/ EndIdle
  BY <1>6, CheckCounts, CountsKept DEF AppendEnd, SpillCheck, EndIdle, CountedExactly
<1>7. CASE \/ SpillNothing \/ SpillRelieved \/ SpillOldest \/ SpillTest \/ SpillEnqueued
           \/ SpillRefused
  BY <1>7, <1>a, CountsKept
  DEF SpillNothing, SpillRelieved, SpillOldest, SpillTest, SpillEnqueued, SpillRefused,
      CountedExactly
<1>8. CASE EndBegin \/ EndTailSentinel \/ EndNext \/ DeleteManager \/ NewManager
  BY <1>8, <1>a, CountsKept
  DEF EndBegin, EndTailSentinel, EndNext, DeleteManager, NewManager, CountedExactly
<1>9. CASE Clear
  <2>1. InRam' = {} /\ ram_usage' = 0 /\ free_list' = {} /\ able_free' = TRUE
    BY <1>9 DEF Clear, InRam
  <2>2. QED  BY <2>1, FS_EmptySet DEF CountedEnough, CountedExactly
<1>10. ASSUME NEW d \in Decoders, Decode(d)
       PROVE  /\ CountedEnough => CountedEnough'
              /\ Decoders = {} /\ CountedExactly => CountedExactly'
  <2>1. UNCHANGED <<slot, ram_usage>> /\ free_list' \subseteq free_list
    BY <1>10 DEF Decode, StartDecoder, GetSamples, ChunkSent
  <2>2. QED  BY <1>a, <1>10, <2>1, CountsKept
<1>11. CASE DecodeEnd
  BY <1>11, <1>a, CountsKept DEF DecodeEnd, CountedExactly
<1>12. CASE UNCHANGED all_vars
  BY <1>12, <1>a, CountsKept DEF all_vars, CountedExactly
<1>13. ASSUME NEW c \in Channels, ReadSpilled(c)
       PROVE  /\ CountedEnough => CountedEnough'
              /\ Decoders = {} /\ CountedExactly => CountedExactly'
  BY <1>13, <1>a, CountsKept DEF ReadSpilled, CountedExactly
<1>14. QED
  BY <1>1, <1>2, <1>3, <1>4, <1>5, <1>6, <1>7, <1>8, <1>9, <1>10, <1>11, <1>12, <1>13
  DEF LNext, Append1, Spill, End, Restart

LEMMA CountInit == LInit => CountedEnough /\ CountedExactly
<1>1. LInit => InRam = {} /\ free_list = {} /\ ram_usage = 0 /\ able_free
  BY DEF LInit, SnapInit, InRam
<1>2. QED  BY <1>1, FS_EmptySet DEF CountedEnough, CountedExactly

\* Every block that is allocated is counted, those put aside for decoders too,
\* whatever decoders do: spilling never starts too late.
THEOREM RamNeverUndercounted == LSpec => []CountedEnough
<1>1. LInv /\ LInv' /\ CountedEnough /\ [LNext]_all_vars => CountedEnough'
  BY CountStep
<1>2. QED  BY <1>1, CountInit, LInvariant, PTL DEF LSpec

\* Without decoders _ram_usage_bytes is the number of blocks in RAM: every
\* allocation and every way of giving a block up is counted once, over any
\* number of captures (allocate_leaf_block, free_leaf_block, clear).
THEOREM RamCountExact ==
    ASSUME Decoders = {}
    PROVE  LSpec => []RamAccounting
<1>1. LInv /\ LInv' /\ CountedExactly /\ [LNext]_all_vars => CountedExactly'
  BY CountStep
<1>2. LInv /\ CountedExactly => RamAccounting
  BY RamFinite, FS_EmptySet DEF CountedExactly, RamAccounting, InRam
<1>3. QED  BY <1>1, <1>2, CountInit, LInvariant, PTL DEF LSpec

-----------------------------------------------------------------------------
(* How much is in RAM.  A block in RAM waits for the disk (QueueInv: not   *)
(* more than the queue, the job in hand and one handed over since the      *)
(* finished jobs were collected), or nobody has handed it over.  Of these  *)
(* the RAM window may hold as many as it has room for, or as many as are   *)
(* protected; beyond that there is only one for each channel whose block   *)
(* has been begun and not been through spill_oldest_block (WindowInv):     *)
(* beginning a block adds one, and so does handing one over, the other     *)
(* way round.                                                              *)

Unspilled == InRam \ pending

\* the channels whose current block has not been through spill_oldest_block
Open == {c \in Channels :
            \/ Checking /\ c = chan
            \/ blk < NBLK /\ slot[<<c, blk>>] # "none" /\ fill[<<c, blk>>] < PARTS}

\* the disk does not take what it is given
Excused == disk_full \/ failed # {} \/ mem_failed

QueueInv ==
    failed = {} =>
        /\ Cardinality(pending) <= MAX_QUEUE_DEPTH + 2
        /\ cap_pc \in {"scan", "enqueue"} => Cardinality(pending) <= MAX_QUEUE_DEPTH + 1

WindowInv ==
    RAM_LIMIT > 0 => Excused \/ Cardinality(Unspilled) <= Window + Cardinality(Open)

WindowBounded ==
    RAM_LIMIT > 0 =>
        Excused \/ Cardinality(InRam) <= Window + NCH + MAX_QUEUE_DEPTH + 2

LEMMA WindowFinite ==
    ASSUME LInv
    PROVE  /\ IsFiniteSet(Unspilled) /\ Cardinality(Unspilled) \in Nat
           /\ IsFiniteSet(Open) /\ Cardinality(Open) \in 0 .. NCH
           /\ IsFiniteSet(pending) /\ Cardinality(pending) \in Nat
           /\ Window \in Nat
<1>1. /\ NCH \in Nat \ {0} /\ RAM_LIMIT \in Nat /\ 0 \in Int /\ NCH - 1 \in Int
  BY ConstantsAssumption, SnapshotAssumption DEF ConstantsAssumption, SnapshotAssumption
<1>2. Unspilled \subseteq Blocks /\ pending \subseteq Blocks /\ Open \subseteq Channels
  BY DEF Unspilled, InRam, Open, LInv, LTypeOK, SnapTypeOK
<1>3. IsFiniteSet(Channels) /\ Cardinality(Channels) = NCH
  <2>1. /\ IsFiniteSet(0 .. NCH - 1)
        /\ Cardinality(0 .. NCH - 1) = IF 0 > NCH - 1 THEN 0 ELSE NCH - 1 - 0 + 1
    BY ONLY <1>1, FS_Interval
  <2>2. QED  BY <1>1, <2>1 DEF Channels
<1>4. IsFiniteSet(Open) /\ Cardinality(Open) <= NCH /\ Cardinality(Open) \in Nat
  BY <1>2, <1>3, FS_Subset, FS_CardinalityType
<1>5. /\ IsFiniteSet(Unspilled) /\ Cardinality(Unspilled) \in Nat
      /\ IsFiniteSet(pending) /\ Cardinality(pending) \in Nat
  BY <1>2, BlocksFinite, FS_Subset, FS_CardinalityType
<1>6. QED  BY <1>1, <1>4, <1>5 DEF Window

\* What the manager has not finished: the queue and the job in hand.
LEMMA UnfinishedBound ==
    ASSUME LInv
    PROVE  /\ IsFiniteSet(Queued \cup InHand)
           /\ Cardinality(Queued \cup InHand) \in Nat
           /\ Cardinality(Queued \cup InHand) <= MAX_QUEUE_DEPTH + 1
<1>1. /\ write_queue \in Seq(Blocks) /\ Len(write_queue) \in Nat
      /\ Len(write_queue) <= MAX_QUEUE_DEPTH /\ MAX_QUEUE_DEPTH \in Nat
  BY ConstantsAssumption DEF LInv, SMInv, TypeOK, DiskInv, ConstantsAssumption
<1>2. IsFiniteSet(1 .. Len(write_queue)) /\ Cardinality(1 .. Len(write_queue)) = Len(write_queue)
  <2>1. 1 \in Int /\ Len(write_queue) \in Int
    BY <1>1
  <2>2. /\ IsFiniteSet(1 .. Len(write_queue))
        /\ Cardinality(1 .. Len(write_queue)) =
              IF 1 > Len(write_queue) THEN 0 ELSE Len(write_queue) - 1 + 1
    BY ONLY <2>1, FS_Interval
  <2>3. QED  BY <1>1, <2>2
<1> DEFINE f == [i \in 1 .. Len(write_queue) |-> write_queue[i]]
<1>3. f \in Surjection(1 .. Len(write_queue), Queued)
  BY DEF Surjection, Queued
<1> HIDE DEF f
<1>4. IsFiniteSet(Queued) /\ Cardinality(Queued) <= Len(write_queue)
  BY <1>2, <1>3, FS_Surjection
<1>5. Cardinality(Queued) \in Nat
  BY <1>4, FS_CardinalityType
<1>6. CASE InHand = {}
  <2>1. Queued \cup InHand = Queued
    BY <1>6
  <2>2. Cardinality(Queued) <= MAX_QUEUE_DEPTH + 1
    BY <1>1, <1>4, <1>5
  <2>3. QED  BY <1>4, <1>5, <2>1, <2>2
<1>7. CASE InHand = {job}
  <2>1. /\ IsFiniteSet(Queued \cup {job})
        /\ Cardinality(Queued \cup {job}) \in {Cardinality(Queued), Cardinality(Queued) + 1}
    BY ONLY <1>4, FS_AddElement
  <2>2. QED  BY <1>1, <1>4, <1>5, <1>7, <2>1
<1>8. QED  BY <1>6, <1>7 DEF InHand

\* An excuse lasts to the end of the capture, or of its manager.
LEMMA ExcusedStays ==
    ASSUME LInv, [LNext]_all_vars, Excused, ~Clear, ~NewManager
    PROVE  Excused'
<1>0. disk_usage \in Nat /\ DISK_LIMIT \in Nat
  BY ConstantsAssumption DEF LInv, SMInv, TypeOK, ConstantsAssumption
<1> SUFFICES /\ failed \subseteq failed' /\ disk_usage' \in Nat /\ disk_usage' >= disk_usage
             /\ mem_failed => mem_failed'
  BY <1>0 DEF Excused, disk_full
<1> USE <1>0 DEF snap_vars, vars, io_vars, call_vars
<1>1. CASE IoNext
  BY <1>1 DEF IoNext, DiskWrite, IoTake, IoWrite, IoWriteFails, IoIndex, IoUsage, IoComplete,
              IoRetire, IoExit
<1>2. CASE AllocateNext \/ Fill \/ FillSentinel \/ NextChannel \/ AppendEnd
  BY <1>2 DEF AllocateNext, Fill, FillSentinel, NextChannel, AppendEnd, CheckPending,
              DrainCompleted
<1>3. ASSUME NEW n \in 1 .. MAX_PACKET, AppendBegin(n)
      PROVE  /\ failed \subseteq failed' /\ disk_usage' \in Nat /\ disk_usage' >= disk_usage
             /\ mem_failed => mem_failed'
  BY <1>3 DEF AppendBegin, CheckPending, DrainCompleted
<1>4. CASE Spill
  BY <1>4 DEF Spill, SpillNothing, SpillCheck, SpillRelieved, SpillOldest, SpillTest,
              SpillEnqueued, SpillRefused, CheckPending, DrainCompleted, EnqueueCall,
              EnqueueTest, EnqueuePush, EnqueueRefuse
<1>5. CASE End
  BY <1>5 DEF End, EndBegin, EndIdle, EndTail, EndTailSentinel, EndNext, CheckPending,
              DrainCompleted
<1>6. CASE DeleteManager
  BY <1>6 DEF DeleteManager, Stop
<1>7. CASE (\E d \in Decoders : Decode(d)) \/ DecodeEnd
  <2>1. UNCHANGED <<vars, mem_failed>>
    BY <1>7 DEF Decode, StartDecoder, GetSamples, ChunkSent, DecodeEnd
  <2>2. QED  BY <2>1
<1>8. CASE UNCHANGED all_vars
  BY <1>8 DEF all_vars
<1>9. ASSUME NEW c \in Channels, ReadSpilled(c)
      PROVE  failed' = failed /\ disk_usage' = disk_usage /\ mem_failed' = mem_failed
  BY <1>9, ReadStep
<1>10. QED  BY <1>1, <1>2, <1>3, <1>4, <1>5, <1>6, <1>7, <1>8, <1>9 DEF LNext, Append1, Restart

LEMMA QueueStep ==
    ASSUME LInv, LInv', QueueInv, [LNext]_all_vars
    PROVE  QueueInv'
<1>0. MAX_QUEUE_DEPTH \in Nat /\ IsFiniteSet(pending) /\ Cardinality(pending) \in Nat
  BY WindowFinite, ConstantsAssumption DEF ConstantsAssumption
<1>a. ASSUME pending' \subseteq pending, failed \subseteq failed',
             cap_pc' \in {"scan", "enqueue"} => cap_pc \in {"scan", "enqueue"}
      PROVE  QueueInv'
  <2>1. Cardinality(pending') <= Cardinality(pending) /\ Cardinality(pending') \in Nat
    BY <1>0, <1>a, FS_Subset, FS_CardinalityType
  <2>2. QED  BY <1>0, <1>a, <2>1 DEF QueueInv
<1>b. ASSUME CheckPending PROVE pending' \subseteq pending /\ failed' = failed
  BY <1>b DEF CheckPending, DrainCompleted, vars, io_vars
<1> USE DEF snap_vars, vars, io_vars, call_vars
<1>1. CASE IoNext
  <2>1. failed \subseteq failed'
    BY <1>1 DEF IoNext, DiskWrite, IoTake, IoWrite, IoWriteFails, IoIndex, IoUsage, IoComplete,
                IoRetire, IoExit
  <2>2. QED  BY <1>a, <1>1, <2>1 DEF IoNext
<1>2. ASSUME NEW n \in 1 .. MAX_PACKET, AppendBegin(n) PROVE QueueInv'
  BY <1>a, <1>b, <1>2 DEF AppendBegin
<1>3. CASE AppendEnd
  BY <1>a, <1>b, <1>3 DEF AppendEnd
<1>4. CASE EndIdle
  BY <1>a, <1>b, <1>4 DEF EndIdle
<1>5. CASE SpillCheck
  <2>1. pending' \subseteq pending /\ failed' = failed
    BY <1>5, <1>b DEF SpillCheck
  <2>2. pending' \subseteq Queued \cup InHand \cup failed
    <3>1. pending = UnderWay
      BY <1>5 DEF SpillCheck, LInv, PendInv, Gone
    <3>2. QED  BY <1>5, <3>1 DEF SpillCheck, CheckPending, Collected, UnderWay
  <2>3. SUFFICES ASSUME failed = {} PROVE Cardinality(pending') <= MAX_QUEUE_DEPTH + 1
    <3>1. ASSUME Cardinality(pending') <= MAX_QUEUE_DEPTH + 1
          PROVE  Cardinality(pending') <= MAX_QUEUE_DEPTH + 2
      <4>1. Cardinality(pending') \in Nat
        BY <1>0, <2>1, FS_Subset, FS_CardinalityType
      <4>2. QED  BY <1>0, <3>1, <4>1
    <3>2. QED  BY <2>1, <3>1 DEF QueueInv
  <2>4. pending' \subseteq Queued \cup InHand
    BY <2>2, <2>3
  <2>5. /\ Cardinality(pending') <= Cardinality(Queued \cup InHand)
        /\ Cardinality(pending') \in Nat
    BY <2>4, UnfinishedBound, FS_Subset, FS_CardinalityType
  <2>6. QED  BY <1>0, <2>5, UnfinishedBound
<1>6. CASE SpillEnqueued
  <2>1. pending' = pending \cup {enq_block} /\ failed' = failed /\ cap_pc = "enqueue"
        /\ cap_pc' = "next"
    BY <1>6 DEF SpillEnqueued, EnqueuePush
  <2>2. Cardinality(pending') \in {Cardinality(pending), Cardinality(pending) + 1}
    BY <1>0, <2>1, FS_AddElement
  <2>3. QED  BY <1>0, <2>1, <2>2 DEF QueueInv
<1>7. CASE SpillNothing \/ SpillRelieved \/ SpillOldest \/ SpillTest \/ SpillRefused
  BY <1>a, <1>7 DEF SpillNothing, SpillRelieved, SpillOldest, SpillTest, SpillRefused,
                    EnqueueCall, EnqueueTest, EnqueueRefuse
<1>8. CASE AllocateNext \/ Fill \/ FillSentinel \/ NextChannel
  BY <1>a, <1>8 DEF AllocateNext, Fill, FillSentinel, NextChannel
<1>9. CASE EndBegin \/ EndTail \/ EndTailSentinel \/ EndNext \/ DeleteManager
  BY <1>a, <1>9 DEF EndBegin, EndTail, EndTailSentinel, EndNext, DeleteManager, Stop
<1>10. CASE Clear \/ NewManager
  <2>1. pending' = {}
    BY <1>10 DEF Clear, NewManager, LInv, PendInv, Gone
  <2>2. cap_pc' \in {"cleared", "idle"}
    BY <1>10 DEF Clear, NewManager
  <2>3. QED  BY <1>0, <2>1, <2>2, FS_EmptySet DEF QueueInv
<1>11. ASSUME NEW d \in Decoders, Decode(d) PROVE QueueInv'
  BY <1>a, <1>11 DEF Decode, StartDecoder, GetSamples, ChunkSent
<1>12. CASE DecodeEnd
  BY <1>a, <1>12 DEF DecodeEnd
<1>13. CASE UNCHANGED all_vars
  BY <1>a, <1>13 DEF all_vars
<1>14. ASSUME NEW c \in Channels, ReadSpilled(c) PROVE QueueInv'
  <2>1. UNCHANGED snap_vars /\ failed' = failed
    BY <1>14, ReadStep
  <2>2. QED  BY <1>a, <2>1
<1>15. QED
  BY <1>1, <1>2, <1>3, <1>4, <1>5, <1>6, <1>7, <1>8, <1>9, <1>10, <1>11, <1>12, <1>13, <1>14
  DEF LNext, Append1, Spill, End, Restart

-----------------------------------------------------------------------------
(* The window, step by step.                                               *)

\* check_pending_spills frees only what the manager has got
LEMMA CheckUnspilled ==
    ASSUME LInv, CheckPending
    PROVE  /\ Unspilled' = Unspilled
           /\ \A x \in Blocks : slot'[x] = "none" <=> slot[x] = "none"
<1>1. \A x \in Blocks : slot'[x] = IF x \in Collected \cap pending /\ slot[x] = "ram"
                                   THEN "disk" ELSE slot[x]
  BY DEF CheckPending
<1>2. pending' = pending \ Collected
  BY DEF CheckPending
<1>3. QED  BY <1>1, <1>2 DEF Unspilled, InRam

\* a step that adds no block and passes none of an open channel
LEMMA WindowKept ==
    ASSUME LInv, LInv', [LNext]_all_vars, WindowInv, ~Clear, ~NewManager,
           Unspilled' \subseteq Unspilled, Open \subseteq Open'
    PROVE  WindowInv'
<1>1. Excused => Excused'
  BY ExcusedStays
<1>2. /\ IsFiniteSet(Open') /\ Cardinality(Open') \in Nat
      /\ Cardinality(Unspilled') \in Nat
  <2>1. Open' \subseteq Channels /\ Unspilled' \subseteq Blocks /\ IsFiniteSet(Channels)
    <3>1. IsFiniteSet(Channels)
      BY FS_Interval, ConstantsAssumption DEF Channels, ConstantsAssumption
    <3>2. QED  BY <3>1 DEF Open, Unspilled, InRam
  <2>2. QED  BY <2>1, BlocksFinite, FS_Subset, FS_CardinalityType
<1>3. Cardinality(Unspilled') <= Cardinality(Unspilled)
  BY WindowFinite, FS_Subset
<1>4. Cardinality(Open) <= Cardinality(Open')
  BY <1>2, FS_Subset
<1>5. QED  BY <1>1, <1>2, <1>3, <1>4, WindowFinite DEF WindowInv, Window

\* a block of the channel is begun
LEMMA AllocateWindow ==
    ASSUME LInv, LInv', WindowInv, AllocateNext
    PROVE  WindowInv'
<1> DEFINE x == <<chan, blk>>
<1>0. /\ chan \in Channels /\ blk \in 0 .. NBLK /\ off < PARTS
      /\ [LNext]_all_vars /\ ~Clear /\ ~NewManager
      /\ slot \in [Blocks -> {"none", "ram", "disk"}]
  BY ConstantsAssumption
  DEF LInv, LTypeOK, SnapTypeOK, LNext, Append1, AllocateNext, Clear, NewManager,
      ConstantsAssumption
<1>1. UNCHANGED <<vars, fill, pending, mem_failed, blk, chan>> /\ ~Checking /\ ~Checking'
  BY DEF AllocateNext, Checking
<1>2. CASE UNCHANGED slot
  <2>1. Unspilled' = Unspilled /\ Open' = Open
    BY <1>1, <1>2 DEF Unspilled, InRam, Open
  <2>2. QED  BY <1>0, <2>1, WindowKept
<1>3. CASE blk # NBLK /\ slot[x] = "none" /\ slot' = [slot EXCEPT ![x] = "ram"]
  <2>1. x \in Blocks /\ blk < NBLK
    BY <1>0, <1>3, ConstantsAssumption DEF Blocks, BlockIds, ConstantsAssumption
  <2>2. Unspilled' \subseteq Unspilled \cup {x}
    BY <1>0, <1>1, <1>3 DEF Unspilled, InRam
  <2>3. fill[x] < PARTS
    <3>1. fill[x] = Level(chan)
      BY <2>1 DEF LInv, PosInv, AllocateNext
    <3>2. Level(chan) = off
      BY <1>0, ConstantsAssumption DEF Level, AllocateNext, Channels, ConstantsAssumption
    <3>3. QED  BY <1>0, <3>1, <3>2
  <2>4. Open' = Open \cup {chan} /\ chan \notin Open
    <3>1. \A c \in Channels \ {chan} : slot'[<<c, blk>>] = slot[<<c, blk>>]
      BY <1>0, <1>3, <2>1 DEF Blocks
    <3>2. slot'[x] = "ram"
      BY <1>0, <1>3, <2>1
    <3>3. QED  BY <1>0, <1>1, <1>3, <2>1, <2>3, <3>1, <3>2 DEF Open
  <2>5. Cardinality(Unspilled') <= Cardinality(Unspilled) + 1 /\ Cardinality(Unspilled') \in Nat
    <3>1. /\ IsFiniteSet(Unspilled \cup {x})
          /\ Cardinality(Unspilled \cup {x}) \in {Cardinality(Unspilled), Cardinality(Unspilled) + 1}
      BY WindowFinite, FS_AddElement
    <3>2. Cardinality(Unspilled') <= Cardinality(Unspilled \cup {x})
          /\ Cardinality(Unspilled') \in Nat
      BY <2>2, <3>1, FS_Subset, FS_CardinalityType
    <3>3. QED  BY <3>1, <3>2, WindowFinite
  <2>6. Cardinality(Open') = Cardinality(Open) + 1
    BY <2>4, WindowFinite, FS_AddElement
  <2>7. Excused => Excused'
    BY <1>0, ExcusedStays
  <2>8. QED  BY <2>5, <2>6, <2>7, WindowFinite DEF WindowInv, Window
<1>4. QED  BY <1>2, <1>3 DEF AllocateNext, Allocate

\* the samples of a channel are copied, or its tail is zeroed: it stays open
LEMMA FillWindow ==
    ASSUME LInv, LInv', WindowInv, Fill \/ EndTail
    PROVE  WindowInv'
<1> DEFINE x == <<chan, blk>>
<1>1. /\ [LNext]_all_vars /\ ~Clear /\ ~NewManager
      /\ x \in Blocks /\ blk < NBLK /\ chan \in Channels
      /\ slot[x] = "ram" /\ slot \in [Blocks -> {"none", "ram", "disk"}]
      /\ fill \in [Blocks -> 0 .. PARTS]
      /\ UNCHANGED <<pending, blk, chan>> /\ ~Checking
  BY CurrentBlock
  DEF Fill, EndTail, InBlock, LNext, Append1, End, Clear, NewManager, LInv, LTypeOK,
      SnapTypeOK, PhaseInv, Checking
<1>2. UNCHANGED slot \/ slot' = [slot EXCEPT ![x] = "none"]
  BY DEF Fill, EndTail, DropUniform
<1>3. Unspilled' \subseteq Unspilled
  BY <1>1, <1>2 DEF Unspilled, InRam
<1>4. \A c \in Channels \ {chan} : /\ <<c, blk>> \in Blocks
                                   /\ slot'[<<c, blk>>] = slot[<<c, blk>>]
                                   /\ fill'[<<c, blk>>] = fill[<<c, blk>>]
  BY <1>1, <1>2 DEF Fill, EndTail, Blocks
<1>5. chan \in Open'
  <2>1. CASE Checking'
    BY <1>1, <2>1 DEF Open
  <2>2. CASE ~Checking'
    <3>1. /\ Fill /\ off + Segment # PARTS /\ slot' = slot
          /\ fill' = [fill EXCEPT ![x] = off + Segment]
      BY <2>2 DEF Checking, Fill, EndTail
    <3>2. off + Segment < PARTS
      BY <3>1, ConstantsAssumption, SnapshotAssumption
      DEF Segment, LInv, LTypeOK, SnapTypeOK, ConstantsAssumption, SnapshotAssumption
    <3>3. QED  BY <1>1, <3>1, <3>2 DEF Open
  <2>3. QED  BY <2>1, <2>2
<1>6. Open \subseteq Open'
  BY <1>1, <1>4, <1>5 DEF Open
<1>7. QED  BY <1>1, <1>3, <1>6, WindowKept

\* all channels have filled their block when the next one becomes the current one
LEMMA NextWindow ==
    ASSUME LInv, LInv', WindowInv, NextChannel
    PROVE  WindowInv'
<1>1. /\ [LNext]_all_vars /\ ~Clear /\ ~NewManager
      /\ UNCHANGED <<slot, pending, fill>> /\ ~Checking /\ ~Checking'
  BY DEF NextChannel, LNext, Append1, Clear, NewManager, Checking
<1>2. Unspilled' = Unspilled
  BY <1>1 DEF Unspilled, InRam
<1>3. CASE blk' = blk
  BY <1>1, <1>2, <1>3, WindowKept DEF Open
<1>4. CASE blk' # blk
  <2>1. ~(chan + 1 < NCH) /\ off + Segment = PARTS
    BY <1>4 DEF NextChannel
  <2>2. \A c \in Channels : c <= chan
    BY <2>1, ConstantsAssumption
    DEF Channels, LInv, LTypeOK, SnapTypeOK, ConstantsAssumption
  <2>3. \A c \in Channels : blk < NBLK => fill[<<c, blk>>] = PARTS
    <3>1. ASSUME NEW c \in Channels, blk < NBLK PROVE fill[<<c, blk>>] = PARTS
      <4>1. <<c, blk>> \in Blocks
        BY <3>1, ConstantsAssumption
        DEF Blocks, BlockIds, LInv, LTypeOK, SnapTypeOK, ConstantsAssumption
      <4>2. fill[<<c, blk>>] = Level(c)
        BY <4>1 DEF LInv, PosInv, NextChannel
      <4>3. QED  BY <2>1, <2>2, <4>2 DEF Level, FilledTo, NextChannel
    <3>2. QED  BY <3>1
  <2>4. Open = {}
    BY <1>1, <2>3, ConstantsAssumption DEF Open, ConstantsAssumption
  <2>5. QED  BY <1>1, <1>2, <2>4, WindowKept
<1>5. QED  BY <1>3, <1>4

\* One channel has been through spill_oldest_block and one block left the
\* window, or the window has room, or as much as may stay.
LEMMA ClosedWindow ==
    ASSUME LInv, LInv', FullInv, WindowInv, [LNext]_all_vars, ~Clear, ~NewManager,
           UNCHANGED <<slot, fill, blk>>, Checking, ~Checking',
           \/ Excused'
           \/ Unspilled' = Unspilled /\ Cardinality(Unspilled) <= Window
           \/ \E y \in Unspilled : Unspilled' = Unspilled \ {y}
    PROVE  WindowInv'
<1>1. Excused => Excused'
  BY ExcusedStays
<1>2. Open' = Open \ {chan} /\ chan \in Open
  <2>1. chan \in Channels /\ fill[<<chan, blk>>] = PARTS /\ PARTS \in Nat
    BY ConstantsAssumption DEF FullInv, LInv, LTypeOK, SnapTypeOK, ConstantsAssumption
  <2>2. chan \notin Open'
    BY <2>1 DEF Open
  <2>3. QED  BY <2>1, <2>2 DEF Open
<1>3. Cardinality(Open') = Cardinality(Open) - 1 /\ Cardinality(Open') \in Nat
  <2>1. IsFiniteSet(Open)
    BY WindowFinite
  <2>2. Cardinality(Open \ {chan}) = Cardinality(Open) - 1
    BY ONLY <1>2, <2>1, FS_RemoveElement
  <2>3. IsFiniteSet(Open \ {chan})
    BY ONLY <2>1, FS_Subset
  <2>4. QED  BY <1>2, <2>2, <2>3, FS_CardinalityType
<1>4. Window' = Window /\ Window \in Nat
  BY WindowFinite DEF Window
<1>5. CASE Excused'
  BY <1>5 DEF WindowInv
<1>6. CASE Unspilled' = Unspilled /\ Cardinality(Unspilled) <= Window
  BY <1>3, <1>4, <1>6, WindowFinite DEF WindowInv
<1>7. ASSUME NEW y \in Unspilled, Unspilled' = Unspilled \ {y} PROVE WindowInv'
  <2>1. Cardinality(Unspilled') = Cardinality(Unspilled) - 1
    <3>1. IsFiniteSet(Unspilled)
      BY WindowFinite
    <3>2. Cardinality(Unspilled \ {y}) = Cardinality(Unspilled) - 1
      BY ONLY <1>7, <3>1, FS_RemoveElement
    <3>3. QED  BY <1>7, <3>2
  <2>2. QED  BY <1>1, <1>3, <1>4, <2>1, WindowFinite DEF WindowInv
<1>8. QED  BY <1>5, <1>6, <1>7

\* Where should_spill is false the blocks in RAM are within the limit.
LEMMA RelievedFits ==
    ASSUME LInv, CountedEnough, ~should_spill, RAM_LIMIT > 0
    PROVE  Cardinality(Unspilled) <= Window
<1>1. RAM_LIMIT \in Nat /\ NCH \in Nat /\ ram_usage <= RAM_LIMIT
  BY RamFinite, ConstantsAssumption, SnapshotAssumption
  DEF ConstantsAssumption, SnapshotAssumption, should_spill
<1>2. Cardinality(Unspilled) <= Cardinality(InRam)
  <2>1. Unspilled \subseteq InRam
    BY DEF Unspilled
  <2>2. QED  BY <2>1, RamFinite, FS_Subset
<1>3. QED  BY <1>1, <1>2, RamFinite, WindowFinite DEF CountedEnough, Window

\* Where nothing may be picked only the block just finished and, per channel,
\* the block a decoder may read are left.
LEMMA ProtectedFit ==
    ASSUME LInv, Spillable = {}, <<chan, blk>> \in Blocks
    PROVE  Cardinality(Unspilled) <= Window
<1> DEFINE f == [c \in Channels |-> <<c, cur_ref[c]>>]
           P == {<<c, cur_ref[c]>> : c \in Channels}
<1>1. IsFiniteSet(Channels) /\ Cardinality(Channels) = NCH /\ NCH \in Nat
  <2>1. NCH \in Nat \ {0} /\ 0 \in Int /\ NCH - 1 \in Int
    BY ConstantsAssumption DEF ConstantsAssumption
  <2>2. /\ IsFiniteSet(0 .. NCH - 1)
        /\ Cardinality(0 .. NCH - 1) = IF 0 > NCH - 1 THEN 0 ELSE NCH - 1 - 0 + 1
    BY ONLY <2>1, FS_Interval
  <2>3. QED  BY <2>1, <2>2 DEF Channels
<1>2. f \in Surjection(Channels, P)
  BY DEF Surjection
<1>3. Unspilled \subseteq P \cup {<<chan, blk>>}
  <2>1. ASSUME NEW x \in Unspilled, x # <<chan, blk>> PROVE x \in P
    <3>1. x \in Blocks /\ slot[x] = "ram" /\ x \notin pending
      BY <2>1 DEF Unspilled, InRam
    <3>2. x[2] = cur_ref[x[1]]
      BY <2>1, <3>1 DEF Spillable
    <3>3. x[1] \in Channels /\ x = <<x[1], x[2]>>
      BY <3>1 DEF Blocks
    <3>4. QED  BY <3>2, <3>3
  <2>2. QED  BY <2>1
<1> HIDE DEF f, P
<1>4. IsFiniteSet(P) /\ Cardinality(P) <= NCH
  BY <1>1, <1>2, FS_Surjection
<1>5. /\ IsFiniteSet(P \cup {<<chan, blk>>})
      /\ Cardinality(P \cup {<<chan, blk>>}) \in {Cardinality(P), Cardinality(P) + 1}
  BY ONLY <1>4, FS_AddElement
<1>6. Cardinality(Unspilled) <= Cardinality(P \cup {<<chan, blk>>})
  BY <1>3, <1>5, FS_Subset
<1>7. Cardinality(P) \in Nat /\ RAM_LIMIT \in Nat
  BY <1>4, FS_CardinalityType, SnapshotAssumption DEF SnapshotAssumption
<1>8. QED  BY <1>1, <1>4, <1>5, <1>6, <1>7, WindowFinite DEF Window

\* spill_oldest_block returns
LEMMA SpillWindow ==
    ASSUME LInv, LInv', FullInv, CountedEnough, WindowInv,
           SpillNothing \/ SpillRelieved \/ SpillEnqueued \/ SpillRefused
    PROVE  WindowInv'
<1>1. /\ [LNext]_all_vars /\ ~Clear /\ ~NewManager
      /\ UNCHANGED <<slot, fill, blk>> /\ Checking /\ ~Checking'
  BY DEF LNext, Spill, SpillNothing, SpillRelieved, SpillEnqueued, SpillRefused, Clear,
         NewManager, Checking
<1>2. <<chan, blk>> \in Blocks
  BY CurrentBlock DEF SpillNothing, SpillRelieved, SpillEnqueued, SpillRefused, InBlock
<1>3. CASE RAM_LIMIT > 0 /\ (SpillNothing \/ SpillRelieved)
  <2>1. Unspilled' = Unspilled /\ (Excused => Excused')
    BY <1>1, <1>3, ExcusedStays DEF SpillNothing, SpillRelieved, Unspilled, InRam
  <2>2. ~should_spill \/ disk_full \/ Spillable = {}
    BY <1>3 DEF SpillNothing, SpillRelieved
  <2>3. disk_full => Excused'
    BY <2>1 DEF Excused
  <2>4. QED  BY <1>1, <1>2, <1>3, <2>1, <2>2, <2>3, RelievedFits, ProtectedFit, ClosedWindow
<1>4. CASE SpillEnqueued
  <2>1. pending' = pending \cup {enq_block} /\ call # "none" /\ ~Gone
    BY <1>4 DEF SpillEnqueued, EnqueuePush, Gone
  <2>2. enq_block \notin pending /\ enq_block \in Blocks /\ slot[enq_block] = "ram"
    BY <2>1 DEF LInv, PendInv, SlotInv, SMInv, ThreadsInv
  <2>3. Unspilled' = Unspilled \ {enq_block} /\ enq_block \in Unspilled
    BY <1>1, <2>1, <2>2 DEF Unspilled, InRam
  <2>4. QED  BY <1>1, <2>3, ClosedWindow
<1>5. CASE SpillRefused
  BY <1>5 DEF SpillRefused, WindowInv, Excused
<1>6. CASE ~(RAM_LIMIT > 0)
  BY <1>6 DEF WindowInv
<1>7. QED  BY <1>3, <1>4, <1>5, <1>6

LEMMA WindowStep ==
    ASSUME LInv, LInv', FullInv, CountedEnough, WindowInv, [LNext]_all_vars
    PROVE  WindowInv'
<1>a. ASSUME ~Clear, ~NewManager, ~Checking, ~Checking' \/ UNCHANGED cap_pc,
             UNCHANGED <<slot, fill, pending, blk>>
      PROVE  WindowInv'
  <2>1. Unspilled' = Unspilled /\ Open' = Open
    BY <1>a DEF Unspilled, InRam, Open, Checking
  <2>2. QED  BY <1>a, <2>1, WindowKept
<1>b. ASSUME CheckPending, ~Clear, ~NewManager,
             UNCHANGED <<fill, blk>>,
             \/ ~Checking /\ ~Checking'
             \/ Checking /\ Checking' /\ UNCHANGED chan
      PROVE  WindowInv'
  <2>1. Unspilled' = Unspilled
    BY <1>b, CheckUnspilled
  <2>2. \A c \in Channels : blk < NBLK => (slot'[<<c, blk>>] = "none" <=> slot[<<c, blk>>] = "none")
    <3>1. ASSUME NEW c \in Channels, blk < NBLK PROVE <<c, blk>> \in Blocks
      BY <3>1, ConstantsAssumption
      DEF Blocks, BlockIds, LInv, LTypeOK, SnapTypeOK, ConstantsAssumption
    <3>2. QED  BY <1>b, <3>1, CheckUnspilled
  <2>3. Open' = Open
    BY <1>b, <2>2 DEF Open
  <2>4. QED  BY <1>b, <2>1, <2>3, WindowKept
<1>1. CASE IoNext
  <2>1. UNCHANGED <<slot, fill, pending, blk, chan, cap_pc>> /\ ~Clear
    BY <1>1 DEF IoNext, snap_vars, Clear
  <2>2. ~NewManager
    BY <2>1 DEF NewManager
  <2>3. Unspilled' = Unspilled /\ Open' = Open
    BY <2>1 DEF Unspilled, InRam, Open, Checking
  <2>4. QED  BY <2>1, <2>2, <2>3, WindowKept
<1>2. ASSUME NEW n \in 1 .. MAX_PACKET, AppendBegin(n) PROVE WindowInv'
  BY <1>b, <1>2 DEF AppendBegin, Clear, NewManager, Checking
<1>3. CASE AllocateNext
  BY <1>3, AllocateWindow
<1>4. CASE Fill \/ EndTail
  BY <1>4, FillWindow
<1>5. CASE NextChannel
  BY <1>5, NextWindow
<1>6. CASE FillSentinel \/ EndBegin \/ EndTailSentinel \/ EndNext \/ DeleteManager
  BY <1>a, <1>6
  DEF FillSentinel, EndBegin, EndTailSentinel, EndNext, DeleteManager, Clear, NewManager,
      Checking
<1>7. CASE AppendEnd \/ EndIdle
  BY <1>b, <1>7 DEF AppendEnd, EndIdle, Clear, NewManager, Checking
<1>8. CASE SpillCheck
  BY <1>b, <1>8 DEF SpillCheck, Clear, NewManager, Checking
<1>9. CASE SpillOldest \/ SpillTest
  <2>1. UNCHANGED <<slot, fill, pending, blk, chan>> /\ Checking /\ Checking'
    BY <1>9 DEF SpillOldest, SpillTest, snap_vars, Checking
  <2>2. ~Clear /\ ~NewManager
    BY <2>1 DEF Checking, Clear, NewManager
  <2>3. Unspilled' = Unspilled /\ Open' = Open
    BY <2>1 DEF Unspilled, InRam, Open
  <2>4. QED  BY <2>2, <2>3, WindowKept
<1>10. CASE SpillNothing \/ SpillRelieved \/ SpillEnqueued \/ SpillRefused
  BY <1>10, SpillWindow
<1>11. CASE Clear \/ NewManager
  <2>1. InRam' = {}
    <3>1. slot' = [x \in Blocks |-> "none"]
      BY <1>11 DEF Clear, NewManager, LInv, PendInv, Gone
    <3>2. QED  BY <3>1 DEF InRam
  <2>2. Cardinality(Unspilled') = 0
    BY <2>1, FS_EmptySet DEF Unspilled
  <2>3. Window' \in Nat /\ Cardinality(Open') \in Nat
    <3>1. Open' \subseteq Channels /\ IsFiniteSet(Channels)
      BY FS_Interval, ConstantsAssumption DEF Open, Channels, ConstantsAssumption
    <3>2. QED  BY <3>1, WindowFinite, FS_Subset, FS_CardinalityType DEF Window
  <2>4. QED  BY <2>2, <2>3 DEF WindowInv
<1>12. ASSUME NEW d \in Decoders, Decode(d) PROVE WindowInv'
  <2>1. UNCHANGED <<slot, fill, pending, blk, chan, cap_pc, mem_failed, vars>>
    BY <1>12 DEF Decode, StartDecoder, GetSamples, ChunkSent
  <2>2. Unspilled' = Unspilled /\ Open' = Open /\ Excused' = Excused
    BY <2>1 DEF Unspilled, InRam, Open, Checking, Excused, disk_full, vars
  <2>3. QED  BY <2>2 DEF WindowInv, Window
<1>13. CASE DecodeEnd \/ UNCHANGED all_vars
  <2>1. UNCHANGED <<slot, fill, pending, blk, chan, cap_pc, mem_failed, vars>>
    BY <1>13 DEF DecodeEnd, all_vars, snap_vars
  <2>2. Unspilled' = Unspilled /\ Open' = Open /\ Excused' = Excused
    BY <2>1 DEF Unspilled, InRam, Open, Checking, Excused, disk_full, vars
  <2>3. QED  BY <2>2 DEF WindowInv, Window
<1>14. ASSUME NEW c \in Channels, ReadSpilled(c) PROVE WindowInv'
  <2>1. /\ UNCHANGED <<slot, fill, pending, blk, chan, cap_pc, mem_failed>>
        /\ UNCHANGED <<failed, disk_usage>>
    BY <1>14, ReadStep DEF snap_vars
  <2>2. Unspilled' = Unspilled /\ Open' = Open /\ Excused' = Excused
    BY <2>1 DEF Unspilled, InRam, Open, Checking, Excused, disk_full
  <2>3. QED  BY <2>2 DEF WindowInv, Window
<1>15. QED
  BY <1>1, <1>2, <1>3, <1>4, <1>5, <1>6, <1>7, <1>8, <1>9, <1>10, <1>11, <1>12, <1>13, <1>14
  DEF LNext, Append1, Spill, End, Restart

LEMMA WindowInit == LInit => QueueInv /\ WindowInv
<1> SUFFICES ASSUME LInit PROVE QueueInv /\ WindowInv
  OBVIOUS
<1>1. cap_pc = "idle" /\ pending = {} /\ InRam = {} /\ MAX_QUEUE_DEPTH \in Nat
  BY ConstantsAssumption DEF LInit, SnapInit, InRam, ConstantsAssumption
<1>2. Cardinality(pending) = 0 /\ Cardinality(Unspilled) = 0
  BY <1>1, FS_EmptySet DEF Unspilled
<1>3. Window \in Nat /\ Cardinality(Open) \in Nat
  <2>1. Open \subseteq Channels /\ IsFiniteSet(Channels)
    BY FS_Interval, ConstantsAssumption DEF Open, Channels, ConstantsAssumption
  <2>2. QED  BY <2>1, FS_Subset, FS_CardinalityType, ConstantsAssumption, SnapshotAssumption
             DEF Window, ConstantsAssumption, SnapshotAssumption
<1>4. QED  BY <1>1, <1>2, <1>3 DEF QueueInv, WindowInv

\* what is in RAM: what waits for the disk, and the window
LEMMA WindowSum ==
    ASSUME LInv, QueueInv, WindowInv
    PROVE  WindowBounded
<1> SUFFICES ASSUME RAM_LIMIT > 0, ~Excused
             PROVE  Cardinality(InRam) <= Window + NCH + MAX_QUEUE_DEPTH + 2
  BY DEF WindowBounded
<1>1. /\ Cardinality(Unspilled) <= Window + Cardinality(Open)
      /\ Cardinality(pending) <= MAX_QUEUE_DEPTH + 2
  BY DEF WindowInv, QueueInv, Excused
<1>2. /\ IsFiniteSet(Unspilled \cup pending)
      /\ Cardinality(Unspilled \cup pending) =
            Cardinality(Unspilled) + Cardinality(pending) - Cardinality(Unspilled \cap pending)
      /\ Cardinality(Unspilled \cap pending) \in Nat
  <2>1. IsFiniteSet(Unspilled) /\ IsFiniteSet(pending)
    BY WindowFinite
  <2>2. QED  BY ONLY <2>1, FS_Union, FS_Intersection, FS_CardinalityType
<1>3. Cardinality(InRam) <= Cardinality(Unspilled \cup pending)
  <2>1. InRam \subseteq Unspilled \cup pending
    BY DEF Unspilled
  <2>2. QED  BY <1>2, <2>1, FS_Subset
<1>4. NCH \in Nat /\ MAX_QUEUE_DEPTH \in Nat
  BY ConstantsAssumption DEF ConstantsAssumption
<1>5. QED  BY <1>1, <1>2, <1>3, <1>4, WindowFinite, RamFinite

LEMMA RamInvariant ==
    LSpec => [](LInv /\ CountedEnough /\ QueueInv /\ WindowInv)
<1>1. /\ LInv /\ LInv' /\ FullInv /\ [LNext]_all_vars
      /\ CountedEnough /\ QueueInv /\ WindowInv
      => (CountedEnough /\ QueueInv /\ WindowInv)'
  BY CountStep, QueueStep, WindowStep
<1>2. QED  BY <1>1, CountInit, WindowInit, LInvariant, FullInvariant, PTL DEF LSpec

\* As long as the disk takes what it is given, the blocks in RAM stay within the
\* RAM window (or, where that is smaller, what decoders protect and the block
\* just finished), the blocks begun on every channel and what is on its way to
\* disk: whatever decoders do, over any number of captures
\* (spill_oldest_block, called once per finished block).
THEOREM RamWindow == LSpec => []WindowBounded
<1>1. LInv /\ QueueInv /\ WindowInv => WindowBounded
  BY WindowSum
<1>2. QED  BY <1>1, RamInvariant, PTL

\* Without decoders the same holds of _ram_usage_bytes, for any number of channels
\* and any limit, also one that has no room for a block of every channel.
THEOREM RamIsBounded ==
    ASSUME Decoders = {}
    PROVE  LSpec => []RamBounded
<1>1. LInv /\ LInv' /\ CountedExactly /\ [LNext]_all_vars => CountedExactly'
  BY CountStep
<1>2. LInv /\ CountedExactly /\ QueueInv /\ WindowInv => RamBounded
  BY WindowSum DEF WindowBounded, CountedExactly, RamBounded, Excused
<1>3. QED  BY <1>1, <1>2, CountInit, RamInvariant, LInvariant, PTL DEF LSpec
=============================================================================
