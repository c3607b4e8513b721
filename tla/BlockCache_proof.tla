--------------------------- MODULE BlockCache_proof ---------------------------
(***************************************************************************)
(* Theorems about BlockCache.  For any number of readers a cache entry     *)
(* holds the block it is tagged with.  For a single reader that holds no   *)
(* more pointers than there are slots, none of them is overwritten: a slot *)
(* it holds has been used more recently than every slot it does not hold,  *)
(* and one of those is left to be evicted.                                 *)
(***************************************************************************)
EXTENDS BlockCache, FiniteSetTheorems, TLAPS

\* A reader inside load_block knows its block.
KeyInv == \A r \in Readers : pc[r] # "out" => key[r] \in Keys

TagInv == CacheTypeOK /\ KeyInv /\ TagTrue

LEMMA TagInit == Init => TagInv
BY CacheAssumption DEF CacheAssumption, Init, TagInv, CacheTypeOK, KeyInv, TagTrue, Slots, Pointers

\* One step of the cache.
LEMMA TagStep ==
    ASSUME TagInv, [Next]_vars
    PROVE  TagInv'
<1> USE CacheAssumption DEF CacheAssumption, TagInv, CacheTypeOK, KeyInv, TagTrue
<1>1. ASSUME NEW k \in Keys, IndexBlock(k) PROVE TagInv'
  BY <1>1 DEF IndexBlock
<1>2. ASSUME NEW r \in Readers, NEW k \in Keys, LoadHit(r, k) PROVE TagInv'
  <2>1. PICK s \in Slots : /\ First(Hits(k), s)
                           /\ lru' = [lru EXCEPT ![s].last_tick = lru_tick + 1]
                           /\ Return(r, s, k)
    BY <1>2 DEF LoadHit
  <2>2. lru_tick + 1 \in 1 .. MAX_TICK /\ UNCHANGED <<on_disk, misread>>
    BY <1>2 DEF LoadHit, Wants
  <2>3. [slot |-> s, key |-> k, tick |-> lru_tick + 1] \in Pointers
    BY <2>2 DEF Pointers
  <2>4. CacheTypeOK' /\ KeyInv'
    BY <2>1, <2>2, <2>3 DEF Return
  <2>5. \A t \in Slots : lru'[t].data = lru[t].data /\ lru'[t].block_id = lru[t].block_id
    BY <2>1
  <2>6. QED  BY <2>2, <2>4, <2>5
<1>3. ASSUME NEW r \in Readers, NEW k \in Keys, LoadMiss(r, k) PROVE TagInv'
  BY <1>3 DEF LoadMiss
<1>4. ASSUME NEW r \in Readers, IndexFound(r) PROVE TagInv'
  BY <1>4 DEF IndexFound
<1>5. ASSUME NEW r \in Readers, IndexMissing(r) PROVE TagInv'
  BY <1>5 DEF IndexMissing, ReturnNull
<1>6. ASSUME NEW r \in Readers, Read(r) PROVE TagInv'
  <2>1. PICK s \in Slots : /\ lru' = [lru EXCEPT ![s] = [block_id |-> key[r], data |-> key[r],
                                                        last_tick |-> lru_tick + 1]]
                           /\ Return(r, s, key[r])
    BY <1>6 DEF Read
  <2>2. /\ lru_tick + 1 \in 1 .. MAX_TICK /\ key[r] \in Keys
        /\ UNCHANGED <<on_disk, misread>>
    BY <1>6 DEF Read
  <2>3. [slot |-> s, key |-> key[r], tick |-> lru_tick + 1] \in Pointers
    BY <2>2 DEF Pointers
  <2>4. CacheTypeOK' /\ KeyInv'
    BY <2>1, <2>2, <2>3 DEF Return
  <2>5. TagTrue'
    BY <2>1, <2>2
  <2>6. QED  BY <2>4, <2>5
<1>7. ASSUME NEW r \in Readers, ShortRead(r) PROVE TagInv'
  <2>1. PICK s \in Slots : lru' = [lru EXCEPT ![s] = [block_id |-> NoKey, data |-> EMPTY,
                                                     last_tick |-> lru[s].last_tick]]
    BY <1>7 DEF ShortRead
  <2>2. CacheTypeOK' /\ KeyInv'
    BY <1>7, <2>1 DEF ShortRead, ReturnNull
  <2>3. TagTrue'
    BY <1>7, <2>1 DEF ShortRead
  <2>4. QED  BY <2>2, <2>3
<1>8. ASSUME NEW r \in Readers, SeekFails(r) PROVE TagInv'
  <2>1. PICK s \in Slots : lru' = [lru EXCEPT ![s] =
                             [block_id |-> key[r],
                              data |-> IF lru[s].data = EMPTY THEN ZERO ELSE lru[s].data,
                              last_tick |-> lru[s].last_tick]]
    BY <1>8 DEF SeekFails
  <2>2. key[r] \in Keys /\ misread' = misread \cup {key[r]}
    BY <1>8 DEF SeekFails
  <2>3. CacheTypeOK' /\ KeyInv'
    BY <1>8, <2>1, <2>2 DEF SeekFails, ReturnNull
  <2>4. TagTrue'
    BY <2>1, <2>2
  <2>5. QED  BY <2>3, <2>4
<1>9. ASSUME NEW r \in Readers, Release(r) PROVE TagInv'
  BY <1>9 DEF Release
<1>10. CASE UNCHANGED vars
  BY <1>10 DEF vars
<1>11. QED
  BY <1>1, <1>2, <1>3, <1>4, <1>5, <1>6, <1>7, <1>8, <1>9, <1>10 DEF Next, LoadBlock

\* Type, tag and key together are an invariant.
THEOREM TagInvariant == Spec => []TagInv
BY TagInit, TagStep, PTL DEF Spec

\* Every variable of the cache keeps its type (load_block 157-210).
THEOREM CacheTypeCorrect == Spec => []CacheTypeOK
BY TagInvariant, PTL DEF TagInv

\* A hit is a hit: the entry found for a block holds that block, unless a seek
\* for it failed (load_block 188-208).
THEOREM HitsAreTrue == Spec => []TagTrue
BY TagInvariant, PTL DEF TagInv

-----------------------------------------------------------------------------
\* The slots a reader has pointers into.
HeldSlots(r) == {p.slot : p \in held[r]}

\* What makes the least recently used slot a free one.
HeldInv(r) ==
    /\ IsFiniteSet(held[r]) /\ Cardinality(held[r]) <= CHUNK
    /\ pc[r] # "out" => Cardinality(held[r]) < CHUNK
    /\ \A s \in Slots : lru[s].last_tick <= lru_tick
    /\ \A p \in held[r] : lru[p.slot].data # EMPTY
    /\ \A p \in held[r] : lru[p.slot].data = p.key \/ p.key \in misread
    /\ \A s \in HeldSlots(r), t \in Slots \ HeldSlots(r) :
          lru[t].last_tick < lru[s].last_tick

\* A reader that may hold one more pointer leaves a slot free.
LEMMA SlotLeft ==
    ASSUME TagInv, NEW r \in Readers, CHUNK <= LRU_SLOTS,
           IsFiniteSet(held[r]), Cardinality(held[r]) < CHUNK
    PROVE  \E t \in Slots : t \notin HeldSlots(r)
<1> DEFINE f == [p \in held[r] |-> p.slot]
<1>1. f \in Surjection(held[r], HeldSlots(r))
  BY DEF HeldSlots, Surjection
<1>2. IsFiniteSet(HeldSlots(r)) /\ Cardinality(HeldSlots(r)) <= Cardinality(held[r])
  BY <1>1, FS_Surjection
<1>3. Cardinality(Slots) = LRU_SLOTS
  BY FS_Interval, CacheAssumption DEF Slots, CacheAssumption
<1>4. Cardinality(held[r]) \in Nat /\ Cardinality(HeldSlots(r)) \in Nat
  BY <1>2, FS_CardinalityType
<1>5. SUFFICES ASSUME Slots \subseteq HeldSlots(r) PROVE FALSE
  OBVIOUS
<1>6. Cardinality(Slots) <= Cardinality(HeldSlots(r))
  BY <1>2, <1>5, FS_Subset
<1>7. QED  BY <1>2, <1>3, <1>4, <1>6, CacheAssumption DEF CacheAssumption

\* lru_evict_slot takes a slot the reader does not hold.
LEMMA EvictsFree ==
    ASSUME TagInv, NEW r \in Readers, CHUNK <= LRU_SLOTS, HeldInv(r), pc[r] # "out",
           NEW s \in Slots, Evicts(s)
    PROVE  s \notin HeldSlots(r)
<1>1. PICK t \in Slots : t \notin HeldSlots(r)
  BY SlotLeft DEF HeldInv
<1>2. CASE Empties # {}
  BY <1>2 DEF Evicts, First, Empties, HeldInv, HeldSlots
<1>3. CASE Empties = {}
  <2>1. lru[s].last_tick <= lru[t].last_tick
    BY <1>3 DEF Evicts, First, Oldest
  <2>2. lru[s].last_tick \in Int /\ lru[t].last_tick \in Int
    BY DEF TagInv, CacheTypeOK
  <2>3. QED  BY <1>1, <2>1, <2>2 DEF HeldInv
<1>4. QED  BY <1>2, <1>3

\* A new pointer into slot s: it becomes the most recently used of all.
LEMMA ReturnKeepsHeld ==
    ASSUME TagInv, NEW r \in Readers, HeldInv(r), Cardinality(held[r]) < CHUNK,
           NEW s \in Slots, NEW k \in Keys, Return(r, s, k), CacheTypeOK',
           lru'[s].last_tick = lru_tick + 1, lru'[s].data # EMPTY,
           lru'[s].data = k \/ k \in misread,
           s \in HeldSlots(r) => lru'[s].data = lru[s].data,
           \A t \in Slots \ {s} : lru'[t] = lru[t],
           UNCHANGED misread
    PROVE  HeldInv(r)'
<1> DEFINE q == [slot |-> s, key |-> k, tick |-> lru_tick + 1]
<1>1. /\ held'[r] = held[r] \cup {q} /\ lru_tick' = lru_tick + 1
      /\ pc'[r] = "out" /\ q.slot = s /\ q.key = k
  BY DEF Return, TagInv, CacheTypeOK
<1>2. HeldSlots(r)' = HeldSlots(r) \cup {s}
  BY <1>1 DEF HeldSlots
<1>3. \A p \in held[r] : p.slot \in Slots /\ p.slot \in HeldSlots(r)
  BY DEF HeldSlots, TagInv, CacheTypeOK, Pointers
<1>4. lru_tick \in Int /\ \A t \in Slots : lru[t].last_tick \in Int
  BY DEF TagInv, CacheTypeOK
<1>5. IsFiniteSet(held'[r]) /\ Cardinality(held'[r]) <= CHUNK
  <2>1. /\ IsFiniteSet(held[r] \cup {q})
        /\ Cardinality(held[r] \cup {q}) =
              IF q \in held[r] THEN Cardinality(held[r]) ELSE Cardinality(held[r]) + 1
    BY FS_AddElement DEF HeldInv
  <2>2. Cardinality(held[r]) \in Nat
    BY FS_CardinalityType DEF HeldInv
  <2>3. QED  BY <1>1, <2>1, <2>2, CacheAssumption DEF CacheAssumption
<1>6. \A t \in Slots : lru'[t].last_tick <= lru_tick'
  BY <1>1, <1>4 DEF HeldInv
<1>7. \A p \in held'[r] : /\ lru'[p.slot].data # EMPTY
                          /\ lru'[p.slot].data = p.key \/ p.key \in misread'
  BY <1>1, <1>3 DEF HeldInv
<1>8. ASSUME NEW u \in HeldSlots(r)', NEW t \in Slots \ HeldSlots(r)'
      PROVE  lru'[t].last_tick < lru'[u].last_tick
  <2>1. t # s /\ t \in Slots \ HeldSlots(r) /\ lru'[t] = lru[t]
    BY <1>2
  <2>2. CASE u = s
    BY <1>4, <2>1, <2>2 DEF HeldInv
  <2>3. CASE u # s
    <3>1. u \in HeldSlots(r) /\ u \in Slots
      BY <1>2, <1>3, <2>3 DEF HeldSlots
    <3>2. QED  BY <2>1, <2>3, <3>1 DEF HeldInv
  <2>4. QED  BY <2>2, <2>3
<1>9. QED  BY <1>1, <1>5, <1>6, <1>7, <1>8 DEF HeldInv

\* A slot the reader does not hold is given another block or none.
LEMMA FailKeepsHeld ==
    ASSUME TagInv, NEW r \in Readers, HeldInv(r), ReturnNull(r),
           NEW s \in Slots, s \notin HeldSlots(r),
           lru'[s].last_tick = lru[s].last_tick,
           \A t \in Slots \ {s} : lru'[t] = lru[t],
           misread \subseteq misread'
    PROVE  HeldInv(r)'
<1>1. held' = held /\ lru_tick' = lru_tick /\ pc'[r] = "out"
  BY DEF ReturnNull, TagInv, CacheTypeOK
<1>2. HeldSlots(r)' = HeldSlots(r)
  BY <1>1 DEF HeldSlots
<1>3. \A p \in held[r] : p.slot \in Slots /\ p.slot \in HeldSlots(r)
  BY DEF HeldSlots, TagInv, CacheTypeOK, Pointers
<1>4. \A t \in Slots : lru'[t].last_tick = lru[t].last_tick
  OBVIOUS
<1>5. \A p \in held[r] : lru'[p.slot] = lru[p.slot]
  BY <1>3
<1>6. HeldSlots(r) \subseteq Slots
  BY <1>3 DEF HeldSlots
<1>7. QED  BY <1>1, <1>2, <1>4, <1>5, <1>6 DEF HeldInv

\* One step of the cache with one reader.
LEMMA HeldStep ==
    ASSUME NEW r, Readers = {r}, CHUNK <= LRU_SLOTS, TagInv, TagInv', HeldInv(r), [Next]_vars
    PROVE  HeldInv(r)'
<1> r \in Readers
  OBVIOUS
<1>2. ASSUME NEW k \in Keys, LoadHit(r, k) PROVE HeldInv(r)'
  <2>1. PICK s \in Slots : /\ First(Hits(k), s)
                           /\ lru' = [lru EXCEPT ![s].last_tick = lru_tick + 1]
                           /\ Return(r, s, k)
    BY <1>2 DEF LoadHit
  <2>2. Cardinality(held[r]) < CHUNK /\ UNCHANGED misread
    BY <1>2 DEF LoadHit, Wants
  <2>3. lru[s].data # EMPTY /\ (lru[s].data = k \/ k \in misread)
    BY <2>1, CacheAssumption DEF CacheAssumption, First, Hits, TagInv, TagTrue
  <2>4. /\ lru'[s].last_tick = lru_tick + 1 /\ lru'[s].data = lru[s].data
        /\ \A t \in Slots \ {s} : lru'[t] = lru[t]
    BY <2>1 DEF TagInv, CacheTypeOK
  <2>5. QED  BY <2>1, <2>2, <2>3, <2>4, ReturnKeepsHeld DEF TagInv
<1>3. ASSUME Read(r) PROVE HeldInv(r)'
  <2>1. PICK s \in Slots : /\ Evicts(s)
                           /\ lru' = [lru EXCEPT ![s] = [block_id |-> key[r], data |-> key[r],
                                                         last_tick |-> lru_tick + 1]]
                           /\ Return(r, s, key[r])
    BY <1>3 DEF Read
  <2>2. pc[r] # "out" /\ key[r] \in Keys /\ UNCHANGED misread
    BY <1>3 DEF Read, TagInv, KeyInv
  <2>3. s \notin HeldSlots(r)
    BY <2>1, <2>2, EvictsFree
  <2>4. /\ lru'[s].last_tick = lru_tick + 1 /\ lru'[s].data = key[r]
        /\ \A t \in Slots \ {s} : lru'[t] = lru[t]
    BY <2>1 DEF TagInv, CacheTypeOK
  <2>5. key[r] # EMPTY /\ Cardinality(held[r]) < CHUNK
    BY <2>2, CacheAssumption DEF CacheAssumption, HeldInv
  <2>6. QED  BY <2>1, <2>2, <2>3, <2>4, <2>5, ReturnKeepsHeld DEF TagInv
<1>4. ASSUME ShortRead(r) PROVE HeldInv(r)'
  <2>1. PICK s \in Slots : /\ Evicts(s)
                           /\ lru' = [lru EXCEPT ![s] = [block_id |-> NoKey, data |-> EMPTY,
                                                         last_tick |-> lru[s].last_tick]]
    BY <1>4 DEF ShortRead
  <2>2. pc[r] # "out" /\ ReturnNull(r) /\ misread' = misread
    BY <1>4 DEF ShortRead
  <2>3. s \notin HeldSlots(r)
    BY <2>1, <2>2, EvictsFree
  <2>4. /\ lru'[s].last_tick = lru[s].last_tick
        /\ \A t \in Slots \ {s} : lru'[t] = lru[t]
    BY <2>1 DEF TagInv, CacheTypeOK
  <2>5. QED  BY <2>2, <2>3, <2>4, FailKeepsHeld
<1>5. ASSUME SeekFails(r) PROVE HeldInv(r)'
  <2>1. PICK s \in Slots :
          /\ Evicts(s)
          /\ lru' = [lru EXCEPT ![s] =
                       [block_id |-> key[r],
                        data |-> IF lru[s].data = EMPTY THEN ZERO ELSE lru[s].data,
                        last_tick |-> lru[s].last_tick]]
    BY <1>5 DEF SeekFails
  <2>2. pc[r] # "out" /\ ReturnNull(r) /\ misread \subseteq misread'
    BY <1>5 DEF SeekFails
  <2>3. s \notin HeldSlots(r)
    BY <2>1, <2>2, EvictsFree
  <2>4. /\ lru'[s].last_tick = lru[s].last_tick
        /\ \A t \in Slots \ {s} : lru'[t] = lru[t]
    BY <2>1 DEF TagInv, CacheTypeOK
  <2>5. QED  BY <2>2, <2>3, <2>4, FailKeepsHeld
<1>6. ASSUME Release(r) PROVE HeldInv(r)'
  <2>1. held'[r] = {} /\ pc'[r] = "out" /\ UNCHANGED <<lru, lru_tick, misread>>
    BY <1>6 DEF Release, TagInv, CacheTypeOK
  <2>2. HeldSlots(r)' = {}
    BY <2>1 DEF HeldSlots
  <2>3. QED  BY <2>1, <2>2, FS_EmptySet, CacheAssumption DEF CacheAssumption, HeldInv
<1>7. ASSUME NEW k \in Keys, IndexBlock(k) PROVE HeldInv(r)'
  BY <1>7 DEF IndexBlock, HeldInv, HeldSlots
<1>8. ASSUME NEW k \in Keys, LoadMiss(r, k) PROVE HeldInv(r)'
  BY <1>8 DEF LoadMiss, Wants, HeldInv, HeldSlots
<1>9. CASE IndexFound(r)
  BY <1>9 DEF IndexFound, HeldInv, HeldSlots
<1>10. CASE IndexMissing(r)
  BY <1>10 DEF IndexMissing, ReturnNull, HeldInv, HeldSlots, TagInv, CacheTypeOK
<1>11. CASE UNCHANGED vars
  BY <1>11 DEF vars, HeldInv, HeldSlots
<1>12. QED
  BY <1>2, <1>3, <1>4, <1>5, <1>6, <1>7, <1>8, <1>9, <1>10, <1>11 DEF Next, LoadBlock

\* A reader that is alone in the cache and holds no more pointers than there are
\* slots reads every block it asked for, whatever it loads in between
\* (lru_evict_slot 390-400, decode_data's pointers of one chunk).
THEOREM ChunkSafe ==
    ASSUME NEW r, Readers = {r}, CHUNK <= LRU_SLOTS
    PROVE  Spec => []ChunkIntact
<1>1. Init => HeldInv(r)
  BY FS_EmptySet, CacheAssumption DEF CacheAssumption, Init, HeldInv, HeldSlots
<1>2. TagInv /\ TagInv' /\ HeldInv(r) /\ [Next]_vars => HeldInv(r)'
  BY HeldStep
<1>3. HeldInv(r) => ChunkIntact
  BY DEF HeldInv, ChunkIntact
<1>4. QED  BY <1>1, <1>2, <1>3, TagInvariant, PTL DEF Spec

-----------------------------------------------------------------------------
(* How long a pointer lasts when others use the cache too.  Every use of a *)
(* slot gets a tick of its own.  A slot that is evicted with its data in   *)
(* it is the oldest, so since the pointer into it was returned every other *)
(* slot has been used at a tick after the pointer's.                       *)

TicksInv ==
    /\ \A s \in Slots : lru[s].last_tick <= lru_tick
    /\ \A s, t \in Slots : lru[s].last_tick = lru[t].last_tick /\ s # t => lru[s].last_tick = 0
    /\ \A r \in Readers : \A p \in held[r] : p.tick <= lru[p.slot].last_tick

\* What one step of any thread does to ticks, data and pointers.
Used(s) == lru'[s].last_tick = lru_tick + 1 /\ lru_tick' = lru_tick + 1

Handed(p) == /\ p \in Pointers /\ p.tick = lru_tick + 1 /\ Used(p.slot)
             /\ lru'[p.slot].data = p.key \/ p.key \in misread

Ages ==
    /\ lru_tick' >= lru_tick
    /\ \A s \in Slots : lru'[s].last_tick = lru[s].last_tick \/ Used(s)
    /\ \A s, t \in Slots : s # t => \/ lru'[s].last_tick = lru[s].last_tick
                                    \/ lru'[t].last_tick = lru[t].last_tick
    /\ \A s \in Slots : lru'[s].data = lru[s].data \/ Evicts(s)
    /\ \A r \in Readers : \A p \in held'[r] : p \in held[r] \/ Handed(p)
    /\ misread \subseteq misread'

\* The slot of a pointer that is about to lose its data is the oldest of all.
LEMMA EvictedIsOld ==
    ASSUME TagInv, TicksInv, NEW r \in Readers, NEW p \in held[r],
           lru[p.slot].data = p.key, Evicts(p.slot)
    PROVE  lru_tick >= p.tick + LRU_SLOTS - 1
<1>0. p \in Pointers /\ p.slot \in Slots /\ p.key \in Keys /\ p.tick \in Nat \ {0}
  BY DEF TagInv, CacheTypeOK, Pointers
<1>1. Empties = {}
  BY <1>0, CacheAssumption DEF CacheAssumption, Evicts, First, Empties
<1>2. lru_tick \in Nat /\ \A s \in Slots : lru[s].last_tick \in Nat
  BY CacheAssumption DEF CacheAssumption, TagInv, CacheTypeOK
<1>3. \A s \in Slots : lru[s].last_tick \in p.tick .. lru_tick
  BY <1>0, <1>1, <1>2 DEF Evicts, First, Oldest, TicksInv
<1> DEFINE f == [s \in Slots |-> lru[s].last_tick]
<1>4. f \in Injection(Slots, p.tick .. lru_tick)
  <2>1. f \in [Slots -> p.tick .. lru_tick]
    BY <1>3
  <2>2. \A s, t \in Slots : f[s] = f[t] => s = t
    BY <1>0, <1>3 DEF TicksInv
  <2>3. QED  BY <2>1, <2>2 DEF Injection, IsInjective
<1>5. /\ IsFiniteSet(p.tick .. lru_tick)
      /\ Cardinality(p.tick .. lru_tick) =
            IF p.tick > lru_tick THEN 0 ELSE lru_tick - p.tick + 1
  <2>1. p.tick \in Int /\ lru_tick \in Int
    BY <1>0, <1>2
  <2>2. QED  BY ONLY <2>1, FS_Interval
<1>6. Cardinality(Slots) <= Cardinality(p.tick .. lru_tick)
  BY <1>4, <1>5, FS_Injection
<1>7. Cardinality(Slots) = LRU_SLOTS /\ LRU_SLOTS \in Nat \ {0}
  BY FS_Interval, CacheAssumption DEF Slots, CacheAssumption
<1>8. QED  BY <1>0, <1>2, <1>5, <1>6, <1>7

LEMMA StepAges ==
    ASSUME TagInv, [Next]_vars
    PROVE  Ages
<1> USE DEF TagInv, CacheTypeOK
<1>0. lru_tick \in Nat /\ MAX_TICK \in Nat
  BY CacheAssumption DEF CacheAssumption
<1>1. ASSUME NEW r \in Readers, NEW k \in Keys, LoadHit(r, k) PROVE Ages
  <2>1. PICK s \in Slots : /\ First(Hits(k), s)
                           /\ lru' = [lru EXCEPT ![s].last_tick = lru_tick + 1]
                           /\ Return(r, s, k)
    BY <1>1 DEF LoadHit
  <2> DEFINE q == [slot |-> s, key |-> k, tick |-> lru_tick + 1]
  <2>2. lru[s].data = k \/ k \in misread
    BY <2>1, CacheAssumption DEF CacheAssumption, First, Hits, TagTrue
  <2>3. Used(s) /\ lru'[s].data = lru[s].data /\ \A t \in Slots \ {s} : lru'[t] = lru[t]
    BY <2>1 DEF Used, Return
  <2>4. q \in Pointers /\ misread' = misread
    <3>1. lru_tick + 1 \in 1 .. MAX_TICK /\ misread' = misread
      BY <1>1, <1>0 DEF LoadHit, Wants
    <3>2. QED  BY <3>1 DEF Pointers
  <2>5. Handed(q)
    BY <2>2, <2>3, <2>4 DEF Handed
  <2>6. \A u \in Readers : held'[u] \subseteq held[u] \cup {q}
    BY <2>1 DEF Return
  <2>7. lru_tick' >= lru_tick
    BY <1>0, <2>1 DEF Return
  <2>8. QED  BY <2>3, <2>4, <2>5, <2>6, <2>7 DEF Ages
<1>2. ASSUME NEW r \in Readers, Read(r) PROVE Ages
  <2>1. PICK s \in Slots : /\ Evicts(s)
                           /\ lru' = [lru EXCEPT ![s] = [block_id |-> key[r], data |-> key[r],
                                                         last_tick |-> lru_tick + 1]]
                           /\ Return(r, s, key[r])
    BY <1>2 DEF Read
  <2> DEFINE q == [slot |-> s, key |-> key[r], tick |-> lru_tick + 1]
  <2>2. Used(s) /\ lru'[s].data = key[r] /\ \A t \in Slots \ {s} : lru'[t] = lru[t]
    BY <2>1 DEF Used, Return
  <2>3. q \in Pointers /\ misread' = misread
    <3>1. lru_tick + 1 \in 1 .. MAX_TICK /\ misread' = misread /\ key[r] \in Keys
      BY <1>2, <1>0 DEF Read, KeyInv
    <3>2. QED  BY <3>1 DEF Pointers
  <2>4. Handed(q)
    BY <2>2, <2>3 DEF Handed
  <2>5. \A u \in Readers : held'[u] \subseteq held[u] \cup {q}
    BY <2>1 DEF Return
  <2>6. lru_tick' >= lru_tick
    BY <1>0, <2>1 DEF Return
  <2>7. QED  BY <2>1, <2>2, <2>3, <2>4, <2>5, <2>6 DEF Ages
<1>3. ASSUME NEW r \in Readers, ShortRead(r) \/ SeekFails(r) PROVE Ages
  <2>1. PICK s \in Slots : /\ Evicts(s)
                           /\ lru'[s].last_tick = lru[s].last_tick
                           /\ \A t \in Slots \ {s} : lru'[t] = lru[t]
    BY <1>3 DEF ShortRead, SeekFails
  <2>2. lru_tick' = lru_tick /\ held' = held /\ misread \subseteq misread'
    BY <1>3 DEF ShortRead, SeekFails, ReturnNull
  <2>3. QED  BY <1>0, <2>1, <2>2 DEF Ages
<1>4. ASSUME NEW r \in Readers, Release(r) PROVE Ages
  BY <1>0, <1>4 DEF Release, Ages
<1>5. ASSUME NEW k \in Keys, IndexBlock(k) PROVE Ages
  BY <1>0, <1>5 DEF IndexBlock, Ages
<1>6. ASSUME NEW r \in Readers, NEW k \in Keys, LoadMiss(r, k) PROVE Ages
  BY <1>0, <1>6 DEF LoadMiss, Ages
<1>7. ASSUME NEW r \in Readers, IndexFound(r) \/ IndexMissing(r) PROVE Ages
  BY <1>0, <1>7 DEF IndexFound, IndexMissing, ReturnNull, Ages
<1>8. CASE UNCHANGED vars
  BY <1>0, <1>8 DEF vars, Ages
<1>9. QED
  BY <1>1, <1>2, <1>3, <1>4, <1>5, <1>6, <1>7, <1>8 DEF Next, LoadBlock

LEMMA AgesKeepsLife ==
    ASSUME TagInv, TagInv', TicksInv, PointerLife, Ages
    PROVE  TicksInv' /\ PointerLife'
<1>0. /\ lru_tick \in Int /\ lru_tick' \in Int /\ LRU_SLOTS \in Int
      /\ \A s \in Slots : lru[s].last_tick \in Int /\ lru'[s].last_tick \in Int
  BY CacheAssumption DEF CacheAssumption, TagInv, CacheTypeOK
<1>1. \A r \in Readers : \A p \in held[r] : p.slot \in Slots /\ p.tick \in Int
  BY DEF TagInv, CacheTypeOK, Pointers
<1>2. \A s \in Slots : lru'[s].last_tick >= lru[s].last_tick /\ lru'[s].last_tick <= lru_tick'
  BY <1>0 DEF TicksInv, Ages, Used
<1>3. ASSUME NEW s \in Slots, NEW t \in Slots, lru'[s].last_tick = lru'[t].last_tick, s # t
      PROVE  lru'[s].last_tick = 0
  <2>1. lru'[s].last_tick = lru[s].last_tick
    BY <1>0, <1>3 DEF TicksInv, Ages, Used
  <2>2. lru'[t].last_tick = lru[t].last_tick
    BY <1>0, <1>3 DEF TicksInv, Ages, Used
  <2>3. QED  BY <1>3, <2>1, <2>2 DEF TicksInv
<1>4. ASSUME NEW r \in Readers, NEW p \in held'[r]
      PROVE  /\ p.tick <= lru'[p.slot].last_tick
             /\ \/ lru'[p.slot].data = p.key
                \/ lru_tick' >= p.tick + LRU_SLOTS - 1
                \/ p.key \in misread'
  <2>1. CASE p \in held[r]
    <3>1. p.tick <= lru'[p.slot].last_tick
      BY <1>0, <1>1, <1>2, <2>1 DEF TicksInv
    <3>2. \/ lru[p.slot].data = p.key
          \/ lru_tick' >= p.tick + LRU_SLOTS - 1
          \/ p.key \in misread'
      BY <1>0, <1>1, <2>1 DEF PointerLife, Ages
    <3>3. CASE lru[p.slot].data = p.key /\ Evicts(p.slot)
      BY <1>0, <1>1, <2>1, <3>1, <3>3, EvictedIsOld DEF Ages
    <3>4. QED  BY <1>1, <2>1, <3>1, <3>2, <3>3 DEF Ages
  <2>2. CASE Handed(p)
    BY <1>0, <2>2 DEF Handed, Used, Pointers, Ages
  <2>3. QED  BY <2>1, <2>2 DEF Ages
<1>5. QED  BY <1>2, <1>3, <1>4 DEF TicksInv, PointerLife

\* load_block's promise, for any number of threads in the cache: a pointer shows
\* its block until the cache has been used as often as it has other slots
\* (load_block 157-210, lru_evict_slot 390-400).
THEOREM PointersLast == Spec => []PointerLife
<1>1. Init => TicksInv /\ PointerLife
  BY DEF Init, TicksInv, PointerLife
<1>2. TagInv /\ TagInv' /\ TicksInv /\ PointerLife /\ [Next]_vars => TicksInv' /\ PointerLife'
  BY StepAges, AgesKeepsLife
<1>3. QED  BY <1>1, <1>2, TagInvariant, PTL DEF Spec
=============================================================================
