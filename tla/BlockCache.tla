------------------------------ MODULE BlockCache ------------------------------
(***************************************************************************)
(* The read side of the disk cache: SpillManager::load_block, which keeps  *)
(* the last LRU_SLOTS blocks it read from disk and hands out pointers into *)
(* them (PXTOOL/pv/data/spillmanager.cpp).                                 *)
(*                                                                         *)
(* Two callers may be in it at a time: whoever holds the snapshot's mutex  *)
(* (a decoder, the view), and StoreSession's worker, which takes none.     *)
(* Both go on reading through the pointer after the cache's lock is gone.  *)
(*                                                                         *)
(* A block's contents are named by the block: bytes = k is the data of k.  *)
(* ZERO stands for a vector that was only just resized.                    *)
(***************************************************************************)
EXTENDS Integers, FiniteSets

CONSTANTS
    Keys,       \* spilled blocks (channel and block id)
    LRU_SLOTS,  \* cache entries
    Readers,    \* threads that may be in load_block
    CHUNK,      \* pointers a reader holds at once (one per decoder channel)
    MAX_TICK,   \* bound of the model: how far lru_tick_ is counted
    NoKey,      \* UINT64_MAX
    EMPTY, ZERO \* data.empty(); zeros

ASSUME CacheAssumption ==
    /\ LRU_SLOTS \in Nat \ {0} /\ CHUNK \in Nat \ {0} /\ MAX_TICK \in Nat
    /\ {NoKey, EMPTY, ZERO} \cap Keys = {} /\ EMPTY # ZERO

Slots == 1 .. LRU_SLOTS

VARIABLES
    lru,        \* lru_: block_id, data, last_tick of each slot
    lru_tick,   \* lru_tick_
    on_disk,    \* keys of block_offsets_
    misread,    \* history: blocks for which fseek failed
    pc,         \* per reader: "out", "index" (missed), "load" (indexed)
    key,        \* per reader: the block it asked for
    held        \* per reader: pointers it uses, with the tick when it got each

vars == <<lru, lru_tick, on_disk, misread, pc, key, held>>

Pointers == [slot : Slots, key : Keys, tick : 1 .. MAX_TICK]

Init ==
    /\ lru = [s \in Slots |-> [block_id |-> NoKey, data |-> EMPTY, last_tick |-> 0]]
    /\ lru_tick = 0
    /\ on_disk = {}
    /\ misread = {}
    /\ pc = [r \in Readers |-> "out"]
    /\ key = [r \in Readers |-> NoKey]
    /\ held = [r \in Readers |-> {}]

\* the slots the loop over lru_ would return for block k
Hits(k) == {s \in Slots : lru[s].block_id = k /\ lru[s].data # EMPTY}

\* the first slot of a set
First(S, s) == s \in S /\ \A t \in S : s <= t

Empties == {s \in Slots : lru[s].data = EMPTY}
Oldest  == {s \in Slots : \A t \in Slots : lru[s].last_tick <= lru[t].last_tick}

\* (mutant) the most recently used one
EvictsNewest(s) ==
    IF Empties # {} THEN First(Empties, s)
    ELSE s \in Slots /\ \A t \in Slots : lru[t].last_tick <= lru[s].last_tick

\* lru_evict_slot: the first empty one, else the first of the oldest
Evicts(s) == IF Empties # {} THEN First(Empties, s) ELSE First(Oldest, s)

\* load_block returns a pointer into slot s
Return(r, s, k) ==
    /\ lru_tick' = lru_tick + 1
    /\ held' = [held EXCEPT ![r] = @ \cup {[slot |-> s, key |-> k, tick |-> lru_tick + 1]}]
    /\ pc' = [pc EXCEPT ![r] = "out"]
    /\ key' = [key EXCEPT ![r] = NoKey]

\* load_block returns nullptr
ReturnNull(r) ==
    /\ pc' = [pc EXCEPT ![r] = "out"]
    /\ key' = [key EXCEPT ![r] = NoKey]
    /\ UNCHANGED <<lru_tick, held>>

-----------------------------------------------------------------------------
\* write_block_to_file enters a block in the index
IndexBlock(k) ==
    /\ k \notin on_disk
    /\ on_disk' = on_disk \cup {k}
    /\ UNCHANGED <<lru, lru_tick, misread, pc, key, held>>

Wants(r, k) == pc[r] = "out" /\ Cardinality(held[r]) < CHUNK /\ lru_tick < MAX_TICK

\* load_block finds the block in the cache
LoadHit(r, k) ==
    /\ Wants(r, k)
    /\ \E s \in Slots :
          /\ First(Hits(k), s)
          /\ lru' = [lru EXCEPT ![s].last_tick = lru_tick + 1]
          /\ Return(r, s, k)
    /\ UNCHANGED <<on_disk, misread>>

LoadMiss(r, k) ==
    /\ Wants(r, k) /\ Hits(k) = {}
    /\ pc' = [pc EXCEPT ![r] = "index"]
    /\ key' = [key EXCEPT ![r] = k]
    /\ UNCHANGED <<lru, lru_tick, on_disk, misread, held>>

IndexFound(r) ==
    /\ pc[r] = "index" /\ key[r] \in on_disk
    /\ pc' = [pc EXCEPT ![r] = "load"]
    /\ UNCHANGED <<lru, lru_tick, on_disk, misread, key, held>>

IndexMissing(r) ==
    /\ pc[r] = "index" /\ key[r] \notin on_disk
    /\ ReturnNull(r)
    /\ UNCHANGED <<lru, on_disk, misread>>

\* the slot is tagged and resized before the file is read
Read(r) ==
    /\ pc[r] = "load" /\ lru_tick < MAX_TICK
    /\ \E s \in Slots :
          /\ Evicts(s)
          /\ lru' = [lru EXCEPT ![s] = [block_id |-> key[r], data |-> key[r],
                                        last_tick |-> lru_tick + 1]]
          /\ Return(r, s, key[r])
    /\ UNCHANGED <<on_disk, misread>>

\* (mutant) the slot keeps what could be read
ShortReadKeeps(r) ==
    /\ pc[r] = "load"
    /\ \E s \in Slots :
          /\ Evicts(s)
          /\ lru' = [lru EXCEPT ![s] = [block_id |-> key[r], data |-> ZERO,
                                        last_tick |-> lru[s].last_tick]]
    /\ ReturnNull(r)
    /\ UNCHANGED <<on_disk, misread>>

\* fread stops early: the slot is emptied
ShortRead(r) ==
    /\ pc[r] = "load"
    /\ \E s \in Slots :
          /\ Evicts(s)
          /\ lru' = [lru EXCEPT ![s] = [block_id |-> NoKey, data |-> EMPTY,
                                        last_tick |-> lru[s].last_tick]]
    /\ ReturnNull(r)
    /\ UNCHANGED <<on_disk, misread>>

\* fseek fails: the slot keeps its new tag and its old bytes
SeekFails(r) ==
    /\ pc[r] = "load"
    /\ \E s \in Slots :
          /\ Evicts(s)
          /\ lru' = [lru EXCEPT ![s] =
                        [block_id |-> key[r],
                         data |-> IF lru[s].data = EMPTY THEN ZERO ELSE lru[s].data,
                         last_tick |-> lru[s].last_tick]]
    /\ misread' = misread \cup {key[r]}
    /\ ReturnNull(r)
    /\ UNCHANGED on_disk

\* the chunk has been decoded, saved or drawn
Release(r) ==
    /\ pc[r] = "out" /\ held[r] # {}
    /\ held' = [held EXCEPT ![r] = {}]
    /\ UNCHANGED <<lru, lru_tick, on_disk, misread, pc, key>>

LoadBlock(r) == \/ \E k \in Keys : LoadHit(r, k) \/ LoadMiss(r, k)
                \/ IndexFound(r) \/ IndexMissing(r)
                \/ Read(r) \/ ShortRead(r) \/ SeekFails(r)

Next == \/ \E k \in Keys : IndexBlock(k)
        \/ \E r \in Readers : LoadBlock(r) \/ Release(r)

Spec == Init /\ [][Next]_vars

-----------------------------------------------------------------------------
CacheTypeOK ==
    /\ lru \in [Slots -> [block_id : Keys \cup {NoKey}, data : Keys \cup {EMPTY, ZERO},
                         last_tick : 0 .. MAX_TICK]]
    /\ lru_tick \in 0 .. MAX_TICK
    /\ on_disk \subseteq Keys /\ misread \subseteq Keys
    /\ pc \in [Readers -> {"out", "index", "load"}]
    /\ key \in [Readers -> Keys \cup {NoKey}]
    /\ held \in [Readers -> SUBSET Pointers]

\* A slot that would be a hit for a block holds that block, unless a seek for
\* it failed: load_block 188-208 tags the slot before it reads.
TagTrue ==
    \A s \in Slots : lru[s].data = EMPTY \/ lru[s].block_id = NoKey
                     \/ lru[s].data = lru[s].block_id \/ lru[s].block_id \in misread

\* A pointer shows its block until as many blocks have been loaded, by anyone,
\* as there are other slots: what a caller may rely on after the lock is gone
\* (load_block 157-210, lru_evict_slot 390-400; decode_data keeps one pointer
\* per channel over srd_session_send).
PointerLife ==
    \A r \in Readers : \A p \in held[r] :
        \/ lru[p.slot].data = p.key
        \/ lru_tick >= p.tick + LRU_SLOTS - 1
        \/ p.key \in misread

\* A reader that is alone and holds no more pointers than there are slots finds
\* every one of them intact until it lets go.
ChunkIntact ==
    \A r \in Readers : \A p \in held[r] :
        lru[p.slot].data = p.key \/ p.key \in misread
=============================================================================
