------------------------------ MODULE DecoderInst ------------------------------
(***************************************************************************)
(* One decoder instance of libsigrokdecode: the thread of the client feeds *)
(* chunks through srd_inst_decode (instance.c), the instance's own thread  *)
(* runs the decoder's decode(), which asks for samples by wait()           *)
(* (Decoder_wait in type_decoder.c, c_decoder_wait_impl in instance.c).    *)
(* The two hand a chunk over and back under data_mutex and wake each other *)
(* through one condition variable each.                                    *)
(*                                                                         *)
(* An action is what a thread does while it holds the mutex, or between    *)
(* two times it does.  A sleeper on a condition variable stays in asleep   *)
(* until it is signalled, so a signal that is missing shows; it may also   *)
(* wake without one.  Samples are their numbers: which of them match a     *)
(* condition is left open.  srd_inst_terminate_reset, which no part of     *)
(* the program calls, stacked decoders and wait({'skip': 0}) are left out. *)
(***************************************************************************)
EXTENDS Integers

CONSTANTS
    KINDS,      \* {"c", "python"}: the decoders looked at
    STARTS,     \* decode_start: the first sample the client sends
    TOTAL,      \* bound: samples there are
    MAX_CHUNK,  \* bound: longest chunk
    NoChunk,    \* inbuf is NULL
    Closed      \* a decoder that has stopped, as its client sees it

ASSUME InstAssumption ==
    /\ KINDS \subseteq {"c", "python"}
    /\ TOTAL \in Nat /\ MAX_CHUNK \in Nat \ {0}
    /\ STARTS \subseteq 0 .. TOTAL
    /\ NoChunk \notin Nat \X Nat
    /\ Closed \notin [lent : (Nat \X Nat) \cup {NoChunk}, seen : Nat]

VARIABLES
    kind,        \* is_c_inst
    feeder,      \* where the client's thread is
    thread,      \* where the decoder's thread is; "none": thread_handle is NULL
    asleep,      \* who sleeps on its condition variable
    got_new,     \* got_new_samples
    handled_all, \* handled_all_samples
    want_term,   \* want_wait_terminate
    stop_signal, \* is_task_stop_signal
    err,         \* python_proc_error is set
    first_pos,   \* no search has begun yet
    cur,         \* abs_cur_samplenum
    matched,     \* abs_cur_matched: the sample at cur has been returned
    buf,         \* inbuf: the first sample of the chunk and its end
    fed, to,     \* the client: what is sent already, end of the chunk in hand
    result,      \* what the last srd_inst_decode returned
    cond,        \* what wait() asks for: the "next" sample or "any" that matches
    tested,      \* history: the sample after the last one examined
    skipped,     \* history: samples before a search that it passed over
    jumped       \* history: samples that a search gave up unexamined

vars == <<kind, feeder, thread, asleep, got_new, handled_all, want_term, stop_signal, err,
          first_pos, cur, matched, buf, fed, to, result, cond, tested, skipped, jumped>>
flags  == <<got_new, handled_all, want_term, stop_signal, err>>
search == <<first_pos, cur, matched, cond, tested, skipped, jumped>>
client == <<fed, to, result>>

Samples == 0 .. TOTAL

Init ==
    /\ kind \in KINDS
    /\ feeder = "idle" /\ thread = "none" /\ asleep = {}
    /\ got_new = FALSE /\ handled_all = FALSE
    /\ want_term = FALSE /\ stop_signal = FALSE /\ err = FALSE
    /\ first_pos = TRUE /\ cur = 0 /\ matched = FALSE
    /\ buf = NoChunk
    /\ fed \in STARTS /\ to = fed
    /\ result = "ok"
    /\ cond = "next"
    /\ tested = fed /\ skipped = {} /\ jumped = {}

-----------------------------------------------------------------------------
(* srd_inst_decode, called for one chunk after another until it fails, and *)
(* srd_inst_free_all.                                                      *)

\* the chunk has to begin where the decoder is; the thread is made at first
\* use.  cur is written without the mutex.
DecodeCall(n) ==
    /\ feeder = "idle" /\ result = "ok"
    /\ fed + n <= TOTAL
    /\ cur' = IF first_pos THEN fed ELSE cur
    /\ IF cur' = fed
       THEN /\ feeder' = "give"
            /\ to' = fed + n
            /\ thread' = IF thread = "none" THEN "run" ELSE thread
            /\ UNCHANGED result
       ELSE /\ result' = "arg"
            /\ UNCHANGED <<feeder, to, thread>>
    /\ UNCHANGED <<kind, asleep, flags, first_pos, matched, buf, fed, cond, tested,
                   skipped, jumped>>

\* (mutant) the answer to the last chunk is taken for the answer to this one
GiveStale ==
    /\ feeder = "give"
    /\ buf' = <<fed, to>> /\ got_new' = TRUE
    /\ asleep' = asleep \ {"thread"}
    /\ feeder' = "wait"
    /\ UNCHANGED <<kind, thread, handled_all, want_term, stop_signal, err, search, client>>

Give ==
    /\ feeder = "give"
    /\ buf' = <<fed, to>> /\ got_new' = TRUE /\ handled_all' = FALSE
    /\ asleep' = asleep \ {"thread"}
    /\ feeder' = "wait"
    /\ UNCHANGED <<kind, thread, want_term, stop_signal, err, search, client>>

\* while (!handled_all_samples && !want_wait_terminate) g_cond_wait
Answered == handled_all \/ want_term

FeederSleep ==
    /\ feeder = "wait" /\ "feeder" \notin asleep /\ ~Answered
    /\ asleep' = asleep \cup {"feeder"}
    /\ UNCHANGED <<kind, feeder, thread, flags, search, buf, client>>

FeederReturn ==
    /\ feeder = "wait" /\ "feeder" \notin asleep /\ Answered
    /\ feeder' = "idle"
    /\ result' = IF err THEN "term" ELSE "ok"
    /\ err' = FALSE
    /\ fed' = to
    /\ UNCHANGED <<kind, thread, asleep, got_new, handled_all, want_term, stop_signal,
                   search, buf, to>>

\* (mutant) the flag is raised and nobody is woken
DestroySilently ==
    /\ feeder = "idle"
    /\ IF thread = "none"
       THEN feeder' = "freed" /\ UNCHANGED <<want_term, stop_signal>>
       ELSE feeder' = "join" /\ want_term' = TRUE /\ stop_signal' = TRUE
    /\ UNCHANGED <<kind, asleep, thread, got_new, handled_all, err, search, buf, client>>

\* srd_inst_free_all: ask the thread to stop, then join it
Destroy ==
    /\ feeder = "idle"
    /\ IF thread = "none"
       THEN feeder' = "freed" /\ UNCHANGED <<want_term, stop_signal, asleep>>
       ELSE /\ feeder' = "join"
            /\ want_term' = TRUE /\ stop_signal' = TRUE
            /\ asleep' = asleep \ {"thread"}
    /\ UNCHANGED <<kind, thread, got_new, handled_all, err, search, buf, client>>

Joined ==
    /\ feeder = "join" /\ thread = "gone"
    /\ feeder' = "freed"
    /\ UNCHANGED <<kind, thread, asleep, flags, search, buf, client>>

-----------------------------------------------------------------------------
(* The decoder's thread: decode() calls wait() until it ends.              *)

\* set_new_condition_list refuses once termination is wanted, in Python
Wait(c) ==
    /\ thread = "run"
    /\ IF kind = "python" /\ want_term
       THEN thread' = "told" /\ UNCHANGED cond
       ELSE thread' = "wait" /\ cond' = c
    /\ UNCHANGED <<kind, feeder, asleep, flags, first_pos, cur, matched, tested, skipped,
                   jumped, buf, client>>

ThreadSleep ==
    /\ thread = "wait" /\ "thread" \notin asleep /\ ~got_new /\ ~want_term
    /\ asleep' = asleep \cup {"thread"}
    /\ UNCHANGED <<kind, feeder, thread, flags, search, buf, client>>

\* (mutants) the feeder is not woken; the buffer is kept
HandBackSilently ==
    /\ got_new' = FALSE /\ handled_all' = TRUE /\ buf' = NoChunk
    /\ UNCHANGED asleep

HandBackKeeps ==
    /\ got_new' = FALSE /\ handled_all' = TRUE
    /\ asleep' = asleep \ {"feeder"}
    /\ UNCHANGED buf

\* the end of a round of wait(): the chunk goes back to the feeder
HandBack ==
    /\ got_new' = FALSE /\ handled_all' = TRUE /\ buf' = NoChunk
    /\ asleep' = asleep \ {"feeder"}

\* wait() returns an error: a C decoder's at once, a Python decoder's after
\* it has handed back what there is
WaitTerminated ==
    /\ thread = "wait" /\ "thread" \notin asleep /\ want_term
    /\ IF kind = "c" THEN UNCHANGED <<got_new, handled_all, buf, asleep>> ELSE HandBack
    /\ thread' = "told"
    /\ UNCHANGED <<kind, feeder, want_term, stop_signal, err, search, client>>

\* find_match goes on after the sample that was returned last
Pos == IF matched THEN cur + 1 ELSE cur

Searching == thread = "wait" /\ "thread" \notin asleep /\ got_new /\ ~want_term

\* what has been passed over when the search begins
PassOver == skipped' = skipped \cup tested .. Pos - 1

\* (mutant) the position moves past the sample that is returned
FoundAdvances(m) ==
    /\ Searching
    /\ m >= Pos /\ m < buf[2] /\ (cond = "next" => m = Pos)
    /\ cur' = m + 1 /\ matched' = TRUE /\ first_pos' = FALSE
    /\ PassOver /\ tested' = m + 1
    /\ thread' = "run"
    /\ UNCHANGED <<kind, feeder, asleep, flags, buf, client, cond, jumped>>

\* the search ends at sample m, which is returned to decode()
Found(m) ==
    /\ Searching
    /\ m >= Pos /\ m < buf[2] /\ (cond = "next" => m = Pos)
    /\ cur' = m /\ matched' = TRUE /\ first_pos' = FALSE
    /\ PassOver /\ tested' = m + 1
    /\ thread' = "run"
    /\ UNCHANGED <<kind, feeder, asleep, flags, buf, client, cond, jumped>>

\* (mutant) the search stops one sample before the end of the chunk
NotFoundShort ==
    /\ Searching
    /\ cond = "next" => Pos = buf[2]
    /\ cur' = IF Pos < buf[2] THEN buf[2] - 1 ELSE Pos
    /\ matched' = (matched /\ Pos = buf[2])
    /\ first_pos' = FALSE
    /\ PassOver /\ tested' = cur'
    /\ HandBack
    /\ UNCHANGED <<kind, feeder, thread, want_term, stop_signal, err, client, cond, jumped>>

\* (mutant) the end is taken for the last sample
NotFoundPast ==
    /\ Searching
    /\ cond = "next" => Pos = buf[2]
    /\ cur' = buf[2] + 1
    /\ matched' = (matched /\ Pos = buf[2])
    /\ first_pos' = FALSE
    /\ PassOver /\ tested' = buf[2]
    /\ HandBack
    /\ UNCHANGED <<kind, feeder, thread, want_term, stop_signal, err, client, cond, jumped>>

\* the search reaches the end of the chunk, which goes back to the feeder
ReachEnd ==
    /\ Searching
    /\ cur' = buf[2] /\ first_pos' = FALSE
    /\ PassOver /\ tested' = buf[2]
    /\ HandBack
    /\ UNCHANGED <<kind, feeder, thread, want_term, stop_signal, err, client, cond>>

\* No sample up to the end of the chunk matches.  Where the last match was the
\* last sample of the chunk, the loop is not entered and abs_cur_matched stays.
NotFound ==
    /\ ReachEnd
    /\ cond = "next" => Pos = buf[2]
    /\ matched' = (matched /\ Pos = buf[2])
    /\ UNCHANGED jumped

\* Every condition fails at the first sample, and by a term on a channel that
\* is constant in this chunk (all_skip_allow, which a later sample cannot set
\* again): the others are not looked at.
Jump ==
    /\ ReachEnd
    /\ cond = "any" /\ Pos + 1 < buf[2]
    /\ matched' = FALSE
    /\ jumped' = jumped \cup (Pos + 1) .. (buf[2] - 1)

\* decode() ends, by itself or because wait() failed; Python's always leaves an
\* error unless the thread was asked to stop
Leave ==
    /\ thread \in {"run", "told"}
    /\ err' = (kind = "python" /\ ~stop_signal)
    /\ thread' = "left"
    /\ UNCHANGED <<kind, feeder, asleep, got_new, handled_all, want_term, stop_signal,
                   search, buf, client>>

ThreadEnd ==
    /\ thread = "left"
    /\ want_term' = TRUE /\ handled_all' = TRUE
    /\ asleep' = asleep \ {"feeder"}
    /\ thread' = "gone"
    /\ UNCHANGED <<kind, feeder, got_new, stop_signal, err, search, buf, client>>

SpuriousWakeup ==
    /\ \E p \in asleep : asleep' = asleep \ {p}
    /\ UNCHANGED <<kind, feeder, thread, flags, search, buf, client>>

-----------------------------------------------------------------------------
FeederStep == Give \/ FeederSleep \/ FeederReturn \/ Joined
ThreadStep == \/ \E c \in {"next", "any"} : Wait(c)
              \/ ThreadSleep \/ WaitTerminated
              \/ \E m \in Samples : Found(m)
              \/ NotFound \/ Jump \/ Leave \/ ThreadEnd

Next == \/ \E n \in 1 .. MAX_CHUNK : DecodeCall(n)
        \/ Destroy \/ SpuriousWakeup
        \/ FeederStep \/ ThreadStep

Spec == Init /\ [][Next]_vars

\* Both are threads of their own, and decode() calls wait() again or ends; the
\* client promises neither another chunk nor to destroy the session.
FairSpec == Spec /\ WF_vars(FeederStep) /\ WF_vars(ThreadStep)

-----------------------------------------------------------------------------
TypeOK ==
    /\ kind \in KINDS
    /\ feeder \in {"idle", "give", "wait", "join", "freed"}
    /\ thread \in {"none", "run", "wait", "told", "left", "gone"}
    /\ asleep \subseteq {"feeder", "thread"}
    /\ got_new \in BOOLEAN /\ handled_all \in BOOLEAN
    /\ want_term \in BOOLEAN /\ stop_signal \in BOOLEAN /\ err \in BOOLEAN
    /\ first_pos \in BOOLEAN /\ matched \in BOOLEAN
    /\ cur \in Samples /\ fed \in Samples /\ to \in Samples /\ tested \in Samples
    /\ buf \in (Samples \X Samples) \cup {NoChunk}
    /\ result \in {"ok", "arg", "term"}
    /\ cond \in {"next", "any"}
    /\ skipped \subseteq Samples /\ jumped \subseteq Samples

Alive == thread \in {"run", "wait", "told"}

\* The decoder holds a pointer to the caller's samples only while the caller is
\* inside srd_inst_decode: decode_data frees or reuses them right after it, and
\* the caller writes abs_cur_samplenum without the mutex when it comes back
\* (instance.c 1543-1578, 1584-1622; c_decoder_wait_impl; Decoder_wait).
BufferLent == buf # NoChunk /\ Alive => feeder = "wait"

\* A client that sends one chunk after another is refused ("Incorrect sample
\* numbers") only after decode() has ended, never because the decoder stopped
\* short of, or ran past, the end of the last chunk (instance.c 1547, 1587).
ChunkAccepted == result = "arg" => thread = "gone"

\* A search passes over no sample but one of two kinds: the first of a chunk,
\* after the last one of the chunk before was returned by wait(), and all those
\* behind the first one it looked at, which failed on constant channels
\* (find_match; of those, the next one would match a term that asks for a
\* channel to have no edge).
SkipsOnlyFirst ==
    [][/\ skipped' # skipped => matched /\ skipped' = skipped \cup {buf[1]}
       /\ jumped' # jumped => /\ cond = "any" /\ Searching
                              /\ jumped' \ jumped \subseteq (Pos + 1) .. (buf[2] - 1)]_vars

\* "None or an empty dict or an empty list mean that there is no condition, and
\* the next available sample shall get returned" (type_decoder.c 1003-1006):
\* a search begins with the sample after the last one that was looked at.
NextSampleExamined == skipped = {}

\* A call for one chunk returns, however the handshake, the end of decode() and
\* the wake-ups interleave.
CallReturns == feeder \in {"give", "wait"} ~> feeder = "idle"

\* Freeing a session comes to its end: a decoder that waits for samples is
\* woken, and its decode() told to end.
JoinReturns == feeder = "join" ~> feeder = "freed"

\* Chunks follow one another without gap and are handed back one by one.
Loan == INSTANCE ChunkLoan WITH
    loan <- IF thread \in {"left", "gone"} THEN Closed
            ELSE [lent |-> buf,
                  seen |-> IF buf # NoChunk THEN buf[1] ELSE IF first_pos THEN fed ELSE cur]

\* The handshake of the two threads implements the loan of chunks.
ImplementsLoan == Loan!LSpec
=============================================================================
