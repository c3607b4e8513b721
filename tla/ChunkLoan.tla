------------------------------- MODULE ChunkLoan -------------------------------
(***************************************************************************)
(* What srd_session_send promises its caller: samples are lent to a        *)
(* decoder in chunks that follow one another without a gap, one at a time, *)
(* and each is handed back before the next one is lent.  A decoder may     *)
(* stop at any time and never touches the caller's memory again.           *)
(***************************************************************************)
EXTENDS Naturals

CONSTANTS
    STARTS,     \* where decoding may begin
    MAX_CHUNK,  \* longest chunk
    NoChunk,    \* nothing is lent
    Closed      \* the decoder has stopped

VARIABLE loan   \* Closed, or the chunk lent and where the next sample is

LInit == \E s \in STARTS : loan = [lent |-> NoChunk, seen |-> s]

Lend ==
    /\ loan # Closed /\ loan.lent = NoChunk
    /\ \E n \in 1 .. MAX_CHUNK :
          loan' = [lent |-> <<loan.seen, loan.seen + n>>, seen |-> loan.seen]

HandBack ==
    /\ loan # Closed /\ loan.lent # NoChunk
    /\ loan' = [lent |-> NoChunk, seen |-> loan.lent[2]]

Close == loan' = Closed

LNext == Lend \/ HandBack \/ Close

LSpec == LInit /\ [][LNext]_loan
=============================================================================
