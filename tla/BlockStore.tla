------------------------------ MODULE BlockStore ------------------------------
(***************************************************************************)
(* What the sample store of a capture promises its readers, whatever keeps *)
(* the blocks: every channel is a sequence of blocks that fill up in       *)
(* order, and a block never loses or changes a part it has received, but   *)
(* that a full one may be lost as a whole where the disk fails.  The next  *)
(* capture begins with nothing.                                            *)
(***************************************************************************)
EXTENDS Naturals

CONSTANTS NCH, NBLK, PARTS, Lost

Channels == 0 .. NCH - 1
BlockIds == 0 .. NBLK - 1

VARIABLE stored  \* per channel and block: how many parts a reader would find

SInit == stored = [x \in Channels \X BlockIds |-> 0]

\* block b of channel c goes from some parts to more of them
Receive(c, b, n) ==
    /\ stored[<<c, b>>] \in 0 .. n - 1
    /\ \A a \in BlockIds : a < b => stored[<<c, a>>] \in {PARTS, Lost}
    /\ \A a \in BlockIds : a > b => stored[<<c, a>>] = 0
    /\ stored' = [stored EXCEPT ![<<c, b>>] = n]

\* full blocks that could not be written, after they were taken for written
Lose(S) ==
    /\ \A x \in S : stored[x] = PARTS
    /\ stored' = [x \in Channels \X BlockIds |-> IF x \in S THEN Lost ELSE stored[x]]

Reset == stored' = [x \in Channels \X BlockIds |-> 0]

SNext == \/ Reset
         \/ \E c \in Channels, b \in BlockIds, n \in 1 .. PARTS : Receive(c, b, n)
         \/ \E S \in SUBSET (Channels \X BlockIds) : Lose(S)

SSpec == SInit /\ [][SNext]_stored
=============================================================================
