----------------------------- MODULE MCBlockCache -----------------------------
(***************************************************************************)
(* Model of BlockCache for TLC.  Blocks are interchangeable, and so are    *)
(* readers; slots are not, the search goes through them in order.          *)
(***************************************************************************)
EXTENDS BlockCache, TLC

MCSymmetry == Permutations(Keys) \cup Permutations(Readers)
=============================================================================
