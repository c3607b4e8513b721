----------------------------- MODULE MCDecoderInst -----------------------------
(***************************************************************************)
(* Models of DecoderInst for TLC: decoding from the first sample or later. *)
(***************************************************************************)
EXTENDS DecoderInst

MCStarts == {0, 3}
=============================================================================
