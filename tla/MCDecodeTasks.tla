----------------------------- MODULE MCDecodeTasks -----------------------------
(***************************************************************************)
(* Models of DecodeTasks for TLC: a Python decoder and a plugin, or two    *)
(* Python decoders, on a capture of a few blocks.                          *)
(***************************************************************************)
EXTENDS DecodeTasks

MCTasks   == {1, 2}
MCPlugins == {2}
=============================================================================
