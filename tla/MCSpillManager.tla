---------------------------- MODULE MCSpillManager ----------------------------
(***************************************************************************)
(* Model of SpillManager for TLC: every block is spilled at most once per  *)
(* manager, so the number of blocks bounds disk_usage.                     *)
(***************************************************************************)
EXTENDS SpillManager
=============================================================================
