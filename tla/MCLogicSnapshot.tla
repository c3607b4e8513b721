---------------------------- MODULE MCLogicSnapshot ----------------------------
(***************************************************************************)
(* Models of LogicSnapshot for TLC: which channel each decoder works on.   *)
(***************************************************************************)
EXTENDS LogicSnapshot

MCFirstChannel  == [d \in Decoders |-> 0]
MCSecondChannel == [d \in Decoders |-> 1]
=============================================================================
