----------------------------- MODULE MCNumeric ------------------------------
(***************************************************************************)
(* The numeric side: the algorithms of MCAlgorithms, one input at a time,  *)
(* and the threads of the ring all-reduce.                                 *)
(***************************************************************************)
EXTENDS AllReduce, MCAlgorithms

NumericInit == Init /\ (AnyInput \/ input = [kind |-> "ring"])
NumericNext == input.kind = "ring" /\ Next /\ SameInput
NumericSpec == NumericInit /\ [][NumericNext]_<<vars, input>>
=============================================================================
