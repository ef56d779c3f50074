------------------------- MODULE MCTransformerBlock -------------------------
(***************************************************************************)
(* PagedKVCache and TransformerBlock for TLC.  In half of the behaviours   *)
(* somebody calls the cache directly, in any order; in the other half a    *)
(* TransformerBlock is its user.  The contents are interchangeable.        *)
(***************************************************************************)
EXTENDS TransformerBlock, TLC

VARIABLE user

MCInit == BlockInit /\ user \in {"anybody", "block"}
MCNext ==
  /\ \/ user = "anybody" /\ Next /\ UNCHANGED block
     \/ user = "block" /\ BlockNext
  /\ UNCHANGED user
MCSpec == MCInit /\ [][MCNext]_<<vars, block, user>>

Symmetry == Permutations(Values)
=============================================================================
