------------------------------ MODULE KVCache ------------------------------
(***************************************************************************)
(* The contiguous KV cache of nn/kv_cache.hpp: one array for all layers,   *)
(* one length for all layers, and a second copy of every vector, by layer  *)
(* and position, for backward.  No call tests a position against the       *)
(* length of a layer; only what would leave the array is excluded here.    *)
(***************************************************************************)
EXTENDS Integers, FiniteSets, FiniteSetsExt

CONSTANTS KvLayers, KvPositions,  \* num_layers_, max_seq_len_
          MaxWrites               \* bound on the number of vectors written

ASSUME KvAssumption == KvLayers \in Nat \ {0} /\ KvPositions \in Nat \ {0}

VARIABLES cell,      \* k_cache_: index -> number of the write it holds, 0 at first
          current,   \* current_len_
          kept,      \* saved_k_, written_positions_: <<layer, position>> -> write
          writes,    \* history: number of writes
          spilled    \* history: a layer was written past its end

kvVars == <<cell, current, kept, writes, spilled>>

BugIndex(layer, pos) == layer * (KvPositions - 1) + pos  \* layers overlap
Index(layer, pos) == layer * KvPositions + pos
Last == KvLayers * KvPositions - 1

KvInit ==
    /\ cell = [x \in 0 .. Last |-> 0]
    /\ current = 0 /\ kept = <<>> /\ writes = 0 /\ spilled = FALSE

WriteRow(layer, pos, count) ==
    LET row == pos .. pos + count - 1
        Number(p) == writes + 1 + p - pos
    IN  /\ Index(layer, pos + count - 1) <= Last
        /\ cell' = [x \in 0 .. Last |-> IF x - Index(layer, 0) \in row
                                        THEN Number(x - Index(layer, 0)) ELSE cell[x]]
        /\ kept' = [k \in DOMAIN kept \cup ({layer} \X row) |->
                        IF k[1] = layer /\ k[2] \in row THEN Number(k[2]) ELSE kept[k]]
        /\ writes' = writes + count
        /\ spilled' = (spilled \/ pos + count > KvPositions)

AppendKv(layer) == WriteRow(layer, current, 1) /\ UNCHANGED current
Prefilled(layer, pos, count) == WriteRow(layer, pos, count) /\ current' = pos + count
AdvanceLength == current' = current + 1 /\ UNCHANGED <<cell, kept, writes, spilled>>
ResetKv == current' = 0 /\ kept' = <<>> /\ UNCHANGED <<cell, writes, spilled>>

(* retrieve copies the first current_len_ vectors of a layer; backward     *)
(* adds the vectors kept for the positions it knows.                       *)
Retrieved(layer) == [p \in 0 .. current - 1 |-> cell[Index(layer, p)]]
BackwardAdds(layer, from, to) ==
    [p \in {q \in from .. to - 1 : <<layer, q>> \in DOMAIN kept} |-> kept[<<layer, p>>]]

KvNext ==
    \/ \E layer \in 0 .. KvLayers - 1 :
          \/ writes < MaxWrites /\ AppendKv(layer)
          \/ \E pos \in 0 .. KvPositions - 1, count \in 1 .. 2 :
                writes + count <= MaxWrites /\ Prefilled(layer, pos, count)
    \/ current <= KvPositions /\ AdvanceLength
    \/ ResetKv

(* Through appends, prefills and resets in any order, backward adds at a   *)
(* position exactly the vector that retrieve returns there, as long as no  *)
(* layer was written past its end into the next one.                       *)
BackwardAddsRetrieved ==
    ~spilled =>
        \A layer \in 0 .. KvLayers - 1 :
            LET adds == BackwardAdds(layer, 0, KvPositions)
            IN  \A p \in DOMAIN adds :
                    p < current /\ Index(layer, current - 1) <= Last =>
                        adds[p] = Retrieved(layer)[p]
=============================================================================
