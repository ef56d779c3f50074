------------------------------ MODULE Sharding ------------------------------
(***************************************************************************)
(* Who owns which parameter, and how buffers are cut and joined:           *)
(* tensor_sharding.hpp, zero_optimizer.hpp, distributed_training.hpp, the  *)
(* metadata of checkpointing.hpp and the CPU fallbacks of nccl_wrapper.hpp. *)
(* Buffers are functions from 0 .. n - 1; W is the number of ranks.        *)
(***************************************************************************)
EXTENDS Integers, FiniteSetsExt, SequencesExt

RanksOf(W) == 0 .. W - 1
Interval(offset, size) == offset .. offset + size - 1

(* TensorSharding and FSDP: the last rank takes the remainder. *)
ShardOffset(r, n, W) == r * (n \div W)
(* Mutant: nobody takes the remainder. *)
BugShardSize(r, n, W) == n \div W
ShardSize(r, n, W) ==
    IF r = W - 1 THEN n - ShardOffset(r, n, W) ELSE n \div W
Shard(r, n, W) == Interval(ShardOffset(r, n, W), ShardSize(r, n, W))
Owns(r, i, n, W) ==
    /\ i >= r * (n \div W)
    /\ i < IF r = W - 1 THEN n ELSE r * (n \div W) + n \div W

(* ZeROOptimizer and save_metadata: the first ranks take one more each. *)
EvenSize(r, n, W) == n \div W + (IF r < n % W THEN 1 ELSE 0)
ZeroOffset(r, n, W) == r * EvenSize(r, n, W)
ZeroShard(r, n, W) ==
    Interval(ZeroOffset(r, n, W), EvenSize(r, n, W)) \cap 0 .. n - 1

(* scatter leaves the remainder to nobody; gather joins what it is given. *)
Scatter(global, r, W) ==
    LET per == Cardinality(DOMAIN global) \div W
    IN  [k \in 1 .. per |-> global[r * per + k - 1]]
Gather(shards) == FlattenSeq(shards)

-----------------------------------------------------------------------------
(* The collectives of one process: all_gather copies the sender's own      *)
(* shard to every place, past the end of params too when the places are    *)
(* more than params has, and reduce_scatter leaves the receiver as it was. *)
(* Beyond is what lies past the end.                                       *)
Beyond == <<-1>>
AllGather(params, offset, size, W) ==
    LET Read(i) == IF i \in DOMAIN params THEN params[i] ELSE Beyond
    IN  [i \in DOMAIN params \cup Interval(0, W * size) |->
            IF i < W * size THEN Read(offset + (i % size)) ELSE params[i]]
ReduceScatter(send, recv) == recv

(* One step of ZeRO on rank r.  A parameter is the sequence of gradients   *)
(* it was updated with.                                                    *)
ZeroStep(params, grads, r, n, W) ==
    LET stepped == [i \in DOMAIN params |->
            IF i \in ZeroShard(r, n, W)
            THEN Append(params[i], grads[i]) ELSE params[i]]
    IN  AllGather(stepped, ZeroOffset(r, n, W), EvenSize(r, n, W), W)
NoGrads(n) == [i \in 0 .. n - 1 |-> 0]
Zero2Step(params, grads, r, n, W) ==
    ZeroStep(params, ReduceScatter(grads, NoGrads(n)), r, n, W)

-----------------------------------------------------------------------------
(* GradientCompression: the k largest by magnitude in that order, the      *)
(* later index first among equals; an index is kept in a signed byte.      *)
(* Decompress writes to the cells that the bytes name, one after another;  *)
(* cells are the n of the output and those before it, with their contents. *)
Magnitude(a) == IF a < 0 THEN -a ELSE a
KeptCount(n, percent) == Max({1, (n * percent) \div 100})
TopK(g, k) ==
    LET Before(i, j) == \/ Magnitude(g[i]) > Magnitude(g[j])
                        \/ Magnitude(g[i]) = Magnitude(g[j]) /\ i > j
    IN  SubSeq(SortSeq([p \in 1 .. Cardinality(DOMAIN g) |-> p - 1], Before), 1, k)
SignedByte(i) == LET b == i % 256 IN IF b < 128 THEN b ELSE b - 256
Compress(g, k) ==
    LET top == TopK(g, k)
    IN  [p \in 1 .. k |-> [index |-> SignedByte(top[p]), value |-> g[top[p]]]]
Decompress(pairs, cells) ==
    FoldLeft(LAMBDA out, p : [out EXCEPT ![p.index] = p.value],
             [i \in DOMAIN cells |-> IF i < 0 THEN cells[i] ELSE 0], pairs)

(* TensorFusion: the tensors, by size, are put in the buffer and reduced   *)
(* together.  The room is tested after a tensor is copied, with its own    *)
(* size.  peak is the end of the furthest copy.  The sums stay in the      *)
(* buffer: nothing copies them back to the tensors.                        *)
Fuse(st, s, room) ==
    LET end == st.offset + s
        flush == end + s > room
    IN  [offset |-> IF flush THEN 0 ELSE end,
         sent |-> IF flush THEN Append(st.sent, end) ELSE st.sent,
         peak |-> Max({st.peak, end})]
(* Mutant: the last, partly filled buffer is forgotten. *)
BugFlushed(st) == st.sent
Flushed(st) == IF st.offset > 0 THEN Append(st.sent, st.offset) ELSE st.sent
Fused(sizes, room) ==
    LET all == FoldLeft(LAMBDA st, s : Fuse(st, s, room),
                        [offset |-> 0, sent |-> <<>>, peak |-> 0], sizes)
    IN  [sent |-> Flushed(all), peak |-> all.peak]
=============================================================================
