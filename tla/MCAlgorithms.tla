---------------------------- MODULE MCAlgorithms ----------------------------
(***************************************************************************)
(* The pure algorithms against reference definitions.  A state is one      *)
(* input; a behaviour keeps the input it started with.                     *)
(***************************************************************************)
EXTENDS AttentionVariants, NumberFormats, Sharding, TransformerFlow, Tokens, ModelFiles

CONSTANTS MaxS,       \* longest sequence of keys
          Bc,         \* keys per tile of flash attention
          MaxN, MaxW  \* largest buffer and number of ranks

ASSUME AlgorithmsAssumption ==
    MaxS \in Nat /\ Bc \in Nat \ {0} /\ MaxN \in Nat /\ MaxW \in Nat

VARIABLE input

(* Row i of a head with S keys; one score of each key and one alternative  *)
(* for the keys after i; three query heads.                                *)
AttentionInputs ==
    UNION {[kind : {"attention"}, i : 0 .. S - 1, q : {<<1, 0, 2>>, <<2, 1, 1>>},
            sc : [0 .. S - 1 -> 0 .. 2]] : S \in 1 .. MaxS}

(* Floats next to every boundary of the formats: exponents around the ends *)
(* of each format, mantissas around the ends and the middles of their steps. *)
Edges == {0, 2^12, 2^13, 2^13 + 2^12, 2^14 + 2^12, 2^15, 2^16, 2^16 + 2^15,
          2^19, 2^20, 2^20 + 2^19, 2^21, 2^22, 2^22 + 2^20 + 2^19,
          7 * 2^20, 7 * 2^20 + 2^19, 2^23 - 2^15, 2^23 - 2^13, 2^23 - 2^12}
Exponents == {0, 1, 2, 102, 103, 104, 111, 112, 113, 114, 119, 120, 121, 122,
              126, 127, 128, 133, 134, 135, 136, 141, 142, 143, 144, 253, 254}
FloatInputs ==
    {[kind |-> "float", f |-> Float(e, m) + d] :
        e \in Exponents, m \in Edges, d \in {0, 1, 2^12 - 1}}
(* All the numbers of half and of bf16, up to infinity, that are subnormal *)
(* halfs or next to an exponent's ends or middle.                          *)
Bf16Infinity == 255 * 2^7
NarrowInputs == [kind : {"narrow"}, bits : {b \in 0 .. Bf16Infinity :
    b < 1024 \/ b % 1024 \in {511, 512, 1022, 1023} \/ b % 128 \in {0, 1, 127}}]
VectorInputs ==
    [kind : {"vector"}, x : UNION {[0 .. n - 1 -> {-9, -4, 0, 5, 7}] : n \in 1 .. 4},
     size : 1 .. 4]
ShardInputs == [kind : {"shards"}, n : 0 .. MaxN, W : 1 .. MaxW]
(* Short gradients, and some longer than a signed byte counts that are 0   *)
(* but at its ends.                                                        *)
LongGradients ==
    {[i \in 0 .. 129 |-> IF i \in DOMAIN at THEN at[i] ELSE 0] :
        at \in [{0, 127, 128, 129} -> {-3, 0, 2}]}
GradInputs ==
    [kind : {"grads"}, percent : {1, 50, 100},
     g : UNION {[0 .. n - 1 -> -1 .. 2] : n \in 1 .. 4} \cup LongGradients]
(* The sizes of up to four tensors, and the room of a buffer, which is     *)
(* also the alignment of a file.                                           *)
TensorInputs == [kind : {"tensors"}, room : {2, 4, 5},
                 sizes : UNION {[1 .. n -> {0, 1, 2, 3, 6}] : n \in 1 .. 4}]
FlowInputs == [kind : {"flow"}, B : 1 .. 2, H : 1 .. 3, Dh : 1 .. 2, S : 1 .. 3,
               Layers : 0 .. 2]
TokenInputs == [kind : {"token"}, user : UNION {[1 .. n -> {0, 97, 255}] : n \in 0 .. 4},
                now : {1, 9, 42}, life : {1, 24}]

AnyInput == input \in AttentionInputs \cup FloatInputs \cup NarrowInputs
                    \cup VectorInputs \cup ShardInputs \cup GradInputs
                    \cup TensorInputs \cup FlowInputs \cup TokenInputs
SameInput == UNCHANGED input
AlgorithmsSpec == AnyInput /\ [][SameInput]_input

-----------------------------------------------------------------------------
(* Flash attention over at most two tiles of keys gives every key its      *)
(* softmax weight.  (With three it does not: the mass of a tile replaces   *)
(* the mass before it.)                                                    *)
FlashIsSoftmax ==
    input.kind = "attention" =>
        LET S == Cardinality(DOMAIN input.sc)
        IN  Tiles(S, Bc) <= 2 =>
                SameWeights(Flash(input.sc, input.i, S, Bc),
                            Normalised(0 .. input.i, input.sc))

(* The variants are one function where their parameters make them so: a    *)
(* window over all keys, a dilation of 1, cross attention to a prefix, one *)
(* group or as many groups as heads.  Linear attention gives weights that  *)
(* sum to 1, and the running sum is right for the last key.                *)
VariantsAgree ==
    input.kind = "attention" =>
        LET sc == input.sc
            i == input.i
            full == Normalised(0 .. i, sc)
            q == [h \in 0 .. 2 |-> input.q[h + 1]]
            one == [g \in 0 .. 0 |-> sc]
            own == [g \in 0 .. 2 |-> [j \in DOMAIN sc |-> sc[j] * (g + 1)]]
            phi == Linear([d \in 0 .. 1 |-> input.q[d + 1] - 1],
                          [j \in DOMAIN sc |-> [d \in 0 .. 1 |-> sc[j] - d]])
        IN  /\ \A w \in i .. i + 1 : SameWeights(SlidingWindow(sc, i, w), full)
            /\ SameWeights(Dilated(sc, i, 1), full)
            /\ SameWeights(Cross([j \in 0 .. i |-> sc[j]]), full)
            /\ GroupedQuery(q, one, 3, 1, i) = MultiQuery(q, one, i)
            /\ \A h \in 0 .. 2 : GroupedQuery(q, own, 3, 3, i)[h]
                    = MultiQuery(q, [g \in 0 .. 0 |-> own[h]], i)[h]
            /\ RunningSum(0 .. i, sc)[i] = full[i]
            /\ \A j \in DOMAIN phi :
                  phi[j].den = SumFunction([k \in DOMAIN phi |-> phi[k].num])

(* A token cannot see the ones after it: changing their scores changes no  *)
(* output of a causal variant.  Block sparse attention is causal only with *)
(* blocks of one key (its choice of blocks reads whole blocks).  The       *)
(* biases tell the distances apart, each from its own cell of the table.   *)
NoLookAhead ==
    input.kind = "attention" =>
        LET sc == input.sc
            i == input.i
            S == Cardinality(DOMAIN sc)
            other == [j \in DOMAIN sc |-> IF j > i THEN 2 - sc[j] ELSE sc[j]]
            Matrix(row) == [a \in DOMAIN sc |-> row]
            q == [h \in 0 .. 2 |-> input.q[h + 1]]
            pairs == {<<h, j>> : h \in 0 .. 2, j \in 0 .. S - 1}
        IN  /\ \A w \in 0 .. 2 : SameWeights(SlidingWindow(sc, i, w),
                                             SlidingWindow(other, i, w))
            /\ \A d \in 1 .. 3 : SameWeights(Dilated(sc, i, d), Dilated(other, i, d))
            /\ \A G \in 1 .. 2 :
                  GroupedQuery(q, [g \in 0 .. G - 1 |-> sc], 3, G, i)
                    = GroupedQuery(q, [g \in 0 .. G - 1 |-> other], 3, G, i)
            /\ SameWeights(Flash(sc, i, S, Bc), Flash(other, i, S, Bc))
            /\ Hybrid(sc) = Hybrid(other)
            /\ \A k \in 1 .. 2 : BlockSparse(Matrix(sc), i, 1, S, k)
                                    = BlockSparse(Matrix(other), i, 1, S, k)
            /\ \A h \in 0 .. 2, j \in 0 .. i : Alibi(h, 3, i, j) * 2^(h + 1) = -8 * (i - j)
            /\ \A p \in pairs :
                  /\ HasBias(i, p[2], S)
                  /\ BiasIndex(p[1], i, p[2], S) \in BiasTable(3, S)
                  /\ \A p2 \in pairs \ {p} :
                        BiasIndex(p[1], i, p[2], S) # BiasIndex(p2[1], i, p2[2], S)

-----------------------------------------------------------------------------
(* Writing a number that a format can hold and reading it back gives the   *)
(* number: every half, subnormals and infinity included, every bf16 up to  *)
(* infinity, every normal E4M3 of both implementations and every normal    *)
(* E5M2.  (Exponent 15 of E4M3 is NaN in mixed_precision.hpp and a number  *)
(* of the struct, which returns it.)  Base64 gives back the bytes of whole groups;  *)
(* what it drops never reaches the user or the expiry, so a token is valid *)
(* from its creation to its expiry and names its user.                     *)
FormatsRoundTrip ==
    /\ input.kind = "narrow" =>
        LET b == input.bits
        IN  /\ b <= HalfInfinity => Half(HalfValue(b)) = b
            /\ Bf16(Bf16Value(b)) = b /\ Bf16Truncated(Bf16Value(b)) = b
            /\ b \in 8 .. 127 /\ IsFp8Number(b) => Fp8(Fp8Value(b)) = b
            /\ b \in 8 .. 127 => Fp8Struct(Fp8StructValue(b, 4, 3, 7), 4, 3, 7) = b
            /\ b \in 4 .. 127 => Fp8Struct(Fp8StructValue(b, 5, 2, 15), 5, 2, 15) = b
    /\ input.kind = "token" =>
        LET token == CreateToken(input.user, "key", input.now, input.life)
            bytes == Payload(input.user, input.now + input.life, input.now)
        IN  /\ Decoded(Encoded(bytes)) = SubSeq(bytes, 1, Len(bytes) - (Len(bytes) % 3))
            /\ \A later \in 0 .. input.life :
                  Validates(token, "key", input.now + later) <=> later < input.life
            /\ ~Validates(token, "other", input.now)
            /\ GetUser(token) = input.user

Near(f, value, step, encoded) ==
    /\ 2 * Abs(f - value) <= step
    /\ 2 * Abs(f - value) = step => encoded % 2 = 0

(* In the range of normal numbers the result is the nearest number of the  *)
(* format, on a tie the even one (bf16: the smaller one); everywhere a     *)
(* larger number gives no smaller result.  The structs truncate.           *)
RoundsToNearest ==
    input.kind = "float" =>
        LET f == input.f
            exp == Exponent(f) - 127
        IN  /\ exp \in -14 .. 14 => Near(f, HalfValue(Half(f)), 2^13, Half(f))
            /\ exp \in -6 .. 6 => Near(f, Fp8Value(Fp8(f)), 2^20, Fp8(f))
            /\ 2 * Abs(f - Bf16Value(Bf16(f))) <= 2^16
            /\ exp \in -6 .. 8 => f - Fp8StructValue(Fp8Struct(f, 4, 3, 7), 4, 3, 7)
                                    \in 0 .. 2^20 - 1
            /\ exp \in -14 .. 16 => f - Fp8StructValue(Fp8Struct(f, 5, 2, 15), 5, 2, 15)
                                      \in 0 .. 2^21 - 1
            /\ \A d \in {1, 2^12, 2^15, 2^20} :
                  f + d < InfinityBits =>
                    Half(f) <= Half(f + d) /\ Bf16(f) <= Bf16(f + d)
            /\ exp \in -127 .. 6 => Fp8(f) <= Fp8(f + 2^19)

(* Integer quantization stays within half a step (the KV cache: one step)  *)
(* and within the width of its integers, whatever was observed before; INT4 *)
(* does so within each group.  In groups of even size, the last of which   *)
(* may be short, the byte that is written for a pair still holds it when   *)
(* all groups are written: element i is the low or the high half of byte   *)
(* i / 2.  (Groups of odd size overwrite the high half before them.)       *)
QuantizedWithinStep ==
    input.kind = "vector" =>
        LET x == input.x
            n == Cardinality(DOMAIN x)
            size == input.size
            Close(q, max, levels, step) == \A i \in DOMAIN x :
                /\ Abs(q[i]) <= levels
                /\ step * Abs(q[i] * max - x[i] * levels) <= max
        IN  /\ \A seen \in {0, 6, 30} : Close(Symmetric(x, Observed(seen, x), 127),
                                              Observed(seen, x), 127, 2)
            /\ Close(FakeQuantized(x, TRUE), MaxAbs(x), 127, 2)
            /\ FakeQuantized(x, FALSE) = x
            /\ Close(KvQuantized(x), MaxAbs(x), 127, 1)
            /\ \A i \in DOMAIN x :
                  /\ Abs(Int4Of(x, i, size)) <= 7
                  /\ 2 * Abs(Int4Of(x, i, size) * GroupMax(x, i, size) - x[i] * 7)
                        <= GroupMax(x, i, size)
            /\ size % 2 = 0 => \A i \in DOMAIN x :
                  LET byte == Int4Byte(x, size, i \div 2)
                  IN  (IF i % 2 = 0 THEN byte.low ELSE byte.high)
                          = Nibble(Int4Of(x, i, size))
            /\ \A i \in 0 .. n - 2 : LayerBits(i, n) >= LayerBits(i + 1, n)

-----------------------------------------------------------------------------
(* An output row is computed from the rows of its own sequence up to it    *)
(* and from no other, each column from its own head and column; and        *)
(* backward sends a gradient exactly where forward read: through the head  *)
(* layout, the mask and all the layers.  Every gradient is copied to the   *)
(* slot of its own parameter.                                              *)
FlowIsTransposed ==
    input.kind = "flow" =>
        LET c == input
            E == TensorElements(c)
        IN  /\ \A e \in E :
                  /\ FromHead(c, ToHead(c, e)) = e
                  /\ ReadsV(c, e) = {<<e[1], j, e[3]>> : j \in 0 .. e[2]}
            /\ \A e, f \in E :
                  /\ f \in ReadsV(c, e) <=> e \in GradV(c, f)
                  /\ f \in ReadsQ(c, e) <=> e \in GradQ(c, f)
                  /\ f \in ReadsK(c, e) <=> e \in GradK(c, f)
            /\ \A r \in Rows(c) :
                  /\ c.Layers > 0 => LogitRows(c, r) = {<<r[1], j>> : j \in 0 .. r[2]}
                  /\ \A q \in Rows(c) : q \in LogitRows(c, r) <=> r \in HiddenGradRows(c, q)
            /\ \A g \in GradSlots(c) : Params(c)[g.slot] = g.grad
            /\ {Params(c)[n] : n \in DOMAIN Params(c)} \cap ForwardReads(c)
                  = {p \in ForwardReads(c) : p[2] = 0 \/ p[1] \in {"rms_attn", "rms_ffn"}}

OwnedOnce(part, n) ==
    \A i \in 0 .. n - 1 : \E r \in DOMAIN part :
        /\ i \in part[r]
        /\ \A s \in DOMAIN part \ {r} : i \notin part[s]

(* Every parameter has exactly one owner.  ZeRO's intervals have a gap and *)
(* an overlap as soon as the ranks do not divide the parameters; the sizes *)
(* in the metadata always add up.  A rank's own shard survives a step,     *)
(* which writes past the parameters unless the ranks divide them.          *)
OneOwnerPerParameter ==
    input.kind = "shards" =>
        LET n == input.n
            world == input.W
            all == 0 .. n - 1
            params == [i \in all |-> <<>>]
            grads == [i \in all |-> i]
            written[r \in 0 .. world] ==
                IF r = 0 THEN 0 ELSE written[r - 1] + EvenSize(r - 1, n, world)
        IN  /\ OwnedOnce([r \in RanksOf(world) |-> Shard(r, n, world)], n)
            /\ \A r \in RanksOf(world), i \in all :
                  Owns(r, i, n, world) <=> i \in Shard(r, n, world)
            /\ OwnedOnce([r \in RanksOf(world) |-> ZeroShard(r, n, world)], n)
                  <=> (n % world = 0 \/ n < world)
            /\ written[world] = n
            /\ \A r \in RanksOf(world) : \A i \in ZeroShard(r, n, world) :
                  /\ ZeroStep(params, grads, r, n, world)[i] = <<grads[i]>>
                  /\ Zero2Step(params, grads, r, n, world)[i] = <<0>>
            /\ n % world = 0 <=> \A r \in RanksOf(world) :
                               DOMAIN ZeroStep(params, grads, r, n, world) = all

(* What compress keeps are the largest gradients, and decompress gives     *)
(* those of the first 128 back at their places, with 0 everywhere else;    *)
(* the later ones, whose index does not fit its byte, are lost (under      *)
(* "Top-K Sparsification" that keeps "1% of gradients").                   *)
Fresh(n) == [i \in -128 .. n - 1 |-> 9]

(* Gather joins what scatter cuts, but for the remainder, which no rank    *)
(* gets.  Every element of the fused tensors is in exactly one all-reduce; *)
(* a copy stays in the buffer as long as the first tensor fits and no      *)
(* tensor is larger than the one before it.                                *)
BuffersJoined ==
    /\ input.kind = "shards" =>
        LET n == input.n
            world == input.W
            global == [i \in 0 .. n - 1 |-> i]
        IN  Gather([r \in 1 .. world |-> Scatter(global, r - 1, world)])
                = [k \in 1 .. n - (n % world) |-> k - 1]
    /\ input.kind = "tensors" =>
        LET sizes == input.sizes
            fused == Fused(sizes, input.room)
            Sum(s) == FoldLeft(LAMBDA a, b : a + b, 0, s)
            shrink == \A i \in 2 .. Len(sizes) : sizes[i] <= sizes[i - 1]
        IN  /\ Sum(fused.sent) = Sum(sizes)
            /\ shrink /\ sizes[1] <= input.room => fused.peak <= input.room

(* In the file of a model every tensor is where its header says, at an     *)
(* aligned offset, though header and body are computed by separate loops;  *)
(* and every parameter is written under its own name and layer.            *)
FileMatchesHeader ==
    /\ input.kind = "tensors" =>
        LET sizes == input.sizes
            tensors == [i \in DOMAIN sizes |-> [b \in 1 .. sizes[i] |-> <<i, b>>]]
            rows == HeaderRows(sizes, input.room)
        IN  \A i \in DOMAIN sizes :
                /\ SubSeq(Body(tensors, input.room), rows[i].from + 1, rows[i].to) = tensors[i]
                /\ rows[i].from % input.room = 0
    /\ input.kind = "flow" =>
        LET params == Params(input)
            names == WrittenNames(params, input.Layers)
            Long == [rms_attn |-> "rms_norm_attn", rms_ffn |-> "rms_norm_ffn"]
            Written(p) == IF p \in DOMAIN Long THEN {Long[p]}
                          ELSE {p, "attn." \o p, "ffn." \o p}
        IN  /\ DOMAIN names = 0 .. Len(params) - 1
            /\ \A idx \in DOMAIN names :
                  /\ names[idx][1] \in Written(params[idx + 1][1])
                  /\ names[idx][2] = params[idx + 1][2]

(* Buffers that are cut, fused or written to a file hold every element     *)
(* they should, where it is looked for.                                    *)
BuffersAreWhole == BuffersJoined /\ FileMatchesHeader
=============================================================================
