------------------------- MODULE AttentionVariants -------------------------
(***************************************************************************)
(* The attention kernels of attention_variants.hpp and flash_attention.hpp *)
(* as functions: which keys a query row reads and with what weight.        *)
(*                                                                         *)
(* A row of scores is a function from the positions of the keys.  exp(s)   *)
(* is 2^s; the maximum that the code subtracts before exp cancels between  *)
(* numerator and denominator and is left out, and so is the 1e-12 added to *)
(* a denominator.  The values V are left abstract: an output row is the    *)
(* function that gives each key the fraction of V it contributes.          *)
(***************************************************************************)
EXTENDS Integers, FiniteSetsExt

Frac(n, d) == [num |-> n, den |-> d]
NoWeight == Frac(0, 1)
SameWeights(u, v) ==
    \A j \in DOMAIN u : u[j].num * v[j].den = v[j].num * u[j].den

Exp(s) == 2^s
Mass(keys, sc) == SumFunction([j \in keys |-> Exp(sc[j])])

(* Numerator and denominator are summed first and divided at the end. *)
Normalised(keys, sc) ==
    [j \in DOMAIN sc |->
        IF j \in keys THEN Frac(Exp(sc[j]), Mass(keys, sc)) ELSE NoWeight]

(* A key is divided by the sum up to itself, and added to the output. *)
RunningSum(keys, sc) ==
    [j \in DOMAIN sc |->
        IF j \in keys
        THEN Frac(Exp(sc[j]), Mass({k \in keys : k <= j}, sc)) ELSE NoWeight]

-----------------------------------------------------------------------------
(* Row i of head h; q[h] is its query and k[g] the keys of KV head g. *)
Scores(query, keys) == [j \in DOMAIN keys |-> query * keys[j]]

MultiQuery(q, k, i) ==
    [h \in DOMAIN q |-> RunningSum(0 .. i, Scores(q[h], k[0]))]

QPerKv(H, G) == H \div G
(* Heads past the last whole group are not written. *)
GroupedQuery(q, k, H, G, i) ==
    [h \in DOMAIN q |->
        IF h < G * QPerKv(H, G)
        THEN RunningSum(0 .. i, Scores(q[h], k[h \div QPerKv(H, G)]))
        ELSE [j \in DOMAIN k[0] |-> NoWeight]]

(* Mutant: one key too few. *)
BugSlidingKeys(i, window) == Max({0, i - window + 1}) .. i
SlidingKeys(i, window) == Max({0, i - window}) .. i
SlidingWindow(sc, i, window) == Normalised(SlidingKeys(i, window), sc)

DilatedKeys(i, dilation) == {j \in 0 .. i : j % dilation = i % dilation}
Dilated(sc, i, dilation) == Normalised(DilatedKeys(i, dilation), sc)

Cross(sc) == Normalised(DOMAIN sc, sc)

(* The scores of the local and the global keys are computed and dropped. *)
Hybrid(sc) == [j \in DOMAIN sc |-> NoWeight]

(* phi(x) = elu(x) + 1 in halves, so that phi(-1) is a number. *)
Phi(x) == IF x > 0 THEN 2 * (x + 1) ELSE 2^(x + 1)
(* Every row reads every key: there is no causal mask. *)
Linear(query, keys) ==
    LET dims == DOMAIN query
        Dot(w) == SumFunction([d \in dims |-> Phi(query[d]) * w[d]])
        kSum == [d \in dims |-> SumFunction([j \in DOMAIN keys |-> Phi(keys[j][d])])]
    IN  [j \in DOMAIN keys |->
            Frac(Dot([d \in dims |-> Phi(keys[j][d])]), Dot(kSum))]

-----------------------------------------------------------------------------
(* Block sparse attention; sc[i][j] are the scores of the whole head. *)
BlockOf(b, size, S) == b * size .. Min({(b + 1) * size, S}) - 1
BlockScore(sc, bi, bj, size, S) ==
    SumFunction([i \in BlockOf(bi, size, S) |->
        SumFunction([j \in BlockOf(bj, size, S) |-> sc[i][j]])])
(* The blocks of the row, by score and then by index, the largest first. *)
TopBlocks(sc, bi, size, S, topk) ==
    LET Before(a, b) ==
            LET sa == BlockScore(sc, bi, a, size, S)
                sb == BlockScore(sc, bi, b, size, S)
            IN  sa > sb \/ (sa = sb /\ a > b)
    IN  {b \in 0 .. bi : Cardinality({a \in 0 .. bi : Before(a, b)}) < topk}
BlockSparseKeys(sc, i, size, S, topk) ==
    (UNION {BlockOf(b, size, S) : b \in TopBlocks(sc, i \div size, size, S, topk)})
        \cap 0 .. i
(* What is written is the sum of the raw scores, in column 0. *)
BlockSparse(sc, i, size, S, topk) ==
    SumFunction([j \in BlockSparseKeys(sc, i, size, S, topk) |-> sc[i][j]])

-----------------------------------------------------------------------------
(* FlashAttentionV2: one row, over the tiles of Bc keys.  l is the         *)
(* mass of the last tile only: the code overwrites it instead of adding.   *)
(* Mutant: the mass is not stored. *)
BugFlashMass(old, new) == old
FlashMass(old, new) == new
FlashTile(row, visible, sc) ==
    LET new == Mass(visible, sc)
        den == row.l + new
        Weigh(j) == IF j \in visible THEN Frac(Exp(sc[j]), den)
                    ELSE Frac(row.acc[j].num * row.l, row.acc[j].den * den)
    IN  [l |-> FlashMass(row.l, new),
         acc |-> [j \in DOMAIN sc |-> IF den = 0 THEN NoWeight ELSE Weigh(j)]]
Tiles(S, Bc) == (S + Bc - 1) \div Bc
Flash(sc, i, S, Bc) ==
    LET row[t \in 0 .. Tiles(S, Bc)] ==
            IF t = 0 THEN [l |-> 0, acc |-> [j \in DOMAIN sc |-> NoWeight]]
            ELSE FlashTile(row[t - 1], BlockOf(t - 1, Bc, S) \cap 0 .. i, sc)
    IN  row[Tiles(S, Bc)].acc

-----------------------------------------------------------------------------
(* The biases, in units of 1 / 2^H. *)
AlibiSlope(h, H) == 2^(H - 1 - h)
(* Mutant: near keys are penalised. *)
BugAlibi(h, H, i, j) == AlibiSlope(h, H) * (i - j)
Alibi(h, H, i, j) == AlibiSlope(h, H) * (j - i)

BiasTable(heads, maxDist) == 0 .. heads * (2 * maxDist - 1) - 1
Relative(i, j, maxDist) == j - i + maxDist - 1
HasBias(i, j, maxDist) == Relative(i, j, maxDist) \in 0 .. 2 * maxDist - 2
BiasIndex(h, i, j, maxDist) == h * (2 * maxDist - 1) + Relative(i, j, maxDist)
=============================================================================
