-------------------------- MODULE TransformerFlow --------------------------
(***************************************************************************)
(* The data flow of the transformer (transformer_blocks.cpp): which        *)
(* elements an output or a gradient is computed from.  Numbers are left    *)
(* out; a product with a masked softmax weight, which is 0, is no flow.    *)
(*                                                                         *)
(* c is a configuration: batch B, heads H, head size Dh, sequence S and    *)
(* Layers.  An element of a [B, S, D] tensor is <<b, s, d>>, a row <<b, s>>. *)
(***************************************************************************)
EXTENDS Integers, Sequences

Width(c) == c.H * c.Dh
Rows(c) == (0 .. c.B - 1) \X (0 .. c.S - 1)
TensorElements(c) == (0 .. c.B - 1) \X (0 .. c.S - 1) \X (0 .. Width(c) - 1)

(* Heads are laid out as b * H + h in a [B * H, S, Dh] tensor. *)
(* Mutant: the batch within the head. *)
BugHeadIndex(c, b, h) == h * c.B + b
HeadIndex(c, b, h) == b * c.H + h
ToHead(c, e) == <<HeadIndex(c, e[1], e[3] \div c.Dh), e[2], e[3] % c.Dh>>
(* Backward goes from a head back to the columns of the saved Q, K and V. *)
FromHead(c, x) == <<x[1] \div c.H, x[2], (x[1] % c.H) * c.Dh + x[3]>>
HeadElements(c) == {ToHead(c, e) : e \in TensorElements(c)}
(* The mask leaves weight only on keys up to the query. *)
Attends(i, j) == j <= i

-----------------------------------------------------------------------------
(* MultiHeadAttention::forward: the elements of V, Q and K an element of   *)
(* the output is computed from.  Wo is not used: the output is the context *)
(* and a bias.                                                             *)
ReadsV(c, e) ==
    LET x == ToHead(c, e)
    IN  {v \in TensorElements(c) :
            LET y == ToHead(c, v)
            IN  y[1] = x[1] /\ y[3] = x[3] /\ Attends(x[2], y[2])}
ReadsQ(c, e) ==
    LET x == ToHead(c, e)
    IN  {q \in TensorElements(c) : ToHead(c, q)[1] = x[1] /\ q[2] = x[2]}
ReadsK(c, e) ==
    LET x == ToHead(c, e)
    IN  {k \in TensorElements(c) : ToHead(c, k)[1] = x[1] /\ Attends(x[2], k[2])}

(* MultiHeadAttention::backward: the elements of the gradient of the       *)
(* output that reach the gradients of V, Q and K.                          *)
ScoreGrad(c, head, i) ==
    {e \in TensorElements(c) : ToHead(c, e)[1] = head /\ e[2] = i}
GradV(c, v) ==
    LET y == ToHead(c, v)
    IN  {e \in TensorElements(c) :
            LET x == ToHead(c, e)
            IN  x[1] = y[1] /\ x[3] = y[3] /\ Attends(x[2], y[2])}
GradQ(c, q) == ScoreGrad(c, ToHead(c, q)[1], q[2])
GradK(c, k) ==
    UNION {ScoreGrad(c, ToHead(c, k)[1], i) : i \in {j \in 0 .. c.S - 1 : Attends(j, k[2])}}

-----------------------------------------------------------------------------
(* Rows.  The block adds its input and attention over the rows so far; the *)
(* norms and FeedForward work on one row, numbered b * S + s.              *)
RowIndex(c, r) == r[1] * c.S + r[2]
AttentionRows(c, r) == {<<e[1], e[2]>> : e \in ReadsV(c, <<r[1], r[2], 0>>)}
FeedForwardRows(c, r) == {q \in Rows(c) : RowIndex(c, q) = RowIndex(c, r)}
BlockRows(c, r) ==
    UNION {FeedForwardRows(c, q) : q \in {r} \cup AttentionRows(c, r)}
BlockGradRows(c, r) ==
    {<<e[1], e[2]>> : e \in GradV(c, <<r[1], r[2], 0>>) \cup GradK(c, <<r[1], r[2], 0>>)}
        \cup FeedForwardRows(c, r)

(* forward calls the blocks in order, backward in reverse, each on the     *)
(* tensor it writes; logits come from the row of the last hidden state.    *)
LogitRows(c, r) ==
    LET flow[l \in 0 .. c.Layers] ==
            IF l = 0 THEN {r} ELSE UNION {BlockRows(c, q) : q \in flow[l - 1]}
    IN  flow[c.Layers]
HiddenGradRows(c, r) ==
    LET flow[l \in 0 .. c.Layers] ==
            IF l = 0 THEN {r} ELSE UNION {BlockGradRows(c, q) : q \in flow[l - 1]}
    IN  flow[c.Layers]

(* The registered parameters, and the gradients backward copies to the     *)
(* slots of param_grads_.  Slots 1 and 2, the embeddings, are not written. *)
BlockParams == <<"Wq", "Wk", "Wv", "Wo", "Wgate", "Wup", "Wdown",
                 "rms_attn", "rms_ffn">>
Params(c) ==
    <<<<"token_embedding", 0>>, <<"pos_embedding", 0>>, <<"lm_head", 0>>>> \o
    [n \in 1 .. 9 * c.Layers |->
        <<BlockParams[((n - 1) % 9) + 1], 1 + ((n - 1) \div 9)>>]
GradBase(layer) == 3 + (layer - 1) * 9
GradSlots(c) ==
    {[slot |-> 3, grad |-> <<"lm_head", 0>>]} \cup
    {[slot |-> GradBase(l) + k, grad |-> <<BlockParams[k], l>>] :
        l \in 1 .. c.Layers, k \in 1 .. 9}
(* The tensors that forward computes with: each block's attention and      *)
(* feed-forward hold weights of their own, which nobody registers.         *)
ForwardReads(c) ==
    {<<p, 0>> : p \in {"token_embedding", "pos_embedding", "lm_head"}} \cup
    {<<p, l>> : p \in {"rms_attn", "rms_ffn", "attn.Wq", "attn.Wk", "attn.Wv",
                       "ffn.Wgate", "ffn.Wup", "ffn.Wdown"}, l \in 1 .. c.Layers}
=============================================================================
