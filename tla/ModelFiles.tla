----------------------------- MODULE ModelFiles -----------------------------
(***************************************************************************)
(* The file of a model: SafetensorsWriter (tensor/safetensors.hpp), which  *)
(* computes the offsets of the tensors in one loop and writes them in      *)
(* another, and ModelSerializer::save_safetensors (io/serialization.hpp),  *)
(* which names the registered parameters by their position.                *)
(***************************************************************************)
EXTENDS Integers, FiniteSetsExt, SequencesExt

AlignedTo(offset, align) == align * ((offset + align - 1) \div align)

(* Mutant: the next tensor follows the start of the one before it.         *)
BugHeaderRows(sizes, align) ==
    LET start[n \in 1 .. Len(sizes)] ==
            IF n = 1 THEN 0 ELSE AlignedTo(start[n - 1], align)
    IN  [n \in 1 .. Len(sizes) |-> [from |-> start[n], to |-> start[n] + sizes[n]]]
(* The data_offsets of the header.                                         *)
HeaderRows(sizes, align) ==
    LET start[n \in 1 .. Len(sizes)] ==
            IF n = 1 THEN 0 ELSE AlignedTo(start[n - 1] + sizes[n - 1], align)
    IN  [n \in 1 .. Len(sizes) |-> [from |-> start[n], to |-> start[n] + sizes[n]]]

(* The bytes after the header: every tensor behind the zeros before it.    *)
Zeros(n) == [k \in 1 .. n |-> 0]
Body(tensors, align) ==
    FoldLeft(LAMBDA written, t :
                written \o Zeros(AlignedTo(Len(written), align) - Len(written)) \o t,
             <<>>, tensors)

LayerNames == <<"attn.Wq", "attn.Wk", "attn.Wv", "attn.Wo",
                "ffn.Wgate", "ffn.Wup", "ffn.Wdown", "rms_norm_attn", "rms_norm_ffn">>
NameOf(idx) ==
    LET n == idx - 3
    IN  IF idx < 3 THEN <<<<"token_embedding", "pos_embedding", "lm_head">>[idx + 1], 0>>
        ELSE <<LayerNames[(n % 9) + 1], 1 + (n \div 9)>>
WrittenNames(params, layers) ==
    [idx \in 0 .. Min({Len(params), 3 + 9 * layers}) - 1 |-> NameOf(idx)]
=============================================================================
