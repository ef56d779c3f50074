----------------------------- MODULE MCTraining -----------------------------
(* Two trained tensors and one embedding, of different sizes, so that their *)
(* prefixes overlap in the flat buffers of the averages.                    *)
EXTENDS Training

MCTensors == 1..3
MCEmbeddings == {1}
MCSize == [t \in MCTensors |-> IF t = 2 THEN 2 ELSE 1]
MCSlots == 1..4
=============================================================================
