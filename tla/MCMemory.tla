------------------------------ MODULE MCMemory ------------------------------
(***************************************************************************)
(* The five stores of memory, one at a time: a behaviour moves the one in  *)
(* focus and leaves the others at their initial states.                    *)
(***************************************************************************)
EXTENDS Tensors, MemoryPool, UnifiedMemory, GradientCheckpointing, KVCache

VARIABLE focus

others(f) ==
    /\ f # "tensors" => UNCHANGED tensorVars
    /\ f # "pool" => UNCHANGED poolVars
    /\ f # "unified" => UNCHANGED umVars
    /\ f # "activations" => UNCHANGED actVars
    /\ f # "kv" => UNCHANGED kvVars

MemoryInit ==
    /\ TensorsInit /\ PoolInit /\ UmInit /\ ActInit /\ KvInit
    /\ focus \in {"tensors", "pool", "unified", "activations", "kv"}
    /\ focus # "unified" => ~cuda
    /\ focus # "activations" => budget = Max(Budgets)
MemoryNext ==
    /\ \/ focus = "tensors" /\ TensorsNext
       \/ focus = "pool" /\ PoolNext
       \/ focus = "unified" /\ UmNext
       \/ focus = "activations" /\ ActNext
       \/ focus = "kv" /\ KvNext
    /\ others(focus)
    /\ UNCHANGED focus
memoryVars == <<tensorVars, poolVars, umVars, actVars, kvVars, focus>>
MemorySpec == MemoryInit /\ [][MemoryNext]_memoryVars

-----------------------------------------------------------------------------
(* What two holders of memory hold stays apart: storage has one owning     *)
(* tensor, the regions of the pool do not overlap, the blocks of unified   *)
(* memory are live and different.                                          *)
HoldersApart == OneOwnerEach /\ RegionsApart /\ BlocksApart

(* Every byte counter agrees with what it counts, up to the differences    *)
(* the components name: records overwritten after a reset of the pool,     *)
(* entries saved over, blocks that migrated.                               *)
CountersBalance == ManagerExact /\ DetectorExact /\ UsageExact /\ BytesExact

(* What the stores of activations give back is what was saved last, and an *)
(* activation is missing only for want of room, or dropped by its owner.   *)
ReadsBack == RestoresLatest /\ BackwardAddsRetrieved
=============================================================================
