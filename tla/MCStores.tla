------------------------------ MODULE MCStores ------------------------------
(***************************************************************************)
(* Everything that holds memory: the stores of MCMemory, which share a     *)
(* MemoryManager or stand alone, and the WeightCache of the same header.   *)
(* A behaviour moves one side of the two.                                  *)
(***************************************************************************)
EXTENDS MCMemory, WeightCache

VARIABLE side

StoresInit ==
    /\ MemoryInit /\ Init
    /\ side \in {"stores", "weights"}
    /\ side = "stores" => capacity = Max(Capacities)
    /\ side = "weights" => focus = "tensors"
StoresNext ==
    /\ \/ side = "stores" /\ MemoryNext /\ UNCHANGED vars
       \/ side = "weights" /\ Next /\ UNCHANGED memoryVars
    /\ UNCHANGED side
StoresSpec == StoresInit /\ [][StoresNext]_<<memoryVars, vars, side>>
=============================================================================
