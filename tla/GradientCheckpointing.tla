----------------------- MODULE GradientCheckpointing -----------------------
(***************************************************************************)
(* The store of activations of nn/checkpointing.hpp: saved under the id of *)
(* a layer, within a budget of bytes.  evict_oldest drops the entry whose  *)
(* id comes first in the map, one per save.                                *)
(***************************************************************************)
EXTENDS Integers, FiniteSets, FiniteSetsExt, Functions

CONSTANTS LayerIds,    \* integers, in the order of their strings
          ActBytes,    \* sizes of activations
          Budgets,     \* values of memory_budget_
          MaxSaves     \* bound on the number of saves

ASSUME ActivationsAssumption ==
    LayerIds \subseteq Int /\ ActBytes \subseteq Nat /\ Budgets \subseteq Nat

VARIABLES saved,    \* saved_activations_: id -> [size, save]
          bytes,    \* total_memory_bytes_
          budget,   \* memory_budget_
          saves,    \* history: number of saves
          latest,   \* history: id -> number of its last save, or 0 when dropped on purpose
          doubled,  \* history: bytes of entries that were replaced
          short,    \* history: id -> bytes that lacked when it was evicted, 0 since it is saved
          sizes,    \* history: sizes that were ever saved
          highest   \* history: largest budget so far

actVars == <<saved, bytes, budget, saves, latest, doubled, short, sizes, highest>>

ActInit ==
    /\ saved = <<>> /\ bytes = 0 /\ budget \in Budgets /\ highest = budget
    /\ saves = 0 /\ doubled = 0 /\ sizes = {}
    /\ latest = [i \in LayerIds |-> 0] /\ short = [i \in LayerIds |-> 0]

Without(s, ids) == Restrict(s, DOMAIN s \ ids)
BugEvicted(size) ==                                  \* also when it just fits
    IF bytes + size >= budget /\ saved # <<>> THEN {Min(DOMAIN saved)} ELSE {}
Evicted(size) ==
    IF bytes + size > budget /\ saved # <<>> THEN {Min(DOMAIN saved)} ELSE {}
Weight(ids) == SumFunctionOnSet([i \in DOMAIN saved |-> saved[i].size], ids)

(* What is held, what was saved over and what is new, beyond the budget.   *)
Lacking(size) == Weight(DOMAIN saved) + doubled + size - budget

SaveActivations(i, size) ==
    LET kept == Without(saved, Evicted(size))
    IN  /\ saved' = [j \in DOMAIN kept \cup {i} |->
                IF j = i THEN [size |-> size, save |-> saves + 1] ELSE kept[j]]
        /\ bytes' = bytes - Weight(Evicted(size)) + size
        /\ doubled' = doubled + Weight(DOMAIN kept \cap {i})
        /\ saves' = saves + 1 /\ sizes' = sizes \cup {size}
        /\ latest' = [latest EXCEPT ![i] = saves + 1]
        /\ short' = [j \in LayerIds |-> IF j = i THEN 0
                        ELSE IF j \in Evicted(size) THEN Lacking(size) ELSE short[j]]
        /\ UNCHANGED <<budget, highest>>
FreeActivations(i) ==
    /\ i \in DOMAIN saved
    /\ bytes' = bytes - saved[i].size
    /\ saved' = Without(saved, {i})
    /\ latest' = [latest EXCEPT ![i] = 0]
    /\ UNCHANGED <<budget, saves, doubled, short, sizes, highest>>
ClearActivations ==
    /\ saved' = <<>> /\ bytes' = 0 /\ doubled' = 0
    /\ latest' = [i \in LayerIds |-> 0]
    /\ UNCHANGED <<budget, saves, short, sizes, highest>>
SetBudget(b) ==
    /\ budget' = b /\ highest' = Max({highest, b})
    /\ UNCHANGED <<saved, bytes, saves, latest, doubled, short, sizes>>

ActNext ==
    \/ \E i \in LayerIds, size \in ActBytes : saves < MaxSaves /\ SaveActivations(i, size)
    \/ \E i \in LayerIds : FreeActivations(i)
    \/ ClearActivations
    \/ \E b \in Budgets : SetBudget(b)

(* restore_activations: the save it copies from, 0 when it returns false.  *)
Restored(i) == IF i \in DOMAIN saved THEN saved[i].save ELSE 0

(* An activation is restored as it was saved last.  It is missing only if  *)
(* it was never saved, was freed or cleared, or was evicted when the       *)
(* entries, those that were saved over and the new one did not fit.        *)
RestoresLatest ==
    \A i \in LayerIds : \/ Restored(i) = latest[i]
                        \/ Restored(i) = 0 /\ short[i] > 0

(* The count is the bytes of the entries plus those of entries that were   *)
(* saved over, which are never taken away, so it never falls below zero;   *)
(* with entries of one size that fit, the count stays within the largest   *)
(* budget so far, because one eviction makes the room for one save.        *)
BytesExact ==
    /\ bytes = Weight(DOMAIN saved) + doubled
    /\ Cardinality(sizes) = 1 /\ doubled = 0 /\ Max(sizes) <= highest => bytes <= highest
=============================================================================
