------------------------------ MODULE Tensors ------------------------------
(***************************************************************************)
(* Tensor storage (core/tensor.hpp) over new[] and over MemoryManager      *)
(* (core/memory_manager.hpp).  A tensor is its pointer, its element count  *)
(* and whether it owns the storage; shapes and contents are left out.      *)
(* Tensor::mem_mgr_ is static: it decides both where storage comes from    *)
(* and where it is returned to.  Nothing in the repository clears it.      *)
(***************************************************************************)
EXTENDS Integers, FiniteSets, FiniteSetsExt, Functions

CONSTANTS TensorNames,  \* variables that hold tensors
          Addresses,    \* where storage can lie: positive integers
          Lengths,      \* element counts, 0 among them
          PageFloats    \* floats per page of the manager

ASSUME TensorsAssumption ==
    Addresses \subseteq Nat \ {0} /\ Lengths \subseteq Nat /\ PageFloats \in Nat \ {0}

VARIABLES tensor,   \* TensorNames -> Dead or [data, n, owns]
          mem,      \* [heap, blocks, total, peak]
          managed   \* mem_mgr_ is set

tensorVars == <<tensor, mem, managed>>

NoStorage == 0
Dead == [data |-> NoStorage, n |-> -1, owns |-> FALSE]  \* not constructed
Empty == [data |-> NoStorage, n |-> 0, owns |-> TRUE]
Pages(n) == (n + PageFloats - 1) \div PageFloats
Owns(t) == tensor[t].owns /\ tensor[t].data # NoStorage

TensorsInit ==
    /\ tensor = [t \in TensorNames |-> Dead]
    /\ mem = [heap |-> [a \in Addresses |-> "free"], blocks |-> <<>>, total |-> 0, peak |-> 0]
    /\ managed = FALSE

(* MemoryManager::allocate and deallocate; a pointer that the manager does *)
(* not know is reported and kept.                                          *)
Mapped(m, n, a) ==
    LET total == m.total + Pages(n)
    IN  [heap |-> [m.heap EXCEPT ![a] = "mapped"],
         blocks |-> [b \in DOMAIN m.blocks \cup {a} |-> IF b = a THEN Pages(n) ELSE m.blocks[b]],
         total |-> total, peak |-> Max({m.peak, total})]
Unmapped(m, a) ==
    IF a \notin DOMAIN m.blocks THEN m
    ELSE [m EXCEPT !.heap[a] = "free", !.blocks = Restrict(@, DOMAIN @ \ {a}),
                   !.total = @ - m.blocks[a]]

(* deallocate_storage, and allocate_storage at an address the allocator    *)
(* chooses; an allocation of nothing leaves owns_data_ as it was.          *)
Freed(m, x) ==
    IF x.data = NoStorage \/ ~x.owns THEN m
    ELSE IF managed THEN Unmapped(m, x.data)
    ELSE [m EXCEPT !.heap[x.data] = "free"]
Places(m, n) == IF n = 0 THEN {NoStorage} ELSE {a \in Addresses : m.heap[a] = "free"}
Granted(m, n, a) ==
    IF n = 0 THEN m ELSE IF managed THEN Mapped(m, n, a) ELSE [m EXCEPT !.heap[a] = "new"]
Storing(x, n, a) == [data |-> a, n |-> n, owns |-> n > 0 \/ x.owns]

Refill(t, x, n) ==
    LET m == Freed(mem, x)
    IN  \E a \in Places(m, n) :
            /\ mem' = Granted(m, n, a)
            /\ tensor' = [tensor EXCEPT ![t] = Storing(x, n, a)]

Construct(t, n) == tensor[t] = Dead /\ Refill(t, Empty, n) /\ UNCHANGED managed
CopyConstruct(t, u) ==
    /\ tensor[t] = Dead /\ tensor[u] # Dead
    /\ Refill(t, Empty, tensor[u].n)
    /\ UNCHANGED managed
CopyAssign(t, u) ==
    /\ t # u /\ Dead \notin {tensor[t], tensor[u]}
    /\ Refill(t, tensor[t], tensor[u].n)
    /\ UNCHANGED managed
MoveConstruct(t, u) ==
    /\ tensor[t] = Dead /\ tensor[u] # Dead
    /\ tensor' = [tensor EXCEPT ![t] = tensor[u], ![u] = Empty]
    /\ UNCHANGED <<mem, managed>>
BugMoveAssign(t, u) ==  \* the moved-from tensor keeps its pointer
    /\ t # u /\ Dead \notin {tensor[t], tensor[u]}
    /\ mem' = Freed(mem, tensor[t])
    /\ tensor' = [tensor EXCEPT ![t] = tensor[u]]
    /\ UNCHANGED managed
MoveAssign(t, u) ==
    /\ t # u /\ Dead \notin {tensor[t], tensor[u]}
    /\ mem' = Freed(mem, tensor[t])
    /\ tensor' = [tensor EXCEPT ![t] = tensor[u], ![u] = Empty]
    /\ UNCHANGED managed
Destroy(t) ==
    /\ tensor[t] # Dead
    /\ mem' = Freed(mem, tensor[t])
    /\ tensor' = [tensor EXCEPT ![t] = Dead]
    /\ UNCHANGED managed
Reshape(t, n) ==
    /\ tensor[t] # Dead /\ n # tensor[t].n
    /\ Refill(t, tensor[t], n)
    /\ UNCHANGED managed
View(t, u) ==
    /\ tensor[t] = Dead /\ tensor[u] # Dead
    /\ tensor' = [tensor EXCEPT ![t] = [tensor[u] EXCEPT !.owns = FALSE]]
    /\ UNCHANGED <<mem, managed>>
SetMemoryManager == managed' = TRUE /\ UNCHANGED <<tensor, mem>>

TensorsNext ==
    \/ \E t \in TensorNames, n \in Lengths : Construct(t, n) \/ Reshape(t, n)
    \/ \E t, u \in TensorNames : \/ CopyConstruct(t, u) \/ CopyAssign(t, u)
                                 \/ MoveConstruct(t, u) \/ MoveAssign(t, u) \/ View(t, u)
    \/ \E t \in TensorNames : Destroy(t)
    \/ SetMemoryManager

(* Every piece of storage has exactly one owning tensor, whatever views    *)
(* point at it, so nothing is freed twice and nothing leaks, except what   *)
(* was allocated before the manager was set; and the manager knows exactly *)
(* its own storage, with the sizes of its owners.                          *)
OneOwnerEach ==
    LET OwnersOf(a) == {t \in TensorNames : Owns(t) /\ tensor[t].data = a}
    IN  /\ \A a \in Addresses : Cardinality(OwnersOf(a)) \in
              CASE mem.heap[a] = "free" -> {0}
                [] mem.heap[a] = "new" /\ managed -> {0, 1}
                [] OTHER -> {1}
        /\ DOMAIN mem.blocks = {a \in Addresses : mem.heap[a] = "mapped"}
        /\ \A t \in TensorNames : Owns(t) /\ tensor[t].data \in DOMAIN mem.blocks =>
              mem.blocks[tensor[t].data] = Pages(tensor[t].n)

(* The manager's total is the size of its blocks and below its peak.       *)
ManagerExact ==
    mem.total = SumFunction(mem.blocks) /\ mem.total <= mem.peak
=============================================================================
