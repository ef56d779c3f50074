--------------------------- MODULE UnifiedMemory ---------------------------
(***************************************************************************)
(* UnifiedMemoryManager (core/unified_memory.hpp), built with or without   *)
(* CUDA.  The map keeps the pointer a block was allocated at as its key; a *)
(* migration, whose allocation is assumed to succeed, replaces the pointer *)
(* inside the block.  cudaFree of a pointer of malloc is refused and frees *)
(* nothing.  The counters are unsigned.                                    *)
(***************************************************************************)
EXTENDS Integers, FiniteSets, FiniteSetsExt, Functions

CONSTANTS HostPointers, DevicePointers,  \* what malloc and CUDA can return
          BlockSizes, UsageWord  \* the counters wrap at UsageWord

ASSUME UnifiedAssumption == BlockSizes \subseteq Nat /\ UsageWord \in Nat \ {0}

VARIABLES cuda,       \* the build: __CUDACC__ is defined
          umBlocks,   \* key -> [ptr, size, location]
          live,       \* raw addresses allocated and not freed
          usage,      \* cpu_usage_ and gpu_usage_
          migrations  \* history: some block was migrated / given back as UNIFIED

umVars == <<cuda, umBlocks, live, usage, migrations>>
Locations == {"CPU", "GPU", "UNIFIED"}

UmInit ==
    /\ cuda \in BOOLEAN
    /\ umBlocks = <<>> /\ live = {} /\ usage = [CPU |-> 0, GPU |-> 0]
    /\ migrations = [any |-> FALSE, unified |-> FALSE]

Added(u, location, n) ==
    [l \in {"CPU", "GPU"} |-> IF l = location THEN (u[l] + n) % UsageWord ELSE u[l]]

(* Where an allocation can end: each CUDA call may fail, and without GPU   *)
(* memory every preference falls through to unified memory, then malloc.   *)
Granting(preferred) ==
    IF ~cuda THEN {"CPU"}
    ELSE {"UNIFIED", "CPU"} \cup (IF preferred = "GPU" THEN {"GPU"} ELSE {})

PointersOf(location) == IF location = "CPU" THEN HostPointers ELSE DevicePointers
AfterFree(location, p) ==  \* free or cudaFree, by the location of the block
    IF cuda /\ location # "CPU" THEN live \ ({p} \cap DevicePointers) ELSE live \ {p}

UmAllocate(size, preferred) ==
    \E location \in Granting(preferred) : \E p \in PointersOf(location) \ live :
        /\ live' = live \cup {p}
        /\ umBlocks' = [k \in DOMAIN umBlocks \cup {p} |->
              IF k = p THEN [ptr |-> p, size |-> size, location |-> location] ELSE umBlocks[k]]
        /\ usage' = Added(usage, location, size)
        /\ UNCHANGED <<cuda, migrations>>

(* With CUDA a block that enters GPU memory leaves its old memory          *)
(* allocated, and one that enters the CPU gives it back.                   *)
Migrate(k, target) ==
    /\ umBlocks[k].location # target
    /\ migrations' = [migrations EXCEPT !.any = TRUE]
    /\ IF cuda /\ target # "UNIFIED"
       THEN \E p \in PointersOf(target) \ live :
              /\ live' = {p} \cup (IF target = "CPU" THEN AfterFree("UNIFIED", umBlocks[k].ptr)
                                   ELSE live)
              /\ umBlocks' = [umBlocks EXCEPT ![k].ptr = p, ![k].location = target]
       ELSE umBlocks' = [umBlocks EXCEPT ![k].location = target] /\ UNCHANGED live
    /\ UNCHANGED <<cuda, usage>>

BugUmDeallocate(k) ==  \* every block is subtracted from cpu_usage_
    /\ live' = AfterFree(umBlocks[k].location, umBlocks[k].ptr)
    /\ usage' = Added(usage, "CPU", -umBlocks[k].size)
    /\ umBlocks' = Restrict(umBlocks, DOMAIN umBlocks \ {k})
    /\ migrations' = [migrations EXCEPT !.unified = @ \/ umBlocks[k].location = "UNIFIED"]
    /\ UNCHANGED cuda
UmDeallocate(k) ==
    /\ live' = AfterFree(umBlocks[k].location, umBlocks[k].ptr)
    /\ usage' = Added(usage, umBlocks[k].location, -umBlocks[k].size)
    /\ umBlocks' = Restrict(umBlocks, DOMAIN umBlocks \ {k})
    /\ migrations' = [migrations EXCEPT !.unified = @ \/ umBlocks[k].location = "UNIFIED"]
    /\ UNCHANGED cuda

UmNext ==
    \/ \E size \in BlockSizes, preferred \in Locations : UmAllocate(size, preferred)
    \/ \E k \in DOMAIN umBlocks, target \in Locations : Migrate(k, target)
    \/ \E k \in DOMAIN umBlocks : UmDeallocate(k)

(* Every block points to memory that is allocated, and no two blocks point *)
(* to the same, although keys are addresses that may be handed out again   *)
(* while a migrated block still uses them: nothing is freed twice.         *)
BlocksApart ==
    \A k \in DOMAIN umBlocks :
        /\ umBlocks[k].ptr \in live
        /\ \A j \in DOMAIN umBlocks \ {k} : umBlocks[j].ptr # umBlocks[k].ptr

(* Until a block migrates, each counter is the size of the blocks in its   *)
(* memory.  Migration moves no bytes between the counters, so they wrap;   *)
(* but without CUDA the errors cancel in total_usage, unless a block was   *)
(* given back as UNIFIED.                                                  *)
UsageExact ==
    LET SizeIn(where) == SumFunctionOnSet([k \in DOMAIN umBlocks |-> umBlocks[k].size],
                            {k \in DOMAIN umBlocks : umBlocks[k].location \in where}) % UsageWord
    IN  /\ ~migrations.any => \A l \in {"CPU", "GPU"} : usage[l] = SizeIn({l})
        /\ ~cuda /\ ~migrations.unified =>
              (usage.CPU + usage.GPU) % UsageWord = SizeIn(Locations)
=============================================================================
