----------------------------- MODULE MemoryPool -----------------------------
(***************************************************************************)
(* The bump allocator of core/memory_pool.hpp and the leak detector it     *)
(* reports to (core/memory_leak_detector.hpp).  reset rewinds the pool and *)
(* does not tell the detector.                                             *)
(***************************************************************************)
EXTENDS Integers, FiniteSets, FiniteSetsExt, Functions

CONSTANTS PoolCapacity, Align,  \* bytes; the code aligns to 64
          Requests              \* sizes asked for

ASSUME PoolAssumption ==
    PoolCapacity \in Nat /\ Align \in Nat \ {0} /\ Requests \subseteq Nat

VARIABLES offset,      \* offset_
          detector,    \* allocs: pointer -> size, total, peak
          regions,     \* history: [ptr, size] handed out since the last reset
          overwritten  \* history: bytes whose record was replaced

poolVars == <<offset, detector, regions, overwritten>>

Aligned(size) == Align * ((size + Align - 1) \div Align)

PoolInit ==
    /\ offset = 0 /\ regions = {} /\ overwritten = 0
    /\ detector = [allocs |-> <<>>, total |-> 0, peak |-> 0]

Recorded(d, p, size) ==
    [allocs |-> [q \in DOMAIN d.allocs \cup {p} |-> IF q = p THEN size ELSE d.allocs[q]],
     total |-> d.total + size, peak |-> Max({d.peak, d.total + size})]

(* A request that does not fit returns null and changes nothing.           *)
PoolAllocate(size) ==
    /\ offset + Aligned(size) <= PoolCapacity
    /\ offset' = offset + Aligned(size)
    /\ detector' = Recorded(detector, offset, size)
    /\ overwritten' = overwritten + (IF offset \in DOMAIN detector.allocs
                                     THEN detector.allocs[offset] ELSE 0)
    /\ regions' = regions \cup {[ptr |-> offset, size |-> size]}
PoolReset ==
    /\ offset' = 0 /\ regions' = {}
    /\ UNCHANGED <<detector, overwritten>>
RecordDeallocation(p) ==
    /\ p \in DOMAIN detector.allocs
    /\ detector' = [detector EXCEPT !.total = @ - detector.allocs[p],
                                    !.allocs = Restrict(@, DOMAIN @ \ {p})]
    /\ UNCHANGED <<offset, regions, overwritten>>

MaxOverwritten == PoolCapacity  \* bound on the history counter
PoolNext ==
    \/ \E size \in Requests : overwritten < MaxOverwritten /\ PoolAllocate(size)
    \/ PoolReset
    \/ \E p \in DOMAIN detector.allocs : RecordDeallocation(p)

(* What the pool has handed out since the last reset lies inside it and    *)
(* does not overlap.                                                       *)
RegionsApart ==
    \A r \in regions :
        /\ r.ptr % Align = 0 /\ r.ptr + r.size <= PoolCapacity
        /\ \A q \in regions \ {r} : r.ptr + r.size <= q.ptr \/ q.ptr + q.size <= r.ptr

(* The detector's total is what its records add up to plus what reset made *)
(* it forget; without a reset (no pointer handed out twice) it is exact.   *)
DetectorExact ==
    detector.total = overwritten + SumFunction(detector.allocs) /\ detector.total <= detector.peak
=============================================================================
