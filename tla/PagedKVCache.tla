---------------------------- MODULE PagedKVCache ----------------------------
(***************************************************************************)
(* PagedKVCache (nn/kv_cache.hpp): token positions are grouped in logical  *)
(* blocks, each mapped to a physical block taken from a free list.  A key  *)
(* and value pair is one abstract value.  load and backward only read, so  *)
(* they are operators.                                                     *)
(***************************************************************************)
EXTENDS Integers, Sequences, FiniteSets

CONSTANTS
  NumBlocks,   \* physical blocks
  BlockSize,   \* tokens per block
  MaxPos,      \* bound: token positions are 0..MaxPos-1
  Layers,      \* layer arguments
  Values,      \* nonzero key/value contents
  Zero,        \* what a physical block holds at first
  NoValue      \* no entry

ASSUME CacheAssumption ==
  /\ NumBlocks \in Nat /\ MaxPos \in Nat
  /\ BlockSize \in Nat \ {0}
  /\ Zero \notin Values /\ NoValue \notin Values \cup {Zero}

VARIABLES
  free,     \* free_blocks_, a list used first in, first out
  used,     \* Page::used
  table,    \* page_table_
  data,     \* the contents of the physical blocks
  saved,    \* saved_k_ and saved_v_ by layer and position (and written_positions_)
  latest,   \* history: the last value stored at a position that is still mapped
  leaked    \* history: blocks whose table entry allocate_block overwrote

vars == <<free, used, table, data, saved, latest, leaked>>

Blocks == 0..(NumBlocks - 1)
None == -1                                  \* what allocate_block returns
Positions == 0..(MaxPos - 1)
Slots == 0..(BlockSize - 1)
LogicalOf(pos) == pos \div BlockSize
BugOffsetOf(pos) == LogicalOf(pos) % BlockSize        \* division for remainder
OffsetOf(pos) == pos % BlockSize
Logicals == {LogicalOf(pos) : pos \in Positions}
Contents == Values \cup {Zero}

Mapped == {table[l] : l \in Logicals} \ {None}
Free == {free[i] : i \in DOMAIN free}

Init ==
  /\ free = [i \in 1..NumBlocks |-> i - 1]
  /\ used = [b \in Blocks |-> FALSE]
  /\ table = [l \in Logicals |-> None]
  /\ data = [b \in Blocks |-> [o \in Slots |-> Zero]]
  /\ saved = [key \in Layers \X Positions |-> NoValue]
  /\ latest = [pos \in Positions |-> NoValue]
  /\ leaked = {}

-----------------------------------------------------------------------------
Forget(l) == [pos \in Positions |-> IF LogicalOf(pos) = l THEN NoValue ELSE latest[pos]]

BugTake(l) ==                                  \* reads the front, never pops it
  /\ free # <<>>
  /\ free' = free
  /\ used' = [used EXCEPT ![Head(free)] = TRUE]
  /\ table' = [table EXCEPT ![l] = Head(free)]

(* The part of allocate_block that store and its own callers share: the      *)
(* first free block is mapped at l, over the block that was mapped there.    *)
Take(l) ==
  /\ free # <<>>
  /\ free' = Tail(free)
  /\ used' = [used EXCEPT ![Head(free)] = TRUE]
  /\ table' = [table EXCEPT ![l] = Head(free)]

AllocateBlock(l) ==
  /\ Take(l)
  /\ leaked' = leaked \cup ({table[l]} \ {None})
  /\ latest' = Forget(l)
  /\ UNCHANGED <<data, saved>>

BugWrite(b, layer, pos, v) ==        \* insert, which keeps the entry that is there
  /\ data' = [data EXCEPT ![b][OffsetOf(pos)] = v]
  /\ saved' = [saved EXCEPT ![<<layer, pos>>] = IF @ = NoValue THEN v ELSE @]
  /\ latest' = [latest EXCEPT ![pos] = v]

(* The copy into the block and the entry for backward.                       *)
Write(b, layer, pos, v) ==
  /\ data' = [data EXCEPT ![b][OffsetOf(pos)] = v]
  /\ saved' = [saved EXCEPT ![<<layer, pos>>] = v]
  /\ latest' = [latest EXCEPT ![pos] = v]

StoreMapped(layer, pos, v) ==
  /\ table[LogicalOf(pos)] # None
  /\ Write(table[LogicalOf(pos)], layer, pos, v)
  /\ UNCHANGED <<free, used, table, leaked>>

StoreNew(layer, pos, v) ==
  /\ table[LogicalOf(pos)] = None
  /\ Take(LogicalOf(pos))
  /\ Write(Head(free), layer, pos, v)
  /\ UNCHANGED leaked

(* `Out of blocks! Evicting...': nothing is evicted and nothing stored.      *)
StoreFull(layer, pos, v) ==
  /\ table[LogicalOf(pos)] = None
  /\ free = <<>>
  /\ UNCHANGED vars

(* The block goes to the end of the free list with its contents; the entries *)
(* for backward stay.                                                        *)
FreeBlock(l) ==
  /\ table[l] # None
  /\ used' = [used EXCEPT ![table[l]] = FALSE]
  /\ free' = Append(free, table[l])
  /\ table' = [table EXCEPT ![l] = None]
  /\ latest' = Forget(l)
  /\ UNCHANGED <<data, saved, leaked>>

BugReset ==                                    \* clears the table, frees nothing
  /\ table' = [l \in Logicals |-> None]
  /\ saved' = [key \in Layers \X Positions |-> NoValue]
  /\ latest' = [pos \in Positions |-> NoValue]
  /\ UNCHANGED <<free, used, data, leaked>>

(* The mapped blocks are freed in the order of their logical indices.        *)
Reset ==
  LET M == {l \in Logicals : table[l] # None}
  IN \E order \in [1..Cardinality(M) -> M] :
       /\ \A i, j \in DOMAIN order : i < j => order[i] < order[j]
       /\ \A l \in M : \E i \in DOMAIN order : order[i] = l
       /\ used' = [b \in Blocks |-> used[b] /\ b \notin Mapped]
       /\ free' = free \o [i \in DOMAIN order |-> table[order[i]]]
       /\ table' = [l \in Logicals |-> None]
       /\ saved' = [key \in Layers \X Positions |-> NoValue]
       /\ latest' = [pos \in Positions |-> NoValue]
       /\ UNCHANGED <<data, leaked>>

(* load ignores the layer; without a mapping it leaves its buffers alone.    *)
Load(pos) ==
  LET b == table[LogicalOf(pos)]
  IN IF b = None THEN NoValue ELSE data[b][OffsetOf(pos)]

(* What backward adds to the gradient of a position; absent entries add 0.   *)
Backward(layer, pos) ==
  IF saved[<<layer, pos>>] = NoValue THEN Zero ELSE saved[<<layer, pos>>]

Next ==
  \/ \E layer \in Layers, pos \in Positions, v \in Values :
       \/ StoreMapped(layer, pos, v)
       \/ StoreNew(layer, pos, v)
       \/ StoreFull(layer, pos, v)
  \/ \E l \in Logicals : AllocateBlock(l) \/ FreeBlock(l)
  \/ Reset

Spec == Init /\ [][Next]_vars

-----------------------------------------------------------------------------
TypeOK ==
  /\ free \in Seq(Blocks)
  /\ used \in [Blocks -> BOOLEAN]
  /\ table \in [Logicals -> Blocks \cup {None}]
  /\ data \in [Blocks -> [Slots -> Contents]]
  /\ saved \in [Layers \X Positions -> Values \cup {NoValue}]
  /\ latest \in [Positions -> Values \cup {NoValue}]
  /\ leaked \subseteq Blocks

(* A physical block belongs to one owner: it is in the free list once, or   *)
(* mapped by one logical index, and is marked used exactly if not free.     *)
OneOwner ==
  /\ \A i, j \in DOMAIN free : free[i] = free[j] => i = j
  /\ \A l, m \in Logicals : table[l] = table[m] /\ table[l] # None => l = m
  /\ Free \cap Mapped = {}
  /\ \A b \in Blocks : used[b] <=> b \notin Free

(* Blocks are never lost, except the old block of an index that is          *)
(* allocated a second time (allocate_block, line 143).                      *)
NoLeak == Blocks = Free \cup Mapped \cup leaked /\ leaked \cap (Free \cup Mapped) = {}

(* What was stored at a position is what load returns, until its block is   *)
(* freed: through eviction and reuse of other blocks, in any order.         *)
LoadReturnsLatest ==
  \A pos \in Positions : latest[pos] # NoValue => Load(pos) = latest[pos]

(* Of a position that is still cached, backward returns what load returns,  *)
(* for the layer that stored it last.                                       *)
BackwardMatchesLoad ==
  \A pos \in Positions : latest[pos] # NoValue =>
    \E layer \in Layers : Backward(layer, pos) = Load(pos)
=============================================================================
