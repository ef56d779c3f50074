--------------------------- MODULE MappedWeights ---------------------------
(***************************************************************************)
(* WeightCache of io/mmap_loader.hpp: weights by name, within a budget of  *)
(* bytes, in a list whose nodes the map points to.  put does not look for  *)
(* the name: it may leave an older node of the same name in the list, and  *)
(* evicting that one erases the name of the newer one from the map.  Every *)
(* call holds the mutex.                                                   *)
(***************************************************************************)
EXTENDS Integers, FiniteSets, Sequences, SequencesExt, Functions

CONSTANTS WeightNames, WeightSizes, MaxBytes, MaxPuts

ASSUME WeightsAssumption == WeightSizes \subseteq Nat /\ MaxBytes \in Nat

VARIABLES lruList,   \* lru_list_, front first: [node, name, size]
          cacheMap,  \* cache_map_: name -> node
          bytesIn,   \* current_bytes_
          puts       \* history: number of puts; a node is named by its put

weightVars == <<lruList, cacheMap, bytesIn, puts>>

WeightsInit == lruList = <<>> /\ cacheMap = <<>> /\ bytesIn = 0 /\ puts = 0

(* The bytes of the first k nodes of a list, for every k.                  *)
BytesTo(list) ==
    LET sum[k \in 0 .. Len(list)] == IF k = 0 THEN 0 ELSE sum[k - 1] + list[k].size
    IN  sum
SumSizes(list) == BytesTo(list)[Len(list)]
Position(node) == CHOOSE k \in 1 .. Len(lruList) : lruList[k].node = node

(* What is left of the count when the first k nodes stay, and how many     *)
(* stay when put has made room.                                            *)
BytesLeft(k) == bytesIn - (SumSizes(lruList) - BytesTo(lruList)[k])
Staying(size) ==
    Max({0} \cup {k \in 1 .. Len(lruList) : BytesLeft(k) + size <= MaxBytes})

Node(name, size) == [node |-> puts + 1, name |-> name, size |-> size]
BugPut(name, size) ==  \* evicted nodes stay in the map
    LET k == Staying(size)
    IN  /\ lruList' = <<Node(name, size)>> \o SubSeq(lruList, 1, k)
        /\ cacheMap' = [n \in DOMAIN cacheMap \cup {name} |-> IF n = name THEN puts + 1 ELSE cacheMap[n]]
        /\ bytesIn' = BytesLeft(k) + size
        /\ puts' = puts + 1
Put(name, size) ==
    LET k == Staying(size)
        left == DOMAIN cacheMap \ {lruList[j].name : j \in k + 1 .. Len(lruList)}
    IN  /\ lruList' = <<Node(name, size)>> \o SubSeq(lruList, 1, k)
        /\ cacheMap' = [n \in left \cup {name} |-> IF n = name THEN puts + 1 ELSE cacheMap[n]]
        /\ bytesIn' = BytesLeft(k) + size
        /\ puts' = puts + 1
GetWeights(name) ==
    /\ name \in DOMAIN cacheMap
    /\ LET k == Position(cacheMap[name])
       IN  lruList' = <<lruList[k]>> \o RemoveAt(lruList, k)
    /\ UNCHANGED <<cacheMap, bytesIn, puts>>
ClearWeights == lruList' = <<>> /\ cacheMap' = <<>> /\ bytesIn' = 0 /\ UNCHANGED puts

WeightsNext ==
    \/ puts < MaxPuts /\ \E name \in WeightNames, size \in WeightSizes : Put(name, size)
    \/ \E name \in WeightNames : GetWeights(name)
    \/ ClearWeights

(* A name leads to the node of its last put, and that node is in the list, *)
(* whatever older nodes of the name are evicted or left behind; the bytes  *)
(* are those of the list, within the budget unless one entry is too large. *)
NewestIsServed ==
    /\ \A n \in DOMAIN cacheMap :
          /\ \E e \in Range(lruList) : e.node = cacheMap[n] /\ e.name = n
          /\ \A e \in Range(lruList) : e.name = n => e.node <= cacheMap[n]
    /\ bytesIn = SumSizes(lruList)
    /\ bytesIn <= MaxBytes \/ Len(lruList) = 1
=============================================================================
