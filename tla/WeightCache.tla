---------------------------- MODULE WeightCache -----------------------------
(***************************************************************************)
(* WeightCache of core/memory_manager.hpp: an unordered_map from keys to   *)
(* nodes of a doubly linked list, most recently used first.  Each public   *)
(* method but set_capacity and size, which take no lock, holds mtx_ from   *)
(* its first access to its last, so it is one action; inside it the        *)
(* pointer updates follow the code.                                        *)
(***************************************************************************)
EXTENDS Naturals, Sequences, FiniteSets

CONSTANTS
  Keys, Values,
  Capacities,   \* arguments of the constructor and of set_capacity
  Nodes,        \* addresses that new may return
  Null,         \* nullptr
  Missing       \* get returned false

ASSUME CacheAssumption ==
  /\ Capacities \subseteq Nat
  /\ Null \notin Nodes /\ Missing \notin Values

VARIABLES
  map,        \* map_, Null where a key is absent
  node,       \* the key and value of each node, and its links prev and next
  head, tail, \* head_ and tail_
  capacity,   \* capacity_
  out         \* what the last get returned

vars == <<map, node, head, tail, capacity, out>>

Pointers == Nodes \cup {Null}
Present == {k \in Keys : map[k] # Null}
Live == {map[k] : k \in Present}              \* the nodes not deleted
Size == Cardinality(Present)

(* The contents of memory that is not allocated.                             *)
Fresh == [key |-> Missing, value |-> Missing, prev |-> Null, next |-> Null]

Init ==
  /\ map = [k \in Keys |-> Null]
  /\ node = [n \in Nodes |-> Fresh]
  /\ head = Null /\ tail = Null
  /\ capacity \in Capacities
  /\ out = Missing

-----------------------------------------------------------------------------
(* detach and push_front map a list to a list: the nodes, head_ and tail_.   *)
List == [node |-> node, head |-> head, tail |-> tail]

SetNext(nodes, n, to) == IF n = Null THEN nodes ELSE [nodes EXCEPT ![n].next = to]
SetPrev(nodes, n, to) == IF n = Null THEN nodes ELSE [nodes EXCEPT ![n].prev = to]

BugDetach(l, n) ==                             \* mutant: tail_ is forgotten
  LET before == l.node[n].prev
      after == l.node[n].next
  IN [node |-> SetPrev(SetNext(l.node, before, after), after, before),
      head |-> IF l.head = n THEN after ELSE l.head,
      tail |-> l.tail]

(* The node itself keeps its old links.                                      *)
Detach(l, n) ==
  LET before == l.node[n].prev
      after == l.node[n].next
  IN [node |-> SetPrev(SetNext(l.node, before, after), after, before),
      head |-> IF l.head = n THEN after ELSE l.head,
      tail |-> IF l.tail = n THEN before ELSE l.tail]

PushFront(l, n) ==
  LET linked == [l.node EXCEPT ![n].next = l.head, ![n].prev = Null]
  IN [node |-> SetPrev(linked, l.head, n),
      head |-> n,
      tail |-> IF l.tail = Null THEN n ELSE l.tail]

SetList(l) == node' = l.node /\ head' = l.head /\ tail' = l.tail

(* pop_back, the erasure of the victim's key and the delete.                 *)
Evict(l) ==
  IF l.tail = Null THEN l
  ELSE LET d == Detach(l, l.tail) IN [d EXCEPT !.node[l.tail] = Fresh]

-----------------------------------------------------------------------------
InsertKnown(k, v) ==
  /\ map[k] # Null
  /\ SetList(PushFront([Detach(List, map[k]) EXCEPT !.node[map[k]].value = v], map[k]))
  /\ UNCHANGED <<map, capacity, out>>

Full == Size >= capacity

(* The new node may get the address of the victim.                           *)
InsertNew(k, v) ==
  LET evicts == Full /\ tail # Null
      room == IF evicts THEN Evict(List) ELSE List
      kept == IF evicts THEN [map EXCEPT ![node[tail].key] = Null] ELSE map
  IN /\ map[k] = Null
     /\ \E n \in Nodes \ {kept[j] : j \in Keys} :
          LET new == [Fresh EXCEPT !.key = k, !.value = v]
          IN /\ map' = [kept EXCEPT ![k] = n]
             /\ SetList(PushFront([room EXCEPT !.node[n] = new], n))
     /\ UNCHANGED <<capacity, out>>

BugGetKnown(k) ==                              \* mutant: a lookup is no use
  /\ map[k] # Null
  /\ out' = node[map[k]].value
  /\ UNCHANGED <<map, node, head, tail, capacity>>

GetKnown(k) ==
  /\ map[k] # Null
  /\ SetList(PushFront(Detach(List, map[k]), map[k]))
  /\ out' = node[map[k]].value
  /\ UNCHANGED <<map, capacity>>

GetMissing(k) ==
  /\ map[k] = Null
  /\ out' = Missing
  /\ UNCHANGED <<map, node, head, tail, capacity>>

Clear ==
  /\ map' = [k \in Keys |-> Null]
  /\ node' = [n \in Nodes |-> Fresh]
  /\ head' = Null /\ tail' = Null
  /\ UNCHANGED <<capacity, out>>

(* Evicts nothing, even when the cache is over its new capacity.             *)
SetCapacity ==
  /\ capacity' \in Capacities
  /\ UNCHANGED <<map, node, head, tail, out>>

Next ==
  \/ \E k \in Keys, v \in Values : InsertKnown(k, v) \/ InsertNew(k, v)
  \/ \E k \in Keys : GetKnown(k) \/ GetMissing(k)
  \/ Clear \/ SetCapacity

Spec == Init /\ [][Next]_vars

-----------------------------------------------------------------------------
TypeOK ==
  /\ map \in [Keys -> Pointers]
  /\ node \in [Nodes -> [key : Keys \cup {Missing}, value : Values \cup {Missing},
                         prev : Pointers, next : Pointers]]
  /\ head \in Pointers /\ tail \in Pointers
  /\ capacity \in Capacities
  /\ out \in Values \cup {Missing}

(* Nothing that can still be reached points to a deleted node, a key leads  *)
(* to its own node, and a node the map lost was deleted: the destructor,    *)
(* which walks the map, deletes every node that is left, once.              *)
NoDangling ==
  /\ {head, tail} \subseteq Live \cup {Null}
  /\ \A n \in Live : {node[n].prev, node[n].next} \subseteq Live \cup {Null}
  /\ \A k \in Present : node[map[k]].key = k
  /\ \A n \in Nodes \ Live : node[n] = Fresh

(* The links of the list are inverse to one another and its ends are the    *)
(* nodes without a neighbour, after any sequence of detach and push_front;  *)
(* and nothing that can be reached points to a deleted node.                *)
WellLinked ==
  /\ NoDangling
  /\ head = Null <=> tail = Null
  /\ \A n \in Live :
       /\ node[n].prev = Null <=> n = head
       /\ node[n].next = Null <=> n = tail
       /\ node[n].prev # Null => node[node[n].prev].next = n
       /\ node[n].next # Null => node[node[n].next].prev = n

(* Following next from head_, n times.                                      *)
Walk(l, n) ==
  LET at[i \in 1..n] == IF i = 1 THEN l.head
                        ELSE IF at[i - 1] = Null THEN Null ELSE l.node[at[i - 1]].next
  IN at
Entry(m) == [key |-> m.key, value |-> m.value]
Entries(l, n) ==
  [i \in 1..n |-> Entry(IF Walk(l, n)[i] = Null THEN Fresh ELSE l.node[Walk(l, n)[i]])]

(* The map and the list together behave as an LRU cache.                    *)
Lru == INSTANCE LruCache WITH order <- Entries(List, Size), cap <- capacity
IsLru == Lru!Spec
=============================================================================
