------------------------------ MODULE LruCache ------------------------------
(***************************************************************************)
(* A least recently used cache as its users see it: the entries in the     *)
(* order of their last use, and what the last lookup returned.             *)
(***************************************************************************)
EXTENDS Naturals, Sequences

CONSTANTS Keys, Values, Capacities, Missing

VARIABLES order, cap, out

Cached(k) == \E i \in DOMAIN order : order[i].key = k

Init == order = <<>> /\ cap \in Capacities /\ out = Missing

(* Entry e in front, and the entry at position i gone.                     *)
ToFront(e, i) ==
  [j \in 1..Len(order) |-> IF j = 1 THEN e ELSE IF j <= i THEN order[j - 1] ELSE order[j]]

(* A new key makes room by dropping the last entry, one entry however many   *)
(* the capacity was exceeded by.                                             *)
Insert(k, v) ==
  LET e == [key |-> k, value |-> v]
      room == Len(order) < cap \/ order = <<>>
  IN /\ \/ \E i \in DOMAIN order : order[i].key = k /\ order' = ToFront(e, i)
        \/ ~Cached(k) /\ room /\ order' = <<e>> \o order
        \/ ~Cached(k) /\ ~room /\ order' = ToFront(e, Len(order))
     /\ UNCHANGED <<cap, out>>

Hit(k) ==
  \E i \in DOMAIN order :
    /\ order[i].key = k
    /\ order' = ToFront(order[i], i)
    /\ out' = order[i].value
    /\ UNCHANGED cap

Miss(k) == ~Cached(k) /\ out' = Missing /\ UNCHANGED <<order, cap>>

Clear == order' = <<>> /\ UNCHANGED <<cap, out>>

Resize == cap' \in Capacities /\ UNCHANGED <<order, out>>

Next ==
  \/ \E k \in Keys, v \in Values : Insert(k, v)
  \/ \E k \in Keys : Hit(k) \/ Miss(k)
  \/ Clear \/ Resize

Spec == Init /\ [][Next]_<<order, cap, out>>
=============================================================================
