------------------------- MODULE WeightCache_proofs -------------------------
(***************************************************************************)
(* The pointers of WeightCache, for every set of keys, values and          *)
(* addresses: the list is well linked after any sequence of calls, and the *)
(* map and the list together implement LruCache.  The argument names what  *)
(* the pointers represent, a sequence s of nodes, and shows what detach    *)
(* and push_front do to it.                                                *)
(***************************************************************************)
EXTENDS WeightCache, FiniteSetTheorems, WellFoundedInduction, TLAPS

NodeType == [key : Keys \cup {Missing}, value : Values \cup {Missing},
             prev : Pointers, next : Pointers]

-----------------------------------------------------------------------------
(* The sequence that a list of pointers represents.                         *)
Chain(l, s, n) ==
  /\ n \in Nat
  /\ l \in [node : [Nodes -> NodeType], head : Pointers, tail : Pointers]
  /\ l.node \in [Nodes -> NodeType]
  /\ s \in [1..n -> Nodes]
  /\ \A i, j \in 1..n : s[i] = s[j] => i = j
  /\ l.head = IF n = 0 THEN Null ELSE s[1]
  /\ l.tail = IF n = 0 THEN Null ELSE s[n]
  /\ \A i \in 1..n : /\ l.node[s[i]].prev = IF i = 1 THEN Null ELSE s[i - 1]
                     /\ l.node[s[i]].next = IF i = n THEN Null ELSE s[i + 1]

Dropped(s, n, i) == [j \in 1..(n - 1) |-> IF j < i THEN s[j] ELSE s[j + 1]]
Pushed(s, n, m) == [j \in 1..(n + 1) |-> IF j = 1 THEN m ELSE s[j - 1]]

LEMMA SetNextFacts ==
  ASSUME NEW nodes \in [Nodes -> NodeType], NEW m \in Pointers, NEW to \in Pointers
  PROVE  /\ SetNext(nodes, m, to) \in [Nodes -> NodeType]
         /\ \A x \in Nodes : /\ SetNext(nodes, m, to)[x].key = nodes[x].key
                             /\ SetNext(nodes, m, to)[x].value = nodes[x].value
                             /\ SetNext(nodes, m, to)[x].prev = nodes[x].prev
                             /\ SetNext(nodes, m, to)[x].next = IF x = m THEN to ELSE nodes[x].next
                             /\ x # m => SetNext(nodes, m, to)[x] = nodes[x]
<1>1. CASE m = Null
  BY <1>1, CacheAssumption DEF SetNext
<1>2. CASE m \in Nodes
  BY <1>2, CacheAssumption DEF SetNext, NodeType
<1> QED BY <1>1, <1>2 DEF Pointers

LEMMA SetPrevFacts ==
  ASSUME NEW nodes \in [Nodes -> NodeType], NEW m \in Pointers, NEW to \in Pointers
  PROVE  /\ SetPrev(nodes, m, to) \in [Nodes -> NodeType]
         /\ \A x \in Nodes : /\ SetPrev(nodes, m, to)[x].key = nodes[x].key
                             /\ SetPrev(nodes, m, to)[x].value = nodes[x].value
                             /\ SetPrev(nodes, m, to)[x].next = nodes[x].next
                             /\ SetPrev(nodes, m, to)[x].prev = IF x = m THEN to ELSE nodes[x].prev
                             /\ x # m => SetPrev(nodes, m, to)[x] = nodes[x]
<1>1. CASE m = Null
  BY <1>1, CacheAssumption DEF SetPrev
<1>2. CASE m \in Nodes
  BY <1>2, CacheAssumption DEF SetPrev, NodeType
<1> QED BY <1>1, <1>2 DEF Pointers

(* detach takes a node out of the sequence and changes no key or value.     *)
LEMMA DetachChain ==
  ASSUME NEW l, NEW s, NEW n, Chain(l, s, n), NEW i \in 1..n
  PROVE  /\ Chain(Detach(l, s[i]), Dropped(s, n, i), n - 1)
         /\ \A x \in Nodes : /\ Detach(l, s[i]).node[x].key = l.node[x].key
                             /\ Detach(l, s[i]).node[x].value = l.node[x].value
         /\ \A x \in Nodes : (\A j \in 1..n : x # s[j]) => Detach(l, s[i]).node[x] = l.node[x]
<1> DEFINE before == l.node[s[i]].prev
           after == l.node[s[i]].next
           one == SetNext(l.node, before, after)
           two == SetPrev(one, after, before)
           d == Detach(l, s[i])
           t == Dropped(s, n, i)
<1>1. /\ n \in Nat /\ n > 0 /\ l.node \in [Nodes -> NodeType] /\ s \in [1..n -> Nodes]
      /\ Null \notin Nodes
  BY CacheAssumption DEF Chain
<1>2. /\ before = IF i = 1 THEN Null ELSE s[i - 1]
      /\ after = IF i = n THEN Null ELSE s[i + 1]
      /\ before \in Pointers /\ after \in Pointers
  BY <1>1 DEF Chain, Pointers
<1>3. d.node = two /\ d.head = (IF l.head = s[i] THEN after ELSE l.head)
                   /\ d.tail = (IF l.tail = s[i] THEN before ELSE l.tail)
  BY DEF Detach
<1> HIDE DEF before, after
<1>4. /\ two \in [Nodes -> NodeType]
      /\ \A x \in Nodes : /\ two[x].key = l.node[x].key
                          /\ two[x].value = l.node[x].value
                          /\ two[x].next = IF x = before THEN after ELSE l.node[x].next
                          /\ two[x].prev = IF x = after THEN before ELSE l.node[x].prev
                          /\ x # before /\ x # after => two[x] = l.node[x]
  <2>1. /\ one \in [Nodes -> NodeType]
        /\ \A x \in Nodes : /\ one[x].key = l.node[x].key
                            /\ one[x].value = l.node[x].value
                            /\ one[x].prev = l.node[x].prev
                            /\ one[x].next = IF x = before THEN after ELSE l.node[x].next
                            /\ x # before => one[x] = l.node[x]
    BY <1>1, <1>2, SetNextFacts
  <2> HIDE DEF one
  <2> QED BY <1>2, <2>1, SetPrevFacts
<1> HIDE DEF two
<1>5. /\ t \in [1..(n - 1) -> Nodes]
      /\ \A j \in 1..(n - 1) : t[j] = IF j < i THEN s[j] ELSE s[j + 1]
  BY <1>1 DEF Dropped
<1> HIDE DEF t, d
<1>6. \A j, k \in 1..(n - 1) : t[j] = t[k] => j = k
  <2>1. \A j, k \in 1..n : s[j] = s[k] => j = k
    BY DEF Chain
  <2> QED BY <1>1, <1>5, <2>1
<1>7. /\ d.head = IF n - 1 = 0 THEN Null ELSE t[1]
      /\ d.tail = IF n - 1 = 0 THEN Null ELSE t[n - 1]
  BY <1>1, <1>2, <1>3, <1>5 DEF Chain
<1>8. ASSUME NEW j \in 1..(n - 1)
      PROVE  /\ two[t[j]].prev = IF j = 1 THEN Null ELSE t[j - 1]
             /\ two[t[j]].next = IF j = n - 1 THEN Null ELSE t[j + 1]
  <2>1. CASE j < i - 1
    BY <1>1, <1>2, <1>4, <1>5, <2>1 DEF Chain
  <2>2. CASE j = i - 1
    BY <1>1, <1>2, <1>4, <1>5, <2>2 DEF Chain
  <2>3. CASE j >= i
    <3>1. /\ j + 1 \in 1..n /\ t[j] = s[j + 1] /\ t[j] \in Nodes /\ t[j] # before
          /\ t[j] = after <=> j = i
      BY <1>1, <1>2, <1>5, <2>3, SMTT(60) DEF Chain
    <3>2. two[t[j]].next = IF j + 1 = n THEN Null ELSE s[j + 2]
      BY <1>4, <3>1 DEF Chain
    <3>3. two[t[j]].prev = IF j = i THEN before ELSE s[j]
      BY <1>1, <1>4, <2>3, <3>1 DEF Chain
    <3>4. j # n - 1 => j + 1 \in 1..(n - 1) /\ t[j + 1] = s[j + 2]
      BY <1>1, <1>5, <2>3
    <3>5. j # 1 => j - 1 \in 1..(n - 1) /\ t[j - 1] = IF j = i THEN s[j - 1] ELSE s[j]
      BY <1>1, <1>5, <2>3
    <3>6. two[t[j]].next = IF j = n - 1 THEN Null ELSE t[j + 1]
      BY <1>1, <3>2, <3>4
    <3>7. two[t[j]].prev = IF j = 1 THEN Null ELSE t[j - 1]
      BY <1>1, <1>2, <2>3, <3>3, <3>5
    <3> QED BY <3>6, <3>7
  <2> QED BY <1>1, <2>1, <2>2, <2>3, SMTT(60)
<1>9. Chain(d, t, n - 1)
  <2>1. d \in [node : [Nodes -> NodeType], head : Pointers, tail : Pointers]
    BY <1>1, <1>2, <1>4 DEF d, Detach, Chain, two, one, before, after
  <2> QED BY <1>1, <1>3, <1>4, <1>5, <1>6, <1>7, <1>8, <2>1 DEF Chain
<1>10. \A x \in Nodes : (\A j \in 1..n : x # s[j]) => d.node[x] = l.node[x]
  BY <1>1, <1>2, <1>3, <1>4
<1> QED BY <1>3, <1>4, <1>9, <1>10 DEF d, t

(* push_front puts a node that is not in the sequence in front of it.       *)
LEMMA PushChain ==
  ASSUME NEW l, NEW s, NEW n, Chain(l, s, n), NEW m \in Nodes, \A j \in 1..n : m # s[j]
  PROVE  /\ Chain(PushFront(l, m), Pushed(s, n, m), n + 1)
         /\ \A x \in Nodes : /\ PushFront(l, m).node[x].key = l.node[x].key
                             /\ PushFront(l, m).node[x].value = l.node[x].value
         /\ \A x \in Nodes : x # m /\ (\A j \in 1..n : x # s[j]) =>
              PushFront(l, m).node[x] = l.node[x]
<1> DEFINE linked == [l.node EXCEPT ![m].next = l.head, ![m].prev = Null]
           p == PushFront(l, m)
           t == Pushed(s, n, m)
<1>1. /\ n \in Nat /\ l.node \in [Nodes -> NodeType] /\ s \in [1..n -> Nodes]
      /\ Null \notin Nodes /\ l.head \in Pointers /\ Null \in Pointers
      /\ l.head = IF n = 0 THEN Null ELSE s[1]
  BY CacheAssumption DEF Chain, Pointers
<1>2. /\ linked \in [Nodes -> NodeType]
      /\ \A x \in Nodes : /\ linked[x].key = l.node[x].key
                          /\ linked[x].value = l.node[x].value
                          /\ linked[x].next = IF x = m THEN l.head ELSE l.node[x].next
                          /\ linked[x].prev = IF x = m THEN Null ELSE l.node[x].prev
                          /\ x # m => linked[x] = l.node[x]
  BY <1>1 DEF NodeType
<1>3. p.node = SetPrev(linked, l.head, m) /\ p.head = m
      /\ p.tail = (IF l.tail = Null THEN m ELSE l.tail)
  BY DEF PushFront
<1> HIDE DEF linked
<1>4. /\ p.node \in [Nodes -> NodeType]
      /\ \A x \in Nodes : /\ p.node[x].key = l.node[x].key
                          /\ p.node[x].value = l.node[x].value
                          /\ p.node[x].next = IF x = m THEN l.head ELSE l.node[x].next
                          /\ p.node[x].prev = IF x = l.head THEN m ELSE linked[x].prev
                          /\ x # m /\ x # l.head => p.node[x] = l.node[x]
  <2>1. m \in Pointers
    BY DEF Pointers
  <2> QED BY <1>1, <1>2, <1>3, <2>1, SetPrevFacts
<1>5. /\ t \in [1..(n + 1) -> Nodes]
      /\ \A j \in 1..(n + 1) : t[j] = IF j = 1 THEN m ELSE s[j - 1]
  BY <1>1 DEF Pushed
<1> HIDE DEF t, p
<1>6. \A j, k \in 1..(n + 1) : t[j] = t[k] => j = k
  BY <1>1, <1>5 DEF Chain
<1>7. p.head = t[1] /\ p.tail = t[n + 1]
  BY <1>1, <1>3, <1>5 DEF Chain
<1>8. ASSUME NEW j \in 1..(n + 1)
      PROVE  /\ p.node[t[j]].prev = IF j = 1 THEN Null ELSE t[j - 1]
             /\ p.node[t[j]].next = IF j = n + 1 THEN Null ELSE t[j + 1]
  <2>1. CASE j = 1
    BY <1>1, <1>2, <1>4, <1>5, <2>1 DEF Chain
  <2>2. CASE j = 2
    BY <1>1, <1>2, <1>4, <1>5, <2>2 DEF Chain
  <2>3. CASE j > 2
    BY <1>1, <1>2, <1>4, <1>5, <2>3 DEF Chain
  <2> QED BY <1>1, <2>1, <2>2, <2>3
<1>9. Chain(p, t, n + 1)
  <2>1. p \in [node : [Nodes -> NodeType], head : Pointers, tail : Pointers]
    BY <1>1, <1>4 DEF p, PushFront, Chain, Pointers
  <2> QED BY <1>1, <1>4, <1>5, <1>6, <1>7, <1>8, <2>1 DEF Chain
<1> QED BY <1>1, <1>4, <1>9 DEF p, t

(* Writing a value, or a whole node that is not in the sequence.            *)
Writing(l, x, v) == [l EXCEPT !.node[x].value = v]
Placing(l, x, new) == [l EXCEPT !.node[x] = new]

LEMMA WritingChain ==
  ASSUME NEW l, NEW s, NEW n, Chain(l, s, n), NEW m \in Nodes, NEW v \in Values
  PROVE  /\ Chain(Writing(l, m, v), s, n)
         /\ \A x \in Nodes : x # m => Writing(l, m, v).node[x] = l.node[x]
         /\ Writing(l, m, v).node[m].key = l.node[m].key
         /\ Writing(l, m, v).node[m].value = v
<1> DEFINE new == [l.node[m] EXCEPT !.value = v]
           w == Writing(l, m, v)
<1>1. /\ l \in [node : [Nodes -> NodeType], head : Pointers, tail : Pointers]
      /\ l.node \in [Nodes -> NodeType] /\ n \in Nat /\ s \in [1..n -> Nodes]
  BY DEF Chain
<1>2. /\ new \in NodeType /\ new.key = l.node[m].key /\ new.value = v
      /\ new.prev = l.node[m].prev /\ new.next = l.node[m].next
  BY <1>1 DEF NodeType
<1>3. w.node = [l.node EXCEPT ![m] = new] /\ w.head = l.head /\ w.tail = l.tail
  BY <1>1 DEF Writing
<1>4. w \in [node : [Nodes -> NodeType], head : Pointers, tail : Pointers]
  <2>1. w = [l EXCEPT !.node = [l.node EXCEPT ![m] = new]]
    BY <1>1 DEF Writing
  <2>2. [l.node EXCEPT ![m] = new] \in [Nodes -> NodeType]
    BY <1>1, <1>2
  <2> HIDE DEF w, new
  <2> QED BY <1>1, <2>1, <2>2
<1> HIDE DEF w, new
<1>5. /\ w.node \in [Nodes -> NodeType]
      /\ \A x \in Nodes : w.node[x] = IF x = m THEN new ELSE l.node[x]
  BY <1>1, <1>2, <1>3
<1>6. Chain(w, s, n)
  BY <1>1, <1>2, <1>3, <1>4, <1>5 DEF Chain
<1> QED BY <1>2, <1>5, <1>6 DEF w

LEMMA PlacingChain ==
  ASSUME NEW l, NEW s, NEW n, Chain(l, s, n), NEW m \in Nodes,
         NEW new \in NodeType, \A j \in 1..n : m # s[j]
  PROVE  /\ Chain(Placing(l, m, new), s, n)
         /\ \A x \in Nodes : Placing(l, m, new).node[x] = IF x = m THEN new ELSE l.node[x]
<1> DEFINE w == Placing(l, m, new)
<1>1. /\ l \in [node : [Nodes -> NodeType], head : Pointers, tail : Pointers]
      /\ l.node \in [Nodes -> NodeType] /\ n \in Nat /\ s \in [1..n -> Nodes]
  BY DEF Chain
<1>2. /\ w.node = [l.node EXCEPT ![m] = new] /\ w.head = l.head /\ w.tail = l.tail
      /\ w \in [node : [Nodes -> NodeType], head : Pointers, tail : Pointers]
  BY <1>1 DEF Placing
<1> HIDE DEF w
<1>3. /\ w.node \in [Nodes -> NodeType]
      /\ \A x \in Nodes : w.node[x] = IF x = m THEN new ELSE l.node[x]
  BY <1>1, <1>2
<1>4. \A j \in 1..n : w.node[s[j]] = l.node[s[j]]
  BY <1>1, <1>3
<1>5. Chain(w, s, n)
  BY <1>1, <1>2, <1>3, <1>4 DEF Chain
<1> QED BY <1>3, <1>5 DEF w

-----------------------------------------------------------------------------
(* Every nonempty set of naturals has a least element; with the set of      *)
(* counterexamples in its place this is induction.                          *)
LEMMA LeastNatural ==
  ASSUME NEW T, T \subseteq Nat, T # {}
  PROVE  \E x \in T : \A y \in T : x <= y
<1> DEFINE Before == OpToRel(<, Nat)
<1>1. \A x, y \in Nat : <<y, x>> \in Before <=> y < x
  BY DEF OpToRel
<1>2. IsWellFoundedOn(Before, Nat)
  BY NatLessThanWellFounded
<1> HIDE DEF Before
<1>3. PICK x \in T : \A y \in T : ~(<<y, x>> \in Before)
  BY <1>2, WFMin, Zenon
<1>4. x \in Nat /\ \A y \in T : y \in Nat /\ ~(y < x)
  BY <1>1, <1>3
<1> QED BY <1>3, <1>4

(* Following next from head_ enumerates the sequence.                       *)
LEMMA WalkIsChain ==
  ASSUME NEW l, NEW s, NEW n, Chain(l, s, n)
  PROVE  Walk(l, n) = s
<1> DEFINE Follows(g) ==
             g = [i \in 1..n |-> IF i = 1 THEN l.head
                                 ELSE IF g[i - 1] = Null THEN Null ELSE l.node[g[i - 1]].next]
<1>1. n \in Nat /\ s \in [1..n -> Nodes] /\ Null \notin Nodes
  BY CacheAssumption DEF Chain
<1>2. Follows(s)
  <2>1. ASSUME NEW i \in 1..n
        PROVE  s[i] = IF i = 1 THEN l.head
                      ELSE IF s[i - 1] = Null THEN Null ELSE l.node[s[i - 1]].next
    <3>1. CASE i = 1
      BY <1>1, <3>1 DEF Chain
    <3>2. CASE i # 1
      <4>1. i - 1 \in 1..n /\ i - 1 # n /\ (i - 1) + 1 = i
        BY <1>1, <3>2
      <4>2. s[i - 1] \in Nodes /\ l.node[s[i - 1]].next = s[i]
        BY <1>1, <4>1 DEF Chain
      <4> QED BY <1>1, <3>2, <4>2
    <3> QED BY <3>1, <3>2
  <2> QED BY <1>1, <2>1
<1>3. ASSUME NEW g, Follows(g) PROVE g = s
  <2>1. \A i \in 1..n : g[i] = IF i = 1 THEN l.head
                               ELSE IF g[i - 1] = Null THEN Null ELSE l.node[g[i - 1]].next
    BY <1>3
  <2>2. \A i \in 1..n : s[i] = IF i = 1 THEN l.head
                               ELSE IF s[i - 1] = Null THEN Null ELSE l.node[s[i - 1]].next
    BY <1>2
  <2> DEFINE T == {i \in 1..n : g[i] # s[i]}
  <2>3. T = {}
    <3> SUFFICES ASSUME T # {} PROVE FALSE
      OBVIOUS
    <3>1. T \subseteq Nat
      BY <1>1
    <3>2. PICK i \in T : \A j \in T : i <= j
      <4> HIDE DEF T
      <4> QED BY <3>1, LeastNatural
    <3>3. i \in 1..n /\ g[i] # s[i] /\ i - 1 \notin T
      BY <1>1, <3>2
    <3>4. i = 1 \/ (i - 1 \in 1..n /\ g[i - 1] = s[i - 1])
      BY <1>1, <3>3
    <3> QED BY <2>1, <2>2, <3>3, <3>4
  <2>4. DOMAIN g = 1..n /\ g = [i \in 1..n |-> g[i]]
    BY <1>3
  <2> QED BY <1>1, <2>3, <2>4
<1>4. Walk(l, n) = CHOOSE g : Follows(g)
  BY DEF Walk
<1> HIDE DEF Follows
<1> QED BY <1>2, <1>3, <1>4

-----------------------------------------------------------------------------
(* The map m and the list l represent the sequence s of n nodes: the nodes  *)
(* of s are those the map holds, each under its own key, and the others are *)
(* deleted.                                                                 *)
KeysOf(m) == {k \in Keys : m[k] # Null}
Represents(m, l, s, n) ==
  /\ Chain(l, s, n)
  /\ m \in [Keys -> Pointers]
  /\ \A i \in 1..n : \E k \in Keys : m[k] = s[i]
  /\ \A k \in KeysOf(m) : l.node[m[k]].key = k /\ \E i \in 1..n : s[i] = m[k]
  /\ \A x \in Nodes : (\A i \in 1..n : x # s[i]) => l.node[x] = Fresh
  /\ IsFiniteSet(KeysOf(m)) /\ Cardinality(KeysOf(m)) = n

Mapping(m, k, x) == [m EXCEPT ![k] = x]
EntriesOf(l, s, n) == [i \in 1..n |-> Entry(l.node[s[i]])]

(* What the refinement mapping yields for such a map and list.              *)
LEMMA EntriesAre ==
  ASSUME NEW m, NEW l, NEW s, NEW n, Represents(m, l, s, n)
  PROVE  Entries(l, n) = EntriesOf(l, s, n)
<1>1. Walk(l, n) = s
  BY WalkIsChain DEF Represents
<1>2. s \in [1..n -> Nodes] /\ Null \notin Nodes
  BY CacheAssumption DEF Represents, Chain
<1> QED BY <1>1, <1>2 DEF Entries, EntriesOf

LEMMA EmptyRepresents ==
  ASSUME NEW h \in Pointers, h = Null
  PROVE  Represents([k \in Keys |-> Null],
                    [node |-> [x \in Nodes |-> Fresh], head |-> h, tail |-> h],
                    [i \in 1..0 |-> Null], 0)
<1> DEFINE m == [k \in Keys |-> Null]
           l == [node |-> [x \in Nodes |-> Fresh], head |-> h, tail |-> h]
           s == [i \in 1..0 |-> Null]
<1>1. Fresh \in NodeType
  BY DEF Fresh, NodeType, Pointers
<1>2. l.node \in [Nodes -> NodeType] /\ s \in [1..0 -> Nodes]
      /\ l \in [node : [Nodes -> NodeType], head : Pointers, tail : Pointers]
  BY <1>1
<1>3. Chain(l, s, 0)
  BY <1>2 DEF Chain
<1>4. KeysOf(m) = {} /\ m \in [Keys -> Pointers]
  BY DEF KeysOf, Pointers
<1>5. IsFiniteSet({}) /\ Cardinality({}) = 0
  BY FS_EmptySet
<1> HIDE DEF m, s
<1>6. \A x \in Nodes : l.node[x] = Fresh
  OBVIOUS
<1>7. Represents(m, l, s, 0)
  <2> HIDE DEF l
  <2> QED BY <1>3, <1>4, <1>5, <1>6 DEF Represents
<1> QED BY <1>7 DEF m, s

(* What push_front gets: the list without x, and perhaps a new value in x.  *)
Taken(l, x, d) ==
  d = Detach(l, x) \/ \E v \in Values : d = Writing(Detach(l, x), x, v)

LEMMA TakenValue ==
  ASSUME NEW l, NEW s, NEW n, Chain(l, s, n), NEW i \in 1..n
  PROVE  /\ Taken(l, s[i], Detach(l, s[i]))
         /\ Detach(l, s[i]).node[s[i]].value = l.node[s[i]].value
         /\ \A v \in Values :
              /\ Taken(l, s[i], Writing(Detach(l, s[i]), s[i], v))
              /\ Writing(Detach(l, s[i]), s[i], v).node[s[i]].value = v
<1> DEFINE e == Detach(l, s[i])
<1>1. s[i] \in Nodes
  BY DEF Chain
<1>2. Chain(e, Dropped(s, n, i), n - 1) /\ e.node[s[i]].value = l.node[s[i]].value
  BY <1>1, DetachChain
<1> HIDE DEF e
<1>3. \A v \in Values : Writing(e, s[i], v).node[s[i]].value = v
  BY <1>1, <1>2, WritingChain
<1> QED BY <1>2, <1>3 DEF e, Taken

(* A lookup, and an insert of a key that is present.                        *)
LEMMA TouchRepresents ==
  ASSUME NEW m, NEW l, NEW s, NEW n, Represents(m, l, s, n), NEW i \in 1..n,
         NEW d, Taken(l, s[i], d)
  PROVE  LET p == PushFront(d, s[i])
             t == Pushed(Dropped(s, n, i), n - 1, s[i])
         IN  /\ Represents(m, p, t, n)
             /\ t[1] = s[i]
             /\ \A j \in 2..n : t[j] = IF j <= i THEN s[j - 1] ELSE s[j]
             /\ \A x \in Nodes : x # s[i] => Entry(p.node[x]) = Entry(l.node[x])
             /\ p.node[s[i]].key = l.node[s[i]].key /\ p.node[s[i]].value = d.node[s[i]].value
<1> DEFINE u == Dropped(s, n, i)
           t == Pushed(u, n - 1, s[i])
           e == Detach(l, s[i])
           p == PushFront(d, s[i])
<1>1. /\ n \in Nat /\ n > 0 /\ s \in [1..n -> Nodes] /\ Chain(l, s, n) /\ s[i] \in Nodes
      /\ \A j, k \in 1..n : s[j] = s[k] => j = k
  BY DEF Represents, Chain
<1>2. /\ Chain(e, u, n - 1)
      /\ \A x \in Nodes : e.node[x].key = l.node[x].key /\ e.node[x].value = l.node[x].value
      /\ \A x \in Nodes : (\A j \in 1..n : x # s[j]) => e.node[x] = l.node[x]
  <2>1. Chain(l, s, n)
    BY <1>1
  <2> QED BY ONLY <2>1, i \in 1..n, DetachChain
<1>3. \A j \in 1..(n - 1) : u[j] = IF j < i THEN s[j] ELSE s[j + 1]
  BY <1>1 DEF Dropped
<1> HIDE DEF u, e
<1>4. /\ Chain(d, u, n - 1)
      /\ \A x \in Nodes : d.node[x].key = l.node[x].key
      /\ \A x \in Nodes : x # s[i] => d.node[x] = e.node[x]
  <2>1. \A v \in Values :
          /\ Chain(Writing(e, s[i], v), u, n - 1)
          /\ \A x \in Nodes : x # s[i] => Writing(e, s[i], v).node[x] = e.node[x]
          /\ Writing(e, s[i], v).node[s[i]].key = e.node[s[i]].key
    BY ONLY <1>1, <1>2, WritingChain
  <2>2. d = e \/ \E v \in Values : d = Writing(e, s[i], v)
    BY DEF e, Taken
  <2>3. CASE d = e
    BY <1>1, <1>2, <2>1, <2>3
  <2>4. CASE \E v \in Values : d = Writing(e, s[i], v)
    <3>1. PICK v \in Values : d = Writing(e, s[i], v)
      BY <2>4
    <3>2. /\ Chain(d, u, n - 1)
          /\ \A x \in Nodes : x # s[i] => d.node[x] = e.node[x]
          /\ d.node[s[i]].key = e.node[s[i]].key
      BY <2>1, <3>1
    <3> QED BY <1>1, <1>2, <2>1, <3>2
  <2> QED BY <2>2, <2>3, <2>4
<1>5. \A j \in 1..(n - 1) : s[i] # u[j]
  BY <1>1, <1>3
<1>6. /\ Chain(p, t, n)
      /\ \A x \in Nodes : p.node[x].key = d.node[x].key /\ p.node[x].value = d.node[x].value
      /\ \A x \in Nodes : x # s[i] /\ (\A j \in 1..(n - 1) : x # u[j]) => p.node[x] = d.node[x]
  <2>1. (n - 1) + 1 = n
    BY <1>1
  <2> QED BY <1>1, <1>4, <1>5, <2>1, PushChain
<1>7. t[1] = s[i] /\ \A j \in 2..n : t[j] = IF j <= i THEN s[j - 1] ELSE s[j]
  <2>1. \A j \in 1..n : t[j] = IF j = 1 THEN s[i] ELSE u[j - 1]
    BY <1>1 DEF Pushed
  <2>2. \A j \in 2..n : j \in 1..n /\ j # 1 /\ j - 1 \in 1..(n - 1) /\ (j - 1) + 1 = j
                        /\ (j - 1 < i <=> j <= i)
    BY <1>1
  <2> HIDE DEF t
  <2>3. \A j \in 2..n : t[j] = IF j <= i THEN s[j - 1] ELSE s[j]
    BY <1>3, <2>1, <2>2
  <2> QED BY <1>1, <2>1, <2>3
<1> HIDE DEF t, p
<1>8. \A x \in Nodes : (\A j \in 1..n : x # t[j]) => \A j \in 1..n : x # s[j]
  <2> SUFFICES ASSUME NEW j \in 1..n PROVE \E k \in 1..n : t[k] = s[j]
    OBVIOUS
  <2>1. CASE j = i
    BY <1>1, <1>7, <2>1
  <2>2. CASE j < i
    <3> DEFINE k == j + 1
    <3>2. k \in 2..n /\ k \in 1..n /\ k <= i /\ k - 1 = j
      BY <1>1, <2>2
    <3>1. k \in 1..n /\ t[k] = s[j]
      BY <1>7, <3>2
    <3> QED BY <3>1
  <2>3. CASE j > i
    <3>1. j \in 2..n /\ t[j] = s[j]
      BY <1>1, <1>7, <2>3
    <3> QED BY <3>1
  <2> QED BY <1>1, <2>1, <2>2, <2>3
<1>9. \A j \in 1..n : \E k \in 1..n : t[j] = s[k]
  <2> SUFFICES ASSUME NEW j \in 1..n PROVE \E k \in 1..n : t[j] = s[k]
    OBVIOUS
  <2>1. CASE j = 1
    BY <1>7, <2>1
  <2>2. CASE j # 1
    <3>1. j \in 2..n /\ (j - 1) \in 1..n
      BY <1>1, <2>2
    <3> QED BY <1>7, <3>1
  <2> QED BY <2>1, <2>2
<1>10. Represents(m, p, t, n)
  <2>1. \A j \in 1..n : \E k \in Keys : m[k] = t[j]
    BY <1>9 DEF Represents
  <2>2. ASSUME NEW k \in KeysOf(m)
        PROVE  p.node[m[k]].key = k /\ \E j \in 1..n : t[j] = m[k]
    <3>1. m[k] \in Nodes /\ l.node[m[k]].key = k /\ \E j \in 1..n : s[j] = m[k]
      BY <1>1 DEF Represents
    <3> QED BY <1>4, <1>6, <1>8, <3>1
  <2>3. ASSUME NEW x \in Nodes, \A j \in 1..n : x # t[j] PROVE p.node[x] = Fresh
    <3>1. (\A j \in 1..n : x # s[j]) /\ l.node[x] = Fresh
      BY <1>8, <2>3 DEF Represents
    <3>2. x # s[i] /\ \A j \in 1..(n - 1) : x # u[j]
      BY <1>1, <1>3, <3>1
    <3> QED BY <1>2, <1>4, <1>6, <3>1, <3>2
  <2> QED BY <1>6, <2>1, <2>2, <2>3 DEF Represents
<1>11. \A x \in Nodes : x # s[i] => Entry(p.node[x]) = Entry(l.node[x])
  BY <1>2, <1>4, <1>6 DEF Entry
<1>12. p.node[s[i]].key = l.node[s[i]].key /\ p.node[s[i]].value = d.node[s[i]].value
  BY <1>1, <1>4, <1>6
<1> QED BY <1>4, <1>7, <1>10, <1>11, <1>12 DEF e, t, p, u

(* The eviction of the last node.                                           *)
LEMMA EvictRepresents ==
  ASSUME NEW m, NEW l, NEW s, NEW n, Represents(m, l, s, n), n # 0
  PROVE  LET k == l.node[l.tail].key
             u == Dropped(s, n, n)
         IN  /\ l.tail # Null /\ k \in KeysOf(m)
             /\ Represents(Mapping(m, k, Null), Evict(l), u, n - 1)
             /\ \A j \in 1..(n - 1) : u[j] = s[j]
             /\ \A j \in 1..(n - 1) : Entry(Evict(l).node[s[j]]) = Entry(l.node[s[j]])
<1> DEFINE k == l.node[l.tail].key
           u == Dropped(s, n, n)
           d == Detach(l, s[n])
           e == Evict(l)
           o == [m EXCEPT ![k] = Null]
<1>1. /\ n \in Nat /\ n \in 1..n /\ s \in [1..n -> Nodes] /\ Chain(l, s, n) /\ s[n] \in Nodes
      /\ l.tail = s[n] /\ Null \notin Nodes /\ m \in [Keys -> Pointers]
      /\ \A i, j \in 1..n : s[i] = s[j] => i = j
  BY CacheAssumption DEF Represents, Chain
<1>2. k \in KeysOf(m) /\ m[k] = s[n]
  <2>1. PICK j \in Keys : m[j] = s[n]
    BY <1>1 DEF Represents
  <2>2. j \in KeysOf(m)
    BY <1>1, <2>1 DEF KeysOf
  <2> QED BY <1>1, <2>1, <2>2 DEF Represents
<1>3. \A j \in 1..(n - 1) : u[j] = s[j] /\ j \in 1..n /\ j # n
  BY <1>1 DEF Dropped
<1>4. /\ Chain(d, u, n - 1)
      /\ \A x \in Nodes : d.node[x].key = l.node[x].key /\ d.node[x].value = l.node[x].value
      /\ \A x \in Nodes : (\A j \in 1..n : x # s[j]) => d.node[x] = l.node[x]
  BY ONLY <1>1, DetachChain, SMTT(60)
<1>5. e = Placing(d, s[n], Fresh)
  BY <1>1 DEF Evict, Placing
<1> HIDE DEF u, d, e
<1>6. Chain(e, u, n - 1) /\ \A x \in Nodes : e.node[x] = IF x = s[n] THEN Fresh ELSE d.node[x]
  <2>1. Fresh \in NodeType
    BY DEF Fresh, NodeType, Pointers
  <2>2. \A j \in 1..(n - 1) : s[n] # u[j]
    BY <1>1, <1>3
  <2> QED BY <1>1, <1>4, <1>5, <2>1, <2>2, PlacingChain
<1>7. \A j \in 1..(n - 1) : Entry(e.node[s[j]]) = Entry(l.node[s[j]])
  <2> SUFFICES ASSUME NEW j \in 1..(n - 1) PROVE Entry(e.node[s[j]]) = Entry(l.node[s[j]])
    OBVIOUS
  <2>1. s[j] \in Nodes /\ s[j] # s[n]
    BY <1>1, <1>3
  <2> QED BY <1>4, <1>6, <2>1 DEF Entry
<1>8. o \in [Keys -> Pointers] /\ KeysOf(o) = KeysOf(m) \ {k} /\ k \in Keys
      /\ \A j \in KeysOf(o) : o[j] = m[j]
  BY <1>1, <1>2 DEF KeysOf, Pointers
<1>9. IsFiniteSet(KeysOf(o)) /\ Cardinality(KeysOf(o)) = n - 1
  <2>1. IsFiniteSet(KeysOf(m)) /\ Cardinality(KeysOf(m)) = n
    BY DEF Represents
  <2> HIDE DEF o, k
  <2>2. Cardinality(KeysOf(m) \ {k}) = Cardinality(KeysOf(m)) - 1 /\ IsFiniteSet(KeysOf(m) \ {k})
    BY <1>2, <2>1, FS_RemoveElement
  <2> QED BY <1>8, <2>1, <2>2
<1>10. \A i \in 1..(n - 1) : \E j \in Keys : o[j] = u[i]
  <2> SUFFICES ASSUME NEW i \in 1..(n - 1) PROVE \E j \in Keys : o[j] = u[i]
    OBVIOUS
  <2>1. i \in 1..n /\ i # n /\ u[i] = s[i] /\ s[i] # s[n]
    BY <1>1, <1>3
  <2>2. PICK j \in Keys : m[j] = s[i]
    BY <2>1 DEF Represents
  <2>3. j # k
    BY <1>2, <2>1, <2>2
  <2> QED BY <1>1, <2>1, <2>2, <2>3
<1>11. ASSUME NEW j \in KeysOf(o)
       PROVE  e.node[o[j]].key = j /\ \E i \in 1..(n - 1) : u[i] = o[j]
  <2>1. j \in KeysOf(m) /\ j # k /\ o[j] = m[j] /\ m[j] \in Nodes
    BY <1>1, <1>8 DEF KeysOf, Pointers
  <2>2. l.node[m[j]].key = j /\ \E i \in 1..n : s[i] = m[j]
    BY <2>1 DEF Represents
  <2>3. m[j] # s[n]
    BY <1>1, <2>1, <2>2
  <2>4. PICK i \in 1..n : s[i] = m[j]
    BY <2>2
  <2>5. i \in 1..(n - 1)
    BY <1>1, <2>3, <2>4
  <2> QED BY <1>3, <1>4, <1>6, <2>1, <2>2, <2>3, <2>4, <2>5
<1>12. ASSUME NEW x \in Nodes, \A i \in 1..(n - 1) : x # u[i] PROVE e.node[x] = Fresh
  <2>1. CASE x = s[n]
    BY <1>6, <2>1
  <2>2. CASE x # s[n]
    <3>1. \A i \in 1..n : x # s[i]
      <4> SUFFICES ASSUME NEW i \in 1..n, i # n PROVE x # s[i]
        BY <2>2
      <4>1. i \in 1..(n - 1)
        BY <1>1
      <4> QED BY <1>3, <1>12, <4>1
    <3>2. l.node[x] = Fresh
      BY <3>1 DEF Represents
    <3> QED BY <1>4, <1>6, <2>2, <3>1, <3>2
  <2> QED BY <2>1, <2>2
<1> HIDE DEF k, o
<1>13. Represents(o, e, u, n - 1)
  BY <1>6, <1>8, <1>9, <1>10, <1>11, <1>12 DEF Represents
<1> QED BY <1>1, <1>2, <1>3, <1>7, <1>13 DEF k, u, e, o, Mapping

(* A new key in front.                                                      *)
Added(l, x, k, v) == PushFront([l EXCEPT !.node[x] = [Fresh EXCEPT !.key = k, !.value = v]], x)

LEMMA AddRepresents ==
  ASSUME NEW m, NEW l, NEW s, NEW n, Represents(m, l, s, n),
         NEW k \in Keys, m[k] = Null, NEW v \in Values,
         NEW x \in Nodes, x \notin {m[j] : j \in Keys}
  PROVE  LET p == Added(l, x, k, v)
             t == Pushed(s, n, x)
         IN  /\ Represents(Mapping(m, k, x), p, t, n + 1)
             /\ t[1] = x /\ \A j \in 2..(n + 1) : t[j] = s[j - 1]
             /\ Entry(p.node[x]) = [key |-> k, value |-> v]
             /\ \A j \in 1..n : Entry(p.node[s[j]]) = Entry(l.node[s[j]])
<1> DEFINE new == [Fresh EXCEPT !.key = k, !.value = v]
           w == Placing(l, x, new)
           p == PushFront(w, x)
           t == Pushed(s, n, x)
           o == [m EXCEPT ![k] = x]
<1>1. /\ n \in Nat /\ s \in [1..n -> Nodes] /\ Chain(l, s, n)
      /\ Null \notin Nodes /\ m \in [Keys -> Pointers]
      /\ \A i, j \in 1..n : s[i] = s[j] => i = j
  BY CacheAssumption DEF Represents, Chain
<1>2. \A j \in 1..n : x # s[j]
  BY DEF Represents
<1>3. new \in NodeType /\ new.key = k /\ new.value = v
  BY DEF Fresh, NodeType, Pointers
<1> HIDE DEF new
<1>4. Chain(w, s, n) /\ \A y \in Nodes : w.node[y] = IF y = x THEN new ELSE l.node[y]
  BY <1>1, <1>2, <1>3, PlacingChain
<1> HIDE DEF w
<1>5. /\ Chain(p, t, n + 1)
      /\ \A y \in Nodes : p.node[y].key = w.node[y].key /\ p.node[y].value = w.node[y].value
      /\ \A y \in Nodes : y # x /\ (\A j \in 1..n : y # s[j]) => p.node[y] = w.node[y]
  BY <1>2, <1>4, PushChain
<1>6. t[1] = x /\ \A j \in 1..n : t[j + 1] = s[j] /\ j + 1 \in 1..(n + 1)
  <2>1. \A j \in 1..(n + 1) : t[j] = IF j = 1 THEN x ELSE s[j - 1]
    BY <1>1 DEF Pushed
  <2>2. 1 \in 1..(n + 1) /\ \A j \in 1..n : j + 1 \in 1..(n + 1) /\ j + 1 # 1 /\ (j + 1) - 1 = j
    BY <1>1
  <2> HIDE DEF t
  <2> QED BY <2>1, <2>2
<1> HIDE DEF p, t
<1>7. \A j \in 1..(n + 1) : j # 1 => j - 1 \in 1..n /\ t[j] = s[j - 1]
  <2> SUFFICES ASSUME NEW j \in 1..(n + 1), j # 1 PROVE j - 1 \in 1..n /\ t[j] = s[j - 1]
    OBVIOUS
  <2> DEFINE i == j - 1
  <2>1. i \in 1..n /\ j = i + 1
    BY <1>1
  <2> HIDE DEF i
  <2>2. t[j] = s[i]
    BY <1>6, <2>1
  <2> QED BY <2>1, <2>2 DEF i
<1>8. /\ o \in [Keys -> Pointers] /\ KeysOf(o) = KeysOf(m) \cup {k} /\ k \notin KeysOf(m)
      /\ o[k] = x /\ \A j \in Keys : j # k => o[j] = m[j]
  BY <1>1 DEF KeysOf, Pointers
<1>9. IsFiniteSet(KeysOf(o)) /\ Cardinality(KeysOf(o)) = n + 1
  <2>1. IsFiniteSet(KeysOf(m)) /\ Cardinality(KeysOf(m)) = n
    BY DEF Represents
  <2> HIDE DEF o
  <2> QED BY <1>8, <2>1, FS_AddElement
<1>10. \A i \in 1..(n + 1) : \E j \in Keys : o[j] = t[i]
  <2> SUFFICES ASSUME NEW i \in 1..(n + 1) PROVE \E j \in Keys : o[j] = t[i]
    OBVIOUS
  <2>1. CASE i = 1
    BY <1>6, <1>8, <2>1
  <2>2. CASE i # 1
    <3>1. i - 1 \in 1..n /\ t[i] = s[i - 1] /\ s[i - 1] \in Nodes
      BY <1>1, <1>7, <2>2
    <3>2. PICK j \in Keys : m[j] = s[i - 1]
      BY <3>1 DEF Represents
    <3>3. j # k
      BY <1>1, <3>1, <3>2
    <3> QED BY <1>8, <3>1, <3>2, <3>3
  <2> QED BY <2>1, <2>2
<1>11. ASSUME NEW j \in KeysOf(o)
       PROVE  p.node[o[j]].key = j /\ \E i \in 1..(n + 1) : t[i] = o[j]
  <2>1. CASE j = k
    <3>1. 1 \in 1..(n + 1)
      BY <1>1
    <3> QED BY <1>3, <1>4, <1>5, <1>6, <1>8, <2>1, <3>1
  <2>2. CASE j # k
    <3>1. j \in KeysOf(m) /\ o[j] = m[j] /\ m[j] \in Nodes /\ m[j] # x
      BY <1>1, <1>8, <2>2 DEF KeysOf, Pointers
    <3>2. l.node[m[j]].key = j /\ \E i \in 1..n : s[i] = m[j]
      BY <3>1 DEF Represents
    <3> QED BY <1>4, <1>5, <1>6, <3>1, <3>2
  <2> QED BY <2>1, <2>2
<1>12. ASSUME NEW y \in Nodes, \A i \in 1..(n + 1) : y # t[i] PROVE p.node[y] = Fresh
  <2>1. y # x /\ \A i \in 1..n : y # s[i]
    <3>1. 1 \in 1..(n + 1)
      BY <1>1
    <3> QED BY <1>6, <1>12, <3>1
  <2>2. l.node[y] = Fresh
    BY <2>1 DEF Represents
  <2> QED BY <1>4, <1>5, <2>1, <2>2
<1>13. Entry(p.node[x]) = [key |-> k, value |-> v]
  BY <1>3, <1>4, <1>5 DEF Entry
<1>14. \A j \in 1..n : Entry(p.node[s[j]]) = Entry(l.node[s[j]])
  <2> SUFFICES ASSUME NEW j \in 1..n PROVE Entry(p.node[s[j]]) = Entry(l.node[s[j]])
    OBVIOUS
  <2>1. s[j] \in Nodes /\ s[j] # x
    BY <1>1, <1>2
  <2> QED BY <1>4, <1>5, <2>1 DEF Entry
<1>15. \A j \in 2..(n + 1) : t[j] = s[j - 1]
  <2>1. \A j \in 2..(n + 1) : j \in 1..(n + 1) /\ j # 1
    BY <1>1
  <2> QED BY <1>7, <2>1
<1> HIDE DEF o
<1>16. Represents(o, p, t, n + 1)
  BY <1>5, <1>8, <1>9, <1>10, <1>11, <1>12 DEF Represents
<1> QED BY <1>6, <1>13, <1>14, <1>15, <1>16 DEF p, t, o, w, new, Placing, Added, Mapping

-----------------------------------------------------------------------------
(* The inductive invariant: the pointers represent some sequence of nodes.  *)
IInv ==
  /\ capacity \in Capacities
  /\ out \in Values \cup {Missing}
  /\ \E n \in Nat : \E s \in [1..n -> Nodes] : Represents(map, List, s, n)

(* The state of LruCache that the refinement mapping gives.                 *)
Order == Entries(List, Size)

LEMMA RepresentedNow ==
  ASSUME NEW s, NEW n, Represents(map, List, s, n)
  PROVE  /\ Size = n /\ Order = EntriesOf(List, s, n)
         /\ n \in Nat /\ s \in [1..n -> Nodes] /\ Len(Order) = n /\ DOMAIN Order = 1..n
         /\ \A i \in 1..n : Order[i] = Entry(node[s[i]])
         /\ map \in [Keys -> Pointers]
         /\ \A k \in Keys : map[k] # Null => node[map[k]].key = k /\ \E i \in 1..n : s[i] = map[k]
         /\ \A i \in 1..n : \E k \in Keys : map[k] = s[i] /\ node[s[i]].key = k
<1>1. Size = n
  BY DEF Size, Present, KeysOf, Represents
<1>2. Order = EntriesOf(List, s, n)
  BY <1>1, EntriesAre DEF Order
<1>3. n \in Nat /\ s \in [1..n -> Nodes] /\ map \in [Keys -> Pointers]
  BY DEF Represents, Chain
<1>4. List.node = node
  BY DEF List
<1>5. \A k \in Keys : map[k] # Null => node[map[k]].key = k /\ \E i \in 1..n : s[i] = map[k]
  BY <1>4 DEF Represents, KeysOf
<1>6. \A i \in 1..n : \E k \in Keys : map[k] = s[i] /\ node[s[i]].key = k
  <2> SUFFICES ASSUME NEW i \in 1..n PROVE \E k \in Keys : map[k] = s[i] /\ node[s[i]].key = k
    OBVIOUS
  <2>1. PICK k \in Keys : map[k] = s[i]
    BY DEF Represents
  <2>2. map[k] # Null
    BY <1>3, <2>1, CacheAssumption
  <2> QED BY <1>5, <2>1, <2>2
<1>7. Len(Order) = n /\ DOMAIN Order = 1..n /\ \A i \in 1..n : Order[i] = Entry(node[s[i]])
  BY <1>2, <1>3, <1>4 DEF EntriesOf
<1> QED BY <1>1, <1>2, <1>3, <1>5, <1>6, <1>7

LEMMA RepresentedNext ==
  ASSUME NEW s, NEW n, Represents(map', List', s, n)
  PROVE  /\ Size' = n
         /\ Order' = [i \in 1..n |-> Entry(node'[s[i]])]
         /\ n \in Nat
         /\ \E q \in Nat : \E t \in [1..q -> Nodes] : Represents(map', List', t, q)
<1>1. Size' = n
  BY DEF Size, Present, KeysOf, Represents
<1>2. Order' = EntriesOf(List', s, n)
  BY <1>1, EntriesAre DEF Order
<1>3. n \in Nat /\ s \in [1..n -> Nodes]
  BY DEF Represents, Chain
<1>4. List'.node = node'
  BY DEF List
<1> QED BY <1>1, <1>2, <1>3, <1>4 DEF EntriesOf

LEMMA InitStep == Init => IInv /\ Lru!Init
<1> SUFFICES ASSUME Init PROVE IInv /\ Lru!Init
  OBVIOUS
<1> DEFINE s == [i \in 1..0 |-> Null]
<1>1. Represents(map, List, s, 0)
  BY EmptyRepresents DEF Init, List, Pointers
<1>2. s \in [1..0 -> Nodes]
  OBVIOUS
<1>3. IInv
  BY <1>1, <1>2 DEF Init, IInv
<1>4. Order = <<>>
  BY <1>1, RepresentedNow DEF EntriesOf
<1> QED BY <1>3, <1>4 DEF Init, Lru!Init, Order

(* Moving a node to the front is ToFront.                                   *)
LEMMA TouchStep ==
  ASSUME NEW s, NEW n, Represents(map, List, s, n), NEW i \in 1..n, NEW k \in Keys, map[k] = s[i],
         NEW d, Taken(List, s[i], d),
         SetList(PushFront(d, s[i])), UNCHANGED map
  PROVE  /\ \E q \in Nat : \E t \in [1..q -> Nodes] : Represents(map', List', t, q)
         /\ Order[i].key = k
         /\ Order' = Lru!ToFront([key |-> k, value |-> d.node[s[i]].value], i)
<1> DEFINE p == PushFront(d, s[i])
           t == Pushed(Dropped(s, n, i), n - 1, s[i])
           e == [key |-> k, value |-> d.node[s[i]].value]
<1>1. /\ n \in Nat /\ s \in [1..n -> Nodes] /\ Len(Order) = n /\ DOMAIN Order = 1..n
      /\ \A j \in 1..n : Order[j] = Entry(node[s[j]])
      /\ node[s[i]].key = k /\ \A j, l \in 1..n : s[j] = s[l] => j = l
  <2>1. map[k] # Null /\ \A j, l \in 1..n : s[j] = s[l] => j = l
    BY CacheAssumption DEF Represents, Chain
  <2> QED BY <2>1, RepresentedNow
<1>2. /\ Represents(map, p, t, n)
      /\ t[1] = s[i]
      /\ \A j \in 2..n : t[j] = IF j <= i THEN s[j - 1] ELSE s[j]
      /\ \A x \in Nodes : x # s[i] => Entry(p.node[x]) = Entry(List.node[x])
      /\ p.node[s[i]].key = List.node[s[i]].key /\ p.node[s[i]].value = d.node[s[i]].value
  BY TouchRepresents, SMTT(60)
<1>3. List' = p /\ List.node = node /\ map' = map
  BY DEF SetList, List, PushFront
<1>4. node' = p.node
  BY DEF SetList
<1> HIDE DEF p, t
<1>5. /\ Order' = [j \in 1..n |-> Entry(node'[t[j]])]
      /\ \E q \in Nat : \E u \in [1..q -> Nodes] : Represents(map', List', u, q)
  BY <1>2, <1>3, RepresentedNext
<1>6. ASSUME NEW j \in 1..n
      PROVE  Entry(node'[t[j]]) = IF j = 1 THEN e ELSE IF j <= i THEN Order[j - 1] ELSE Order[j]
  <2>1. CASE j = 1
    BY <1>1, <1>2, <1>3, <1>4, <2>1 DEF Entry
  <2>2. CASE j # 1 /\ j <= i
    <3>1. j \in 2..n /\ j - 1 \in 1..n /\ j - 1 # i
      BY <1>1, <2>2
    <3>2. t[j] = s[j - 1] /\ s[j - 1] # s[i] /\ s[j - 1] \in Nodes
      BY <1>1, <1>2, <2>2, <3>1
    <3> QED BY <1>1, <1>2, <1>3, <1>4, <2>2, <3>1, <3>2
  <2>3. CASE j # 1 /\ ~(j <= i)
    <3>1. j \in 2..n /\ j # i
      BY <1>1, <2>3
    <3>2. t[j] = s[j] /\ s[j] # s[i] /\ s[j] \in Nodes
      BY <1>1, <1>2, <2>3, <3>1
    <3> QED BY <1>1, <1>2, <1>3, <1>4, <2>3, <3>2
  <2> QED BY <2>1, <2>2, <2>3
<1>7. Order' = Lru!ToFront(e, i)
  BY <1>1, <1>5, <1>6 DEF Lru!ToFront, Order
<1>8. Order[i].key = k
  BY <1>1 DEF Entry
<1> QED BY <1>2, <1>3, <1>5, <1>7, <1>8

LEMMA InsertKnownStep ==
  ASSUME IInv, NEW k \in Keys, NEW v \in Values, InsertKnown(k, v)
  PROVE  IInv' /\ Lru!Insert(k, v)
<1>0. PICK n \in Nat : \E s \in [1..n -> Nodes] : Represents(map, List, s, n)
  BY DEF IInv
<1>1. PICK s \in [1..n -> Nodes] : Represents(map, List, s, n)
  BY <1>0
<1>2. PICK i \in 1..n : s[i] = map[k]
  BY <1>1, RepresentedNow DEF InsertKnown
<1> DEFINE d == Writing(Detach(List, s[i]), s[i], v)
<1>3. SetList(PushFront(d, s[i])) /\ UNCHANGED <<map, capacity, out>>
  BY <1>2 DEF InsertKnown, Writing
<1>4. /\ \E q \in Nat : \E t \in [1..q -> Nodes] : Represents(map', List', t, q)
      /\ Order[i].key = k
      /\ Order' = Lru!ToFront([key |-> k, value |-> d.node[s[i]].value], i)
      /\ d.node[s[i]].value = v
  <2>1. Chain(List, s, n)
    BY <1>1 DEF Represents
  <2>2. Taken(List, s[i], d) /\ d.node[s[i]].value = v
    BY <2>1, TakenValue
  <2> HIDE DEF d
  <2> QED BY <1>1, <1>2, <1>3, <2>2, TouchStep
<1>5. DOMAIN Order = 1..n
  BY <1>1, RepresentedNow
<1> HIDE DEF d
<1>6. \E j \in DOMAIN Order : Order[j].key = k /\ Order' = Lru!ToFront([key |-> k, value |-> v], j)
  BY <1>4, <1>5
<1>7. Lru!Insert(k, v)
  BY <1>3, <1>6 DEF Lru!Insert, Order
<1> QED BY <1>3, <1>4, <1>7 DEF IInv

LEMMA GetKnownStep ==
  ASSUME IInv, NEW k \in Keys, GetKnown(k)
  PROVE  IInv' /\ Lru!Hit(k)
<1>0. PICK n \in Nat : \E s \in [1..n -> Nodes] : Represents(map, List, s, n)
  BY DEF IInv
<1>1. PICK s \in [1..n -> Nodes] : Represents(map, List, s, n)
  BY <1>0
<1>2. PICK i \in 1..n : s[i] = map[k]
  BY <1>1, RepresentedNow DEF GetKnown
<1> DEFINE d == Detach(List, s[i])
<1>3. SetList(PushFront(d, s[i])) /\ UNCHANGED <<map, capacity>> /\ out' = node[s[i]].value
  BY <1>2 DEF GetKnown
<1>4. /\ \E q \in Nat : \E t \in [1..q -> Nodes] : Represents(map', List', t, q)
      /\ Order[i].key = k
      /\ Order' = Lru!ToFront([key |-> k, value |-> d.node[s[i]].value], i)
      /\ d.node[s[i]].value = node[s[i]].value
  <2>1. Taken(List, s[i], d) /\ d.node[s[i]].value = node[s[i]].value
    BY <1>1, TakenValue, SMTT(60) DEF Represents, List
  <2>2. SetList(PushFront(d, s[i])) /\ UNCHANGED map /\ map[k] = s[i]
    BY <1>2, <1>3
  <2> HIDE DEF d
  <2> QED BY <1>1, <2>1, <2>2, TouchStep, SMTT(60)
<1>5. DOMAIN Order = 1..n /\ Order[i] = Entry(node[s[i]]) /\ s[i] \in Nodes
  BY <1>1, RepresentedNow
<1> HIDE DEF d
<1>6. Order[i] = [key |-> k, value |-> d.node[s[i]].value]
  BY <1>4, <1>5 DEF Entry
<1>7. out' = Order[i].value /\ out' \in Values \cup {Missing}
  <2>1. node[s[i]] \in NodeType
    BY <1>1, <1>5 DEF Represents, Chain, List
  <2> QED BY <1>3, <1>5, <2>1 DEF Entry, NodeType
<1>8. Lru!Hit(k)
  BY <1>3, <1>4, <1>5, <1>6, <1>7 DEF Lru!Hit, Order
<1> QED BY <1>3, <1>4, <1>7, <1>8 DEF IInv

(* A key that the map lacks is in no entry.                                 *)
LEMMA NotCached ==
  ASSUME NEW s, NEW n, Represents(map, List, s, n), NEW k \in Keys, map[k] = Null
  PROVE  ~Lru!Cached(k)
<1> SUFFICES ASSUME Lru!Cached(k) PROVE FALSE
  OBVIOUS
<1>1. /\ DOMAIN Order = 1..n /\ s \in [1..n -> Nodes]
      /\ \A i \in 1..n : Order[i] = Entry(node[s[i]])
      /\ \A i \in 1..n : \E j \in Keys : map[j] = s[i] /\ node[s[i]].key = j
  BY RepresentedNow
<1>2. PICK i \in 1..n : Order[i].key = k
  BY <1>1 DEF Lru!Cached, Order
<1>3. node[s[i]].key = k
  BY <1>1, <1>2 DEF Entry
<1>4. map[k] = s[i] /\ s[i] \in Nodes
  BY <1>1, <1>3
<1> QED BY <1>4, CacheAssumption

LEMMA InsertNewStep ==
  ASSUME IInv, NEW k \in Keys, NEW v \in Values, InsertNew(k, v)
  PROVE  IInv' /\ Lru!Insert(k, v)
<1>0. PICK n \in Nat : \E s \in [1..n -> Nodes] : Represents(map, List, s, n)
  BY DEF IInv
<1>1. PICK s \in [1..n -> Nodes] : Represents(map, List, s, n)
  BY <1>0
<1> DEFINE evicts == Full /\ tail # Null
           room == IF evicts THEN Evict(List) ELSE List
           kept == IF evicts THEN [map EXCEPT ![node[tail].key] = Null] ELSE map
           new == [Fresh EXCEPT !.key = k, !.value = v]
           e == [key |-> k, value |-> v]
<1>2. map[k] = Null /\ UNCHANGED <<capacity, out>>
  BY DEF InsertNew
<1>3. PICK x \in Nodes \ {kept[j] : j \in Keys} :
        map' = [kept EXCEPT ![k] = x] /\ SetList(PushFront([room EXCEPT !.node[x] = new], x))
  BY DEF InsertNew
<1> DEFINE p == Added(room, x, k, v)
<1>4. List' = p /\ node' = p.node
  BY <1>3 DEF SetList, List, PushFront, Added
<1>5. /\ Size = n /\ Len(Order) = n /\ DOMAIN Order = 1..n
      /\ \A i \in 1..n : Order[i] = Entry(node[s[i]])
      /\ capacity \in Nat /\ List.node = node /\ List.tail = tail
  BY <1>1, RepresentedNow, CacheAssumption DEF IInv, List
<1>6. tail = Null <=> n = 0
  <2>1. tail = (IF n = 0 THEN Null ELSE s[n]) /\ Null \notin Nodes
    BY <1>1, <1>5, CacheAssumption DEF Represents, Chain
  <2> QED BY <2>1
<1>7. ~Lru!Cached(k)
  BY <1>1, <1>2, NotCached
<1>8. CASE evicts
  <2> DEFINE u == Dropped(s, n, n)
             t == Pushed(u, n - 1, x)
  <2>1. n # 0 /\ n >= capacity /\ n - 1 \in Nat
    BY <1>5, <1>6, <1>8 DEF Full
  <2>2. room = Evict(List) /\ kept = [map EXCEPT ![List.node[List.tail].key] = Null]
    BY <1>5, <1>8
  <2>3. /\ Represents(kept, room, u, n - 1)
        /\ \A j \in 1..(n - 1) : u[j] = s[j]
        /\ \A j \in 1..(n - 1) : Entry(room.node[s[j]]) = Entry(List.node[s[j]])
    <3> HIDE DEF kept, room
    <3>1. Represents(map, List, s, n) /\ n # 0
      BY <1>1, <2>1
    <3>2. /\ Represents(Mapping(map, List.node[List.tail].key, Null), Evict(List), u, n - 1)
          /\ \A j \in 1..(n - 1) : u[j] = s[j]
          /\ \A j \in 1..(n - 1) : Entry(Evict(List).node[s[j]]) = Entry(List.node[s[j]])
      BY ONLY <3>1, EvictRepresents
    <3> QED BY <2>2, <3>2 DEF Mapping
  <2>4. kept[k] = Null
    <3>1. map \in [Keys -> Pointers]
      BY <1>1 DEF Represents
    <3> QED BY <1>2, <3>1
  <2> HIDE DEF u, kept, room
  <2>5. /\ Represents(map', p, t, n)
        /\ t[1] = x /\ \A j \in 2..n : t[j] = u[j - 1]
        /\ Entry(p.node[x]) = e
        /\ \A j \in 1..(n - 1) : Entry(p.node[u[j]]) = Entry(room.node[u[j]])
    <3>1. (n - 1) + 1 = n
      BY <2>1
    <3>2. /\ Represents(Mapping(kept, k, x), p, t, (n - 1) + 1)
          /\ t[1] = x /\ \A j \in 2..((n - 1) + 1) : t[j] = u[j - 1]
          /\ Entry(p.node[x]) = e
          /\ \A j \in 1..(n - 1) : Entry(p.node[u[j]]) = Entry(room.node[u[j]])
      <4>1. x \in Nodes /\ x \notin {kept[j] : j \in Keys}
        BY <1>3
      <4> QED BY ONLY <4>1, <2>3, <2>4, k \in Keys, v \in Values, AddRepresents
    <3> QED BY <1>3, <3>1, <3>2 DEF Mapping
  <2> HIDE DEF p, t
  <2>6. /\ Order' = [j \in 1..n |-> Entry(node'[t[j]])]
        /\ \E q \in Nat : \E w \in [1..q -> Nodes] : Represents(map', List', w, q)
    <3>1. Represents(map', List', t, n)
      BY <1>4, <2>5
    <3> QED BY ONLY <3>1, RepresentedNext
  <2>7. ASSUME NEW j \in 1..n PROVE Entry(node'[t[j]]) = IF j = 1 THEN e ELSE Order[j - 1]
    <3>1. CASE j = 1
      BY <1>4, <2>5, <3>1
    <3>2. CASE j # 1
      <4>1. j \in 2..n /\ j - 1 \in 1..(n - 1) /\ j - 1 \in 1..n
        BY <3>2
      <4> QED BY <1>4, <1>5, <2>3, <2>5, <3>2, <4>1
    <3> QED BY <3>1, <3>2
  <2>8. Order' = Lru!ToFront(e, n)
    BY <1>5, <2>6, <2>7 DEF Lru!ToFront, Order
  <2>9. Order # <<>> /\ ~(Len(Order) < capacity)
    BY <1>5, <2>1
  <2>10. Lru!Insert(k, v)
    BY <1>2, <1>5, <1>7, <2>8, <2>9 DEF Lru!Insert, Order
  <2> QED BY <1>2, <2>6, <2>10 DEF IInv
<1>9. CASE ~evicts
  <2> DEFINE t == Pushed(s, n, x)
  <2>1. room = List /\ kept = map
    BY <1>9
  <2> HIDE DEF kept, room
  <2>2. /\ Represents(map', p, t, n + 1)
        /\ t[1] = x /\ \A j \in 2..(n + 1) : t[j] = s[j - 1]
        /\ Entry(p.node[x]) = e
        /\ \A j \in 1..n : Entry(p.node[s[j]]) = Entry(List.node[s[j]])
    <3>1. x \in Nodes /\ x \notin {map[j] : j \in Keys}
      BY <1>3, <2>1
    <3>2. /\ Represents(Mapping(map, k, x), Added(List, x, k, v), t, n + 1)
          /\ t[1] = x /\ \A j \in 2..(n + 1) : t[j] = s[j - 1]
          /\ Entry(Added(List, x, k, v).node[x]) = e
          /\ \A j \in 1..n : Entry(Added(List, x, k, v).node[s[j]]) = Entry(List.node[s[j]])
      BY ONLY <1>1, <1>2, <3>1, k \in Keys, v \in Values, AddRepresents, SMTT(60)
    <3> QED BY <1>3, <2>1, <3>2 DEF Mapping
  <2> HIDE DEF p, t
  <2>3. /\ Order' = [j \in 1..(n + 1) |-> Entry(node'[t[j]])]
        /\ \E q \in Nat : \E w \in [1..q -> Nodes] : Represents(map', List', w, q)
    <3>1. Represents(map', List', t, n + 1)
      BY <1>4, <2>2
    <3> QED BY ONLY <3>1, RepresentedNext
  <2>4. ASSUME NEW j \in 1..(n + 1) PROVE Entry(node'[t[j]]) = IF j = 1 THEN e ELSE Order[j - 1]
    <3>1. CASE j = 1
      BY <1>4, <2>2, <3>1
    <3>2. CASE j # 1
      <4>1. j \in 2..(n + 1) /\ j - 1 \in 1..n
        BY <3>2
      <4> QED BY <1>4, <1>5, <2>2, <3>2, <4>1
    <3> QED BY <3>1, <3>2
  <2>5. Order' = <<e>> \o Order
    <3>1. Order = [i \in 1..n |-> Entry(node[s[i]])]
      BY <1>1, <1>5, RepresentedNow DEF EntriesOf
    <3>2. Order \in Seq({Entry(node[s[i]]) : i \in 1..n})
      BY <3>1
    <3>3. <<e>> \o Order = [j \in 1..(n + 1) |-> IF j = 1 THEN e ELSE Order[j - 1]]
      BY <1>5, <3>2
    <3> QED BY <2>3, <2>4, <3>3
  <2>6. Order = <<>> \/ Len(Order) < capacity
    BY <1>5, <1>6, <1>9 DEF Full
  <2>7. Lru!Insert(k, v)
    BY <1>2, <1>7, <2>5, <2>6 DEF Lru!Insert, Order
  <2> QED BY <1>2, <2>3, <2>7 DEF IInv
<1> QED BY <1>8, <1>9

LEMMA NextStep == IInv /\ [Next]_vars => IInv' /\ [Lru!Next]_<<Order, capacity, out>>
<1> SUFFICES ASSUME IInv, [Next]_vars PROVE IInv' /\ [Lru!Next]_<<Order, capacity, out>>
  OBVIOUS
<1>0. PICK n \in Nat : \E s \in [1..n -> Nodes] : Represents(map, List, s, n)
  BY DEF IInv
<1>1. PICK s \in [1..n -> Nodes] : Represents(map, List, s, n)
  BY <1>0
<1>2. ASSUME NEW k \in Keys, NEW v \in Values, InsertKnown(k, v)
      PROVE  IInv' /\ [Lru!Next]_<<Order, capacity, out>>
  BY <1>2, InsertKnownStep DEF Lru!Next
<1>3. ASSUME NEW k \in Keys, NEW v \in Values, InsertNew(k, v)
      PROVE  IInv' /\ [Lru!Next]_<<Order, capacity, out>>
  BY <1>3, InsertNewStep DEF Lru!Next
<1>4. ASSUME NEW k \in Keys, GetKnown(k)
      PROVE  IInv' /\ [Lru!Next]_<<Order, capacity, out>>
  BY <1>4, GetKnownStep DEF Lru!Next
<1>5. ASSUME UNCHANGED <<map, node, head, tail>>
      PROVE  List' = List /\ Size' = Size /\ Order' = Order /\ map' = map
  BY <1>5 DEF List, Size, Present, Order
<1>6. ASSUME NEW k \in Keys, GetMissing(k)
      PROVE  IInv' /\ [Lru!Next]_<<Order, capacity, out>>
  <2>1. UNCHANGED <<map, node, head, tail>> /\ capacity' = capacity /\ out' = Missing /\ map[k] = Null
    BY <1>6 DEF GetMissing
  <2>2. Order' = Order /\ List' = List /\ map' = map
    BY <1>5, <2>1
  <2>3. Lru!Miss(k)
    BY <1>1, <2>1, <2>2, NotCached DEF Lru!Miss, Order
  <2> QED BY <2>1, <2>2, <2>3 DEF IInv, Lru!Next
<1>7. ASSUME Clear
      PROVE  IInv' /\ [Lru!Next]_<<Order, capacity, out>>
  <2> DEFINE z == [i \in 1..0 |-> Null]
  <2>1. Represents(map', List', z, 0)
    BY <1>7, EmptyRepresents DEF Clear, List, Pointers
  <2>2. /\ Order' = [i \in 1..0 |-> Entry(node'[z[i]])]
        /\ \E q \in Nat : \E t \in [1..q -> Nodes] : Represents(map', List', t, q)
    BY <2>1, RepresentedNext
  <2>3. Order' = <<>>
    BY <2>2
  <2>4. Lru!Clear
    BY <1>7, <2>3 DEF Clear, Lru!Clear, Order
  <2> QED BY <1>7, <2>2, <2>4 DEF Clear, IInv, Lru!Next
<1>8. ASSUME SetCapacity
      PROVE  IInv' /\ [Lru!Next]_<<Order, capacity, out>>
  <2>1. UNCHANGED <<map, node, head, tail>> /\ capacity' \in Capacities /\ out' = out
    BY <1>8 DEF SetCapacity
  <2>2. Order' = Order /\ List' = List /\ map' = map
    BY <1>5, <2>1
  <2>3. Lru!Resize
    BY <2>1, <2>2 DEF Lru!Resize, Order
  <2> QED BY <2>1, <2>2, <2>3 DEF IInv, Lru!Next
<1>9. CASE UNCHANGED vars
  <2>1. UNCHANGED <<map, node, head, tail>> /\ UNCHANGED <<capacity, out>>
    BY <1>9 DEF vars
  <2>2. Order' = Order /\ List' = List /\ map' = map
    BY <1>5, <2>1
  <2> QED BY <2>1, <2>2 DEF IInv
<1> QED BY <1>2, <1>3, <1>4, <1>6, <1>7, <1>8, <1>9 DEF Next

LEMMA Invariance == Spec => []IInv
<1>1. Init => IInv
  BY InitStep
<1>2. IInv /\ [Next]_vars => IInv'
  BY NextStep
<1> QED BY <1>1, <1>2, PTL DEF Spec

-----------------------------------------------------------------------------
(* The state has the types of the code's members, and every pointer leads   *)
(* to a node or is null.                                                    *)
THEOREM TypeCorrect == Spec => []TypeOK
<1>1. IInv => TypeOK
  <2> SUFFICES ASSUME IInv PROVE TypeOK
    OBVIOUS
  <2>0. PICK n \in Nat : \E s \in [1..n -> Nodes] : Represents(map, List, s, n)
    BY DEF IInv
  <2>1. PICK s \in [1..n -> Nodes] : Represents(map, List, s, n)
    BY <2>0
  <2>2. /\ map \in [Keys -> Pointers] /\ node \in [Nodes -> NodeType]
        /\ head \in Pointers /\ tail \in Pointers
    BY <2>1 DEF Represents, Chain, List
  <2> QED BY <2>2 DEF IInv, TypeOK, NodeType
<1> QED BY <1>1, Invariance, PTL

(* After any sequence of calls the links of the list are inverse to one     *)
(* another, its ends are the nodes without a neighbour, and nothing that    *)
(* can be reached is deleted.                                               *)
THEOREM ListStaysLinked == Spec => []WellLinked
<1>1. IInv => WellLinked
  <2> SUFFICES ASSUME IInv PROVE WellLinked
    OBVIOUS
  <2>0. PICK n \in Nat : \E s \in [1..n -> Nodes] : Represents(map, List, s, n)
    BY DEF IInv
  <2>1. PICK s \in [1..n -> Nodes] : Represents(map, List, s, n)
    BY <2>0
  <2>2. /\ \A i, j \in 1..n : s[i] = s[j] => i = j
        /\ head = IF n = 0 THEN Null ELSE s[1]
        /\ tail = IF n = 0 THEN Null ELSE s[n]
        /\ \A i \in 1..n : /\ node[s[i]].prev = IF i = 1 THEN Null ELSE s[i - 1]
                           /\ node[s[i]].next = IF i = n THEN Null ELSE s[i + 1]
        /\ Null \notin Nodes
    BY <2>1, CacheAssumption DEF Represents, Chain, List
  <2>3. /\ map \in [Keys -> Pointers]
        /\ \A k \in Keys : map[k] # Null => node[map[k]].key = k /\ \E i \in 1..n : s[i] = map[k]
        /\ \A i \in 1..n : \E k \in Keys : map[k] = s[i] /\ node[s[i]].key = k
    BY <2>1, RepresentedNow
  <2>4. Live = {s[i] : i \in 1..n}
    BY <2>2, <2>3 DEF Live, Present
  <2>5. \A x \in Nodes \ Live : node[x] = Fresh
    BY <2>1, <2>4 DEF Represents, List
  <2>6. ASSUME NEW i \in 1..n
        PROVE  /\ node[s[i]].prev \in Live \cup {Null} /\ node[s[i]].next \in Live \cup {Null}
               /\ node[s[i]].prev = Null <=> s[i] = head
               /\ node[s[i]].next = Null <=> s[i] = tail
               /\ node[s[i]].prev # Null => node[node[s[i]].prev].next = s[i]
               /\ node[s[i]].next # Null => node[node[s[i]].next].prev = s[i]
    <3>1. /\ n # 0 /\ head = s[1] /\ tail = s[n] /\ 1 \in 1..n /\ n \in 1..n
          /\ \A j \in 1..n : s[j] \in Nodes /\ s[j] # Null
      BY <2>2
    <3>3. i # 1 => /\ i - 1 \in 1..n /\ i - 1 # n /\ (i - 1) + 1 = i
                   /\ node[s[i]].prev = s[i - 1] /\ node[s[i - 1]].next = s[i]
      <4> SUFFICES ASSUME i # 1
                   PROVE  /\ i - 1 \in 1..n /\ i - 1 # n /\ (i - 1) + 1 = i
                          /\ node[s[i]].prev = s[i - 1] /\ node[s[i - 1]].next = s[i]
        OBVIOUS
      <4>1. i - 1 \in 1..n /\ i - 1 # n /\ (i - 1) + 1 = i
        OBVIOUS
      <4> QED BY <2>2, <4>1
    <3>4. i # n => /\ i + 1 \in 1..n /\ i + 1 # 1 /\ (i + 1) - 1 = i
                   /\ node[s[i]].next = s[i + 1] /\ node[s[i + 1]].prev = s[i]
      <4> SUFFICES ASSUME i # n
                   PROVE  /\ i + 1 \in 1..n /\ i + 1 # 1 /\ (i + 1) - 1 = i
                          /\ node[s[i]].next = s[i + 1] /\ node[s[i + 1]].prev = s[i]
        OBVIOUS
      <4>1. i + 1 \in 1..n /\ i + 1 # 1 /\ (i + 1) - 1 = i
        OBVIOUS
      <4> QED BY <2>2, <4>1
    <3>5. i = 1 => node[s[i]].prev = Null
      BY <2>2
    <3>6. i = n => node[s[i]].next = Null
      BY <2>2
    <3>7. s[i] = head <=> i = 1
      BY <2>2, <3>1
    <3>8. s[i] = tail <=> i = n
      BY <2>2, <3>1
    <3>9. /\ node[s[i]].prev \in Live \cup {Null}
          /\ node[s[i]].prev = Null <=> s[i] = head
          /\ node[s[i]].prev # Null => node[node[s[i]].prev].next = s[i]
      BY <2>4, <3>1, <3>3, <3>5, <3>7
    <3>10. /\ node[s[i]].next \in Live \cup {Null}
           /\ node[s[i]].next = Null <=> s[i] = tail
           /\ node[s[i]].next # Null => node[node[s[i]].next].prev = s[i]
      BY <2>4, <3>1, <3>4, <3>6, <3>8
    <3> QED BY <3>9, <3>10
  <2>7. NoDangling
    BY <2>2, <2>3, <2>4, <2>5, <2>6 DEF NoDangling, Present
  <2>8. head = Null <=> tail = Null
    BY <2>2
  <2>9. \A x \in Live :
          /\ node[x].prev = Null <=> x = head
          /\ node[x].next = Null <=> x = tail
          /\ node[x].prev # Null => node[node[x].prev].next = x
          /\ node[x].next # Null => node[node[x].next].prev = x
    BY <2>4, <2>6
  <2> QED BY <2>7, <2>8, <2>9 DEF WellLinked
<1> QED BY <1>1, Invariance, PTL

(* For its users the map and the list are one LRU cache: every call is the  *)
(* call of LruCache on the entries met by following next from head_.        *)
THEOREM Refinement == Spec => IsLru
<1>1. Init => Lru!Init
  BY InitStep
<1>2. IInv /\ [Next]_vars => [Lru!Next]_<<Entries(List, Size), capacity, out>>
  BY NextStep DEF Order
<1> QED BY <1>1, <1>2, Invariance, PTL DEF Spec, IsLru, Lru!Spec
=============================================================================
