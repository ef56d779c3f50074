----------------------- MODULE TransformerBlock_proofs -----------------------
(***************************************************************************)
(* PagedKVCache and a TransformerBlock that drives it.  The cache, for     *)
(* every number of blocks, block size, number of layers and set of         *)
(* contents: no block has two owners, none is lost except by a second      *)
(* allocate_block, and load and backward agree with the stores.  A block   *)
(* over it, for every batch and length and every number of calls: decoding *)
(* attends to what was stored last, and a prefill leaves its last row in   *)
(* the cache.  The block drives the cache through its own operations, so   *)
(* the invariant of the cache carries over.                                *)
(***************************************************************************)
EXTENDS TransformerBlock, SequenceTheorems, FiniteSetTheorems, TLAPS

-----------------------------------------------------------------------------
(* The cache *)

Elements(s) == {s[i] : i \in DOMAIN s}
Distinct(s) == \A i, j \in DOMAIN s : s[i] = s[j] => i = j

LEMMA Popped ==
  ASSUME NEW S, NEW s \in Seq(S), s # <<>>
  PROVE  /\ Head(s) \in S /\ Tail(s) \in Seq(S)
         /\ Head(s) \in Elements(s)
         /\ Distinct(s) => Distinct(Tail(s)) /\ Elements(Tail(s)) = Elements(s) \ {Head(s)}
<1>1. /\ Len(s) \in Nat /\ Len(s) # 0 /\ DOMAIN s = 1..Len(s)
      /\ Head(s) = s[1] /\ Tail(s) \in Seq(S)
      /\ DOMAIN Tail(s) = 1..(Len(s) - 1)
      /\ \A i \in 1..(Len(s) - 1) : Tail(s)[i] = s[i + 1]
  <2>1. Len(Tail(s)) = Len(s) - 1 /\ Tail(s) \in Seq(S)
    OBVIOUS
  <2> QED BY <2>1
<1>2. Head(s) \in S /\ Head(s) \in Elements(s)
  BY <1>1 DEF Elements
<1>3. ASSUME Distinct(s) PROVE Distinct(Tail(s)) /\ Elements(Tail(s)) = Elements(s) \ {Head(s)}
  <2>1. Distinct(Tail(s))
    BY <1>1, <1>3 DEF Distinct
  <2>2. Elements(Tail(s)) \subseteq Elements(s) \ {Head(s)}
    BY <1>1, <1>3 DEF Distinct, Elements
  <2>3. ASSUME NEW i \in DOMAIN s, s[i] # Head(s) PROVE s[i] \in Elements(Tail(s))
    <3>1. i - 1 \in 1..(Len(s) - 1) /\ Tail(s)[i - 1] = s[i]
      BY <1>1, <2>3
    <3> QED BY <1>1, <3>1 DEF Elements
  <2> QED BY <2>1, <2>2, <2>3 DEF Elements
<1> QED BY <1>1, <1>2, <1>3

LEMMA Joined ==
  ASSUME NEW S, NEW s \in Seq(S), NEW t \in Seq(S)
  PROVE  /\ s \o t \in Seq(S)
         /\ Elements(s \o t) = Elements(s) \cup Elements(t)
         /\ Distinct(s) /\ Distinct(t) /\ Elements(s) \cap Elements(t) = {} => Distinct(s \o t)
<1>1. /\ s \o t \in Seq(S)
      /\ Len(s) \in Nat /\ Len(t) \in Nat /\ DOMAIN s = 1..Len(s) /\ DOMAIN t = 1..Len(t)
      /\ DOMAIN (s \o t) = 1..(Len(s) + Len(t))
      /\ \A i \in 1..(Len(s) + Len(t)) :
           (s \o t)[i] = IF i <= Len(s) THEN s[i] ELSE t[i - Len(s)]
  BY ConcatProperties
<1>2. ASSUME NEW i \in DOMAIN (s \o t) PROVE (s \o t)[i] \in Elements(s) \cup Elements(t)
  BY <1>1, <1>2 DEF Elements
<1>3. ASSUME NEW i \in DOMAIN s PROVE s[i] \in Elements(s \o t)
  BY <1>1, <1>3 DEF Elements
<1>4. ASSUME NEW i \in DOMAIN t PROVE t[i] \in Elements(s \o t)
  <2>1. i + Len(s) \in 1..(Len(s) + Len(t)) /\ (s \o t)[i + Len(s)] = t[i]
    BY <1>1, <1>4
  <2> QED BY <1>1, <2>1 DEF Elements
<1>5. ASSUME Distinct(s), Distinct(t), Elements(s) \cap Elements(t) = {}
      PROVE  Distinct(s \o t)
  <2> SUFFICES ASSUME NEW i \in DOMAIN (s \o t), NEW j \in DOMAIN (s \o t),
                      (s \o t)[i] = (s \o t)[j]
               PROVE  i = j
    BY DEF Distinct
  <2>1. CASE i <= Len(s) /\ j <= Len(s)
    BY <1>1, <1>5, <2>1 DEF Distinct
  <2>2. CASE ~(i <= Len(s)) /\ ~(j <= Len(s))
    <3>1. i - Len(s) \in DOMAIN t /\ j - Len(s) \in DOMAIN t /\ t[i - Len(s)] = t[j - Len(s)]
      BY <1>1, <2>2
    <3>2. i - Len(s) = j - Len(s)
      BY <1>5, <3>1 DEF Distinct
    <3> QED BY <1>1, <3>2
  <2>3. ASSUME NEW p \in DOMAIN (s \o t), NEW q \in DOMAIN (s \o t),
               p <= Len(s), ~(q <= Len(s))
        PROVE  (s \o t)[p] # (s \o t)[q]
    <3>1. (s \o t)[p] \in Elements(s) /\ (s \o t)[q] \in Elements(t)
      BY <1>1, <2>3 DEF Elements
    <3> QED BY <1>5, <3>1
  <2> QED BY <2>1, <2>2, <2>3
<1> QED
  <2>1. Elements(s \o t) \subseteq Elements(s) \cup Elements(t)
    BY <1>2 DEF Elements
  <2>2. Elements(s) \cup Elements(t) \subseteq Elements(s \o t)
    BY <1>3, <1>4 DEF Elements
  <2> QED BY <1>1, <1>5, <2>1, <2>2

LEMMA Appended ==
  ASSUME NEW S, NEW s \in Seq(S), NEW x \in S, x \notin Elements(s), Distinct(s)
  PROVE  /\ Append(s, x) \in Seq(S)
         /\ Elements(Append(s, x)) = Elements(s) \cup {x}
         /\ Distinct(Append(s, x))
<1>1. /\ Append(s, x) \in Seq(S) /\ Len(s) \in Nat /\ DOMAIN s = 1..Len(s)
      /\ DOMAIN Append(s, x) = 1..(Len(s) + 1)
      /\ Append(s, x)[Len(s) + 1] = x
      /\ \A i \in 1..Len(s) : Append(s, x)[i] = s[i]
  OBVIOUS
<1>2. \A i \in DOMAIN Append(s, x) : i \in DOMAIN s \/ i = Len(s) + 1
  BY <1>1
<1>3. Distinct(Append(s, x))
  BY <1>1, <1>2 DEF Distinct, Elements
<1>4. Elements(Append(s, x)) \subseteq Elements(s) \cup {x}
  BY <1>1, <1>2 DEF Elements
<1>5. Elements(s) \cup {x} \subseteq Elements(Append(s, x))
  BY <1>1 DEF Elements
<1> QED BY <1>1, <1>3, <1>4, <1>5

(* A position is its block and its offset: distinct positions never share a  *)
(* slot of a block.                                                          *)
LEMMA SlotOfPosition ==
  ASSUME NEW p \in Positions
  PROVE  /\ LogicalOf(p) \in Logicals /\ OffsetOf(p) \in Slots
         /\ \A q \in Positions :
              LogicalOf(p) = LogicalOf(q) /\ OffsetOf(p) = OffsetOf(q) => p = q
<1>1. \A n, b \in Nat : b # 0 => n = b * (n \div b) + (n % b) /\ n % b \in 0..(b - 1)
  OBVIOUS
<1>2. \A q \in Positions : q \in Nat
  BY CacheAssumption DEF Positions
<1>3. \A q \in Positions : /\ q = BlockSize * LogicalOf(q) + OffsetOf(q)
                           /\ OffsetOf(q) \in Slots
  BY <1>1, <1>2, CacheAssumption DEF LogicalOf, OffsetOf, Slots
<1>4. LogicalOf(p) \in Logicals
  BY DEF Logicals
<1> QED
  <2>1. ASSUME NEW q \in Positions, LogicalOf(p) = LogicalOf(q), OffsetOf(p) = OffsetOf(q)
        PROVE  p = q
    BY ONLY <1>3, <2>1
  <2> QED BY <1>3, <1>4, <2>1

LEMMA NoneIsNoBlock == None \notin Blocks
BY CacheAssumption DEF None, Blocks

-----------------------------------------------------------------------------
IInv == TypeOK /\ OneOwner /\ NoLeak /\ LoadReturnsLatest /\ BackwardMatchesLoad

LEMMA InitInv == Init => IInv
<1> SUFFICES ASSUME Init PROVE IInv
  OBVIOUS
<1> USE CacheAssumption DEF Init
<1>1. /\ free \in Seq(Blocks) /\ Free = Blocks /\ DOMAIN free = 1..NumBlocks
      /\ \A i, j \in DOMAIN free : free[i] = free[j] => i = j
  <2>1. \A i \in 1..NumBlocks : free[i] = i - 1 /\ i - 1 \in Blocks
    BY DEF Blocks
  <2>2. free \in Seq(Blocks) /\ DOMAIN free = 1..NumBlocks
    BY <2>1
  <2>3. \A b \in Blocks : b + 1 \in 1..NumBlocks /\ free[b + 1] = b
    BY DEF Blocks
  <2>4. Free = Blocks
    BY <2>1, <2>2, <2>3 DEF Free
  <2> QED BY <2>1, <2>2, <2>4
<1>2. Mapped = {}
  BY DEF Mapped
<1>3. TypeOK
  BY <1>1 DEF TypeOK, Contents
<1>4. OneOwner /\ NoLeak
  BY <1>1, <1>2 DEF OneOwner, NoLeak
<1>5. LoadReturnsLatest /\ BackwardMatchesLoad
  BY DEF LoadReturnsLatest, BackwardMatchesLoad
<1> QED BY <1>3, <1>4, <1>5 DEF IInv

(* allocate_block moves the front block from the free list to the index l.   *)
LEMMA TakeOwners ==
  ASSUME IInv, NEW l \in Logicals, Take(l)
  PROVE  /\ free' \in Seq(Blocks) /\ used' \in [Blocks -> BOOLEAN]
         /\ table' \in [Logicals -> Blocks \cup {None}]
         /\ Head(free) \in Free /\ Head(free) \in Blocks
         /\ table'[l] = Head(free)
         /\ \A m \in Logicals \ {l} : table'[m] = table[m]
         /\ Free' = Free \ {Head(free)}
         /\ Mapped' = (Mapped \ ({table[l]} \ {None})) \cup {Head(free)}
         /\ OneOwner'
<1>1. /\ free \in Seq(Blocks) /\ used \in [Blocks -> BOOLEAN]
      /\ table \in [Logicals -> Blocks \cup {None}] /\ OneOwner
  BY DEF IInv, TypeOK
<1>2. /\ Head(free) \in Blocks /\ free' \in Seq(Blocks) /\ Head(free) \in Free
      /\ Free' = Free \ {Head(free)} /\ Distinct(free')
  <2>1. free # <<>> /\ free' = Tail(free)
    BY DEF Take
  <2>2. Distinct(free) /\ Free = Elements(free) /\ Free' = Elements(free')
    BY <1>1 DEF OneOwner, Distinct, Free, Elements
  <2> QED BY <1>1, <2>1, <2>2, Popped
<1>3. /\ table' \in [Logicals -> Blocks \cup {None}] /\ table'[l] = Head(free)
      /\ \A m \in Logicals \ {l} : table'[m] = table[m]
  BY <1>1, <1>2 DEF Take
<1>4. used' \in [Blocks -> BOOLEAN] /\ \A b \in Blocks : used'[b] <=> used[b] \/ b = Head(free)
  BY <1>1 DEF Take
<1>5. Head(free) \notin Mapped
  BY <1>1, <1>2 DEF OneOwner
<1>6. \A m \in Logicals : table[m] # Head(free)
  BY <1>2, <1>5, NoneIsNoBlock DEF Mapped
<1>7. Mapped' = (Mapped \ ({table[l]} \ {None})) \cup {Head(free)}
  <2>1. Mapped' = {table'[m] : m \in Logicals} \ {None}
    BY DEF Mapped
  <2>2. \A m \in Logicals \ {l} : table[m] = table[l] => table[l] = None
    BY <1>1 DEF OneOwner
  <2> QED BY <1>2, <1>3, <2>1, <2>2, NoneIsNoBlock DEF Mapped
<1>8. OneOwner'
  <2>1. \A m, n \in Logicals : table'[m] = table'[n] /\ table'[m] # None => m = n
    BY <1>1, <1>3, <1>6 DEF OneOwner
  <2>2. Free' \cap Mapped' = {}
    BY <1>1, <1>2, <1>7 DEF OneOwner
  <2>3. \A b \in Blocks : used'[b] <=> b \notin Free'
    BY <1>1, <1>2, <1>4 DEF OneOwner
  <2> QED BY <1>2, <2>1, <2>2, <2>3 DEF OneOwner, Distinct
<1> QED BY <1>2, <1>3, <1>4, <1>7, <1>8

(* A write into the block b that serves the index of pos and no other.       *)
LEMMA WriteContents ==
  ASSUME IInv, NEW layer \in Layers, NEW pos \in Positions, NEW v \in Values,
         NEW b \in Blocks, Write(b, layer, pos, v),
         table[LogicalOf(pos)] \in {b, None}, table'[LogicalOf(pos)] = b,
         \A m \in Logicals \ {LogicalOf(pos)} : table'[m] = table[m] /\ table[m] # b
  PROVE  /\ data' \in [Blocks -> [Slots -> Contents]]
         /\ saved' \in [Layers \X Positions -> Values \cup {NoValue}]
         /\ latest' \in [Positions -> Values \cup {NoValue}]
         /\ LoadReturnsLatest' /\ BackwardMatchesLoad'
<1>1. /\ data \in [Blocks -> [Slots -> Contents]]
      /\ saved \in [Layers \X Positions -> Values \cup {NoValue}]
      /\ latest \in [Positions -> Values \cup {NoValue}]
      /\ table \in [Logicals -> Blocks \cup {None}]
      /\ LoadReturnsLatest /\ BackwardMatchesLoad
  BY DEF IInv, TypeOK
<1>2. v # NoValue /\ v \in Contents /\ b # None
  BY CacheAssumption, NoneIsNoBlock DEF Contents
<1> DEFINE L == LogicalOf(pos)
           O == OffsetOf(pos)
<1>3. L \in Logicals /\ O \in Slots
  BY SlotOfPosition
<1>4. /\ data' \in [Blocks -> [Slots -> Contents]]
      /\ data'[b][O] = v
      /\ \A o \in Slots \ {O} : data'[b][o] = data[b][o]
      /\ \A c \in Blocks \ {b} : data'[c] = data[c]
  BY <1>1, <1>2, <1>3 DEF Write
<1>5. /\ saved' \in [Layers \X Positions -> Values \cup {NoValue}]
      /\ saved'[<<layer, pos>>] = v
      /\ \A y \in Layers, q \in Positions : q # pos => saved'[<<y, q>>] = saved[<<y, q>>]
  BY <1>1 DEF Write
<1>6. /\ latest' \in [Positions -> Values \cup {NoValue}]
      /\ latest'[pos] = v
      /\ \A q \in Positions \ {pos} : latest'[q] = latest[q]
  BY <1>1 DEF Write
<1> HIDE DEF L, O
<1>7. Load(pos)' = v
  BY <1>2, <1>3, <1>4 DEF Load, L, O
<1>8. ASSUME NEW q \in Positions, q # pos, latest[q] # NoValue
      PROVE  Load(q)' = Load(q) /\ Load(q) = latest[q]
  <2>1. LogicalOf(q) \in Logicals /\ OffsetOf(q) \in Slots
    BY SlotOfPosition
  <2>2. Load(q) = latest[q]
    BY <1>1, <1>8 DEF LoadReturnsLatest
  <2>3. table[LogicalOf(q)] # None /\ table[LogicalOf(q)] \in Blocks
    BY <1>1, <1>8, <2>1, <2>2 DEF Load
  <2>4. table'[LogicalOf(q)] = table[LogicalOf(q)]
    BY <2>1, <2>3 DEF L
  <2>5. data'[table[LogicalOf(q)]][OffsetOf(q)] = data[table[LogicalOf(q)]][OffsetOf(q)]
    <3>1. CASE LogicalOf(q) = L
      <4>1. OffsetOf(q) # O
        BY <1>8, <3>1, SlotOfPosition DEF L, O
      <4> QED BY <1>4, <2>1, <2>3, <2>4, <3>1, <4>1 DEF L
    <3>2. CASE LogicalOf(q) # L
      BY <1>4, <2>1, <2>3, <3>2 DEF L
    <3> QED BY <3>1, <3>2
  <2> QED BY <2>2, <2>3, <2>4, <2>5 DEF Load
<1>9. LoadReturnsLatest'
  <2>1. ASSUME NEW q \in Positions, latest'[q] # NoValue PROVE Load(q)' = latest'[q]
    BY <1>6, <1>7, <1>8, <2>1
  <2> QED BY <2>1 DEF LoadReturnsLatest
<1>10. BackwardMatchesLoad'
  <2>1. ASSUME NEW q \in Positions, latest'[q] # NoValue
        PROVE  \E y \in Layers : Backward(y, q)' = Load(q)'
    <3>1. CASE q = pos
      BY <1>2, <1>5, <1>7, <3>1 DEF Backward
    <3>2. CASE q # pos
      <4>1. latest[q] # NoValue
        BY <1>6, <2>1, <3>2
      <4>2. PICK y \in Layers : Backward(y, q) = Load(q)
        BY <1>1, <4>1 DEF BackwardMatchesLoad
      <4>3. Backward(y, q)' = Backward(y, q)
        BY <1>5, <3>2 DEF Backward
      <4> QED BY <1>8, <3>2, <4>1, <4>2, <4>3
    <3> QED BY <3>1, <3>2
  <2> QED BY <2>1 DEF BackwardMatchesLoad
<1> QED BY <1>4, <1>5, <1>6, <1>9, <1>10

(* Changing the mapping of l alone, and forgetting its positions.            *)
LEMMA ForgetContents ==
  ASSUME IInv, NEW l \in Logicals, UNCHANGED <<data, saved>>, latest' = Forget(l),
         \A m \in Logicals \ {l} : table'[m] = table[m]
  PROVE  /\ latest' \in [Positions -> Values \cup {NoValue}]
         /\ LoadReturnsLatest' /\ BackwardMatchesLoad'
<1>1. /\ latest \in [Positions -> Values \cup {NoValue}]
      /\ LoadReturnsLatest /\ BackwardMatchesLoad
  BY DEF IInv, TypeOK
<1>2. latest' \in [Positions -> Values \cup {NoValue}]
  BY <1>1 DEF Forget
<1>3. ASSUME NEW q \in Positions, latest'[q] # NoValue
      PROVE  /\ latest[q] = latest'[q] /\ Load(q)' = Load(q)
             /\ \A y \in Layers : Backward(y, q)' = Backward(y, q)
  <2>1. LogicalOf(q) # l /\ latest'[q] = latest[q]
    BY <1>3 DEF Forget
  <2>2. LogicalOf(q) \in Logicals
    BY SlotOfPosition
  <2> QED BY <2>1, <2>2 DEF Load, Backward
<1>4. LoadReturnsLatest'
  BY <1>1, <1>3 DEF LoadReturnsLatest
<1>5. BackwardMatchesLoad'
  <2>1. ASSUME NEW q \in Positions, latest'[q] # NoValue
        PROVE  \E y \in Layers : Backward(y, q)' = Load(q)'
    <3>1. PICK y \in Layers : Backward(y, q) = Load(q)
      BY <1>1, <1>3, <2>1 DEF BackwardMatchesLoad
    <3> QED BY <1>3, <2>1, <3>1
  <2> QED BY <2>1 DEF BackwardMatchesLoad
<1> QED BY <1>2, <1>4, <1>5

LEMMA AllocateStep == ASSUME IInv, NEW l \in Logicals, AllocateBlock(l) PROVE IInv'
<1>1. Take(l) /\ leaked' = leaked \cup ({table[l]} \ {None})
  BY DEF AllocateBlock
<1>2. /\ free' \in Seq(Blocks) /\ used' \in [Blocks -> BOOLEAN]
      /\ table' \in [Logicals -> Blocks \cup {None}]
      /\ Head(free) \in Free /\ Head(free) \in Blocks
      /\ \A m \in Logicals \ {l} : table'[m] = table[m]
      /\ Free' = Free \ {Head(free)}
      /\ Mapped' = (Mapped \ ({table[l]} \ {None})) \cup {Head(free)}
      /\ OneOwner'
  BY <1>1, TakeOwners
<1>3. /\ latest' \in [Positions -> Values \cup {NoValue}]
      /\ LoadReturnsLatest' /\ BackwardMatchesLoad'
  BY <1>2, ForgetContents DEF AllocateBlock
<1>4. table[l] \in Blocks \cup {None}
  BY DEF IInv, TypeOK
<1>5. TypeOK'
  BY <1>1, <1>2, <1>3, <1>4 DEF AllocateBlock, IInv, TypeOK
<1>6. NoLeak'
  <2>1. {table[l]} \ {None} \subseteq Mapped
    BY DEF Mapped
  <2> QED BY <1>1, <1>2, <2>1 DEF IInv, NoLeak, OneOwner
<1> QED BY <1>2, <1>3, <1>5, <1>6 DEF IInv

LEMMA StoreMappedStep ==
  ASSUME IInv, NEW layer \in Layers, NEW pos \in Positions, NEW v \in Values,
         StoreMapped(layer, pos, v)
  PROVE  IInv'
<1> DEFINE b == table[LogicalOf(pos)]
<1>1. /\ b # None /\ Write(b, layer, pos, v) /\ UNCHANGED <<free, used, table, leaked>>
  BY DEF StoreMapped
<1>2. LogicalOf(pos) \in Logicals /\ b \in Blocks
  BY <1>1, SlotOfPosition DEF IInv, TypeOK
<1>3. \A m \in Logicals \ {LogicalOf(pos)} : table'[m] = table[m] /\ table[m] # b
  BY <1>1, <1>2 DEF IInv, OneOwner
<1>4. /\ data' \in [Blocks -> [Slots -> Contents]]
      /\ saved' \in [Layers \X Positions -> Values \cup {NoValue}]
      /\ latest' \in [Positions -> Values \cup {NoValue}]
      /\ LoadReturnsLatest' /\ BackwardMatchesLoad'
  BY <1>1, <1>2, <1>3, WriteContents
<1>5. TypeOK'
  BY <1>1, <1>4 DEF IInv, TypeOK
<1>6. Free' = Free /\ Mapped' = Mapped
  BY <1>1 DEF Free, Mapped
<1>7. OneOwner'
  BY <1>1, <1>6 DEF IInv, OneOwner
<1>8. NoLeak'
  BY <1>1, <1>6 DEF IInv, NoLeak
<1> QED BY <1>4, <1>5, <1>7, <1>8 DEF IInv

LEMMA StoreNewStep ==
  ASSUME IInv, NEW layer \in Layers, NEW pos \in Positions, NEW v \in Values,
         StoreNew(layer, pos, v)
  PROVE  IInv'
<1> DEFINE l == LogicalOf(pos)
           b == Head(free)
<1>1. table[l] = None /\ Take(l) /\ Write(b, layer, pos, v) /\ leaked' = leaked
  BY DEF StoreNew
<1>2. l \in Logicals
  BY SlotOfPosition
<1>3. /\ free' \in Seq(Blocks) /\ used' \in [Blocks -> BOOLEAN]
      /\ table' \in [Logicals -> Blocks \cup {None}]
      /\ b \in Free /\ b \in Blocks /\ table'[l] = b
      /\ \A m \in Logicals \ {l} : table'[m] = table[m]
      /\ Free' = Free \ {b}
      /\ Mapped' = (Mapped \ ({table[l]} \ {None})) \cup {b}
      /\ OneOwner'
  BY <1>1, <1>2, TakeOwners
<1>4. \A m \in Logicals : table[m] # b
  <2>1. b \notin Mapped /\ b # None
    BY <1>3, NoneIsNoBlock DEF IInv, OneOwner
  <2> QED BY <2>1 DEF Mapped
<1>5. /\ data' \in [Blocks -> [Slots -> Contents]]
      /\ saved' \in [Layers \X Positions -> Values \cup {NoValue}]
      /\ latest' \in [Positions -> Values \cup {NoValue}]
      /\ LoadReturnsLatest' /\ BackwardMatchesLoad'
  BY <1>1, <1>3, <1>4, WriteContents
<1>6. TypeOK'
  BY <1>1, <1>3, <1>5 DEF IInv, TypeOK
<1>7. NoLeak'
  BY <1>1, <1>3 DEF IInv, NoLeak
<1> QED BY <1>3, <1>5, <1>6, <1>7 DEF IInv

LEMMA FreeStep == ASSUME IInv, NEW l \in Logicals, FreeBlock(l) PROVE IInv'
<1> DEFINE b == table[l]
<1>1. /\ b # None
      /\ used' = [used EXCEPT ![b] = FALSE]
      /\ free' = Append(free, b)
      /\ table' = [table EXCEPT ![l] = None]
      /\ latest' = Forget(l)
      /\ UNCHANGED <<data, saved, leaked>>
  BY DEF FreeBlock
<1>t. /\ free \in Seq(Blocks) /\ used \in [Blocks -> BOOLEAN]
      /\ table \in [Logicals -> Blocks \cup {None}] /\ OneOwner /\ NoLeak
  BY DEF IInv, TypeOK
<1>2. b \in Blocks /\ b \in Mapped /\ b \notin Free
  BY <1>1, <1>t DEF OneOwner, Mapped
<1>3. /\ table' \in [Logicals -> Blocks \cup {None}] /\ table'[l] = None
      /\ \A m \in Logicals \ {l} : table'[m] = table[m]
  BY <1>1, <1>t
<1>4. Mapped' = Mapped \ {b}
  <2>1. \A m \in Logicals \ {l} : table[m] # b
    BY <1>1, <1>t DEF OneOwner
  <2>2. Mapped' = {table'[m] : m \in Logicals} \ {None}
    BY DEF Mapped
  <2> QED BY <1>3, <2>1, <2>2 DEF Mapped
<1>5. free' \in Seq(Blocks) /\ Free' = Free \cup {b} /\ Distinct(free')
  <2>1. Distinct(free) /\ Free = Elements(free) /\ Free' = Elements(free')
    BY <1>t DEF OneOwner, Distinct, Free, Elements
  <2> HIDE DEF b
  <2> QED BY <1>1, <1>t, <1>2, <2>1, Appended
<1>6. used' \in [Blocks -> BOOLEAN] /\ \A c \in Blocks : used'[c] <=> used[c] /\ c # b
  BY <1>1, <1>t
<1>7. OneOwner'
  <2>1. \A m, n \in Logicals : table'[m] = table'[n] /\ table'[m] # None => m = n
    BY <1>t, <1>3 DEF OneOwner
  <2>2. Free' \cap Mapped' = {}
    BY <1>t, <1>4, <1>5 DEF OneOwner
  <2>3. \A c \in Blocks : used'[c] <=> c \notin Free'
    BY <1>t, <1>2, <1>5, <1>6 DEF OneOwner
  <2> QED BY <1>5, <2>1, <2>2, <2>3 DEF OneOwner, Distinct
<1>8. NoLeak'
  BY <1>1, <1>t, <1>2, <1>4, <1>5 DEF NoLeak
<1>9. /\ latest' \in [Positions -> Values \cup {NoValue}]
      /\ LoadReturnsLatest' /\ BackwardMatchesLoad'
  BY <1>1, <1>3, ForgetContents
<1>10. TypeOK'
  BY <1>1, <1>3, <1>5, <1>6, <1>9 DEF IInv, TypeOK
<1> QED BY <1>7, <1>8, <1>9, <1>10 DEF IInv

LEMMA ResetStep == ASSUME IInv, Reset PROVE IInv'
<1> DEFINE M == {l \in Logicals : table[l] # None}
<1>1. PICK order \in [1..Cardinality(M) -> M] :
        /\ \A i, j \in DOMAIN order : i < j => order[i] < order[j]
        /\ \A l \in M : \E i \in DOMAIN order : order[i] = l
        /\ used' = [b \in Blocks |-> used[b] /\ b \notin Mapped]
        /\ free' = free \o [i \in DOMAIN order |-> table[order[i]]]
        /\ table' = [l \in Logicals |-> None]
        /\ saved' = [key \in Layers \X Positions |-> NoValue]
        /\ latest' = [pos \in Positions |-> NoValue]
        /\ UNCHANGED <<data, leaked>>
  BY DEF Reset
<1>t. /\ free \in Seq(Blocks) /\ used \in [Blocks -> BOOLEAN]
      /\ table \in [Logicals -> Blocks \cup {None}] /\ OneOwner /\ NoLeak
  BY DEF IInv, TypeOK
<1> DEFINE freed == [i \in DOMAIN order |-> table[order[i]]]
<1>2. Cardinality(M) \in Nat
  <2>1. IsFiniteSet(Positions)
    BY FS_Interval, CacheAssumption DEF Positions
  <2>2. IsFiniteSet(Logicals)
    <3> DEFINE index == [p \in Positions |-> LogicalOf(p)]
    <3>1. index \in Surjection(Positions, Logicals)
      BY DEF Surjection, Logicals
    <3> QED BY <2>1, <3>1, FS_Surjection
  <2>3. IsFiniteSet(M)
    BY <2>2, FS_Subset
  <2> QED BY <2>3, FS_CardinalityType
<1>3. \A l \in M : l \in Logicals /\ table[l] \in Blocks /\ table[l] \in Mapped
  BY <1>t DEF Mapped
<1>4. \A i, j \in DOMAIN order : order[i] = order[j] => i = j
  <2>1. \A l \in Logicals : l \in Int
    BY CacheAssumption DEF Logicals, LogicalOf, Positions
  <2>2. DOMAIN order = 1..Cardinality(M) /\ \A i \in DOMAIN order : order[i] \in Int
    BY <1>3, <2>1
  <2> HIDE DEF M
  <2>3. \A i, j \in DOMAIN order : i \in Int /\ j \in Int
    BY <1>2, <2>2
  <2>4. ASSUME NEW i \in DOMAIN order, NEW j \in DOMAIN order, i # j PROVE order[i] # order[j]
    <3>1. i < j \/ j < i
      BY ONLY <2>3, <2>4
    <3> QED BY <1>1, <2>2, <3>1
  <2> QED BY <2>4
<1>5. freed \in Seq(Blocks) /\ Distinct(freed) /\ Elements(freed) = Mapped
  <2>1. DOMAIN freed = 1..Cardinality(M) /\ \A i \in DOMAIN order : order[i] \in M
    OBVIOUS
  <2>2. freed \in [1..Cardinality(M) -> Blocks]
    BY <1>3, <2>1
  <2>3. freed \in Seq(Blocks)
    BY <1>2, <2>2, SeqDef
  <2>4. Distinct(freed)
    <3>1. ASSUME NEW i \in DOMAIN order, NEW j \in DOMAIN order, freed[i] = freed[j]
          PROVE  i = j
      <4>1. order[i] = order[j]
        BY <1>3, <1>t, <2>1, <3>1 DEF OneOwner
      <4> QED BY <1>4, <4>1
    <3> QED BY <2>1, <3>1 DEF Distinct
  <2>5. Elements(freed) \subseteq Mapped
    BY <1>3, <2>1 DEF Elements
  <2>6. ASSUME NEW l \in M PROVE table[l] \in Elements(freed)
    <3>1. PICK i \in DOMAIN order : order[i] = l
      BY <1>1
    <3> QED BY <3>1 DEF Elements
  <2>7. Mapped \subseteq Elements(freed)
    BY <2>6 DEF Mapped
  <2> QED BY <2>3, <2>4, <2>5, <2>7
<1>6. free' \in Seq(Blocks) /\ Free' = Free \cup Mapped /\ Distinct(free')
  <2>1. Distinct(free) /\ Free = Elements(free) /\ Free' = Elements(free')
    BY <1>t DEF OneOwner, Distinct, Free, Elements
  <2>2. free' = free \o freed
    BY <1>1
  <2> HIDE DEF freed
  <2>3. Elements(free) \cap Elements(freed) = {}
    BY <1>t, <1>5, <2>1 DEF OneOwner
  <2>4. /\ free \o freed \in Seq(Blocks) /\ Distinct(free \o freed)
        /\ Elements(free \o freed) = Elements(free) \cup Elements(freed)
    BY ONLY <1>t, <1>5, <2>1, <2>3, Joined
  <2> QED BY ONLY <1>5, <2>1, <2>2, <2>4
<1>7. table' = [l \in Logicals |-> None] /\ Mapped' = {}
  BY <1>1 DEF Mapped
<1>8. used' \in [Blocks -> BOOLEAN] /\ \A b \in Blocks : used'[b] <=> used[b] /\ b \notin Mapped
  BY <1>1, <1>t
<1>9. OneOwner'
  <2>1. \A m, n \in Logicals : table'[m] = table'[n] /\ table'[m] # None => m = n
    BY <1>7
  <2>2. \A b \in Blocks : used'[b] <=> b \notin Free'
    BY <1>t, <1>6, <1>8 DEF OneOwner
  <2> QED BY <1>6, <1>7, <2>1, <2>2 DEF OneOwner, Distinct
<1>10. NoLeak'
  BY <1>1, <1>t, <1>6, <1>7 DEF NoLeak
<1>11. LoadReturnsLatest' /\ BackwardMatchesLoad'
  BY <1>1 DEF LoadReturnsLatest, BackwardMatchesLoad
<1>12. TypeOK'
  BY <1>1, <1>6, <1>7, <1>8 DEF IInv, TypeOK
<1> QED BY <1>9, <1>10, <1>11, <1>12 DEF IInv

LEMMA Unchanged == ASSUME IInv, UNCHANGED vars PROVE IInv'
<1>1. UNCHANGED <<free, used, table, data, saved, latest, leaked>>
  BY DEF vars
<1>2. TypeOK'
  BY <1>1 DEF IInv, TypeOK
<1>3. Free' = Free /\ Mapped' = Mapped
  BY <1>1 DEF Free, Mapped
<1>4. OneOwner' /\ NoLeak'
  BY <1>1, <1>3 DEF IInv, OneOwner, NoLeak
<1>5. LoadReturnsLatest'
  BY <1>1 DEF IInv, LoadReturnsLatest, Load
<1>6. BackwardMatchesLoad'
  BY <1>1 DEF IInv, BackwardMatchesLoad, Load, Backward
<1> QED BY <1>2, <1>4, <1>5, <1>6 DEF IInv

LEMMA NextInv == IInv /\ [Next]_vars => IInv'
<1> SUFFICES ASSUME IInv, [Next]_vars PROVE IInv'
  OBVIOUS
<1>1. CASE UNCHANGED vars
  BY <1>1, Unchanged
<1>2. ASSUME NEW layer \in Layers, NEW pos \in Positions, NEW v \in Values
      PROVE  /\ StoreMapped(layer, pos, v) => IInv'
             /\ StoreNew(layer, pos, v) => IInv'
             /\ StoreFull(layer, pos, v) => IInv'
  BY Unchanged, StoreMappedStep, StoreNewStep DEF StoreFull
<1>3. ASSUME NEW l \in Logicals, AllocateBlock(l) \/ FreeBlock(l) PROVE IInv'
  BY <1>3, AllocateStep, FreeStep
<1>4. CASE Reset
  BY <1>4, ResetStep
<1> QED BY <1>1, <1>2, <1>3, <1>4 DEF Next

LEMMA Invariance == Spec => []IInv
BY InitInv, NextInv, PTL DEF Spec

-----------------------------------------------------------------------------
(* Every operation of PagedKVCache keeps each member in its range: the free  *)
(* list never receives the -1 of allocate_block.                             *)
THEOREM TypeCorrect == Spec => []TypeOK
BY Invariance, PTL DEF IInv

(* No interleaving of store, allocate_block, free_block and reset gives a    *)
(* physical block to two logical indices, or leaves a mapped block free.     *)
THEOREM SingleOwner == Spec => []OneOwner
BY Invariance, PTL DEF IInv

(* Only a second allocate_block of an index loses a block.                   *)
THEOREM BlocksKept == Spec => []NoLeak
BY Invariance, PTL DEF IInv

(* Until its block is freed, load returns what was stored last at a          *)
(* position, whatever blocks are freed and reused meanwhile.                 *)
THEOREM LoadCorrect == Spec => []LoadReturnsLatest
BY Invariance, PTL DEF IInv

(* The gradient tracking agrees with the cache on every live position.       *)
THEOREM BackwardCorrect == Spec => []BackwardMatchesLoad
BY Invariance, PTL DEF IInv

-----------------------------------------------------------------------------
(* The division of a * S + r by S. *)
LEMMA DivisionOf ==
  ASSUME NEW a \in Nat, NEW S \in Nat \ {0}, NEW r \in 0..(S - 1)
  PROVE  (a * S + r) \div S = a /\ (a * S + r) % S = r
<1>1. PICK n \in Nat : n = a * S + r
  <2>1. \A m \in Nat : a * S = m => a * S + r \in Nat
    OBVIOUS
  <2>2. a * S \in Nat
    OBVIOUS
  <2> QED BY <2>1, <2>2
<1>2. PICK q \in Nat, k \in 0..(S - 1) : q = n \div S /\ k = n % S /\ n = q * S + k
  <2>1. n = S * (n \div S) + (n % S) /\ n % S \in 0..(S - 1) /\ n \div S \in Nat
    OBVIOUS
  <2> QED BY <2>1
<1>3. \A x, y \in Nat : x < y => (y - x) * S >= S /\ y * S = x * S + (y - x) * S
  OBVIOUS
<1>4. ~(a < q) /\ ~(q < a)
  BY <1>1, <1>2, <1>3
<1>5. a = q
  BY <1>2, <1>4
<1>6. k = r
  BY <1>1, <1>2, <1>5
<1> QED BY <1>1, <1>2, <1>5, <1>6

LEMMA Products ==
  ASSUME NEW x \in Nat, NEW y \in Nat, NEW z \in Nat
  PROVE  x * z \in Nat /\ y * z \in Nat /\ (x + y) * z = x * z + y * z
OBVIOUS

LEMMA LenIs ==
  ASSUME NEW X, NEW n \in Nat, NEW s \in [1..n -> X]
  PROVE  s \in Seq(X) /\ Len(s) = n /\ DOMAIN s = 1..n
<1>1. s \in Seq(X)
  BY SeqDef
<1>2. Len(s) \in Nat /\ DOMAIN s = 1..Len(s) /\ DOMAIN s = 1..n
  BY <1>1
<1>3. Len(s) = n
  <2>1. \A m, k \in Nat : 1..m = 1..k => m = k
    <3> SUFFICES ASSUME NEW m \in Nat, NEW k \in Nat, 1..m = 1..k PROVE m = k
      OBVIOUS
    <3>1. CASE m < k
      BY <3>1
    <3>2. CASE k < m
      BY <3>2
    <3> QED BY <3>1, <3>2
  <2> QED BY <1>2, <2>1
<1> QED BY <1>1, <1>2, <1>3

(* The last entry for each position from pos on carries the token of row.    *)
EndsIn(entries, pos, row) ==
  \A n \in DOMAIN row :
    \E i \in DOMAIN entries :
      /\ entries[i] = <<pos + n - 1, row[n]>>
      /\ \A j \in DOMAIN entries : j > i => entries[j][1] # pos + n - 1

(* What a forward over B rows of S tokens stores: positions from pos on,     *)
(* and for each position the entry of the last row after those of the others. *)
LEMMA ToStoreFacts ==
  ASSUME NEW B \in Nat \ {0}, NEW S \in Nat \ {0}, NEW pos \in Nat, pos + S <= MaxPos,
         NEW rows \in [1..B -> [1..S -> Values]]
  PROVE  /\ ToStore(rows, pos) \in Seq(Positions \X Values)
         /\ EndsIn(ToStore(rows, pos), pos, rows[B])
<1>1. Len(rows) = B /\ Len(rows[1]) = S
  <2>1. rows[1] \in [1..S -> Values]
    OBVIOUS
  <2> QED BY <2>1, LenIs
<1>2. B * S \in Nat
  OBVIOUS
<1> DEFINE entry(n) == <<pos + ((n - 1) % S), rows[1 + ((n - 1) \div S)][1 + ((n - 1) % S)]>>
<1>3. ToStore(rows, pos) = [n \in 1..(B * S) |-> entry(n)]
  BY <1>1 DEF ToStore
<1>4. ASSUME NEW j \in 1..(B * S)
      PROVE  \E a \in 0..(B - 1), r \in 0..(S - 1) :
               /\ j = a * S + r + 1
               /\ (j - 1) \div S = a /\ (j - 1) % S = r
               /\ entry(j) = <<pos + r, rows[a + 1][r + 1]>>
               /\ entry(j) \in Positions \X Values
  <2>1. PICK a \in Nat, r \in 0..(S - 1) : /\ j - 1 = a * S + r
                                          /\ (j - 1) \div S = a /\ (j - 1) % S = r
    <3>1. j - 1 \in Nat
      BY <1>2
    <3>2. /\ j - 1 = S * ((j - 1) \div S) + ((j - 1) % S)
          /\ (j - 1) % S \in 0..(S - 1) /\ (j - 1) \div S \in Nat
      <4>1. \A m, b \in Nat : b # 0 => /\ m = b * (m \div b) + (m % b)
                                       /\ m % b \in 0..(b - 1) /\ m \div b \in Nat
        OBVIOUS
      <4> QED BY ONLY <3>1, <4>1
    <3>3. S * ((j - 1) \div S) = ((j - 1) \div S) * S
      BY <3>2
    <3> QED BY <3>2, <3>3
  <2>2. a < B
    <3>1. ASSUME B <= a PROVE FALSE
      <4>1. PICK d \in Nat : a = B + d
        <5>1. a - B \in Nat /\ a = B + (a - B)
          BY <2>1, <3>1
        <5> QED BY <5>1
      <4>2. a * S = B * S + d * S /\ d * S \in Nat /\ B * S \in Nat
        BY <4>1, Products
      <4>3. \A u, v, w \in Nat : u = v + w /\ j - 1 = u + r => v < j
        OBVIOUS
      <4>4. a * S \in Nat
        BY Products
      <4>5. B * S < j
        BY <2>1, <4>2, <4>3, <4>4
      <4> QED BY <4>2, <4>5
    <3> QED BY <3>1
  <2>3. /\ a \in 0..(B - 1) /\ a + 1 \in 1..B /\ r + 1 \in 1..S
        /\ 1 + a = a + 1 /\ 1 + r = r + 1 /\ pos + r \in Positions
    BY <2>2, CacheAssumption DEF Positions
  <2>4. j = a * S + r + 1
    <3>1. a * S \in Nat
      OBVIOUS
    <3> QED BY <1>2, <2>1, <3>1
  <2>5. entry(j) = <<pos + r, rows[a + 1][r + 1]>>
    BY <2>1, <2>3
  <2>6. rows[a + 1][r + 1] \in Values
    BY <2>3
  <2>7. entry(j) \in Positions \X Values
    BY <2>3, <2>5, <2>6
  <2> HIDE DEF entry
  <2>8. a \in 0..(B - 1) /\ r \in 0..(S - 1)
    BY <2>3
  <2> QED BY <2>1, <2>4, <2>5, <2>7, <2>8
<1> HIDE DEF entry
<1>5. ToStore(rows, pos) \in Seq(Positions \X Values) /\ DOMAIN ToStore(rows, pos) = 1..(B * S)
  <2>1. ToStore(rows, pos) \in [1..(B * S) -> Positions \X Values]
    BY <1>3, <1>4
  <2> QED BY <1>2, <2>1, SeqDef
<1>6. ASSUME NEW n \in 1..S
      PROVE  \E i \in 1..(B * S) :
               /\ entry(i) = <<pos + n - 1, rows[B][n]>>
               /\ \A j \in 1..(B * S) : j > i => entry(j)[1] # pos + n - 1
  <2>1. PICK last \in Nat : last + 1 = B
    <3>1. B - 1 \in Nat /\ (B - 1) + 1 = B
      OBVIOUS
    <3> QED BY <3>1
  <2>2. PICK r \in 0..(S - 1) : r + 1 = n /\ n - 1 = r
    <3>1. n - 1 \in 0..(S - 1) /\ (n - 1) + 1 = n
      OBVIOUS
    <3> QED BY <3>1
  <2>3. PICK c \in Nat : c = last * S /\ B * S = c + S
    <3>1. (last + 1) * S = last * S + 1 * S /\ last * S \in Nat /\ 1 * S = S
      BY Products
    <3> QED BY <2>1, <3>1
  <2> DEFINE i == c + n
  <2>4. i \in 1..(B * S) /\ entry(i) = <<pos + n - 1, rows[B][n]>>
    <3>1. i \in 1..(B * S)
      BY <1>2, <2>3, SMTT(60)
    <3>2. (last * S + r) \div S = last /\ (last * S + r) % S = r
      BY DivisionOf
    <3>3. i - 1 = c + r
      BY <2>2
    <3>4. (i - 1) \div S = last /\ (i - 1) % S = r
      BY ONLY <2>3, <3>2, <3>3
    <3>5. pos + r = pos + n - 1 /\ 1 + last = B /\ 1 + r = n
      BY <2>1, <2>2
    <3> QED BY ONLY <3>1, <3>4, <3>5 DEF entry
  <2>5. ASSUME NEW j \in 1..(B * S), j > i PROVE entry(j)[1] # pos + n - 1
    <3>1. PICK a \in 0..(B - 1), k \in 0..(S - 1) :
            j = a * S + k + 1 /\ entry(j) = <<pos + k, rows[a + 1][k + 1]>>
      BY <1>4
    <3>2. ASSUME k = r PROVE FALSE
      <4>1. PICK d \in Nat : last = a + d
        <5>1. last - a \in Nat /\ last = a + (last - a)
          BY <2>1
        <5> QED BY <5>1
      <4>2. c = a * S + d * S /\ a * S \in Nat /\ d * S \in Nat
        BY <2>3, <4>1, Products
      <4>3. \A u, v \in Nat : c = u + v /\ j = u + k + 1 => j <= i
        BY <2>2, <3>2
      <4>4. j <= i
        BY <3>1, <4>2, <4>3
      <4> QED BY <2>5, <4>4
    <3>3. entry(j)[1] = pos + k
      BY <3>1
    <3>4. pos + k # pos + n - 1
      BY <2>2, <3>2
    <3> QED BY <3>3, <3>4
  <2> HIDE DEF i
  <2> QED BY <2>4, <2>5
<1>7. \A j \in 1..(B * S) : ToStore(rows, pos)[j] = entry(j)
  BY <1>3
<1>8. ASSUME NEW n \in 1..S
      PROVE  \E i \in DOMAIN ToStore(rows, pos) :
               /\ ToStore(rows, pos)[i] = <<pos + n - 1, rows[B][n]>>
               /\ \A j \in DOMAIN ToStore(rows, pos) :
                    j > i => ToStore(rows, pos)[j][1] # pos + n - 1
  <2>1. PICK i \in 1..(B * S) :
          /\ entry(i) = <<pos + n - 1, rows[B][n]>>
          /\ \A j \in 1..(B * S) : j > i => entry(j)[1] # pos + n - 1
    BY <1>6
  <2>2. ToStore(rows, pos)[i] = <<pos + n - 1, rows[B][n]>>
    BY <1>7, <2>1
  <2>3. \A j \in 1..(B * S) : j > i => ToStore(rows, pos)[j][1] # pos + n - 1
    BY <1>7, <2>1
  <2> QED BY <1>5, <2>2, <2>3
<1>9. DOMAIN rows[B] = 1..S
  OBVIOUS
<1> QED BY <1>5, <1>8, <1>9 DEF EndsIn

-----------------------------------------------------------------------------
(* The last entry still to be stored for the position p carries t.           *)
OnItsWay(p, t) ==
  \E i \in DOMAIN pending :
    /\ pending[i] = <<p, t>>
    /\ \A j \in DOMAIN pending : j > i => pending[j][1] # p

(* Nothing is left to be stored for p: t is there, or found no block.        *)
Arrived(p, t) ==
  /\ \A i \in DOMAIN pending : pending[i][1] # p
  /\ latest[p] = t \/ (table[LogicalOf(p)] = None /\ free = <<>>)

PrefillOnItsWay ==
  output.kind = "prefill" =>
    /\ output.reads \in Seq(Values)
    /\ \A n \in DOMAIN output.reads :
         LET p == output.pos + n - 1
         IN p \in Positions /\ (OnItsWay(p, output.reads[n]) \/ Arrived(p, output.reads[n]))

BlockInv ==
  /\ IInv
  /\ pending \in Seq(Positions \X Values)
  /\ output.kind = "hit" => Idle
  /\ DecodeReadsLatest
  /\ PrefillOnItsWay

LEMMA BlockInitInv == BlockInit => BlockInv
<1> SUFFICES ASSUME BlockInit PROVE BlockInv
  OBVIOUS
<1>1. IInv
  BY InitInv DEF BlockInit
<1>2. pending \in Seq(Positions \X Values) /\ output.kind = "none"
  BY DEF BlockInit, None0
<1> QED
  BY <1>1, <1>2 DEF BlockInv, DecodeReadsLatest, PrefillOnItsWay

(* What a step leaves alone when it does not touch the cache.                *)
LEMMA CacheAlone == ASSUME IInv, UNCHANGED vars PROVE IInv'
BY Unchanged

LEMMA PrefillStep ==
  ASSUME BlockInv, NEW B \in 1..MaxBatch, NEW S \in 2..MaxLength, NEW pos \in Positions,
         pos + S <= MaxPos, NEW rows \in [1..B -> [1..S -> Values]], Prefill(rows, pos)
  PROVE  BlockInv'
<1>1. B \in Nat \ {0} /\ S \in Nat \ {0} /\ pos \in Nat
  BY BlockAssumption, CacheAssumption DEF Positions
<1>2. Len(rows) = B
  BY <1>1, LenIs
<1>3. /\ pending' = ToStore(rows, pos)
      /\ output' = [kind |-> "prefill", pos |-> pos, reads |-> rows[B]]
      /\ UNCHANGED vars
  BY <1>2 DEF Prefill
<1>4. /\ pending' \in Seq(Positions \X Values)
      /\ \A n \in 1..S :
           \E i \in DOMAIN pending' :
             /\ pending'[i] = <<pos + n - 1, rows[B][n]>>
             /\ \A j \in DOMAIN pending' : j > i => pending'[j][1] # pos + n - 1
  <2>1. ToStore(rows, pos) \in Seq(Positions \X Values) /\ EndsIn(ToStore(rows, pos), pos, rows[B])
    BY <1>1, ToStoreFacts
  <2>2. pending' = ToStore(rows, pos) /\ DOMAIN rows[B] = 1..S
    BY <1>1, <1>3
  <2> QED BY ONLY <2>1, <2>2 DEF EndsIn
<1>5. /\ output'.kind = "prefill" /\ output'.pos = pos /\ output'.reads = rows[B]
      /\ rows[B] \in Seq(Values) /\ DOMAIN rows[B] = 1..S
  <2>1. rows[B] \in [1..S -> Values]
    BY <1>1
  <2> QED BY <1>1, <1>3, <2>1, LenIs
<1>6. PrefillOnItsWay'
  <2>1. ASSUME NEW n \in 1..S
        PROVE  pos + n - 1 \in Positions /\ OnItsWay(pos + n - 1, rows[B][n])'
    <3>1. pos + n - 1 \in Positions
      BY <1>1, CacheAssumption DEF Positions
    <3> QED BY <1>4, <3>1 DEF OnItsWay
  <2> QED BY <1>5, <2>1 DEF PrefillOnItsWay
<1>7. IInv'
  BY <1>3, CacheAlone DEF BlockInv
<1> QED BY <1>4, <1>5, <1>6, <1>7 DEF BlockInv, DecodeReadsLatest

LEMMA DecodeMissStep ==
  ASSUME BlockInv, NEW B \in 1..MaxBatch, NEW ts \in [1..B -> Values], NEW pos \in Positions,
         DecodeMiss(ts, pos)
  PROVE  BlockInv'
<1>1. /\ pending' = <<<<pos, ts[1]>>>>
      /\ output' = [kind |-> "miss", pos |-> pos, reads |-> <<ts[1]>>]
      /\ UNCHANGED vars
  BY DEF DecodeMiss
<1>2. ts[1] \in Values
  BY BlockAssumption
<1>3. pending' \in Seq(Positions \X Values) /\ output'.kind = "miss"
  BY <1>1, <1>2
<1>4. IInv'
  BY <1>1, CacheAlone DEF BlockInv
<1> QED BY <1>3, <1>4 DEF BlockInv, DecodeReadsLatest, PrefillOnItsWay

(* Where something is cached, the buffer holds it.                           *)
LEMMA LoadedIsLatest ==
  ASSUME LoadReturnsLatest, NEW pos \in Positions, NEW first, NEW p \in 0..pos,
         latest[p] # NoValue
  PROVE  Loaded(pos, first)[p] = latest[p]
<1> DEFINE known == {q \in 0..p : Load(q) # NoValue}
<1>1. p \in Positions /\ p \in Nat /\ Load(p) = latest[p]
  BY CacheAssumption DEF Positions, LoadReturnsLatest
<1>2. p \in known /\ \A r \in known : r <= p
  BY <1>1
<1> DEFINE newest == CHOOSE q \in known : \A r \in known : r <= q
<1>3. newest \in known /\ \A r \in known : r <= newest
  BY <1>2
<1>4. newest = p
  <2>1. newest \in 0..p /\ p <= newest
    BY <1>2, <1>3
  <2> HIDE DEF newest
  <2> QED BY <1>1, <2>1
<1>5. Loaded(pos, first)[p] = IF known = {} THEN first ELSE Load(newest)
  BY DEF Loaded
<1>6. known # {}
  BY <1>2
<1> HIDE DEF known, newest
<1> QED BY <1>1, <1>4, <1>5, <1>6

LEMMA DecodeHitStep ==
  ASSUME BlockInv, NEW B \in 1..MaxBatch, NEW pos \in Positions, DecodeHit(B, pos)
  PROVE  BlockInv'
<1>1. PICK first : output' = [kind |-> "hit", pos |-> pos, reads |-> Loaded(pos, first)]
  BY DEF DecodeHit
<1>2. /\ UNCHANGED vars /\ pending' = pending /\ Idle
      /\ UNCHANGED <<free, used, table, data, saved, latest, leaked>>
  BY DEF DecodeHit, vars
<1>3. output'.kind = "hit" /\ output'.reads = Loaded(pos, first)
  BY <1>1
<1>4. DecodeReadsLatest'
  <2>1. DOMAIN Loaded(pos, first) = 0..pos
    BY DEF Loaded
  <2>2. \A p \in 0..pos : latest[p] # NoValue => Loaded(pos, first)[p] = latest[p]
    BY LoadedIsLatest DEF BlockInv, IInv
  <2> QED BY <1>2, <1>3, <2>1, <2>2 DEF DecodeReadsLatest
<1>5. IInv'
  BY <1>2, CacheAlone DEF BlockInv
<1> QED BY <1>2, <1>3, <1>4, <1>5 DEF BlockInv, PrefillOnItsWay, Idle

LEMMA BackwardStep == ASSUME BlockInv, BlockBackward PROVE BlockInv'
<1>1. /\ UNCHANGED vars
      /\ UNCHANGED <<free, used, table, data, saved, latest, leaked>>
      /\ UNCHANGED <<calls, pending, saved0, shape, output>>
  BY DEF BlockBackward, vars
<1>2. IInv'
  BY <1>1, CacheAlone DEF BlockInv
<1> QED BY <1>1, <1>2 DEF BlockInv, Idle, DecodeReadsLatest, PrefillOnItsWay, OnItsWay, Arrived

LEMMA BlockStutter == ASSUME BlockInv, UNCHANGED <<vars, block>> PROVE BlockInv'
<1>1. /\ UNCHANGED vars
      /\ UNCHANGED <<free, used, table, data, saved, latest, leaked>>
      /\ UNCHANGED <<calls, pending, saved0, shape, grads, output>>
  BY DEF vars, block
<1>2. IInv'
  BY <1>1, CacheAlone DEF BlockInv
<1> QED BY <1>1, <1>2 DEF BlockInv, Idle, DecodeReadsLatest, PrefillOnItsWay, OnItsWay, Arrived

LEMMA ReleaseStep == ASSUME BlockInv, Release PROVE BlockInv'
<1>1. Idle /\ output'.kind = "none" /\ UNCHANGED <<calls, pending, saved0, shape, grads>>
  BY DEF Release, None0
<1>2. IInv'
  BY ResetStep, FreeStep DEF Release, BlockInv
<1> QED BY <1>1, <1>2 DEF BlockInv, DecodeReadsLatest, PrefillOnItsWay

(* One store of the front entry: the block drives the cache through its own  *)
(* operations, and the positions of the other entries keep what they have.   *)
LEMMA StoreStep == ASSUME BlockInv, StoreNext PROVE BlockInv'
<1> DEFINE p0 == Head(pending)[1]
           t0 == Head(pending)[2]
<1>1. /\ pending # <<>> /\ pending' = Tail(pending)
      /\ UNCHANGED <<calls, saved0, shape, grads, output>>
      /\ StoreMapped(0, p0, t0) \/ StoreNew(0, p0, t0) \/ StoreFull(0, p0, t0)
  BY DEF StoreNext, Idle
<1>2. pending \in Seq(Positions \X Values) /\ IInv /\ PrefillOnItsWay
  BY DEF BlockInv
<1>3. /\ Len(pending) \in Nat \ {0} /\ DOMAIN pending = 1..Len(pending)
      /\ pending' \in Seq(Positions \X Values) /\ DOMAIN pending' = 1..(Len(pending) - 1)
      /\ \A i \in DOMAIN pending' : i + 1 \in DOMAIN pending /\ pending'[i] = pending[i + 1]
      /\ pending[1] = Head(pending) /\ 1 \in DOMAIN pending
  <2>1. Len(Tail(pending)) = Len(pending) - 1 /\ Tail(pending) \in Seq(Positions \X Values)
    BY <1>1, <1>2
  <2> QED BY <1>1, <1>2, <2>1
<1>4. p0 \in Positions /\ t0 \in Values /\ pending[1] = <<p0, t0>>
  BY <1>2, <1>3
<1> HIDE DEF p0, t0
<1>5. IInv'
  BY <1>1, <1>2, <1>4, BlockAssumption, StoreMappedStep, StoreNewStep, Unchanged DEF StoreFull
<1>6. \A p \in Positions : p # p0 => latest'[p] = latest[p]
  BY <1>1, <1>2, <1>4 DEF StoreMapped, StoreNew, StoreFull, Write, vars, IInv, TypeOK
<1>7. \/ latest'[p0] = t0
      \/ table'[LogicalOf(p0)] = None /\ free' = <<>>
  BY <1>1, <1>2, <1>4 DEF StoreMapped, StoreNew, StoreFull, Write, vars, IInv, TypeOK
<1>8. free = <<>> => free' = <<>> /\ table' = table
  BY <1>1 DEF StoreMapped, StoreNew, StoreFull, Take, vars
<1>9. ASSUME NEW p \in Positions, NEW t, OnItsWay(p, t) \/ Arrived(p, t)
      PROVE  OnItsWay(p, t)' \/ Arrived(p, t)'
  <2>1. CASE Arrived(p, t)
    <3>1. \A i \in DOMAIN pending : pending[i][1] # p
      BY <2>1 DEF Arrived
    <3>2. \A i \in DOMAIN pending' : pending'[i][1] # p
      BY <1>3, <3>1
    <3>3. p # p0
      BY <1>3, <1>4, <3>1
    <3>4. latest'[p] = t \/ (table'[LogicalOf(p)] = None /\ free' = <<>>)
      BY <1>6, <1>8, <2>1, <3>3 DEF Arrived
    <3> QED BY <3>2, <3>4 DEF Arrived
  <2>2. CASE OnItsWay(p, t)
    <3>1. PICK i \in DOMAIN pending : /\ pending[i] = <<p, t>>
                                      /\ \A j \in DOMAIN pending : j > i => pending[j][1] # p
      BY <2>2 DEF OnItsWay
    <3>2. CASE i = 1
      <4>1. p = p0 /\ t = t0
        BY <1>4, <3>1, <3>2
      <4>2. \A j \in DOMAIN pending' : pending'[j][1] # p
        <5>1. ASSUME NEW j \in DOMAIN pending' PROVE pending'[j][1] # p
          <6>1. j + 1 \in DOMAIN pending /\ j + 1 > 1 /\ pending'[j] = pending[j + 1]
            BY <1>3
          <6> QED BY <3>1, <3>2, <6>1
        <5> QED BY <5>1
      <4> QED BY <1>7, <4>1, <4>2 DEF Arrived
    <3>3. CASE i # 1
      <4>1. i - 1 \in DOMAIN pending' /\ (i - 1) + 1 = i
        BY <1>3, <3>3
      <4>2. pending'[i - 1] = <<p, t>>
        BY <1>3, <3>1, <4>1
      <4>3. ASSUME NEW j \in DOMAIN pending', j > i - 1 PROVE pending'[j][1] # p
        <5>1. j + 1 \in DOMAIN pending /\ j + 1 > i /\ pending'[j] = pending[j + 1]
          BY <1>3, <4>3
        <5> QED BY <3>1, <5>1
      <4> QED BY <4>1, <4>2, <4>3 DEF OnItsWay
    <3> QED BY <3>2, <3>3
  <2> QED BY <1>9, <2>1, <2>2
<1>10. PrefillOnItsWay'
  BY <1>1, <1>2, <1>9 DEF PrefillOnItsWay
<1>11. output.kind # "hit"
  BY <1>1 DEF BlockInv, Idle
<1> QED BY <1>1, <1>3, <1>5, <1>10, <1>11 DEF BlockInv, DecodeReadsLatest

LEMMA BlockNextInv == BlockInv /\ [BlockNext]_<<vars, block>> => BlockInv'
<1> SUFFICES ASSUME BlockInv, [BlockNext]_<<vars, block>> PROVE BlockInv'
  OBVIOUS
<1>1. ASSUME NEW B \in 1..MaxBatch, NEW S \in 2..MaxLength, NEW pos \in Positions,
             pos + S <= MaxPos, NEW rows \in [1..B -> [1..S -> Values]], Prefill(rows, pos)
      PROVE  BlockInv'
  BY <1>1, PrefillStep
<1>2. ASSUME NEW B \in 1..MaxBatch, NEW pos \in Positions,
             DecodeHit(B, pos) \/ \E ts \in [1..B -> Values] : DecodeMiss(ts, pos)
      PROVE  BlockInv'
  BY <1>2, DecodeMissStep, DecodeHitStep
<1>3. StoreNext \/ BlockBackward \/ Release => BlockInv'
  BY StoreStep, BackwardStep, ReleaseStep
<1>4. UNCHANGED <<vars, block>> => BlockInv'
  BY BlockStutter
<1> QED BY <1>1, <1>2, <1>3, <1>4 DEF BlockNext

LEMMA BlockInvariance == BlockSpec => []BlockInv
BY BlockInitInv, BlockNextInv, PTL DEF BlockSpec

LEMMA WhenIdle == BlockInv => PrefillIsCached
<1> SUFFICES ASSUME BlockInv, Idle, output.kind = "prefill", NEW n \in DOMAIN output.reads
             PROVE  \/ Load(output.pos + n - 1) = output.reads[n]
                    \/ Load(output.pos + n - 1) = NoValue /\ free = <<>>
  BY DEF PrefillIsCached
<1> DEFINE p == output.pos + n - 1
<1>1. /\ p \in Positions /\ output.reads[n] \in Values
      /\ OnItsWay(p, output.reads[n]) \/ Arrived(p, output.reads[n])
  BY DEF BlockInv, PrefillOnItsWay
<1> HIDE DEF p
<1>2. ~OnItsWay(p, output.reads[n])
  BY DEF OnItsWay, Idle
<1>3. latest[p] = output.reads[n] \/ (table[LogicalOf(p)] = None /\ free = <<>>)
  BY <1>1, <1>2 DEF Arrived
<1>4. output.reads[n] # NoValue
  BY <1>1, CacheAssumption
<1>5. latest[p] = output.reads[n] => Load(p) = output.reads[n]
  BY <1>1, <1>4 DEF BlockInv, IInv, LoadReturnsLatest
<1>6. table[LogicalOf(p)] = None => Load(p) = NoValue
  BY DEF Load
<1> QED BY <1>3, <1>5, <1>6 DEF p

-----------------------------------------------------------------------------
(* The block calls the cache only as PagedKVCache allows: whatever it        *)
(* prefills, decodes and releases, no physical block gets two owners, none   *)
(* is lost, and load and backward agree with what was stored.                *)
THEOREM BlockKeepsCache == BlockSpec => [](OneOwner /\ NoLeak /\ LoadReturnsLatest)
BY BlockInvariance, PTL DEF BlockInv, IInv

(* forward over one token, finding a page at its position, attends at every  *)
(* position up to its own to what was stored there last, for every history   *)
(* of prefills, decodings and frees.                                         *)
THEOREM DecodeCorrect == BlockSpec => []DecodeReadsLatest
BY BlockInvariance, PTL DEF BlockInv

(* forward over several tokens leaves the tokens of its last row in the      *)
(* cache, at their positions, except where the cache ran out of blocks.      *)
THEOREM PrefillCorrect == BlockSpec => []PrefillIsCached
BY BlockInvariance, WhenIdle, PTL
=============================================================================
