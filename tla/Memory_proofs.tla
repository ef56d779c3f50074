--------------------------- MODULE Memory_proofs ----------------------------
(***************************************************************************)
(* The five stores of MCMemory, for every set of tensors, addresses, sizes *)
(* and layers: what two holders have is apart, the byte counters are the   *)
(* sums of what they count, and what is read back is what was saved last.  *)
(* The components share no state, so there is one invariant for each, and  *)
(* a step of one leaves the others alone.                                  *)
(***************************************************************************)
EXTENDS MCMemory, FiniteSetTheorems, WellFoundedInduction, TLAPS

(* Every nonempty set of naturals has a least element.                       *)
LEMMA LeastNatural ==
  ASSUME NEW T, T \subseteq Nat, T # {}
  PROVE  \E x \in T : \A y \in T : x <= y
<1> DEFINE Smaller == OpToRel(<, Nat)
<1>1. \A x, y \in Nat : <<y, x>> \in Smaller <=> y < x
  BY DEF OpToRel
<1>2. IsWellFoundedOn(Smaller, Nat)
  BY NatLessThanWellFounded
<1> HIDE DEF Smaller
<1>3. PICK x \in T : \A y \in T : ~(<<y, x>> \in Smaller)
  BY <1>2, WFMin, Zenon
<1>4. x \in Nat /\ \A y \in T : y \in Nat /\ ~(y < x)
  BY <1>1, <1>3
<1> QED BY <1>3, <1>4

-----------------------------------------------------------------------------
(* Sums over finite sets.  SumFunctionOnSet folds with a recursive function,  *)
(* whose equation is Adds; it has one solution on the subsets of a finite    *)
(* set.                                                                      *)
Picked(s) == CHOOSE x \in s : TRUE
Adds(f, S, g) ==
  g = [s \in SUBSET S |-> IF s = {} THEN 0 ELSE f[Picked(s)] + g[s \ {Picked(s)}]]
Sum(f, S) == SumFunctionOnSet(f, S)

LEMMA SumIs ==
  ASSUME NEW f, NEW S
  PROVE  Sum(f, S) = (CHOOSE g : Adds(f, S, g))[S]
BY Zenon DEF Sum, SumFunctionOnSet, FoldFunctionOnSet, MapThenFoldSet, Adds, Picked

LEMMA PickedIs ==
  ASSUME NEW s, IsFiniteSet(s), s # {}
  PROVE  /\ Picked(s) \in s /\ IsFiniteSet(s \ {Picked(s)})
         /\ Cardinality(s \ {Picked(s)}) = Cardinality(s) - 1
         /\ Cardinality(s) \in Nat \ {0}
<1>1. Picked(s) \in s
  BY DEF Picked
<1> QED BY <1>1, FS_RemoveElement, FS_CardinalityType, FS_EmptySet

(* The equation holds for the sets of up to n elements.                      *)
AddsUpTo(f, S, n, g) ==
  /\ DOMAIN g = SUBSET S
  /\ \A s \in SUBSET S : Cardinality(s) <= n =>
       g[s] = IF s = {} THEN 0 ELSE f[Picked(s)] + g[s \ {Picked(s)}]

LEMMA AddsOneMore ==
  ASSUME NEW f, NEW S, IsFiniteSet(S), NEW n \in Nat, NEW g, AddsUpTo(f, S, n, g)
  PROVE  \E h : AddsUpTo(f, S, n + 1, h)
<1> DEFINE h == [s \in SUBSET S |-> IF Cardinality(s) = n + 1
                                    THEN f[Picked(s)] + g[s \ {Picked(s)}] ELSE g[s]]
<1>1. ASSUME NEW s \in SUBSET S, Cardinality(s) <= n + 1, s # {}
      PROVE  h[s] = f[Picked(s)] + h[s \ {Picked(s)}]
  <2> DEFINE r == s \ {Picked(s)}
  <2>1. IsFiniteSet(s)
    BY FS_Subset
  <2>2. r \in SUBSET S /\ Cardinality(r) = Cardinality(s) - 1 /\ Cardinality(s) \in Nat
    BY <1>1, <2>1, PickedIs
  <2> HIDE DEF r
  <2>3. h[r] = g[r]
    BY <1>1, <2>2
  <2>4. h[s] = f[Picked(s)] + g[r]
    BY <1>1, <2>2 DEF AddsUpTo, r
  <2> QED BY <2>3, <2>4 DEF r
<1>2. ASSUME NEW s \in SUBSET S, s = {} PROVE h[s] = 0
  BY <1>2, FS_EmptySet DEF AddsUpTo
<1>3. DOMAIN h = SUBSET S
  OBVIOUS
<1> HIDE DEF h
<1>4. AddsUpTo(f, S, n + 1, h)
  BY <1>1, <1>2, <1>3 DEF AddsUpTo
<1> QED BY <1>4

LEMMA AddsExists ==
  ASSUME NEW f, NEW S, IsFiniteSet(S)
  PROVE  Adds(f, S, CHOOSE g : Adds(f, S, g))
<1> DEFINE Bad == {n \in Nat : ~\E g : AddsUpTo(f, S, n, g)}
<1>1. \E g : AddsUpTo(f, S, 0, g)
  <2> DEFINE g == [s \in SUBSET S |-> 0]
  <2>1. \A s \in SUBSET S : Cardinality(s) <= 0 => s = {}
    BY FS_Subset, FS_EmptySet, FS_CardinalityType
  <2>2. AddsUpTo(f, S, 0, g)
    BY <2>1 DEF AddsUpTo
  <2> QED BY <2>2
<1>2. Bad = {}
  <2> SUFFICES ASSUME Bad # {} PROVE FALSE
    OBVIOUS
  <2>1. PICK n \in Bad : \A y \in Bad : n <= y
    BY LeastNatural
  <2>2. n # 0 /\ n \in Nat
    BY <1>1, <2>1
  <2>3. n - 1 \in Nat /\ n - 1 \notin Bad /\ (n - 1) + 1 = n
    BY <2>1, <2>2
  <2>4. PICK g : AddsUpTo(f, S, n - 1, g)
    BY <2>3
  <2>5. \E h : AddsUpTo(f, S, (n - 1) + 1, h)
    BY ONLY <2>3, <2>4, IsFiniteSet(S), AddsOneMore
  <2> QED BY <2>1, <2>3, <2>5
<1>3. Cardinality(S) \in Nat
  BY FS_CardinalityType
<1>4. PICK g : AddsUpTo(f, S, Cardinality(S), g)
  BY <1>2, <1>3
<1>5. \A s \in SUBSET S : Cardinality(s) <= Cardinality(S)
  BY FS_Subset
<1> DEFINE h == [s \in SUBSET S |-> g[s]]
<1>6. ASSUME NEW s \in SUBSET S
      PROVE  h[s] = IF s = {} THEN 0 ELSE f[Picked(s)] + h[s \ {Picked(s)}]
  BY <1>4, <1>5 DEF AddsUpTo
<1>7. h = [s \in SUBSET S |-> h[s]]
  OBVIOUS
<1> HIDE DEF h
<1>8. Adds(f, S, h)
  BY <1>6, <1>7, Zenon DEF Adds
<1> QED BY <1>8

(* Solutions agree where the functions do.                                   *)
LEMMA AddsAgree ==
  ASSUME NEW f, NEW g, NEW S, NEW T, NEW p, NEW q, Adds(f, S, p), Adds(g, T, q),
         IsFiniteSet(S), T \subseteq S, \A x \in T : f[x] = g[x]
  PROVE  p[T] = q[T]
<1> DEFINE Bad == {n \in Nat : \E s \in SUBSET T : Cardinality(s) = n /\ p[s] # q[s]}
<1>1. Bad = {}
  <2> SUFFICES ASSUME Bad # {} PROVE FALSE
    OBVIOUS
  <2>1. PICK n \in Bad : \A y \in Bad : n <= y
    BY LeastNatural
  <2>2. PICK s \in SUBSET T : Cardinality(s) = n /\ p[s] # q[s]
    BY <2>1
  <2>3. IsFiniteSet(s) /\ s \in SUBSET S
    BY FS_Subset
  <2>4. CASE s = {}
    BY <2>2, <2>3, <2>4 DEF Adds
  <2>5. CASE s # {}
    <3> DEFINE r == s \ {Picked(s)}
    <3>1. r \in SUBSET T /\ r \in SUBSET S /\ Picked(s) \in T
          /\ Cardinality(r) = n - 1 /\ n \in Nat \ {0}
      BY <2>2, <2>3, <2>5, PickedIs
    <3>2. p[s] = f[Picked(s)] + p[r] /\ q[s] = g[Picked(s)] + q[r]
      BY <2>3, <2>5 DEF Adds
    <3>3. p[r] # q[r]
      BY <2>2, <3>1, <3>2
    <3> HIDE DEF r
    <3>4. n - 1 \in Bad
      BY <3>1, <3>3
    <3> QED BY <2>1, <3>1, <3>4
  <2> QED BY <2>4, <2>5
<1>2. Cardinality(T) \in Nat
  BY FS_Subset, FS_CardinalityType
<1> QED BY <1>1, <1>2

(* The sum depends on the values alone.                                      *)
LEMMA SumSame ==
  ASSUME NEW f, NEW g, NEW S, IsFiniteSet(S), \A x \in S : f[x] = g[x]
  PROVE  Sum(f, S) = Sum(g, S)
<1> DEFINE p == CHOOSE p : Adds(f, S, p)
           q == CHOOSE q : Adds(g, S, q)
<1>1. Sum(f, S) = p[S] /\ Sum(g, S) = q[S]
  BY SumIs
<1>2. Adds(f, S, p) /\ Adds(g, S, q)
  BY AddsExists
<1> HIDE DEF p, q
<1> QED BY <1>1, <1>2, AddsAgree

(* It is none over the empty set, and adds the picked element first.         *)
LEMMA SumFirst ==
  ASSUME NEW f, NEW S, IsFiniteSet(S)
  PROVE  Sum(f, S) = IF S = {} THEN 0 ELSE f[Picked(S)] + Sum(f, S \ {Picked(S)})
<1> DEFINE g == CHOOSE g : Adds(f, S, g)
           R == S \ {Picked(S)}
           h == CHOOSE h : Adds(f, R, h)
<1>1. Sum(f, S) = g[S] /\ Adds(f, S, g)
  BY SumIs, AddsExists
<1> HIDE DEF g
<1>2. CASE S = {}
  BY <1>1, <1>2 DEF Adds
<1>3. CASE S # {}
  <2>1. IsFiniteSet(R) /\ R \subseteq S
    BY <1>3, PickedIs
  <2> HIDE DEF R
  <2>2. Sum(f, R) = h[R] /\ Adds(f, R, h)
    BY <2>1, SumIs, AddsExists
  <2> HIDE DEF h
  <2>3. g[R] = h[R]
    BY <1>1, <2>1, <2>2, AddsAgree
  <2>4. g[S] = f[Picked(S)] + g[R]
    BY <1>1, <1>3 DEF Adds, R
  <2> QED BY <1>1, <1>3, <2>2, <2>3, <2>4 DEF R
<1> QED BY <1>2, <1>3

(* Any element may be taken out, not only the picked one.                    *)
LEMMA SumWithout ==
  ASSUME NEW f, NEW S, IsFiniteSet(S), \A x \in S : f[x] \in Int
  PROVE  /\ Sum(f, S) \in Int
         /\ \A a \in S : Sum(f, S) = f[a] + Sum(f, S \ {a})
<1> DEFINE Holds(s) == /\ Sum(f, s) \in Int
                       /\ \A a \in s : Sum(f, s) = f[a] + Sum(f, s \ {a})
           Bad == {n \in Nat : \E s \in SUBSET S : Cardinality(s) = n /\ ~Holds(s)}
<1>1. Bad = {}
  <2> SUFFICES ASSUME Bad # {} PROVE FALSE
    OBVIOUS
  <2> HIDE DEF Holds
  <2>1. PICK n \in Bad : \A y \in Bad : n <= y
    BY LeastNatural
  <2>2. PICK s \in SUBSET S : Cardinality(s) = n /\ ~Holds(s)
    BY <2>1
  <2>3. IsFiniteSet(s) /\ \A x \in s : f[x] \in Int
    BY FS_Subset
  <2>4. CASE s = {}
    <3>1. Sum(f, s) = 0
      BY <2>3, <2>4, SumFirst
    <3> QED BY <2>2, <2>4, <3>1 DEF Holds
  <2>5. CASE s # {}
    <3> DEFINE b == Picked(s)
    <3>1. b \in s /\ n \in Nat \ {0}
      BY <2>2, <2>3, <2>5, PickedIs
    <3>2. Sum(f, s) = f[b] + Sum(f, s \ {b})
      BY <2>3, <2>5, SumFirst
    <3> HIDE DEF b
    <3>3. ASSUME NEW a \in s PROVE Holds(s \ {a})
      <4>1. s \ {a} \in SUBSET S /\ Cardinality(s \ {a}) = n - 1
        BY <2>2, <2>3, FS_RemoveElement
      <4>2. n - 1 \in Nat /\ n - 1 \notin Bad
        BY <2>1, <3>1
      <4> QED BY <4>1, <4>2
    <3>4. Sum(f, s) \in Int
      BY <2>3, <3>1, <3>2, <3>3 DEF Holds
    <3>5. ASSUME NEW a \in s, a # b PROVE Sum(f, s) = f[a] + Sum(f, s \ {a})
      <4> DEFINE t == (s \ {a}) \ {b}
      <4>1. Sum(f, s \ {a}) = f[b] + Sum(f, t)
        BY <3>1, <3>3, <3>5 DEF Holds
      <4>2. (s \ {b}) \ {a} = t
        OBVIOUS
      <4>3. Sum(f, s \ {b}) = f[a] + Sum(f, t)
        BY <3>1, <3>3, <3>5, <4>2 DEF Holds
      <4>4. Sum(f, t) \in Int
        <5>1. /\ Sum(f, s \ {a}) \in Int /\ f[b] \in Int /\ Cardinality(t) = n - 2
              /\ n - 2 \in Nat /\ t \in SUBSET S
          <6>1. b \in s \ {a} /\ IsFiniteSet(s \ {a})
            BY <2>3, <3>1, <3>5, FS_Subset
          <6>2. Cardinality(s \ {a}) = n - 1 /\ Cardinality(t) = (n - 1) - 1
            <7>1. Cardinality(s \ {a}) = n - 1
              BY <2>2, <2>3, FS_RemoveElement
            <7>2. Cardinality(t) = Cardinality(s \ {a}) - 1
              BY <6>1, FS_RemoveElement
            <7> QED BY <7>1, <7>2
          <6>3. Cardinality(t) \in Nat
            BY <6>1, FS_Subset, FS_CardinalityType
          <6> QED BY <2>3, <3>1, <3>3, <6>2, <6>3 DEF Holds
        <5>2. n - 2 \notin Bad
          BY <2>1, <5>1
        <5>3. Holds(t)
          BY <5>1, <5>2
        <5> QED BY <5>3 DEF Holds
      <4> HIDE DEF t
      <4>5. f[a] \in Int /\ f[b] \in Int
        BY <2>3, <3>1
      <4> QED BY <3>2, <4>1, <4>3, <4>4, <4>5
    <3>6. Holds(s)
      BY <3>2, <3>4, <3>5 DEF Holds
    <3> QED BY <2>2, <3>6
  <2> QED BY <2>4, <2>5
<1>2. Cardinality(S) \in Nat
  BY FS_CardinalityType
<1> QED BY <1>1, <1>2

LEMMA SumNone ==
  ASSUME NEW f PROVE Sum(f, {}) = 0
BY SumFirst, FS_EmptySet

(* Two sums over sets that differ in one element at most.                    *)
Part(f, S, a) == IF a \in S THEN f[a] ELSE 0
LEMMA SumDiffers ==
  ASSUME NEW f, NEW S, NEW g, NEW T, NEW a, IsFiniteSet(S), IsFiniteSet(T),
         S \ {a} = T \ {a}, \A x \in S : f[x] \in Int, \A x \in T : g[x] \in Int,
         \A x \in S \ {a} : f[x] = g[x]
  PROVE  /\ Sum(f, S) \in Int /\ Sum(g, T) \in Int
         /\ Sum(f, S) - Part(f, S, a) = Sum(g, T) - Part(g, T, a)
<1> DEFINE R == S \ {a}
<1>1. IsFiniteSet(R) /\ \A x \in R : f[x] = g[x]
  BY FS_Subset
<1>2. Sum(f, R) = Sum(g, R)
  BY <1>1, SumSame
<1>3. Sum(f, S) \in Int /\ Sum(f, R) = Sum(f, S) - Part(f, S, a)
  <2>0. Sum(f, S) \in Int
    BY SumWithout
  <2>1. CASE a \in S
    <3>1. Sum(f, S) = f[a] + Sum(f, R)
      BY <2>1, SumWithout
    <3>2. Sum(f, R) \in Int /\ f[a] \in Int
      BY <1>1, <2>1, SumWithout
    <3> HIDE DEF R
    <3> QED BY <2>0, <2>1, <3>1, <3>2 DEF Part
  <2>2. CASE a \notin S
    <3>1. R = S
      BY <2>2
    <3>2. Sum(f, R) = Sum(f, S)
      BY <3>1
    <3> HIDE DEF R
    <3> QED BY <2>0, <2>2, <3>2 DEF Part
  <2> QED BY <2>1, <2>2
<1>4. Sum(g, T) \in Int /\ Sum(g, R) = Sum(g, T) - Part(g, T, a)
  <2>0. Sum(g, T) \in Int
    BY SumWithout
  <2>1. CASE a \in T
    <3>1. Sum(g, T) = g[a] + Sum(g, R)
      BY <2>1, SumWithout
    <3>2. Sum(g, R) \in Int /\ g[a] \in Int
      BY <1>1, <2>1, SumWithout
    <3> HIDE DEF R
    <3> QED BY <2>0, <2>1, <3>1, <3>2 DEF Part
  <2>2. CASE a \notin T
    <3>1. R = T
      BY <2>2
    <3>2. Sum(g, R) = Sum(g, T)
      BY <3>1
    <3> HIDE DEF R
    <3> QED BY <2>0, <2>2, <3>2 DEF Part
  <2> QED BY <2>1, <2>2
<1> HIDE DEF R
<1> QED BY <1>2, <1>3, <1>4

(* The sum over a whole function.                                            *)
LEMMA SumFunctionIs == ASSUME NEW f PROVE SumFunction(f) = Sum(f, DOMAIN f)
BY DEF SumFunction, Sum

-----------------------------------------------------------------------------
(* KVCache *)

(* As long as no layer was written past its end, the copy for backward is    *)
(* what the array holds.                                                     *)
KvSame ==
  \A k \in DOMAIN kept :
    /\ k \in (0..(KvLayers - 1)) \X (0..(KvPositions - 1))
    /\ kept[k] = cell[Index(k[1], k[2])]
KvInv ==
  /\ current \in Nat /\ spilled \in BOOLEAN
  /\ cell = [x \in 0..Last |-> cell[x]]
  /\ ~spilled => KvSame

LEMMA KvStarts == KvInit => KvInv
<1> SUFFICES ASSUME KvInit PROVE KvInv
  OBVIOUS
<1>1. current = 0 /\ spilled = FALSE /\ kept = <<>> /\ cell = [x \in 0..Last |-> 0]
  BY DEF KvInit
<1>2. cell = [x \in 0..Last |-> cell[x]]
  BY <1>1, Zenon
<1>3. KvSame
  BY <1>1 DEF KvSame
<1> QED BY <1>1, <1>2, <1>3 DEF KvInv

(* Layers do not overlap: an index tells the layer and the position.         *)
LEMMA IndexApart ==
  ASSUME NEW l \in 0..(KvLayers - 1), NEW m \in 0..(KvLayers - 1),
         NEW p \in 0..(KvPositions - 1), NEW q \in 0..(KvPositions - 1)
  PROVE  /\ Index(l, p) \in 0..Last
         /\ l = m => Index(l, p) - Index(m, 0) = p
         /\ l # m => \/ Index(l, p) - Index(m, 0) < 0
                     \/ Index(l, p) - Index(m, 0) >= KvPositions
<1> DEFINE P == KvPositions
           L == KvLayers
<1>1. P \in Nat /\ L \in Nat /\ P > 0 /\ L > 0
  BY KvAssumption
<1>2. /\ p \in Nat /\ p <= P - 1 /\ l \in Nat /\ l <= L - 1 /\ m \in Nat
  BY <1>1
<1> HIDE DEF P, L
<1>3. l * P \in Nat /\ m * P \in Nat /\ L * P \in Nat
  BY <1>1, <1>2, SMTT(30)
<1>4. (l + 1) * P = l * P + P /\ (m + 1) * P = m * P + P
  BY <1>1, <1>2, SMTT(30)
<1>5. l + 1 <= L => (l + 1) * P <= L * P
  BY <1>1, <1>2, SMTT(30)
<1>6. l < m => (l + 1) * P <= m * P
  BY <1>1, <1>2, SMTT(30)
<1>7. m < l => (m + 1) * P <= l * P
  BY <1>1, <1>2, SMTT(30)
<1> DEFINE lP == l * P
           mP == m * P
           LP == L * P
<1>8. Index(l, p) = lP + p /\ Index(m, 0) = mP + 0 /\ Last = LP - 1
  BY DEF Index, Last, P, L
<1>9. l + 1 <= L
  BY <1>1, <1>2
<1>10. /\ lP \in Nat /\ mP \in Nat /\ LP \in Nat /\ lP + P <= LP
       /\ l < m => lP + P <= mP
       /\ m < l => mP + P <= lP
  BY <1>3, <1>4, <1>5, <1>6, <1>7, <1>9
<1> HIDE DEF lP, mP, LP
<1>11. l = m => lP = mP
  BY DEF lP, mP
<1>12. CASE l = m
  BY <1>1, <1>2, <1>8, <1>10, <1>11, <1>12 DEF P
<1>13. CASE l < m
  BY <1>1, <1>2, <1>8, <1>10, <1>13 DEF P
<1>14. CASE m < l
  BY <1>1, <1>2, <1>8, <1>10, <1>14 DEF P
<1> QED BY <1>2, <1>12, <1>13, <1>14

LEMMA WriteKeeps ==
  ASSUME KvInv, NEW layer \in 0..(KvLayers - 1), NEW pos \in Nat, NEW count \in Nat \ {0},
         WriteRow(layer, pos, count)
  PROVE  /\ cell' = [x \in 0..Last |-> cell'[x]] /\ spilled' \in BOOLEAN
         /\ ~spilled' => KvSame'
<1> DEFINE row == pos..(pos + count - 1)
           Number(p) == writes + 1 + p - pos
<1>1. /\ cell' = [x \in 0..Last |-> IF x - Index(layer, 0) \in row
                                     THEN Number(x - Index(layer, 0)) ELSE cell[x]]
      /\ kept' = [k \in DOMAIN kept \cup ({layer} \X row) |->
                    IF k[1] = layer /\ k[2] \in row THEN Number(k[2]) ELSE kept[k]]
      /\ spilled' = (spilled \/ pos + count > KvPositions)
  BY DEF WriteRow
<1> HIDE DEF Number
<1>5. \A x \in 0..Last : cell'[x] = IF x - Index(layer, 0) \in row
                                     THEN Number(x - Index(layer, 0)) ELSE cell[x]
  <2> HIDE DEF row
  <2> QED BY <1>1, Zenon
<1>2. spilled' \in BOOLEAN
  BY <1>1
<1>3. ASSUME ~spilled' PROVE KvSame'
  <2>a. KvSame /\ ~(pos + count > KvPositions)
    BY <1>1, <1>3, Zenon DEF KvInv
  <2>1. KvSame /\ pos + count <= KvPositions /\ KvPositions \in Nat
    BY <2>a, KvAssumption
  <2>2. row \subseteq 0..(KvPositions - 1)
    BY <2>1
  <2> SUFFICES ASSUME NEW k \in DOMAIN kept'
               PROVE  /\ k \in (0..(KvLayers - 1)) \X (0..(KvPositions - 1))
                      /\ kept'[k] = cell'[Index(k[1], k[2])]
    BY DEF KvSame, Index
  <2>3. k \in DOMAIN kept \/ k \in {layer} \X row
    BY <1>1
  <2>4. k \in (0..(KvLayers - 1)) \X (0..(KvPositions - 1))
    BY <2>1, <2>2, <2>3 DEF KvSame
  <2>5. PICK l \in 0..(KvLayers - 1), p \in 0..(KvPositions - 1) : k = <<l, p>>
    BY <2>4
  <2>b. k[1] = l /\ k[2] = p
    BY <2>5
  <2>c. PICK at \in 0..Last : at = Index(l, p)
    BY <2>5, IndexApart
  <2>d. PICK off \in Int : off = at - Index(layer, 0)
    <3>1. Index(layer, 0) \in Int
      BY KvAssumption, SMTT(30) DEF Index
    <3> QED BY <3>1, <2>c
  <2>6. /\ l = layer => off = p
        /\ l # layer => off < 0 \/ off >= KvPositions
    BY <2>5, <2>c, <2>d, IndexApart
  <2>7. cell'[at] = IF off \in row THEN Number(off) ELSE cell[at]
    <3> HIDE DEF row
    <3> QED BY <1>5, <2>d, Zenon
  <2>8. kept'[k] = IF l = layer /\ p \in row THEN Number(p) ELSE kept[k]
    <3> HIDE DEF row
    <3>1. kept'[k] = IF k[1] = layer /\ k[2] \in row THEN Number(k[2]) ELSE kept[k]
      BY <1>1, Zenon
    <3> QED BY <3>1, <2>b, Zenon
  <2>9. l # layer => off \notin row
    BY <2>1, <2>2, <2>6, <2>d
  <2>e. k \notin DOMAIN kept => l = layer /\ p \in row
    <3> HIDE DEF row
    <3> QED BY <2>3, <2>b
  <2>f. k \in DOMAIN kept => kept[k] = cell[at]
    BY <2>1, <2>b, <2>c, Zenon DEF KvSame
  <2> HIDE DEF row
  <2>10. kept'[k] = cell'[at]
    <3>1. CASE l = layer /\ p \in row
      BY <2>6, <2>7, <2>8, <3>1, Zenon
    <3>2. CASE ~(l = layer /\ p \in row)
      BY <2>6, <2>7, <2>8, <2>9, <2>e, <2>f, <3>2, Zenon
    <3> QED BY <3>1, <3>2, Zenon
  <2> QED BY <2>4, <2>10, <2>b, <2>c, Zenon
<1>4. cell' = [x \in 0..Last |-> cell'[x]]
  BY <1>1
<1> QED BY <1>2, <1>3, <1>4

LEMMA KvStep == KvInv /\ [KvNext]_kvVars => KvInv'
<1> SUFFICES ASSUME KvInv, [KvNext]_kvVars PROVE KvInv'
  OBVIOUS
<1>1. CASE UNCHANGED kvVars
  BY <1>1 DEF kvVars, KvInv, KvSame
<1>2. ASSUME NEW layer \in 0..(KvLayers - 1), AppendKv(layer) PROVE KvInv'
  <2>1. current \in Nat /\ WriteRow(layer, current, 1) /\ current' = current /\ 1 \in Nat \ {0}
    BY <1>2 DEF AppendKv, KvInv
  <2> QED BY <2>1, WriteKeeps DEF KvInv
<1>3. ASSUME NEW layer \in 0..(KvLayers - 1), NEW pos \in 0..(KvPositions - 1),
             NEW count \in 1..2, Prefilled(layer, pos, count)
      PROVE  KvInv'
  <2>1. /\ pos \in Nat /\ count \in Nat \ {0} /\ current' \in Nat
        /\ WriteRow(layer, pos, count)
    BY <1>3 DEF Prefilled
  <2> QED BY <2>1, WriteKeeps DEF KvInv
<1>4. CASE AdvanceLength
  <2>1. /\ current' = current + 1 /\ cell' = cell /\ kept' = kept /\ spilled' = spilled
        /\ current \in Nat
    BY <1>4 DEF AdvanceLength, KvInv
  <2>2. KvSame' <=> KvSame
    BY <2>1 DEF KvSame, Index
  <2> QED BY <2>1, <2>2 DEF KvInv
<1>5. CASE ResetKv
  BY <1>5 DEF ResetKv, KvInv, KvSame
<1> QED BY <1>1, <1>2, <1>3, <1>4, <1>5 DEF KvNext

LEMMA KvIsSafe == KvInv => BackwardAddsRetrieved
<1> SUFFICES ASSUME KvInv, ~spilled, NEW layer \in 0..(KvLayers - 1),
                    NEW p \in DOMAIN BackwardAdds(layer, 0, KvPositions), p < current
             PROVE  BackwardAdds(layer, 0, KvPositions)[p] = Retrieved(layer)[p]
  BY DEF BackwardAddsRetrieved
<1>1. /\ p \in 0..(KvPositions - 1) /\ <<layer, p>> \in DOMAIN kept
      /\ BackwardAdds(layer, 0, KvPositions)[p] = kept[<<layer, p>>]
  BY DEF BackwardAdds
<1>2. kept[<<layer, p>>] = cell[Index(layer, p)]
  BY <1>1 DEF KvInv, KvSame
<1>3. p \in 0..(current - 1)
  BY <1>1 DEF KvInv
<1> QED BY <1>1, <1>2, <1>3 DEF Retrieved

-----------------------------------------------------------------------------
(* Division with remainder, and remainders of sums.                          *)
LEMMA DividedBy ==
  ASSUME NEW x \in Int, NEW d \in Nat \ {0}
  PROVE  x % d \in 0..(d - 1) /\ x \div d \in Int /\ x = d * (x \div d) + (x % d)
<1>1. d \in Nat /\ d # 0 /\ d > 0
  OBVIOUS
<1> QED BY <1>1

LEMMA OneQuotient ==
  ASSUME NEW q \in Int, NEW p \in Int, NEW d \in Nat \ {0}, NEW r \in 0..(d - 1),
         NEW s \in 0..(d - 1), d * q + r = d * p + s
  PROVE  r = s
<1>1. \A x, y \in Int : x < y => d * (y - x) >= d /\ d * y = d * x + d * (y - x)
  OBVIOUS
<1>2. d * q \in Int /\ d * p \in Int
  OBVIOUS
<1>3. ~(q < p) /\ ~(p < q)
  BY <1>1, <1>2
<1>4. q = p
  BY <1>3
<1> QED BY <1>2, <1>4

(* Adding to a remainder is adding to the number.                            *)
LEMMA RemainderShift ==
  ASSUME NEW x \in Int, NEW k \in Int, NEW d \in Nat \ {0}
  PROVE  ((x % d) + k) % d = (x + k) % d
<1> DEFINE r == x % d
           q == x \div d
<1>1. r \in Int /\ q \in Int /\ x = d * q + r
  BY DividedBy
<1> HIDE DEF r, q
<1>2. r + k \in Int /\ x + k \in Int
  BY <1>1
<1> DEFINE s == (r + k) % d
           t == (x + k) % d
           u == (r + k) \div d
           v == (x + k) \div d
<1>3. /\ s \in 0..(d - 1) /\ t \in 0..(d - 1) /\ u \in Int /\ v \in Int
      /\ r + k = d * u + s /\ x + k = d * v + t
  BY <1>2, DividedBy
<1> HIDE DEF s, t, u, v
<1>4. d * (q + u) = d * q + d * u /\ q + u \in Int
  BY <1>1, <1>3
<1>5. d * q \in Int /\ d * u \in Int /\ d * v \in Int
  BY <1>1, <1>3
<1>6. d * (q + u) + s = d * v + t
  BY <1>1, <1>2, <1>3, <1>4, <1>5
<1>7. s = t
  BY <1>3, <1>4, <1>6, OneQuotient
<1> QED BY <1>7 DEF r, s, t

LEMMA NoRemainder ==
  ASSUME NEW x \in Nat, NEW d \in Nat \ {0}, x < d
  PROVE  x % d = x
<1>1. x % d \in 0..(d - 1) /\ x \div d \in Int /\ x = d * (x \div d) + (x % d)
  BY DividedBy
<1>2. d * (x \div d) + (x % d) = d * 0 + x
  BY <1>1
<1> QED BY <1>1, <1>2, OneQuotient

(* The larger of two numbers.                                                *)
LEMMA MaxOfTwo ==
  ASSUME NEW a \in Int, NEW b \in Int
  PROVE  Max({a, b}) \in {a, b} /\ Max({a, b}) >= a /\ Max({a, b}) >= b
<1>1. \E x \in {a, b} : \A y \in {a, b} : x >= y
  OBVIOUS
<1>2. Max({a, b}) \in {a, b} /\ \A y \in {a, b} : Max({a, b}) >= y
  BY <1>1 DEF Max
<1> QED BY <1>2

-----------------------------------------------------------------------------
(* MemoryPool *)

(* What a request takes is a multiple of the alignment, and enough.          *)
LEMMA AlignedEnough ==
  ASSUME NEW size \in Nat
  PROVE  Aligned(size) \in Nat /\ Aligned(size) >= size /\ Aligned(size) % Align = 0
<1> DEFINE A == Align
           x == size + A - 1
           q == x \div A
           m == x % A
           Aq == A * q
<1>1. A \in Nat \ {0}
  BY PoolAssumption
<1> HIDE DEF A
<1>2. x \in Int
  BY <1>1
<1> HIDE DEF x
<1>3. m \in 0..(A - 1) /\ q \in Int /\ x = Aq + m
  BY <1>1, <1>2, DividedBy
<1> HIDE DEF q, m
<1>4. Aq \in Int
  BY <1>1, <1>3
<1>5. Aligned(size) = Aq
  BY DEF Aligned, A, q, x, Aq
<1>6. Aq % A \in 0..(A - 1) /\ Aq \div A \in Int /\ Aq = A * (Aq \div A) + (Aq % A)
  BY <1>1, <1>4, DividedBy
<1>7. Aq = A * q
  OBVIOUS
<1> HIDE DEF Aq
<1>8. A * (Aq \div A) + (Aq % A) = A * q + 0
  <2>1. A * q \in Int
    BY <1>4, <1>7
  <2> QED BY <1>6, <1>7, <2>1
<1>9. Aq % A = 0
  <2>1. 0 \in 0..(A - 1)
    BY <1>1
  <2> QED BY ONLY <1>1, <1>3, <1>6, <1>8, <2>1, OneQuotient
<1>10. Aq >= size
  BY <1>1, <1>3, <1>4 DEF x
<1> QED BY <1>4, <1>5, <1>9, <1>10 DEF A

RegionsLie ==
  \A r \in regions :
    /\ r.ptr \in Nat /\ r.size \in Nat /\ r.ptr % Align = 0 /\ r.ptr + r.size <= offset
    /\ \A q \in regions \ {r} : r.ptr + r.size <= q.ptr \/ q.ptr + q.size <= r.ptr
OffsetLies == offset \in 0..PoolCapacity /\ offset % Align = 0
DetectorTyped ==
  /\ IsFiniteSet(DOMAIN detector.allocs)
  /\ \A p \in DOMAIN detector.allocs : detector.allocs[p] \in Nat
  /\ detector.total \in Int /\ detector.peak \in Int /\ overwritten \in Nat
  /\ detector = [allocs |-> detector.allocs, total |-> detector.total, peak |-> detector.peak]
PoolInv == RegionsLie /\ OffsetLies /\ DetectorTyped /\ DetectorExact

LEMMA PoolStarts == PoolInit => PoolInv
<1> SUFFICES ASSUME PoolInit PROVE PoolInv
  OBVIOUS
<1>1. /\ offset = 0 /\ regions = {} /\ overwritten = 0
      /\ detector = [allocs |-> <<>>, total |-> 0, peak |-> 0]
  BY DEF PoolInit
<1>2. DOMAIN detector.allocs = {} /\ detector.total = 0 /\ detector.peak = 0
  BY <1>1
<1>3. RegionsLie
  BY <1>1 DEF RegionsLie
<1>4. OffsetLies
  BY <1>1, PoolAssumption, NoRemainder DEF OffsetLies
<1>5. DetectorTyped
  BY <1>1, <1>2, FS_EmptySet DEF DetectorTyped
<1>6. DetectorExact
  BY <1>1, <1>2, SumFunctionIs, SumNone DEF DetectorExact
<1> QED BY <1>3, <1>4, <1>5, <1>6 DEF PoolInv

LEMMA AllocateKeeps ==
  ASSUME PoolInv, NEW size \in Requests, PoolAllocate(size)
  PROVE  PoolInv'
<1>1. size \in Nat /\ Align \in Nat \ {0} /\ PoolCapacity \in Nat
  BY PoolAssumption
<1>2. PICK taken \in Nat : taken = Aligned(size) /\ taken >= size /\ taken % Align = 0
  BY <1>1, AlignedEnough
<1>3. /\ offset + taken <= PoolCapacity /\ offset' = offset + taken
      /\ regions' = regions \cup {[ptr |-> offset, size |-> size]}
  BY <1>2 DEF PoolAllocate
<1>4. offset \in 0..PoolCapacity /\ offset % Align = 0
  BY DEF PoolInv, OffsetLies
<1>5. OffsetLies'
  <2>1. (offset + taken) % Align = ((offset % Align) + taken) % Align
    <3>1. offset \in Int /\ taken \in Int
      BY <1>4
    <3> QED BY ONLY <1>1, <3>1, RemainderShift
  <2>2. (offset % Align) + taken = taken
    BY <1>4
  <2> QED BY <1>2, <1>3, <1>4, <2>1, <2>2 DEF OffsetLies
<1>6. RegionsLie'
  <2> DEFINE new == [ptr |-> offset, size |-> size]
  <2>1. \A r \in regions : /\ r.ptr \in Nat /\ r.size \in Nat /\ r.ptr % Align = 0
                           /\ r.ptr + r.size <= offset
    BY DEF PoolInv, RegionsLie
  <2>2. /\ new.ptr = offset /\ new.size = size
    OBVIOUS
  <2> HIDE DEF new
  <2>3. \A r \in regions' : /\ r.ptr \in Nat /\ r.size \in Nat /\ r.ptr % Align = 0
                            /\ r.ptr + r.size <= offset'
    BY <1>1, <1>2, <1>3, <1>4, <2>1, <2>2 DEF new
  <2>4. ASSUME NEW r \in regions', NEW q \in regions' \ {r}
        PROVE  r.ptr + r.size <= q.ptr \/ q.ptr + q.size <= r.ptr
    <3>1. CASE r \in regions /\ q \in regions
      BY <2>4, <3>1 DEF PoolInv, RegionsLie
    <3>2. CASE r = new /\ q \in regions
      BY <2>1, <2>2, <3>2
    <3>3. CASE q = new /\ r \in regions
      BY <2>1, <2>2, <3>3
    <3>4. regions' = regions \cup {new}
      BY <1>3 DEF new
    <3> QED BY <2>4, <3>1, <3>2, <3>3, <3>4
  <2> QED BY <2>3, <2>4, Zenon DEF RegionsLie
<1> DEFINE f == detector.allocs
           S == DOMAIN f
           g == [q \in S \cup {offset} |-> IF q = offset THEN size ELSE f[q]]
           sum == detector.total + size
           was == IF offset \in S THEN f[offset] ELSE 0
<1>7. /\ IsFiniteSet(S) /\ \A p \in S : f[p] \in Nat
      /\ detector.total \in Int /\ detector.peak \in Int /\ overwritten \in Nat
  BY DEF PoolInv, DetectorTyped
<1>8. /\ detector' = [allocs |-> g, total |-> sum, peak |-> Max({detector.peak, sum})]
      /\ overwritten' = overwritten + was
  BY DEF PoolAllocate, Recorded
<1>9. was \in Nat
  BY <1>7
<1>10. sum \in Int /\ sum = detector.total + size
  BY <1>1, <1>7
<1> HIDE DEF sum
<1>11. PICK peak \in Int : peak = Max({detector.peak, sum}) /\ peak >= sum
  <2>1. /\ Max({detector.peak, sum}) \in {detector.peak, sum}
        /\ Max({detector.peak, sum}) >= sum
    BY ONLY <1>7, <1>10, MaxOfTwo
  <2> QED BY <1>7, <1>10, <2>1
<1>12. detector'.allocs = g /\ detector'.total = sum /\ detector'.peak = peak
  BY <1>8, <1>11
<1>13. DOMAIN g = S \cup {offset} /\ g[offset] = size /\ \A p \in S \ {offset} : g[p] = f[p]
  OBVIOUS
<1> HIDE DEF g
<1>14. IsFiniteSet(S \cup {offset})
  BY <1>7, FS_AddElement
<1>15. \A p \in S \cup {offset} : g[p] \in Nat
  BY <1>1, <1>7, <1>13
<1>16. DetectorTyped'
  BY <1>7, <1>8, <1>9, <1>10, <1>11, <1>12, <1>13, <1>14, <1>15 DEF DetectorTyped
<1>17. /\ Sum(f, S) \in Int /\ Sum(g, S \cup {offset}) \in Int
       /\ Sum(f, S) - was = Sum(g, S \cup {offset}) - size
  <2>0. /\ \A p \in S \ {offset} : f[p] = g[p]
        /\ \A p \in S : f[p] \in Int
        /\ \A p \in S \cup {offset} : g[p] \in Int
        /\ S \ {offset} = (S \cup {offset}) \ {offset}
    BY <1>7, <1>13, <1>15
  <2>1. /\ Sum(f, S) \in Int /\ Sum(g, S \cup {offset}) \in Int
        /\ Sum(f, S) - Part(f, S, offset)
           = Sum(g, S \cup {offset}) - Part(g, S \cup {offset}, offset)
    <3> DEFINE T == S \cup {offset}
    <3>1. IsFiniteSet(S) /\ IsFiniteSet(T) /\ S \ {offset} = T \ {offset}
      BY <1>7, <1>14
    <3>2. \A p \in T : g[p] \in Int
      BY <2>0
    <3> HIDE DEF S, f, T
    <3>3. /\ Sum(f, S) \in Int /\ Sum(g, T) \in Int
          /\ Sum(f, S) - Part(f, S, offset) = Sum(g, T) - Part(g, T, offset)
      BY ONLY <2>0, <3>1, <3>2, SumDiffers
    <3> QED BY <3>3 DEF T
  <2>2. Part(f, S, offset) = was /\ Part(g, S \cup {offset}, offset) = size
    BY <1>13 DEF Part
  <2> QED BY <2>1, <2>2
<1>18. detector.total = overwritten + Sum(f, S)
  BY SumFunctionIs DEF PoolInv, DetectorExact
<1>19. SumFunction(detector'.allocs) = Sum(g, S \cup {offset})
  BY <1>12, <1>13, SumFunctionIs
<1>20. DetectorExact'
  <2> HIDE DEF was, f, S
  <2>1. sum = (overwritten + was) + Sum(g, S \cup {offset})
    BY <1>1, <1>7, <1>9, <1>10, <1>17, <1>18
  <2> QED BY <1>8, <1>11, <1>12, <1>19, <2>1 DEF DetectorExact
<1> QED BY <1>5, <1>6, <1>16, <1>20 DEF PoolInv

LEMMA DeallocationKeeps ==
  ASSUME PoolInv, NEW p \in DOMAIN detector.allocs, RecordDeallocation(p)
  PROVE  PoolInv'
<1> DEFINE f == detector.allocs
           S == DOMAIN f
           g == [q \in S \ {p} |-> f[q]]
<1>1. /\ IsFiniteSet(S) /\ \A q \in S : f[q] \in Nat
      /\ detector.total \in Int /\ detector.peak \in Int /\ overwritten \in Nat
      /\ detector = [allocs |-> f, total |-> detector.total, peak |-> detector.peak]
  BY DEF PoolInv, DetectorTyped
<1>2. /\ detector' = [detector EXCEPT !.total = @ - f[p], !.allocs = Restrict(@, DOMAIN @ \ {p})]
      /\ offset' = offset /\ regions' = regions /\ overwritten' = overwritten
  BY DEF RecordDeallocation
<1>3. detector' = [allocs |-> g, total |-> detector.total - f[p], peak |-> detector.peak]
  BY <1>1, <1>2 DEF Restrict
<1>4. detector'.allocs = g /\ detector'.total = detector.total - f[p] /\ detector'.peak = detector.peak
  BY <1>3
<1>5. DOMAIN g = S \ {p} /\ \A q \in S \ {p} : g[q] = f[q]
  OBVIOUS
<1> HIDE DEF g
<1>6. IsFiniteSet(S \ {p}) /\ \A q \in S \ {p} : g[q] \in Nat
  BY <1>1, <1>5, FS_Subset
<1>7. DetectorTyped'
  <2>1. f[p] \in Int
    BY <1>1
  <2>2. detector.total - f[p] \in Int
    BY <1>1, <2>1
  <2> QED BY <1>1, <1>2, <1>3, <1>4, <1>5, <1>6, <2>2 DEF DetectorTyped
<1>8. /\ Sum(f, S) \in Int /\ Sum(g, S \ {p}) \in Int
      /\ Sum(f, S) - f[p] = Sum(g, S \ {p})
  <2>0. /\ \A q \in S \ {p} : f[q] = g[q]
        /\ \A q \in S : f[q] \in Int
        /\ \A q \in S \ {p} : g[q] \in Int
        /\ S \ {p} = (S \ {p}) \ {p}
    BY <1>1, <1>5, <1>6
  <2>1. /\ Sum(f, S) \in Int /\ Sum(g, S \ {p}) \in Int
        /\ Sum(f, S) - Part(f, S, p) = Sum(g, S \ {p}) - Part(g, S \ {p}, p)
    BY <1>1, <1>6, <2>0, SumDiffers
  <2>2. Part(f, S, p) = f[p] /\ Part(g, S \ {p}, p) = 0
    BY DEF Part
  <2>3. Sum(f, S) \in Int /\ Sum(g, S \ {p}) \in Int
    BY <2>1
  <2> HIDE DEF f, S
  <2> QED BY <2>1, <2>2, <2>3
<1>9. detector.total = overwritten + Sum(f, S) /\ detector.total <= detector.peak
  BY SumFunctionIs DEF PoolInv, DetectorExact
<1>10. SumFunction(detector'.allocs) = Sum(g, S \ {p})
  BY <1>4, <1>5, SumFunctionIs
<1>11. f[p] \in Nat
  BY <1>1
<1>12. DetectorExact'
  <2> DEFINE fp == f[p]
             sf == Sum(f, S)
             sg == Sum(g, S \ {p})
  <2> HIDE DEF fp, sf, sg
  <2>1. /\ fp \in Nat /\ sf \in Int /\ sg \in Int /\ sf - fp = sg
        /\ detector.total = overwritten + sf
    BY <1>8, <1>9, <1>11 DEF fp, sf, sg
  <2>2. /\ detector.total - fp = overwritten + sg
        /\ detector.total - fp <= detector.peak
    BY <1>1, <1>9, <2>1
  <2> QED BY <1>2, <1>4, <1>10, <2>2 DEF DetectorExact, fp, sg
<1>13. RegionsLie' /\ OffsetLies'
  BY <1>2 DEF PoolInv, RegionsLie, OffsetLies
<1> QED BY <1>7, <1>12, <1>13 DEF PoolInv

LEMMA PoolStep == PoolInv /\ [PoolNext]_poolVars => PoolInv'
<1> SUFFICES ASSUME PoolInv, [PoolNext]_poolVars PROVE PoolInv'
  OBVIOUS
<1>1. CASE UNCHANGED poolVars
  BY <1>1 DEF poolVars, PoolInv, RegionsLie, OffsetLies, DetectorTyped, DetectorExact
<1>2. CASE PoolReset
  <2>1. offset' = 0 /\ regions' = {} /\ detector' = detector /\ overwritten' = overwritten
    BY <1>2 DEF PoolReset
  <2>2. OffsetLies'
    BY <2>1, PoolAssumption, NoRemainder DEF OffsetLies
  <2>3. RegionsLie'
    BY <2>1 DEF RegionsLie
  <2>4. DetectorTyped' /\ DetectorExact'
    BY <2>1 DEF PoolInv, DetectorTyped, DetectorExact
  <2> QED BY <2>2, <2>3, <2>4 DEF PoolInv
<1> QED BY <1>1, <1>2, AllocateKeeps, DeallocationKeeps DEF PoolNext

LEMMA PoolIsSafe == PoolInv => RegionsApart /\ DetectorExact
<1> SUFFICES ASSUME PoolInv PROVE RegionsApart
  BY DEF PoolInv
<1>1. offset \in 0..PoolCapacity /\ RegionsLie /\ PoolCapacity \in Nat
  BY PoolAssumption DEF PoolInv, OffsetLies
<1>2. \A r \in regions : r.ptr % Align = 0 /\ r.ptr + r.size <= PoolCapacity
  BY <1>1 DEF RegionsLie
<1> QED BY <1>1, <1>2, Zenon DEF RegionsApart, RegionsLie

-----------------------------------------------------------------------------
(* GradientCheckpointing *)

(* A finite set of integers has a least element, the one Min names.          *)
LEMMA MinIsThere ==
  ASSUME NEW S, IsFiniteSet(S), S \subseteq Int, S # {}
  PROVE  Min(S) \in S
<1> DEFINE Has(s) == \E x \in s : \A y \in s : x <= y
           Bad == {n \in Nat : \E s \in SUBSET S : Cardinality(s) = n /\ s # {} /\ ~Has(s)}
<1>1. Bad = {}
  <2> SUFFICES ASSUME Bad # {} PROVE FALSE
    OBVIOUS
  <2>1. PICK n \in Bad : \A y \in Bad : n <= y
    BY LeastNatural
  <2>2. PICK s \in SUBSET S : Cardinality(s) = n /\ s # {} /\ ~Has(s)
    BY <2>1
  <2>3. PICK a : a \in s
    BY <2>2
  <2>4. IsFiniteSet(s) /\ s \subseteq Int /\ a \in Int /\ n \in Nat
    BY <2>1, <2>3, FS_Subset
  <2> DEFINE r == s \ {a}
  <2>5. Cardinality(r) = n - 1 /\ Cardinality(r) \in Nat /\ r \in SUBSET S
    BY <2>2, <2>3, <2>4, FS_RemoveElement, FS_CardinalityType
  <2>6. r # {}
    BY <2>2, <2>3, <2>4
  <2> HIDE DEF Has
  <2>7. Has(r)
    <3>1. n - 1 \in Nat /\ ~(n <= n - 1)
      BY <2>4, <2>5
    <3>2. n - 1 \notin Bad
      BY <2>1, <3>1
    <3> QED BY <2>5, <2>6, <3>1, <3>2
  <2>8. PICK x \in r : \A y \in r : x <= y
    BY <2>7 DEF Has
  <2>9. Has(s)
    <3>1. CASE x <= a
      BY <2>3, <2>4, <2>8, <3>1 DEF Has
    <3>2. CASE ~(x <= a)
      BY <2>3, <2>4, <2>8, <3>2 DEF Has
    <3> QED BY <3>1, <3>2
  <2> QED BY <2>2, <2>9
<1>2. Cardinality(S) \in Nat
  BY FS_CardinalityType
<1> HIDE DEF Has
<1>3. Has(S)
  BY <1>1, <1>2
<1>4. \E x \in S : \A y \in S : x <= y
  BY <1>3 DEF Has
<1> QED BY <1>4 DEF Min

LEMMA SumOfOne ==
  ASSUME NEW f, NEW a, f[a] \in Int
  PROVE  Sum(f, {a}) = f[a]
<1>1. IsFiniteSet({a}) /\ \A x \in {a} : f[x] \in Int
  BY FS_Singleton
<1>2. Sum(f, {a}) = f[a] + Sum(f, {a} \ {a})
  BY <1>1, SumWithout
<1>3. {a} \ {a} = {} /\ Sum(f, {}) = 0
  BY SumNone
<1>4. Sum(f, {a} \ {a}) = 0
  BY <1>3
<1> QED BY <1>2, <1>4

SizeOf == [i \in DOMAIN saved |-> saved[i].size]
EntriesLie ==
  /\ saved = [i \in DOMAIN saved |-> saved[i]]
  /\ IsFiniteSet(DOMAIN saved) /\ DOMAIN saved \subseteq LayerIds
  /\ \A i \in DOMAIN saved : saved[i].size \in sizes
ActTyped ==
  /\ sizes \subseteq ActBytes /\ IsFiniteSet(sizes)
  /\ doubled \in Nat /\ budget \in Int /\ highest \in Int /\ budget <= highest
  /\ bytes \in Int /\ saves \in Nat
SavesAreLatest ==
  /\ DOMAIN latest = LayerIds
  /\ \A i \in DOMAIN saved : saved[i].save = latest[i]
BytesSum == bytes = Sum(SizeOf, DOMAIN saved) + doubled

(* With one size and nothing saved over, the count passes the largest budget *)
(* only while a single entry is larger than that budget.                     *)
OneEvictionMakesRoom ==
  \A s \in sizes : sizes = {s} /\ doubled = 0 => bytes <= highest \/ bytes <= s

(* What is not there was dropped on purpose, or for want of room.            *)
LostForRoom ==
  /\ DOMAIN short = LayerIds
  /\ \A i \in LayerIds \ DOMAIN saved : latest[i] = 0 \/ short[i] > 0
ActInv == EntriesLie /\ ActTyped /\ SavesAreLatest /\ BytesSum /\ OneEvictionMakesRoom
          /\ LostForRoom

LEMMA SizesAre ==
  ASSUME ActInv
  PROVE  /\ DOMAIN SizeOf = DOMAIN saved
         /\ \A i \in DOMAIN saved : SizeOf[i] = saved[i].size /\ SizeOf[i] \in Nat
                                    /\ SizeOf[i] \in sizes
BY ActivationsAssumption DEF ActInv, EntriesLie, ActTyped, SizeOf

LEMMA ActStarts == ActInit /\ budget \in Budgets => ActInv
<1> SUFFICES ASSUME ActInit, budget \in Budgets PROVE ActInv
  OBVIOUS
<1>1. /\ saved = <<>> /\ bytes = 0 /\ highest = budget /\ budget \in Nat
      /\ saves = 0 /\ doubled = 0 /\ sizes = {}
      /\ latest = [i \in LayerIds |-> 0] /\ short = [i \in LayerIds |-> 0]
  BY ActivationsAssumption DEF ActInit
<1>2. DOMAIN saved = {}
  BY <1>1
<1>3. EntriesLie /\ SavesAreLatest
  BY <1>1, <1>2, FS_EmptySet DEF EntriesLie, SavesAreLatest
<1>4. BytesSum
  BY <1>1, <1>2, SumNone DEF BytesSum
<1>5. ActTyped /\ OneEvictionMakesRoom
  BY <1>1, FS_EmptySet DEF ActTyped, OneEvictionMakesRoom
<1>6. LostForRoom
  BY <1>1 DEF LostForRoom
<1> QED BY <1>3, <1>4, <1>5, <1>6 DEF ActInv

LEMMA SaveKeeps ==
  ASSUME ActInv, NEW i \in LayerIds, NEW size \in ActBytes, SaveActivations(i, size)
  PROVE  ActInv'
<1> DEFINE D == DOMAIN saved
           E == Evicted(size)
           K == D \ E
           f == SizeOf
           g == SizeOf'
           T == K \cup {i}
<1>1. /\ IsFiniteSet(D) /\ D \subseteq LayerIds /\ D \subseteq Int
      /\ \A j \in D : f[j] = saved[j].size /\ f[j] \in Nat /\ f[j] \in sizes
  BY SizesAre, ActivationsAssumption DEF ActInv, EntriesLie
<1>2. size \in Nat /\ doubled \in Nat /\ bytes \in Int /\ saves \in Nat
      /\ sizes \subseteq ActBytes /\ ActBytes \subseteq Nat
  BY ActivationsAssumption DEF ActInv, ActTyped
<1>3. /\ saved' = [j \in T |-> IF j = i THEN [size |-> size, save |-> saves + 1] ELSE saved[j]]
      /\ bytes' = bytes - Weight(E) + size
      /\ doubled' = doubled + Weight(K \cap {i})
      /\ saves' = saves + 1 /\ sizes' = sizes \cup {size}
      /\ latest' = [latest EXCEPT ![i] = saves + 1]
      /\ budget' = budget /\ highest' = highest
  <2>1. DOMAIN Without(saved, E) = K /\ \A j \in K : Without(saved, E)[j] = saved[j]
    BY DEF Without, Restrict
  <2> QED BY <2>1 DEF SaveActivations
<1>4. /\ DOMAIN saved' = T /\ saved'[i] = [size |-> size, save |-> saves + 1]
      /\ \A j \in T \ {i} : saved'[j] = saved[j]
  BY <1>3
<1>5. /\ DOMAIN g = T /\ g[i] = size /\ \A j \in T \ {i} : g[j] = f[j]
  BY <1>1, <1>4 DEF SizeOf
<1>6. E = {} \/ \E m \in D : E = {m}
  <2>1. CASE saved = <<>>
    BY <2>1 DEF Evicted
  <2>2. CASE saved # <<>>
    <3>1. D # {}
      <4>1. saved = [j \in D |-> saved[j]]
        BY DEF ActInv, EntriesLie
      <4> QED BY <2>2, <4>1
    <3> QED BY <1>1, <3>1, MinIsThere DEF Evicted
  <2> QED BY <2>1, <2>2
<1>7. K \subseteq D /\ IsFiniteSet(K) /\ IsFiniteSet(T)
  <2>1. IsFiniteSet(K)
    BY <1>1, FS_Subset
  <2> QED BY <2>1, FS_AddElement
<1>8. sizes' \subseteq ActBytes /\ \A j \in T : g[j] \in sizes' /\ g[j] \in Nat
  <2>1. sizes' \subseteq ActBytes
    BY <1>2, <1>3
  <2>2. \A j \in T : g[j] \in sizes'
    BY <1>1, <1>3, <1>5, <1>7
  <2> QED BY <1>2, <2>1, <2>2
<1> HIDE DEF E, f, g
<1>9. /\ Weight(E) \in Nat /\ Sum(f, K) \in Int /\ Sum(f, D) = Sum(f, K) + Weight(E)
      /\ \A m \in D : E = {m} => Weight(E) = f[m]
  <2>1. \A ids : Weight(ids) = Sum(f, ids)
    BY DEF Weight, Sum, SizeOf, f
  <2>2. Sum(f, D) \in Int /\ Sum(f, K) \in Int
    <3>1. /\ \A j \in D : f[j] \in Int
          /\ \A j \in K : f[j] \in Int
      BY <1>1, <1>7
    <3> HIDE DEF D, K
    <3> QED BY <1>1, <1>7, <3>1, SumWithout
  <2>3. CASE E = {}
    <3>1. Sum(f, E) = 0 /\ K = D
      BY <2>3, SumNone
    <3> HIDE DEF D, K
    <3> QED BY <2>1, <2>2, <2>3, <3>1
  <2>4. ASSUME NEW m \in D, E = {m} PROVE Weight(E) = f[m] /\ Sum(f, D) = Sum(f, K) + Weight(E)
    <3>1. f[m] \in Int /\ K = D \ {m} /\ \A j \in D : f[j] \in Int
      BY <1>1, <2>4
    <3>2. Sum(f, {m}) = f[m]
      BY <3>1, SumOfOne
    <3> HIDE DEF D, K
    <3>3. Sum(f, D) = f[m] + Sum(f, D \ {m})
      <4>1. IsFiniteSet(D) /\ m \in D
        BY <1>1
      <4> QED BY ONLY <3>1, <4>1, SumWithout
    <3> QED BY <2>1, <2>2, <2>4, <3>1, <3>2, <3>3
  <2>5. \A m \in D : f[m] \in Nat
    BY <1>1
  <2>6. E = {} => Weight(E) = 0
    BY <2>1, SumNone
  <2> HIDE DEF D, K
  <2> QED BY <1>6, <2>2, <2>3, <2>4, <2>5, <2>6
<1>10. /\ Sum(g, T) \in Int /\ Weight(K \cap {i}) \in Nat
       /\ Sum(f, K) - Weight(K \cap {i}) = Sum(g, T) - size
  <2>1. /\ \A j \in K \ {i} : f[j] = g[j]
        /\ \A j \in K : f[j] \in Int
        /\ \A j \in T : g[j] \in Int
        /\ K \ {i} = T \ {i}
    BY <1>1, <1>5, <1>7, <1>8
  <2>2. Part(g, T, i) = size
    BY <1>5 DEF Part
  <2>3. Weight(K \cap {i}) = Part(f, K, i) /\ Part(f, K, i) \in Nat
    <3>1. \A ids : Weight(ids) = Sum(f, ids)
      BY DEF Weight, Sum, SizeOf, f
    <3>2. CASE i \in K
      <4>1. K \cap {i} = {i} /\ f[i] \in Nat /\ f[i] \in Int
        BY <1>1, <1>7, <3>2
      <4>2. Sum(f, {i}) = f[i]
        BY <4>1, SumOfOne
      <4> QED BY <3>1, <3>2, <4>1, <4>2 DEF Part
    <3>3. CASE i \notin K
      <4>1. K \cap {i} = {} /\ Sum(f, {}) = 0
        BY <3>3, SumNone
      <4> QED BY <3>1, <3>3, <4>1 DEF Part
    <3> QED BY <3>2, <3>3
  <2> HIDE DEF D, K, T
  <2>4. /\ Sum(f, K) \in Int /\ Sum(g, T) \in Int
        /\ Sum(f, K) - Part(f, K, i) = Sum(g, T) - Part(g, T, i)
    <3>1. IsFiniteSet(K) /\ IsFiniteSet(T)
      BY <1>7
    <3>2. /\ IsFiniteSet(K) /\ IsFiniteSet(T) /\ K \ {i} = T \ {i}
          /\ \A x \in K : f[x] \in Int
          /\ \A x \in T : g[x] \in Int
          /\ \A x \in K \ {i} : f[x] = g[x]
      BY <2>1, <3>1, Zenon
    <3> QED BY ONLY <3>2, SumDiffers
  <2> QED BY <2>2, <2>3, <2>4
<1>11. BytesSum'
  <2>1. DOMAIN saved' = T /\ bytes = Sum(f, D) + doubled
    BY <1>4 DEF ActInv, BytesSum, f
  <2>2. bytes' = Sum(g, T) + doubled'
    <3> DEFINE we == Weight(E)
               wi == Weight(K \cap {i})
               sk == Sum(f, K)
               sd == Sum(f, D)
               st == Sum(g, T)
    <3> HIDE DEF we, wi, sk, sd, st
    <3>1. /\ we \in Nat /\ wi \in Nat /\ sk \in Int /\ st \in Int
          /\ sd = sk + we /\ sk - wi = st - size /\ bytes = sd + doubled
      BY <1>9, <1>10, <2>1 DEF we, wi, sk, sd, st
    <3>2. bytes' = bytes - we + size /\ doubled' = doubled + wi
      BY <1>3 DEF we, wi
    <3>3. bytes' = st + doubled'
      BY <1>2, <3>1, <3>2
    <3> QED BY <3>3 DEF st
  <2> QED BY <2>1, <2>2 DEF BytesSum, g
<1>12. EntriesLie'
  <2>1. saved' = [j \in DOMAIN saved' |-> saved'[j]]
    BY <1>3
  <2>2. DOMAIN saved' = T /\ T \subseteq LayerIds
    BY <1>1, <1>4
  <2>3. \A j \in DOMAIN saved' : saved'[j].size \in sizes'
    BY <1>8, <2>2 DEF g, SizeOf
  <2> QED BY <1>7, <2>1, <2>2, <2>3 DEF EntriesLie
<1>13. ActTyped'
  <2>1. doubled + Weight(K \cap {i}) \in Nat /\ bytes - Weight(E) + size \in Int
    BY <1>2, <1>9, <1>10
  <2>2. IsFiniteSet(sizes \cup {size})
    BY FS_AddElement DEF ActInv, ActTyped
  <2> QED BY <1>2, <1>3, <1>8, <2>1, <2>2 DEF ActInv, ActTyped
<1>14. SavesAreLatest'
  <2>1. /\ DOMAIN latest = LayerIds
        /\ \A j \in D : saved[j].save = latest[j]
    BY DEF ActInv, SavesAreLatest
  <2>2. /\ DOMAIN latest' = LayerIds /\ latest'[i] = saves + 1
        /\ \A j \in T \ {i} : latest'[j] = latest[j]
    BY <1>1, <1>3, <2>1
  <2>3. \A j \in T : saved'[j].save = latest'[j]
    <3>1. saved'[i].save = saves + 1
      BY <1>4
    <3> QED BY <1>4, <2>1, <2>2, <3>1
  <2> QED BY <1>4, <2>2, <2>3 DEF SavesAreLatest
<1>15. OneEvictionMakesRoom'
  <2> SUFFICES ASSUME NEW s \in sizes', sizes' = {s}, doubled' = 0
               PROVE  bytes' <= highest' \/ bytes' <= s
    BY DEF OneEvictionMakesRoom
  <2>1. s = size /\ sizes \subseteq {s}
    BY <1>3
  <2>2. doubled = 0
    BY <1>2, <1>3, <1>10
  <2>3. /\ budget \in Int /\ highest \in Int /\ budget <= highest
        /\ bytes' = bytes - Weight(E) + size /\ highest' = highest
    BY <1>3 DEF ActInv, ActTyped
  <2>4. ASSUME NEW m \in D, E = {m} PROVE bytes' <= highest' \/ bytes' <= s
    <3>1. f[m] = s /\ sizes = {s}
      BY <1>1, <2>1
    <3>2. bytes <= highest \/ bytes <= s
      BY <2>2, <3>1 DEF ActInv, OneEvictionMakesRoom
    <3>3. Weight(E) = size
      BY <1>9, <2>1, <2>4, <3>1
    <3>4. bytes' = bytes
      BY <1>2, <2>3, <3>3
    <3> QED BY <2>3, <3>2, <3>4
  <2>5. CASE E = {}
    <3>1. Weight(E) = 0
      <4>1. Weight(E) = Sum(f, E)
        BY DEF Weight, Sum, SizeOf, f
      <4> QED BY <2>5, <4>1, SumNone
    <3>2. bytes' = bytes + size
      BY <1>2, <2>3, <3>1
    <3>3. ~(bytes + size > budget) \/ saved = <<>>
      BY <2>5 DEF E, Evicted
    <3>4. CASE ~(bytes + size > budget)
      BY <1>2, <2>3, <3>2, <3>4
    <3>5. CASE saved = <<>>
      <4>1. bytes = Sum(f, {}) + doubled
        BY <3>5 DEF ActInv, BytesSum, f
      <4>2. bytes = 0
        BY <2>2, <4>1, SumNone
      <4> QED BY <1>2, <2>1, <3>2, <4>2
    <3> QED BY <3>3, <3>4, <3>5
  <2> QED BY <1>6, <2>4, <2>5
<1>16. LostForRoom'
  <2>1. /\ short' = [j \in LayerIds |-> IF j = i THEN 0
                       ELSE IF j \in E THEN Lacking(size) ELSE short[j]]
        /\ DOMAIN latest = LayerIds
    BY DEF SaveActivations, E, ActInv, SavesAreLatest
  <2>2. ASSUME NEW j \in LayerIds \ DOMAIN saved' PROVE latest'[j] = 0 \/ short'[j] > 0
    <3>1. j # i /\ j \notin K /\ latest'[j] = latest[j]
      BY <1>3, <1>4, <2>1, <2>2
    <3>2. CASE j \in E
      <4>1. bytes + size > budget
        BY <3>2 DEF E, Evicted
      <4>2. bytes = Weight(DOMAIN saved) + doubled
        BY DEF ActInv, BytesSum, Weight, Sum, SizeOf
      <4>3. short'[j] = Lacking(size)
        BY <2>1, <2>2, <3>1, <3>2
      <4>4. Weight(DOMAIN saved) \in Int
        <5>1. Weight(DOMAIN saved) = Sum(f, D)
          BY DEF Weight, Sum, SizeOf, f
        <5>2. Sum(f, D) = Sum(f, K) + Weight(E) /\ Sum(f, K) \in Int /\ Weight(E) \in Nat
          BY <1>9
        <5> QED BY <5>1, <5>2
      <4>5. budget \in Int
        BY DEF ActInv, ActTyped
      <4> DEFINE w == Weight(DOMAIN saved)
      <4>6. Lacking(size) = w + doubled + size - budget
        BY DEF Lacking
      <4> HIDE DEF w
      <4>7. w \in Int /\ bytes = w + doubled
        BY <4>2, <4>4 DEF w
      <4>8. Lacking(size) > 0
        BY <1>2, <4>1, <4>5, <4>6, <4>7
      <4> QED BY <4>3, <4>8
    <3>3. CASE j \notin E
      <4>1. j \in LayerIds \ DOMAIN saved /\ short'[j] = short[j]
        BY <2>1, <2>2, <3>1, <3>3
      <4> QED BY <3>1, <4>1 DEF ActInv, LostForRoom
    <3> QED BY <3>2, <3>3
  <2> QED BY <2>1, <2>2 DEF LostForRoom
<1> QED BY <1>11, <1>12, <1>13, <1>14, <1>15, <1>16 DEF ActInv

LEMMA FreeKeeps ==
  ASSUME ActInv, NEW i \in LayerIds, FreeActivations(i)
  PROVE  ActInv'
<1> DEFINE D == DOMAIN saved
           K == D \ {i}
           f == SizeOf
           g == SizeOf'
<1>1. /\ IsFiniteSet(D) /\ D \subseteq LayerIds /\ i \in D
      /\ \A j \in D : f[j] = saved[j].size /\ f[j] \in Nat /\ f[j] \in sizes
  BY SizesAre DEF ActInv, EntriesLie, FreeActivations
<1>2. /\ saved' = [j \in K |-> saved[j]] /\ bytes' = bytes - f[i]
      /\ latest' = [latest EXCEPT ![i] = 0] /\ short' = short
      /\ budget' = budget /\ saves' = saves /\ doubled' = doubled
      /\ sizes' = sizes /\ highest' = highest
  BY <1>1 DEF FreeActivations, Without, Restrict
<1>3. /\ DOMAIN saved' = K /\ \A j \in K : saved'[j] = saved[j]
      /\ \A j \in K : g[j] = f[j]
  <2>1. DOMAIN saved' = K /\ \A j \in K : saved'[j] = saved[j]
    BY <1>2
  <2> QED BY <1>1, <2>1 DEF SizeOf
<1>4. IsFiniteSet(K)
  BY <1>1, FS_Subset
<1> HIDE DEF f, g
<1>5. Sum(f, D) = f[i] + Sum(f, K) /\ Sum(f, K) \in Int /\ Sum(f, K) = Sum(g, K)
  <2>1. /\ \A j \in D : f[j] \in Int
        /\ \A j \in K : f[j] \in Int
    BY <1>1
  <2>2. Sum(f, D) = f[i] + Sum(f, D \ {i})
    <3> HIDE DEF D, K
    <3> QED BY <1>1, <2>1, SumWithout
  <2>3. Sum(f, K) \in Int
    <3> HIDE DEF D, K
    <3> QED BY <1>4, <2>1, SumWithout
  <2>4. Sum(f, K) = Sum(g, K)
    <3> HIDE DEF D, K
    <3> QED BY <1>3, <1>4, SumSame
  <2> QED BY <2>2, <2>3, <2>4
<1>6. f[i] \in Nat /\ doubled \in Nat /\ bytes \in Int
  BY <1>1 DEF ActInv, ActTyped
<1>7. BytesSum'
  <2>1. bytes = Sum(f, D) + doubled
    BY DEF ActInv, BytesSum, f
  <2> DEFINE sk == Sum(f, K)
             sd == Sum(f, D)
             fi == f[i]
  <2> HIDE DEF sk, sd, fi
  <2>2. fi \in Nat /\ sk \in Int /\ sd = fi + sk /\ bytes = sd + doubled /\ bytes' = bytes - fi
    BY <1>2, <1>5, <1>6, <2>1 DEF sk, sd, fi
  <2>3. bytes' = sk + doubled
    BY <1>6, <2>2
  <2> QED BY <1>2, <1>3, <1>5, <2>3 DEF BytesSum, g, sk
<1>8. EntriesLie'
  <2>1. saved' = [j \in DOMAIN saved' |-> saved'[j]]
    BY <1>2
  <2> QED BY <1>1, <1>2, <1>3, <1>4, <2>1 DEF ActInv, EntriesLie
<1>9. ActTyped'
  <2>1. bytes - f[i] \in Int
    BY <1>6
  <2> QED BY <1>2, <2>1 DEF ActInv, ActTyped
<1>10. SavesAreLatest'
  BY <1>1, <1>2, <1>3 DEF ActInv, SavesAreLatest
<1>11. OneEvictionMakesRoom'
  <2> SUFFICES ASSUME NEW s \in sizes, sizes = {s}, doubled = 0
               PROVE  bytes' <= highest \/ bytes' <= s
    BY <1>2 DEF OneEvictionMakesRoom
  <2>1. bytes <= highest \/ bytes <= s
    BY DEF ActInv, OneEvictionMakesRoom
  <2>2. highest \in Int /\ s \in Nat
    BY ActivationsAssumption DEF ActInv, ActTyped
  <2> DEFINE fi == f[i]
  <2>3. fi \in Nat /\ bytes' = bytes - fi
    BY <1>2, <1>6
  <2> HIDE DEF fi
  <2> QED BY <1>6, <2>1, <2>2, <2>3
<1>12. LostForRoom'
  <2>1. DOMAIN latest = LayerIds /\ LostForRoom
    BY DEF ActInv, SavesAreLatest
  <2>2. \A j \in LayerIds : latest'[j] = IF j = i THEN 0 ELSE latest[j]
    BY <1>2, <2>1
  <2> QED BY <1>2, <1>3, <2>1, <2>2 DEF LostForRoom
<1> QED BY <1>7, <1>8, <1>9, <1>10, <1>11, <1>12 DEF ActInv

LEMMA ClearKeeps == ActInv /\ ClearActivations => ActInv'
<1> SUFFICES ASSUME ActInv, ClearActivations PROVE ActInv'
  OBVIOUS
<1>1. /\ saved' = <<>> /\ bytes' = 0 /\ doubled' = 0 /\ latest' = [i \in LayerIds |-> 0]
      /\ budget' = budget /\ saves' = saves /\ sizes' = sizes /\ highest' = highest
      /\ short' = short
  BY DEF ClearActivations
<1>2. DOMAIN saved' = {}
  BY <1>1
<1>3. EntriesLie' /\ SavesAreLatest'
  BY <1>1, <1>2, FS_EmptySet DEF EntriesLie, SavesAreLatest
<1>4. BytesSum'
  <2>1. Sum(SizeOf', {}) = 0
    BY SumNone
  <2> QED BY <1>1, <1>2, <2>1 DEF BytesSum
<1>5. ActTyped'
  BY <1>1 DEF ActInv, ActTyped
<1>6. OneEvictionMakesRoom'
  BY <1>1, ActivationsAssumption DEF ActInv, ActTyped, OneEvictionMakesRoom
<1>7. LostForRoom'
  BY <1>1 DEF ActInv, LostForRoom
<1> QED BY <1>3, <1>4, <1>5, <1>6, <1>7 DEF ActInv

LEMMA BudgetKeeps ==
  ASSUME ActInv, NEW b \in Budgets, SetBudget(b)
  PROVE  ActInv'
<1>1. /\ b \in Int /\ highest \in Int /\ bytes \in Int
      /\ budget' = b /\ highest' = Max({highest, b})
      /\ UNCHANGED <<saved, bytes, saves, latest, doubled, short, sizes>>
  BY ActivationsAssumption DEF SetBudget, ActInv, ActTyped
<1>2. highest' \in Int /\ highest' >= highest /\ highest' >= b
  <2>1. /\ Max({highest, b}) \in {highest, b}
        /\ Max({highest, b}) >= highest /\ Max({highest, b}) >= b
    BY <1>1, MaxOfTwo
  <2> QED BY <1>1, <2>1
<1>3. EntriesLie' /\ SavesAreLatest' /\ BytesSum' /\ LostForRoom'
  BY <1>1 DEF ActInv, EntriesLie, SavesAreLatest, BytesSum, SizeOf, LostForRoom
<1>4. ActTyped'
  BY <1>1, <1>2 DEF ActInv, ActTyped
<1>5. OneEvictionMakesRoom'
  BY <1>1, <1>2, ActivationsAssumption DEF ActInv, ActTyped, OneEvictionMakesRoom
<1> QED BY <1>3, <1>4, <1>5 DEF ActInv

LEMMA ActStep == ActInv /\ [ActNext]_actVars => ActInv'
<1> SUFFICES ASSUME ActInv, [ActNext]_actVars PROVE ActInv'
  OBVIOUS
<1>1. CASE UNCHANGED actVars
  BY <1>1 DEF actVars, ActInv, EntriesLie, ActTyped, SavesAreLatest, BytesSum, SizeOf,
              OneEvictionMakesRoom, LostForRoom
<1> QED BY <1>1, SaveKeeps, FreeKeeps, ClearKeeps, BudgetKeeps DEF ActNext

LEMMA ActIsSafe == ActInv => BytesExact /\ RestoresLatest
<1> SUFFICES ASSUME ActInv PROVE BytesExact /\ RestoresLatest
  OBVIOUS
<1>1. RestoresLatest
  BY DEF RestoresLatest, Restored, ActInv, SavesAreLatest, LostForRoom
<1>2. bytes = Weight(DOMAIN saved) + doubled
  BY DEF ActInv, BytesSum, Weight, Sum, SizeOf
<1>3. ASSUME Cardinality(sizes) = 1, doubled = 0, Max(sizes) <= highest
      PROVE  bytes <= highest
  <2>1. PICK s : sizes = {s}
    <3>1. IsFiniteSet(sizes)
      BY DEF ActInv, ActTyped
    <3> QED BY <1>3, <3>1, FS_Singleton
  <2>2. s \in Nat /\ bytes \in Int /\ highest \in Int
    BY <2>1, ActivationsAssumption DEF ActInv, ActTyped
  <2>3. Max({s}) = s
    <3>1. \E x \in {s} : \A y \in {s} : x >= y
      BY <2>2
    <3> QED BY <3>1 DEF Max
  <2>4. bytes <= highest \/ bytes <= s
    BY <1>3, <2>1 DEF ActInv, OneEvictionMakesRoom
  <2> QED BY <1>3, <2>1, <2>2, <2>3, <2>4
<1> QED BY <1>1, <1>2, <1>3 DEF BytesExact

-----------------------------------------------------------------------------
(* UnifiedMemory *)

BlockSize == [k \in DOMAIN umBlocks |-> umBlocks[k].size]
BlocksIn(where) == {k \in DOMAIN umBlocks : umBlocks[k].location \in where}
BytesIn(where) == Sum(BlockSize, BlocksIn(where))
UsageByMemory ==
  ~migrations.any => \A l \in {"CPU", "GPU"} : usage[l] = BytesIn({l}) % UsageWord
UsageInTotal ==
  ~cuda /\ ~migrations.unified =>
    (usage["CPU"] + usage["GPU"]) % UsageWord = BytesIn(Locations) % UsageWord

LEMMA UsageIs == UsageExact <=> UsageByMemory /\ UsageInTotal
BY DEF UsageExact, UsageByMemory, UsageInTotal, BytesIn, BlockSize, BlocksIn, Sum

BlocksTyped ==
  /\ umBlocks = [k \in DOMAIN umBlocks |-> umBlocks[k]]
  /\ IsFiniteSet(DOMAIN umBlocks)
  /\ \A k \in DOMAIN umBlocks :
        umBlocks[k] \in [ptr : live, size : BlockSizes, location : Locations]
UsageTyped ==
  /\ cuda \in BOOLEAN /\ migrations \in [any : BOOLEAN, unified : BOOLEAN]
  /\ usage = [l \in {"CPU", "GPU"} |-> usage[l]]
  /\ \A l \in {"CPU", "GPU"} : usage[l] \in Int

(* A block is still where its key says unless a migration with CUDA moved it. *)
KeysArePointers ==
  ~cuda \/ ~migrations.any => \A k \in DOMAIN umBlocks : umBlocks[k].ptr = k
UmInv == /\ BlocksTyped /\ UsageTyped /\ KeysArePointers /\ BlocksApart
         /\ UsageByMemory /\ UsageInTotal

LEMMA UmStarts == UmInit => UmInv
<1> SUFFICES ASSUME UmInit PROVE UmInv
  OBVIOUS
<1>1. /\ cuda \in BOOLEAN /\ umBlocks = <<>> /\ live = {} /\ usage = [CPU |-> 0, GPU |-> 0]
      /\ migrations = [any |-> FALSE, unified |-> FALSE]
  BY DEF UmInit
<1>2. DOMAIN umBlocks = {} /\ usage["CPU"] = 0 /\ usage["GPU"] = 0
  BY <1>1
<1>3. BlocksTyped
  BY <1>1, <1>2, FS_EmptySet DEF BlocksTyped
<1>4. UsageTyped
  BY <1>1, <1>2 DEF UsageTyped
<1>5. KeysArePointers /\ BlocksApart
  BY <1>2 DEF KeysArePointers, BlocksApart
<1>6. 0 % UsageWord = 0
  BY UnifiedAssumption, NoRemainder
<1>7. \A where : BytesIn(where) = 0
  <2>1. \A where : BlocksIn(where) = {}
    BY <1>2 DEF BlocksIn
  <2> QED BY <2>1, SumNone DEF BytesIn
<1>8. UsageByMemory /\ UsageInTotal
  BY <1>2, <1>6, <1>7 DEF UsageByMemory, UsageInTotal
<1> QED BY <1>3, <1>4, <1>5, <1>8 DEF UmInv

(* Adding n to one counter moves the total of both by n.                     *)
TotalShifts(c, g, s, n, d) ==
  (c + g) % d = s % d => (((c + n) % d) + g) % d = (s + n) % d
LEMMA TotalShift ==
  ASSUME NEW c \in Int, NEW g \in Int, NEW s \in Int, NEW n \in Int, NEW d \in Nat \ {0}
  PROVE  TotalShifts(c, g, s, n, d)
<1> SUFFICES ASSUME (c + g) % d = s % d
             PROVE  (((c + n) % d) + g) % d = (s + n) % d
  BY DEF TotalShifts
<1>1. (((c + n) % d) + g) % d = ((c + n) + g) % d
  <2>1. c + n \in Int
    OBVIOUS
  <2> QED BY ONLY <2>1, g \in Int, d \in Nat \ {0}, RemainderShift
<1>2. (((c + g) % d) + n) % d = ((c + g) + n) % d
  <2>1. c + g \in Int
    OBVIOUS
  <2> QED BY ONLY <2>1, n \in Int, d \in Nat \ {0}, RemainderShift
<1>3. ((s % d) + n) % d = (s + n) % d
  BY RemainderShift
<1>4. (c + n) + g = (c + g) + n
  OBVIOUS
<1> QED BY <1>1, <1>2, <1>3, <1>4, Zenon

(* What an operation on one key does to the bytes of a memory.               *)
LEMMA BytesMove ==
  ASSUME UmInv, BlocksTyped', NEW k, NEW where,
         DOMAIN umBlocks \ {k} = DOMAIN umBlocks' \ {k},
         \A j \in DOMAIN umBlocks \ {k} : umBlocks'[j] = umBlocks[j]
  PROVE  /\ BytesIn(where) \in Int /\ BytesIn(where)' \in Int
         /\ BytesIn(where)' - Part(BlockSize', BlocksIn(where)', k)
            = BytesIn(where) - Part(BlockSize, BlocksIn(where), k)
<1> DEFINE f == BlockSize
           g == BlockSize'
           S == BlocksIn(where)
           T == BlocksIn(where)'
<1>1. /\ IsFiniteSet(S) /\ \A j \in S : f[j] \in Int
  BY UnifiedAssumption, FS_Subset DEF UmInv, BlocksTyped, BlocksIn, BlockSize
<1>2. /\ IsFiniteSet(T) /\ \A j \in T : g[j] \in Int
  BY UnifiedAssumption, FS_Subset DEF BlocksTyped, BlocksIn, BlockSize
<1>3. S \ {k} = T \ {k}
  BY DEF BlocksIn
<1>4. \A j \in S \ {k} : f[j] = g[j]
  BY DEF BlocksIn, BlockSize
<1>5. BytesIn(where) = Sum(f, S) /\ BytesIn(where)' = Sum(g, T)
  BY DEF BytesIn
<1> HIDE DEF f, g, S, T
<1>6. /\ IsFiniteSet(S) /\ IsFiniteSet(T) /\ S \ {k} = T \ {k}
      /\ \A x \in S : f[x] \in Int
      /\ \A x \in T : g[x] \in Int
      /\ \A x \in S \ {k} : f[x] = g[x]
  BY <1>1, <1>2, <1>3, <1>4
<1>7. /\ Sum(f, S) \in Int /\ Sum(g, T) \in Int
      /\ Sum(f, S) - Part(f, S, k) = Sum(g, T) - Part(g, T, k)
  BY ONLY <1>6, SumDiffers
<1> QED BY <1>5, <1>7 DEF f, g, S, T

LEMMA UmAllocateKeeps ==
  ASSUME UmInv, NEW size \in BlockSizes, NEW preferred \in Locations, UmAllocate(size, preferred)
  PROVE  UmInv'
<1>1. PICK location, p :
        /\ location \in Granting(preferred) /\ p \notin live
        /\ live' = live \cup {p}
        /\ umBlocks' = [k \in DOMAIN umBlocks \cup {p} |->
              IF k = p THEN [ptr |-> p, size |-> size, location |-> location] ELSE umBlocks[k]]
        /\ usage' = Added(usage, location, size)
        /\ cuda' = cuda /\ migrations' = migrations
  BY DEF UmAllocate
<1>2. location \in Locations /\ (~cuda => location = "CPU")
  BY <1>1 DEF Granting, Locations
<1>3. size \in Int /\ UsageWord \in Nat \ {0}
  BY UnifiedAssumption
<1>4. /\ DOMAIN umBlocks' = DOMAIN umBlocks \cup {p}
      /\ umBlocks'[p] = [ptr |-> p, size |-> size, location |-> location]
      /\ \A j \in DOMAIN umBlocks \ {p} : umBlocks'[j] = umBlocks[j]
  BY <1>1
<1>5. /\ IsFiniteSet(DOMAIN umBlocks)
      /\ \A j \in DOMAIN umBlocks :
            umBlocks[j] \in [ptr : live, size : BlockSizes, location : Locations]
  BY DEF UmInv, BlocksTyped
<1>6. BlocksTyped'
  <2>1. umBlocks' = [k \in DOMAIN umBlocks' |-> umBlocks'[k]]
    BY <1>1
  <2>2. IsFiniteSet(DOMAIN umBlocks')
    BY <1>4, <1>5, FS_AddElement
  <2>3. ASSUME NEW k \in DOMAIN umBlocks'
        PROVE  umBlocks'[k] \in [ptr : live', size : BlockSizes, location : Locations]
    <3>1. CASE k = p
      BY <1>1, <1>2, <1>4, <3>1
    <3>2. CASE k # p
      BY <1>1, <1>4, <1>5, <3>2
    <3> QED BY <3>1, <3>2
  <2> QED BY <2>1, <2>2, <2>3 DEF BlocksTyped
<1>7. UsageTyped'
  <2>1. \A l \in {"CPU", "GPU"} : usage[l] \in Int
    BY DEF UmInv, UsageTyped
  <2>2. \A l \in {"CPU", "GPU"} : (usage[l] + size) % UsageWord \in Int
    BY <1>3, <2>1
  <2>3. /\ usage' = [l \in {"CPU", "GPU"} |-> usage'[l]]
        /\ \A l \in {"CPU", "GPU"} : usage'[l] \in Int
    BY <1>1, <2>1, <2>2 DEF Added
  <2> QED BY <1>1, <2>3 DEF UmInv, UsageTyped
<1>8. KeysArePointers'
  BY <1>1, <1>4 DEF UmInv, KeysArePointers
<1>9. BlocksApart'
  <2>1. p \notin live /\ \A j \in DOMAIN umBlocks : umBlocks[j].ptr \in live
    BY <1>1, <1>5
  <2> SUFFICES ASSUME NEW k \in DOMAIN umBlocks'
               PROVE  /\ umBlocks'[k].ptr \in live'
                      /\ \A j \in DOMAIN umBlocks' \ {k} : umBlocks'[j].ptr # umBlocks'[k].ptr
    BY DEF BlocksApart
  <2>2. CASE k = p
    BY <1>1, <1>4, <2>1, <2>2
  <2>3. CASE k # p
    BY <1>1, <1>4, <2>1, <2>3 DEF UmInv, BlocksApart
  <2> QED BY <2>2, <2>3
<1>10. ASSUME ~cuda \/ ~migrations.any, NEW where
       PROVE  /\ BytesIn(where) \in Int /\ BytesIn(where)' \in Int
              /\ BytesIn(where)' = BytesIn(where) + (IF location \in where THEN size ELSE 0)
  <2>1. p \notin DOMAIN umBlocks
    BY <1>1, <1>5, <1>10 DEF UmInv, KeysArePointers
  <2>2. Part(BlockSize, BlocksIn(where), p) = 0
    BY <2>1 DEF Part, BlocksIn
  <2>3. p \in BlocksIn(where)' <=> location \in where
    BY <1>4 DEF BlocksIn
  <2>4. BlockSize'[p] = size
    BY <1>4 DEF BlockSize
  <2>5. Part(BlockSize', BlocksIn(where)', p) = IF location \in where THEN size ELSE 0
    BY <2>3, <2>4 DEF Part
  <2>6. DOMAIN umBlocks \ {p} = DOMAIN umBlocks' \ {p}
    BY <1>4
  <2>7. /\ BytesIn(where) \in Int /\ BytesIn(where)' \in Int
        /\ BytesIn(where)' - Part(BlockSize', BlocksIn(where)', p)
           = BytesIn(where) - Part(BlockSize, BlocksIn(where), p)
    BY <1>4, <1>6, <2>6, BytesMove
  <2> DEFINE now == BytesIn(where)'
             was == BytesIn(where)
  <2> HIDE DEF now, was
  <2>8. now \in Int /\ was \in Int /\ now - (IF location \in where THEN size ELSE 0) = was
    <3>1. now \in Int /\ was \in Int /\ now - (IF location \in where THEN size ELSE 0) = was - 0
      BY <2>2, <2>5, <2>7, Zenon DEF now, was
    <3> QED BY <3>1
  <2>9. now = was + (IF location \in where THEN size ELSE 0)
    BY <1>3, <2>8
  <2> QED BY <2>8, <2>9 DEF now, was
<1>11. UsageByMemory'
  <2> SUFFICES ASSUME ~migrations.any, NEW l \in {"CPU", "GPU"}
               PROVE  usage'[l] = BytesIn({l})' % UsageWord
    BY <1>1 DEF UsageByMemory, BytesIn, BlockSize, BlocksIn
  <2>1. /\ BytesIn({l}) \in Int
        /\ BytesIn({l})' = BytesIn({l}) + (IF location \in {l} THEN size ELSE 0)
    BY <1>10
  <2>2. usage[l] = BytesIn({l}) % UsageWord
    BY DEF UmInv, UsageByMemory
  <2>3. usage'[l] = IF l = location THEN (usage[l] + size) % UsageWord ELSE usage[l]
    BY <1>1 DEF Added
  <2> DEFINE was == BytesIn({l})
  <2>4. ((was % UsageWord) + size) % UsageWord = (was + size) % UsageWord
    BY <1>3, <2>1, RemainderShift
  <2>5. CASE l = location
    BY <2>1, <2>2, <2>3, <2>4, <2>5
  <2>6. CASE l # location
    <3> HIDE DEF was
    <3>1. was \in Int /\ BytesIn({l})' = was
      BY <2>1, <2>6 DEF was
    <3> QED BY <2>2, <2>3, <2>6, <3>1 DEF was
  <2> QED BY <2>5, <2>6
<1>12. UsageInTotal'
  <2> SUFFICES ASSUME ~cuda, ~migrations.unified
               PROVE  (usage'["CPU"] + usage'["GPU"]) % UsageWord = BytesIn(Locations)' % UsageWord
    BY <1>1 DEF UsageInTotal, BytesIn, BlockSize, BlocksIn
  <2>1. BytesIn(Locations) \in Int /\ BytesIn(Locations)' = BytesIn(Locations) + size
    BY <1>2, <1>10
  <2>2. (usage["CPU"] + usage["GPU"]) % UsageWord = BytesIn(Locations) % UsageWord
    BY DEF UmInv, UsageInTotal
  <2>3. usage["CPU"] \in Int /\ usage["GPU"] \in Int
    BY DEF UmInv, UsageTyped
  <2>4. usage'["CPU"] = (usage["CPU"] + size) % UsageWord /\ usage'["GPU"] = usage["GPU"]
    BY <1>1, <1>2 DEF Added
  <2> DEFINE c == usage["CPU"]
             g == usage["GPU"]
             s == BytesIn(Locations)
  <2> HIDE DEF c, g, s
  <2>5. c \in Int /\ g \in Int /\ s \in Int /\ (c + g) % UsageWord = s % UsageWord
    BY <2>1, <2>2, <2>3 DEF c, g, s
  <2>6. (((c + size) % UsageWord) + g) % UsageWord = (s + size) % UsageWord
    <3>1. TotalShifts(c, g, s, size, UsageWord)
      BY ONLY <1>3, <2>5, TotalShift
    <3> QED BY <2>5, <3>1, Zenon DEF TotalShifts
  <2> QED BY <2>1, <2>4, <2>6 DEF c, g, s
<1> QED BY <1>6, <1>7, <1>8, <1>9, <1>11, <1>12 DEF UmInv

LEMMA UmDeallocateKeeps ==
  ASSUME UmInv, NEW k \in DOMAIN umBlocks, UmDeallocate(k)
  PROVE  UmInv'
<1> DEFINE location == umBlocks[k].location
           size == umBlocks[k].size
<1>1. /\ live' = AfterFree(location, umBlocks[k].ptr)
      /\ usage' = Added(usage, location, -size)
      /\ umBlocks' = [j \in DOMAIN umBlocks \ {k} |-> umBlocks[j]]
      /\ migrations' = [migrations EXCEPT !.unified = @ \/ location = "UNIFIED"]
      /\ cuda' = cuda
  BY DEF UmDeallocate, Restrict
<1>2. /\ IsFiniteSet(DOMAIN umBlocks)
      /\ \A j \in DOMAIN umBlocks :
            umBlocks[j] \in [ptr : live, size : BlockSizes, location : Locations]
  BY DEF UmInv, BlocksTyped
<1>3. size \in Int /\ UsageWord \in Nat \ {0} /\ location \in Locations /\ -size \in Int
  <2>1. size \in Nat /\ location \in Locations
    BY <1>2, UnifiedAssumption
  <2> HIDE DEF size
  <2> QED BY <2>1, UnifiedAssumption
<1>4. /\ DOMAIN umBlocks' = DOMAIN umBlocks \ {k}
      /\ \A j \in DOMAIN umBlocks \ {k} : umBlocks'[j] = umBlocks[j]
  BY <1>1
<1>5. \A j \in DOMAIN umBlocks \ {k} : umBlocks[j].ptr \in live'
  <2>1. live \ {umBlocks[k].ptr} \subseteq live'
    BY <1>1 DEF AfterFree
  <2>2. \A j \in DOMAIN umBlocks \ {k} : umBlocks[j].ptr \in live
                                         /\ umBlocks[j].ptr # umBlocks[k].ptr
    BY DEF UmInv, BlocksApart
  <2> QED BY <2>1, <2>2
<1>6. BlocksTyped'
  <2>1. umBlocks' = [j \in DOMAIN umBlocks' |-> umBlocks'[j]]
    BY <1>1
  <2>2. IsFiniteSet(DOMAIN umBlocks')
    BY <1>2, <1>4, FS_Subset
  <2>3. \A j \in DOMAIN umBlocks' :
          umBlocks'[j] \in [ptr : live', size : BlockSizes, location : Locations]
    BY <1>2, <1>4, <1>5
  <2> QED BY <2>1, <2>2, <2>3 DEF BlocksTyped
<1>7. /\ migrations' \in [any : BOOLEAN, unified : BOOLEAN] /\ migrations'.any = migrations.any
      /\ ~migrations'.unified => ~migrations.unified /\ location # "UNIFIED"
  BY <1>1 DEF UmInv, UsageTyped
<1> HIDE DEF location, size
<1>8. UsageTyped'
  <2>1. \A l \in {"CPU", "GPU"} : usage[l] \in Int
    BY DEF UmInv, UsageTyped
  <2>2. \A l \in {"CPU", "GPU"} : (usage[l] + -size) % UsageWord \in Int
    BY <1>3, <2>1
  <2>3. /\ usage' = [l \in {"CPU", "GPU"} |-> usage'[l]]
        /\ \A l \in {"CPU", "GPU"} : usage'[l] \in Int
    BY <1>1, <2>1, <2>2 DEF Added
  <2> QED BY <1>1, <1>7, <2>3 DEF UmInv, UsageTyped
<1>9. KeysArePointers'
  BY <1>1, <1>4, <1>7 DEF UmInv, KeysArePointers
<1>10. BlocksApart'
  BY <1>4, <1>5 DEF UmInv, BlocksApart
<1>11. ASSUME NEW where
       PROVE  /\ BytesIn(where) \in Int
              /\ BytesIn(where)' = BytesIn(where) + (IF location \in where THEN -size ELSE 0)
  <2>1. k \in BlocksIn(where) <=> location \in where
    BY DEF BlocksIn, location
  <2>2. BlockSize[k] = size
    BY DEF BlockSize, size
  <2>3. Part(BlockSize, BlocksIn(where), k) = IF location \in where THEN size ELSE 0
    BY <2>1, <2>2 DEF Part
  <2>4. Part(BlockSize', BlocksIn(where)', k) = 0
    BY <1>4 DEF Part, BlocksIn
  <2>5. DOMAIN umBlocks \ {k} = DOMAIN umBlocks' \ {k}
    BY <1>4
  <2>6. /\ BytesIn(where) \in Int /\ BytesIn(where)' \in Int
        /\ BytesIn(where)' - Part(BlockSize', BlocksIn(where)', k)
           = BytesIn(where) - Part(BlockSize, BlocksIn(where), k)
    BY <1>4, <1>6, <2>5, BytesMove
  <2> DEFINE now == BytesIn(where)'
             was == BytesIn(where)
  <2> HIDE DEF now, was
  <2>7. now \in Int /\ was \in Int /\ now - 0 = was - (IF location \in where THEN size ELSE 0)
    BY <2>3, <2>4, <2>6, Zenon DEF now, was
  <2>8. now = was + (IF location \in where THEN -size ELSE 0)
    BY <1>3, <2>7
  <2> QED BY <2>7, <2>8 DEF now, was
<1>12. UsageByMemory'
  <2> SUFFICES ASSUME ~migrations.any, NEW l \in {"CPU", "GPU"}
               PROVE  usage'[l] = BytesIn({l})' % UsageWord
    BY <1>7 DEF UsageByMemory, BytesIn, BlockSize, BlocksIn
  <2>1. /\ BytesIn({l}) \in Int
        /\ BytesIn({l})' = BytesIn({l}) + (IF location \in {l} THEN -size ELSE 0)
    BY <1>11
  <2>2. usage[l] = BytesIn({l}) % UsageWord
    BY DEF UmInv, UsageByMemory
  <2>3. usage'[l] = IF l = location THEN (usage[l] + -size) % UsageWord ELSE usage[l]
    BY <1>1 DEF Added
  <2> DEFINE was == BytesIn({l})
             minus == -size
  <2> HIDE DEF was, minus
  <2>4. ((was % UsageWord) + minus) % UsageWord = (was + minus) % UsageWord
    BY <1>3, <2>1, RemainderShift DEF was, minus
  <2>5. CASE l = location
    BY <2>1, <2>2, <2>3, <2>4, <2>5 DEF was, minus
  <2>6. CASE l # location
    <3>1. was \in Int /\ BytesIn({l})' = was
      BY <2>1, <2>6 DEF was
    <3> QED BY <2>2, <2>3, <2>6, <3>1 DEF was
  <2> QED BY <2>5, <2>6
<1>13. UsageInTotal'
  <2> SUFFICES ASSUME ~cuda, ~migrations'.unified
               PROVE  (usage'["CPU"] + usage'["GPU"]) % UsageWord = BytesIn(Locations)' % UsageWord
    BY <1>1 DEF UsageInTotal, BytesIn, BlockSize, BlocksIn
  <2> DEFINE c == usage["CPU"]
             g == usage["GPU"]
             s == BytesIn(Locations)
             n == -size
  <2>1. s \in Int /\ BytesIn(Locations)' = s + n
    BY <1>3, <1>11
  <2>2. (c + g) % UsageWord = s % UsageWord
    BY <1>7 DEF UmInv, UsageInTotal
  <2>3. c \in Int /\ g \in Int /\ n \in Int
    BY <1>3 DEF UmInv, UsageTyped
  <2> HIDE DEF c, g, s, n
  <2>4. CASE location = "CPU"
    <3>1. usage'["CPU"] = (c + n) % UsageWord /\ usage'["GPU"] = g
      BY <1>1, <2>4 DEF Added, c, g, n
    <3>2. (((c + n) % UsageWord) + g) % UsageWord = (s + n) % UsageWord
      <4>1. TotalShifts(c, g, s, n, UsageWord)
        BY ONLY <1>3, <2>1, <2>3, TotalShift
      <4> QED BY <2>2, <4>1, Zenon DEF TotalShifts
    <3> QED BY <2>1, <3>1, <3>2
  <2>5. CASE location = "GPU"
    <3>1. usage'["GPU"] = (g + n) % UsageWord /\ usage'["CPU"] = c
      BY <1>1, <2>5 DEF Added, c, g, n
    <3>2. (g + c) % UsageWord = s % UsageWord
      <4>1. g + c = c + g
        BY <2>3
      <4> QED BY <2>2, <4>1
    <3>3. (((g + n) % UsageWord) + c) % UsageWord = (s + n) % UsageWord
      <4>1. TotalShifts(g, c, s, n, UsageWord)
        BY ONLY <1>3, <2>1, <2>3, TotalShift
      <4> QED BY <3>2, <4>1, Zenon DEF TotalShifts
    <3>4. usage'["CPU"] + usage'["GPU"] = ((g + n) % UsageWord) + c
      <4>1. g + n \in Int
        BY <2>3
      <4>2. (g + n) % UsageWord \in Int
        BY <1>3, <4>1, DividedBy
      <4> QED BY <2>3, <3>1, <4>2
    <3> QED BY <2>1, <3>3, <3>4
  <2> QED BY <1>3, <1>7, <2>4, <2>5 DEF Locations
<1> QED BY <1>6, <1>8, <1>9, <1>10, <1>12, <1>13 DEF UmInv

LEMMA MigrateKeeps ==
  ASSUME UmInv, NEW k \in DOMAIN umBlocks, NEW target \in Locations, Migrate(k, target)
  PROVE  UmInv'
<1>1. /\ IsFiniteSet(DOMAIN umBlocks)
      /\ \A j \in DOMAIN umBlocks :
            umBlocks[j] \in [ptr : live, size : BlockSizes, location : Locations]
  BY DEF UmInv, BlocksTyped
<1>2. PICK p : /\ umBlocks' = [umBlocks EXCEPT ![k].ptr = p, ![k].location = target]
               /\ p \in live' /\ \A j \in DOMAIN umBlocks \ {k} : umBlocks[j].ptr \in live'
               /\ \A j \in DOMAIN umBlocks \ {k} : umBlocks[j].ptr # p
               /\ ~cuda => p = umBlocks[k].ptr
  <2>1. \A j \in DOMAIN umBlocks \ {k} : umBlocks[j].ptr \in live
                                         /\ umBlocks[j].ptr # umBlocks[k].ptr
    BY DEF UmInv, BlocksApart
  <2>2. CASE cuda /\ target # "UNIFIED"
    <3>1. PICK p \in PointersOf(target) \ live :
            /\ live' = {p} \cup (IF target = "CPU" THEN AfterFree("UNIFIED", umBlocks[k].ptr)
                                 ELSE live)
            /\ umBlocks' = [umBlocks EXCEPT ![k].ptr = p, ![k].location = target]
      BY <2>2 DEF Migrate
    <3>2. live \ {umBlocks[k].ptr} \subseteq live' /\ p \in live'
      BY <3>1 DEF AfterFree
    <3>3. \A j \in DOMAIN umBlocks \ {k} : umBlocks[j].ptr \in live' /\ umBlocks[j].ptr # p
      BY <2>1, <3>1, <3>2
    <3> QED BY <2>2, <3>1, <3>2, <3>3
  <2>3. CASE ~(cuda /\ target # "UNIFIED")
    <3>1. umBlocks' = [umBlocks EXCEPT ![k].location = target] /\ live' = live
      BY <2>3 DEF Migrate
    <3>2. umBlocks[k].ptr \in live
      BY <1>1
    <3>3. umBlocks' = [umBlocks EXCEPT ![k].ptr = umBlocks[k].ptr, ![k].location = target]
      BY <1>1, <3>1 DEF UmInv, BlocksTyped
    <3> QED BY <2>1, <3>1, <3>2, <3>3
  <2> QED BY <2>2, <2>3
<1>3. /\ migrations' = [migrations EXCEPT !.any = TRUE] /\ cuda' = cuda /\ usage' = usage
  BY DEF Migrate
<1>4. /\ DOMAIN umBlocks' = DOMAIN umBlocks
      /\ umBlocks'[k] = [ptr |-> p, size |-> umBlocks[k].size, location |-> target]
      /\ \A j \in DOMAIN umBlocks \ {k} : umBlocks'[j] = umBlocks[j]
  BY <1>1, <1>2 DEF UmInv, BlocksTyped
<1>5. BlocksTyped'
  <2>1. umBlocks' = [j \in DOMAIN umBlocks' |-> umBlocks'[j]]
    BY <1>2 DEF UmInv, BlocksTyped
  <2>2. ASSUME NEW j \in DOMAIN umBlocks'
        PROVE  umBlocks'[j] \in [ptr : live', size : BlockSizes, location : Locations]
    <3>1. CASE j = k
      BY <1>1, <1>2, <1>4, <3>1
    <3>2. CASE j # k
      BY <1>1, <1>2, <1>4, <3>2
    <3> QED BY <3>1, <3>2
  <2> QED BY <1>1, <1>4, <2>1, <2>2 DEF BlocksTyped
<1>6. /\ migrations' \in [any : BOOLEAN, unified : BOOLEAN] /\ migrations'.any
      /\ migrations'.unified = migrations.unified
  BY <1>3 DEF UmInv, UsageTyped
<1>7. UsageTyped'
  BY <1>3, <1>6 DEF UmInv, UsageTyped
<1>8. KeysArePointers'
  BY <1>2, <1>3, <1>4, <1>6 DEF UmInv, KeysArePointers
<1>9. BlocksApart'
  <2> SUFFICES ASSUME NEW i \in DOMAIN umBlocks'
               PROVE  /\ umBlocks'[i].ptr \in live'
                      /\ \A j \in DOMAIN umBlocks' \ {i} : umBlocks'[j].ptr # umBlocks'[i].ptr
    BY DEF BlocksApart
  <2>1. CASE i = k
    <3>1. umBlocks'[i].ptr = p /\ \A j \in DOMAIN umBlocks \ {k} : umBlocks'[j].ptr = umBlocks[j].ptr
      BY <1>4, <2>1
    <3>2. \A j \in DOMAIN umBlocks \ {k} : umBlocks'[j].ptr # p
      BY <1>2, <3>1, Zenon
    <3> QED BY <1>2, <1>4, <2>1, <3>1, <3>2
  <2>2. CASE i # k
    BY <1>2, <1>4, <2>2 DEF UmInv, BlocksApart
  <2> QED BY <2>1, <2>2
<1>10. BytesIn(Locations)' = BytesIn(Locations)
  <2>1. BlocksIn(Locations) = DOMAIN umBlocks
    BY <1>1 DEF BlocksIn
  <2>2. BlocksIn(Locations)' = DOMAIN umBlocks
    BY <1>4, <1>5 DEF BlocksIn, BlocksTyped
  <2>3. \A j \in DOMAIN umBlocks : BlockSize'[j] = BlockSize[j]
    BY <1>4 DEF BlockSize
  <2>4. Sum(BlockSize', DOMAIN umBlocks) = Sum(BlockSize, DOMAIN umBlocks)
    BY <1>1, <2>3, SumSame
  <2> QED BY <2>1, <2>2, <2>4 DEF BytesIn
<1>11. UsageByMemory'
  BY <1>6 DEF UsageByMemory
<1>12. UsageInTotal'
  BY <1>3, <1>6, <1>10 DEF UmInv, UsageInTotal
<1> QED BY <1>5, <1>7, <1>8, <1>9, <1>11, <1>12 DEF UmInv

LEMMA UmStep == UmInv /\ [UmNext]_umVars => UmInv'
<1> SUFFICES ASSUME UmInv, [UmNext]_umVars PROVE UmInv'
  OBVIOUS
<1>1. CASE UNCHANGED umVars
  BY <1>1 DEF umVars, UmInv, BlocksTyped, UsageTyped, KeysArePointers, BlocksApart,
              UsageByMemory, UsageInTotal, BytesIn, BlockSize, BlocksIn
<1> QED BY <1>1, UmAllocateKeeps, UmDeallocateKeeps, MigrateKeeps DEF UmNext

LEMMA UmIsSafe == UmInv => BlocksApart /\ UsageExact
BY UsageIs DEF UmInv

-----------------------------------------------------------------------------
(* Tensors *)

(* Tensor t of tt owns the storage at a.                                     *)
Holds(tt, t, a) == tt[t].owns /\ tt[t].data = a
TensorsTyped(tt) ==
  /\ tt = [t \in TensorNames |-> tt[t]]
  /\ \A t \in TensorNames :
        tt[t] = Dead \/ tt[t] \in [data : Addresses \cup {NoStorage}, n : Nat, owns : BOOLEAN]
MemTyped(m) ==
  /\ m = [heap |-> m.heap, blocks |-> m.blocks, total |-> m.total, peak |-> m.peak]
  /\ m.heap \in [Addresses -> {"free", "new", "mapped"}]
  /\ m.total \in Int /\ m.peak \in Int /\ IsFiniteSet(DOMAIN m.blocks)
  /\ \A a \in DOMAIN m.blocks : m.blocks[a] \in Nat

(* An owned address is not free and has one owner; a mapped one has an owner, *)
(* and so has an allocated one while no manager is set.                      *)
OwnedOnce(h, tt) ==
  \A t \in TensorNames, a \in Addresses : Holds(tt, t, a) =>
    h[a] # "free" /\ \A u \in TensorNames : Holds(tt, u, a) => u = t
NothingLeaks(h, tt, mgr) ==
  /\ \A a \in Addresses : h[a] = "mapped" \/ (h[a] = "new" /\ ~mgr) =>
        \E t \in TensorNames : Holds(tt, t, a)
  /\ ~mgr => \A a \in Addresses : h[a] # "mapped"
BlocksKnown(m, tt) ==
  /\ DOMAIN m.blocks = {a \in Addresses : m.heap[a] = "mapped"}
  /\ \A t \in TensorNames, a \in DOMAIN m.blocks :
        Holds(tt, t, a) => m.blocks[a] = Pages(tt[t].n)
TotalRight(m) == m.total = Sum(m.blocks, DOMAIN m.blocks) /\ m.total <= m.peak
MemOk(m, tt, mgr) ==
  /\ MemTyped(m) /\ OwnedOnce(m.heap, tt) /\ NothingLeaks(m.heap, tt, mgr)
  /\ BlocksKnown(m, tt) /\ TotalRight(m)
TensorsInv ==
  managed \in BOOLEAN /\ TensorsTyped(tensor) /\ MemOk(mem, tensor, managed)

LEMMA PagesAre == ASSUME NEW n \in Nat PROVE Pages(n) \in Nat
<1>1. PageFloats \in Nat /\ PageFloats > 0
  BY TensorsAssumption
<1> DEFINE x == n + PageFloats - 1
<1>2. x \in Nat
  BY <1>1
<1> HIDE DEF x
<1>3. x \div PageFloats \in Nat
  BY <1>1, <1>2
<1> QED BY <1>3 DEF Pages, x

LEMMA NullIsNoAddress == NoStorage \notin Addresses
BY TensorsAssumption DEF NoStorage

LEMMA TensorsStart == TensorsInit => TensorsInv
<1> SUFFICES ASSUME TensorsInit PROVE TensorsInv
  OBVIOUS
<1>1. /\ tensor = [t \in TensorNames |-> Dead] /\ managed = FALSE
      /\ mem = [heap |-> [a \in Addresses |-> "free"], blocks |-> <<>>, total |-> 0, peak |-> 0]
  BY DEF TensorsInit
<1>2. /\ mem.heap = [a \in Addresses |-> "free"] /\ DOMAIN mem.blocks = {}
      /\ mem.total = 0 /\ mem.peak = 0
  BY <1>1
<1>3. TensorsTyped(tensor)
  BY <1>1 DEF TensorsTyped
<1>4. MemTyped(mem)
  BY <1>1, <1>2, FS_EmptySet DEF MemTyped
<1>5. \A t \in TensorNames, a \in Addresses : ~Holds(tensor, t, a)
  BY <1>1 DEF Holds, Dead
<1>6. OwnedOnce(mem.heap, tensor) /\ NothingLeaks(mem.heap, tensor, managed)
  BY <1>1, <1>2, <1>5 DEF OwnedOnce, NothingLeaks
<1>7. BlocksKnown(mem, tensor)
  BY <1>2 DEF BlocksKnown
<1>8. TotalRight(mem)
  BY <1>2, SumNone DEF TotalRight
<1> QED BY <1>1, <1>3, <1>4, <1>6, <1>7, <1>8 DEF TensorsInv, MemOk

(* Memory that stays as it is, for tensors that hold the same storage, or    *)
(* the same but for one that a tensor moved to another.                      *)
LEMMA NothingMoves ==
  ASSUME NEW m, NEW p, NEW q, NEW mgr, MemOk(m, p, mgr),
         \A t \in TensorNames, a \in Addresses :
            /\ Holds(q, t, a) <=> Holds(p, t, a)
            /\ Holds(q, t, a) => q[t].n = p[t].n
  PROVE  MemOk(m, q, mgr)
<1>1. OwnedOnce(m.heap, q)
  BY DEF MemOk, OwnedOnce
<1>2. NothingLeaks(m.heap, q, mgr)
  BY DEF MemOk, NothingLeaks
<1>3. BlocksKnown(m, q)
  BY DEF MemOk, BlocksKnown
<1> QED BY <1>1, <1>2, <1>3 DEF MemOk

LEMMA StorageMoves ==
  ASSUME NEW m, NEW p, NEW q, NEW mgr, NEW t \in TensorNames, NEW u \in TensorNames,
         MemOk(m, p, mgr), t # u,
         \A a \in Addresses : ~Holds(p, t, a),
         \A a \in Addresses : ~Holds(q, u, a),
         q[t] = p[u], \A v \in TensorNames \ {t, u} : q[v] = p[v]
  PROVE  MemOk(m, q, mgr)
<1>1. \A a \in Addresses : Holds(q, t, a) <=> Holds(p, u, a)
  BY DEF Holds
<1>2. \A v \in TensorNames \ {t, u}, a \in Addresses : Holds(q, v, a) <=> Holds(p, v, a)
  BY DEF Holds
<1>3. OwnedOnce(m.heap, q)
  <2> SUFFICES ASSUME NEW v \in TensorNames, NEW a \in Addresses, Holds(q, v, a)
               PROVE  m.heap[a] # "free" /\ \A w \in TensorNames : Holds(q, w, a) => w = v
    BY DEF OwnedOnce
  <2>1. OwnedOnce(m.heap, p)
    BY DEF MemOk
  <2>2. CASE v = t
    <3>1. Holds(p, u, a)
      BY <1>1, <2>2
    <3>2. m.heap[a] # "free" /\ \A w \in TensorNames : Holds(p, w, a) => w = u
      BY <2>1, <3>1 DEF OwnedOnce
    <3> QED BY <1>2, <2>2, <3>2
  <2>3. CASE v # t
    <3>1. v # u /\ Holds(p, v, a)
      BY <1>2, <2>3
    <3>2. m.heap[a] # "free" /\ \A w \in TensorNames : Holds(p, w, a) => w = v
      BY <2>1, <3>1 DEF OwnedOnce
    <3> QED BY <1>1, <1>2, <3>1, <3>2
  <2> QED BY <2>2, <2>3
<1>4. NothingLeaks(m.heap, q, mgr)
  <2>1. NothingLeaks(m.heap, p, mgr)
    BY DEF MemOk
  <2>2. \A a \in Addresses : (\E v \in TensorNames : Holds(p, v, a))
                              => \E v \in TensorNames : Holds(q, v, a)
    BY <1>1, <1>2
  <2> QED BY <2>1, <2>2 DEF NothingLeaks
<1>5. BlocksKnown(m, q)
  <2>1. BlocksKnown(m, p)
    BY DEF MemOk
  <2>2. ASSUME NEW v \in TensorNames, NEW a \in DOMAIN m.blocks, Holds(q, v, a)
        PROVE  m.blocks[a] = Pages(q[v].n)
    <3>1. a \in Addresses
      BY <2>1 DEF BlocksKnown
    <3>2. \A w \in TensorNames : Holds(p, w, a) => m.blocks[a] = Pages(p[w].n)
      BY <2>1 DEF BlocksKnown
    <3>3. CASE v = t
      BY <1>1, <2>2, <3>1, <3>2, <3>3
    <3>4. CASE v # t
      BY <1>2, <2>2, <3>1, <3>2, <3>4
    <3> QED BY <3>3, <3>4
  <2> QED BY <2>1, <2>2 DEF BlocksKnown
<1> QED BY <1>3, <1>4, <1>5 DEF MemOk

(* A tensor gives its storage back, to where the manager says.               *)
LEMMA FreedIsOk ==
  ASSUME managed \in BOOLEAN, NEW m, NEW p, NEW q, NEW t \in TensorNames,
         MemOk(m, p, managed), p[t] = Dead \/ p[t].data \in Addresses \cup {NoStorage},
         \A a \in Addresses : ~Holds(q, t, a),
         \A v \in TensorNames \ {t} : q[v] = p[v]
  PROVE  MemOk(Freed(m, p[t]), q, managed)
<1>1. CASE p[t].data = NoStorage \/ ~p[t].owns
  <2>1. Freed(m, p[t]) = m
    BY <1>1 DEF Freed
  <2>2. \A a \in Addresses : ~Holds(p, t, a)
    BY <1>1, NullIsNoAddress DEF Holds
  <2>3. \A v \in TensorNames, a \in Addresses :
            /\ Holds(q, v, a) <=> Holds(p, v, a)
            /\ Holds(q, v, a) => q[v].n = p[v].n
    BY <2>2 DEF Holds
  <2>4. MemOk(m, q, managed)
    BY <2>3, NothingMoves
  <2> QED BY <2>1, <2>4
<1>2. CASE ~(p[t].data = NoStorage \/ ~p[t].owns)
  <2>1. PICK a \in Addresses : a = p[t].data
    BY <1>2 DEF Dead
  <2>2. Holds(p, t, a)
    BY <1>2, <2>1 DEF Holds
  <2>3. m.heap[a] # "free" /\ \A u \in TensorNames : Holds(p, u, a) => u = t
    BY <2>2 DEF MemOk, OwnedOnce
  <2>4. \A v \in TensorNames \ {t}, b \in Addresses : Holds(q, v, b) <=> Holds(p, v, b)
    BY DEF Holds
  <2>5. \A v \in TensorNames : ~Holds(q, v, a)
    BY <2>3, <2>4
  <2>6. /\ MemTyped(m) /\ OwnedOnce(m.heap, p) /\ NothingLeaks(m.heap, p, managed)
        /\ BlocksKnown(m, p) /\ TotalRight(m)
    BY DEF MemOk
  <2>7. OwnedOnce(m.heap, q)
    BY <2>4, <2>6 DEF OwnedOnce
  <2>8. ASSUME NEW h, \A b \in Addresses \ {a} : h[b] = m.heap[b]
        PROVE  OwnedOnce(h, q)
    BY <2>5, <2>7, <2>8 DEF OwnedOnce
  <2>9. ASSUME NEW h, \A b \in Addresses \ {a} : h[b] = m.heap[b], h[a] = "free"
        PROVE  NothingLeaks(h, q, managed)
    <3>1. ASSUME NEW b \in Addresses, h[b] = "mapped" \/ (h[b] = "new" /\ ~managed)
          PROVE  \E v \in TensorNames : Holds(q, v, b)
      <4>1. b # a /\ h[b] = m.heap[b]
        BY <2>9, <3>1
      <4>2. PICK v \in TensorNames : Holds(p, v, b)
        BY <2>6, <3>1, <4>1 DEF NothingLeaks
      <4>3. v # t
        BY <2>1, <4>1, <4>2 DEF Holds
      <4> QED BY <2>4, <4>2, <4>3
    <3>2. ~managed => \A b \in Addresses : h[b] # "mapped"
      BY <2>6, <2>9 DEF NothingLeaks
    <3> QED BY <3>1, <3>2 DEF NothingLeaks
  <2>10. \A v \in TensorNames, b \in DOMAIN m.blocks :
           Holds(q, v, b) => m.blocks[b] = Pages(q[v].n)
    <3>1. ASSUME NEW v \in TensorNames, NEW b \in DOMAIN m.blocks, Holds(q, v, b)
          PROVE  m.blocks[b] = Pages(q[v].n)
      <4>1. b \in Addresses
        BY <2>6 DEF BlocksKnown
      <4>2. v # t /\ Holds(p, v, b) /\ q[v] = p[v]
        BY <2>4, <3>1, <4>1
      <4> QED BY <2>6, <4>2 DEF BlocksKnown
    <3> QED BY <3>1
  <2> DEFINE r == Freed(m, p[t])
  <2>11. CASE ~managed
    <3>1. r = [m EXCEPT !.heap[a] = "free"]
      BY <1>2, <2>1, <2>11 DEF Freed
    <3>2. /\ r = [heap |-> [m.heap EXCEPT ![a] = "free"], blocks |-> m.blocks,
                  total |-> m.total, peak |-> m.peak]
      BY <2>6, <3>1 DEF MemTyped
    <3> HIDE DEF r
    <3>3. /\ r.heap = [m.heap EXCEPT ![a] = "free"] /\ r.blocks = m.blocks
          /\ r.total = m.total /\ r.peak = m.peak
      BY <3>2
    <3>4. /\ r.heap \in [Addresses -> {"free", "new", "mapped"}] /\ r.heap[a] = "free"
          /\ \A b \in Addresses \ {a} : r.heap[b] = m.heap[b]
      BY <2>6, <3>3 DEF MemTyped
    <3>5. MemTyped(r) /\ TotalRight(r)
      BY <2>6, <3>2, <3>3, <3>4 DEF MemTyped, TotalRight
    <3>6. m.heap[a] # "mapped"
      BY <2>6, <2>11 DEF NothingLeaks
    <3>7. BlocksKnown(r, q)
      <4>1. DOMAIN m.blocks = {b \in Addresses : m.heap[b] = "mapped"}
        BY <2>6 DEF BlocksKnown
      <4>2. DOMAIN r.blocks = {b \in Addresses : r.heap[b] = "mapped"}
        BY <3>3, <3>4, <3>6, <4>1
      <4> QED BY <2>10, <3>3, <4>2 DEF BlocksKnown
    <3> QED BY <2>8, <2>9, <3>4, <3>5, <3>7 DEF MemOk, r
  <2>12. CASE managed /\ a \notin DOMAIN m.blocks
    <3>1. r = m
      BY <1>2, <2>1, <2>12 DEF Freed, Unmapped
    <3>2. m.heap[a] # "mapped"
      BY <2>6, <2>12 DEF BlocksKnown
    <3>3. NothingLeaks(m.heap, q, managed)
      <4>1. ASSUME NEW b \in Addresses, m.heap[b] = "mapped"
            PROVE  \E v \in TensorNames : Holds(q, v, b)
        <5>1. PICK v \in TensorNames : Holds(p, v, b)
          BY <2>6, <4>1 DEF NothingLeaks
        <5>2. v # t
          BY <2>1, <3>2, <4>1, <5>1 DEF Holds
        <5> QED BY <2>4, <5>1, <5>2
      <4> QED BY <2>12, <4>1 DEF NothingLeaks
    <3>4. BlocksKnown(m, q)
      BY <2>6, <2>10 DEF BlocksKnown
    <3> QED BY <2>6, <2>7, <3>1, <3>3, <3>4 DEF MemOk
  <2>13. CASE managed /\ a \in DOMAIN m.blocks
    <3> DEFINE f == m.blocks
               S == DOMAIN f
               g == [b \in S \ {a} |-> f[b]]
    <3>1. r = [m EXCEPT !.heap[a] = "free", !.blocks = Restrict(@, DOMAIN @ \ {a}),
                        !.total = @ - m.blocks[a]]
      BY <1>2, <2>1, <2>13 DEF Freed, Unmapped
    <3>2. r = [heap |-> [m.heap EXCEPT ![a] = "free"], blocks |-> g,
               total |-> m.total - f[a], peak |-> m.peak]
      BY <2>6, <3>1 DEF MemTyped, Restrict
    <3> HIDE DEF r
    <3>3. /\ r.heap = [m.heap EXCEPT ![a] = "free"] /\ r.blocks = g
          /\ r.total = m.total - f[a] /\ r.peak = m.peak
      BY <3>2
    <3>4. /\ r.heap \in [Addresses -> {"free", "new", "mapped"}] /\ r.heap[a] = "free"
          /\ \A b \in Addresses \ {a} : r.heap[b] = m.heap[b]
      BY <2>6, <3>3 DEF MemTyped
    <3>5. DOMAIN g = S \ {a} /\ \A b \in S \ {a} : g[b] = f[b]
      OBVIOUS
    <3> HIDE DEF g
    <3>6. /\ IsFiniteSet(S) /\ IsFiniteSet(S \ {a}) /\ f[a] \in Nat /\ a \in S
          /\ \A b \in S : f[b] \in Nat
          /\ \A b \in S \ {a} : g[b] \in Nat
          /\ m.total \in Int /\ m.peak \in Int
      BY <2>6, <2>13, <3>5, FS_Subset DEF MemTyped
    <3> DEFINE fa == f[a]
               total == m.total - fa
    <3>7. fa \in Nat /\ total \in Int /\ total = m.total - fa
      <4>1. fa \in Nat
        BY <3>6
      <4> HIDE DEF fa
      <4> QED BY <3>6, <4>1
    <3> HIDE DEF total
    <3>8. r.total = total /\ r = [heap |-> r.heap, blocks |-> g, total |-> total, peak |-> m.peak]
      BY <3>2, <3>3 DEF total
    <3>9. MemTyped(r)
      BY <3>3, <3>4, <3>5, <3>6, <3>7, <3>8 DEF MemTyped
    <3>10. Sum(f, S) \in Int /\ Sum(f, S) = fa + Sum(g, S \ {a}) /\ Sum(g, S \ {a}) \in Int
      <4> DEFINE R == S \ {a}
      <4>1. /\ \A b \in S : f[b] \in Int
            /\ \A b \in R : g[b] \in Int
            /\ \A b \in R : g[b] = f[b]
        BY <3>5, <3>6
      <4> HIDE DEF f, S
      <4>2. Sum(f, S) \in Int /\ Sum(f, S) = f[a] + Sum(f, S \ {a})
        BY <3>6, <4>1, SumWithout
      <4>3. Sum(g, R) \in Int /\ Sum(f, R) = Sum(g, R)
        <5> HIDE DEF R
        <5>1. IsFiniteSet(R)
          BY <3>6 DEF R
        <5> QED BY <4>1, <5>1, SumWithout, SumSame
      <4> QED BY <4>2, <4>3
    <3>11. TotalRight(r)
      <4>1. m.total = Sum(f, S) /\ m.total <= m.peak
        BY <2>6 DEF TotalRight
      <4> DEFINE sg == Sum(g, S \ {a})
                 sf == Sum(f, S)
      <4> HIDE DEF sg, sf, fa
      <4>2. sg \in Int /\ sf \in Int /\ sf = fa + sg /\ m.total = sf
        BY <3>10, <4>1 DEF sg, sf
      <4>3. total = sg /\ total <= m.peak
        BY <3>6, <3>7, <4>1, <4>2
      <4> QED BY <3>3, <3>5, <3>8, <4>3 DEF TotalRight, sg
    <3>12. BlocksKnown(r, q)
      <4>1. S = {b \in Addresses : m.heap[b] = "mapped"}
        BY <2>6 DEF BlocksKnown
      <4>2. DOMAIN r.blocks = {b \in Addresses : r.heap[b] = "mapped"}
        BY <3>3, <3>4, <3>5, <4>1
      <4>3. \A v \in TensorNames, b \in DOMAIN r.blocks :
               Holds(q, v, b) => r.blocks[b] = Pages(q[v].n)
        BY <2>10, <3>3, <3>5
      <4> QED BY <4>2, <4>3 DEF BlocksKnown
    <3> QED BY <2>8, <2>9, <3>4, <3>9, <3>11, <3>12 DEF MemOk, r
  <2> QED BY <2>11, <2>12, <2>13
<1> QED BY <1>1, <1>2

(* A tensor that holds nothing is given storage for n elements at a.         *)
LEMMA GrantedIsOk ==
  ASSUME managed \in BOOLEAN, NEW m, NEW p, NEW q, NEW t \in TensorNames, NEW n \in Nat,
         NEW x, NEW a \in Places(m, n), MemOk(m, p, managed),
         \A b \in Addresses : ~Holds(p, t, b),
         q[t] = Storing(x, n, a),
         \A v \in TensorNames \ {t} : q[v] = p[v]
  PROVE  MemOk(Granted(m, n, a), q, managed)
<1>1. CASE n = 0
  <2>1. Granted(m, n, a) = m /\ q[t].data = NoStorage
    BY <1>1 DEF Granted, Storing, Places
  <2>2. \A v \in TensorNames, b \in Addresses :
            /\ Holds(q, v, b) <=> Holds(p, v, b)
            /\ Holds(q, v, b) => q[v].n = p[v].n
    BY <2>1, NullIsNoAddress DEF Holds
  <2>3. MemOk(m, q, managed)
    BY <2>2, NothingMoves
  <2> QED BY <2>1, <2>3
<1>2. CASE n # 0
  <2>1. a \in Addresses /\ m.heap[a] = "free" /\ n > 0
    BY <1>2 DEF Places
  <2>2. q[t].data = a /\ q[t].owns /\ q[t].n = n
    <3>1. (n > 0 \/ x.owns) = TRUE
      BY <2>1
    <3>2. q[t] = [data |-> a, n |-> n, owns |-> TRUE]
      BY <3>1, Zenon DEF Storing
    <3> QED BY <3>2
  <2>3. /\ \A b \in Addresses : Holds(q, t, b) <=> b = a
        /\ \A v \in TensorNames \ {t}, b \in Addresses : Holds(q, v, b) <=> Holds(p, v, b)
    BY <2>2 DEF Holds
  <2>4. /\ MemTyped(m) /\ OwnedOnce(m.heap, p) /\ NothingLeaks(m.heap, p, managed)
        /\ BlocksKnown(m, p) /\ TotalRight(m)
    BY DEF MemOk
  <2>5. \A v \in TensorNames : ~Holds(p, v, a)
    BY <2>1, <2>4 DEF OwnedOnce
  <2>6. ASSUME NEW h, h[a] # "free", \A b \in Addresses \ {a} : h[b] = m.heap[b]
        PROVE  OwnedOnce(h, q)
    <3> SUFFICES ASSUME NEW v \in TensorNames, NEW b \in Addresses, Holds(q, v, b)
                 PROVE  h[b] # "free" /\ \A u \in TensorNames : Holds(q, u, b) => u = v
      BY DEF OwnedOnce
    <3>1. CASE b = a
      BY <2>1, <2>3, <2>5, <2>6, <3>1
    <3>2. CASE b # a
      <4>1. v # t /\ Holds(p, v, b) /\ h[b] = m.heap[b]
        BY <2>3, <2>6, <3>2
      <4>2. m.heap[b] # "free" /\ \A u \in TensorNames : Holds(p, u, b) => u = v
        BY <2>4, <4>1 DEF OwnedOnce
      <4> QED BY <2>3, <3>2, <4>1, <4>2
    <3> QED BY <3>1, <3>2
  <2>7. ASSUME NEW h, \A b \in Addresses \ {a} : h[b] = m.heap[b],
               ~managed => h[a] # "mapped"
        PROVE  NothingLeaks(h, q, managed)
    <3>1. ASSUME NEW b \in Addresses, h[b] = "mapped" \/ (h[b] = "new" /\ ~managed)
          PROVE  \E v \in TensorNames : Holds(q, v, b)
      <4>1. CASE b = a
        BY <2>3, <4>1
      <4>2. CASE b # a
        <5>1. PICK v \in TensorNames : Holds(p, v, b)
          BY <2>4, <2>7, <3>1, <4>2 DEF NothingLeaks
        <5>2. v # t
          BY <5>1
        <5> QED BY <2>3, <5>1, <5>2
      <4> QED BY <4>1, <4>2
    <3>2. ~managed => \A b \in Addresses : h[b] # "mapped"
      BY <2>4, <2>7 DEF NothingLeaks
    <3> QED BY <3>1, <3>2 DEF NothingLeaks
  <2>8. \A v \in TensorNames, b \in DOMAIN m.blocks :
          Holds(q, v, b) => m.blocks[b] = Pages(q[v].n)
    <3>1. ASSUME NEW v \in TensorNames, NEW b \in DOMAIN m.blocks, Holds(q, v, b)
          PROVE  m.blocks[b] = Pages(q[v].n)
      <4>1. b \in Addresses /\ m.heap[b] = "mapped"
        BY <2>4 DEF BlocksKnown
      <4>2. b # a
        BY <2>1, <4>1
      <4>3. v # t /\ Holds(p, v, b) /\ q[v] = p[v]
        BY <2>3, <3>1, <4>1, <4>2
      <4> QED BY <2>4, <4>3 DEF BlocksKnown
    <3> QED BY <3>1
  <2> DEFINE r == Granted(m, n, a)
  <2>9. a \notin DOMAIN m.blocks
    BY <2>1, <2>4 DEF BlocksKnown
  <2>10. CASE ~managed
    <3>1. r = [m EXCEPT !.heap[a] = "new"]
      BY <1>2, <2>10 DEF Granted
    <3>2. r = [heap |-> [m.heap EXCEPT ![a] = "new"], blocks |-> m.blocks,
               total |-> m.total, peak |-> m.peak]
      BY <2>4, <3>1 DEF MemTyped
    <3> HIDE DEF r
    <3>3. /\ r.heap = [m.heap EXCEPT ![a] = "new"] /\ r.blocks = m.blocks
          /\ r.total = m.total /\ r.peak = m.peak
      BY <3>2
    <3>4. /\ r.heap \in [Addresses -> {"free", "new", "mapped"}] /\ r.heap[a] = "new"
          /\ \A b \in Addresses \ {a} : r.heap[b] = m.heap[b]
      BY <2>1, <2>4, <3>3 DEF MemTyped
    <3>5. MemTyped(r) /\ TotalRight(r)
      BY <2>4, <3>2, <3>3, <3>4 DEF MemTyped, TotalRight
    <3>6. BlocksKnown(r, q)
      <4>1. DOMAIN m.blocks = {b \in Addresses : m.heap[b] = "mapped"}
        BY <2>4 DEF BlocksKnown
      <4>2. DOMAIN r.blocks = {b \in Addresses : r.heap[b] = "mapped"}
        BY <2>1, <3>3, <3>4, <4>1
      <4> QED BY <2>8, <3>3, <4>2 DEF BlocksKnown
    <3>7. r.heap[a] # "free" /\ r.heap[a] # "mapped"
      BY <3>4
    <3> QED BY <2>6, <2>7, <3>4, <3>5, <3>6, <3>7 DEF MemOk, r
  <2>11. CASE managed
    <3> DEFINE f == m.blocks
               S == DOMAIN f
               g == [b \in S \cup {a} |-> IF b = a THEN Pages(n) ELSE f[b]]
               total == m.total + Pages(n)
    <3>1. r = [heap |-> [m.heap EXCEPT ![a] = "mapped"], blocks |-> g,
               total |-> total, peak |-> Max({m.peak, total})]
      BY <1>2, <2>11 DEF Granted, Mapped
    <3>2. Pages(n) \in Nat /\ m.total \in Int /\ m.peak \in Int
      BY <2>4, PagesAre DEF MemTyped
    <3>3. total \in Int /\ total = m.total + Pages(n)
      BY <3>2
    <3> HIDE DEF r, total
    <3>4. PICK peak \in Int : peak = Max({m.peak, total}) /\ total <= peak
      <4>1. /\ Max({m.peak, total}) \in {m.peak, total}
            /\ Max({m.peak, total}) >= total
        BY ONLY <3>2, <3>3, MaxOfTwo
      <4> QED BY <3>2, <3>3, <4>1
    <3>5. /\ r.heap = [m.heap EXCEPT ![a] = "mapped"] /\ r.blocks = g
          /\ r.total = total /\ r.peak = peak
      BY <3>1, <3>4
    <3>6. /\ r.heap \in [Addresses -> {"free", "new", "mapped"}] /\ r.heap[a] = "mapped"
          /\ \A b \in Addresses \ {a} : r.heap[b] = m.heap[b]
      BY <2>1, <2>4, <3>5 DEF MemTyped
    <3>7. DOMAIN g = S \cup {a} /\ g[a] = Pages(n) /\ \A b \in S : g[b] = f[b]
      BY <2>9
    <3> HIDE DEF g
    <3>8. /\ IsFiniteSet(S) /\ IsFiniteSet(S \cup {a})
          /\ \A b \in S : f[b] \in Nat
          /\ \A b \in S \cup {a} : g[b] \in Nat
      BY <2>4, <3>2, <3>7, FS_AddElement DEF MemTyped
    <3>9. MemTyped(r)
      BY <3>1, <3>3, <3>4, <3>5, <3>6, <3>7, <3>8 DEF MemTyped
    <3>10. Sum(g, S \cup {a}) = Pages(n) + Sum(f, S) /\ Sum(f, S) \in Int
      <4> DEFINE T == S \cup {a}
      <4>1. /\ \A b \in S : f[b] \in Int
            /\ \A b \in T : g[b] \in Int
            /\ T \ {a} = S /\ a \in T
        BY <2>9, <3>8
      <4> HIDE DEF f, S, T
      <4>2. Sum(g, T) = g[a] + Sum(g, T \ {a})
        BY <3>8, <4>1, SumWithout DEF T
      <4>3. Sum(f, S) \in Int
        BY <3>8, <4>1, SumWithout
      <4>4. Sum(g, S) = Sum(f, S)
        BY <3>7, <3>8, SumSame
      <4> QED BY <3>7, <4>1, <4>2, <4>3, <4>4 DEF T
    <3>11. TotalRight(r)
      <4>1. m.total = Sum(f, S)
        BY <2>4 DEF TotalRight
      <4>2. total = Sum(g, S \cup {a})
        BY <3>2, <3>3, <3>10, <4>1
      <4> QED BY <3>4, <3>5, <3>7, <4>2 DEF TotalRight
    <3>12. BlocksKnown(r, q)
      <4>1. S = {b \in Addresses : m.heap[b] = "mapped"}
        BY <2>4 DEF BlocksKnown
      <4>2. DOMAIN r.blocks = {b \in Addresses : r.heap[b] = "mapped"}
        BY <2>1, <3>5, <3>6, <3>7, <4>1
      <4>3. ASSUME NEW v \in TensorNames, NEW b \in DOMAIN r.blocks, Holds(q, v, b)
            PROVE  r.blocks[b] = Pages(q[v].n)
        <5>1. CASE b = a
          BY <2>1, <2>2, <2>3, <2>5, <3>5, <3>7, <4>3, <5>1
        <5>2. CASE b # a
          BY <2>8, <3>5, <3>7, <4>3, <5>2
        <5> QED BY <5>1, <5>2
      <4> QED BY <4>2, <4>3 DEF BlocksKnown
    <3>13. r.heap[a] # "free"
      BY <3>6
    <3> QED BY <2>6, <2>7, <2>11, <3>6, <3>9, <3>11, <3>12, <3>13 DEF MemOk, r
  <2> QED BY <2>10, <2>11
<1> QED BY <1>1, <1>2

(* A tensor record that is alive.                                            *)
Alive(x) == x \in [data : Addresses \cup {NoStorage}, n : Nat, owns : BOOLEAN]

LEMMA EmptyHolds ==
  /\ Alive(Empty) /\ Empty.data = NoStorage /\ Dead.data = NoStorage
  /\ \A p, t : \A a \in Addresses : p[t].data = NoStorage => ~Holds(p, t, a)
BY NullIsNoAddress DEF Alive, Empty, Dead, Holds

LEMMA StillTyped ==
  ASSUME NEW p, NEW t \in TensorNames, NEW x, TensorsTyped(p), x = Dead \/ Alive(x)
  PROVE  /\ TensorsTyped([p EXCEPT ![t] = x])
         /\ [p EXCEPT ![t] = x][t] = x
         /\ \A v \in TensorNames \ {t} : [p EXCEPT ![t] = x][v] = p[v]
BY DEF TensorsTyped, Alive

LEMMA TensorIs ==
  ASSUME TensorsInv, NEW t \in TensorNames
  PROVE  /\ tensor[t] = Dead \/ Alive(tensor[t])
         /\ tensor[t] # Dead => tensor[t].n \in Nat
         /\ tensor[t].data \in Addresses \cup {NoStorage}
BY DEF TensorsInv, TensorsTyped, Alive, Dead

(* The storage of t, released and allocated anew.                            *)
LEMMA RefillKeeps ==
  ASSUME TensorsInv, NEW t \in TensorNames, NEW x, NEW n \in Nat,
         \/ tensor[t] = Dead /\ x = Empty
         \/ tensor[t] # Dead /\ x = tensor[t],
         Refill(t, x, n), managed' = managed
  PROVE  TensorsInv'
<1>1. /\ managed \in BOOLEAN /\ TensorsTyped(tensor) /\ MemOk(mem, tensor, managed)
  BY DEF TensorsInv
<1> DEFINE p == [tensor EXCEPT ![t] = Empty]
           m == Freed(mem, x)
<1>2. /\ TensorsTyped(p) /\ p[t] = Empty /\ \A v \in TensorNames \ {t} : p[v] = tensor[v]
  BY <1>1, EmptyHolds, StillTyped
<1>3. \A b \in Addresses : ~Holds(p, t, b)
  BY <1>2, EmptyHolds
<1>4. MemOk(m, p, managed)
  <2> HIDE DEF p
  <2>1. MemOk(Freed(mem, tensor[t]), p, managed)
    BY <1>1, <1>2, <1>3, TensorIs, FreedIsOk
  <2>2. tensor[t] = Dead => Freed(mem, x) = Freed(mem, tensor[t])
    BY DEF Freed, Empty, Dead
  <2> QED BY <2>1, <2>2
<1>5. PICK a \in Places(m, n) :
        /\ mem' = Granted(m, n, a)
        /\ tensor' = [tensor EXCEPT ![t] = Storing(x, n, a)]
  BY DEF Refill
<1>6. Alive(Storing(x, n, a))
  <2>1. a \in Addresses \cup {NoStorage}
    BY DEF Places
  <2>2. x.owns \in BOOLEAN
    BY TensorIs, EmptyHolds DEF Alive
  <2>3. (n > 0 \/ x.owns) \in BOOLEAN
    OBVIOUS
  <2> QED BY <2>1, <2>3 DEF Alive, Storing
<1>7. /\ TensorsTyped(tensor') /\ tensor'[t] = Storing(x, n, a)
      /\ \A v \in TensorNames \ {t} : tensor'[v] = tensor[v]
  <2> DEFINE y == Storing(x, n, a)
  <2> HIDE DEF y
  <2>1. /\ TensorsTyped([tensor EXCEPT ![t] = y]) /\ [tensor EXCEPT ![t] = y][t] = y
        /\ \A v \in TensorNames \ {t} : [tensor EXCEPT ![t] = y][v] = tensor[v]
    BY <1>1, <1>6, StillTyped DEF y
  <2> QED BY <1>5, <2>1 DEF y
<1> HIDE DEF p, m
<1>8. MemOk(Granted(m, n, a), tensor', managed)
  <2>1. \A v \in TensorNames \ {t} : tensor'[v] = p[v]
    BY <1>2, <1>7
  <2> QED BY ONLY n \in Nat, a \in Places(m, n), t \in TensorNames, <1>1, <1>3, <1>4, <1>7, <2>1,
                  GrantedIsOk
<1> QED BY <1>1, <1>5, <1>7, <1>8 DEF TensorsInv

(* A tensor's storage is handed to one that holds none.                      *)
LEMMA MoveKeeps ==
  ASSUME managed \in BOOLEAN, NEW m, NEW p, NEW t \in TensorNames, NEW u \in TensorNames, t # u,
         TensorsTyped(p), MemOk(m, p, managed), \A a \in Addresses : ~Holds(p, t, a),
         Alive(p[u])
  PROVE  LET q == [p EXCEPT ![t] = p[u], ![u] = Empty]
         IN  TensorsTyped(q) /\ MemOk(m, q, managed)
<1> DEFINE q == [p EXCEPT ![t] = p[u], ![u] = Empty]
<1>1. /\ q[t] = p[u] /\ q[u] = Empty /\ \A v \in TensorNames \ {t, u} : q[v] = p[v]
      /\ q = [v \in TensorNames |-> q[v]]
  BY DEF TensorsTyped
<1> HIDE DEF q
<1>2. TensorsTyped(q)
  <2>1. ASSUME NEW v \in TensorNames PROVE q[v] = Dead \/ Alive(q[v])
    <3>1. v = t \/ v = u \/ v \in TensorNames \ {t, u}
      OBVIOUS
    <3>2. v \in TensorNames \ {t, u} => q[v] = Dead \/ Alive(q[v])
      BY <1>1 DEF TensorsTyped, Alive
    <3> QED BY <1>1, <3>1, <3>2, EmptyHolds
  <2> QED BY <1>1, <2>1, Zenon DEF TensorsTyped, Alive
<1>3. \A a \in Addresses : ~Holds(q, u, a)
  BY <1>1, EmptyHolds
<1>4. MemOk(m, q, managed)
  BY <1>1, <1>3, StorageMoves
<1> QED BY <1>2, <1>4 DEF q

LEMMA TensorsStep == TensorsInv /\ [TensorsNext]_tensorVars => TensorsInv'
<1> SUFFICES ASSUME TensorsInv, [TensorsNext]_tensorVars PROVE TensorsInv'
  OBVIOUS
<1>1. /\ managed \in BOOLEAN /\ TensorsTyped(tensor) /\ MemOk(mem, tensor, managed)
  BY DEF TensorsInv
<1>2. \A n \in Lengths : n \in Nat
  BY TensorsAssumption
<1>3. CASE UNCHANGED tensorVars
  BY <1>3 DEF tensorVars, TensorsInv
<1>4. ASSUME NEW t \in TensorNames, NEW n \in Lengths, Construct(t, n) PROVE TensorsInv'
  BY <1>2, <1>4, RefillKeeps DEF Construct
<1>5. ASSUME NEW t \in TensorNames, NEW n \in Lengths, Reshape(t, n) PROVE TensorsInv'
  BY <1>2, <1>5, RefillKeeps DEF Reshape
<1>6. ASSUME NEW t \in TensorNames, NEW u \in TensorNames, CopyConstruct(t, u) PROVE TensorsInv'
  BY <1>6, TensorIs, RefillKeeps DEF CopyConstruct
<1>7. ASSUME NEW t \in TensorNames, NEW u \in TensorNames, CopyAssign(t, u) PROVE TensorsInv'
  BY <1>7, TensorIs, RefillKeeps DEF CopyAssign
<1>8. ASSUME NEW t \in TensorNames, NEW u \in TensorNames, MoveConstruct(t, u) PROVE TensorsInv'
  <2>1. /\ t # u /\ tensor[t] = Dead /\ Alive(tensor[u]) /\ mem' = mem /\ managed' = managed
        /\ tensor' = [tensor EXCEPT ![t] = tensor[u], ![u] = Empty]
    BY <1>8, TensorIs DEF MoveConstruct
  <2>2. \A a \in Addresses : ~Holds(tensor, t, a)
    BY <2>1, EmptyHolds
  <2>3. TensorsTyped(tensor') /\ MemOk(mem, tensor', managed)
    BY <1>1, <2>1, <2>2, MoveKeeps
  <2> QED BY <1>1, <2>1, <2>3 DEF TensorsInv
<1>9. ASSUME NEW t \in TensorNames, NEW u \in TensorNames, MoveAssign(t, u) PROVE TensorsInv'
  <2>1. /\ t # u /\ Alive(tensor[u]) /\ mem' = Freed(mem, tensor[t]) /\ managed' = managed
        /\ tensor' = [tensor EXCEPT ![t] = tensor[u], ![u] = Empty]
    BY <1>9, TensorIs DEF MoveAssign
  <2> DEFINE p == [tensor EXCEPT ![t] = Empty]
  <2>2. /\ TensorsTyped(p) /\ p[t] = Empty /\ \A v \in TensorNames \ {t} : p[v] = tensor[v]
    BY <1>1, EmptyHolds, StillTyped
  <2>3. tensor' = [p EXCEPT ![t] = p[u], ![u] = Empty]
    <3>1. p[u] = tensor[u] /\ tensor = [v \in TensorNames |-> tensor[v]]
      BY <1>1, <2>1, <2>2 DEF TensorsTyped
    <3> QED BY <2>1, <3>1
  <2> HIDE DEF p
  <2>4. \A a \in Addresses : ~Holds(p, t, a)
    BY <2>2, EmptyHolds
  <2>5. MemOk(Freed(mem, tensor[t]), p, managed)
    BY <1>1, <2>2, <2>4, TensorIs, FreedIsOk
  <2>6. Alive(p[u])
    BY <2>1, <2>2
  <2> DEFINE m == Freed(mem, tensor[t])
  <2> HIDE DEF m
  <2>7. TensorsTyped(tensor') /\ MemOk(m, tensor', managed)
    <3>1. managed \in BOOLEAN /\ t # u /\ TensorsTyped(p) /\ MemOk(m, p, managed)
      BY <1>1, <2>1, <2>2, <2>5 DEF m
    <3> QED BY ONLY t \in TensorNames, u \in TensorNames, <2>3, <2>4, <2>6, <3>1, MoveKeeps
  <2> QED BY <1>1, <2>1, <2>7 DEF TensorsInv, m
<1>10. ASSUME NEW t \in TensorNames, NEW u \in TensorNames, View(t, u) PROVE TensorsInv'
  <2> DEFINE x == [tensor[u] EXCEPT !.owns = FALSE]
  <2>1. /\ tensor[t] = Dead /\ Alive(tensor[u]) /\ mem' = mem /\ managed' = managed
        /\ tensor' = [tensor EXCEPT ![t] = x]
    BY <1>10, TensorIs DEF View
  <2>2. Alive(x) /\ x.owns = FALSE
    BY <2>1 DEF Alive
  <2> HIDE DEF x
  <2>3. /\ TensorsTyped(tensor') /\ tensor'[t] = x
        /\ \A v \in TensorNames \ {t} : tensor'[v] = tensor[v]
    <3>1. /\ TensorsTyped([tensor EXCEPT ![t] = x]) /\ [tensor EXCEPT ![t] = x][t] = x
          /\ \A v \in TensorNames \ {t} : [tensor EXCEPT ![t] = x][v] = tensor[v]
      BY <1>1, <2>2, StillTyped
    <3> QED BY <2>1, <3>1
  <2>4. \A a \in Addresses : ~Holds(tensor, t, a) /\ ~Holds(tensor', t, a)
    BY <2>1, <2>2, <2>3, EmptyHolds DEF Holds
  <2>5. \A v \in TensorNames, a \in Addresses :
            /\ Holds(tensor', v, a) <=> Holds(tensor, v, a)
            /\ Holds(tensor', v, a) => tensor'[v].n = tensor[v].n
    BY <2>3, <2>4 DEF Holds
  <2>6. MemOk(mem, tensor', managed)
    BY <1>1, <2>5, NothingMoves
  <2> QED BY <1>1, <2>1, <2>3, <2>6 DEF TensorsInv
<1>11. ASSUME NEW t \in TensorNames, Destroy(t) PROVE TensorsInv'
  <2>1. /\ mem' = Freed(mem, tensor[t]) /\ managed' = managed
        /\ tensor' = [tensor EXCEPT ![t] = Dead]
    BY <1>11 DEF Destroy
  <2>2. /\ TensorsTyped(tensor') /\ tensor'[t] = Dead
        /\ \A v \in TensorNames \ {t} : tensor'[v] = tensor[v]
    <3>1. PICK x : x = Dead
      OBVIOUS
    <3>2. /\ TensorsTyped([tensor EXCEPT ![t] = x]) /\ [tensor EXCEPT ![t] = x][t] = x
          /\ \A v \in TensorNames \ {t} : [tensor EXCEPT ![t] = x][v] = tensor[v]
      <4>1. x = Dead \/ Alive(x)
        BY <3>1
      <4> QED BY ONLY t \in TensorNames, <1>1, <4>1, StillTyped
    <3> QED BY <2>1, <3>1, <3>2
  <2>3. \A a \in Addresses : ~Holds(tensor', t, a)
    BY <2>2, EmptyHolds
  <2>4. MemOk(Freed(mem, tensor[t]), tensor', managed)
    BY <1>1, <2>2, <2>3, TensorIs, FreedIsOk
  <2> QED BY <1>1, <2>1, <2>2, <2>4 DEF TensorsInv
<1>12. CASE SetMemoryManager
  <2>1. managed' = TRUE /\ tensor' = tensor /\ mem' = mem
    BY <1>12 DEF SetMemoryManager
  <2>2. NothingLeaks(mem.heap, tensor, TRUE)
    BY <1>1 DEF MemOk, NothingLeaks
  <2> QED BY <1>1, <2>1, <2>2 DEF TensorsInv, MemOk
<1> QED BY <1>3, <1>4, <1>5, <1>6, <1>7, <1>8, <1>9, <1>10, <1>11, <1>12 DEF TensorsNext

LEMMA TensorsAreSafe == TensorsInv => OneOwnerEach /\ ManagerExact
<1> SUFFICES ASSUME TensorsInv PROVE OneOwnerEach /\ ManagerExact
  OBVIOUS
<1>1. /\ MemTyped(mem) /\ OwnedOnce(mem.heap, tensor) /\ NothingLeaks(mem.heap, tensor, managed)
      /\ BlocksKnown(mem, tensor) /\ TotalRight(mem) /\ managed \in BOOLEAN
  BY DEF TensorsInv, MemOk
<1>2. ManagerExact
  BY <1>1, SumFunctionIs DEF TotalRight, ManagerExact
<1> DEFINE OwnersOf(a) == {t \in TensorNames : Owns(t) /\ tensor[t].data = a}
<1>3. ASSUME NEW a \in Addresses
      PROVE  Cardinality(OwnersOf(a)) \in
               CASE mem.heap[a] = "free" -> {0}
                 [] mem.heap[a] = "new" /\ managed -> {0, 1}
                 [] OTHER -> {1}
  <2>1. \A t \in TensorNames : t \in OwnersOf(a) <=> Holds(tensor, t, a)
    BY NullIsNoAddress DEF Owns, Holds
  <2>2. mem.heap[a] \in {"free", "new", "mapped"}
    BY <1>1 DEF MemTyped
  <2>3. OwnersOf(a) = {} \/ \E t \in TensorNames : OwnersOf(a) = {t}
    <3> SUFFICES ASSUME NEW t \in OwnersOf(a) PROVE OwnersOf(a) = {t}
      OBVIOUS
    <3>1. \A u \in TensorNames : Holds(tensor, u, a) => u = t
      BY <1>1, <2>1 DEF OwnedOnce
    <3> QED BY <2>1, <3>1
  <2>4. mem.heap[a] = "free" => OwnersOf(a) = {}
    BY <1>1, <2>1 DEF OwnedOnce
  <2>5. mem.heap[a] = "mapped" \/ (mem.heap[a] = "new" /\ ~managed) => OwnersOf(a) # {}
    BY <1>1, <2>1 DEF NothingLeaks
  <2> DEFINE c == Cardinality(OwnersOf(a))
  <2>6. /\ OwnersOf(a) = {} => c = 0
        /\ \A t : OwnersOf(a) = {t} => c = 1
    BY FS_EmptySet, FS_Singleton
  <2> DEFINE none == OwnersOf(a) = {}
  <2>7. c \in {0, 1} /\ (none => c = 0) /\ (~none => c = 1)
    BY <2>3, <2>6
  <2> HIDE DEF c
  <2>8. CASE mem.heap[a] = "free"
    <3>1. c = 0
      BY <2>4, <2>7, <2>8
    <3> QED BY <2>8, <3>1 DEF c
  <2>9. CASE mem.heap[a] = "new" /\ managed
    BY <2>7, <2>9 DEF c
  <2>10. CASE mem.heap[a] = "mapped" \/ (mem.heap[a] = "new" /\ ~managed)
    <3>1. c = 1
      BY <2>5, <2>7, <2>10
    <3> QED BY <2>10, <3>1 DEF c
  <2> QED BY <1>1, <2>2, <2>8, <2>9, <2>10
<1>4. DOMAIN mem.blocks = {a \in Addresses : mem.heap[a] = "mapped"}
  BY <1>1 DEF BlocksKnown
<1>5. \A t \in TensorNames : Owns(t) /\ tensor[t].data \in DOMAIN mem.blocks =>
         mem.blocks[tensor[t].data] = Pages(tensor[t].n)
  BY <1>1 DEF BlocksKnown, Owns, Holds
<1> QED BY <1>2, <1>3, <1>4, <1>5 DEF OneOwnerEach

-----------------------------------------------------------------------------
MemoryInv ==
  /\ focus \in {"tensors", "pool", "unified", "activations", "kv"}
  /\ TensorsInv /\ PoolInv /\ UmInv /\ ActInv /\ KvInv

LEMMA MemoryStarts == MemoryInit => MemoryInv
<1> SUFFICES ASSUME MemoryInit PROVE MemoryInv
  OBVIOUS
<1>1. TensorsInv /\ PoolInv /\ UmInv /\ KvInv
  BY TensorsStart, PoolStarts, UmStarts, KvStarts DEF MemoryInit
<1>2. ActInv
  BY ActStarts DEF MemoryInit, ActInit
<1> QED BY <1>1, <1>2 DEF MemoryInit, MemoryInv

(* Every component takes a step of its own or none.                          *)
LEMMA MemoryStep == MemoryInv /\ [MemoryNext]_memoryVars => MemoryInv'
<1> SUFFICES ASSUME MemoryInv, [MemoryNext]_memoryVars PROVE MemoryInv'
  OBVIOUS
<1>1. /\ [TensorsNext]_tensorVars /\ [PoolNext]_poolVars /\ [UmNext]_umVars
      /\ [ActNext]_actVars /\ [KvNext]_kvVars /\ focus' = focus
  BY DEF MemoryNext, memoryVars, others
<1> QED BY <1>1, TensorsStep, PoolStep, UmStep, ActStep, KvStep DEF MemoryInv

LEMMA MemoryInvHolds == MemorySpec => []MemoryInv
BY MemoryStarts, MemoryStep, PTL DEF MemorySpec

(* What two holders of memory hold stays apart: of core/tensor.hpp and       *)
(* core/memory_manager.hpp, every piece of storage has the one owner that    *)
(* frees it, through copies, moves, views and reshapes and whenever the      *)
(* manager is set; of core/memory_pool.hpp, the regions handed out since a   *)
(* reset are aligned and apart; of core/unified_memory.hpp, no two blocks    *)
(* point to the same memory, although keys are handed out again.             *)
THEOREM HoldersStayApart == MemorySpec => []HoldersApart
<1>1. MemoryInv => HoldersApart
  BY TensorsAreSafe, PoolIsSafe, UmIsSafe DEF MemoryInv, HoldersApart
<1> QED BY <1>1, MemoryInvHolds, PTL

(* Every byte counter is the sum of what it counts, for any sizes: the       *)
(* manager's, the leak detector's up to the records a reset made it lose,    *)
(* the wrapping usage counters of unified memory until a block migrates, and *)
(* the activations' (nn/checkpointing.hpp) up to entries saved over, which   *)
(* stays within the largest budget while the entries have one size.          *)
THEOREM CountersAgree == MemorySpec => []CountersBalance
<1>1. MemoryInv => CountersBalance
  BY TensorsAreSafe, PoolIsSafe, UmIsSafe, ActIsSafe DEF MemoryInv, CountersBalance
<1> QED BY <1>1, MemoryInvHolds, PTL

(* What the stores of activations give back is what was saved last: the      *)
(* activation of a layer is its latest, unless it was evicted when what is   *)
(* held, what was saved over and the new entry did not fit the budget; and   *)
(* the vector backward adds at a position is the one retrieve returns there. *)
THEOREM LatestComesBack == MemorySpec => []ReadsBack
<1>1. MemoryInv => ReadsBack
  BY ActIsSafe, KvIsSafe DEF MemoryInv, ReadsBack
<1> QED BY <1>1, MemoryInvHolds, PTL

=============================================================================
