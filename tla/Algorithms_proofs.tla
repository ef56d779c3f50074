------------------------- MODULE Algorithms_proofs -------------------------
(***************************************************************************)
(* The threads of the ring all-reduce never race, for every number of      *)
(* ranks and of elements, although nothing but the join after each step    *)
(* orders them: in a step, neighbours are at different chunks.  Hence what  *)
(* a step leaves does not depend on the order its threads ran in.          *)
(*                                                                         *)
(* Then the pure algorithms of MCAlgorithms.  A property of its run is      *)
(* first proved for inputs of any size (shards, the flow of a transformer,  *)
(* the variants of attention, flash attention, quantization, rounding of    *)
(* every float, the numbers of the formats, tokens), and then for the       *)
(* inputs of the run, whatever the values of its constants.                 *)
(***************************************************************************)
EXTENDS AllReduce, MCAlgorithms, FiniteSetTheorems, SequenceTheorems, WellFoundedInduction, TLAPS

(* Every nonempty set of naturals has a least element.                       *)
LEMMA LeastNatural ==
  ASSUME NEW T, T \subseteq Nat, T # {}
  PROVE  \E x \in T : \A y \in T : x <= y
<1> DEFINE Smaller == OpToRel(<, Nat)
<1>1. \A x, y \in Nat : <<y, x>> \in Smaller <=> y < x
  BY DEF OpToRel
<1>2. IsWellFoundedOn(Smaller, Nat)
  BY NatLessThanWellFounded
<1> HIDE DEF Smaller
<1>3. PICK x \in T : \A y \in T : ~(<<y, x>> \in Smaller)
  BY <1>2, WFMin, Zenon
<1>4. x \in Nat /\ \A y \in T : y \in Nat /\ ~(y < x)
  BY <1>1, <1>3
<1> QED BY <1>3, <1>4

LEMMA Induction ==
  ASSUME NEW T, 0 \in T, \A n \in Nat : n \in T => n + 1 \in T
  PROVE  Nat \subseteq T
<1> SUFFICES ASSUME Nat \ T # {} PROVE FALSE
  OBVIOUS
<1> DEFINE Before == OpToRel(<, Nat)
           Rest == Nat \ T
<1>1. \A x, y \in Nat : <<y, x>> \in Before <=> y < x
  BY DEF OpToRel
<1>2. IsWellFoundedOn(Before, Nat)
  BY NatLessThanWellFounded
<1>3. Rest \subseteq Nat /\ Rest # {}
  OBVIOUS
<1> HIDE DEF Before, Rest
<1>4. PICK x \in Rest : \A y \in Rest : ~(<<y, x>> \in Before)
  BY <1>2, <1>3, WFMin, Zenon
<1>5. x \in Nat /\ x \notin T /\ \A y \in Nat \ T : ~(y < x)
  BY <1>1, <1>3, <1>4 DEF Rest
<1>6. x # 0 /\ x - 1 \in Nat /\ (x - 1) + 1 = x
  BY <1>5
<1>7. x - 1 \in T
  BY <1>5, <1>6
<1> QED BY <1>5, <1>6, <1>7

LEMMA Quotient ==
  ASSUME NEW n \in Nat, NEW w \in Nat \ {0}
  PROVE  n = w * (n \div w) + (n % w) /\ n % w \in 0..(w - 1) /\ n \div w \in Nat
  OBVIOUS

LEMMA Multiples ==
  ASSUME NEW a \in Nat, NEW b \in Nat, NEW q \in Nat
  PROVE  /\ a * q \in Nat /\ (a + 1) * q = a * q + q
         /\ a <= b => a * q <= b * q
         /\ a < b => a * q + q <= b * q
<1>1. a * q \in Nat /\ (a + 1) * q = a * q + q
  OBVIOUS
<1>2. a <= b => a * q <= b * q
  OBVIOUS
<1>3. a < b => (a + 1) * q <= b * q
  <2> HAVE a < b
  <2>1. a + 1 <= b /\ a + 1 \in Nat
    OBVIOUS
  <2> QED BY <2>1
<1> QED BY <1>1, <1>2, <1>3

(* Sums over finite sets.  SumFunctionOnSet folds with a recursive function,  *)
(* whose equation is Adds; it has one solution on the subsets of a finite    *)
(* set.                                                                      *)
Picked(s) == CHOOSE x \in s : TRUE
Adds(f, S, g) ==
  g = [s \in SUBSET S |-> IF s = {} THEN 0 ELSE f[Picked(s)] + g[s \ {Picked(s)}]]
Sum(f, S) == SumFunctionOnSet(f, S)

LEMMA SumIs ==
  ASSUME NEW f, NEW S
  PROVE  Sum(f, S) = (CHOOSE g : Adds(f, S, g))[S]
BY Zenon DEF Sum, SumFunctionOnSet, FoldFunctionOnSet, MapThenFoldSet, Adds, Picked

LEMMA PickedIs ==
  ASSUME NEW s, IsFiniteSet(s), s # {}
  PROVE  /\ Picked(s) \in s /\ IsFiniteSet(s \ {Picked(s)})
         /\ Cardinality(s \ {Picked(s)}) = Cardinality(s) - 1
         /\ Cardinality(s) \in Nat \ {0}
<1>1. Picked(s) \in s
  BY DEF Picked
<1> QED BY <1>1, FS_RemoveElement, FS_CardinalityType, FS_EmptySet

(* The equation holds for the sets of up to n elements.                      *)
AddsUpTo(f, S, n, g) ==
  /\ DOMAIN g = SUBSET S
  /\ \A s \in SUBSET S : Cardinality(s) <= n =>
       g[s] = IF s = {} THEN 0 ELSE f[Picked(s)] + g[s \ {Picked(s)}]

LEMMA AddsOneMore ==
  ASSUME NEW f, NEW S, IsFiniteSet(S), NEW n \in Nat, NEW g, AddsUpTo(f, S, n, g)
  PROVE  \E h : AddsUpTo(f, S, n + 1, h)
<1> DEFINE h == [s \in SUBSET S |-> IF Cardinality(s) = n + 1
                                    THEN f[Picked(s)] + g[s \ {Picked(s)}] ELSE g[s]]
<1>1. ASSUME NEW s \in SUBSET S, Cardinality(s) <= n + 1, s # {}
      PROVE  h[s] = f[Picked(s)] + h[s \ {Picked(s)}]
  <2> DEFINE r == s \ {Picked(s)}
  <2>1. IsFiniteSet(s)
    BY FS_Subset
  <2>2. r \in SUBSET S /\ Cardinality(r) = Cardinality(s) - 1 /\ Cardinality(s) \in Nat
    BY <1>1, <2>1, PickedIs
  <2> HIDE DEF r
  <2>3. h[r] = g[r]
    BY <1>1, <2>2
  <2>4. h[s] = f[Picked(s)] + g[r]
    BY <1>1, <2>2 DEF AddsUpTo, r
  <2> QED BY <2>3, <2>4 DEF r
<1>2. ASSUME NEW s \in SUBSET S, s = {} PROVE h[s] = 0
  BY <1>2, FS_EmptySet DEF AddsUpTo
<1>3. DOMAIN h = SUBSET S
  OBVIOUS
<1> HIDE DEF h
<1>4. AddsUpTo(f, S, n + 1, h)
  BY <1>1, <1>2, <1>3 DEF AddsUpTo
<1> QED BY <1>4

LEMMA AddsExists ==
  ASSUME NEW f, NEW S, IsFiniteSet(S)
  PROVE  Adds(f, S, CHOOSE g : Adds(f, S, g))
<1> DEFINE Bad == {n \in Nat : ~\E g : AddsUpTo(f, S, n, g)}
<1>1. \E g : AddsUpTo(f, S, 0, g)
  <2> DEFINE g == [s \in SUBSET S |-> 0]
  <2>1. \A s \in SUBSET S : Cardinality(s) <= 0 => s = {}
    BY FS_Subset, FS_EmptySet, FS_CardinalityType
  <2>2. AddsUpTo(f, S, 0, g)
    BY <2>1 DEF AddsUpTo
  <2> QED BY <2>2
<1>2. Bad = {}
  <2> SUFFICES ASSUME Bad # {} PROVE FALSE
    OBVIOUS
  <2>1. PICK n \in Bad : \A y \in Bad : n <= y
    BY LeastNatural
  <2>2. n # 0 /\ n \in Nat
    BY <1>1, <2>1
  <2>3. n - 1 \in Nat /\ n - 1 \notin Bad /\ (n - 1) + 1 = n
    BY <2>1, <2>2
  <2>4. PICK g : AddsUpTo(f, S, n - 1, g)
    BY <2>3
  <2>5. \E h : AddsUpTo(f, S, (n - 1) + 1, h)
    BY ONLY <2>3, <2>4, IsFiniteSet(S), AddsOneMore
  <2> QED BY <2>1, <2>3, <2>5
<1>3. Cardinality(S) \in Nat
  BY FS_CardinalityType
<1>4. PICK g : AddsUpTo(f, S, Cardinality(S), g)
  BY <1>2, <1>3
<1>5. \A s \in SUBSET S : Cardinality(s) <= Cardinality(S)
  BY FS_Subset
<1> DEFINE h == [s \in SUBSET S |-> g[s]]
<1>6. ASSUME NEW s \in SUBSET S
      PROVE  h[s] = IF s = {} THEN 0 ELSE f[Picked(s)] + h[s \ {Picked(s)}]
  BY <1>4, <1>5 DEF AddsUpTo
<1>7. h = [s \in SUBSET S |-> h[s]]
  OBVIOUS
<1> HIDE DEF h
<1>8. Adds(f, S, h)
  BY <1>6, <1>7, Zenon DEF Adds
<1> QED BY <1>8

(* Solutions agree where the functions do.                                   *)
LEMMA AddsAgree ==
  ASSUME NEW f, NEW g, NEW S, NEW T, NEW p, NEW q, Adds(f, S, p), Adds(g, T, q),
         IsFiniteSet(S), T \subseteq S, \A x \in T : f[x] = g[x]
  PROVE  p[T] = q[T]
<1> DEFINE Bad == {n \in Nat : \E s \in SUBSET T : Cardinality(s) = n /\ p[s] # q[s]}
<1>1. Bad = {}
  <2> SUFFICES ASSUME Bad # {} PROVE FALSE
    OBVIOUS
  <2>1. PICK n \in Bad : \A y \in Bad : n <= y
    BY LeastNatural
  <2>2. PICK s \in SUBSET T : Cardinality(s) = n /\ p[s] # q[s]
    BY <2>1
  <2>3. IsFiniteSet(s) /\ s \in SUBSET S
    BY FS_Subset
  <2>4. CASE s = {}
    BY <2>2, <2>3, <2>4 DEF Adds
  <2>5. CASE s # {}
    <3> DEFINE r == s \ {Picked(s)}
    <3>1. r \in SUBSET T /\ r \in SUBSET S /\ Picked(s) \in T
          /\ Cardinality(r) = n - 1 /\ n \in Nat \ {0}
      BY <2>2, <2>3, <2>5, PickedIs
    <3>2. p[s] = f[Picked(s)] + p[r] /\ q[s] = g[Picked(s)] + q[r]
      BY <2>3, <2>5 DEF Adds
    <3>3. p[r] # q[r]
      BY <2>2, <3>1, <3>2
    <3> HIDE DEF r
    <3>4. n - 1 \in Bad
      BY <3>1, <3>3
    <3> QED BY <2>1, <3>1, <3>4
  <2> QED BY <2>4, <2>5
<1>2. Cardinality(T) \in Nat
  BY FS_Subset, FS_CardinalityType
<1> QED BY <1>1, <1>2

(* The sum depends on the values alone.                                      *)
LEMMA SumSame ==
  ASSUME NEW f, NEW g, NEW S, IsFiniteSet(S), \A x \in S : f[x] = g[x]
  PROVE  Sum(f, S) = Sum(g, S)
<1> DEFINE p == CHOOSE p : Adds(f, S, p)
           q == CHOOSE q : Adds(g, S, q)
<1>1. Sum(f, S) = p[S] /\ Sum(g, S) = q[S]
  BY SumIs
<1>2. Adds(f, S, p) /\ Adds(g, S, q)
  BY AddsExists
<1> HIDE DEF p, q
<1> QED BY <1>1, <1>2, AddsAgree

(* It is none over the empty set, and adds the picked element first.         *)
LEMMA SumFirst ==
  ASSUME NEW f, NEW S, IsFiniteSet(S)
  PROVE  Sum(f, S) = IF S = {} THEN 0 ELSE f[Picked(S)] + Sum(f, S \ {Picked(S)})
<1> DEFINE g == CHOOSE g : Adds(f, S, g)
           R == S \ {Picked(S)}
           h == CHOOSE h : Adds(f, R, h)
<1>1. Sum(f, S) = g[S] /\ Adds(f, S, g)
  BY SumIs, AddsExists
<1> HIDE DEF g
<1>2. CASE S = {}
  BY <1>1, <1>2 DEF Adds
<1>3. CASE S # {}
  <2>1. IsFiniteSet(R) /\ R \subseteq S
    BY <1>3, PickedIs
  <2> HIDE DEF R
  <2>2. Sum(f, R) = h[R] /\ Adds(f, R, h)
    BY <2>1, SumIs, AddsExists
  <2> HIDE DEF h
  <2>3. g[R] = h[R]
    BY <1>1, <2>1, <2>2, AddsAgree
  <2>4. g[S] = f[Picked(S)] + g[R]
    BY <1>1, <1>3 DEF Adds, R
  <2> QED BY <1>1, <1>3, <2>2, <2>3, <2>4 DEF R
<1> QED BY <1>2, <1>3

(* Any element may be taken out, not only the picked one.                    *)
LEMMA SumWithout ==
  ASSUME NEW f, NEW S, IsFiniteSet(S), \A x \in S : f[x] \in Int
  PROVE  /\ Sum(f, S) \in Int
         /\ \A a \in S : Sum(f, S) = f[a] + Sum(f, S \ {a})
<1> DEFINE Holds(s) == /\ Sum(f, s) \in Int
                       /\ \A a \in s : Sum(f, s) = f[a] + Sum(f, s \ {a})
           Bad == {n \in Nat : \E s \in SUBSET S : Cardinality(s) = n /\ ~Holds(s)}
<1>1. Bad = {}
  <2> SUFFICES ASSUME Bad # {} PROVE FALSE
    OBVIOUS
  <2> HIDE DEF Holds
  <2>1. PICK n \in Bad : \A y \in Bad : n <= y
    BY LeastNatural
  <2>2. PICK s \in SUBSET S : Cardinality(s) = n /\ ~Holds(s)
    BY <2>1
  <2>3. IsFiniteSet(s) /\ \A x \in s : f[x] \in Int
    BY FS_Subset
  <2>4. CASE s = {}
    <3>1. Sum(f, s) = 0
      BY <2>3, <2>4, SumFirst
    <3> QED BY <2>2, <2>4, <3>1 DEF Holds
  <2>5. CASE s # {}
    <3> DEFINE b == Picked(s)
    <3>1. b \in s /\ n \in Nat \ {0}
      BY <2>2, <2>3, <2>5, PickedIs
    <3>2. Sum(f, s) = f[b] + Sum(f, s \ {b})
      BY <2>3, <2>5, SumFirst
    <3> HIDE DEF b
    <3>3. ASSUME NEW a \in s PROVE Holds(s \ {a})
      <4>1. s \ {a} \in SUBSET S /\ Cardinality(s \ {a}) = n - 1
        BY <2>2, <2>3, FS_RemoveElement
      <4>2. n - 1 \in Nat /\ n - 1 \notin Bad
        BY <2>1, <3>1
      <4> QED BY <4>1, <4>2
    <3>4. Sum(f, s) \in Int
      BY <2>3, <3>1, <3>2, <3>3 DEF Holds
    <3>5. ASSUME NEW a \in s, a # b PROVE Sum(f, s) = f[a] + Sum(f, s \ {a})
      <4> DEFINE t == (s \ {a}) \ {b}
      <4>1. Sum(f, s \ {a}) = f[b] + Sum(f, t)
        BY <3>1, <3>3, <3>5 DEF Holds
      <4>2. (s \ {b}) \ {a} = t
        OBVIOUS
      <4>3. Sum(f, s \ {b}) = f[a] + Sum(f, t)
        BY <3>1, <3>3, <3>5, <4>2 DEF Holds
      <4>4. Sum(f, t) \in Int
        <5>1. /\ Sum(f, s \ {a}) \in Int /\ f[b] \in Int /\ Cardinality(t) = n - 2
              /\ n - 2 \in Nat /\ t \in SUBSET S
          <6>1. b \in s \ {a} /\ IsFiniteSet(s \ {a})
            BY <2>3, <3>1, <3>5, FS_Subset
          <6>2. Cardinality(s \ {a}) = n - 1 /\ Cardinality(t) = (n - 1) - 1
            <7>1. Cardinality(s \ {a}) = n - 1
              BY <2>2, <2>3, FS_RemoveElement
            <7>2. Cardinality(t) = Cardinality(s \ {a}) - 1
              BY <6>1, FS_RemoveElement
            <7> QED BY <7>1, <7>2
          <6>3. Cardinality(t) \in Nat
            BY <6>1, FS_Subset, FS_CardinalityType
          <6> QED BY <2>3, <3>1, <3>3, <6>2, <6>3 DEF Holds
        <5>2. n - 2 \notin Bad
          BY <2>1, <5>1
        <5>3. Holds(t)
          BY <5>1, <5>2
        <5> QED BY <5>3 DEF Holds
      <4> HIDE DEF t
      <4>5. f[a] \in Int /\ f[b] \in Int
        BY <2>3, <3>1
      <4> QED BY <3>2, <4>1, <4>3, <4>4, <4>5
    <3>6. Holds(s)
      BY <3>2, <3>4, <3>5 DEF Holds
    <3> QED BY <2>2, <3>6
  <2> QED BY <2>4, <2>5
<1>2. Cardinality(S) \in Nat
  BY FS_CardinalityType
<1> QED BY <1>1, <1>2

LEMMA SumNone ==
  ASSUME NEW f PROVE Sum(f, {}) = 0
BY SumFirst, FS_EmptySet

(* Two sums over sets that differ in one element at most.                    *)
Part(f, S, a) == IF a \in S THEN f[a] ELSE 0
LEMMA SumDiffers ==
  ASSUME NEW f, NEW S, NEW g, NEW T, NEW a, IsFiniteSet(S), IsFiniteSet(T),
         S \ {a} = T \ {a}, \A x \in S : f[x] \in Int, \A x \in T : g[x] \in Int,
         \A x \in S \ {a} : f[x] = g[x]
  PROVE  /\ Sum(f, S) \in Int /\ Sum(g, T) \in Int
         /\ Sum(f, S) - Part(f, S, a) = Sum(g, T) - Part(g, T, a)
<1> DEFINE R == S \ {a}
<1>1. IsFiniteSet(R) /\ \A x \in R : f[x] = g[x]
  BY FS_Subset
<1>2. Sum(f, R) = Sum(g, R)
  BY <1>1, SumSame
<1>3. Sum(f, S) \in Int /\ Sum(f, R) = Sum(f, S) - Part(f, S, a)
  <2>0. Sum(f, S) \in Int
    BY SumWithout
  <2>1. CASE a \in S
    <3>1. Sum(f, S) = f[a] + Sum(f, R)
      BY <2>1, SumWithout
    <3>2. Sum(f, R) \in Int /\ f[a] \in Int
      BY <1>1, <2>1, SumWithout
    <3> HIDE DEF R
    <3> QED BY <2>0, <2>1, <3>1, <3>2 DEF Part
  <2>2. CASE a \notin S
    <3>1. R = S
      BY <2>2
    <3>2. Sum(f, R) = Sum(f, S)
      BY <3>1
    <3> HIDE DEF R
    <3> QED BY <2>0, <2>2, <3>2 DEF Part
  <2> QED BY <2>1, <2>2
<1>4. Sum(g, T) \in Int /\ Sum(g, R) = Sum(g, T) - Part(g, T, a)
  <2>0. Sum(g, T) \in Int
    BY SumWithout
  <2>1. CASE a \in T
    <3>1. Sum(g, T) = g[a] + Sum(g, R)
      BY <2>1, SumWithout
    <3>2. Sum(g, R) \in Int /\ g[a] \in Int
      BY <1>1, <2>1, SumWithout
    <3> HIDE DEF R
    <3> QED BY <2>0, <2>1, <3>1, <3>2 DEF Part
  <2>2. CASE a \notin T
    <3>1. R = T
      BY <2>2
    <3>2. Sum(g, R) = Sum(g, T)
      BY <3>1
    <3> HIDE DEF R
    <3> QED BY <2>0, <2>2, <3>2 DEF Part
  <2> QED BY <2>1, <2>2
<1> HIDE DEF R
<1> QED BY <1>2, <1>3, <1>4

(* The sum over a whole function.                                            *)
LEMMA SumFunctionIs == ASSUME NEW f PROVE SumFunction(f) = Sum(f, DOMAIN f)
BY DEF SumFunction, Sum

(* Each kind of input has its own set. *)
LEMMA Kinds ==
  ASSUME AnyInput
  PROVE  /\ input.kind = "attention" => input \in AttentionInputs
         /\ input.kind = "float" => input \in FloatInputs
         /\ input.kind = "narrow" => input \in NarrowInputs
         /\ input.kind = "vector" => input \in VectorInputs
         /\ input.kind = "shards" => input \in ShardInputs
         /\ input.kind = "grads" => input \in GradInputs
         /\ input.kind = "flow" => input \in FlowInputs
         /\ input.kind = "token" => input \in TokenInputs
         /\ input.kind = "tensors" => input \in TensorInputs
<1>1. \A x \in AttentionInputs : x.kind = "attention"
  BY DEF AttentionInputs
<1>2. \A x \in FloatInputs : x.kind = "float"
  BY DEF FloatInputs
<1>3. \A x \in NarrowInputs : x.kind = "narrow"
  BY DEF NarrowInputs
<1>4. \A x \in VectorInputs : x.kind = "vector"
  BY DEF VectorInputs
<1>5. \A x \in ShardInputs : x.kind = "shards"
  BY DEF ShardInputs
<1>6. \A x \in GradInputs : x.kind = "grads"
  BY DEF GradInputs
<1>7. \A x \in FlowInputs : x.kind = "flow"
  BY DEF FlowInputs
<1>8. \A x \in TokenInputs : x.kind = "token"
  BY DEF TokenInputs
<1>9. \A x \in TensorInputs : x.kind = "tensors"
  BY DEF TensorInputs
<1> QED BY <1>1, <1>2, <1>3, <1>4, <1>5, <1>6, <1>7, <1>8, <1>9 DEF AnyInput
-----------------------------------------------------------------------------
(* Once around the ring at most.                                             *)
LEMMA ModOnce ==
  ASSUME NEW n \in Nat, n > 0, NEW x \in 0..(2 * n - 1)
  PROVE  x % n = IF x < n THEN x ELSE x - n
<1>1. x = n * (x \div n) + (x % n) /\ x % n \in 0..(n - 1) /\ x \div n \in Int
  OBVIOUS
<1> DEFINE q == x \div n
           m == x % n
<1>2. x = n * q + m /\ m \in 0..(n - 1) /\ q \in Int
  BY <1>1
<1> HIDE DEF q, m
<1>3. q < 2
  <2> SUFFICES ASSUME q >= 2 PROVE FALSE
    BY <1>2
  <2>1. n * q >= n * 2
    BY <1>2
  <2> QED BY ONLY <1>2, <2>1, n \in Nat, x \in 0..(2 * n - 1)
<1>4. q >= 0
  <2> SUFFICES ASSUME q <= -1 PROVE FALSE
    BY <1>2
  <2>1. n * q <= n * (-1)
    BY <1>2
  <2> QED BY ONLY <1>2, <2>1, n \in Nat, x \in 0..(2 * n - 1)
<1>5. q = 0 \/ q = 1
  BY ONLY <1>2, <1>3, <1>4
<1>6. m = IF x < n THEN x ELSE x - n
  BY ONLY <1>2, <1>5, n \in Nat, x \in 0..(2 * n - 1)
<1> QED BY <1>6 DEF m

LEMMA Chunks ==
  /\ ChunkSize \in Nat
  /\ \A c \in Ranks : First(c) \in 0..N /\ Past(c) \in 0..N /\ First(c) <= Past(c)
  /\ \A c, d \in Ranks : c < d => Past(c) <= First(d)
<1>1. W \in Nat /\ N \in Nat /\ W > 1
  BY RingAssumption
<1>2. ChunkSize \in Nat /\ W * ChunkSize <= N
  <2>1. N = W * (N \div W) + (N % W) /\ N % W \in 0..(W - 1) /\ N \div W \in Nat
    BY <1>1
  <2> QED BY <1>1, <2>1 DEF ChunkSize
<1>3. \A a, b \in Nat : a <= b => a * ChunkSize <= b * ChunkSize /\ a * ChunkSize \in Nat
  BY <1>2
<1>4. ASSUME NEW c \in Ranks
      PROVE  First(c) \in 0..N /\ Past(c) \in 0..N /\ First(c) <= Past(c)
  <2>1. c \in Nat /\ c + 1 \in Nat /\ c + 1 <= W
    BY <1>1 DEF Ranks
  <2>2. /\ c * ChunkSize \in Nat /\ (c + 1) * ChunkSize \in Nat
        /\ c * ChunkSize <= (c + 1) * ChunkSize /\ (c + 1) * ChunkSize <= W * ChunkSize
        /\ W * ChunkSize \in Nat
    BY <1>1, <1>3, <2>1
  <2> QED BY <1>1, <1>2, <2>2 DEF First, Past
<1>5. ASSUME NEW c \in Ranks, NEW d \in Ranks, c < d PROVE Past(c) <= First(d)
  <2>1. c + 1 \in Nat /\ d \in Nat /\ c + 1 <= d /\ c # W - 1
    BY <1>1, <1>5 DEF Ranks
  <2> QED BY <1>3, <2>1 DEF First, Past
<1> QED BY <1>2, <1>4, <1>5

LEMMA ChunkIsRank ==
  ASSUME NEW p, NEW s \in 0..(W - 2), NEW r \in Ranks
  PROVE  Chunk(p, s, r) \in Ranks
<1>1. W \in Nat /\ W > 1 /\ r \in 0..(W - 1)
  BY RingAssumption DEF Ranks
<1>2. (r + W - s) % W \in 0..(W - 1) /\ (r + W - s - 1) % W \in 0..(W - 1)
  BY <1>1
<1> QED BY <1>2 DEF Chunk, Ranks

LEMMA NeighboursDiffer ==
  ASSUME NEW p, NEW s \in 0..(W - 2), NEW r \in Ranks
  PROVE  /\ NextRank(r) \in Ranks
         /\ Chunk(p, s, r) # Chunk(p, s, NextRank(r))
<1>1. W \in Nat /\ W > 1 /\ r \in 0..(W - 1)
  BY RingAssumption DEF Ranks
<1> DEFINE q == NextRank(r)
<1>2. q = IF r + 1 < W THEN r + 1 ELSE 0
  <2>1. r + 1 \in 0..(2 * W - 1)
    BY <1>1
  <2>2. (r + 1) % W = IF r + 1 < W THEN r + 1 ELSE r + 1 - W
    <3> DEFINE x == r + 1
    <3>1. W \in Nat /\ W > 0 /\ x \in 0..(2 * W - 1)
      BY <1>1, <2>1
    <3> HIDE DEF x
    <3>2. x % W = IF x < W THEN x ELSE x - W
      BY ONLY <3>1, ModOnce
    <3> QED BY <1>1, <3>1, <3>2 DEF x
  <2> QED BY <1>1, <2>2 DEF NextRank
<1>3. q \in 0..(W - 1)
  BY <1>1, <1>2
<1> HIDE DEF q
<1>4. ASSUME NEW t \in 0..(W - 1)
      PROVE  (r + W - t) % W # (q + W - t) % W
  <2>1. r + W - t \in 0..(2 * W - 1) /\ q + W - t \in 0..(2 * W - 1)
    BY <1>1, <1>3
  <2>2. /\ (r + W - t) % W = IF r + W - t < W THEN r + W - t ELSE r + W - t - W
        /\ (q + W - t) % W = IF q + W - t < W THEN q + W - t ELSE q + W - t - W
    <3> DEFINE x == r + W - t
               y == q + W - t
    <3>1. W \in Nat /\ W > 0 /\ x \in 0..(2 * W - 1) /\ y \in 0..(2 * W - 1)
      BY <1>1, <2>1
    <3> HIDE DEF x, y
    <3>2. /\ x % W = IF x < W THEN x ELSE x - W
          /\ y % W = IF y < W THEN y ELSE y - W
      BY ONLY <3>1, ModOnce
    <3> QED BY <1>1, <1>3, <3>1, <3>2 DEF x, y
  <2> QED BY <1>1, <1>2, <2>2
<1>5. r + W - s - 1 = r + W - (s + 1) /\ q + W - s - 1 = q + W - (s + 1)
  BY <1>1, <1>3
<1>6. s \in 0..(W - 1) /\ s + 1 \in 0..(W - 1)
  BY <1>1
<1>7. Chunk(p, s, r) # Chunk(p, s, q)
  BY <1>4, <1>5, <1>6 DEF Chunk
<1> QED BY <1>3, <1>7 DEF Ranks, q

-----------------------------------------------------------------------------
(* A thread stays inside its chunk, or at its end.                           *)
InChunk ==
  phase # "done" =>
    \A r \in Ranks : First(Chunk(phase, step, r)) <= at[r] /\ at[r] <= Past(Chunk(phase, step, r))

IInv == TypeOK /\ InChunk

LEMMA SpawnInv ==
  ASSUME NEW p \in {"reduce", "gather"}, NEW s \in 0..(W - 2), Spawn(p, s)
  PROVE  phase' = p /\ step' = s /\ at' \in [Ranks -> 0..N] /\ InChunk'
<1>1. \A r \in Ranks : Chunk(p, s, r) \in Ranks
  BY ChunkIsRank
<1>2. at' = [r \in Ranks |-> First(Chunk(p, s, r))] /\ phase' = p /\ step' = s
  BY DEF Spawn
<1> QED BY <1>1, <1>2, Chunks DEF InChunk

LEMMA InitInv == Init => IInv
<1> SUFFICES ASSUME Init PROVE IInv
  OBVIOUS
<1>1. W \in Nat /\ W > 1 /\ 0 \in 0..(W - 2)
  BY RingAssumption
<1>2. \A r \in Ranks : Chunk("reduce", 0, r) \in Ranks
  BY <1>1, ChunkIsRank
<1>3. TypeOK
  BY <1>1, <1>2, Chunks DEF Init, TypeOK
<1>4. InChunk
  BY <1>2, Chunks DEF Init, InChunk
<1> QED BY <1>3, <1>4 DEF IInv

LEMMA NextInv == IInv /\ [Next]_vars => IInv'
<1> SUFFICES ASSUME IInv, [Next]_vars PROVE IInv'
  OBVIOUS
<1>w. W \in Nat /\ N \in Nat /\ W > 1
  BY RingAssumption
<1>t. /\ copy \in [Ranks -> [Elements -> Nat]]
      /\ phase \in {"reduce", "gather", "done"} /\ step \in 0..(W - 2)
      /\ at \in [Ranks -> 0..N] /\ loaded \in [Ranks -> Nat \cup {Nothing}]
  BY DEF IInv, TypeOK
<1>r. ASSUME NEW r \in Ranks, Running(r)
      PROVE  /\ at[r] \in Elements /\ at[r] + 1 \in 0..N
             /\ at[r] + 1 <= Past(Chunk(phase, step, r))
             /\ First(Chunk(phase, step, r)) <= at[r] + 1
             /\ NextRank(r) \in Ranks
  <2>1. Chunk(phase, step, r) \in Ranks /\ NextRank(r) \in Ranks
    BY <1>t, ChunkIsRank, NeighboursDiffer
  <2>2. /\ at[r] \in 0..N /\ at[r] < Past(Chunk(phase, step, r))
        /\ First(Chunk(phase, step, r)) <= at[r]
        /\ Past(Chunk(phase, step, r)) \in 0..N /\ First(Chunk(phase, step, r)) \in 0..N
    BY <1>t, <1>r, <2>1, Chunks DEF Running, IInv, InChunk
  <2> QED BY <1>w, <2>1, <2>2 DEF Elements
<1>1. CASE Join
  <2>1. CASE step + 1 < W - 1
    <3>1. Spawn(phase, step + 1) /\ step + 1 \in 0..(W - 2) /\ phase # "done"
      BY <1>w, <1>t, <1>1, <2>1 DEF Join
    <3>2. phase' = phase /\ step' = step + 1 /\ at' \in [Ranks -> 0..N] /\ InChunk'
      BY <1>t, <3>1, SpawnInv
    <3> QED BY <1>t, <1>1, <3>1, <3>2 DEF Join, IInv, TypeOK
  <2>2. CASE ~(step + 1 < W - 1) /\ phase = "reduce"
    <3>1. Spawn("gather", 0) /\ 0 \in 0..(W - 2)
      BY <1>w, <1>1, <2>2 DEF Join
    <3>2. phase' = "gather" /\ step' = 0 /\ at' \in [Ranks -> 0..N] /\ InChunk'
      BY <3>1, SpawnInv
    <3> QED BY <1>t, <1>1, <3>1, <3>2 DEF Join, IInv, TypeOK
  <2>3. CASE ~(step + 1 < W - 1) /\ phase # "reduce"
    <3>1. phase' = "done" /\ UNCHANGED <<step, at, copy, loaded>>
      BY <1>1, <2>3 DEF Join
    <3> QED BY <1>t, <3>1 DEF IInv, TypeOK, InChunk
  <2> QED BY <2>1, <2>2, <2>3
<1>2. ASSUME NEW r \in Ranks, Load(r) PROVE IInv'
  <2>1. copy[NextRank(r)][at[r]] \in Nat
    BY <1>t, <1>r, <1>2 DEF Load
  <2>2. loaded' \in [Ranks -> Nat \cup {Nothing}] /\ UNCHANGED <<copy, phase, step, at>>
    BY <1>t, <1>2, <2>1 DEF Load
  <2> QED BY <1>t, <2>2 DEF IInv, TypeOK, InChunk
<1>3. ASSUME NEW r \in Ranks, Store(r) PROVE IInv'
  <2>1. Running(r) /\ loaded[r] \in Nat /\ at[r] \in Elements
    BY <1>t, <1>r, <1>3 DEF Store
  <2>2. copy' \in [Ranks -> [Elements -> Nat]]
    <3>1. copy[r] \in [Elements -> Nat] /\ copy[r][at[r]] + loaded[r] \in Nat
      BY <1>t, <2>1
    <3> QED BY <1>t, <1>3, <2>1, <3>1 DEF Store
  <2>3. loaded' \in [Ranks -> Nat \cup {Nothing}]
    BY <1>t, <1>3 DEF Store
  <2>4. at' \in [Ranks -> 0..N] /\ at' = [at EXCEPT ![r] = at[r] + 1] /\ UNCHANGED <<phase, step>>
    BY <1>t, <1>r, <1>3, <2>1 DEF Store
  <2>5. InChunk'
    BY <1>t, <1>r, <2>1, <2>4 DEF IInv, InChunk
  <2> QED BY <1>t, <2>2, <2>3, <2>4, <2>5 DEF IInv, TypeOK
<1>4. CASE UNCHANGED vars
  BY <1>4 DEF vars, IInv, TypeOK, InChunk
<1> QED BY <1>1, <1>2, <1>3, <1>4 DEF Next

LEMMA Invariance == Spec => []IInv
BY InitInv, NextInv, PTL DEF Spec

-----------------------------------------------------------------------------
(* The loop counters of the threads stay inside the copies.                  *)
THEOREM TypeCorrect == Spec => []TypeOK
BY Invariance, PTL DEF IInv

(* No thread touches the element its neighbour is about to write, for every  *)
(* world size and every n that is not below it.                              *)
THEOREM RaceFree == Spec => []NoRace
<1>1. IInv => NoRace
  <2> SUFFICES ASSUME IInv, NEW r \in Ranks, Running(r), Running(NextRank(r))
               PROVE  at[r] # at[NextRank(r)]
    BY DEF NoRace
  <2> DEFINE q == NextRank(r)
             c == Chunk(phase, step, r)
             d == Chunk(phase, step, q)
  <2>1. q \in Ranks /\ c # d /\ c \in Ranks /\ d \in Ranks
    <3>1. step \in 0..(W - 2)
      BY DEF IInv, TypeOK
    <3>2. q \in Ranks /\ c # d
      BY <3>1, NeighboursDiffer
    <3> QED BY <3>1, <3>2, ChunkIsRank
  <2>2. /\ First(c) <= at[r] /\ at[r] < Past(c)
        /\ First(d) <= at[q] /\ at[q] < Past(d)
        /\ at[r] \in 0..N /\ at[q] \in 0..N
    BY <2>1 DEF IInv, TypeOK, InChunk, Running
  <2>3. /\ c < d => Past(c) <= First(d)
        /\ d < c => Past(d) <= First(c)
        /\ First(c) \in 0..N /\ Past(c) \in 0..N /\ First(d) \in 0..N /\ Past(d) \in 0..N
    BY <2>1, Chunks
  <2>4. c < d \/ d < c
    <3> HIDE DEF c, d
    <3>1. c \in Int /\ d \in Int
      BY <2>1, RingAssumption DEF Ranks
    <3> QED BY <2>1, <3>1
  <2> HIDE DEF q, c, d
  <2>5. at[r] # at[q]
    BY <2>2, <2>3, <2>4, RingAssumption
  <2> QED BY <2>5 DEF q
<1> QED BY <1>1, Invariance, PTL
-----------------------------------------------------------------------------
(* The recursive definition of Result has a solution: it grows one step at a *)
(* time, so its defining equation may be used.                               *)
Solves(f, k) ==
  f = [j \in 0..k |-> IF j = 0 THEN Input ELSE After(j - 1, f[j - 1])]

LEMMA ResultIs ==
  /\ Result[0] = Input
  /\ \A k \in 0..(Steps - 1) : Result[k + 1] = After(k, Result[k])
<1> DEFINE T == {k \in Nat : \E f : Solves(f, k)}
<1>1. 0 \in T
  <2>1. Solves([j \in 0..0 |-> Input], 0)
    BY DEF Solves
  <2> QED BY <2>1
<1>2. ASSUME NEW k \in Nat, k \in T PROVE k + 1 \in T
  <2>1. PICK f : Solves(f, k)
    BY <1>2
  <2> DEFINE g == [j \in 0..(k + 1) |-> IF j = k + 1 THEN After(k, f[k]) ELSE f[j]]
  <2>2. ASSUME NEW j \in 0..(k + 1)
        PROVE  g[j] = IF j = 0 THEN Input ELSE After(j - 1, g[j - 1])
    <3>1. CASE j = k + 1
      <4>1. j # 0 /\ j - 1 = k /\ k \in 0..(k + 1) /\ k # k + 1
        BY <3>1
      <4>2. g[j] = After(k, f[k]) /\ g[k] = f[k]
        BY <3>1, <4>1
      <4> QED BY <4>1, <4>2
    <3>2. CASE j # k + 1
      <4>1. j \in 0..k /\ g[j] = f[j]
        BY <3>2
      <4>2. f[j] = IF j = 0 THEN Input ELSE After(j - 1, f[j - 1])
        BY <2>1, <4>1 DEF Solves
      <4>3. j # 0 => j - 1 \in 0..(k + 1) /\ j - 1 # k + 1 /\ g[j - 1] = f[j - 1]
        BY <4>1
      <4> QED BY <4>1, <4>2, <4>3
    <3> QED BY <3>1, <3>2
  <2>3. g = [j \in 0..(k + 1) |-> g[j]]
    OBVIOUS
  <2> HIDE DEF g
  <2>4. Solves(g, k + 1)
    BY <2>2, <2>3 DEF Solves
  <2> QED BY <2>4
<1> HIDE DEF T
<1>3. Nat \subseteq T
  BY <1>1, <1>2, Induction
<1>4. Steps \in Nat
  BY RingAssumption DEF Steps
<1>5. \E f : Solves(f, Steps)
  BY <1>3, <1>4 DEF T
<1>6. Result = CHOOSE f : Solves(f, Steps)
  BY DEF Result, Solves
<1>7. Solves(Result, Steps)
  BY <1>5, <1>6
<1>8. \A j \in 0..Steps : Result[j] = IF j = 0 THEN Input ELSE After(j - 1, Result[j - 1])
  BY <1>7 DEF Solves
<1>9. ASSUME NEW k \in 0..(Steps - 1) PROVE Result[k + 1] = After(k, Result[k])
  <2>1. k + 1 \in 0..Steps /\ k + 1 # 0 /\ (k + 1) - 1 = k
    BY <1>4
  <2> QED BY <1>8, <2>1
<1> QED BY <1>4, <1>8, <1>9

-----------------------------------------------------------------------------
(* What a thread has read is what its neighbour's copy held before the step. *)
LoadedBefore ==
  \A r \in Ranks :
    loaded[r] # Nothing => Running(r) /\ loaded[r] = Result[Now][NextRank(r)][at[r]]

OrderInv == IInv /\ LoadedBefore /\ ScheduleIndependent

(* The step under way, counted over both phases.                             *)
LEMMA NowIs ==
  ASSUME TypeOK
  PROVE  /\ Now \in 0..Steps
         /\ phase # "done" => /\ Now \in 0..(Steps - 1)
                              /\ PhaseOf(Now) = phase /\ StepOf(Now) = step
                              /\ \A r \in Ranks, i \in Elements :
                                   Updates(Now, r, i) <=>
                                     /\ First(Chunk(phase, step, r)) <= i
                                     /\ i < Past(Chunk(phase, step, r))
<1>1. W \in Nat /\ W > 1 /\ step \in 0..(W - 2) /\ phase \in {"reduce", "gather", "done"}
  BY RingAssumption DEF TypeOK
<1>2. Now \in 0..Steps
  BY <1>1 DEF Now, Steps
<1>3. phase # "done" => /\ Now \in 0..(Steps - 1)
                        /\ PhaseOf(Now) = phase /\ StepOf(Now) = step
  BY <1>1 DEF Now, Steps, PhaseOf, StepOf
<1> QED BY <1>2, <1>3 DEF Updates

LEMMA CountOf ==
  ASSUME NEW p \in {"reduce", "gather"}, NEW s \in 0..(W - 2), NEW k,
         k = IF p = "reduce" THEN s ELSE W - 1 + s
  PROVE  PhaseOf(k) = p /\ StepOf(k) = s
BY RingAssumption DEF PhaseOf, StepOf

(* Of two neighbours, at most one updates an element in a step.              *)
LEMMA OneUpdates ==
  ASSUME TypeOK, phase # "done", NEW r \in Ranks, NEW i \in Elements, Updates(Now, r, i)
  PROVE  NextRank(r) \in Ranks /\ ~Updates(Now, NextRank(r), i)
<1> DEFINE q == NextRank(r)
           c == Chunk(phase, step, r)
           d == Chunk(phase, step, q)
<1>1. step \in 0..(W - 2) /\ W \in Nat /\ N \in Nat
  BY RingAssumption DEF TypeOK
<1>2. q \in Ranks /\ c # d /\ c \in Ranks /\ d \in Ranks
  <2>1. q \in Ranks /\ c # d
    BY <1>1, NeighboursDiffer
  <2> QED BY <1>1, <2>1, ChunkIsRank
<1>3. First(c) <= i /\ i < Past(c)
  BY NowIs
<1>4. Updates(Now, q, i) <=> First(d) <= i /\ i < Past(d)
  BY <1>2, NowIs
<1> HIDE DEF q, c, d
<1>5. /\ c < d => Past(c) <= First(d)
      /\ d < c => Past(d) <= First(c)
      /\ First(c) \in 0..N /\ Past(c) \in 0..N /\ First(d) \in 0..N /\ Past(d) \in 0..N
  BY <1>2, Chunks
<1>6. c < d \/ d < c
  BY <1>1, <1>2 DEF Ranks
<1>7. i \in Int
  BY DEF Elements
<1>8. ~(First(d) <= i /\ i < Past(d))
  BY <1>1, <1>3, <1>5, <1>6, <1>7
<1> QED BY <1>2, <1>4, <1>8 DEF q

LEMMA RunningFacts ==
  ASSUME IInv, NEW r \in Ranks, Running(r)
  PROVE  at[r] \in Elements /\ Updates(Now, r, at[r]) /\ phase # "done"
<1>1. TypeOK /\ phase # "done" /\ at[r] < Past(Chunk(phase, step, r))
      /\ First(Chunk(phase, step, r)) <= at[r]
  BY DEF IInv, InChunk, Running
<1>2. Chunk(phase, step, r) \in Ranks
  BY <1>1, ChunkIsRank DEF TypeOK
<1>3. at[r] \in Elements
  BY <1>1, <1>2, Chunks, RingAssumption DEF TypeOK, Elements
<1> QED BY <1>1, <1>3, NowIs

LEMMA OrderInit == Init => OrderInv
<1> SUFFICES ASSUME Init PROVE OrderInv
  OBVIOUS
<1>1. IInv
  BY InitInv
<1>2. LoadedBefore
  BY DEF Init, LoadedBefore
<1>3. Now = 0 /\ phase # "done"
  BY DEF Init, Now
<1>4. ASSUME NEW r \in Ranks, NEW i \in Elements PROVE copy[r][i] = Result[Now][r][i]
  BY <1>3, ResultIs DEF Init, Input
<1>5. ASSUME NEW r \in Ranks, NEW i \in Elements PROVE ~(Updates(Now, r, i) /\ i < at[r])
  <2>1. Updates(Now, r, i) => First(Chunk(phase, step, r)) <= i
    BY <1>1, <1>3, NowIs DEF IInv
  <2>2. at[r] = First(Chunk(phase, step, r))
    BY DEF Init
  <2>3. at[r] \in Int /\ i \in Int
    BY <1>1, RingAssumption DEF IInv, TypeOK, Elements
  <2> QED BY <2>1, <2>2, <2>3
<1> QED BY <1>1, <1>2, <1>4, <1>5 DEF OrderInv, ScheduleIndependent

LEMMA LoadOrder == ASSUME OrderInv, IInv', NEW r \in Ranks, Load(r) PROVE OrderInv'
<1>1. /\ Running(r) /\ UNCHANGED <<copy, phase, step, at>>
      /\ loaded' = [loaded EXCEPT ![r] = copy[NextRank(r)][at[r]]]
      /\ IInv /\ TypeOK /\ loaded \in [Ranks -> Nat \cup {Nothing}]
  BY DEF Load, OrderInv, IInv, TypeOK
<1>2. at[r] \in Elements /\ Updates(Now, r, at[r]) /\ phase # "done"
  BY <1>1, RunningFacts
<1>3. NextRank(r) \in Ranks /\ ~Updates(Now, NextRank(r), at[r])
  BY <1>1, <1>2, OneUpdates
<1>4. copy[NextRank(r)][at[r]] = Result[Now][NextRank(r)][at[r]]
  BY <1>2, <1>3 DEF OrderInv, ScheduleIndependent
<1>5. Now' = Now /\ \A q \in Ranks : Running(q)' = Running(q)
  BY <1>1 DEF Now, Running
<1>6. LoadedBefore'
  <2>1. ASSUME NEW q \in Ranks, loaded'[q] # Nothing
        PROVE  Running(q)' /\ loaded'[q] = Result[Now][NextRank(q)][at[q]]
    <3>1. CASE q = r
      BY <1>1, <1>4, <1>5, <3>1
    <3>2. CASE q # r
      BY <1>1, <1>5, <2>1, <3>2 DEF OrderInv, LoadedBefore
    <3> QED BY <3>1, <3>2
  <2> QED BY <1>1, <1>5, <2>1 DEF LoadedBefore
<1>7. ScheduleIndependent'
  BY <1>1, <1>5 DEF OrderInv, ScheduleIndependent
<1> QED BY <1>6, <1>7 DEF OrderInv

LEMMA StoreOrder == ASSUME OrderInv, IInv', NEW r \in Ranks, Store(r) PROVE OrderInv'
<1>1. /\ Running(r) /\ loaded[r] # Nothing /\ UNCHANGED <<phase, step>>
      /\ copy' = [copy EXCEPT ![r][at[r]] =
                    IF phase = "reduce" THEN copy[r][at[r]] + loaded[r] ELSE loaded[r]]
      /\ loaded' = [loaded EXCEPT ![r] = Nothing]
      /\ at' = [at EXCEPT ![r] = at[r] + 1]
      /\ IInv /\ TypeOK
  BY DEF Store, OrderInv, IInv
<1>t. /\ copy \in [Ranks -> [Elements -> Nat]] /\ at \in [Ranks -> 0..N]
      /\ loaded \in [Ranks -> Nat \cup {Nothing}]
  BY <1>1 DEF TypeOK
<1>2. at[r] \in Elements /\ Updates(Now, r, at[r]) /\ phase # "done"
  BY <1>1, RunningFacts
<1>3. loaded[r] = Result[Now][NextRank(r)][at[r]]
  BY <1>1 DEF OrderInv, LoadedBefore
<1>4. copy[r][at[r]] = Result[Now][r][at[r]]
  <2>1. ~(at[r] < at[r])
    BY <1>t
  <2> QED BY <1>2, <2>1 DEF OrderInv, ScheduleIndependent
<1>5. Now' = Now
  BY <1>1 DEF Now
<1>6. Now \in 0..(Steps - 1) /\ PhaseOf(Now) = phase
  BY <1>1, <1>2, NowIs
<1>7. copy'[r][at[r]] = Result[Now + 1][r][at[r]]
  <2>1. Result[Now + 1] = After(Now, Result[Now])
    BY <1>6, ResultIs
  <2>2. copy'[r][at[r]] = IF phase = "reduce" THEN copy[r][at[r]] + loaded[r] ELSE loaded[r]
    BY <1>1, <1>t, <1>2
  <2> QED BY <1>2, <1>3, <1>4, <1>6, <2>1, <2>2 DEF After
<1>8. ASSUME NEW q \in Ranks, NEW i \in Elements
      PROVE  copy'[q][i] = IF phase' # "done" /\ Updates(Now, q, i) /\ i < at'[q]
                           THEN Result[Now + 1][q][i] ELSE Result[Now][q][i]
  <2>1. CASE q = r /\ i = at[r]
    <3>1. at'[r] = at[r] + 1 /\ at[r] < at[r] + 1
      BY <1>1, <1>t
    <3> QED BY <1>1, <1>2, <1>7, <2>1, <3>1
  <2>2. CASE q = r /\ i # at[r]
    <3>1. copy'[q][i] = copy[q][i]
      BY <1>1, <1>t, <1>2, <2>2
    <3>2. i < at'[r] <=> i < at[r]
      <4>1. i \in Int /\ at[r] \in Int /\ at'[r] = at[r] + 1
        BY <1>1, <1>t, RingAssumption DEF Elements
      <4> QED BY <2>2, <4>1
    <3> QED BY <1>1, <2>2, <3>1, <3>2 DEF OrderInv, ScheduleIndependent
  <2>3. CASE q # r
    <3>1. copy'[q][i] = copy[q][i] /\ at'[q] = at[q]
      BY <1>1, <1>t, <2>3
    <3> QED BY <1>1, <3>1 DEF OrderInv, ScheduleIndependent
  <2> QED BY <2>1, <2>2, <2>3
<1>9. ScheduleIndependent'
  BY <1>5, <1>8 DEF ScheduleIndependent, Updates
<1>10. LoadedBefore'
  <2>1. ASSUME NEW q \in Ranks, loaded'[q] # Nothing
        PROVE  Running(q)' /\ loaded'[q] = Result[Now][NextRank(q)][at'[q]]
    <3>1. q # r /\ loaded'[q] = loaded[q] /\ at'[q] = at[q]
      BY <1>1, <1>t, <2>1
    <3>2. Running(q)' = Running(q)
      BY <1>1, <3>1 DEF Running
    <3> QED BY <2>1, <3>1, <3>2 DEF OrderInv, LoadedBefore
  <2> QED BY <1>5, <2>1 DEF LoadedBefore
<1> QED BY <1>9, <1>10 DEF OrderInv

(* At the join every thread has passed its chunk: the copies are those of    *)
(* the next step, whose threads have passed nothing.                         *)
LEMMA JoinOrder == ASSUME OrderInv, IInv', Join PROVE OrderInv'
<1>1. /\ phase # "done" /\ \A r \in Ranks : ~Running(r)
      /\ UNCHANGED <<copy, loaded>> /\ IInv /\ TypeOK /\ TypeOK'
  BY DEF Join, OrderInv, IInv
<1>w. W \in Nat /\ W > 1 /\ N \in Nat
  BY RingAssumption
<1>2. Now \in 0..(Steps - 1)
  BY <1>1, NowIs
<1>3. ASSUME NEW r \in Ranks, NEW i \in Elements PROVE copy[r][i] = Result[Now + 1][r][i]
  <2>1. Result[Now + 1] = After(Now, Result[Now])
    BY <1>2, ResultIs
  <2>2. CASE Updates(Now, r, i)
    <3>1. i < Past(Chunk(phase, step, r)) /\ ~(at[r] < Past(Chunk(phase, step, r)))
      BY <1>1, <2>2, NowIs DEF Running
    <3>2. i \in Int /\ at[r] \in Int /\ Past(Chunk(phase, step, r)) \in Int
      <4>1. Chunk(phase, step, r) \in Ranks
        BY <1>1, ChunkIsRank DEF TypeOK
      <4>2. Past(Chunk(phase, step, r)) \in 0..N
        BY <4>1, Chunks
      <4> QED BY <1>w, <1>1, <4>2 DEF TypeOK, Elements
    <3>3. i < at[r]
      BY <3>1, <3>2
    <3> QED BY <1>1, <2>2, <3>3 DEF OrderInv, ScheduleIndependent
  <2>3. CASE ~Updates(Now, r, i)
    <3>1. copy[r][i] = Result[Now][r][i]
      BY <2>3 DEF OrderInv, ScheduleIndependent
    <3> QED BY <2>1, <2>3, <3>1 DEF After
  <2> QED BY <2>2, <2>3
<1>4. /\ Now' = Now + 1
      /\ phase' # "done" => \A r \in Ranks : at'[r] = First(Chunk(phase', step', r))
  <2>1. CASE step + 1 < W - 1
    <3>1. phase' = phase /\ step' = step + 1 /\ at' = [r \in Ranks |-> First(Chunk(phase, step + 1, r))]
      BY <1>1, <2>1 DEF Join, Spawn
    <3>2. /\ step \in Int /\ phase \in {"reduce", "gather"}
          /\ step' = step + 1 /\ phase' = phase
      BY <1>1, <3>1 DEF TypeOK
    <3>3. Now' = Now + 1
      BY ONLY <1>w, <3>2 DEF Now
    <3> QED BY <3>1, <3>3
  <2>2. CASE ~(step + 1 < W - 1) /\ phase = "reduce"
    <3>1. phase' = "gather" /\ step' = 0 /\ at' = [r \in Ranks |-> First(Chunk("gather", 0, r))]
      BY <1>1, <2>2 DEF Join, Spawn
    <3>2. step = W - 2
      BY <1>w, <1>1, <2>2 DEF TypeOK
    <3> QED BY <1>w, <2>2, <3>1, <3>2 DEF Now
  <2>3. CASE ~(step + 1 < W - 1) /\ phase = "gather"
    <3>1. phase' = "done"
      BY <1>1, <2>3 DEF Join
    <3>2. step = W - 2
      BY <1>w, <1>1, <2>3 DEF TypeOK
    <3> QED BY <1>w, <2>3, <3>1, <3>2 DEF Now, Steps
  <2> QED BY <1>1, <2>1, <2>2, <2>3 DEF TypeOK
<1>5. ASSUME NEW r \in Ranks, NEW i \in Elements, phase' # "done"
      PROVE  ~(Updates(Now', r, i) /\ i < at'[r])
  <2>1. Updates(Now', r, i) <=> First(Chunk(phase', step', r)) <= i
                               /\ i < Past(Chunk(phase', step', r))
    <3>1. /\ phase' \in {"reduce", "gather"} /\ step' \in 0..(W - 2)
          /\ Now' = IF phase' = "reduce" THEN step' ELSE W - 1 + step'
      BY <1>1, <1>5 DEF TypeOK, Now
    <3>2. PhaseOf(Now') = phase' /\ StepOf(Now') = step'
      BY <3>1, CountOf
    <3> QED BY <3>2 DEF Updates
  <2>2. at'[r] \in Int /\ i \in Int /\ at'[r] = First(Chunk(phase', step', r))
    BY <1>w, <1>1, <1>4, <1>5 DEF TypeOK, Elements
  <2> QED BY <2>1, <2>2
<1>6. ScheduleIndependent'
  BY <1>1, <1>3, <1>4, <1>5 DEF ScheduleIndependent, Updates
<1>7. LoadedBefore'
  BY <1>1 DEF OrderInv, LoadedBefore
<1> QED BY <1>6, <1>7 DEF OrderInv

LEMMA OrderNext == OrderInv /\ [Next]_vars => OrderInv'
<1> SUFFICES ASSUME OrderInv, [Next]_vars PROVE OrderInv'
  OBVIOUS
<1>1. IInv'
  BY NextInv DEF OrderInv
<1>2. CASE UNCHANGED vars
  BY <1>1, <1>2 DEF vars, OrderInv, LoadedBefore, ScheduleIndependent, Now, Running, Updates
<1> QED BY <1>1, <1>2, JoinOrder, LoadOrder, StoreOrder DEF Next

(* The threads of a step may run in any order, each load and store apart:    *)
(* the copies after the step are the same, for every number of ranks and of  *)
(* elements.                                                                 *)
THEOREM OrderFree == Spec => []ScheduleIndependent
<1>1. OrderInv => ScheduleIndependent
  BY DEF OrderInv
<1> QED BY <1>1, OrderInit, OrderNext, PTL DEF Spec

-----------------------------------------------------------------------------
(* Shards: the part of MCAlgorithms about who owns which parameter.  Its      *)
(* inputs are bounded by MaxN and MaxW; the lemmas are about all sizes.      *)

(* Parts between increasing cuts from 0 to n own everything once.            *)
Cuts(cut, part, n, w) ==
  /\ DOMAIN part = 0..(w - 1)
  /\ \A r \in 0..w : cut[r] \in Nat
  /\ cut[0] = 0 /\ cut[w] = n
  /\ \A r, s \in 0..w : r <= s => cut[r] <= cut[s]
  /\ \A r \in 0..(w - 1) : \A i \in 0..(n - 1) :
       i \in part[r] <=> cut[r] <= i /\ i < cut[r + 1]

LEMMA CutsOwn ==
  ASSUME NEW n \in Nat, NEW w \in Nat \ {0}, NEW cut, NEW part, Cuts(cut, part, n, w)
  PROVE  OwnedOnce(part, n)
<1> SUFFICES ASSUME NEW i \in 0..(n - 1)
             PROVE  \E r \in 0..(w - 1) :
                      /\ i \in part[r]
                      /\ \A s \in (0..(w - 1)) \ {r} : i \notin part[s]
  BY DEF Cuts, OwnedOnce
<1> DEFINE T == {k \in Nat : k <= w /\ i < cut[k] =>
                               \E r \in 0..(w - 1) : cut[r] <= i /\ i < cut[r + 1]}
<1>1. 0 \in T
  BY DEF Cuts
<1>2. ASSUME NEW k \in Nat, k \in T PROVE k + 1 \in T
  <2> SUFFICES ASSUME k + 1 <= w, i < cut[k + 1]
               PROVE  \E r \in 0..(w - 1) : cut[r] <= i /\ i < cut[r + 1]
    OBVIOUS
  <2>1. k \in 0..(w - 1) /\ k \in 0..w /\ cut[k] \in Nat
    BY DEF Cuts
  <2>2. CASE cut[k] <= i
    BY <2>1, <2>2
  <2>3. CASE i < cut[k]
    BY <1>2, <2>1, <2>3
  <2> QED BY <2>1, <2>2, <2>3
<1>3. w \in T
  <2> HIDE DEF T
  <2> QED BY <1>1, <1>2, Induction
<1>4. PICK r \in 0..(w - 1) : cut[r] <= i /\ i < cut[r + 1]
  BY <1>3 DEF Cuts
<1>5. i \in part[r]
  BY <1>4 DEF Cuts
<1>6. ASSUME NEW s \in (0..(w - 1)) \ {r} PROVE i \notin part[s]
  <2> SUFFICES ASSUME cut[s] <= i, i < cut[s + 1] PROVE FALSE
    BY DEF Cuts
  <2>1. /\ r \in 0..w /\ r + 1 \in 0..w /\ s \in 0..w /\ s + 1 \in 0..w
        /\ r + 1 <= s \/ s + 1 <= r
    OBVIOUS
  <2>2. /\ cut[r] \in Nat /\ cut[s] \in Nat /\ cut[r + 1] \in Nat /\ cut[s + 1] \in Nat
        /\ r + 1 <= s => cut[r + 1] <= cut[s]
        /\ s + 1 <= r => cut[s + 1] <= cut[r]
    BY <2>1 DEF Cuts
  <2> QED BY <1>4, <2>1, <2>2
<1> QED BY <1>5, <1>6

(* TensorSharding and FSDP: the last rank takes the remainder.               *)
LEMMA ShardIs ==
  ASSUME NEW n \in Nat, NEW w \in Nat \ {0}, NEW r \in 0..(w - 1), NEW i \in 0..(n - 1)
  PROVE  /\ i \in Shard(r, n, w)
              <=> r * (n \div w) <= i /\ (r = w - 1 \/ i < r * (n \div w) + n \div w)
         /\ Owns(r, i, n, w) <=> i \in Shard(r, n, w)
<1> DEFINE q == n \div w
           o == r * q
<1>1. q \in Nat /\ o \in Nat
  BY Quotient, Multiples
<1> HIDE DEF q, o
<1>2. i \in Shard(r, n, w)
        <=> o <= i /\ (IF r = w - 1 THEN i <= o + (n - o) - 1 ELSE i <= o + q - 1)
  BY <1>1 DEF Shard, Interval, ShardOffset, ShardSize, o, q
<1>3. Owns(r, i, n, w) <=> i >= o /\ i < (IF r = w - 1 THEN n ELSE o + q)
  BY DEF Owns, o, q
<1>4. /\ i \in Shard(r, n, w) <=> o <= i /\ (r = w - 1 \/ i < o + q)
      /\ Owns(r, i, n, w) <=> i \in Shard(r, n, w)
  BY <1>1, <1>2, <1>3
<1> QED BY <1>4 DEF o, q

LEMMA ShardsOwn ==
  ASSUME NEW n \in Nat, NEW w \in Nat \ {0}
  PROVE  OwnedOnce([r \in RanksOf(w) |-> Shard(r, n, w)], n)
<1> DEFINE q == n \div w
           m == n % w
           cut == [r \in 0..w |-> IF r = w THEN n ELSE r * q]
           part == [r \in RanksOf(w) |-> Shard(r, n, w)]
<1>1. q \in Nat /\ m \in Nat /\ n = w * q + m
  BY Quotient
<1>2. ASSUME NEW r \in 0..(w - 1), NEW i \in 0..(n - 1)
      PROVE  i \in part[r] <=> r * q <= i /\ (r = w - 1 \/ i < r * q + q)
  BY <1>2, ShardIs DEF RanksOf
<1>3. DOMAIN part = 0..(w - 1)
  BY DEF RanksOf
<1> HIDE DEF q, m, part
<1>4. ASSUME NEW r \in 0..w PROVE cut[r] \in Nat /\ cut[r] <= n
  <2>1. r * q \in Nat /\ r * q <= w * q /\ w * q \in Nat
    BY <1>1, Multiples
  <2> QED BY <1>1, <2>1
<1>5. ASSUME NEW r \in 0..w, NEW s \in 0..w, r <= s PROVE cut[r] <= cut[s]
  <2>1. CASE s = w
    BY <1>4, <2>1
  <2>2. CASE s # w
    <3>1. r # w /\ r * q <= s * q
      BY <1>1, <1>5, <2>2, Multiples
    <3> QED BY <2>2, <3>1
  <2> QED BY <2>1, <2>2
<1>6. ASSUME NEW r \in 0..(w - 1), NEW i \in 0..(n - 1)
      PROVE  i \in part[r] <=> cut[r] <= i /\ i < cut[r + 1]
  <2>1. cut[r] = r * q /\ r \in Nat
    OBVIOUS
  <2>2. CASE r = w - 1
    <3>1. cut[r + 1] = n
      BY <2>2
    <3> QED BY <1>2, <2>1, <2>2, <3>1
  <2>3. CASE r # w - 1
    <3>1. cut[r + 1] = (r + 1) * q /\ (r + 1) * q = r * q + q
      BY <1>1, <2>1, <2>3, Multiples
    <3> QED BY <1>2, <2>1, <2>3, <3>1
  <2> QED BY <2>2, <2>3
<1>7. cut[0] = 0 /\ cut[w] = n
  BY <1>1
<1> HIDE DEF cut
<1>8. Cuts(cut, part, n, w)
  BY <1>3, <1>4, <1>5, <1>6, <1>7 DEF Cuts
<1> QED BY <1>8, CutsOwn DEF part

(* ZeRO multiplies the rank by its own size, which is one more for the first *)
(* ranks.                                                                    *)
LEMMA ZeroIs ==
  ASSUME NEW n \in Nat, NEW w \in Nat \ {0}, NEW r \in 0..(w - 1), NEW e,
         e = EvenSize(r, n, w)
  PROVE  /\ e = IF r < n % w THEN n \div w + 1 ELSE n \div w
         /\ e \in Nat /\ r * e \in Nat /\ ZeroOffset(r, n, w) = r * e
         /\ \A i : i \in ZeroShard(r, n, w)
                     <=> i \in 0..(n - 1) /\ r * e <= i /\ i < r * e + e
<1>1. n \div w \in Nat /\ n % w \in Nat
  BY Quotient
<1>2. e = IF r < n % w THEN n \div w + 1 ELSE n \div w
  BY <1>1 DEF EvenSize
<1>3. e \in Nat
  BY <1>1, <1>2
<1> DEFINE o == r * e
<1>4. o \in Nat
  BY <1>3, Multiples
<1>5. ZeroOffset(r, n, w) = o
  BY DEF ZeroOffset
<1> HIDE DEF o
<1>6. ZeroShard(r, n, w) = (o .. o + e - 1) \cap (0 .. n - 1)
  BY <1>5 DEF ZeroShard, Interval
<1>7. \A i : i \in ZeroShard(r, n, w) <=> i \in 0..(n - 1) /\ o <= i /\ i < o + e
  BY <1>3, <1>4, <1>6
<1> QED BY <1>2, <1>3, <1>4, <1>5, <1>7 DEF o

LEMMA ZeroOwns ==
  ASSUME NEW n \in Nat, NEW w \in Nat \ {0}, n % w = 0 \/ n < w
  PROVE  OwnedOnce([r \in RanksOf(w) |-> ZeroShard(r, n, w)], n)
<1> DEFINE q == n \div w
           m == n % w
           part == [r \in RanksOf(w) |-> ZeroShard(r, n, w)]
           size == [r \in 0..(w - 1) |-> EvenSize(r, n, w)]
<1>1. q \in Nat /\ m \in 0..(w - 1) /\ n = w * q + m
  BY Quotient
<1>2. DOMAIN part = 0..(w - 1)
  BY DEF RanksOf
<1>3. ASSUME NEW r \in 0..(w - 1)
      PROVE  size[r] = IF r < m THEN q + 1 ELSE q
  BY ZeroIs
<1>4. ASSUME NEW r \in 0..(w - 1), NEW i \in 0..(n - 1)
      PROVE  i \in part[r] <=> r * size[r] <= i /\ i < r * size[r] + size[r]
  <2>1. part[r] = ZeroShard(r, n, w) /\ size[r] = EvenSize(r, n, w)
    BY DEF RanksOf
  <2> DEFINE e == size[r]
  <2> HIDE DEF part, size, e
  <2>2. e = EvenSize(r, n, w)
    BY <2>1 DEF e
  <2>3. i \in ZeroShard(r, n, w) <=> i \in 0..(n - 1) /\ r * e <= i /\ i < r * e + e
    BY <2>2, ZeroIs
  <2> QED BY <2>1, <2>3 DEF e
<1> HIDE DEF part, size
<1>5. CASE m = 0
  <2> DEFINE cut == [r \in 0..w |-> r * q]
  <2>1. ASSUME NEW r \in 0..w PROVE cut[r] \in Nat
    BY <1>1, Multiples
  <2>2. ASSUME NEW r \in 0..w, NEW s \in 0..w, r <= s PROVE cut[r] <= cut[s]
    BY <1>1, <2>2, Multiples
  <2>3. ASSUME NEW r \in 0..(w - 1), NEW i \in 0..(n - 1)
        PROVE  i \in part[r] <=> cut[r] <= i /\ i < cut[r + 1]
    <3>1. size[r] = q /\ r \in 0..w /\ r + 1 \in 0..w
      BY <1>3, <1>5
    <3>2. cut[r] = r * q /\ cut[r + 1] = (r + 1) * q /\ (r + 1) * q = r * q + q
      BY <1>1, <3>1, Multiples
    <3> QED BY <1>4, <3>1, <3>2
  <2>4. cut[0] = 0 /\ cut[w] = n
    <3>1. cut[0] = 0 * q /\ cut[w] = w * q
      OBVIOUS
    <3> HIDE DEF q, m
    <3> QED BY <1>1, <1>5, <3>1
  <2> HIDE DEF cut, q, m
  <2>5. Cuts(cut, part, n, w)
    BY <1>2, <2>1, <2>2, <2>3, <2>4 DEF Cuts
  <2> QED BY <2>5, CutsOwn DEF part
<1>6. CASE n < w
  <2>1. q = 0 /\ m = n
    <3> HIDE DEF q, m
    <3>1. ~(q >= 1)
      <4> SUFFICES ASSUME q >= 1 PROVE FALSE
        OBVIOUS
      <4>1. w * q \in Nat /\ w * q >= w
        BY <1>1
      <4> QED BY <1>1, <1>6, <4>1
    <3>2. q = 0
      BY <1>1, <3>1
    <3> QED BY <1>1, <3>2
  <2> DEFINE cut == [r \in 0..w |-> IF r < n THEN r ELSE n]
  <2> HIDE DEF q, m
  <2>2. ASSUME NEW r \in 0..w, NEW s \in 0..w, r <= s PROVE cut[r] <= cut[s]
    BY <2>2
  <2>3. ASSUME NEW r \in 0..(w - 1), NEW i \in 0..(n - 1)
        PROVE  i \in part[r] <=> cut[r] <= i /\ i < cut[r + 1]
    <3>1. CASE r < n
      <4>1. size[r] = 1 /\ r * size[r] = r
        BY <1>3, <2>1, <3>1
      <4>2. cut[r] = r /\ cut[r + 1] = r + 1
        BY <3>1
      <4> QED BY <1>4, <4>1, <4>2
    <3>2. CASE ~(r < n)
      <4>1. size[r] = 0 /\ r * size[r] = 0
        BY <1>3, <2>1, <3>2
      <4>2. cut[r] = n
        BY <3>2
      <4> QED BY <1>4, <4>1, <4>2
    <3> QED BY <3>1, <3>2
  <2>4. cut[0] = 0 /\ cut[w] = n /\ \A r \in 0..w : cut[r] \in Nat
    BY <1>6
  <2> HIDE DEF cut
  <2>5. Cuts(cut, part, n, w)
    BY <1>2, <2>2, <2>3, <2>4 DEF Cuts
  <2> QED BY <2>5, CutsOwn DEF part
<1> QED BY <1>5, <1>6

(* With a remainder, the first rank without one more starts inside the shard *)
(* of a rank in front of it.                                                 *)
LEMMA ZeroOverlaps ==
  ASSUME NEW n \in Nat, NEW w \in Nat \ {0}, n % w # 0, ~(n < w)
  PROVE  ~OwnedOnce([r \in RanksOf(w) |-> ZeroShard(r, n, w)], n)
<1> DEFINE q == n \div w
           m == n % w
           i == m * q
           f == i \div (q + 1)
           part == [r \in RanksOf(w) |-> ZeroShard(r, n, w)]
<1>1. q \in Nat /\ m \in 1..(w - 1) /\ n = w * q + m
  <2>1. q \in Nat /\ m \in 0..(w - 1) /\ n = w * q + m /\ m # 0
    BY Quotient
  <2> HIDE DEF q, m
  <2> QED BY <2>1
<1>2. q >= 1
  <2> HIDE DEF q, m
  <2> SUFFICES ASSUME q = 0 PROVE FALSE
    BY <1>1
  <2> QED BY <1>1
<1>3. i \in Nat /\ i + q <= w * q /\ w * q \in Nat
  <2> HIDE DEF q, m
  <2>1. m \in Nat /\ m < w
    BY <1>1
  <2> QED BY <1>1, <2>1, Multiples
<1>4. f \in Nat /\ f * (q + 1) <= i /\ i < f * (q + 1) + (q + 1) /\ f * (q + 1) \in Nat
  <2> HIDE DEF q, i
  <2>1. i = (q + 1) * f + (i % (q + 1)) /\ i % (q + 1) \in 0..((q + 1) - 1) /\ f \in Nat
    <3>1. q + 1 \in Nat \ {0}
      BY <1>1
    <3> QED BY <1>3, <3>1, Quotient
  <2> DEFINE g == i % (q + 1)
             d == q + 1
  <2>2. d \in Nat \ {0} /\ i = d * f + g /\ g \in 0..(d - 1) /\ f \in Nat
    BY <1>1, <2>1
  <2> HIDE DEF f, g, d
  <2>3. d * f = f * d /\ f * d \in Nat
    BY <2>2
  <2>4. f * d <= i /\ i < f * d + d
    BY <1>3, <2>2, <2>3
  <2> QED BY <2>2, <2>3, <2>4 DEF d
<1>5. f < m
  <2> HIDE DEF f, q, m
  <2> SUFFICES ASSUME m <= f PROVE FALSE
    BY <1>1, <1>4
  <2>1. m * (q + 1) <= f * (q + 1) /\ m * (q + 1) \in Nat
    BY <1>1, <1>4, Multiples
  <2>2. m * (q + 1) = m * q + m
    BY <1>1
  <2> QED BY <1>1, <1>3, <1>4, <2>1, <2>2
<1> HIDE DEF f, q, m, i
<1>6. f \in 0..(w - 1) /\ m \in 0..(w - 1) /\ f # m /\ i \in 0..(n - 1)
  BY <1>1, <1>2, <1>3, <1>4, <1>5
<1>7. i \in part[f] /\ i \in part[m] /\ DOMAIN part = 0..(w - 1)
  <2> DEFINE e == EvenSize(f, n, w)
             d == EvenSize(m, n, w)
  <2>1. e = q + 1
    BY <1>5, <1>6, ZeroIs DEF q, m
  <2>2. d = q
    <3>1. m \in 0..(w - 1) /\ ~(m < m)
      BY <1>6
    <3>2. d = IF m < n % w THEN n \div w + 1 ELSE n \div w
      BY <3>1, ZeroIs
    <3> QED BY <3>1, <3>2 DEF q, m
  <2>3. i \in ZeroShard(f, n, w) <=> i \in 0..(n - 1) /\ f * e <= i /\ i < f * e + e
    BY <1>6, ZeroIs
  <2>4. i \in ZeroShard(m, n, w) <=> i \in 0..(n - 1) /\ m * d <= i /\ i < m * d + d
    BY <1>6, ZeroIs
  <2> HIDE DEF e, d
  <2>5. i \in ZeroShard(f, n, w)
    BY <1>4, <1>6, <2>1, <2>3
  <2>6. i \in ZeroShard(m, n, w)
    <3>1. m * d = i
      BY <2>2 DEF i
    <3> QED BY <1>1, <1>2, <1>3, <1>6, <2>2, <2>4, <3>1
  <2> QED BY <1>6, <2>5, <2>6 DEF RanksOf
<1> HIDE DEF part
<1>8. ~OwnedOnce(part, n)
  <2> SUFFICES ASSUME NEW r \in 0..(w - 1), \A s \in (0..(w - 1)) \ {r} : i \notin part[s]
               PROVE  FALSE
    BY <1>6, <1>7 DEF OwnedOnce
  <2> QED BY <1>6, <1>7
<1> QED BY <1>8 DEF part

(* The sizes that save_metadata writes, summed up.                           *)
Writes(f, n, w) ==
  f = [r \in 0..w |-> IF r = 0 THEN 0 ELSE f[r - 1] + EvenSize(r - 1, n, w)]

LEMMA WrittenIs ==
  ASSUME NEW n \in Nat, NEW w \in Nat \ {0}
  PROVE  (CHOOSE f : Writes(f, n, w))[w] = n
<1> DEFINE q == n \div w
           m == n % w
           End(r) == r * q + IF r < m THEN r ELSE m
<1>1. q \in Nat /\ m \in 0..(w - 1) /\ n = w * q + m
  BY Quotient
<1>2. ASSUME NEW r \in 1..w
      PROVE  /\ End(r) \in Nat /\ End(r - 1) \in Nat
             /\ End(r) = End(r - 1) + EvenSize(r - 1, n, w)
  <2> DEFINE p == r - 1
             e == EvenSize(p, n, w)
  <2>1. p \in 0..(w - 1) /\ p + 1 = r
    OBVIOUS
  <2>2. e = IF p < m THEN q + 1 ELSE q
    BY <2>1, ZeroIs
  <2> HIDE DEF p, e, q, m
  <2>3. p * q \in Nat /\ (p + 1) * q = p * q + q
    BY <1>1, <2>1, Multiples
  <2>4. End(p + 1) = End(p) + e /\ End(p) \in Nat /\ End(p + 1) \in Nat
    BY <1>1, <2>1, <2>2, <2>3
  <2> QED BY <2>1, <2>4 DEF p, e
<1>3. End(0) = 0 /\ End(w) = n
  <2> HIDE DEF q, m
  <2> QED BY <1>1
<1> HIDE DEF End
<1>4. \E f : Writes(f, n, w)
  <2> DEFINE f == [r \in 0..w |-> End(r)]
  <2>1. ASSUME NEW r \in 0..w
        PROVE  f[r] = IF r = 0 THEN 0 ELSE f[r - 1] + EvenSize(r - 1, n, w)
    <3>1. CASE r = 0
      BY <1>3, <3>1
    <3>2. CASE r # 0
      <4>1. r \in 1..w /\ r - 1 \in 0..w
        BY <3>2
      <4> QED BY <1>2, <3>2, <4>1
    <3> QED BY <3>1, <3>2
  <2>2. f = [r \in 0..w |-> f[r]]
    OBVIOUS
  <2> HIDE DEF f
  <2>3. Writes(f, n, w)
    BY <2>1, <2>2, Zenon DEF Writes
  <2> QED BY <2>3
<1> DEFINE g == CHOOSE f : Writes(f, n, w)
<1>5. Writes(g, n, w)
  BY <1>4
<1> HIDE DEF g
<1>6. \A r \in 0..w : g[r] = IF r = 0 THEN 0 ELSE g[r - 1] + EvenSize(r - 1, n, w)
  BY <1>5 DEF Writes
<1> DEFINE T == {r \in Nat : r <= w => g[r] = End(r)}
<1>7. 0 \in T
  BY <1>3, <1>6
<1>8. ASSUME NEW r \in Nat, r \in T PROVE r + 1 \in T
  <2> SUFFICES ASSUME r + 1 <= w PROVE g[r + 1] = End(r + 1)
    OBVIOUS
  <2>1. r + 1 \in 1..w /\ r + 1 \in 0..w /\ (r + 1) - 1 = r /\ r + 1 # 0
    OBVIOUS
  <2>2. g[r + 1] = g[r] + EvenSize(r, n, w)
    BY <1>6, <2>1
  <2>3. End(r + 1) = End(r) + EvenSize(r, n, w)
    BY <1>2, <2>1
  <2> QED BY <1>8, <2>2, <2>3
<1>9. w \in T
  <2> HIDE DEF T
  <2> QED BY <1>7, <1>8, Induction
<1> QED BY <1>3, <1>9 DEF g

(* A rank keeps the shard it updated: what all_gather copies to its places   *)
(* is that shard.                                                            *)
LEMMA OwnShardKept ==
  ASSUME NEW n \in Nat, NEW w \in Nat \ {0}, NEW r \in 0..(w - 1),
         NEW i, i \in ZeroShard(r, n, w),
         NEW params, DOMAIN params = 0..(n - 1), NEW grads
  PROVE  i \in 0..(n - 1)
         /\ ZeroStep(params, grads, r, n, w)[i] = Append(params[i], grads[i])
<1> DEFINE e == EvenSize(r, n, w)
           o == ZeroOffset(r, n, w)
           stepped == [j \in DOMAIN params |->
                         IF j \in ZeroShard(r, n, w) THEN Append(params[j], grads[j])
                         ELSE params[j]]
<1>1. /\ e \in Nat /\ r * e \in Nat /\ o = r * e
      /\ i \in 0..(n - 1) /\ r * e <= i /\ i < r * e + e
  BY ZeroIs
<1>2. ZeroStep(params, grads, r, n, w) = AllGather(stepped, o, e, w)
  BY DEF ZeroStep
<1>3. stepped[i] = Append(params[i], grads[i]) /\ DOMAIN stepped = 0..(n - 1)
  BY <1>1
<1> HIDE DEF e, o, stepped
<1>4. e # 0 /\ o + (i % e) = i
  <2> DEFINE k == i - r * e
             d == i \div e
             m == i % e
  <2>1. k \in 0..(e - 1) /\ e \in Nat \ {0}
    BY <1>1
  <2>2. i = e * d + m /\ m \in 0..(e - 1) /\ d \in Nat
    <3>1. i \in Nat /\ e \in Nat \ {0}
      BY <1>1, <2>1
    <3> QED BY <3>1, Quotient
  <2> HIDE DEF d, m
  <2>3. d = r
    <3>1. e * d = d * e /\ d * e \in Nat
      BY <2>1, <2>2
    <3>2. ~(d < r)
      <4> SUFFICES ASSUME d < r PROVE FALSE
        OBVIOUS
      <4>1. d * e + e <= r * e
        BY <1>1, <2>2, Multiples
      <4> QED BY <1>1, <2>2, <3>1, <4>1
    <3>3. ~(r < d)
      <4> SUFFICES ASSUME r < d PROVE FALSE
        OBVIOUS
      <4>1. r * e + e <= d * e
        BY <1>1, <2>2, Multiples
      <4> QED BY <1>1, <2>2, <3>1, <4>1
    <3> QED BY <2>2, <3>2, <3>3
  <2>4. e * d = r * e
    BY <1>1, <2>2, <2>3
  <2>5. o + m = i
    BY <1>1, <2>2, <2>4
  <2> QED BY <2>1, <2>5 DEF m
<1>5. AllGather(stepped, o, e, w)[i] = stepped[i]
  <2> DEFINE Read(j) == IF j \in DOMAIN stepped THEN stepped[j] ELSE Beyond
  <2>1. AllGather(stepped, o, e, w)[i]
          = IF i < w * e THEN Read(o + (i % e)) ELSE stepped[i]
    <3>1. i \in DOMAIN stepped \cup Interval(0, w * e)
      BY <1>1, <1>3
    <3> QED BY <3>1, Zenon DEF AllGather
  <2>2. Read(i) = stepped[i]
    BY <1>1, <1>3
  <2> QED BY <1>4, <2>1, <2>2
<1> QED BY <1>1, <1>2, <1>3, <1>5

(* The cells of a step: more than the parameters for rank 0 when the ranks   *)
(* do not divide them.                                                       *)
LEMMA CellsOf ==
  ASSUME NEW n \in Nat, NEW w \in Nat \ {0}, NEW r \in 0..(w - 1),
         NEW params, DOMAIN params = 0..(n - 1), NEW grads
  PROVE  DOMAIN ZeroStep(params, grads, r, n, w)
           = 0..(n - 1) \cup 0..(w * EvenSize(r, n, w) - 1)
<1> DEFINE e == EvenSize(r, n, w)
           o == ZeroOffset(r, n, w)
           stepped == [j \in DOMAIN params |->
                         IF j \in ZeroShard(r, n, w) THEN Append(params[j], grads[j])
                         ELSE params[j]]
<1>1. ZeroStep(params, grads, r, n, w) = AllGather(stepped, o, e, w)
  BY DEF ZeroStep
<1>2. DOMAIN stepped = 0..(n - 1) /\ e \in Nat
  BY ZeroIs
<1> HIDE DEF o, e, stepped
<1>3. DOMAIN AllGather(stepped, o, e, w) = DOMAIN stepped \cup Interval(0, w * e)
  BY Zenon DEF AllGather
<1>4. Interval(0, w * e) = 0..(w * e - 1)
  <2> DEFINE we == w * e
  <2>1. we \in Nat
    BY <1>2
  <2>2. Interval(0, we) = 0..(0 + we - 1)
    BY Zenon DEF Interval
  <2> HIDE DEF we
  <2>3. 0 + we - 1 = we - 1
    BY <2>1
  <2> QED BY <2>2, <2>3 DEF we
<1> QED BY <1>1, <1>2, <1>3, <1>4 DEF e

LEMMA StaysInside ==
  ASSUME NEW n \in Nat, NEW w \in Nat \ {0},
         NEW params, DOMAIN params = 0..(n - 1), NEW grads
  PROVE  n % w = 0 <=> \A r \in 0..(w - 1) :
                          DOMAIN ZeroStep(params, grads, r, n, w) = 0..(n - 1)
<1> DEFINE q == n \div w
           m == n % w
<1>1. q \in Nat /\ m \in 0..(w - 1) /\ n = w * q + m
  BY Quotient
<1>2. ASSUME m = 0, NEW r \in 0..(w - 1)
      PROVE  DOMAIN ZeroStep(params, grads, r, n, w) = 0..(n - 1)
  <2>1. EvenSize(r, n, w) = q
    <3>1. EvenSize(r, n, w) = IF r < m THEN q + 1 ELSE q
      BY ZeroIs
    <3> QED BY <1>2, <3>1
  <2>2. w * q = n
    BY <1>1, <1>2
  <2>3. DOMAIN ZeroStep(params, grads, r, n, w)
          = 0..(n - 1) \cup 0..(w * EvenSize(r, n, w) - 1)
    BY ONLY CellsOf, n \in Nat, w \in Nat \ {0}, r \in 0..(w - 1), DOMAIN params = 0..(n - 1)
  <2>4. w * EvenSize(r, n, w) = n
    BY <2>1, <2>2
  <2> HIDE DEF q, m
  <2> QED BY <2>3, <2>4
<1>3. ASSUME m # 0
      PROVE  0 \in 0..(w - 1) /\ DOMAIN ZeroStep(params, grads, 0, n, w) # 0..(n - 1)
  <2>1. 0 \in 0..(w - 1)
    OBVIOUS
  <2>2. EvenSize(0, n, w) = q + 1
    <3>1. EvenSize(0, n, w) = IF 0 < m THEN q + 1 ELSE q
      BY <2>1, ZeroIs
    <3> QED BY <1>1, <1>3, <3>1
  <2>3. DOMAIN ZeroStep(params, grads, 0, n, w) = 0..(n - 1) \cup 0..(w * (q + 1) - 1)
    <3>1. DOMAIN ZeroStep(params, grads, 0, n, w)
            = 0..(n - 1) \cup 0..(w * EvenSize(0, n, w) - 1)
      BY ONLY CellsOf, n \in Nat, w \in Nat \ {0}, <2>1, DOMAIN params = 0..(n - 1)
    <3> QED BY <2>2, <3>1
  <2> HIDE DEF q, m
  <2>4. w * (q + 1) = w * q + w /\ w * q \in Nat
    BY <1>1
  <2>5. n \in 0..(w * (q + 1) - 1) /\ n \notin 0..(n - 1)
    BY <1>1, <2>4
  <2> QED BY <2>1, <2>3, <2>5
<1> QED BY <1>2, <1>3

(* OneOwnerPerParameter for one input.                                       *)
Owners(n, w) ==
  LET all == 0..(n - 1)
      params == [i \in all |-> <<>>]
      grads == [i \in all |-> i]
  IN  /\ OwnedOnce([r \in RanksOf(w) |-> Shard(r, n, w)], n)
      /\ \A r \in RanksOf(w), i \in all : Owns(r, i, n, w) <=> i \in Shard(r, n, w)
      /\ OwnedOnce([r \in RanksOf(w) |-> ZeroShard(r, n, w)], n)
           <=> (n % w = 0 \/ n < w)
      /\ (CHOOSE f : Writes(f, n, w))[w] = n
      /\ \A r \in RanksOf(w) : \A i \in ZeroShard(r, n, w) :
           /\ ZeroStep(params, grads, r, n, w)[i] = <<grads[i]>>
           /\ Zero2Step(params, grads, r, n, w)[i] = <<0>>
      /\ n % w = 0 <=> \A r \in RanksOf(w) : DOMAIN ZeroStep(params, grads, r, n, w) = all

LEMMA OwnersOfSize ==
  ASSUME NEW n \in Nat, NEW w \in Nat \ {0}
  PROVE  Owners(n, w)
<1> DEFINE all == 0..(n - 1)
           params == [i \in all |-> <<>>]
           grads == [i \in all |-> i]
<1>1. RanksOf(w) = 0..(w - 1)
  BY DEF RanksOf
<1>2. OwnedOnce([r \in RanksOf(w) |-> Shard(r, n, w)], n)
  BY ShardsOwn
<1>3. \A r \in RanksOf(w), i \in all : Owns(r, i, n, w) <=> i \in Shard(r, n, w)
  BY <1>1, ShardIs
<1>4. OwnedOnce([r \in RanksOf(w) |-> ZeroShard(r, n, w)], n)
        <=> (n % w = 0 \/ n < w)
  BY ZeroOwns, ZeroOverlaps
<1>5. (CHOOSE f : Writes(f, n, w))[w] = n
  BY WrittenIs
<1>6. ASSUME NEW r \in RanksOf(w), NEW i \in ZeroShard(r, n, w)
      PROVE  /\ ZeroStep(params, grads, r, n, w)[i] = <<grads[i]>>
             /\ Zero2Step(params, grads, r, n, w)[i] = <<0>>
  <2> DEFINE none == NoGrads(n)
  <2>1. /\ i \in 0..(n - 1)
        /\ ZeroStep(params, grads, r, n, w)[i] = Append(params[i], grads[i])
        /\ ZeroStep(params, none, r, n, w)[i] = Append(params[i], none[i])
    <3> HIDE DEF grads, none
    <3>1. DOMAIN params = 0..(n - 1) /\ r \in 0..(w - 1)
      BY <1>1
    <3> HIDE DEF params
    <3>2. /\ i \in 0..(n - 1)
          /\ ZeroStep(params, grads, r, n, w)[i] = Append(params[i], grads[i])
      BY <3>1, OwnShardKept
    <3>3. ZeroStep(params, none, r, n, w)[i] = Append(params[i], none[i])
      BY <3>1, OwnShardKept
    <3> QED BY <3>2, <3>3
  <2>2. Zero2Step(params, grads, r, n, w) = ZeroStep(params, none, r, n, w)
    BY DEF Zero2Step, ReduceScatter
  <2>3. none[i] = 0 /\ params[i] = <<>>
    BY <2>1 DEF NoGrads
  <2> HIDE DEF grads, none, params
  <2>4. Append(<<>>, grads[i]) = <<grads[i]>> /\ Append(<<>>, 0) = <<0>>
    OBVIOUS
  <2> QED BY <2>1, <2>2, <2>3, <2>4
<1>8. n % w = 0 <=> \A r \in RanksOf(w) : DOMAIN ZeroStep(params, grads, r, n, w) = all
  <2>1. DOMAIN params = 0..(n - 1)
    OBVIOUS
  <2> HIDE DEF params, grads
  <2> QED BY <1>1, <2>1, StaysInside
<1> HIDE DEF all, params, grads
<1>7. Owners(n, w)
  BY <1>2, <1>3, <1>4, <1>5, <1>6, <1>8, Zenon DEF Owners, all, params, grads
<1> QED BY <1>7

(* With the remainder at the last rank every parameter has one owner, for     *)
(* every number of parameters and of ranks, and owns agrees with get_shard;   *)
(* the shards of ZeRO have one owner each just when the ranks divide the      *)
(* parameters or are more than they; the sizes in the metadata add up; what   *)
(* a rank updated survives all_gather; and no rank's all_gather writes past   *)
(* the parameters just when the ranks divide them.                            *)
THEOREM OneOwner ==
  AlgorithmsSpec => []OneOwnerPerParameter
<1>1. AnyInput /\ UNCHANGED input => AnyInput'
  BY DEF AnyInput
<1>2. AnyInput => OneOwnerPerParameter
  <2> SUFFICES ASSUME AnyInput, input.kind = "shards" PROVE OneOwnerPerParameter
    BY DEF OneOwnerPerParameter
  <2>1. input \in ShardInputs
    BY Kinds
  <2>2. input.n \in Nat /\ input.W \in Nat \ {0}
    BY <2>1, AlgorithmsAssumption DEF ShardInputs
  <2>3. Owners(input.n, input.W)
    BY <2>2, OwnersOfSize
  <2> QED BY <2>3, Zenon DEF OneOwnerPerParameter, Owners, Writes
<1> QED BY <1>1, <1>2, PTL DEF AlgorithmsSpec, SameInput
-----------------------------------------------------------------------------
(* The configurations that make sense: no size is zero, there may be no      *)
(* layer.                                                                    *)
Configuration(c) ==
  /\ c.B \in Nat \ {0} /\ c.H \in Nat \ {0} /\ c.Dh \in Nat \ {0} /\ c.S \in Nat \ {0}
  /\ c.Layers \in Nat

(* A number written with a quotient and a remainder has just these.          *)
LEMMA DivMod ==
  ASSUME NEW w \in Nat \ {0}, NEW q \in Nat, NEW m \in 0..(w - 1)
  PROVE  (q * w + m) \div w = q /\ (q * w + m) % w = m
<1> DEFINE n == q * w + m
           p == n \div w
           k == n % w
<1>1. n \in Nat /\ q * w \in Nat /\ n = q * w + m
  OBVIOUS
<1>2. n = w * p + k /\ k \in 0..(w - 1) /\ p \in Nat
  BY <1>1, Quotient
<1> HIDE DEF n, p, k
<1>3. w * p = p * w /\ p * w \in Nat
  BY <1>2
<1>4. ~(p < q)
  <2> SUFFICES ASSUME p < q PROVE FALSE
    OBVIOUS
  <2>1. p * w + w <= q * w
    BY <1>2, Multiples
  <2> QED BY <1>1, <1>2, <1>3, <2>1
<1>5. ~(q < p)
  <2> SUFFICES ASSUME q < p PROVE FALSE
    OBVIOUS
  <2>1. q * w + w <= p * w
    BY <1>2, Multiples
  <2> QED BY <1>1, <1>2, <1>3, <2>1
<1>6. p = q
  BY <1>2, <1>4, <1>5
<1>7. k = m
  BY <1>1, <1>2, <1>3, <1>6
<1> QED BY <1>6, <1>7 DEF n, p, k

LEMMA SplitIs ==
  ASSUME NEW h \in Nat, NEW w \in Nat \ {0}, NEW d \in 0..(h * w - 1)
  PROVE  /\ d \div w \in 0..(h - 1) /\ (d % w) \in 0..(w - 1)
         /\ d = (d \div w) * w + (d % w)
<1> DEFINE p == d \div w
           k == (d % w)
<1>1. h * w \in Nat /\ d \in Nat /\ d < h * w
  OBVIOUS
<1>2. d = w * p + k /\ k \in 0..(w - 1) /\ p \in Nat
  BY <1>1, Quotient
<1> HIDE DEF p, k
<1>3. w * p = p * w /\ p * w \in Nat
  BY <1>2
<1>4. p < h
  <2> SUFFICES ASSUME h <= p PROVE FALSE
    BY <1>2
  <2>1. h * w <= p * w
    BY <1>2, Multiples
  <2> QED BY <1>1, <1>2, <1>3, <2>1
<1>5. p \in 0..(h - 1) /\ k \in 0..(w - 1) /\ d = p * w + k
  BY <1>2, <1>3, <1>4
<1> QED BY <1>5 DEF p, k

(* What two elements of a tensor share once they are in their heads.         *)
LEMMA HeadOf ==
  ASSUME NEW c, Configuration(c), NEW e \in TensorElements(c)
  PROVE  /\ e = <<e[1], e[2], e[3]>> /\ e[1] \in 0..(c.B - 1) /\ e[2] \in 0..(c.S - 1)
         /\ e[3] \in 0..(c.H * c.Dh - 1)
         /\ e[3] \div c.Dh \in 0..(c.H - 1) /\ (e[3] % c.Dh) \in 0..(c.Dh - 1)
         /\ e[3] = (e[3] \div c.Dh) * c.Dh + (e[3] % c.Dh)
         /\ ToHead(c, e)[1] = e[1] * c.H + e[3] \div c.Dh
         /\ ToHead(c, e)[2] = e[2] /\ ToHead(c, e)[3] = (e[3] % c.Dh)
         /\ ToHead(c, e)[1] \div c.H = e[1] /\ ToHead(c, e)[1] % c.H = e[3] \div c.Dh
<1>1. /\ e = <<e[1], e[2], e[3]>> /\ e[1] \in 0..(c.B - 1) /\ e[2] \in 0..(c.S - 1)
      /\ e[3] \in 0..(c.H * c.Dh - 1)
  BY DEF TensorElements, Width
<1>2. /\ e[3] \div c.Dh \in 0..(c.H - 1) /\ (e[3] % c.Dh) \in 0..(c.Dh - 1)
      /\ e[3] = (e[3] \div c.Dh) * c.Dh + (e[3] % c.Dh)
  BY <1>1, SplitIs DEF Configuration
<1>3. /\ ToHead(c, e)[1] = e[1] * c.H + e[3] \div c.Dh
      /\ ToHead(c, e)[2] = e[2] /\ ToHead(c, e)[3] = (e[3] % c.Dh)
  BY DEF ToHead, HeadIndex
<1>4. /\ (e[1] * c.H + e[3] \div c.Dh) \div c.H = e[1]
      /\ (e[1] * c.H + e[3] \div c.Dh) % c.H = e[3] \div c.Dh
  <2> DEFINE b == e[1]
             h == e[3] \div c.Dh
             w == c.H
  <2>1. b \in Nat /\ w \in Nat \ {0} /\ h \in 0..(w - 1)
    BY <1>1, <1>2 DEF Configuration
  <2> HIDE DEF b, h, w
  <2>2. (b * w + h) \div w = b /\ (b * w + h) % w = h
    BY <2>1, DivMod
  <2> QED BY <2>2 DEF b, h, w
<1> QED BY <1>1, <1>2, <1>3, <1>4

SameHead(c, e, f) == e[1] = f[1] /\ e[3] \div c.Dh = f[3] \div c.Dh

LEMMA HeadsEqual ==
  ASSUME NEW c, Configuration(c), NEW e \in TensorElements(c), NEW f \in TensorElements(c)
  PROVE  /\ ToHead(c, e)[1] = ToHead(c, f)[1] <=> SameHead(c, e, f)
         /\ SameHead(c, e, f) /\ (e[3] % c.Dh) = (f[3] % c.Dh) <=> e[1] = f[1] /\ e[3] = f[3]
<1>1. ToHead(c, e)[1] = ToHead(c, f)[1] => SameHead(c, e, f)
  <2> HAVE ToHead(c, e)[1] = ToHead(c, f)[1]
  <2>1. /\ ToHead(c, e)[1] \div c.H = e[1] /\ ToHead(c, e)[1] % c.H = e[3] \div c.Dh
        /\ ToHead(c, f)[1] \div c.H = f[1] /\ ToHead(c, f)[1] % c.H = f[3] \div c.Dh
    BY HeadOf
  <2> QED BY <2>1, Zenon DEF SameHead
<1>2. SameHead(c, e, f) => ToHead(c, e)[1] = ToHead(c, f)[1]
  <2>1. /\ ToHead(c, e)[1] = e[1] * c.H + e[3] \div c.Dh
        /\ ToHead(c, f)[1] = f[1] * c.H + f[3] \div c.Dh
    BY HeadOf
  <2> QED BY <2>1, Zenon DEF SameHead
<1>3. SameHead(c, e, f) /\ (e[3] % c.Dh) = (f[3] % c.Dh) => e[1] = f[1] /\ e[3] = f[3]
  <2> HAVE SameHead(c, e, f) /\ (e[3] % c.Dh) = (f[3] % c.Dh)
  <2>1. /\ e[3] = (e[3] \div c.Dh) * c.Dh + (e[3] % c.Dh)
        /\ f[3] = (f[3] \div c.Dh) * c.Dh + (f[3] % c.Dh)
    BY HeadOf
  <2> QED BY <2>1, Zenon DEF SameHead
<1> QED BY <1>1, <1>2, <1>3, Zenon DEF SameHead

(* The way into the heads and back.                                          *)
LEMMA ThereAndBack ==
  ASSUME NEW c, Configuration(c), NEW e \in TensorElements(c)
  PROVE  FromHead(c, ToHead(c, e)) = e
<1> DEFINE x == ToHead(c, e)
<1>1. /\ x[1] \div c.H = e[1] /\ (x[1] % c.H) = e[3] \div c.Dh /\ x[2] = e[2]
      /\ x[3] = (e[3] % c.Dh) /\ e[3] = (e[3] \div c.Dh) * c.Dh + (e[3] % c.Dh)
      /\ e = <<e[1], e[2], e[3]>>
  BY HeadOf
<1>2. FromHead(c, x) = <<x[1] \div c.H, x[2], (x[1] % c.H) * c.Dh + x[3]>>
  BY DEF FromHead
<1> HIDE DEF x
<1>3. FromHead(c, x) = <<e[1], e[2], e[3]>>
  BY ONLY <1>1, <1>2
<1> QED BY <1>1, <1>3 DEF x

(* What forward reads and where backward goes, element by element.           *)
LEMMA ReadsAre ==
  ASSUME NEW c, Configuration(c), NEW e \in TensorElements(c), NEW f \in TensorElements(c)
  PROVE  /\ f \in ReadsV(c, e) <=> f[1] = e[1] /\ f[3] = e[3] /\ f[2] <= e[2]
         /\ f \in ReadsQ(c, e) <=> SameHead(c, f, e) /\ f[2] = e[2]
         /\ f \in ReadsK(c, e) <=> SameHead(c, f, e) /\ f[2] <= e[2]
<1>1. /\ ToHead(c, f)[1] = ToHead(c, e)[1] <=> SameHead(c, f, e)
      /\ SameHead(c, f, e) /\ (f[3] % c.Dh) = (e[3] % c.Dh) <=> f[1] = e[1] /\ f[3] = e[3]
  BY HeadsEqual
<1>2. /\ ToHead(c, e)[2] = e[2] /\ ToHead(c, f)[2] = f[2]
      /\ ToHead(c, e)[3] = (e[3] % c.Dh) /\ ToHead(c, f)[3] = (f[3] % c.Dh)
  BY HeadOf
<1>3. f \in ReadsV(c, e) <=> f[1] = e[1] /\ f[3] = e[3] /\ f[2] <= e[2]
  <2>1. f \in ReadsV(c, e) <=>
          /\ ToHead(c, f)[1] = ToHead(c, e)[1] /\ ToHead(c, f)[3] = ToHead(c, e)[3]
          /\ Attends(ToHead(c, e)[2], ToHead(c, f)[2])
    BY Zenon DEF ReadsV
  <2> QED BY <1>1, <1>2, <2>1, Zenon DEF Attends
<1>4. f \in ReadsQ(c, e) <=> SameHead(c, f, e) /\ f[2] = e[2]
  <2>1. f \in ReadsQ(c, e) <=> ToHead(c, f)[1] = ToHead(c, e)[1] /\ f[2] = ToHead(c, e)[2]
    BY Zenon DEF ReadsQ
  <2> QED BY <1>1, <1>2, <2>1, Zenon
<1>5. f \in ReadsK(c, e) <=> SameHead(c, f, e) /\ f[2] <= e[2]
  <2>1. f \in ReadsK(c, e) <=>
          ToHead(c, f)[1] = ToHead(c, e)[1] /\ Attends(ToHead(c, e)[2], f[2])
    BY Zenon DEF ReadsK
  <2> QED BY <1>1, <1>2, <2>1, Zenon DEF Attends
<1> QED BY <1>3, <1>4, <1>5

LEMMA GradsAre ==
  ASSUME NEW c, Configuration(c), NEW e \in TensorElements(c), NEW f \in TensorElements(c)
  PROVE  /\ e \in GradV(c, f) <=> f[1] = e[1] /\ f[3] = e[3] /\ f[2] <= e[2]
         /\ e \in GradQ(c, f) <=> SameHead(c, f, e) /\ f[2] = e[2]
         /\ e \in GradK(c, f) <=> SameHead(c, f, e) /\ f[2] <= e[2]
<1>1. /\ ToHead(c, e)[1] = ToHead(c, f)[1] <=> SameHead(c, f, e)
      /\ SameHead(c, f, e) /\ (f[3] % c.Dh) = (e[3] % c.Dh) <=> f[1] = e[1] /\ f[3] = e[3]
  BY HeadsEqual DEF SameHead
<1>2. /\ ToHead(c, e)[2] = e[2] /\ ToHead(c, f)[2] = f[2]
      /\ ToHead(c, e)[3] = (e[3] % c.Dh) /\ ToHead(c, f)[3] = (f[3] % c.Dh)
      /\ e[2] \in 0..(c.S - 1)
  BY HeadOf
<1>3. e \in GradV(c, f) <=> f[1] = e[1] /\ f[3] = e[3] /\ f[2] <= e[2]
  <2>1. e \in GradV(c, f) <=>
          /\ ToHead(c, e)[1] = ToHead(c, f)[1] /\ ToHead(c, e)[3] = ToHead(c, f)[3]
          /\ Attends(ToHead(c, e)[2], ToHead(c, f)[2])
    BY Zenon DEF GradV
  <2> QED BY <1>1, <1>2, <2>1, Zenon DEF Attends
<1>4. \A head, i : e \in ScoreGrad(c, head, i) <=> ToHead(c, e)[1] = head /\ e[2] = i
  BY Zenon DEF ScoreGrad
<1>5. e \in GradQ(c, f) <=> SameHead(c, f, e) /\ f[2] = e[2]
  <2>1. e \in GradQ(c, f) <=> ToHead(c, e)[1] = ToHead(c, f)[1] /\ e[2] = f[2]
    BY <1>4, Zenon DEF GradQ
  <2> QED BY <1>1, <2>1
<1>6. e \in GradK(c, f) <=> SameHead(c, f, e) /\ f[2] <= e[2]
  <2>1. e \in GradK(c, f) <=>
          \E i \in 0..(c.S - 1) : Attends(i, f[2]) /\ e \in ScoreGrad(c, ToHead(c, f)[1], i)
    BY DEF GradK
  <2> QED BY <1>1, <1>2, <1>4, <2>1, Zenon DEF Attends
<1> QED BY <1>3, <1>5, <1>6

(* Rows from the first of a sequence up to r, and from r to its last.        *)
UpTo(r) == {<<r[1], j>> : j \in 0..r[2]}
From(c, r) == {<<r[1], j>> : j \in r[2]..(c.S - 1)}

LEMMA RowFacts ==
  ASSUME NEW c, Configuration(c), NEW r \in Rows(c)
  PROVE  /\ r = <<r[1], r[2]>> /\ r[1] \in 0..(c.B - 1) /\ r[2] \in 0..(c.S - 1)
         /\ \A j \in 0..(c.S - 1) : <<r[1], j>> \in Rows(c)
         /\ \A j \in 0..(c.S - 1) : <<r[1], j, 0>> \in TensorElements(c)
         /\ \A q \in Rows(c) : q \in UpTo(r) <=> q[1] = r[1] /\ q[2] <= r[2]
         /\ \A q \in Rows(c) : q \in From(c, r) <=> q[1] = r[1] /\ r[2] <= q[2]
         /\ UpTo(r) \subseteq Rows(c) /\ From(c, r) \subseteq Rows(c)
<1>1. r = <<r[1], r[2]>> /\ r[1] \in 0..(c.B - 1) /\ r[2] \in 0..(c.S - 1)
  BY DEF Rows
<1>2. \A j \in 0..(c.S - 1) : <<r[1], j>> \in Rows(c)
  BY <1>1 DEF Rows
<1>3. ASSUME NEW j \in 0..(c.S - 1) PROVE <<r[1], j, 0>> \in TensorElements(c)
  <2>1. c.H \in Nat \ {0} /\ c.Dh \in Nat \ {0}
    BY DEF Configuration
  <2>2. 1 * c.Dh <= c.H * c.Dh
    BY <2>1, Multiples
  <2>3. 0 \in 0..(Width(c) - 1)
    BY <2>1, <2>2 DEF Width
  <2> QED BY <1>1, <2>3 DEF TensorElements
<1>4. c.S \in Nat
  BY DEF Configuration
<1>5. ASSUME NEW q \in Rows(c)
      PROVE  /\ q \in UpTo(r) <=> q[1] = r[1] /\ q[2] <= r[2]
             /\ q \in From(c, r) <=> q[1] = r[1] /\ r[2] <= q[2]
  <2>1. q = <<q[1], q[2]>> /\ q[2] \in 0..(c.S - 1)
    BY DEF Rows
  <2> QED BY <1>1, <1>4, <2>1 DEF UpTo, From
<1>6. UpTo(r) \subseteq Rows(c)
  BY <1>1, <1>2, <1>4 DEF UpTo
<1>7. From(c, r) \subseteq Rows(c)
  BY <1>1, <1>2, <1>4 DEF From
<1> QED BY <1>1, <1>2, <1>3, <1>5, <1>6, <1>7

LEMMA OwnRow ==
  ASSUME NEW c, Configuration(c), NEW r \in Rows(c)
  PROVE  FeedForwardRows(c, r) = {r}
<1>1. ASSUME NEW q \in Rows(c), RowIndex(c, q) = RowIndex(c, r) PROVE q = r
  <2>1. /\ q = <<q[1], q[2]>> /\ q[1] \in 0..(c.B - 1) /\ q[2] \in 0..(c.S - 1)
        /\ r = <<r[1], r[2]>> /\ r[1] \in 0..(c.B - 1) /\ r[2] \in 0..(c.S - 1)
        /\ c.S \in Nat \ {0} /\ q[1] \in Nat /\ r[1] \in Nat
    BY RowFacts DEF Configuration
  <2>2. q[1] * c.S + q[2] = r[1] * c.S + r[2]
    BY <1>1 DEF RowIndex
  <2> DEFINE a == q[1]
             b == r[1]
             i == q[2]
             j == r[2]
             w == c.S
  <2>3. /\ (a * w + i) \div w = a /\ (a * w + i) % w = i
        /\ (b * w + j) \div w = b /\ (b * w + j) % w = j
    <3> HIDE DEF a, b, i, j, w
    <3>1. a \in Nat /\ b \in Nat /\ w \in Nat \ {0} /\ i \in 0..(w - 1) /\ j \in 0..(w - 1)
      BY <2>1 DEF a, b, i, j, w
    <3> QED BY <3>1, DivMod
  <2>4. a = b /\ i = j
    BY <2>2, <2>3, Zenon
  <2> QED BY <2>1, <2>4, Zenon
<1> QED BY <1>1, Zenon DEF FeedForwardRows

LEMMA AttentionUpTo ==
  ASSUME NEW c, Configuration(c), NEW r \in Rows(c)
  PROVE  AttentionRows(c, r) = UpTo(r)
<1> DEFINE e == <<r[1], r[2], 0>>
<1>1. e \in TensorElements(c) /\ e[1] = r[1] /\ e[2] = r[2] /\ e[3] = 0
  BY RowFacts
<1>2. /\ r[1] \in 0..(c.B - 1) /\ r[2] \in 0..(c.S - 1) /\ c.S \in Nat
      /\ \A j \in 0..(c.S - 1) : <<r[1], j, 0>> \in TensorElements(c)
  BY RowFacts DEF Configuration
<1> HIDE DEF e
<1>3. ASSUME NEW f \in ReadsV(c, e)
      PROVE  <<f[1], f[2]>> \in UpTo(r)
  <2>1. f \in TensorElements(c)
    BY DEF ReadsV
  <2>2. f[1] = e[1] /\ f[2] <= e[2]
    BY <1>1, <2>1, ReadsAre
  <2>3. f[2] \in 0..(c.S - 1)
    BY <2>1, HeadOf
  <2> QED BY <1>1, <1>2, <2>2, <2>3 DEF UpTo
<1>4. ASSUME NEW j \in 0..r[2]
      PROVE  \E f \in ReadsV(c, e) : <<r[1], j>> = <<f[1], f[2]>>
  <2> DEFINE f == <<r[1], j, 0>>
  <2>1. f \in TensorElements(c) /\ f[1] = r[1] /\ f[2] = j /\ f[3] = 0 /\ j <= r[2]
    BY <1>2
  <2> HIDE DEF f
  <2>2. f \in ReadsV(c, e)
    BY <1>1, <2>1, ReadsAre
  <2> QED BY <2>1, <2>2
<1>5. AttentionRows(c, r) = {<<f[1], f[2]>> : f \in ReadsV(c, e)}
  BY DEF AttentionRows, e
<1> QED BY <1>3, <1>4, <1>5 DEF UpTo

LEMMA BlockUpTo ==
  ASSUME NEW c, Configuration(c), NEW r \in Rows(c)
  PROVE  BlockRows(c, r) = UpTo(r)
<1>1. r \in UpTo(r) /\ UpTo(r) \subseteq Rows(c)
  BY RowFacts, r[2] <= r[2] DEF Rows
<1>2. {r} \cup AttentionRows(c, r) = UpTo(r)
  BY <1>1, AttentionUpTo
<1>3. \A q \in UpTo(r) : FeedForwardRows(c, q) = {q}
  BY <1>1, OwnRow
<1>4. BlockRows(c, r) = UNION {FeedForwardRows(c, q) : q \in UpTo(r)}
  BY <1>2 DEF BlockRows
<1> QED BY <1>3, <1>4

LEMMA BlockGradFrom ==
  ASSUME NEW c, Configuration(c), NEW r \in Rows(c)
  PROVE  BlockGradRows(c, r) = From(c, r)
<1> DEFINE e == <<r[1], r[2], 0>>
           G == GradV(c, e) \cup GradK(c, e)
<1>1. e \in TensorElements(c) /\ e[1] = r[1] /\ e[2] = r[2] /\ e[3] = 0
  BY RowFacts
<1>2. /\ r[1] \in 0..(c.B - 1) /\ r[2] \in 0..(c.S - 1) /\ c.S \in Nat
      /\ \A j \in 0..(c.S - 1) : <<r[1], j, 0>> \in TensorElements(c)
  BY RowFacts DEF Configuration
<1> HIDE DEF e
<1>3. ASSUME NEW f \in G
      PROVE  <<f[1], f[2]>> \in From(c, r)
  <2>1. f \in TensorElements(c)
    BY DEF GradV, GradK, ScoreGrad
  <2>2. f[1] = e[1] /\ e[2] <= f[2]
    BY <1>1, <2>1, GradsAre DEF SameHead
  <2>3. f[2] \in 0..(c.S - 1)
    BY <2>1, HeadOf
  <2> QED BY <1>1, <1>2, <2>2, <2>3 DEF From
<1>4. ASSUME NEW j \in r[2]..(c.S - 1)
      PROVE  \E f \in G : <<r[1], j>> = <<f[1], f[2]>>
  <2> DEFINE f == <<r[1], j, 0>>
  <2>1. f \in TensorElements(c) /\ f[1] = r[1] /\ f[2] = j /\ f[3] = 0 /\ r[2] <= j
    BY <1>2
  <2> HIDE DEF f
  <2>2. f \in GradV(c, e)
    BY <1>1, <2>1, GradsAre
  <2> QED BY <2>1, <2>2
<1>5. BlockGradRows(c, r) = {<<f[1], f[2]>> : f \in G} \cup {r}
  BY OwnRow DEF BlockGradRows, e
<1>6. r \in From(c, r)
  BY RowFacts, r[2] <= r[2] DEF Rows
<1> HIDE DEF G
<1> QED BY <1>3, <1>4, <1>5, <1>6 DEF From

(* All the layers.                                                           *)
Forwards(flow, c, r) ==
  flow = [l \in 0..c.Layers |->
            IF l = 0 THEN {r} ELSE UNION {BlockRows(c, q) : q \in flow[l - 1]}]
Backwards(flow, c, r) ==
  flow = [l \in 0..c.Layers |->
            IF l = 0 THEN {r} ELSE UNION {BlockGradRows(c, q) : q \in flow[l - 1]}]

LEMMA LogitsFrom ==
  ASSUME NEW c, Configuration(c), NEW r \in Rows(c)
  PROVE  LogitRows(c, r) = IF c.Layers = 0 THEN {r} ELSE UpTo(r)
<1> DEFINE At(l) == IF l = 0 THEN {r} ELSE UpTo(r)
           f == [l \in 0..c.Layers |-> At(l)]
           g == CHOOSE flow : Forwards(flow, c, r)
           L == c.Layers
<1>1. L \in Nat
  BY DEF Configuration
<1>2. UNION {BlockRows(c, q) : q \in {r}} = UpTo(r)
  BY BlockUpTo
<1>3. UNION {BlockRows(c, q) : q \in UpTo(r)} = UpTo(r)
  <2>1. UpTo(r) \subseteq Rows(c)
    BY RowFacts
  <2>2. \A q \in UpTo(r) : BlockRows(c, q) = UpTo(q)
    BY <2>1, BlockUpTo
  <2>3. ASSUME NEW q \in UpTo(r) PROVE q \in UpTo(q) /\ UpTo(q) \subseteq UpTo(r)
    <3>1. /\ q \in Rows(c) /\ q[2] \in Nat /\ q[2] <= r[2] /\ q[1] = r[1]
          /\ q = <<q[1], q[2]>> /\ r[2] \in Nat
      BY <2>1, RowFacts DEF Rows
    <3> QED BY <3>1 DEF UpTo
  <2> QED BY <2>2, <2>3
<1>4. ASSUME NEW l \in 1..L PROVE At(l) = UNION {BlockRows(c, q) : q \in At(l - 1)}
  <2>1. CASE l = 1
    BY <1>2, <2>1
  <2>2. CASE l # 1
    BY <1>3, <2>2
  <2> QED BY <2>1, <2>2
<1> HIDE DEF At
<1>5. Forwards(f, c, r)
  <2>1. ASSUME NEW l \in 0..L
        PROVE  f[l] = IF l = 0 THEN {r} ELSE UNION {BlockRows(c, q) : q \in f[l - 1]}
    <3>1. CASE l = 0
      BY <3>1 DEF At
    <3>2. CASE l # 0
      <4>1. l \in 1..L /\ l - 1 \in 0..L
        BY <1>1, <3>2
      <4>2. f[l] = At(l) /\ f[l - 1] = At(l - 1)
        BY <4>1
      <4> HIDE DEF f
      <4> QED BY <1>4, <3>2, <4>1, <4>2
    <3> QED BY <3>1, <3>2
  <2>2. f = [l \in 0..L |-> f[l]]
    OBVIOUS
  <2> HIDE DEF f
  <2> QED BY <2>1, <2>2, Zenon DEF Forwards
<1>6. Forwards(g, c, r)
  <2> HIDE DEF f
  <2> QED BY <1>5
<1> HIDE DEF g
<1>7. \A l \in 0..L : g[l] = IF l = 0 THEN {r} ELSE UNION {BlockRows(c, q) : q \in g[l - 1]}
  BY <1>6 DEF Forwards
<1> DEFINE T == {l \in Nat : l <= L => g[l] = At(l)}
<1> HIDE DEF L
<1>8. 0 \in T
  <2>1. 0 \in 0..L
    BY <1>1
  <2>2. g[0] = {r}
    BY <1>7, <2>1
  <2> QED BY <2>2 DEF At
<1>9. ASSUME NEW l \in Nat, l \in T PROVE l + 1 \in T
  <2> SUFFICES ASSUME l + 1 <= L PROVE g[l + 1] = At(l + 1)
    OBVIOUS
  <2>1. l + 1 \in 1..L /\ l + 1 \in 0..L /\ (l + 1) - 1 = l /\ l + 1 # 0 /\ l <= L
    BY <1>1
  <2>2. g[l + 1] = UNION {BlockRows(c, q) : q \in g[l]}
    BY <1>7, <2>1
  <2>3. At(l + 1) = UNION {BlockRows(c, q) : q \in At(l)}
    BY <1>4, <2>1
  <2> QED BY <1>9, <2>1, <2>2, <2>3
<1>10. L \in T
  <2> HIDE DEF T
  <2> QED BY <1>1, <1>8, <1>9, Induction
<1>11. g[L] = IF L = 0 THEN {r} ELSE UpTo(r)
  BY <1>1, <1>10 DEF At
<1>12. LogitRows(c, r) = g[L]
  BY Zenon DEF LogitRows, g, Forwards, L
<1> QED BY <1>11, <1>12 DEF L

LEMMA GradsFrom ==
  ASSUME NEW c, Configuration(c), NEW r \in Rows(c)
  PROVE  HiddenGradRows(c, r) = IF c.Layers = 0 THEN {r} ELSE From(c, r)
<1> DEFINE At(l) == IF l = 0 THEN {r} ELSE From(c, r)
           f == [l \in 0..c.Layers |-> At(l)]
           g == CHOOSE flow : Backwards(flow, c, r)
           L == c.Layers
<1>1. L \in Nat
  BY DEF Configuration
<1>2. UNION {BlockGradRows(c, q) : q \in {r}} = From(c, r)
  BY BlockGradFrom
<1>3. UNION {BlockGradRows(c, q) : q \in From(c, r)} = From(c, r)
  <2>1. From(c, r) \subseteq Rows(c)
    BY RowFacts
  <2>2. \A q \in From(c, r) : BlockGradRows(c, q) = From(c, q)
    BY <2>1, BlockGradFrom
  <2>3. ASSUME NEW q \in From(c, r) PROVE q \in From(c, q) /\ From(c, q) \subseteq From(c, r)
    <3>1. /\ q \in Rows(c) /\ q[2] \in 0..(c.S - 1) /\ r[2] <= q[2] /\ q[1] = r[1]
          /\ q = <<q[1], q[2]>> /\ r[2] \in Nat /\ c.S \in Nat
      BY <2>1, RowFacts DEF Rows, Configuration
    <3> QED BY <3>1 DEF From
  <2> QED BY <2>2, <2>3
<1>4. ASSUME NEW l \in 1..L PROVE At(l) = UNION {BlockGradRows(c, q) : q \in At(l - 1)}
  <2>1. CASE l = 1
    BY <1>2, <2>1
  <2>2. CASE l # 1
    BY <1>3, <2>2
  <2> QED BY <2>1, <2>2
<1> HIDE DEF At
<1>5. Backwards(f, c, r)
  <2>1. ASSUME NEW l \in 0..L
        PROVE  f[l] = IF l = 0 THEN {r} ELSE UNION {BlockGradRows(c, q) : q \in f[l - 1]}
    <3>1. CASE l = 0
      BY <3>1 DEF At
    <3>2. CASE l # 0
      <4>1. l \in 1..L /\ l - 1 \in 0..L
        BY <1>1, <3>2
      <4>2. f[l] = At(l) /\ f[l - 1] = At(l - 1)
        BY <4>1
      <4> HIDE DEF f
      <4> QED BY <1>4, <3>2, <4>1, <4>2
    <3> QED BY <3>1, <3>2
  <2>2. f = [l \in 0..L |-> f[l]]
    OBVIOUS
  <2> HIDE DEF f
  <2> QED BY <2>1, <2>2, Zenon DEF Backwards
<1>6. Backwards(g, c, r)
  <2> HIDE DEF f
  <2> QED BY <1>5
<1> HIDE DEF g
<1>7. \A l \in 0..L : g[l] = IF l = 0 THEN {r} ELSE UNION {BlockGradRows(c, q) : q \in g[l - 1]}
  BY <1>6 DEF Backwards
<1> DEFINE T == {l \in Nat : l <= L => g[l] = At(l)}
<1> HIDE DEF L
<1>8. 0 \in T
  <2>1. 0 \in 0..L
    BY <1>1
  <2>2. g[0] = {r}
    BY <1>7, <2>1
  <2> QED BY <2>2 DEF At
<1>9. ASSUME NEW l \in Nat, l \in T PROVE l + 1 \in T
  <2> SUFFICES ASSUME l + 1 <= L PROVE g[l + 1] = At(l + 1)
    OBVIOUS
  <2>1. l + 1 \in 1..L /\ l + 1 \in 0..L /\ (l + 1) - 1 = l /\ l + 1 # 0 /\ l <= L
    BY <1>1
  <2>2. g[l + 1] = UNION {BlockGradRows(c, q) : q \in g[l]}
    BY <1>7, <2>1
  <2>3. At(l + 1) = UNION {BlockGradRows(c, q) : q \in At(l)}
    BY <1>4, <2>1
  <2> QED BY <1>9, <2>1, <2>2, <2>3
<1>10. L \in T
  <2> HIDE DEF T
  <2> QED BY <1>1, <1>8, <1>9, Induction
<1>11. g[L] = IF L = 0 THEN {r} ELSE From(c, r)
  BY <1>1, <1>10 DEF At
<1>12. HiddenGradRows(c, r) = g[L]
  BY Zenon DEF HiddenGradRows, g, Backwards, L
<1> QED BY <1>11, <1>12 DEF L

(* Where an element of a concatenation comes from.                           *)
LEMMA Joined ==
  ASSUME NEW s, NEW t, NEW m \in Nat, NEW n \in Nat,
         s = [i \in 1..m |-> s[i]], t = [i \in 1..n |-> t[i]]
  PROVE  /\ DOMAIN (s \o t) = 1..(m + n) /\ Len(s \o t) = m + n
         /\ \A i \in 1..m : (s \o t)[i] = s[i]
         /\ \A i \in 1..n : (s \o t)[m + i] = t[i]
<1> DEFINE V == {s[i] : i \in 1..m} \cup {t[i] : i \in 1..n}
<1>1. (\A i \in 1..m : s[i] \in V) /\ (\A i \in 1..n : t[i] \in V)
  OBVIOUS
<1> HIDE DEF V
<1>2. s \in [1..m -> V] /\ t \in [1..n -> V]
  BY <1>1
<1>3. s \in Seq(V) /\ t \in Seq(V) /\ Len(s) = m /\ Len(t) = n
  BY <1>2
<1> QED BY <1>3

LEMMA ParamAt ==
  ASSUME NEW c, Configuration(c)
  PROVE  /\ DOMAIN Params(c) = 1..(3 + 9 * c.Layers)
         /\ Params(c)[1] = <<"token_embedding", 0>> /\ Params(c)[2] = <<"pos_embedding", 0>>
         /\ Params(c)[3] = <<"lm_head", 0>>
         /\ \A n \in 1..9 * c.Layers :
              Params(c)[3 + n] = <<BlockParams[((n - 1) % 9) + 1], 1 + ((n - 1) \div 9)>>
<1> DEFINE head == <<<<"token_embedding", 0>>, <<"pos_embedding", 0>>, <<"lm_head", 0>>>>
           tail == [n \in 1..9 * c.Layers |->
                      <<BlockParams[((n - 1) % 9) + 1], 1 + ((n - 1) \div 9)>>]
<1>1. 9 * c.Layers \in Nat
  BY DEF Configuration
<1>2. Params(c) = head \o tail
  BY Zenon DEF Params
<1>3. /\ head = [i \in 1..3 |-> head[i]] /\ head[1] = <<"token_embedding", 0>>
      /\ head[2] = <<"pos_embedding", 0>> /\ head[3] = <<"lm_head", 0>>
  OBVIOUS
<1>4. tail = [i \in 1..9 * c.Layers |-> tail[i]]
  OBVIOUS
<1>5. \A n \in 1..9 * c.Layers :
        tail[n] = <<BlockParams[((n - 1) % 9) + 1], 1 + ((n - 1) \div 9)>>
  OBVIOUS
<1> HIDE DEF head, tail
<1>6. /\ DOMAIN (head \o tail) = 1..(3 + 9 * c.Layers)
      /\ \A i \in 1..3 : (head \o tail)[i] = head[i]
      /\ \A i \in 1..9 * c.Layers : (head \o tail)[3 + i] = tail[i]
  BY <1>1, <1>3, <1>4, Joined
<1>7. /\ (head \o tail)[1] = head[1] /\ (head \o tail)[2] = head[2]
      /\ (head \o tail)[3] = head[3]
  <2>1. 1 \in 1..3 /\ 2 \in 1..3 /\ 3 \in 1..3
    OBVIOUS
  <2> QED BY <1>6, <2>1, Zenon
<1> QED BY ONLY <1>2, <1>3, <1>5, <1>6, <1>7, Zenon

LEMMA SlotsRight ==
  ASSUME NEW c, Configuration(c), NEW g \in GradSlots(c)
  PROVE  Params(c)[g.slot] = g.grad
<1>1. CASE g = [slot |-> 3, grad |-> <<"lm_head", 0>>]
  BY <1>1, ParamAt
<1>2. ASSUME NEW l \in 1..c.Layers, NEW k \in 1..9,
             g = [slot |-> GradBase(l) + k, grad |-> <<BlockParams[k], l>>]
      PROVE  Params(c)[g.slot] = g.grad
  <2> DEFINE n == (l - 1) * 9 + k
  <2>1. /\ n \in 1..9 * c.Layers /\ ((n - 1) % 9) + 1 = k /\ 1 + ((n - 1) \div 9) = l
        /\ GradBase(l) + k = 3 + n
    BY DEF Configuration, GradBase
  <2>2. Params(c)[3 + n] = <<BlockParams[((n - 1) % 9) + 1], 1 + ((n - 1) \div 9)>>
    BY <2>1, ParamAt
  <2> HIDE DEF n
  <2> QED BY <1>2, <2>1, <2>2
<1> QED BY <1>1, <1>2 DEF GradSlots

BlockNames == {"Wq", "Wk", "Wv", "Wo", "Wgate", "Wup", "Wdown", "rms_attn", "rms_ffn"}
LEMMA NamesAre ==
  /\ \A k \in 1..9 : BlockParams[k] \in BlockNames
  /\ BlockParams[8] = "rms_attn" /\ BlockParams[9] = "rms_ffn"
<1> SUFFICES ASSUME NEW k \in 1..9 PROVE BlockParams[k] \in BlockNames
  BY DEF BlockParams
<1>1. k = 1 \/ k = 2 \/ k = 3 \/ k = 4 \/ k = 5 \/ k = 6 \/ k = 7 \/ k = 8 \/ k = 9
  OBVIOUS
<1> QED BY <1>1 DEF BlockParams, BlockNames

Registered(c) == {Params(c)[n] : n \in DOMAIN Params(c)}

(* Of what is registered, forward reads what is of no layer and the norms.   *)
LEMMA WhatIsRead ==
  ASSUME NEW c, Configuration(c)
  PROVE  Registered(c) \cap ForwardReads(c)
           = {p \in ForwardReads(c) : p[2] = 0 \/ p[1] \in {"rms_attn", "rms_ffn"}}
<1>0. c.Layers \in Nat
  BY DEF Configuration
<1>1. ASSUME NEW p \in Registered(c), p \in ForwardReads(c), p[2] # 0
      PROVE  p[1] \in {"rms_attn", "rms_ffn"}
  <2>1. PICK n \in DOMAIN Params(c) : p = Params(c)[n]
    BY DEF Registered
  <2>2. n \in 1..(3 + 9 * c.Layers)
    BY <2>1, ParamAt
  <2>3. n \notin 1..3
    <3>1. n = 1 \/ n = 2 \/ n = 3 => p[2] = 0
      BY <2>1, ParamAt
    <3> QED BY <1>1, <2>2, <3>1
  <2> DEFINE i == n - 3
             k == ((i - 1) % 9) + 1
  <2>4. i \in 1..9 * c.Layers /\ n = 3 + i /\ k \in 1..9
    BY <1>0, <2>2, <2>3
  <2>5. p[1] = BlockParams[k]
    BY <2>1, <2>4, ParamAt
  <2> HIDE DEF i, k
  <2>6. p[1] \in BlockNames
    BY <2>4, <2>5, NamesAre
  <2>7. p[1] \in {"rms_attn", "rms_ffn", "attn.Wq", "attn.Wk", "attn.Wv",
                  "ffn.Wgate", "ffn.Wup", "ffn.Wdown"}
    BY <1>1 DEF ForwardReads
  <2> QED BY <2>6, <2>7 DEF BlockNames
<1>2. ASSUME NEW p \in ForwardReads(c), p[2] = 0 PROVE p \in Registered(c)
  <2>1. p \in {<<"token_embedding", 0>>, <<"pos_embedding", 0>>, <<"lm_head", 0>>}
    BY <1>0, <1>2 DEF ForwardReads
  <2>2. 1 \in DOMAIN Params(c) /\ 2 \in DOMAIN Params(c) /\ 3 \in DOMAIN Params(c)
    BY <1>0, ParamAt
  <2> QED BY <2>1, <2>2, ParamAt DEF Registered
<1>3. ASSUME NEW p \in ForwardReads(c), p[1] \in {"rms_attn", "rms_ffn"} PROVE p \in Registered(c)
  <2>1. PICK l \in 1..c.Layers : p = <<p[1], l>>
    BY <1>3 DEF ForwardReads
  <2>2. PICK k \in 8..9 : p[1] = BlockParams[k]
    BY <1>3, NamesAre
  <2> DEFINE i == (l - 1) * 9 + k
  <2>3. i \in 1..9 * c.Layers /\ ((i - 1) % 9) + 1 = k /\ 1 + ((i - 1) \div 9) = l
    BY <1>0
  <2>4. Params(c)[3 + i] = <<BlockParams[((i - 1) % 9) + 1], 1 + ((i - 1) \div 9)>>
    BY <2>3, ParamAt
  <2> HIDE DEF i
  <2>5. Params(c)[3 + i] = p /\ 3 + i \in DOMAIN Params(c)
    <3>1. Params(c)[3 + i] = <<BlockParams[k], l>>
      BY <2>3, <2>4
    <3>2. DOMAIN Params(c) = 1..3 + 9 * c.Layers
      BY <1>0, ParamAt
    <3>3. 3 + i \in 1..3 + 9 * c.Layers
      BY <1>0, <2>3
    <3> QED BY <2>1, <2>2, <3>1, <3>2, <3>3
  <2> QED BY <2>5 DEF Registered
<1> QED BY <1>1, <1>2, <1>3

(* FlowIsTransposed for one configuration.                                   *)
Transposed(c) ==
  LET E == TensorElements(c)
  IN  /\ \A e \in E :
            /\ FromHead(c, ToHead(c, e)) = e
            /\ ReadsV(c, e) = {<<e[1], j, e[3]>> : j \in 0 .. e[2]}
      /\ \A e, f \in E :
            /\ f \in ReadsV(c, e) <=> e \in GradV(c, f)
            /\ f \in ReadsQ(c, e) <=> e \in GradQ(c, f)
            /\ f \in ReadsK(c, e) <=> e \in GradK(c, f)
      /\ \A r \in Rows(c) :
            /\ c.Layers > 0 => LogitRows(c, r) = {<<r[1], j>> : j \in 0 .. r[2]}
            /\ \A q \in Rows(c) : q \in LogitRows(c, r) <=> r \in HiddenGradRows(c, q)
      /\ \A g \in GradSlots(c) : Params(c)[g.slot] = g.grad
      /\ {Params(c)[n] : n \in DOMAIN Params(c)} \cap ForwardReads(c)
            = {p \in ForwardReads(c) : p[2] = 0 \/ p[1] \in {"rms_attn", "rms_ffn"}}

(* Whatever the batch, the heads, their size, the length of the sequence and *)
(* the number of layers: an output is computed from its own sequence up to   *)
(* its own position, and backward sends a gradient just where forward read   *)
(* (MultiHeadAttention::forward and backward, Transformer::backward).        *)
THEOREM TransposedAtAnySize ==
  ASSUME NEW c, Configuration(c)
  PROVE  Transposed(c)
<1>1. ASSUME NEW e \in TensorElements(c)
      PROVE  /\ FromHead(c, ToHead(c, e)) = e
             /\ ReadsV(c, e) = {<<e[1], j, e[3]>> : j \in 0 .. e[2]}
  <2>1. FromHead(c, ToHead(c, e)) = e
    BY ThereAndBack
  <2>2. /\ e[1] \in 0..(c.B - 1) /\ e[2] \in 0..(c.S - 1) /\ e[3] \in 0..(c.H * c.Dh - 1)
        /\ c.S \in Nat
    BY HeadOf DEF Configuration
  <2>3. ASSUME NEW f \in ReadsV(c, e)
        PROVE  f \in {<<e[1], j, e[3]>> : j \in 0 .. e[2]}
    <3>1. f \in TensorElements(c)
      BY DEF ReadsV
    <3>2. f[1] = e[1] /\ f[3] = e[3] /\ f[2] <= e[2]
      BY <3>1, ReadsAre
    <3>3. f = <<f[1], f[2], f[3]>> /\ f[2] \in 0..(c.S - 1)
      BY <3>1, HeadOf
    <3> QED BY <2>2, <3>2, <3>3
  <2>4. ASSUME NEW j \in 0 .. e[2] PROVE <<e[1], j, e[3]>> \in ReadsV(c, e)
    <3> DEFINE f == <<e[1], j, e[3]>>
    <3>1. f \in TensorElements(c) /\ f[1] = e[1] /\ f[3] = e[3] /\ f[2] = j /\ j <= e[2]
      BY <2>2 DEF TensorElements, Width
    <3> HIDE DEF f
    <3> QED BY <3>1, ReadsAre DEF f
  <2> QED BY <2>1, <2>3, <2>4
<1>2. ASSUME NEW e \in TensorElements(c), NEW f \in TensorElements(c)
      PROVE  /\ f \in ReadsV(c, e) <=> e \in GradV(c, f)
             /\ f \in ReadsQ(c, e) <=> e \in GradQ(c, f)
             /\ f \in ReadsK(c, e) <=> e \in GradK(c, f)
  BY ReadsAre, GradsAre
<1>3. ASSUME NEW r \in Rows(c)
      PROVE  /\ c.Layers > 0 => LogitRows(c, r) = {<<r[1], j>> : j \in 0 .. r[2]}
             /\ \A q \in Rows(c) : q \in LogitRows(c, r) <=> r \in HiddenGradRows(c, q)
  <2>1. LogitRows(c, r) = IF c.Layers = 0 THEN {r} ELSE UpTo(r)
    BY LogitsFrom
  <2>2. c.Layers \in Nat
    BY DEF Configuration
  <2>3. ASSUME NEW q \in Rows(c)
        PROVE  q \in LogitRows(c, r) <=> r \in HiddenGradRows(c, q)
    <3>1. HiddenGradRows(c, q) = IF c.Layers = 0 THEN {q} ELSE From(c, q)
      BY GradsFrom
    <3>2. q \in UpTo(r) <=> r \in From(c, q)
      <4>1. q \in UpTo(r) <=> q[1] = r[1] /\ q[2] <= r[2]
        BY RowFacts
      <4>2. r \in From(c, q) <=> r[1] = q[1] /\ q[2] <= r[2]
        BY RowFacts
      <4> QED BY <4>1, <4>2
    <3> QED BY <2>1, <3>1, <3>2
  <2> QED BY <2>1, <2>2, <2>3 DEF UpTo
<1>4. \A g \in GradSlots(c) : Params(c)[g.slot] = g.grad
  BY SlotsRight
<1>5. {Params(c)[n] : n \in DOMAIN Params(c)} \cap ForwardReads(c)
        = {p \in ForwardReads(c) : p[2] = 0 \/ p[1] \in {"rms_attn", "rms_ffn"}}
  BY WhatIsRead DEF Registered
<1> QED BY <1>1, <1>2, <1>3, <1>4, <1>5, Zenon DEF Transposed

(* In the run: each of its configurations has an output that reads its own   *)
(* sequence up to its position, and a backward pass that goes where forward  *)
(* read, up to the registered parameters.                                    *)
THEOREM FlowTransposed == AlgorithmsSpec => []FlowIsTransposed
<1>1. AnyInput => FlowIsTransposed
  <2> SUFFICES ASSUME AnyInput, input.kind = "flow" PROVE FlowIsTransposed
    BY DEF FlowIsTransposed
  <2>1. input \in FlowInputs
    BY Kinds
  <2>2. Configuration(input)
    BY <2>1 DEF FlowInputs, Configuration
  <2>3. Transposed(input)
    BY <2>2, TransposedAtAnySize
  <2> QED BY <2>3, Zenon DEF FlowIsTransposed, Transposed
<1>2. AnyInput /\ UNCHANGED input => AnyInput'
  BY DEF AnyInput
<1> QED BY <1>1, <1>2, PTL DEF AlgorithmsSpec, SameInput
-----------------------------------------------------------------------------
(* Two rows of scores that differ only after position i.                     *)
SameSoFar(sc, other, i) ==
  DOMAIN sc = DOMAIN other /\ \A j \in 0..i : sc[j] = other[j]

LEMMA MassLocal ==
  ASSUME NEW keys, NEW sc, NEW other, \A j \in keys : sc[j] = other[j]
  PROVE  Mass(keys, sc) = Mass(keys, other)
<1>1. [j \in keys |-> Exp(sc[j])] = [j \in keys |-> Exp(other[j])]
  BY Zenon
<1> QED BY <1>1, Zenon DEF Mass

LEMMA WeightsLocal ==
  ASSUME NEW keys, NEW i, NEW sc, NEW other, SameSoFar(sc, other, i), keys \subseteq 0..i
  PROVE  /\ Normalised(keys, sc) = Normalised(keys, other)
         /\ RunningSum(keys, sc) = RunningSum(keys, other)
<1>1. DOMAIN sc = DOMAIN other /\ \A j \in keys : sc[j] = other[j]
  BY DEF SameSoFar
<1>2. Mass(keys, sc) = Mass(keys, other)
  BY <1>1, MassLocal
<1>3. ASSUME NEW j PROVE Mass({k \in keys : k <= j}, sc) = Mass({k \in keys : k <= j}, other)
  BY <1>1, MassLocal
<1>4. Normalised(keys, sc) = Normalised(keys, other)
  BY <1>1, <1>2, Zenon DEF Normalised
<1>5. RunningSum(keys, sc) = RunningSum(keys, other)
  BY <1>1, <1>3, Zenon DEF RunningSum
<1> QED BY <1>4, <1>5

LEMMA MaxOfTwo ==
  ASSUME NEW a \in Int, NEW b \in Int
  PROVE  /\ Max({a, b}) = IF a >= b THEN a ELSE b
         /\ Min({a, b}) = IF a <= b THEN a ELSE b
<1>1. Max({a, b}) = IF a >= b THEN a ELSE b
  <2> DEFINE m == IF a >= b THEN a ELSE b
  <2>1. m \in {a, b} /\ \A y \in {a, b} : m >= y
    OBVIOUS
  <2>2. \A x \in {a, b} : (\A y \in {a, b} : x >= y) => x = m
    BY <2>1
  <2> HIDE DEF m
  <2>3. Max({a, b}) = m
    BY <2>1, <2>2 DEF Max
  <2> QED BY <2>3 DEF m
<1>2. Min({a, b}) = IF a <= b THEN a ELSE b
  <2> DEFINE m == IF a <= b THEN a ELSE b
  <2>1. m \in {a, b} /\ \A y \in {a, b} : m <= y
    OBVIOUS
  <2>2. \A x \in {a, b} : (\A y \in {a, b} : x <= y) => x = m
    BY <2>1
  <2> HIDE DEF m
  <2>3. Min({a, b}) = m
    BY <2>1, <2>2 DEF Min
  <2> QED BY <2>3 DEF m
<1> QED BY <1>1, <1>2

LEMMA SlidingLocal ==
  ASSUME NEW i \in Nat, NEW sc, NEW other, SameSoFar(sc, other, i), NEW w \in Nat
  PROVE  SlidingWindow(sc, i, w) = SlidingWindow(other, i, w)
<1>1. Max({0, i - w}) \in Nat
  BY MaxOfTwo
<1>2. SlidingKeys(i, w) \subseteq 0..i
  BY <1>1 DEF SlidingKeys
<1> QED BY <1>2, WeightsLocal DEF SlidingWindow

LEMMA DilatedLocal ==
  ASSUME NEW i \in Nat, NEW sc, NEW other, SameSoFar(sc, other, i), NEW d
  PROVE  Dilated(sc, i, d) = Dilated(other, i, d)
<1>1. DilatedKeys(i, d) \subseteq 0..i
  BY DEF DilatedKeys
<1> QED BY <1>1, WeightsLocal DEF Dilated

LEMMA ScoresLocal ==
  ASSUME NEW i, NEW sc, NEW other, SameSoFar(sc, other, i), NEW query, 0..i \subseteq DOMAIN sc
  PROVE  SameSoFar(Scores(query, sc), Scores(query, other), i)
BY DEF SameSoFar, Scores

LEMMA GroupedLocal ==
  ASSUME NEW i \in Nat, NEW sc, NEW other, SameSoFar(sc, other, i), 0..i \subseteq DOMAIN sc,
         NEW H \in Nat, NEW G \in Nat \ {0}, NEW q, DOMAIN q = 0..(H - 1)
  PROVE  GroupedQuery(q, [g \in 0..(G - 1) |-> sc], H, G, i)
           = GroupedQuery(q, [g \in 0..(G - 1) |-> other], H, G, i)
<1> DEFINE k == [g \in 0..(G - 1) |-> sc]
           l == [g \in 0..(G - 1) |-> other]
           p == QPerKv(H, G)
           Row(m, h) == IF h < G * p THEN RunningSum(0..i, Scores(q[h], m[h \div p]))
                        ELSE [j \in DOMAIN m[0] |-> NoWeight]
<1>1. DOMAIN k[0] = DOMAIN l[0]
  BY DEF SameSoFar
<1>2. p \in Nat
  BY Quotient DEF QPerKv
<1>3. ASSUME NEW h \in 0..(H - 1) PROVE Row(k, h) = Row(l, h)
  <2>1. CASE h < G * p
    <3>1. p # 0 /\ h \in 0..(G * p - 1)
      BY <1>2, <2>1
    <3>2. h \div p \in 0..(G - 1)
      BY <1>2, <3>1, SplitIs
    <3>3. k[h \div p] = sc /\ l[h \div p] = other
      BY <3>2
    <3> HIDE DEF k, l, p
    <3>4. RunningSum(0..i, Scores(q[h], sc)) = RunningSum(0..i, Scores(q[h], other))
      <4>1. SameSoFar(Scores(q[h], sc), Scores(q[h], other), i)
        BY ScoresLocal
      <4>2. 0..i \subseteq 0..i
        OBVIOUS
      <4> QED BY <4>1, <4>2, WeightsLocal, Zenon
    <3> QED BY <2>1, <3>3, <3>4
  <2>2. CASE ~(h < G * p)
    <3> HIDE DEF k, l, p
    <3> QED BY <1>1, <2>2
  <2> QED BY <2>1, <2>2
<1>4. GroupedQuery(q, k, H, G, i) = [h \in 0..(H - 1) |-> Row(k, h)]
  BY Zenon DEF GroupedQuery
<1>5. GroupedQuery(q, l, H, G, i) = [h \in 0..(H - 1) |-> Row(l, h)]
  BY Zenon DEF GroupedQuery
<1> HIDE DEF k, l, Row
<1>6. GroupedQuery(q, k, H, G, i) = GroupedQuery(q, l, H, G, i)
  BY <1>3, <1>4, <1>5, Zenon
<1> QED BY <1>6 DEF k, l

LEMMA HybridLocal ==
  ASSUME NEW i, NEW sc, NEW other, SameSoFar(sc, other, i)
  PROVE  Hybrid(sc) = Hybrid(other)
BY DEF SameSoFar, Hybrid

(* Flash attention, tile by tile.                                            *)
Blank(sc) == [l |-> 0, acc |-> [j \in DOMAIN sc |-> NoWeight]]
FlashRows(row, sc, i, S, n) ==
  row = [t \in 0..Tiles(S, n) |->
           IF t = 0 THEN Blank(sc)
           ELSE FlashTile(row[t - 1], BlockOf(t - 1, n, S) \cap 0..i, sc)]

LEMMA FlashIs ==
  ASSUME NEW sc, NEW i, NEW S, NEW n
  PROVE  Flash(sc, i, S, n) = (CHOOSE row : FlashRows(row, sc, i, S, n))[Tiles(S, n)].acc
BY Zenon DEF Flash, FlashRows, Blank

LEMMA TileLocal ==
  ASSUME NEW sc, NEW other, NEW i, SameSoFar(sc, other, i), NEW row, NEW visible,
         visible \subseteq 0..i
  PROVE  FlashTile(row, visible, sc) = FlashTile(row, visible, other)
<1>1. Mass(visible, sc) = Mass(visible, other)
  BY MassLocal DEF SameSoFar
<1>2. DOMAIN sc = DOMAIN other /\ \A j \in visible : sc[j] = other[j]
  BY DEF SameSoFar
<1> QED BY <1>1, <1>2, Zenon DEF FlashTile

LEMMA FlashLocal ==
  ASSUME NEW sc, NEW other, NEW i, SameSoFar(sc, other, i), NEW S, NEW n
  PROVE  Flash(sc, i, S, n) = Flash(other, i, S, n)
<1>1. Blank(sc) = Blank(other)
  BY DEF Blank, SameSoFar
<1>2. \A row, t : FlashTile(row, BlockOf(t, n, S) \cap 0..i, sc)
                    = FlashTile(row, BlockOf(t, n, S) \cap 0..i, other)
  BY TileLocal
<1>3. \A row : FlashRows(row, sc, i, S, n) <=> FlashRows(row, other, i, S, n)
  BY <1>1, <1>2, Zenon DEF FlashRows
<1>4. (CHOOSE row : FlashRows(row, sc, i, S, n)) = (CHOOSE row : FlashRows(row, other, i, S, n))
  BY <1>3, Zenon
<1> QED BY <1>4, FlashIs, Zenon

(* Block sparse attention with blocks of one key.                            *)
LEMMA BlocksOfOne ==
  ASSUME NEW S \in Nat, NEW b \in 0..(S - 1)
  PROVE  BlockOf(b, 1, S) = {b}
<1>1. b * 1 = b /\ (b + 1) * 1 = b + 1 /\ b \in Int
  OBVIOUS
<1>2. Min({b + 1, S}) = b + 1
  <2>1. b + 1 \in Int /\ S \in Int /\ b + 1 <= S
    OBVIOUS
  <2> QED BY <2>1, MaxOfTwo
<1> QED BY <1>1, <1>2 DEF BlockOf

LEMMA BlockSparseLocal ==
  ASSUME NEW S \in Nat, NEW i \in 0..(S - 1), NEW m, NEW l,
         \A a, j \in 0..i : m[a][j] = l[a][j], NEW k
  PROVE  BlockSparse(m, i, 1, S, k) = BlockSparse(l, i, 1, S, k)
<1>1. i \div 1 = i /\ i \in Nat
  OBVIOUS
<1>2. ASSUME NEW a \in 0..i, NEW b \in 0..i
      PROVE  BlockScore(m, a, b, 1, S) = BlockScore(l, a, b, 1, S)
  <2>1. BlockOf(a, 1, S) = {a} /\ BlockOf(b, 1, S) = {b}
    BY BlocksOfOne
  <2>2. \A x \in {a} : [j \in {b} |-> m[x][j]] = [j \in {b} |-> l[x][j]]
    OBVIOUS
  <2>3. [x \in {a} |-> SumFunction([j \in {b} |-> m[x][j]])]
          = [x \in {a} |-> SumFunction([j \in {b} |-> l[x][j]])]
    BY <2>2, Zenon
  <2> QED BY <2>1, <2>3, Zenon DEF BlockScore
<1>3. TopBlocks(m, i, 1, S, k) = TopBlocks(l, i, 1, S, k)
  <2> DEFINE Ahead(f, a, b) ==
        \/ BlockScore(f, i, a, 1, S) > BlockScore(f, i, b, 1, S)
        \/ BlockScore(f, i, a, 1, S) = BlockScore(f, i, b, 1, S) /\ a > b
  <2>1. TopBlocks(m, i, 1, S, k)
          = {b \in 0..i : Cardinality({a \in 0..i : Ahead(m, a, b)}) < k}
    BY Zenon DEF TopBlocks
  <2>2. TopBlocks(l, i, 1, S, k)
          = {b \in 0..i : Cardinality({a \in 0..i : Ahead(l, a, b)}) < k}
    BY Zenon DEF TopBlocks
  <2>3. \A a, b \in 0..i : Ahead(m, a, b) <=> Ahead(l, a, b)
    BY <1>1, <1>2
  <2> HIDE DEF Ahead
  <2>4. \A b \in 0..i : {a \in 0..i : Ahead(m, a, b)} = {a \in 0..i : Ahead(l, a, b)}
    BY <2>3
  <2> QED BY <2>1, <2>2, <2>4, Zenon
<1>4. BlockSparseKeys(m, i, 1, S, k) = BlockSparseKeys(l, i, 1, S, k)
  BY <1>1, <1>3, Zenon DEF BlockSparseKeys
<1>5. BlockSparseKeys(m, i, 1, S, k) \subseteq 0..i
  BY Zenon DEF BlockSparseKeys
<1> DEFINE keys == BlockSparseKeys(m, i, 1, S, k)
<1>6. [j \in keys |-> m[i][j]] = [j \in keys |-> l[i][j]]
  <2>1. \A j \in keys : m[i][j] = l[i][j]
    BY <1>1, <1>5
  <2> HIDE DEF keys
  <2> QED BY <2>1, Zenon
<1> QED BY <1>4, <1>6, Zenon DEF BlockSparse

BlockSparseCausal(sc, other, i, S) ==
  \A k \in Nat : BlockSparse([a \in DOMAIN sc |-> sc], i, 1, S, k)
                    = BlockSparse([a \in DOMAIN sc |-> other], i, 1, S, k)

LEMMA BlockSparseIsCausal ==
  ASSUME NEW S \in Nat, NEW i \in 0..(S - 1), NEW sc, NEW other,
         SameSoFar(sc, other, i), 0..i \subseteq DOMAIN sc
  PROVE  BlockSparseCausal(sc, other, i, S)
<1> DEFINE m == [a \in DOMAIN sc |-> sc]
           l == [a \in DOMAIN sc |-> other]
<1>1. \A a, j \in 0..i : m[a][j] = l[a][j]
  BY DEF SameSoFar
<1> HIDE DEF m, l
<1>2. \A k : BlockSparse(m, i, 1, S, k) = BlockSparse(l, i, 1, S, k)
  BY <1>1, BlockSparseLocal
<1> QED BY <1>2 DEF BlockSparseCausal, m, l

GroupedCausal(sc, other, i) ==
  \A H \in Nat, G \in Nat \ {0} : \A q \in [0..(H - 1) -> Int] :
    GroupedQuery(q, [g \in 0..(G - 1) |-> sc], H, G, i)
      = GroupedQuery(q, [g \in 0..(G - 1) |-> other], H, G, i)

LEMMA GroupedIsCausal ==
  ASSUME NEW i \in Nat, NEW sc, NEW other, SameSoFar(sc, other, i), 0..i \subseteq DOMAIN sc
  PROVE  GroupedCausal(sc, other, i)
<1>1. ASSUME NEW H \in Nat, NEW G \in Nat \ {0}, NEW q, DOMAIN q = 0..(H - 1)
      PROVE  GroupedQuery(q, [g \in 0..(G - 1) |-> sc], H, G, i)
               = GroupedQuery(q, [g \in 0..(G - 1) |-> other], H, G, i)
  BY <1>1, GroupedLocal
<1>2. \A H : \A q \in [0..(H - 1) -> Int] : DOMAIN q = 0..(H - 1)
  OBVIOUS
<1> QED BY <1>1, <1>2 DEF GroupedCausal

(* Every distance has a cell of its own in the table of its head.            *)
LEMMA BiasCells ==
  ASSUME NEW H \in Nat, NEW S \in Nat \ {0}, NEW i \in 0..(S - 1),
         NEW h \in 0..(H - 1), NEW j \in 0..(S - 1)
  PROVE  /\ HasBias(i, j, S) /\ BiasIndex(h, i, j, S) \in BiasTable(H, S)
         /\ \A g \in 0..(H - 1), l \in 0..(S - 1) :
              BiasIndex(h, i, j, S) = BiasIndex(g, i, l, S) => g = h /\ l = j
<1> DEFINE w == 2 * S - 1
<1>1. w \in Nat \ {0} /\ \A l \in 0..(S - 1) : Relative(i, l, S) \in 0..(w - 1)
  BY DEF Relative
<1>2. \A g, l : BiasIndex(g, i, l, S) = g * w + Relative(i, l, S)
  BY Zenon DEF BiasIndex
<1>3. HasBias(i, j, S)
  BY <1>1 DEF HasBias
<1>4. BiasTable(H, S) = 0..(H * w - 1)
  BY Zenon DEF BiasTable
<1> HIDE DEF w
<1>5. BiasIndex(h, i, j, S) \in BiasTable(H, S)
  <2>1. h * w \in Nat /\ h * w + w <= H * w /\ H * w \in Nat
    BY <1>1, Multiples
  <2>2. Relative(i, j, S) \in 0..(w - 1) /\ BiasIndex(h, i, j, S) = h * w + Relative(i, j, S)
    BY <1>1, <1>2
  <2> DEFINE a == h * w
             b == H * w
             r == Relative(i, j, S)
  <2>3. a + r \in 0..(b - 1)
    <3> HIDE DEF a, b, r
    <3>1. a \in Nat /\ a + w <= b /\ b \in Nat /\ r \in 0..(w - 1)
      BY <2>1, <2>2 DEF a, b, r
    <3> QED BY <1>1, <3>1
  <2> QED BY <1>4, <2>2, <2>3, Zenon
<1>6. ASSUME NEW g \in 0..(H - 1), NEW l \in 0..(S - 1),
             BiasIndex(h, i, j, S) = BiasIndex(g, i, l, S)
      PROVE  g = h /\ l = j
  <2> DEFINE a == Relative(i, j, S)
             b == Relative(i, l, S)
  <2>1. a \in 0..(w - 1) /\ b \in 0..(w - 1) /\ h \in Nat /\ g \in Nat
    BY <1>1
  <2>2. h * w + a = g * w + b
    BY <1>2, <1>6
  <2> HIDE DEF a, b
  <2>3. h = g /\ a = b
    <3>1. /\ (h * w + a) \div w = h /\ (h * w + a) % w = a
          /\ (g * w + b) \div w = g /\ (g * w + b) % w = b
      BY <1>1, <2>1, DivMod
    <3> QED BY <2>2, <3>1, Zenon
  <2>4. l = j
    BY <2>3 DEF a, b, Relative
  <2> QED BY <2>3, <2>4
<1> QED BY <1>3, <1>5, <1>6

LEMMA BiasCellsOf3 ==
  ASSUME NEW S, S \in Nat \ {0}, NEW i, i \in 0..(S - 1),
         NEW h, h \in 0..2, NEW j, j \in 0..(S - 1)
  PROVE  /\ HasBias(i, j, S) /\ BiasIndex(h, i, j, S) \in BiasTable(3, S)
         /\ \A g \in 0..2, l \in 0..(S - 1) :
              BiasIndex(h, i, j, S) = BiasIndex(g, i, l, S) => g = h /\ l = j
<1>1. 3 \in Nat /\ 3 - 1 = 2
  OBVIOUS
<1> QED BY <1>1, BiasCells

LEMMA AlibiIs ==
  ASSUME NEW h \in 0..2, NEW i \in Int, NEW j \in Int
  PROVE  Alibi(h, 3, i, j) * 2^(h + 1) = -8 * (i - j)
<1>1. CASE h = 0
  <2>1. AlibiSlope(h, 3) = 4 /\ 2^(h + 1) = 2
    BY <1>1 DEF AlibiSlope
  <2> QED BY <2>1 DEF Alibi
<1>2. CASE h = 1
  <2>1. AlibiSlope(h, 3) = 2 /\ 2^(h + 1) = 4
    BY <1>2 DEF AlibiSlope
  <2> QED BY <2>1 DEF Alibi
<1>3. CASE h = 2
  <2>1. AlibiSlope(h, 3) = 1 /\ 2^(h + 1) = 8
    BY <1>3 DEF AlibiSlope
  <2> QED BY <2>1 DEF Alibi
<1> QED BY <1>1, <1>2, <1>3

(* NoLookAhead for two rows of scores, and any numbers of heads and groups,  *)
(* window, dilation, blocks to choose and keys per tile.                     *)
Causal(sc, other, i, S) ==
  /\ \A w \in Nat : SlidingWindow(sc, i, w) = SlidingWindow(other, i, w)
  /\ \A d \in Nat \ {0} : Dilated(sc, i, d) = Dilated(other, i, d)
  /\ GroupedCausal(sc, other, i)
  /\ \A n \in Nat \ {0} : Flash(sc, i, S, n) = Flash(other, i, S, n)
  /\ Hybrid(sc) = Hybrid(other)
  /\ BlockSparseCausal(sc, other, i, S)

(* For every length of the sequence and every scores: what comes after a     *)
(* token changes nothing of its output (attention_variants.hpp,              *)
(* flash_attention.hpp).                                                     *)
THEOREM CausalAtAnySize ==
  ASSUME NEW S \in Nat \ {0}, NEW i \in 0..(S - 1), NEW sc, NEW other,
         DOMAIN sc = 0..(S - 1), SameSoFar(sc, other, i)
  PROVE  Causal(sc, other, i, S)
<1>1. /\ i \in Nat /\ S \in Nat /\ i \in 0..(S - 1)
      /\ 0..i \subseteq DOMAIN sc /\ SameSoFar(sc, other, i)
  OBVIOUS
<1>2. \A w \in Nat : SlidingWindow(sc, i, w) = SlidingWindow(other, i, w)
  BY <1>1, SlidingLocal
<1>3. \A d \in Nat \ {0} : Dilated(sc, i, d) = Dilated(other, i, d)
  BY <1>1, DilatedLocal
<1>4. GroupedCausal(sc, other, i)
  BY <1>1, GroupedIsCausal, Zenon
<1>5. \A n \in Nat \ {0} : Flash(sc, i, S, n) = Flash(other, i, S, n)
  BY FlashLocal
<1>6. Hybrid(sc) = Hybrid(other)
  BY HybridLocal
<1>7. BlockSparseCausal(sc, other, i, S)
  BY <1>1, BlockSparseIsCausal, Zenon
<1> QED BY <1>2, <1>3, <1>4, <1>5, <1>6, <1>7, Zenon DEF Causal

LEMMA SameIsSame == ASSUME NEW u, NEW v, u = v PROVE SameWeights(u, v)
BY DEF SameWeights

LEMMA AttentionInput ==
  ASSUME AnyInput, input.kind = "attention"
  PROVE  \E S \in 1..MaxS :
           /\ input.i \in 0..(S - 1) /\ input.sc \in [0..(S - 1) -> 0..2]
           /\ input.q \in {<<1, 0, 2>>, <<2, 1, 1>>}
<1>1. input \in AttentionInputs
  BY Kinds
<1>2. PICK S \in 1..MaxS :
        input \in [kind : {"attention"}, i : 0 .. S - 1, q : {<<1, 0, 2>>, <<2, 1, 1>>},
                   sc : [0 .. S - 1 -> 0 .. 2]]
  BY <1>1, Zenon DEF AttentionInputs
<1> QED BY <1>2

(* In the run: no score after a token reaches its output, for every bound on *)
(* the length of the sequence and every number of keys per tile.             *)
THEOREM LooksBackOnly == AlgorithmsSpec => []NoLookAhead
<1>1. AnyInput => NoLookAhead
  <2> SUFFICES ASSUME AnyInput, input.kind = "attention" PROVE NoLookAhead
    BY SMTT(20) DEF NoLookAhead
  <2> DEFINE sc == input.sc
             i == input.i
             S == Cardinality(DOMAIN sc)
             other == [j \in DOMAIN sc |-> IF j > i THEN 2 - sc[j] ELSE sc[j]]
             Matrix(row) == [a \in DOMAIN sc |-> row]
             q == [h \in 0 .. 2 |-> input.q[h + 1]]
             pairs == {<<h, j>> : h \in 0 .. 2, j \in 0 .. S - 1}
  <2>1. PICK n \in 1..MaxS : /\ i \in 0..(n - 1) /\ sc \in [0..(n - 1) -> 0..2]
                             /\ input.q \in {<<1, 0, 2>>, <<2, 1, 1>>}
    BY AttentionInput
  <2>2. n \in Nat \ {0} /\ DOMAIN sc = 0..(n - 1) /\ S = n
    <3>1. n \in Nat \ {0}
      BY AlgorithmsAssumption
    <3>2. DOMAIN sc = 0..(n - 1)
      BY <2>1
    <3>3. Cardinality(0..(n - 1)) = n
      BY <3>1, FS_Interval
    <3> QED BY <3>1, <3>2, <3>3
  <2>3. q \in [0..2 -> Int]
    <3>1. input.q[1] \in Int /\ input.q[2] \in Int /\ input.q[3] \in Int
      BY <2>1
    <3>2. \A h \in 0..2 : h = 0 \/ h = 1 \/ h = 2
      OBVIOUS
    <3>3. \A h \in 0..2 : input.q[h + 1] \in Int
      BY <3>1, <3>2
    <3> QED BY <3>3
  <2>4. SameSoFar(sc, other, i)
    <3>1. \A j \in 0..i : j \in DOMAIN sc /\ ~(j > i)
      BY <2>1, <2>2
    <3> QED BY <3>1 DEF SameSoFar
  <2> HIDE DEF other, sc, i, q
  <2>5. Causal(sc, other, i, S)
    BY <2>1, <2>2, <2>4, CausalAtAnySize
  <2>6. \A w \in 0 .. 2 : SameWeights(SlidingWindow(sc, i, w), SlidingWindow(other, i, w))
    BY <2>5, SameIsSame DEF Causal
  <2>7. \A d \in 1 .. 3 : SameWeights(Dilated(sc, i, d), Dilated(other, i, d))
    BY <2>5, SameIsSame DEF Causal
  <2>8. \A G \in 1 .. 2 : GroupedQuery(q, [g \in 0 .. G - 1 |-> sc], 3, G, i)
                            = GroupedQuery(q, [g \in 0 .. G - 1 |-> other], 3, G, i)
    <3>1. \A G \in Nat \ {0} : GroupedQuery(q, [g \in 0 .. G - 1 |-> sc], 3, G, i)
                                  = GroupedQuery(q, [g \in 0 .. G - 1 |-> other], 3, G, i)
      BY <2>3, <2>5, 3 \in Nat, 3 - 1 = 2, Zenon DEF Causal, GroupedCausal
    <3>2. \A G \in 1 .. 2 : G \in Nat \ {0}
      OBVIOUS
    <3> QED BY <3>1, <3>2, Zenon
  <2>9. SameWeights(Flash(sc, i, S, Bc), Flash(other, i, S, Bc))
    BY <2>5, SameIsSame, AlgorithmsAssumption DEF Causal
  <2>10. Hybrid(sc) = Hybrid(other)
    BY <2>5 DEF Causal
  <2>11. \A k \in 1 .. 2 : BlockSparse(Matrix(sc), i, 1, S, k) = BlockSparse(Matrix(other), i, 1, S, k)
    BY <2>5 DEF Causal, BlockSparseCausal
  <2>12. \A h \in 0 .. 2, j \in 0 .. i : Alibi(h, 3, i, j) * 2^(h + 1) = -8 * (i - j)
    <3>1. i \in Int /\ \A j \in 0 .. i : j \in Int
      BY <2>1
    <3> QED BY <3>1, AlibiIs
  <2>13. \A p \in pairs :
           /\ HasBias(i, p[2], S)
           /\ BiasIndex(p[1], i, p[2], S) \in BiasTable(3, S)
           /\ \A p2 \in pairs \ {p} : BiasIndex(p[1], i, p[2], S) # BiasIndex(p2[1], i, p2[2], S)
    <3> SUFFICES ASSUME NEW p \in pairs
                 PROVE  /\ HasBias(i, p[2], S)
                        /\ BiasIndex(p[1], i, p[2], S) \in BiasTable(3, S)
                        /\ \A p2 \in pairs \ {p} :
                             BiasIndex(p[1], i, p[2], S) # BiasIndex(p2[1], i, p2[2], S)
      OBVIOUS
    <3>1. \A x \in pairs : x = <<x[1], x[2]>> /\ x[1] \in 0..2 /\ x[2] \in 0..(S - 1)
      OBVIOUS
    <3>2. S \in Nat \ {0} /\ i \in 0..(S - 1)
      BY <2>1, <2>2
    <3> HIDE DEF pairs, S
    <3> DEFINE h == p[1]
               j == p[2]
    <3>3. /\ HasBias(i, j, S) /\ BiasIndex(h, i, j, S) \in BiasTable(3, S)
          /\ \A g \in 0..2, l \in 0..(S - 1) :
               BiasIndex(h, i, j, S) = BiasIndex(g, i, l, S) => g = h /\ l = j
      <4>1. h \in 0..2 /\ j \in 0..(S - 1) 
        BY <3>1
      <4> HIDE DEF h, j
      <4> QED BY <3>2, <4>1, BiasCellsOf3, Zenon
    <3>4. ASSUME NEW p2 \in pairs, BiasIndex(p[1], i, p[2], S) = BiasIndex(p2[1], i, p2[2], S)
          PROVE  p2 = p
      <4>1. p2[1] = p[1] /\ p2[2] = p[2]
        BY <3>1, <3>3, <3>4, Zenon
      <4> QED BY <3>1, <4>1, Zenon
    <3> QED BY <3>3, <3>4
  <2> QED BY <2>6, <2>7, <2>8, <2>9, <2>10, <2>11, <2>12, <2>13, SMTT(60)
          DEF NoLookAhead, sc, i, other, q
<1>2. AnyInput /\ UNCHANGED input => AnyInput'
  BY DEF AnyInput
<1> QED BY <1>1, <1>2, PTL DEF AlgorithmsSpec, SameInput
-----------------------------------------------------------------------------
(* Induction over the subsets of a finite set, for a set T of them.          *)
LEMMA FiniteInduction ==
  ASSUME NEW S, IsFiniteSet(S), NEW T, {} \in T,
         \A s \in SUBSET S, a \in S : s \in T /\ a \notin s => s \cup {a} \in T
  PROVE  S \in T
<1> DEFINE Good == {n \in Nat : \A s \in SUBSET S : Cardinality(s) = n => s \in T}
<1>1. 0 \in Good
  <2>1. \A s \in SUBSET S : Cardinality(s) = 0 => s = {}
    BY FS_Subset, FS_EmptySet
  <2> QED BY <2>1
<1>2. ASSUME NEW n \in Nat, n \in Good PROVE n + 1 \in Good
  <2>1. ASSUME NEW s \in SUBSET S, Cardinality(s) = n + 1 PROVE s \in T
    <3>1. IsFiniteSet(s) /\ s # {}
      BY <2>1, FS_Subset, FS_EmptySet
    <3>2. PICK a : a \in s
      BY <3>1
    <3>3. Cardinality(s \ {a}) = n
      <4>1. Cardinality(s \ {a}) = Cardinality(s) - 1
        BY <3>1, <3>2, FS_RemoveElement
      <4> QED BY <2>1, <4>1
    <3>4. s \ {a} \in T
      BY <1>2, <3>3
    <3>5. (s \ {a}) \cup {a} \in T
      BY <3>2, <3>4
    <3>6. (s \ {a}) \cup {a} = s
      BY <3>2
    <3> QED BY <3>5, <3>6, Zenon
  <2> QED BY <2>1
<1> HIDE DEF Good
<1>3. Nat \subseteq Good
  BY <1>1, <1>2, Induction
<1>4. Cardinality(S) \in Nat
  BY FS_CardinalityType
<1> QED BY <1>3, <1>4 DEF Good

LEMMA SumMore ==
  ASSUME NEW f, NEW S, IsFiniteSet(S), NEW a, a \notin S,
         \A x \in S \cup {a} : f[x] \in Int
  PROVE  Sum(f, S) \in Int /\ Sum(f, S \cup {a}) = f[a] + Sum(f, S)
<1>1. IsFiniteSet(S \cup {a})
  BY FS_AddElement
<1>2. (S \cup {a}) \ {a} = S
  OBVIOUS
<1>3. Sum(f, S \cup {a}) = f[a] + Sum(f, (S \cup {a}) \ {a})
  BY <1>1, SumWithout
<1> QED BY <1>2, <1>3, SumWithout

LEMMA SumOfOne ==
  ASSUME NEW f, NEW a, f[a] \in Int
  PROVE  Sum(f, {a}) = f[a]
<1>1. {} \cup {a} = {a}
  OBVIOUS
<1>2. Sum(f, {} \cup {a}) = f[a] + Sum(f, {})
  BY SumMore, FS_EmptySet
<1> QED BY <1>1, <1>2, SumNone

(* Disjoint sets are added one after the other.                              *)
LEMMA SumSplit ==
  ASSUME NEW f, NEW A, NEW B, IsFiniteSet(A), IsFiniteSet(B), A \cap B = {},
         \A x \in A \cup B : f[x] \in Int
  PROVE  Sum(f, A \cup B) = Sum(f, A) + Sum(f, B)
<1> DEFINE T == {b \in SUBSET B : Sum(f, A \cup b) = Sum(f, A) + Sum(f, b)}
<1>0. Sum(f, A) \in Int
  BY SumWithout
<1>1. {} \in T
  <2>1. A \cup {} = A
    OBVIOUS
  <2> QED BY <1>0, <2>1, SumNone
<1>2. ASSUME NEW s \in SUBSET B, NEW a \in B, s \in T, a \notin s PROVE s \cup {a} \in T
  <2>1. IsFiniteSet(s) /\ IsFiniteSet(A \cup s) /\ a \notin A \cup s
    BY <1>2, FS_Subset, FS_Union
  <2>2. Sum(f, s) \in Int /\ Sum(f, s \cup {a}) = f[a] + Sum(f, s)
    BY <1>2, <2>1, SumMore
  <2>3. Sum(f, (A \cup s) \cup {a}) = f[a] + Sum(f, A \cup s)
    <3>1. \A x \in (A \cup s) \cup {a} : f[x] \in Int
      OBVIOUS
    <3> HIDE DEF T
    <3> QED BY <2>1, <3>1, SumMore
  <2>4. (A \cup s) \cup {a} = A \cup (s \cup {a})
    OBVIOUS
  <2>5. Sum(f, A \cup s) = Sum(f, A) + Sum(f, s) /\ f[a] \in Int
    BY <1>2
  <2>6. Sum(f, A \cup (s \cup {a})) = Sum(f, A) + Sum(f, s \cup {a})
    <3>1. Sum(f, A \cup (s \cup {a})) = f[a] + Sum(f, A \cup s)
      BY <2>3, <2>4, Zenon
    <3> HIDE DEF T
    <3> QED BY <1>0, <2>2, <2>5, <3>1
  <2> QED BY <2>6
<1> HIDE DEF T
<1>3. B \in T
  BY <1>1, <1>2, FiniteInduction
<1> QED BY <1>3 DEF T

(* A sum of naturals is one, and no smaller than any of them.                *)
LEMMA SumOfNaturals ==
  ASSUME NEW f, NEW S, IsFiniteSet(S), \A x \in S : f[x] \in Nat
  PROVE  Sum(f, S) \in Nat /\ \A a \in S : Sum(f, S) >= f[a]
<1> DEFINE T == {s \in SUBSET S : Sum(f, s) \in Nat}
<1>1. {} \in T
  BY SumNone
<1>2. ASSUME NEW s \in SUBSET S, NEW a \in S, s \in T, a \notin s PROVE s \cup {a} \in T
  <2>1. IsFiniteSet(s) /\ \A x \in s \cup {a} : f[x] \in Int
    BY FS_Subset
  <2>2. Sum(f, s \cup {a}) = f[a] + Sum(f, s)
    BY <1>2, <2>1, SumMore
  <2> QED BY <1>2, <2>2
<1> HIDE DEF T
<1>3. S \in T
  BY <1>1, <1>2, FiniteInduction
<1>4. ASSUME NEW a \in S PROVE Sum(f, S) >= f[a]
  <2> DEFINE R == S \ {a}
  <2>1. IsFiniteSet(R) /\ a \notin R /\ R \cup {a} = S /\ R \subseteq S
    BY FS_Subset
  <2> DEFINE U == {s \in SUBSET R : Sum(f, s) \in Nat}
  <2>2. {} \in U
    BY SumNone
  <2> HIDE DEF R
  <2>3. ASSUME NEW s \in SUBSET R, NEW b \in R, s \in U, b \notin s PROVE s \cup {b} \in U
    <3>1. IsFiniteSet(s) /\ \A x \in s \cup {b} : f[x] \in Nat
      BY <2>1, FS_Subset
    <3>2. Sum(f, s \cup {b}) = f[b] + Sum(f, s)
      BY <2>3, <3>1, SumMore
    <3> QED BY <2>3, <3>1, <3>2
  <2> HIDE DEF U
  <2>4. R \in U
    BY <2>1, <2>2, <2>3, FiniteInduction
  <2>5. Sum(f, R) \in Nat
    BY <2>4 DEF U
  <2>6. Sum(f, R \cup {a}) = f[a] + Sum(f, R)
    BY <2>1, SumMore
  <2>7. Sum(f, S) = f[a] + Sum(f, R)
    BY <2>1, <2>6, Zenon
  <2> QED BY <2>5, <2>7
<1> QED BY <1>3, <1>4 DEF T

LEMMA SumOfZeros ==
  ASSUME NEW f, NEW S, IsFiniteSet(S), \A x \in S : f[x] = 0
  PROVE  Sum(f, S) = 0
<1> DEFINE T == {s \in SUBSET S : Sum(f, s) = 0}
<1>1. {} \in T
  BY SumNone
<1>2. ASSUME NEW s \in SUBSET S, NEW a \in S, s \in T, a \notin s PROVE s \cup {a} \in T
  <2>1. IsFiniteSet(s) /\ \A x \in s \cup {a} : f[x] \in Int
    BY FS_Subset
  <2>2. Sum(f, s \cup {a}) = f[a] + Sum(f, s)
    BY <1>2, <2>1, SumMore
  <2> QED BY <1>2, <2>2
<1> HIDE DEF T
<1>3. S \in T
  BY <1>1, <1>2, FiniteInduction
<1> QED BY <1>3 DEF T

LEMMA SumPlus ==
  ASSUME NEW f, NEW g, NEW h, NEW S, IsFiniteSet(S),
         \A x \in S : f[x] \in Int /\ g[x] \in Int /\ h[x] = f[x] + g[x]
  PROVE  Sum(h, S) = Sum(f, S) + Sum(g, S)
<1> DEFINE T == {s \in SUBSET S : Sum(h, s) = Sum(f, s) + Sum(g, s)}
<1>1. {} \in T
  BY SumNone
<1>2. ASSUME NEW s \in SUBSET S, NEW a \in S, s \in T, a \notin s PROVE s \cup {a} \in T
  <2>1. IsFiniteSet(s)
    BY FS_Subset
  <2>2. \A x \in s \cup {a} : f[x] \in Int /\ g[x] \in Int /\ h[x] = f[x] + g[x] /\ h[x] \in Int
    OBVIOUS
  <2>3. /\ Sum(f, s \cup {a}) = f[a] + Sum(f, s) /\ Sum(f, s) \in Int
        /\ Sum(g, s \cup {a}) = g[a] + Sum(g, s) /\ Sum(g, s) \in Int
        /\ Sum(h, s \cup {a}) = h[a] + Sum(h, s)
    BY <1>2, <2>1, <2>2, SumMore
  <2>4. Sum(h, s) = Sum(f, s) + Sum(g, s)
    BY <1>2
  <2>5. Sum(h, s \cup {a}) = Sum(f, s \cup {a}) + Sum(g, s \cup {a})
    BY <2>2, <2>3, <2>4
  <2> QED BY <2>5
<1> HIDE DEF T
<1>3. S \in T
  BY <1>1, <1>2, FiniteInduction
<1> QED BY <1>3 DEF T

(* A double sum may be taken in either order.                                *)
RowsFirst(J, D, p, w) == Sum([j \in J |-> Sum([d \in D |-> p[d] * w[j][d]], D)], J)
ColumnsFirst(J, D, p, w) == Sum([d \in D |-> p[d] * Sum([j \in J |-> w[j][d]], J)], D)
LEMMA SumsSwapped ==
  ASSUME NEW J, NEW D, NEW p, NEW w, IsFiniteSet(J), IsFiniteSet(D),
         \A d \in D : p[d] \in Int, \A j \in J, d \in D : w[j][d] \in Int
  PROVE  RowsFirst(J, D, p, w) = ColumnsFirst(J, D, p, w)
<1> DEFINE Row(j) == [d \in D |-> p[d] * w[j][d]]
           RowSums(s) == Sum([j \in J |-> Sum(Row(j), D)], s)
           Column(d, s) == Sum([j \in J |-> w[j][d]], s)
           Weighted(s) == [d \in D |-> p[d] * Column(d, s)]
           T == {s \in SUBSET J : RowSums(s) = Sum(Weighted(s), D)}
<1>0. ASSUME NEW j \in J
      PROVE  Sum(Row(j), D) \in Int /\ \A d \in D : Row(j)[d] = p[d] * w[j][d] /\ Row(j)[d] \in Int
  <2>1. \A d \in D : Row(j)[d] = p[d] * w[j][d] /\ Row(j)[d] \in Int
    OBVIOUS
  <2> HIDE DEF Row
  <2> QED BY <2>1, SumWithout
<1>1. {} \in T
  <2>1. \A d \in D : Weighted({})[d] = 0
    BY SumNone
  <2>2. RowSums({}) = 0
    BY SumNone
  <2> HIDE DEF Weighted, RowSums
  <2> QED BY <2>1, <2>2, SumOfZeros
<1>2. ASSUME NEW s \in SUBSET J, NEW a \in J, s \in T, a \notin s PROVE s \cup {a} \in T
  <2>1. IsFiniteSet(s)
    BY FS_Subset
  <2>2. RowSums(s \cup {a}) = Sum(Row(a), D) + RowSums(s)
    <3> DEFINE f == [j \in J |-> Sum(Row(j), D)]
    <3>1. \A j \in J : f[j] = Sum(Row(j), D) /\ f[j] \in Int
      BY <1>0
    <3> HIDE DEF f, Row
    <3>2. Sum(f, s \cup {a}) = f[a] + Sum(f, s)
      BY <1>2, <2>1, <3>1, SumMore
    <3> QED BY <3>1, <3>2 DEF f
  <2>3. ASSUME NEW d \in D
        PROVE  Column(d, s) \in Int /\ Column(d, s \cup {a}) = w[a][d] + Column(d, s)
    <3> DEFINE f == [j \in J |-> w[j][d]]
    <3>1. \A j \in J : f[j] = w[j][d] /\ f[j] \in Int
      OBVIOUS
    <3> HIDE DEF f
    <3>2. Sum(f, s) \in Int /\ Sum(f, s \cup {a}) = f[a] + Sum(f, s)
      BY <1>2, <2>1, <3>1, SumMore
    <3> QED BY <3>1, <3>2 DEF f
  <2>4. \A d \in D : /\ Row(a)[d] \in Int /\ Weighted(s)[d] \in Int
                     /\ Weighted(s \cup {a})[d] = Row(a)[d] + Weighted(s)[d]
    <3> SUFFICES ASSUME NEW d \in D
                 PROVE  /\ Row(a)[d] \in Int /\ Weighted(s)[d] \in Int
                        /\ Weighted(s \cup {a})[d] = Row(a)[d] + Weighted(s)[d]
      OBVIOUS
    <3>1. /\ Weighted(s)[d] = p[d] * Column(d, s)
          /\ Weighted(s \cup {a})[d] = p[d] * Column(d, s \cup {a})
          /\ Row(a)[d] = p[d] * w[a][d]
      OBVIOUS
    <3> HIDE DEF Row, Weighted, Column
    <3>2. p[d] \in Int /\ w[a][d] \in Int /\ Column(d, s) \in Int
      BY <2>3
    <3>3. p[d] * (w[a][d] + Column(d, s)) = p[d] * w[a][d] + p[d] * Column(d, s)
      BY <3>2
    <3>4. Weighted(s \cup {a})[d] = p[d] * (w[a][d] + Column(d, s))
      BY <2>3, <3>1, Zenon
    <3> QED BY <3>1, <3>2, <3>3, <3>4
  <2>5. RowSums(s) = Sum(Weighted(s), D)
    BY <1>2
  <2> HIDE DEF Row, Weighted, RowSums, Column, T
  <2>6. Sum(Weighted(s \cup {a}), D) = Sum(Row(a), D) + Sum(Weighted(s), D)
    <3> DEFINE x == Row(a)
               y == Weighted(s)
               z == Weighted(s \cup {a})
    <3>1. \A d \in D : x[d] \in Int /\ y[d] \in Int /\ z[d] = x[d] + y[d]
      BY <2>4
    <3> HIDE DEF x, y, z
    <3>2. Sum(z, D) = Sum(x, D) + Sum(y, D)
      BY <3>1, SumPlus
    <3> QED BY <3>2 DEF x, y, z
  <2>7. s \cup {a} \in SUBSET J
    OBVIOUS
  <2> QED BY <2>2, <2>5, <2>6, <2>7, Zenon DEF T
<1> HIDE DEF T
<1>3. J \in T
  BY <1>1, <1>2, FiniteInduction
<1> QED BY <1>3, Zenon DEF T, RowsFirst, ColumnsFirst, Row, RowSums, Column, Weighted
-----------------------------------------------------------------------------
(* The mass of finitely many keys, each of a positive weight.                *)
LEMMA MassIs ==
  ASSUME NEW A, IsFiniteSet(A), NEW sc, \A j \in A : Exp(sc[j]) \in Nat \ {0}
  PROVE  /\ Mass(A, sc) \in Nat
         /\ A # {} => Mass(A, sc) \in Nat \ {0}
         /\ A = {} => Mass(A, sc) = 0
         /\ \A B, C : A = B \cup C /\ B \cap C = {} => Mass(A, sc) = Mass(B, sc) + Mass(C, sc)
<1> DEFINE f(D) == [j \in D |-> Exp(sc[j])]
<1>1. \A D : Mass(D, sc) = Sum(f(D), D)
  BY SumFunctionIs, Zenon DEF Mass
<1>2. \A D \in SUBSET A : \A j \in D : f(D)[j] = f(A)[j] /\ f(A)[j] \in Nat \ {0} /\ f(A)[j] \in Int
  OBVIOUS
<1> HIDE DEF f
<1>3. ASSUME NEW D \in SUBSET A PROVE Mass(D, sc) = Sum(f(A), D) /\ IsFiniteSet(D)
  <2>1. IsFiniteSet(D)
    BY FS_Subset
  <2> QED BY <1>1, <1>2, <2>1, SumSame
<1>4. A \in SUBSET A
  OBVIOUS
<1>5. Mass(A, sc) \in Nat /\ \A j \in A : Mass(A, sc) >= f(A)[j] /\ f(A)[j] \in Nat \ {0}
  <2>1. \A j \in A : f(A)[j] \in Nat \ {0} /\ f(A)[j] \in Nat
    BY <1>2, <1>4
  <2>2. Mass(A, sc) = Sum(f(A), A)
    BY <1>3, <1>4
  <2>3. Sum(f(A), A) \in Nat /\ \A j \in A : Sum(f(A), A) >= f(A)[j]
    BY <2>1, SumOfNaturals
  <2> QED BY <2>1, <2>2, <2>3
<1>6. ASSUME NEW B, NEW C, A = B \cup C, B \cap C = {}
      PROVE  Mass(A, sc) = Mass(B, sc) + Mass(C, sc)
  <2>1. B \in SUBSET A /\ C \in SUBSET A
    BY <1>6
  <2>2. /\ Mass(B, sc) = Sum(f(A), B) /\ IsFiniteSet(B)
        /\ Mass(C, sc) = Sum(f(A), C) /\ IsFiniteSet(C)
        /\ Mass(A, sc) = Sum(f(A), A)
    BY <1>3, <1>4, <2>1
  <2>3. \A x \in B \cup C : f(A)[x] \in Int
    BY <1>2, <1>4, <1>6
  <2>4. Sum(f(A), B \cup C) = Sum(f(A), B) + Sum(f(A), C)
    BY <1>6, <2>2, <2>3, SumSplit
  <2> QED BY <1>6, <2>2, <2>4, Zenon
<1>7. A = {} => Mass(A, sc) = 0
  BY <1>1, SumNone
<1> QED BY <1>5, <1>6, <1>7

(* One or two tiles, and the keys of each.                                   *)
LEMMA TwoTiles ==
  ASSUME NEW S \in Nat \ {0}, NEW n \in Nat \ {0}, Tiles(S, n) <= 2
  PROVE  /\ BlockOf(0, n, S) = IF S <= n THEN 0..(S - 1) ELSE 0..(n - 1)
         /\ \/ Tiles(S, n) = 1 /\ S <= n
            \/ Tiles(S, n) = 2 /\ S > n /\ BlockOf(1, n, S) = n..(S - 1)
<1> DEFINE q == (S + n - 1) \div n
           r == (S + n - 1) % n
<1>1. S + n - 1 = n * q + r /\ r \in 0..(n - 1) /\ q \in Nat /\ Tiles(S, n) = q
  <2>1. S + n - 1 \in Nat
    OBVIOUS
  <2> HIDE DEF q, r
  <2> QED BY <2>1, Quotient, Zenon DEF Tiles, q, r
<1> HIDE DEF q, r
<1>2. q = 0 \/ q = 1 \/ q = 2
  BY <1>1
<1>3. n * 0 = 0 /\ n * 1 = n /\ n * 2 = n + n /\ 0 * n = 0 /\ 1 * n = n /\ 2 * n = n + n
  OBVIOUS
<1>4. (q = 1 /\ S <= n) \/ (q = 2 /\ S > n /\ S <= n + n)
  <2>1. q = 0 => n * q = 0
    BY <1>3
  <2>2. q = 1 => n * q = n
    BY <1>3
  <2>3. q = 2 => n * q = n + n
    BY <1>3
  <2>4. S + n - 1 = n * q + r /\ r \in 0..(n - 1)
    BY <1>1
  <2> QED BY <1>2, <2>1, <2>2, <2>3, <2>4
<1>5. Min({n, S}) = IF n <= S THEN n ELSE S
  BY MaxOfTwo
<1>6. BlockOf(0, n, S) = IF S <= n THEN 0..(S - 1) ELSE 0..(n - 1)
  <2>1. 0 + 1 = 1
    OBVIOUS
  <2>2. BlockOf(0, n, S) = 0..(Min({n, S}) - 1)
    BY <1>3, <2>1, Zenon DEF BlockOf
  <2> QED BY <1>5, <2>2
<1>7. q = 2 => BlockOf(1, n, S) = n..(S - 1)
  <2>1. 1 + 1 = 2
    OBVIOUS
  <2>2. BlockOf(1, n, S) = n..(Min({n + n, S}) - 1)
    BY <1>3, <2>1, Zenon DEF BlockOf
  <2>3. n + n \in Int /\ S \in Int
    OBVIOUS
  <2>4. Min({n + n, S}) = IF n + n <= S THEN n + n ELSE S
    BY <2>3, MaxOfTwo
  <2> QED BY <1>3, <1>4, <2>2, <2>4
<1> QED BY <1>1, <1>4, <1>6, <1>7

(* The rows of the code's loop exist when there are at most two tiles.       *)
LEMMA FlashOfTwo ==
  ASSUME NEW sc, NEW i, NEW S \in Nat \ {0}, NEW n \in Nat \ {0}
  PROVE  LET one == FlashTile(Blank(sc), BlockOf(0, n, S) \cap 0..i, sc)
             two == FlashTile(one, BlockOf(1, n, S) \cap 0..i, sc)
         IN  /\ Tiles(S, n) = 1 => Flash(sc, i, S, n) = one.acc
             /\ Tiles(S, n) = 2 => Flash(sc, i, S, n) = two.acc
<1> DEFINE one == FlashTile(Blank(sc), BlockOf(0, n, S) \cap 0..i, sc)
           two == FlashTile(one, BlockOf(1, n, S) \cap 0..i, sc)
           m == Tiles(S, n)
           row == [t \in 0..m |-> IF t = 0 THEN Blank(sc) ELSE IF t = 1 THEN one ELSE two]
<1>1. SUFFICES ASSUME m = 1 \/ m = 2
               PROVE  Flash(sc, i, S, n) = IF m = 1 THEN one.acc ELSE two.acc
  OBVIOUS
<1>2. FlashRows(row, sc, i, S, n)
  <2>1. ASSUME NEW t \in 0..m
        PROVE  row[t] = IF t = 0 THEN Blank(sc)
                        ELSE FlashTile(row[t - 1], BlockOf(t - 1, n, S) \cap 0..i, sc)
    <3>1. t = 0 \/ t = 1 \/ t = 2
      BY <1>1
    <3>2. CASE t = 0
      BY <3>2
    <3>3. CASE t = 1
      <4>1. t - 1 = 0 /\ 0 \in 0..m
        BY <1>1, <3>3
      <4>2. row[t - 1] = Blank(sc) /\ row[t] = one
        BY <3>3, <4>1
      <4> HIDE DEF row
      <4> QED BY <3>3, <4>1, <4>2
    <3>4. CASE t = 2
      <4>1. t - 1 = 1 /\ 1 \in 0..m
        BY <1>1, <3>4
      <4>2. row[t - 1] = one /\ row[t] = two
        BY <3>4, <4>1
      <4> HIDE DEF row, one
      <4> QED BY <3>4, <4>1, <4>2
    <3> QED BY <3>1, <3>2, <3>3, <3>4
  <2>2. row = [t \in 0..m |-> row[t]]
    OBVIOUS
  <2> HIDE DEF row
  <2>3. row = [t \in 0..m |-> IF t = 0 THEN Blank(sc)
                              ELSE FlashTile(row[t - 1], BlockOf(t - 1, n, S) \cap 0..i, sc)]
    BY <2>1, <2>2, Zenon
  <2> QED BY <2>3, Zenon DEF FlashRows
<1> DEFINE r == CHOOSE r : FlashRows(r, sc, i, S, n)
<1>3. FlashRows(r, sc, i, S, n)
  BY <1>2, Zenon
<1>4. Flash(sc, i, S, n) = r[m].acc
  BY FlashIs, Zenon
<1> HIDE DEF r, row
<1>5. r[0] = Blank(sc) /\ r[1] = FlashTile(r[0], BlockOf(0, n, S) \cap 0..i, sc)
  <2>1. 0 \in 0..m /\ 1 \in 0..m /\ 1 - 1 = 0 /\ 1 # 0
    BY <1>1
  <2> HIDE DEF m
  <2> QED BY <1>3, <2>1, Zenon DEF FlashRows, m
<1>6. m = 2 => r[2] = FlashTile(r[1], BlockOf(1, n, S) \cap 0..i, sc)
  <2> HAVE m = 2
  <2>1. 2 \in 0..m /\ 2 - 1 = 1 /\ 2 # 0
    OBVIOUS
  <2> HIDE DEF m
  <2> QED BY <1>3, <2>1, Zenon DEF FlashRows, m
<1> QED BY <1>1, <1>4, <1>5, <1>6, Zenon

(* Flash attention over at most two tiles of keys, of any size, gives every  *)
(* key its softmax weight, whatever the (positive) weights are               *)
(* (flash_attention.hpp).                                                    *)
THEOREM FlashAtAnySize ==
  ASSUME NEW S \in Nat \ {0}, NEW i \in 0..(S - 1), NEW n \in Nat \ {0}, Tiles(S, n) <= 2,
         NEW sc, DOMAIN sc = 0..(S - 1), \A j \in 0..i : Exp(sc[j]) \in Nat \ {0}
  PROVE  SameWeights(Flash(sc, i, S, n), Normalised(0..i, sc))
<1> DEFINE first == BlockOf(0, n, S) \cap 0..i
           second == BlockOf(1, n, S) \cap 0..i
           one == FlashTile(Blank(sc), first, sc)
           two == FlashTile(one, second, sc)
           v == Mass(first, sc)
           w == Mass(second, sc)
           full == Mass(0..i, sc)
<1>0. i \in Nat /\ 0..i \subseteq DOMAIN sc /\ IsFiniteSet(0..i)
  <2>1. i \in Int /\ i \in Nat /\ 0..i \subseteq DOMAIN sc
    OBVIOUS
  <2>2. IsFiniteSet(0..i)
    BY <2>1, FS_Interval
  <2> QED BY <2>1, <2>2
<1>1. /\ Tiles(S, n) = 1 => first = 0..i
      /\ Tiles(S, n) = 2 => 0..i = first \cup second /\ first \cap second = {}
      /\ Tiles(S, n) = 1 \/ Tiles(S, n) = 2
      /\ 0 \in first
  <2> DEFINE left == BlockOf(0, n, S)
             right == BlockOf(1, n, S)
             t == Tiles(S, n)
  <2>1. /\ left = IF S <= n THEN 0..(S - 1) ELSE 0..(n - 1)
        /\ \/ t = 1 /\ S <= n
           \/ t = 2 /\ S > n /\ right = n..(S - 1)
    BY TwoTiles, Zenon
  <2>2. first = left \cap 0..i /\ second = right \cap 0..i
    BY Zenon
  <2> HIDE DEF left, right, t, first, second
  <2>3. CASE t = 1 /\ S <= n
    BY <2>1, <2>2, <2>3 DEF t
  <2>4. CASE t = 2 /\ S > n /\ right = n..(S - 1)
    BY <2>1, <2>2, <2>4 DEF t
  <2> QED BY <2>1, <2>3, <2>4, Zenon
<1>2. first \subseteq 0..i /\ second \subseteq 0..i /\ IsFiniteSet(first) /\ IsFiniteSet(second)
  BY <1>0, FS_Subset
<1>3. /\ v \in Nat \ {0} /\ w \in Nat /\ full \in Nat \ {0}
      /\ Tiles(S, n) = 2 => full = v + w
      /\ Tiles(S, n) = 1 => full = v
  <2> HIDE DEF first, second
  <2>1. v \in Nat \ {0}
    BY <1>1, <1>2, MassIs
  <2>2. w \in Nat
    BY <1>2, MassIs
  <2>3. full \in Nat \ {0}
    BY <1>0, <1>1, <1>2, MassIs
  <2>4. Tiles(S, n) = 2 => full = v + w
    BY <1>0, <1>1, MassIs
  <2> QED BY <1>1, <2>1, <2>2, <2>3, <2>4
<1>4. /\ Tiles(S, n) = 1 => Flash(sc, i, S, n) = one.acc
      /\ Tiles(S, n) = 2 => Flash(sc, i, S, n) = two.acc
  BY FlashOfTwo
<1> HIDE DEF first, second, v, w, full
<1>5. /\ one.l = v
      /\ one.acc = [j \in DOMAIN sc |-> IF j \in first THEN Frac(Exp(sc[j]), v) ELSE Frac(0, v)]
  <2>1. 0 + v = v /\ v # 0 /\ 0 * 0 = 0 /\ 1 * v = v
    BY <1>3
  <2>2. one.l = v
    BY Zenon DEF FlashTile, FlashMass, v
  <2>3. one.acc = [j \in DOMAIN sc |->
                     IF Blank(sc).l + v = 0 THEN NoWeight
                     ELSE IF j \in first THEN Frac(Exp(sc[j]), Blank(sc).l + v)
                     ELSE Frac(Blank(sc).acc[j].num * Blank(sc).l,
                               Blank(sc).acc[j].den * (Blank(sc).l + v))]
    BY Zenon DEF FlashTile, v
  <2>4. Blank(sc).l = 0 /\ \A j \in DOMAIN sc : Blank(sc).acc[j].num = 0 /\ Blank(sc).acc[j].den = 1
    BY DEF Blank, NoWeight, Frac
  <2> QED BY <2>1, <2>2, <2>3, <2>4
<1>6. two.acc = [j \in DOMAIN sc |->
                   IF v + w = 0 THEN NoWeight
                   ELSE IF j \in second THEN Frac(Exp(sc[j]), v + w)
                   ELSE Frac(one.acc[j].num * v, one.acc[j].den * (v + w))]
  <2> HIDE DEF one
  <2>1. one.l = v
    BY <1>5
  <2>2. two.acc = [j \in DOMAIN sc |->
                     IF one.l + w = 0 THEN NoWeight
                     ELSE IF j \in second THEN Frac(Exp(sc[j]), one.l + w)
                     ELSE Frac(one.acc[j].num * one.l, one.acc[j].den * (one.l + w))]
    BY Zenon DEF FlashTile, w
  <2> QED BY <2>1, <2>2
<1> HIDE DEF one, two
<1> DEFINE soft == Normalised(0..i, sc)
<1>7. \A j \in DOMAIN sc : soft[j] = IF j \in 0..i THEN Frac(Exp(sc[j]), full) ELSE NoWeight
  BY DEF Normalised, full
<1> HIDE DEF soft
<1>8. CASE Tiles(S, n) = 1
  <2> SUFFICES ASSUME NEW j \in DOMAIN sc
               PROVE  one.acc[j].num * soft[j].den = soft[j].num * one.acc[j].den
    BY <1>4, <1>5, <1>8 DEF SameWeights, soft
  <2>1. CASE j \in 0..i
    BY <1>1, <1>3, <1>5, <1>7, <1>8, <2>1 DEF Frac
  <2>2. CASE j \notin 0..i
    <3>1. one.acc[j] = Frac(0, v) /\ soft[j] = Frac(0, 1)
      BY <1>1, <1>5, <1>7, <1>8, <2>2 DEF NoWeight
    <3>2. 0 * 1 = 0 * v
      BY <1>3
    <3> QED BY <3>1, <3>2 DEF Frac
  <2> QED BY <2>1, <2>2
<1>9. CASE Tiles(S, n) = 2
  <2> SUFFICES ASSUME NEW j \in DOMAIN sc
               PROVE  two.acc[j].num * soft[j].den = soft[j].num * two.acc[j].den
    BY <1>4, <1>6, <1>9 DEF SameWeights, soft
  <2>1. v + w # 0 /\ v + w = full
    BY <1>3, <1>9
  <2>2. CASE j \in first
    <3>1. j \in 0..i /\ j \notin second
      BY <1>1, <1>9, <2>2
    <3>2. two.acc[j] = Frac(Exp(sc[j]) * v, v * full)
      BY <1>5, <1>6, <2>1, <2>2, <3>1 DEF Frac
    <3>3. soft[j] = Frac(Exp(sc[j]), full)
      BY <1>7, <3>1
    <3>4. Exp(sc[j]) \in Nat
      BY <3>1
    <3> DEFINE e == Exp(sc[j])
    <3> HIDE DEF e
    <3>5. (e * v) * full = e * (v * full)
      BY <1>3, <3>4 DEF e
    <3> QED BY <3>2, <3>3, <3>5 DEF Frac, e
  <2>3. CASE j \in second
    <3>1. two.acc[j] = Frac(Exp(sc[j]), full)
      BY <1>6, <2>1, <2>3
    <3>2. soft[j] = Frac(Exp(sc[j]), full)
      BY <1>2, <1>7, <2>3
    <3> QED BY <3>1, <3>2 DEF Frac
  <2>4. CASE j \notin first /\ j \notin second
    <3>1. j \notin 0..i
      BY <1>1, <1>9, <2>4
    <3>2. two.acc[j] = Frac(0 * v, v * full)
      BY <1>5, <1>6, <2>1, <2>4 DEF Frac
    <3>3. soft[j] = Frac(0, 1)
      BY <1>7, <3>1 DEF NoWeight
    <3>4. (0 * v) * 1 = 0 * (v * full)
      BY <1>3
    <3> QED BY <3>2, <3>3, <3>4 DEF Frac
  <2> QED BY <2>2, <2>3, <2>4
<1> QED BY <1>1, <1>8, <1>9

(* The weights of the scores of the run.                                     *)
LEMMA SmallExp == ASSUME NEW s \in 0..2 PROVE Exp(s) \in Nat \ {0}
<1>1. s = 0 \/ s = 1 \/ s = 2
  OBVIOUS
<1>2. 2^0 = 1 /\ 2^1 = 2 /\ 2^2 = 4
  OBVIOUS
<1>3. Exp(0) = 1 /\ Exp(1) = 2 /\ Exp(2) = 4
  BY <1>2 DEF Exp
<1> QED BY <1>1, <1>3

(* In the run: flash attention over at most two tiles is the softmax, for    *)
(* every bound on the length of the sequence and every length of a tile.     *)
THEOREM FlashGivesSoftmax == AlgorithmsSpec => []FlashIsSoftmax
<1>1. AnyInput => FlashIsSoftmax
  <2> SUFFICES ASSUME AnyInput, input.kind = "attention" PROVE FlashIsSoftmax
    BY DEF FlashIsSoftmax
  <2> DEFINE sc == input.sc
             i == input.i
  <2>1. PICK n \in 1..MaxS : i \in 0..(n - 1) /\ sc \in [0..(n - 1) -> 0..2]
    BY AttentionInput
  <2>2. n \in Nat \ {0} /\ DOMAIN sc = 0..(n - 1) /\ Cardinality(DOMAIN sc) = n
    <3>1. n \in Nat \ {0}
      BY AlgorithmsAssumption
    <3>2. DOMAIN sc = 0..(n - 1)
      BY <2>1
    <3>3. Cardinality(0..(n - 1)) = n
      BY <3>1, FS_Interval
    <3> QED BY <3>1, <3>2, <3>3
  <2>3. \A j \in 0..i : sc[j] \in 0..2
    BY <2>1, <2>2
  <2>4. \A j \in 0..i : Exp(sc[j]) \in Nat \ {0}
    BY <2>3, SmallExp
  <2> HIDE DEF sc, i
  <2>5. Tiles(n, Bc) <= 2 => SameWeights(Flash(sc, i, n, Bc), Normalised(0..i, sc))
    BY <2>1, <2>2, <2>4, AlgorithmsAssumption, FlashAtAnySize
  <2> QED BY <2>2, <2>5 DEF FlashIsSoftmax, sc, i
<1>2. AnyInput /\ UNCHANGED input => AnyInput'
  BY DEF AnyInput
<1> QED BY <1>1, <1>2, PTL DEF AlgorithmsSpec, SameInput
-----------------------------------------------------------------------------
(* A prefix of the keys, read as all of them.                                *)
LEMMA CrossIs ==
  ASSUME NEW sc, NEW i, 0..i \subseteq DOMAIN sc
  PROVE  SameWeights(Cross([j \in 0..i |-> sc[j]]), Normalised(0..i, sc))
<1> DEFINE cut == [j \in 0..i |-> sc[j]]
<1>1. DOMAIN cut = 0..i /\ \A j \in 0..i : cut[j] = sc[j]
  OBVIOUS
<1> HIDE DEF cut
<1>2. Mass(0..i, cut) = Mass(0..i, sc)
  BY <1>1, MassLocal
<1>3. DOMAIN Cross(cut) = 0..i
  BY <1>1, Zenon DEF Cross, Normalised
<1>4. ASSUME NEW j \in 0..i PROVE Cross(cut)[j] = Normalised(0..i, sc)[j]
  <2>1. j \in DOMAIN cut /\ j \in DOMAIN sc
    BY <1>1
  <2>2. Cross(cut)[j] = Frac(Exp(cut[j]), Mass(0..i, cut))
    BY <1>1, <2>1, Zenon DEF Cross, Normalised
  <2>3. Normalised(0..i, sc)[j] = Frac(Exp(sc[j]), Mass(0..i, sc))
    BY <2>1, Zenon DEF Normalised
  <2> QED BY <1>1, <1>2, <2>2, <2>3, Zenon
<1> HIDE DEF cut
<1>5. SameWeights(Cross(cut), Normalised(0..i, sc))
  <2> DEFINE u == Cross(cut)
             v == Normalised(0..i, sc)
  <2>1. DOMAIN u = 0..i /\ \A j \in 0..i : u[j] = v[j]
    BY <1>3, <1>4
  <2> HIDE DEF u, v
  <2>2. \A j \in DOMAIN u : u[j].num * v[j].den = v[j].num * u[j].den
    BY <2>1
  <2>3. SameWeights(u, v)
    BY <2>2, Zenon DEF SameWeights
  <2> QED BY <2>3 DEF u, v
<1> QED BY <1>5 DEF cut

(* One group of heads, and as many groups as heads.                          *)
LEMMA OneGroup ==
  ASSUME NEW H \in Nat, NEW q, DOMAIN q = 0..(H - 1), NEW k, NEW i
  PROVE  GroupedQuery(q, k, H, 1, i) = MultiQuery(q, k, i)
<1>1. QPerKv(H, 1) = H /\ 1 * H = H
  BY DEF QPerKv
<1>2. ASSUME NEW h \in 0..(H - 1) PROVE h < H /\ h \div H = 0
  OBVIOUS
<1>3. GroupedQuery(q, k, H, 1, i)
        = [h \in 0..(H - 1) |-> IF h < H THEN RunningSum(0..i, Scores(q[h], k[h \div H]))
                                ELSE [j \in DOMAIN k[0] |-> NoWeight]]
  BY <1>1, Zenon DEF GroupedQuery
<1>4. MultiQuery(q, k, i) = [h \in 0..(H - 1) |-> RunningSum(0..i, Scores(q[h], k[0]))]
  BY Zenon DEF MultiQuery
<1> QED BY <1>2, <1>3, <1>4, Zenon

OwnKeys(q, k, H, i) ==
  \A h \in 0..(H - 1) :
    GroupedQuery(q, k, H, H, i)[h] = MultiQuery(q, [g \in 0..0 |-> k[h]], i)[h]

LEMMA OwnGroups ==
  ASSUME NEW H \in Nat, NEW q, DOMAIN q = 0..(H - 1), NEW k, NEW i
  PROVE  OwnKeys(q, k, H, i)
<1> SUFFICES ASSUME NEW h \in 0..(H - 1)
             PROVE  GroupedQuery(q, k, H, H, i)[h] = MultiQuery(q, [g \in 0..0 |-> k[h]], i)[h]
  BY DEF OwnKeys
<1>1. QPerKv(H, H) = 1 /\ H * 1 = H /\ h \div 1 = h /\ h < H
  BY DEF QPerKv
<1>2. GroupedQuery(q, k, H, H, i)[h] = RunningSum(0..i, Scores(q[h], k[h]))
  BY <1>1, Zenon DEF GroupedQuery
<1>3. 0 \in 0..0
  OBVIOUS
<1>4. MultiQuery(q, [g \in 0..0 |-> k[h]], i)[h] = RunningSum(0..i, Scores(q[h], k[h]))
  BY <1>3, Zenon DEF MultiQuery
<1> QED BY <1>2, <1>4

(* The weights of linear attention sum to their common denominator, for any  *)
(* finite sets of keys and of dimensions.                                    *)
LEMMA LinearIs ==
  ASSUME NEW query, NEW keys, IsFiniteSet(DOMAIN query), IsFiniteSet(DOMAIN keys),
         \A d \in DOMAIN query : Phi(query[d]) \in Int,
         \A j \in DOMAIN keys, d \in DOMAIN query : Phi(keys[j][d]) \in Int
  PROVE  LET phi == Linear(query, keys)
         IN  /\ DOMAIN phi = DOMAIN keys
             /\ \A j \in DOMAIN keys :
                  phi[j].den = SumFunction([k \in DOMAIN keys |-> phi[k].num])
<1> DEFINE J == DOMAIN keys
           D == DOMAIN query
           w == [j \in J |-> [d \in D |-> Phi(keys[j][d])]]
           p == [d \in D |-> Phi(query[d])]
           Row(j) == [d \in D |-> p[d] * w[j][d]]
           Column(d) == [j \in J |-> w[j][d]]
           num == [j \in J |-> Sum(Row(j), D)]
           den == [d \in D |-> p[d] * Sum(Column(d), J)]
           phi == Linear(query, keys)
<1>1. \A d \in D : p[d] = Phi(query[d]) /\ p[d] \in Int
  OBVIOUS
<1>2. \A j \in J, d \in D : w[j][d] = Phi(keys[j][d]) /\ w[j][d] \in Int
  OBVIOUS
<1> HIDE DEF J, D
<1>3. \A d \in D : SumFunction([j \in J |-> Phi(keys[j][d])]) = Sum(Column(d), J)
  <2> SUFFICES ASSUME NEW d \in D
               PROVE  SumFunction([j \in J |-> Phi(keys[j][d])]) = Sum(Column(d), J)
    OBVIOUS
  <2>1. [j \in J |-> Phi(keys[j][d])] = Column(d)
    BY <1>2
  <2>2. DOMAIN Column(d) = J
    OBVIOUS
  <2> HIDE DEF Column
  <2> QED BY <2>1, <2>2, SumFunctionIs, Zenon
<1>4. ASSUME NEW j \in J
      PROVE  SumFunction([d \in D |-> Phi(query[d]) * [e \in D |-> Phi(keys[j][e])][d]])
               = Sum(Row(j), D)
  <2>1. [d \in D |-> Phi(query[d]) * [e \in D |-> Phi(keys[j][e])][d]] = Row(j)
    BY <1>1, <1>2
  <2>2. DOMAIN Row(j) = D
    OBVIOUS
  <2> HIDE DEF Row
  <2> QED BY <2>1, <2>2, SumFunctionIs, Zenon
<1>5. SumFunction([d \in D |-> Phi(query[d])
                     * [e \in D |-> SumFunction([j \in J |-> Phi(keys[j][e])])][d]])
        = Sum(den, D)
  <2>1. [d \in D |-> Phi(query[d])
                     * [e \in D |-> SumFunction([j \in J |-> Phi(keys[j][e])])][d]] = den
    <3> HIDE DEF Column, p
    <3> QED BY <1>1, <1>3
  <2>2. DOMAIN den = D
    OBVIOUS
  <2> HIDE DEF den
  <2> QED BY <2>1, <2>2, SumFunctionIs, Zenon
<1>6. phi = [j \in J |->
               Frac(SumFunction([d \in D |-> Phi(query[d]) * [e \in D |-> Phi(keys[j][e])][d]]),
                    SumFunction([d \in D |-> Phi(query[d])
                     * [e \in D |-> SumFunction([k \in J |-> Phi(keys[k][e])])][d]]))]
  BY Zenon DEF Linear, J, D
<1> HIDE DEF w, p, Row, Column, phi
<1>7. DOMAIN phi = J /\ \A j \in J : phi[j].num = Sum(Row(j), D) /\ phi[j].den = Sum(den, D)
  <2>1. phi = [j \in J |-> Frac(Sum(Row(j), D), Sum(den, D))]
    BY <1>4, <1>5, <1>6, Zenon
  <2> HIDE DEF den
  <2> QED BY <2>1 DEF Frac
<1>8. SumFunction([k \in J |-> phi[k].num]) = Sum(num, J)
  <2>1. [k \in J |-> phi[k].num] = num
    BY <1>7
  <2>2. DOMAIN num = J
    OBVIOUS
  <2> HIDE DEF num
  <2> QED BY <2>1, <2>2, SumFunctionIs, Zenon
<1>9. Sum(num, J) = Sum(den, D)
  <2>1. IsFiniteSet(J) /\ IsFiniteSet(D)
    BY DEF J, D
  <2>2. RowsFirst(J, D, p, w) = ColumnsFirst(J, D, p, w)
    <3>1. \A d \in D : p[d] \in Int
      BY <1>1
    <3>2. \A j \in J, d \in D : w[j][d] \in Int
      BY <1>2
    <3> QED BY <2>1, <3>1, <3>2, SumsSwapped, Zenon
  <2> QED BY <2>2, Zenon DEF RowsFirst, ColumnsFirst, num, den, Row, Column
<1> QED BY <1>7, <1>8, <1>9, Zenon DEF phi, J

(* VariantsAgree for any row of scores and any numbers of heads and windows. *)
Agree(sc, i) ==
  /\ \A w \in Nat : w >= i => SlidingWindow(sc, i, w) = Normalised(0..i, sc)
  /\ Dilated(sc, i, 1) = Normalised(0..i, sc)
  /\ SameWeights(Cross([j \in 0..i |-> sc[j]]), Normalised(0..i, sc))
  /\ RunningSum(0..i, sc)[i] = Normalised(0..i, sc)[i]

(* The variants of attention agree with one another where their parameters   *)
(* make them one function, for every row of scores (attention_variants.hpp). *)
THEOREM AgreeAtAnySize ==
  ASSUME NEW i \in Nat, NEW sc, 0..i \subseteq DOMAIN sc
  PROVE  Agree(sc, i)
<1>1. ASSUME NEW w \in Nat, w >= i
      PROVE  SlidingWindow(sc, i, w) = Normalised(0..i, sc)
  <2>1. 0 \in Int /\ i - w \in Int /\ i - w <= 0
    BY <1>1
  <2>2. Max({0, i - w}) = IF 0 >= i - w THEN 0 ELSE i - w
    BY <2>1, MaxOfTwo
  <2>3. SlidingKeys(i, w) = 0..i
    BY <2>1, <2>2 DEF SlidingKeys
  <2> QED BY <2>3, Zenon DEF SlidingWindow
<1>2. Dilated(sc, i, 1) = Normalised(0..i, sc)
  <2>1. \A j \in 0..i : j % 1 = 0
    OBVIOUS
  <2>2. i \in 0..i
    OBVIOUS
  <2>3. DilatedKeys(i, 1) = 0..i
    BY <2>1, <2>2 DEF DilatedKeys
  <2> QED BY <2>3, Zenon DEF Dilated
<1>3. SameWeights(Cross([j \in 0..i |-> sc[j]]), Normalised(0..i, sc))
  BY CrossIs
<1>4. RunningSum(0..i, sc)[i] = Normalised(0..i, sc)[i]
  <2>1. {k \in 0..i : k <= i} = 0..i /\ i \in 0..i /\ i \in DOMAIN sc
    OBVIOUS
  <2> QED BY <2>1, Zenon DEF RunningSum, Normalised
<1> QED BY <1>1, <1>2, <1>3, <1>4 DEF Agree

LEMMA SmallPhi == ASSUME NEW x \in -1..3 PROVE Phi(x) \in Int
<1>1. x = -1 \/ x = 0 \/ x > 0
  OBVIOUS
<1>2. 2^0 = 1 /\ 2^1 = 2
  OBVIOUS
<1>3. -1 + 1 = 0 /\ 0 + 1 = 1 /\ ~(-1 > 0) /\ ~(0 > 0)
  OBVIOUS
<1>4. Phi(-1) = 1 /\ Phi(0) = 2
  BY <1>2, <1>3 DEF Phi
<1>5. x > 0 => Phi(x) = 2 * (x + 1)
  BY DEF Phi
<1> QED BY <1>1, <1>4, <1>5

(* In the run: sliding window, dilated, cross, grouped and cached attention  *)
(* are one function where their parameters make them so, and the weights of  *)
(* linear attention sum to 1, for every bound on the length of the sequence. *)
THEOREM OneFunction == AlgorithmsSpec => []VariantsAgree
<1>1. AnyInput => VariantsAgree
  <2> SUFFICES ASSUME AnyInput, input.kind = "attention" PROVE VariantsAgree
    BY DEF VariantsAgree
  <2> DEFINE sc == input.sc
             i == input.i
             full == Normalised(0 .. i, sc)
             q == [h \in 0 .. 2 |-> input.q[h + 1]]
             one == [g \in 0 .. 0 |-> sc]
             own == [g \in 0 .. 2 |-> [j \in DOMAIN sc |-> sc[j] * (g + 1)]]
             query == [d \in 0 .. 1 |-> input.q[d + 1] - 1]
             keys == [j \in DOMAIN sc |-> [d \in 0 .. 1 |-> sc[j] - d]]
             phi == Linear(query, keys)
  <2>1. PICK n \in 1..MaxS : /\ i \in 0..(n - 1) /\ sc \in [0..(n - 1) -> 0..2]
                             /\ input.q \in {<<1, 0, 2>>, <<2, 1, 1>>}
    BY AttentionInput
  <2>2. i \in Nat /\ 0..i \subseteq DOMAIN sc /\ n \in Nat /\ DOMAIN sc = 0..(n - 1)
    BY <2>1
  <2>3. IsFiniteSet(DOMAIN sc) /\ IsFiniteSet(0..1)
    <3>1. 0 \in Int /\ n - 1 \in Int /\ 1 \in Int
      BY <2>2
    <3> QED BY <2>2, <3>1, FS_Interval
  <2>4. 3 \in Nat /\ 0..2 = 0..(3 - 1) /\ DOMAIN q = 0..(3 - 1)
    OBVIOUS
  <2>5. \A d \in 0..1 : d = 0 \/ d = 1
    OBVIOUS
  <2>6. \A d \in DOMAIN query : Phi(query[d]) \in Int
    <3>1. input.q[1] - 1 \in -1..3 /\ input.q[2] - 1 \in -1..3
      BY <2>1
    <3>2. DOMAIN query = 0..1 /\ \A d \in 0..1 : query[d] = input.q[d + 1] - 1
      OBVIOUS
    <3>3. 0 + 1 = 1 /\ 1 + 1 = 2
      OBVIOUS
    <3>4. \A d \in 0..1 : query[d] \in -1..3
      BY <2>5, <3>1, <3>2, <3>3
    <3> HIDE DEF query
    <3> QED BY <3>2, <3>4, SmallPhi
  <2>7. \A j \in DOMAIN keys, d \in DOMAIN query : Phi(keys[j][d]) \in Int
    <3>1. \A j \in DOMAIN sc, d \in 0..1 : sc[j] - d \in -1..3
      <4>1. \A j \in DOMAIN sc : sc[j] \in 0..2
        BY <2>1
      <4> QED BY <2>5, <4>1
    <3>2. \A j \in DOMAIN sc, d \in 0..1 : keys[j][d] = sc[j] - d
      OBVIOUS
    <3>3. DOMAIN keys = DOMAIN sc /\ DOMAIN query = 0..1
      OBVIOUS
    <3> HIDE DEF keys, query
    <3> QED BY <3>1, <3>2, <3>3, SmallPhi
  <2>8. DOMAIN query = 0..1 /\ DOMAIN keys = DOMAIN sc
    OBVIOUS
  <2> HIDE DEF sc, i, q, one, own, query, keys
  <2>9. Agree(sc, i)
    BY <2>2, AgreeAtAnySize
  <2>10. \A w \in i .. i + 1 : SameWeights(SlidingWindow(sc, i, w), full)
    <3>1. \A w \in i .. i + 1 : w \in Nat /\ w >= i
      BY <2>2
    <3>2. \A w \in i .. i + 1 : SlidingWindow(sc, i, w) = full
      BY <2>9, <3>1, Zenon DEF Agree
    <3> QED BY <3>2, SameIsSame, Zenon
  <2>11. SameWeights(Dilated(sc, i, 1), full)
    BY <2>9, SameIsSame, Zenon DEF Agree
  <2>12. SameWeights(Cross([j \in 0 .. i |-> sc[j]]), full)
    BY <2>9, Zenon DEF Agree
  <2>13. GroupedQuery(q, one, 3, 1, i) = MultiQuery(q, one, i)
    <3>1. 3 \in Nat /\ DOMAIN q = 0..(3 - 1)
      BY <2>4
    <3> QED BY <3>1, OneGroup, Zenon
  <2>14. \A h \in 0 .. 2 : GroupedQuery(q, own, 3, 3, i)[h]
                    = MultiQuery(q, [g \in 0 .. 0 |-> own[h]], i)[h]
    <3>1. OwnKeys(q, own, 3, i)
      BY <2>4, OwnGroups, Zenon
    <3>2. 3 - 1 = 2
      OBVIOUS
    <3> QED BY <3>1, <3>2, Zenon DEF OwnKeys
  <2>15. RunningSum(0 .. i, sc)[i] = full[i]
    BY <2>9, Zenon DEF Agree
  <2>16. /\ DOMAIN phi = DOMAIN keys
         /\ \A j \in DOMAIN keys :
              phi[j].den = SumFunction([k \in DOMAIN keys |-> phi[k].num])
    BY <2>3, <2>6, <2>7, <2>8, LinearIs
  <2> HIDE DEF phi
  <2>17. \A j \in DOMAIN phi :
           phi[j].den = SumFunction([k \in DOMAIN phi |-> phi[k].num])
    BY <2>16, Zenon
  <2> QED BY <2>10, <2>11, <2>12, <2>13, <2>14, <2>15, <2>17, Zenon
          DEF VariantsAgree, sc, i, q, one, own, phi, query, keys
<1>2. AnyInput /\ UNCHANGED input => AnyInput'
  BY DEF AnyInput
<1> QED BY <1>1, <1>2, PTL DEF AlgorithmsSpec, SameInput
-----------------------------------------------------------------------------
(* The largest of finitely many integers.                                    *)
LEMMA LargestIs ==
  ASSUME NEW S, IsFiniteSet(S), S # {}, S \subseteq Int
  PROVE  Max(S) \in S /\ \A y \in S : Max(S) >= y
<1> DEFINE Has(s) == s = {} \/ \E m \in s : \A y \in s : m >= y
           T == {s \in SUBSET S : Has(s)}
<1>1. {} \in T
  OBVIOUS
<1>2. ASSUME NEW s \in SUBSET S, NEW a \in S, s \in T, a \notin s PROVE s \cup {a} \in T
  <2>1. CASE s = {}
    <3>1. a \in Int /\ s \cup {a} = {a}
      BY <2>1
    <3> QED BY <3>1
  <2>2. CASE s # {}
    <3>1. PICK m \in s : \A y \in s : m >= y
      BY <1>2, <2>2
    <3>2. s \cup {a} \subseteq Int /\ m \in Int /\ a \in Int
      OBVIOUS
    <3>3. CASE m >= a
      <4>1. m \in s \cup {a} /\ \A y \in s \cup {a} : m >= y
        BY <3>1, <3>3
      <4> QED BY <4>1
    <3>4. CASE ~(m >= a)
      <4>1. a \in s \cup {a} /\ \A y \in s \cup {a} : a >= y
        BY <3>1, <3>2, <3>4
      <4> QED BY <4>1
    <3> QED BY <3>3, <3>4
  <2> QED BY <2>1, <2>2
<1> HIDE DEF T
<1>3. S \in T
  BY <1>1, <1>2, FiniteInduction
<1>4. \E m \in S : \A y \in S : m >= y
  BY <1>3 DEF T
<1> QED BY <1>4, Zenon DEF Max

LEMMA LargestOfOne == ASSUME NEW a \in Int PROVE Max({a}) = a
<1>1. IsFiniteSet({a})
  BY FS_Singleton
<1> QED BY <1>1, LargestIs

(* Rounding to the nearest and towards zero, for a quotient of at most L.    *)
LEMMA DivisionIs ==
  ASSUME NEW a \in Int, NEW b \in Nat, NEW L \in Nat, Abs(a) <= L * b
  PROVE  /\ RoundDiv(a, b) \in Int /\ Abs(RoundDiv(a, b)) <= L
         /\ 2 * Abs(RoundDiv(a, b) * b - a) <= b
         /\ TruncDiv(a, b) \in Int /\ Abs(TruncDiv(a, b)) <= L
         /\ 1 * Abs(TruncDiv(a, b) * b - a) <= b
<1>1. CASE b = 0
  <2>1. RoundDiv(a, b) = 0 /\ TruncDiv(a, b) = 0
    BY <1>1 DEF RoundDiv, TruncDiv
  <2>2. L * 0 = 0
    OBVIOUS
  <2>3. a = 0 /\ Abs(0) = 0 /\ 0 * 0 - 0 = 0
    BY <1>1, <2>2 DEF Abs
  <2> QED BY <1>1, <2>1, <2>3
<1>2. CASE b # 0
  <2> DEFINE c == Abs(a)
             q == (2 * c + b) \div (2 * b)
             r == (2 * c + b) % (2 * b)
             t == c \div b
             u == c % b
  <2>1. c \in Nat
    BY DEF Abs
  <2>2. RoundDiv(a, b) = IF a < 0 THEN -q ELSE q
    BY <1>2, Zenon DEF RoundDiv
  <2>3. TruncDiv(a, b) = IF a < 0 THEN -t ELSE t
    BY <1>2, Zenon DEF TruncDiv
  <2>4. a = IF a < 0 THEN -c ELSE c
    BY DEF Abs
  <2> HIDE DEF c
  <2>5. 2 * c + b = (2 * b) * q + r /\ r \in 0..(2 * b - 1) /\ q \in Nat
    <3>1. 2 * c + b \in Nat /\ 2 * b \in Nat \ {0}
      BY <1>2, <2>1
    <3> QED BY <3>1, Quotient, Zenon
  <2>6. c = b * t + u /\ u \in 0..(b - 1) /\ t \in Nat
    BY <1>2, <2>1, Quotient
  <2> HIDE DEF q, r, t, u
  <2> DEFINE qb == q * b
             tb == t * b
             Lb == L * b
  <2>7. (2 * b) * q = 2 * qb /\ b * t = tb /\ qb \in Nat /\ tb \in Nat /\ Lb \in Nat
    BY <2>5, <2>6
  <2>8. (-q) * b = -qb /\ (-t) * b = -tb
    BY <2>5, <2>6
  <2>9. q > L => qb >= Lb + b
    BY <2>5, Multiples
  <2>10. t > L => tb >= Lb + b
    BY <2>6, Multiples
  <2>11. c <= Lb
    BY DEF c
  <2> HIDE DEF qb, tb, Lb
  <2>12. q <= L /\ t <= L
    BY <1>2, <2>1, <2>5, <2>6, <2>7, <2>9, <2>10, <2>11
  <2>13. Abs(RoundDiv(a, b)) = q /\ Abs(TruncDiv(a, b)) = t
    BY <2>2, <2>3, <2>5, <2>6 DEF Abs
  <2>14. RoundDiv(a, b) * b = (IF a < 0 THEN -qb ELSE qb)
    BY <2>2, <2>8 DEF qb
  <2>15. TruncDiv(a, b) * b = (IF a < 0 THEN -tb ELSE tb)
    BY <2>3, <2>8 DEF tb
  <2>16. RoundDiv(a, b) \in Int /\ TruncDiv(a, b) \in Int
    BY <2>2, <2>3, <2>5, <2>6
  <2>17. 2 * Abs(RoundDiv(a, b) * b - a) <= b
    <3>1. Abs(RoundDiv(a, b) * b - a) = Abs(qb - c)
      BY <2>1, <2>4, <2>7, <2>14 DEF Abs
    <3>2. 2 * qb - 2 * c <= b /\ 2 * c - 2 * qb <= b
      BY <2>1, <2>5, <2>7
    <3> QED BY <2>1, <2>7, <3>1, <3>2 DEF Abs
  <2>18. 1 * Abs(TruncDiv(a, b) * b - a) <= b
    <3>1. Abs(TruncDiv(a, b) * b - a) = Abs(tb - c)
      BY <2>1, <2>4, <2>7, <2>15 DEF Abs
    <3>2. tb - c <= b /\ c - tb <= b
      BY <2>1, <2>6, <2>7
    <3> QED BY <2>1, <2>7, <3>1, <3>2 DEF Abs
  <2> QED BY <2>12, <2>13, <2>16, <2>17, <2>18
<1> QED BY <1>1, <1>2

(* A vector to quantize, and its largest magnitude.                          *)
Vector(x, n) == n \in Nat \ {0} /\ x \in [0..(n - 1) -> Int]

LEMMA AbsIs == ASSUME NEW a \in Int PROVE Abs(a) \in Nat
BY DEF Abs

LEMMA Magnitudes ==
  ASSUME NEW x, NEW n, Vector(x, n), NEW S, S \subseteq DOMAIN x, S # {}
  PROVE  LET max == Max({Abs(x[i]) : i \in S})
         IN  max \in Nat /\ \A i \in S : Abs(x[i]) <= max
<1> DEFINE A == {Abs(x[i]) : i \in S}
<1>1. A # {} /\ A \subseteq Nat /\ A \subseteq Int /\ \A i \in S : Abs(x[i]) \in A
  BY AbsIs DEF Vector
<1>2. IsFiniteSet(S)
  <2>1. DOMAIN x = 0..(n - 1) /\ 0 \in Int /\ n - 1 \in Int
    BY DEF Vector
  <2>2. IsFiniteSet(0..(n - 1))
    BY <2>1, FS_Interval
  <2> QED BY <2>1, <2>2, FS_Subset
<1>3. IsFiniteSet(A)
  <2> DEFINE f == [i \in S |-> Abs(x[i])]
  <2>1. f \in Surjection(S, A)
    BY DEF Surjection
  <2> HIDE DEF f
  <2> QED BY <1>2, <2>1, FS_Surjection
<1> HIDE DEF A
<1>4. Max(A) \in A /\ \A y \in A : Max(A) >= y
  BY <1>1, <1>3, LargestIs
<1>5. Max(A) \in Nat /\ \A i \in S : Abs(x[i]) <= Max(A)
  BY <1>1, <1>4
<1> QED BY <1>5 DEF A

LEMMA Scaled ==
  ASSUME NEW v \in Int, NEW max \in Nat, Abs(v) <= max, NEW L \in Nat
  PROVE  v * L \in Int /\ Abs(v * L) <= L * max
<1> DEFINE c == Abs(v)
<1>1. c \in Nat /\ v = (IF v < 0 THEN -c ELSE c)
  BY DEF Abs
<1>2. c * L <= max * L /\ c * L \in Nat
  <2>1. c <= max
    OBVIOUS
  <2> HIDE DEF c
  <2> QED BY <1>1, <2>1, Multiples
<1> HIDE DEF c
<1>3. (-c) * L = -(c * L) /\ max * L = L * max
  BY <1>1
<1>4. v * L = (IF v < 0 THEN -(c * L) ELSE c * L)
  BY <1>1, <1>3
<1> DEFINE p == c * L
<1>5. v * L = (IF v < 0 THEN -p ELSE p) /\ p \in Nat /\ p <= L * max
  BY <1>2, <1>3, <1>4
<1> HIDE DEF p
<1>6. Abs(v * L) = p
  BY <1>5 DEF Abs
<1> QED BY <1>5, <1>6

IsClose(x, q, max, levels, gap) ==
  \A i \in DOMAIN x : /\ Abs(q[i]) <= levels
                      /\ gap * Abs(q[i] * max - x[i] * levels) <= max

(* Every element is stored within its step and within its width, for any     *)
(* number of levels and any scale that is no smaller than the magnitudes.    *)
LEMMA SymmetricClose ==
  ASSUME NEW x, NEW n, Vector(x, n), NEW max \in Nat,
         \A i \in DOMAIN x : Abs(x[i]) <= max, NEW L \in Nat
  PROVE  /\ IsClose(x, Symmetric(x, max, L), max, L, 2)
         /\ \A i \in DOMAIN x : Symmetric(x, max, L)[i] = RoundDiv(x[i] * L, max)
<1>1. \A i \in DOMAIN x : Symmetric(x, max, L)[i] = RoundDiv(x[i] * L, max)
  BY Zenon DEF Symmetric
<1>2. ASSUME NEW i \in DOMAIN x
      PROVE  /\ Abs(RoundDiv(x[i] * L, max)) <= L
             /\ 2 * Abs(RoundDiv(x[i] * L, max) * max - x[i] * L) <= max
  <2>1. x[i] \in Int
    BY DEF Vector
  <2>2. x[i] * L \in Int /\ Abs(x[i] * L) <= L * max
    BY <2>1, Scaled
  <2> QED BY <2>2, DivisionIs
<1> QED BY <1>1, <1>2, Zenon DEF IsClose

LEMMA KvClose ==
  ASSUME NEW x, NEW n, Vector(x, n)
  PROVE  IsClose(x, KvQuantized(x), MaxAbs(x), 127, 1)
<1> DEFINE max == MaxAbs(x)
<1>1. max \in Nat /\ \A i \in DOMAIN x : Abs(x[i]) <= max
  <2>1. DOMAIN x # {} /\ DOMAIN x \subseteq DOMAIN x
    BY DEF Vector
  <2> QED BY <2>1, Magnitudes DEF MaxAbs
<1>2. \A i \in DOMAIN x : KvQuantized(x)[i] = TruncDiv(x[i] * 127, max)
  BY Zenon DEF KvQuantized
<1> HIDE DEF max
<1>3. ASSUME NEW i \in DOMAIN x
      PROVE  /\ Abs(TruncDiv(x[i] * 127, max)) <= 127
             /\ 1 * Abs(TruncDiv(x[i] * 127, max) * max - x[i] * 127) <= max
  <2>1. x[i] \in Int /\ 127 \in Nat
    BY DEF Vector
  <2>2. x[i] * 127 \in Int /\ Abs(x[i] * 127) <= 127 * max
    BY <1>1, <2>1, Scaled
  <2> QED BY <1>1, <2>1, <2>2, DivisionIs
<1>4. IsClose(x, KvQuantized(x), max, 127, 1)
  <2>1. \A i \in DOMAIN x : /\ Abs(KvQuantized(x)[i]) <= 127
                           /\ 1 * Abs(KvQuantized(x)[i] * max - x[i] * 127) <= max
    <3> SUFFICES ASSUME NEW i \in DOMAIN x
                 PROVE  /\ Abs(KvQuantized(x)[i]) <= 127
                        /\ 1 * Abs(KvQuantized(x)[i] * max - x[i] * 127) <= max
      OBVIOUS
    <3>1. KvQuantized(x)[i] = TruncDiv(x[i] * 127, max)
      BY <1>2, Zenon
    <3> QED BY <1>3, <3>1
  <2> QED BY <2>1, Zenon DEF IsClose
<1> QED BY <1>4 DEF max

(* An element is stored within the width and the half step of its group.     *)
LEMMA Int4Close ==
  ASSUME NEW x, NEW n, Vector(x, n), NEW i \in DOMAIN x, NEW size
  PROVE  /\ Abs(Int4Of(x, i, size)) <= 7
         /\ 2 * Abs(Int4Of(x, i, size) * GroupMax(x, i, size) - x[i] * 7)
              <= GroupMax(x, i, size)
<1> DEFINE G == InGroup(x, GroupOf(i, size), size)
           max == GroupMax(x, i, size)
<1>1. G \subseteq DOMAIN x /\ i \in G
  BY DEF InGroup
<1>2. max \in Nat /\ Abs(x[i]) <= max
  <2>1. max = Max({Abs(x[j]) : j \in G})
    BY Zenon DEF GroupMax
  <2> HIDE DEF G, max
  <2> QED BY <1>1, <2>1, Magnitudes
<1>3. Int4Of(x, i, size) = RoundDiv(x[i] * 7, max)
  BY Zenon DEF Int4Of
<1> HIDE DEF max
<1>4. x[i] \in Int /\ 7 \in Nat
  BY DEF Vector
<1>5. x[i] * 7 \in Int /\ Abs(x[i] * 7) <= 7 * max
  BY <1>2, <1>4, Scaled
<1>6. /\ Abs(RoundDiv(x[i] * 7, max)) <= 7
      /\ 2 * Abs(RoundDiv(x[i] * 7, max) * max - x[i] * 7) <= max
  BY <1>2, <1>4, <1>5, DivisionIs
<1> QED BY <1>3, <1>6, Zenon DEF max

(* A group of even size starts at an even element and no pair leaves it.     *)
LEMMA EvenGroups ==
  ASSUME NEW size \in Nat \ {0}, size % 2 = 0, NEW p \in Nat
  PROVE  /\ (p - GroupOf(p, size) * size) % 2 = p % 2
         /\ p % 2 = 0 => GroupOf(p + 1, size) = GroupOf(p, size)
<1> DEFINE m == size \div 2
           g == p \div size
           r == p % size
           gm == g * m
<1>1. m \in Nat \ {0} /\ size = 2 * m
  OBVIOUS
<1>2. p = size * g + r /\ r \in 0..(size - 1) /\ g \in Nat
  BY Quotient
<1>3. GroupOf(p, size) = g
  BY DEF GroupOf
<1> HIDE DEF m, g, r
<1>4. size * g = 2 * gm /\ g * size = 2 * gm /\ gm \in Nat
  BY <1>1, <1>2
<1> HIDE DEF gm
<1>5. (p - GroupOf(p, size) * size) % 2 = p % 2
  <2>1. p - GroupOf(p, size) * size = p - 2 * gm
    BY <1>3, <1>4
  <2>2. (p - 2 * gm) % 2 = p % 2
    BY <1>4
  <2> QED BY <2>1, <2>2
<1>6. ASSUME p % 2 = 0 PROVE GroupOf(p + 1, size) = GroupOf(p, size)
  <2>1. r % 2 = 0
    BY <1>2, <1>4, <1>6
  <2>2. r + 1 \in 0..(size - 1)
    BY <1>1, <1>2, <2>1
  <2>3. p + 1 = g * size + (r + 1)
    BY <1>2, <1>4
  <2>4. (g * size + (r + 1)) \div size = g
    BY <1>2, <2>2, DivMod
  <2> QED BY <1>3, <2>3, <2>4 DEF GroupOf
<1> QED BY <1>5, <1>6

(* Each byte holds the pair that begins at twice its index.                  *)
LEMMA PairOfByte ==
  ASSUME NEW x, NEW n, Vector(x, n), NEW size \in Nat \ {0}, size % 2 = 0, NEW i \in DOMAIN x
  PROVE  LET b == i \div 2
             p == Max({a \in Pairs(x, size) : a \div 2 = b})
         IN  p = 2 * b /\ p \in DOMAIN x
<1> DEFINE b == i \div 2
<1>0. DOMAIN x = 0..(n - 1) /\ n \in Nat
  BY DEF Vector
<1>1. 2 * b \in DOMAIN x /\ (2 * b) % 2 = 0 /\ (2 * b) \div 2 = b /\ 2 * b \in Int
  BY <1>0
<1> HIDE DEF b
<1>2. \A a \in DOMAIN x : a \in Pairs(x, size) <=> a % 2 = 0
  <2> SUFFICES ASSUME NEW a \in DOMAIN x PROVE a \in Pairs(x, size) <=> a % 2 = 0
    OBVIOUS
  <2>1. a \in Nat
    BY <1>0
  <2>2. (a - GroupOf(a, size) * size) % 2 = a % 2
    BY <2>1, EvenGroups
  <2> QED BY <2>2 DEF Pairs
<1>3. \A a \in Pairs(x, size) : a \in DOMAIN x
  BY DEF Pairs
<1>4. {a \in Pairs(x, size) : a \div 2 = b} = {2 * b}
  <2>1. \A a \in DOMAIN x : a % 2 = 0 /\ a \div 2 = b => a = 2 * b
    BY <1>0, <1>1
  <2> QED BY <1>1, <1>2, <1>3, <2>1
<1>5. Max({2 * b}) = 2 * b
  BY <1>1, LargestOfOne
<1> QED BY <1>1, <1>4, <1>5 DEF b

(* The half of byte i / 2 that belongs to element i.                         *)
Half4(x, i, size) ==
  LET byte == Int4Byte(x, size, i \div 2)
  IN  IF i % 2 = 0 THEN byte.low ELSE byte.high

LEMMA PairSurvives ==
  ASSUME NEW x, NEW n, Vector(x, n), NEW size \in Nat \ {0}, size % 2 = 0, NEW i \in DOMAIN x
  PROVE  Half4(x, i, size) = Nibble(Int4Of(x, i, size))
<1> DEFINE b == i \div 2
           p == Max({a \in Pairs(x, size) : a \div 2 = b})
           high == IF p + 1 \in InGroup(x, GroupOf(p, size), size)
                   THEN Int4Of(x, p + 1, size) ELSE 0
           byte == Int4Byte(x, size, b)
<1>1. p = 2 * b /\ p \in DOMAIN x
  BY PairOfByte
<1>2. byte = [low |-> Nibble(Int4Of(x, p, size)), high |-> Nibble(high)]
  BY Zenon DEF Int4Byte
<1>3. Half4(x, i, size) = IF i % 2 = 0 THEN byte.low ELSE byte.high
  BY Zenon DEF Half4
<1> HIDE DEF p, byte
<1>4. i \in Nat
  BY DEF Vector
<1>5. CASE i % 2 = 0
  <2>1. p = i
    BY <1>1, <1>4, <1>5
  <2> HIDE DEF high
  <2> QED BY <1>2, <1>3, <1>5, <2>1
<1>6. CASE i % 2 # 0
  <2>1. p + 1 = i /\ p % 2 = 0 /\ p \in Nat
    BY <1>1, <1>4, <1>6
  <2>2. GroupOf(i, size) = GroupOf(p, size)
    <3>1. GroupOf(p + 1, size) = GroupOf(p, size)
      BY <2>1, EvenGroups
    <3> QED BY <2>1, <3>1
  <2>3. high = Int4Of(x, i, size)
    BY <2>1, <2>2 DEF InGroup
  <2> HIDE DEF high
  <2> QED BY <1>2, <1>3, <1>6, <2>3
<1> QED BY <1>5, <1>6

(* Earlier layers never get fewer bits.                                      *)
LEMMA BitsShrink ==
  ASSUME NEW n \in Nat, NEW i \in 0..(n - 2)
  PROVE  LayerBits(i, n) >= LayerBits(i + 1, n)
<1> DEFINE a == n \div 4
           b == n \div 2
<1>1. a \in Int /\ b \in Int /\ a <= b /\ i \in Int
  OBVIOUS
<1>2. \A k : LayerBits(k, n) = IF k < a THEN 16 ELSE IF k < b THEN 8 ELSE 4
  BY Zenon DEF LayerBits
<1> HIDE DEF a, b
<1> QED BY <1>1, <1>2

(* QuantizedWithinStep for a vector of any integers, any size of its groups  *)
(* and any largest magnitude that was observed before.                       *)
Quantized(x, n, size) ==
  /\ \A seen \in Nat :
       /\ Observed(seen, x) >= seen
       /\ IsClose(x, Symmetric(x, Observed(seen, x), 127), Observed(seen, x), 127, 2)
  /\ IsClose(x, FakeQuantized(x, TRUE), MaxAbs(x), 127, 2)
  /\ FakeQuantized(x, FALSE) = x
  /\ IsClose(x, KvQuantized(x), MaxAbs(x), 127, 1)
  /\ \A i \in DOMAIN x :
       /\ Abs(Int4Of(x, i, size)) <= 7
       /\ 2 * Abs(Int4Of(x, i, size) * GroupMax(x, i, size) - x[i] * 7)
            <= GroupMax(x, i, size)
  /\ size % 2 = 0 => \A i \in DOMAIN x : Half4(x, i, size) = Nibble(Int4Of(x, i, size))
  /\ \A i \in 0..(n - 2) : LayerBits(i, n) >= LayerBits(i + 1, n)

(* For every vector: integer quantization stays within half a step (the KV   *)
(* cache: one step) and within the width of its integers, INT4 within that   *)
(* of the element's group; with groups of even size, the halves of the bytes *)
(* hold the elements in order when all groups are written: no group          *)
(* overwrites another's (quantization_production.hpp, mixed_precision.hpp).  *)
THEOREM QuantizedAtAnySize ==
  ASSUME NEW x, NEW n, Vector(x, n), NEW size \in Nat \ {0}
  PROVE  Quantized(x, n, size)
<1>0. n \in Nat /\ DOMAIN x = 0..(n - 1) /\ DOMAIN x # {} /\ DOMAIN x \subseteq DOMAIN x
  BY DEF Vector
<1>1. MaxAbs(x) \in Nat /\ \A i \in DOMAIN x : Abs(x[i]) <= MaxAbs(x)
  BY <1>0, Magnitudes DEF MaxAbs
<1>2. ASSUME NEW seen \in Nat
      PROVE  /\ Observed(seen, x) >= seen
             /\ IsClose(x, Symmetric(x, Observed(seen, x), 127), Observed(seen, x), 127, 2)
  <2> DEFINE max == Observed(seen, x)
  <2>1. max = IF seen >= MaxAbs(x) THEN seen ELSE MaxAbs(x)
    BY <1>1, MaxOfTwo DEF Observed
  <2> HIDE DEF max
  <2>2. \A i \in DOMAIN x : Abs(x[i]) \in Nat
    BY AbsIs DEF Vector
  <2>3. max \in Nat /\ max >= seen /\ \A i \in DOMAIN x : Abs(x[i]) <= max
    BY <1>1, <2>1, <2>2
  <2>4. IsClose(x, Symmetric(x, max, 127), max, 127, 2)
    BY <2>3, SymmetricClose
  <2> QED BY <2>3, <2>4 DEF max
<1>3. IsClose(x, FakeQuantized(x, TRUE), MaxAbs(x), 127, 2)
  <2>1. FakeQuantized(x, TRUE) = Symmetric(x, MaxAbs(x), 127)
    BY DEF FakeQuantized
  <2>2. IsClose(x, Symmetric(x, MaxAbs(x), 127), MaxAbs(x), 127, 2)
    BY <1>1, SymmetricClose
  <2> QED BY <2>1, <2>2
<1>4. FakeQuantized(x, FALSE) = x
  BY DEF FakeQuantized
<1>5. IsClose(x, KvQuantized(x), MaxAbs(x), 127, 1)
  BY KvClose
<1>6. \A i \in DOMAIN x :
        /\ Abs(Int4Of(x, i, size)) <= 7
        /\ 2 * Abs(Int4Of(x, i, size) * GroupMax(x, i, size) - x[i] * 7)
             <= GroupMax(x, i, size)
  BY Int4Close
<1>7. size % 2 = 0 => \A i \in DOMAIN x : Half4(x, i, size) = Nibble(Int4Of(x, i, size))
  BY PairSurvives
<1>8. \A i \in 0..(n - 2) : LayerBits(i, n) >= LayerBits(i + 1, n)
  BY <1>0, BitsShrink
<1> QED BY <1>2, <1>3, <1>4, <1>5, <1>6, <1>7, <1>8, Zenon DEF Quantized

(* In the run: every vector of it is quantized within its step and its width,*)
(* and no group of even size overwrites another's bytes.                     *)
THEOREM StaysWithinStep == AlgorithmsSpec => []QuantizedWithinStep
<1>1. AnyInput => QuantizedWithinStep
  <2> SUFFICES ASSUME AnyInput, input.kind = "vector" PROVE QuantizedWithinStep
    BY DEF QuantizedWithinStep
  <2> DEFINE x == input.x
             size == input.size
  <2>1. input \in VectorInputs
    BY Kinds
  <2>2. /\ size \in Nat \ {0}
        /\ x \in UNION {[0 .. n - 1 -> {-9, -4, 0, 5, 7}] : n \in 1 .. 4}
    BY <2>1 DEF VectorInputs
  <2>3. PICK n \in 1..4 : x \in [0 .. n - 1 -> {-9, -4, 0, 5, 7}]
    BY <2>2
  <2>4. Vector(x, n) /\ DOMAIN x = 0..(n - 1) /\ n \in Nat
    BY <2>3 DEF Vector
  <2>5. Cardinality(DOMAIN x) = n
    BY <2>4, FS_Interval
  <2> HIDE DEF x, size
  <2>6. Quantized(x, n, size)
    BY <2>2, <2>4, QuantizedAtAnySize
  <2>7. \A seen \in {0, 6, 30} : seen \in Nat
    OBVIOUS
  <2>8. \A seen \in {0, 6, 30} :
          IsClose(x, Symmetric(x, Observed(seen, x), 127), Observed(seen, x), 127, 2)
    BY <2>6, <2>7, Zenon DEF Quantized
  <2>9. IsClose(x, FakeQuantized(x, TRUE), MaxAbs(x), 127, 2)
    BY <2>6, Zenon DEF Quantized
  <2>10. IsClose(x, KvQuantized(x), MaxAbs(x), 127, 1)
    BY <2>6, Zenon DEF Quantized
  <2>11. /\ FakeQuantized(x, FALSE) = x
         /\ \A i \in DOMAIN x :
              /\ Abs(Int4Of(x, i, size)) <= 7
              /\ 2 * Abs(Int4Of(x, i, size) * GroupMax(x, i, size) - x[i] * 7)
                   <= GroupMax(x, i, size)
         /\ size % 2 = 0 => \A i \in DOMAIN x : Half4(x, i, size) = Nibble(Int4Of(x, i, size))
         /\ \A i \in 0 .. n - 2 : LayerBits(i, n) >= LayerBits(i + 1, n)
    BY <2>6, Zenon DEF Quantized
  <2> QED BY <2>5, <2>8, <2>9, <2>10, <2>11, Zenon DEF QuantizedWithinStep, IsClose, Half4, x, size
<1>2. AnyInput /\ UNCHANGED input => AnyInput'
  BY DEF AnyInput
<1> QED BY <1>1, <1>2, PTL DEF AlgorithmsSpec, SameInput
-----------------------------------------------------------------------------
(* The finite floats without their sign, and the fields of one.              *)
Finite == 0..(255 * 2^23 - 1)

LEMMA FieldIs ==
  ASSUME NEW f
  PROVE  /\ Exponent(f) = (f \div 2^23) % 2^8 /\ Mantissa(f) = (f \div 2^0) % 2^23
         /\ Kept(f, 10) = (f \div 2^13) % 2^10 /\ Field(f, 12, 1) = (f \div 2^12) % 2
         /\ Field(f, 0, 12) = (f \div 2^0) % 2^12
         /\ Kept(f, 3) = (f \div 2^20) % 2^3 /\ Field(f, 19, 1) = (f \div 2^19) % 2
         /\ Field(f, 0, 19) = (f \div 2^0) % 2^19
         /\ Kept(f, 2) = (f \div 2^21) % 2^2
         /\ Field(f, 0, 16) = (f \div 2^0) % 2^16 /\ Field(f, 16, 1) = (f \div 2^16) % 2
         /\ InfinityBits = 255 * 2^23
<1>1. 23 - 10 = 13 /\ 23 - 3 = 20 /\ 23 - 2 = 21
  OBVIOUS
<1>2. 255 * 2^23 + 0 = 255 * 2^23 /\ 2^1 = 2
  OBVIOUS
<1> QED BY <1>1, <1>2, Zenon DEF Exponent, Mantissa, Kept, Field, InfinityBits, Float

LEMMA Fields ==
  ASSUME NEW f \in Finite
  PROVE  /\ Exponent(f) = f \div 2^23 /\ Exponent(f) \in 0..254
         /\ Mantissa(f) = f % 2^23 /\ Mantissa(f) \in 0..(2^23 - 1)
         /\ f = 2^23 * Exponent(f) + Mantissa(f)
         /\ f \in Nat
<1>1. f \in Nat /\ f < 255 * 2^23
  BY DEF Finite
<1>2. (f \div 2^23) % 2^8 = f \div 2^23 /\ f \div 2^23 \in 0..254
      /\ f = 2^23 * (f \div 2^23) + (f % 2^23) /\ f \div 2^0 = f
      /\ f % 2^23 \in 0..(2^23 - 1)
  BY <1>1
<1> QED BY <1>1, <1>2, FieldIs

(* To the nearest half: the bits kept, and one more when the rest is more    *)
(* than a half of the step, or just that after an odd number.                *)
Up(f, gap) ==
  LET rest == f % gap
  IN  \/ 2 * rest > gap
      \/ 2 * rest = gap /\ (f \div gap) % 2 = 1

LEMMA RoundedHalf ==
  ASSUME NEW f \in Finite
  PROVE  Rounded(f, 10, 12, 15) = f \div 2^13 - 112 * 2^10 + (IF Up(f, 2^13) THEN 1 ELSE 0)
<1> DEFINE h == f \div 2^13
           b == (f \div 2^12) % 2
           l == f % 2^12
<1>1. f \in Nat
  BY Fields
<1>2. f = 2^13 * h + 2^12 * b + l /\ b \in 0..1 /\ l \in 0..(2^12 - 1) /\ h \in Nat
      /\ f % 2^13 = 2^12 * b + l /\ (h % 2^10) % 2 = h % 2
      /\ f \div 2^0 = f /\ f \div 2^23 = h \div 2^10
  BY <1>1
<1>3. RoundsUp(f, 10, 12) <=> b = 1 /\ (h % 2 = 1 \/ l # 0)
  <2>1. 22 - 10 = 12
    OBVIOUS
  <2> QED BY <1>2, <2>1, FieldIs DEF RoundsUp
<1>4. Up(f, 2^13) <=> b = 1 /\ (h % 2 = 1 \/ l # 0)
  <2>1. f % 2^13 = 2^12 * b + l /\ f \div 2^13 = h /\ b \in 0..1 /\ l \in 0..(2^12 - 1)
    BY <1>2
  <2> HIDE DEF h, b, l
  <2>2. Up(f, 2^13) <=> \/ 2 * (2^12 * b + l) > 2^13
                        \/ 2 * (2^12 * b + l) = 2^13 /\ h % 2 = 1
    BY <2>1, Zenon DEF Up
  <2> QED BY <2>1, <2>2
<1>5. (Exponent(f) - 127 + 15) * 2^10 + Kept(f, 10) = h - 112 * 2^10
  <2>1. Exponent(f) = h \div 2^10 /\ Kept(f, 10) = h % 2^10
    BY <1>2, Fields, FieldIs
  <2>2. h \in Nat
    BY <1>2
  <2> HIDE DEF h
  <2>3. h = 2^10 * (h \div 2^10) + (h % 2^10) /\ h \div 2^10 \in Nat /\ h % 2^10 \in Nat
    BY <2>2
  <2> QED BY <2>1, <2>3
<1>6. Rounded(f, 10, 12, 15) = h - 112 * 2^10 + (IF RoundsUp(f, 10, 12) THEN 1 ELSE 0)
  BY <1>5, Zenon DEF Rounded
<1> QED BY <1>3, <1>4, <1>6

LEMMA RoundedFp8 ==
  ASSUME NEW f \in Finite
  PROVE  Rounded(f, 3, 19, 7) = f \div 2^20 - 120 * 2^3 + (IF Up(f, 2^20) THEN 1 ELSE 0)
<1> DEFINE h == f \div 2^20
           b == (f \div 2^19) % 2
           l == f % 2^19
<1>1. f \in Nat
  BY Fields
<1>2. f = 2^20 * h + 2^19 * b + l /\ b \in 0..1 /\ l \in 0..(2^19 - 1) /\ h \in Nat
      /\ f % 2^20 = 2^19 * b + l /\ (h % 2^3) % 2 = h % 2
      /\ f \div 2^0 = f /\ f \div 2^23 = h \div 2^3
  BY <1>1
<1>3. RoundsUp(f, 3, 19) <=> b = 1 /\ (h % 2 = 1 \/ l # 0)
  <2>1. 22 - 3 = 19
    OBVIOUS
  <2> QED BY <1>2, <2>1, FieldIs DEF RoundsUp
<1>4. Up(f, 2^20) <=> b = 1 /\ (h % 2 = 1 \/ l # 0)
  <2>1. f % 2^20 = 2^19 * b + l /\ f \div 2^20 = h /\ b \in 0..1 /\ l \in 0..(2^19 - 1)
    BY <1>2
  <2> HIDE DEF h, b, l
  <2>2. Up(f, 2^20) <=> \/ 2 * (2^19 * b + l) > 2^20
                        \/ 2 * (2^19 * b + l) = 2^20 /\ h % 2 = 1
    BY <2>1, Zenon DEF Up
  <2> QED BY <2>1, <2>2
<1>5. (Exponent(f) - 127 + 7) * 2^3 + Kept(f, 3) = h - 120 * 2^3
  <2>1. Exponent(f) = h \div 2^3 /\ Kept(f, 3) = h % 2^3
    BY <1>2, Fields, FieldIs
  <2>2. h \in Nat
    BY <1>2
  <2> HIDE DEF h
  <2>3. h = 2^3 * (h \div 2^3) + (h % 2^3) /\ h \div 2^3 \in Nat /\ h % 2^3 \in Nat
    BY <2>2
  <2> QED BY <2>1, <2>3
<1>6. Rounded(f, 3, 19, 7) = h - 120 * 2^3 + (IF RoundsUp(f, 3, 19) THEN 1 ELSE 0)
  BY <1>5, Zenon DEF Rounded
<1> QED BY <1>3, <1>4, <1>6

Nearest(f, gap) == f \div gap + (IF Up(f, gap) THEN 1 ELSE 0)

LEMMA NearestIs ==
  ASSUME NEW f \in Nat, NEW gap \in Nat \ {0}
  PROVE  /\ Nearest(f, gap) \in Nat
         /\ Nearest(f, gap) \in f \div gap .. f \div gap + 1
         /\ 2 * Abs(f - Nearest(f, gap) * gap) <= gap
         /\ 2 * Abs(f - Nearest(f, gap) * gap) = gap => Nearest(f, gap) % 2 = 0
<1> DEFINE q == f \div gap
           r == f % gap
           s == gap * q
           e == Nearest(f, gap)
<1>1. f = s + r /\ r \in 0..(gap - 1) /\ q \in Nat
  BY Quotient
<1>2. e = q + (IF Up(f, gap) THEN 1 ELSE 0)
  BY Zenon DEF Nearest
<1>3. Up(f, gap) <=> 2 * r > gap \/ (2 * r = gap /\ q % 2 = 1)
  BY DEF Up
<1> HIDE DEF q, r, e
<1>4. s \in Nat /\ q * gap = s /\ (q + 1) * gap = s + gap
  BY <1>1
<1> HIDE DEF s
<1>5. CASE Up(f, gap)
  <2>1. e = q + 1 /\ e * gap = s + gap
    BY <1>2, <1>4, <1>5
  <2>2. Abs(f - e * gap) = gap - r
    BY <1>1, <1>4, <2>1 DEF Abs
  <2>3. 2 * (gap - r) = gap => q % 2 = 1
    BY <1>1, <1>3, <1>5
  <2>4. q % 2 = 1 => (q + 1) % 2 = 0
    BY <1>1
  <2> QED BY <1>1, <1>3, <1>5, <2>1, <2>2, <2>3, <2>4 DEF e, q
<1>6. CASE ~Up(f, gap)
  <2>1. e = q /\ e * gap = s
    BY <1>1, <1>2, <1>4, <1>6
  <2>2. Abs(f - e * gap) = r
    BY <1>1, <1>4, <2>1 DEF Abs
  <2>3. q % 2 = 0 \/ q % 2 = 1
    BY <1>1
  <2>4. /\ e \in Nat /\ e \in q .. q + 1
        /\ 2 * Abs(f - e * gap) <= gap
        /\ 2 * Abs(f - e * gap) = gap => e % 2 = 0
    BY <1>1, <1>3, <1>6, <2>1, <2>2, <2>3
  <2> QED BY <2>4 DEF e, q
<1> QED BY <1>5, <1>6

(* What the normal numbers of each format stand for.                         *)
LEMMA HalfValueIs ==
  ASSUME NEW b \in 2^10 .. 31 * 2^10 - 1
  PROVE  HalfValue(b) = (b + 112 * 2^10) * 2^13
<1> DEFINE e == b \div 2^10
           m == b % 2^10
<1>1. e \in 1..30 /\ m \in 0..(2^10 - 1) /\ b = 2^10 * e + m /\ e % 2^5 = e /\ b \div 2^0 = b
  OBVIOUS
<1>2. Field(b, 10, 5) = e /\ Field(b, 0, 10) = m
  BY <1>1 DEF Field
<1> HIDE DEF e, m
<1>3. HalfValue(b) = (e - 15 + 127) * 2^23 + m * 2^(23 - 10)
  <2>1. e # 31 /\ e # 0
    BY <1>1
  <2> QED BY <1>2, <2>1, Zenon DEF HalfValue, Widened, Float
<1>4. m * 2^(23 - 10) = m * 2^13
  OBVIOUS
<1> QED BY <1>1, <1>3, <1>4

LEMMA Fp8ValueIs ==
  ASSUME NEW b \in 2^3 .. 15 * 2^3 - 1
  PROVE  Fp8Value(b) = (b + 120 * 2^3) * 2^20 /\ IsFp8Number(b)
<1> DEFINE e == b \div 2^3
           m == b % 2^3
<1>1. e \in 1..14 /\ m \in 0..(2^3 - 1) /\ b = 2^3 * e + m /\ e % 2^4 = e /\ b \div 2^0 = b
  OBVIOUS
<1>2. Field(b, 3, 4) = e /\ Field(b, 0, 3) = m
  BY <1>1 DEF Field
<1> HIDE DEF e, m
<1>3. Fp8Value(b) = (e - 7 + 127) * 2^23 + m * 2^(23 - 3) /\ IsFp8Number(b)
  <2>1. e # 15 /\ e # 0
    BY <1>1
  <2> QED BY <1>2, <2>1, Zenon DEF Fp8Value, IsFp8Number, Widened, Float
<1>4. m * 2^(23 - 3) = m * 2^20
  OBVIOUS
<1> QED BY <1>1, <1>3, <1>4

LEMMA E4M3ValueIs ==
  ASSUME NEW b \in 2^3 .. 2^7 - 1
  PROVE  Fp8StructValue(b, 4, 3, 7) = (b + 120 * 2^3) * 2^20
<1> DEFINE e == b \div 2^3
           m == b % 2^3
<1>1. e \in 1..15 /\ m \in 0..(2^3 - 1) /\ b = 2^3 * e + m /\ e % 2^4 = e /\ b \div 2^0 = b
  OBVIOUS
<1>2. Field(b, 3, 4) = e /\ Field(b, 0, 3) = m
  BY <1>1 DEF Field
<1> HIDE DEF e, m
<1>3. Fp8StructValue(b, 4, 3, 7) = (e - 7 + 127) * 2^23 + m * 2^(23 - 3)
  <2>1. e # 0
    BY <1>1
  <2> QED BY <1>2, <2>1, Zenon DEF Fp8StructValue, Float
<1>4. m * 2^(23 - 3) = m * 2^20
  OBVIOUS
<1> QED BY <1>1, <1>3, <1>4

LEMMA E5M2ValueIs ==
  ASSUME NEW b \in 2^2 .. 2^7 - 1
  PROVE  Fp8StructValue(b, 5, 2, 15) = (b + 112 * 2^2) * 2^21
<1> DEFINE e == b \div 2^2
           m == b % 2^2
<1>1. e \in 1..31 /\ m \in 0..(2^2 - 1) /\ b = 2^2 * e + m /\ e % 2^5 = e /\ b \div 2^0 = b
  OBVIOUS
<1>2. Field(b, 2, 5) = e /\ Field(b, 0, 2) = m
  BY <1>1 DEF Field
<1> HIDE DEF e, m
<1>3. Fp8StructValue(b, 5, 2, 15) = (e - 15 + 127) * 2^23 + m * 2^(23 - 2)
  <2>1. e # 0
    BY <1>1
  <2> QED BY <1>2, <2>1, Zenon DEF Fp8StructValue, Float
<1>4. m * 2^(23 - 2) = m * 2^21
  OBVIOUS
<1> QED BY <1>1, <1>3, <1>4

(* The conversions, range by range of the exponent.                          *)
LEMMA HalfIs ==
  ASSUME NEW f \in Finite
  PROVE  /\ Exponent(f) \in 0..102 => Half(f) = 0
         /\ Exponent(f) \in 103..112 => Half(f) = HalfTruncated(f, Exponent(f) - 112)
         /\ Exponent(f) \in 113..142 =>
              Half(f) = Min({Nearest(f, 2^13) - 112 * 2^10, HalfInfinity})
         /\ Exponent(f) \in 143..254 => Half(f) = HalfInfinity
<1> DEFINE E == Exponent(f)
           n == E - 127 + 15
<1>1. E \in 0..254 /\ n = E - 112
  BY Fields
<1>2. Half(f) = IF E = 255 THEN IF Mantissa(f) # 0 THEN HalfNaN(f) ELSE HalfInfinity
                ELSE IF E = 0 \/ n <= -10 THEN 0
                ELSE IF n >= 31 THEN HalfInfinity
                ELSE IF n <= 0 THEN HalfTruncated(f, n)
                ELSE Min({Rounded(f, 10, 12, 15), HalfInfinity})
  BY Zenon DEF Half
<1>3. Rounded(f, 10, 12, 15) = Nearest(f, 2^13) - 112 * 2^10
  <2>1. f \in Nat
    BY Fields
  <2>2. Nearest(f, 2^13) = f \div 2^13 + (IF Up(f, 2^13) THEN 1 ELSE 0)
    BY DEF Nearest
  <2>3. f \div 2^13 \in Nat
    BY <2>1
  <2> QED BY <2>2, <2>3, RoundedHalf
<1> HIDE DEF E, n
<1> QED BY <1>1, <1>2, <1>3 DEF E

LEMMA Fp8Is ==
  ASSUME NEW f \in Finite
  PROVE  LET r == Nearest(f, 2^20) - 120 * 2^3
         IN  /\ Exponent(f) \in 0..120 => Fp8(f) = 0
             /\ Exponent(f) \in 121..134 => Fp8(f) = IF r >= 120 THEN Fp8Largest ELSE r
<1> DEFINE E == Exponent(f)
           r == Nearest(f, 2^20) - 120 * 2^3
           x == E - 127
<1>1. E \in 0..254
  BY Fields
<1>2. Fp8(f) = IF x < -6 THEN 0
               ELSE IF x > 8 \/ Rounded(f, 3, 19, 7) >= 128 THEN Fp8Largest
               ELSE IF Rounded(f, 3, 19, 7) >= 120 /\ x < 8 THEN Fp8Largest
               ELSE Rounded(f, 3, 19, 7)
  BY Zenon DEF Fp8
<1>3. Rounded(f, 3, 19, 7) = r
  <2>1. f \in Nat
    BY Fields
  <2>2. Nearest(f, 2^20) = f \div 2^20 + (IF Up(f, 2^20) THEN 1 ELSE 0)
    BY DEF Nearest
  <2>3. f \div 2^20 \in Nat
    BY <2>1
  <2> QED BY <2>2, <2>3, RoundedFp8
<1> HIDE DEF r, E
<1>4. r \in Int
  <2>1. f \in Nat /\ 2^20 \in Nat \ {0}
    BY Fields
  <2>2. Nearest(f, 2^20) \in Nat
    BY <2>1, NearestIs
  <2> QED BY <2>2 DEF r
<1> QED BY <1>1, <1>2, <1>3, <1>4 DEF E, r

LEMMA DivMonotone ==
  ASSUME NEW a \in Nat, NEW b \in Nat, a <= b, NEW d \in Nat \ {0}
  PROVE  a \div d <= b \div d /\ a \div d \in Nat /\ b \div d \in Nat
<1> DEFINE p == a \div d
           q == b \div d
           s == d * p
           t == d * q
           u == a % d
           v == b % d
<1>1. a = s + u /\ b = t + v /\ p \in Nat /\ q \in Nat /\ u \in 0..(d - 1) /\ v \in 0..(d - 1)
  BY Quotient
<1> HIDE DEF p, q, u, v
<1>2. q < p => q * d + d <= p * d
  BY <1>1, Multiples
<1>3. p * d = s /\ q * d = t /\ s \in Nat /\ t \in Nat
  BY <1>1
<1> HIDE DEF s, t
<1>4. q < p => t + d <= s
  BY <1>2, <1>3
<1>5. p <= q
  BY <1>1, <1>3, <1>4
<1> QED BY <1>1, <1>5 DEF p, q

LEMMA NearestMonotone ==
  ASSUME NEW f \in Nat, NEW g \in Nat, f <= g, NEW gap \in Nat \ {0}
  PROVE  Nearest(f, gap) <= Nearest(g, gap)
<1> DEFINE p == f \div gap
           q == g \div gap
           s == gap * p
           t == gap * q
           a == f % gap
           b == g % gap
<1>1. f = s + a /\ g = t + b /\ p \in Nat /\ q \in Nat /\ a \in 0..(gap - 1) /\ b \in 0..(gap - 1)
  BY Quotient
<1>2. p <= q
  BY DivMonotone
<1>3. Nearest(f, gap) = p + (IF Up(f, gap) THEN 1 ELSE 0)
  BY Zenon DEF Nearest
<1>4. Nearest(g, gap) = q + (IF Up(g, gap) THEN 1 ELSE 0)
  BY Zenon DEF Nearest
<1>5. Up(f, gap) <=> 2 * a > gap \/ (2 * a = gap /\ p % 2 = 1)
  BY DEF Up
<1>6. Up(g, gap) <=> 2 * b > gap \/ (2 * b = gap /\ q % 2 = 1)
  BY DEF Up
<1>7. s \in Nat /\ t \in Nat /\ (p = q => s = t)
  BY <1>1
<1> HIDE DEF p, q, s, t, a, b
<1> QED BY <1>1, <1>2, <1>3, <1>4, <1>5, <1>6, <1>7

(* The subnormal halves, exponent by exponent.                               *)
LEMMA TruncatedIs ==
  ASSUME NEW f \in Finite
  PROVE  /\ Exponent(f) = 103 => HalfTruncated(f, Exponent(f) - 112) \in 2^0 .. 2^1 - 1
                                /\ 2^(1 - (103 - 112)) \in Nat \ {0}
         /\ Exponent(f) = 104 => HalfTruncated(f, Exponent(f) - 112) \in 2^1 .. 2^2 - 1
                                /\ 2^(1 - (104 - 112)) \in Nat \ {0}
         /\ Exponent(f) = 105 => HalfTruncated(f, Exponent(f) - 112) \in 2^2 .. 2^3 - 1
                                /\ 2^(1 - (105 - 112)) \in Nat \ {0}
         /\ Exponent(f) = 106 => HalfTruncated(f, Exponent(f) - 112) \in 2^3 .. 2^4 - 1
                                /\ 2^(1 - (106 - 112)) \in Nat \ {0}
         /\ Exponent(f) = 107 => HalfTruncated(f, Exponent(f) - 112) \in 2^4 .. 2^5 - 1
                                /\ 2^(1 - (107 - 112)) \in Nat \ {0}
         /\ Exponent(f) = 108 => HalfTruncated(f, Exponent(f) - 112) \in 2^5 .. 2^6 - 1
                                /\ 2^(1 - (108 - 112)) \in Nat \ {0}
         /\ Exponent(f) = 109 => HalfTruncated(f, Exponent(f) - 112) \in 2^6 .. 2^7 - 1
                                /\ 2^(1 - (109 - 112)) \in Nat \ {0}
         /\ Exponent(f) = 110 => HalfTruncated(f, Exponent(f) - 112) \in 2^7 .. 2^8 - 1
                                /\ 2^(1 - (110 - 112)) \in Nat \ {0}
         /\ Exponent(f) = 111 => HalfTruncated(f, Exponent(f) - 112) \in 2^8 .. 2^9 - 1
                                /\ 2^(1 - (111 - 112)) \in Nat \ {0}
         /\ Exponent(f) = 112 => HalfTruncated(f, Exponent(f) - 112) \in 2^9 .. 2^10 - 1
                                /\ 2^(1 - (112 - 112)) \in Nat \ {0}
<1> DEFINE U == 2^23 + Mantissa(f)
<1>1. U \in 2^23 .. 2^24 - 1
  BY Fields
<1>103. Exponent(f) = 103 =>
          HalfTruncated(f, Exponent(f) - 112) \in 2^0 .. 2^1 - 1 /\ 2^(1 - (103 - 112)) = 2^10
  <2> HAVE Exponent(f) = 103
  <2>1. 1 - (103 - 112) = 10
    OBVIOUS
  <2>2. HalfTruncated(f, 103 - 112) = (U \div 2^10) \div 2^13
    BY <2>1, Zenon DEF HalfTruncated
  <2>3. (U \div 2^10) \div 2^13 \in 2^0 .. 2^1 - 1
    BY <1>1
  <2> HIDE DEF U
  <2> QED BY <2>1, <2>2, <2>3
<1>104. Exponent(f) = 104 =>
          HalfTruncated(f, Exponent(f) - 112) \in 2^1 .. 2^2 - 1 /\ 2^(1 - (104 - 112)) = 2^9
  <2> HAVE Exponent(f) = 104
  <2>1. 1 - (104 - 112) = 9
    OBVIOUS
  <2>2. HalfTruncated(f, 104 - 112) = (U \div 2^9) \div 2^13
    BY <2>1, Zenon DEF HalfTruncated
  <2>3. (U \div 2^9) \div 2^13 \in 2^1 .. 2^2 - 1
    BY <1>1
  <2> HIDE DEF U
  <2> QED BY <2>1, <2>2, <2>3
<1>105. Exponent(f) = 105 =>
          HalfTruncated(f, Exponent(f) - 112) \in 2^2 .. 2^3 - 1 /\ 2^(1 - (105 - 112)) = 2^8
  <2> HAVE Exponent(f) = 105
  <2>1. 1 - (105 - 112) = 8
    OBVIOUS
  <2>2. HalfTruncated(f, 105 - 112) = (U \div 2^8) \div 2^13
    BY <2>1, Zenon DEF HalfTruncated
  <2>3. (U \div 2^8) \div 2^13 \in 2^2 .. 2^3 - 1
    BY <1>1
  <2> HIDE DEF U
  <2> QED BY <2>1, <2>2, <2>3
<1>106. Exponent(f) = 106 =>
          HalfTruncated(f, Exponent(f) - 112) \in 2^3 .. 2^4 - 1 /\ 2^(1 - (106 - 112)) = 2^7
  <2> HAVE Exponent(f) = 106
  <2>1. 1 - (106 - 112) = 7
    OBVIOUS
  <2>2. HalfTruncated(f, 106 - 112) = (U \div 2^7) \div 2^13
    BY <2>1, Zenon DEF HalfTruncated
  <2>3. (U \div 2^7) \div 2^13 \in 2^3 .. 2^4 - 1
    BY <1>1
  <2> HIDE DEF U
  <2> QED BY <2>1, <2>2, <2>3
<1>107. Exponent(f) = 107 =>
          HalfTruncated(f, Exponent(f) - 112) \in 2^4 .. 2^5 - 1 /\ 2^(1 - (107 - 112)) = 2^6
  <2> HAVE Exponent(f) = 107
  <2>1. 1 - (107 - 112) = 6
    OBVIOUS
  <2>2. HalfTruncated(f, 107 - 112) = (U \div 2^6) \div 2^13
    BY <2>1, Zenon DEF HalfTruncated
  <2>3. (U \div 2^6) \div 2^13 \in 2^4 .. 2^5 - 1
    BY <1>1
  <2> HIDE DEF U
  <2> QED BY <2>1, <2>2, <2>3
<1>108. Exponent(f) = 108 =>
          HalfTruncated(f, Exponent(f) - 112) \in 2^5 .. 2^6 - 1 /\ 2^(1 - (108 - 112)) = 2^5
  <2> HAVE Exponent(f) = 108
  <2>1. 1 - (108 - 112) = 5
    OBVIOUS
  <2>2. HalfTruncated(f, 108 - 112) = (U \div 2^5) \div 2^13
    BY <2>1, Zenon DEF HalfTruncated
  <2>3. (U \div 2^5) \div 2^13 \in 2^5 .. 2^6 - 1
    BY <1>1
  <2> HIDE DEF U
  <2> QED BY <2>1, <2>2, <2>3
<1>109. Exponent(f) = 109 =>
          HalfTruncated(f, Exponent(f) - 112) \in 2^6 .. 2^7 - 1 /\ 2^(1 - (109 - 112)) = 2^4
  <2> HAVE Exponent(f) = 109
  <2>1. 1 - (109 - 112) = 4
    OBVIOUS
  <2>2. HalfTruncated(f, 109 - 112) = (U \div 2^4) \div 2^13
    BY <2>1, Zenon DEF HalfTruncated
  <2>3. (U \div 2^4) \div 2^13 \in 2^6 .. 2^7 - 1
    BY <1>1
  <2> HIDE DEF U
  <2> QED BY <2>1, <2>2, <2>3
<1>110. Exponent(f) = 110 =>
          HalfTruncated(f, Exponent(f) - 112) \in 2^7 .. 2^8 - 1 /\ 2^(1 - (110 - 112)) = 2^3
  <2> HAVE Exponent(f) = 110
  <2>1. 1 - (110 - 112) = 3
    OBVIOUS
  <2>2. HalfTruncated(f, 110 - 112) = (U \div 2^3) \div 2^13
    BY <2>1, Zenon DEF HalfTruncated
  <2>3. (U \div 2^3) \div 2^13 \in 2^7 .. 2^8 - 1
    BY <1>1
  <2> HIDE DEF U
  <2> QED BY <2>1, <2>2, <2>3
<1>111. Exponent(f) = 111 =>
          HalfTruncated(f, Exponent(f) - 112) \in 2^8 .. 2^9 - 1 /\ 2^(1 - (111 - 112)) = 2^2
  <2> HAVE Exponent(f) = 111
  <2>1. 1 - (111 - 112) = 2
    OBVIOUS
  <2>2. HalfTruncated(f, 111 - 112) = (U \div 2^2) \div 2^13
    BY <2>1, Zenon DEF HalfTruncated
  <2>3. (U \div 2^2) \div 2^13 \in 2^8 .. 2^9 - 1
    BY <1>1
  <2> HIDE DEF U
  <2> QED BY <2>1, <2>2, <2>3
<1>112. Exponent(f) = 112 =>
          HalfTruncated(f, Exponent(f) - 112) \in 2^9 .. 2^10 - 1 /\ 2^(1 - (112 - 112)) = 2^1
  <2> HAVE Exponent(f) = 112
  <2>1. 1 - (112 - 112) = 1
    OBVIOUS
  <2>2. HalfTruncated(f, 112 - 112) = (U \div 2^1) \div 2^13
    BY <2>1, Zenon DEF HalfTruncated
  <2>3. (U \div 2^1) \div 2^13 \in 2^9 .. 2^10 - 1
    BY <1>1
  <2> HIDE DEF U
  <2> QED BY <2>1, <2>2, <2>3
<1> QED BY <1>103, <1>104, <1>105, <1>106, <1>107, <1>108, <1>109, <1>110, <1>111, <1>112

LEMMA TruncatedMonotone ==
  ASSUME NEW f \in Finite, NEW g \in Finite, f <= g,
         Exponent(f) \in 103..112, Exponent(g) \in 103..112
  PROVE  /\ HalfTruncated(f, Exponent(f) - 112) \in 0 .. 2^10 - 1
         /\ HalfTruncated(f, Exponent(f) - 112) <= HalfTruncated(g, Exponent(g) - 112)
<1> DEFINE E == Exponent(f)
           G == Exponent(g)
           t(x) == HalfTruncated(x, Exponent(x) - 112)
<1>1. E <= G
  BY Fields
<1>2. t(f) \in 0 .. 2^10 - 1
  <2>1. E \in 103..112
    OBVIOUS
  <2> HIDE DEF t
  <2> QED BY <2>1, TruncatedIs DEF t
<1>3. CASE E = G
  <2>1. Mantissa(f) <= Mantissa(g) /\ Mantissa(f) \in Nat /\ Mantissa(g) \in Nat
    BY <1>3, Fields
  <2>2. 2^(1 - (E - 112)) \in Nat \ {0}
    <3>1. \A k \in 103..112 : 2^(1 - (k - 112)) \in Nat \ {0}
      <4> SUFFICES ASSUME NEW k \in 103..112 PROVE 2^(1 - (k - 112)) \in Nat \ {0}
        OBVIOUS
      <4>1. 1 - (k - 112) \in 1..10
        OBVIOUS
      <4>2. \A j \in 1..10 : 2^j \in Nat \ {0}
        <5> SUFFICES ASSUME NEW j \in 1..10 PROVE 2^j \in Nat \ {0}
          OBVIOUS
        <5>1. j = 1 \/ j = 2 \/ j = 3 \/ j = 4 \/ j = 5 \/ j = 6 \/ j = 7 \/ j = 8 \/ j = 9 \/ j = 10
          OBVIOUS
        <5>2. /\ 2^1 \in Nat \ {0} /\ 2^2 \in Nat \ {0} /\ 2^3 \in Nat \ {0}
              /\ 2^4 \in Nat \ {0} /\ 2^5 \in Nat \ {0} /\ 2^6 \in Nat \ {0}
              /\ 2^7 \in Nat \ {0} /\ 2^8 \in Nat \ {0} /\ 2^9 \in Nat \ {0}
              /\ 2^10 \in Nat \ {0}
          OBVIOUS
        <5> QED BY <5>1, <5>2, Zenon
      <4> QED BY <4>1, <4>2, Zenon
    <3> QED BY <3>1
  <2> DEFINE d == 2^(1 - (E - 112))
             a == 2^23 + Mantissa(f)
             b == 2^23 + Mantissa(g)
  <2>3. a \in Nat /\ b \in Nat /\ a <= b /\ 2^13 \in Nat \ {0}
    BY <2>1
  <2>4. t(f) = (a \div d) \div 2^13 /\ t(g) = (b \div d) \div 2^13
    BY <1>3, Zenon DEF HalfTruncated
  <2>5. d \in Nat \ {0}
    BY <2>2
  <2> HIDE DEF d, a, b, t
  <2>6. a \div d <= b \div d /\ a \div d \in Nat /\ b \div d \in Nat
    BY <2>3, <2>5, DivMonotone
  <2>7. (a \div d) \div 2^13 <= (b \div d) \div 2^13
    BY <2>3, <2>6, DivMonotone
  <2> QED BY <1>2, <2>4, <2>7 DEF t
<1>4. CASE E < G
  <2>1. E \in 103..112 /\ G \in 103..112
    OBVIOUS
  <2>2. \A k \in 103..112 : \/ k = 103 \/ k = 104 \/ k = 105 \/ k = 106 \/ k = 107
                            \/ k = 108 \/ k = 109 \/ k = 110 \/ k = 111 \/ k = 112
    OBVIOUS
  <2>3. t(f) <= t(g)
    <3> DEFINE low(k) == 2^(k - 103)
    <3> QED BY <1>4, <2>1, TruncatedIs
  <2> QED BY <1>2, <2>3
<1> QED BY <1>1, <1>3, <1>4

LEMMA HalfMonotone ==
  ASSUME NEW f \in Finite, NEW g \in Finite, f <= g
  PROVE  Half(f) <= Half(g)
<1> DEFINE E == Exponent(f)
           G == Exponent(g)
           I == 31 * 2^10
           Level(x) == Nearest(x, 2^13) - 112 * 2^10
<1>1. E <= G /\ E \in 0..254 /\ G \in 0..254 /\ f \in Nat /\ g \in Nat
      /\ f \div 2^23 = E /\ g \div 2^23 = G
  BY Fields
<1>2. \A x \in Finite : Exponent(x) \in 113..142 =>
        Level(x) >= 2^10 /\ Level(x) \in Int /\ Half(x) = IF Level(x) <= I THEN Level(x) ELSE I
  <2> SUFFICES ASSUME NEW x \in Finite, Exponent(x) \in 113..142
               PROVE  Level(x) >= 2^10 /\ Level(x) \in Int /\ Half(x) = IF Level(x) <= I THEN Level(x) ELSE I
    OBVIOUS
  <2>1. x \in Nat /\ x \div 2^23 >= 113 /\ 2^13 \in Nat \ {0}
    BY Fields
  <2>2. x \div 2^13 >= 113 * 2^10
    BY <2>1
  <2>3. Nearest(x, 2^13) \in Nat /\ Nearest(x, 2^13) >= x \div 2^13
    <3>1. Nearest(x, 2^13) \in Nat /\ Nearest(x, 2^13) \in x \div 2^13 .. x \div 2^13 + 1
      BY <2>1, NearestIs, Zenon
    <3>2. x \div 2^13 \in Nat
      BY <2>1
    <3> HIDE DEF Level
    <3> QED BY <3>1, <3>2
  <2>4. Level(x) >= 2^10 /\ Level(x) \in Int
    BY <2>1, <2>2, <2>3
  <2>5. Half(x) = Min({Level(x), HalfInfinity})
    BY HalfIs
  <2> HIDE DEF Level
  <2>6. HalfInfinity = I /\ I \in Int
    BY DEF HalfInfinity
  <2>7. Min({Level(x), HalfInfinity}) = IF Level(x) <= HalfInfinity THEN Level(x) ELSE HalfInfinity
    BY <2>4, <2>6, MaxOfTwo
  <2> QED BY <2>4, <2>5, <2>6, <2>7
<1>3. Level(f) <= Level(g) /\ Level(f) \in Int /\ Level(g) \in Int
  <2>1. Nearest(f, 2^13) <= Nearest(g, 2^13)
    BY <1>1, 2^13 \in Nat \ {0}, NearestMonotone
  <2>2. Nearest(f, 2^13) \in Nat /\ Nearest(g, 2^13) \in Nat
    BY <1>1, 2^13 \in Nat \ {0}, NearestIs
  <2> QED BY <2>1, <2>2
<1>4. \A x \in Finite : /\ Exponent(x) \in 0..102 => Half(x) = 0
                        /\ Exponent(x) \in 143..254 => Half(x) = I
  BY HalfIs DEF HalfInfinity
<1>5. \A x \in Finite : Exponent(x) \in 103..112 => Half(x) \in 0 .. 2^10 - 1
  <2> SUFFICES ASSUME NEW x \in Finite, Exponent(x) \in 103..112 PROVE Half(x) \in 0 .. 2^10 - 1
    OBVIOUS
  <2>1. x <= x
    BY Fields
  <2>2. HalfTruncated(x, Exponent(x) - 112) \in 0 .. 2^10 - 1
    BY <2>1, TruncatedMonotone
  <2> QED BY <2>2, HalfIs
<1>6. E \in 103..112 /\ G \in 103..112 => Half(f) <= Half(g)
  <2> SUFFICES ASSUME E \in 103..112, G \in 103..112 PROVE Half(f) <= Half(g)
    OBVIOUS
  <2>1. HalfTruncated(f, E - 112) <= HalfTruncated(g, G - 112)
    BY TruncatedMonotone
  <2>2. Half(f) = HalfTruncated(f, E - 112)
    BY HalfIs
  <2>3. Half(g) = HalfTruncated(g, G - 112)
    BY HalfIs
  <2> QED BY <2>1, <2>2, <2>3
<1> HIDE DEF Level, E, G
<1>7. /\ E \in 0..102 => Half(f) = 0
      /\ E \in 103..112 => Half(f) \in 0 .. 2^10 - 1
      /\ E \in 113..142 => Level(f) >= 2^10 /\ Half(f) = IF Level(f) <= I THEN Level(f) ELSE I
      /\ E \in 143..254 => Half(f) = I
  BY <1>2, <1>4, <1>5 DEF E
<1>8. /\ G \in 0..102 => Half(g) = 0
      /\ G \in 103..112 => Half(g) \in 0 .. 2^10 - 1
      /\ G \in 113..142 => Level(g) >= 2^10 /\ Half(g) = IF Level(g) <= I THEN Level(g) ELSE I
      /\ G \in 143..254 => Half(g) = I
  BY <1>2, <1>4, <1>5 DEF G
<1> QED BY <1>1, <1>3, <1>6, <1>7, <1>8

LEMMA Bf16Is ==
  ASSUME NEW f \in Nat
  PROVE  /\ Bf16(f) = f \div 2^16 + (IF f % 2^16 >= 2^15 + 1 THEN 1 ELSE 0)
         /\ Bf16(f) \in Nat
<1> DEFINE low == f % 2^16
           adds == low # 0 \/ Field(f, 16, 1) = 1
<1>1. Field(f, 0, 16) = low
  <2>1. f \div 2^0 = f
    OBVIOUS
  <2> QED BY <2>1 DEF Field
<1>2. low \in 0 .. 2^16 - 1 /\ f \div 2^16 \in Nat
  OBVIOUS
<1>3. Bf16(f) = f \div 2^16 + (IF adds /\ low + 32767 >= 2^16 THEN 1 ELSE 0)
  BY <1>1 DEF Bf16
<1>4. adds /\ low + 32767 >= 2^16 <=> low >= 2^15 + 1
  BY <1>2
<1> HIDE DEF low, adds
<1> QED BY <1>2, <1>3, <1>4 DEF low

LEMMA Bf16Monotone ==
  ASSUME NEW f \in Nat, NEW g \in Nat, f <= g
  PROVE  Bf16(f) <= Bf16(g)
<1> DEFINE p == f \div 2^16
           q == g \div 2^16
           a == f % 2^16
           b == g % 2^16
<1>1. f = 2^16 * p + a /\ g = 2^16 * q + b /\ p \in Nat /\ q \in Nat
      /\ a \in 0 .. 2^16 - 1 /\ b \in 0 .. 2^16 - 1
  OBVIOUS
<1>2. Bf16(f) = p + (IF a >= 2^15 + 1 THEN 1 ELSE 0) /\ Bf16(g) = q + (IF b >= 2^15 + 1 THEN 1 ELSE 0)
  BY Bf16Is
<1> HIDE DEF p, q, a, b
<1> QED BY <1>1, <1>2

LEMMA Fp8Monotone ==
  ASSUME NEW f \in Finite, NEW g \in Finite, f <= g, Exponent(g) <= 134
  PROVE  Fp8(f) <= Fp8(g)
<1> DEFINE E == Exponent(f)
           G == Exponent(g)
           Level(x) == Nearest(x, 2^20) - 120 * 2^3
<1>1. E <= G /\ E \in 0..254 /\ G \in 0..134 /\ f \in Nat /\ g \in Nat
  <2>1. /\ E = f \div 2^23 /\ E \in 0..254 /\ f \in Nat
        /\ G = g \div 2^23 /\ G \in 0..254 /\ g \in Nat /\ G <= 134
    BY Fields
  <2>2. f \div 2^23 <= g \div 2^23
    BY <2>1
  <2> HIDE DEF E, G
  <2> QED BY <2>1, <2>2
<1>2. \A x \in Finite : Exponent(x) \in 121..134 =>
        Level(x) >= 8 /\ Level(x) \in Int /\ Fp8(x) = IF Level(x) >= 120 THEN 126 ELSE Level(x)
  <2> SUFFICES ASSUME NEW x \in Finite, Exponent(x) \in 121..134
               PROVE  Level(x) >= 8 /\ Level(x) \in Int /\ Fp8(x) = IF Level(x) >= 120 THEN 126 ELSE Level(x)
    OBVIOUS
  <2>1. x \in Nat /\ x \div 2^23 >= 121 /\ 2^20 \in Nat \ {0}
    BY Fields
  <2>2. x \div 2^20 >= 121 * 2^3 /\ x \div 2^20 \in Nat
    BY <2>1
  <2>3. Nearest(x, 2^20) \in Nat /\ Nearest(x, 2^20) \in x \div 2^20 .. x \div 2^20 + 1
    BY <2>1, NearestIs, Zenon
  <2>4. Level(x) >= 8 /\ Level(x) \in Int
    BY <2>2, <2>3
  <2>5. Fp8(x) = IF Level(x) >= 120 THEN 126 ELSE Level(x)
    BY Fp8Is DEF Fp8Largest
  <2> QED BY <2>4, <2>5
<1>3. Level(f) <= Level(g)
  <2>1. Nearest(f, 2^20) <= Nearest(g, 2^20)
    BY <1>1, 2^20 \in Nat \ {0}, NearestMonotone
  <2>2. Nearest(f, 2^20) \in Nat /\ Nearest(g, 2^20) \in Nat
    BY <1>1, 2^20 \in Nat \ {0}, NearestIs
  <2> QED BY <2>1, <2>2
<1>4. \A x \in Finite : Exponent(x) \in 0..120 => Fp8(x) = 0
  BY Fp8Is
<1> HIDE DEF Level, E, G
<1>5. /\ E \in 0..120 => Fp8(f) = 0
      /\ E \in 121..134 => Level(f) >= 8 /\ Level(f) \in Int /\ Fp8(f) = IF Level(f) >= 120 THEN 126 ELSE Level(f)
  BY <1>2, <1>4 DEF E
<1>6. /\ G \in 0..120 => Fp8(g) = 0
      /\ G \in 121..134 => Level(g) >= 8 /\ Level(g) \in Int /\ Fp8(g) = IF Level(g) >= 120 THEN 126 ELSE Level(g)
  BY <1>2, <1>4 DEF G
<1> QED BY <1>1, <1>3, <1>5, <1>6

LEMMA HalfNear ==
  ASSUME NEW f \in Finite, Exponent(f) \in 113..141
  PROVE  Near(f, HalfValue(Half(f)), 2^13, Half(f))
<1> DEFINE n == Nearest(f, 2^13)
           h == n - 112 * 2^10
<1>1. f \in Nat /\ f \div 2^23 \in 113..141 /\ 2^13 \in Nat \ {0}
  BY Fields
<1>2. f \div 2^13 \in 113 * 2^10 .. 142 * 2^10 - 1
  BY <1>1
<1>3. /\ n \in Nat /\ n \in f \div 2^13 .. f \div 2^13 + 1
      /\ 2 * Abs(f - n * 2^13) <= 2^13
      /\ 2 * Abs(f - n * 2^13) = 2^13 => n % 2 = 0
  BY <1>1, NearestIs, Zenon
<1> HIDE DEF n
<1>4. h \in 2^10 .. 30 * 2^10 /\ h \in 2^10 .. 31 * 2^10 - 1 /\ (n % 2 = 0 => h % 2 = 0)
      /\ h + 112 * 2^10 = n
  BY <1>2, <1>3
<1>5. Half(f) = h
  <2>1. Half(f) = Min({h, HalfInfinity})
    BY HalfIs DEF n
  <2>2. HalfInfinity \in Int /\ h \in Int /\ h <= HalfInfinity
    BY <1>4 DEF HalfInfinity
  <2>3. Min({h, HalfInfinity}) = h
    BY <2>2, MaxOfTwo
  <2> QED BY <2>1, <2>3
<1> HIDE DEF h
<1>6. HalfValue(h) = n * 2^13
  BY <1>4, HalfValueIs
<1> QED BY <1>3, <1>4, <1>5, <1>6 DEF Near

LEMMA Fp8Near ==
  ASSUME NEW f \in Finite, Exponent(f) \in 121..133
  PROVE  Near(f, Fp8Value(Fp8(f)), 2^20, Fp8(f))
<1> DEFINE n == Nearest(f, 2^20)
           h == n - 120 * 2^3
<1>1. f \in Nat /\ f \div 2^23 \in 121..133 /\ 2^20 \in Nat \ {0}
  BY Fields
<1>2. f \div 2^20 \in 121 * 2^3 .. 134 * 2^3 - 1
  BY <1>1
<1>3. /\ n \in Nat /\ n \in f \div 2^20 .. f \div 2^20 + 1
      /\ 2 * Abs(f - n * 2^20) <= 2^20
      /\ 2 * Abs(f - n * 2^20) = 2^20 => n % 2 = 0
  BY <1>1, NearestIs, Zenon
<1> HIDE DEF n
<1>4. h \in 2^3 .. 14 * 2^3 /\ h \in 2^3 .. 15 * 2^3 - 1 /\ (n % 2 = 0 => h % 2 = 0)
      /\ h + 120 * 2^3 = n /\ ~(h >= 120)
  BY <1>2, <1>3
<1>5. Fp8(f) = h
  BY <1>4, Fp8Is DEF n
<1> HIDE DEF h
<1>6. Fp8Value(h) = n * 2^20
  BY <1>4, Fp8ValueIs
<1> QED BY <1>3, <1>4, <1>5, <1>6 DEF Near

LEMMA Bf16Near ==
  ASSUME NEW f \in Nat
  PROVE  2 * Abs(f - Bf16Value(Bf16(f))) <= 2^16
<1> DEFINE p == f \div 2^16
           a == f % 2^16
<1>1. f = 2^16 * p + a /\ p \in Nat /\ a \in 0 .. 2^16 - 1
  OBVIOUS
<1>2. Bf16(f) = p + (IF a >= 2^15 + 1 THEN 1 ELSE 0)
  BY Bf16Is
<1> HIDE DEF p, a
<1>3. Bf16Value(Bf16(f)) = 2^16 * p + (IF a >= 2^15 + 1 THEN 2^16 ELSE 0)
  BY <1>1, <1>2 DEF Bf16Value
<1> QED BY <1>1, <1>3 DEF Abs

LEMMA StructIs ==
  ASSUME NEW f \in Finite
  PROVE  /\ Exponent(f) \in 121..135 => Fp8Struct(f, 4, 3, 7) = f \div 2^20 - 120 * 2^3
         /\ Exponent(f) \in 113..143 => Fp8Struct(f, 5, 2, 15) = f \div 2^21 - 112 * 2^2
<1>1. f \in Nat /\ Exponent(f) = f \div 2^23
  BY Fields
<1>2. ASSUME Exponent(f) \in 121..135
      PROVE  Fp8Struct(f, 4, 3, 7) = f \div 2^20 - 120 * 2^3
  <2> DEFINE x == Exponent(f) - 127 + 7
  <2>1. x \in 1..15 /\ x % 2^30 = x /\ x \in Int /\ 1 \in Int /\ 15 \in Int /\ 2^4 - 1 = 15
    BY <1>2
  <2> HIDE DEF x
  <2>2. Max({1, x}) = x /\ Min({15, x}) = x
    <3>1. Max({1, x}) = IF 1 >= x THEN 1 ELSE x
      BY <2>1, MaxOfTwo
    <3>2. Min({15, x}) = IF 15 <= x THEN 15 ELSE x
      BY <2>1, MaxOfTwo
    <3> QED BY <2>1, <3>1, <3>2
  <2>3. StructExponent(f, 4, 7) = x
    BY <2>1, <2>2, Zenon DEF StructExponent, x
  <2>4. Fp8Struct(f, 4, 3, 7) = x * 2^3 + Kept(f, 3)
    <3>1. Exponent(f) # 0
      BY <1>2
    <3> QED BY <2>3, <3>1, Zenon DEF Fp8Struct
  <2>5. Kept(f, 3) = (f \div 2^20) % 2^3
    BY FieldIs, Zenon
  <2>6. f \div 2^20 = 2^3 * (f \div 2^23) + ((f \div 2^20) % 2^3)
        /\ f \div 2^23 \in Nat /\ f \div 2^20 \in Nat /\ (f \div 2^20) % 2^3 \in Nat
    BY <1>1
  <2> QED BY <1>1, <2>4, <2>5, <2>6 DEF x
<1>3. ASSUME Exponent(f) \in 113..143
      PROVE  Fp8Struct(f, 5, 2, 15) = f \div 2^21 - 112 * 2^2
  <2> DEFINE x == Exponent(f) - 127 + 15
  <2>1. x \in 1..31 /\ x % 2^30 = x /\ x \in Int /\ 1 \in Int /\ 31 \in Int /\ 2^5 - 1 = 31
    BY <1>3
  <2> HIDE DEF x
  <2>2. Max({1, x}) = x /\ Min({31, x}) = x
    <3>1. Max({1, x}) = IF 1 >= x THEN 1 ELSE x
      BY <2>1, MaxOfTwo
    <3>2. Min({31, x}) = IF 31 <= x THEN 31 ELSE x
      BY <2>1, MaxOfTwo
    <3> QED BY <2>1, <3>1, <3>2
  <2>3. StructExponent(f, 5, 15) = x
    BY <2>1, <2>2, Zenon DEF StructExponent, x
  <2>4. Fp8Struct(f, 5, 2, 15) = x * 2^2 + Kept(f, 2)
    <3>1. Exponent(f) # 0
      BY <1>3
    <3> QED BY <2>3, <3>1, Zenon DEF Fp8Struct
  <2>5. Kept(f, 2) = (f \div 2^21) % 2^2
    BY FieldIs, Zenon
  <2>6. f \div 2^21 = 2^2 * (f \div 2^23) + ((f \div 2^21) % 2^2)
        /\ f \div 2^23 \in Nat /\ f \div 2^21 \in Nat /\ (f \div 2^21) % 2^2 \in Nat
    BY <1>1
  <2> QED BY <1>1, <2>4, <2>5, <2>6 DEF x
<1> QED BY <1>2, <1>3

(* RoundsToNearest for one float f; the order for any two.                   *)
Rounds(f) ==
  LET exp == Exponent(f) - 127
  IN  /\ exp \in -14 .. 14 => Near(f, HalfValue(Half(f)), 2^13, Half(f))
      /\ exp \in -6 .. 6 => Near(f, Fp8Value(Fp8(f)), 2^20, Fp8(f))
      /\ 2 * Abs(f - Bf16Value(Bf16(f))) <= 2^16
      /\ exp \in -6 .. 8 => f - Fp8StructValue(Fp8Struct(f, 4, 3, 7), 4, 3, 7)
                              \in 0 .. 2^20 - 1
      /\ exp \in -14 .. 16 => f - Fp8StructValue(Fp8Struct(f, 5, 2, 15), 5, 2, 15)
                                \in 0 .. 2^21 - 1
      /\ \A g \in Finite : f <= g => Half(f) <= Half(g) /\ Bf16(f) <= Bf16(g)
      /\ \A g \in Finite : f <= g /\ Exponent(g) <= 134 => Fp8(f) <= Fp8(g)

(* For each of the 2^31 - 2^23 finite floats: the formats round to their     *)
(* nearest number, ties to the even one, the structs truncate, and no larger *)
(* float gives a smaller number (mixed_precision.hpp, bf16_support.hpp).     *)
THEOREM RoundsEveryFloat == \A f \in Finite : Rounds(f)
<1> SUFFICES ASSUME NEW f \in Finite PROVE Rounds(f)
  OBVIOUS
<1> DEFINE x == Exponent(f) - 127
<1>0. f \in Nat /\ Exponent(f) \in Int
  BY Fields
<1>1. x \in -14 .. 14 => Near(f, HalfValue(Half(f)), 2^13, Half(f))
  <2>1. x \in -14 .. 14 => Exponent(f) \in 113..141
    BY <1>0
  <2> QED BY <2>1, HalfNear, Zenon
<1>2. x \in -6 .. 6 => Near(f, Fp8Value(Fp8(f)), 2^20, Fp8(f))
  <2>1. x \in -6 .. 6 => Exponent(f) \in 121..133
    BY <1>0
  <2> QED BY <2>1, Fp8Near, Zenon
<1>3. 2 * Abs(f - Bf16Value(Bf16(f))) <= 2^16
  BY <1>0, Bf16Near
<1>4. ASSUME x \in -6 .. 8
      PROVE  f - Fp8StructValue(Fp8Struct(f, 4, 3, 7), 4, 3, 7) \in 0 .. 2^20 - 1
  <2> DEFINE b == f \div 2^20 - 120 * 2^3
  <2>1. Exponent(f) \in 121..135 /\ f \div 2^23 \in 121..135
    BY <1>0, <1>4, Fields
  <2>2. b \in 2^3 .. 2^7 - 1 /\ (b + 120 * 2^3) * 2^20 = (f \div 2^20) * 2^20
    BY <1>0, <2>1
  <2>3. Fp8Struct(f, 4, 3, 7) = b
    BY <2>1, StructIs
  <2> HIDE DEF b
  <2>4. Fp8StructValue(b, 4, 3, 7) = (b + 120 * 2^3) * 2^20
    BY <2>2, E4M3ValueIs
  <2>5. f - (f \div 2^20) * 2^20 \in 0 .. 2^20 - 1
    BY <1>0
  <2> QED BY <2>2, <2>3, <2>4, <2>5
<1>5. ASSUME x \in -14 .. 16
      PROVE  f - Fp8StructValue(Fp8Struct(f, 5, 2, 15), 5, 2, 15) \in 0 .. 2^21 - 1
  <2> DEFINE b == f \div 2^21 - 112 * 2^2
  <2>1. Exponent(f) \in 113..143 /\ f \div 2^23 \in 113..143
    BY <1>0, <1>5, Fields
  <2>2. b \in 2^2 .. 2^7 - 1 /\ (b + 112 * 2^2) * 2^21 = (f \div 2^21) * 2^21
    BY <1>0, <2>1
  <2>3. Fp8Struct(f, 5, 2, 15) = b
    BY <2>1, StructIs
  <2> HIDE DEF b
  <2>4. Fp8StructValue(b, 5, 2, 15) = (b + 112 * 2^2) * 2^21
    BY <2>2, E5M2ValueIs
  <2>5. f - (f \div 2^21) * 2^21 \in 0 .. 2^21 - 1
    BY <1>0
  <2> QED BY <2>2, <2>3, <2>4, <2>5
<1>6. \A g \in Finite : f <= g => Half(f) <= Half(g) /\ Bf16(f) <= Bf16(g)
  BY Fields, HalfMonotone, Bf16Monotone
<1>7. \A g \in Finite : f <= g /\ Exponent(g) <= 134 => Fp8(f) <= Fp8(g)
  BY Fp8Monotone
<1> HIDE DEF x
<1>8. Rounds(f) <=>
        /\ x \in -14 .. 14 => Near(f, HalfValue(Half(f)), 2^13, Half(f))
        /\ x \in -6 .. 6 => Near(f, Fp8Value(Fp8(f)), 2^20, Fp8(f))
        /\ 2 * Abs(f - Bf16Value(Bf16(f))) <= 2^16
        /\ x \in -6 .. 8 => f - Fp8StructValue(Fp8Struct(f, 4, 3, 7), 4, 3, 7)
                              \in 0 .. 2^20 - 1
        /\ x \in -14 .. 16 => f - Fp8StructValue(Fp8Struct(f, 5, 2, 15), 5, 2, 15)
                                \in 0 .. 2^21 - 1
        /\ \A g \in Finite : f <= g => Half(f) <= Half(g) /\ Bf16(f) <= Bf16(g)
        /\ \A g \in Finite : f <= g /\ Exponent(g) <= 134 => Fp8(f) <= Fp8(g)
  BY Zenon DEF Rounds, x
<1> QED BY <1>1, <1>2, <1>3, <1>4, <1>5, <1>6, <1>7, <1>8, Zenon

(* In the run: every float of it is rounded to the nearest number of each    *)
(* format, in the order of the floats (float_to_half, float_to_bf16,         *)
(* float_to_fp8_e4m3).                                                       *)
THEOREM RoundsInTheRun == AlgorithmsSpec => []RoundsToNearest
<1>1. AnyInput => RoundsToNearest
  <2> SUFFICES ASSUME AnyInput, input.kind = "float" PROVE RoundsToNearest
    BY DEF RoundsToNearest
  <2> DEFINE f == input.f
             x == Exponent(f) - 127
  <2>1. input \in FloatInputs
    BY Kinds
  <2>2. PICK e \in Exponents, m \in Edges, d \in {0, 1, 2^12 - 1} :
          f = Float(e, m) + d
    BY <2>1 DEF FloatInputs
  <2>3. e \in 0..254
    BY DEF Exponents
  <2>4. m + d \in 0 .. 2^23 - 1 /\ m \in Int /\ d \in Int
    BY DEF Edges
  <2>5. f \in Finite /\ f \in Nat
    BY <2>2, <2>3, <2>4 DEF Float, Finite
  <2> HIDE DEF f
  <2>6. Rounds(f)
    BY <2>5, RoundsEveryFloat
  <2>7. InfinityBits = 255 * 2^23
    BY FieldIs, Zenon
  <2>8. ASSUME NEW k \in {1, 2^12, 2^15, 2^20}, f + k < InfinityBits
        PROVE  Half(f) <= Half(f + k) /\ Bf16(f) <= Bf16(f + k)
    <3>1. f + k \in Finite /\ f <= f + k
      BY <2>5, <2>7, <2>8 DEF Finite
    <3> QED BY <2>6, <3>1, Zenon DEF Rounds
  <2>9. ASSUME x \in -127 .. 6
        PROVE  Fp8(f) <= Fp8(f + 2^19)
    <3>1. f \div 2^23 <= 133 /\ Exponent(f) = f \div 2^23
      BY <2>5, <2>9, Fields
    <3>2. f + 2^19 \in Finite /\ f <= f + 2^19 /\ (f + 2^19) \div 2^23 <= 134
      BY <2>5, <3>1 DEF Finite
    <3>3. Exponent(f + 2^19) <= 134
      BY <3>2, Fields
    <3> QED BY <2>6, <3>2, <3>3, Zenon DEF Rounds
  <2> QED BY <2>6, <2>8, <2>9, Zenon DEF RoundsToNearest, Rounds, f
<1>2. AnyInput /\ UNCHANGED input => AnyInput'
  BY DEF AnyInput
<1> QED BY <1>1, <1>2, PTL DEF AlgorithmsSpec, SameInput
-----------------------------------------------------------------------------
(* A number with bits to spare below is kept as it is.                       *)
LEMMA NearestOfMultiple ==
  ASSUME NEW n \in Nat, NEW gap \in Nat \ {0}
  PROVE  Nearest(n * gap, gap) = n /\ (n * gap) \div gap = n
<1>1. (n * gap) \div gap = n /\ (n * gap) % gap = 0
  <2> DEFINE q == (n * gap) \div gap
             r == (n * gap) % gap
  <2>1. n * gap \in Nat /\ n * gap = gap * q + r /\ r \in 0..(gap - 1) /\ q \in Nat
    <3>1. n * gap \in Nat
      OBVIOUS
    <3> QED BY <3>1, Quotient
  <2> HIDE DEF q, r
  <2>2. q = n
    <3>1. q < n => gap * q + gap <= n * gap
      BY <2>1, Multiples
    <3>2. q > n => n * gap + gap <= gap * q
      BY <2>1, Multiples
    <3> QED BY <2>1, <3>1, <3>2
  <2>3. r = 0
    BY <2>1, <2>2
  <2> QED BY <2>2, <2>3 DEF q, r
<1>2. ~Up(n * gap, gap)
  BY <1>1 DEF Up
<1> QED BY <1>1, <1>2 DEF Nearest

(* The normal numbers of each format.                                        *)
LEMMA HalfThereAndBack ==
  ASSUME NEW b \in 2^10 .. 31 * 2^10 - 1
  PROVE  Half(HalfValue(b)) = b
<1> DEFINE n == b + 112 * 2^10
           f == n * 2^13
<1>1. n \in Nat /\ f \in 0 .. 255 * 2^23 - 1 /\ f \div 2^23 \in 113..142 /\ n - 112 * 2^10 = b
      /\ 2^13 \in Nat \ {0}
  OBVIOUS
<1>2. HalfValue(b) = f
  BY HalfValueIs
<1> HIDE DEF n
<1>3. Nearest(f, 2^13) = n
  BY <1>1, NearestOfMultiple
<1> HIDE DEF f
<1>4. f \in Finite /\ Exponent(f) = f \div 2^23
  <2>1. f \in Finite
    BY <1>1 DEF Finite
  <2> QED BY <2>1, Fields
<1>5. Half(f) = Min({b, HalfInfinity})
  BY <1>1, <1>3, <1>4, HalfIs
<1>6. Min({b, HalfInfinity}) = b
  <2>1. b \in Int /\ HalfInfinity \in Int /\ b <= HalfInfinity
    BY DEF HalfInfinity
  <2> QED BY <2>1, MaxOfTwo
<1> QED BY <1>2, <1>5, <1>6

LEMMA Fp8ThereAndBack ==
  ASSUME NEW b \in 2^3 .. 15 * 2^3 - 1
  PROVE  Fp8(Fp8Value(b)) = b
<1> DEFINE n == b + 120 * 2^3
           f == n * 2^20
<1>1. n \in Nat /\ f \in 0 .. 255 * 2^23 - 1 /\ f \div 2^23 \in 121..134 /\ n - 120 * 2^3 = b
      /\ 2^20 \in Nat \ {0} /\ ~(b >= 120)
  OBVIOUS
<1>2. Fp8Value(b) = f
  BY Fp8ValueIs
<1> HIDE DEF n
<1>3. Nearest(f, 2^20) = n
  BY <1>1, NearestOfMultiple
<1> HIDE DEF f
<1>4. f \in Finite /\ Exponent(f) = f \div 2^23
  <2>1. f \in Finite
    BY <1>1 DEF Finite
  <2> QED BY <2>1, Fields
<1>5. Fp8(f) = b
  BY <1>1, <1>3, <1>4, Fp8Is
<1> QED BY <1>2, <1>5

LEMMA StructsThereAndBack ==
  /\ \A b \in 2^3 .. 2^7 - 1 : Fp8Struct(Fp8StructValue(b, 4, 3, 7), 4, 3, 7) = b
  /\ \A b \in 2^2 .. 2^7 - 1 : Fp8Struct(Fp8StructValue(b, 5, 2, 15), 5, 2, 15) = b
<1>1. ASSUME NEW b \in 2^3 .. 2^7 - 1
      PROVE  Fp8Struct(Fp8StructValue(b, 4, 3, 7), 4, 3, 7) = b
  <2> DEFINE f == (b + 120 * 2^3) * 2^20
  <2>1. f \in 0 .. 255 * 2^23 - 1 /\ f \div 2^23 \in 121..135 /\ f \div 2^20 - 120 * 2^3 = b
    OBVIOUS
  <2>2. Fp8StructValue(b, 4, 3, 7) = f
    BY E4M3ValueIs
  <2> HIDE DEF f
  <2>3. f \in Finite /\ Exponent(f) = f \div 2^23
    <3>1. f \in Finite
      BY <2>1 DEF Finite
    <3> QED BY <3>1, Fields
  <2> QED BY <2>1, <2>2, <2>3, StructIs
<1>2. ASSUME NEW b \in 2^2 .. 2^7 - 1
      PROVE  Fp8Struct(Fp8StructValue(b, 5, 2, 15), 5, 2, 15) = b
  <2> DEFINE f == (b + 112 * 2^2) * 2^21
  <2>1. f \in 0 .. 255 * 2^23 - 1 /\ f \div 2^23 \in 113..143 /\ f \div 2^21 - 112 * 2^2 = b
    OBVIOUS
  <2>2. Fp8StructValue(b, 5, 2, 15) = f
    BY E5M2ValueIs
  <2> HIDE DEF f
  <2>3. f \in Finite /\ Exponent(f) = f \div 2^23
    <3>1. f \in Finite
      BY <2>1 DEF Finite
    <3> QED BY <3>1, Fields
  <2> QED BY <2>1, <2>2, <2>3, StructIs
<1> QED BY <1>1, <1>2

(* A subnormal half and the shift that sets its bit 10.                      *)
LEMMA ShiftIs ==
  ASSUME NEW b \in 1 .. 2^10 - 1
  PROVE  \/ Shift(b, 10) = 1 /\ b \in 2^9 .. 2^10 - 1
         \/ Shift(b, 10) = 2 /\ b \in 2^8 .. 2^9 - 1
         \/ Shift(b, 10) = 3 /\ b \in 2^7 .. 2^8 - 1
         \/ Shift(b, 10) = 4 /\ b \in 2^6 .. 2^7 - 1
         \/ Shift(b, 10) = 5 /\ b \in 2^5 .. 2^6 - 1
         \/ Shift(b, 10) = 6 /\ b \in 2^4 .. 2^5 - 1
         \/ Shift(b, 10) = 7 /\ b \in 2^3 .. 2^4 - 1
         \/ Shift(b, 10) = 8 /\ b \in 2^2 .. 2^3 - 1
         \/ Shift(b, 10) = 9 /\ b \in 2^1 .. 2^2 - 1
         \/ Shift(b, 10) = 10 /\ b \in 2^0 .. 2^1 - 1
<1> DEFINE Sets(s) == b * 2^s \in 2^10 .. 2^(10 + 1) - 1
<1>1. /\ Sets(1) <=> b \in 2^9 .. 2^10 - 1
      /\ Sets(2) <=> b \in 2^8 .. 2^9 - 1
      /\ Sets(3) <=> b \in 2^7 .. 2^8 - 1
      /\ Sets(4) <=> b \in 2^6 .. 2^7 - 1
      /\ Sets(5) <=> b \in 2^5 .. 2^6 - 1
      /\ Sets(6) <=> b \in 2^4 .. 2^5 - 1
      /\ Sets(7) <=> b \in 2^3 .. 2^4 - 1
      /\ Sets(8) <=> b \in 2^2 .. 2^3 - 1
      /\ Sets(9) <=> b \in 2^1 .. 2^2 - 1
      /\ Sets(10) <=> b \in 2^0 .. 2^1 - 1
  OBVIOUS
<1>2. \/ b \in 2^9 .. 2^10 - 1 \/ b \in 2^8 .. 2^9 - 1 \/ b \in 2^7 .. 2^8 - 1
      \/ b \in 2^6 .. 2^7 - 1 \/ b \in 2^5 .. 2^6 - 1 \/ b \in 2^4 .. 2^5 - 1
      \/ b \in 2^3 .. 2^4 - 1 \/ b \in 2^2 .. 2^3 - 1 \/ b \in 2^1 .. 2^2 - 1
      \/ b \in 2^0 .. 2^1 - 1
  OBVIOUS
<1>3. Shift(b, 10) = CHOOSE s \in 1..10 : Sets(s)
  BY Zenon DEF Shift
<1> HIDE DEF Sets
<1>4. \E s \in 1..10 : Sets(s)
  <2>1. 1 \in 1..10 /\ 2 \in 1..10 /\ 3 \in 1..10 /\ 4 \in 1..10 /\ 5 \in 1..10
        /\ 6 \in 1..10 /\ 7 \in 1..10 /\ 8 \in 1..10 /\ 9 \in 1..10 /\ 10 \in 1..10
    OBVIOUS
  <2> QED BY <1>1, <1>2, <2>1
<1>5. Shift(b, 10) \in 1..10 /\ Sets(Shift(b, 10))
  BY <1>3, <1>4, Zenon
<1> QED BY <1>1, <1>5

(* A number e steps of one mantissa above the bias, and its fields.          *)
LEMMA FloatFields ==
  ASSUME NEW e \in 0..254, NEW m \in 0 .. 2^23 - 1
  PROVE  /\ Float(e, m) \in Finite
         /\ Exponent(Float(e, m)) = e /\ Mantissa(Float(e, m)) = m
<1> DEFINE f == e * 2^23 + m
<1>1. f \in 0 .. 255 * 2^23 - 1 /\ f \div 2^23 = e /\ f % 2^23 = m
  OBVIOUS
<1>2. Float(e, m) = f
  BY Zenon DEF Float
<1> HIDE DEF f
<1>3. f \in Finite
  BY <1>1 DEF Finite
<1> QED BY <1>1, <1>2, <1>3, Fields

LEMMA SubnormalThereAndBack ==
  ASSUME NEW b \in 1 .. 2^10 - 1
  PROVE  Half(HalfValue(b)) = b
<1> DEFINE s == Shift(b, 10)
           m == (b * 2^s - 2^10) * 2^(23 - 10)
           e == 1 - s - 15 + 127
<1>1. HalfValue(b) = Float(e, m)
  <2>1. b \div 2^10 = 0 /\ b \div 2^0 = b /\ b % 2^10 = b /\ 0 % 2^5 = 0
    OBVIOUS
  <2>2. Field(b, 10, 5) = 0 /\ Field(b, 0, 10) = b
    BY <2>1 DEF Field
  <2>3. b # 0 /\ 0 # 31
    OBVIOUS
  <2> QED BY <2>2, <2>3, Zenon DEF HalfValue, Widened
<1>2. /\ e \in 103..112 /\ m \in 0 .. 2^23 - 1
      /\ ((2^23 + m) \div 2^(1 - (e - 112))) \div 2^13 = b
  <2> HIDE DEF s
  <2>1. CASE s = 1 /\ b \in 2^9 .. 2^10 - 1
    BY <2>1
  <2>2. CASE s = 2 /\ b \in 2^8 .. 2^9 - 1
    BY <2>2
  <2>3. CASE s = 3 /\ b \in 2^7 .. 2^8 - 1
    BY <2>3
  <2>4. CASE s = 4 /\ b \in 2^6 .. 2^7 - 1
    BY <2>4
  <2>5. CASE s = 5 /\ b \in 2^5 .. 2^6 - 1
    BY <2>5
  <2>6. CASE s = 6 /\ b \in 2^4 .. 2^5 - 1
    BY <2>6
  <2>7. CASE s = 7 /\ b \in 2^3 .. 2^4 - 1
    BY <2>7
  <2>8. CASE s = 8 /\ b \in 2^2 .. 2^3 - 1
    BY <2>8
  <2>9. CASE s = 9 /\ b \in 2^1 .. 2^2 - 1
    BY <2>9
  <2>10. CASE s = 10 /\ b \in 2^0 .. 2^1 - 1
    BY <2>10
  <2> QED BY <2>1, <2>2, <2>3, <2>4, <2>5, <2>6, <2>7, <2>8, <2>9, <2>10, ShiftIs DEF s
<1> HIDE DEF e, m
<1>3. /\ Float(e, m) \in Finite /\ Exponent(Float(e, m)) = e /\ Mantissa(Float(e, m)) = m
  <2>1. e \in 0..254
    BY <1>2
  <2> QED BY <1>2, <2>1, FloatFields
<1>4. Half(Float(e, m)) = HalfTruncated(Float(e, m), e - 112)
  BY <1>2, <1>3, HalfIs
<1> QED BY <1>1, <1>2, <1>3, <1>4, Zenon DEF HalfTruncated

LEMMA EndsThereAndBack == Half(HalfValue(0)) = 0 /\ Half(HalfValue(HalfInfinity)) = HalfInfinity
<1>1. Half(HalfValue(0)) = 0
  <2>1. 0 \div 2^10 = 0 /\ 0 \div 2^0 = 0 /\ 0 % 2^10 = 0 /\ 0 % 2^5 = 0
    OBVIOUS
  <2>2. Field(0, 10, 5) = 0 /\ Field(0, 0, 10) = 0
    BY <2>1 DEF Field
  <2>3. 0 # 31
    OBVIOUS
  <2>4. HalfValue(0) = 0
    BY <2>2, <2>3, Zenon DEF HalfValue, Widened
  <2>5. 0 \in Finite /\ 0 \div 2^23 \in 0..102
    BY DEF Finite
  <2>6. Exponent(0) \in 0..102
    BY <2>5, Fields
  <2> QED BY <2>4, <2>5, <2>6, HalfIs
<1>2. Half(HalfValue(HalfInfinity)) = HalfInfinity
  <2> DEFINE h == 31 * 2^10
             f == 255 * 2^23
  <2>1. h \div 2^10 = 31 /\ h \div 2^0 = h /\ h % 2^10 = 0 /\ 31 % 2^5 = 31 /\ f + 0 = f
        /\ (f \div 2^23) % 2^8 = 255 /\ (f \div 2^0) % 2^23 = 0
    OBVIOUS
  <2>2. Field(h, 10, 5) = 31 /\ Field(h, 0, 10) = 0
    BY <2>1 DEF Field
  <2> HIDE DEF f
  <2>3. InfinityBits = f
    BY FieldIs, Zenon DEF f
  <2>4. HalfValue(h) = f
    BY <2>1, <2>2, <2>3, Zenon DEF HalfValue
  <2>5. Exponent(f) = 255 /\ Mantissa(f) = 0
    <3>1. Exponent(f) = (f \div 2^23) % 2^8 /\ Mantissa(f) = (f \div 2^0) % 2^23
      BY FieldIs, Zenon
    <3> QED BY <2>1, <3>1
  <2>6. Half(f) = HalfInfinity
    BY <2>5, Zenon DEF Half
  <2> QED BY <2>4, <2>6 DEF HalfInfinity
<1> QED BY <1>1, <1>2

(* The numbers of each format.                                               *)
NarrowReturns(b) ==
  /\ b <= HalfInfinity => Half(HalfValue(b)) = b
  /\ Bf16(Bf16Value(b)) = b /\ Bf16Truncated(Bf16Value(b)) = b
  /\ (b \in 8..127 /\ IsFp8Number(b)) => Fp8(Fp8Value(b)) = b
  /\ b \in 8..127 => Fp8Struct(Fp8StructValue(b, 4, 3, 7), 4, 3, 7) = b
  /\ b \in 4..127 => Fp8Struct(Fp8StructValue(b, 5, 2, 15), 5, 2, 15) = b

(* Whatever number a format holds is read as a float that is written as the  *)
(* same bits again: every half and every bfloat16, subnormals and infinity   *)
(* included, every normal E4M3 and both structs (mixed_precision.hpp,        *)
(* bf16_support.hpp, quantization_production.hpp).  NaNs are left out.       *)
THEOREM EveryNumberReturns == \A b \in 0 .. Bf16Infinity : NarrowReturns(b)
<1> SUFFICES ASSUME NEW b \in 0 .. Bf16Infinity PROVE NarrowReturns(b)
  OBVIOUS
<1>0. b \in Nat
  BY DEF Bf16Infinity
<1>1. ASSUME b <= HalfInfinity PROVE Half(HalfValue(b)) = b
  <2>1. HalfInfinity = 31 * 2^10 /\ b \in 0 .. HalfInfinity
    BY <1>0, <1>1 DEF HalfInfinity
  <2>2. \/ b = 0 \/ b = HalfInfinity
        \/ b \in 1 .. 2^10 - 1 \/ b \in 2^10 .. 31 * 2^10 - 1
    BY <2>1
  <2> QED BY <2>2, EndsThereAndBack, SubnormalThereAndBack, HalfThereAndBack
<1>2. Bf16(Bf16Value(b)) = b /\ Bf16Truncated(Bf16Value(b)) = b
  <2> DEFINE f == b * 2^16
  <2>1. f \in Nat /\ f \div 2^16 = b /\ f % 2^16 = 0 /\ ~(0 >= 2^15 + 1) /\ b + 0 = b
    BY <1>0
  <2> HIDE DEF f
  <2>2. Bf16(f) = b
    BY <2>1, Bf16Is
  <2> QED BY <2>1, <2>2 DEF f, Bf16Value, Bf16Truncated
<1>3. ASSUME b \in 8..127, IsFp8Number(b) PROVE Fp8(Fp8Value(b)) = b
  <2>1. Field(b, 3, 4) = (b \div 2^3) % 2^4
    BY Zenon DEF Field
  <2>2. b \in 2^3 .. 15 * 2^3 - 1
    BY <1>3, <2>1 DEF IsFp8Number
  <2> QED BY <2>2, Fp8ThereAndBack
<1>4. ASSUME b \in 8..127 PROVE Fp8Struct(Fp8StructValue(b, 4, 3, 7), 4, 3, 7) = b
  <2>1. b \in 2^3 .. 2^7 - 1
    BY <1>4
  <2> QED BY <2>1, StructsThereAndBack, Zenon
<1>5. ASSUME b \in 4..127 PROVE Fp8Struct(Fp8StructValue(b, 5, 2, 15), 5, 2, 15) = b
  <2>1. b \in 2^2 .. 2^7 - 1
    BY <1>5
  <2> QED BY <2>1, StructsThereAndBack, Zenon
<1> QED BY <1>1, <1>2, <1>3, <1>4, <1>5, Zenon DEF NarrowReturns
-----------------------------------------------------------------------------
(* A group of three bytes and its four characters.                           *)
Three(x, y, z) == x * 2^16 + y * 2^8 + z

Chars(t) ==
  ((t \div 2^18) % 2^6) * 2^18 + ((t \div 2^12) % 2^6) * 2^12
    + ((t \div 2^6) % 2^6) * 2^6 + ((t \div 2^0) % 2^6)
Bytes(t, x, y, z) ==
  (t \div 2^16) % 2^8 = x /\ (t \div 2^8) % 2^8 = y /\ (t \div 2^0) % 2^8 = z

LEMMA GroupOfThree ==
  ASSUME NEW x \in 0..255, NEW y \in 0..255, NEW z \in 0..255
  PROVE  Chars(Three(x, y, z)) = Three(x, y, z) /\ Bytes(Three(x, y, z), x, y, z)
<1> DEFINE t == Three(x, y, z)
           a == t \div 2^6
           b == t \div 2^12
           c == t \div 2^18
<1>1. t \in 0 .. 2^24 - 1
  BY DEF Three
<1>2. (t \div 2^16) % 2^8 = x /\ (t \div 2^8) % 2^8 = y /\ (t \div 2^0) % 2^8 = z
  <2>1. t = 2^16 * x + (y * 2^8 + z) /\ y * 2^8 + z \in 0 .. 2^16 - 1
        /\ t = 2^8 * (x * 2^8 + y) + z
    BY DEF Three
  <2> HIDE DEF t
  <2>2. t \div 2^16 = x /\ t \div 2^8 = x * 2^8 + y /\ t % 2^8 = z /\ t \div 2^0 = t
    BY <2>1
  <2>3. x % 2^8 = x /\ (x * 2^8 + y) % 2^8 = y
    OBVIOUS
  <2> QED BY <2>2, <2>3
<1> HIDE DEF t
<1>3. c \in 0 .. 2^6 - 1 /\ a \in Nat /\ b \in Nat /\ c % 2^6 = c /\ t \div 2^0 = t
  BY <1>1
<1>4. t = 2^6 * a + (t % 2^6) /\ a = 2^6 * b + (a % 2^6) /\ b = 2^6 * c + (b % 2^6)
      /\ t % 2^6 \in Nat /\ a % 2^6 \in Nat /\ b % 2^6 \in Nat
  BY <1>1
<1> HIDE DEF a, b, c
<1>5. c * 2^18 + (b % 2^6) * 2^12 + (a % 2^6) * 2^6 + (t % 2^6) = t
  BY <1>1, <1>3, <1>4
<1> QED BY <1>1, <1>2, <1>3, <1>4, <1>5 DEF t, a, b, c, Chars, Bytes

(* Base64: the characters of the whole groups, and the bytes read from them. *)
ByteOr0(bytes, i) == IF i <= Len(bytes) THEN bytes[i] ELSE 0
TripleOf(bytes, g) ==
  Three(ByteOr0(bytes, 3*g + 1), ByteOr0(bytes, 3*g + 2), ByteOr0(bytes, 3*g + 3))

LEMMA EncodedIs ==
  ASSUME NEW bytes \in Seq(0..255)
  PROVE  LET n == Len(bytes)
             cut == IF n % 3 = 0 THEN 0 ELSE 3 - (n % 3)
         IN  /\ Len(Encoded(bytes)) = 4 * ((n + 2) \div 3) - cut
             /\ \A c \in 1 .. 4 * ((n + 2) \div 3) - cut :
                  Encoded(bytes)[c]
                    = (TripleOf(bytes, (c - 1) \div 4) \div 2^(6 * (3 - ((c - 1) % 4)))) % 2^6
<1> DEFINE n == Len(bytes)
           cut == IF n % 3 = 0 THEN 0 ELSE 3 - (n % 3)
           m == 4 * ((n + 2) \div 3)
           Char(c) == (TripleOf(bytes, (c - 1) \div 4) \div 2^(6 * (3 - ((c - 1) % 4)))) % 2^6
           chars == [c \in 1..m |-> Char(c)]
<1>1. n \in Nat /\ m \in Nat /\ cut \in 0..2 /\ m - cut \in Nat /\ m - cut <= m
  <2> HIDE DEF n
  <2>1. n \in Nat
    BY DEF n
  <2>2. (n + 2) \div 3 \in Nat /\ cut \in 0..2 /\ (n # 0 => (n + 2) \div 3 >= 1)
        /\ (n = 0 => cut = 0)
    BY <2>1
  <2> HIDE DEF cut
  <2> QED BY <2>1, <2>2
<1>2. Encoded(bytes) = SubSeq(chars, 1, Len(chars) - cut)
  BY Zenon DEF Encoded, TripleOf, ByteOr0, Three
<1> DEFINE S == {Char(c) : c \in 1..m}
<1>3. chars \in Seq(S) /\ Len(chars) = m /\ \A c \in 1..m : chars[c] = Char(c) /\ chars[c] \in S
  <2> HIDE DEF Char, m
  <2>1. chars \in [1..m -> S] /\ \A c \in 1..m : chars[c] = Char(c) /\ chars[c] \in S
    BY Zenon
  <2> HIDE DEF chars, S
  <2> QED BY <1>1, <2>1
<1> HIDE DEF Char, chars, S, m, cut, n
<1>4. \A c \in 1..(m - cut) : chars[c] \in S
  <2>1. \A c \in 1..(m - cut) : c \in 1..m
    BY <1>1
  <2> QED BY <1>3, <2>1
<1>5. /\ Len(SubSeq(chars, 1, m - cut)) = m - cut
      /\ \A c \in 1..(m - cut) : SubSeq(chars, 1, m - cut)[c] = chars[c]
  BY <1>1, <1>3, <1>4, SubSeqProperties
<1>6. Len(Encoded(bytes)) = m - cut
  BY <1>2, <1>3, <1>5
<1>7. \A c \in 1..(m - cut) : Encoded(bytes)[c] = Char(c)
  BY <1>1, <1>2, <1>3, <1>5
<1> QED BY <1>6, <1>7, Zenon DEF Char, m, cut, n

LEMMA GroupDecoded ==
  ASSUME NEW bytes \in Seq(0..255), NEW g \in Nat, 3*g + 3 <= Len(bytes)
  PROVE  LET e == Encoded(bytes)
         IN  e[4*g + 1] * 2^18 + e[4*g + 2] * 2^12 + e[4*g + 3] * 2^6 + e[4*g + 4]
               = TripleOf(bytes, g)
<1> DEFINE n == Len(bytes)
           cut == IF n % 3 = 0 THEN 0 ELSE 3 - (n % 3)
           m == 4 * ((n + 2) \div 3) - cut
           e == Encoded(bytes)
           x == bytes[3*g + 1]
           y == bytes[3*g + 2]
           z == bytes[3*g + 3]
           t == Three(x, y, z)
<1>1. n \in Nat /\ 4*g + 4 <= m /\ m \in Nat
  <2> HIDE DEF n
  <2>1. n \in Nat /\ 3*g + 3 <= n
    BY DEF n
  <2>2. n = 3 * (n \div 3) + (n % 3) /\ n % 3 \in 0..2 /\ n \div 3 \in Nat
    BY <2>1
  <2>3. (n + 2) \div 3 = (n \div 3) + (IF n % 3 = 0 THEN 0 ELSE 1)
    BY <2>1, <2>2
  <2> QED BY <2>1, <2>2, <2>3
<1>2. \A c \in 1..m :
        e[c] = (TripleOf(bytes, (c - 1) \div 4) \div 2^(6 * (3 - ((c - 1) % 4)))) % 2^6
  BY EncodedIs, Zenon
<1> HIDE DEF m, e
<1>3. TripleOf(bytes, g) = t
  BY DEF TripleOf, ByteOr0
<1>4. x \in 0..255 /\ y \in 0..255 /\ z \in 0..255
  <2>1. 3*g + 1 \in 1..n /\ 3*g + 2 \in 1..n /\ 3*g + 3 \in 1..n
    BY <1>1
  <2>2. \A i \in 1..n : bytes[i] \in 0..255
    BY ElementOfSeq, Zenon
  <2> QED BY <2>1, <2>2, Zenon
<1> HIDE DEF x, y, z, t
<1>5. /\ e[4*g + 1] = (t \div 2^18) % 2^6 /\ e[4*g + 2] = (t \div 2^12) % 2^6
      /\ e[4*g + 3] = (t \div 2^6) % 2^6 /\ e[4*g + 4] = (t \div 2^0) % 2^6
  <2> DEFINE Place(c) == (c - 1) \div 4
             Power(c) == 6 * (3 - ((c - 1) % 4))
             Char(c) == (TripleOf(bytes, Place(c)) \div 2^Power(c)) % 2^6
  <2>1. /\ Place(4*g + 1) = g /\ Power(4*g + 1) = 18 /\ Place(4*g + 2) = g /\ Power(4*g + 2) = 12
        /\ Place(4*g + 3) = g /\ Power(4*g + 3) = 6 /\ Place(4*g + 4) = g /\ Power(4*g + 4) = 0
    OBVIOUS
  <2>2. 4*g + 1 \in 1..m /\ 4*g + 2 \in 1..m /\ 4*g + 3 \in 1..m /\ 4*g + 4 \in 1..m
    BY <1>1
  <2>3. \A c \in 1..m : e[c] = Char(c)
    BY <1>2, Zenon
  <2> HIDE DEF Place, Power
  <2> QED BY <1>3, <2>1, <2>2, <2>3, Zenon
<1>6. Chars(t) = t
  BY <1>4, GroupOfThree, Zenon DEF t
<1> QED BY <1>3, <1>5, <1>6, Zenon DEF e, Chars

(* Decoding gives back the bytes of the whole groups.                        *)
LEMMA WholeGroupsReturn ==
  ASSUME NEW bytes \in Seq(0..255)
  PROVE  LET m == Len(bytes) - (Len(bytes) % 3)
         IN  /\ Decoded(Encoded(bytes)) = SubSeq(bytes, 1, m)
             /\ Decoded(Encoded(bytes)) \in Seq(0..255) /\ Len(Decoded(Encoded(bytes))) = m
             /\ \A b \in 1..m : Decoded(Encoded(bytes))[b] = bytes[b]
<1> DEFINE n == Len(bytes)
           m == n - (n % 3)
           e == Encoded(bytes)
           Read(g) == e[4*g + 1] * 2^18 + e[4*g + 2] * 2^12 + e[4*g + 3] * 2^6 + e[4*g + 4]
           d == Decoded(e)
<1>1. n \in Nat /\ m \in 0..n /\ 3 * (Len(e) \div 4) = m
  <2>1. Len(e) = 4 * ((n + 2) \div 3) - (IF n % 3 = 0 THEN 0 ELSE 3 - (n % 3))
    BY EncodedIs, Zenon
  <2> HIDE DEF e, n
  <2>2. n \in Nat
    BY DEF n
  <2>3. n = 3 * (n \div 3) + (n % 3) /\ n % 3 \in 0..2 /\ n \div 3 \in Nat
    BY <2>2
  <2>4. (n + 2) \div 3 = (n \div 3) + (IF n % 3 = 0 THEN 0 ELSE 1)
    BY <2>2, <2>3
  <2> QED BY <2>1, <2>2, <2>3, <2>4
<1>2. d = [b \in 1 .. 3 * (Len(e) \div 4) |->
             (Read((b - 1) \div 3) \div 2^(8 * (2 - ((b - 1) % 3)))) % 2^8]
  BY Zenon DEF Decoded
<1>3. ASSUME NEW g \in Nat, 3*g + 3 <= n
      PROVE  Read(g) = Three(bytes[3*g + 1], bytes[3*g + 2], bytes[3*g + 3])
  <2>1. Read(g) = TripleOf(bytes, g)
    BY <1>3, GroupDecoded, Zenon
  <2> HIDE DEF Read, e
  <2>2. ByteOr0(bytes, 3*g + 1) = bytes[3*g + 1] /\ ByteOr0(bytes, 3*g + 2) = bytes[3*g + 2]
        /\ ByteOr0(bytes, 3*g + 3) = bytes[3*g + 3]
    BY <1>3 DEF ByteOr0
  <2> QED BY <2>1, <2>2 DEF TripleOf
<1> HIDE DEF Read, d, e
<1>4. ASSUME NEW b \in 1..m PROVE d[b] = bytes[b]
  <2> DEFINE g == (b - 1) \div 3
             x == bytes[3*g + 1]
             y == bytes[3*g + 2]
             z == bytes[3*g + 3]
  <2>1. g \in Nat /\ 3*g + 3 <= n /\ b - 1 = 3*g + ((b - 1) % 3) /\ (b - 1) % 3 \in 0..2
    <3> HIDE DEF n
    <3>1. b \in Nat /\ b >= 1 /\ b <= m /\ m = 3 * (n \div 3) /\ n \div 3 \in Nat /\ m <= n
      BY <1>1
    <3> HIDE DEF m
    <3> QED BY <1>1, <3>1
  <2>2. d[b] = (Read(g) \div 2^(8 * (2 - ((b - 1) % 3)))) % 2^8
    BY <1>1, <1>2, Zenon
  <2>3. Read(g) = Three(x, y, z)
    BY <1>3, <2>1, Zenon
  <2> HIDE DEF g
  <2>4. x \in 0..255 /\ y \in 0..255 /\ z \in 0..255
    <3>1. 3*g + 1 \in 1..n /\ 3*g + 2 \in 1..n /\ 3*g + 3 \in 1..n
      BY <1>1, <2>1
    <3> QED BY <3>1, ElementOfSeq, Zenon
  <2> HIDE DEF x, y, z
  <2>5. /\ (Read(g) \div 2^16) % 2^8 = x /\ (Read(g) \div 2^8) % 2^8 = y
        /\ (Read(g) \div 2^0) % 2^8 = z
    <3>1. Bytes(Three(x, y, z), x, y, z)
      BY <2>4, GroupOfThree, Zenon
    <3> DEFINE t == Read(g)
    <3>2. t = Three(x, y, z)
      BY <2>3, Zenon
    <3> HIDE DEF t
    <3>3. Bytes(t, x, y, z)
      BY <3>1, <3>2, Zenon
    <3> QED BY <3>3, Zenon DEF Bytes, t
  <2>6. CASE (b - 1) % 3 = 0
    <3>1. 8 * (2 - 0) = 16 /\ b = 3*g + 1
      BY <2>1, <2>6
    <3> QED BY <2>2, <2>5, <2>6, <3>1, Zenon DEF x
  <2>7. CASE (b - 1) % 3 = 1
    <3>1. 8 * (2 - 1) = 8 /\ b = 3*g + 2
      BY <2>1, <2>7
    <3> QED BY <2>2, <2>5, <2>7, <3>1, Zenon DEF y
  <2>8. CASE (b - 1) % 3 = 2
    <3>1. 8 * (2 - 2) = 0 /\ b = 3*g + 3
      BY <2>1, <2>8
    <3> QED BY <2>2, <2>5, <2>8, <3>1, Zenon DEF z
  <2> QED BY <2>1, <2>6, <2>7, <2>8
<1>5. d \in Seq(0..255) /\ Len(d) = m
  <2>1. d = [b \in 1..m |-> bytes[b]]
    BY <1>1, <1>2, <1>4
  <2>2. \A b \in 1..m : bytes[b] \in 0..255
    <3> HIDE DEF m
    <3>1. \A b \in 1..m : b \in 1..n
      BY <1>1
    <3> QED BY <3>1, ElementOfSeq, Zenon
  <2> HIDE DEF m
  <2>3. m \in Nat
    BY <1>1
  <2> QED BY <2>1, <2>2, <2>3
<1>6. d = SubSeq(bytes, 1, m)
  <2>1. SubSeq(bytes, 1, m) \in Seq(0..255) /\ Len(SubSeq(bytes, 1, m)) = m
        /\ \A b \in 1..m : SubSeq(bytes, 1, m)[b] = bytes[b]
    <3> HIDE DEF m
    <3>1. \A b \in 1..m : bytes[b] \in 0..255
      <4>1. \A b \in 1..m : b \in 1..n
        BY <1>1
      <4> QED BY <4>1, ElementOfSeq, Zenon
    <3>2. m \in Int /\ (IF 1 <= m THEN m - 1 + 1 ELSE 0) = m /\ m - 1 + 1 = m
          /\ \A b \in 1..m : 1 + b - 1 = b
      BY <1>1
    <3> QED BY <3>1, <3>2, SubSeqProperties
  <2> HIDE DEF m
  <2> QED BY <1>4, <1>5, <2>1
<1> QED BY <1>4, <1>5, <1>6, Zenon DEF d, e

(* The digits of a number and the number read from them.                     *)
Reads(f, ds) == f = [k \in 0..Len(ds) |-> IF k = 0 THEN 0 ELSE 10 * f[k - 1] + ds[k] - 48]

LEMMA DigitsAre ==
  ASSUME NEW n \in 0..99
  PROVE  /\ Digits(n) \in Seq(0..255) /\ Len(Digits(n)) \in 1..2
         /\ \A k \in 1..Len(Digits(n)) : Digits(n)[k] \in DigitBytes
         /\ Number(Digits(n)) = n
<1> DEFINE ds == Digits(n)
           q == n \div 10
           r == n % 10
<1>1. n = 10 * q + r /\ q \in 0..9 /\ r \in 0..9
  OBVIOUS
<1>2. Number(ds) = (CHOOSE f : Reads(f, ds))[Len(ds)]
  BY Zenon DEF Number, Reads
<1>3. CASE n < 10
  <2>1. ds = <<48 + n>>
    BY <1>3 DEF Digits
  <2>2. ds \in Seq(0..255) /\ Len(ds) = 1 /\ ds[1] = 48 + n /\ 48 + n \in DigitBytes
    BY <1>3, <2>1 DEF DigitBytes
  <2> HIDE DEF ds
  <2> DEFINE g == [k \in 0..1 |-> IF k = 0 THEN 0 ELSE n]
  <2>3. Reads(g, ds)
    <3>1. \A k \in 0..1 : g[k] = IF k = 0 THEN 0 ELSE 10 * g[k - 1] + ds[k] - 48
      BY <2>2
    <3> HIDE DEF g
    <3>2. g = [k \in 0..1 |-> g[k]]
      BY DEF g
    <3>3. g = [k \in 0..1 |-> IF k = 0 THEN 0 ELSE 10 * g[k - 1] + ds[k] - 48]
      BY <3>1, <3>2
    <3> QED BY <2>2, <3>3 DEF Reads
  <2> DEFINE f == CHOOSE h : Reads(h, ds)
  <2>4. Reads(f, ds)
    BY <2>3, Zenon
  <2> HIDE DEF f, g
  <2>5. f[1] = 10 * f[0] + ds[1] - 48 /\ f[0] = 0
    BY <2>2, <2>4 DEF Reads
  <2>6. f[1] = n
    BY <2>2, <2>5
  <2> QED BY <1>2, <2>2, <2>6 DEF f, ds
<1>4. CASE ~(n < 10)
  <2>1. ds = <<48 + q, 48 + r>>
    BY <1>4 DEF Digits
  <2>2. ds \in Seq(0..255) /\ Len(ds) = 2 /\ ds[1] = 48 + q /\ ds[2] = 48 + r
        /\ 48 + q \in DigitBytes /\ 48 + r \in DigitBytes
    BY <1>1, <2>1 DEF DigitBytes
  <2> HIDE DEF ds, q, r
  <2> DEFINE g == [k \in 0..2 |-> IF k = 0 THEN 0 ELSE IF k = 1 THEN q ELSE n]
  <2>3. Reads(g, ds)
    <3>1. \A k \in 0..2 : g[k] = IF k = 0 THEN 0 ELSE 10 * g[k - 1] + ds[k] - 48
      BY <1>1, <2>2
    <3> HIDE DEF g
    <3>2. g = [k \in 0..2 |-> g[k]]
      BY DEF g
    <3>3. g = [k \in 0..2 |-> IF k = 0 THEN 0 ELSE 10 * g[k - 1] + ds[k] - 48]
      BY <3>1, <3>2
    <3> QED BY <2>2, <3>3 DEF Reads
  <2> DEFINE f == CHOOSE h : Reads(h, ds)
  <2>4. Reads(f, ds)
    BY <2>3, Zenon
  <2> HIDE DEF f, g
  <2>5. f[2] = 10 * f[1] + ds[2] - 48 /\ f[1] = 10 * f[0] + ds[1] - 48 /\ f[0] = 0
    BY <2>2, <2>4 DEF Reads
  <2>6. f[2] = n
    <3>1. f[1] = q
      BY <1>1, <2>2, <2>5
    <3> QED BY <1>1, <2>2, <2>5, <3>1
  <2>7. \A k \in 1..2 : ds[k] \in DigitBytes
    BY <2>2
  <2> QED BY <1>2, <2>2, <2>6, <2>7 DEF f, ds
<1> QED BY <1>3, <1>4

IsRest(r, s, k) ==
  /\ r \in Seq(0..255) /\ Len(r) = Len(s) - k
  /\ \A i \in 1..(Len(s) - k) : r[i] = s[k + i]
IsFront(r, s, k) ==
  /\ r \in Seq(0..255) /\ Len(r) = k
  /\ \A i \in 1..k : r[i] = s[i]

(* What stands behind the first of a mark, and the accepted bytes in front.  *)
LEMMA BehindIs ==
  ASSUME NEW s \in Seq(0..255), NEW mark, NEW k \in 1..Len(s), s[k] = mark,
         \A j \in 1..(k - 1) : s[j] # mark
  PROVE  IsRest(Behind(s, mark), s, k)
<1> DEFINE First1(x) == s[x] = mark /\ mark \notin {s[j] : j \in 1..(x - 1)}
           c == CHOOSE x \in 1..Len(s) : First1(x)
<1>1. First1(k)
  OBVIOUS
<1>2. c \in 1..Len(s) /\ First1(c)
  BY <1>1, Zenon
<1>3. \A j \in 1..(c - 1) : s[j] # mark
  BY <1>2, Zenon
<1>4. c = k
  <2>1. c < k => c \in 1..(k - 1)
    BY <1>2
  <2>2. k < c => k \in 1..(c - 1)
    BY <1>2
  <2> QED BY <1>2, <1>3, <2>1, <2>2
<1>5. Behind(s, mark) = SubSeq(s, 1 + c, Len(s))
  BY Zenon DEF Behind
<1> HIDE DEF c, First1
<1>6. Behind(s, mark) = SubSeq(s, 1 + k, Len(s)) /\ Len(s) \in Nat
  BY <1>4, <1>5
<1>7. \A i \in 1 + k .. Len(s) : s[i] \in 0..255
  <2>1. \A i \in 1 + k .. Len(s) : i \in 1..Len(s)
    OBVIOUS
  <2> QED BY <2>1, ElementOfSeq, Zenon
<1>8. 1 + k \in Int /\ Len(s) \in Int /\ Len(s) - (1 + k) + 1 = Len(s) - k
      /\ (IF 1 + k <= Len(s) THEN Len(s) - (1 + k) + 1 ELSE 0) = Len(s) - k
      /\ \A i \in 1..(Len(s) - k) : (1 + k) + i - 1 = k + i
  BY <1>6
<1> DEFINE a == 1 + k
           l == Len(s)
           t == SubSeq(s, a, l)
<1>9. a \in Int /\ l \in Int /\ \A i \in a..l : s[i] \in 0..255
  BY <1>7, <1>8
<1> HIDE DEF a, l
<1>10. /\ t \in Seq(0..255) /\ Len(t) = IF a <= l THEN l - a + 1 ELSE 0
       /\ \A i \in 1..(l - a + 1) : t[i] = s[a + i - 1]
  <2>1. t \in Seq(0..255)
    BY <1>9, SubSeqProperties
  <2>2. Len(t) = IF a <= l THEN l - a + 1 ELSE 0
    BY <1>9, SubSeqProperties
  <2>3. \A i \in 1..(l - a + 1) : t[i] = s[a + i - 1]
    BY <1>9, SubSeqProperties
  <2> QED BY <2>1, <2>2, <2>3
<1> HIDE DEF t
<1>11. /\ Len(t) = Len(s) - k
       /\ \A i \in 1..(Len(s) - k) : t[i] = s[k + i]
  BY <1>8, <1>10 DEF a, l
<1>12. Behind(s, mark) = t
  BY <1>6 DEF t, a, l
<1> QED BY <1>10, <1>11, <1>12, Zenon DEF IsRest

LEMMA LeadingIs ==
  ASSUME NEW s \in Seq(0..255), NEW accepted, NEW k \in 0..(Len(s) - 1),
         \A j \in 1..k : s[j] \in accepted, s[k + 1] \notin accepted
  PROVE  IsFront(Leading(s, accepted), s, k)
<1> DEFINE Ends(x) == /\ \A j \in 1..x : s[j] \in accepted
                      /\ x < Len(s) => s[x + 1] \notin accepted
           c == CHOOSE x \in 0..Len(s) : Ends(x)
<1>1. Ends(k) /\ k \in 0..Len(s) /\ Len(s) \in Nat
  OBVIOUS
<1>2. c \in 0..Len(s) /\ Ends(c)
  BY <1>1, Zenon
<1>3. c = k
  <2>1. c < k => c + 1 \in 1..k /\ c < Len(s)
    BY <1>1, <1>2
  <2>2. k < c => k + 1 \in 1..c
    BY <1>1, <1>2
  <2>3. ~(c < k)
    BY <1>2, <2>1
  <2>4. ~(k < c)
    BY <1>2, <2>2
  <2> HIDE DEF c
  <2> QED BY <1>1, <1>2, <2>3, <2>4
<1>4. Leading(s, accepted) = SubSeq(s, 1, c)
  BY Zenon DEF Leading
<1> HIDE DEF c, Ends
<1>5. \A i \in 1..k : s[i] \in 0..255
  <2>1. \A i \in 1..k : i \in 1..Len(s)
    BY <1>1
  <2> QED BY <2>1, ElementOfSeq, Zenon
<1>6. k \in Int /\ k - 1 + 1 = k /\ (IF 1 <= k THEN k - 1 + 1 ELSE 0) = k
      /\ \A i \in 1..k : 1 + i - 1 = i
  OBVIOUS
<1> DEFINE t == Leading(s, accepted)
<1>7. /\ t \in Seq(0..255) /\ Len(t) = k
      /\ \A i \in 1..k : t[i] = s[i]
  BY <1>3, <1>4, <1>5, <1>6, SubSeqProperties
<1> QED BY <1>7, Zenon DEF IsFront

(* The bytes of a user: none is a quote or stands for one of the texts.      *)
UserBytes == (0..255) \ {Quote, Sub, Exp_, Iat}

LEMMA Marks ==
  /\ Sub \in 0..255 /\ Quote \in 0..255 /\ Exp_ \in 0..255 /\ Iat \in 0..255 /\ Brace \in 0..255
  /\ Sub # Quote /\ Sub # Exp_ /\ Quote # Exp_ /\ Quote # Iat
  /\ Iat \notin DigitBytes
BY DEF Sub, Quote, Exp_, Iat, Brace, DigitBytes

IsJoin(j, s, t, B) ==
  /\ j \in Seq(B) /\ Len(j) = Len(s) + Len(t)
  /\ \A k \in 1..Len(s) : j[k] = s[k]
  /\ \A k \in 1..Len(t) : j[Len(s) + k] = t[k]

(* The elements of a concatenation: those of the first part, then the second's. *)
LEMMA ConcatIs ==
  ASSUME NEW B, NEW s \in Seq(B), NEW t \in Seq(B)
  PROVE  IsJoin(s \o t, s, t, B)
<1>0. Len(s) \in Nat /\ Len(t) \in Nat
  OBVIOUS
<1>1. s \o t \in Seq(B) /\ Len(s \o t) = Len(s) + Len(t)
      /\ \A k \in 1..(Len(s) + Len(t)) : (s \o t)[k] = IF k <= Len(s) THEN s[k] ELSE t[k - Len(s)]
  BY ConcatProperties
<1> DEFINE m == Len(s)
           n == Len(t)
           j == s \o t
<1>2. m \in Nat /\ n \in Nat
      /\ \A k \in 1..(m + n) : j[k] = IF k <= m THEN s[k] ELSE t[k - m]
  BY <1>0, <1>1
<1> HIDE DEF m, n, j
<1>3. ASSUME NEW k \in 1..m PROVE j[k] = s[k]
  <2>1. k \in 1..(m + n) /\ k <= m
    BY <1>2
  <2> QED BY <1>2, <2>1
<1>4. ASSUME NEW k \in 1..n PROVE j[m + k] = t[k]
  <2>1. m + k \in 1..(m + n) /\ ~(m + k <= m) /\ (m + k) - m = k
    BY <1>2
  <2> QED BY <1>2, <2>1
<1> QED BY <1>1, <1>3, <1>4 DEF m, n, j, IsJoin

(* The user, the expiry and the marks around them, and how much follows.     *)
Spells(p, user, digits, more) ==
  LET u == Len(user)
      d == Len(digits)
  IN  /\ p \in Seq(0..255) /\ Len(p) >= u + more + d
      /\ p[1] = Sub /\ p[u + 2] = Quote /\ p[u + 3] = Exp_ /\ p[u + 4 + d] = Iat
      /\ \A k \in 1..u : p[1 + k] = user[k]
      /\ \A k \in 1..d : p[u + 3 + k] = digits[k]

LEMMA PayloadIs ==
  ASSUME NEW user \in Seq(UserBytes), NEW exp \in 0..99, NEW iat \in 0..99
  PROVE  Spells(Payload(user, exp, iat), user, Digits(exp), 6)
<1> DEFINE B == 0..255
           u == Len(user)
           D == Digits(exp)
           J == Digits(iat)
           Q == <<Quote, Exp_>>
           d == Len(D)
           a == <<Sub>> \o user
           b == a \o Q
           c == b \o D
           e == c \o <<Iat>>
           f == e \o J
           p == f \o <<Brace>>
<1>1. user \in Seq(B) /\ u \in Nat
  BY DEF UserBytes
<1>2. D \in Seq(B) /\ J \in Seq(B) /\ d \in 1..2 /\ Len(J) \in 1..2
  BY DigitsAre, Zenon
<1>3. <<Sub>> \in Seq(B) /\ Len(<<Sub>>) = 1 /\ <<Sub>>[1] = Sub
      /\ Q \in Seq(B) /\ Len(Q) = 2
      /\ Q[1] = Quote /\ Q[2] = Exp_
      /\ <<Iat>> \in Seq(B) /\ Len(<<Iat>>) = 1 /\ <<Iat>>[1] = Iat
      /\ <<Brace>> \in Seq(B) /\ Len(<<Brace>>) = 1
  BY Marks
<1>4. p = Payload(user, exp, iat)
  BY Zenon DEF Payload
<1>40. Len(D) = d /\ Len(user) = u
  OBVIOUS
<1> HIDE DEF B, u, d, D, J, Q
<1>5. /\ a \in Seq(B) /\ Len(a) = 1 + u /\ a[1] = Sub
      /\ \A k \in 1..u : a[1 + k] = user[k]
  <2>1. /\ a \in Seq(B) /\ Len(a) = Len(<<Sub>>) + Len(user)
        /\ \A k \in 1..Len(<<Sub>>) : a[k] = <<Sub>>[k]
        /\ \A k \in 1..Len(user) : a[Len(<<Sub>>) + k] = user[k]
    <3>1. IsJoin(a, <<Sub>>, user, B)
      BY <1>1, <1>3, ConcatIs, Zenon
    <3> HIDE DEF a
    <3> QED BY <3>1, Zenon DEF IsJoin
  <2>2. /\ Len(a) = 1 + u /\ \A k \in 1..1 : a[k] = <<Sub>>[k]
        /\ \A k \in 1..u : a[1 + k] = user[k]
    BY <1>3, <1>40, <2>1, Zenon
  <2> HIDE DEF a
  <2>3. 1 \in 1..1
    OBVIOUS
  <2> QED BY <1>3, <2>1, <2>2, <2>3, Zenon
<1> HIDE DEF a
<1>6. /\ b \in Seq(B) /\ Len(b) = u + 3
      /\ \A k \in 1..(1 + u) : b[k] = a[k]
      /\ b[u + 2] = Quote /\ b[u + 3] = Exp_
  <2>1. /\ b \in Seq(B) /\ Len(b) = Len(a) + Len(Q)
        /\ \A k \in 1..Len(a) : b[k] = a[k]
        /\ \A k \in 1..Len(Q) : b[Len(a) + k] = Q[k]
    <3>1. IsJoin(b, a, Q, B)
      BY <1>3, <1>5, ConcatIs, Zenon
    <3> HIDE DEF b
    <3> QED BY <3>1, Zenon DEF IsJoin
  <2> HIDE DEF b
  <2>2. /\ Len(b) = 1 + u + 2 /\ \A k \in 1..(1 + u) : b[k] = a[k]
        /\ \A k \in 1..2 : b[1 + u + k] = Q[k]
    BY <1>3, <1>5, <2>1, Zenon
  <2>3. 1 \in 1..2 /\ 2 \in 1..2 /\ 1 + u + 1 = u + 2 /\ 1 + u + 2 = u + 3
    BY <1>1
  <2>4. b[1 + u + 1] = Q[1] /\ b[1 + u + 2] = Q[2]
    BY <2>2, <2>3, Zenon
  <2> QED BY <1>3, <2>1, <2>2, <2>3, <2>4, Zenon
<1> HIDE DEF b
<1>7. /\ c \in Seq(B) /\ Len(c) = u + 3 + d
      /\ \A k \in 1..(u + 3) : c[k] = b[k]
      /\ \A k \in 1..d : c[u + 3 + k] = D[k]
  <2>1. IsJoin(c, b, D, B)
    BY <1>2, <1>6, <1>40, ConcatIs, Zenon
  <2> HIDE DEF c
  <2> QED BY <1>1, <1>2, <1>3, <1>6, <1>40, <2>1, Zenon DEF IsJoin
<1> HIDE DEF c
<1>8. /\ e \in Seq(B) /\ Len(e) = u + 3 + d + 1
      /\ \A k \in 1..(u + 3 + d) : e[k] = c[k]
      /\ e[u + 3 + d + 1] = Iat
  <2>1. /\ e \in Seq(B) /\ Len(e) = Len(c) + Len(<<Iat>>)
        /\ \A k \in 1..Len(c) : e[k] = c[k]
        /\ \A k \in 1..Len(<<Iat>>) : e[Len(c) + k] = <<Iat>>[k]
    <3>1. IsJoin(e, c, <<Iat>>, B)
      BY <1>3, <1>7, ConcatIs, Zenon
    <3> HIDE DEF e
    <3> QED BY <3>1, Zenon DEF IsJoin
  <2> HIDE DEF e
  <2>2. 1 \in 1..1
    OBVIOUS
  <2> QED BY <1>3, <1>7, <2>1, <2>2, Zenon
<1> HIDE DEF e
<1>9. /\ f \in Seq(B) /\ Len(f) = u + 3 + d + 1 + Len(J)
      /\ \A k \in 1..(u + 3 + d + 1) : f[k] = e[k]
  <2>1. IsJoin(f, e, J, B)
    BY <1>2, <1>8, ConcatIs, Zenon
  <2> HIDE DEF f
  <2> QED BY <1>1, <1>2, <1>3, <1>6, <1>40, <2>1, <1>8, Zenon DEF IsJoin
<1> HIDE DEF f
<1>10. /\ p \in Seq(B) /\ Len(p) = Len(f) + 1
       /\ \A k \in 1..Len(f) : p[k] = f[k]
  <2>1. IsJoin(p, f, <<Brace>>, B)
    BY <1>3, <1>9, ConcatIs, Zenon
  <2> HIDE DEF p
  <2> QED BY <1>1, <1>2, <1>3, <1>6, <1>40, <2>1, <1>9, Zenon DEF IsJoin
<1> HIDE DEF p
<1>100. Len(f) >= u + 3 + d + 1 /\ Len(f) \in Nat /\ Len(p) >= u + 6 + d
  <2>1. Len(f) \in Nat /\ Len(J) \in 1..2
    BY <1>2, <1>9
  <2>2. u \in Nat /\ d \in 1..2 /\ Len(f) = u + 3 + d + 1 + Len(J) /\ Len(p) = Len(f) + 1
    BY <1>1, <1>2, <1>9, <1>10, Zenon
  <2> DEFINE x == Len(f)
             y == Len(p)
             z == Len(J)
  <2> HIDE DEF x, y, z
  <2>3. x \in Nat /\ z \in 1..2 /\ x = u + 3 + d + 1 + z /\ y = x + 1
    BY <2>1, <2>2, Zenon DEF x, y, z
  <2>4. x >= u + 3 + d + 1 /\ x \in Nat /\ y >= u + 6 + d
    BY <2>2, <2>3
  <2> QED BY <2>4 DEF x, y
<1>11. ASSUME NEW k \in 1..(u + 3 + d + 1) PROVE p[k] = e[k]
  <2>1. k \in 1..Len(f)
    BY <1>1, <1>2, <1>100
  <2> QED BY <1>9, <1>10, <2>1, Zenon
<1>12. ASSUME NEW k \in 1..(u + 3 + d) PROVE p[k] = c[k]
  <2>1. k \in 1..(u + 3 + d + 1)
    BY <1>1, <1>2
  <2> QED BY <1>8, <1>11, <2>1, Zenon
<1>13. ASSUME NEW k \in 1..(u + 3) PROVE p[k] = b[k]
  <2>1. k \in 1..(u + 3 + d)
    BY <1>1, <1>2
  <2> QED BY <1>7, <1>12, <2>1, Zenon
<1>14. ASSUME NEW k \in 1..(1 + u) PROVE p[k] = a[k]
  <2>1. k \in 1..(u + 3)
    BY <1>1
  <2> QED BY <1>6, <1>13, <2>1, Zenon
<1>15. p[1] = Sub /\ p[u + 2] = Quote /\ p[u + 3] = Exp_ /\ p[u + 4 + d] = Iat
  <2>1. 1 \in 1..(1 + u) /\ u + 2 \in 1..(u + 3) /\ u + 3 \in 1..(u + 3)
        /\ u + 3 + d + 1 \in 1..(u + 3 + d + 1) /\ u + 3 + d + 1 = u + 4 + d
    BY <1>1, <1>2
  <2> QED BY <1>5, <1>6, <1>8, <1>11, <1>13, <1>14, <2>1, Zenon
<1>16. ASSUME NEW k \in 1..u PROVE p[1 + k] = user[k]
  <2>1. 1 + k \in 1..(1 + u)
    BY <1>1
  <2> QED BY <1>5, <1>14, <2>1, Zenon
<1>17. ASSUME NEW k \in 1..d PROVE p[u + 3 + k] = D[k]
  <2>1. u + 3 + k \in 1..(u + 3 + d)
    BY <1>1, <1>2
  <2> QED BY <1>7, <1>12, <2>1, Zenon
<1>18. Len(p) >= u + 6 + d
  BY <1>100
<1>19. Spells(p, user, D, 6)
  BY <1>10, <1>15, <1>16, <1>17, <1>18, Zenon DEF Spells, u, d, B
<1> QED BY <1>4, <1>19, Zenon DEF D

(* What is read of a payload: what its last cut group drops is behind the    *)
(* mark that ends the expiry.                                                *)
Json(user, exp, iat) == Decoded(Encoded(Payload(user, exp, iat)))

LEMMA JsonIs ==
  ASSUME NEW user \in Seq(UserBytes), NEW exp \in 0..99, NEW iat \in 0..99
  PROVE  Spells(Json(user, exp, iat), user, Digits(exp), 4)
<1> DEFINE p == Payload(user, exp, iat)
           j == Json(user, exp, iat)
           u == Len(user)
           D == Digits(exp)
           d == Len(D)
           n == Len(p)
           m == n - (n % 3)
<1>1. /\ p \in Seq(0..255) /\ n >= u + 6 + d
      /\ p[1] = Sub /\ p[u + 2] = Quote /\ p[u + 3] = Exp_ /\ p[u + 4 + d] = Iat
      /\ \A k \in 1..u : p[1 + k] = user[k]
      /\ \A k \in 1..d : p[u + 3 + k] = D[k]
  <2>1. Spells(p, user, D, 6)
    BY PayloadIs, Zenon
  <2> HIDE DEF p, D
  <2> QED BY <2>1, Zenon DEF Spells
<1>21. d \in 1..2
  BY DigitsAre, Zenon
<1>2. u \in Nat /\ d \in 1..2
  BY <1>21
<1>3. n \in Nat
  BY <1>1
<1>4. j \in Seq(0..255) /\ Len(j) = m /\ \A k \in 1..m : j[k] = p[k]
  BY <1>1, WholeGroupsReturn, Zenon DEF Json
<1> HIDE DEF p, j, u, d, D, n
<1>5. m \in Nat /\ m >= u + 4 + d
  BY <1>1, <1>2, <1>3
<1> HIDE DEF m
<1>6. ASSUME NEW k \in 1..(u + 4 + d) PROVE j[k] = p[k]
  <2>1. k \in 1..m
    BY <1>2, <1>5
  <2> QED BY <1>4, <2>1, Zenon
<1>7. j[1] = Sub /\ j[u + 2] = Quote /\ j[u + 3] = Exp_ /\ j[u + 4 + d] = Iat
  <2>1. 1 \in 1..(u + 4 + d) /\ u + 2 \in 1..(u + 4 + d) /\ u + 3 \in 1..(u + 4 + d)
        /\ u + 4 + d \in 1..(u + 4 + d)
    BY <1>2
  <2> QED BY <1>1, <1>6, <2>1, Zenon
<1>8. ASSUME NEW k \in 1..u PROVE j[1 + k] = user[k]
  <2>1. 1 + k \in 1..(u + 4 + d)
    BY <1>2
  <2> QED BY <1>1, <1>6, <2>1, Zenon
<1>9. ASSUME NEW k \in 1..d PROVE j[u + 3 + k] = D[k]
  <2>1. u + 3 + k \in 1..(u + 4 + d)
    BY <1>2
  <2> QED BY <1>1, <1>6, <2>1, Zenon
<1>10. Len(j) >= u + 4 + d
  BY <1>4, <1>5, Zenon
<1>11. Spells(j, user, D, 4)
  BY <1>4, <1>7, <1>8, <1>9, <1>10, Zenon DEF Spells, u, d
<1> QED BY <1>11, Zenon DEF j, D

ReadsExpiry(j, digits) ==
  Contains(j, Exp_) /\ Leading(Behind(j, Exp_), DigitBytes) = digits

LEMMA ExpiryRead ==
  ASSUME NEW user \in Seq(UserBytes), NEW exp \in 0..99, NEW iat \in 0..99
  PROVE  ReadsExpiry(Json(user, exp, iat), Digits(exp))
<1> DEFINE j == Json(user, exp, iat)
           u == Len(user)
           D == Digits(exp)
           d == Len(D)
           r == Behind(j, Exp_)
           l == Leading(r, DigitBytes)
<1>1. /\ j \in Seq(0..255) /\ Len(j) >= u + 4 + d
      /\ j[1] = Sub /\ j[u + 2] = Quote /\ j[u + 3] = Exp_ /\ j[u + 4 + d] = Iat
      /\ \A k \in 1..u : j[1 + k] = user[k]
      /\ \A k \in 1..d : j[u + 3 + k] = D[k]
  <2>1. Spells(j, user, D, 4)
    BY JsonIs, Zenon
  <2> HIDE DEF j, D
  <2> QED BY <2>1, Zenon DEF Spells
<1>20. Len(j) \in Nat
  BY <1>1
<1>2. D \in Seq(0..255) /\ d \in 1..2 /\ \A k \in 1..d : D[k] \in DigitBytes
  BY DigitsAre, Zenon
<1>3. u \in Nat /\ \A k \in 1..u : user[k] \in UserBytes
  OBVIOUS
<1> HIDE DEF j, u, D, d
<1>4. u + 3 \in 1..Len(j)
  <2> DEFINE m == Len(j)
  <2>1. m \in Nat /\ m >= u + 4 + d /\ u \in Nat /\ d \in 1..2
    BY <1>1, <1>2, <1>20, <1>3, Zenon
  <2> HIDE DEF m
  <2>2. u + 3 \in 1..m
    BY <2>1
  <2> QED BY <2>2, Zenon DEF m
<1>5. ASSUME NEW k \in 1..((u + 3) - 1) PROVE j[k] # Exp_
  <2>1. CASE k = 1
    BY <1>1, <2>1, Marks
  <2>2. CASE k = u + 2
    BY <1>1, <2>2, Marks
  <2>3. CASE k # 1 /\ k # u + 2
    <3>1. k - 1 \in 1..u /\ 1 + (k - 1) = k
      BY <1>3, <2>3
    <3>2. j[k] = user[k - 1] /\ user[k - 1] \in UserBytes
      BY <1>1, <1>3, <3>1, Zenon
    <3> QED BY <3>2 DEF UserBytes
  <2> QED BY <2>1, <2>2, <2>3
<1>6. /\ r \in Seq(0..255) /\ Len(r) = Len(j) - (u + 3)
      /\ \A i \in 1..(Len(j) - (u + 3)) : r[i] = j[(u + 3) + i]
  <2>1. IsRest(r, j, u + 3)
    BY <1>1, <1>4, <1>5, BehindIs, Zenon
  <2> HIDE DEF r
  <2> QED BY <2>1, Zenon DEF IsRest
<1> HIDE DEF r
<1>7. d \in 0..(Len(r) - 1) /\ d + 1 \in 1..(Len(j) - (u + 3)) /\ (u + 3) + (d + 1) = u + 4 + d
  BY <1>1, <1>2, <1>3, <1>6
<1>8. ASSUME NEW k \in 1..d PROVE r[k] = D[k]
  <2>1. k \in 1..(Len(j) - (u + 3))
    BY <1>2, <1>7, <1>6, <1>1
  <2> QED BY <1>1, <1>6, <2>1, Zenon
<1>9. r[d + 1] \notin DigitBytes
  <2>1. r[d + 1] = j[(u + 3) + (d + 1)]
    BY <1>6, <1>7, Zenon
  <2>2. r[d + 1] = Iat
    BY <2>1, <1>1, <1>7, Zenon
  <2> QED BY <2>2, Marks, Zenon
<1>10. \A k \in 1..d : r[k] \in DigitBytes
  BY <1>2, <1>8, Zenon
<1>11. l \in Seq(0..255) /\ Len(l) = d /\ \A i \in 1..d : l[i] = r[i]
  <2>1. IsFront(l, r, d)
    BY <1>6, <1>7, <1>9, <1>10, LeadingIs, Zenon
  <2> HIDE DEF l
  <2> QED BY <2>1, Zenon DEF IsFront
<1> HIDE DEF l
<1>12. \A i \in 1..Len(l) : l[i] = D[i]
  BY <1>8, <1>11, Zenon
<1>13. Len(l) = Len(D)
  BY <1>11, Zenon DEF d
<1>14. l = D
  BY <1>2, <1>11, <1>12, <1>13, SeqEqual, Zenon
<1>15. Contains(j, Exp_)
  BY <1>1, <1>4, Zenon DEF Contains
<1>16. ReadsExpiry(j, D)
  BY <1>14, <1>15, Zenon DEF l, r, ReadsExpiry
<1> QED BY <1>16, Zenon DEF j, D

ReadsUser(j, user) ==
  LET rest == Behind(j, Sub)
  IN  Contains(j, Sub) /\ Contains(rest, Quote)
      /\ Leading(rest, (0..255) \ {Quote}) = user
LEMMA UserRead ==
  ASSUME NEW user \in Seq(UserBytes), NEW exp \in 0..99, NEW iat \in 0..99
  PROVE  ReadsUser(Json(user, exp, iat), user)
<1> DEFINE j == Json(user, exp, iat)
           u == Len(user)
           D == Digits(exp)
           d == Len(D)
           r == Behind(j, Sub)
           A == (0..255) \ {Quote}
           l == Leading(r, A)
<1>1. /\ j \in Seq(0..255) /\ Len(j) >= u + 4 + d
      /\ j[1] = Sub /\ j[u + 2] = Quote /\ j[u + 3] = Exp_ /\ j[u + 4 + d] = Iat
      /\ \A k \in 1..u : j[1 + k] = user[k]
      /\ \A k \in 1..d : j[u + 3 + k] = D[k]
  <2>1. Spells(j, user, D, 4)
    BY JsonIs, Zenon
  <2> HIDE DEF j, D
  <2> QED BY <2>1, Zenon DEF Spells
<1>20. Len(j) \in Nat
  BY <1>1
<1>2. d \in 1..2
  BY DigitsAre, Zenon
<1>3. u \in Nat /\ \A k \in 1..u : user[k] \in UserBytes
  OBVIOUS
<1> HIDE DEF j, u, D, d
<1>4. 1 \in 1..Len(j) /\ \A k \in 1..(1 - 1) : j[k] # Sub
  BY <1>1, <1>2, <1>3
<1>5. /\ r \in Seq(0..255) /\ Len(r) = Len(j) - 1
      /\ \A i \in 1..(Len(j) - 1) : r[i] = j[1 + i]
  <2>1. IsRest(r, j, 1)
    BY <1>1, <1>4, BehindIs, Zenon
  <2> HIDE DEF r
  <2> QED BY <2>1, Zenon DEF IsRest
<1> HIDE DEF r
<1>6. u \in 0..(Len(r) - 1) /\ u + 1 \in 1..(Len(j) - 1) /\ 1 + (u + 1) = u + 2 /\ u + 1 \in 1..Len(r)
  <2> DEFINE m == Len(j)
             n == Len(r)
  <2>1. m \in Nat /\ m >= u + 4 + d /\ n = m - 1
    BY <1>1, <1>20, <1>5, Zenon
  <2>2. u \in Nat /\ d \in 1..2
    BY <1>2, <1>3, Zenon
  <2> HIDE DEF m, n
  <2>3. u \in 0..(n - 1) /\ u + 1 \in 1..(m - 1) /\ 1 + (u + 1) = u + 2 /\ u + 1 \in 1..n
    BY <2>1, <2>2
  <2> QED BY <2>3, Zenon DEF m, n
<1>7. ASSUME NEW k \in 1..u PROVE r[k] = user[k]
  <2>1. k \in 1..(Len(j) - 1)
    BY <1>1, <1>3, <1>6
  <2> QED BY <1>1, <1>5, <2>1, Zenon
<1>8. r[u + 1] = Quote
  BY <1>1, <1>5, <1>6, Zenon
<1>9. r[u + 1] \notin A
  BY <1>8, Zenon
<1>10. ASSUME NEW k \in 1..u PROVE r[k] \in A
  <2>1. r[k] \in UserBytes
    BY <1>3, <1>7, Zenon
  <2> QED BY <2>1, Zenon DEF UserBytes
<1> HIDE DEF A
<1>11. l \in Seq(0..255) /\ Len(l) = u /\ \A i \in 1..u : l[i] = r[i]
  <2>1. IsFront(l, r, u)
    BY <1>5, <1>6, <1>9, <1>10, LeadingIs, Zenon
  <2> HIDE DEF l
  <2> QED BY <2>1, Zenon DEF IsFront
<1> HIDE DEF l
<1>12. \A i \in 1..Len(l) : l[i] = user[i]
  BY <1>7, <1>11, Zenon
<1>13. Len(l) = Len(user) /\ user \in Seq(0..255)
  BY <1>11 DEF u, UserBytes
<1>14. l = user
  BY <1>11, <1>12, <1>13, SeqEqual, Zenon
<1>15. Contains(j, Sub)
  BY <1>1, <1>4, Zenon DEF Contains
<1>16. Contains(r, Quote)
  BY <1>6, <1>8, Zenon DEF Contains
<1>17. ReadsUser(j, user)
  BY <1>14, <1>15, <1>16, Zenon DEF l, A, r, ReadsUser
<1> QED BY <1>17, Zenon DEF j

(* JWTAuth: whatever the key, the user (with no quote in it, which the code  *)
(* would not escape) and the times (of two digits, as Digits writes them),   *)
(* base64 gives back the whole groups of the payload, and what it drops is   *)
(* neither the user nor the expiry: a token is valid for its key until its   *)
(* expiry, for no other key, and names its user.                             *)
THEOREM TokensReturn ==
  ASSUME NEW user \in Seq(UserBytes), NEW key, NEW other, other # key,
         NEW now \in Nat, NEW life \in Nat, now + life <= 99
  PROVE  LET token == CreateToken(user, key, now, life)
             bytes == Payload(user, now + life, now)
         IN  /\ Decoded(Encoded(bytes)) = SubSeq(bytes, 1, Len(bytes) - (Len(bytes) % 3))
             /\ \A later \in 0..life : Validates(token, key, now + later) <=> later < life
             /\ \A later \in Nat : ~Validates(token, other, later)
             /\ GetUser(token) = user
<1> DEFINE token == CreateToken(user, key, now, life)
           exp == now + life
           bytes == Payload(user, exp, now)
           j == Json(user, exp, now)
<1>1. exp \in 0..99 /\ now \in 0..99
  OBVIOUS
<1>2. /\ token.payload = Encoded(bytes) /\ token.signature = <<key, token.payload>>
  BY DEF CreateToken
<1>3. bytes \in Seq(0..255)
  <2>1. Spells(bytes, user, Digits(exp), 6)
    BY <1>1, PayloadIs, Zenon
  <2> HIDE DEF bytes
  <2> QED BY <2>1, Zenon DEF Spells
<1>4. Decoded(Encoded(bytes)) = SubSeq(bytes, 1, Len(bytes) - (Len(bytes) % 3))
  BY <1>3, WholeGroupsReturn, Zenon
<1>5. Decoded(token.payload) = j
  BY <1>2, Zenon DEF Json
<1> HIDE DEF token, j, exp
<1>6. Contains(j, Exp_) /\ Leading(Behind(j, Exp_), DigitBytes) = Digits(exp)
  <2>1. ReadsExpiry(j, Digits(exp))
    BY <1>1, ExpiryRead, Zenon DEF j
  <2> QED BY <2>1, Zenon DEF ReadsExpiry
<1>7. Contains(j, Sub) /\ Contains(Behind(j, Sub), Quote)
      /\ Leading(Behind(j, Sub), (0..255) \ {Quote}) = user
  <2>1. ReadsUser(j, user)
    BY <1>1, UserRead, Zenon DEF j
  <2> QED BY <2>1, Zenon DEF ReadsUser
<1>8. Digits(exp) # <<>> /\ Number(Digits(exp)) = exp
  <2>1. Len(Digits(exp)) \in 1..2 /\ Number(Digits(exp)) = exp
    BY <1>1, DigitsAre, Zenon
  <2> DEFINE D == Digits(exp)
  <2>2. Len(D) \in 1..2
    BY <2>1, Zenon
  <2> HIDE DEF D
  <2>3. Len(<<>>) = 0 /\ 0 \notin 1..2
    OBVIOUS
  <2>4. D # <<>>
    BY <2>2, <2>3, Zenon
  <2> QED BY <2>1, <2>4, Zenon DEF D
<1>9. ASSUME NEW t PROVE Validates(token, key, t) <=> t < exp
  BY <1>2, <1>5, <1>6, <1>8, Zenon DEF Validates
<1>10. ASSUME NEW later \in 0..life PROVE Validates(token, key, now + later) <=> later < life
  <2>1. (now + later < exp) <=> later < life
    BY DEF exp
  <2> QED BY <1>9, <2>1, Zenon
<1>11. ASSUME NEW later \in Nat PROVE ~Validates(token, other, later)
  <2>1. <<key, token.payload>> # <<other, token.payload>>
    OBVIOUS
  <2> QED BY <1>2, <2>1, Zenon DEF Validates
<1>12. GetUser(token) = user
  BY <1>5, <1>7, Zenon DEF GetUser
<1> QED BY <1>4, <1>10, <1>11, <1>12, Zenon DEF token, exp

(* In the run: every number of it returns in every format that holds it, and *)
(* every token of it is valid until its expiry, for its own key, and names   *)
(* its user.                                                                 *)
THEOREM WhatIsWrittenIsRead == AlgorithmsSpec => []FormatsRoundTrip
<1>1. ASSUME AnyInput, input.kind = "narrow" PROVE NarrowReturns(input.bits)
  <2>1. input \in NarrowInputs
    BY <1>1, Kinds
  <2>2. input.bits \in 0 .. Bf16Infinity
    BY <2>1 DEF NarrowInputs
  <2> QED BY <2>2, EveryNumberReturns, Zenon
<1>2. ASSUME AnyInput, input.kind = "token"
      PROVE  LET token == CreateToken(input.user, "key", input.now, input.life)
                 bytes == Payload(input.user, input.now + input.life, input.now)
             IN  /\ Decoded(Encoded(bytes)) = SubSeq(bytes, 1, Len(bytes) - (Len(bytes) % 3))
                 /\ \A later \in 0 .. input.life :
                       Validates(token, "key", input.now + later) <=> later < input.life
                 /\ ~Validates(token, "other", input.now)
                 /\ GetUser(token) = input.user
  <2> DEFINE user == input.user
             now == input.now
             life == input.life
             T == {0, 97, 255}
  <2>1. input \in TokenInputs
    BY <1>2, Kinds
  <2>2. user \in UNION {[1 .. n -> T] : n \in 0 .. 4} /\ now \in {1, 9, 42} /\ life \in {1, 24}
    BY <2>1 DEF TokenInputs
  <2> HIDE DEF user, now, life
  <2>3. PICK n \in 0..4 : user \in [1..n -> T]
    BY <2>2
  <2>4. T \subseteq UserBytes
    BY DEF UserBytes, Quote, Sub, Exp_, Iat
  <2> HIDE DEF T
  <2>5. user \in Seq(UserBytes)
    BY <2>3, <2>4
  <2>6. now \in Nat /\ life \in Nat /\ now + life <= 99 /\ "other" # "key"
    BY <2>2
  <2>7. /\ Decoded(Encoded(Payload(user, now + life, now)))
             = SubSeq(Payload(user, now + life, now), 1,
                      Len(Payload(user, now + life, now)) - (Len(Payload(user, now + life, now)) % 3))
        /\ \A later \in 0..life :
             Validates(CreateToken(user, "key", now, life), "key", now + later) <=> later < life
        /\ \A later \in Nat : ~Validates(CreateToken(user, "key", now, life), "other", later)
        /\ GetUser(CreateToken(user, "key", now, life)) = user
    BY <2>5, <2>6, TokensReturn, Zenon
  <2> QED BY <2>6, <2>7, Zenon DEF user, now, life
<1>3. AnyInput => FormatsRoundTrip
  BY <1>1, <1>2, Zenon DEF FormatsRoundTrip, NarrowReturns
<1>4. AnyInput /\ [SameInput]_input => AnyInput'
  BY DEF AnyInput, SameInput
<1> QED BY <1>3, <1>4, PTL DEF AlgorithmsSpec
=============================================================================
