--------------------- MODULE ContinuousBatching_proofs ----------------------
(***************************************************************************)
(* The batch limit, the order of admission, the attention mask and who     *)
(* gets which token of ContinuousBatching, for every set of requests, batch *)
(* size and length limit.                                                  *)
(***************************************************************************)
EXTENDS ContinuousBatching, SequenceTheorems, WellFoundedInduction, TLAPS

(* What most proofs need of a request; its position may be any number.       *)
Record == [id : Ids, pos : Nat, finished : BOOLEAN, foreign : BOOLEAN]

Shape ==
  /\ pending \in Seq(Record) /\ active \in Seq(Record)
  /\ arrived \in Seq(Ids) /\ admitted \in Seq(Ids)

(* FirstComeFirstServed relates pairs of active requests: a single one says   *)
(* nothing of itself, and the next to join must come after it.               *)
Known == \A i \in DOMAIN active : \E m \in DOMAIN admitted : admitted[m] = active[i].id

IInv == Shape /\ FirstComeFirstServed /\ Known /\ BatchWithinLimit

LEMMA IdsOfSeq ==
  ASSUME NEW s \in Seq(Record)
  PROVE  /\ IdsOf(s) \in Seq(Ids) /\ Len(IdsOf(s)) = Len(s)
         /\ \A i \in 1..Len(s) : IdsOf(s)[i] = s[i].id
<1>1. DOMAIN s = 1..Len(s) /\ Len(s) \in Nat /\ \A i \in 1..Len(s) : s[i] \in Record
  OBVIOUS
<1>2. \A i \in 1..Len(s) : s[i].id \in Ids
  BY <1>1 DEF Record
<1>3. IdsOf(s) \in [1..Len(s) -> Ids]
  BY <1>1, <1>2 DEF IdsOf
<1> QED BY <1>1, <1>3 DEF IdsOf

(* How many requests join, and what stays.                                   *)
LEMMA JoiningFits ==
  ASSUME Shape, BatchWithinLimit
  PROVE  /\ Joining \in 0..Len(pending) /\ Len(pending) \in Nat
         /\ Joining <= MaxBatch - Len(active) /\ Len(active) \in Nat
         /\ Joining = Len(pending) \/ Joining = MaxBatch - Len(active)
         /\ SubSeq(pending, 1, Joining) \in Seq(Record)
         /\ Len(SubSeq(pending, 1, Joining)) = Joining
         /\ \A i \in 1..Joining : SubSeq(pending, 1, Joining)[i] = pending[i]
         /\ SubSeq(pending, Joining + 1, Len(pending)) \in Seq(Record)
         /\ Len(SubSeq(pending, Joining + 1, Len(pending))) = Len(pending) - Joining
         /\ \A i \in 1..(Len(pending) - Joining) :
              SubSeq(pending, Joining + 1, Len(pending))[i] = pending[Joining + i]
<1>1. /\ Len(pending) \in Nat /\ Len(active) \in Nat /\ MaxBatch \in Nat
      /\ Len(active) <= MaxBatch /\ pending \in Seq(Record)
  BY BatchAssumption DEF Shape, BatchWithinLimit
<1>2. /\ Joining \in 0..Len(pending) /\ Joining <= MaxBatch - Len(active)
      /\ Joining = Len(pending) \/ Joining = MaxBatch - Len(active)
  BY <1>1 DEF Joining
<1> DEFINE J == Joining
           L == Len(pending)
<1> HIDE DEF J
<1>3. J \in 0..L /\ L \in Nat
  BY <1>1, <1>2 DEF J
<1>4. /\ SubSeq(pending, 1, J) \in Seq(Record)
      /\ Len(SubSeq(pending, 1, J)) = J
      /\ \A i \in 1..J : SubSeq(pending, 1, J)[i] = pending[i]
  BY <1>1, <1>3
<1>5. /\ SubSeq(pending, J + 1, L) \in Seq(Record)
      /\ Len(SubSeq(pending, J + 1, L)) = L - J
      /\ \A i \in 1..(L - J) : SubSeq(pending, J + 1, L)[i] = pending[J + i]
  BY <1>1, <1>3
<1> QED BY <1>1, <1>2, <1>4, <1>5 DEF J

(* IdsOf distributes over concatenation.                                     *)
LEMMA IdsOfConcat ==
  ASSUME NEW s \in Seq(Record), NEW t \in Seq(Record)
  PROVE  IdsOf(s \o t) = IdsOf(s) \o IdsOf(t)
<1>1. /\ s \o t \in Seq(Record) /\ Len(s \o t) = Len(s) + Len(t)
      /\ \A i \in 1..(Len(s) + Len(t)) :
           (s \o t)[i] = IF i <= Len(s) THEN s[i] ELSE t[i - Len(s)]
      /\ Len(s) \in Nat /\ Len(t) \in Nat
  BY ConcatProperties, LenProperties
<1>2. /\ IdsOf(s) \in Seq(Ids) /\ Len(IdsOf(s)) = Len(s)
      /\ \A i \in 1..Len(s) : IdsOf(s)[i] = s[i].id
  BY IdsOfSeq
<1>3. /\ IdsOf(t) \in Seq(Ids) /\ Len(IdsOf(t)) = Len(t)
      /\ \A i \in 1..Len(t) : IdsOf(t)[i] = t[i].id
  BY IdsOfSeq
<1>4. /\ IdsOf(s \o t) \in Seq(Ids) /\ Len(IdsOf(s \o t)) = Len(s) + Len(t)
      /\ \A i \in 1..(Len(s) + Len(t)) : IdsOf(s \o t)[i] = (s \o t)[i].id
  BY <1>1, IdsOfSeq
<1>5. /\ IdsOf(s) \o IdsOf(t) \in Seq(Ids)
      /\ Len(IdsOf(s) \o IdsOf(t)) = Len(s) + Len(t)
      /\ \A i \in 1..(Len(s) + Len(t)) :
           (IdsOf(s) \o IdsOf(t))[i]
             = IF i <= Len(s) THEN IdsOf(s)[i] ELSE IdsOf(t)[i - Len(s)]
  <2> DEFINE a == IdsOf(s)
             b == IdsOf(t)
  <2>1. a \in Seq(Ids) /\ b \in Seq(Ids) /\ Len(a) = Len(s) /\ Len(b) = Len(t)
    BY <1>2, <1>3
  <2> HIDE DEF a, b
  <2>2. /\ a \o b \in Seq(Ids) /\ Len(a \o b) = Len(a) + Len(b)
        /\ \A i \in 1..(Len(a) + Len(b)) : (a \o b)[i] = IF i <= Len(a) THEN a[i] ELSE b[i - Len(a)]
    BY <2>1, ConcatProperties
  <2>3. /\ a \o b \in Seq(Ids) /\ Len(a \o b) = Len(s) + Len(t)
        /\ \A i \in 1..(Len(s) + Len(t)) : (a \o b)[i] = IF i <= Len(s) THEN a[i] ELSE b[i - Len(s)]
    BY <2>1, <2>2
  <2> QED BY <2>3 DEF a, b
<1>6. ASSUME NEW i \in 1..(Len(s) + Len(t))
      PROVE  IdsOf(s \o t)[i] = (IdsOf(s) \o IdsOf(t))[i]
  <2>1. CASE i <= Len(s)
    <3>1. i \in 1..Len(s)
      BY <1>1, <2>1
    <3>2. (s \o t)[i] = s[i]
      BY <1>1, <2>1
    <3> QED BY <1>2, <1>4, <1>5, <2>1, <3>1, <3>2
  <2>2. CASE ~(i <= Len(s))
    <3>1. i - Len(s) \in 1..Len(t)
      BY <1>1, <2>2
    <3> QED BY <1>1, <1>3, <1>4, <1>5, <2>2, <3>1
  <2> QED BY <2>1, <2>2
<1> QED BY <1>4, <1>5, <1>6, SeqEqual

(* A step that keeps the order of the active requests, and admits nobody,    *)
(* keeps them in the order of admission.  f tells where each one was.        *)
LEMMA OrderKept ==
  ASSUME Shape, FirstComeFirstServed, Known, active' \in Seq(Record), admitted' = admitted,
         NEW f,
         \A i \in 1..Len(active') :
           f[i] \in 1..Len(active) /\ active'[i].id = active[f[i]].id,
         \A i, j \in 1..Len(active') : i < j => f[i] < f[j]
  PROVE  /\ Known'
         /\ \A i, j \in DOMAIN active' : i < j =>
              \E m, n \in DOMAIN admitted' :
                m < n /\ admitted'[m] = active'[i].id /\ admitted'[n] = active'[j].id
<1>1. DOMAIN active = 1..Len(active) /\ DOMAIN active' = 1..Len(active')
  BY LenProperties DEF Shape
<1>2. Known'
  BY <1>1 DEF Known
<1>3. ASSUME NEW i \in DOMAIN active', NEW j \in DOMAIN active', i < j
      PROVE  \E m, n \in DOMAIN admitted' :
               m < n /\ admitted'[m] = active'[i].id /\ admitted'[n] = active'[j].id
  <2>1. f[i] \in DOMAIN active /\ f[j] \in DOMAIN active /\ f[i] < f[j]
    BY <1>1, <1>3
  <2>2. PICK m, n \in DOMAIN admitted :
          m < n /\ admitted[m] = active[f[i]].id /\ admitted[n] = active[f[j]].id
    BY <2>1 DEF FirstComeFirstServed
  <2> QED BY <1>1, <2>2
<1> QED BY <1>2, <1>3

-----------------------------------------------------------------------------
LEMMA InitInv == Init => IInv
<1> SUFFICES ASSUME Init PROVE IInv
  OBVIOUS
<1>1. <<>> \in Seq(Record) /\ <<>> \in Seq(Ids) /\ Len(<<>>) = 0
  OBVIOUS
<1>2. Shape /\ BatchWithinLimit
  BY <1>1, BatchAssumption DEF Init, Shape, BatchWithinLimit
<1>3. active = <<>> /\ DOMAIN active = {}
  BY DEF Init
<1>4. IdsOf(pending) = <<>>
  BY IdsOfSeq, EmptySeq, <1>1 DEF Init
<1>5. arrived = admitted \o IdsOf(pending)
  BY <1>1, <1>4, ConcatEmptySeq DEF Init
<1> QED BY <1>2, <1>3, <1>5 DEF IInv, FirstComeFirstServed, Known

LEMMA AddRequestInv ==
  ASSUME IInv, NEW id \in Ids, AddRequest(id) PROVE IInv'
<1> DEFINE r == NewRequest(id)
<1>1. r \in Record /\ r.id = id
  BY DEF NewRequest, Record
<1>2. /\ pending' = Append(pending, r) /\ arrived' = Append(arrived, id)
      /\ active' = active /\ admitted' = admitted
  BY DEF AddRequest
<1>3. /\ pending \in Seq(Record) /\ arrived \in Seq(Ids) /\ admitted \in Seq(Ids)
      /\ arrived = admitted \o IdsOf(pending)
  BY DEF IInv, Shape, FirstComeFirstServed
<1> HIDE DEF r
<1>4. <<r>> \in Seq(Record) /\ Len(<<r>>) = 1 /\ <<r>>[1] = r
  BY <1>1
<1>5. IdsOf(<<r>>) = <<id>>
  <2>1. /\ IdsOf(<<r>>) \in Seq(Ids) /\ Len(IdsOf(<<r>>)) = 1
        /\ \A i \in 1..1 : IdsOf(<<r>>)[i] = <<r>>[i].id
    BY <1>4, IdsOfSeq
  <2>2. <<id>> \in Seq(Ids) /\ Len(<<id>>) = 1 /\ <<id>>[1] = id
    OBVIOUS
  <2>3. \A i \in 1..1 : IdsOf(<<r>>)[i] = <<id>>[i]
    BY <1>1, <1>4, <2>1, <2>2
  <2> QED BY <2>1, <2>2, <2>3, SeqEqual
<1>6. IdsOf(pending') = IdsOf(pending) \o <<id>>
  <2>1. pending' = pending \o <<r>>
    BY <1>1, <1>2, <1>3, AppendIsConcat
  <2>2. IdsOf(pending \o <<r>>) = IdsOf(pending) \o IdsOf(<<r>>)
    BY ONLY <1>3, <1>4, IdsOfConcat
  <2> QED BY <1>5, <2>1, <2>2
<1>7. arrived' = admitted' \o IdsOf(pending')
  <2>1. IdsOf(pending) \in Seq(Ids) /\ <<id>> \in Seq(Ids)
    BY <1>3, IdsOfSeq
  <2>2. arrived' = arrived \o <<id>>
    BY <1>2, <1>3, AppendIsConcat
  <2>3. (admitted \o IdsOf(pending)) \o <<id>> = admitted \o (IdsOf(pending) \o <<id>>)
    BY <1>3, <2>1, ConcatAssociative, SMTT(30)
  <2> QED BY <1>2, <1>3, <1>6, <2>2, <2>3
<1>8. Shape'
  BY <1>1, <1>2, <1>3 DEF IInv, Shape
<1> QED BY <1>2, <1>7, <1>8 DEF IInv, FirstComeFirstServed, Known, BatchWithinLimit

(* The new requests go behind the active ones, and into admitted in the same *)
(* order.                                                                    *)
LEMMA ScheduleNextInv ==
  ASSUME IInv, ScheduleNext PROVE IInv'
<1> DEFINE in == SubSeq(pending, 1, Joining)
           rest == SubSeq(pending, Joining + 1, Len(pending))
           A == Len(active)
           D == Len(admitted)
<1>1. /\ active' = active \o in /\ pending' = rest
      /\ admitted' = admitted \o IdsOf(in) /\ arrived' = arrived
  BY DEF ScheduleNext
<1>2. /\ pending \in Seq(Record) /\ active \in Seq(Record)
      /\ arrived \in Seq(Ids) /\ admitted \in Seq(Ids)
      /\ arrived = admitted \o IdsOf(pending)
  BY DEF IInv, Shape, FirstComeFirstServed
<1>3. /\ Joining \in 0..Len(pending) /\ Len(pending) \in Nat
      /\ Joining <= MaxBatch - A
      /\ in \in Seq(Record) /\ rest \in Seq(Record)
      /\ Len(in) = Joining
  BY JoiningFits DEF IInv
<1>4. pending = in \o rest
  <2>1. 1 \in 1..(Len(pending) + 1) /\ Joining \in (1 - 1)..Len(pending)
        /\ Len(pending) \in Joining..Len(pending)
    BY <1>3
  <2>2. in \o rest = SubSeq(pending, 1, Len(pending))
    BY <1>2, <2>1, ConcatAdjacentSubSeq
  <2> QED BY <1>2, <2>2, SubSeqFull
<1> HIDE DEF in, rest
<1>5. IdsOf(in) \in Seq(Ids) /\ Len(IdsOf(in)) = Joining /\ IdsOf(rest) \in Seq(Ids)
      /\ \A i \in 1..Joining : IdsOf(in)[i] = in[i].id
  BY <1>3, IdsOfSeq
<1>6. arrived' = admitted' \o IdsOf(pending')
  <2>1. IdsOf(pending) = IdsOf(in) \o IdsOf(rest)
    BY <1>3, <1>4, IdsOfConcat
  <2>2. (admitted \o IdsOf(in)) \o IdsOf(rest) = admitted \o (IdsOf(in) \o IdsOf(rest))
    <3>1. admitted \in Seq(Ids) /\ IdsOf(in) \in Seq(Ids) /\ IdsOf(rest) \in Seq(Ids)
      BY <1>2, <1>5
    <3> DEFINE first == IdsOf(in)
               second == IdsOf(rest)
    <3>2. first \in Seq(Ids) /\ second \in Seq(Ids)
      BY <3>1
    <3> HIDE DEF first, second
    <3>3. (admitted \o first) \o second = admitted \o (first \o second)
      BY <3>1, <3>2, ConcatAssociative, SMTT(30)
    <3> QED BY <3>3 DEF first, second
  <2> QED BY <1>1, <1>2, <2>1, <2>2
<1>7. /\ active' \in Seq(Record) /\ Len(active') = A + Joining
      /\ \A i \in 1..(A + Joining) : active'[i] = IF i <= A THEN active[i] ELSE in[i - A]
      /\ A \in Nat /\ DOMAIN active = 1..A /\ DOMAIN active' = 1..(A + Joining)
  <2>1. /\ active \o in \in Seq(Record) /\ Len(active \o in) = Len(active) + Len(in)
        /\ \A i \in 1..(Len(active) + Len(in)) :
             (active \o in)[i] = IF i <= Len(active) THEN active[i] ELSE in[i - Len(active)]
    BY <1>2, <1>3, ConcatProperties
  <2>2. Len(active') = A + Joining /\ active' \in Seq(Record)
    BY <1>1, <1>3, <2>1
  <2>3. \A i \in 1..(A + Joining) : active'[i] = IF i <= A THEN active[i] ELSE in[i - A]
    BY <1>1, <1>3, <2>1
  <2>4. A \in Nat /\ DOMAIN active = 1..A /\ DOMAIN active' = 1..(A + Joining)
    BY <1>2, <2>2, LenProperties
  <2> QED BY <2>2, <2>3, <2>4
<1>8. /\ admitted' \in Seq(Ids) /\ Len(admitted') = D + Joining
      /\ \A i \in 1..(D + Joining) :
           admitted'[i] = IF i <= D THEN admitted[i] ELSE IdsOf(in)[i - D]
      /\ D \in Nat /\ DOMAIN admitted = 1..D /\ DOMAIN admitted' = 1..(D + Joining)
  <2> DEFINE new == IdsOf(in)
  <2>1. new \in Seq(Ids) /\ Len(new) = Joining
    BY <1>5
  <2> HIDE DEF new
  <2>2. /\ admitted \o new \in Seq(Ids) /\ Len(admitted \o new) = D + Len(new)
        /\ \A i \in 1..(D + Len(new)) :
             (admitted \o new)[i] = IF i <= D THEN admitted[i] ELSE new[i - D]
    BY <1>2, <2>1, ConcatProperties
  <2>3. admitted' = admitted \o new
    BY <1>1 DEF new
  <2>4. D \in Nat /\ DOMAIN admitted = 1..D
    BY <1>2, LenProperties
  <2>5. /\ admitted' \in Seq(Ids) /\ Len(admitted') = D + Joining
        /\ \A i \in 1..(D + Joining) :
             admitted'[i] = IF i <= D THEN admitted[i] ELSE new[i - D]
    BY <2>1, <2>2, <2>3
  <2>6. DOMAIN admitted' = 1..(D + Joining)
    BY <2>5, LenProperties
  <2> QED BY <2>4, <2>5, <2>6 DEF new
<1> HIDE DEF A, D
<1>9. ASSUME NEW i \in 1..A
      PROVE  \E m \in 1..D : m \in DOMAIN admitted' /\ admitted'[m] = active'[i].id
  <2>1. PICK m \in 1..D : admitted[m] = active[i].id
    BY <1>7, <1>8 DEF IInv, Known
  <2>2. m \in DOMAIN admitted' /\ admitted'[m] = admitted[m]
    BY <1>3, <1>8, <2>1
  <2>3. active'[i] = active[i]
    <3>1. i \in 1..(A + Joining) /\ i <= A
      BY ONLY <1>3, <1>7, i \in 1..A, Joining \in 0..Len(pending), Len(pending) \in Nat
    <3> QED BY <1>7, <3>1
  <2> QED BY <2>1, <2>2, <2>3
<1>10. ASSUME NEW i \in 1..(A + Joining), i > A
       PROVE  /\ D + (i - A) \in DOMAIN admitted' /\ D + (i - A) > D
              /\ admitted'[D + (i - A)] = active'[i].id
  <2>1. i - A \in 1..Joining /\ D + (i - A) \in 1..(D + Joining) /\ D + (i - A) > D
        /\ (D + (i - A)) - D = i - A
    BY <1>3, <1>7, <1>8, <1>10, SMTT(30)
  <2>2. admitted'[D + (i - A)] = IdsOf(in)[i - A]
    BY <1>8, <2>1
  <2>3. active'[i] = in[i - A]
    BY <1>7, <1>10
  <2> QED BY <1>5, <1>8, <2>1, <2>2, <2>3
<1>11. Known'
  <2> SUFFICES ASSUME NEW i \in 1..(A + Joining)
               PROVE  \E m \in DOMAIN admitted' : admitted'[m] = active'[i].id
    BY <1>7 DEF Known
  <2>1. CASE i > A
    BY <1>10, <2>1
  <2>2. CASE ~(i > A)
    <3>1. i \in 1..A
      BY <1>7, <2>2
    <3> QED BY <1>9, <3>1
  <2> QED BY <2>1, <2>2
<1>12. ASSUME NEW i \in 1..(A + Joining), NEW j \in 1..(A + Joining), i < j
       PROVE  \E m, n \in DOMAIN admitted' :
                m < n /\ admitted'[m] = active'[i].id /\ admitted'[n] = active'[j].id
  <2>1. CASE i > A
    <3>1. j > A /\ D + (i - A) < D + (j - A)
      BY <1>3, <1>7, <1>8, <1>12, <2>1
    <3>2. D + (i - A) \in DOMAIN admitted' /\ admitted'[D + (i - A)] = active'[i].id
      BY <1>10, <2>1
    <3>3. D + (j - A) \in DOMAIN admitted' /\ admitted'[D + (j - A)] = active'[j].id
      BY <1>10, <3>1
    <3> QED BY <3>1, <3>2, <3>3
  <2>2. CASE ~(i > A) /\ j > A
    <3>1. PICK m \in 1..D : m \in DOMAIN admitted' /\ admitted'[m] = active'[i].id
      BY <1>7, <1>9, <2>2
    <3>2. /\ D + (j - A) \in DOMAIN admitted' /\ D + (j - A) > D
          /\ admitted'[D + (j - A)] = active'[j].id
      BY <1>10, <2>2
    <3>3. m < D + (j - A)
      BY <1>3, <1>7, <1>8, <3>1, <3>2
    <3> QED BY <3>1, <3>2, <3>3
  <2>3. CASE ~(j > A)
    <3>1. i \in DOMAIN active /\ j \in DOMAIN active
      BY <1>3, <1>7, <1>12, <2>3
    <3>2. PICK m, n \in DOMAIN admitted :
            m < n /\ admitted[m] = active[i].id /\ admitted[n] = active[j].id
      BY <1>12, <3>1 DEF IInv, FirstComeFirstServed
    <3>3. /\ m \in DOMAIN admitted' /\ n \in DOMAIN admitted'
          /\ admitted'[m] = admitted[m] /\ admitted'[n] = admitted[n]
      BY <1>3, <1>8, <3>2
    <3>4. active'[i] = active[i] /\ active'[j] = active[j]
      BY <1>3, <1>7, <3>1
    <3> QED BY <3>2, <3>3, <3>4
  <2> QED BY <2>1, <2>2, <2>3
<1>13. Shape'
  BY <1>1, <1>2, <1>3, <1>7, <1>8 DEF Shape
<1>14. BatchWithinLimit'
  BY <1>3, <1>7, BatchAssumption DEF BatchWithinLimit, A
<1>15. FirstComeFirstServed'
  <2>1. DOMAIN active' = 1..(A + Joining)
    BY <1>7
  <2>2. \A i, j \in DOMAIN active' : i < j =>
          \E m, n \in DOMAIN admitted' :
            m < n /\ admitted'[m] = active'[i].id /\ admitted'[n] = active'[j].id
    <3> TAKE i, j \in DOMAIN active'
    <3> HAVE i < j
    <3>1. i \in 1..(A + Joining) /\ j \in 1..(A + Joining)
      BY ONLY <2>1, i \in DOMAIN active', j \in DOMAIN active'
    <3> QED BY <1>12, <3>1
  <2> QED BY ONLY <1>6, <2>2 DEF FirstComeFirstServed
<1> QED BY <1>11, <1>13, <1>14, <1>15 DEF IInv

LEMMA FinishRequestInv ==
  ASSUME IInv, NEW id, FinishRequest(id) PROVE IInv'
<1>1. PICK k \in DOMAIN active : active' = RemoveAt(active, k)
  BY DEF FinishRequest
<1>2. pending' = pending /\ arrived' = arrived /\ admitted' = admitted
  BY DEF FinishRequest
<1> DEFINE A == Len(active)
           f == [i \in 1..(A - 1) |-> IF i < k THEN i ELSE i + 1]
<1>3. active \in Seq(Record) /\ A \in Nat /\ k \in 1..A
  BY <1>1, LenProperties DEF IInv, Shape
<1>4. /\ active' \in Seq(Record) /\ Len(active') = A - 1
      /\ \A i \in 1..(A - 1) : active'[i] = active[f[i]]
  <2> DEFINE s == SubSeq(active, 1, k - 1)
             t == SubSeq(active, k + 1, A)
  <2>1. s \in Seq(Record) /\ Len(s) = k - 1 /\ \A i \in 1..(k - 1) : s[i] = active[i]
    BY <1>3
  <2>2. t \in Seq(Record) /\ Len(t) = A - k /\ \A i \in 1..(A - k) : t[i] = active[k + i]
    BY <1>3
  <2>3. active' = s \o t
    BY <1>1 DEF RemoveAt
  <2> HIDE DEF s, t
  <2>4. /\ active' \in Seq(Record) /\ Len(active') = Len(s) + Len(t)
        /\ \A i \in 1..(Len(s) + Len(t)) :
             active'[i] = IF i <= Len(s) THEN s[i] ELSE t[i - Len(s)]
    BY <2>1, <2>2, <2>3, ConcatProperties
  <2> HIDE DEF A
  <2>5. ASSUME NEW i \in 1..(A - 1) PROVE active'[i] = active[f[i]]
    <3>1. CASE i < k
      <4>1. i \in 1..(k - 1) /\ i <= Len(s) /\ i \in 1..(Len(s) + Len(t))
        BY <1>3, <2>1, <2>2, <3>1
      <4> QED BY <2>1, <2>4, <3>1, <4>1
    <3>2. CASE ~(i < k)
      <4>1. /\ i - (k - 1) \in 1..(A - k) /\ ~(i <= Len(s)) /\ i \in 1..(Len(s) + Len(t))
            /\ k + (i - (k - 1)) = i + 1
        BY <1>3, <2>1, <2>2, <3>2, SMTT(30)
      <4>2. active'[i] = t[i - (k - 1)]
        BY <2>1, <2>4, <4>1
      <4>3. t[i - (k - 1)] = active[k + (i - (k - 1))]
        BY <2>2, <4>1
      <4> QED BY <3>2, <4>1, <4>2, <4>3
    <3> QED BY <3>1, <3>2
  <2>6. Len(active') = A - 1
    BY <1>3, <2>1, <2>2, <2>4, SMTT(30)
  <2> QED BY <2>4, <2>5, <2>6
<1> HIDE DEF A
<1>5. /\ \A i \in 1..(A - 1) : f[i] \in 1..A
      /\ \A i, j \in 1..(A - 1) : i < j => f[i] < f[j]
  BY <1>3
<1> HIDE DEF f
<1>6. /\ Known'
      /\ \A i, j \in DOMAIN active' : i < j =>
           \E m, n \in DOMAIN admitted' :
             m < n /\ admitted'[m] = active'[i].id /\ admitted'[n] = active'[j].id
  <2>1. \A i \in 1..Len(active') : f[i] \in 1..Len(active) /\ active'[i].id = active[f[i]].id
    BY <1>4, <1>5 DEF A
  <2>2. \A i, j \in 1..Len(active') : i < j => f[i] < f[j]
    BY <1>4, <1>5
  <2> QED BY <1>2, <1>4, <2>1, <2>2, OrderKept DEF IInv
<1>7. arrived' = admitted' \o IdsOf(pending')
  BY <1>2 DEF IInv, FirstComeFirstServed
<1>8. BatchWithinLimit'
  BY <1>3, <1>4, BatchAssumption DEF IInv, BatchWithinLimit, A
<1> QED BY <1>2, <1>4, <1>6, <1>7, <1>8 DEF IInv, Shape, FirstComeFirstServed

(* advance_all changes no id.                                                *)
LEMMA AdvanceInv ==
  ASSUME IInv, Advance PROVE IInv'
<1>1. PICK stops \in [DOMAIN batch -> BOOLEAN] :
        active' = AdvanceAll([i \in DOMAIN batch |-> [owner |-> batch[i], stop |-> stops[i]]])
  BY DEF Advance
<1>2. pending' = pending /\ arrived' = arrived /\ admitted' = admitted
  BY DEF Advance
<1>3. active \in Seq(Record) /\ Len(active) \in Nat /\ DOMAIN active = 1..Len(active)
  BY LenProperties DEF IInv, Shape
<1>4. ASSUME NEW r \in Record, NEW token
      PROVE  Extended(r, token) \in Record /\ Extended(r, token).id = r.id
  <2>1. ASSUME NEW p \in Nat, NEW fin \in BOOLEAN, NEW own \in BOOLEAN
        PROVE  LET e == [r EXCEPT !.pos = p, !.finished = fin, !.foreign = own]
               IN e \in Record /\ e.id = r.id
    BY <1>4 DEF Record
  <2>2. r.pos + 1 \in Nat
    BY <1>4 DEF Record
  <2>3. /\ (r.finished \/ r.pos + 1 >= MaxSeq \/ token.stop) \in BOOLEAN
        /\ (r.foreign \/ token.owner # r.id) \in BOOLEAN
    BY Zenon
  <2> QED BY <2>1, <2>2, <2>3, Zenon DEF Extended
<1>5. /\ active' \in [1..Len(active) -> Record]
      /\ \A i \in 1..Len(active) : active'[i].id = active[i].id
  <2> DEFINE tokens == [i \in DOMAIN batch |-> [owner |-> batch[i], stop |-> stops[i]]]
  <2> HIDE DEF tokens
  <2>1. active' = [i \in 1..Len(active) |->
                     IF i \in DOMAIN tokens THEN Extended(active[i], tokens[i]) ELSE active[i]]
    BY <1>1, <1>3 DEF AdvanceAll, tokens
  <2>2. \A i \in 1..Len(active) : active[i] \in Record
    BY <1>3
  <2> QED BY <1>4, <2>1, <2>2
<1>6. active' \in Seq(Record) /\ Len(active') = Len(active)
  BY <1>3, <1>5
<1> DEFINE f == [i \in 1..Len(active) |-> i]
<1>7. /\ Known'
      /\ \A i, j \in DOMAIN active' : i < j =>
           \E m, n \in DOMAIN admitted' :
             m < n /\ admitted'[m] = active'[i].id /\ admitted'[n] = active'[j].id
  <2>1. \A i \in 1..Len(active') : f[i] \in 1..Len(active) /\ active'[i].id = active[f[i]].id
    BY <1>5, <1>6
  <2>2. \A i, j \in 1..Len(active') : i < j => f[i] < f[j]
    BY <1>3, <1>6
  <2> HIDE DEF f
  <2> QED BY <1>2, <1>6, <2>1, <2>2, OrderKept DEF IInv
<1>8. arrived' = admitted' \o IdsOf(pending')
  BY <1>2 DEF IInv, FirstComeFirstServed
<1> QED BY <1>2, <1>6, <1>7, <1>8 DEF IInv, Shape, FirstComeFirstServed, BatchWithinLimit

LEMMA NextInv == IInv /\ [Next]_vars => IInv'
<1> SUFFICES ASSUME IInv, [Next]_vars PROVE IInv'
  OBVIOUS
<1>1. CASE UNCHANGED vars
  BY <1>1 DEF vars, IInv, Shape, FirstComeFirstServed, Known, BatchWithinLimit
<1>2. ASSUME NEW id \in Ids, AddRequest(id) PROVE IInv'
  BY <1>2, AddRequestInv
<1>3. ASSUME NEW id \in Ids, FinishRequest(id) PROVE IInv'
  BY <1>3, FinishRequestInv
<1>4. CASE ScheduleNext
  BY <1>4, ScheduleNextInv
<1>5. CASE Advance
  BY <1>5, AdvanceInv
<1> QED BY <1>1, <1>2, <1>3, <1>4, <1>5 DEF Next

THEOREM Invariance == Spec => []IInv
BY InitInv, NextInv, PTL DEF Spec

-----------------------------------------------------------------------------
(* No request is lost, doubled or overtaken by one that arrived later.       *)
THEOREM InArrivalOrder == Spec => []FirstComeFirstServed
<1>1. IInv => FirstComeFirstServed
  BY DEF IInv
<1> QED BY <1>1, Invariance, PTL

(* schedule_next keeps active_batch_ within max_batch_size_.                 *)
THEOREM BatchLimited == Spec => []BatchWithinLimit
<1>1. IInv => BatchWithinLimit
  BY DEF IInv
<1> QED BY <1>1, Invariance, PTL

(* schedule_next leaves a place of the batch empty only when nobody waits.   *)
THEOREM FullPasses == Spec => PassIsFull
<1>1. ASSUME IInv, [Next]_vars, batch = <<>>, batch' # <<>>
      PROVE  Len(active') = MaxBatch \/ pending' = <<>>
  <2>1. ScheduleNext
    BY <1>1 DEF Next, vars, AddRequest, FinishRequest, Advance
  <2>2. /\ Joining \in 0..Len(pending) /\ Len(pending) \in Nat /\ Len(active) \in Nat
        /\ Joining = Len(pending) \/ Joining = MaxBatch - Len(active)
        /\ SubSeq(pending, 1, Joining) \in Seq(Record)
        /\ Len(SubSeq(pending, 1, Joining)) = Joining
        /\ SubSeq(pending, Joining + 1, Len(pending)) \in Seq(Record)
        /\ Len(SubSeq(pending, Joining + 1, Len(pending))) = Len(pending) - Joining
    BY <1>1, JoiningFits DEF IInv
  <2>3. CASE Joining = Len(pending)
    <3>1. pending' = SubSeq(pending, Joining + 1, Len(pending))
      BY <2>1 DEF ScheduleNext
    <3>2. pending' \in Seq(Record) /\ Len(pending') = 0
      BY <2>2, <2>3, <3>1
    <3> QED BY <3>2, EmptySeq
  <2>4. CASE Joining = MaxBatch - Len(active)
    <3> DEFINE in == SubSeq(pending, 1, Joining)
    <3>1. active' = active \o in /\ active \in Seq(Record)
      BY <1>1, <2>1 DEF ScheduleNext, IInv, Shape
    <3>2. in \in Seq(Record) /\ Len(in) = MaxBatch - Len(active)
      BY <2>2, <2>4
    <3> HIDE DEF in
    <3>3. Len(active') = Len(active) + Len(in)
      BY <3>1, <3>2, ConcatProperties
    <3> QED BY <2>2, <3>2, <3>3, BatchAssumption
  <2> QED BY <2>2, <2>3, <2>4
<1>2. IInv /\ [Next]_vars
        => [batch = <<>> /\ batch' # <<>> => Len(active') = MaxBatch \/ pending' = <<>>]_vars
  BY <1>1
<1> QED BY <1>2, Invariance, PTL DEF Spec, PassIsFull
-----------------------------------------------------------------------------
(* Recursive functions                                                       *)

(* Every nonempty set of naturals has a least element.                       *)
LEMMA LeastNatural ==
  ASSUME NEW T, T \subseteq Nat, T # {}
  PROVE  \E x \in T : \A y \in T : x <= y
<1> DEFINE Smaller == OpToRel(<, Nat)
<1>1. \A x, y \in Nat : <<y, x>> \in Smaller <=> y < x
  BY DEF OpToRel
<1>2. IsWellFoundedOn(Smaller, Nat)
  BY NatLessThanWellFounded
<1> HIDE DEF Smaller
<1>3. PICK x \in T : \A y \in T : ~(<<y, x>> \in Smaller)
  BY <1>2, WFMin, Zenon
<1>4. x \in Nat /\ \A y \in T : y \in Nat /\ ~(y < x)
  BY <1>1, <1>3
<1> QED BY <1>3, <1>4

(* With the set of counterexamples in the place of T this is induction.      *)
LEMMA Induction ==
  ASSUME NEW T, 0 \in T, \A n \in Nat : n \in T => n + 1 \in T
  PROVE  Nat \subseteq T
<1> SUFFICES ASSUME Nat \ T # {} PROVE FALSE
  OBVIOUS
<1> DEFINE Rest == Nat \ T
<1>1. Rest \subseteq Nat /\ Rest # {}
  OBVIOUS
<1>2. PICK x \in Rest : \A y \in Rest : x <= y
  <2> HIDE DEF Rest
  <2> QED BY <1>1, LeastNatural
<1>3. x \in Nat /\ x # 0 /\ x - 1 \in Nat /\ (x - 1) + 1 = x
  BY <1>2
<1>4. x - 1 \in T
  <2>1. ~(x <= x - 1)
    BY <1>3
  <2> QED BY <1>2, <1>3, <2>1
<1> QED BY <1>2, <1>3, <1>4

(* The function that RunningIds computes, up to n.                           *)
Taken(ids, r) == IF r.finished THEN ids ELSE Append(ids, r.id)
Takes(f, s, n) == f = [k \in 0..n |-> IF k = 0 THEN <<>> ELSE Taken(f[k - 1], s[k])]

LEMMA TakesExists ==
  ASSUME NEW s, NEW m \in Nat
  PROVE  \E f : Takes(f, s, m)
<1> DEFINE T == {n \in Nat : \E f : Takes(f, s, n)}
<1>1. 0 \in T
  <2>1. Takes([k \in 0..0 |-> <<>>], s, 0)
    BY DEF Takes
  <2> QED BY <2>1
<1>2. ASSUME NEW n \in Nat, n \in T PROVE n + 1 \in T
  <2>1. PICK f : Takes(f, s, n)
    BY <1>2
  <2> DEFINE g == [k \in 0..(n + 1) |-> IF k = n + 1 THEN Taken(f[n], s[k]) ELSE f[k]]
  <2>2. ASSUME NEW k \in 0..(n + 1)
        PROVE  g[k] = IF k = 0 THEN <<>> ELSE Taken(g[k - 1], s[k])
    <3>1. CASE k = n + 1
      <4>1. k # 0 /\ k - 1 = n /\ n \in 0..(n + 1) /\ n # n + 1
        BY <3>1
      <4>2. g[k] = Taken(f[n], s[k]) /\ g[n] = f[n]
        BY <3>1, <4>1
      <4> QED BY <4>1, <4>2
    <3>2. CASE k # n + 1
      <4>1. k \in 0..n /\ g[k] = f[k]
        BY <3>2
      <4>2. f[k] = IF k = 0 THEN <<>> ELSE Taken(f[k - 1], s[k])
        BY <2>1, <4>1 DEF Takes
      <4>3. k # 0 => k - 1 \in 0..(n + 1) /\ k - 1 # n + 1 /\ g[k - 1] = f[k - 1]
        BY <4>1
      <4> QED BY <4>1, <4>2, <4>3
    <3> QED BY <3>1, <3>2
  <2>3. g = [k \in 0..(n + 1) |-> g[k]]
    OBVIOUS
  <2> HIDE DEF g
  <2>4. Takes(g, s, n + 1)
    BY <2>2, <2>3 DEF Takes
  <2> QED BY <2>4
<1> HIDE DEF T
<1>3. Nat \subseteq T
  BY <1>1, <1>2, Induction
<1> QED BY <1>3 DEF T

LEMMA RunningIs ==
  ASSUME NEW s, Len(s) \in Nat
  PROVE  \E f : /\ RunningIds(s) = f[Len(s)] /\ f[0] = <<>>
                /\ \A k \in 1..Len(s) : f[k] = Taken(f[k - 1], s[k])
<1> DEFINE f == CHOOSE f : Takes(f, s, Len(s))
<1>1. RunningIds(s) = f[Len(s)]
  BY DEF RunningIds, Takes, Taken
<1>2. Takes(f, s, Len(s))
  BY TakesExists
<1> HIDE DEF f
<1>3. \A k \in 0..Len(s) : f[k] = IF k = 0 THEN <<>> ELSE Taken(f[k - 1], s[k])
  BY <1>2 DEF Takes
<1>4. ASSUME NEW k \in 1..Len(s) PROVE f[k] = Taken(f[k - 1], s[k])
  <2>1. k \in 0..Len(s) /\ k # 0
    OBVIOUS
  <2> QED BY <1>3, <2>1
<1>5. f[0] = <<>>
  BY <1>3
<1> QED BY <1>1, <1>4, <1>5

(* As long as no request is finished, the n-th of them is the n-th taken.    *)
NoneFinished(s, i) == \A j \in 1..i : ~s[j].finished
LEMMA RunningSeq ==
  ASSUME NEW s \in Seq(Record)
  PROVE  /\ RunningIds(s) \in Seq(Ids)
         /\ \A i \in 1..Len(s) : NoneFinished(s, i) => RunningIds(s)[i] = s[i].id
<1> DEFINE L == Len(s)
<1>1. L \in Nat /\ \A k \in 1..L : s[k] \in Record /\ s[k].id \in Ids /\ s[k].finished \in BOOLEAN
  <2>1. L \in Nat /\ \A k \in 1..L : s[k] \in Record
    BY ElementOfSeq, LenProperties
  <2>2. \A r \in Record : r.id \in Ids /\ r.finished \in BOOLEAN
    BY DEF Record
  <2> QED BY <2>1, <2>2
<1>2. PICK f : /\ RunningIds(s) = f[L] /\ f[0] = <<>>
               /\ \A k \in 1..L : f[k] = Taken(f[k - 1], s[k])
  BY <1>1, RunningIs
<1> HIDE DEF L
<1>3. ASSUME NEW k \in 1..L, f[k - 1] \in Seq(Ids)
      PROVE  /\ f[k] \in Seq(Ids)
             /\ Len(f[k]) = IF s[k].finished THEN Len(f[k - 1]) ELSE Len(f[k - 1]) + 1
             /\ \A j \in 1..Len(f[k - 1]) : f[k][j] = f[k - 1][j]
             /\ ~s[k].finished => f[k][Len(f[k - 1]) + 1] = s[k].id
  <2>1. CASE s[k].finished
    BY <1>2, <1>3, <2>1 DEF Taken
  <2>2. CASE ~s[k].finished
    <3>1. f[k] = Append(f[k - 1], s[k].id)
      BY <1>2, <2>2 DEF Taken
    <3> QED BY <1>1, <1>3, <2>2, <3>1, AppendProperties
  <2> QED BY <2>1, <2>2
<1>4. ASSUME NEW i \in 1..L
      PROVE  f[L] \in Seq(Ids) /\ (NoneFinished(s, i) => f[L][i] = s[i].id)
  <2> DEFINE P(k) == /\ f[k] \in Seq(Ids)
                     /\ NoneFinished(s, i) => IF k < i THEN Len(f[k]) = k
                                              ELSE Len(f[k]) >= i /\ f[k][i] = s[i].id
             T == {k \in Nat : k <= L => P(k)}
  <2>1. 0 \in T
    <3>1. <<>> \in Seq(Ids) /\ Len(<<>>) = 0 /\ 0 < i
      OBVIOUS
    <3>2. P(0)
      BY <1>2, <3>1
    <3> QED BY <3>2
  <2>2. ASSUME NEW n \in Nat, n \in T PROVE n + 1 \in T
    <3> SUFFICES ASSUME n + 1 <= L PROVE P(n + 1)
      OBVIOUS
    <3> DEFINE k == n + 1
    <3>1. k \in 1..L /\ k - 1 = n /\ P(n)
      BY <1>1, <2>2
    <3>2. /\ f[k] \in Seq(Ids)
          /\ Len(f[k]) = IF s[k].finished THEN Len(f[n]) ELSE Len(f[n]) + 1
          /\ \A j \in 1..Len(f[n]) : f[k][j] = f[n][j]
          /\ ~s[k].finished => f[k][Len(f[n]) + 1] = s[k].id
          /\ Len(f[n]) \in Nat
      BY <1>3, <3>1
    <3>3. ASSUME NoneFinished(s, i), k < i PROVE Len(f[k]) = k
      BY <3>1, <3>2, <3>3 DEF NoneFinished
    <3>4. ASSUME NoneFinished(s, i), ~(k < i) PROVE Len(f[k]) >= i /\ f[k][i] = s[i].id
      <4>1. CASE k = i
        BY <3>1, <3>2, <3>4, <4>1 DEF NoneFinished
      <4>2. CASE k # i
        BY <3>1, <3>2, <3>4, <4>2
      <4> QED BY <4>1, <4>2
    <3> QED BY <3>2, <3>3, <3>4
  <2> HIDE DEF T
  <2>3. L \in T
    BY <1>1, <2>1, <2>2, Induction
  <2> QED BY <1>1, <2>3 DEF T
<1>5. CASE L = 0
  <2>1. RunningIds(s) = <<>> /\ 1..L = {}
    BY <1>2, <1>5
  <2>2. <<>> \in Seq(Ids)
    OBVIOUS
  <2> QED BY <2>1, <2>2 DEF L
<1>6. CASE L # 0
  <2>1. 1 \in 1..L
    BY <1>1, <1>6
  <2> QED BY <1>2, <1>4, <2>1 DEF L
<1> QED BY <1>5, <1>6
-----------------------------------------------------------------------------
(* A pass: while it runs, batch is what RunningIds gave for the requests that *)
(* are active now, and none of them is at the bound.                         *)
AtMost(n) == {r \in Record : r.pos <= n}
PassInv ==
  /\ batch \in Seq(Ids)
  /\ batch # <<>> => batch = RunningIds(active)
  /\ pending \in Seq(AtMost(0)) /\ active \in Seq(AtMost(MaxPos))
  /\ batch # <<>> => active \in Seq(AtMost(MaxPos - 1))

LEMMA LargerSeq ==
  ASSUME NEW S, NEW T, \A x \in S : x \in T, NEW s \in Seq(S)
  PROVE  s \in Seq(T)
<1>1. Len(s) \in Nat /\ DOMAIN s = 1..Len(s) /\ \A i \in 1..Len(s) : s[i] \in S
  BY LenProperties, ElementOfSeq
<1>2. \A i \in 1..Len(s) : s[i] \in T
  BY <1>1
<1>3. s = [i \in 1..Len(s) |-> s[i]]
  OBVIOUS
<1> QED BY <1>1, <1>2, <1>3

LEMMA AtMostLarger ==
  ASSUME NEW m \in Nat, NEW n \in Nat, m <= n, NEW s \in Seq(AtMost(m))
  PROVE  s \in Seq(AtMost(n))
<1>1. \A r \in AtMost(m) : r \in AtMost(n)
  BY DEF AtMost, Record
<1> QED BY <1>1, LargerSeq

LEMMA PassInit == Init => PassInv
BY DEF Init, PassInv

LEMMA AddRequestPass ==
  ASSUME PassInv, NEW id \in Ids, AddRequest(id) PROVE PassInv'
<1>1. NewRequest(id) \in AtMost(0)
  BY DEF NewRequest, AtMost, Record
<1>2. pending' \in Seq(AtMost(0))
  BY <1>1, AppendProperties DEF AddRequest, PassInv
<1> QED BY <1>2 DEF AddRequest, PassInv

LEMMA FinishRequestPass ==
  ASSUME PassInv, NEW id, FinishRequest(id) PROVE PassInv'
<1>1. PICK k \in DOMAIN active : active' = RemoveAt(active, k)
  BY DEF FinishRequest
<1>2. active \in Seq(AtMost(MaxPos)) /\ k \in 1..Len(active) /\ Len(active) \in Nat
  BY <1>1, LenProperties DEF PassInv
<1>3. active' \in Seq(AtMost(MaxPos))
  <2> DEFINE s == SubSeq(active, 1, k - 1)
             t == SubSeq(active, k + 1, Len(active))
  <2>1. s \in Seq(AtMost(MaxPos)) /\ t \in Seq(AtMost(MaxPos))
    BY <1>2
  <2>2. active' = s \o t
    BY <1>1 DEF RemoveAt
  <2> HIDE DEF s, t
  <2> QED BY <2>1, <2>2, ConcatProperties
<1> QED BY <1>3 DEF FinishRequest, PassInv

LEMMA ScheduleNextPass ==
  ASSUME IInv, IInv', PassInv, ScheduleNext PROVE PassInv'
<1> DEFINE in == SubSeq(pending, 1, Joining)
           rest == SubSeq(pending, Joining + 1, Len(pending))
<1>1. MaxPos \in Nat /\ MaxPos - 1 \in Nat
  BY BatchAssumption
<1>2. batch' = RunningIds(active') /\ batch' \in Seq(Ids)
  <2>1. active' \in Seq(Record)
    BY DEF IInv, Shape
  <2>2. RunningIds(active') \in Seq(Ids)
    BY <2>1, RunningSeq
  <2> QED BY <2>2 DEF ScheduleNext
<1>3. in \in Seq(AtMost(0)) /\ rest \in Seq(AtMost(0))
  <2>1. Joining \in 0..Len(pending) /\ Len(pending) \in Nat /\ pending \in Seq(AtMost(0))
    BY JoiningFits DEF IInv, PassInv
  <2> QED BY <2>1
<1>4. active \in Seq(AtMost(MaxPos - 1))
  <2>1. \A i \in 1..Len(active) : active[i] \in Record /\ active[i].pos \in Nat
    <3>1. \A i \in 1..Len(active) : active[i] \in Record
      BY ElementOfSeq DEF IInv, Shape
    <3>2. \A r \in Record : r.pos \in Nat
      BY DEF Record
    <3> QED BY <3>1, <3>2
  <2>2. DOMAIN active = 1..Len(active) /\ Len(active) \in Nat
    BY LenProperties DEF IInv, Shape
  <2>3. \A i \in 1..Len(active) : active[i].pos < MaxPos
    BY <2>2 DEF ScheduleNext
  <2>4. \A i \in 1..Len(active) : active[i] \in AtMost(MaxPos - 1)
    BY <1>1, <2>1, <2>3 DEF AtMost
  <2>5. active = [i \in 1..Len(active) |-> active[i]]
    BY <2>2 DEF IInv, Shape
  <2> QED BY <2>2, <2>4, <2>5
<1>5. active' \in Seq(AtMost(MaxPos - 1))
  <2>1. active' = active \o in
    BY DEF ScheduleNext
  <2> HIDE DEF in
  <2>2. in \in Seq(AtMost(MaxPos - 1))
    <3> DEFINE m == MaxPos - 1
    <3>1. 0 \in Nat /\ m \in Nat /\ 0 <= m /\ in \in Seq(AtMost(0))
      BY <1>1, <1>3
    <3> HIDE DEF m
    <3>2. in \in Seq(AtMost(m))
      BY ONLY <3>1, AtMostLarger
    <3> QED BY <3>2 DEF m
  <2> QED BY <1>4, <2>1, <2>2, ConcatProperties
<1>6. active' \in Seq(AtMost(MaxPos))
  BY <1>1, <1>5, AtMostLarger
<1> QED BY <1>2, <1>3, <1>5, <1>6 DEF ScheduleNext, PassInv

LEMMA AdvancePass ==
  ASSUME PassInv, Advance PROVE PassInv'
<1>1. PICK stops \in [DOMAIN batch -> BOOLEAN] :
        active' = AdvanceAll([i \in DOMAIN batch |-> [owner |-> batch[i], stop |-> stops[i]]])
  BY DEF Advance
<1>2. /\ pending' = pending /\ batch' = <<>>
      /\ active \in Seq(AtMost(MaxPos - 1)) /\ MaxPos \in Nat \ {0}
  BY BatchAssumption DEF Advance, PassInv
<1>3. ASSUME NEW r \in AtMost(MaxPos - 1), NEW token
      PROVE  Extended(r, token) \in AtMost(MaxPos)
  <2>1. r \in Record /\ r.pos \in Nat /\ r.pos <= MaxPos - 1
    BY <1>3 DEF AtMost, Record
  <2>2. ASSUME NEW p \in Nat, NEW fin \in BOOLEAN, NEW own \in BOOLEAN
        PROVE  LET e == [r EXCEPT !.pos = p, !.finished = fin, !.foreign = own]
               IN e \in Record /\ e.pos = p
    BY <2>1 DEF Record
  <2>3. r.pos + 1 \in Nat /\ r.pos + 1 <= MaxPos
    BY <1>2, <2>1
  <2>4. /\ (r.finished \/ r.pos + 1 >= MaxSeq \/ token.stop) \in BOOLEAN
        /\ (r.foreign \/ token.owner # r.id) \in BOOLEAN
    BY Zenon
  <2>5. Extended(r, token) \in Record /\ Extended(r, token).pos = r.pos + 1
    BY <2>2, <2>3, <2>4, Zenon DEF Extended
  <2> QED BY <2>3, <2>5 DEF AtMost
<1>4. active' \in Seq(AtMost(MaxPos))
  <2> DEFINE tokens == [i \in DOMAIN batch |-> [owner |-> batch[i], stop |-> stops[i]]]
  <2> HIDE DEF tokens
  <2>1. /\ Len(active) \in Nat /\ DOMAIN active = 1..Len(active)
        /\ \A i \in 1..Len(active) : active[i] \in AtMost(MaxPos - 1)
    BY <1>2, LenProperties, ElementOfSeq
  <2>2. active' = [i \in 1..Len(active) |->
                     IF i \in DOMAIN tokens THEN Extended(active[i], tokens[i]) ELSE active[i]]
    BY <1>1, <2>1 DEF AdvanceAll, tokens
  <2>3. \A r \in AtMost(MaxPos - 1) : r \in AtMost(MaxPos)
    BY <1>2 DEF AtMost, Record
  <2>4. active' \in [1..Len(active) -> AtMost(MaxPos)]
    BY <1>3, <2>1, <2>2, <2>3
  <2> QED BY <2>1, <2>4
<1> QED BY <1>2, <1>4 DEF PassInv

LEMMA PassNext == IInv /\ IInv' /\ PassInv /\ [Next]_vars => PassInv'
<1> SUFFICES ASSUME IInv, IInv', PassInv, [Next]_vars PROVE PassInv'
  OBVIOUS
<1>1. CASE UNCHANGED vars
  BY <1>1 DEF vars, PassInv
<1>2. ASSUME NEW id \in Ids, AddRequest(id) PROVE PassInv'
  BY <1>2, AddRequestPass
<1>3. ASSUME NEW id \in Ids, FinishRequest(id) PROVE PassInv'
  BY <1>3, FinishRequestPass
<1>4. CASE ScheduleNext
  BY <1>4, ScheduleNextPass
<1>5. CASE Advance
  BY <1>5, AdvancePass
<1> QED BY <1>1, <1>2, <1>3, <1>4, <1>5 DEF Next

LEMMA PassInvariance == Spec => []PassInv
BY PassInit, PassNext, Invariance, PTL DEF Spec

(* The queue and the batch hold requests, the pass and the histories ids.    *)
THEOREM TypeCorrect == Spec => []TypeOK
<1>1. IInv /\ PassInv => TypeOK
  <2> SUFFICES ASSUME IInv, PassInv PROVE TypeOK
    OBVIOUS
  <2>1. MaxPos \in Nat
    BY BatchAssumption
  <2>2. \A r \in AtMost(MaxPos) : r \in Requests
    BY <2>1 DEF AtMost, Record, Requests
  <2>3. pending \in Seq(AtMost(MaxPos))
    BY <2>1, AtMostLarger DEF PassInv
  <2>4. pending \in Seq(Requests) /\ active \in Seq(Requests)
    BY <2>2, <2>3, LargerSeq DEF PassInv
  <2> QED BY <2>4 DEF IInv, Shape, PassInv, TypeOK
<1> QED BY <1>1, Invariance, PassInvariance, PTL

(* advance_all gives a request the token of another only if it, or one in    *)
(* front of it, is finished and so was not part of the pass.                 *)
THEOREM TokensOfOwn == Spec => TokensShiftBehindFinished
<1> DEFINE Foreign(i) == active'[i].foreign /\ ~active[i].foreign
<1>1. ASSUME IInv, PassInv, [Next]_vars, NEW i \in DOMAIN active,
             batch # <<>>, batch' = <<>>, Foreign(i)
      PROVE  \E j \in 1..i : active[j].finished
  <2>1. Advance
    BY <1>1 DEF Next, vars, AddRequest, FinishRequest, ScheduleNext
  <2>2. PICK stops \in [DOMAIN batch -> BOOLEAN] :
          active' = AdvanceAll([k \in DOMAIN batch |-> [owner |-> batch[k], stop |-> stops[k]]])
    BY <2>1 DEF Advance
  <2> DEFINE tokens == [k \in DOMAIN batch |-> [owner |-> batch[k], stop |-> stops[k]]]
             r == active[i]
  <2>3. r \in Record /\ i \in 1..Len(active)
    BY <1>1, LenProperties, ElementOfSeq DEF IInv, Shape
  <2>4. active'[i] = IF i \in DOMAIN batch THEN Extended(r, tokens[i]) ELSE r
    BY <1>1, <2>2 DEF AdvanceAll
  <2>5. i \in DOMAIN batch
    BY <1>1, <2>4
  <2>6. tokens[i].owner = batch[i]
    BY <2>5
  <2> HIDE DEF tokens
  <2>7. active'[i].foreign = (r.foreign \/ tokens[i].owner # r.id)
    BY <2>3, <2>4, <2>5 DEF Extended, Record
  <2>8. batch[i] # r.id
    BY <1>1, <2>6, <2>7
  <2>9. ~NoneFinished(active, i)
    <3>1. batch = RunningIds(active) /\ active \in Seq(Record)
      BY <1>1 DEF PassInv, IInv, Shape
    <3>2. NoneFinished(active, i) => RunningIds(active)[i] = active[i].id
      BY <2>3, <3>1, RunningSeq
    <3> QED BY <2>8, <3>1, <3>2
  <2> QED BY <2>9 DEF NoneFinished
<1>2. IInv /\ PassInv /\ [Next]_vars =>
        [\A i \in DOMAIN active :
           batch # <<>> /\ batch' = <<>> /\ active'[i].foreign /\ ~active[i].foreign =>
             \E j \in 1..i : active[j].finished]_vars
  BY <1>1
<1> QED BY <1>2, Invariance, PassInvariance, PTL DEF Spec, TokensShiftBehindFinished
-----------------------------------------------------------------------------
(* The attention mask                                                        *)

NoRows == [offset |-> 0, cells |-> {}]
Places(f, n) == f = [k \in 0..n |-> IF k = 0 THEN NoRows ELSE Row(f[k - 1], active[k])]

LEMMA PlacedIs ==
  ASSUME Len(active) \in Nat
  PROVE  /\ Placed[0] = NoRows
         /\ \A k \in 1..Len(active) : Placed[k] = Row(Placed[k - 1], active[k])
<1> DEFINE T == {n \in Nat : \E f : Places(f, n)}
<1>1. 0 \in T
  <2>1. Places([k \in 0..0 |-> NoRows], 0)
    BY DEF Places
  <2> QED BY <2>1
<1>2. ASSUME NEW n \in Nat, n \in T PROVE n + 1 \in T
  <2>1. PICK f : Places(f, n)
    BY <1>2
  <2> DEFINE g == [k \in 0..(n + 1) |-> IF k = n + 1 THEN Row(f[n], active[k]) ELSE f[k]]
  <2>2. ASSUME NEW k \in 0..(n + 1)
        PROVE  g[k] = IF k = 0 THEN NoRows ELSE Row(g[k - 1], active[k])
    <3>1. CASE k = n + 1
      <4>1. k # 0 /\ k - 1 = n /\ n \in 0..(n + 1) /\ n # n + 1
        BY <3>1
      <4>2. g[k] = Row(f[n], active[k]) /\ g[n] = f[n]
        BY <3>1, <4>1
      <4> QED BY <4>1, <4>2
    <3>2. CASE k # n + 1
      <4>1. k \in 0..n /\ g[k] = f[k]
        BY <3>2
      <4>2. f[k] = IF k = 0 THEN NoRows ELSE Row(f[k - 1], active[k])
        BY <2>1, <4>1 DEF Places
      <4>3. k # 0 => k - 1 \in 0..(n + 1) /\ k - 1 # n + 1 /\ g[k - 1] = f[k - 1]
        BY <4>1
      <4> QED BY <4>1, <4>2, <4>3
    <3> QED BY <3>1, <3>2
  <2>3. g = [k \in 0..(n + 1) |-> g[k]]
    OBVIOUS
  <2> HIDE DEF g
  <2>4. Places(g, n + 1)
    BY <2>2, <2>3 DEF Places
  <2> QED BY <2>4
<1> HIDE DEF T
<1>3. Nat \subseteq T
  BY <1>1, <1>2, Induction
<1>4. \E f : Places(f, Len(active))
  BY <1>3 DEF T
<1>5. Placed = CHOOSE f : Places(f, Len(active))
  BY DEF Placed, Places, NoRows
<1>6. Places(Placed, Len(active))
  BY <1>4, <1>5
<1> HIDE DEF Placed
<1>7. \A k \in 0..Len(active) : Placed[k] = IF k = 0 THEN NoRows ELSE Row(Placed[k - 1], active[k])
  BY <1>6 DEF Places
<1>8. ASSUME NEW k \in 1..Len(active) PROVE Placed[k] = Row(Placed[k - 1], active[k])
  <2>1. k \in 0..Len(active) /\ k # 0
    OBVIOUS
  <2> QED BY <1>7, <2>1
<1>9. 0 \in 0..Len(active)
  OBVIOUS
<1> QED BY <1>7, <1>8, <1>9

(* The concatenation that FlattenSeq computes, up to n.                      *)
Joins(f, s, n) == f = [i \in 1..n |-> IF i = 1 THEN s[i] ELSE f[i - 1] \o s[i]]

LEMMA FlattenIs ==
  ASSUME NEW s, Len(s) \in Nat \ {0}
  PROVE  \E f : /\ FlattenSeq(s) = f[Len(s)] /\ f[1] = s[1]
                /\ \A k \in 2..Len(s) : f[k] = f[k - 1] \o s[k]
<1> DEFINE T == {n \in Nat : \E f : Joins(f, s, n + 1)}
<1>1. 0 \in T
  <2> DEFINE g == [i \in 1..1 |-> s[i]]
  <2>1. g = [i \in 1..1 |-> IF i = 1 THEN s[i] ELSE g[i - 1] \o s[i]]
    OBVIOUS
  <2>2. Joins(g, s, 1)
    BY <2>1 DEF Joins
  <2> QED BY <2>2
<1>2. ASSUME NEW n \in Nat, n \in T PROVE n + 1 \in T
  <2> DEFINE m == n + 2
  <2>1. PICK f : Joins(f, s, n + 1)
    BY <1>2
  <2> DEFINE g == [i \in 1..m |-> IF i = m THEN f[n + 1] \o s[i] ELSE f[i]]
  <2>2. ASSUME NEW i \in 1..m
        PROVE  g[i] = IF i = 1 THEN s[i] ELSE g[i - 1] \o s[i]
    <3>1. CASE i = m
      <4>1. i # 1 /\ i - 1 = n + 1 /\ n + 1 \in 1..m /\ n + 1 # m
        BY <3>1
      <4>2. g[i] = f[n + 1] \o s[i] /\ g[n + 1] = f[n + 1]
        BY <3>1, <4>1
      <4> QED BY <4>1, <4>2
    <3>2. CASE i # m
      <4>1. i \in 1..(n + 1) /\ g[i] = f[i]
        BY <3>2
      <4>2. f[i] = IF i = 1 THEN s[i] ELSE f[i - 1] \o s[i]
        BY <2>1, <4>1 DEF Joins
      <4>3. i # 1 => i - 1 \in 1..m /\ i - 1 # m /\ g[i - 1] = f[i - 1]
        BY <4>1
      <4> QED BY <4>1, <4>2, <4>3
    <3> QED BY <3>1, <3>2
  <2>3. g = [i \in 1..m |-> g[i]]
    OBVIOUS
  <2> HIDE DEF g
  <2>4. Joins(g, s, m)
    BY <2>2, <2>3 DEF Joins
  <2>5. (n + 1) + 1 = m
    OBVIOUS
  <2> QED BY <2>4, <2>5
<1> HIDE DEF T
<1>3. Nat \subseteq T
  BY <1>1, <1>2, Induction
<1>4. \E f : Joins(f, s, Len(s))
  <2>1. Len(s) - 1 \in T /\ (Len(s) - 1) + 1 = Len(s)
    BY <1>3
  <2> QED BY <2>1 DEF T
<1> DEFINE f == CHOOSE f : Joins(f, s, Len(s))
<1>5. FlattenSeq(s) = f[Len(s)]
  BY DEF FlattenSeq, Joins
<1>6. Joins(f, s, Len(s))
  BY <1>4
<1> HIDE DEF f
<1>7. \A i \in 1..Len(s) : f[i] = IF i = 1 THEN s[i] ELSE f[i - 1] \o s[i]
  BY <1>6 DEF Joins
<1>8. f[1] = s[1]
  BY <1>7
<1>9. ASSUME NEW k \in 2..Len(s) PROVE f[k] = f[k - 1] \o s[k]
  <2>1. k \in 1..Len(s) /\ k # 1
    OBVIOUS
  <2> QED BY <1>7, <2>1
<1> QED BY <1>5, <1>8, <1>9

(* What the mask must be for tokens of these owners.                         *)
Causal(owners) ==
  {c \in (0..(Len(owners) - 1)) \X (0..(Len(owners) - 1)) :
     owners[c[1] + 1] = owners[c[2] + 1] /\ c[2] <= c[1]}

LEMMA CausalIs ==
  ASSUME NEW own \in Seq(Nat), NEW a \in Nat, NEW b \in Nat
  PROVE  <<a, b>> \in Causal(own) <=> a < Len(own) /\ b <= a /\ own[a + 1] = own[b + 1]
<1> DEFINE N == Len(own)
           Square == (0..(N - 1)) \X (0..(N - 1))
           c == <<a, b>>
<1>1. N \in Nat
  OBVIOUS
<1>2. c \in Causal(own) <=> c \in Square /\ own[c[1] + 1] = own[c[2] + 1] /\ c[2] <= c[1]
  BY DEF Causal
<1>3. c[1] = a /\ c[2] = b
  OBVIOUS
<1> HIDE DEF N
<1>4. c \in Square <=> a < N /\ b < N
  BY <1>1
<1> HIDE DEF c, Square
<1>5. b <= a /\ a < N => b < N
  BY <1>1
<1>6. c \in Causal(own) <=> a < N /\ b <= a /\ own[a + 1] = own[b + 1]
  BY <1>2, <1>3, <1>4, <1>5
<1> QED BY <1>6 DEF N, c

(* A row adds the tokens of one more request behind those of the others.     *)
NotAmong(own, m) == \A x \in 1..Len(own) : own[x] # m
Adds(own, block, acc, r, m) ==
  /\ own \o block \in Seq(Nat) /\ Len(own \o block) = Len(own) + r.pos
  /\ Row(acc, r).offset = Len(own \o block)
  /\ Row(acc, r).cells = Causal(own \o block)
  /\ \A x \in 1..(Len(own) + r.pos) : (own \o block)[x] = IF x <= Len(own) THEN own[x] ELSE m

LEMMA RowExtends ==
  ASSUME NEW own \in Seq(Nat), NEW acc, NEW r, NEW m \in Nat,
         r.pos \in Nat, acc.offset = Len(own), acc.cells = Causal(own), NotAmong(own, m),
         NEW block, block = [j \in 1..r.pos |-> m]
  PROVE  Adds(own, block, acc, r, m)
<1> DEFINE n == r.pos
           L == Len(own)
           all == own \o block
           mine == {c \in (0..(n - 1)) \X (0..(n - 1)) : c[2] <= c[1]}
           new == {<<L + c[1], L + c[2]>> : c \in mine}
<1>1. block \in Seq(Nat) /\ Len(block) = n /\ L \in Nat /\ n \in Nat
  OBVIOUS
<1>2. all \in Seq(Nat) /\ Len(all) = L + n
  BY <1>1, ConcatProperties
<1>3. \A x \in 1..(L + n) : all[x] = IF x <= L THEN own[x] ELSE m
  <2> TAKE x \in 1..(L + n)
  <2>1. all[x] = IF x <= Len(own) THEN own[x] ELSE block[x - Len(own)]
    BY <1>1, ConcatProperties
  <2>2. ~(x <= L) => x - L \in 1..n
    BY <1>1
  <2> QED BY <2>1, <2>2
<1>4. Row(acc, r).offset = L + n /\ Row(acc, r).cells = Causal(own) \cup new
  BY DEF Row
<1> HIDE DEF all, L, n
<1>5. Causal(all) = Causal(own) \cup new
  <2>1. ASSUME NEW a \in Nat, NEW b \in Nat
        PROVE  <<a, b>> \in Causal(all) <=> a < L + n /\ b <= a /\ all[a + 1] = all[b + 1]
    <3>1. <<a, b>> \in Causal(all) <=> a < Len(all) /\ b <= a /\ all[a + 1] = all[b + 1]
      BY <1>2, CausalIs
    <3> QED BY <1>2, <3>1
  <2>2. ASSUME NEW a \in Nat, NEW b \in Nat
        PROVE  <<a, b>> \in Causal(own) <=> a < L /\ b <= a /\ own[a + 1] = own[b + 1]
    BY CausalIs DEF L
  <2>3. ASSUME NEW a \in Nat, NEW b \in Nat
        PROVE  <<a, b>> \in new <=> L <= b /\ b <= a /\ a < L + n
    <3>1. ASSUME <<a, b>> \in new PROVE L <= b /\ b <= a /\ a < L + n
      <4>1. PICK c \in mine : a = L + c[1] /\ b = L + c[2]
        BY <3>1
      <4> DEFINE i == c[1]
                 j == c[2]
      <4>2. i \in 0..(n - 1) /\ j \in 0..(n - 1) /\ j <= i /\ a = L + i /\ b = L + j
        BY <4>1
      <4> HIDE DEF i, j
      <4> QED BY ONLY <1>1, <4>2
    <3>2. ASSUME L <= b, b <= a, a < L + n PROVE <<a, b>> \in new
      <4> DEFINE c == <<a - L, b - L>>
      <4>1. /\ a - L \in 0..(n - 1) /\ b - L \in 0..(n - 1) /\ b - L <= a - L
            /\ L + (a - L) = a /\ L + (b - L) = b
        BY <1>1, <3>2
      <4>2. c \in mine /\ c[1] = a - L /\ c[2] = b - L
        BY <4>1
      <4>3. <<L + c[1], L + c[2]>> \in new
        BY <4>2
      <4> QED BY <4>1, <4>2, <4>3
    <3> QED BY <3>1, <3>2
  <2> HIDE DEF new
  <2>4. ASSUME NEW a \in Nat, NEW b \in Nat
        PROVE  <<a, b>> \in Causal(all) <=> <<a, b>> \in Causal(own) \/ <<a, b>> \in new
    <3>1. CASE b <= a /\ a < L
      <4>1. a + 1 \in 1..L /\ b + 1 \in 1..L /\ a + 1 \in 1..(L + n) /\ b + 1 \in 1..(L + n)
        BY <1>1, <3>1
      <4>2. all[a + 1] = own[a + 1] /\ all[b + 1] = own[b + 1]
        BY <1>1, <1>3, <4>1
      <4> QED BY <1>1, <2>1, <2>2, <2>3, <3>1, <4>2
    <3>2. CASE b < L /\ L <= a /\ a < L + n
      <4>1. b + 1 \in 1..L /\ b + 1 \in 1..(L + n) /\ a + 1 \in 1..(L + n) /\ ~(a + 1 <= L)
        BY <1>1, <3>2
      <4>2. all[a + 1] = m /\ all[b + 1] = own[b + 1] /\ own[b + 1] # m
        BY <1>1, <1>3, <4>1 DEF L, NotAmong
      <4> QED BY <1>1, <2>1, <2>2, <2>3, <3>2, <4>2
    <3>3. CASE L <= b /\ b <= a /\ a < L + n
      <4>1. b + 1 \in 1..(L + n) /\ a + 1 \in 1..(L + n) /\ ~(a + 1 <= L) /\ ~(b + 1 <= L)
        BY <1>1, <3>3
      <4>2. all[a + 1] = m /\ all[b + 1] = m
        BY <1>1, <1>3, <4>1
      <4> QED BY <1>1, <2>1, <2>2, <2>3, <3>3, <4>2
    <3>4. CASE ~(b <= a) \/ ~(a < L + n)
      BY <1>1, <2>1, <2>2, <2>3, <3>4
    <3> QED BY <1>1, <3>1, <3>2, <3>3, <3>4
  <2>5. ASSUME NEW c \in Causal(all) \cup (Causal(own) \cup new)
        PROVE  \E a, b \in Nat : c = <<a, b>>
    <3>1. CASE c \in Causal(all)
      BY <1>1, <1>2, <3>1 DEF Causal
    <3>2. CASE c \in Causal(own)
      BY <1>1, <3>2 DEF Causal, L
    <3>3. CASE c \in new
      <4>1. PICK d \in mine : c = <<L + d[1], L + d[2]>>
        BY <3>3 DEF new
      <4>2. d[1] \in Nat /\ d[2] \in Nat
        BY <1>1
      <4>3. L + d[1] \in Nat /\ L + d[2] \in Nat
        BY ONLY <1>1, <4>2
      <4> QED BY <4>1, <4>3
    <3> QED BY <2>5, <3>1, <3>2, <3>3
  <2> DEFINE old == Causal(own)
             whole == Causal(all)
  <2>6. /\ \A a, b \in Nat : <<a, b>> \in whole <=> <<a, b>> \in old \cup new
        /\ \A c \in whole \cup (old \cup new) : \E a, b \in Nat : c = <<a, b>>
    BY <2>4, <2>5
  <2> HIDE DEF old, whole
  <2>7. whole = old \cup new
    BY ONLY <2>6
  <2> QED BY <2>7 DEF old, whole
<1> QED BY <1>2, <1>3, <1>4, <1>5 DEF L, n, all, Adds

LEMMA MaskIs ==
  ASSUME active \in Seq(Record)
  PROVE  MaskIsBlockCausal
<1> DEFINE L == Len(active)
           blocks == [i \in DOMAIN active |-> [k \in 1..active[i].pos |-> i]]
<1>1. L \in Nat /\ DOMAIN active = 1..L /\ \A i \in 1..L : active[i].pos \in Nat
  <2>1. L \in Nat /\ DOMAIN active = 1..L /\ \A i \in 1..L : active[i] \in Record
    BY LenProperties, ElementOfSeq
  <2>2. \A r \in Record : r.pos \in Nat
    BY DEF Record
  <2> QED BY <2>1, <2>2
<1>2. /\ Placed[0] = NoRows
      /\ \A k \in 1..L : Placed[k] = Row(Placed[k - 1], active[k])
  BY <1>1, PlacedIs
<1>3. \A i \in 1..L : blocks[i] = [k \in 1..active[i].pos |-> i]
  BY <1>1
<1>4. blocks \in Seq(Seq(Nat)) /\ Len(blocks) = L
  <2>1. \A i \in 1..L : [k \in 1..active[i].pos |-> i] \in Seq(Nat)
    BY <1>1
  <2>2. blocks \in [1..L -> Seq(Nat)]
    BY <1>1, <2>1
  <2> HIDE DEF blocks
  <2> QED BY <1>1, <2>2
<1>5. MaskIsBlockCausal <=> Placed[L].cells = Causal(FlattenSeq(blocks))
  BY DEF MaskIsBlockCausal, AttentionMask, Causal
<1> HIDE DEF L, blocks
<1>6. CASE L = 0
  <2>1. FlattenSeq(blocks) = blocks /\ Len(blocks) = 0
    BY <1>4, <1>6 DEF FlattenSeq
  <2>2. Causal(blocks) = {}
    BY <2>1 DEF Causal
  <2> QED BY <1>2, <1>5, <1>6, <2>1, <2>2 DEF NoRows
<1>7. CASE L # 0
  <2>1. PICK f : /\ FlattenSeq(blocks) = f[L] /\ f[1] = blocks[1]
                 /\ \A k \in 2..L : f[k] = f[k - 1] \o blocks[k]
    <3>1. Len(blocks) \in Nat \ {0}
      BY <1>1, <1>4, <1>7
    <3> QED BY <1>4, <3>1, FlattenIs
  <2> DEFINE Own(k) == IF k = 0 THEN <<>> ELSE f[k]
             Right(k) == /\ Own(k) \in Seq(Nat)
                         /\ \A x \in 1..Len(Own(k)) : Own(k)[x] <= k
                         /\ Placed[k].offset = Len(Own(k))
                         /\ Placed[k].cells = Causal(Own(k))
             T == {k \in Nat : k <= L => Right(k)}
  <2>2. \A k \in 1..L : Own(k) = Own(k - 1) \o blocks[k]
    <3> TAKE k \in 1..L
    <3>1. CASE k = 1
      <4>1. blocks[1] \in Seq(Nat)
        BY <1>1, <1>4, <1>7
      <4>2. <<>> \o blocks[1] = blocks[1]
        BY <4>1, ConcatEmptySeq
      <4> QED BY <2>1, <3>1, <4>2
    <3>2. CASE k # 1
      <4>1. k \in 2..L /\ k # 0 /\ k - 1 # 0
        BY <1>1, <3>2
      <4> QED BY <2>1, <4>1
    <3> QED BY <3>1, <3>2
  <2>3. Own(0) = <<>> /\ Own(L) = FlattenSeq(blocks)
    BY <1>7, <2>1
  <2> HIDE DEF Own
  <2>4. Right(0)
    <3>1. <<>> \in Seq(Nat) /\ Len(<<>>) = 0
      OBVIOUS
    <3>2. Causal(<<>>) = {}
      BY <3>1 DEF Causal
    <3>3. Placed[0].offset = 0 /\ Placed[0].cells = {}
      BY <1>2 DEF NoRows
    <3> DEFINE none == Own(0)
    <3>4. none = <<>>
      BY <2>3
    <3> HIDE DEF none
    <3>5. none \in Seq(Nat) /\ Len(none) = 0 /\ Causal(none) = {}
      BY <3>1, <3>2, <3>4
    <3>6. \A x \in 1..Len(none) : none[x] <= 0
      BY <3>5
    <3>7. Placed[0].offset = Len(none) /\ Placed[0].cells = Causal(none)
      BY <3>3, <3>5
    <3> QED BY <3>5, <3>6, <3>7 DEF none
  <2>5. ASSUME NEW n \in Nat, n \in T PROVE n + 1 \in T
    <3> SUFFICES ASSUME n + 1 <= L PROVE Right(n + 1)
      OBVIOUS
    <3> DEFINE m == n + 1
               own == Own(n)
               acc == Placed[n]
               r == active[m]
    <3>1. m \in 1..L /\ m - 1 = n /\ m \in Nat /\ Right(n)
      BY <1>1, <2>5
    <3>2. Placed[m] = Row(acc, r) /\ Own(m) = own \o blocks[m]
      BY <1>2, <2>2, <3>1
    <3>3. own \in Seq(Nat) /\ acc.offset = Len(own) /\ acc.cells = Causal(own)
      BY <3>1
    <3>4. Len(own) \in Nat /\ \A x \in 1..Len(own) : own[x] \in Nat /\ own[x] <= n
      BY <3>1, <3>3, LenProperties, ElementOfSeq
    <3>5. NotAmong(own, m)
      BY <3>4 DEF NotAmong
    <3> DEFINE block == blocks[m]
    <3>6. r.pos \in Nat /\ block = [j \in 1..r.pos |-> m]
      BY <1>1, <1>3, <3>1
    <3> HIDE DEF m, own, acc, r, block
    <3>7. Adds(own, block, acc, r, m)
      BY ONLY <3>1, <3>3, <3>5, <3>6, RowExtends
    <3>8. Own(m) = own \o block
      BY <3>2 DEF block
    <3>9. \A x \in 1..Len(Own(m)) : Own(m)[x] <= m
      <4>1. ASSUME NEW x \in 1..Len(own \o block) PROVE (own \o block)[x] <= m
        <5>1. CASE x <= Len(own)
          <6>1. x \in 1..Len(own) /\ (own \o block)[x] = own[x]
            BY <3>4, <3>6, <3>7, <5>1 DEF Adds
          <6>2. own[x] \in Nat /\ own[x] <= n /\ n <= m
            BY <3>4, <6>1 DEF m
          <6> QED BY <3>1, <6>1, <6>2
        <5>2. CASE ~(x <= Len(own))
          BY <3>1, <3>4, <3>6, <3>7, <5>2 DEF Adds
        <5> QED BY <5>1, <5>2
      <4> QED BY <3>8, <4>1
    <3>10. Right(m)
      BY <3>2, <3>7, <3>8, <3>9 DEF Adds
    <3> QED BY <3>10 DEF m
  <2> HIDE DEF Right
  <2>6. 0 \in T
    BY <2>4
  <2> HIDE DEF T
  <2>7. L \in T
    BY <1>1, <2>5, <2>6, Induction
  <2>8. Right(L)
    BY <1>1, <2>7 DEF T
  <2> QED BY <1>5, <2>3, <2>8 DEF Right
<1> QED BY <1>6, <1>7

(* The mask lets a token see those of its own request up to itself, and no   *)
(* other, however many requests there are and however long they have become. *)
THEOREM MaskCorrect == Spec => []MaskIsBlockCausal
<1>1. IInv => MaskIsBlockCausal
  BY MaskIs DEF IInv, Shape
<1> QED BY <1>1, Invariance, PTL
=============================================================================
