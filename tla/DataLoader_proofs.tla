------------------------- MODULE DataLoader_proofs --------------------------
(***************************************************************************)
(* SampleQueue is a bounded channel for any number of workers, consumers   *)
(* and queue sizes, whatever threads are interrupted where.                *)
(***************************************************************************)
EXTENDS DataLoader, SequenceTheorems, FiniteSetTheorems, TLAPS

LEMMA NextTag == ASSUME NEW n \in Nat PROVE (n + 1) % Tags \in 0..(Tags - 1)
<1>1. Tags \in Nat /\ Tags # 0
  BY LoaderAssumption
<1> QED BY <1>1

(* Notification moves sleeping threads to "acquire" and no other.            *)
LEMMA NotifyType ==
  ASSUME NEW S, "acquire" \in S, NEW p \in [Threads -> S]
  PROVE  /\ NotifyOne(p) \subseteq [Threads -> S]
         /\ NotifyAll(p) \in [Threads -> S]
<1>1. NotifyAll(p) \in [Threads -> S]
  BY DEF NotifyAll
<1>2. ASSUME NEW q \in NotifyOne(p) PROVE q \in [Threads -> S]
  <2> DEFINE sleeping == {t \in Threads : p[t] = "wait"}
  <2>1. q = p \/ \E t \in sleeping : q = [p EXCEPT ![t] = "acquire"]
    BY DEF NotifyOne
  <2> QED BY <2>1
<1> QED BY <1>1, <1>2

Inside == {"acquire", "test", "block", "wait"}

(* A consumer inside get_batch still has a row to fill.                      *)
RowLeft == \A c \in Consumers : pc[c] \in Inside => rows[c] < BatchSize

IInv == TypeOK /\ RowLeft

LEMMA InitInv == Init => IInv
<1> SUFFICES ASSUME Init PROVE IInv
  OBVIOUS
<1> USE LoaderAssumption DEF Init
<1>1. pc \in [Threads -> Points] /\ \A c \in Consumers : pc[c] = "idle"
  BY DEF Threads, Points
<1>2. 0 \in 0..(Tags - 1) /\ 0 \in 0..BatchSize
  <2>1. Tags \in Nat /\ Tags # 0 /\ BatchSize \in Nat
    OBVIOUS
  <2> QED BY ONLY <2>1
<1>3. TypeOK
  <2>1. made \in [Workers -> 0..(Tags - 1)] /\ taken \in [Workers -> 0..(Tags - 1)]
    BY <1>2
  <2>2. rows \in [Consumers -> 0..BatchSize]
    BY <1>2
  <2>3. result \in [Consumers -> {"none", "full", "short", "empty"}]
    OBVIOUS
  <2>4. queue \in Seq(Samples) /\ ctl = "idle"
    OBVIOUS
  <2>5. finished \in BOOLEAN /\ running \in BOOLEAN /\ reused \in BOOLEAN
    OBVIOUS
  <2> QED BY ONLY <1>1, <2>1, <2>2, <2>3, <2>4, <2>5 DEF TypeOK
<1>4. RowLeft
  BY <1>1 DEF RowLeft, Inside
<1> QED BY <1>3, <1>4 DEF IInv

(* A woken thread was asleep, so inside, and nobody else moves.              *)
LEMMA NotifyInside ==
  ASSUME NEW p \in [Threads -> Points], NEW q \in NotifyOne(p) \cup {NotifyAll(p)},
         NEW t \in Threads, q[t] \in Inside
  PROVE  p[t] \in Inside
<1>1. q[t] = p[t] \/ p[t] = "wait"
  BY DEF NotifyOne, NotifyAll
<1> QED BY <1>1 DEF Inside

(* One step of a worker, of a consumer or of the controlling thread keeps    *)
(* every variable of its type, and the row counters below the batch size.    *)
LEMMA NextInv == IInv /\ [Next]_vars => IInv'
<1> SUFFICES ASSUME IInv, [Next]_vars PROVE IInv'
  OBVIOUS
<1> USE LoaderAssumption
<1>t. /\ pc \in [Threads -> Points] /\ queue \in Seq(Samples)
      /\ made \in [Workers -> 0..(Tags - 1)] /\ taken \in [Workers -> 0..(Tags - 1)]
      /\ rows \in [Consumers -> 0..BatchSize]
      /\ result \in [Consumers -> {"none", "full", "short", "empty"}]
  BY DEF IInv, TypeOK
<1>p. ASSUME NEW t \in Threads, NEW s \in Points
      PROVE  [pc EXCEPT ![t] = s] \in [Threads -> Points]
  BY <1>t
<1>r. \A c \in Consumers : c \in Threads /\ (pc[c] \in Inside => rows[c] < BatchSize)
  BY DEF IInv, RowLeft, Threads
<1>1. ASSUME NEW t \in Threads,
             Acquire(t) \/ Block(t) \/ SpuriousWakeup(t) \/ PushMustWait(t)
               \/ PopMustWait(t)
      PROVE  IInv'
  <2>1. PICK s \in Inside : pc' = [pc EXCEPT ![t] = s] /\ pc[t] \in Inside
    BY <1>1 DEF Acquire, Block, SpuriousWakeup, PushMustWait, PopMustWait, Inside
  <2>2. pc' \in [Threads -> Points]
    BY <1>p, <2>1 DEF Points, Inside
  <2>3. UNCHANGED <<queue, finished, running, rows, result, ctl, made, taken, reused>>
    BY <1>1 DEF Acquire, Block, SpuriousWakeup, PushMustWait, PopMustWait
  <2>4. TypeOK'
    BY <2>2, <2>3 DEF IInv, TypeOK
  <2>5. RowLeft'
    BY <1>t, <1>r, <2>1, <2>3 DEF RowLeft
  <2> QED BY <2>4, <2>5 DEF IInv
<1>2. ASSUME NEW w \in Workers, Open(w) \/ Loop(w) PROVE IInv'
  <2>1. PICK s \in Points : pc' = [pc EXCEPT ![w] = s]
    BY <1>2 DEF Open, Loop, Points
  <2>2. pc' \in [Threads -> Points]
    BY <1>p, <2>1 DEF Threads
  <2>3. UNCHANGED <<queue, finished, running, rows, result, ctl, made, taken, reused>>
    BY <1>2 DEF Open, Loop
  <2>4. TypeOK'
    BY <2>2, <2>3 DEF IInv, TypeOK
  <2>5. RowLeft'
    BY <1>t, <1>r, <2>1, <2>3 DEF RowLeft
  <2> QED BY <2>4, <2>5 DEF IInv
<1>3. ASSUME NEW w \in Workers, Push(w) PROVE IInv'
  <2> DEFINE p == [pc EXCEPT ![w] = "loop"]
  <2>1. made[w] \in Nat /\ <<w, made[w]>> \in Samples
    BY <1>t DEF Samples
  <2>2. queue' \in Seq(Samples)
    BY <1>3, <1>t, <2>1 DEF Push
  <2>3. made' \in [Workers -> 0..(Tags - 1)]
    BY <1>3, <1>t, <2>1, NextTag DEF Push
  <2>4. p \in [Threads -> Points] /\ pc' \in NotifyOne(p)
    BY <1>3, <1>p DEF Push, Points, Threads
  <2>5. pc' \in [Threads -> Points]
    BY <2>4, NotifyType DEF Points
  <2>6. TypeOK'
    BY <1>3, <2>2, <2>3, <2>5 DEF Push, IInv, TypeOK
  <2>7. RowLeft'
    <3>1. \A c \in Consumers : p[c] = pc[c]
      BY <1>t, <1>r
    <3>2. \A c \in Consumers : pc'[c] \in Inside => p[c] \in Inside
      BY <1>r, <2>4, NotifyInside
    <3> QED BY <1>3, <1>r, <3>1, <3>2 DEF RowLeft, Push
  <2> QED BY <2>6, <2>7 DEF IInv
<1>4. ASSUME NEW c \in Consumers, BeginBatch(c) PROVE IInv'
  <2>1. pc' \in [Threads -> Points]
    BY <1>4, <1>p DEF BeginBatch, Threads, Points
  <2>2. rows' \in [Consumers -> 0..BatchSize] /\ rows'[c] = 0
    BY <1>4, <1>t DEF BeginBatch
  <2>3. TypeOK'
    BY <1>4, <2>1, <2>2 DEF BeginBatch, IInv, TypeOK
  <2>4. RowLeft'
    BY <1>4, <1>t, <1>r, <2>2 DEF BeginBatch, RowLeft
  <2> QED BY <2>3, <2>4 DEF IInv
<1>5. ASSUME NEW c \in Consumers, Pop(c) PROVE IInv'
  <2> DEFINE full == rows[c] + 1 = BatchSize
             p == [pc EXCEPT ![c] = IF full THEN "idle" ELSE "acquire"]
  <2>1. rows[c] \in Nat /\ rows[c] < BatchSize /\ BatchSize \in Nat
    BY <1>5, <1>t, <1>r DEF Pop, Inside
  <2>2. rows' = [rows EXCEPT ![c] = rows[c] + 1] /\ rows[c] + 1 \in 0..BatchSize
    BY <1>5, <2>1 DEF Pop
  <2>3. rows' \in [Consumers -> 0..BatchSize]
    BY <1>t, <2>2
  <2>4. Head(queue) \in Samples /\ queue' \in Seq(Samples)
    BY <1>5, <1>t DEF Pop
  <2>5. taken' \in [Workers -> 0..(Tags - 1)]
    <3>1. Head(queue)[1] \in Workers
      BY <2>4 DEF Samples
    <3>2. taken[Head(queue)[1]] \in Nat
      BY <1>t, <3>1
    <3>3. (taken[Head(queue)[1]] + 1) % Tags \in 0..(Tags - 1)
      BY <3>2, NextTag
    <3> QED BY <1>5, <1>t, <3>1, <3>3 DEF Pop
  <2>6. p \in [Threads -> Points] /\ pc' \in NotifyOne(p)
    BY <1>5, <1>p, <1>r DEF Pop, Points
  <2>7. pc' \in [Threads -> Points]
    BY <2>6, NotifyType DEF Points
  <2>8. result' \in [Consumers -> {"none", "full", "short", "empty"}]
    BY <1>5, <1>t DEF Pop
  <2>9. TypeOK'
    BY <1>5, <2>3, <2>4, <2>5, <2>7, <2>8 DEF Pop, IInv, TypeOK
  <2>10. RowLeft'
    <3> SUFFICES ASSUME NEW d \in Consumers, pc'[d] \in Inside
                 PROVE  rows'[d] < BatchSize
      BY DEF RowLeft
    <3>1. p[d] \in Inside
      BY <1>r, <2>6, NotifyInside
    <3>2. CASE d = c
      <4>1. ~full
        BY <1>t, <1>r, <3>1, <3>2 DEF Inside
      <4> QED BY <1>t, <2>1, <2>2, <3>2, <4>1
    <3>3. CASE d # c
      BY <1>t, <1>r, <2>2, <3>1, <3>3
    <3> QED BY <3>2, <3>3
  <2> QED BY <2>9, <2>10 DEF IInv
<1>6. ASSUME NEW c \in Consumers, PopNothing(c) PROVE IInv'
  <2>1. /\ pc' = [pc EXCEPT ![c] = "idle"] /\ pc' \in [Threads -> Points]
        /\ result' \in [Consumers -> {"none", "full", "short", "empty"}]
    BY <1>6, <1>t, <1>p, <1>r DEF PopNothing, Points
  <2>2. TypeOK'
    BY <1>6, <2>1 DEF PopNothing, IInv, TypeOK
  <2>3. RowLeft'
    BY <1>6, <1>t, <1>r, <2>1 DEF PopNothing, RowLeft, Inside
  <2> QED BY <2>2, <2>3 DEF IInv
<1>7. ASSUME Start \/ StopRunning \/ SetFinished \/ Notify \/ Join PROVE IInv'
  <2>1. pc' \in [Threads -> Points]
    <3>1. CASE Start \/ Join
      BY <1>t, <3>1 DEF Start, Join, Points
    <3>2. CASE Notify
      BY <1>t, <3>2, NotifyType DEF Notify, Points
    <3> QED BY <1>7, <1>t, <3>1, <3>2 DEF StopRunning, SetFinished
  <2>2. \A c \in Consumers : pc'[c] \in Inside => pc[c] \in Inside
    <3>1. CASE Start \/ Join
      BY <1>t, <1>r, <3>1 DEF Start, Join
    <3>2. CASE Notify
      BY <1>t, <1>r, <3>2, NotifyInside DEF Notify
    <3> QED BY <1>7, <3>1, <3>2 DEF StopRunning, SetFinished
  <2>3. TypeOK'
    BY <1>7, <2>1 DEF Start, StopRunning, SetFinished, Notify, Join, IInv, TypeOK
  <2>4. rows' = rows
    BY <1>7 DEF Start, StopRunning, SetFinished, Notify, Join
  <2> QED BY <1>r, <2>2, <2>3, <2>4 DEF IInv, RowLeft
<1>8. CASE UNCHANGED vars
  BY <1>8 DEF vars, IInv, TypeOK, RowLeft
<1> QED BY <1>1, <1>2, <1>3, <1>4, <1>5, <1>6, <1>7, <1>8
        DEF Next, WorkerStep, ConsumerStep, StopStep, Threads

LEMMA Invariance == Spec => []IInv
  BY InitInv, NextInv, PTL DEF Spec

-----------------------------------------------------------------------------
THEOREM TypeCorrect == Spec => []TypeOK
<1>1. IInv => TypeOK
  BY DEF IInv
<1> QED BY Invariance, <1>1, PTL

(* Workers inside push: each may still add one sample when running_ is off.  *)
Pushing == {w \in Workers : pc[w] \in Inside}

Room ==
  /\ ctl # "idle" => ~running
  /\ ~finished => Len(queue) <= Capacity
  /\ ~reused /\ finished => ~running
  /\ ~reused /\ ~running
       => Len(queue) + Cardinality(Pushing) <= Capacity + Cardinality(Workers)

LEMMA PushingFinite ==
  /\ Cardinality(Workers) \in Nat
  /\ \A S \in SUBSET Workers :
       /\ IsFiniteSet(S) /\ Cardinality(S) \in Nat
       /\ Cardinality(S) <= Cardinality(Workers)
  BY LoaderAssumption, FS_Subset, FS_CardinalityType

LEMMA RoomNext == IInv /\ Room /\ [Next]_vars => Room'
<1> SUFFICES ASSUME IInv, Room, [Next]_vars PROVE Room'
  OBVIOUS
<1>1. /\ queue \in Seq(Samples) /\ Len(queue) \in Nat /\ Capacity \in Nat
      /\ pc \in [Threads -> Points] /\ Workers \subseteq Threads
      /\ finished \in BOOLEAN /\ running \in BOOLEAN /\ reused \in BOOLEAN
  BY LoaderAssumption DEF IInv, TypeOK, Threads
<1>2. /\ Pushing \in SUBSET Workers /\ Pushing' \in SUBSET Workers
      /\ Cardinality(Pushing) \in Nat /\ Cardinality(Pushing') \in Nat
      /\ Cardinality(Pushing) <= Cardinality(Workers)
      /\ Cardinality(Pushing') <= Cardinality(Workers)
      /\ Cardinality(Workers) \in Nat
  BY PushingFinite DEF Pushing
<1>s. ASSUME Pushing' \subseteq Pushing
      PROVE  Cardinality(Pushing') <= Cardinality(Pushing)
  BY <1>s, <1>2, PushingFinite, FS_Subset
<1>3. CASE \E w \in Workers : Push(w)
  <2>1. PICK w \in Workers : Push(w)
    BY <1>3
  <2> DEFINE p == [pc EXCEPT ![w] = "loop"]
  <2>2. p \in [Threads -> Points] /\ pc' \in NotifyOne(p)
    BY <1>1, <2>1 DEF Push, Points
  <2>3. Pushing' \subseteq Pushing \ {w}
    <3> SUFFICES ASSUME NEW v \in Workers, pc'[v] \in Inside
                 PROVE  pc[v] \in Inside /\ v # w
      BY DEF Pushing
    <3>1. p[v] \in Inside
      BY <1>1, <2>2, NotifyInside
    <3> QED BY <1>1, <3>1 DEF Inside
  <2>4. w \in Pushing
    BY <2>1 DEF Push, Pushing, Inside
  <2>5. Cardinality(Pushing') <= Cardinality(Pushing) - 1
    <3>1. Cardinality(Pushing \ {w}) = Cardinality(Pushing) - 1
      BY <1>2, <2>4, PushingFinite, FS_RemoveElement
    <3>2. IsFiniteSet(Pushing \ {w})
      BY <1>2, PushingFinite, FS_Subset
    <3> QED BY <2>3, <3>1, <3>2, FS_Subset
  <2>6. Len(queue') = Len(queue) + 1
    BY <1>1, <2>1 DEF Push
  <2>7. ~finished => Len(queue) < Capacity
    BY <2>1 DEF Push, CanPush
  <2>8. UNCHANGED <<finished, running, reused, ctl>>
    BY <2>1 DEF Push
  <2> QED BY <1>1, <1>2, <2>5, <2>6, <2>7, <2>8 DEF Room
<1>4. CASE \E c \in Consumers : Pop(c)
  <2>1. PICK c \in Consumers : Pop(c)
    BY <1>4
  <2>2. Len(queue') = Len(queue) - 1 /\ UNCHANGED <<finished, running, reused, ctl>>
    BY <1>1, <2>1 DEF Pop
  <2>3. Pushing' \subseteq Pushing
    <3> DEFINE p == [pc EXCEPT ![c] = IF rows[c] + 1 = BatchSize
                                      THEN "idle" ELSE "acquire"]
    <3>1. /\ p \in [Threads -> Points] /\ pc' \in NotifyOne(p)
          /\ \A w \in Workers : p[w] = pc[w]
      BY <1>1, <2>1, LoaderAssumption DEF Pop, Points
    <3>2. \A w \in Workers : pc'[w] \in Inside => p[w] \in Inside
      BY <1>1, <3>1, NotifyInside
    <3> QED BY <3>1, <3>2 DEF Pushing
  <2> QED BY <1>1, <1>2, <1>s, <2>2, <2>3, SMTT(30) DEF Room
<1>5. CASE Start
  <2>1. /\ running' /\ reused' = (reused \/ finished)
        /\ ctl = "idle" /\ UNCHANGED <<queue, finished, ctl>>
    BY <1>5 DEF Start
  <2> QED BY <1>1, <2>1 DEF Room
<1>6. CASE StopRunning
  <2>1. running' = FALSE /\ UNCHANGED <<queue, finished, pc, reused>>
    BY <1>6 DEF StopRunning
  <2>2. Pushing' = Pushing
    BY <2>1 DEF Pushing
  <2> QED BY <1>1, <1>2, <2>1, <2>2 DEF Room
<1>7. CASE SetFinished
  <2>1. /\ finished' /\ ctl # "idle" /\ UNCHANGED <<queue, pc, running, reused>>
    BY <1>7 DEF SetFinished
  <2>2. Pushing' = Pushing
    BY <2>1 DEF Pushing
  <2> QED BY <2>1, <2>2 DEF Room
<1>8. CASE \/ \E w \in Workers : Open(w) \/ Loop(w)
           \/ \E t \in Threads : Acquire(t) \/ Block(t) \/ SpuriousWakeup(t)
           \/ \E w \in Workers : PushMustWait(w)
           \/ \E c \in Consumers : PopNothing(c) \/ PopMustWait(c) \/ BeginBatch(c)
           \/ Notify \/ Join \/ UNCHANGED vars
  <2>1. UNCHANGED <<queue, finished, running, reused>>
    BY <1>8 DEF Open, Loop, Acquire, Block, SpuriousWakeup, PushMustWait, PopNothing,
                PopMustWait, BeginBatch, Notify, Join, vars
  <2>2. running \/ Pushing' \subseteq Pushing
    <3> SUFFICES ASSUME ~running, NEW w \in Workers, pc'[w] \in Inside
                 PROVE  pc[w] \in Inside
      BY DEF Pushing
    <3>1. CASE Notify
      BY <1>1, <3>1, NotifyInside DEF Notify
    <3>2. CASE ~Notify
      BY <1>1, <1>8, <3>2, LoaderAssumption
      DEF Open, Loop, Acquire, Block, SpuriousWakeup, PushMustWait, PopNothing,
          PopMustWait, BeginBatch, Join, vars, Inside, Threads
    <3> QED BY <3>1, <3>2
  <2>3. ctl' # "idle" => ctl # "idle"
    BY <1>8 DEF Open, Loop, Acquire, Block, SpuriousWakeup, PushMustWait, PopNothing,
                PopMustWait, BeginBatch, Notify, Join, vars
  <2> QED BY <1>1, <1>2, <1>s, <2>1, <2>2, <2>3 DEF Room
<1> QED BY <1>3, <1>4, <1>5, <1>6, <1>7, <1>8
        DEF Next, WorkerStep, ConsumerStep, StopStep, Threads

(* The queue is bounded, before and after stop, for every interleaving.      *)
THEOREM Bounded == Spec => []QueueBounded
<1>1. Init => Room
  <2> SUFFICES ASSUME Init PROVE Room
    OBVIOUS
  <2>1. Pushing = {}
    BY DEF Init, Pushing, Inside, Threads
  <2>2. Cardinality({}) = 0
    BY FS_EmptySet
  <2> QED BY <2>1, <2>2, PushingFinite, LoaderAssumption DEF Init, Room
<1>2. IInv /\ Room => QueueBounded
  <2> SUFFICES ASSUME IInv, Room PROVE QueueBounded
    OBVIOUS
  <2>1. /\ Len(queue) \in Nat /\ Capacity \in Nat
        /\ Cardinality(Workers) \in Nat /\ Cardinality(Pushing) \in Nat
    BY PushingFinite, LoaderAssumption DEF IInv, TypeOK, Pushing
  <2>2. ~finished => Len(queue) <= Capacity
    BY DEF Room
  <2>3. ~reused /\ finished => Len(queue) <= Capacity + Cardinality(Workers)
    BY <2>1 DEF Room
  <2> QED BY <2>1, <2>2, <2>3 DEF QueueBounded
<1> QED BY Invariance, <1>1, <1>2, RoomNext, PTL DEF Spec

(* SampleQueue implements the bounded channel.                               *)
THEOREM Refinement == Spec => IsChannel
<1> USE DEF Channel!Init, Channel!Next
<1>1. Init => Channel!Init
  BY DEF Init
<1>2. IInv /\ [Next]_vars => [Channel!Next]_<<queue, finished>>
  <2> SUFFICES ASSUME IInv, [Next]_vars,
                      ~ UNCHANGED <<queue, finished>>
               PROVE  Channel!Next
    OBVIOUS
  <2>1. CASE \E w \in Workers : Push(w)
    <3>1. PICK w \in Workers : Push(w)
      BY <2>1
    <3>2. <<w, made[w]>> \in Samples
      BY DEF IInv, TypeOK, Samples
    <3> QED BY <3>1, <3>2 DEF Push, CanPush, Channel!Put
  <2>2. CASE \E c \in Consumers : Pop(c)
    BY <2>2 DEF Pop, Channel!Get
  <2>3. CASE SetFinished
    BY <2>3 DEF SetFinished, Channel!Close
  <2> QED BY <2>1, <2>2, <2>3
          DEF Next, vars, WorkerStep, ConsumerStep, StopStep, Open, Loop, Acquire,
              PushMustWait, Block, PopNothing, PopMustWait, BeginBatch,
              SpuriousWakeup, Start, StopRunning, Notify, Join
<1> QED BY Invariance, <1>1, <1>2, PTL DEF Spec, IsChannel, Channel!Spec
-----------------------------------------------------------------------------
(* A short batch needs a finished queue, which is never open again.          *)
LEMMA ShortNext == IInv /\ ShortOnlyWhenFinished /\ [Next]_vars => ShortOnlyWhenFinished'
<1> SUFFICES ASSUME IInv, ShortOnlyWhenFinished, [Next]_vars PROVE ShortOnlyWhenFinished'
  OBVIOUS
<1>1. result \in [Consumers -> {"none", "full", "short", "empty"}]
  BY DEF IInv, TypeOK
<1>2. ASSUME NEW c \in Consumers, BeginBatch(c) \/ Pop(c) PROVE ShortOnlyWhenFinished'
  <2>1. finished' = finished /\ \E s \in {"none", "full", result[c]} : result' = [result EXCEPT ![c] = s]
    BY <1>2 DEF BeginBatch, Pop
  <2> QED BY <1>1, <2>1 DEF ShortOnlyWhenFinished
<1>3. ASSUME NEW c \in Consumers, PopNothing(c) PROVE ShortOnlyWhenFinished'
  BY <1>3 DEF PopNothing, CanPop, ShortOnlyWhenFinished
<1>4. ASSUME result' = result, finished => finished' PROVE ShortOnlyWhenFinished'
  BY <1>4 DEF ShortOnlyWhenFinished
<1>5. ASSUME NEW t \in Threads,
             \/ Open(t) \/ Loop(t) \/ Acquire(t) \/ Push(t) \/ PushMustWait(t) \/ Block(t)
             \/ PopMustWait(t) \/ SpuriousWakeup(t)
      PROVE  result' = result /\ finished' = finished
  BY <1>5 DEF Open, Loop, Acquire, Push, PushMustWait, Block, PopMustWait, SpuriousWakeup
<1>6. ASSUME Start \/ StopRunning \/ StopStep \/ UNCHANGED vars
      PROVE  result' = result /\ (finished => finished')
  BY <1>6 DEF Start, StopRunning, StopStep, SetFinished, Notify, Join, vars
<1> QED BY <1>2, <1>3, <1>4, <1>5, <1>6 DEF Next, WorkerStep, ConsumerStep, Threads

(* No interleaving of wakeups makes get_batch return early before stop.      *)
THEOREM ShortIsLast == Spec => []ShortOnlyWhenFinished
<1>1. Init => ShortOnlyWhenFinished
  BY DEF Init, ShortOnlyWhenFinished
<1> QED BY Invariance, <1>1, ShortNext, PTL DEF Spec

-----------------------------------------------------------------------------
(* Counting modulo Tags *)

LEMMA Divided ==
  ASSUME NEW x \in Nat
  PROVE  x % Tags \in 0..(Tags - 1) /\ x \div Tags \in Nat
         /\ x = Tags * (x \div Tags) + (x % Tags)
<1>1. Tags \in Nat /\ Tags # 0
  BY LoaderAssumption
<1> QED BY <1>1

LEMMA OneRemainder ==
  ASSUME NEW q \in Nat, NEW p \in Nat, NEW r \in 0..(Tags - 1), NEW s \in 0..(Tags - 1),
         Tags * q + r = Tags * p + s
  PROVE  r = s
<1>1. Tags \in Nat /\ Tags # 0
  BY LoaderAssumption
<1>2. \A x, y \in Nat : x < y => Tags * (y - x) >= Tags /\ Tags * y = Tags * x + Tags * (y - x)
  BY <1>1
<1>3. Tags * q \in Nat /\ Tags * p \in Nat
  BY <1>1
<1>4. ~(q < p) /\ ~(p < q)
  BY <1>1, <1>2, <1>3
<1>5. q = p
  BY <1>4
<1> QED BY <1>1, <1>3, <1>5

LEMMA ModShift ==
  ASSUME NEW x \in Nat, NEW k \in Nat
  PROVE  ((x % Tags) + k) % Tags = (x + k) % Tags
<1> DEFINE r == x % Tags
           q == x \div Tags
<1>1. r \in Nat /\ q \in Nat /\ x = Tags * q + r /\ Tags \in Nat
  BY Divided, LoaderAssumption
<1> HIDE DEF r, q
<1>2. r + k \in Nat /\ x + k \in Nat
  BY <1>1
<1> DEFINE s == (r + k) % Tags
           t == (x + k) % Tags
           u == (r + k) \div Tags
           v == (x + k) \div Tags
<1>3. /\ s \in 0..(Tags - 1) /\ t \in 0..(Tags - 1) /\ u \in Nat /\ v \in Nat
      /\ r + k = Tags * u + s /\ x + k = Tags * v + t
  BY <1>2, Divided
<1> HIDE DEF s, t, u, v
<1>4. Tags * (q + u) = Tags * q + Tags * u /\ q + u \in Nat
  BY <1>1, <1>3
<1>5. Tags * q \in Nat /\ Tags * u \in Nat /\ Tags * v \in Nat
  BY <1>1, <1>3
<1>6. Tags * (q + u) + s = Tags * v + t
  BY <1>1, <1>2, <1>3, <1>4, <1>5
<1>7. s = t
  BY <1>3, <1>4, <1>6, OneRemainder
<1> QED BY <1>7 DEF r, s, t

(* The samples of w among the first n of a queue.                            *)
Mine(s, w, n) == {j \in 1..n : s[j][1] = w}

LEMMA MineFinite ==
  ASSUME NEW s, NEW w, NEW n \in Nat
  PROVE  IsFiniteSet(Mine(s, w, n)) /\ Cardinality(Mine(s, w, n)) \in Nat
<1>1. IsFiniteSet(1..n) /\ Mine(s, w, n) \subseteq 1..n
  BY FS_Interval DEF Mine
<1> QED BY <1>1, FS_Subset, FS_CardinalityType

LEMMA MineNext ==
  ASSUME NEW s, NEW w, NEW n \in Nat
  PROVE  Cardinality(Mine(s, w, n + 1)) =
           Cardinality(Mine(s, w, n)) + (IF s[n + 1][1] = w THEN 1 ELSE 0)
<1>1. n + 1 \notin Mine(s, w, n)
  BY DEF Mine
<1>2. Mine(s, w, n + 1) = IF s[n + 1][1] = w THEN Mine(s, w, n) \cup {n + 1} ELSE Mine(s, w, n)
  BY DEF Mine
<1>3. Cardinality(Mine(s, w, n) \cup {n + 1}) = Cardinality(Mine(s, w, n)) + 1
  BY <1>1, MineFinite, FS_AddElement
<1>4. Cardinality(Mine(s, w, n)) \in Nat
  BY MineFinite
<1> QED BY <1>2, <1>3, <1>4

(* Removing the front shifts the others down by one.                         *)
LEMMA MineTail ==
  ASSUME NEW s, NEW t, NEW w, NEW n \in Nat, \A j \in 1..n : t[j] = s[j + 1]
  PROVE  Cardinality(Mine(s, w, n + 1)) =
           Cardinality(Mine(t, w, n)) + (IF s[1][1] = w THEN 1 ELSE 0)
<1> DEFINE rest == Mine(s, w, n + 1) \ {1}
           shift == [j \in Mine(t, w, n) |-> j + 1]
<1>1. shift \in Bijection(Mine(t, w, n), rest)
  <2>1. ASSUME NEW j \in Mine(t, w, n) PROVE j + 1 \in rest
    <3>1. j \in 1..n /\ t[j][1] = w
      BY DEF Mine
    <3>2. j + 1 \in 1..(n + 1) /\ j + 1 # 1 /\ s[j + 1][1] = w
      BY <3>1
    <3> QED BY <3>2 DEF Mine
  <2>2. ASSUME NEW k \in rest PROVE k - 1 \in Mine(t, w, n) /\ (k - 1) + 1 = k
    <3>1. k \in 1..(n + 1) /\ k # 1 /\ s[k][1] = w
      BY DEF Mine
    <3>2. k - 1 \in 1..n /\ (k - 1) + 1 = k
      BY <3>1
    <3>3. t[k - 1] = s[k]
      BY <3>2
    <3> QED BY <3>1, <3>2, <3>3 DEF Mine
  <2>3. \A i, j \in Mine(t, w, n) : i + 1 = j + 1 => i = j
    BY DEF Mine
  <2> HIDE DEF rest
  <2>4. shift \in [Mine(t, w, n) -> rest]
    BY <2>1
  <2>5. \A k \in rest : \E j \in Mine(t, w, n) : shift[j] = k
    BY <2>2
  <2>6. \A i, j \in Mine(t, w, n) : i # j => shift[i] # shift[j]
    BY <2>3
  <2> QED BY <2>4, <2>5, <2>6 DEF Bijection, Injection, Surjection, IsInjective
<1>2. Cardinality(rest) = Cardinality(Mine(t, w, n))
  <2>1. IsFiniteSet(Mine(t, w, n))
    BY MineFinite
  <2>2. shift \in Bijection(Mine(t, w, n), rest)
    BY <1>1
  <2> HIDE DEF shift, rest
  <2> QED BY <2>1, <2>2, FS_Bijection DEF ExistsBijection
<1>3. IsFiniteSet(Mine(s, w, n + 1)) /\ Cardinality(Mine(s, w, n + 1)) \in Nat
  BY MineFinite
<1>4. CASE s[1][1] = w
  <2>1. 1 \in Mine(s, w, n + 1)
    BY <1>4 DEF Mine
  <2>2. Cardinality(rest) = Cardinality(Mine(s, w, n + 1)) - 1
    BY <1>3, <2>1, FS_RemoveElement
  <2> QED BY <1>2, <1>3, <1>4, <2>2
<1>5. CASE s[1][1] # w
  <2>1. rest = Mine(s, w, n + 1)
    BY <1>5 DEF Mine
  <2>2. Cardinality(Mine(t, w, n)) \in Nat
    BY MineFinite
  <2> QED BY <1>2, <1>5, <2>1, <2>2
<1> QED BY <1>4, <1>5

(* NothingLost, said of a queue s and of the counters.                       *)
InOrder(s, n, m, t) ==
  /\ \A i \in 1..n : /\ s[i][1] \in Workers
                     /\ s[i][2] = (t[s[i][1]] + Cardinality(Mine(s, s[i][1], i - 1))) % Tags
  /\ \A w \in Workers : m[w] = (t[w] + Cardinality(Mine(s, w, n))) % Tags

LEMMA InOrderIs ==
  ASSUME IInv
  PROVE  NothingLost <=> InOrder(queue, Len(queue), made, taken)
<1>1. /\ queue \in Seq(Samples) /\ Len(queue) \in Nat /\ DOMAIN queue = 1..Len(queue)
      /\ \A i \in 1..Len(queue) : queue[i][1] \in Workers
  BY DEF IInv, TypeOK, Samples
<1>2. \A w \in Workers, i \in Nat : Ahead(w, i) = Cardinality(Mine(queue, w, i - 1))
  BY DEF Ahead, Mine
<1>3. Len(queue) + 1 \in Nat /\ (Len(queue) + 1) - 1 = Len(queue)
  BY <1>1
<1>4. \A w \in Workers : Ahead(w, Len(queue) + 1) = Cardinality(Mine(queue, w, Len(queue)))
  BY <1>2, <1>3
<1>5. \A i \in 1..Len(queue) :
        Ahead(queue[i][1], i) = Cardinality(Mine(queue, queue[i][1], i - 1))
  BY <1>1, <1>2
<1> QED BY <1>1, <1>4, <1>5 DEF NothingLost, InOrder

(* A push appends the next sample of its worker.                             *)
LEMMA PushInOrder ==
  ASSUME NEW s, NEW u, NEW n \in Nat, NEW m \in [Workers -> Nat], NEW t \in [Workers -> Nat],
         NEW k \in [Workers -> Nat], NEW w \in Workers, InOrder(s, n, m, t),
         \A i \in 1..n : u[i] = s[i], u[n + 1] = <<w, m[w]>>,
         k[w] = (m[w] + 1) % Tags, \A v \in Workers : v # w => k[v] = m[v]
  PROVE  InOrder(u, n + 1, k, t)
<1>1. ASSUME NEW v, NEW j \in 0..n PROVE Mine(u, v, j) = Mine(s, v, j)
  BY DEF Mine
<1>2. ASSUME NEW i \in 1..(n + 1)
      PROVE  /\ u[i][1] \in Workers
             /\ u[i][2] = (t[u[i][1]] + Cardinality(Mine(u, u[i][1], i - 1))) % Tags
  <2>1. CASE i = n + 1
    <3>1. u[i][1] = w /\ u[i][2] = m[w] /\ i - 1 = n /\ n \in 0..n
      BY <2>1
    <3>2. m[w] = (t[w] + Cardinality(Mine(s, w, n))) % Tags
      BY DEF InOrder
    <3> QED BY <1>1, <3>1, <3>2
  <2>2. CASE i # n + 1
    <3>1. i \in 1..n /\ i - 1 \in 0..n /\ u[i] = s[i]
      BY <2>2
    <3> QED BY <1>1, <3>1 DEF InOrder
  <2> QED BY <2>1, <2>2
<1>3. ASSUME NEW v \in Workers
      PROVE  k[v] = (t[v] + Cardinality(Mine(u, v, n + 1))) % Tags
  <2> DEFINE c == Cardinality(Mine(s, v, n))
  <2>1. c \in Nat /\ t[v] \in Nat /\ t[v] + c \in Nat
    BY MineFinite
  <2>2. Cardinality(Mine(u, v, n + 1)) = c + (IF v = w THEN 1 ELSE 0)
    <3>1. n \in 0..n /\ u[n + 1][1] = w
      OBVIOUS
    <3>2. Mine(u, v, n) = Mine(s, v, n)
      BY <1>1, <3>1
    <3> QED BY <3>1, <3>2, MineNext
  <2>3. m[v] = (t[v] + c) % Tags
    BY DEF InOrder
  <2> HIDE DEF c
  <2>4. CASE v = w
    <3>1. (((t[v] + c) % Tags) + 1) % Tags = ((t[v] + c) + 1) % Tags
      BY <2>1, ModShift
    <3>2. (t[v] + c) + 1 = t[v] + (c + 1)
      BY <2>1
    <3> QED BY <2>2, <2>3, <2>4, <3>1, <3>2
  <2>5. CASE v # w
    <3>1. c + 0 = c
      BY <2>1
    <3> QED BY <2>2, <2>3, <2>5, <3>1
  <2> QED BY <2>4, <2>5
<1> QED BY <1>2, <1>3 DEF InOrder

(* A pop takes the oldest sample of its worker.                              *)
LEMMA PopInOrder ==
  ASSUME NEW s, NEW u, NEW n \in Nat, NEW m, NEW t \in [Workers -> Nat],
         NEW k \in [Workers -> Nat], NEW w \in Workers, InOrder(s, n + 1, m, t),
         \A i \in 1..n : u[i] = s[i + 1], w = s[1][1],
         k[w] = (t[w] + 1) % Tags, \A v \in Workers : v # w => k[v] = t[v]
  PROVE  InOrder(u, n, m, k)
<1>1. ASSUME NEW v \in Workers, NEW j \in 0..n
      PROVE  (k[v] + Cardinality(Mine(u, v, j))) % Tags =
               (t[v] + Cardinality(Mine(s, v, j + 1))) % Tags
  <2> DEFINE c == Cardinality(Mine(u, v, j))
  <2>1. c \in Nat /\ t[v] \in Nat /\ t[v] + 1 \in Nat
    BY MineFinite
  <2>2. Cardinality(Mine(s, v, j + 1)) = c + (IF v = w THEN 1 ELSE 0)
    <3>1. j \in Nat /\ \A i \in 1..j : u[i] = s[i + 1]
      OBVIOUS
    <3> QED BY <3>1, MineTail
  <2> HIDE DEF c
  <2>3. CASE v = w
    <3>1. (((t[v] + 1) % Tags) + c) % Tags = ((t[v] + 1) + c) % Tags
      BY <2>1, ModShift
    <3>2. (t[v] + 1) + c = t[v] + (c + 1)
      BY <2>1
    <3> QED BY <2>2, <2>3, <3>1, <3>2 DEF c
  <2>4. CASE v # w
    <3>1. c + 0 = c
      BY <2>1
    <3> QED BY <2>2, <2>4, <3>1 DEF c
  <2> QED BY <2>3, <2>4
<1>2. ASSUME NEW i \in 1..n
      PROVE  /\ u[i][1] \in Workers
             /\ u[i][2] = (k[u[i][1]] + Cardinality(Mine(u, u[i][1], i - 1))) % Tags
  <2>1. i + 1 \in 1..(n + 1) /\ i - 1 \in 0..n /\ (i - 1) + 1 = (i + 1) - 1 /\ u[i] = s[i + 1]
    OBVIOUS
  <2>2. /\ u[i][1] \in Workers
        /\ u[i][2] = (t[u[i][1]] + Cardinality(Mine(s, u[i][1], (i + 1) - 1))) % Tags
    BY <2>1 DEF InOrder
  <2> QED BY <1>1, <2>1, <2>2
<1>3. ASSUME NEW v \in Workers PROVE m[v] = (k[v] + Cardinality(Mine(u, v, n))) % Tags
  <2>1. m[v] = (t[v] + Cardinality(Mine(s, v, n + 1))) % Tags /\ n \in 0..n
    BY DEF InOrder
  <2> QED BY <1>1, <2>1
<1> QED BY <1>2, <1>3 DEF InOrder

LEMMA NothingLostNext == IInv /\ IInv' /\ NothingLost /\ [Next]_vars => NothingLost'
<1> SUFFICES ASSUME IInv, IInv', NothingLost, [Next]_vars PROVE NothingLost'
  OBVIOUS
<1>1. /\ queue \in Seq(Samples) /\ Len(queue) \in Nat
      /\ made \in [Workers -> 0..(Tags - 1)] /\ taken \in [Workers -> 0..(Tags - 1)]
      /\ made' \in [Workers -> 0..(Tags - 1)] /\ taken' \in [Workers -> 0..(Tags - 1)]
      /\ InOrder(queue, Len(queue), made, taken)
  BY InOrderIs DEF IInv, TypeOK
<1>n. /\ made \in [Workers -> Nat] /\ taken \in [Workers -> Nat]
      /\ made' \in [Workers -> Nat] /\ taken' \in [Workers -> Nat]
  BY <1>1
<1>2. ASSUME InOrder(queue', Len(queue'), made', taken') PROVE NothingLost'
  <2>1. (NothingLost <=> InOrder(queue, Len(queue), made, taken))'
    BY InOrderIs, PTL
  <2> QED BY <1>2, <2>1
<1>3. ASSUME NEW w \in Workers, Push(w) PROVE NothingLost'
  <2>1. /\ queue' = Append(queue, <<w, made[w]>>) /\ taken' = taken
        /\ made' = [made EXCEPT ![w] = (made[w] + 1) % Tags]
    BY <1>3 DEF Push
  <2>2. /\ Len(queue') = Len(queue) + 1 /\ queue'[Len(queue) + 1] = <<w, made[w]>>
        /\ \A i \in 1..Len(queue) : queue'[i] = queue[i]
    BY <1>1, <2>1
  <2>3. made'[w] = (made[w] + 1) % Tags /\ \A v \in Workers : v # w => made'[v] = made[v]
    BY <1>n, <2>1
  <2>4. InOrder(queue', Len(queue) + 1, made', taken)
    BY <1>1, <1>n, <2>2, <2>3, PushInOrder
  <2> QED BY <1>2, <2>1, <2>2, <2>4
<1>4. ASSUME NEW c \in Consumers, Pop(c) PROVE NothingLost'
  <2> DEFINE w == Head(queue)[1]
  <2>1. /\ queue # <<>> /\ queue' = Tail(queue) /\ made' = made
        /\ taken' = [taken EXCEPT ![w] = (taken[w] + 1) % Tags]
    BY <1>4 DEF Pop
  <2>2. PICK n \in Nat : /\ Len(queue) = n + 1 /\ Len(queue') = n
                         /\ \A i \in 1..n : queue'[i] = queue[i + 1]
    <3>1. /\ Len(queue) - 1 \in Nat /\ Len(Tail(queue)) = Len(queue) - 1
          /\ Len(queue) = (Len(queue) - 1) + 1
      BY <1>1, <2>1
    <3>2. \A i \in 1..(Len(queue) - 1) : Tail(queue)[i] = queue[i + 1]
      BY <1>1, <2>1
    <3> QED BY <2>1, <3>1, <3>2
  <2>3. w = queue[1][1] /\ w \in Workers
    BY <1>1, <2>1 DEF Samples
  <2> HIDE DEF w
  <2>4. taken'[w] = (taken[w] + 1) % Tags /\ \A v \in Workers : v # w => taken'[v] = taken[v]
    BY <1>n, <2>1, <2>3
  <2>5. InOrder(queue', n, made, taken')
    <3>1. InOrder(queue, n + 1, made, taken)
      BY <1>1, <2>2
    <3>2. /\ taken \in [Workers -> Nat] /\ taken' \in [Workers -> Nat]
          /\ \A i \in 1..n : queue'[i] = queue[i + 1]
      BY <1>n, <2>2
    <3> QED BY ONLY <2>3, <2>4, <3>1, <3>2, n \in Nat, PopInOrder
  <2> QED BY <1>2, <2>1, <2>2, <2>5
<1>5. ASSUME UNCHANGED <<queue, made, taken>> PROVE NothingLost'
  BY <1>5 DEF NothingLost, Ahead
<1>6. ASSUME NEW t \in Threads,
             \/ Open(t) \/ Loop(t) \/ Acquire(t) \/ PushMustWait(t) \/ Block(t)
             \/ PopMustWait(t) \/ PopNothing(t) \/ BeginBatch(t) \/ SpuriousWakeup(t)
      PROVE  UNCHANGED <<queue, made, taken>>
  BY <1>6 DEF Open, Loop, Acquire, PushMustWait, Block, PopMustWait, PopNothing, BeginBatch,
              SpuriousWakeup
<1>7. ASSUME Start \/ StopRunning \/ StopStep \/ UNCHANGED vars
      PROVE  UNCHANGED <<queue, made, taken>>
  BY <1>7 DEF Start, StopRunning, StopStep, SetFinished, Notify, Join, vars
<1> QED BY <1>3, <1>4, <1>5, <1>6, <1>7 DEF Next, WorkerStep, ConsumerStep, Threads

(* Whatever threads push, pop, wait and are woken, start and stop: each      *)
(* worker's samples come out of the queue once, in the order it made them.   *)
THEOREM SamplesKept == Spec => []NothingLost
<1>1. Init => NothingLost
  <2> SUFFICES ASSUME Init PROVE NothingLost
    OBVIOUS
  <2>1. InOrder(queue, Len(queue), made, taken)
    <3>1. Len(queue) = 0 /\ \A w \in Workers : made[w] = 0 /\ taken[w] = 0
      BY DEF Init
    <3>2. \A w \in Workers : Mine(queue, w, 0) = {}
      BY DEF Mine
    <3>3. Cardinality({}) = 0
      BY FS_EmptySet
    <3>4. (0 + 0) % Tags = 0
      <4>1. Tags \in Nat /\ Tags # 0
        BY LoaderAssumption
      <4> QED BY <4>1
    <3>5. \A w \in Workers : made[w] = (taken[w] + Cardinality(Mine(queue, w, 0))) % Tags
      BY <3>1, <3>2, <3>3, <3>4
    <3>6. \A i \in 1..0 : FALSE
      OBVIOUS
    <3> QED BY <3>1, <3>5, <3>6 DEF InOrder
  <2> QED BY <2>1, InitInv, InOrderIs
<1> QED BY Invariance, <1>1, NothingLostNext, PTL DEF Spec

-----------------------------------------------------------------------------
(***************************************************************************)
(* The wakeups of SampleQueue suffice for a bounded number of threads:     *)
(* with at most Capacity consumers, and at most 2 * Capacity threads in    *)
(* all, a sleeping consumer always leaves a worker awake.                  *)
(*                                                                         *)
(* The argument counts.  Let a workers and b consumers be asleep, n        *)
(* samples be in the queue, and P workers have opened the data.  A worker  *)
(* falls asleep only at n = Capacity, so while one sleeps every sample     *)
(* that left since then has woken a thread; likewise for consumers at      *)
(* n = 0.  Balance states what is left of the sleepers.                    *)
(***************************************************************************)
Balance(a, b, n, P) ==
  /\ a > 0 => a + Capacity <= P + n
  /\ b > 0 => a + b + n <= Capacity
  /\ a > 0 /\ b > 0 => a + Capacity <= P

Counts == Balance(Cardinality(Asleep(Workers)), Cardinality(Asleep(Consumers)),
                  Len(queue), Cardinality(Opened))

(* At most one thread holds the mutex.                                       *)
Holding == {"test", "block"}
OneHolder == \A t, u \in Threads : pc[t] \in Holding /\ pc[u] \in Holding => t = u

(* stop sets finished_ before it notifies and joins; before the first start  *)
(* no worker runs and the queue is empty.                                    *)
Stages ==
  /\ running => ctl = "idle"
  /\ ctl \in {"notify", "join"} => finished
  /\ ~finished /\ ~running /\ ctl = "idle"
       => queue = <<>> /\ \A w \in Workers : pc[w] = "none"

Wakeups == OneHolder /\ Stages /\ (running /\ ~finished => Counts)

-----------------------------------------------------------------------------
(* Arithmetic of Balance *)

(* A push or a pop moves the length by one and wakes one sleeper, if any.    *)
LEMMA BalanceWake ==
  ASSUME NEW a \in Nat, NEW b \in Nat, NEW n \in Nat, NEW P \in Nat, NEW m \in Nat,
         NEW x \in Nat, NEW y \in Nat, Balance(a, b, n, P),
         m = n + 1 \/ m + 1 = n,
         \/ x = a /\ y = b /\ a = 0 /\ b = 0
         \/ x + 1 = a /\ y = b
         \/ x = a /\ y + 1 = b
  PROVE  Balance(x, y, m, P)
  BY LoaderAssumption, SMTT(30) DEF Balance

(* With fewer sleepers, or more workers, the balance holds all the more.     *)
LEMMA BalanceLess ==
  ASSUME NEW a \in Nat, NEW b \in Nat, NEW n \in Nat, NEW P \in Nat, NEW Q \in Nat,
         NEW x \in Nat, NEW y \in Nat, Balance(a, b, n, P), x <= a, y <= b, P <= Q
  PROVE  Balance(x, y, n, Q)
  BY LoaderAssumption, SMTT(30) DEF Balance

(* A worker that finds the queue full leaves no consumer asleep.             *)
LEMMA BalanceFull ==
  ASSUME NEW a \in Nat, NEW b \in Nat, NEW n \in Nat, NEW P \in Nat,
         Balance(a, b, n, P), Capacity <= n, a + 1 <= P
  PROVE  Balance(a + 1, b, n, P)
  BY LoaderAssumption, SMTT(30) DEF Balance

(* A consumer that finds the queue empty: here the number of threads counts. *)
LEMMA BalanceEmpty ==
  ASSUME NEW a \in Nat, NEW b \in Nat, NEW P \in Nat, NEW W \in Nat, NEW C \in Nat,
         Balance(a, b, 0, P), P <= W, b + 1 <= C,
         C <= Capacity, W + C <= 2 * Capacity
  PROVE  Balance(a, b + 1, 0, P)
  BY LoaderAssumption, SMTT(30) DEF Balance

-----------------------------------------------------------------------------
(* Sleepers as sets *)

LEMMA ThreadSets ==
  ASSUME FewThreads
  PROVE  /\ Workers \subseteq Threads /\ Consumers \subseteq Threads
         /\ IsFiniteSet(Workers) /\ IsFiniteSet(Consumers)
         /\ Asleep(Workers) \subseteq Workers /\ Asleep(Consumers) \subseteq Consumers
         /\ Asleep(Workers)' \subseteq Workers /\ Asleep(Consumers)' \subseteq Consumers
         /\ Opened \subseteq Workers /\ Opened' \subseteq Workers
  BY LoaderAssumption DEF FewThreads, Threads, Asleep, Opened

LEMMA ThreadCounts ==
  ASSUME FewThreads
  PROVE  /\ IsFiniteSet(Asleep(Workers)) /\ Cardinality(Asleep(Workers)) \in Nat
         /\ IsFiniteSet(Asleep(Consumers)) /\ Cardinality(Asleep(Consumers)) \in Nat
         /\ IsFiniteSet(Opened) /\ Cardinality(Opened) \in Nat
         /\ Cardinality(Asleep(Workers)') \in Nat
         /\ Cardinality(Asleep(Consumers)') \in Nat
         /\ IsFiniteSet(Opened') /\ Cardinality(Opened') \in Nat
<1>1. ASSUME NEW S, NEW T, IsFiniteSet(T), S \subseteq T
      PROVE  IsFiniteSet(S) /\ Cardinality(S) \in Nat
  BY <1>1, FS_Subset, FS_CardinalityType
<1> QED BY <1>1, ThreadSets

(* Nobody falls asleep and the queue keeps its length.                       *)
LEMMA CountsLess ==
  ASSUME FewThreads, Counts, Len(queue) \in Nat, Len(queue') = Len(queue),
         Asleep(Workers)' \subseteq Asleep(Workers),
         Asleep(Consumers)' \subseteq Asleep(Consumers),
         Opened \subseteq Opened'
  PROVE  Counts'
<1> DEFINE a == Cardinality(Asleep(Workers))
           b == Cardinality(Asleep(Consumers))
           P == Cardinality(Opened)
           x == Cardinality(Asleep(Workers)')
           y == Cardinality(Asleep(Consumers)')
           Q == Cardinality(Opened')
<1>1. /\ a \in Nat /\ b \in Nat /\ P \in Nat /\ x \in Nat /\ y \in Nat /\ Q \in Nat
      /\ x <= a /\ y <= b /\ P <= Q
  <2>1. x <= a
    BY ThreadCounts, FS_Subset
  <2>2. y <= b
    BY ThreadCounts, FS_Subset
  <2>3. P <= Q
    BY ThreadCounts, FS_Subset
  <2> QED BY <2>1, <2>2, <2>3, ThreadCounts
<1>2. Balance(a, b, Len(queue), P)
  BY DEF Counts
<1> HIDE DEF a, b, P, x, y, Q
<1>3. Balance(x, y, Len(queue), Q)
  BY <1>1, <1>2, BalanceLess
<1> QED BY <1>3 DEF Counts, Balance, x, y, Q

(* A thread that pushed or popped wakes one sleeper.                         *)
LEMMA CountsWake ==
  ASSUME FewThreads, Counts, pc \in [Threads -> Points],
         OneHolder, NEW u \in Threads, pc[u] = "test",
         NEW s \in {"loop", "idle", "acquire"}, u \in Workers => s = "loop",
         pc' \in NotifyOne([pc EXCEPT ![u] = s]),
         Len(queue) \in Nat, Len(queue') \in Nat,
         Len(queue') = Len(queue) + 1 \/ Len(queue') + 1 = Len(queue)
  PROVE  Counts'
<1> DEFINE p == [pc EXCEPT ![u] = s]
           sleeping == {t \in Threads : p[t] = "wait"}
<1>1. /\ \A t \in Threads : (p[t] \in {"block", "wait"}) <=> (t \in sleeping)
      /\ \A t \in Threads : (pc[t] \in {"block", "wait"}) <=> (t \in sleeping)
  BY DEF Holding, OneHolder
<1>2. /\ Asleep(Workers) = Workers \cap sleeping
      /\ Asleep(Consumers) = Consumers \cap sleeping
  BY <1>1, ThreadSets DEF Asleep
<1>3. /\ Asleep(Workers)' = {t \in Workers : pc'[t] \in {"block", "wait"}}
      /\ Asleep(Consumers)' = {t \in Consumers : pc'[t] \in {"block", "wait"}}
      /\ Opened' = {w \in Workers : pc'[w] \notin {"none", "open", "exited"}}
  BY DEF Asleep, Opened
<1>4. \A w \in Workers : p[w] \in {"none", "open", "exited"}
                         <=> pc[w] \in {"none", "open", "exited"}
  BY ThreadSets
<1> DEFINE a == Cardinality(Asleep(Workers))
           b == Cardinality(Asleep(Consumers))
           P == Cardinality(Opened)
           x == Cardinality(Asleep(Workers)')
           y == Cardinality(Asleep(Consumers)')
<1>5. /\ a \in Nat /\ b \in Nat /\ P \in Nat /\ x \in Nat /\ y \in Nat
      /\ Balance(a, b, Len(queue), P)
  BY ThreadCounts DEF Counts
<1>6. /\ Opened' = Opened
      /\ \/ x = a /\ y = b /\ a = 0 /\ b = 0
         \/ x + 1 = a /\ y = b
         \/ x = a /\ y + 1 = b
  <2>1. CASE sleeping = {}
    <3>1. pc' = p
      BY <2>1 DEF NotifyOne
    <3>2. /\ Asleep(Workers)' = {} /\ Asleep(Consumers)' = {}
          /\ Asleep(Workers) = {} /\ Asleep(Consumers) = {}
      BY <1>1, <1>2, <1>3, <2>1, <3>1, ThreadSets
    <3>3. Opened' = Opened
      BY <1>3, <1>4, <3>1 DEF Opened
    <3> QED BY <3>2, <3>3, FS_EmptySet
  <2>2. CASE sleeping # {}
    <3>1. PICK t \in sleeping : pc' = [p EXCEPT ![t] = "acquire"]
      BY <2>2 DEF NotifyOne
    <3>2. /\ p \in [Threads -> Points] /\ t \in Threads
      BY <3>1 DEF Points
    <3>3. \A v \in Threads : (pc'[v] \in {"block", "wait"}) <=> (v \in sleeping \ {t})
      BY <1>1, <3>1, <3>2
    <3>4. /\ Asleep(Workers)' = Asleep(Workers) \ {t}
          /\ Asleep(Consumers)' = Asleep(Consumers) \ {t}
      BY <1>2, <1>3, <3>3, ThreadSets
    <3>5. Opened' = Opened
      <4>1. \A w \in Workers : pc'[w] \in {"none", "open", "exited"}
                               <=> p[w] \in {"none", "open", "exited"}
        BY <3>1, <3>2, ThreadSets
      <4> QED BY <1>3, <1>4, <4>1 DEF Opened
    <3>6. CASE t \in Workers
      <4>1. t \in Asleep(Workers) /\ t \notin Asleep(Consumers)
        BY <1>2, <3>1, <3>6, LoaderAssumption
      <4>2. Asleep(Consumers)' = Asleep(Consumers)
        BY <3>4, <4>1
      <4>a. IsFiniteSet(Asleep(Workers))
        BY ThreadCounts
      <4>b. Cardinality(Asleep(Workers) \ {t}) = Cardinality(Asleep(Workers)) - 1
        BY ONLY <4>1, <4>a, FS_RemoveElement
      <4>3. x = a - 1
        BY <3>4, <4>b
      <4> QED BY <1>5, <3>5, <4>2, <4>3
    <3>7. CASE t \in Consumers
      <4>1. t \in Asleep(Consumers) /\ t \notin Asleep(Workers)
        BY <1>2, <3>1, <3>7, LoaderAssumption
      <4>2. Asleep(Workers)' = Asleep(Workers)
        BY <3>4, <4>1
      <4>a. IsFiniteSet(Asleep(Consumers))
        BY ThreadCounts
      <4>b. Cardinality(Asleep(Consumers) \ {t}) = Cardinality(Asleep(Consumers)) - 1
        BY ONLY <4>1, <4>a, FS_RemoveElement
      <4>3. y = b - 1
        BY <3>4, <4>b
      <4> QED BY <1>5, <3>5, <4>2, <4>3
    <3> QED BY <3>2, <3>6, <3>7 DEF Threads
  <2> QED BY <2>1, <2>2
<1> HIDE DEF a, b, P, x, y
<1>7. Balance(x, y, Len(queue'), P)
  BY <1>5, <1>6, BalanceWake
<1>8. Counts' <=> Balance(x, y, Len(queue'), Cardinality(Opened'))
  BY DEF Counts, Balance, x, y
<1> QED BY <1>6, <1>7, <1>8 DEF P

-----------------------------------------------------------------------------
(* The steps *)

LEMMA OneHolderNext == IInv /\ OneHolder /\ [Next]_vars => OneHolder'
<1> SUFFICES ASSUME IInv, OneHolder, [Next]_vars PROVE OneHolder'
  OBVIOUS
<1>1. /\ pc \in [Threads -> Points]
      /\ Workers \subseteq Threads /\ Consumers \subseteq Threads
  BY DEF IInv, TypeOK, Threads
<1>2. ASSUME NEW t \in Threads, Acquire(t) PROVE OneHolder'
  <2>1. \A u \in Threads : pc[u] \notin Holding
    BY <1>2 DEF Acquire, MutexFree, Holding
  <2> QED BY <1>1, <1>2, <2>1 DEF Acquire, OneHolder
<1>3. ASSUME \A u \in Threads : pc'[u] \in Holding => pc[u] \in Holding
      PROVE  OneHolder'
  BY <1>3 DEF OneHolder
<1>4. ASSUME NEW p \in [Threads -> Points], NEW q \in NotifyOne(p) \cup {NotifyAll(p)},
             NEW u \in Threads, q[u] \in Holding
      PROVE  p[u] \in Holding
  <2>1. q[u] = p[u] \/ q[u] = "acquire"
    BY <1>4 DEF NotifyOne, NotifyAll
  <2> QED BY <1>4, <2>1 DEF Holding
<1>5. ASSUME NEW w \in Workers, Push(w) PROVE OneHolder'
  <2> DEFINE p == [pc EXCEPT ![w] = "loop"]
  <2>1. p \in [Threads -> Points] /\ pc' \in NotifyOne(p)
    BY <1>1, <1>5 DEF Push, Points
  <2>2. \A u \in Threads : p[u] \in Holding => pc[u] \in Holding
    BY <1>1, <1>5 DEF Push, Holding
  <2> QED BY <1>3, <1>4, <2>1, <2>2
<1>6. ASSUME NEW c \in Consumers, Pop(c) PROVE OneHolder'
  <2> DEFINE p == [pc EXCEPT ![c] = IF rows[c] + 1 = BatchSize THEN "idle" ELSE "acquire"]
  <2>1. p \in [Threads -> Points] /\ pc' \in NotifyOne(p)
    BY <1>1, <1>6 DEF Pop, Points
  <2>2. \A u \in Threads : p[u] \in Holding => pc[u] \in Holding
    BY <1>1, <1>6 DEF Pop, Holding
  <2> QED BY <1>3, <1>4, <2>1, <2>2
<1>7. CASE Notify
  BY <1>1, <1>3, <1>4, <1>7 DEF Notify
<1>8. CASE \/ \E w \in Workers : Open(w) \/ Loop(w) \/ PushMustWait(w)
           \/ \E t \in Threads : Block(t) \/ SpuriousWakeup(t)
           \/ \E c \in Consumers : PopNothing(c) \/ PopMustWait(c) \/ BeginBatch(c)
           \/ Start \/ StopRunning \/ SetFinished \/ Join \/ UNCHANGED vars
  BY <1>1, <1>3, <1>8
  DEF Open, Loop, PushMustWait, Block, SpuriousWakeup, PopNothing, PopMustWait,
      BeginBatch, Start, StopRunning, SetFinished, Join, vars, Holding
<1> QED BY <1>1, <1>2, <1>5, <1>6, <1>7, <1>8
        DEF Next, WorkerStep, ConsumerStep, StopStep

LEMMA StagesNext == IInv /\ Stages /\ [Next]_vars => Stages'
<1> SUFFICES ASSUME IInv, Stages, [Next]_vars PROVE Stages'
  OBVIOUS
<1>1. /\ pc \in [Threads -> Points] /\ ctl \in {"idle", "finish", "notify", "join"}
      /\ finished \in BOOLEAN /\ running \in BOOLEAN
      /\ Workers \subseteq Threads /\ Consumers \subseteq Threads
      /\ \A w \in Workers : w \notin Consumers
  BY LoaderAssumption DEF IInv, TypeOK, Threads
<1>2. CASE Start \/ StopRunning \/ SetFinished \/ Notify \/ Join
  BY <1>1, <1>2 DEF Start, StopRunning, SetFinished, Notify, Join, Stages
<1>3. ASSUME UNCHANGED <<finished, running, ctl>>,
             \/ running \/ finished \/ ctl # "idle"
             \/ queue' = queue /\ \A w \in Workers : pc[w] = "none" => pc'[w] = "none"
      PROVE  Stages'
  BY <1>1, <1>3 DEF Stages
<1>4. ASSUME NEW w \in Workers, WorkerStep(w) PROVE Stages'
  <2>1. pc[w] # "none" /\ UNCHANGED <<finished, running, ctl>>
    BY <1>4 DEF WorkerStep, Open, Loop, Acquire, Push, PushMustWait, Block
  <2> QED BY <1>1, <1>3, <2>1 DEF Stages
<1>5. ASSUME NEW c \in Consumers, ConsumerStep(c) \/ BeginBatch(c) PROVE Stages'
  <2>1. UNCHANGED <<finished, running, ctl>>
    BY <1>5 DEF ConsumerStep, Acquire, Pop, PopNothing, PopMustWait, Block, BeginBatch
  <2>2. CASE Pop(c)
    BY <1>1, <1>3, <2>1, <2>2 DEF Pop, Stages
  <2>3. CASE ~Pop(c)
    <3>1. queue' = queue /\ \A w \in Workers : pc'[w] = pc[w]
      BY <1>1, <1>5, <2>3
      DEF ConsumerStep, Acquire, PopNothing, PopMustWait, Block, BeginBatch
    <3> QED BY <1>3, <2>1, <3>1
  <2> QED BY <2>2, <2>3
<1>6. ASSUME NEW t \in Threads, SpuriousWakeup(t) PROVE Stages'
  BY <1>1, <1>3, <1>6 DEF SpuriousWakeup
<1>7. CASE UNCHANGED vars
  BY <1>7, <1>3 DEF vars
<1> QED BY <1>2, <1>4, <1>5, <1>6, <1>7 DEF Next, StopStep

(* A worker asleep has opened the data; a thread that goes to sleep was not  *)
(* asleep before.                                                            *)
LEMMA CountsNext ==
  ASSUME FewThreads, IInv, OneHolder, Stages, running /\ ~finished => Counts,
         [Next]_vars, running', ~finished'
  PROVE  Counts'
<1>1. /\ pc \in [Threads -> Points] /\ queue \in Seq(Samples)
      /\ Len(queue) \in Nat /\ Capacity \in Nat
      /\ Workers \subseteq Threads /\ Consumers \subseteq Threads
      /\ \A w \in Workers : w \notin Consumers
  BY LoaderAssumption DEF IInv, TypeOK, Threads
<1>2. /\ \A S \in {Workers, Consumers} :
           /\ Asleep(S) = {t \in S : pc[t] \in {"block", "wait"}}
           /\ Asleep(S)' = {t \in S : pc'[t] \in {"block", "wait"}}
      /\ Opened = {w \in Workers : pc[w] \notin {"none", "open", "exited"}}
      /\ Opened' = {w \in Workers : pc'[w] \notin {"none", "open", "exited"}}
  BY DEF Asleep, Opened
<1> DEFINE a == Cardinality(Asleep(Workers))
           b == Cardinality(Asleep(Consumers))
           P == Cardinality(Opened)
<1>3. CASE Start
  <2>1. /\ ~finished /\ ~running /\ ctl = "idle" /\ queue' = queue
        /\ pc' = [t \in Threads |-> IF t \in Workers THEN "open" ELSE pc[t]]
    BY <1>3 DEF Start
  <2>2. Len(queue') = 0
    BY <2>1 DEF Stages
  <2>3. Asleep(Workers)' = {} /\ Opened' = {}
    BY <1>1, <1>2, <2>1
  <2>4. Cardinality(Asleep(Consumers)') \in Nat
        /\ Cardinality(Asleep(Consumers)') <= Cardinality(Consumers)
    BY ThreadSets, ThreadCounts, FS_Subset
  <2>5. Cardinality(Consumers) \in Nat /\ Cardinality(Consumers) <= Capacity
    BY ThreadSets, FS_CardinalityType DEF FewThreads
  <2>6. Cardinality(Asleep(Workers)') = 0 /\ Cardinality(Opened') = 0
    BY <2>3, FS_EmptySet
  <2> QED BY <1>1, <2>2, <2>4, <2>5, <2>6 DEF Counts, Balance
<1>4. CASE running /\ ~Start
  <2>1. ~finished /\ Counts /\ ctl = "idle" /\ ~StopStep /\ ~StopRunning
    <3>1. ~StopRunning /\ ctl = "idle"
      BY <1>4 DEF StopRunning, Stages
    <3>2. ~StopStep
      BY <3>1 DEF StopStep, SetFinished, Notify, Join
    <3>3. ~finished
      BY <1>4, <3>1, <3>2
      DEF Next, vars, WorkerStep, ConsumerStep, Open, Loop, Acquire, Push, PushMustWait,
          Block, Pop, PopNothing, PopMustWait, BeginBatch, SpuriousWakeup
    <3> QED BY <1>4, <3>1, <3>2, <3>3
  <2>2. a \in Nat /\ b \in Nat /\ P \in Nat /\ Balance(a, b, Len(queue), P)
    BY <2>1, ThreadCounts DEF Counts
  <2>3. ASSUME NEW w \in Workers, Push(w) PROVE Counts'
    <3>1. pc[w] = "test" /\ pc' \in NotifyOne([pc EXCEPT ![w] = "loop"])
      BY <2>3 DEF Push
    <3>2. Len(queue') = Len(queue) + 1 /\ Len(queue') \in Nat
      BY <1>1, <2>3 DEF Push
    <3> QED BY <1>1, <2>1, <3>1, <3>2, CountsWake
  <2>4. ASSUME NEW c \in Consumers, Pop(c) PROVE Counts'
    <3>1. PICK s \in {"loop", "idle", "acquire"} :
            pc' \in NotifyOne([pc EXCEPT ![c] = s])
      BY <2>4 DEF Pop
    <3>2. pc[c] = "test" /\ c \in Threads /\ c \notin Workers
      BY <1>1, <2>4 DEF Pop
    <3>3. Len(queue') + 1 = Len(queue) /\ Len(queue') \in Nat
      BY <1>1, <2>4 DEF Pop
    <3> QED BY <1>1, <2>1, <3>1, <3>2, <3>3, CountsWake
  <2>5. ASSUME NEW w \in Workers, PushMustWait(w) PROVE Counts'
    <3>1. /\ pc[w] = "test" /\ Capacity <= Len(queue) /\ queue' = queue
          /\ pc' = [pc EXCEPT ![w] = "block"]
      BY <1>1, <2>5 DEF PushMustWait, CanPush
    <3>2. /\ Asleep(Workers)' = Asleep(Workers) \cup {w} /\ w \notin Asleep(Workers)
          /\ Asleep(Consumers)' = Asleep(Consumers)
          /\ Opened' = Opened /\ Asleep(Workers)' \subseteq Opened
      <4>1. w \in Threads /\ \A t \in Threads : pc'[t] = IF t = w THEN "block" ELSE pc[t]
        BY <1>1, <3>1
      <4>2. Asleep(Workers)' = Asleep(Workers) \cup {w} /\ w \notin Asleep(Workers)
        <5>1. \A t \in Workers : pc'[t] \in {"block", "wait"} <=>
                                   t = w \/ pc[t] \in {"block", "wait"}
          BY <1>1, <4>1
        <5>2. pc[w] \notin {"block", "wait"}
          BY <3>1
        <5> QED BY <1>2, <5>1, <5>2
      <4>3. Asleep(Consumers)' = Asleep(Consumers)
        <5>1. \A t \in Consumers : pc'[t] = pc[t]
          BY <1>1, <4>1
        <5> QED BY <1>2, <5>1
      <4>4. Opened' = Opened
        BY <1>1, <1>2, <3>1, <4>1
      <4>5. Asleep(Workers)' \subseteq Opened'
        BY <1>2
      <4> QED BY <4>2, <4>3, <4>4, <4>5
    <3>3. Cardinality(Asleep(Workers)') = a + 1
      BY <3>2, ThreadCounts, FS_AddElement
    <3>4. a + 1 <= P
      BY <3>2, <3>3, ThreadCounts, FS_Subset
    <3> HIDE DEF a, b, P
    <3>5. Balance(a + 1, b, Len(queue), P)
      BY <1>1, <2>2, <3>1, <3>4, BalanceFull
    <3> QED BY <3>1, <3>2, <3>3, <3>5 DEF Counts, Balance, b, P
  <2>6. ASSUME NEW c \in Consumers, PopMustWait(c) PROVE Counts'
    <3>1. /\ pc[c] = "test" /\ Len(queue) = 0 /\ queue' = queue
          /\ pc' = [pc EXCEPT ![c] = "block"]
      BY <1>1, <2>6 DEF PopMustWait, CanPop
    <3>2. /\ Asleep(Consumers)' = Asleep(Consumers) \cup {c} /\ c \notin Asleep(Consumers)
          /\ Asleep(Workers)' = Asleep(Workers) /\ Opened' = Opened
      <4>1. /\ c \in Threads /\ c \notin Workers
            /\ \A t \in Threads : pc'[t] = IF t = c THEN "block" ELSE pc[t]
        BY <1>1, <3>1
      <4>2. Asleep(Consumers)' = Asleep(Consumers) \cup {c} /\ c \notin Asleep(Consumers)
        <5>1. \A t \in Consumers : pc'[t] \in {"block", "wait"} <=>
                                     t = c \/ pc[t] \in {"block", "wait"}
          BY <1>1, <4>1
        <5>2. pc[c] \notin {"block", "wait"}
          BY <3>1
        <5> QED BY <1>2, <5>1, <5>2
      <4>3. \A w \in Workers : pc'[w] = pc[w]
        BY <1>1, <4>1
      <4>4. Asleep(Workers)' = Asleep(Workers) /\ Opened' = Opened
        BY <1>2, <4>3
      <4> QED BY <4>2, <4>4
    <3>3. Cardinality(Asleep(Consumers)') = b + 1
      BY <3>2, ThreadCounts, FS_AddElement
    <3>4. b + 1 <= Cardinality(Consumers) /\ P <= Cardinality(Workers)
      BY <3>3, ThreadSets, FS_Subset
    <3>5. /\ Cardinality(Consumers) \in Nat /\ Cardinality(Workers) \in Nat
          /\ Cardinality(Consumers) <= Capacity
          /\ Cardinality(Workers) + Cardinality(Consumers) <= 2 * Capacity
      BY ThreadSets, FS_CardinalityType DEF FewThreads
    <3> HIDE DEF a, b, P
    <3>6. Balance(a, b + 1, 0, P)
      BY <2>2, <3>1, <3>4, <3>5, BalanceEmpty
    <3> QED BY <3>1, <3>2, <3>3, <3>6 DEF Counts, Balance, a, P
  <2>7. CASE \/ \E w \in Workers : Open(w) \/ Loop(w)
             \/ \E t \in Threads : Acquire(t) \/ Block(t) \/ SpuriousWakeup(t)
             \/ \E c \in Consumers : BeginBatch(c)
             \/ UNCHANGED vars
    <3>1. queue' = queue
      BY <2>7 DEF Open, Loop, Acquire, Block, SpuriousWakeup, BeginBatch, vars
    <3>2. \A t \in Threads :
            /\ pc'[t] \in {"block", "wait"} => pc[t] \in {"block", "wait"}
            /\ pc'[t] \in {"none", "open", "exited"} =>
                 pc[t] \in {"none", "open", "exited"}
      BY <1>1, <1>4, <2>7 DEF Open, Loop, Acquire, Block, SpuriousWakeup, BeginBatch, vars
    <3>3. /\ Asleep(Workers)' \subseteq Asleep(Workers)
          /\ Asleep(Consumers)' \subseteq Asleep(Consumers)
          /\ Opened \subseteq Opened'
      BY <1>1, <1>2, <3>2
    <3> QED BY <1>1, <2>1, <3>1, <3>3, CountsLess
  <2>8. ASSUME NEW c \in Consumers PROVE ~PopNothing(c)
    BY <2>1 DEF PopNothing, CanPop
  <2> QED BY <1>1, <1>4, <2>1, <2>3, <2>4, <2>5, <2>6, <2>7, <2>8
          DEF Next, WorkerStep, ConsumerStep
<1>5. running \/ Start
  BY DEF Next, vars, WorkerStep, ConsumerStep, StopStep, Open, Loop, Acquire, Push,
         PushMustWait, Block, Pop, PopNothing, PopMustWait, BeginBatch, SpuriousWakeup,
         StopRunning, SetFinished, Notify, Join
<1> QED BY <1>3, <1>4, <1>5

LEMMA WakeupsInv == ASSUME FewThreads PROVE Spec => []Wakeups
<1>1. Init => Wakeups
  BY DEF Init, Wakeups, OneHolder, Stages, Holding, Threads
<1>2. IInv /\ Wakeups /\ [Next]_vars => Wakeups'
  BY FewThreads, OneHolderNext, StagesNext, CountsNext DEF Wakeups
<1> QED BY Invariance, <1>1, <1>2, PTL DEF Spec

(* Before stop, a sleeping consumer always leaves a worker awake, for every  *)
(* number of threads within FewThreads and every interleaving of them.       *)
THEOREM NobodyStalls == ASSUME FewThreads PROVE Spec => []SomeoneFills
<1>1. IInv /\ Wakeups => SomeoneFills
  <2> SUFFICES ASSUME IInv, Wakeups, running, ~finished, Asleep(Consumers) # {},
                      Opened # {}, Opened \subseteq Asleep(Workers)
               PROVE  FALSE
    BY DEF SomeoneFills
  <2> DEFINE a == Cardinality(Asleep(Workers))
             b == Cardinality(Asleep(Consumers))
             P == Cardinality(Opened)
  <2>1. a \in Nat /\ b \in Nat /\ P \in Nat /\ Balance(a, b, Len(queue), P)
    BY FewThreads, ThreadCounts DEF Wakeups, Counts
  <2>2. Asleep(Workers) \subseteq Opened
    BY DEF Asleep, Opened
  <2>3. a = P
    <3>1. Asleep(Workers) = Opened
      BY <2>2
    <3> QED BY <3>1
  <2>4. a > 0 /\ b > 0
    <3>1. Asleep(Workers) # {}
      BY <2>2
    <3>2. a # 0 /\ b # 0
      BY <3>1, FewThreads, ThreadCounts, FS_EmptySet
    <3> QED BY <2>1, <3>2
  <2> HIDE DEF a, b, P
  <2> QED BY <2>1, <2>3, <2>4, LoaderAssumption DEF Balance
<1> QED BY Invariance, WakeupsInv, <1>1, PTL
=============================================================================
