-------------------------- MODULE Training_proofs ---------------------------
(***************************************************************************)
(* Theorems about Training for every set of tensors, every accumulation    *)
(* length, growth interval and scale range.  The inductive invariant is    *)
(* TypeOK with three parts: the accumulator holds exactly the last steps_  *)
(* micro-batches, everything applied to the parameters is older than those *)
(* and finite, and counter_ counts applied windows at the end of history.  *)
(***************************************************************************)
EXTENDS Training, SequenceTheorems, FiniteSetTheorems, TLAPS

(* The accumulator holds the last steps_ micro-batches, fewer than a window. *)
Pending ==
  /\ accum.steps <= step
  /\ accum.steps < WindowSize
  /\ accum.sum.batches = [i \in 1..accum.steps |-> step + i - accum.steps - 1]

(* What was applied is older than what is pending, in order, and finite.     *)
Applied ==
  /\ Increasing(weights.batches)
  /\ \A i \in DOMAIN weights.batches : weights.batches[i] < step - accum.steps
  /\ weights.bad = {}

(* counter_ windows at the end of the history were applied.                  *)
Counted ==
  /\ scaler.counter <= Len(outcomes)
  /\ \A i \in 1..Len(outcomes) :
       i > Len(outcomes) - scaler.counter => outcomes[i].applied

IInv == TypeOK /\ Pending /\ Applied /\ Counted

-----------------------------------------------------------------------------
(* Appending the next number to a run of consecutive numbers.                *)
LEMMA AppendRun ==
  ASSUME NEW n \in Nat, NEW s \in Nat, NEW q \in Seq(Nat),
         q = [i \in 1..n |-> s + i - n - 1]
  PROVE  q \o <<s>> = [i \in 1..(n + 1) |-> s + i - (n + 1)]
<1> DEFINE r == [i \in 1..(n + 1) |-> s + i - (n + 1)]
<1>1. Len(q) = n
  OBVIOUS
<1>2. q \o <<s>> \in Seq(Int) /\ Len(q \o <<s>>) = n + 1
  BY <1>1
<1>3. r \in Seq(Int) /\ Len(r) = n + 1
  OBVIOUS
<1>4. ASSUME NEW i \in 1..(n + 1)
      PROVE  (q \o <<s>>)[i] = r[i]
  <2>1. CASE i \in 1..n
    <3>1. (q \o <<s>>)[i] = q[i]
      BY <1>1, <2>1
    <3> QED BY <2>1, <3>1
  <2>2. CASE i = n + 1
    <3>1. (q \o <<s>>)[n + 1] = s
      BY <1>1, ConcatProperties
    <3>2. r[n + 1] = s
      OBVIOUS
    <3> QED BY <2>2, <3>1, <3>2
  <2> QED BY <2>1, <2>2
<1> QED BY <1>2, <1>3, <1>4, SeqEqual

(* A micro-batch that joins the accumulator keeps it the last micro-batches. *)
LEMMA SummedType ==
  ASSUME TypeOK, Pending, NEW g \in Backward, NEW lost \in SUBSET Trained
  PROVE  /\ g \in Gradient
         /\ g.batches = <<step>>
         /\ Summed(g, lost) \in Gradient
         /\ Window(g, lost) \in Gradient
         /\ Summed(g, lost).batches = LastBatches(accum.steps + 1)
         /\ Window(g, lost).batches = LastBatches(accum.steps + 1) \/ accum.max = 0
<1>1. g \in Gradient /\ g.batches = <<step>>
  <2>1. step \in Nat /\ <<step>> \in Seq(Nat)
    BY TrainingAssumption DEF TypeOK
  <2>2. g \in [batches : {<<step>>}, bad : SUBSET Tensors]
    BY DEF Backward, Trained
  <2> QED BY <2>1, <2>2 DEF Gradient
<1>2. /\ accum.sum \in Gradient /\ step \in Nat /\ accum.steps \in Nat
      /\ accum.sum.batches \in Seq(Nat) /\ accum.sum.bad \in SUBSET Tensors
      /\ lost \in SUBSET Tensors
  BY DEF TypeOK, Gradient, Trained
<1>3. Summed(g, lost) \in Gradient
  BY <1>1, <1>2 DEF Summed, Gradient
<1>4. Window(g, lost) \in Gradient
  BY <1>1, <1>3 DEF Window
<1>5. Summed(g, lost).batches = LastBatches(accum.steps + 1)
  <2>1. step \in Nat /\ accum.steps \in Nat /\ accum.sum.batches \in Seq(Nat)
    BY <1>2
  <2>2. accum.sum.batches
          = [i \in 1..accum.steps |-> step + i - accum.steps - 1]
    BY DEF Pending
  <2>3. accum.sum.batches \o <<step>> = LastBatches(accum.steps + 1)
    BY ONLY <2>1, <2>2, AppendRun DEF LastBatches
  <2> QED BY <1>1, <2>3 DEF Summed
<1>6. Window(g, lost).batches = LastBatches(accum.steps + 1) \/ accum.max = 0
  BY <1>5 DEF Window
<1> QED BY <1>1, <1>3, <1>4, <1>5, <1>6

(* The window the optimizer gets is the last WindowSize micro-batches.       *)
LEMMA WindowIsWhole ==
  ASSUME TypeOK, Pending, Ready,
         NEW g \in Backward, NEW lost \in SUBSET Trained
  PROVE  /\ Window(g, lost) \in Gradient
         /\ Window(g, lost).batches = LastBatches(WindowSize)
         /\ WindowSize \in Nat /\ WindowSize = accum.steps + 1
<1>1. accum.max \in Nat /\ accum.steps \in Nat /\ step \in Nat
  BY DEF TypeOK
<1>2. WindowSize \in Nat /\ WindowSize = accum.steps + 1
  BY <1>1 DEF WindowSize, Ready, Pending
<1>3. Window(g, lost).batches = LastBatches(WindowSize)
  <2>1. CASE accum.max = 0
    <3>1. Window(g, lost).batches = <<step>>
      BY <2>1, SummedType DEF Window
    <3>2. LastBatches(1) = <<step>>
      BY <1>1 DEF LastBatches
    <3> QED BY <2>1, <3>1, <3>2 DEF WindowSize
  <2>2. CASE accum.max # 0
    BY <1>2, <2>2, SummedType
  <2> QED BY <2>1, <2>2
<1> QED BY <1>2, <1>3, SummedType

(* Concatenating two increasing sequences, the first below the second.       *)
LEMMA IncreasingConcat ==
  ASSUME NEW s \in Seq(Nat), NEW t \in Seq(Nat), Increasing(s), Increasing(t),
         \A i \in DOMAIN s, j \in DOMAIN t : s[i] < t[j]
  PROVE  Increasing(s \o t)
<1> SUFFICES ASSUME NEW i \in DOMAIN (s \o t), NEW j \in DOMAIN (s \o t), i < j
             PROVE  (s \o t)[i] < (s \o t)[j]
  BY DEF Increasing
<1>1. i \in 1..(Len(s) + Len(t)) /\ j \in 1..(Len(s) + Len(t))
  OBVIOUS
<1>2. CASE j <= Len(s)
  BY <1>1, <1>2 DEF Increasing
<1>3. CASE i <= Len(s) /\ Len(s) < j
  BY <1>1, <1>3, SMTT(30)
<1>4. CASE Len(s) < i
  BY <1>1, <1>4, SMTT(30) DEF Increasing
<1> QED BY <1>1, <1>2, <1>3, <1>4, SMTT(30)

-----------------------------------------------------------------------------
LEMMA ScalerType ==
  ASSUME TypeOK, NEW b \in BOOLEAN
  PROVE  UpdateScaler(b) \in [exp : 0..Infinity, counter : Nat, interval : Intervals]
<1> USE TrainingAssumption
<1>1. /\ scaler \in [exp : 0..Infinity, counter : Nat, interval : Intervals]
      /\ scaler.exp \in 0..Infinity /\ scaler.counter \in Nat
      /\ scaler.interval \in Intervals /\ MaxExp \in Nat
  BY DEF TypeOK
<1>2. Halve(scaler.exp) \in 0..Infinity /\ Double(scaler.exp) \in 0..Infinity
  BY <1>1 DEF Halve, Double, Infinity
<1>3. [scaler EXCEPT !.exp = Halve(@), !.counter = 0]
        \in [exp : 0..Infinity, counter : Nat, interval : Intervals]
  BY <1>1, <1>2
<1>4. [scaler EXCEPT !.exp = Double(@), !.counter = 0]
        \in [exp : 0..Infinity, counter : Nat, interval : Intervals]
  BY <1>1, <1>2
<1>5. [scaler EXCEPT !.counter = @ + 1]
        \in [exp : 0..Infinity, counter : Nat, interval : Intervals]
  BY <1>1
<1> QED BY <1>3, <1>4, <1>5 DEF UpdateScaler

LEMMA FoldType ==
  ASSUME NEW from \in [Slots -> SUBSET Tensors]
  PROVE  Fold(from) \in [Slots -> SUBSET Tensors]
  BY DEF Fold

(* The inductive invariant holds initially.                                  *)
LEMMA InitInv == Init => IInv
<1> SUFFICES ASSUME Init PROVE IInv
  OBVIOUS
<1> USE TrainingAssumption DEF Init, NewAccum, NoGrad, EmptySlots
<1>1. TypeOK
  BY DEF TypeOK, Gradient, Infinity
<1>2. Pending
  BY DEF Pending, WindowSize
<1>3. Applied
  BY DEF Applied, Increasing
<1>4. Counted
  BY DEF Counted
<1> QED BY <1>1, <1>2, <1>3, <1>4 DEF IInv

(* Micro-batches that do not complete a window only lengthen the sum.        *)
LEMMA AccumulateInv == IInv /\ Accumulate => IInv'
<1> SUFFICES ASSUME IInv, Accumulate PROVE IInv'
  OBVIOUS
<1> USE TrainingAssumption DEF IInv
<1>1. PICK g \in Backward, lost \in SUBSET Trained :
        /\ grads' = g
        /\ accum' = [accum EXCEPT !.steps = @ + 1, !.sum = Summed(g, lost)]
  BY DEF Accumulate
<1>2. /\ step' = step + 1 /\ step \in Nat /\ step' \in 0..MaxStep
      /\ accum.steps \in Nat /\ accum.max \in Nat
      /\ UNCHANGED <<scaler, monitor, weights, swa, ema, outcomes>>
  BY SMTT(30) DEF Accumulate, TypeOK
<1>3. /\ g \in Gradient /\ Summed(g, lost) \in Gradient
      /\ Summed(g, lost).batches = LastBatches(accum.steps + 1)
  BY SummedType
<1>4. /\ accum' \in [max : Nat, steps : Nat, sum : Gradient]
      /\ accum'.steps = accum.steps + 1 /\ accum'.max = accum.max
      /\ accum'.sum = Summed(g, lost)
  <2>1. accum \in [max : Nat, steps : Nat, sum : Gradient]
    BY DEF TypeOK
  <2>2. accum.steps + 1 \in Nat
    BY <1>2
  <2>3. /\ accum' = [accum EXCEPT !.steps = accum.steps + 1, !.sum = Summed(g, lost)]
        /\ Summed(g, lost) \in Gradient
    BY <1>1, <1>3
  <2> QED BY ONLY <2>1, <2>2, <2>3
<1>5. TypeOK'
  BY <1>1, <1>2, <1>3, <1>4 DEF TypeOK
<1>6. Pending'
  <2>1. accum'.steps < WindowSize'
    BY <1>2, <1>4 DEF Accumulate, Ready, WindowSize
  <2>2. accum'.sum.batches
          = [i \in 1..accum'.steps |-> step' + i - accum'.steps - 1]
    <3>1. \A i \in 1..accum'.steps :
            step + i - (accum.steps + 1) = step' + i - accum'.steps - 1
      BY <1>2, <1>4
    <3> QED BY <1>3, <1>4, <3>1 DEF LastBatches
  <2> QED BY <1>2, <1>4, <2>1, <2>2 DEF Pending
<1>7. Applied'
  <2>1. step' - accum'.steps = step - accum.steps
    BY <1>2, <1>4
  <2> QED BY <1>2, <2>1 DEF Applied
<1>8. Counted'
  BY <1>2 DEF Counted
<1> QED BY <1>5, <1>6, <1>7, <1>8

(* The end of a window empties the accumulator.                              *)
LEMMA EndWindowInv ==
  ASSUME TypeOK, EndWindow, step < MaxStep
  PROVE  /\ step \in Nat /\ step' = step + 1 /\ step' \in 0..MaxStep
         /\ grads' \in Gradient
         /\ accum' \in [max : Nat, steps : Nat, sum : Gradient]
         /\ accum'.steps = 0
         /\ Pending'
<1> USE TrainingAssumption
<1>1. step \in Nat /\ step' = step + 1 /\ step' \in 0..MaxStep
  BY SMTT(30) DEF TypeOK, EndWindow
<1>2. NoGrad \in Gradient
  BY DEF NoGrad, Gradient
<1>3. accum \in [max : Nat, steps : Nat, sum : Gradient]
  BY DEF TypeOK
<1>4. /\ accum' \in [max : Nat, steps : Nat, sum : Gradient]
      /\ accum'.steps = 0 /\ accum'.sum = NoGrad /\ accum'.max \in Nat
  BY ONLY <1>2, <1>3, EndWindow DEF EndWindow
<1>5. Pending'
  BY <1>1, <1>4 DEF Pending, WindowSize, NoGrad
<1> QED BY <1>1, <1>2, <1>4, <1>5 DEF EndWindow

(* A skipped window leaves the parameters alone and starts the count again.  *)
LEMMA SkipWindowInv == IInv /\ SkipWindow => IInv'
<1> SUFFICES ASSUME IInv, SkipWindow PROVE IInv'
  OBVIOUS
<1> USE TrainingAssumption DEF IInv
<1>1. PICK u \in BOOLEAN :
        /\ monitor' = [dirty |-> TRUE,
                       skips |-> IF u THEN monitor.skips ELSE monitor.skips + 1]
        /\ outcomes' = Append(outcomes, [healthy |-> ~u, applied |-> FALSE])
  BY DEF SkipWindow, Unhealthy
<1>2. /\ step < MaxStep /\ EndWindow /\ scaler' = UpdateScaler(TRUE)
      /\ weights' = weights /\ swa' = swa /\ ema' = ema
  BY DEF SkipWindow
<1>3. /\ step \in Nat /\ step' = step + 1 /\ step' \in 0..MaxStep
      /\ grads' \in Gradient
      /\ accum' \in [max : Nat, steps : Nat, sum : Gradient]
      /\ accum'.steps = 0 /\ Pending'
  BY <1>2, EndWindowInv
<1>4. monitor' \in [dirty : BOOLEAN, skips : Nat]
  BY <1>1 DEF TypeOK
<1>5. /\ outcomes \in Seq([healthy : BOOLEAN, applied : BOOLEAN])
      /\ outcomes' \in Seq([healthy : BOOLEAN, applied : BOOLEAN])
  BY <1>1 DEF TypeOK
<1>6. TypeOK'
  BY <1>2, <1>3, <1>4, <1>5, ScalerType DEF TypeOK
<1>7. Applied'
  <2>1. accum.steps \in Nat
    BY DEF TypeOK
  <2>2. \A i \in DOMAIN weights.batches : weights.batches[i] \in Nat
    BY SMTT(30) DEF TypeOK, Gradient
  <2>3. \A i \in DOMAIN weights.batches : weights.batches[i] < step' - accum'.steps
    BY <1>3, <2>1, <2>2 DEF Applied
  <2> QED BY <1>2, <2>3 DEF Applied
<1>8. Counted'
  <2>1. scaler'.counter = 0
    BY <1>2 DEF UpdateScaler, TypeOK
  <2> QED BY <1>5, <2>1 DEF Counted
<1> QED BY <1>3, <1>6, <1>7, <1>8

(* An applied window is younger than everything applied before it.           *)
LEMMA WindowApplied ==
  ASSUME TypeOK, Pending, Applied, Ready,
         NEW g \in Backward, NEW lost \in SUBSET Trained
  PROVE  LET s == weights.batches \o Window(g, lost).batches
         IN  /\ s \in Seq(Nat) /\ Increasing(s)
             /\ \A i \in DOMAIN s : s[i] < step + 1
<1> DEFINE w == Window(g, lost).batches
           q == weights.batches
<1>1. /\ w \in Seq(Nat) /\ w = LastBatches(WindowSize)
      /\ WindowSize \in Nat /\ WindowSize = accum.steps + 1
  BY WindowIsWhole DEF Gradient
<1>2. q \in Seq(Nat) /\ step \in Nat /\ accum.steps \in Nat
  BY TrainingAssumption DEF TypeOK, Gradient
<1>3. /\ Increasing(q)
      /\ \A i \in DOMAIN q : q[i] < step - accum.steps
  BY DEF Applied
<1> HIDE DEF w, q
<1>a. /\ step \in Int /\ WindowSize \in Int /\ accum.steps \in Int
      /\ WindowSize = accum.steps + 1
  BY <1>1, <1>2
<1>4. /\ DOMAIN w = 1..WindowSize
      /\ \A j \in DOMAIN w : w[j] = step + j - WindowSize
  BY <1>1 DEF LastBatches
<1>5. Increasing(w)
  <2> SUFFICES ASSUME NEW i \in DOMAIN w, NEW j \in DOMAIN w, i < j PROVE w[i] < w[j]
    BY DEF Increasing
  <2>1. i \in Int /\ j \in Int /\ i < j
    BY <1>a, <1>4
  <2>2. w[i] = step + i - WindowSize /\ w[j] = step + j - WindowSize
    BY <1>4
  <2> QED BY ONLY <1>a, <2>1, <2>2
<1>6. \A i \in DOMAIN q, j \in DOMAIN w : q[i] < w[j]
  <2> SUFFICES ASSUME NEW i \in DOMAIN q, NEW j \in DOMAIN w
               PROVE  q[i] < w[j]
    OBVIOUS
  <2>1. q[i] \in Nat /\ q[i] < step - accum.steps
    BY <1>2, <1>3
  <2>2. j \in 1..WindowSize /\ w[j] = step + j - WindowSize
    BY <1>4
  <2>3. j \in Int /\ j >= 1
    BY <1>1, <2>2
  <2> QED BY ONLY <1>a, <2>1, <2>2, <2>3
<1>7. Increasing(q \o w)
  BY <1>1, <1>2, <1>3, <1>5, <1>6, IncreasingConcat
<1>8. \A i \in DOMAIN (q \o w) : (q \o w)[i] < step + 1
  <2> SUFFICES ASSUME NEW i \in DOMAIN (q \o w) PROVE (q \o w)[i] < step + 1
    OBVIOUS
  <2>1. i \in 1..(Len(q) + Len(w))
    BY <1>1, <1>2
  <2>2. CASE i <= Len(q)
    <3>1. (q \o w)[i] = q[i] /\ i \in DOMAIN q /\ q[i] \in Nat
      BY <1>1, <1>2, <2>1, <2>2, SMTT(30)
    <3> QED BY <1>2, <1>3, <3>1
  <2>3. CASE Len(q) < i
    <3>1. (q \o w)[i] = w[i - Len(q)] /\ i - Len(q) \in 1..Len(w)
      BY <1>1, <1>2, <2>1, <2>3
    <3>2. PICK k \in DOMAIN w : (q \o w)[i] = w[k]
      BY <1>1, <3>1
    <3>3. k \in 1..WindowSize /\ w[k] = step + k - WindowSize
      BY <1>4
    <3>4. k \in Int /\ k <= WindowSize
      BY <1>a, <3>3
    <3> QED BY ONLY <1>a, <3>2, <3>3, <3>4, SMTT(30)
  <2> QED BY <1>1, <1>2, <2>1, <2>2, <2>3
<1>9. q \o w \in Seq(Nat)
  BY <1>1, <1>2
<1> QED BY <1>7, <1>8, <1>9 DEF q, w

(* An applied window lengthens the run of applied windows by one.            *)
LEMMA RunAppend ==
  ASSUME NEW S, NEW o \in Seq(S), NEW e \in S, e.applied, NEW c \in Nat,
         c <= Len(o),
         \A i \in 1..Len(o) : i > Len(o) - c => o[i].applied
  PROVE  /\ c + 1 <= Len(Append(o, e))
         /\ \A i \in 1..Len(Append(o, e)) :
              i > Len(Append(o, e)) - (c + 1) => Append(o, e)[i].applied
<1>1. Len(Append(o, e)) = Len(o) + 1 /\ Len(o) \in Nat
  OBVIOUS
<1>2. ASSUME NEW i \in 1..(Len(o) + 1), i > Len(o) - c
      PROVE  Append(o, e)[i].applied
  <2>1. CASE i \in 1..Len(o)
    <3>1. Append(o, e)[i] = o[i]
      BY <2>1
    <3> QED BY <1>2, <2>1, <3>1
  <2>2. CASE i = Len(o) + 1
    <3>1. Append(o, e)[i] = e
      BY <2>2
    <3> QED BY <3>1
  <2> QED BY <1>1, <2>1, <2>2
<1>3. Len(o) + 1 - (c + 1) = Len(o) - c
  BY <1>1
<1> QED BY <1>1, <1>2, <1>3

(* An applied window keeps the parameters finite and in order.               *)
LEMMA ApplyWindowInv == IInv /\ ApplyWindow => IInv'
<1> SUFFICES ASSUME IInv, ApplyWindow PROVE IInv'
  OBVIOUS
<1> USE TrainingAssumption DEF IInv
<1>1. /\ step < MaxStep /\ Ready /\ EndWindow /\ monitor' = monitor
      /\ scaler' = UpdateScaler(FALSE)
      /\ outcomes' = Append(outcomes, [healthy |-> TRUE, applied |-> TRUE])
  BY DEF ApplyWindow, OptimizerStep
<1>2. PICK g \in Backward, lost \in SUBSET Trained :
        LET w == Window(g, lost)
        IN /\ ~Unhealthy(w)
           /\ weights' = [batches |-> weights.batches \o w.batches,
                          bad |-> weights.bad \cup w.bad]
  BY DEF ApplyWindow, OptimizerStep
<1>3. /\ step \in Nat /\ step' = step + 1 /\ step' \in 0..MaxStep
      /\ grads' \in Gradient
      /\ accum' \in [max : Nat, steps : Nat, sum : Gradient]
      /\ accum'.steps = 0 /\ Pending'
  BY <1>1, EndWindowInv
<1>4. /\ weights'.batches \in Seq(Nat) /\ Increasing(weights'.batches)
      /\ \A i \in DOMAIN weights'.batches : weights'.batches[i] < step + 1
  BY <1>1, <1>2, WindowApplied
<1>5. weights'.bad = {}
  <2>1. Window(g, lost).bad \in SUBSET Tensors
    BY <1>1, WindowIsWhole DEF Gradient
  <2>2. Window(g, lost).bad = {}
    BY <1>2, <2>1 DEF Unhealthy
  <2> QED BY <1>2, <2>2 DEF Applied
<1>6. weights' \in Gradient
  BY <1>2, <1>4, <1>5 DEF Gradient
<1>7. swa' \in [on : BOOLEAN, start : Nat, models : Nat,
               from : [Slots -> SUBSET Tensors]]
  <2>1. swa \in [on : BOOLEAN, start : Nat, models : Nat,
                from : [Slots -> SUBSET Tensors]]
    BY DEF TypeOK
  <2>2. Fold(swa.from) \in [Slots -> SUBSET Tensors]
    BY <2>1, FoldType
  <2>3. swa.models + Cardinality(Tensors) \in Nat
    BY <2>1, FS_CardinalityType
  <2>4. swa' = IF swa.on /\ step >= swa.start
              THEN [swa EXCEPT !.models = swa.models + Cardinality(Tensors),
                               !.from = Fold(swa.from)]
              ELSE swa
    BY DEF ApplyWindow, OptimizerStep
  <2> QED BY ONLY <2>1, <2>2, <2>3, <2>4
<1>8. ema' \in [on : BOOLEAN, from : [Slots -> SUBSET Tensors]]
  <2>1. ema \in [on : BOOLEAN, from : [Slots -> SUBSET Tensors]]
    BY DEF TypeOK
  <2>2. Fold(ema.from) \in [Slots -> SUBSET Tensors]
    BY <2>1, FoldType
  <2>3. ema' = IF ema.on THEN [ema EXCEPT !.from = Fold(ema.from)] ELSE ema
    BY DEF ApplyWindow, OptimizerStep
  <2> QED BY ONLY <2>1, <2>2, <2>3
<1>9. /\ outcomes \in Seq([healthy : BOOLEAN, applied : BOOLEAN])
      /\ outcomes' \in Seq([healthy : BOOLEAN, applied : BOOLEAN])
  BY <1>1 DEF TypeOK
<1>10. TypeOK'
  BY <1>1, <1>3, <1>6, <1>7, <1>8, <1>9, ScalerType DEF TypeOK
<1>11. Applied'
  BY <1>3, <1>4, <1>5 DEF Applied
<1>12. Counted'
  <2>1. scaler.counter \in Nat /\ scaler'.counter \in {0, scaler.counter + 1}
    BY <1>1 DEF UpdateScaler, TypeOK
  <2>2. /\ scaler.counter + 1 <= Len(outcomes')
        /\ \A i \in 1..Len(outcomes') :
             i > Len(outcomes') - (scaler.counter + 1) => outcomes'[i].applied
    BY <1>1, <1>9, <2>1, RunAppend DEF Counted
  <2>3. Len(outcomes') \in Nat
    BY <1>9
  <2>4. CASE scaler'.counter = 0
    BY <2>3, <2>4 DEF Counted
  <2>5. CASE scaler'.counter = scaler.counter + 1
    BY <2>2, <2>5 DEF Counted
  <2> QED BY <2>1, <2>4, <2>5
<1> QED BY <1>3, <1>10, <1>11, <1>12

(* A new accumulator is empty; the other setters touch nothing of the parts. *)
LEMMA SettersInv ==
  IInv /\ (SetAccumulation \/ InitSWA \/ InitEMA \/ ResetMonitor
             \/ SetGrowthInterval \/ UNCHANGED vars) => IInv'
<1> SUFFICES ASSUME IInv PROVE
      (SetAccumulation \/ InitSWA \/ InitEMA \/ ResetMonitor
         \/ SetGrowthInterval \/ UNCHANGED vars) => IInv'
  OBVIOUS
<1> USE TrainingAssumption DEF IInv
<1>1. CASE SetAccumulation
  <2>1. PICK k \in AccumSteps : accum' = NewAccum(k)
    BY <1>1 DEF SetAccumulation
  <2>2. UNCHANGED <<step, scaler, monitor, grads, weights, swa, ema, outcomes>>
    BY <1>1 DEF SetAccumulation
  <2>3. /\ accum' \in [max : Nat, steps : Nat, sum : Gradient]
        /\ accum'.steps = 0 /\ accum'.sum = NoGrad
    BY <2>1 DEF NewAccum, NoGrad, Gradient
  <2>4. TypeOK'
    BY <2>2, <2>3 DEF TypeOK
  <2>5. Pending'
    BY <2>2, <2>3 DEF TypeOK, Pending, WindowSize, NoGrad
  <2>6. Applied'
    <3>1. \A i \in DOMAIN weights.batches : weights.batches[i] \in Nat
      BY SMTT(30) DEF TypeOK, Gradient
    <3>2. accum.steps \in Nat /\ step \in Nat
      BY DEF TypeOK
    <3> QED BY <2>2, <2>3, <3>1, <3>2 DEF Applied
  <2>7. Counted'
    BY <2>2 DEF Counted
  <2> QED BY <2>4, <2>5, <2>6, <2>7
<1>2. CASE InitSWA \/ InitEMA \/ ResetMonitor \/ UNCHANGED vars
  <2>1. UNCHANGED <<step, scaler, accum, grads, weights, outcomes>>
    BY <1>2 DEF InitSWA, InitEMA, ResetMonitor, vars
  <2>2. TypeOK'
    <3>1. EmptySlots \in [Slots -> SUBSET Tensors]
      BY DEF EmptySlots
    <3>2. CASE InitSWA
      BY <2>1, <3>1, <3>2 DEF InitSWA, TypeOK
    <3>3. CASE InitEMA
      BY <2>1, <3>1, <3>3 DEF InitEMA, TypeOK
    <3>4. CASE ResetMonitor
      BY <2>1, <3>4 DEF ResetMonitor, TypeOK
    <3>5. CASE UNCHANGED vars
      BY <3>5 DEF vars, TypeOK
    <3> QED BY <1>2, <3>2, <3>3, <3>4, <3>5
  <2>3. Pending' /\ Applied' /\ Counted'
    BY <2>1 DEF Pending, WindowSize, Applied, Counted
  <2> QED BY <2>2, <2>3
<1>3. CASE SetGrowthInterval
  <2>1. PICK n \in Intervals : scaler' = [scaler EXCEPT !.interval = n]
    BY <1>3 DEF SetGrowthInterval
  <2>2. UNCHANGED <<step, monitor, accum, grads, weights, swa, ema, outcomes>>
    BY <1>3 DEF SetGrowthInterval
  <2>3. TypeOK' /\ scaler'.counter = scaler.counter
    BY <2>1, <2>2 DEF TypeOK
  <2>4. Pending' /\ Applied' /\ Counted'
    BY <2>2, <2>3 DEF Pending, WindowSize, Applied, Counted
  <2> QED BY <2>3, <2>4
<1> QED BY <1>1, <1>2, <1>3

(* The inductive invariant is an invariant of the specification.             *)
LEMMA Invariance == Spec => []IInv
<1>1. IInv /\ [Next]_vars => IInv'
  BY AccumulateInv, SkipWindowInv, ApplyWindowInv, SettersInv DEF Next
<1> QED BY InitInv, <1>1, PTL DEF Spec

-----------------------------------------------------------------------------
(* Type correctness: in particular the loss scale never falls below 1.       *)
THEOREM TypeCorrect == Spec => []TypeOK
<1>1. IInv => TypeOK
  BY DEF IInv
<1> QED BY Invariance, <1>1, PTL

(* No NaN or Inf ever reaches the parameters, whatever overflows.            *)
THEOREM FiniteWeights == Spec => []WeightsStayFinite
<1>1. IInv => WeightsStayFinite
  BY DEF IInv, Applied, WeightsStayFinite
<1> QED BY Invariance, <1>1, PTL

(* Every micro-batch is applied at most once and in the order of training.   *)
THEOREM InOrder == Spec => []AppliedInOrder
<1>1. ASSUME IInv PROVE AppliedInOrder
  <2> DEFINE q == weights.batches
             p == accum.sum.batches
  <2>1. /\ q \in Seq(Nat) /\ p \in Seq(Nat)
        /\ step \in Int /\ accum.steps \in Nat
    BY <1>1, TrainingAssumption DEF IInv, TypeOK, Gradient
  <2>2. /\ Increasing(q) /\ \A i \in DOMAIN q : q[i] < step - accum.steps
        /\ p = [i \in 1..accum.steps |-> step + i - accum.steps - 1]
    BY <1>1 DEF IInv, Applied, Pending
  <2> HIDE DEF q, p
  <2>3. \A j \in DOMAIN p : j \in 1..accum.steps /\ p[j] = step + j - accum.steps - 1
    BY <2>2
  <2>4. \A j \in DOMAIN p : j \in Int /\ j >= 1
    BY <2>1, <2>3
  <2>5. Increasing(p)
    BY <2>1, <2>3, <2>4, SMTT(30) DEF Increasing
  <2>6. \A i \in DOMAIN q : q[i] \in Int
    BY <2>1
  <2>7. \A i \in DOMAIN q, j \in DOMAIN p : q[i] < p[j]
    BY ONLY <2>1, <2>2, <2>3, <2>4, <2>6, SMTT(30)
  <2>8. Increasing(q \o p)
    BY <2>1, <2>2, <2>5, <2>7, IncreasingConcat
  <2> QED BY <2>8 DEF q, p, AppliedInOrder
<1> QED BY Invariance, <1>1, PTL

(* Every update applies exactly the last max_steps_ micro-batches.           *)
THEOREM WholeWindows == Spec => UpdateIsWholeWindow
<1> DEFINE Whole == weights' # weights =>
             weights'.batches = weights.batches \o LastBatches(WindowSize)
<1>1. IInv /\ [Next]_vars => [Whole]_vars
  <2> SUFFICES ASSUME IInv, [Next]_vars, weights' # weights
               PROVE  weights'.batches = weights.batches \o LastBatches(WindowSize)
    OBVIOUS
  <2>1. ApplyWindow
    BY DEF Next, vars, Accumulate, SkipWindow, SetAccumulation, InitSWA, InitEMA,
           ResetMonitor, SetGrowthInterval
  <2>2. PICK g \in Backward, lost \in SUBSET Trained :
          weights' = [batches |-> weights.batches \o Window(g, lost).batches,
                      bad |-> weights.bad \cup Window(g, lost).bad]
    BY <2>1 DEF ApplyWindow, OptimizerStep
  <2>3. Window(g, lost).batches = LastBatches(WindowSize)
    BY <2>1, WindowIsWhole DEF IInv, ApplyWindow, OptimizerStep
  <2> QED BY <2>2, <2>3
<1> HIDE DEF Whole
<1>2. Spec => [][Whole]_vars
  BY Invariance, <1>1, PTL DEF Spec
<1> QED BY <1>2 DEF Whole, UpdateIsWholeWindow

(* The scale grows only after growth_interval_ applied windows in a row.     *)
THEOREM ScaleGrowth == Spec => GrowthEarned
<1> DEFINE Earned == scaler'.exp > scaler.exp =>
             /\ Len(outcomes') >= scaler.interval
             /\ \A i \in Len(outcomes') - scaler.interval + 1 .. Len(outcomes') :
                  outcomes'[i].applied
<1>1. IInv /\ [Next]_vars => [Earned]_vars
  <2> SUFFICES ASSUME IInv, [Next]_vars, scaler'.exp > scaler.exp
               PROVE  /\ Len(outcomes') >= scaler.interval
                      /\ \A i \in Len(outcomes') - scaler.interval + 1
                                 .. Len(outcomes') : outcomes'[i].applied
    OBVIOUS
  <2>1. /\ scaler.exp \in Nat /\ scaler.counter \in Nat /\ scaler.interval \in Nat
        /\ scaler.interval > 0
        /\ outcomes \in Seq([healthy : BOOLEAN, applied : BOOLEAN])
        /\ scaler \in [exp : 0..Infinity, counter : Nat, interval : Intervals]
    <3>1. /\ scaler \in [exp : 0..Infinity, counter : Nat, interval : Intervals]
          /\ outcomes \in Seq([healthy : BOOLEAN, applied : BOOLEAN])
      BY DEF IInv, TypeOK
    <3>2. scaler.exp \in 0..Infinity /\ scaler.interval \in Intervals
      BY <3>1
    <3>3. scaler.interval \in Nat /\ scaler.interval > 0
      <4>1. scaler.interval \in Nat /\ scaler.interval # 0
        BY <3>2, TrainingAssumption
      <4> QED BY ONLY <4>1
    <3>4. scaler.exp \in Nat
      BY <3>2, TrainingAssumption DEF Infinity
    <3>5. scaler.counter \in Nat
      BY <3>1
    <3> QED BY <3>1, <3>3, <3>4, <3>5
  <2>2. ~ (scaler' = scaler \/ SetGrowthInterval)
    <3>1. scaler'.exp # scaler.exp
      BY <2>1
    <3> QED BY <2>1, <3>1 DEF SetGrowthInterval
  <2>3. ~ SkipWindow
    <3>1. ASSUME SkipWindow PROVE scaler'.exp = Halve(scaler.exp)
      BY <2>1, <3>1 DEF SkipWindow, UpdateScaler
    <3>2. ASSUME scaler'.exp = Halve(scaler.exp) PROVE FALSE
      BY <2>1, <3>2 DEF Halve
    <3> QED BY <3>1, <3>2
  <2>4. ApplyWindow
    BY <2>2, <2>3 DEF Next, vars, Accumulate, SetAccumulation, InitSWA, InitEMA,
                      ResetMonitor
  <2>5. /\ scaler' = UpdateScaler(FALSE)
        /\ outcomes' = Append(outcomes, [healthy |-> TRUE, applied |-> TRUE])
    BY <2>4 DEF ApplyWindow, OptimizerStep
  <2>6. scaler.counter + 1 >= scaler.interval
    BY <2>1, <2>5 DEF UpdateScaler
  <2>7. /\ scaler.counter + 1 <= Len(outcomes')
        /\ \A i \in 1..Len(outcomes') :
             i > Len(outcomes') - (scaler.counter + 1) => outcomes'[i].applied
    BY <2>1, <2>5, RunAppend DEF IInv, Counted
  <2>8. Len(outcomes') \in Nat
    BY <2>1, <2>5
  <2> QED
    <3>1. Len(outcomes') >= scaler.interval
      BY <2>1, <2>6, <2>7, <2>8
    <3>2. ASSUME NEW i \in Len(outcomes') - scaler.interval + 1 .. Len(outcomes')
          PROVE  outcomes'[i].applied
      <4>1. /\ i \in Int /\ i <= Len(outcomes')
            /\ i >= Len(outcomes') - scaler.interval + 1
        BY <2>1, <2>8
      <4>2. i \in 1..Len(outcomes') /\ i > Len(outcomes') - (scaler.counter + 1)
        BY <2>1, <2>6, <2>8, <3>1, <4>1
      <4> QED BY <2>7, <4>2
    <3> QED BY <3>1, <3>2
<1> HIDE DEF Earned
<1>2. Spec => [][Earned]_vars
  BY Invariance, <1>1, PTL DEF Spec
<1> QED BY <1>2 DEF Earned, GrowthEarned
=============================================================================
