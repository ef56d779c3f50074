------------------------------ MODULE Training ------------------------------
(***************************************************************************)
(* TrainingPipeline::train_step and the objects it drives: the gradient    *)
(* accumulator, the dynamic loss scaler, the gradient health monitor, the  *)
(* AdamW update and the SWA and EMA averages.  One action is one call of a *)
(* public method; train_step has three outcomes, which are three actions.  *)
(*                                                                         *)
(* Numbers are abstracted to what the control depends on.  A gradient is   *)
(* the sequence of micro-batches summed in it and the set of tensors with  *)
(* a NaN or an Inf element; a micro-batch is named by the value of step_   *)
(* when it was trained; the loss scale is an exponent of two.              *)
(***************************************************************************)
EXTENDS Integers, Sequences, FiniteSets

CONSTANTS
  Tensors,        \* registered parameter tensors (indices into get_params())
  Embeddings,     \* the tensors Transformer::backward never writes
  Size,           \* elements of each tensor
  Slots,          \* elements of the flat buffers of SWA and EMA
  InitExp,        \* exponent of the initial scale (65536 = 2^16)
  MaxExp,         \* largest exponent of a finite float (127)
  AccumSteps,     \* arguments of set_gradient_accumulation_steps
  Intervals,      \* growth intervals in use (2000 by default)
  InitInterval,   \* the one the scaler is built with
  SwaStarts,      \* arguments of init_swa
  MaxStep         \* bound: calls of train_step

ASSUME TrainingAssumption ==
  /\ IsFiniteSet(Tensors)
  /\ Embeddings \subseteq Tensors
  /\ Slots \subseteq Nat
  /\ Size \in [Tensors -> Nat]
  /\ MaxExp \in Nat
  /\ InitExp \in 0..MaxExp
  /\ AccumSteps \subseteq Nat
  /\ Intervals \subseteq Nat \ {0}
  /\ InitInterval \in Intervals
  /\ SwaStarts \subseteq Nat
  /\ MaxStep \in Nat

VARIABLES
  step,      \* step_: calls of train_step so far
  scaler,    \* DynamicLossScaler: exponent of scale_, counter_, growth_interval_
  monitor,   \* GradientHealthMonitor: nan or inf count nonzero, skip_count_
  accum,     \* GradientAccumulator: max_steps_ (0: none), steps_ and the sum
  grads,     \* param_grads_ of the model
  weights,   \* the parameters: the micro-batches applied to them, non-finite tensors
  swa, ema,  \* the averages: which tensors' values are averaged in each slot
  outcomes   \* history: the windows that reached the optimizer's threshold

vars == <<step, scaler, monitor, accum, grads, weights, swa, ema, outcomes>>

Trained == Tensors \ Embeddings
Infinity == MaxExp + 1
NoGrad == [batches |-> <<>>, bad |-> {}]
NewAccum(k) == [max |-> IF k > 1 THEN k ELSE 0, steps |-> 0, sum |-> NoGrad]
EmptySlots == [j \in Slots |-> {}]

Init ==
  /\ step = 0
  /\ scaler = [exp |-> InitExp, counter |-> 0, interval |-> InitInterval]
  /\ monitor = [dirty |-> FALSE, skips |-> 0]
  /\ accum = NewAccum(0)
  /\ grads = NoGrad
  /\ weights = [batches |-> <<>>, bad |-> {}]
  /\ swa = [on |-> FALSE, start |-> 0, models |-> 0, from |-> EmptySlots]
  /\ ema = [on |-> FALSE, from |-> EmptySlots]
  /\ outcomes = <<>>

-----------------------------------------------------------------------------
(* DynamicLossScaler::update.  In floats inf / 2 = inf and 2^127 * 2 = inf. *)
Halve(e) == IF e \in {0, Infinity} THEN e ELSE e - 1
Double(e) == IF e = Infinity THEN e ELSE e + 1

BugUpdateScaler(overflow) ==                  \* mutant: an overflow keeps the count
  IF overflow
  THEN [scaler EXCEPT !.exp = Halve(@)]
  ELSE IF scaler.counter + 1 >= scaler.interval
       THEN [scaler EXCEPT !.exp = Double(@), !.counter = 0]
       ELSE [scaler EXCEPT !.counter = @ + 1]

UpdateScaler(overflow) ==
  IF overflow
  THEN [scaler EXCEPT !.exp = Halve(@), !.counter = 0]
  ELSE IF scaler.counter + 1 >= scaler.interval
       THEN [scaler EXCEPT !.exp = Double(@), !.counter = 0]
       ELSE [scaler EXCEPT !.counter = @ + 1]

(* Forward, loss and the scaled, then unscaled, backward.  Transformer::     *)
(* backward overwrites the gradient of every tensor it trains.  Any of them  *)
(* may overflow; with an infinite scale all of them do (inf * 0 is NaN).     *)
Backward ==
  [batches : {<<step>>},
   bad : IF scaler.exp = Infinity THEN {Trained} ELSE SUBSET Trained]

(* GradientAccumulator::accumulate: adding finite numbers may overflow too.  *)
Summed(g, lost) ==
  [batches |-> accum.sum.batches \o g.batches,
   bad |-> accum.sum.bad \cup g.bad \cup lost]

(* The gradient the update would use.  Clipping keeps a finite gradient      *)
(* finite and turns an Inf into a NaN, so `bad' does not change.             *)
Window(g, lost) == IF accum.max = 0 THEN g ELSE Summed(g, lost)

BugReady == accum.max = 0 \/ accum.steps >= accum.max   \* mutant: tested too early
Ready == accum.max = 0 \/ accum.steps + 1 >= accum.max

(* GradientHealthMonitor::check_gradients over the tensors, up to a bad one. *)
BugUnhealthy(w) ==                            \* mutant: only the first tensor
  \E t \in w.bad : \A u \in Tensors : t <= u
Unhealthy(w) == \E t \in Tensors : t \in w.bad

(* The part of train_step shared by its last two outcomes.                   *)
BugEndWindow ==                               \* mutant: the sum is not cleared
  /\ grads' = NoGrad
  /\ accum' = [accum EXCEPT !.steps = 0]
  /\ step' = step + 1
EndWindow ==
  /\ grads' = NoGrad
  /\ accum' = [accum EXCEPT !.steps = 0, !.sum = NoGrad]
  /\ step' = step + 1

(* optimizer_step: AdamW moves every parameter by its own gradient.          *)
OptimizerStep(w) == [batches |-> weights.batches \o w.batches,
                     bad |-> weights.bad \cup w.bad]

(* SWA::update and EMA::update are called once per tensor, each time with a  *)
(* count of elements and no offset, so tensor t lands in slots 1..Size[t].   *)
Fold(from) == [j \in Slots |-> from[j] \cup {t \in Tensors : j <= Size[t]}]

-----------------------------------------------------------------------------
(* train_step: the accumulator is not full yet. *)
Accumulate ==
  /\ step < MaxStep
  /\ ~Ready
  /\ \E g \in Backward, lost \in SUBSET Trained :
       /\ grads' = g
       /\ accum' = [accum EXCEPT !.steps = @ + 1, !.sum = Summed(g, lost)]
  /\ step' = step + 1
  /\ UNCHANGED <<scaler, monitor, weights, swa, ema, outcomes>>

(* train_step: `!healthy || should_skip_step()'.  The second operand is not  *)
(* evaluated when the first holds, so a detected overflow counts no skip.    *)
SkipWindow ==
  /\ step < MaxStep
  /\ Ready
  /\ \E g \in Backward, lost \in SUBSET Trained :
       LET unhealthy == Unhealthy(Window(g, lost))
       IN /\ unhealthy \/ monitor.dirty
          /\ monitor' = [dirty |-> TRUE,
                         skips |-> IF unhealthy THEN monitor.skips
                                                ELSE monitor.skips + 1]
          /\ outcomes' = Append(outcomes,
                                [healthy |-> ~unhealthy, applied |-> FALSE])
  /\ scaler' = UpdateScaler(TRUE)
  /\ EndWindow
  /\ UNCHANGED <<weights, swa, ema>>

(* train_step: the optimizer runs, then the scaler and the averages.         *)
ApplyWindow ==
  /\ step < MaxStep
  /\ Ready
  /\ ~monitor.dirty
  /\ \E g \in Backward, lost \in SUBSET Trained :
       LET w == Window(g, lost)
       IN /\ ~Unhealthy(w)
          /\ weights' = OptimizerStep(w)
  /\ outcomes' = Append(outcomes, [healthy |-> TRUE, applied |-> TRUE])
  /\ scaler' = UpdateScaler(FALSE)
  /\ swa' = IF swa.on /\ step >= swa.start
            THEN [swa EXCEPT !.models = @ + Cardinality(Tensors), !.from = Fold(@)]
            ELSE swa
  /\ ema' = IF ema.on THEN [ema EXCEPT !.from = Fold(@)] ELSE ema
  /\ EndWindow
  /\ UNCHANGED monitor

(* Replaces the accumulator whatever it holds.                               *)
SetAccumulation ==
  /\ \E k \in AccumSteps : accum' = NewAccum(k)
  /\ UNCHANGED <<step, scaler, monitor, grads, weights, swa, ema, outcomes>>

InitSWA ==
  /\ \E s \in SwaStarts :
       swa' = [on |-> TRUE, start |-> s, models |-> 0, from |-> EmptySlots]
  /\ UNCHANGED <<step, scaler, monitor, accum, grads, weights, ema, outcomes>>

InitEMA ==
  /\ ema' = [on |-> TRUE, from |-> EmptySlots]
  /\ UNCHANGED <<step, scaler, monitor, accum, grads, weights, swa, outcomes>>

(* get_health_monitor().reset(): the pipeline itself never calls it.         *)
ResetMonitor ==
  /\ monitor' = [dirty |-> FALSE, skips |-> 0]
  /\ UNCHANGED <<step, scaler, accum, grads, weights, swa, ema, outcomes>>

(* get_loss_scaler().set_growth_interval(n).                                 *)
SetGrowthInterval ==
  /\ \E n \in Intervals : scaler' = [scaler EXCEPT !.interval = n]
  /\ UNCHANGED <<step, monitor, accum, grads, weights, swa, ema, outcomes>>

Next ==
  \/ Accumulate \/ SkipWindow \/ ApplyWindow
  \/ SetAccumulation \/ InitSWA \/ InitEMA \/ ResetMonitor \/ SetGrowthInterval

Spec == Init /\ [][Next]_vars

-----------------------------------------------------------------------------
Gradient == [batches : Seq(Nat), bad : SUBSET Tensors]

(* Every variable has its type; in particular the scale never falls below 1 *)
(* (the floor of loss_scaling.hpp:40).                                      *)
TypeOK ==
  /\ step \in 0..MaxStep
  /\ scaler \in [exp : 0..Infinity, counter : Nat, interval : Intervals]
  /\ monitor \in [dirty : BOOLEAN, skips : Nat]
  /\ accum \in [max : Nat, steps : Nat, sum : Gradient]
  /\ grads \in Gradient
  /\ weights \in Gradient
  /\ swa \in [on : BOOLEAN, start : Nat, models : Nat,
              from : [Slots -> SUBSET Tensors]]
  /\ ema \in [on : BOOLEAN, from : [Slots -> SUBSET Tensors]]
  /\ outcomes \in Seq([healthy : BOOLEAN, applied : BOOLEAN])

(* No gradient with a NaN or an Inf, of this micro-batch or of an earlier   *)
(* one of its window, ever reaches the parameters (the health check and the *)
(* branch of training_pipeline.hpp:147-161).                                *)
WeightsStayFinite == weights.bad = {}

Increasing(s) == \A i, j \in DOMAIN s : i < j => s[i] < s[j]

(* A micro-batch is applied to the parameters at most once, in the order it *)
(* was trained, and none that is still in the accumulator was applied       *)
(* already, whichever windows were skipped or dropped in between.           *)
AppliedInOrder == Increasing(weights.batches \o accum.sum.batches)

(* The k micro-batches that end with the one being trained.                 *)
LastBatches(k) == [i \in 1..k |-> step + i - k]

WindowSize == IF accum.max = 0 THEN 1 ELSE accum.max

(* An update applies a whole window: exactly the last max_steps_ micro-     *)
(* batches, the divisor of get_normalized, or the last one if there is no   *)
(* accumulator; so no window is short or long after a skip or a change of   *)
(* the accumulation length.                                                 *)
UpdateIsWholeWindow ==
  [][weights' # weights =>
       weights'.batches = weights.batches \o LastBatches(WindowSize)]_vars

(* The scale grows only after growth_interval_ windows in a row were        *)
(* applied: one skipped window starts the count again.                      *)
GrowthEarned ==
  [][scaler'.exp > scaler.exp =>
       /\ Len(outcomes') >= scaler.interval
       /\ \A i \in Len(outcomes') - scaler.interval + 1 .. Len(outcomes') :
            outcomes'[i].applied]_vars

(* math.md:1250-1256: a window is skipped if a gradient has a NaN or an Inf *)
(* and applied otherwise.  The code does not do this: nothing clears the    *)
(* counts the monitor keeps, so one overflow skips all later windows.       *)
HealthyWindowApplied ==
  \A i \in DOMAIN outcomes : outcomes[i].healthy => outcomes[i].applied
=============================================================================
