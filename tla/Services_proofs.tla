--------------------------- MODULE Services_proofs ---------------------------
(***************************************************************************)
(* What stands in front of the model and beside it, for every number of    *)
(* clients, connections, requests and files.  A behaviour of MCServices    *)
(* moves one component at a time; each component has its own invariant.    *)
(***************************************************************************)
EXTENDS MCServices, SequenceTheorems, FiniteSetTheorems, WellFoundedInduction, TLAPS

-----------------------------------------------------------------------------
(* A step of the whole is a step of each component, or leaves it alone.      *)
LEMMA Projection ==
  ASSUME [Next]_vars
  PROVE  /\ [LimitsNext]_limitVars /\ [BucketNext]_bucketVars /\ [ServerNext]_serverVars
         /\ [WeightsNext]_weightVars /\ [ShardNext]_shardVars /\ [TrainerNext]_trainerVars
         /\ focus = "batches" => [BatchNext]_<<batchVars, clock>>
         /\ focus = "priorities" => [PriorityNext]_<<prioVars, clock>>
         /\ IF focus = "prefixes" THEN [PrefixNext]_<<prefixVars, clock>> ELSE UNCHANGED prefixVars
         /\ UNCHANGED focus
  BY DEF Next, vars, others, LimitsNext, BucketNext, limitVars, bucketVars, serverVars,
     batchVars, prioVars, prefixVars, clock, weightVars, shardVars, trainerVars,
     BatchNext, PriorityNext, PrefixNext

-----------------------------------------------------------------------------
(* Limits *)

(* The smaller of two.                                                       *)
LEMMA MinOfTwo ==
  ASSUME NEW a \in Int, NEW b \in Int
  PROVE  Min({a, b}) = IF a <= b THEN a ELSE b
<1>1. (IF a <= b THEN a ELSE b) \in {a, b}
      /\ \A y \in {a, b} : (IF a <= b THEN a ELSE b) <= y
  OBVIOUS
<1>2. \A x \in {a, b} : (\A y \in {a, b} : x <= y) => x = IF a <= b THEN a ELSE b
  OBVIOUS
<1> QED BY <1>1, <1>2, Zenon DEF Min

LEMMA MulNat == ASSUME NEW a \in Nat, NEW b \in Nat PROVE a * b \in Nat
  OBVIOUS

LEMMA MulLess ==
  ASSUME NEW a \in Nat, NEW b \in Nat, NEW c \in Nat, NEW d \in Nat, a <= c, b <= d
  PROVE  a * b <= c * d
<1>1. a * b <= c * b BY SMTT(30)
<1>2. c * b <= c * d BY SMTT(30)
<1>3. a * b \in Nat /\ c * b \in Nat /\ c * d \in Nat BY MulNat
<1> QED BY <1>1, <1>2, <1>3

LEMMA Cancel ==
  ASSUME NEW s \in Nat \ {0}, NEW a \in Int, NEW b \in Int, s * a <= s * b
  PROVE  a <= b
<1>1. SUFFICES ASSUME b + 1 <= a PROVE FALSE
  OBVIOUS
<1>2. s * (b + 1) <= s * a
  BY <1>1, SMTT(30)
<1>3. s * (b + 1) = s * b + s
  OBVIOUS
<1>4. s * a \in Int /\ s * b \in Int /\ s * (b + 1) \in Int
  OBVIOUS
<1> QED BY <1>2, <1>3, <1>4

(* What flows in is at most the whole rate over the time since the last call. *)
LEMMA InflowBound ==
  ASSUME NEW jitter \in Jitters, time \in Nat, lastRefill \in Nat, lastRefill <= time
  PROVE  /\ Inflow(jitter) \in Nat
         /\ 2 * Inflow(jitter) <= (Rate * Scale) * (time - lastRefill)
<1> DEFINE d == time - lastRefill
           e == d \div 2
           m == Min({Rate * e, Burst * Second})
<1>1. d \in Nat /\ e \in Nat /\ 2 * e <= d
  OBVIOUS
<1>2. jitter \in Nat /\ jitter <= Scale /\ Rate \in Nat /\ Burst \in Nat
      /\ Second \in Nat /\ Scale \in Nat
  BY LimitsAssumption
<1>3. Rate * e \in Nat /\ Burst * Second \in Nat
  BY <1>1, <1>2, MulNat
<1>4. m \in Nat /\ m <= Rate * e
  <2> HIDE DEF e
  <2> QED BY <1>3, MinOfTwo
<1>5. Inflow(jitter) = m * jitter
  BY DEF Inflow
<1> HIDE DEF m, e
<1>6. m * jitter \in Nat /\ m * jitter <= (Rate * e) * Scale
  BY <1>2, <1>3, <1>4, MulNat, MulLess
<1>7. (Rate * e) * Scale = (Rate * Scale) * e
  BY <1>1, <1>2
<1>8. Rate * Scale \in Nat
  BY <1>2, MulNat
<1> HIDE DEF d
<1>9. (Rate * Scale) * (2 * e) <= (Rate * Scale) * d
  BY <1>1, <1>8, MulLess
<1>10. (Rate * Scale) * (2 * e) = 2 * ((Rate * Scale) * e)
  BY <1>1, <1>8
<1>11. (Rate * Scale) * e \in Nat /\ (Rate * Scale) * d \in Nat
  BY <1>1, <1>8, MulNat
<1> QED BY <1>5, <1>6, <1>7, <1>9, <1>10, <1>11 DEF d

(* The times at which the bucket let a request through, and what the bucket  *)
(* holds together with what it gave since any of them: never more than one   *)
(* full bucket and what flowed in since.                                     *)
BucketTypes ==
  /\ time \in Nat /\ lastRefill \in Nat /\ lastRefill <= time
  /\ tokens \in Nat /\ tokens <= Burst * Token
  /\ passes \in Seq(Nat) /\ \A k \in 1..Len(passes) : passes[k] <= lastRefill
Given(i) == 2 * Token * (Len(passes) - i + 1)
Earned ==
  \A i \in 1..Len(passes) :
    2 * tokens + Given(i) <= 2 * (Burst * Token) + (Rate * Scale) * (lastRefill - passes[i])
RateHeld ==
  \A j \in 1..Len(passes) : \A i \in 1..j :
    2 * Second * (j - i + 1 - Burst) <= Rate * (passes[j] - passes[i])
BucketInv == BucketTypes /\ Earned /\ RateHeld

LEMMA BucketStart == LimitsInit => BucketInv
<1>1. Burst * Token \in Nat
  BY LimitsAssumption, MulNat DEF Token
<1> QED BY <1>1, EmptySeq, SMT DEF LimitsInit, BucketInv, BucketTypes, Earned, RateHeld

(* From Earned to the rate, for the pass that has just been let through.     *)
LEMMA EarnedRate ==
  ASSUME NEW n \in Int, NEW t \in Nat, NEW d \in Nat,
         2 * t + 2 * Token * n <= 2 * (Burst * Token) + (Rate * Scale) * d
  PROVE  2 * Second * (n - Burst) <= Rate * d
<1>1. Rate \in Nat /\ Burst \in Nat /\ Second \in Nat /\ Scale \in Nat \ {0}
  BY LimitsAssumption
<1> DEFINE a == 2 * Second * (n - Burst)
           b == Rate * d
<1>2. a \in Int /\ b \in Int
  BY <1>1
<1>3. Scale * a = 2 * Token * n - 2 * (Burst * Token)
  BY <1>1 DEF Token
<1>4. Scale * b = (Rate * Scale) * d
  BY <1>1
<1>5. 2 * Token * n \in Int /\ 2 * (Burst * Token) \in Int /\ (Rate * Scale) * d \in Int
  BY <1>1 DEF Token
<1>6. Scale * a <= Scale * b
  BY <1>3, <1>4, <1>5
<1> HIDE DEF a, b
<1>7. a <= b
  BY <1>1, <1>2, <1>6, Cancel
<1> QED BY <1>7 DEF a, b

LEMMA RefilledBound ==
  ASSUME NEW jitter \in Jitters, BucketTypes
  PROVE  /\ Refilled(jitter) \in Nat
         /\ Refilled(jitter) <= Burst * Token
         /\ 2 * Refilled(jitter) <= 2 * tokens + (Rate * Scale) * (time - lastRefill)
<1> DEFINE f == Inflow(jitter)
           full == Burst * Token
<1>1. f \in Nat /\ 2 * f <= (Rate * Scale) * (time - lastRefill)
  BY InflowBound DEF BucketTypes
<1>2. full \in Nat
  BY LimitsAssumption, MulNat DEF Token
<1>3. Refilled(jitter) = Min({full, tokens + f})
  BY DEF Refilled
<1>4. (Rate * Scale) * (time - lastRefill) \in Int
  BY LimitsAssumption DEF BucketTypes
<1> HIDE DEF f, full
<1>5. tokens \in Nat
  BY DEF BucketTypes
<1>6. Min({full, tokens + f}) = IF full <= tokens + f THEN full ELSE tokens + f
  BY <1>1, <1>2, <1>5, MinOfTwo
<1> QED BY <1>1, <1>2, <1>3, <1>4, <1>5, <1>6 DEF full

LEMMA AddUp ==
  ASSUME NEW k \in Int, NEW t \in Int, NEW u \in Int, NEW T \in Int, NEW g \in Int, NEW h \in Int,
         NEW x \in Int, NEW y \in Int, NEW z \in Int, NEW f \in Int,
         2 * k + g <= 2 * f + x, 2 * t <= 2 * k + z, y = x + z,
         u = t - T, h = g + 2 * T
  PROVE  2 * u + h <= 2 * f + y
  OBVIOUS

(* The times of the passes stay, and one that is let through comes last.     *)
LEMMA BucketPass ==
  ASSUME BucketInv, NEW jitter \in Jitters, AllowToken(jitter), Passing(Refilled(jitter))
  PROVE  BucketInv'
<1> DEFINE n == Len(passes)
           t == Refilled(jitter)
           R == Rate * Scale
           full == Burst * Token
<1>1. /\ t \in Nat /\ t <= full /\ 2 * t <= 2 * tokens + R * (time - lastRefill)
  BY RefilledBound DEF BucketInv
<1>2. /\ passes' = Append(passes, time) /\ tokens' = t - Token
      /\ lastRefill' = time /\ time' = time /\ t >= Token
  BY DEF AllowToken, Passing
<1>3. /\ passes \in Seq(Nat) /\ time \in Nat /\ lastRefill \in Nat /\ lastRefill <= time
      /\ tokens \in Nat /\ \A k \in 1..n : passes[k] <= lastRefill
  BY DEF BucketInv, BucketTypes
<1>4. /\ passes' \in Seq(Nat) /\ Len(passes') = n + 1 /\ n \in Nat
      /\ \A k \in 1..n : passes'[k] = passes[k] /\ passes[k] \in Nat
      /\ passes'[n + 1] = time
  BY <1>2, <1>3
<1>5. Token \in Nat /\ R \in Nat /\ full \in Nat /\ Second \in Nat /\ Burst \in Nat /\ Rate \in Nat
  BY LimitsAssumption, MulNat DEF Token
<1> HIDE DEF n, t, R, full
<1>6. BucketTypes'
  <2>1. \A k \in 1..(n + 1) : passes'[k] <= time
    BY <1>3, <1>4
  <2>2. t - Token \in Nat /\ t - Token <= full
    BY <1>1, <1>2, <1>5
  <2>3. full' = full
    BY DEF full, Token
  <2> QED BY <1>2, <1>3, <1>4, <2>1, <2>2, <2>3 DEF BucketTypes, full, Token
<1>7. Earned'
  <2>1. ASSUME NEW i \in 1..(n + 1)
        PROVE  2 * tokens' + 2 * Token * (n + 1 - i + 1) <= 2 * full + R * (time - passes'[i])
    <3>1. CASE i = n + 1
      <4>1. 2 * Token * (n + 1 - i + 1) = 2 * Token
        BY <3>1, <1>4, <1>5
      <4>2. R * (time - passes'[i]) = 0
        BY <3>1, <1>3, <1>4, <1>5
      <4>3. 2 * (t - Token) + 2 * Token <= 2 * full + 0
        BY <1>1, <1>5
      <4>4. tokens' = t - Token
        BY <1>2
      <4> QED BY ONLY <4>1, <4>2, <4>3, <4>4
    <3>2. CASE i \in 1..n
      <4>1. 2 * tokens + Given(i) <= 2 * full + R * (lastRefill - passes[i])
        BY <3>2 DEF BucketInv, Earned, n, R, full
      <4>2. Given(i) = 2 * Token * (n - i + 1)
        BY DEF Given, n
      <4>3. 2 * Token * (n + 1 - i + 1) = 2 * Token * (n - i + 1) + 2 * Token
        BY <3>2, <1>4, <1>5
      <4>4. passes[i] \in Nat /\ passes'[i] = passes[i]
        BY <3>2, <1>4
      <4>5. R * (time - passes[i]) = R * (lastRefill - passes[i]) + R * (time - lastRefill)
        BY <4>4, <1>3, <1>5
      <4>6. /\ R * (time - passes[i]) \in Int /\ R * (lastRefill - passes[i]) \in Int
            /\ R * (time - lastRefill) \in Int /\ 2 * Token * (n - i + 1) \in Int
            /\ 2 * Token * (n + 1 - i + 1) \in Int
        BY <4>4, <1>3, <1>4, <1>5, <3>2, SMTT(60)
      <4>7. /\ tokens \in Int /\ t \in Int /\ t - Token \in Int /\ Token \in Int /\ full \in Int
        BY <1>1, <1>3, <1>5
      <4>8. 2 * tokens + 2 * Token * (n - i + 1) <= 2 * full + R * (lastRefill - passes[i])
        BY <4>1, <4>2
      <4>9. 2 * (t - Token) + 2 * Token * (n + 1 - i + 1) <= 2 * full + R * (time - passes[i])
        BY ONLY <4>3, <4>5, <4>6, <4>7, <4>8, <1>1, AddUp
      <4> QED BY <4>9, <4>4, <1>2
    <3> QED BY <3>1, <3>2, <1>4
  <2> QED BY <2>1, <1>2, <1>4 DEF Earned, Given, R, full
<1>8. RateHeld'
  <2>1. ASSUME NEW i \in 1..(n + 1)
        PROVE  2 * Second * (n + 1 - i + 1 - Burst) <= Rate * (time - passes'[i])
    <3>1. 2 * tokens' + 2 * Token * (n + 1 - i + 1) <= 2 * (Burst * Token) + (Rate * Scale) * (time - passes'[i])
      BY <1>2, <1>4, <1>7 DEF Earned, Given
    <3>2. passes'[i] \in Nat /\ passes'[i] <= time
      BY <1>3, <1>4
    <3>3. tokens' \in Nat /\ time - passes'[i] \in Nat /\ n + 1 - i + 1 \in Int
      BY <1>1, <1>2, <1>3, <1>4, <1>5, <3>2
    <3> DEFINE m == n + 1 - i + 1
               d == time - passes'[i]
               k == tokens'
    <3>4. k \in Nat /\ d \in Nat /\ m \in Int
          /\ 2 * k + 2 * Token * m <= 2 * (Burst * Token) + (Rate * Scale) * d
      BY ONLY <3>1, <3>3
    <3> HIDE DEF m, d, k
    <3>5. 2 * Second * (m - Burst) <= Rate * d
      BY ONLY <3>4, EarnedRate
    <3>6. (n + 1 - i + 1 - Burst) = m - Burst
      BY <1>4, <1>5 DEF m
    <3> QED BY <3>5, <3>6 DEF d
  <2>2. ASSUME NEW j \in 1..n, NEW i \in 1..j
        PROVE  2 * Second * (j - i + 1 - Burst) <= Rate * (passes'[j] - passes'[i])
    <3>1. 2 * Second * (j - i + 1 - Burst) <= Rate * (passes[j] - passes[i])
      BY DEF BucketInv, RateHeld, n
    <3>2. i \in 1..n
      BY <1>4
    <3> QED BY <3>1, <3>2, <1>4
  <2>3. ASSUME NEW j \in 1..(n + 1), NEW i \in 1..j
        PROVE  2 * Second * (j - i + 1 - Burst) <= Rate * (passes'[j] - passes'[i])
    <3>1. CASE j = n + 1
      BY <3>1, <2>1, <1>4
    <3>2. CASE j \in 1..n
      BY <3>2, <2>2
    <3> QED BY <3>1, <3>2, <1>4
  <2> QED BY <2>3, <1>4 DEF RateHeld
<1> QED BY <1>6, <1>7, <1>8 DEF BucketInv

LEMMA BucketRefuse ==
  ASSUME BucketInv, NEW jitter \in Jitters, AllowToken(jitter), ~Passing(Refilled(jitter))
  PROVE  BucketInv'
<1> DEFINE n == Len(passes)
           t == Refilled(jitter)
           R == Rate * Scale
           full == Burst * Token
<1>1. /\ t \in Nat /\ t <= full /\ 2 * t <= 2 * tokens + R * (time - lastRefill)
  BY RefilledBound DEF BucketInv
<1>2. /\ passes' = passes /\ tokens' = t /\ lastRefill' = time /\ time' = time
  BY DEF AllowToken
<1>3. /\ passes \in Seq(Nat) /\ time \in Nat /\ lastRefill \in Nat /\ lastRefill <= time
      /\ tokens \in Nat /\ \A k \in 1..n : passes[k] <= lastRefill /\ passes[k] \in Nat
      /\ n \in Nat
  BY DEF BucketInv, BucketTypes
<1>4. Token \in Nat /\ R \in Nat /\ full \in Nat
  BY LimitsAssumption, MulNat DEF Token
<1> HIDE DEF t, R, full
<1>5. BucketTypes'
  BY <1>1, <1>2, <1>3 DEF BucketTypes, full, Token
<1>6. Earned'
  <2>1. ASSUME NEW i \in 1..n
        PROVE  2 * tokens' + Given(i) <= 2 * full + R * (time - passes[i])
    <3>1. 2 * tokens + Given(i) <= 2 * full + R * (lastRefill - passes[i])
      BY DEF BucketInv, Earned, R, full
    <3>2. R * (time - passes[i]) = R * (lastRefill - passes[i]) + R * (time - lastRefill)
      BY <1>3, <1>4
    <3>3. /\ R * (time - passes[i]) \in Int /\ R * (lastRefill - passes[i]) \in Int
          /\ R * (time - lastRefill) \in Int /\ Given(i) \in Int
      BY <1>3, <1>4, SMTT(60) DEF Given
    <3>4. /\ tokens \in Int /\ t \in Int /\ full \in Int /\ 0 \in Int /\ t = t - 0
          /\ Given(i) = Given(i) + 2 * 0
      BY <1>1, <1>3, <1>4, <3>3
    <3>5. 2 * t + Given(i) <= 2 * full + R * (time - passes[i])
      BY ONLY <3>1, <3>2, <3>3, <3>4, <1>1, AddUp, SMTT(60)
    <3> QED BY <3>5, <1>2
  <2> QED BY <2>1, <1>2 DEF Earned, Given, R, full
<1>7. RateHeld'
  BY <1>2 DEF BucketInv, RateHeld
<1> QED BY <1>5, <1>6, <1>7 DEF BucketInv

LEMMA BucketStep == BucketInv /\ [BucketNext]_bucketVars => BucketInv'
<1> SUFFICES ASSUME BucketInv, [BucketNext]_bucketVars PROVE BucketInv'
  OBVIOUS
<1>1. CASE BucketTick
  BY <1>1 DEF BucketTick, BucketInv, BucketTypes, Earned, Given, RateHeld, Token
<1>2. ASSUME NEW jitter \in Jitters, AllowToken(jitter) PROVE BucketInv'
  BY <1>2, BucketPass, BucketRefuse
<1>3. CASE UNCHANGED bucketVars
  BY <1>3 DEF bucketVars, BucketInv, BucketTypes, Earned, Given, RateHeld, Token
<1> QED BY <1>1, <1>2, <1>3 DEF BucketNext

(* The counters of RateLimiter and DDoSProtection against what they let by.  *)
CountsInv ==
  /\ counts \in [Clients -> Nat] /\ connections \in [Clients -> Nat]
  /\ allowed \in [Clients -> Nat] /\ admitted \in [Clients -> Nat]
  /\ \A c \in Clients : /\ allowed[c] = counts[c] /\ counts[c] <= MaxRequests
                        /\ admitted[c] <= connections[c] /\ admitted[c] <= MaxRequests

LEMMA CountsStep == CountsInv /\ [LimitsNext]_limitVars => CountsInv'
<1> SUFFICES ASSUME CountsInv, [LimitsNext]_limitVars PROVE CountsInv'
  OBVIOUS
<1> USE LimitsAssumption
<1>1. ASSUME NEW c \in Clients, AllowRequest(c) PROVE CountsInv'
  BY <1>1 DEF AllowRequest, CountsInv
<1>2. ASSUME NEW c \in Clients, ResetClient(c) PROVE CountsInv'
  BY <1>2 DEF ResetClient, CountsInv
<1>3. ASSUME NEW c \in Clients, AllowConnection(c) PROVE CountsInv'
  <2>1. /\ connections' = [connections EXCEPT ![c] = @ + 1]
        /\ admitted' = [admitted EXCEPT ![c] = @ + (IF connections[c] + 1 <= MaxRequests THEN 1 ELSE 0)]
        /\ UNCHANGED <<counts, allowed>>
    BY <1>3 DEF AllowConnection, CountsInv
  <2> QED BY <2>1 DEF CountsInv
<1>4. CASE UNCHANGED limitVars
  BY <1>4 DEF limitVars, CountsInv
<1> QED BY <1>1, <1>2, <1>3, <1>4 DEF LimitsNext

(* Nobody gets more than the limit, and the bucket keeps its rate, for any   *)
(* rates, sizes, jitter and sequence of calls (WithinLimits).                *)
THEOREM LimitsHold == Spec => []WithinLimits
<1>1. Init => BucketInv /\ CountsInv
  BY LimitsAssumption, BucketStart DEF Init, LimitsInit, CountsInv
<1>2. BucketInv /\ CountsInv /\ [Next]_vars => BucketInv' /\ CountsInv'
  BY Projection, BucketStep, CountsStep
<1>3. BucketInv /\ CountsInv => WithinLimits
  BY DEF BucketInv, RateHeld, CountsInv, WithinLimits
<1> QED BY <1>1, <1>2, <1>3, PTL DEF Spec
-----------------------------------------------------------------------------
(* RestServer *)

Accepted_ == Cardinality(DOMAIN answers)
ServerTypes ==
  /\ socketFd \in Descriptors /\ running \in BOOLEAN
  /\ usage \in {"stopped", "started", "disorderly"}
  /\ opened \in [Descriptors -> {"free", "leaked", "listen", "client"} \X Nat]
  /\ Starts \in Nat /\ Accepted_ \in Nat
  /\ threads \in [1..Starts -> [at : {"test", "accept", "serve", "ended"},
                                on : Descriptors \cup Nat, client : Nat]]
  /\ pending \in [1..Starts -> SUBSET (1..Accepted_)]
  /\ sinceStop \in [1..Starts -> Nat]
  /\ answers = [c \in 1..Accepted_ |-> answers[c]]
  /\ requests = [c \in 1..Accepted_ |-> requests[c]]
  /\ \A t \in 1..Starts : /\ threads[t].at = "accept" => threads[t].on \in 1..Starts
                          /\ threads[t].at = "serve" => threads[t].on \in Descriptors
  /\ \A d \in Descriptors : opened[d][1] = "listen" => opened[d][2] \in 1..Starts

(* Once stopped, a thread that has answered goes no further than the test.   *)
LastAnswer ==
  ~running => \A t \in 1..Starts :
                /\ sinceStop[t] <= 1
                /\ sinceStop[t] = 1 => threads[t].at \in {"test", "ended"}

(* A connection is waiting, being served by one thread, or past that.        *)
Serving == {t \in 1..Starts : threads[t].at = "serve"}
Untouched(c) == answers[c] = {} /\ \A t \in Serving : threads[t].client # c
OneAnswer ==
  \A c \in 1..Accepted_ :
    answers[c] = {} \/ \E t \in 1..Starts : answers[c] = {<<t, Response(requests[c])>>}
ServesOwn ==
  \A t \in Serving : /\ opened[threads[t].on] = <<"client", threads[t].client>>
                     /\ threads[t].client \in 1..Accepted_
                     /\ answers[threads[t].client] = {}
ServedByOne == \A t, u \in Serving : threads[t].client = threads[u].client => t = u
OpenIsServed ==
  \A d \in Descriptors : opened[d][1] = "client" => \E t \in Serving : threads[t].on = d
WaitingUntouched == \A k \in 1..Starts : \A c \in pending[k] : Untouched(c)
WaitsOnce == \A k, l \in 1..Starts : pending[k] \cap pending[l] # {} => k = l
OneThreadEach ==
  OneAnswer /\ ServesOwn /\ ServedByOne /\ OpenIsServed /\ WaitingUntouched /\ WaitsOnce

(* What a stop that follows a start closes is no client.                     *)
StopsOwn == usage = "started" => opened[socketFd][1] \in {"listen", "leaked"}
Orderly == usage # "disorderly"

ServerInv == ServerTypes /\ LastAnswer /\ (Orderly => OneThreadEach /\ StopsOwn)

LEMMA Counted == ASSUME NEW n \in Nat PROVE Cardinality(1..n) = n
  BY FS_Interval

LEMMA PutNext ==
  ASSUME NEW f, NEW n \in Nat, DOMAIN f = 1..n, NEW v
  PROVE  /\ DOMAIN Put1(f, n + 1, v) = 1..(n + 1)
         /\ Put1(f, n + 1, v)[n + 1] = v
         /\ \A x \in 1..n : Put1(f, n + 1, v)[x] = f[x]
         /\ Put1(f, n + 1, v) = [x \in 1..(n + 1) |-> Put1(f, n + 1, v)[x]]
<1>1. 1..n \cup {n + 1} = 1..(n + 1)
  OBVIOUS
<1> QED BY <1>1 DEF Put1

LEMMA ServerStart == ServerInit => ServerInv
<1> SUFFICES ASSUME ServerInit PROVE ServerInv
  OBVIOUS
<1>1. /\ threads = <<>> /\ pending = <<>> /\ answers = <<>> /\ requests = <<>> /\ sinceStop = <<>>
      /\ socketFd \in Descriptors /\ running = FALSE /\ usage = "stopped"
      /\ opened = [d \in Descriptors |-> <<"free", 0>>]
  BY DEF ServerInit, Free
<1>2. Starts = 0 /\ Accepted_ = 0 /\ 1..0 = {}
  BY <1>1, FS_EmptySet DEF Starts, Accepted_
<1>3. <<>> = [x \in {} |-> 0] /\ \A S : <<>> \in [{} -> S]
  OBVIOUS
<1>4. ServerTypes
  <2>1. answers = [c \in 1..Accepted_ |-> answers[c]] /\ requests = [c \in 1..Accepted_ |-> requests[c]]
    BY <1>1, <1>2, <1>3
  <2>2. \A d \in Descriptors : opened[d] = <<"free", 0>>
    BY <1>1
  <2> HIDE DEF ServerInit
  <2> QED BY <1>1, <1>2, <1>3, <2>1, <2>2 DEF ServerTypes
<1> QED BY <1>1, <1>2, <1>4 DEF ServerInv, LastAnswer, OneThreadEach, StopsOwn, Serving,
     OneAnswer, ServesOwn, ServedByOne, OpenIsServed, WaitingUntouched, WaitsOnce
(* Where the threads and what waits have not moved, and no descriptor of a   *)
(* client has changed hands.                                                 *)
LEMMA SameThreads ==
  ASSUME ServerTypes, OneThreadEach, Serving' = Serving, Starts \in Nat, Starts' \in Nat,
         Starts <= Starts',
         \A t \in Serving : threads'[t] = threads[t],
         \A k \in 1..Starts : pending'[k] = pending[k],
         \A k \in 1..Starts' : k \in 1..Starts \/ pending'[k] = {},
         UNCHANGED <<answers, requests>>,
         \A e \in Descriptors :
           \/ opened'[e] = opened[e]
           \/ opened[e][1] # "client" /\ opened'[e][1] # "client"
  PROVE  OneThreadEach'
<1>1. Accepted_' = Accepted_
  BY DEF Accepted_
<1>2. \A c : Untouched(c) => Untouched(c)'
  BY DEF Untouched
<1>3. OneAnswer'
  BY <1>1 DEF OneThreadEach, OneAnswer
<1>4. ServesOwn'
  <2>1. \A t \in Serving : threads[t].on \in Descriptors
    BY DEF ServerTypes, Serving
  <2>2. ASSUME NEW t \in Serving'
        PROVE  /\ opened'[threads'[t].on] = <<"client", threads'[t].client>>
               /\ threads'[t].client \in 1..Accepted_'
               /\ answers'[threads'[t].client] = {}
    <3>1. t \in Serving /\ threads'[t] = threads[t]
      OBVIOUS
    <3>2. /\ opened[threads[t].on] = <<"client", threads[t].client>>
          /\ threads[t].client \in 1..Accepted_ /\ answers[threads[t].client] = {}
      BY <3>1 DEF OneThreadEach, ServesOwn
    <3>3. opened'[threads[t].on] = opened[threads[t].on]
      BY <2>1, <3>1, <3>2
    <3> QED BY <1>1, <3>1, <3>2, <3>3
  <2> QED BY <2>2 DEF ServesOwn
<1>5. ServedByOne'
  BY DEF OneThreadEach, ServedByOne
<1>6. OpenIsServed'
  BY DEF OneThreadEach, OpenIsServed
<1>7. WaitingUntouched'
  <2>1. ASSUME NEW k \in 1..Starts', NEW c \in pending'[k] PROVE Untouched(c)'
    <3>1. k \in 1..Starts /\ c \in pending[k]
      OBVIOUS
    <3>2. Untouched(c)
      BY <3>1 DEF OneThreadEach, WaitingUntouched
    <3> QED BY <3>2, <1>2
  <2> QED BY <2>1 DEF WaitingUntouched
<1>8. WaitsOnce'
  BY DEF OneThreadEach, WaitsOnce
<1> QED BY <1>3, <1>4, <1>5, <1>6, <1>7, <1>8 DEF OneThreadEach

LEMMA StartStep == ServerInv /\ Start => ServerInv'
<1> SUFFICES ASSUME ServerInv, Start PROVE ServerInv'
  OBVIOUS
<1> DEFINE n == Starts
           m == Accepted_
<1>1. ServerTypes /\ LastAnswer
  BY DEF ServerInv
<1>2. PICK d \in Descriptors :
        /\ opened[d] = Free /\ socketFd' = d
        /\ \/ /\ opened' = [opened EXCEPT ![d] = <<"leaked", 0>>]
              /\ UNCHANGED <<running, threads, pending, sinceStop>>
           \/ /\ opened' = [opened EXCEPT ![d] = <<"listen", n + 1>>]
              /\ running' = TRUE
              /\ threads' = Put1(threads, n + 1, [at |-> "test", on |-> 0, client |-> 0])
              /\ pending' = Put1(pending, n + 1, {})
              /\ sinceStop' = [x \in DOMAIN threads' |-> 0]
  BY DEF Start
<1>3. /\ UNCHANGED <<answers, requests>> /\ m' = m
      /\ usage' = IF usage = "disorderly" THEN usage ELSE "started"
  BY DEF Start, Accepted_
<1>4. \A e \in Descriptors : \/ opened'[e] = opened[e]
                             \/ opened[e][1] # "client" /\ opened'[e][1] # "client"
  BY <1>1, <1>2 DEF ServerTypes, Free
<1>5. CASE /\ opened' = [opened EXCEPT ![d] = <<"leaked", 0>>]
           /\ UNCHANGED <<running, threads, pending, sinceStop>>
  <2>1. n' = n /\ Serving' = Serving
    BY <1>5 DEF Starts, Serving
  <2>2. ServerTypes'
    BY <1>1, <1>2, <1>3, <1>5, <2>1 DEF ServerTypes
  <2>3. LastAnswer'
    BY <1>1, <1>5, <2>1 DEF LastAnswer
  <2>4. ASSUME Orderly' PROVE OneThreadEach' /\ StopsOwn'
    <3>1. OneThreadEach
      BY <1>3, <2>4 DEF ServerInv, Orderly
    <3>2. n \in Nat
      BY <1>1 DEF ServerTypes
    <3>3. StopsOwn'
      BY <1>1, <1>2, <1>5 DEF ServerTypes, StopsOwn
    <3> QED BY <1>1, <1>3, <1>4, <1>5, <2>1, <3>1, <3>2, <3>3, SameThreads
  <2> QED BY <2>2, <2>3, <2>4 DEF ServerInv
<1>6. CASE /\ opened' = [opened EXCEPT ![d] = <<"listen", n + 1>>]
           /\ running' = TRUE
           /\ threads' = Put1(threads, n + 1, [at |-> "test", on |-> 0, client |-> 0])
           /\ pending' = Put1(pending, n + 1, {})
           /\ sinceStop' = [x \in DOMAIN threads' |-> 0]
  <2> DEFINE new == [at |-> "test", on |-> 0, client |-> 0]
             Kinds == [at : {"test", "accept", "serve", "ended"},
                       on : Descriptors \cup Nat, client : Nat]
  <2>1. n \in Nat /\ threads \in [1..n -> Kinds] /\ pending \in [1..n -> SUBSET (1..m)]
        /\ DOMAIN threads = 1..n /\ DOMAIN pending = 1..n
    BY <1>1 DEF ServerTypes
  <2> HIDE DEF n
  <2>2. /\ DOMAIN threads' = 1..(n + 1)
        /\ \A t \in 1..n : threads'[t] = threads[t]
        /\ threads'[n + 1] = new
        /\ threads' = [x \in 1..(n + 1) |-> threads'[x]]
    BY ONLY <1>6, <2>1, PutNext
  <2>3. /\ \A t \in 1..n : pending'[t] = pending[t]
        /\ pending'[n + 1] = {}
        /\ pending' = [x \in 1..(n + 1) |-> pending'[x]]
    BY ONLY <1>6, <2>1, PutNext
  <2>4. n' = n + 1
    BY <2>1, <2>2, Counted DEF Starts, n
  <2>5. Serving' = Serving
    BY <2>1, <2>2, <2>4 DEF Serving, n
  <2>6. ServerTypes'
    <3>1. threads' \in [1..(n + 1) -> Kinds]
      <4>1. new \in Kinds
        OBVIOUS
      <4> HIDE DEF Kinds, new
      <4>2. \A t \in 1..(n + 1) : threads'[t] \in Kinds
        BY <2>1, <2>2, <4>1
      <4> QED BY <2>2, <4>2
    <3>2. pending' \in [1..(n + 1) -> SUBSET (1..m)]
      <4>1. \A t \in 1..(n + 1) : pending'[t] \in SUBSET (1..m)
        BY <2>1, <2>3
      <4> QED BY <2>3, <4>1
    <3>3. sinceStop' \in [1..(n + 1) -> Nat]
      BY <1>6, <2>2
    <3>4. \A t \in 1..(n + 1) : /\ threads'[t].at = "accept" => threads'[t].on \in 1..(n + 1)
                                /\ threads'[t].at = "serve" => threads'[t].on \in Descriptors
      <4>1. \A t \in 1..n : /\ threads[t].at = "accept" => threads[t].on \in 1..n
                            /\ threads[t].at = "serve" => threads[t].on \in Descriptors
        BY <1>1 DEF ServerTypes, n
      <4>2. \A t \in 1..(n + 1) : t \in 1..n \/ t = n + 1
        BY <2>1
      <4>3. \A x \in 1..n : x \in 1..(n + 1)
        BY <2>1
      <4> QED BY <2>2, <4>1, <4>2, <4>3
    <3>5. /\ opened' \in [Descriptors -> {"free", "leaked", "listen", "client"} \X Nat]
          /\ \A e \in Descriptors : opened'[e][1] = "listen" => opened'[e][2] \in 1..(n + 1)
      BY <1>1, <1>6, <2>1 DEF ServerTypes, n
    <3>6. /\ m \in Nat /\ usage \in {"stopped", "started", "disorderly"}
          /\ answers = [c \in 1..m |-> answers[c]] /\ requests = [c \in 1..m |-> requests[c]]
      BY <1>1 DEF ServerTypes
    <3> HIDE DEF m
    <3> QED BY <1>2, <1>3, <1>6, <2>1, <2>4, <3>1, <3>2, <3>3, <3>4, <3>5, <3>6
            DEF ServerTypes, n, m
  <2>7. LastAnswer'
    BY <1>6 DEF LastAnswer
  <2>8. ASSUME Orderly' PROVE OneThreadEach' /\ StopsOwn'
    <3>1. OneThreadEach
      BY <1>3, <2>8 DEF ServerInv, Orderly
    <3>4. StopsOwn'
      BY <1>1, <1>2, <1>6 DEF ServerTypes, StopsOwn
    <3>2. \A t \in Serving : threads'[t] = threads[t]
      BY <2>2 DEF Serving, n
    <3>3. /\ Starts \in Nat /\ Starts' \in Nat /\ Starts <= Starts'
          /\ \A k \in 1..Starts : pending'[k] = pending[k]
          /\ \A k \in 1..Starts' : k \in 1..Starts \/ pending'[k] = {}
      BY <2>1, <2>3, <2>4 DEF n
    <3> QED BY <1>1, <1>3, <1>4, <2>5, <3>1, <3>2, <3>3, <3>4, SameThreads
  <2> QED BY <2>6, <2>7, <2>8 DEF ServerInv
<1> QED BY <1>2, <1>5, <1>6
LEMMA StopStep == ServerInv /\ Stop => ServerInv'
<1> SUFFICES ASSUME ServerInv, Stop PROVE ServerInv'
  OBVIOUS
<1>1. ServerTypes
  BY DEF ServerInv
<1>2. /\ running' = FALSE /\ opened' = [opened EXCEPT ![socketFd] = Free]
      /\ usage' = IF usage = "started" THEN "stopped" ELSE "disorderly"
      /\ sinceStop' = [x \in DOMAIN sinceStop |-> 0]
      /\ UNCHANGED <<socketFd, threads, pending, answers, requests>>
      /\ Starts' = Starts /\ Accepted_' = Accepted_ /\ Serving' = Serving
  BY DEF Stop, Starts, Accepted_, Serving
<1>3. ServerTypes'
  BY <1>1, <1>2 DEF ServerTypes, Free
<1>4. LastAnswer'
  BY <1>1, <1>2 DEF LastAnswer, ServerTypes
<1>5. ASSUME Orderly' PROVE OneThreadEach' /\ StopsOwn'
  <2>1. OneThreadEach /\ opened[socketFd][1] \in {"listen", "leaked"} /\ StopsOwn'
    BY <1>2, <1>5 DEF ServerInv, Orderly, StopsOwn
  <2>2. \A e \in Descriptors : \/ opened'[e] = opened[e]
                               \/ opened[e][1] # "client" /\ opened'[e][1] # "client"
    BY <1>1, <1>2, <2>1 DEF ServerTypes, Free
  <2>3. Starts \in Nat
    BY <1>1 DEF ServerTypes
  <2> QED BY <1>1, <1>2, <2>1, <2>2, <2>3, SameThreads
<1> QED BY <1>3, <1>4, <1>5 DEF ServerInv

LEMMA ConnectStep == \A texts : ServerInv /\ Connect(texts) => ServerInv'
<1> SUFFICES ASSUME NEW texts, ServerInv, Connect(texts) PROVE ServerInv'
  OBVIOUS
<1> DEFINE n == Starts
           m == Accepted_
<1>1. ServerTypes /\ LastAnswer
  BY DEF ServerInv
<1>2. n \in Nat /\ m \in Nat /\ DOMAIN pending = 1..n /\ DOMAIN answers = 1..m /\ DOMAIN requests = 1..m
  BY <1>1 DEF ServerTypes
<1>3. PICK k \in 1..n : pending' = [pending EXCEPT ![k] = @ \cup {m + 1}]
  BY <1>2 DEF Connect, Accepted_
<1>4. /\ answers' = Put1(answers, m + 1, {}) /\ requests' = Put1(requests, m + 1, texts)
      /\ UNCHANGED <<socketFd, running, opened, threads, usage, sinceStop>>
      /\ n' = n /\ Serving' = Serving
  BY DEF Connect, Accepted_, Starts, Serving
<1> HIDE DEF n, m
<1>5. /\ DOMAIN answers' = 1..(m + 1) /\ answers'[m + 1] = {}
      /\ \A x \in 1..m : answers'[x] = answers[x]
      /\ answers' = [x \in 1..(m + 1) |-> answers'[x]]
  BY ONLY <1>2, <1>4, PutNext
<1>6. /\ \A x \in 1..m : requests'[x] = requests[x]
      /\ requests' = [x \in 1..(m + 1) |-> requests'[x]]
  BY ONLY <1>2, <1>4, PutNext
<1>7. m' = m + 1
  BY <1>2, <1>5, Counted DEF Accepted_, m
<1>8. \A x : x \in 1..(m + 1) <=> x \in 1..m \/ x = m + 1
  BY <1>2
<1>9. pending \in [1..n -> SUBSET (1..m)]
  BY <1>1 DEF ServerTypes, n, m
<1>10. ServerTypes'
  <2>1. pending' \in [1..n -> SUBSET (1..(m + 1))]
    BY <1>3, <1>8, <1>9
  <2> QED BY <1>1, <1>2, <1>4, <1>5, <1>6, <1>7, <2>1 DEF ServerTypes, n, m
<1>11. LastAnswer'
  BY <1>1, <1>4 DEF LastAnswer, n
<1>12. ASSUME Orderly' PROVE OneThreadEach' /\ StopsOwn'
  <2>1. OneThreadEach /\ StopsOwn'
    BY <1>4, <1>12 DEF ServerInv, Orderly, StopsOwn
  <2>2. \A t \in Serving : threads[t].client \in 1..m
    BY <2>1 DEF OneThreadEach, ServesOwn, m
  <2>3. \A c \in 1..m : Untouched(c) => Untouched(c)'
    BY <1>4, <1>5 DEF Untouched
  <2> PICK c0 \in Nat : c0 = m + 1
    BY <1>2
  <2>4. Untouched(c0)'
    <3>1. c0 \notin 1..m
      BY <1>2
    <3>2. answers'[c0] = {}
      BY <1>5
    <3>3. \A u \in Serving' : threads'[u].client # c0
      BY <1>4, <2>2, <3>1
    <3> QED BY <3>2, <3>3 DEF Untouched
  <2>5. OneAnswer'
    BY <1>4, <1>5, <1>6, <1>7, <1>8, <2>1 DEF OneThreadEach, OneAnswer, n, m
  <2>6. ServesOwn'
    BY <1>4, <1>5, <1>7, <1>8, <2>1, <2>2 DEF OneThreadEach, ServesOwn, m
  <2>7. ServedByOne' /\ OpenIsServed'
    BY <1>4, <2>1 DEF OneThreadEach, ServedByOne, OpenIsServed
  <2>8. WaitingUntouched'
    <3>1. ASSUME NEW l \in 1..n, NEW c \in pending'[l] PROVE Untouched(c)'
      <4>1. c \in pending[l] \/ c = c0
        BY <1>3, <1>9
      <4>2. CASE c = c0
        BY <4>2, <2>4
      <4>3. CASE c \in pending[l]
        <5>1. Untouched(c) /\ c \in 1..m
          BY <4>3, <2>1, <1>9 DEF OneThreadEach, WaitingUntouched, n
        <5> QED BY <5>1, <2>3
      <4> QED BY <4>1, <4>2, <4>3
    <3> QED BY <3>1, <1>4 DEF WaitingUntouched, n
  <2>9. WaitsOnce'
    <3>1. \A i, l \in 1..n : pending[i] \cap pending[l] # {} => i = l
      BY <2>1 DEF OneThreadEach, WaitsOnce, n
    <3>2. \A l \in 1..n : c0 \notin pending[l]
      <4>1. c0 \notin 1..m
        BY <1>2
      <4> QED BY <4>1, <1>9
    <3>3. \A l \in 1..n : pending'[l] = IF l = k THEN pending[l] \cup {c0} ELSE pending[l]
      BY <1>3, <1>9
    <3>4. \A i, l \in 1..n : pending'[i] \cap pending'[l] # {} => i = l
      <4> SUFFICES ASSUME NEW i \in 1..n, NEW l \in 1..n, NEW c \in pending'[i], c \in pending'[l]
                   PROVE  i = l
        OBVIOUS
      <4>1. CASE c = c0
        BY <4>1, <3>2, <3>3
      <4>2. CASE c # c0
        <5>1. \A j \in 1..n : \A x \in pending'[j] : x # c0 => x \in pending[j]
          BY <3>3
        <5>2. c \in pending[i] /\ c \in pending[l]
          BY <4>2, <5>1
        <5> QED BY <5>2, <3>1
      <4> QED BY <4>1, <4>2
    <3> QED BY <3>4, <1>4 DEF WaitsOnce, n
  <2> QED BY <2>1, <2>5, <2>6, <2>7, <2>8, <2>9 DEF OneThreadEach
<1> QED BY <1>10, <1>11, <1>12 DEF ServerInv
LEMMA TestStep == \A t \in DOMAIN threads : ServerInv /\ Test(t) => ServerInv'
<1> SUFFICES ASSUME NEW t \in DOMAIN threads, ServerInv, Test(t) PROVE ServerInv'
  OBVIOUS
<1> DEFINE n == Starts
<1>1. ServerTypes /\ LastAnswer
  BY DEF ServerInv
<1>2. n \in Nat /\ DOMAIN threads = 1..n /\ t \in 1..n
  BY <1>1 DEF ServerTypes
<1>3. /\ threads[t].at = "test"
      /\ UNCHANGED <<socketFd, running, opened, pending, answers, requests, usage, sinceStop>>
      /\ \/ ~running /\ threads' = [threads EXCEPT ![t] = Gone]
         \/ /\ running /\ opened[socketFd][1] = "listen"
            /\ threads' = [threads EXCEPT ![t] = [at |-> "accept", on |-> opened[socketFd][2], client |-> 0]]
  BY <1>1 DEF Test, Move, ServerTypes
<1>4. /\ n' = n /\ Accepted_' = Accepted_
      /\ \A u \in 1..n : u # t => threads'[u] = threads[u]
      /\ threads'[t].at # "serve"
  BY <1>2, <1>3 DEF Starts, Accepted_, Gone
<1>5. Serving' = Serving /\ t \notin Serving
  <2>1. ASSUME NEW u \in 1..n PROVE threads'[u].at = "serve" <=> threads[u].at = "serve"
    <3>1. CASE u = t
      <4>1. threads'[t].at # "serve"
        BY ONLY <1>4
      <4>2. threads[t].at = "test"
        BY ONLY <1>3
      <4> QED BY ONLY <3>1, <4>1, <4>2
    <3>2. CASE u # t
      <4>1. threads'[u] = threads[u]
        BY <3>2, <1>4
      <4> QED BY <4>1
    <3> QED BY <3>1, <3>2
  <2> QED BY <1>2, <1>3, <1>4, <2>1 DEF Serving
<1>6. ServerTypes'
  <2> DEFINE Kinds == [at : {"test", "accept", "serve", "ended"},
                       on : Descriptors \cup Nat, client : Nat]
  <2>1. opened[socketFd][1] = "listen" => opened[socketFd][2] \in 1..n
    BY <1>1 DEF ServerTypes
  <2>2. threads \in [1..n -> Kinds]
    BY <1>1 DEF ServerTypes
  <2>3. PICK new \in Kinds : /\ threads' = [threads EXCEPT ![t] = new]
                             /\ new.at = "accept" => new.on \in 1..n
                             /\ new.at # "serve"
    <3>1. CASE ~running
      <4>1. Gone \in Kinds /\ Gone.at = "ended"
        BY DEF Gone
      <4> QED BY <4>1, <3>1, <1>3
    <3>2. CASE running
      <4>1. [at |-> "accept", on |-> opened[socketFd][2], client |-> 0] \in Kinds
        BY <2>1, <3>2, <1>2, <1>3
      <4> QED BY <4>1, <2>1, <3>2, <1>3
    <3> QED BY <3>1, <3>2
  <2>4. threads' \in [1..n -> Kinds] /\ threads'[t] = new
    BY <2>2, <2>3, <1>2
  <2>5. \A u \in 1..n : /\ threads'[u].at = "accept" => threads'[u].on \in 1..n
                        /\ threads'[u].at = "serve" => threads'[u].on \in Descriptors
    BY <1>1, <1>4, <2>3, <2>4 DEF ServerTypes
  <2> HIDE DEF Kinds
  <2> QED BY <1>1, <1>2, <1>3, <1>4, <2>4, <2>5 DEF ServerTypes, Kinds
<1>7. LastAnswer'
  <2>1. ~running => threads'[t].at = "ended"
    BY <1>2, <1>3 DEF Gone
  <2> QED BY <1>1, <1>2, <1>3, <1>4, <2>1 DEF LastAnswer
<1>8. ASSUME Orderly' PROVE OneThreadEach' /\ StopsOwn'
  <2>1. OneThreadEach /\ StopsOwn'
    BY <1>3, <1>8 DEF ServerInv, Orderly, StopsOwn
  <2>2. \A u \in Serving : threads'[u] = threads[u]
    BY <1>4, <1>5 DEF Serving
  <2> QED BY <1>1, <1>2, <1>3, <1>4, <1>5, <2>1, <2>2, SameThreads
<1> QED BY <1>6, <1>7, <1>8 DEF ServerInv

LEMMA AcceptStep == \A t \in DOMAIN threads : ServerInv /\ Accept(t) => ServerInv'
<1> SUFFICES ASSUME NEW t \in DOMAIN threads, ServerInv, Accept(t) PROVE ServerInv'
  OBVIOUS
<1> DEFINE n == Starts
           m == Accepted_
           k == threads[t].on
<1>1. ServerTypes /\ LastAnswer
  BY DEF ServerInv
<1>2. n \in Nat /\ DOMAIN threads = 1..n /\ t \in 1..n /\ pending \in [1..n -> SUBSET (1..m)]
  BY <1>1 DEF ServerTypes
<1>3. k \in 1..n /\ threads[t].at = "accept"
  BY <1>1, <1>2 DEF Accept, ServerTypes
<1>4. PICK c \in pending[k], d \in Descriptors :
        /\ opened[d] = Free
        /\ opened' = [opened EXCEPT ![d] = <<"client", c>>]
        /\ pending' = [pending EXCEPT ![k] = @ \ {c}]
        /\ threads' = [threads EXCEPT ![t] = [at |-> "serve", on |-> d, client |-> c]]
  BY DEF Accept, Move
<1>5. /\ UNCHANGED <<socketFd, running, answers, requests, usage, sinceStop>>
      /\ n' = n /\ m' = m /\ c \in 1..m
      /\ \A u \in 1..n : u # t => threads'[u] = threads[u]
      /\ threads'[t] = [at |-> "serve", on |-> d, client |-> c]
  BY <1>2, <1>3, <1>4 DEF Accept, Starts, Accepted_
<1>6. Serving' = Serving \cup {t} /\ t \notin Serving
  BY <1>2, <1>3, <1>5 DEF Serving
<1>7. ServerTypes'
  <2> DEFINE Kinds == [at : {"test", "accept", "serve", "ended"},
                       on : Descriptors \cup Nat, client : Nat]
  <2>1. m \in Nat /\ threads \in [1..n -> Kinds]
    BY <1>1 DEF ServerTypes
  <2>2. [at |-> "serve", on |-> d, client |-> c] \in Kinds
    BY <2>1, <1>5
  <2>3. threads' \in [1..n -> Kinds]
    <3> HIDE DEF Kinds, n
    <3> QED BY <1>2, <1>4, <2>1, <2>2
  <2>4. /\ opened' \in [Descriptors -> {"free", "leaked", "listen", "client"} \X Nat]
        /\ \A e \in Descriptors : opened'[e][1] = "listen" => opened'[e][2] \in 1..n
    BY <1>1, <1>4, <1>5, <2>1 DEF ServerTypes
  <2>5. pending' \in [1..n -> SUBSET (1..m)]
    BY <1>2, <1>4
  <2>6. \A u \in 1..n : /\ threads'[u].at = "accept" => threads'[u].on \in 1..n
                        /\ threads'[u].at = "serve" => threads'[u].on \in Descriptors
    <3>1. \A u \in 1..n : /\ threads[u].at = "accept" => threads[u].on \in 1..n
                          /\ threads[u].at = "serve" => threads[u].on \in Descriptors
      BY <1>1 DEF ServerTypes
    <3> SUFFICES ASSUME NEW u \in 1..n
                 PROVE  /\ threads'[u].at = "accept" => threads'[u].on \in 1..n
                        /\ threads'[u].at = "serve" => threads'[u].on \in Descriptors
      OBVIOUS
    <3>2. CASE u = t
      BY <3>2, <1>5
    <3>3. CASE u # t
      <4>1. threads'[u] = threads[u]
        BY <3>3, <1>5
      <4> QED BY <3>1, <4>1
    <3> QED BY <3>2, <3>3
  <2> HIDE DEF Kinds
  <2> QED BY <1>1, <1>5, <2>3, <2>4, <2>5, <2>6 DEF ServerTypes, Kinds
<1>8. LastAnswer'
  BY <1>1, <1>2, <1>3, <1>5 DEF LastAnswer, ServerTypes
<1>9. ASSUME Orderly' PROVE OneThreadEach' /\ StopsOwn'
  <2>1. OneThreadEach
    BY <1>5, <1>9 DEF ServerInv, Orderly
  <2>12. StopsOwn'
    <3>1. StopsOwn
      BY <1>5, <1>9 DEF ServerInv, Orderly
    <3> QED BY <1>1, <1>4, <1>5, <3>1 DEF StopsOwn, ServerTypes, Free
  <2>2. Untouched(c)
    BY <1>3, <2>1 DEF OneThreadEach, WaitingUntouched
  <2>3. \A u \in Serving : threads'[u] = threads[u] /\ threads[u].on \in Descriptors /\ threads[u].on # d
    <3>1. \A u \in Serving : opened[threads[u].on][1] = "client"
      BY <2>1 DEF OneThreadEach, ServesOwn
    <3>2. \A u \in Serving : threads[u].on \in Descriptors
      BY <1>1 DEF ServerTypes, Serving
    <3> QED BY <1>4, <1>5, <1>6, <3>1, <3>2 DEF Serving, Free
  <2>4. \A e \in Descriptors : opened'[e] = IF e = d THEN <<"client", c>> ELSE opened[e]
    BY <1>1, <1>4 DEF ServerTypes
  <2>5. OneAnswer'
    BY <1>5, <2>1 DEF OneThreadEach, OneAnswer
  <2>6. ServesOwn'
    <3>1. ASSUME NEW u \in Serving'
          PROVE  /\ opened'[threads'[u].on] = <<"client", threads'[u].client>>
                 /\ threads'[u].client \in 1..m /\ answers'[threads'[u].client] = {}
      <4>1. CASE u = t
        BY <4>1, <1>5, <2>2, <2>4 DEF Untouched
      <4>2. CASE u \in Serving
        BY <4>2, <1>5, <2>1, <2>3, <2>4 DEF OneThreadEach, ServesOwn
      <4> QED BY <4>1, <4>2, <1>6
    <3> QED BY <3>1, <1>5 DEF ServesOwn
  <2>7. ServedByOne'
    BY <1>5, <1>6, <2>1, <2>2, <2>3 DEF OneThreadEach, ServedByOne, Untouched
  <2>8. OpenIsServed'
    BY <1>5, <1>6, <2>1, <2>3, <2>4 DEF OneThreadEach, OpenIsServed
  <2>9. \A l \in 1..n : pending'[l] = IF l = k THEN pending[l] \ {c} ELSE pending[l]
    BY <1>2, <1>4
  <2>10. WaitingUntouched'
    <3>1. ASSUME NEW l \in 1..n, NEW x \in pending'[l] PROVE Untouched(x)'
      <4>1. x \in pending[l] /\ x # c
        BY <1>3, <2>1, <2>9 DEF OneThreadEach, WaitsOnce
      <4>2. Untouched(x)
        BY <4>1, <2>1 DEF OneThreadEach, WaitingUntouched
      <4> QED BY <4>1, <4>2, <1>5, <1>6, <2>3 DEF Untouched
    <3> QED BY <3>1, <1>5 DEF WaitingUntouched
  <2>11. WaitsOnce'
    BY <1>5, <2>1, <2>9 DEF OneThreadEach, WaitsOnce
  <2> QED BY <2>5, <2>6, <2>7, <2>8, <2>10, <2>11, <2>12 DEF OneThreadEach
<1> QED BY <1>7, <1>8, <1>9 DEF ServerInv

LEMMA ServeStep == \A t \in DOMAIN threads : ServerInv /\ Serve(t) => ServerInv'
<1> SUFFICES ASSUME NEW t \in DOMAIN threads, ServerInv, Serve(t) PROVE ServerInv'
  OBVIOUS
<1> DEFINE n == Starts
           m == Accepted_
           d == threads[t].on
           c == opened[d][2]
<1>1. ServerTypes /\ LastAnswer
  BY DEF ServerInv
<1>2. n \in Nat /\ DOMAIN threads = 1..n /\ t \in 1..n
  BY <1>1 DEF ServerTypes
<1>3. /\ threads[t].at = "serve" /\ d \in Descriptors
      /\ \/ answers' = [answers EXCEPT ![c] = @ \cup {<<t, Response(requests[c])>>}]
         \/ answers' = answers
      /\ opened' = [opened EXCEPT ![d] = Free]
      /\ sinceStop' = [sinceStop EXCEPT ![t] = @ + 1]
      /\ threads' = [threads EXCEPT ![t] = [at |-> "test", on |-> 0, client |-> 0]]
      /\ UNCHANGED <<socketFd, running, pending, requests, usage>>
  BY <1>1, <1>2 DEF Serve, Move, ServerTypes
<1>4. /\ n' = n /\ m' = m
      /\ \A u \in 1..n : u # t => threads'[u] = threads[u]
      /\ threads'[t] = [at |-> "test", on |-> 0, client |-> 0]
  BY <1>2, <1>3 DEF Starts, Accepted_
<1>5. Serving' = Serving \ {t} /\ t \in Serving
  BY <1>2, <1>3, <1>4 DEF Serving
<1>6. ServerTypes'
  <2>1. answers' = [x \in 1..m |-> answers'[x]]
    BY <1>1, <1>3 DEF ServerTypes
  <2>2. /\ socketFd' \in Descriptors /\ running' \in BOOLEAN /\ usage' \in {"stopped", "started", "disorderly"}
        /\ n' \in Nat /\ m' \in Nat /\ pending' \in [1..n' -> SUBSET (1..m')]
        /\ requests' = [x \in 1..m' |-> requests'[x]]
    BY <1>1, <1>3, <1>4 DEF ServerTypes
  <2>6. sinceStop' \in [1..n' -> Nat]
    <3>1. sinceStop \in [1..n -> Nat]
      BY <1>1 DEF ServerTypes
    <3> QED BY <1>2, <1>3, <1>4, <3>1
  <2>3. /\ opened' \in [Descriptors -> {"free", "leaked", "listen", "client"} \X Nat]
        /\ \A e \in Descriptors : opened'[e][1] = "listen" => opened'[e][2] \in 1..n'
    BY <1>1, <1>3, <1>4 DEF ServerTypes, Free
  <2>4. threads' \in [1..n' -> [at : {"test", "accept", "serve", "ended"},
                                on : Descriptors \cup Nat, client : Nat]]
    BY <1>1, <1>2, <1>3, <1>4 DEF ServerTypes
  <2>5. \A u \in 1..n' : /\ threads'[u].at = "accept" => threads'[u].on \in 1..n'
                         /\ threads'[u].at = "serve" => threads'[u].on \in Descriptors
    <3>1. \A u \in 1..n : /\ threads[u].at = "accept" => threads[u].on \in 1..n
                          /\ threads[u].at = "serve" => threads[u].on \in Descriptors
      BY <1>1 DEF ServerTypes
    <3>2. ASSUME NEW u \in 1..n
          PROVE  /\ threads'[u].at = "accept" => threads'[u].on \in 1..n
                 /\ threads'[u].at = "serve" => threads'[u].on \in Descriptors
      <4>1. CASE u = t
        BY <1>4, <4>1
      <4>2. CASE u # t
        BY <1>4, <3>1, <4>2
      <4> QED BY <4>1, <4>2
    <3> QED BY <1>4, <3>2
  <2> QED BY <1>4, <2>1, <2>2, <2>3, <2>4, <2>5, <2>6 DEF ServerTypes
<1>7. LastAnswer'
  <2> SUFFICES ASSUME ~running', NEW u \in 1..n
               PROVE  /\ sinceStop'[u] <= 1
                      /\ sinceStop'[u] = 1 => threads'[u].at \in {"test", "ended"}
    BY <1>4 DEF LastAnswer
  <2>1. /\ sinceStop \in [1..n -> Nat] /\ sinceStop[u] <= 1
        /\ sinceStop[u] = 1 => threads[u].at \in {"test", "ended"}
    BY <1>1, <1>3 DEF LastAnswer, ServerTypes
  <2>2. CASE u = t
    <3>1. sinceStop[t] = 0 /\ sinceStop'[t] = sinceStop[t] + 1
      BY <1>2, <1>3, <2>1, <2>2
    <3> QED BY <1>4, <2>2, <3>1
  <2>3. CASE u # t
    <3>1. sinceStop'[u] = sinceStop[u] /\ threads'[u] = threads[u]
      BY <1>2, <1>3, <1>4, <2>1, <2>3
    <3> QED BY <2>1, <3>1
  <2> QED BY <2>2, <2>3
<1>8. ASSUME Orderly' PROVE OneThreadEach' /\ StopsOwn'
  <2>1. OneThreadEach
    BY <1>3, <1>8 DEF ServerInv, Orderly
  <2>2. opened[d] = <<"client", c>> /\ threads[t].client = c /\ c \in 1..m /\ answers[c] = {}
    BY <1>5, <2>1 DEF OneThreadEach, ServesOwn
  <2>3. \A u \in Serving : u # t =>
          threads'[u] = threads[u] /\ threads[u].client # c /\ threads[u].on # d
          /\ threads[u].on \in Descriptors
    <3>1. \A u \in Serving : u # t => threads[u].client # c
      BY <1>5, <2>1, <2>2 DEF OneThreadEach, ServedByOne
    <3>2. \A u \in Serving : opened[threads[u].on][2] = threads[u].client
      BY <2>1 DEF OneThreadEach, ServesOwn
    <3>3. \A u \in Serving : threads[u].on \in Descriptors /\ u \in 1..n
      BY <1>1 DEF ServerTypes, Serving
    <3> QED BY <1>4, <3>1, <3>2, <3>3
  <2>4. \A e \in Descriptors : opened'[e] = IF e = d THEN Free ELSE opened[e]
    BY <1>1, <1>3 DEF ServerTypes
  <2>5. /\ \A x \in 1..m : x # c => answers'[x] = answers[x]
        /\ answers'[c] \in {{}, {<<t, Response(requests[c])>>}}
    BY <1>1, <1>3, <2>2 DEF ServerTypes
  <2> HIDE DEF c, d
  <2>6. OneAnswer'
    <3>1. ASSUME NEW x \in 1..m
          PROVE  answers'[x] = {} \/ \E u \in 1..n : answers'[x] = {<<u, Response(requests[x])>>}
      <4>1. CASE x = c
        BY <1>2, <2>5, <4>1
      <4>2. CASE x # c
        <5>1. answers'[x] = answers[x]
          BY <2>5, <4>2
        <5>2. OneAnswer
          BY <2>1 DEF OneThreadEach
        <5> QED BY <5>1, <5>2 DEF OneAnswer
      <4> QED BY <4>1, <4>2
    <3>2. requests' = requests /\ n' = n /\ m' = m
      BY <1>3, <1>4
    <3> QED BY <3>1, <3>2 DEF OneAnswer
  <2>7. ServesOwn'
    <3>1. ASSUME NEW u \in Serving, u # t
          PROVE  /\ opened'[threads'[u].on] = <<"client", threads'[u].client>>
                 /\ threads'[u].client \in 1..m /\ answers'[threads'[u].client] = {}
      <4>1. /\ opened[threads[u].on] = <<"client", threads[u].client>>
            /\ threads[u].client \in 1..m /\ answers[threads[u].client] = {}
        BY <3>1, <2>1 DEF OneThreadEach, ServesOwn
      <4>2. /\ threads'[u] = threads[u] /\ threads[u].client # c
            /\ threads[u].on # d /\ threads[u].on \in Descriptors
        BY <3>1, <2>3
      <4>3. opened'[threads[u].on] = opened[threads[u].on]
        BY <4>2, <2>4
      <4>4. answers'[threads[u].client] = answers[threads[u].client]
        BY <4>1, <4>2, <2>5
      <4> QED BY <4>1, <4>2, <4>3, <4>4
    <3> QED BY <3>1, <1>4, <1>5 DEF ServesOwn
  <2>8. ServedByOne'
    BY <1>5, <2>1, <2>3 DEF OneThreadEach, ServedByOne
  <2>9. OpenIsServed'
    <3>1. ASSUME NEW e \in Descriptors, opened'[e][1] = "client"
          PROVE  \E u \in Serving' : threads'[u].on = e
      <4>1. e # d /\ opened[e][1] = "client"
        BY <3>1, <2>4 DEF Free
      <4>2. PICK u \in Serving : threads[u].on = e
        BY <4>1, <2>1 DEF OneThreadEach, OpenIsServed
      <4>3. u # t
        BY <4>1, <4>2 DEF d
      <4> QED BY <4>2, <4>3, <1>5, <2>3
    <3> QED BY <3>1 DEF OpenIsServed
  <2>10. WaitingUntouched'
    <3>1. ASSUME NEW l \in 1..n, NEW x \in pending[l] PROVE Untouched(x)'
      <4>1. Untouched(x) /\ x \in 1..m
        BY <1>1, <2>1 DEF OneThreadEach, WaitingUntouched, ServerTypes
      <4>2. x # c
        BY <4>1, <1>5, <2>2 DEF Untouched
      <4> QED BY <4>1, <4>2, <1>5, <2>3, <2>5 DEF Untouched
    <3> QED BY <3>1, <1>3, <1>4 DEF WaitingUntouched
  <2>11. WaitsOnce'
    BY <1>3, <1>4, <2>1 DEF OneThreadEach, WaitsOnce
  <2>12. StopsOwn'
    <3>1. StopsOwn
      BY <1>3, <1>8 DEF ServerInv, Orderly
    <3> QED BY <1>1, <1>3, <2>2, <2>4, <3>1 DEF StopsOwn, ServerTypes
  <2> QED BY <2>6, <2>7, <2>8, <2>9, <2>10, <2>11, <2>12 DEF OneThreadEach
<1> QED BY <1>6, <1>7, <1>8 DEF ServerInv

LEMMA ServerStep == ServerInv /\ [ServerNext]_serverVars => ServerInv'
<1> SUFFICES ASSUME ServerInv, [ServerNext]_serverVars PROVE ServerInv'
  OBVIOUS
<1>1. CASE UNCHANGED serverVars
  <2>1. UNCHANGED <<socketFd, running, opened, threads, pending, answers, requests, usage, sinceStop>>
    BY <1>1 DEF serverVars
  <2>2. Starts' = Starts /\ Accepted_' = Accepted_ /\ Serving' = Serving
    BY <2>1 DEF Starts, Accepted_, Serving
  <2>3. ServerTypes' /\ LastAnswer'
    BY <2>1, <2>2 DEF ServerInv, ServerTypes, LastAnswer
  <2>4. ASSUME Orderly' PROVE OneThreadEach' /\ StopsOwn'
    <3>1. ServerTypes /\ OneThreadEach /\ Starts \in Nat /\ StopsOwn'
      BY <2>1, <2>4 DEF ServerInv, ServerTypes, Orderly, StopsOwn
    <3> QED BY <2>1, <2>2, <3>1, SameThreads
  <2> QED BY <2>3, <2>4 DEF ServerInv
<1> QED BY <1>1, StartStep, StopStep, ConnectStep, TestStep, AcceptStep, ServeStep DEF ServerNext

(* AnsweredOnce for any number of starts, stops, connections and             *)
(* descriptors: while every stop follows a start of its own, a stop closes   *)
(* the server's own socket, a connection gets at most one answer, the one    *)
(* to its request, and is open exactly while a thread serves it; and after   *)
(* any stop each thread answers at most once.                                *)
THEOREM OwnAnswers == Spec => []AnsweredOnce
<1>1. Init => ServerInv
  BY ServerStart DEF Init
<1>2. ServerInv /\ [Next]_vars => ServerInv'
  BY Projection, ServerStep
<1>3. ServerInv => AnsweredOnce
  <2> SUFFICES ASSUME ServerInv PROVE AnsweredOnce
    OBVIOUS
  <2>1. /\ DOMAIN threads = 1..Starts /\ DOMAIN answers = 1..Accepted_
        /\ \A t \in DOMAIN threads : threads[t].at = "serve" <=> t \in Serving
    BY DEF ServerInv, ServerTypes, Serving
  <2>2. ASSUME Orderly, NEW c \in DOMAIN answers
        PROVE  /\ Cardinality(answers[c]) <= 1
               /\ \A a \in answers[c] : a[2] = Response(requests[c])
    <3>1. answers[c] = {} \/ \E t \in 1..Starts : answers[c] = {<<t, Response(requests[c])>>}
      BY <2>1, <2>2 DEF ServerInv, OneThreadEach, OneAnswer
    <3>2. CASE answers[c] = {}
      BY <3>2, FS_EmptySet
    <3>3. ASSUME NEW t, answers[c] = {<<t, Response(requests[c])>>}
          PROVE  /\ Cardinality(answers[c]) <= 1
                 /\ \A a \in answers[c] : a[2] = Response(requests[c])
      <4>1. PICK a : a = <<t, Response(requests[c])>>
        OBVIOUS
      <4>2. answers[c] = {a} /\ Cardinality({a}) = 1
        BY ONLY <3>3, <4>1, FS_Singleton
      <4>3. a[2] = Response(requests[c])
        BY <4>1
      <4> QED BY <4>2, <4>3
    <3> QED BY <3>1, <3>2, <3>3
  <2>3. ASSUME Orderly
        PROVE  /\ \A t \in DOMAIN threads : threads[t].at = "serve" =>
                    /\ opened[threads[t].on] = <<"client", threads[t].client>>
                    /\ answers[threads[t].client] = {}
               /\ \A d \in Descriptors : opened[d][1] = "client" =>
                    \E t \in DOMAIN threads : threads[t].at = "serve" /\ threads[t].on = d
    BY <2>1, <2>3 DEF ServerInv, OneThreadEach, ServesOwn, OpenIsServed, Serving
  <2>4. ~running => \A t \in DOMAIN threads : sinceStop[t] <= 1
    BY <2>1 DEF ServerInv, LastAnswer
  <2>5. usage = "started" => opened[socketFd][1] \in {"listen", "leaked"}
    BY DEF ServerInv, Orderly, StopsOwn
  <2> QED BY <2>2, <2>3, <2>4, <2>5 DEF AnsweredOnce, Orderly
<1> QED BY <1>1, <1>2, <1>3, PTL DEF Spec
-----------------------------------------------------------------------------
(* ServingQueues: the priorities *)

(* Nobody who was waiting when a request was served goes before it.          *)
Prioritized == [id : 1..arrived, priority : Priorities, arrival : Nat]
PrioInv ==
  /\ now \in Nat /\ arrived \in Nat
  /\ waiting \in SUBSET Prioritized /\ IsFiniteSet(waiting)
  /\ served \in Seq([r : Prioritized, seen : 0..arrived])
  /\ \A a, b \in waiting : a.id = b.id => a = b
  /\ \A i \in 1..Len(served) : \A o \in waiting :
       /\ served[i].r.id # o.id
       /\ Before(o, served[i].r) => o.id > served[i].seen
  /\ ServedByPriority

LEMMA PrioStep == PrioInv /\ [PriorityNext]_<<prioVars, clock>> => PrioInv'
<1> SUFFICES ASSUME PrioInv, [PriorityNext]_<<prioVars, clock>> PROVE PrioInv'
  OBVIOUS
<1>1. CASE Tick /\ UNCHANGED prioVars
  <2>1. now' = now + 1 /\ arrived' = arrived /\ waiting' = waiting /\ served' = served
    BY <1>1 DEF Tick, prioVars
  <2>2. now' \in Nat
    BY <2>1 DEF PrioInv
  <2>3. Prioritized' = Prioritized
    BY <2>1 DEF Prioritized
  <2>4. ServedByPriority'
    BY <2>1 DEF PrioInv, ServedByPriority
  <2> QED BY <2>1, <2>2, <2>3, <2>4 DEF PrioInv
<1>2. CASE UNCHANGED <<prioVars, clock>>
  BY <1>2 DEF clock, prioVars, PrioInv, Prioritized, ServedByPriority, Before
<1>3. ASSUME NEW p \in Priorities, AddPrioritized(p) PROVE PrioInv'
  <2> DEFINE new == [id |-> arrived + 1, priority |-> p, arrival |-> now]
             n == Len(served)
  <2>1. /\ waiting' = waiting \cup {new} /\ arrived' = arrived + 1
        /\ UNCHANGED <<served, now>>
    BY <1>3 DEF AddPrioritized, Arrive
  <2>2. /\ now \in Nat /\ arrived \in Nat /\ waiting \in SUBSET Prioritized /\ IsFiniteSet(waiting)
        /\ served \in Seq([r : Prioritized, seen : 0..arrived])
    BY DEF PrioInv
  <2>3. Prioritized \subseteq Prioritized' /\ new \in Prioritized'
    BY <2>1, <2>2 DEF Prioritized
  <2>4. \A o \in waiting : o.id \in 1..arrived
    BY <2>2 DEF Prioritized
  <2>5. new \notin waiting /\ new.id = arrived + 1
    BY <2>2, <2>4
  <2>6. ASSUME NEW i \in 1..n
        PROVE  served[i].r.id \in 1..arrived /\ served[i].seen \in 0..arrived
    <3>1. served[i] \in [r : Prioritized, seen : 0..arrived]
      BY <2>2, ElementOfSeq
    <3> QED BY <3>1 DEF Prioritized
  <2>7. served' \in Seq([r : Prioritized', seen : 0..arrived'])
    <3>1. [r : Prioritized, seen : 0..arrived] \subseteq [r : Prioritized', seen : 0..arrived']
      BY <2>1, <2>2, <2>3
    <3> DEFINE A == [r : Prioritized, seen : 0..arrived]
               B == [r : Prioritized', seen : 0..arrived']
    <3>2. served \in Seq(A) /\ A \subseteq B
      BY <2>2, <3>1
    <3> HIDE DEF A, B
    <3>3. served \in Seq(B)
      BY ONLY <3>2, SeqMonotonic
    <3> QED BY <3>3, <2>1 DEF B
  <2> HIDE DEF new
  <2>8. IsFiniteSet(waiting') /\ Cardinality(waiting') = Cardinality(waiting) + 1
    BY <2>1, <2>2, <2>5, FS_AddElement
  <2>9. \A a, b \in waiting' : a.id = b.id => a = b
    BY <2>1, <2>2, <2>4, <2>5 DEF PrioInv
  <2>10. \A i \in 1..n : \A o \in waiting' :
           /\ served[i].r.id # o.id
           /\ Before(o, served[i].r) => o.id > served[i].seen
    <3> SUFFICES ASSUME NEW i \in 1..n, NEW o \in waiting'
                 PROVE  /\ served[i].r.id # o.id
                        /\ Before(o, served[i].r) => o.id > served[i].seen
      OBVIOUS
    <3>1. CASE o \in waiting
      BY <3>1 DEF PrioInv
    <3>2. CASE o = new
      BY <3>2, <2>2, <2>5, <2>6
    <3> QED BY <2>1, <3>1, <3>2
  <2>11. ServedByPriority'
    <3>1. n + Cardinality(waiting') = arrived'
      <4>1. Cardinality(waiting) \in Nat /\ n \in Nat
        BY <2>2, FS_CardinalityType
      <4>2. n + Cardinality(waiting) = arrived
        BY DEF PrioInv, ServedByPriority
      <4> QED BY <4>1, <4>2, <2>1, <2>2, <2>8
    <3> QED BY <2>1, <3>1 DEF PrioInv, ServedByPriority, Before
  <2>12. now' \in Nat /\ arrived' \in Nat /\ waiting' \in SUBSET Prioritized'
    BY <2>1, <2>2, <2>3
  <2> QED BY <2>1, <2>7, <2>8, <2>9, <2>10, <2>11, <2>12 DEF PrioInv, Before
<1>4. CASE GetNext
  <2> DEFINE n == Len(served)
  <2>1. PICK r \in waiting :
          /\ \A o \in waiting : ~Before(o, r)
          /\ waiting' = waiting \ {r}
          /\ served' = Append(served, [r |-> r, seen |-> arrived])
          /\ now' = now /\ arrived' = arrived
    BY <1>4 DEF GetNext, clock
  <2>2. /\ now \in Nat /\ arrived \in Nat /\ waiting \in SUBSET Prioritized /\ IsFiniteSet(waiting)
        /\ served \in Seq([r : Prioritized, seen : 0..arrived])
    BY DEF PrioInv
  <2>3. Prioritized' = Prioritized
    BY <2>1 DEF Prioritized
  <2>4. [r |-> r, seen |-> arrived] \in [r : Prioritized, seen : 0..arrived]
    BY <2>2
  <2>5. /\ served' \in Seq([r : Prioritized, seen : 0..arrived]) /\ Len(served') = n + 1
        /\ n \in Nat /\ \A i \in 1..n : served'[i] = served[i]
        /\ served'[n + 1] = [r |-> r, seen |-> arrived]
    BY <2>1, <2>2, <2>4
  <2>6. IsFiniteSet(waiting') /\ Cardinality(waiting') = Cardinality(waiting) - 1
    BY <2>1, <2>2, FS_RemoveElement
  <2>7. \A i \in 1..(n + 1) : \A o \in waiting' :
          /\ served'[i].r.id # o.id
          /\ Before(o, served'[i].r) => o.id > served'[i].seen
    <3> SUFFICES ASSUME NEW i \in 1..(n + 1), NEW o \in waiting'
                 PROVE  /\ served'[i].r.id # o.id
                        /\ Before(o, served'[i].r) => o.id > served'[i].seen
      OBVIOUS
    <3>1. o \in waiting /\ o # r
      BY <2>1
    <3>2. CASE i \in 1..n
      <4>1. served[i].r.id # o.id /\ (Before(o, served[i].r) => o.id > served[i].seen)
        BY <3>1, <3>2 DEF PrioInv
      <4> QED BY <3>2, <4>1, <2>5
    <3>3. CASE i = n + 1
      <4>1. served'[i].r = r
        BY <3>3, <2>5
      <4>2. r.id # o.id
        BY <3>1 DEF PrioInv
      <4> QED BY <4>1, <4>2, <3>1, <2>1
    <3> QED BY <3>2, <3>3, <2>5
  <2>8. ServedByPriority'
    <3>1. (n + 1) + Cardinality(waiting') = arrived'
      <4>1. Cardinality(waiting) \in Nat
        BY <2>2, FS_CardinalityType
      <4>2. n + Cardinality(waiting) = arrived
        BY DEF PrioInv, ServedByPriority
      <4> QED BY <4>1, <4>2, <2>1, <2>2, <2>5, <2>6
    <3>2. ASSUME NEW j \in 1..(n + 1), NEW i \in 1..(j - 1)
          PROVE  /\ served'[i].r.id # served'[j].r.id
                 /\ Before(served'[j].r, served'[i].r) => served'[j].r.id > served'[i].seen
      <4>1. i \in 1..n /\ served'[i] = served[i]
        BY <2>5
      <4>2. CASE j = n + 1
        <5>1. served'[j].r = r
          BY <4>2, <2>5
        <5>2. served[i].r.id # r.id /\ (Before(r, served[i].r) => r.id > served[i].seen)
          BY <4>1 DEF PrioInv
        <5> QED BY <4>1, <5>1, <5>2
      <4>3. CASE j \in 1..n
        <5>1. served'[j] = served[j]
          BY <4>3, <2>5
        <5>2. /\ served[i].r.id # served[j].r.id
              /\ Before(served[j].r, served[i].r) => served[j].r.id > served[i].seen
          BY <4>3 DEF PrioInv, ServedByPriority
        <5> QED BY <4>1, <5>1, <5>2
      <4> QED BY <4>2, <4>3, <2>5
    <3> QED BY <3>1, <3>2, <2>5 DEF ServedByPriority, Before
  <2>9. waiting' \in SUBSET Prioritized /\ \A a, b \in waiting' : a.id = b.id => a = b
    BY <2>1, <2>2 DEF PrioInv
  <2> QED BY <2>1, <2>2, <2>3, <2>5, <2>6, <2>7, <2>8, <2>9 DEF PrioInv, Before
<1> QED BY <1>1, <1>2, <1>3, <1>4 DEF PriorityNext
-----------------------------------------------------------------------------
(* ServingQueues: the batches *)

(* Every nonempty set of naturals has a least element.                       *)
LEMMA LeastNatural ==
  ASSUME NEW T, T \subseteq Nat, T # {}
  PROVE  \E x \in T : \A y \in T : x <= y
<1> DEFINE Smaller == OpToRel(<, Nat)
<1>1. \A x, y \in Nat : <<y, x>> \in Smaller <=> y < x
  BY DEF OpToRel
<1>2. IsWellFoundedOn(Smaller, Nat)
  BY NatLessThanWellFounded
<1> HIDE DEF Smaller
<1>3. PICK x \in T : \A y \in T : ~(<<y, x>> \in Smaller)
  BY <1>2, WFMin, Zenon
<1>4. x \in Nat /\ \A y \in T : y \in Nat /\ ~(y < x)
  BY <1>1, <1>3
<1> QED BY <1>3, <1>4

(* With the set of counterexamples in the place of T this is induction.      *)
LEMMA Induction ==
  ASSUME NEW T, 0 \in T, \A n \in Nat : n \in T => n + 1 \in T
  PROVE  Nat \subseteq T
<1> SUFFICES ASSUME Nat \ T # {} PROVE FALSE
  OBVIOUS
<1> DEFINE Rest == Nat \ T
<1>1. Rest \subseteq Nat /\ Rest # {}
  OBVIOUS
<1>2. PICK x \in Rest : \A y \in Rest : x <= y
  <2> HIDE DEF Rest
  <2> QED BY <1>1, LeastNatural
<1>3. x \in Nat /\ x # 0 /\ x - 1 \in Nat /\ (x - 1) + 1 = x
  BY <1>2
<1>4. x - 1 \in T
  <2>1. ~(x <= x - 1)
    BY <1>3
  <2> QED BY <1>2, <1>3, <2>1
<1> QED BY <1>2, <1>3, <1>4

(* The defining equation of Scan holds: a solution grows by one request.     *)
Nobody == [batch |-> <<>>, rest |-> <<>>]
Scans(f, n) == f = [k \in 0..n |-> IF k = 0 THEN Nobody ELSE Scanned(queue[k], f[k - 1])]

LEMMA ScanIs ==
  ASSUME Len(queue) \in Nat
  PROVE  /\ Scan[0] = Nobody
         /\ \A k \in 1..Len(queue) : Scan[k] = Scanned(queue[k], Scan[k - 1])
<1> DEFINE T == {n \in Nat : \E f : Scans(f, n)}
<1>1. 0 \in T
  <2>1. Scans([k \in 0..0 |-> Nobody], 0)
    BY DEF Scans
  <2> QED BY <2>1
<1>2. ASSUME NEW n \in Nat, n \in T PROVE n + 1 \in T
  <2>1. PICK f : Scans(f, n)
    BY <1>2
  <2> DEFINE g == [k \in 0..(n + 1) |-> IF k = n + 1 THEN Scanned(queue[k], f[n]) ELSE f[k]]
  <2>2. ASSUME NEW k \in 0..(n + 1)
        PROVE  g[k] = IF k = 0 THEN Nobody ELSE Scanned(queue[k], g[k - 1])
    <3>1. CASE k = n + 1
      <4>1. k # 0 /\ k - 1 = n /\ n \in 0..(n + 1) /\ n # n + 1
        BY <3>1
      <4>2. g[k] = Scanned(queue[k], f[n]) /\ g[n] = f[n]
        BY <3>1, <4>1
      <4> QED BY <4>1, <4>2
    <3>2. CASE k # n + 1
      <4>1. k \in 0..n /\ g[k] = f[k]
        BY <3>2
      <4>2. f[k] = IF k = 0 THEN Nobody ELSE Scanned(queue[k], f[k - 1])
        BY <2>1, <4>1 DEF Scans
      <4>3. k # 0 => k - 1 \in 0..(n + 1) /\ k - 1 # n + 1 /\ g[k - 1] = f[k - 1]
        BY <4>1
      <4> QED BY <4>1, <4>2, <4>3
    <3> QED BY <3>1, <3>2
  <2>3. g = [k \in 0..(n + 1) |-> g[k]]
    OBVIOUS
  <2> HIDE DEF g
  <2>4. Scans(g, n + 1)
    BY <2>2, <2>3 DEF Scans
  <2> QED BY <2>4
<1> HIDE DEF T
<1>3. Nat \subseteq T
  BY <1>1, <1>2, Induction
<1>4. \E f : Scans(f, Len(queue))
  BY <1>3 DEF T
<1>5. Scan = CHOOSE f : Scans(f, Len(queue))
  BY DEF Scan, Scans, Nobody
<1>6. Scans(Scan, Len(queue))
  BY <1>4, <1>5
<1> HIDE DEF Scan
<1>7. \A k \in 0..Len(queue) : Scan[k] = IF k = 0 THEN Nobody ELSE Scanned(queue[k], Scan[k - 1])
  BY <1>6 DEF Scans
<1>8. ASSUME NEW k \in 1..Len(queue) PROVE Scan[k] = Scanned(queue[k], Scan[k - 1])
  <2>1. k \in 0..Len(queue) /\ k # 0
    OBVIOUS
  <2> QED BY <1>7, <2>1
<1>9. 0 \in 0..Len(queue)
  OBVIOUS
<1> QED BY <1>7, <1>8, <1>9

LEMMA AppendNext ==
  ASSUME NEW S, NEW s \in Seq(S), NEW i \in 1..Len(s), NEW k \in 1..Len(s), i <= k
  PROVE  Append(SubSeq(s, i, k - 1), s[k]) = SubSeq(s, i, k)
<1>1. SubSeq(s, i, k) = SubSeq(s, i, k - 1) \o <<s[k]>>
  BY SubSeqRecursiveSecond
<1>2. \A j \in i..(k - 1) : s[j] \in S
  BY ElementOfSeq, LenProperties
<1>3. i \in Int /\ k - 1 \in Int
  BY LenProperties
<1>4. SubSeq(s, i, k - 1) \in Seq(S)
  BY ONLY <1>2, <1>3, SubSeqProperties
<1>5. s[k] \in S
  BY ElementOfSeq
<1> QED BY <1>1, <1>4, <1>5

(* In a queue in the order of arrival, a scan takes requests from the front  *)
(* until it has enough or meets one whose time is not over.                  *)
Request == [id : Nat, arrival : Nat]
InTime == \A j, k \in 1..Len(queue) : j <= k => queue[j].arrival <= queue[k].arrival
TookFront(k, m) ==
  /\ Scan[k] = [batch |-> SubSeq(queue, 1, m), rest |-> SubSeq(queue, m + 1, k)]
  /\ \A i \in 1..m : TimedOut(queue[i])
  /\ m < k => m = MaxBatchSize \/ ~TimedOut(queue[m + 1])

LEMMA ScanTakesFront ==
  ASSUME queue \in Seq(Request), InTime, now \in Nat
  PROVE  \E m \in 0..Len(queue) : m <= MaxBatchSize /\ TookFront(Len(queue), m)
<1> DEFINE n == Len(queue)
           T == {k \in Nat : k <= n => \E m \in 0..k : m <= MaxBatchSize /\ TookFront(k, m)}
<1>1. n \in Nat /\ MaxBatchSize \in Nat \ {0} /\ MaxWait \in Nat
  BY QueuesAssumption
<1>2. 0 \in T
  <2>1. SubSeq(queue, 1, 0) = <<>>
    BY SubSeqEmpty
  <2>2. TookFront(0, 0)
    BY <1>1, <2>1, ScanIs DEF TookFront, Nobody
  <2> QED BY <1>1, <2>2
<1>3. ASSUME NEW k \in Nat, k \in T PROVE k + 1 \in T
  <2> SUFFICES ASSUME k + 1 <= n
               PROVE  \E m \in 0..(k + 1) : m <= MaxBatchSize /\ TookFront(k + 1, m)
    OBVIOUS
  <2>1. PICK m \in 0..k : m <= MaxBatchSize /\ TookFront(k, m)
    BY <1>1, <1>3
  <2> DEFINE r == queue[k + 1]
             b == SubSeq(queue, 1, m)
             q == SubSeq(queue, m + 1, k)
  <2>2. k + 1 \in 1..n /\ (k + 1) - 1 = k /\ m \in Nat /\ m <= n
    BY <1>1
  <2>3. Scan[k] = [batch |-> b, rest |-> q]
    BY <2>1 DEF TookFront
  <2>4. Scan[k + 1] = Scanned(r, [batch |-> b, rest |-> q])
    BY <1>1, <2>2, <2>3, ScanIs
  <2>5. Len(b) = m
    BY <2>2
  <2>6. CASE TimedOut(r) /\ m < MaxBatchSize
    <3>1. m = k
      <4>1. SUFFICES ASSUME m < k PROVE FALSE
        OBVIOUS
      <4>2. ~TimedOut(queue[m + 1])
        BY <1>1, <2>1, <2>6, <4>1 DEF TookFront
      <4>3. m + 1 \in 1..n /\ m + 1 <= k + 1
        BY <2>2, <4>1
      <4>4. queue[m + 1].arrival <= r.arrival /\ queue[m + 1] \in Request /\ r \in Request
        BY <2>2, <4>3 DEF InTime
      <4> DEFINE a == queue[m + 1].arrival
                 c == r.arrival
      <4>5. a \in Nat /\ c \in Nat /\ a <= c
        BY <4>4 DEF Request
      <4>6. now - c >= MaxWait /\ ~(now - a >= MaxWait)
        BY <2>6, <4>2 DEF TimedOut
      <4> QED BY ONLY <1>1, <4>5, <4>6, now \in Nat
    <3>2. Append(b, r) = SubSeq(queue, 1, k + 1)
      <4>1. Append(SubSeq(queue, 1, (k + 1) - 1), queue[k + 1]) = SubSeq(queue, 1, k + 1)
        <5>1. 1 \in 1..n /\ 1 <= k + 1
          BY <2>2
        <5> QED BY <2>2, <5>1, AppendNext
      <4> QED BY <3>1, <4>1, <2>2
    <3>3. q = <<>> /\ SubSeq(queue, k + 2, k + 1) = <<>>
      BY <3>1, SubSeqEmpty
    <3>4. Scan[k + 1] = [batch |-> SubSeq(queue, 1, k + 1), rest |-> SubSeq(queue, k + 2, k + 1)]
      <4>1. Scan[k + 1] = [batch |-> Append(b, r), rest |-> q]
        BY <2>4, <2>5, <2>6 DEF Scanned
      <4> QED BY <3>2, <3>3, <4>1
    <3>5. \A i \in 1..(k + 1) : TimedOut(queue[i])
      BY <2>1, <2>6, <3>1 DEF TookFront
    <3>6. (k + 1) + 1 = k + 2
      OBVIOUS
    <3>7. TookFront(k + 1, k + 1)
      BY ONLY <3>4, <3>5, <3>6 DEF TookFront
    <3> QED BY <1>1, <2>6, <3>1, <3>7
  <2>7. CASE ~(TimedOut(r) /\ m < MaxBatchSize)
    <3>1. Append(q, r) = SubSeq(queue, m + 1, k + 1)
      <4>1. m + 1 \in 1..n /\ m + 1 <= k + 1
        BY <2>2
      <4> QED BY <2>2, <4>1, AppendNext
    <3>2. Scan[k + 1] = [batch |-> b, rest |-> SubSeq(queue, m + 1, k + 1)]
      <4>1. Scan[k + 1] = [batch |-> b, rest |-> Append(q, r)]
        BY <2>4, <2>5, <2>7 DEF Scanned
      <4> QED BY <3>1, <4>1
    <3>3. m = MaxBatchSize \/ ~TimedOut(queue[m + 1])
      <4>1. CASE m = k
        BY <4>1, <1>1, <2>1, <2>7
      <4>2. CASE m < k
        BY <4>2, <2>1 DEF TookFront
      <4> QED BY <4>1, <4>2
    <3>4. TookFront(k + 1, m)
      BY <2>1, <3>2, <3>3 DEF TookFront
    <3> QED BY <2>1, <3>4
  <2> QED BY <2>6, <2>7
<1> HIDE DEF T
<1>4. Nat \subseteq T
  BY <1>2, <1>3, Induction
<1> QED BY <1>1, <1>4 DEF T

(* What waits has come in order, after what was dispatched.                  *)
BatchInv ==
  /\ now \in Nat /\ arrived \in Nat
  /\ queue \in Seq(Request) /\ InTime /\ \A k \in 1..Len(queue) : queue[k].arrival <= now
  /\ dispatched \in Seq(Nat)
  /\ lastCall \in [at : Nat, found : Nat, size : Nat] /\ lastCall.at <= now
  /\ DispatchedInOrder

LEMMA GetBatchStep == BatchInv /\ GetBatch => BatchInv'
<1> SUFFICES ASSUME BatchInv, GetBatch PROVE BatchInv'
  OBVIOUS
<1> DEFINE n == Len(queue)
           l == Len(dispatched)
<1>1. /\ now \in Nat /\ arrived \in Nat /\ queue \in Seq(Request) /\ InTime
      /\ dispatched \in Seq(Nat) /\ n \in Nat /\ l \in Nat
      /\ \A k \in 1..n : queue[k] \in Request /\ queue[k].arrival <= now
      /\ MaxBatchSize \in Nat \ {0} /\ MaxWait \in Nat \ {0}
  BY QueuesAssumption DEF BatchInv
<1>2. PICK m \in 0..n : m <= MaxBatchSize /\ TookFront(n, m)
  BY <1>1, ScanTakesFront
<1> DEFINE batch == SubSeq(queue, 1, m)
           out == [k \in 1..m |-> batch[k].id]
<1>3. /\ batch \in Seq(Request) /\ Len(batch) = m /\ \A k \in 1..m : batch[k] = queue[k]
  BY <1>1, <1>2
<1>4. /\ queue' = SubSeq(queue, m + 1, n)
      /\ dispatched' = dispatched \o out
      /\ lastCall' = [at |-> now, found |-> n, size |-> m]
      /\ now' = now /\ arrived' = arrived
  <2>1. Scan[n] = [batch |-> batch, rest |-> SubSeq(queue, m + 1, n)]
    BY <1>2 DEF TookFront
  <2>2. queue' = Scan[n].rest /\ Dispatch(Scan[n].batch)
    BY DEF GetBatch
  <2> HIDE DEF batch
  <2>3. queue' = SubSeq(queue, m + 1, n) /\ Dispatch(batch)
    BY <2>1, <2>2
  <2> QED BY <2>3, <1>3 DEF Dispatch, clock
<1>5. /\ queue' \in Seq(Request) /\ Len(queue') = n - m
      /\ \A k \in 1..(n - m) : queue'[k] = queue[m + k] /\ m + k \in 1..n
  BY <1>1, <1>2, <1>4
<1>6. ASSUME NEW k \in 1..m PROVE out[k] = queue[k].id /\ out[k] \in Nat
  <2>1. k \in 1..n /\ queue[k].id \in Nat
    BY <1>1, <1>2 DEF Request
  <2>2. out[k] = queue[k].id
    BY <1>3
  <2> QED BY <2>1, <2>2
<1>7. out \in Seq(Nat) /\ Len(out) = m
  <2>1. \A k \in 1..m : out[k] \in Nat
    BY <1>6
  <2>2. out = [k \in 1..m |-> out[k]]
    OBVIOUS
  <2> HIDE DEF out
  <2>3. out \in [1..m -> Nat]
    BY <2>1, <2>2
  <2> QED BY <2>3, <1>2, SeqDef, LenProperties
<1>8. /\ dispatched' \in Seq(Nat) /\ Len(dispatched') = l + m
      /\ \A k \in 1..(l + m) : dispatched'[k] = IF k <= l THEN dispatched[k] ELSE out[k - l]
  <2> HIDE DEF out
  <2>1. /\ dispatched \o out \in Seq(Nat) /\ Len(dispatched \o out) = l + m
        /\ \A k \in 1..(l + m) : (dispatched \o out)[k] = IF k <= l THEN dispatched[k] ELSE out[k - l]
    BY <1>1, <1>7, ConcatProperties
  <2> QED BY <2>1, <1>4
<1>9. DispatchedInOrder
  BY DEF BatchInv
<1> HIDE DEF out, batch
<1>10. \A k \in 1..(l + m) : dispatched'[k] = k
  <2> SUFFICES ASSUME NEW k \in 1..(l + m) PROVE dispatched'[k] = k
    OBVIOUS
  <2>1. CASE k <= l
    <3>1. k \in 1..l /\ dispatched'[k] = dispatched[k]
      BY <2>1, <1>1, <1>8
    <3> QED BY <3>1, <1>9 DEF DispatchedInOrder
  <2>2. CASE k > l
    <3>1. k - l \in 1..m /\ k - l \in 1..n
      BY <1>1, <1>2, <2>2
    <3>2. dispatched'[k] = out[k - l]
      BY <1>1, <1>8, <2>2
    <3>3. queue[k - l].id = l + (k - l)
      BY <3>1, <1>9 DEF DispatchedInOrder
    <3>4. out[k - l] = queue[k - l].id
      BY <3>1, <1>6
    <3> QED BY <1>1, <3>2, <3>3, <3>4
  <2> QED BY <1>1, <2>1, <2>2
<1>11. \A k \in 1..(n - m) : queue'[k].id = (l + m) + k
  <2> SUFFICES ASSUME NEW k \in 1..(n - m) PROVE queue'[k].id = (l + m) + k
    OBVIOUS
  <2>1. queue'[k] = queue[m + k] /\ m + k \in 1..n
    BY <1>5
  <2>2. queue[m + k].id = l + (m + k)
    BY <2>1, <1>9 DEF DispatchedInOrder
  <2> QED BY <1>1, <1>2, <2>1, <2>2
<1>12. ASSUME m < MaxBatchSize, NEW k \in 1..(n - m) PROVE ~TimedOut(queue'[k])
  <2>1. m + 1 \in 1..n /\ m + k \in 1..n /\ m + 1 <= m + k /\ m < n /\ m # MaxBatchSize
    BY <1>1, <1>2, <1>12
  <2>2. ~TimedOut(queue[m + 1])
    BY <1>2, <2>1 DEF TookFront
  <2>3. queue[m + 1].arrival <= queue[m + k].arrival
    BY <1>1, <2>1 DEF InTime
  <2>4. queue[m + 1].arrival \in Nat /\ queue[m + k].arrival \in Nat /\ queue'[k] = queue[m + k]
    BY <1>1, <1>5, <2>1 DEF Request
  <2>5. ~(now - queue[m + 1].arrival >= MaxWait)
    BY <2>2 DEF TimedOut
  <2>6. ~(now - queue[m + k].arrival >= MaxWait)
    <3> DEFINE a == queue[m + 1].arrival
               c == queue[m + k].arrival
    <3>1. a \in Nat /\ c \in Nat /\ a <= c /\ ~(now - a >= MaxWait) /\ now \in Nat /\ MaxWait \in Nat
      BY <1>1, <2>3, <2>4, <2>5
    <3> HIDE DEF a, c
    <3>2. ~(now - c >= MaxWait)
      BY <3>1
    <3> QED BY <3>2 DEF c
  <2> QED BY <2>4, <2>6 DEF TimedOut
<1>13. n + l = arrived
  BY <1>1, <1>9 DEF DispatchedInOrder
<1>14. DispatchedInOrder'
  <2>1. Len(dispatched') + Len(queue') = arrived'
    <3>1. (l + m) + (n - m) = n + l /\ m \in Nat
      BY <1>1, <1>2
    <3> HIDE DEF n, l
    <3> QED BY <3>1, <1>4, <1>5, <1>8, <1>13
  <2>2. lastCall'.size = m /\ now' = now
    BY <1>4
  <2>3. lastCall'.size < MaxBatchSize => \A k \in 1..(n - m) : ~(now' - queue'[k].arrival >= MaxWait)
    BY <1>12, <2>2 DEF TimedOut
  <2> QED BY <1>5, <1>8, <1>10, <1>11, <2>1, <2>3 DEF DispatchedInOrder, TimedOut
<1>15. InTime' /\ \A k \in 1..Len(queue') : queue'[k].arrival <= now'
  <2>1. ASSUME NEW j \in 1..(n - m), NEW k \in 1..(n - m), j <= k
        PROVE  queue'[j].arrival <= queue'[k].arrival
    <3>1. m + j \in 1..n /\ m + k \in 1..n /\ m + j <= m + k
      BY <1>2, <1>5, <2>1
    <3> QED BY <3>1, <1>1, <1>5 DEF InTime
  <2> QED BY <2>1, <1>1, <1>4, <1>5 DEF InTime
<1>16. lastCall' \in [at : Nat, found : Nat, size : Nat] /\ lastCall'.at <= now'
  BY <1>1, <1>2, <1>4
<1> QED BY <1>1, <1>4, <1>5, <1>8, <1>14, <1>15, <1>16 DEF BatchInv

LEMMA BatchStep == BatchInv /\ [BatchNext]_<<batchVars, clock>> => BatchInv'
<1> SUFFICES ASSUME BatchInv, [BatchNext]_<<batchVars, clock>> PROVE BatchInv'
  OBVIOUS
<1> USE QueuesAssumption
<1>1. CASE Tick /\ UNCHANGED batchVars
  <2>1. now' = now + 1 /\ UNCHANGED <<arrived, queue, dispatched, lastCall>>
    BY <1>1 DEF Tick, batchVars
  <2>2. /\ now \in Nat /\ lastCall.at \in Nat /\ lastCall.at <= now
        /\ \A k \in 1..Len(queue) : queue[k].arrival <= now /\ queue[k].arrival \in Nat
    <3>1. \A k \in 1..Len(queue) : queue[k] \in Request
      BY ElementOfSeq DEF BatchInv
    <3> QED BY <3>1 DEF BatchInv, Request
  <2>3. lastCall.at # now' /\ lastCall.at <= now' /\ \A k \in 1..Len(queue) : queue[k].arrival <= now'
    BY <2>1, <2>2
  <2>4. DispatchedInOrder'
    BY <2>1, <2>3 DEF BatchInv, DispatchedInOrder
  <2> QED BY <2>1, <2>2, <2>3, <2>4 DEF BatchInv, InTime
<1>2. CASE UNCHANGED <<batchVars, clock>>
  BY <1>2 DEF batchVars, clock, BatchInv, InTime, DispatchedInOrder, TimedOut
<1>3. CASE AddRequest
  <2> DEFINE n == Len(queue)
             new == [id |-> arrived + 1, arrival |-> now]
  <2>1. /\ queue' = Append(queue, new) /\ arrived' = arrived + 1
        /\ UNCHANGED <<now, dispatched, lastCall>>
    BY <1>3 DEF AddRequest, Arrive
  <2>2. /\ now \in Nat /\ arrived \in Nat /\ queue \in Seq(Request) /\ n \in Nat
        /\ \A k \in 1..n : queue[k].arrival <= now
    BY DEF BatchInv
  <2>3. new \in Request
    BY <2>2 DEF Request
  <2>4. /\ queue' \in Seq(Request) /\ Len(queue') = n + 1 /\ queue'[n + 1] = new
        /\ \A k \in 1..n : queue'[k] = queue[k]
    <3> HIDE DEF new
    <3> QED BY <2>1, <2>2, <2>3
  <2>5. \A k \in 1..(n + 1) : k \in 1..n \/ k = n + 1
    BY <2>2
  <2>6. ~TimedOut(new)
    BY <2>2 DEF TimedOut
  <2>7. DispatchedInOrder'
    <3>1. Len(dispatched) + n = arrived /\ Len(dispatched) \in Nat
      BY DEF BatchInv, DispatchedInOrder
    <3>2. \A k \in 1..(n + 1) : queue'[k].id = Len(dispatched) + k
      <4>1. \A k \in 1..n : queue[k].id = Len(dispatched) + k
        BY DEF BatchInv, DispatchedInOrder
      <4>2. new.id = Len(dispatched) + (n + 1)
        BY <2>2, <3>1
      <4> QED BY <2>4, <2>5, <4>1, <4>2
    <3>3. lastCall.at = now /\ lastCall.size < MaxBatchSize =>
            \A k \in 1..(n + 1) : ~TimedOut(queue'[k])
      BY <2>4, <2>5, <2>6, SMTT(60) DEF BatchInv, DispatchedInOrder
    <3>4. Len(dispatched) + (n + 1) = arrived + 1
      BY <2>2, <3>1
    <3>5. lastCall'.at = now' /\ lastCall'.size < MaxBatchSize =>
            \A k \in 1..(n + 1) : ~(now' - queue'[k].arrival >= MaxWait)
      BY <2>1, <3>3 DEF TimedOut
    <3> QED BY <2>1, <2>4, <3>2, <3>4, <3>5 DEF BatchInv, DispatchedInOrder, TimedOut
  <2>8. InTime' /\ \A k \in 1..(n + 1) : queue'[k].arrival <= now'
    BY <2>1, <2>2, <2>4, <2>5 DEF BatchInv, InTime
  <2> QED BY <2>1, <2>2, <2>4, <2>7, <2>8 DEF BatchInv
<1> QED BY <1>1, <1>2, <1>3, GetBatchStep DEF BatchNext

(* Whoever waits in front of the model is served in turn, for any number of  *)
(* requests and priorities (ServedInTurn).                                   *)
THEOREM QueuesInTurn == Spec => []ServedInTurn
<1> DEFINE Inv == /\ focus = "batches" => BatchInv
                  /\ focus = "priorities" => PrioInv
<1>1. Init => Inv
  <2> SUFFICES ASSUME QueuesInit PROVE BatchInv /\ PrioInv
    BY DEF Init
  <2>1. BatchInv
    BY QueuesAssumption, EmptySeq DEF QueuesInit, BatchInv, InTime, DispatchedInOrder
  <2>2. PrioInv
    BY EmptySeq, FS_EmptySet DEF QueuesInit, PrioInv, ServedByPriority
  <2> QED BY <2>1, <2>2
<1>2. Inv /\ [Next]_vars => Inv'
  BY Projection, BatchStep, PrioStep
<1>3. Inv => ServedInTurn
  BY DEF ServedInTurn, BatchInv, PrioInv
<1> QED BY <1>1, <1>2, <1>3, PTL DEF Spec

-----------------------------------------------------------------------------
(* The prefix cache *)

LEMMA FirstIsIn ==
  ASSUME NEW ks, ks \subseteq Nat, ks # {}
  PROVE  First(ks) \in ks
<1>1. \E k \in ks : \A j \in ks : k <= j
  BY LeastNatural
<1> QED BY <1>1, Zenon DEF First

Entry == [prefix : PrefixNames, kv : Nat, access : Nat]
PrefixTypes ==
  /\ now \in Nat /\ arrived \in Nat /\ lastEvicted \in Nat
  /\ entries \in Seq(Entry) /\ Len(entries) <= MaxEntries
  /\ latestKv \in [PrefixNames -> Nat]
AccessInTime ==
  \A k \in 1..Len(entries) : lastEvicted <= entries[k].access /\ entries[k].access <= now
LastInTime == lastEvicted <= now
EntriesLatest ==
  \A k \in 1..Len(entries) :
    entries[k].prefix \notin doubled => entries[k].kv = latestKv[entries[k].prefix]
PrefixInv == PrefixTypes /\ AccessInTime /\ LastInTime /\ EntriesLatest

LEMMA EntryAt ==
  ASSUME PrefixTypes
  PROVE  /\ Len(entries) \in Nat
         /\ \A k \in 1..Len(entries) : entries[k] \in Entry /\ entries[k].access \in Nat
<1>1. \A k \in 1..Len(entries) : entries[k] \in Entry
  BY ElementOfSeq DEF PrefixTypes
<1>2. \A e \in Entry : e.access \in Nat
  BY DEF Entry
<1> QED BY <1>1, <1>2 DEF PrefixTypes

LEMMA PrefixStart == QueuesInit => PrefixInv
  BY QueuesAssumption, EmptySeq, SMT DEF QueuesInit, PrefixInv, PrefixTypes, AccessInTime,
     LastInTime, EntriesLatest

LEMMA PrefixIsSafe == PrefixInv => PrefixIsLatest
<1> SUFFICES ASSUME PrefixInv PROVE PrefixIsLatest
  OBVIOUS
<1>1. Len(entries) \in Nat /\ Len(entries) <= MaxEntries
  BY DEF PrefixInv, PrefixTypes
<1>2. ASSUME NEW p \in PrefixNames \ doubled, Found(p) # {}
      PROVE  entries[First(Found(p))].kv = latestKv[p]
  <2>1. Found(p) \subseteq Nat
    BY <1>1 DEF Found
  <2>2. First(Found(p)) \in Found(p)
    BY <1>2, <2>1, FirstIsIn
  <2> QED BY <2>2 DEF Found, PrefixInv, EntriesLatest
<1>3. \A k \in 1..Len(entries) : entries[k].access \in Nat
  BY EntryAt DEF PrefixInv
<1> QED BY <1>1, <1>2, <1>3 DEF PrefixIsLatest, PrefixInv, PrefixTypes, AccessInTime

(* The entry that is replaced was used no later than any other.              *)
LEMMA OldestIsOldest ==
  ASSUME PrefixTypes, entries # <<>>
  PROVE  /\ Oldest \in 1..Len(entries)
         /\ \A j \in 1..Len(entries) : entries[Oldest].access <= entries[j].access
<1> DEFINE T == {entries[k].access : k \in 1..Len(entries)}
           ks == {k \in 1..Len(entries) :
                    \A j \in 1..Len(entries) : entries[k].access <= entries[j].access}
<1>1. Len(entries) \in Nat \ {0} /\ \A k \in 1..Len(entries) : entries[k].access \in Nat
  <2>1. Len(entries) # 0
    BY EmptySeq DEF PrefixTypes
  <2> QED BY <2>1, EntryAt
<1>2. T \subseteq Nat /\ T # {}
  <2>1. 1 \in 1..Len(entries)
    BY <1>1
  <2> QED BY <1>1, <2>1
<1>3. PICK x \in T : \A y \in T : x <= y
  <2> HIDE DEF T
  <2> QED BY <1>2, LeastNatural
<1>4. ks # {}
  BY <1>3
<1>5. ks \subseteq Nat
  BY <1>1
<1> HIDE DEF ks
<1>6. First(ks) \in ks
  BY <1>4, <1>5, FirstIsIn
<1> QED BY <1>6 DEF ks, Oldest

LEMMA LookupStep ==
  ASSUME PrefixInv, NEW p \in PrefixNames, Lookup(p)
  PROVE  PrefixInv'
<1> DEFINE i == First(Found(p))
<1>1. Len(entries) \in Nat /\ now \in Nat
  BY DEF PrefixInv, PrefixTypes
<1>2. Found(p) \subseteq Nat /\ Found(p) # {}
  BY <1>1 DEF Found, Lookup
<1>3. i \in 1..Len(entries)
  <2>1. i \in Found(p)
    BY <1>2, FirstIsIn
  <2> QED BY <2>1 DEF Found
<1>4. entries' = [entries EXCEPT ![i].access = now]
      /\ UNCHANGED <<latestKv, doubled, lastEvicted, now, arrived>>
  BY DEF Lookup, clock
<1> HIDE DEF i
<1>5. \A k \in 1..Len(entries) : entries[k] \in Entry
  BY ElementOfSeq DEF PrefixInv, PrefixTypes
<1>6. /\ entries' \in Seq(Entry) /\ Len(entries') = Len(entries)
      /\ \A k \in 1..Len(entries) :
           entries'[k] = IF k = i THEN [entries[i] EXCEPT !.access = now] ELSE entries[k]
  <2>1. [entries[i] EXCEPT !.access = now] \in Entry
    BY <1>1, <1>3, <1>5 DEF Entry
  <2>2. entries' = [entries EXCEPT ![i] = [entries[i] EXCEPT !.access = now]]
    BY <1>4
  <2>3. entries \in Seq(Entry)
    BY DEF PrefixInv, PrefixTypes
  <2> QED BY <1>3, <2>1, <2>2, <2>3, ExceptSeq
<1>7. PrefixTypes'
  BY <1>4, <1>6 DEF PrefixInv, PrefixTypes
<1>8. \A k \in 1..Len(entries) : entries'[k].prefix = entries[k].prefix /\ entries'[k].kv = entries[k].kv
  BY <1>5, <1>6 DEF Entry
<1>9. EntriesLatest'
  BY <1>4, <1>6, <1>8 DEF PrefixInv, EntriesLatest
<1>10. \A k \in 1..Len(entries) : entries'[k].access \in {entries[k].access, now}
  BY <1>5, <1>6 DEF Entry
<1>11. AccessInTime' /\ LastInTime'
  BY <1>1, <1>4, <1>6, <1>10 DEF PrefixInv, AccessInTime, LastInTime
<1> QED BY <1>7, <1>9, <1>11 DEF PrefixInv

(* What is stored replaces the oldest entry, or follows the others.          *)
LEMMA StoreStep ==
  ASSUME PrefixInv, NEW p \in PrefixNames, StorePrefix(p)
  PROVE  PrefixInv'
<1> DEFINE entry == [prefix |-> p, kv |-> arrived + 1, access |-> now]
           n == Len(entries)
<1>1. /\ n \in Nat /\ n <= MaxEntries /\ now \in Nat /\ arrived \in Nat /\ lastEvicted \in Nat
      /\ MaxEntries \in Nat \ {0} /\ entries \in Seq(Entry) /\ latestKv \in [PrefixNames -> Nat]
  BY QueuesAssumption DEF PrefixInv, PrefixTypes
<1>2. entry \in Entry
  BY <1>1 DEF Entry
<1>3. /\ arrived' = arrived + 1 /\ now' = now
      /\ latestKv' = [latestKv EXCEPT ![p] = arrived + 1]
      /\ doubled' = IF Found(p) = {} THEN doubled ELSE doubled \cup {p}
  BY DEF StorePrefix, Arrive
<1>4. \A k \in 1..n : /\ entries[k] \in Entry /\ entries[k].access \in Nat
                      /\ lastEvicted <= entries[k].access /\ entries[k].access <= now
  BY EntryAt DEF PrefixInv, AccessInTime
<1>5. PICK m \in 1..MaxEntries, place \in 1..MaxEntries :
        /\ place \in 1..m
        /\ entries' \in Seq(Entry) /\ Len(entries') = m
        /\ \A k \in 1..m : entries'[k] = IF k = place THEN entry ELSE entries[k]
        /\ \A k \in 1..m : k # place => k \in 1..n
        /\ lastEvicted' \in Nat /\ lastEvicted' <= now
        /\ \A k \in 1..m : k # place => lastEvicted' <= entries[k].access
  <2> HIDE DEF entry
  <2>1. CASE n >= MaxEntries
    <3>1. entries' = [entries EXCEPT ![Oldest] = entry] /\ lastEvicted' = entries[Oldest].access
      BY <2>1 DEF StorePrefix, entry
    <3>2. entries # <<>>
      BY <1>1, <2>1, EmptySeq
    <3>3. Oldest \in 1..n /\ \A j \in 1..n : entries[Oldest].access <= entries[j].access
      BY <3>2, OldestIsOldest DEF PrefixInv
    <3>4. /\ entries' \in Seq(Entry) /\ Len(entries') = n
          /\ \A k \in 1..n : entries'[k] = IF k = Oldest THEN entry ELSE entries[k]
      BY <1>1, <1>2, <3>1, <3>3, ExceptSeq
    <3>5. n \in 1..MaxEntries
      BY <1>1, <2>1
    <3>6. Oldest \in 1..MaxEntries
      BY <1>1, <3>3, <3>5
    <3>7. /\ lastEvicted' \in Nat /\ lastEvicted' <= now
          /\ \A k \in 1..n : k # Oldest => lastEvicted' <= entries[k].access
      BY <1>4, <3>1, <3>3
    <3> QED BY <3>3, <3>4, <3>5, <3>6, <3>7
  <2>2. CASE ~(n >= MaxEntries)
    <3>1. entries' = Append(entries, entry) /\ lastEvicted' = lastEvicted
      BY <2>2 DEF StorePrefix, entry
    <3>2. /\ entries' \in Seq(Entry) /\ Len(entries') = n + 1
          /\ entries'[n + 1] = entry /\ \A k \in 1..n : entries'[k] = entries[k]
      BY <1>1, <1>2, <3>1, AppendProperties
    <3>3. n + 1 \in 1..MaxEntries /\ n + 1 \in 1..(n + 1)
      BY <1>1, <2>2
    <3>4. \A k \in 1..(n + 1) : k # n + 1 => k \in 1..n
      BY <1>1
    <3>5. lastEvicted <= now
      BY DEF PrefixInv, PrefixTypes, LastInTime
    <3>6. /\ \A k \in 1..(n + 1) : entries'[k] = IF k = n + 1 THEN entry ELSE entries[k]
          /\ \A k \in 1..(n + 1) : k # n + 1 => lastEvicted' <= entries[k].access
          /\ lastEvicted' \in Nat /\ lastEvicted' <= now
      BY <1>1, <1>4, <3>1, <3>2, <3>4, <3>5
    <3> QED BY ONLY <3>2, <3>3, <3>4, <3>6
  <2> QED BY <2>1, <2>2
<1>6. PrefixTypes'
  <2>1. latestKv' \in [PrefixNames -> Nat]
    BY <1>1, <1>3
  <2> QED BY <1>1, <1>3, <1>5, <2>1 DEF PrefixTypes
<1>7. AccessInTime' /\ LastInTime'
  <2>1. entry.access = now
    OBVIOUS
  <2> QED BY <1>1, <1>3, <1>4, <1>5, <2>1, SMTT(30) DEF AccessInTime, LastInTime
<1>8. EntriesLatest'
  <2> SUFFICES ASSUME NEW k \in 1..m, entries'[k].prefix \notin doubled'
               PROVE  entries'[k].kv = latestKv'[entries'[k].prefix]
    BY <1>5 DEF EntriesLatest
  <2>1. CASE k = place
    BY <1>1, <1>3, <1>5, <2>1
  <2>2. CASE k # place
    <3>1. k \in 1..n /\ entries'[k] = entries[k] /\ entries[k].prefix \in PrefixNames
      BY <1>4, <1>5, <2>2 DEF Entry
    <3>2. entries[k].prefix # p
      BY <1>3, <3>1 DEF Found
    <3>3. entries[k].prefix \notin doubled
      BY <1>3, <3>1
    <3> QED BY <1>1, <1>3, <3>1, <3>2, <3>3 DEF PrefixInv, EntriesLatest
  <2> QED BY <2>1, <2>2
<1> QED BY <1>6, <1>7, <1>8 DEF PrefixInv

LEMMA PrefixStep == PrefixInv /\ [PrefixNext]_<<prefixVars, clock>> => PrefixInv'
<1> SUFFICES ASSUME PrefixInv, [PrefixNext]_<<prefixVars, clock>> PROVE PrefixInv'
  OBVIOUS
<1>1. CASE Tick /\ UNCHANGED prefixVars
  <2>1. /\ now \in Nat /\ now' = now + 1 /\ UNCHANGED <<arrived, entries, latestKv, doubled, lastEvicted>>
        /\ lastEvicted \in Nat
    BY <1>1 DEF Tick, prefixVars, PrefixInv, PrefixTypes
  <2>2. PrefixTypes' /\ EntriesLatest'
    BY <2>1 DEF PrefixInv, PrefixTypes, EntriesLatest
  <2>3. AccessInTime' /\ LastInTime'
    BY <2>1, EntryAt DEF PrefixInv, AccessInTime, LastInTime
  <2> QED BY <2>2, <2>3 DEF PrefixInv
<1>2. CASE UNCHANGED <<prefixVars, clock>>
  BY <1>2 DEF prefixVars, clock, PrefixInv, PrefixTypes, AccessInTime, LastInTime, EntriesLatest
<1> QED BY <1>1, <1>2, LookupStep, StoreStep DEF PrefixNext

-----------------------------------------------------------------------------
(* The mapped weights *)

(* The defining equation of BytesTo.                                         *)
Sums(f, list, n) == f = [k \in 0..n |-> IF k = 0 THEN 0 ELSE f[k - 1] + list[k].size]

LEMMA BytesToIs ==
  ASSUME NEW list, Len(list) \in Nat
  PROVE  /\ BytesTo(list)[0] = 0
         /\ \A k \in 1..Len(list) : BytesTo(list)[k] = BytesTo(list)[k - 1] + list[k].size
<1> DEFINE T == {n \in Nat : \E f : Sums(f, list, n)}
<1>1. 0 \in T
  <2>1. Sums([k \in 0..0 |-> 0], list, 0)
    BY DEF Sums
  <2> QED BY <2>1
<1>2. ASSUME NEW n \in Nat, n \in T PROVE n + 1 \in T
  <2>1. PICK f : Sums(f, list, n)
    BY <1>2
  <2> DEFINE g == [k \in 0..(n + 1) |-> IF k = n + 1 THEN f[n] + list[k].size ELSE f[k]]
  <2>2. ASSUME NEW k \in 0..(n + 1)
        PROVE  g[k] = IF k = 0 THEN 0 ELSE g[k - 1] + list[k].size
    <3>1. CASE k = n + 1
      <4>1. k # 0 /\ k - 1 = n /\ n \in 0..(n + 1) /\ n # n + 1
        BY <3>1
      <4>2. g[k] = f[n] + list[k].size /\ g[n] = f[n]
        BY <3>1, <4>1
      <4> QED BY <4>1, <4>2
    <3>2. CASE k # n + 1
      <4>1. k \in 0..n /\ g[k] = f[k]
        BY <3>2
      <4>2. f[k] = IF k = 0 THEN 0 ELSE f[k - 1] + list[k].size
        BY <2>1, <4>1 DEF Sums
      <4>3. k # 0 => k - 1 \in 0..(n + 1) /\ k - 1 # n + 1 /\ g[k - 1] = f[k - 1]
        BY <4>1
      <4> QED BY <4>1, <4>2, <4>3
    <3> QED BY <3>1, <3>2
  <2>3. g = [k \in 0..(n + 1) |-> g[k]]
    OBVIOUS
  <2> HIDE DEF g
  <2>4. Sums(g, list, n + 1)
    BY <2>2, <2>3 DEF Sums
  <2> QED BY <2>4
<1> HIDE DEF T
<1>3. Nat \subseteq T
  BY <1>1, <1>2, Induction
<1>4. \E f : Sums(f, list, Len(list))
  BY <1>3 DEF T
<1> DEFINE sum == BytesTo(list)
<1>5. sum = CHOOSE f : Sums(f, list, Len(list))
  BY DEF BytesTo, Sums
<1> HIDE DEF sum
<1>6. Sums(sum, list, Len(list))
  BY <1>4, <1>5
<1>7. \A k \in 0..Len(list) : sum[k] = IF k = 0 THEN 0 ELSE sum[k - 1] + list[k].size
  BY <1>6 DEF Sums
<1>8. ASSUME NEW k \in 1..Len(list) PROVE sum[k] = sum[k - 1] + list[k].size
  <2>1. k \in 0..Len(list) /\ k # 0
    OBVIOUS
  <2> QED BY <1>7, <2>1
<1>9. 0 \in 0..Len(list)
  OBVIOUS
<1> QED BY <1>7, <1>8, <1>9 DEF sum

Weight == [node : Nat, name : WeightNames, size : Nat]

LEMMA WeightAt ==
  ASSUME NEW list \in Seq(Weight)
  PROVE  /\ Len(list) \in Nat
         /\ \A k \in 1..Len(list) : /\ list[k] \in Weight /\ list[k].node \in Nat
                                    /\ list[k].name \in WeightNames /\ list[k].size \in Nat
<1>1. \A k \in 1..Len(list) : list[k] \in Weight
  BY ElementOfSeq
<1>2. \A w \in Weight : w.node \in Nat /\ w.name \in WeightNames /\ w.size \in Nat
  BY DEF Weight
<1> QED BY <1>1, <1>2

LEMMA BytesToNat ==
  ASSUME NEW list \in Seq(Weight)
  PROVE  \A k \in 0..Len(list) : BytesTo(list)[k] \in Nat
<1> DEFINE B == BytesTo(list)
           T == {n \in Nat : n <= Len(list) => B[n] \in Nat}
<1>1. /\ Len(list) \in Nat /\ \A k \in 1..Len(list) : list[k].size \in Nat
      /\ B[0] = 0 /\ \A k \in 1..Len(list) : B[k] = B[k - 1] + list[k].size
  BY WeightAt, BytesToIs
<1> HIDE DEF B
<1>2. 0 \in T
  BY <1>1
<1>3. ASSUME NEW n \in Nat, n \in T PROVE n + 1 \in T
  <2>1. CASE n + 1 <= Len(list)
    <3>1. n + 1 \in 1..Len(list) /\ (n + 1) - 1 = n
      BY <1>1, <2>1
    <3>2. B[n + 1] = B[n] + list[n + 1].size
      BY <1>1, <3>1
    <3> QED BY <1>1, <1>3, <2>1, <3>1, <3>2
  <2> QED BY <2>1
<1> HIDE DEF T
<1>4. Nat \subseteq T
  BY <1>2, <1>3, Induction
<1> QED BY <1>1, <1>4 DEF T, B

(* A weight put before a front of the list adds its size to it.              *)
LEMMA BytesShift ==
  ASSUME NEW s \in Seq(Weight), NEW t \in Seq(Weight), NEW w \in Weight,
         NEW k \in 0..Len(s), k + 1 <= Len(t), t[1] = w,
         \A i \in 1..k : t[i + 1] = s[i]
  PROVE  \A i \in 0..k : BytesTo(t)[i + 1] = w.size + BytesTo(s)[i]
<1> DEFINE B == BytesTo(s)
           C == BytesTo(t)
           T == {n \in Nat : n <= k => C[n + 1] = w.size + B[n]}
<1>1. /\ Len(s) \in Nat /\ Len(t) \in Nat /\ k \in Nat /\ w.size \in Nat
      /\ \A i \in 1..Len(s) : s[i].size \in Nat
  <2>1. w.size \in Nat
    BY DEF Weight
  <2> QED BY <2>1, WeightAt
<1>2. /\ B[0] = 0 /\ \A i \in 1..Len(s) : B[i] = B[i - 1] + s[i].size
      /\ C[0] = 0 /\ \A i \in 1..Len(t) : C[i] = C[i - 1] + t[i].size
      /\ \A i \in 0..Len(s) : B[i] \in Nat
  BY <1>1, BytesToIs, BytesToNat
<1> HIDE DEF B, C
<1>3. 0 \in T
  <2>1. 1 \in 1..Len(t) /\ 0 \in 0..Len(s)
    BY <1>1
  <2>2. C[1] = C[0] + t[1].size
    BY <1>2, <2>1
  <2> QED BY <1>1, <1>2, <2>1, <2>2
<1>4. ASSUME NEW n \in Nat, n \in T PROVE n + 1 \in T
  <2>1. CASE n + 1 <= k
    <3>1. /\ n + 1 \in 1..Len(s) /\ n + 1 \in 1..k /\ n + 2 \in 1..Len(t) /\ n \in 0..Len(s)
          /\ (n + 1) - 1 = n /\ (n + 2) - 1 = n + 1 /\ (n + 1) + 1 = n + 2
      BY <1>1, <2>1
    <3>2. B[n + 1] = B[n] + s[n + 1].size
      BY <1>2, <3>1
    <3>3. C[n + 2] = C[n + 1] + t[n + 2].size
      BY <1>2, <3>1
    <3>4. t[n + 2] = s[n + 1]
      BY <3>1
    <3>5. C[n + 1] = w.size + B[n]
      BY <1>4, <2>1, <1>1
    <3>6. B[n] \in Nat /\ s[n + 1].size \in Nat
      BY <1>1, <1>2, <3>1
    <3>7. C[n + 2] = w.size + B[n + 1]
      BY <1>1, <3>2, <3>3, <3>4, <3>5, <3>6, SMTT(60)
    <3> QED BY <3>1, <3>7
  <2> QED BY <2>1
<1> HIDE DEF T
<1>5. Nat \subseteq T
  BY <1>3, <1>4, Induction
<1> QED BY <1>1, <1>5 DEF T, B, C

(* Behind the place of a node that moves to the front the sums are the same. *)
LEMMA BytesSame ==
  ASSUME NEW s \in Seq(Weight), NEW t \in Seq(Weight), Len(t) = Len(s),
         NEW k \in 0..Len(s), BytesTo(t)[k] = BytesTo(s)[k],
         \A i \in k + 1..Len(s) : t[i] = s[i]
  PROVE  SumSizes(t) = SumSizes(s)
<1> DEFINE B == BytesTo(s)
           C == BytesTo(t)
           T == {n \in Nat : k + n <= Len(s) => C[k + n] = B[k + n]}
<1>1. Len(s) \in Nat /\ k \in Nat
  BY WeightAt
<1>2. /\ \A i \in 1..Len(s) : B[i] = B[i - 1] + s[i].size
      /\ \A i \in 1..Len(s) : C[i] = C[i - 1] + t[i].size
      /\ C[k] = B[k]
  BY <1>1, BytesToIs
<1> HIDE DEF B, C
<1>3. 0 \in T
  BY <1>1, <1>2
<1>4. ASSUME NEW n \in Nat, n \in T PROVE n + 1 \in T
  <2>1. CASE k + (n + 1) <= Len(s)
    <3>1. /\ k + (n + 1) \in 1..Len(s) /\ k + (n + 1) \in k + 1..Len(s)
          /\ k + (n + 1) - 1 = k + n
      BY <1>1, <2>1
    <3>2. C[k + n] = B[k + n]
      BY <1>1, <1>4, <2>1
    <3>3. B[k + (n + 1)] = B[k + n] + s[k + (n + 1)].size
      BY <1>2, <3>1
    <3>4. C[k + (n + 1)] = C[k + n] + t[k + (n + 1)].size
      BY <1>2, <3>1
    <3> QED BY <3>1, <3>2, <3>3, <3>4
  <2> QED BY <2>1
<1>5. Nat \subseteq T
  <2> HIDE DEF T
  <2> QED BY <1>3, <1>4, Induction
<1>6. C[Len(s)] = B[Len(s)]
  <2>1. Len(s) - k \in Nat /\ k + (Len(s) - k) = Len(s)
    BY <1>1
  <2>2. C[k + (Len(s) - k)] = B[k + (Len(s) - k)]
    BY <1>1, <1>5, <2>1, SMTT(60)
  <2> QED BY <2>1, <2>2
<1> QED BY <1>6 DEF B, C, SumSizes

(* An entry moved to the front, and a new one in front of the first k.       *)
LEMMA MovedIs ==
  ASSUME NEW s \in Seq(Weight), NEW k \in 1..Len(s)
  PROVE  LET t == <<s[k]>> \o RemoveAt(s, k)
         IN  /\ t \in Seq(Weight) /\ Len(t) = Len(s) /\ t[1] = s[k]
             /\ \A i \in 1..k - 1 : t[i + 1] = s[i]
             /\ \A i \in k + 1..Len(s) : t[i] = s[i]
<1> DEFINE n == Len(s)
           a == SubSeq(s, 1, k - 1)
           b == SubSeq(s, k + 1, n)
           r == a \o b
           h == <<s[k]>>
           t == h \o r
<1>1. n \in Nat /\ \A i \in 1..n : s[i] \in Weight
  BY WeightAt
<1>2. /\ a \in Seq(Weight) /\ Len(a) = k - 1 /\ \A i \in 1..k - 1 : a[i] = s[i]
  <2>1. \A i \in 1..(k - 1) : s[i] \in Weight
    BY <1>1
  <2>2. /\ a \in Seq(Weight) /\ Len(a) = IF 1 <= k - 1 THEN (k - 1) - 1 + 1 ELSE 0
        /\ \A i \in 1..(k - 1) - 1 + 1 : a[i] = s[1 + i - 1]
    <3> HIDE DEF n
    <3> QED BY <1>1, <2>1, SubSeqProperties
  <2>3. (k - 1) - 1 + 1 = k - 1 /\ \A i \in 1..(k - 1) : 1 + i - 1 = i
    BY <1>1
  <2> HIDE DEF a
  <2> QED BY <1>1, <2>2, <2>3
<1>3. /\ b \in Seq(Weight) /\ Len(b) = n - k /\ \A i \in 1..n - k : b[i] = s[k + i]
  <2>1. \A i \in (k + 1)..n : s[i] \in Weight
    BY <1>1
  <2>2. /\ b \in Seq(Weight) /\ Len(b) = IF k + 1 <= n THEN n - (k + 1) + 1 ELSE 0
        /\ \A i \in 1..n - (k + 1) + 1 : b[i] = s[(k + 1) + i - 1]
    <3> HIDE DEF n
    <3> QED BY <1>1, <2>1, SubSeqProperties
  <2> HIDE DEF b
  <2>3. n - (k + 1) + 1 = n - k /\ n - k \in Nat
    BY <1>1
  <2>4. ASSUME NEW i \in 1..n - k PROVE b[i] = s[k + i]
    <3>1. i \in 1..n - (k + 1) + 1 /\ (k + 1) + i - 1 = k + i
      BY <1>1, <2>3
    <3> QED BY <2>2, <3>1
  <2>5. Len(b) = n - k
    <3>1. (k + 1 <= n \/ n = k) /\ k \in Nat
      BY <1>1
    <3> HIDE DEF n
    <3> QED BY <1>1, <2>2, <2>3, <3>1
  <2> QED BY <2>2, <2>4, <2>5
<1> HIDE DEF a, b
<1>4. /\ r \in Seq(Weight) /\ Len(r) = n - 1
      /\ \A i \in 1..n - 1 : r[i] = IF i <= k - 1 THEN a[i] ELSE b[i - (k - 1)]
  <2>1. /\ r \in Seq(Weight) /\ Len(r) = Len(a) + Len(b)
        /\ \A i \in 1..Len(a) + Len(b) : r[i] = IF i <= Len(a) THEN a[i] ELSE b[i - Len(a)]
    BY <1>2, <1>3, ConcatProperties
  <2>2. Len(a) + Len(b) = n - 1
    BY <1>1, <1>2, <1>3
  <2> HIDE DEF r
  <2> QED BY <1>2, <2>1, <2>2
<1> HIDE DEF r
<1>5. h \in Seq(Weight) /\ Len(h) = 1 /\ h[1] = s[k]
  BY <1>1
<1> HIDE DEF h
<1>6. /\ t \in Seq(Weight) /\ Len(t) = n
      /\ \A i \in 1..n : t[i] = IF i <= 1 THEN h[i] ELSE r[i - 1]
  <2>1. /\ t \in Seq(Weight) /\ Len(t) = Len(h) + Len(r)
        /\ \A i \in 1..Len(h) + Len(r) : t[i] = IF i <= Len(h) THEN h[i] ELSE r[i - Len(h)]
    BY <1>4, <1>5, ConcatProperties
  <2>2. Len(h) = 1 /\ Len(h) + Len(r) = n
    BY <1>1, <1>4, <1>5
  <2> HIDE DEF t
  <2> QED BY <2>1, <2>2
<1> HIDE DEF t
<1>7. t[1] = s[k]
  BY <1>1, <1>5, <1>6
<1>8. ASSUME NEW i \in 1..k - 1 PROVE t[i + 1] = s[i]
  <2>1. i + 1 \in 1..n /\ ~(i + 1 <= 1) /\ (i + 1) - 1 = i /\ i \in 1..n - 1 /\ i <= k - 1
    BY <1>1
  <2> QED BY <1>2, <1>4, <1>6, <2>1
<1>9. ASSUME NEW i \in k + 1..n PROVE t[i] = s[i]
  <2>1. /\ i \in 1..n /\ ~(i <= 1) /\ i - 1 \in 1..n - 1 /\ ~(i - 1 <= k - 1)
        /\ (i - 1) - (k - 1) \in 1..n - k /\ k + ((i - 1) - (k - 1)) = i
    BY <1>1
  <2>2. t[i] = b[(i - 1) - (k - 1)]
    BY <1>4, <1>6, <2>1
  <2>3. b[(i - 1) - (k - 1)] = s[k + ((i - 1) - (k - 1))]
    BY <1>3, <2>1
  <2> QED BY <2>1, <2>2, <2>3
<1>10. <<s[k]>> \o RemoveAt(s, k) = t
  BY DEF RemoveAt, t, h, r, a, b, n
<1> QED BY <1>6, <1>7, <1>8, <1>9, <1>10

LEMMA PutIs ==
  ASSUME NEW s \in Seq(Weight), NEW k \in 0..Len(s), NEW w \in Weight
  PROVE  LET t == <<w>> \o SubSeq(s, 1, k)
         IN  /\ t \in Seq(Weight) /\ Len(t) = k + 1 /\ t[1] = w
             /\ \A i \in 1..k : t[i + 1] = s[i]
<1> DEFINE a == SubSeq(s, 1, k)
           h == <<w>>
           t == h \o a
<1>1. Len(s) \in Nat /\ k \in Nat /\ \A i \in 1..Len(s) : s[i] \in Weight
  BY WeightAt
<1>2. /\ a \in Seq(Weight) /\ Len(a) = k /\ \A i \in 1..k : a[i] = s[i]
  <2>1. \A i \in 1..k : s[i] \in Weight
    BY <1>1
  <2>2. /\ a \in Seq(Weight) /\ Len(a) = IF 1 <= k THEN k - 1 + 1 ELSE 0
        /\ \A i \in 1..k - 1 + 1 : a[i] = s[1 + i - 1]
    BY <1>1, <2>1, SubSeqProperties
  <2>3. k - 1 + 1 = k /\ \A i \in 1..k : 1 + i - 1 = i
    BY <1>1
  <2> HIDE DEF a
  <2> QED BY <1>1, <2>2, <2>3
<1> HIDE DEF a
<1>3. h \in Seq(Weight) /\ Len(h) = 1 /\ h[1] = w
  OBVIOUS
<1> HIDE DEF h
<1>4. /\ t \in Seq(Weight) /\ Len(t) = 1 + k
      /\ \A i \in 1..1 + k : t[i] = IF i <= 1 THEN h[i] ELSE a[i - 1]
  <2>1. /\ t \in Seq(Weight) /\ Len(t) = Len(h) + Len(a)
        /\ \A i \in 1..Len(h) + Len(a) : t[i] = IF i <= Len(h) THEN h[i] ELSE a[i - Len(h)]
    BY <1>2, <1>3, ConcatProperties
  <2>2. Len(h) = 1 /\ Len(h) + Len(a) = 1 + k
    BY <1>1, <1>2, <1>3
  <2> HIDE DEF t
  <2> QED BY <2>1, <2>2
<1> HIDE DEF t
<1>5. ASSUME NEW i \in 1..k PROVE t[i + 1] = s[i]
  <2>1. i + 1 \in 1..1 + k /\ ~(i + 1 <= 1) /\ (i + 1) - 1 = i
    BY <1>1
  <2> QED BY <1>2, <1>4, <2>1
<1>6. 1 \in 1..1 + k /\ 1 + k = k + 1
  BY <1>1
<1>7. t[1] = w
  BY <1>3, <1>4, <1>6
<1> QED BY <1>4, <1>5, <1>6, <1>7 DEF t, a, h


NodesApart ==
  /\ \A i \in 1..Len(lruList) : lruList[i].node <= puts
  /\ \A i, j \in 1..Len(lruList) : lruList[i].node = lruList[j].node => i = j
MapLeads ==
  \A n \in DOMAIN cacheMap :
    /\ \E k \in 1..Len(lruList) : lruList[k].node = cacheMap[n] /\ lruList[k].name = n
    /\ \A k \in 1..Len(lruList) : lruList[k].name = n => lruList[k].node <= cacheMap[n]
BytesRight ==
  /\ bytesIn = SumSizes(lruList)
  /\ bytesIn <= MaxBytes \/ Len(lruList) = 1
WeightsInv ==
  puts \in Nat /\ lruList \in Seq(Weight) /\ NodesApart /\ MapLeads /\ BytesRight

LEMMA EmptyWeights ==
  ASSUME puts \in Nat, lruList = <<>>, cacheMap = <<>>, bytesIn = 0
  PROVE  WeightsInv
<1>1. lruList \in Seq(Weight) /\ Len(lruList) = 0
  OBVIOUS
<1>2. SumSizes(lruList) = 0
  BY <1>1, BytesToIs DEF SumSizes
<1>3. DOMAIN cacheMap = {}
  OBVIOUS
<1> QED BY <1>1, <1>2, <1>3, WeightsAssumption DEF WeightsInv, NodesApart, MapLeads, BytesRight

LEMMA WeightsAreSafe == WeightsInv => NewestIsServed
<1> SUFFICES ASSUME WeightsInv PROVE NewestIsServed
  OBVIOUS
<1>1. Range(lruList) = {lruList[k] : k \in 1..Len(lruList)}
  <2>1. DOMAIN lruList = 1..Len(lruList)
    BY DEF WeightsInv
  <2> QED BY <2>1 DEF Range
<1> QED BY <1>1 DEF NewestIsServed, WeightsInv, MapLeads, BytesRight

LEMMA GetWeightsStep ==
  ASSUME WeightsInv, NEW name \in WeightNames, GetWeights(name)
  PROVE  WeightsInv'
<1> DEFINE s == lruList
           n == Len(lruList)
           k == Position(cacheMap[name])
           t == <<s[k]>> \o RemoveAt(s, k)
<1>1. s \in Seq(Weight) /\ n \in Nat /\ puts \in Nat
  BY WeightAt DEF WeightsInv
<1>2. k \in 1..n
  <2>1. \E j \in 1..n : lruList[j].node = cacheMap[name]
    BY DEF GetWeights, WeightsInv, MapLeads
  <2> QED BY <2>1 DEF Position
<1>3. lruList' = t /\ UNCHANGED <<cacheMap, bytesIn, puts>>
  BY DEF GetWeights
<1> HIDE DEF k
<1>4. /\ t \in Seq(Weight) /\ Len(t) = n /\ t[1] = s[k]
      /\ \A i \in 1..k - 1 : t[i + 1] = s[i]
      /\ \A i \in k + 1..n : t[i] = s[i]
  BY <1>1, <1>2, MovedIs
<1> HIDE DEF t
<1> DEFINE from == [i \in 1..n |-> IF i = 1 THEN k ELSE IF i <= k THEN i - 1 ELSE i]
           to == [i \in 1..n |-> IF i = k THEN 1 ELSE IF i < k THEN i + 1 ELSE i]
<1>5. ASSUME NEW i \in 1..n PROVE from[i] \in 1..n /\ t[i] = s[from[i]]
  <2>1. CASE i = 1
    BY <1>1, <1>2, <1>4, <2>1
  <2>2. CASE i # 1 /\ i <= k
    <3>1. i - 1 \in 1..k - 1 /\ (i - 1) + 1 = i /\ from[i] = i - 1 /\ from[i] \in 1..n
      BY <1>1, <1>2, <2>2
    <3>2. t[(i - 1) + 1] = s[i - 1]
      BY <1>4, <3>1
    <3> QED BY <3>1, <3>2
  <2>3. CASE i # 1 /\ ~(i <= k)
    <3>1. i \in k + 1..n /\ from[i] = i
      BY <1>1, <1>2, <2>3
    <3> QED BY <1>4, <3>1
  <2> QED BY <2>1, <2>2, <2>3
<1>6. \A i, j \in 1..n : from[i] = from[j] => i = j
  BY <1>1, <1>2
<1>7. \A i \in 1..n : to[i] \in 1..n /\ from[to[i]] = i
  BY <1>1, <1>2
<1> HIDE DEF from, to
<1>8. NodesApart'
  <2>1. ASSUME NEW i \in 1..n PROVE t[i].node <= puts
    BY <1>5 DEF WeightsInv, NodesApart
  <2>2. ASSUME NEW i \in 1..n, NEW j \in 1..n, t[i].node = t[j].node PROVE i = j
    <3>1. s[from[i]].node = s[from[j]].node /\ from[i] \in 1..n /\ from[j] \in 1..n
      BY <1>5, <2>2
    <3>2. from[i] = from[j]
      BY <3>1 DEF WeightsInv, NodesApart
    <3> QED BY <1>6, <3>2
  <2> QED BY <1>3, <1>4, <2>1, <2>2 DEF NodesApart
<1>9. MapLeads'
  <2> SUFFICES ASSUME NEW a \in DOMAIN cacheMap
               PROVE  /\ \E i \in 1..n : t[i].node = cacheMap[a] /\ t[i].name = a
                      /\ \A i \in 1..n : t[i].name = a => t[i].node <= cacheMap[a]
    BY <1>3, <1>4 DEF MapLeads
  <2>1. PICK i \in 1..n : s[i].node = cacheMap[a] /\ s[i].name = a
    BY DEF WeightsInv, MapLeads
  <2>2. to[i] \in 1..n /\ t[to[i]] = s[i]
    BY <1>5, <1>7
  <2>3. \A j \in 1..n : t[j].name = a => t[j].node <= cacheMap[a]
    BY <1>5 DEF WeightsInv, MapLeads
  <2> QED BY <2>1, <2>2, <2>3
<1>10. BytesRight'
  <2>1. BytesTo(t)[k] = BytesTo(s)[k]
    <3>1. /\ k - 1 \in 0..n /\ (k - 1) + 1 <= n /\ k - 1 \in 0..(k - 1) /\ (k - 1) + 1 = k
          /\ s[k] \in Weight
      BY <1>1, <1>2, WeightAt
    <3>2. \A i \in 0..k - 1 : BytesTo(t)[i + 1] = s[k].size + BytesTo(s)[i]
      BY <1>1, <1>4, <3>1, BytesShift
    <3>3. BytesTo(t)[k] = s[k].size + BytesTo(s)[k - 1]
      BY <3>1, <3>2
    <3>4. BytesTo(s)[k] = BytesTo(s)[k - 1] + s[k].size
      BY <1>1, <1>2, BytesToIs
    <3>5. BytesTo(s)[k - 1] \in Nat /\ s[k].size \in Nat
      BY <1>1, <1>2, <3>1, BytesToNat, WeightAt
    <3> QED BY <3>3, <3>4, <3>5
  <2>2. SumSizes(t) = SumSizes(s)
    <3>1. k \in 0..n
      BY <1>1, <1>2
    <3> QED BY <1>1, <1>4, <2>1, <3>1, BytesSame
  <2> QED BY <1>3, <1>4, <2>2 DEF WeightsInv, BytesRight
<1> QED BY <1>1, <1>3, <1>4, <1>8, <1>9, <1>10 DEF WeightsInv

LEMMA MaxIsIn ==
  ASSUME NEW n \in Nat, NEW T, T \subseteq 0..n, T # {}
  PROVE  Max(T) \in T
<1> DEFINE D == {n - x : x \in T}
<1>1. D \subseteq Nat /\ D # {}
  <2>1. \A x \in T : n - x \in Nat
    OBVIOUS
  <2>2. PICK x \in T : TRUE
    OBVIOUS
  <2> QED BY <2>1, <2>2
<1>2. PICK d \in D : \A y \in D : d <= y
  <2> HIDE DEF D
  <2> QED BY <1>1, LeastNatural
<1>3. PICK x \in T : d = n - x
  BY <1>2
<1>4. \A y \in T : x >= y
  <2> SUFFICES ASSUME NEW y \in T PROVE x >= y
    OBVIOUS
  <2>1. n - x <= n - y
    BY <1>2, <1>3
  <2>2. x \in Nat /\ y \in Nat
    OBVIOUS
  <2> QED BY <2>1, <2>2
<1> QED BY <1>4, Zenon DEF Max

(* How many nodes stay when a weight is put: those that fit beside it.       *)
LEMMA StayingIs ==
  ASSUME Len(lruList) \in Nat, NEW size
  PROVE  /\ Staying(size) \in 0..Len(lruList)
         /\ Staying(size) = 0 \/ BytesLeft(Staying(size)) + size <= MaxBytes
<1> DEFINE T == {0} \cup {k \in 1..Len(lruList) : BytesLeft(k) + size <= MaxBytes}
<1>1. T \subseteq 0..Len(lruList) /\ T # {}
  OBVIOUS
<1>2. Staying(size) = Max(T)
  BY DEF Staying
<1>3. \A x \in T : x = 0 \/ BytesLeft(x) + size <= MaxBytes
  BY Zenon
<1> HIDE DEF T
<1>4. Max(T) \in T
  BY <1>1, MaxIsIn
<1> QED BY <1>1, <1>2, <1>3, <1>4

LEMMA PutStep ==
  ASSUME WeightsInv, NEW name \in WeightNames, NEW size \in WeightSizes, Put(name, size)
  PROVE  WeightsInv'
<1> DEFINE s == lruList
           k == Staying(size)
           w == Node(name, size)
           t == <<w>> \o SubSeq(s, 1, k)
           left == DOMAIN cacheMap \ {s[j].name : j \in k + 1..Len(s)}
<1>1. /\ s \in Seq(Weight) /\ Len(s) \in Nat /\ puts \in Nat /\ size \in Nat /\ MaxBytes \in Nat
      /\ bytesIn = SumSizes(s)
      /\ \A i \in 1..Len(s) : s[i].node \in Nat /\ s[i].node <= puts
  BY WeightAt, WeightsAssumption DEF WeightsInv, NodesApart, BytesRight
<1>2. k \in 0..Len(s) /\ (k = 0 \/ BytesLeft(k) + size <= MaxBytes)
  BY <1>1, StayingIs
<1>3. w \in Weight /\ w.node = puts + 1 /\ w.name = name /\ w.size = size
  BY <1>1 DEF Node, Weight
<1>4. /\ lruList' = t /\ bytesIn' = BytesLeft(k) + size /\ puts' = puts + 1
      /\ cacheMap' = [n \in left \cup {name} |-> IF n = name THEN puts + 1 ELSE cacheMap[n]]
  BY DEF Put
<1> HIDE DEF k, w
<1>5. /\ t \in Seq(Weight) /\ Len(t) = k + 1 /\ t[1] = w
      /\ \A i \in 1..k : t[i + 1] = s[i]
  BY <1>1, <1>2, <1>3, PutIs
<1> HIDE DEF t
<1>6. ASSUME NEW i \in 1..k + 1
      PROVE  (i = 1 /\ t[i] = w) \/ (i # 1 /\ i - 1 \in 1..k /\ i - 1 \in 1..Len(s) /\ t[i] = s[i - 1])
  <2>1. CASE i # 1
    <3>1. i - 1 \in 1..k /\ i - 1 \in 1..Len(s) /\ (i - 1) + 1 = i
      BY <1>1, <1>2, <2>1
    <3> QED BY <1>5, <2>1, <3>1
  <2> QED BY <1>5, <2>1
<1>7. ASSUME NEW i \in 1..k + 1 PROVE t[i].node <= puts + 1
  BY <1>1, <1>3, <1>6
<1>8. NodesApart'
  <2>2. ASSUME NEW i \in 1..k + 1, NEW j \in 1..k + 1, t[i].node = t[j].node PROVE i = j
    <3>1. CASE i = 1 /\ j # 1
      BY <1>1, <1>3, <1>6, <2>2, <3>1
    <3>2. CASE i # 1 /\ j = 1
      BY <1>1, <1>3, <1>6, <2>2, <3>2
    <3>3. CASE i # 1 /\ j # 1
      <4>1. i - 1 \in 1..Len(s) /\ j - 1 \in 1..Len(s) /\ s[i - 1].node = s[j - 1].node
        BY <1>6, <2>2, <3>3
      <4>2. i - 1 = j - 1
        BY <4>1 DEF WeightsInv, NodesApart
      <4> QED BY <1>2, <4>2
    <3> QED BY <3>1, <3>2, <3>3
  <2> QED BY <1>4, <1>5, <1>7, <2>2 DEF NodesApart
<1>9. MapLeads'
  <2> SUFFICES ASSUME NEW a \in left \cup {name}
               PROVE  /\ \E i \in 1..k + 1 : t[i].node = cacheMap'[a] /\ t[i].name = a
                      /\ \A i \in 1..k + 1 : t[i].name = a => t[i].node <= cacheMap'[a]
    BY <1>4, <1>5 DEF MapLeads
  <2>1. CASE a = name
    <3>1. cacheMap'[a] = puts + 1 /\ 1 \in 1..k + 1
      BY <1>2, <1>4, <2>1
    <3> QED BY <1>3, <1>5, <1>7, <2>1, <3>1
  <2>2. CASE a # name
    <3>1. cacheMap'[a] = cacheMap[a] /\ a \in left
      BY <1>4, <2>2
    <3>2. /\ a \in DOMAIN cacheMap
          /\ \A j \in k + 1..Len(s) : s[j].name # a
      BY <3>1
    <3>3. PICK j \in 1..Len(s) : s[j].node = cacheMap[a] /\ s[j].name = a
      BY <3>2 DEF WeightsInv, MapLeads
    <3>4. j \in 1..k /\ j + 1 \in 1..k + 1
      BY <1>1, <1>2, <3>2, <3>3
    <3>5. t[j + 1] = s[j]
      BY <1>5, <3>4
    <3>6. \A i \in 1..Len(s) : s[i].name = a => s[i].node <= cacheMap[a]
      BY <3>2 DEF WeightsInv, MapLeads
    <3>7. ASSUME NEW i \in 1..k + 1, t[i].name = a PROVE t[i].node <= cacheMap[a]
      BY <1>3, <1>6, <2>2, <3>6, <3>7
    <3> QED BY <3>1, <3>3, <3>4, <3>5, <3>7
  <2> QED BY <2>1, <2>2
<1>10. BytesRight'
  <2>1. BytesTo(s)[k] \in Nat /\ BytesTo(s)[Len(s)] \in Nat
    BY <1>1, <1>2, BytesToNat
  <2>2. BytesLeft(k) = BytesTo(s)[k]
    BY <1>1, <2>1 DEF BytesLeft, SumSizes
  <2>3. k + 1 <= Len(t) /\ k \in 0..k
    BY <1>2, <1>5
  <2>4. BytesTo(t)[k + 1] = w.size + BytesTo(s)[k]
    BY <1>1, <1>2, <1>3, <1>5, <2>3, BytesShift
  <2>5. bytesIn' = SumSizes(t)
    BY <1>1, <1>3, <1>4, <1>5, <2>1, <2>2, <2>4 DEF SumSizes
  <2>6. bytesIn' <= MaxBytes \/ Len(t) = 1
    BY <1>2, <1>4, <1>5
  <2> QED BY <1>4, <2>5, <2>6 DEF BytesRight
<1>11. lruList' \in Seq(Weight) /\ puts' \in Nat
  BY <1>1, <1>4, <1>5
<1> QED BY <1>8, <1>9, <1>10, <1>11 DEF WeightsInv

LEMMA WeightsStep == WeightsInv /\ [WeightsNext]_weightVars => WeightsInv'
<1> SUFFICES ASSUME WeightsInv, [WeightsNext]_weightVars PROVE WeightsInv'
  OBVIOUS
<1>1. CASE ClearWeights
  <2>1. /\ puts' \in Nat /\ lruList' = <<>> /\ cacheMap' = <<>> /\ bytesIn' = 0
    BY <1>1 DEF ClearWeights, WeightsInv
  <2>2. (puts \in Nat /\ lruList = <<>> /\ cacheMap = <<>> /\ bytesIn = 0 => WeightsInv)'
    BY EmptyWeights, PTL
  <2> QED BY <2>1, <2>2
<1>2. CASE UNCHANGED weightVars
  BY <1>2 DEF weightVars, WeightsInv, NodesApart, MapLeads, BytesRight
<1> QED BY <1>1, <1>2, PutStep, GetWeightsStep DEF WeightsNext

-----------------------------------------------------------------------------
(* The shard on disk *)

ShardTypes ==
  /\ file \in [header : Int, floats : Nat, of : Nat]
  /\ writer \in [by : {"nobody", "caller", "thread"}, size : Nat, of : Nat]
  /\ whole \in [of : Nat, size : Nat]
  /\ saving \in BOOLEAN /\ saveNo \in Nat
NeverPastHeader == file = Absent \/ (file.floats <= file.header)
WhileWriting ==
  writer # Quiet => /\ writer.of = saveNo /\ file.of = saveNo /\ writer.size > 0
                    /\ file # Absent /\ file.header \in {0, writer.size}
WhenQuiet ==
  writer = Quiet =>
    /\ ~saving
    /\ whole.of > 0 => file = [header |-> whole.size, floats |-> whole.size, of |-> saveNo]
ShardInv == ShardTypes /\ NeverPastHeader /\ WhileWriting /\ WhenQuiet

LEMMA BeginSaveStep ==
  ASSUME ShardInv, NEW size \in ShardSizes, NEW by \in {"caller", "thread"},
         BeginSave(by, size), saving' \in BOOLEAN
  PROVE  ShardInv'
<1>1. size \in Nat \ {0}
  BY CheckpointsAssumption
<1>2. ShardTypes'
  BY <1>1 DEF ShardInv, ShardTypes, BeginSave
<1>3. writer' # Quiet /\ file' # Absent
  <2>1. writer'.by # "nobody" /\ file'.header # -1
    BY DEF BeginSave
  <2> QED BY <2>1 DEF Quiet, Absent
<1>4. NeverPastHeader'
  BY DEF BeginSave, NeverPastHeader
<1>5. WhileWriting'
  BY <1>1, <1>3 DEF BeginSave, WhileWriting, Absent
<1>6. WhenQuiet'
  BY <1>3 DEF WhenQuiet, Quiet
<1> QED BY <1>2, <1>4, <1>5, <1>6 DEF ShardInv

(* A step of a save keeps what is on the disk in front of the               *)
(* header and ends a save only with all of it written.                       *)
LEMMA ShardStep == ShardInv /\ [ShardNext]_shardVars => ShardInv'
<1> SUFFICES ASSUME ShardInv, [ShardNext]_shardVars PROVE ShardInv'
  OBVIOUS
<1>1. CASE \E size \in ShardSizes : SaveShard(size) \/ SaveAsync(size)
  <2>1. PICK size \in ShardSizes : SaveShard(size) \/ SaveAsync(size)
    BY <1>1
  <2>2. CASE SaveShard(size)
    <3>1. saving' \in BOOLEAN
      BY <2>2 DEF SaveShard, ShardInv, ShardTypes
    <3> QED BY <2>2, <3>1, BeginSaveStep DEF SaveShard
  <2>3. CASE SaveAsync(size)
    BY <2>3, BeginSaveStep DEF SaveAsync
  <2> QED BY <2>1, <2>2, <2>3
<1>2. CASE WriteShard
  <2>1. /\ writer # Quiet /\ UNCHANGED <<writer, saving, saveNo, whole>>
        /\ writer.of = saveNo /\ file.of = saveNo /\ writer.size > 0 /\ file # Absent
    BY <1>2 DEF WriteShard, ShardInv, WhileWriting
  <2>2. \/ file.header = 0 /\ file' = [file EXCEPT !.header = writer.size]
        \/ /\ file.header > 0 /\ file.floats < writer.size
           /\ file' = [file EXCEPT !.floats = file.floats + 1]
    BY <1>2 DEF WriteShard
  <2>3. ShardTypes'
    BY <2>1, <2>2 DEF ShardInv, ShardTypes
  <2>4. file'.header = writer.size /\ file'.floats <= writer.size /\ file'.of = saveNo
    BY <2>1, <2>2 DEF ShardInv, ShardTypes, NeverPastHeader, WhileWriting
  <2>5. file' # Absent
    BY <2>1, <2>4 DEF ShardInv, ShardTypes, Absent
  <2> QED BY <2>1, <2>3, <2>4, <2>5 DEF ShardInv, NeverPastHeader, WhileWriting, WhenQuiet, Quiet
<1>3. CASE EndSave
  <2>1. /\ writer # Quiet /\ file.floats = writer.size /\ UNCHANGED <<file, saveNo>>
        /\ whole' = [of |-> writer.of, size |-> writer.size] /\ writer' = Quiet /\ saving' = FALSE
    BY <1>3 DEF EndSave
  <2>2. ShardTypes'
    BY <2>1 DEF ShardInv, ShardTypes, Quiet
  <2>3. file = [header |-> writer.size, floats |-> writer.size, of |-> saveNo]
    BY <2>1 DEF ShardInv, ShardTypes, NeverPastHeader, WhileWriting
  <2>4. WhenQuiet'
    BY <2>1, <2>3 DEF WhenQuiet
  <2> QED BY <2>1, <2>2, <2>4 DEF ShardInv, NeverPastHeader, WhileWriting
<1>4. CASE CrashSaving
  <2>1. /\ writer' = Quiet /\ ~saving' /\ saving' \in BOOLEAN
        /\ whole' = [of |-> 0, size |-> 0] /\ UNCHANGED <<file, saveNo>>
    BY <1>4 DEF CrashSaving
  <2>2. ShardTypes'
    BY <2>1 DEF ShardInv, ShardTypes, Quiet
  <2>3. ~(whole'.of > 0)
    BY <2>1
  <2> QED BY <2>1, <2>2, <2>3 DEF ShardInv, NeverPastHeader, WhileWriting, WhenQuiet
<1>5. CASE UNCHANGED shardVars
  BY <1>5 DEF shardVars, ShardInv, ShardTypes, NeverPastHeader, WhileWriting, WhenQuiet
<1> QED BY <1>1, <1>2, <1>3, <1>4, <1>5 DEF ShardNext

LEMMA ShardIsSafe == ShardInv => ShardIsWhole
<1> SUFFICES ASSUME ShardInv PROVE ShardIsWhole
  OBVIOUS
<1>1. ASSUME NEW room \in ShardSizes PROVE LoadShard(room).floats <= room
  BY CheckpointsAssumption DEF LoadShard, ShardInv, ShardTypes, NeverPastHeader
<1>2. ASSUME writer = Quiet, whole.of > 0, NEW room \in ShardSizes
      PROVE  LoadShard(room) = IF room < whole.size THEN [ok |-> FALSE, floats |-> 0, of |-> 0]
                               ELSE [ok |-> TRUE, floats |-> whole.size, of |-> saveNo]
  <2>1. file = [header |-> whole.size, floats |-> whole.size, of |-> saveNo] /\ whole.size \in Nat
    BY <1>2 DEF ShardInv, WhenQuiet, ShardTypes
  <2>2. file # Absent /\ file.header = whole.size /\ file.floats = whole.size /\ file.of = saveNo
    BY <2>1 DEF Absent
  <2> QED BY <2>1, <2>2, CheckpointsAssumption DEF LoadShard
<1> QED BY <1>1, <1>2 DEF ShardIsWhole, ShardInv, WhenQuiet

LEMMA ShardStart == ShardInit => ShardInv
<1> SUFFICES ASSUME ShardInit PROVE ShardInv
  OBVIOUS
<1>1. ShardTypes
  <2>1. Absent \in [header : Int, floats : Nat, of : Nat]
    BY DEF Absent
  <2>2. Quiet \in [by : {"nobody", "caller", "thread"}, size : Nat, of : Nat]
    BY DEF Quiet
  <2> QED BY <2>1, <2>2 DEF ShardInit, ShardTypes
<1>2. ~(whole.of > 0)
  BY DEF ShardInit
<1> QED BY <1>1, <1>2 DEF ShardInit, ShardInv, NeverPastHeader, WhileWriting, WhenQuiet

-----------------------------------------------------------------------------
(* The checkpoints of the trainer *)

FieldsOf(f, s) ==
  /\ Len(f) \in 0..3
  /\ Len(f) >= 1 => f[1] = s
  /\ Len(f) >= 2 => f[2] \in Int
CkptsOf(c, l) ==
  \A n \in DOMAIN c : /\ n[1] \in Nat /\ FieldsOf(c[n].fields, n[1])
                      /\ c[n].life \in Nat /\ c[n].life <= l
Improving(c) ==
  \A n, m \in DOMAIN c :
    /\ Len(c[n].fields) = 3 /\ Len(c[m].fields) = 3
    /\ c[n].life = c[m].life /\ m[2] = ".best" /\ n[1] < m[1]
    => c[m].fields[2] < c[n].fields[2]
ThisLife(c, l, s, b) ==
  \A n \in DOMAIN c :
    c[n].life = l => n[1] <= s /\ (Len(c[n].fields) = 3 => b <= c[n].fields[2])
TrainerTypes == step \in Nat /\ best \in Int /\ life \in Nat
TrainerInv ==
  TrainerTypes /\ CkptsOf(ckpts, life) /\ Improving(ckpts) /\ ThisLife(ckpts, life, step, best)

LEMMA TrainerStart == TrainerInit => TrainerInv
  BY CheckpointsAssumption DEF TrainerInit, TrainerInv, TrainerTypes, CkptsOf, Improving, ThisLife

LEMMA TrainerIsSafe == TrainerInv => CheckpointsImprove
<1> SUFFICES ASSUME TrainerInv PROVE CheckpointsImprove
  OBVIOUS
<1>1. ASSUME NEW n \in DOMAIN ckpts, Len(ckpts[n].fields) = 3 PROVE ckpts[n].fields[1] = n[1]
  BY <1>1 DEF TrainerInv, CkptsOf, FieldsOf
<1> QED BY <1>1 DEF CheckpointsImprove, TrainerInv, Improving, ThisLife

(* What is on the disk after a save is new or was there.                     *)
LEMMA StoredIs ==
  ASSUME NEW F, NEW n \in DOMAIN Stored(F)
  PROVE  \/ \E f \in F : f.name = n /\ Stored(F)[n] = f.file
         \/ n \in DOMAIN ckpts /\ Stored(F)[n] = ckpts[n]
<1>1. DOMAIN Stored(F) = DOMAIN ckpts \cup {f.name : f \in F}
  BY DEF Stored
<1>2. CASE \E f \in F : f.name = n
  <2>1. (CHOOSE f \in F : f.name = n) \in F /\ (CHOOSE f \in F : f.name = n).name = n
    BY <1>2
  <2>2. Stored(F)[n] = (CHOOSE f \in F : f.name = n).file
    BY <1>1, <1>2 DEF Stored
  <2> QED BY <2>1, <2>2
<1>3. CASE ~\E f \in F : f.name = n
  BY <1>1, <1>3 DEF Stored
<1> QED BY <1>2, <1>3

(* A file of step s, saved in this life, a .best one only if it is better.   *)
NewFile(f, s) ==
  /\ f.name[1] = s /\ f.file.life = life /\ FieldsOf(f.file.fields, s)
  /\ f.name[2] = ".best" => s > step /\ (Len(f.file.fields) = 3 => f.file.fields[2] < best)

LEMMA StoredKeeps ==
  ASSUME TrainerInv, NEW F, NEW s \in Nat, step <= s, \A f \in F : NewFile(f, s)
  PROVE  CkptsOf(Stored(F), life) /\ Improving(Stored(F))
<1> DEFINE c == Stored(F)
<1>1. step \in Nat /\ best \in Int /\ life \in Nat
  BY DEF TrainerInv, TrainerTypes
<1>2. ASSUME NEW n \in DOMAIN c
      PROVE  \/ \E f \in F : f.name = n /\ c[n] = f.file
             \/ n \in DOMAIN ckpts /\ c[n] = ckpts[n]
  BY StoredIs
<1> HIDE DEF c
<1>3. CkptsOf(c, life)
  BY <1>1, <1>2 DEF CkptsOf, NewFile, TrainerInv
<1>4. ASSUME NEW n \in DOMAIN c, NEW m \in DOMAIN c,
             Len(c[n].fields) = 3, Len(c[m].fields) = 3,
             c[n].life = c[m].life, m[2] = ".best", n[1] < m[1]
      PROVE  c[m].fields[2] < c[n].fields[2]
  <2>1. CASE n \in DOMAIN ckpts /\ c[n] = ckpts[n]
    <3>1. CASE m \in DOMAIN ckpts /\ c[m] = ckpts[m]
      BY <1>4, <2>1, <3>1 DEF TrainerInv, Improving
    <3>2. CASE \E f \in F : f.name = m /\ c[m] = f.file
      <4>1. PICK f \in F : f.name = m /\ c[m] = f.file
        BY <3>2
      <4>2. c[m].fields[2] < best /\ c[m].life = life /\ c[m].fields[2] \in Int
        BY <1>4, <4>1 DEF NewFile, FieldsOf
      <4>3. best <= c[n].fields[2] /\ c[n].fields[2] \in Int
        BY <1>4, <2>1, <4>2 DEF TrainerInv, ThisLife, CkptsOf, FieldsOf
      <4> QED BY <1>1, <4>2, <4>3
    <3> QED BY <1>2, <3>1, <3>2
  <2>2. CASE \E f \in F : f.name = n /\ c[n] = f.file
    <3>1. n[1] = s /\ c[n].life = life
      BY <2>2 DEF NewFile
    <3>2. CASE m \in DOMAIN ckpts /\ c[m] = ckpts[m]
      <4>1. m[1] <= step /\ m[1] \in Nat
        BY <1>4, <3>1, <3>2 DEF TrainerInv, ThisLife, CkptsOf
      <4> QED BY <1>1, <1>4, <3>1, <4>1
    <3>3. CASE \E f \in F : f.name = m /\ c[m] = f.file
      BY <1>4, <3>1, <3>3 DEF NewFile
    <3> QED BY <1>2, <3>2, <3>3
  <2> QED BY <1>2, <2>1, <2>2
<1>5. Improving(c)
  BY <1>4 DEF Improving
<1> QED BY <1>3, <1>5 DEF c

(* A header of three fields, and what a crash leaves of it.                  *)
LEMMA HeaderIs ==
  ASSUME NEW s \in Nat, NEW b \in Int
  PROVE  /\ Header(s, b).life = life
         /\ FieldsOf(Header(s, b).fields, s) /\ Header(s, b).fields[2] = b
         /\ \A cut \in 0..2 : /\ FieldsOf(SubSeq(Header(s, b).fields, 1, cut), s)
                              /\ Len(SubSeq(Header(s, b).fields, 1, cut)) # 3
<1> DEFINE f == <<s, b, model>>
           S == {s, b, model}
<1>1. /\ Header(s, b).life = life /\ Header(s, b).fields = f
      /\ Len(f) = 3 /\ f[1] = s /\ f[2] = b /\ f \in Seq(S)
  BY DEF Header
<1> HIDE DEF f, S
<1>2. ASSUME NEW cut \in 0..2
      PROVE  FieldsOf(SubSeq(f, 1, cut), s) /\ Len(SubSeq(f, 1, cut)) # 3
  <2>1. 1 \in 1..(Len(f) + 1) /\ cut \in 0..Len(f)
    BY <1>1
  <2>2. /\ Len(SubSeq(f, 1, cut)) = cut
        /\ \A i \in 1..cut : SubSeq(f, 1, cut)[i] = f[i]
    BY <1>1, <2>1, SubSeqProperties
  <2> QED BY <1>1, <2>2 DEF FieldsOf
<1> QED BY <1>1, <1>2 DEF FieldsOf

(* save_checkpoint is called for the periodic file, for the best one, or at  *)
(* the end.                                                                  *)
Periodic(s) == [name |-> <<s, "">>, file |-> Header(s, best)]
OfBest(s, loss) == [name |-> <<s, ".best">>, file |-> Header(s, loss)]

LEMMA FilesAre ==
  ASSUME NEW s, NEW loss
  PROVE  /\ Len(Files(s, loss)) \in Nat
         /\ \A k \in 1..Len(Files(s, loss)) :
              \/ Files(s, loss)[k] = Periodic(s)
              \/ Files(s, loss)[k] = OfBest(s, loss) /\ loss < best
<1> DEFINE p == Periodic(s)
           b == OfBest(s, loss)
           fs == (IF s % SaveEvery = 0 THEN <<p>> ELSE <<>>) \o (IF loss < best THEN <<b>> ELSE <<>>)
<1>1. Files(s, loss) = fs
  BY DEF Files, Periodic, OfBest
<1> HIDE DEF p, b
<1>2. Len(fs) \in Nat /\ \A k \in 1..Len(fs) : fs[k] = p \/ (fs[k] = b /\ loss < best)
  <2>1. CASE s % SaveEvery = 0 /\ loss < best
    <3>1. fs = <<p>> \o <<b>>
      BY <2>1
    <3>2. /\ <<p>> \in Seq({p, b}) /\ Len(<<p>>) = 1 /\ <<p>>[1] = p
          /\ <<b>> \in Seq({p, b}) /\ Len(<<b>>) = 1 /\ <<b>>[1] = b
      OBVIOUS
    <3>3. Len(fs) = 2 /\ fs[1] = p /\ fs[2] = b
      BY <3>1, <3>2, ConcatProperties
    <3> QED BY <2>1, <3>3
  <2>2. CASE s % SaveEvery = 0 /\ ~(loss < best)
    <3>1. fs = <<p>>
      BY <2>2
    <3> QED BY <2>2, <3>1
  <2>3. CASE ~(s % SaveEvery = 0) /\ loss < best
    <3>1. fs = <<b>>
      BY <2>3
    <3> QED BY <2>3, <3>1
  <2>4. CASE ~(s % SaveEvery = 0) /\ ~(loss < best)
    <3>1. fs = <<>>
      BY <2>4
    <3> QED BY <2>4, <3>1
  <2> QED BY <2>1, <2>2, <2>3, <2>4
<1> HIDE DEF fs
<1> QED BY <1>1, <1>2 DEF p, b

LEMMA PeriodicIsNew ==
  ASSUME TrainerTypes, NEW s \in Nat
  PROVE  NewFile(Periodic(s), s) /\ Periodic(s).file.fields[2] = best
<1>1. best \in Int
  BY DEF TrainerTypes
<1>2. /\ Header(s, best).life = life
      /\ FieldsOf(Header(s, best).fields, s) /\ Header(s, best).fields[2] = best
  BY <1>1, HeaderIs
<1>3. Periodic(s).name[1] = s /\ Periodic(s).name[2] = "" /\ Periodic(s).file = Header(s, best)
  BY DEF Periodic
<1> QED BY <1>2, <1>3 DEF NewFile

LEMMA OfBestIsNew ==
  ASSUME TrainerTypes, NEW s \in Nat, s > step, NEW loss \in Int, loss < best
  PROVE  NewFile(OfBest(s, loss), s) /\ OfBest(s, loss).file.fields[2] = loss
<1>1. /\ Header(s, loss).life = life
      /\ FieldsOf(Header(s, loss).fields, s) /\ Header(s, loss).fields[2] = loss
  BY HeaderIs
<1>2. OfBest(s, loss).name[1] = s /\ OfBest(s, loss).file = Header(s, loss)
  BY DEF OfBest
<1> QED BY <1>1, <1>2 DEF NewFile

LEMMA TrainStepKeeps ==
  ASSUME TrainerInv, NEW loss \in Losses, TrainStep(loss)
  PROVE  TrainerInv'
<1> DEFINE s == step + 1
           new == Files(s, loss)
           F == {new[k] : k \in 1..Len(new)}
           b == IF loss < best THEN loss ELSE best
<1>1. step \in Nat /\ best \in Int /\ life \in Nat /\ loss \in Int /\ s \in Nat /\ step < s
  BY CheckpointsAssumption DEF TrainerInv, TrainerTypes
<1>2. ckpts' = Stored(F) /\ step' = s /\ best' = b /\ life' = life
  BY DEF TrainStep
<1>3. b \in Int /\ b <= loss /\ b <= best
  BY <1>1
<1> HIDE DEF s, new, F, b
<1>4. ASSUME NEW f \in F PROVE NewFile(f, s) /\ b <= f.file.fields[2]
  <2>1. \/ f = Periodic(s)
        \/ f = OfBest(s, loss) /\ loss < best
    BY FilesAre DEF F, new
  <2> QED BY <1>1, <1>3, <2>1, PeriodicIsNew, OfBestIsNew DEF TrainerInv
<1>5. CkptsOf(Stored(F), life) /\ Improving(Stored(F))
  BY <1>1, <1>4, StoredKeeps
<1>6. ThisLife(Stored(F), life, s, b)
  <2> SUFFICES ASSUME NEW n \in DOMAIN Stored(F), Stored(F)[n].life = life
               PROVE  n[1] <= s /\ (Len(Stored(F)[n].fields) = 3 => b <= Stored(F)[n].fields[2])
    BY DEF ThisLife
  <2>1. CASE \E f \in F : f.name = n /\ Stored(F)[n] = f.file
    BY <1>1, <1>4, <2>1 DEF NewFile
  <2>2. CASE n \in DOMAIN ckpts /\ Stored(F)[n] = ckpts[n]
    <3>1. n[1] <= step /\ (Len(ckpts[n].fields) = 3 => best <= ckpts[n].fields[2])
      BY <2>2 DEF TrainerInv, ThisLife
    <3>2. n[1] \in Nat /\ (Len(ckpts[n].fields) = 3 => ckpts[n].fields[2] \in Int)
      BY <2>2 DEF TrainerInv, CkptsOf, FieldsOf
    <3> QED BY <1>1, <1>3, <2>2, <3>1, <3>2
  <2> QED BY <2>1, <2>2, StoredIs
<1> QED BY <1>1, <1>2, <1>3, <1>5, <1>6 DEF TrainerInv, TrainerTypes

LEMMA EndTrainingKeeps == TrainerInv /\ EndTraining => TrainerInv'
<1> SUFFICES ASSUME TrainerInv, EndTraining PROVE TrainerInv'
  OBVIOUS
<1> DEFINE F == {LastFile}
<1>1. step \in Nat /\ best \in Int /\ life \in Nat
  BY DEF TrainerInv, TrainerTypes
<1>2. ckpts' = Stored(F) /\ UNCHANGED <<step, best, life>>
  BY DEF EndTraining
<1>3. \A f \in F : NewFile(f, step) /\ f.file.fields[2] = best
  <2>1. LastFile = Periodic(step)
    BY DEF LastFile, Periodic
  <2> QED BY <1>1, <2>1, PeriodicIsNew DEF TrainerInv
<1> HIDE DEF F
<1>4. CkptsOf(Stored(F), life) /\ Improving(Stored(F))
  BY <1>1, <1>3, StoredKeeps
<1>5. ThisLife(Stored(F), life, step, best)
  BY <1>1, <1>3, StoredIs DEF TrainerInv, ThisLife, NewFile
<1> QED BY <1>1, <1>2, <1>4, <1>5 DEF TrainerInv, TrainerTypes

(* In a new life no checkpoint is of this life.                              *)
LEMMA NewLife ==
  ASSUME TrainerTypes, NEW c, CkptsOf(c, life), NEW s, NEW b
  PROVE  CkptsOf(c, life + 1) /\ ThisLife(c, life + 1, s, b)
  BY DEF TrainerTypes, CkptsOf, ThisLife

(* A file that is cut off keeps its name and some fields.                    *)
Saved(nm, h, l) == [name |-> nm, file |-> [fields |-> h, life |-> l]]
Cropped(h, cut) == SubSeq(h, 1, cut)
Cut(f, cut) == [f EXCEPT !.file.fields = SubSeq(@, 1, cut)]

LEMMA CutIs ==
  ASSUME NEW nm, NEW h, NEW l, NEW cut \in 0..2, NEW f, f = Saved(nm, h, l)
  PROVE  /\ Cut(f, cut).name = nm /\ Cut(f, cut).file.life = l
         /\ Cut(f, cut).file.fields = Cropped(h, cut)
<1> DEFINE x == SubSeq(f.file.fields, 1, cut)
<1>1. f.name = nm /\ f.file.life = l /\ f.file.fields = h
  BY DEF Saved
<1>2. x = SubSeq(h, 1, cut)
  BY <1>1
<1> HIDE DEF x
<1>3. [f EXCEPT !.file.fields = x] = [name |-> nm, file |-> [fields |-> x, life |-> l]]
  BY DEF Saved
<1>4. /\ [f EXCEPT !.file.fields = x].name = nm
      /\ [f EXCEPT !.file.fields = x].file.life = l
      /\ [f EXCEPT !.file.fields = x].file.fields = x
  BY <1>3
<1> QED BY <1>2, <1>4 DEF x, Cut, Cropped

LEMMA SavedIsNew ==
  ASSUME NEW s \in Nat, NEW b \in Int, NEW kind, NEW f, NEW cut \in 0..2,
         f = Saved(<<s, kind>>, Header(s, b).fields, life),
         kind = ".best" => s > step /\ b < best
  PROVE  NewFile(f, s) /\ NewFile(Cut(f, cut), s)
<1> DEFINE h == Header(s, b).fields
           nm == <<s, kind>>
<1>1. /\ FieldsOf(h, s) /\ h[2] = b
      /\ FieldsOf(Cropped(h, cut), s) /\ Len(Cropped(h, cut)) # 3
  BY HeaderIs DEF Cropped
<1>2. f = Saved(nm, h, life)
  OBVIOUS
<1>3. nm[1] = s /\ nm[2] = kind
  OBVIOUS
<1> HIDE DEF h, nm
<1>4. /\ Cut(f, cut).name = nm /\ Cut(f, cut).file.life = life
      /\ Cut(f, cut).file.fields = Cropped(h, cut)
  BY <1>2, CutIs
<1>5. f.name = nm /\ f.file.life = life /\ f.file.fields = h
  BY <1>2 DEF Saved
<1>6. NewFile(f, s)
  BY <1>1, <1>3, <1>5 DEF NewFile
<1>7. NewFile(Cut(f, cut), s)
  BY <1>1, <1>3, <1>4 DEF NewFile
<1> QED BY <1>6, <1>7

LEMMA CrashKeeps ==
  ASSUME TrainerInv, NEW new, Len(new) \in Nat, NEW s \in Nat, step <= s,
         \A k \in 1..Len(new) :
           \/ new[k] = Periodic(s)
           \/ \E loss \in Losses : s > step /\ loss < best /\ new[k] = OfBest(s, loss),
         CrashTraining(new)
  PROVE  TrainerInv'
<1>1. step \in Nat /\ best \in Int /\ life \in Nat /\ Losses \subseteq Int /\ Initial \in Int
  BY CheckpointsAssumption DEF TrainerInv, TrainerTypes
<1>2. PICK k \in 0..Len(new), cut \in 0..2 :
        /\ ckpts' = Stored({new[j] : j \in 1..k} \cup
              {[new[j] EXCEPT !.file.fields = SubSeq(@, 1, cut)] : j \in {k + 1} \cap (1..Len(new))})
        /\ Restarted
  BY DEF CrashTraining
<1> DEFINE F == {new[j] : j \in 1..k} \cup {Cut(new[j], cut) : j \in {k + 1} \cap (1..Len(new))}
<1>3. ASSUME NEW j \in 1..Len(new) PROVE NewFile(new[j], s) /\ NewFile(Cut(new[j], cut), s)
  <2> DEFINE f == new[j]
  <2>1. PICK kind \in {"", ".best"}, b \in Int :
          /\ f = Saved(<<s, kind>>, Header(s, b).fields, life)
          /\ kind = ".best" => s > step /\ b < best
    <3>1. CASE f = Periodic(s)
      BY <1>1, <3>1 DEF Periodic, Header, Saved
    <3>2. CASE \E loss \in Losses : s > step /\ loss < best /\ f = OfBest(s, loss)
      BY <1>1, <3>2 DEF OfBest, Header, Saved
    <3> QED BY <1>1, <3>1, <3>2
  <2> QED BY <2>1, SavedIsNew
<1>4. \A f \in F : NewFile(f, s)
  BY <1>3
<1>5. ckpts' = Stored(F)
  BY <1>2 DEF Cut
<1>6. step' = 0 /\ best' = Initial /\ life' = life + 1
  BY <1>2 DEF Restarted
<1> HIDE DEF F
<1>7. CkptsOf(ckpts', life) /\ Improving(ckpts')
  BY <1>1, <1>4, <1>5, StoredKeeps
<1>8. CkptsOf(ckpts', life') /\ ThisLife(ckpts', life', step', best')
  BY <1>6, <1>7, NewLife DEF TrainerInv
<1> QED BY <1>1, <1>6, <1>7, <1>8 DEF TrainerInv, TrainerTypes

LEMMA ResumeKeeps ==
  ASSUME TrainerInv, NEW name \in DOMAIN ckpts, Resume(name)
  PROVE  TrainerInv'
<1>1. step \in Nat /\ best \in Int /\ life \in Nat
  BY DEF TrainerInv, TrainerTypes
<1>2. FieldsOf(ckpts[name].fields, name[1]) /\ name[1] \in Nat
  BY DEF TrainerInv, CkptsOf
<1>3. step' \in Nat /\ best' \in Int /\ life' = life + 1 /\ ckpts' = ckpts
  BY <1>1, <1>2 DEF Resume, FieldsOf
<1>4. CkptsOf(ckpts, life + 1) /\ ThisLife(ckpts, life + 1, step', best')
  BY NewLife DEF TrainerInv
<1> QED BY <1>1, <1>3, <1>4 DEF TrainerInv, TrainerTypes

LEMMA TrainerStep == TrainerInv /\ [TrainerNext]_trainerVars => TrainerInv'
<1> SUFFICES ASSUME TrainerInv, [TrainerNext]_trainerVars PROVE TrainerInv'
  OBVIOUS
<1>1. step \in Nat /\ step + 1 \in Nat /\ step + 1 > step
  BY DEF TrainerInv, TrainerTypes
<1>2. ASSUME NEW loss \in Losses, CrashTraining(Files(step + 1, loss)) PROVE TrainerInv'
  <2>1. /\ Len(Files(step + 1, loss)) \in Nat
        /\ \A k \in 1..Len(Files(step + 1, loss)) :
             \/ Files(step + 1, loss)[k] = Periodic(step + 1)
             \/ Files(step + 1, loss)[k] = OfBest(step + 1, loss) /\ loss < best
    BY FilesAre
  <2> QED BY <1>1, <1>2, <2>1, CrashKeeps
<1>3. ASSUME CrashTraining(<<LastFile>>) PROVE TrainerInv'
  <2>1. Len(<<LastFile>>) = 1 /\ \A k \in 1..1 : <<LastFile>>[k] = Periodic(step)
    BY DEF LastFile, Periodic
  <2> QED BY <1>1, <1>3, <2>1, CrashKeeps
<1>4. CASE UNCHANGED trainerVars
  BY <1>4 DEF trainerVars, TrainerInv, TrainerTypes, CkptsOf, Improving, ThisLife
<1> QED BY <1>2, <1>3, <1>4, TrainStepKeeps, EndTrainingKeeps, ResumeKeeps DEF TrainerNext

-----------------------------------------------------------------------------
(* What was saved or cached is what comes back: prefixes, weights, shards    *)
(* and checkpoints, for any sizes, any number of calls and any crash         *)
(* (RecoversSaved).                                                          *)
THEOREM SavedComesBack == Spec => []RecoversSaved
<1> DEFINE Inv == /\ IF focus = "prefixes" THEN PrefixInv ELSE PrefixIsLatest
                  /\ WeightsInv /\ ShardInv /\ TrainerInv
<1>1. Init => Inv
  <2> SUFFICES ASSUME Init PROVE Inv
    OBVIOUS
  <2>1. PrefixInv
    BY PrefixStart DEF Init
  <2>2. WeightsInv
    BY EmptyWeights DEF Init, WeightsInit
  <2> QED BY <2>1, <2>2, PrefixIsSafe, ShardStart, TrainerStart DEF Init
<1>2. Inv /\ [Next]_vars => Inv'
  <2> SUFFICES ASSUME Inv, [Next]_vars PROVE Inv'
    OBVIOUS
  <2>1. WeightsInv' /\ ShardInv' /\ TrainerInv'
    BY Projection, WeightsStep, ShardStep, TrainerStep
  <2>2. CASE focus = "prefixes"
    BY <2>1, <2>2, Projection, PrefixStep
  <2>3. CASE focus # "prefixes"
    <3>1. UNCHANGED prefixVars /\ UNCHANGED focus
      BY <2>3, Projection
    <3>2. PrefixIsLatest'
      BY <2>3, <3>1 DEF prefixVars, PrefixIsLatest, Found
    <3> QED BY <2>1, <2>3, <3>1, <3>2
  <2> QED BY <2>2, <2>3
<1>3. Inv => RecoversSaved
  BY PrefixIsSafe, WeightsAreSafe, ShardIsSafe, TrainerIsSafe DEF RecoversSaved
<1> QED BY <1>1, <1>2, <1>3, PTL DEF Spec

=============================================================================
