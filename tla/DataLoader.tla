----------------------------- MODULE DataLoader -----------------------------
(***************************************************************************)
(* DataLoader and its SampleQueue (data/dataloader.hpp): prefetch workers, *)
(* threads that call get_batch, and the thread that calls start and stop.  *)
(*                                                                         *)
(* A thread inside SampleQueue::push or pop is at one of these points:     *)
(*   "acquire"  wants mtx_ (first call, or woken inside cv_.wait)          *)
(*   "test"     holds mtx_, about to evaluate the predicate of cv_.wait    *)
(*   "block"    holds mtx_, found the predicate false, not asleep yet      *)
(*   "wait"     asleep on cv_, mtx_ released                               *)
(* so mtx_ is held iff a thread is at "test" or "block".  set_finished     *)
(* takes no mutex: it can run while a thread is at "block".                *)
(***************************************************************************)
EXTENDS Naturals, Sequences, FiniteSets

CONSTANTS
  Workers,     \* worker threads (num_workers_)
  Consumers,   \* threads that call get_batch
  Capacity,    \* max_size_ = prefetch * batch_size
  BatchSize,   \* batch_size_
  Tags,        \* samples of a worker are numbered modulo Tags
  MaxQueue     \* bound: no push starts on a queue of this length or more

ASSUME LoaderAssumption ==
  /\ Workers \cap Consumers = {}
  /\ IsFiniteSet(Workers)
  /\ Capacity \in Nat \ {0} /\ BatchSize \in Nat \ {0}
  /\ Tags \in Nat \ {0} /\ MaxQueue \in Nat

VARIABLES
  queue,     \* SampleQueue::queue_, of samples <<worker, number>>
  finished,  \* SampleQueue::finished_
  running,   \* DataLoader::running_
  pc,        \* where each worker and each consumer is
  rows,      \* b of get_batch: rows filled so far, per consumer
  result,    \* what the last get_batch of each consumer returned
  ctl,       \* where the thread that calls start and stop is
  made,      \* history: samples each worker pushed, modulo Tags
  taken,     \* history: samples of each worker that were popped, modulo Tags
  reused     \* history: start was called on a queue already finished

qvars == <<queue, finished>>
vars == <<queue, finished, running, pc, rows, result, ctl, made, taken, reused>>

Threads == Workers \cup Consumers
Samples == Workers \X (0..(Tags - 1))
Points == {"none", "open", "loop", "exited", "idle",
           "acquire", "test", "block", "wait"}

Init ==
  /\ queue = <<>> /\ finished = FALSE /\ running = FALSE
  /\ pc = [t \in Threads |-> IF t \in Workers THEN "none" ELSE "idle"]
  /\ rows = [c \in Consumers |-> 0]
  /\ result = [c \in Consumers |-> "none"]
  /\ ctl = "idle"
  /\ made = [w \in Workers |-> 0]
  /\ taken = [w \in Workers |-> 0]
  /\ reused = FALSE

-----------------------------------------------------------------------------
(* std::mutex and std::condition_variable *)

MutexFree == \A t \in Threads : pc[t] \notin {"test", "block"}

Acquire(t) ==
  /\ pc[t] = "acquire"
  /\ MutexFree
  /\ pc' = [pc EXCEPT ![t] = "test"]
  /\ UNCHANGED <<queue, finished, running, rows, result, ctl, made, taken, reused>>

(* cv_.wait gives up the mutex and falls asleep in one step.                 *)
Block(t) ==
  /\ pc[t] = "block"
  /\ pc' = [pc EXCEPT ![t] = "wait"]
  /\ UNCHANGED <<queue, finished, running, rows, result, ctl, made, taken, reused>>

SpuriousWakeup(t) ==
  /\ pc[t] = "wait"
  /\ pc' = [pc EXCEPT ![t] = "acquire"]
  /\ UNCHANGED <<queue, finished, running, rows, result, ctl, made, taken, reused>>

(* cv_.notify_one wakes any one sleeper, a worker or a consumer.             *)
NotifyOne(p) ==
  LET sleeping == {t \in Threads : p[t] = "wait"}
  IN IF sleeping = {} THEN {p} ELSE {[p EXCEPT ![t] = "acquire"] : t \in sleeping}

NotifyAll(p) == [t \in Threads |-> IF p[t] = "wait" THEN "acquire" ELSE p[t]]

-----------------------------------------------------------------------------
(* Worker threads: worker_fn and SampleQueue::push *)

(* A worker that cannot open the data file returns at once.                  *)
Open(w) ==
  /\ pc[w] = "open"
  /\ \E next \in {"loop", "exited"} : pc' = [pc EXCEPT ![w] = next]
  /\ UNCHANGED <<queue, finished, running, rows, result, ctl, made, taken, reused>>

(* while (running_) ... push: the flag is read with no lock.                 *)
Loop(w) ==
  /\ pc[w] = "loop"
  /\ running => Len(queue) < MaxQueue
  /\ pc' = [pc EXCEPT ![w] = IF running THEN "acquire" ELSE "exited"]
  /\ UNCHANGED <<queue, finished, running, rows, result, ctl, made, taken, reused>>

BugCanPush == Len(queue) <= Capacity \/ finished   \* mutant: off by one
CanPush == Len(queue) < Capacity \/ finished

BugPush(w) ==                                 \* mutant: push notifies nobody
  /\ pc[w] = "test"
  /\ CanPush
  /\ queue' = Append(queue, <<w, made[w]>>)
  /\ made' = [made EXCEPT ![w] = (@ + 1) % Tags]
  /\ pc' = [pc EXCEPT ![w] = "loop"]
  /\ UNCHANGED <<finished, running, rows, result, ctl, taken, reused>>

Push(w) ==
  /\ pc[w] = "test"
  /\ CanPush
  /\ queue' = Append(queue, <<w, made[w]>>)
  /\ made' = [made EXCEPT ![w] = (@ + 1) % Tags]
  /\ pc' \in NotifyOne([pc EXCEPT ![w] = "loop"])
  /\ UNCHANGED <<finished, running, rows, result, ctl, taken, reused>>

BugPushMustWait(w) ==                         \* mutant: a full queue drops the sample
  /\ pc[w] = "test"
  /\ ~CanPush
  /\ made' = [made EXCEPT ![w] = (@ + 1) % Tags]
  /\ pc' = [pc EXCEPT ![w] = "loop"]
  /\ UNCHANGED <<queue, finished, running, rows, result, ctl, taken, reused>>

PushMustWait(w) ==
  /\ pc[w] = "test"
  /\ ~CanPush
  /\ pc' = [pc EXCEPT ![w] = "block"]
  /\ UNCHANGED <<queue, finished, running, rows, result, ctl, made, taken, reused>>

-----------------------------------------------------------------------------
(* Consumer threads: get_batch and SampleQueue::pop *)

BeginBatch(c) ==
  /\ pc[c] = "idle"
  /\ pc' = [pc EXCEPT ![c] = "acquire"]
  /\ rows' = [rows EXCEPT ![c] = 0]
  /\ result' = [result EXCEPT ![c] = "none"]
  /\ UNCHANGED <<queue, finished, running, ctl, made, taken, reused>>

BugCanPop == TRUE                             \* mutant: wait without a predicate
CanPop == queue # <<>> \/ finished

(* pop returns true; get_batch returns when it has batch_size_ rows.         *)
Pop(c) ==
  /\ pc[c] = "test"
  /\ queue # <<>>
  /\ LET full == rows[c] + 1 = BatchSize
     IN /\ pc' \in NotifyOne([pc EXCEPT ![c] = IF full THEN "idle" ELSE "acquire"])
        /\ result' = [result EXCEPT ![c] = IF full THEN "full" ELSE @]
  /\ rows' = [rows EXCEPT ![c] = @ + 1]
  /\ queue' = Tail(queue)
  /\ taken' = [taken EXCEPT ![Head(queue)[1]] = (@ + 1) % Tags]
  /\ UNCHANGED <<finished, running, ctl, made, reused>>

(* pop returns false: get_batch returns false, or true with a short batch.   *)
PopNothing(c) ==
  /\ pc[c] = "test"
  /\ CanPop /\ queue = <<>>
  /\ pc' = [pc EXCEPT ![c] = "idle"]
  /\ result' = [result EXCEPT ![c] = IF rows[c] = 0 THEN "empty" ELSE "short"]
  /\ UNCHANGED <<queue, finished, running, rows, ctl, made, taken, reused>>

PopMustWait(c) ==
  /\ pc[c] = "test"
  /\ ~CanPop
  /\ pc' = [pc EXCEPT ![c] = "block"]
  /\ UNCHANGED <<queue, finished, running, rows, result, ctl, made, taken, reused>>

-----------------------------------------------------------------------------
(* The controlling thread: start, stop and the destructor *)

Start ==
  /\ ctl = "idle"
  /\ ~running
  /\ running' = TRUE
  /\ reused' = (reused \/ finished)
  /\ pc' = [t \in Threads |-> IF t \in Workers THEN "open" ELSE pc[t]]
  /\ UNCHANGED <<queue, finished, rows, result, ctl, made, taken>>

StopRunning ==
  /\ ctl = "idle"
  /\ running' = FALSE
  /\ ctl' = "finish"
  /\ UNCHANGED <<queue, finished, pc, rows, result, made, taken, reused>>

(* set_finished: the store, then notify_all, neither under the mutex.        *)
SetFinished ==
  /\ ctl = "finish"
  /\ finished' = TRUE
  /\ ctl' = "notify"
  /\ UNCHANGED <<queue, running, pc, rows, result, made, taken, reused>>

Notify ==
  /\ ctl = "notify"
  /\ pc' = NotifyAll(pc)
  /\ ctl' = "join"
  /\ UNCHANGED <<queue, finished, running, rows, result, made, taken, reused>>

Join ==
  /\ ctl = "join"
  /\ \A w \in Workers : pc[w] \in {"none", "exited"}
  /\ pc' = [t \in Threads |-> IF t \in Workers THEN "none" ELSE pc[t]]
  /\ ctl' = "idle"
  /\ UNCHANGED <<queue, finished, running, rows, result, made, taken, reused>>

-----------------------------------------------------------------------------
WorkerStep(w) == Open(w) \/ Loop(w) \/ Acquire(w) \/ Push(w) \/ PushMustWait(w) \/ Block(w)
ConsumerStep(c) == Acquire(c) \/ Pop(c) \/ PopNothing(c) \/ PopMustWait(c) \/ Block(c)
StopStep == SetFinished \/ Notify \/ Join

Next ==
  \/ \E w \in Workers : WorkerStep(w)
  \/ \E c \in Consumers : ConsumerStep(c) \/ BeginBatch(c)
  \/ \E t \in Threads : SpuriousWakeup(t)
  \/ Start \/ StopRunning \/ StopStep

(* The scheduler runs every thread that can run; a thread contending for the *)
(* mutex again and again gets it in the end.  Nobody is obliged to call      *)
(* get_batch, start or stop, and no spurious wakeup may be relied upon.      *)
Fairness ==
  /\ \A w \in Workers : WF_vars(WorkerStep(w)) /\ SF_vars(Acquire(w))
  /\ \A c \in Consumers : WF_vars(ConsumerStep(c)) /\ SF_vars(Acquire(c))
  /\ WF_vars(StopStep)

Spec == Init /\ [][Next]_vars
FairSpec == Spec /\ Fairness

-----------------------------------------------------------------------------
TypeOK ==
  /\ queue \in Seq(Samples)
  /\ finished \in BOOLEAN /\ running \in BOOLEAN
  /\ pc \in [Threads -> Points]
  /\ rows \in [Consumers -> 0..BatchSize]
  /\ result \in [Consumers -> {"none", "full", "short", "empty"}]
  /\ ctl \in {"idle", "finish", "notify", "join"}
  /\ made \in [Workers -> 0..(Tags - 1)]
  /\ taken \in [Workers -> 0..(Tags - 1)]
  /\ reused \in BOOLEAN

(* The samples of w in front of the i-th. *)
Ahead(w, i) == Cardinality({j \in 1..(i - 1) : queue[j][1] = w})

(* Of every worker, the samples in the queue are exactly those it pushed    *)
(* and nobody popped, in order: none is lost, doubled or overtaken.         *)
NothingLost ==
  /\ \A i \in DOMAIN queue :
       LET w == queue[i][1] IN queue[i][2] = (taken[w] + Ahead(w, i)) % Tags
  /\ \A w \in Workers : made[w] = (taken[w] + Ahead(w, Len(queue) + 1)) % Tags

(* The queue never holds more than max_size_ samples before stop, and after *)
(* it at most one more per worker: the push that each was in when running_  *)
(* became false.  A loader started again after stop loses the bound: its    *)
(* queue stays finished, so push never waits.                               *)
QueueBounded ==
  /\ ~finished => Len(queue) <= Capacity
  /\ ~reused => Len(queue) <= Capacity + Cardinality(Workers)

(* get_batch returns no short and no empty batch unless stop was called: a  *)
(* wakeup that was meant for someone else, or for nobody, is not the end.   *)
ShortOnlyWhenFinished ==
  \A c \in Consumers : result[c] \in {"short", "empty"} => finished

(* Producers and consumers share one condition variable and notify_one, so a *)
(* wakeup can go to the wrong side.  With FewThreads it still never happens  *)
(* that a consumer sleeps and so do all the workers that opened the data:    *)
(* before stop, somebody is awake to fill the queue.                         *)
FewThreads ==
  /\ IsFiniteSet(Consumers)
  /\ Cardinality(Consumers) <= Capacity
  /\ Cardinality(Workers) + Cardinality(Consumers) <= 2 * Capacity

Asleep(S) == {t \in S : pc[t] \in {"block", "wait"}}
Opened == {w \in Workers : pc[w] \notin {"none", "open", "exited"}}

SomeoneFills ==
  running /\ ~finished /\ Asleep(Consumers) # {} /\ Opened # {}
    => ~(Opened \subseteq Asleep(Workers))

(* dataloader.hpp:25 `Thread-safe sample queue': while the loader runs and a *)
(* worker is alive, a thread in get_batch gets its batch.  The code ensures  *)
(* this for one consumer and fewer than 2 * Capacity workers, and not beyond.*)
BatchArrives ==
  \A c \in Consumers :
    pc[c] # "idle" ~>
      \/ pc[c] = "idle" \/ ~running
      \/ \A w \in Workers : pc[w] \in {"none", "exited"}

(* The queue behaves as a bounded first-in, first-out channel.              *)
Channel == INSTANCE BoundedChannel WITH chan <- queue, closed <- finished
IsChannel == Channel!Spec
=============================================================================
