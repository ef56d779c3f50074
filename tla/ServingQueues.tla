--------------------------- MODULE ServingQueues ---------------------------
(***************************************************************************)
(* What waits in front of the model (api/serving_production.hpp): requests *)
(* in DynamicBatcher until their timeout, requests in PriorityScheduler,   *)
(* prefixes in PrefixCache.  Every call holds its object's mutex or has    *)
(* one caller, so a call is a step; time passes between calls and two      *)
(* calls may see the same time.                                            *)
(***************************************************************************)
EXTENDS Integers, FiniteSets, Sequences, SequencesExt

CONSTANTS MaxBatchSize, MaxWait,  \* of DynamicBatcher
          Priorities,             \* lower numbers go first
          PrefixNames, MaxEntries,   \* of PrefixCache
          EndOfTime, MaxCalls     \* bounds on the clock and on arrivals

(* PrefixCache looks for an entry to replace; the default timeout is ten   *)
(* milliseconds.                                                           *)
ASSUME QueuesAssumption ==
    /\ MaxBatchSize \in Nat \ {0} /\ MaxWait \in Nat \ {0} /\ Priorities \subseteq Int
    /\ MaxEntries \in Nat \ {0}

VARIABLES now, arrived,           \* the clock and the number of arrivals
          queue,                  \* DynamicBatcher::queue_
          dispatched, lastCall,   \* history: what get_batch returned
          waiting,                \* PriorityScheduler::pq_
          served,                 \* history: what get_next returned
          entries,                \* PrefixCache::entries_
          latestKv, doubled, lastEvicted   \* history of the prefixes

batchVars == <<queue, dispatched, lastCall>>
prioVars == <<waiting, served>>
prefixVars == <<entries, latestKv, doubled, lastEvicted>>
clock == <<now, arrived>>

QueuesInit ==
    /\ now = 0 /\ arrived = 0
    /\ queue = <<>> /\ dispatched = <<>>
    /\ lastCall = [at |-> 0, found |-> 0, size |-> MaxBatchSize]
    /\ waiting = {} /\ served = <<>>
    /\ entries = <<>> /\ latestKv = [p \in PrefixNames |-> 0] /\ doubled = {} /\ lastEvicted = 0

Tick == now < EndOfTime /\ now' = now + 1 /\ UNCHANGED arrived
Arrive == arrived < MaxCalls /\ arrived' = arrived + 1 /\ UNCHANGED now

-----------------------------------------------------------------------------
AddRequest ==
    /\ Arrive
    /\ queue' = Append(queue, [id |-> arrived + 1, arrival |-> now])
    /\ UNCHANGED <<dispatched, lastCall>>

TimedOut(r) == now - r.arrival >= MaxWait

(* The loop takes requests that timed out, in order, and leaves at the     *)
(* limit: its test of batch_full never finds a full batch.  Scan[k] is     *)
(* what it has taken and what it has left behind after k requests.         *)
Scanned(r, s) ==
    IF TimedOut(r) /\ Len(s.batch) < MaxBatchSize
    THEN [s EXCEPT !.batch = Append(@, r)]
    ELSE [s EXCEPT !.rest = Append(@, r)]
Scan[k \in 0 .. Len(queue)] ==
    IF k = 0 THEN [batch |-> <<>>, rest |-> <<>>] ELSE Scanned(queue[k], Scan[k - 1])

Dispatch(batch) ==
    /\ dispatched' = dispatched \o [k \in 1 .. Len(batch) |-> batch[k].id]
    /\ lastCall' = [at |-> now, found |-> Len(queue), size |-> Len(batch)]
    /\ UNCHANGED clock
BugGetBatch ==  \* as many requests as were taken are erased at the wrong end
    LET batch == Scan[Len(queue)].batch
    IN  queue' = SubSeq(queue, 1, Len(queue) - Len(batch)) /\ Dispatch(batch)
GetBatch ==
    LET all == Scan[Len(queue)]
    IN  queue' = all.rest /\ Dispatch(all.batch)

BatchNext == (Tick /\ UNCHANGED batchVars) \/ AddRequest \/ GetBatch

(* Requests are dispatched once and in the order they came, and a call     *)
(* that returns less than a full batch leaves nobody behind whose time is  *)
(* over.                                                                   *)
DispatchedInOrder ==
    /\ \A k \in 1 .. Len(dispatched) : dispatched[k] = k
    /\ Len(dispatched) + Len(queue) = arrived
    /\ \A k \in 1 .. Len(queue) : queue[k].id = Len(dispatched) + k
    /\ lastCall.at = now /\ lastCall.size < MaxBatchSize =>
          \A k \in 1 .. Len(queue) : ~TimedOut(queue[k])

(* max_wait_ms_ is the "max 10ms delay" of a request, and "timeout ||      *)
(* batch_full" makes a batch: a call that finds a full batch waiting       *)
(* returns a full batch.  The code fails this: batch_full is tested of     *)
(* what was taken already, so the timeout is the least delay.              *)
FullBatchLeaves == lastCall.found >= MaxBatchSize => lastCall.size = MaxBatchSize

-----------------------------------------------------------------------------
AddPrioritized(priority) ==
    /\ Arrive
    /\ waiting' = waiting \cup {[id |-> arrived + 1, priority |-> priority, arrival |-> now]}
    /\ UNCHANGED served

(* operator<, read from the top of the queue; equal times may go either way. *)
Before(r, o) ==
    IF r.priority # o.priority THEN r.priority < o.priority ELSE r.arrival < o.arrival
GetNext ==
    \E r \in waiting :
        /\ \A o \in waiting : ~Before(o, r)
        /\ waiting' = waiting \ {r}
        /\ served' = Append(served, [r |-> r, seen |-> arrived])
        /\ UNCHANGED clock

PriorityNext ==
    \/ Tick /\ UNCHANGED prioVars
    \/ \E priority \in Priorities : AddPrioritized(priority)
    \/ GetNext

(* A request is overtaken only by one of a better priority, or by one of   *)
(* its own that arrived at the same time; nobody is lost or served twice.  *)
ServedByPriority ==
    /\ Len(served) + Cardinality(waiting) = arrived
    /\ \A j \in 1 .. Len(served) : \A i \in 1 .. j - 1 :
          LET a == served[i].r
              b == served[j].r
          IN  /\ a.id # b.id
              /\ Before(b, a) => b.id > served[i].seen

-----------------------------------------------------------------------------
Found(prefix) == {k \in 1 .. Len(entries) : entries[k].prefix = prefix}
First(ks) == CHOOSE k \in ks : \A j \in ks : k <= j
Oldest == First({k \in 1 .. Len(entries) :
                    \A j \in 1 .. Len(entries) : entries[k].access <= entries[j].access})

Lookup(prefix) ==
    /\ Found(prefix) # {}
    /\ entries' = [entries EXCEPT ![First(Found(prefix))].access = now]
    /\ UNCHANGED <<latestKv, doubled, lastEvicted, clock>>

(* store does not look for the prefix: a second entry may follow the first. *)
StorePrefix(prefix) ==
    LET entry == [prefix |-> prefix, kv |-> arrived + 1, access |-> now]
    IN  /\ Arrive
        /\ IF Len(entries) >= MaxEntries
           THEN /\ entries' = [entries EXCEPT ![Oldest] = entry]
                /\ lastEvicted' = entries[Oldest].access
           ELSE entries' = Append(entries, entry) /\ UNCHANGED lastEvicted
        /\ latestKv' = [latestKv EXCEPT ![prefix] = arrived + 1]
        /\ doubled' = IF Found(prefix) = {} THEN doubled ELSE doubled \cup {prefix}

PrefixNext ==
    \/ Tick /\ UNCHANGED prefixVars
    \/ \E prefix \in PrefixNames : Lookup(prefix) \/ StorePrefix(prefix)

(* A lookup finds what was stored last for its prefix, unless the prefix   *)
(* was stored while it was present (then it finds the older entry); and    *)
(* what was evicted had not been used after anything that stayed.          *)
PrefixIsLatest ==
    /\ Len(entries) <= MaxEntries
    /\ \A p \in PrefixNames \ doubled :
          Found(p) # {} => entries[First(Found(p))].kv = latestKv[p]
    /\ \A k \in 1 .. Len(entries) : entries[k].access >= lastEvicted

=============================================================================
