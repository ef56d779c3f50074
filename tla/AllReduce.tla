----------------------------- MODULE AllReduce ------------------------------
(***************************************************************************)
(* NCCLWrapper::all_reduce without NCCL (distributed/nccl_wrapper.hpp): a  *)
(* ring all-reduce by threads of one process.  Every rank has a copy of    *)
(* the data; in each step of two phases one thread per rank updates one    *)
(* chunk of its own copy from the copy of the next rank, and all threads   *)
(* of the step are joined before the next.  No lock protects the copies.   *)
(*                                                                         *)
(* An element is counted in copies of the input: all ranks start from the  *)
(* same data (per_rank is filled from it), so 1 stands for data[i].        *)
(***************************************************************************)
EXTENDS Integers, FiniteSets

CONSTANTS
  W,   \* world_size_
  N    \* n, the number of elements

ASSUME RingAssumption == W \in Nat /\ N \in Nat /\ W > 1 /\ N >= W

VARIABLES
  copy,    \* per_rank
  phase,   \* which of the two loops runs, or "done"
  step,    \* its counter
  at,      \* i of each rank's thread; N once it ended
  loaded   \* what the thread has read of the next rank's copy, or Nothing

vars == <<copy, phase, step, at, loaded>>

Ranks == 0..(W - 1)
Elements == 0..(N - 1)
Nothing == -1

(* All chunks have the same size, but the last one takes the remainder.      *)
ChunkSize == N \div W
First(c) == c * ChunkSize
Past(c) == IF c = W - 1 THEN N ELSE (c + 1) * ChunkSize

NextRank(r) == (r + 1) % W

BugChunk(p, s, r) == s % W                    \* mutant: all ranks at the same chunk
Chunk(p, s, r) == IF p = "reduce" THEN (r + W - s) % W ELSE (r + W - s - 1) % W

(* The threads of a step, each at the start of its chunk.                    *)
Spawn(p, s) ==
  /\ phase' = p /\ step' = s
  /\ at' = [r \in Ranks |-> First(Chunk(p, s, r))]

Init ==
  /\ copy = [r \in Ranks |-> [i \in Elements |-> 1]]
  /\ phase = "reduce" /\ step = 0
  /\ at = [r \in Ranks |-> First(Chunk("reduce", 0, r))]
  /\ loaded = [r \in Ranks |-> Nothing]

-----------------------------------------------------------------------------
Running(r) == phase # "done" /\ at[r] < Past(Chunk(phase, step, r))

Load(r) ==
  /\ Running(r) /\ loaded[r] = Nothing
  /\ loaded' = [loaded EXCEPT ![r] = copy[NextRank(r)][at[r]]]
  /\ UNCHANGED <<copy, phase, step, at>>

(* += in the first phase, = in the second.                                   *)
Store(r) ==
  /\ Running(r) /\ loaded[r] # Nothing
  /\ copy' = [copy EXCEPT ![r][at[r]] = IF phase = "reduce" THEN @ + loaded[r] ELSE loaded[r]]
  /\ loaded' = [loaded EXCEPT ![r] = Nothing]
  /\ at' = [at EXCEPT ![r] = @ + 1]
  /\ UNCHANGED <<phase, step>>

BugJoin ==                                    \* mutant: waits for one thread only
  /\ phase # "done" /\ ~Running(0)
  /\ IF step + 1 < W - 1 THEN Spawn(phase, step + 1)
     ELSE IF phase = "reduce" THEN Spawn("gather", 0)
     ELSE phase' = "done" /\ UNCHANGED <<step, at>>
  /\ UNCHANGED <<copy, loaded>>

Join ==
  /\ phase # "done" /\ \A r \in Ranks : ~Running(r)
  /\ IF step + 1 < W - 1 THEN Spawn(phase, step + 1)
     ELSE IF phase = "reduce" THEN Spawn("gather", 0)
     ELSE phase' = "done" /\ UNCHANGED <<step, at>>
  /\ UNCHANGED <<copy, loaded>>

Next == Join \/ \E r \in Ranks : Load(r) \/ Store(r)

Spec == Init /\ [][Next]_vars

-----------------------------------------------------------------------------
TypeOK ==
  /\ copy \in [Ranks -> [Elements -> Nat]]
  /\ phase \in {"reduce", "gather", "done"}
  /\ step \in 0..(W - 2)
  /\ at \in [Ranks -> 0..N]
  /\ loaded \in [Ranks -> Nat \cup {Nothing}]

(* No data race: no thread of a step reads or writes the element of a copy  *)
(* that another one is about to write, though nothing is locked.            *)
NoRace ==
  \A r \in Ranks :
    Running(r) /\ Running(NextRank(r)) => at[r] # at[NextRank(r)]

(* What the steps make of the input if the ranks of a step run one after    *)
(* the other, each on the copies as they were before the step.              *)
Steps == 2 * (W - 1)
PhaseOf(k) == IF k < W - 1 THEN "reduce" ELSE "gather"
StepOf(k) == IF k < W - 1 THEN k ELSE k - (W - 1)
Updates(k, r, i) ==
  LET c == Chunk(PhaseOf(k), StepOf(k), r) IN First(c) <= i /\ i < Past(c)

After(k, c) ==
  [r \in Ranks |-> [i \in Elements |->
     IF ~Updates(k, r, i) THEN c[r][i]
     ELSE IF PhaseOf(k) = "reduce" THEN c[r][i] + c[NextRank(r)][i] ELSE c[NextRank(r)][i]]]

Input == [r \in Ranks |-> [i \in Elements |-> 1]]
Result[k \in 0..Steps] == IF k = 0 THEN Input ELSE After(k - 1, Result[k - 1])

Now == CASE phase = "reduce" -> step [] phase = "gather" -> W - 1 + step [] OTHER -> Steps

(* The result does not depend on the order the threads run in: an element   *)
(* that a thread has passed is what the step makes of it, and any other is  *)
(* what the steps before made of it.                                        *)
ScheduleIndependent ==
  \A r \in Ranks, i \in Elements :
    copy[r][i] = IF phase # "done" /\ Updates(Now, r, i) /\ i < at[r]
                 THEN Result[Now + 1][r][i] ELSE Result[Now][r][i]

(* README.md:61 `All-Reduce - Ring algorithm for gradient synchronization'  *)
(* (and nccl_wrapper.hpp:40): the sum over the ranks.  The code adds to     *)
(* each chunk a neighbour's copy that no step has reduced before, so with   *)
(* three ranks or more the sum has two terms.                               *)
SumOverRanks == phase = "done" => \A r \in Ranks, i \in Elements : copy[r][i] = W
=============================================================================
