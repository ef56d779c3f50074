------------------------- MODULE ContinuousBatching -------------------------
(***************************************************************************)
(* ContinuousBatching (nn/inference.hpp) and the decoding loop its methods *)
(* are made for: schedule_next gives the requests of the next forward      *)
(* pass, advance_all takes the tokens that pass produced, finish_request   *)
(* removes a request between passes.  The class has no lock: one thread    *)
(* runs the loop, and calls add_request whenever a request arrives.  Of a  *)
(* token only two facts are kept: the request it was computed for, and     *)
(* whether it is token 0, which ends a sequence.                           *)
(***************************************************************************)
EXTENDS Integers, Sequences, SequencesExt

CONSTANTS
  Ids,        \* arguments of add_request, each used once
  MaxBatch,   \* max_batch_size_
  MaxSeq,     \* max_seq_len_
  MaxPos      \* bound: no pass once a request has this many tokens

ASSUME BatchAssumption ==
  MaxBatch \in Nat \ {0} /\ MaxSeq \in Nat \ {0} /\ MaxPos \in Nat \ {0}

VARIABLES
  pending,   \* pending_queue_
  active,    \* active_batch_
  batch,     \* the ids schedule_next returned, until advance_all
  arrived,   \* history: the ids in the order of add_request
  admitted   \* history: the ids in the order they became active

vars == <<pending, active, batch, arrived, admitted>>

(* foreign: a token computed for another request was appended to it.         *)
NewRequest(id) == [id |-> id, pos |-> 0, finished |-> FALSE, foreign |-> FALSE]
IdsOf(requests) == [i \in DOMAIN requests |-> requests[i].id]

(* The ids of the requests that are not finished, in order.                  *)
RunningIds(requests) ==
  LET upTo[k \in 0..Len(requests)] ==
        IF k = 0 THEN <<>>
        ELSE IF requests[k].finished THEN upTo[k - 1]
        ELSE Append(upTo[k - 1], requests[k].id)
  IN upTo[Len(requests)]

Init ==
  /\ pending = <<>> /\ active = <<>> /\ batch = <<>>
  /\ arrived = <<>> /\ admitted = <<>>

-----------------------------------------------------------------------------
AddRequest(id) ==
  /\ id \notin ToSet(arrived)
  /\ pending' = Append(pending, NewRequest(id))
  /\ arrived' = Append(arrived, id)
  /\ UNCHANGED <<active, batch, admitted>>

(* How many pending requests join: as many as there is room for.             *)
Joining == LET room == MaxBatch - Len(active)
           IN IF Len(pending) < room THEN Len(pending) ELSE room

BugScheduleNext ==                            \* mutant: the newest request first
  /\ batch = <<>>
  /\ Joining > 0
  /\ active' = Append(active, Last(pending))
  /\ pending' = Front(pending)
  /\ admitted' = Append(admitted, Last(pending).id)
  /\ batch' = RunningIds(active')
  /\ UNCHANGED arrived

(* `Preempt lowest-priority request if batch is full': nothing is preempted. *)
ScheduleNext ==
  /\ batch = <<>>
  /\ \A i \in DOMAIN active : active[i].pos < MaxPos
  /\ active' = active \o SubSeq(pending, 1, Joining)
  /\ pending' = SubSeq(pending, Joining + 1, Len(pending))
  /\ admitted' = admitted \o IdsOf(SubSeq(pending, 1, Joining))
  /\ batch' = RunningIds(active')
  /\ UNCHANGED arrived

FinishRequest(id) ==
  /\ batch = <<>>
  /\ \E i \in DOMAIN active : active[i].id = id /\ active' = RemoveAt(active, i)
  /\ UNCHANGED <<pending, batch, arrived, admitted>>

BugExtended(r, token) ==                      \* mutant: no length limit
  [r EXCEPT !.pos = @ + 1,
            !.finished = @ \/ token.stop,
            !.foreign = @ \/ token.owner # r.id]

(* A token joins a request: token 0 and the length limit finish it.          *)
Extended(r, token) ==
  [r EXCEPT !.pos = @ + 1,
            !.finished = @ \/ r.pos + 1 >= MaxSeq \/ token.stop,
            !.foreign = @ \/ token.owner # r.id]

(* advance_all: the i-th token goes to the i-th request of active_batch_.    *)
AdvanceAll(tokens) ==
  [i \in DOMAIN active |->
     IF i \in DOMAIN tokens THEN Extended(active[i], tokens[i]) ELSE active[i]]

BugAdvance ==                                 \* mutant: the first token is skipped
  /\ batch # <<>>
  /\ \E stops \in [DOMAIN batch -> BOOLEAN] :
       active' = AdvanceAll([i \in 1..(Len(batch) - 1) |->
                              [owner |-> batch[i + 1], stop |-> stops[i + 1]]])
  /\ batch' = <<>>
  /\ UNCHANGED <<pending, arrived, admitted>>

(* The pass made one token for each request that schedule_next returned.     *)
Advance ==
  /\ batch # <<>>
  /\ \E stops \in [DOMAIN batch -> BOOLEAN] :
       active' = AdvanceAll([i \in DOMAIN batch |-> [owner |-> batch[i], stop |-> stops[i]]])
  /\ batch' = <<>>
  /\ UNCHANGED <<pending, arrived, admitted>>

BugRow(acc, r) ==                             \* mutant: everything before is visible
  LET mine == {c \in (0..(r.pos - 1)) \X ((0 - acc.offset)..(r.pos - 1)) : c[2] <= c[1]}
  IN [offset |-> acc.offset + r.pos,
      cells |-> acc.cells \cup {<<acc.offset + c[1], acc.offset + c[2]>> : c \in mine}]

(* build_attention_mask: one request's block of ones, at its offset.         *)
Row(acc, r) ==
  LET mine == {c \in (0..(r.pos - 1)) \X (0..(r.pos - 1)) : c[2] <= c[1]}
  IN [offset |-> acc.offset + r.pos,
      cells |-> acc.cells \cup {<<acc.offset + c[1], acc.offset + c[2]>> : c \in mine}]
Placed[k \in 0..Len(active)] ==
  IF k = 0 THEN [offset |-> 0, cells |-> {}] ELSE Row(Placed[k - 1], active[k])
AttentionMask == Placed[Len(active)].cells

Next ==
  \/ \E id \in Ids : AddRequest(id) \/ FinishRequest(id)
  \/ ScheduleNext \/ Advance

(* The loop goes on while there are requests, and removes those that are     *)
(* finished sooner or later.                                                 *)
Done(id) == \E i \in DOMAIN active : active[i].id = id /\ active[i].finished
Fairness ==
  /\ WF_vars(ScheduleNext /\ batch' # <<>>) /\ WF_vars(Advance)
  /\ \A id \in Ids : SF_vars(Done(id) /\ FinishRequest(id))

Spec == Init /\ [][Next]_vars
FairSpec == Spec /\ Fairness

-----------------------------------------------------------------------------
Requests == [id : Ids, pos : 0..MaxPos, finished : BOOLEAN, foreign : BOOLEAN]

TypeOK ==
  /\ pending \in Seq(Requests) /\ active \in Seq(Requests)
  /\ batch \in Seq(Ids) /\ arrived \in Seq(Ids) /\ admitted \in Seq(Ids)

(* Requests become active in the order they arrived, each once: what is not *)
(* admitted is still pending, in order, and what is active was admitted, in *)
(* that order, so schedule_next and finish_request neither lose nor double  *)
(* a request.                                                               *)
FirstComeFirstServed ==
  /\ arrived = admitted \o IdsOf(pending)
  /\ \A i, j \in DOMAIN active : i < j =>
       \E m, n \in DOMAIN admitted :
         m < n /\ admitted[m] = active[i].id /\ admitted[n] = active[j].id

(* The batch never exceeds max_batch_size_.                                 *)
BatchWithinLimit == Len(active) <= MaxBatch

(* A pass leaves a place empty only if nobody waits.                        *)
PassIsFull ==
  [][batch = <<>> /\ batch' # <<>> => Len(active') = MaxBatch \/ pending' = <<>>]_vars

(* A request that arrived becomes active: the length limit frees the places.*)
EveryRequestAdmitted ==
  \A id \in Ids : id \in ToSet(arrived) ~> id \in ToSet(admitted)

(* The mask lets a token see the tokens of its own request up to itself,    *)
(* and no other, with the active requests laid out side by side.            *)
MaskIsBlockCausal ==
  LET owners == FlattenSeq([i \in DOMAIN active |-> [k \in 1..active[i].pos |-> i]])
  IN AttentionMask =
       {c \in (0..(Len(owners) - 1)) \X (0..(Len(owners) - 1)) :
          owners[c[1] + 1] = owners[c[2] + 1] /\ c[2] <= c[1]}

(* inference.hpp:155 `Advance all requests by one token position'.  A       *)
(* request gets the token of another only in a pass in which it or one in   *)
(* front of it is finished, so that no token was made for it.               *)
TokensShiftBehindFinished ==
  [][\A i \in DOMAIN active :
       batch # <<>> /\ batch' = <<>> /\ active'[i].foreign /\ ~active[i].foreign =>
         \E j \in 1..i : active[j].finished]_vars
=============================================================================
