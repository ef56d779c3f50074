-------------------------- MODULE TransformerBlock --------------------------
(***************************************************************************)
(* A TransformerBlock with its paged cache: forward over several tokens    *)
(* (prefill) and over one (decoding), backward, and an owner who frees     *)
(* cache blocks between calls.  The keys and values of a token are one     *)
(* value, the token itself; they are never zero vectors.  The block always *)
(* names layer 0.  What is stored after a forward is stored position by    *)
(* position: the model takes one step for each.                            *)
(***************************************************************************)
EXTENDS PagedKVCache

CONSTANTS
  MaxBatch,    \* bound: rows of a call
  MaxLength,   \* bound: tokens of a row
  MaxCalls     \* bound: calls of forward

ASSUME BlockAssumption ==
  /\ 0 \in Layers
  /\ MaxBatch \in Nat /\ MaxLength \in Nat /\ MaxCalls \in Nat

VARIABLES
  calls,     \* calls of forward so far
  pending,   \* <<position, token>> still to be stored by the current call
  saved0,    \* which call left the activations of the block, of attn_ and ffn_
  shape,     \* their rows and tokens per row; those of last_attn_out_ too
  grads,     \* which call the gradients were computed from
  output     \* history: the last call, and what a row of it attended to: the
             \* last at a prefill, the first (the one cached) at a decoding

block == <<calls, pending, saved0, shape, grads, output>>

Parts == {"block", "attn", "ffn"}
Outside == -1                    \* computed from memory outside the tensors
None0 == [kind |-> "none", pos |-> 0, reads |-> <<>>]

BlockInit ==
  /\ Init
  /\ calls = 0
  /\ pending = <<>>
  /\ saved0 = [p \in Parts |-> 0]
  /\ shape = [p \in Parts \cup {"out"} |-> <<0, 0>>]
  /\ grads = [p \in Parts |-> 0]
  /\ output = None0

Idle == pending = <<>>
(* A forward over B rows of S tokens that runs these parts and leaves an   *)
(* attention output of the shape out.                                      *)
Ran(parts, B, S, out) ==
  /\ calls < MaxCalls
  /\ calls' = calls + 1
  /\ saved0' = [p \in Parts |-> IF p \in parts THEN calls + 1 ELSE saved0[p]]
  /\ shape' = [p \in Parts \cup {"out"} |->
                 IF p = "out" THEN out ELSE IF p \in parts THEN <<B, S>> ELSE shape[p]]

(* The rows of the batch one after the other, all from the same position: *)
(* the last row is the one that stays.                                     *)
BugToStore(rows, pos) ==                                  \* the first row only
  [n \in 1..Len(rows[1]) |-> <<pos + n - 1, rows[1][n]>>]
ToStore(rows, pos) ==
  LET S == Len(rows[1])
  IN [n \in 1..(Len(rows) * S) |->
        <<pos + ((n - 1) % S), rows[1 + ((n - 1) \div S)][1 + ((n - 1) % S)]>>]

Prefill(rows, pos) ==
  /\ Idle
  /\ Ran(Parts, Len(rows), Len(rows[1]), <<Len(rows), Len(rows[1])>>)
  /\ output' = [kind |-> "prefill", pos |-> pos, reads |-> rows[Len(rows)]]
  /\ pending' = ToStore(rows, pos)
  /\ UNCHANGED <<vars, grads>>

(* load leaves the buffer alone when the page is absent: at first it holds *)
(* whatever the stack held.                                                *)
Probe(pos) == IF Load(pos) = NoValue THEN Contents ELSE {Load(pos)}

(* One token in each row, and no key or value at this position: every token *)
(* attends to itself alone, and that of the first row is stored.            *)
DecodeMiss(ts, pos) ==
  /\ Idle
  /\ Zero \in Probe(pos)
  /\ Ran(Parts, Len(ts), 1, <<Len(ts), 1>>)
  /\ output' = [kind |-> "miss", pos |-> pos, reads |-> <<ts[1]>>]
  /\ pending' = <<<<pos, ts[1]>>>>
  /\ UNCHANGED <<vars, grads>>

BugLoaded(pos, first) == [p \in 0..pos |-> first]      \* one load for all
(* The keys and values of 0 .. pos.  One buffer serves every position: an  *)
(* absent page leaves what the last present one before it put there.       *)
Loaded(pos, first) ==
  [p \in 0..pos |->
     LET known == {q \in 0..p : Load(q) # NoValue}
     IN IF known = {} THEN first
        ELSE Load(CHOOSE q \in known : \A r \in known : r <= q)]

(* Something at this position: the keys and values of the tokens are not   *)
(* computed, nothing is stored, and attn_ is not called.  Only the first   *)
(* row attends; last_attn_out_ is one token, and the residual of the other *)
(* rows reads past its end.                                                *)
DecodeHit(B, pos) ==
  /\ Idle
  /\ \E first \in Probe(pos) \ {Zero} :
       output' = [kind |-> "hit", pos |-> pos, reads |-> Loaded(pos, first)]
  /\ Ran({"block", "ffn"}, B, 1, <<1, 1>>)
  /\ UNCHANGED <<vars, pending, grads>>

StoreNext ==
  /\ ~Idle
  /\ LET pos == Head(pending)[1]
         t == Head(pending)[2]
     IN StoreMapped(0, pos, t) \/ StoreNew(0, pos, t) \/ StoreFull(0, pos, t)
  /\ pending' = Tail(pending)
  /\ UNCHANGED <<calls, saved0, shape, grads, output>>

Count(p) == shape[p][1] * shape[p][2]

(* dldh3 is computed from as much of last_attn_out_ as the block has tokens; *)
(* attn_ reads it at the shape it saved itself, and makes grad_norm1 of that *)
(* shape, from which the block takes one entry for each of its own tokens.   *)
OutInside == Count("block") <= Count("out")
AttnInside ==
  /\ saved0["attn"] # 0
  /\ (shape["attn"][1] - 1) * shape["block"][2] + shape["attn"][2] <= Count("block")
Norm1Inside == Count("block") <= Count("attn")

(* backward follows a forward.  The gradients of every part come from the  *)
(* activations it saved, unless they come from outside the tensors.        *)
BlockBackward ==
  /\ Idle
  /\ calls > 0
  /\ grads' = [saved0 EXCEPT
       !["attn"] = IF OutInside /\ AttnInside THEN @ ELSE Outside,
       !["block"] = IF OutInside /\ AttnInside /\ Norm1Inside THEN @ ELSE Outside]
  /\ UNCHANGED <<vars, calls, pending, saved0, shape, output>>

(* The owner of the cache, between two calls. *)
Release ==
  /\ Idle
  /\ Reset \/ \E l \in Logicals : FreeBlock(l)
  /\ output' = None0
  /\ UNCHANGED <<calls, pending, saved0, shape, grads>>

BlockNext ==
  \/ \E B \in 1..MaxBatch, S \in 2..MaxLength, pos \in Positions :
       /\ pos + S <= MaxPos
       /\ \E rows \in [1..B -> [1..S -> Values]] : Prefill(rows, pos)
  \/ \E B \in 1..MaxBatch, pos \in Positions :
       \/ \E ts \in [1..B -> Values] : DecodeMiss(ts, pos)
       \/ DecodeHit(B, pos)
  \/ StoreNext
  \/ BlockBackward
  \/ Release

BlockSpec == BlockInit /\ [][BlockNext]_<<vars, block>>

-----------------------------------------------------------------------------
(* Decoding that finds something in the cache attends, at every position   *)
(* up to its own that was stored and is still mapped, to what was stored   *)
(* there last.                                                             *)
DecodeReadsLatest ==
  output.kind = "hit" =>
    \A p \in DOMAIN output.reads : latest[p] # NoValue => output.reads[p] = latest[p]

(* When a prefill is through, the cache holds its last row, except where   *)
(* the physical blocks ran out.                                            *)
PrefillIsCached ==
  Idle /\ output.kind = "prefill" =>
    \A n \in DOMAIN output.reads :
      LET pos == output.pos + n - 1
      IN Load(pos) = output.reads[n] \/ (Load(pos) = NoValue /\ free = <<>>)

(* When backward reads nothing outside its tensors, the gradients of all   *)
(* parts are of one call: "grad_norm1 = dL/dh1 where h1 = rmsnorm1(h0)".   *)
(* The code fails this: decoding from the cache leaves attn_ the           *)
(* activations of an older call, and backward mixes the two.               *)
GradientsOfOneCall ==
  (\A p \in Parts : grads[p] # Outside) => (\A p \in Parts : grads[p] = grads["block"])
=============================================================================
