------------------------------- MODULE Limits -------------------------------
(***************************************************************************)
(* What lets a request through: RateLimiter (api/security.hpp), and from   *)
(* monitoring/production_monitoring.hpp DDoSProtection and                 *)
(* TokenBucketLimiter.  Time runs in halves of the millisecond the bucket  *)
(* counts in.                                                              *)
(***************************************************************************)
EXTENDS Integers, FiniteSets, FiniteSetsExt, Sequences

CONSTANTS Clients,
          MaxRequests,       \* of RateLimiter and, per address, of DDoSProtection
          Rate, Burst,       \* tokens per second and in the bucket
          Second,            \* milliseconds in a second
          Jitters, Scale,    \* refills are Jitters / Scale of the whole: 0.95 to 1
          LastTime, MaxAsks  \* bounds on the clock and on calls

ASSUME LimitsAssumption ==
    /\ MaxRequests \in Nat /\ Rate \in Nat /\ Burst \in Nat
    /\ Second \in Nat \ {0} /\ Scale \in Nat \ {0} /\ Jitters \subseteq 0 .. Scale

VARIABLES counts, connections,  \* request_counts, conn_count_
          allowed, admitted,    \* history: requests let through since reset, connections
          time, asks,
          tokens, lastRefill,   \* tokens_ (Token of them are one), last_refill_
          passes                \* history: times at which the bucket let one through

limitVars == <<counts, connections, allowed, admitted>>
bucketVars == <<time, asks, tokens, lastRefill, passes>>

Token == Second * Scale

LimitsInit ==
    /\ counts = [c \in Clients |-> 0] /\ connections = counts
    /\ allowed = counts /\ admitted = counts
    /\ time = 0 /\ asks = 0 /\ tokens = Burst * Token /\ lastRefill = 0 /\ passes = <<>>

AllowRequest(c) ==
    /\ counts[c] < MaxRequests
    /\ counts' = [counts EXCEPT ![c] = @ + 1]
    /\ allowed' = [allowed EXCEPT ![c] = @ + 1]
    /\ UNCHANGED <<connections, admitted>>
ResetClient(c) ==
    /\ counts' = [counts EXCEPT ![c] = 0]
    /\ allowed' = [allowed EXCEPT ![c] = 0]
    /\ UNCHANGED <<connections, admitted>>
AllowConnection(c) ==  \* a connection that is refused is counted as well
    /\ connections' = [connections EXCEPT ![c] = @ + 1]
    /\ admitted' = [admitted EXCEPT ![c] = @ + (IF connections'[c] <= MaxRequests THEN 1 ELSE 0)]
    /\ UNCHANGED <<counts, allowed>>
LimitsNext ==
    \E c \in Clients : \/ AllowRequest(c) \/ ResetClient(c)
                       \/ connections[c] <= MaxRequests /\ AllowConnection(c)

(* Idle time counts up to max_burst_duration_, which is Burst / Rate.      *)
Passing(t) == t >= Token
Inflow(jitter) == Min({Rate * ((time - lastRefill) \div 2), Burst * Second}) * jitter
BugRefilled(jitter) == tokens + Inflow(jitter)  \* the bucket overflows
Refilled(jitter) == Min({Burst * Token, tokens + Inflow(jitter)})
AllowToken(jitter) ==
    LET t == Refilled(jitter)
    IN  /\ asks < MaxAsks /\ asks' = asks + 1
        /\ lastRefill' = time
        /\ tokens' = IF Passing(t) THEN t - Token ELSE t
        /\ passes' = IF Passing(t) THEN Append(passes, time) ELSE passes
        /\ UNCHANGED time
BucketTick == time < LastTime /\ time' = time + 1 /\ UNCHANGED <<asks, tokens, lastRefill, passes>>
BucketNext == BucketTick \/ \E jitter \in Jitters : AllowToken(jitter)

(* Nobody gets more than the limit before a reset, nor more connections    *)
(* than the limit ever; and in any interval the bucket lets through at     *)
(* most a full bucket and what flows in during the interval, whatever the  *)
(* jitter, the cap on idle time and the rounding of the clock.             *)
WithinLimits ==
    /\ \A c \in Clients : allowed[c] <= MaxRequests /\ admitted[c] <= MaxRequests
    /\ \A j \in 1 .. Len(passes) : \A i \in 1 .. j :
          2 * Second * (j - i + 1 - Burst) <= Rate * (passes[j] - passes[i])
=============================================================================
