------------------------------ MODULE RateLimiter ------------------------------
(***************************************************************************)
(* The gateway's rate limiter (services/gateway/src/ratelimit.rs): one     *)
(* token bucket of the governor library per client, all behind one mutex.  *)
(*                                                                         *)
(* A tick of the clock is the interval in which a bucket regains one token *)
(* (1 s / per_sec).  A bucket the map does not hold yet is a full one.     *)
(***************************************************************************)
EXTENDS Clock

CONSTANTS
    Clients,   \* keys of the map: X-Forwarded-For, or "unknown"
    Burst      \* rate_limit_requests

ASSUME BurstAssumption == Burst \in Nat \ {0}

VARIABLES
    bucket,    \* tokens in the bucket of a client
    total,     \* history: requests of a client let through so far
    before     \* history: what total was when a time began

limiterVars == <<now, bucket, total, before>>

LimiterTypeOK ==
    /\ now \in 0..MaxTime
    /\ bucket \in [Clients -> 0..Burst]
    /\ total \in [Clients -> Nat]
    /\ before \in [Clients -> [0..MaxTime -> Nat]]

LimiterInit ==
    /\ now = 0
    /\ bucket = [c \in Clients |-> Burst]
    /\ total = [c \in Clients |-> 0]
    /\ before = [c \in Clients |-> [t \in 0..MaxTime |-> 0]]

\* check_rate_limit returns true.
LetThrough(c) ==
    /\ bucket[c] > 0
    /\ bucket' = [bucket EXCEPT ![c] = @ - 1]
    /\ total' = [total EXCEPT ![c] = @ + 1]
    /\ UNCHANGED before

\* It returns false: a refused request costs nothing.
Refuse(c) == bucket[c] = 0 /\ UNCHANGED <<bucket, total, before>>

Refilled(n) == IF n < Burst THEN n + 1 ELSE Burst

Refill ==
    /\ now < MaxTime
    /\ now' = now + 1
    /\ bucket' = [c \in Clients |-> Refilled(bucket[c])]
    /\ before' = [c \in Clients |-> [before[c] EXCEPT ![now + 1] = total[c]]]
    /\ UNCHANGED total

LimiterNext ==
    \/ \E c \in Clients : (LetThrough(c) \/ Refuse(c)) /\ UNCHANGED now
    \/ Refill

LimiterSpec == LimiterInit /\ [][LimiterNext]_limiterVars

-------------------------------------------------------------------------------
\* Whatever window one looks at, and however long a client was quiet before
\* it, at most Burst requests of the client pass in it plus one for each
\* interval it lasts (README.md:113 "Per-IP token bucket (governor)").
WindowBound ==
    \A c \in Clients, s \in 0..MaxTime :
        s <= now => total[c] - before[c][s] <= Burst + (now - s)
===============================================================================
