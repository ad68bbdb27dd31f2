---- MODULE RateLimiter ----
(***************************************************************************)
(* SlidingWindowRateLimiter and the middleware that asks it.  The          *)
(* middleware is a coroutine of one event loop and has no await before the *)
(* answer of check, so that a request is decided in one step.  Time is in  *)
(* ticks, Second of them to a second.                                      *)
(***************************************************************************)
EXTENDS Naturals, Integers, Sequences

CONSTANTS
    Addresses,
    PublicMax,        \* api_rate_limit_public_max
    AuthenticatedMax, \* api_rate_limit_authenticated_max
    WindowSeconds,    \* api_rate_limit_window_seconds
    Second,
    MaxTime           \* bound of the clock

ASSUME RateLimiterConstants ==
    /\ {PublicMax, AuthenticatedMax, WindowSeconds, Second} \subseteq Nat \ {0}
    /\ MaxTime \in Nat

VARIABLES
    now,
    buckets,  \* key -> times of the admitted requests that still count
    admitted, \* history: key -> times of all admitted requests
    refused   \* history: key -> the refusals, with the number admitted before

limiterVars == <<now, buckets, admitted, refused>>

Keys == {"public", "auth"} \X Addresses

Limit(key) == IF key[1] = "auth" THEN AuthenticatedMax ELSE PublicMax

Window == WindowSeconds * Second

Refusal == [at : Nat, until : Nat, after : Nat]

LimiterTypeOK ==
    /\ now \in Nat
    /\ buckets \in [Keys -> Seq(Nat)]
    /\ admitted \in [Keys -> Seq(Nat)]
    /\ refused \in [Keys -> SUBSET Refusal]
    /\ \A key \in Keys : Len(buckets[key]) <= Limit(key)

LimiterInit ==
    /\ now = 0
    /\ buckets = [key \in Keys |-> <<>>]
    /\ admitted = [key \in Keys |-> <<>>]
    /\ refused = [key \in Keys |-> {}]

\* Mutated: a second less.
CountsShorter(time) == time > now - Window + Second

Counts(time) == time > now - Window

\* Mutated: what counts no more is kept until all of it can go.
EvictedAtOnce(bucket, n) ==
    n = IF \E i \in 1..Len(bucket) : Counts(bucket[i]) THEN 0 ELSE Len(bucket)

\* popleft, n times: the first that counts ends the loop.
Evicted(bucket, n) ==
    /\ \A i \in 1..n : ~Counts(bucket[i])
    /\ n < Len(bucket) => Counts(bucket[n + 1])

Full(key, bucket) == Len(bucket) >= Limit(key)

\* Mutated: the fraction of a second is cut off.
RetryTruncated(bucket) == (bucket[1] + Window - now) \div Second

\* retry_after_seconds, of a full bucket.
RetryAfter(bucket) == (bucket[1] + Window - now) \div Second + 1

Check(key) == \E n \in 0..Len(buckets[key]) :
    LET bucket == SubSeq(buckets[key], n + 1, Len(buckets[key]))
    IN  /\ Evicted(buckets[key], n)
        /\ IF Full(key, bucket)
           THEN /\ buckets' = [buckets EXCEPT ![key] = bucket]
                /\ refused' = [refused EXCEPT ![key] = @ \cup
                        {[at |-> now, until |-> now + RetryAfter(bucket) * Second,
                          after |-> Len(admitted[key])]}]
                /\ UNCHANGED admitted
           ELSE /\ buckets' = [buckets EXCEPT ![key] = Append(bucket, now)]
                /\ admitted' = [admitted EXCEPT ![key] = Append(@, now)]
                /\ UNCHANGED refused
        /\ UNCHANGED now

Tick ==
    /\ now < MaxTime
    /\ now' = now + 1
    /\ UNCHANGED <<buckets, admitted, refused>>

LimiterNext == Tick \/ \E key \in Keys : Check(key)

LimiterSpec == LimiterInit /\ [][LimiterNext]_limiterVars

-----------------------------------------------------------------------------
\* In no window of time are more requests of a key admitted than its limit:
\* any limit + 1 that follow one another take a window or longer.
WindowBounded ==
    \A key \in Keys : \A i \in 1..Len(admitted[key]) :
        i + Limit(key) <= Len(admitted[key])
        => admitted[key][i + Limit(key)] - admitted[key][i] >= Window

\* A request is refused only when the limit was used up within the window
\* that ends with it.
RefusedOnlyFull ==
    \A key \in Keys : \A r \in refused[key] :
        /\ Limit(key) <= r.after /\ r.after <= Len(admitted[key])
        /\ admitted[key][r.after - Limit(key) + 1] > r.at - Window

\* "Retry after the advertised delay" (app_factory.py): the first request that
\* comes after the delay a refusal advertised is admitted.
RetryIsEnough ==
    \A key \in Keys : \A r, s \in refused[key] :
        r.after = s.after /\ r.at <= s.at => s.at < r.until
====
