------------------------------ MODULE RateLimit ------------------------------
(***************************************************************************)
(* The rate limiter on PostgreSQL (src/web/src/lib/ratelimit.ts): one row  *)
(* per key in rate_limit_buckets, one upsert per hit, and the hourly sweep *)
(* of worker/maintenance.ts that removes old rows.                         *)
(***************************************************************************)
EXTENDS Integers, FiniteSets, Sequences

CONSTANTS
    Key,       \* bucket keys, such as login:ip:... and login:user:...
    Limit,     \* [Key -> Nat]: hits per window
    Window,    \* [Key -> Nat]: windowMs, in seconds
    SweepAge   \* the age at which a bucket is swept, one day

\* The longest window in use is one hour.
ASSUME RateLimitAssumption ==
    /\ Limit \in [Key -> Nat \ {0}]
    /\ Window \in [Key -> Nat \ {0}]
    /\ SweepAge \in Nat
    /\ \A k \in Key : Window[k] <= SweepAge

VARIABLES
    now,     \* now() of PostgreSQL, in seconds
    bucket,  \* [Key -> Bucket]: the rows, count 0 for none
    grants   \* [Key -> sequence of the times at which a hit was let through]

limitVars == <<bucket, grants>>

NoBucket == [count |-> 0, start |-> 0]

LimitTypeOK ==
    /\ now \in Nat
    /\ bucket \in [Key -> [count : Nat, start : Nat]]
    /\ grants \in [Key -> Seq(Nat)]

LimitInit ==
    /\ now = 0
    /\ bucket = [k \in Key |-> NoBucket]
    /\ grants = [k \in Key |-> <<>>]

\* now - window_start > windowMs
Stale(b, k) == now - b.start > Window[k]

\* The mutant sets the row to the one it would have inserted, as the DO UPDATE
\* of an upsert without conditions does.
AfterHitReplaced(b, k) == [count |-> 1, start |-> now]

\* INSERT ... ON CONFLICT DO UPDATE: what a hit makes of the bucket.
AfterHit(b, k) ==
    IF b.count = 0 \/ Stale(b, k) THEN [count |-> 1, start |-> now]
    ELSE [b EXCEPT !.count = @ + 1]

Granted(b, k) == AfterHit(b, k).count <= Limit[k]

\* rateLimitAll hits every key, also when another one is over its limit.
HitAll(keys) ==
    /\ bucket' = [k \in Key |-> IF k \in keys THEN AfterHit(bucket[k], k) ELSE bucket[k]]
    /\ grants' = [k \in Key |-> IF k \in keys /\ Granted(bucket[k], k)
                                THEN Append(grants[k], now) ELSE grants[k]]

AllGranted(keys) == \A k \in keys : Granted(bucket[k], k)

\* DELETE FROM rate_limit_buckets WHERE window_start < now() - interval '1 day'
Swept(b) == b.start < now - SweepAge

SweepBuckets ==
    /\ bucket' = [k \in Key |-> IF Swept(bucket[k]) THEN NoBucket ELSE bucket[k]]
    /\ UNCHANGED grants

-----------------------------------------------------------------------------
\* A window starts with its first hit, so that a stretch of time of the same
\* length, which may touch two of them, lets less than twice the limit
\* through.  A sweep must not start a window early.
LessThanTwiceTheLimit ==
    \A k \in Key : \A t \in 0 .. now :
        Cardinality({i \in DOMAIN grants[k] :
                        t <= grants[k][i] /\ grants[k][i] <= t + Window[k]})
            < 2 * Limit[k]
=============================================================================
