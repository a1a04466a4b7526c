----------------------------- MODULE HookLimiter -----------------------------
(***************************************************************************)
(* The fixed-window limiter in memory of the webhook endpoint              *)
(* (src/web/src/lib/hooks/rateLimit.ts): FixedWindowLimiter as operators   *)
(* on a store.                                                             *)
(*                                                                         *)
(* A store is the Map of the class: the sequence of its buckets in the     *)
(* order of their insertion, which is the order of its iteration.  Two     *)
(* fields of a bucket are history: held, the requests that it counted and  *)
(* that did not give their slot back to it, and foreign, the slots given   *)
(* back to it by requests that some earlier bucket had counted.            *)
(***************************************************************************)
EXTENDS Integers, Sequences, FiniteSets, SequencesExt

CONSTANTS
    Request,   \* requests to the endpoint
    Window     \* windowMs, the same for all four limits

ASSUME HookLimiterAssumption == Window \in Nat \ {0}

Bucket(keys) == [key : keys, start : Nat, count : Nat,
                 held : SUBSET Request, foreign : Nat]

IsStore(st, keys) == st \in Seq(Bucket(keys))

\* now - start >= windowMs
IsOver(b, t) == t - b.start >= Window

\* Positions of the bucket of k, and of its bucket with an open window.
At(st, k) == {i \in DOMAIN st : st[i].key = k}
OpenAt(st, k, t) == {i \in At(st, k) : ~IsOver(st[i], t)}

\* delete(k); a key has one bucket at most.
Without(st, k) ==
    IF At(st, k) = {} THEN st ELSE RemoveAt(st, CHOOSE i \in At(st, k) : TRUE)

\* evictFor(1): the oldest go until one more fits.
EvictForOne(st, max) ==
    IF Len(st) < max THEN st ELSE SubSeq(st, Len(st) - max + 2, Len(st))

NewBucket(r, k, t) ==
    [key |-> k, start |-> t, count |-> 1, held |-> {r}, foreign |-> 0]

Counted(b, r) == [b EXCEPT !.count = @ + 1, !.held = @ \cup {r}]

\* The mutant starts the new window in the bucket that is there: a Map keeps
\* the place of a key that is set again.
AfterHitInPlace(st, max, r, k, t) ==
    IF OpenAt(st, k, t) # {}
    THEN [i \in DOMAIN st |-> IF st[i].key = k THEN Counted(st[i], r) ELSE st[i]]
    ELSE IF At(st, k) # {}
    THEN [i \in DOMAIN st |-> IF st[i].key = k THEN NewBucket(r, k, t) ELSE st[i]]
    ELSE Append(EvictForOne(st, max), NewBucket(r, k, t))

\* The mutant lets the window slide: every hit starts it again.
AfterHitSliding(st, max, r, k, t) ==
    Append(EvictForOne(Without(st, k), max), NewBucket(r, k, t))

\* hit(): count the request, in a new bucket at the end of the Map if there is
\* none or its window is over.
AfterHit(st, max, r, k, t) ==
    IF OpenAt(st, k, t) # {}
    THEN [i \in DOMAIN st |-> IF st[i].key = k THEN Counted(st[i], r) ELSE st[i]]
    ELSE Append(EvictForOne(Without(st, k), max), NewBucket(r, k, t))

CountOf(st, k) == IF At(st, k) = {} THEN 0 ELSE st[CHOOSE i \in At(st, k) : TRUE].count

\* What hit() reports: the count with the hit is within the limit.
WithinLimit(st, max, r, k, t, limit) == CountOf(AfterHit(st, max, r, k, t), k) <= limit

GivenBack(b, r) ==
    IF r \in b.held THEN [b EXCEPT !.count = @ - 1, !.held = @ \ {r}]
    ELSE [b EXCEPT !.count = @ - 1, !.foreign = @ + 1]

\* refund(): no bucket, a window that is over or a count of 0 are left alone.
AfterRefund(st, r, k, t) ==
    [i \in DOMAIN st |->
        IF i \in OpenAt(st, k, t) /\ st[i].count > 0 THEN GivenBack(st[i], r) ELSE st[i]]
=============================================================================
