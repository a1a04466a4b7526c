----------------------------- MODULE HooksProofs -----------------------------
(***************************************************************************)
(* Theorems about Hooks, for any number of requests, addresses, feeds and  *)
(* users and any limits: eviction takes the oldest window; a good token    *)
(* costs nothing; the budget bounds the lookups; and a feed gets less than *)
(* twice its limit in any stretch of time as long as a window.             *)
(*                                                                         *)
(* HitEffect and RefundGivesBack say once what a hit and a refund do to a  *)
(* store, bucket by bucket; the four invariants rest on them alone.        *)
(***************************************************************************)
EXTENDS Hooks, FiniteSetTheorems, SequenceTheorems, TLAPS

-----------------------------------------------------------------------------
(* The store of a limiter.                                                 *)

\* The buckets stand by their start, none of which is still to come, and no
\* key has two of them.
InOrderOfStart(st, t) ==
    /\ \A i, j \in DOMAIN st : i < j => st[i].start <= st[j].start /\ st[i].key # st[j].key
    /\ \A i \in DOMAIN st : st[i].start <= t

\* A store as the limiter leaves it.
Kept(st, keys, max, t) ==
    /\ IsStore(st, keys)
    /\ Len(st) <= max
    /\ InOrderOfStart(st, t)

LEMMA OneBucketOfAKey ==
    ASSUME NEW keys, NEW max \in Nat, NEW t \in Nat, NEW st, Kept(st, keys, max, t),
           NEW i \in DOMAIN st, NEW j \in DOMAIN st, st[i].key = st[j].key
    PROVE  i = j
<1>1. i \in Nat /\ j \in Nat
    BY DEF Kept, IsStore
<1> QED BY <1>1 DEF Kept, InOrderOfStart

LEMMA BucketFields ==
    ASSUME NEW keys, NEW b \in Bucket(keys)
    PROVE  /\ b.key \in keys /\ b.start \in Nat /\ b.count \in Nat
           /\ b.held \subseteq Request /\ b.foreign \in Nat
BY DEF Bucket

LEMMA BucketsOfAStore ==
    ASSUME NEW keys, NEW st, IsStore(st, keys)
    PROVE  /\ Len(st) \in Nat
           /\ DOMAIN st = 1 .. Len(st)
           /\ \A i \in DOMAIN st : st[i] \in Bucket(keys)
           /\ Range(st) \subseteq Bucket(keys)
BY LenProperties, ElementOfSeq DEF IsStore, Range

\* delete takes the bucket of the key and nothing else.
LEMMA WithoutTakesTheKey ==
    ASSUME NEW keys, NEW max \in Nat, NEW t \in Nat, NEW st, Kept(st, keys, max, t), NEW k
    PROVE  /\ Kept(Without(st, k), keys, max, t)
           /\ \A b : b \in Range(Without(st, k)) <=> b \in Range(st) /\ b.key # k
           /\ Len(Without(st, k)) <= Len(st)
           /\ At(st, k) # {} => Len(Without(st, k)) < Len(st)
<1> DEFINE s == Without(st, k)
<1>0. IsStore(st, keys) /\ Len(st) <= max /\ InOrderOfStart(st, t)
    BY DEF Kept
<1>1. /\ Len(st) \in Nat /\ DOMAIN st = 1 .. Len(st)
      /\ \A i \in DOMAIN st : st[i] \in Bucket(keys)
    BY <1>0, BucketsOfAStore
<1>2. CASE At(st, k) = {}
    <2>1. s = st
        BY <1>2 DEF Without
    <2>2. \A i \in DOMAIN st : st[i].key # k
        BY <1>2 DEF At
    <2>3. \A b : b \in Range(s) <=> b \in Range(st) /\ b.key # k
        BY <2>1, <2>2 DEF Range
    <2> QED BY <2>1, <2>3, <1>2, <1>1
<1>3. CASE At(st, k) # {}
    <2> DEFINE p == CHOOSE i \in At(st, k) : TRUE
               a == SubSeq(st, 1, p - 1)
               c == SubSeq(st, p + 1, Len(st))
    <2>1. p \in At(st, k)
        BY <1>3
    <2>2. p \in 1 .. Len(st) /\ st[p].key = k
        BY <2>1, <1>1 DEF At
    <2>3. s = a \o c
        BY <1>3 DEF Without, RemoveAt
    <2> HIDE DEF p
    <2>4. /\ a \in Seq(Bucket(keys)) /\ Len(a) = p - 1
          /\ \A i \in 1 .. p - 1 : a[i] = st[i]
        <3>1. \A i \in 1 .. p - 1 : st[i] \in Bucket(keys)
            BY <2>2, <1>1
        <3>2. 1 \in Int /\ p - 1 \in Int
            BY <2>2
        <3>3. /\ a \in Seq(Bucket(keys))
              /\ Len(a) = IF 1 <= p - 1 THEN (p - 1) - 1 + 1 ELSE 0
              /\ \A i \in 1 .. (p - 1) - 1 + 1 : a[i] = st[1 + i - 1]
            BY ONLY <3>1, <3>2, SubSeqProperties
        <3> QED BY <3>3, <2>2
    <2>5. /\ c \in Seq(Bucket(keys)) /\ Len(c) = Len(st) - p
          /\ \A i \in 1 .. Len(st) - p : c[i] = st[p + i]
        <3>1. \A i \in p + 1 .. Len(st) : st[i] \in Bucket(keys)
            BY <2>2, <1>1
        <3>2. p + 1 \in Int /\ Len(st) \in Int
            BY <2>2, <1>1
        <3>3. /\ c \in Seq(Bucket(keys))
              /\ Len(c) = IF p + 1 <= Len(st) THEN Len(st) - (p + 1) + 1 ELSE 0
              /\ \A i \in 1 .. Len(st) - (p + 1) + 1 : c[i] = st[(p + 1) + i - 1]
            BY ONLY <3>1, <3>2, SubSeqProperties
        <3> HIDE DEF c
        <3>4. p \in Int /\ Len(st) \in Int /\ p <= Len(st)
            BY <2>2, <1>1
        <3>5. Len(st) - (p + 1) + 1 = Len(st) - p
            BY ONLY <3>4
        <3>6. Len(c) = Len(st) - p
            <4>1. CASE p + 1 <= Len(st)
                BY <4>1, <3>3, <3>5
            <4>2. CASE ~(p + 1 <= Len(st))
                <5>1. Len(st) - p = 0
                    BY ONLY <4>2, <3>4
                <5> QED BY <4>2, <5>1, <3>3
            <4> QED BY <4>1, <4>2
        <3>7. ASSUME NEW i \in 1 .. Len(st) - p
              PROVE  c[i] = st[p + i]
            <4>1. i \in Int /\ i \in 1 .. Len(st) - (p + 1) + 1
                BY <3>4, <3>5
            <4>2. (p + 1) + i - 1 = p + i
                BY ONLY <3>4, <4>1
            <4> QED BY ONLY <3>3, <4>1, <4>2
        <3> QED BY ONLY <3>3, <3>6, <3>7
    <2> HIDE DEF a, c, s
    <2>6. /\ s \in Seq(Bucket(keys)) /\ Len(s) = Len(st) - 1
          /\ \A i \in 1 .. Len(st) - 1 : s[i] = IF i < p THEN st[i] ELSE st[i + 1]
        <3>1. /\ s \in Seq(Bucket(keys))
              /\ Len(s) = Len(a) + Len(c)
              /\ \A i \in 1 .. Len(a) + Len(c) :
                    s[i] = IF i <= Len(a) THEN a[i] ELSE c[i - Len(a)]
            BY ONLY <2>3, <2>4, <2>5, ConcatProperties
        <3>2. Len(s) = Len(st) - 1
            BY <3>1, <2>4, <2>5, <2>2, <1>1
        <3>3. ASSUME NEW i \in 1 .. Len(st) - 1
              PROVE  s[i] = IF i < p THEN st[i] ELSE st[i + 1]
            <4>1. CASE i < p
                <5>1. /\ i \in 1 .. Len(a) + Len(c) /\ i <= Len(a)
                      /\ i \in 1 .. p - 1
                    BY <4>1, <2>4, <2>5, <2>2, <1>1
                <5>2. s[i] = a[i] /\ a[i] = st[i]
                    BY ONLY <5>1, <3>1, <2>4
                <5> QED BY <4>1, <5>2
            <4>2. CASE ~(i < p)
                <5>1. s[i] = c[i - (p - 1)]
                    BY <4>2, <3>1, <2>4, <2>5, <2>2, <1>1
                <5>2. i - (p - 1) \in 1 .. Len(st) - p
                    BY <4>2, <2>2, <1>1
                <5>3. c[i - (p - 1)] = st[p + (i - (p - 1))]
                    BY <5>2, <2>5
                <5>4. p + (i - (p - 1)) = i + 1
                    BY <2>2
                <5> QED BY <5>1, <5>3, <5>4, <4>2
            <4> QED BY <4>1, <4>2
        <3> QED BY <3>1, <3>2, <3>3
    <2>7. DOMAIN s = 1 .. Len(st) - 1
        BY <2>6, LenProperties
    <2>8. InOrderOfStart(s, t)
        <3>1. ASSUME NEW i \in 1 .. Len(st) - 1, NEW j \in 1 .. Len(st) - 1, i < j
              PROVE  s[i].start <= s[j].start /\ s[i].key # s[j].key
            <4>1. PICK ii \in {i, i + 1} : s[i] = st[ii] /\ (i < p => ii = i)
                BY <2>6
            <4>2. PICK jj \in {j, j + 1} : s[j] = st[jj] /\ (~(j < p) => jj = j + 1)
                BY <2>6
            <4>3. ii \in DOMAIN st /\ jj \in DOMAIN st /\ ii < jj
                BY <3>1, <4>1, <4>2, <2>2, <1>1
            <4>4. st[ii].start <= st[jj].start /\ st[ii].key # st[jj].key
                BY <4>3, <1>0 DEF InOrderOfStart
            <4> QED BY <4>1, <4>2, <4>4
        <3>2. ASSUME NEW i \in 1 .. Len(st) - 1
              PROVE  s[i].start <= t
            <4>1. PICK ii \in {i, i + 1} : s[i] = st[ii]
                BY <2>6
            <4>2. ii \in DOMAIN st
                BY <4>1, <1>1
            <4> QED BY <4>1, <4>2, <1>0 DEF InOrderOfStart
        <3> QED BY <3>1, <3>2, <2>7 DEF InOrderOfStart
    <2>9. \A b : b \in Range(s) <=> b \in Range(st) /\ b.key # k
        <3>1. ASSUME NEW b \in Range(s)
              PROVE  b \in Range(st) /\ b.key # k
            <4>1. PICK i \in 1 .. Len(st) - 1 : b = s[i]
                BY <2>7 DEF Range
            <4>2. PICK j \in 1 .. Len(st) : b = st[j] /\ j # p
                BY <4>1, <2>6, <2>2, <1>1
            <4>3. st[j].key # st[p].key
                BY <4>2, <2>2, <1>1, OneBucketOfAKey
            <4> QED BY <4>2, <4>3, <2>2, <1>1 DEF Range
        <3>2. ASSUME NEW b \in Range(st), b.key # k
              PROVE  b \in Range(s)
            <4>1. PICK j \in 1 .. Len(st) : b = st[j]
                BY <1>1 DEF Range
            <4>2. j # p
                BY <3>2, <4>1, <2>2
            <4>3. PICK i \in 1 .. Len(st) - 1 : s[i] = st[j]
                <5>1. CASE j < p
                    BY <5>1, <2>6, <2>2, <1>1
                <5>2. CASE j > p
                    <6>1. j - 1 \in 1 .. Len(st) - 1 /\ ~(j - 1 < p) /\ (j - 1) + 1 = j
                        BY <5>2, <2>2, <1>1
                    <6> QED BY <6>1, <2>6
                <5> QED BY <5>1, <5>2, <4>2, <2>2
            <4> QED BY <4>1, <4>3, <2>7 DEF Range
        <3> QED BY <3>1, <3>2
    <2>10. Kept(s, keys, max, t)
        BY <2>6, <2>8, <1>0, <1>1 DEF Kept, IsStore
    <2> QED BY <2>6, <2>9, <2>10, <1>1 DEF s
<1> QED BY <1>2, <1>3

\* evictFor takes buckets away, and none if there is room for one more.
LEMMA EvictForOneMakesRoom ==
    ASSUME NEW keys, NEW max \in Nat \ {0}, NEW t \in Nat, NEW st, Kept(st, keys, max, t)
    PROVE  /\ Kept(EvictForOne(st, max), keys, max, t)
           /\ Range(EvictForOne(st, max)) \subseteq Range(st)
           /\ Len(EvictForOne(st, max)) < max
           /\ Len(st) < max => EvictForOne(st, max) = st
<1> DEFINE s == EvictForOne(st, max)
<1>0. IsStore(st, keys) /\ Len(st) <= max /\ InOrderOfStart(st, t)
    BY DEF Kept
<1>1. /\ Len(st) \in Nat /\ DOMAIN st = 1 .. Len(st)
      /\ \A i \in DOMAIN st : st[i] \in Bucket(keys)
    BY <1>0, BucketsOfAStore
<1>2. CASE Len(st) < max
    BY <1>2 DEF EvictForOne
<1>3. CASE ~(Len(st) < max)
    <2>0. Len(st) \in Int /\ max \in Int /\ Len(st) <= max /\ ~(Len(st) < max)
        BY <1>3, <1>0, <1>1
    <2>1. Len(st) = max
        BY ONLY <2>0
    <2>2. s = SubSeq(st, 2, max)
        <3>1. Len(st) - max + 2 = 2
            BY <2>1
        <3> QED BY <1>3, <2>1, <3>1 DEF EvictForOne
    <2> HIDE DEF s
    <2>3. \A i \in 2 .. max : st[i] \in Bucket(keys)
        BY <2>1, <1>1
    <2>4. /\ s \in Seq(Bucket(keys))
          /\ Len(s) = IF 2 <= max THEN max - 2 + 1 ELSE 0
          /\ \A i \in 1 .. max - 2 + 1 : s[i] = st[2 + i - 1]
        <3>1. 2 \in Int /\ max \in Int
            OBVIOUS
        <3> QED BY ONLY <3>1, <2>2, <2>3, SubSeqProperties
    <2>5. Len(s) = max - 1 /\ DOMAIN s = 1 .. max - 1
        <3>1. Len(s) = max - 1
            BY <2>4
        <3> QED BY <3>1, <2>4, LenProperties
    <2>6. \A i \in 1 .. max - 1 : s[i] = st[i + 1] /\ i + 1 \in 1 .. Len(st)
        BY <2>4, <2>1
    <2>7. InOrderOfStart(s, t)
        <3>1. ASSUME NEW i \in 1 .. max - 1, NEW j \in 1 .. max - 1, i < j
              PROVE  s[i].start <= s[j].start /\ s[i].key # s[j].key
            <4>1. i + 1 \in DOMAIN st /\ j + 1 \in DOMAIN st /\ i + 1 < j + 1
                BY <3>1, <2>6, <1>1
            <4>2. st[i + 1].start <= st[j + 1].start /\ st[i + 1].key # st[j + 1].key
                BY <4>1, <1>0 DEF InOrderOfStart
            <4> QED BY <4>2, <2>6
        <3>2. ASSUME NEW i \in 1 .. max - 1
              PROVE  s[i].start <= t
            <4>1. i + 1 \in DOMAIN st
                BY <2>6, <1>1
            <4> QED BY <4>1, <2>6, <1>0 DEF InOrderOfStart
        <3> QED BY <3>1, <3>2, <2>5 DEF InOrderOfStart
    <2>8. Range(s) \subseteq Range(st)
        BY <2>5, <2>6, <1>1 DEF Range
    <2>9. Kept(s, keys, max, t)
        BY <2>4, <2>5, <2>7 DEF Kept, IsStore
    <2> QED BY <2>5, <2>8, <2>9, <1>3 DEF s
<1> QED BY <1>2, <1>3

\* A new bucket goes to the end.
LEMMA AppendKeepsTheOrder ==
    ASSUME NEW keys, NEW max \in Nat, NEW t \in Nat, NEW st, Kept(st, keys, max, t),
           Len(st) < max, NEW b \in Bucket(keys), b.start = t,
           \A c \in Range(st) : c.key # b.key
    PROVE  /\ Kept(Append(st, b), keys, max, t)
           /\ Range(Append(st, b)) = Range(st) \cup {b}
<1> DEFINE s == Append(st, b)
<1>0. IsStore(st, keys) /\ Len(st) <= max /\ InOrderOfStart(st, t)
    BY DEF Kept
<1>1. /\ Len(st) \in Nat /\ DOMAIN st = 1 .. Len(st)
      /\ \A i \in DOMAIN st : st[i] \in Bucket(keys)
    BY <1>0, BucketsOfAStore
<1>2. /\ s \in Seq(Bucket(keys)) /\ Len(s) = Len(st) + 1
      /\ \A i \in 1 .. Len(st) : s[i] = st[i]
      /\ s[Len(st) + 1] = b
    BY <1>0, AppendProperties DEF IsStore
<1>3. DOMAIN s = 1 .. Len(st) + 1
    BY <1>2, LenProperties
<1> HIDE DEF s
<1>4. \A i \in 1 .. Len(st) : st[i].start <= t /\ st[i].key # b.key
    BY <1>0, <1>1 DEF InOrderOfStart, Range
<1>5. InOrderOfStart(s, t)
    <2>1. ASSUME NEW i \in DOMAIN s, NEW j \in DOMAIN s, i < j
          PROVE  s[i].start <= s[j].start /\ s[i].key # s[j].key
        <3>1. i \in 1 .. Len(st)
            BY <2>1, <1>3, <1>1
        <3>2. CASE j = Len(st) + 1
            BY <3>1, <3>2, <1>2, <1>4
        <3>3. CASE j \in 1 .. Len(st)
            BY <2>1, <3>1, <3>3, <1>0, <1>1, <1>2 DEF InOrderOfStart
        <3> QED BY <3>2, <3>3, <1>3, <1>1
    <2>2. \A i \in DOMAIN s : s[i].start <= t
        BY <1>1, <1>2, <1>3, <1>4
    <2> QED BY <2>1, <2>2 DEF InOrderOfStart
<1>6. Range(s) = Range(st) \cup {b}
    <2>1. ASSUME NEW c \in Range(s)
          PROVE  c \in Range(st) \cup {b}
        <3>1. PICK i \in 1 .. Len(st) + 1 : c = s[i]
            BY <1>3 DEF Range
        <3>2. i \in 1 .. Len(st) \/ i = Len(st) + 1
            BY <1>1
        <3> QED BY <3>1, <3>2, <1>1, <1>2 DEF Range
    <2>2. ASSUME NEW c \in Range(st)
          PROVE  c \in Range(s)
        <3>1. PICK i \in 1 .. Len(st) : c = st[i]
            BY <1>1 DEF Range
        <3>2. i \in DOMAIN s /\ c = s[i]
            BY <3>1, <1>1, <1>2, <1>3
        <3> QED BY <3>2 DEF Range
    <2>3. Len(st) + 1 \in DOMAIN s
        BY <1>1, <1>3
    <2>4. b \in Range(s)
        BY <2>3, <1>2 DEF Range
    <2> QED BY <2>1, <2>2, <2>4
<1>7. Kept(s, keys, max, t)
    BY <1>1, <1>2, <1>5 DEF Kept, IsStore
<1> QED BY <1>6, <1>7 DEF s

LEMMA CountedFields ==
    ASSUME NEW keys, NEW b \in Bucket(keys), NEW r \in Request
    PROVE  /\ Counted(b, r) \in Bucket(keys)
           /\ Counted(b, r).key = b.key /\ Counted(b, r).start = b.start
           /\ Counted(b, r).count = b.count + 1
           /\ Counted(b, r).held = b.held \cup {r} /\ Counted(b, r).foreign = b.foreign
<1> USE DEF Bucket, Counted
<1>1. Counted(b, r).key = b.key /\ Counted(b, r).start = b.start
    OBVIOUS
<1>2. Counted(b, r).count = b.count + 1 /\ Counted(b, r).foreign = b.foreign
    OBVIOUS
<1>3. Counted(b, r).held = b.held \cup {r}
    OBVIOUS
<1>4. b.count + 1 \in Nat /\ b.held \cup {r} \in SUBSET Request
    BY BucketFields
<1>5. Counted(b, r) \in Bucket(keys)
    BY <1>4
<1> QED BY <1>1, <1>2, <1>3, <1>5

LEMMA GivenBackFields ==
    ASSUME NEW keys, NEW b \in Bucket(keys), NEW r \in Request, b.count > 0
    PROVE  /\ GivenBack(b, r) \in Bucket(keys)
           /\ GivenBack(b, r).key = b.key /\ GivenBack(b, r).start = b.start
           /\ GivenBack(b, r).count = b.count - 1
           /\ r \in b.held => /\ GivenBack(b, r).held = b.held \ {r}
                              /\ GivenBack(b, r).foreign = b.foreign
           /\ r \notin b.held => /\ GivenBack(b, r).held = b.held
                                 /\ GivenBack(b, r).foreign = b.foreign + 1
<1> USE DEF Bucket, GivenBack
<1>1. /\ b.key \in keys /\ b.start \in Nat /\ b.count - 1 \in Nat
      /\ b.held \ {r} \in SUBSET Request /\ b.held \in SUBSET Request
      /\ b.foreign \in Nat /\ b.foreign + 1 \in Nat
    BY BucketFields
<1>2. CASE r \in b.held
    <2>1. GivenBack(b, r) = [key |-> b.key, start |-> b.start, count |-> b.count - 1,
                             held |-> b.held \ {r}, foreign |-> b.foreign]
        BY <1>2
    <2> HIDE DEF GivenBack
    <2> QED BY <1>1, <1>2, <2>1
<1>3. CASE r \notin b.held
    <2>1. GivenBack(b, r) = [key |-> b.key, start |-> b.start, count |-> b.count - 1,
                             held |-> b.held, foreign |-> b.foreign + 1]
        BY <1>3
    <2> HIDE DEF GivenBack
    <2> QED BY <1>1, <1>3, <2>1
<1> QED BY <1>2, <1>3

LEMMA NewBucketFields ==
    ASSUME NEW keys, NEW k \in keys, NEW r \in Request, NEW t \in Nat
    PROVE  /\ NewBucket(r, k, t) \in Bucket(keys)
           /\ NewBucket(r, k, t).key = k /\ NewBucket(r, k, t).start = t
           /\ NewBucket(r, k, t).count = 1
           /\ NewBucket(r, k, t).held = {r} /\ NewBucket(r, k, t).foreign = 0
BY DEF NewBucket, Bucket

\* A store whose buckets are counted up or down where they stand.
LEMMA ChangedInPlace ==
    ASSUME NEW keys, NEW max \in Nat, NEW t \in Nat, NEW st, Kept(st, keys, max, t),
           NEW s \in [DOMAIN st -> Bucket(keys)],
           \A i \in DOMAIN st : s[i].key = st[i].key /\ s[i].start = st[i].start
    PROVE  Kept(s, keys, max, t)
<1>0. IsStore(st, keys) /\ Len(st) <= max /\ InOrderOfStart(st, t)
    BY DEF Kept
<1>1. Len(st) \in Nat /\ DOMAIN st = 1 .. Len(st)
    BY <1>0, BucketsOfAStore
<1>2. s \in [1 .. Len(st) -> Bucket(keys)]
    BY <1>1
<1>3. s \in Seq(Bucket(keys)) /\ Len(s) = Len(st)
    BY <1>1, <1>2
<1>4. InOrderOfStart(s, t)
    BY <1>0 DEF InOrderOfStart
<1> QED BY <1>0, <1>3, <1>4 DEF Kept, IsStore

LEMMA CountOfTheBucket ==
    ASSUME NEW keys, NEW max \in Nat, NEW t \in Nat, NEW st, Kept(st, keys, max, t),
           NEW k, NEW b \in Range(st), b.key = k
    PROVE  CountOf(st, k) = b.count
<1>1. PICK j \in DOMAIN st : st[j] = b
    BY DEF Range
<1>2. j \in At(st, k)
    BY <1>1 DEF At
<1>3. \A i \in At(st, k) : i = j
    BY <1>1, OneBucketOfAKey DEF At
<1>4. (CHOOSE i \in At(st, k) : TRUE) = j
    BY <1>2, <1>3
<1> QED BY <1>1, <1>2, <1>4 DEF CountOf

LEMMA OneBucket ==
    ASSUME NEW keys, NEW max \in Nat, NEW t \in Nat, NEW st, Kept(st, keys, max, t),
           NEW b \in Range(st), NEW c \in Range(st), b.key = c.key
    PROVE  b = c
<1>1. PICK i \in DOMAIN st, j \in DOMAIN st : b = st[i] /\ c = st[j]
    BY DEF Range
<1> QED BY <1>1, OneBucketOfAKey

\* What a hit makes of a store: the bucket of the key counts the request, in
\* the window that is open or in a new one; any other bucket stays as it is, or
\* is evicted.
HitEffect(st, s, max, r, k, t) ==
    /\ \A b \in Range(s) : b.key # k => b \in Range(st)
    /\ \/ /\ \A c \in Range(st) : c.key = k => IsOver(c, t)
          /\ NewBucket(r, k, t) \in Range(s)
          /\ CountOf(s, k) = 1
          /\ Len(st) < max \/ (\E c \in Range(st) : c.key = k) =>
                 \A c \in Range(st) : c.key # k => c \in Range(s)
       \/ \E c \in Range(st) :
             /\ c.key = k /\ ~IsOver(c, t)
             /\ Counted(c, r) \in Range(s)
             /\ CountOf(s, k) = c.count + 1
             /\ \A d \in Range(st) : d.key # k => d \in Range(s)

LEMMA HitCounts ==
    ASSUME NEW keys, NEW max \in Nat \ {0}, NEW t \in Nat, NEW st, Kept(st, keys, max, t),
           NEW r \in Request, NEW k \in keys
    PROVE  /\ Kept(AfterHit(st, max, r, k, t), keys, max, t)
           /\ HitEffect(st, AfterHit(st, max, r, k, t), max, r, k, t)
<1> DEFINE s == AfterHit(st, max, r, k, t)
<1>0. IsStore(st, keys) /\ max \in Nat
    BY DEF Kept
<1>1. /\ Len(st) \in Nat /\ DOMAIN st = 1 .. Len(st)
      /\ \A i \in DOMAIN st : st[i] \in Bucket(keys)
      /\ Range(st) \subseteq Bucket(keys)
    BY <1>0, BucketsOfAStore
<1>2. CASE OpenAt(st, k, t) # {}
    <2>1. s = [i \in DOMAIN st |-> IF st[i].key = k THEN Counted(st[i], r) ELSE st[i]]
        BY <1>2 DEF AfterHit
    <2>2. PICK p \in DOMAIN st : st[p].key = k /\ ~IsOver(st[p], t)
        BY <1>2 DEF OpenAt, At
    <2>3. \A b \in Bucket(keys) : /\ Counted(b, r) \in Bucket(keys)
                                  /\ Counted(b, r).key = b.key
                                  /\ Counted(b, r).start = b.start
                                  /\ Counted(b, r).count = b.count + 1
        BY CountedFields
    <2> HIDE DEF s
    <2>4. /\ DOMAIN s = DOMAIN st
          /\ \A i \in DOMAIN st : s[i] = IF st[i].key = k THEN Counted(st[i], r) ELSE st[i]
        BY <2>1
    <2>5. \A i \in DOMAIN st : /\ s[i] \in Bucket(keys)
                               /\ s[i].key = st[i].key /\ s[i].start = st[i].start
        BY <2>3, <2>4, <1>1
    <2>6. s \in [DOMAIN st -> Bucket(keys)]
        BY <2>1, <2>4, <2>5
    <2>7. Kept(s, keys, max, t)
        BY <1>0, <2>5, <2>6, ChangedInPlace
    <2>8. s[p] = Counted(st[p], r) /\ s[p] \in Range(s) /\ st[p] \in Range(st)
        BY <2>2, <2>4 DEF Range
    <2>9. CountOf(s, k) = st[p].count + 1
        <3>1. s[p].key = k
            BY <2>2, <2>5
        <3>2. CountOf(s, k) = s[p].count
            BY <1>0, <2>7, <2>8, <3>1, CountOfTheBucket
        <3> QED BY <3>2, <2>3, <2>8, <1>1
    <2>10. \A b \in Range(s) : b.key # k => b \in Range(st)
        <3> SUFFICES ASSUME NEW i \in DOMAIN st, s[i].key # k
                     PROVE  s[i] \in Range(st)
            BY <2>4 DEF Range
        <3>1. st[i].key # k
            BY <2>5
        <3> QED BY <3>1, <2>4 DEF Range
    <2>11. \A d \in Range(st) : d.key # k => d \in Range(s)
        BY <2>4 DEF Range
    <2>12. HitEffect(st, s, max, r, k, t)
        BY <2>2, <2>8, <2>9, <2>10, <2>11 DEF HitEffect
    <2> QED BY <2>7, <2>12 DEF s
<1>3. CASE OpenAt(st, k, t) = {}
    <2> DEFINE u == Without(st, k)
               v == EvictForOne(u, max)
               b == NewBucket(r, k, t)
    <2>1. s = Append(v, b)
        BY <1>3 DEF AfterHit
    <2>2. /\ Kept(u, keys, max, t)
          /\ \A c : c \in Range(u) <=> c \in Range(st) /\ c.key # k
          /\ At(st, k) # {} => Len(u) < Len(st)
          /\ Len(u) <= Len(st)
        BY <1>0, WithoutTakesTheKey
    <2> HIDE DEF u
    <2>3. /\ Kept(v, keys, max, t)
          /\ Range(v) \subseteq Range(u)
          /\ Len(v) < max
          /\ Len(u) < max => v = u
        BY <2>2, EvictForOneMakesRoom
    <2> HIDE DEF v
    <2>4. b \in Bucket(keys) /\ b.start = t /\ b.key = k /\ b.count = 1
        BY NewBucketFields
    <2> HIDE DEF b
    <2>5. \A c \in Range(v) : c.key # b.key
        BY <2>2, <2>3, <2>4
    <2>6. /\ Kept(Append(v, b), keys, max, t)
          /\ Range(Append(v, b)) = Range(v) \cup {b}
        BY <1>0, <2>3, <2>4, <2>5, AppendKeepsTheOrder
    <2> HIDE DEF s
    <2>7. Kept(s, keys, max, t) /\ Range(s) = Range(v) \cup {b}
        BY <2>1, <2>6
    <2>8. CountOf(s, k) = 1
        <3>1. b \in Range(s)
            BY <2>7
        <3>2. CountOf(s, k) = b.count
            BY <1>0, <2>4, <2>7, <3>1, CountOfTheBucket
        <3> QED BY <3>2, <2>4
    <2>9. \A c \in Range(s) : c.key # k => c \in Range(st)
        BY <2>2, <2>3, <2>4, <2>7
    <2>10. \A c \in Range(st) : c.key = k => IsOver(c, t)
        BY <1>3 DEF OpenAt, At, Range
    <2>11. ASSUME Len(st) < max \/ (\E c \in Range(st) : c.key = k)
           PROVE  \A c \in Range(st) : c.key # k => c \in Range(s)
        <3>1. Len(u) \in Nat /\ Len(st) <= max
            BY <2>2, BucketsOfAStore DEF Kept
        <3>2. (\E c \in Range(st) : c.key = k) => At(st, k) # {}
            BY DEF At, Range
        <3>3. Len(u) < max
            BY <2>11, <3>1, <3>2, <2>2, <1>1
        <3> QED BY <3>3, <2>2, <2>3, <2>7
    <2>12. NewBucket(r, k, t) \in Range(s)
        BY <2>7 DEF b
    <2>13. HitEffect(st, s, max, r, k, t)
        BY <2>8, <2>9, <2>10, <2>11, <2>12 DEF HitEffect
    <2> QED BY <2>7, <2>13 DEF s
<1> QED BY <1>2, <1>3

\* What a refund to the bucket of k makes of a bucket.
Repaid(c, r, k, t) ==
    IF c.key = k /\ ~IsOver(c, t) /\ c.count > 0 THEN GivenBack(c, r) ELSE c

\* refund(): the bucket of the key, if its window is open and it counts
\* anything, counts one less; any other bucket stays as it is.
LEMMA RefundGivesBack ==
    ASSUME NEW keys, NEW max \in Nat, NEW t \in Nat, NEW st, Kept(st, keys, max, t),
           NEW r \in Request, NEW k
    PROVE  /\ Kept(AfterRefund(st, r, k, t), keys, max, t)
           /\ \A b \in Range(AfterRefund(st, r, k, t)) :
                 \E c \in Range(st) : b = Repaid(c, r, k, t)
           /\ \A c \in Range(st) : Repaid(c, r, k, t) \in Range(AfterRefund(st, r, k, t))
<1> DEFINE s == AfterRefund(st, r, k, t)
<1>0. IsStore(st, keys)
    BY DEF Kept
<1>1. \A i \in DOMAIN st : st[i] \in Bucket(keys)
    BY <1>0, BucketsOfAStore
<1>2. \A i \in DOMAIN st : i \in OpenAt(st, k, t) <=> st[i].key = k /\ ~IsOver(st[i], t)
    BY DEF OpenAt, At
<1>3. /\ DOMAIN s = DOMAIN st
      /\ \A i \in DOMAIN st : s[i] = Repaid(st[i], r, k, t)
    BY <1>2 DEF AfterRefund, Repaid
<1>4. \A b \in Bucket(keys) : b.count > 0 => /\ GivenBack(b, r) \in Bucket(keys)
                                             /\ GivenBack(b, r).key = b.key
                                             /\ GivenBack(b, r).start = b.start
    BY GivenBackFields
<1>5. \A i \in DOMAIN st : /\ s[i] \in Bucket(keys)
                           /\ s[i].key = st[i].key /\ s[i].start = st[i].start
    BY <1>1, <1>3, <1>4 DEF Repaid
<1>6. s \in [DOMAIN st -> Bucket(keys)]
    BY <1>5 DEF AfterRefund
<1> HIDE DEF s
<1>7. Kept(s, keys, max, t)
    BY <1>5, <1>6, ChangedInPlace
<1>8. \A b \in Range(s) : \E c \in Range(st) : b = Repaid(c, r, k, t)
    BY <1>3 DEF Range
<1>9. \A c \in Range(st) : Repaid(c, r, k, t) \in Range(s)
    BY <1>3 DEF Range
<1> QED BY <1>7, <1>8, <1>9 DEF s

-----------------------------------------------------------------------------
(* The stores stay as the limiter keeps them.                              *)

Stores ==
    /\ Kept(ips, Ip, MaxIps, now)
    /\ Kept(budget, {"lookups"}, 1, now)
    /\ Kept(trusted, Feed \cup User, MaxTrusted, now)

StoresOK == TypeOK /\ Stores

LEMMA Limits ==
    /\ IpLimit \in Nat \ {0} /\ LookupLimit \in Nat \ {0}
    /\ FeedLimit \in Nat \ {0} /\ UserLimit \in Nat \ {0}
    /\ MaxIps \in Nat \ {0} /\ MaxTrusted \in Nat \ {0}
    /\ \A f \in Feed : Owner[f] \in User
BY HooksAssumption

LEMMA KeptALittleLater ==
    ASSUME NEW keys, NEW max \in Nat, NEW t \in Nat, NEW st, Kept(st, keys, max, t)
    PROVE  Kept(st, keys, max, t + 1)
<1>1. \A i \in DOMAIN st : st[i].start \in Nat
    BY BucketsOfAStore, BucketFields DEF Kept
<1>2. InOrderOfStart(st, t)
    BY DEF Kept
<1>3. \A i \in DOMAIN st : st[i].start <= t + 1
    BY <1>1, <1>2 DEF InOrderOfStart
<1>4. InOrderOfStart(st, t + 1)
    BY <1>2, <1>3 DEF InOrderOfStart
<1> QED BY <1>4 DEF Kept

LEMMA ReqFields ==
    ASSUME NEW q \in Req
    PROVE  /\ q.pc \in {"idle"} \cup InFlight \cup Answered
           /\ q.ip \in Ip \cup {"none"} /\ q.token \in Token \cup {"none"}
           /\ q.feed \in Feed \cup {"none"}
           /\ q.window \in Nat \cup {Never} /\ q.through \in Nat \cup {Never}
BY DEF Req

LEMMA BecomesTyped ==
    ASSUME TypeOK, NEW r \in Request, NEW pc \in InFlight \cup Answered, Becomes(r, pc)
    PROVE  /\ req' \in [Request -> Req]
           /\ req'[r].pc = pc /\ req'[r].ip = "none" /\ req'[r].feed = req[r].feed
           /\ req'[r].window = req[r].window /\ req'[r].through = req[r].through
           /\ \A x \in Request \ {r} : req'[x] = req[x]
<1>1. req \in [Request -> Req] /\ req[r] \in Req
    BY DEF TypeOK
<1> DEFINE q == [[[req[r] EXCEPT !.pc = pc] EXCEPT !.ip = "none"] EXCEPT !.token = "none"]
<1>2. req' = [[[req EXCEPT ![r].pc = pc] EXCEPT ![r].ip = "none"] EXCEPT ![r].token = "none"]
    BY DEF Becomes
<1>3. req' = [req EXCEPT ![r] = q]
    BY <1>1, <1>2
<1>4. /\ q.pc = pc /\ q.ip = "none" /\ q.feed = req[r].feed /\ q.token = "none"
      /\ q.window = req[r].window /\ q.through = req[r].through
    BY <1>1 DEF Req
<1>5. q \in Req
    BY <1>1 DEF Req
<1> HIDE DEF q
<1> QED BY <1>1, <1>3, <1>4, <1>5

\* The request that is being looked up from now on.
LEMMA LookupBegins ==
    ASSUME TypeOK, NEW r \in Request, NEW ip \in Ip, NEW token \in Token, NEW w \in Nat,
           req' = [req EXCEPT ![r] = [@ EXCEPT !.pc = "lookup", !.ip = ip,
                                               !.token = token, !.window = w]]
    PROVE  /\ req' \in [Request -> Req]
           /\ req'[r].pc = "lookup" /\ req'[r].ip = ip /\ req'[r].feed = req[r].feed
           /\ req'[r].window = w /\ req'[r].through = req[r].through
           /\ \A x \in Request \ {r} : req'[x] = req[x]
<1>1. req \in [Request -> Req] /\ req[r] \in Req
    BY DEF TypeOK
<1> DEFINE q == [[[[req[r] EXCEPT !.pc = "lookup"] EXCEPT !.ip = ip] EXCEPT !.token = token]
                     EXCEPT !.window = w]
<1>2. req' = [req EXCEPT ![r] = q]
    OBVIOUS
<1>3. /\ q.pc = "lookup" /\ q.ip = ip /\ q.feed = req[r].feed
      /\ q.window = w /\ q.through = req[r].through
    BY <1>1 DEF Req
<1>4. q \in Req
    BY <1>1 DEF Req, InFlight
<1> HIDE DEF q
<1> QED BY <1>1, <1>2, <1>3, <1>4

\* The request whose feed is found is turned away, or passes now.
FoundAt(r, f) == [req[r] EXCEPT !.feed = f, !.ip = "none", !.token = "none", !.window = Never]

LEMMA FoundFields ==
    ASSUME TypeOK, NEW r \in Request, NEW f \in Feed
    PROVE  /\ FoundAt(r, f) \in Req
           /\ FoundAt(r, f).feed = f /\ FoundAt(r, f).through = req[r].through
<1>1. req[r] \in Req
    BY DEF TypeOK
<1> QED BY <1>1 DEF Req, FoundAt

LEMMA TurnedAway ==
    ASSUME TypeOK, NEW r \in Request, NEW f \in Feed, NEW pc \in InFlight \cup Answered,
           req' = [req EXCEPT ![r] = [FoundAt(r, f) EXCEPT !.pc = pc]]
    PROVE  /\ req' \in [Request -> Req]
           /\ req'[r].pc = pc /\ req'[r].feed = f /\ req'[r].through = req[r].through
           /\ \A x \in Request \ {r} : req'[x] = req[x]
<1> DEFINE g == FoundAt(r, f)
           q == [g EXCEPT !.pc = pc]
<1>1. req \in [Request -> Req]
    BY DEF TypeOK
<1>2. g \in Req /\ g.feed = f /\ g.through = req[r].through
    BY FoundFields
<1>3. req' = [req EXCEPT ![r] = q]
    OBVIOUS
<1> HIDE DEF g
<1>4. q \in Req /\ q.pc = pc /\ q.feed = f /\ q.through = req[r].through
    BY <1>2 DEF Req
<1> HIDE DEF q
<1> QED BY <1>1, <1>3, <1>4

LEMMA PassesNow ==
    ASSUME TypeOK, NEW r \in Request, NEW f \in Feed, NEW pc \in InFlight \cup Answered,
           NEW at \in Nat,
           req' = [req EXCEPT ![r] = [FoundAt(r, f) EXCEPT !.pc = pc, !.through = at]]
    PROVE  /\ req' \in [Request -> Req]
           /\ req'[r].pc = pc /\ req'[r].feed = f /\ req'[r].through = at
           /\ \A x \in Request \ {r} : req'[x] = req[x]
<1> DEFINE g == FoundAt(r, f)
           q == [g EXCEPT !.pc = pc, !.through = at]
<1>1. req \in [Request -> Req]
    BY DEF TypeOK
<1>2. g \in Req /\ g.feed = f
    BY FoundFields
<1>3. req' = [req EXCEPT ![r] = q]
    OBVIOUS
<1> HIDE DEF g
<1>4. q \in Req /\ q.pc = pc /\ q.feed = f /\ q.through = at
    BY <1>2 DEF Req
<1> HIDE DEF q
<1> QED BY <1>1, <1>3, <1>4

\* What the answer of a lookup that finds the enabled feed f changes.
FoundEffect(r, f) ==
    LET counted == AfterHit(trusted, MaxTrusted, r, f, now)
    IN  /\ req'[r].feed = f
        /\ \/ /\ req'[r].pc = "feedLimited" /\ req'[r].through = req[r].through
              /\ trusted' = counted
           \/ /\ req'[r].pc = "userLimited" /\ req'[r].through = req[r].through
              /\ trusted' = AfterHit(counted, MaxTrusted, r, Owner[f], now)
           \/ /\ req'[r].pc = "body" /\ req'[r].through = now
              /\ trusted' = AfterHit(counted, MaxTrusted, r, Owner[f], now)
              /\ WithinLimit(trusted, MaxTrusted, r, f, now, FeedLimit)
              /\ WithinLimit(counted, MaxTrusted, r, Owner[f], now, UserLimit)

LEMMA LookupFindsChanges ==
    ASSUME TypeOK, NEW r \in Request, LookupFinds(r)
    PROVE  /\ req[r].pc = "lookup" /\ GiveBack(r) /\ now' = now /\ feed' = feed
           /\ req' \in [Request -> Req]
           /\ \A x \in Request \ {r} : req'[x] = req[x]
           /\ \E f \in Feed : FoundEffect(r, f)
<1> DEFINE counted(f) == AfterHit(trusted, MaxTrusted, r, f, now)
<1>1. PICK f \in Feed :
          \/ /\ trusted' = counted(f)
             /\ req' = [req EXCEPT ![r] = [FoundAt(r, f) EXCEPT !.pc = "feedLimited"]]
          \/ /\ trusted' = AfterHit(counted(f), MaxTrusted, r, Owner[f], now)
             /\ req' = [req EXCEPT ![r] = [FoundAt(r, f) EXCEPT !.pc = "userLimited"]]
          \/ /\ trusted' = AfterHit(counted(f), MaxTrusted, r, Owner[f], now)
             /\ WithinLimit(trusted, MaxTrusted, r, f, now, FeedLimit)
             /\ WithinLimit(counted(f), MaxTrusted, r, Owner[f], now, UserLimit)
             /\ req' = [req EXCEPT ![r] = [FoundAt(r, f) EXCEPT !.pc = "body", !.through = now]]
    BY DEF LookupFinds, Found, FoundAt
<1>2. /\ "feedLimited" \in InFlight \cup Answered /\ "userLimited" \in InFlight \cup Answered
      /\ "body" \in InFlight \cup Answered
    BY DEF InFlight, Answered
<1>3. now \in Nat
    BY DEF TypeOK
<1>4. req[r].pc = "lookup" /\ GiveBack(r) /\ now' = now /\ feed' = feed
    BY DEF LookupFinds
<1>5. CASE /\ trusted' = counted(f)
           /\ req' = [req EXCEPT ![r] = [FoundAt(r, f) EXCEPT !.pc = "feedLimited"]]
    <2> HIDE DEF counted
    <2>1. /\ req' \in [Request -> Req]
          /\ req'[r].pc = "feedLimited" /\ req'[r].feed = f
          /\ req'[r].through = req[r].through
          /\ \A x \in Request \ {r} : req'[x] = req[x]
        <3> DEFINE pc == "feedLimited"
        <3>1. /\ pc \in InFlight \cup Answered
              /\ req' = [req EXCEPT ![r] = [FoundAt(r, f) EXCEPT !.pc = pc]]
            BY <1>2, <1>5
        <3> HIDE DEF pc
        <3>2. /\ req' \in [Request -> Req]
              /\ req'[r].pc = pc /\ req'[r].feed = f /\ req'[r].through = req[r].through
              /\ \A x \in Request \ {r} : req'[x] = req[x]
            BY <3>1, TurnedAway
        <3> QED BY <3>2 DEF pc
    <2>2. FoundEffect(r, f)
        BY <1>5, <2>1 DEF counted, FoundEffect
    <2> QED BY <1>4, <2>1, <2>2
<1>6. CASE /\ trusted' = AfterHit(counted(f), MaxTrusted, r, Owner[f], now)
           /\ req' = [req EXCEPT ![r] = [FoundAt(r, f) EXCEPT !.pc = "userLimited"]]
    <2> HIDE DEF counted
    <2>1. /\ req' \in [Request -> Req]
          /\ req'[r].pc = "userLimited" /\ req'[r].feed = f
          /\ req'[r].through = req[r].through
          /\ \A x \in Request \ {r} : req'[x] = req[x]
        <3> DEFINE pc == "userLimited"
        <3>1. /\ pc \in InFlight \cup Answered
              /\ req' = [req EXCEPT ![r] = [FoundAt(r, f) EXCEPT !.pc = pc]]
            BY <1>2, <1>6
        <3> HIDE DEF pc
        <3>2. /\ req' \in [Request -> Req]
              /\ req'[r].pc = pc /\ req'[r].feed = f /\ req'[r].through = req[r].through
              /\ \A x \in Request \ {r} : req'[x] = req[x]
            BY <3>1, TurnedAway
        <3> QED BY <3>2 DEF pc
    <2>2. FoundEffect(r, f)
        BY <1>6, <2>1 DEF counted, FoundEffect
    <2> QED BY <1>4, <2>1, <2>2
<1>7. CASE /\ trusted' = AfterHit(counted(f), MaxTrusted, r, Owner[f], now)
           /\ WithinLimit(trusted, MaxTrusted, r, f, now, FeedLimit)
           /\ WithinLimit(counted(f), MaxTrusted, r, Owner[f], now, UserLimit)
           /\ req' = [req EXCEPT ![r] = [FoundAt(r, f) EXCEPT !.pc = "body", !.through = now]]
    <2> HIDE DEF counted
    <2>1. /\ req' \in [Request -> Req]
          /\ req'[r].pc = "body" /\ req'[r].feed = f /\ req'[r].through = now
          /\ \A x \in Request \ {r} : req'[x] = req[x]
        BY <1>2, <1>3, <1>7, PassesNow
    <2>2. FoundEffect(r, f)
        BY <1>7, <2>1 DEF counted, FoundEffect
    <2> QED BY <1>4, <2>1, <2>2
<1> QED BY <1>1, <1>5, <1>6, <1>7

\* The budget has one bucket at most, its first.
LEMMA TheBudget ==
    ASSUME NEW t \in Nat, NEW st, Kept(st, {"lookups"}, 1, t), NEW b \in Range(st)
    PROVE  st[1] = b /\ b.key = "lookups" /\ b \in Bucket({"lookups"})
<1>1. IsStore(st, {"lookups"}) /\ Len(st) <= 1
    BY DEF Kept
<1>2. /\ Len(st) \in Nat /\ DOMAIN st = 1 .. Len(st)
      /\ Range(st) \subseteq Bucket({"lookups"})
    BY <1>1, BucketsOfAStore
<1>3. PICK i \in 1 .. Len(st) : st[i] = b
    BY <1>2 DEF Range
<1>4. i = 1
    BY <1>1, <1>2
<1>5. b.key \in {"lookups"}
    BY <1>2, BucketFields
<1> QED BY <1>2, <1>3, <1>4, <1>5

LEMMA HitIsTyped ==
    ASSUME NEW keys, NEW max \in Nat \ {0}, NEW t \in Nat, NEW st, Kept(st, keys, max, t),
           NEW r \in Request, NEW k \in keys
    PROVE  /\ Kept(AfterHit(st, max, r, k, t), keys, max, t)
           /\ \E b \in Range(AfterHit(st, max, r, k, t)) : TRUE
BY HitCounts DEF HitEffect

LEMMA RefundIsTyped ==
    ASSUME NEW keys, NEW max \in Nat, NEW t \in Nat, NEW st, Kept(st, keys, max, t),
           NEW r \in Request, NEW k
    PROVE  Kept(AfterRefund(st, r, k, t), keys, max, t)
BY RefundGivesBack

LEMMA ArriveKeepsTheStores ==
    ASSUME StoresOK, NEW r \in Request, NEW ip \in Ip, NEW token \in Token \cup {"none"},
           Arrive(r, ip, token)
    PROVE  StoresOK'
<1> USE Limits
<1>0. /\ TypeOK /\ now \in Nat
      /\ Kept(ips, Ip, MaxIps, now) /\ Kept(budget, {"lookups"}, 1, now)
      /\ Kept(trusted, Feed \cup User, MaxTrusted, now)
    BY DEF StoresOK, Stores, TypeOK
<1>1. now' = now /\ trusted' = trusted /\ feed' = feed
    BY DEF Arrive
<1>2. Kept(AfterHit(ips, MaxIps, r, ip, now), Ip, MaxIps, now)
    BY <1>0, HitIsTyped
<1>3. /\ Kept(AfterHit(budget, 1, r, "lookups", now), {"lookups"}, 1, now)
      /\ \E b \in Range(AfterHit(budget, 1, r, "lookups", now)) : TRUE
    <2> DEFINE keys == {"lookups"}
    <2>1. Kept(budget, keys, 1, now) /\ "lookups" \in keys /\ 1 \in Nat \ {0}
        BY <1>0
    <2> HIDE DEF keys
    <2>2. /\ Kept(AfterHit(budget, 1, r, "lookups", now), keys, 1, now)
          /\ \E b \in Range(AfterHit(budget, 1, r, "lookups", now)) : TRUE
        BY <1>0, <2>1, HitIsTyped
    <2> QED BY <2>2 DEF keys
<1>4. Kept(AfterRefund(AfterHit(ips, MaxIps, r, ip, now), r, ip, now), Ip, MaxIps, now)
    BY <1>0, <1>2, RefundIsTyped
<1>5. Kept(ips', Ip, MaxIps, now) /\ Kept(budget', {"lookups"}, 1, now)
    BY <1>0, <1>2, <1>3, <1>4 DEF Arrive, NoBudget
<1>6. req' \in [Request -> Req]
    <2>1. CASE \E pc \in InFlight \cup Answered : Becomes(r, pc)
        BY <1>0, <2>1, BecomesTyped
    <2>2. CASE /\ token # "none"
               /\ budget' = AfterHit(budget, 1, r, "lookups", now)
               /\ req' = [req EXCEPT ![r] = [@ EXCEPT !.pc = "lookup", !.ip = ip,
                                      !.token = token, !.window = budget'[1].start]]
        <3>1. PICK b \in Range(budget') : TRUE
            BY <1>3, <2>2
        <3>2. budget'[1] \in Bucket({"lookups"})
            BY <1>0, <1>5, <3>1, TheBudget
        <3>3. budget'[1].start \in Nat
            BY <3>2, BucketFields
        <3>4. token \in Token
            BY <2>2
        <3> DEFINE w == budget'[1].start
        <3>5. /\ w \in Nat
              /\ req' = [req EXCEPT ![r] = [@ EXCEPT !.pc = "lookup", !.ip = ip,
                                                     !.token = token, !.window = w]]
            BY <2>2, <3>3
        <3> HIDE DEF w
        <3> QED BY ONLY <1>0, <3>4, <3>5, LookupBegins, Zenon
    <2> QED BY <2>1, <2>2 DEF Arrive, NoBudget, Answered
<1>7. /\ IsStore(ips', Ip) /\ IsStore(budget', {"lookups"})
      /\ IsStore(trusted', Feed \cup User)
    BY <1>0, <1>1, <1>5 DEF Kept
<1>8. TypeOK'
    BY <1>0, <1>1, <1>6, <1>7 DEF TypeOK
<1>9. Stores'
    BY <1>0, <1>1, <1>5 DEF Stores
<1> QED BY <1>8, <1>9 DEF StoresOK

LEMMA LookupFindsKeepsTheStores ==
    ASSUME StoresOK, NEW r \in Request, LookupFinds(r)
    PROVE  StoresOK'
<1> USE Limits
<1>0. /\ TypeOK /\ now \in Nat
      /\ Kept(ips, Ip, MaxIps, now) /\ Kept(budget, {"lookups"}, 1, now)
      /\ Kept(trusted, Feed \cup User, MaxTrusted, now)
    BY DEF StoresOK, Stores, TypeOK
<1>1. now' = now /\ feed' = feed
    BY DEF LookupFinds
<1> DEFINE counted(f) == AfterHit(trusted, MaxTrusted, r, f, now)
<1>2. GiveBack(r) /\ req' \in [Request -> Req]
    BY <1>0, LookupFindsChanges
<1>3. Kept(ips', Ip, MaxIps, now) /\ Kept(budget', {"lookups"}, 1, now)
    BY <1>0, <1>2, RefundIsTyped DEF GiveBack
<1>4. PICK f \in Feed : \/ trusted' = counted(f)
                        \/ trusted' = AfterHit(counted(f), MaxTrusted, r, Owner[f], now)
    BY <1>0 DEF LookupFinds, Found
<1>5. Kept(counted(f), Feed \cup User, MaxTrusted, now)
    BY <1>0, HitIsTyped
<1> HIDE DEF counted
<1>6. Kept(AfterHit(counted(f), MaxTrusted, r, Owner[f], now), Feed \cup User, MaxTrusted, now)
    BY <1>0, <1>5, HitIsTyped
<1>7. Kept(trusted', Feed \cup User, MaxTrusted, now)
    BY <1>4, <1>5, <1>6
<1>8. /\ IsStore(ips', Ip) /\ IsStore(budget', {"lookups"})
      /\ IsStore(trusted', Feed \cup User)
    BY <1>3, <1>7 DEF Kept
<1>9. TypeOK'
    BY <1>0, <1>1, <1>2, <1>8 DEF TypeOK
<1>10. Stores'
    BY <1>1, <1>3, <1>7 DEF Stores
<1> QED BY <1>9, <1>10 DEF StoresOK

\* The other steps change no store.
LEMMA TheRestKeepsTheStores ==
    ASSUME StoresOK, UNCHANGED <<ips, budget, trusted>>, now' \in {now, now + 1},
           req' \in [Request -> Req], feed' \in [Feed -> FeedRow]
    PROVE  StoresOK'
<1>1. TypeOK /\ Stores /\ now \in Nat
    BY DEF StoresOK, TypeOK
<1>2. now' \in Nat
    BY <1>1
<1>3. TypeOK'
    BY <1>1, <1>2 DEF TypeOK
<1>4. now' = now => Stores'
    BY <1>1 DEF Stores
<1>5. now' = now + 1 => Stores'
    BY <1>1, Limits, KeptALittleLater DEF Stores
<1>6. Stores'
    BY <1>4, <1>5
<1> QED BY <1>3, <1>6 DEF StoresOK

LEMMA AnsweredStates ==
    /\ {"ipLimited", "malformed", "budgetLimited", "notFound", "threw", "feedLimited",
        "userLimited", "refused", "stored", "notStored"} \subseteq InFlight \cup Answered
    /\ {"lookup", "body", "ingest"} \subseteq InFlight \cup Answered
BY DEF InFlight, Answered

LEMMA StoresInit ==
    ASSUME Init
    PROVE  StoresOK
<1>1. /\ now = 0 /\ ips = <<>> /\ budget = <<>> /\ trusted = <<>>
      /\ req = [r \in Request |-> NoReq]
      /\ feed = [f \in Feed |-> [row |-> "on", token |-> FirstToken[f]]]
    BY DEF Init
<1>2. NoReq \in Req
    BY DEF NoReq, Req
<1>3. \A f \in Feed : [row |-> "on", token |-> FirstToken[f]] \in FeedRow
    BY HooksAssumption DEF FeedRow
<1>4. \A keys : IsStore(<<>>, keys)
    BY DEF IsStore
<1>5. \A keys : \A max \in Nat : Kept(<<>>, keys, max, 0)
    BY <1>4 DEF Kept, InOrderOfStart
<1>6. TypeOK
    BY <1>1, <1>2, <1>3, <1>4 DEF TypeOK
<1>7. Stores
    BY <1>1, <1>5, Limits DEF Stores
<1> QED BY <1>6, <1>7 DEF StoresOK

LEMMA StoresStep ==
    ASSUME StoresOK, [Next]_vars
    PROVE  StoresOK'
<1> USE DEF StoresOK
<1>0. TypeOK /\ now \in Nat /\ req \in [Request -> Req] /\ feed \in [Feed -> FeedRow]
    BY DEF TypeOK
<1>1. ASSUME NEW r \in Request, NEW ip \in Ip, NEW token \in Token \cup {"none"},
             Arrive(r, ip, token)
      PROVE  StoresOK'
    BY <1>1, ArriveKeepsTheStores
<1>2. ASSUME NEW r \in Request, LookupMisses(r)
      PROVE  StoresOK'
    <2>1. PICK pc \in {"notFound", "threw"} : Becomes(r, pc)
        BY <1>2 DEF LookupMisses
    <2>2. req' \in [Request -> Req]
        BY <1>0, <2>1, BecomesTyped, AnsweredStates
    <2> QED BY <1>0, <1>2, <2>2, TheRestKeepsTheStores DEF LookupMisses, KeepSlots
<1>3. ASSUME NEW r \in Request, LookupFinds(r)
      PROVE  StoresOK'
    BY <1>3, LookupFindsKeepsTheStores
<1>4. ASSUME NEW r \in Request, ReadBody(r) \/ Ingest(r)
      PROVE  StoresOK'
    <2>1. PICK pc \in {"ingest", "refused", "stored", "notStored"} : Becomes(r, pc)
        BY <1>4 DEF ReadBody, Ingest
    <2>2. req' \in [Request -> Req]
        BY <1>0, <2>1, BecomesTyped, AnsweredStates
    <2> QED BY <1>0, <1>4, <2>2, TheRestKeepsTheStores DEF ReadBody, Ingest
<1>5. ASSUME NEW f \in Feed, \/ \E row \in {"on", "off", "deleted"} : SetFeed(f, row)
                             \/ \E token \in Token : RegenerateToken(f, token)
      PROVE  StoresOK'
    <2>1. feed' \in [Feed -> FeedRow]
        BY <1>0, <1>5 DEF SetFeed, RegenerateToken, FeedRow
    <2> QED BY <1>0, <1>5, <2>1, TheRestKeepsTheStores DEF SetFeed, RegenerateToken
<1>6. CASE Tick
    BY <1>0, <1>6, TheRestKeepsTheStores DEF Tick
<1>7. CASE UNCHANGED vars
    BY <1>0, <1>7, TheRestKeepsTheStores DEF vars
<1> QED BY <1>1, <1>2, <1>3, <1>4, <1>5, <1>6, <1>7 DEF Next

\* The Map of a limiter stands in the order in which the windows began, so
\* that the eviction takes the oldest, and never outgrows its cap.
THEOREM TheOldestGoesFirst == Spec => []OldestFirst
<1>1. Init => StoresOK
    BY StoresInit
<1>2. StoresOK /\ [Next]_vars => StoresOK'
    BY StoresStep
<1>3. StoresOK => OldestFirst
    BY DEF StoresOK, Stores, Kept, InOrderOfStart, OldestFirst
<1> QED BY <1>1, <1>2, <1>3, PTL DEF Spec

-----------------------------------------------------------------------------
(* What a bucket counts.                                                   *)

PcOf == [x \in Request |-> req[x].pc]

Debtors(b, states, pcs) == {x \in b.held : pcs[x] \in states}

\* The count of an open bucket is backed by requests in one of these states,
\* and no bucket counts a request that has not arrived.
Backed(st, states, pcs, t) ==
    \A b \in Range(st) :
        /\ IsFiniteSet(b.held)
        /\ \A x \in b.held : pcs[x] # "idle"
        /\ ~IsOver(b, t) => b.count <= Cardinality(Debtors(b, states, pcs))

IpDebt == LookedUp \cup {"malformed", "ipLimited"}
BudgetDebt == LookedUp \cup {"budgetLimited"}

LEMMA DebtorsAreFinite ==
    ASSUME NEW b, NEW states, NEW pcs, IsFiniteSet(b.held)
    PROVE  IsFiniteSet(Debtors(b, states, pcs)) /\ Cardinality(Debtors(b, states, pcs)) \in Nat
<1>1. Debtors(b, states, pcs) \subseteq b.held
    BY DEF Debtors
<1> QED BY <1>1, FS_Subset, FS_CardinalityType

LEMMA HitStaysBacked ==
    ASSUME NEW keys, NEW max \in Nat \ {0}, NEW t \in Nat, NEW st, Kept(st, keys, max, t),
           NEW r \in Request, NEW k \in keys,
           NEW states, NEW p, NEW q, Backed(st, states, p, t),
           p[r] = "idle", q[r] \in states, q[r] # "idle",
           \A x \in Request \ {r} : q[x] = p[x]
    PROVE  /\ Backed(AfterHit(st, max, r, k, t), states, q, t)
           /\ \A b \in Range(AfterHit(st, max, r, k, t)) :
                 \/ b \in Range(st) /\ b.key # k /\ r \notin b.held
                 \/ b.key = k /\ b.count > 0 /\ ~IsOver(b, t)
<1> DEFINE s == AfterHit(st, max, r, k, t)
<1>a. Kept(s, keys, max, t) /\ HitEffect(st, s, max, r, k, t)
    BY HitCounts
<1> HIDE DEF s
<1>0. /\ Kept(s, keys, max, t)
      /\ \A b \in Range(s) : b.key # k => b \in Range(st)
      /\ \/ NewBucket(r, k, t) \in Range(s)
         \/ \E c \in Range(st) : c.key = k /\ ~IsOver(c, t) /\ Counted(c, r) \in Range(s)
    BY <1>a DEF HitEffect
<1>1. Range(st) \subseteq Bucket(keys) /\ Range(s) \subseteq Bucket(keys)
    BY <1>0, BucketsOfAStore DEF Kept
<1>2. ASSUME NEW c \in Range(st)
      PROVE  /\ r \notin c.held /\ IsFiniteSet(c.held)
             /\ Debtors(c, states, q) = Debtors(c, states, p)
             /\ \A x \in c.held : q[x] # "idle"
    <2>1. c.held \subseteq Request /\ \A x \in c.held : p[x] # "idle"
        BY <1>1, BucketFields DEF Backed
    <2>2. r \notin c.held
        BY <2>1
    <2> QED BY <2>1, <2>2 DEF Debtors, Backed
<1>3. ASSUME NEW b \in Range(s), b.key # k
      PROVE  /\ b \in Range(st) /\ r \notin b.held
             /\ IsFiniteSet(b.held)
             /\ \A x \in b.held : q[x] # "idle"
             /\ ~IsOver(b, t) => b.count <= Cardinality(Debtors(b, states, q))
    <2>1. b \in Range(st)
        BY <1>0, <1>3
    <2> QED BY <2>1, <1>2 DEF Backed
<1>4. ASSUME NEW b \in Range(s), b.key = k
      PROVE  /\ b.count > 0 /\ ~IsOver(b, t)
             /\ IsFiniteSet(b.held)
             /\ \A x \in b.held : q[x] # "idle"
             /\ b.count <= Cardinality(Debtors(b, states, q))
    <2>1. CASE NewBucket(r, k, t) \in Range(s)
        <3>1. /\ NewBucket(r, k, t).key = k /\ NewBucket(r, k, t).start = t
              /\ NewBucket(r, k, t).count = 1 /\ NewBucket(r, k, t).held = {r}
            BY NewBucketFields
        <3>2. b = NewBucket(r, k, t)
            BY <1>0, <1>4, <2>1, <3>1, OneBucket
        <3>3. b.start = t /\ b.count = 1 /\ b.held = {r}
            BY <3>1, <3>2
        <3>4. Debtors(b, states, q) = {r}
            BY <3>3 DEF Debtors
        <3>5. ~IsOver(b, t)
            BY <3>3, HookLimiterAssumption DEF IsOver
        <3>6. IsFiniteSet({r}) /\ Cardinality({r}) = 1
            BY FS_Singleton
        <3> QED BY <3>3, <3>4, <3>5, <3>6
    <2>2. CASE \E c \in Range(st) : c.key = k /\ ~IsOver(c, t) /\ Counted(c, r) \in Range(s)
        <3>1. PICK c \in Range(st) : c.key = k /\ ~IsOver(c, t) /\ Counted(c, r) \in Range(s)
            BY <2>2
        <3>2. /\ Counted(c, r).key = k /\ Counted(c, r).start = c.start
              /\ Counted(c, r).count = c.count + 1 /\ Counted(c, r).held = c.held \cup {r}
              /\ c.count \in Nat
            BY <1>1, <3>1, CountedFields, BucketFields
        <3>3. b = Counted(c, r)
            BY <1>0, <1>4, <3>1, <3>2, OneBucket
        <3>4. b.start = c.start /\ b.count = c.count + 1 /\ b.held = c.held \cup {r}
            BY <3>2, <3>3
        <3>5. Debtors(b, states, q) = Debtors(c, states, q) \cup {r}
            BY <3>4 DEF Debtors
        <3>6. r \notin Debtors(c, states, q)
            BY <1>2 DEF Debtors
        <3>7. /\ IsFiniteSet(Debtors(c, states, q))
              /\ Cardinality(Debtors(c, states, q)) \in Nat
            BY <1>2, DebtorsAreFinite
        <3>8. Cardinality(Debtors(b, states, q)) = Cardinality(Debtors(c, states, q)) + 1
            BY <3>5, <3>6, <3>7, FS_AddElement
        <3>9. c.count <= Cardinality(Debtors(c, states, q))
            BY <1>2, <3>1 DEF Backed
        <3>10. IsFiniteSet(b.held)
            BY <1>2, <3>4, FS_AddElement
        <3>11. ~IsOver(b, t)
            BY <3>1, <3>4 DEF IsOver
        <3>12. \A x \in b.held : q[x] # "idle"
            BY <1>2, <3>4
        <3>13. b.count > 0 /\ b.count <= Cardinality(Debtors(b, states, q))
            BY <3>2, <3>4, <3>7, <3>8, <3>9
        <3> QED BY <3>10, <3>11, <3>12, <3>13
    <2> QED BY <1>0, <2>1, <2>2
<1>5. Backed(s, states, q, t)
    BY <1>3, <1>4 DEF Backed
<1> QED BY <1>3, <1>4, <1>5 DEF s

LEMMA RefundStaysBacked ==
    ASSUME NEW keys, NEW max \in Nat, NEW t \in Nat, NEW st, Kept(st, keys, max, t),
           NEW r \in Request, NEW k,
           NEW states, NEW p, NEW q, Backed(st, states, p, t),
           \A b \in Range(st) : r \in b.held => b.key = k \/ IsOver(b, t),
           q[r] # "idle",
           \A x \in Request \ {r} : q[x] = p[x]
    PROVE  Backed(AfterRefund(st, r, k, t), states, q, t)
<1> DEFINE s == AfterRefund(st, r, k, t)
<1>0. /\ Kept(s, keys, max, t)
      /\ \A b \in Range(s) : \E c \in Range(st) : b = Repaid(c, r, k, t)
    BY RefundGivesBack
<1> HIDE DEF s
<1>1. Range(st) \subseteq Bucket(keys)
    BY BucketsOfAStore DEF Kept
<1> SUFFICES ASSUME NEW b \in Range(s)
             PROVE  /\ IsFiniteSet(b.held)
                    /\ \A x \in b.held : q[x] # "idle"
                    /\ ~IsOver(b, t) => b.count <= Cardinality(Debtors(b, states, q))
    BY DEF Backed, s
<1>2. PICK c \in Range(st) : b = Repaid(c, r, k, t)
    BY <1>0
<1>3. c \in Bucket(keys) /\ c.count \in Nat /\ c.held \subseteq Request
    BY <1>1, BucketFields
<1>4. /\ IsFiniteSet(c.held)
      /\ \A x \in c.held : p[x] # "idle"
      /\ ~IsOver(c, t) => c.count <= Cardinality(Debtors(c, states, p))
    BY DEF Backed
<1>5. \A x \in c.held : q[x] # "idle"
    BY <1>3, <1>4
<1>6. /\ IsFiniteSet(Debtors(c, states, p)) /\ Cardinality(Debtors(c, states, p)) \in Nat
      /\ IsFiniteSet(Debtors(c, states, q)) /\ Cardinality(Debtors(c, states, q)) \in Nat
    BY <1>4, DebtorsAreFinite
<1>7. Debtors(c, states, p) \ {r} = Debtors(c, states, q) \ {r}
    BY <1>3 DEF Debtors
<1>8. CASE ~(c.key = k /\ ~IsOver(c, t) /\ c.count > 0)
    <2>1. b = c
        BY <1>2, <1>8 DEF Repaid
    <2>2. ASSUME ~IsOver(c, t)
          PROVE  c.count <= Cardinality(Debtors(c, states, q))
        <3>1. CASE c.count = 0
            BY <3>1, <1>6
        <3>2. CASE c.key # k
            <4>1. r \notin c.held
                BY <2>2, <3>2
            <4>2. Debtors(c, states, p) = Debtors(c, states, q)
                BY <4>1, <1>7 DEF Debtors
            <4> QED BY <4>2, <2>2, <1>4
        <3> QED BY <1>3, <1>8, <2>2, <3>1, <3>2
    <2> QED BY <2>1, <2>2, <1>4, <1>5
<1>9. CASE c.key = k /\ ~IsOver(c, t) /\ c.count > 0
    <2>1. b = GivenBack(c, r)
        BY <1>2, <1>9 DEF Repaid
    <2>2. CASE r \in c.held
        <3>1. b.count = c.count - 1 /\ b.held = c.held \ {r}
            BY <2>1, <2>2, <1>3, <1>9, GivenBackFields
        <3>2. Debtors(b, states, q) = Debtors(c, states, p) \ {r}
            BY <3>1, <1>7 DEF Debtors
        <3>3. /\ IsFiniteSet(b.held)
              /\ IsFiniteSet(Debtors(c, states, p) \ {r})
              /\ Cardinality(Debtors(c, states, p) \ {r}) \in Nat
              /\ Cardinality(Debtors(c, states, p) \ {r})
                    >= Cardinality(Debtors(c, states, p)) - 1
            <4> DEFINE D == Debtors(c, states, p)
            <4>1. IsFiniteSet(D) /\ Cardinality(D) \in Nat
                BY <1>6
            <4> HIDE DEF D
            <4>2. /\ IsFiniteSet(D \ {r})
                  /\ Cardinality(D \ {r}) = IF r \in D THEN Cardinality(D) - 1
                                                        ELSE Cardinality(D)
                BY <4>1, FS_RemoveElement
            <4>3. Cardinality(D \ {r}) \in Nat
                BY <4>2, FS_CardinalityType
            <4>4. Cardinality(D \ {r}) >= Cardinality(D) - 1
                BY <4>1, <4>2, <4>3
            <4>5. IsFiniteSet(b.held)
                BY <3>1, <1>4, FS_RemoveElement
            <4> QED BY <4>2, <4>3, <4>4, <4>5 DEF D
        <3>4. b.count <= Cardinality(Debtors(b, states, q))
            BY <3>1, <3>2, <3>3, <1>3, <1>4, <1>6, <1>9
        <3> QED BY <3>1, <3>3, <3>4, <1>5
    <2>3. CASE r \notin c.held
        <3>1. b.count = c.count - 1 /\ b.held = c.held
            BY <2>1, <2>3, <1>3, <1>9, GivenBackFields
        <3>2. Debtors(b, states, q) = Debtors(c, states, p)
            BY <3>1, <2>3, <1>7 DEF Debtors
        <3>3. b.count <= Cardinality(Debtors(b, states, q))
            BY <3>1, <3>2, <1>3, <1>4, <1>6, <1>9
        <3> QED BY <3>1, <3>3, <1>4, <1>5
    <2> QED BY <2>2, <2>3
<1> QED BY <1>8, <1>9

\* Nothing becomes of a backed store when requests only move on among the
\* states that back it, or time passes.
LEMMA BackedLater ==
    ASSUME NEW keys, NEW max \in Nat, NEW t \in Nat, NEW st, Kept(st, keys, max, t),
           NEW states, NEW p, NEW q, Backed(st, states, p, t),
           \A x \in Request : p[x] \in states => q[x] \in states,
           \A x \in Request : p[x] # "idle" => q[x] # "idle",
           NEW u \in {t, t + 1}
    PROVE  Backed(st, states, q, u)
<1>1. Range(st) \subseteq Bucket(keys)
    BY BucketsOfAStore DEF Kept
<1> SUFFICES ASSUME NEW b \in Range(st)
             PROVE  /\ IsFiniteSet(b.held)
                    /\ \A x \in b.held : q[x] # "idle"
                    /\ ~IsOver(b, u) => b.count <= Cardinality(Debtors(b, states, q))
    BY DEF Backed
<1>2. b.held \subseteq Request /\ b.count \in Nat /\ b.start \in Nat
    BY <1>1, BucketFields
<1>3. /\ IsFiniteSet(b.held)
      /\ \A x \in b.held : p[x] # "idle"
      /\ ~IsOver(b, t) => b.count <= Cardinality(Debtors(b, states, p))
    BY DEF Backed
<1>4. IsOver(b, t) => IsOver(b, u)
    BY <1>2, HookLimiterAssumption DEF IsOver
<1>5. Debtors(b, states, p) \subseteq Debtors(b, states, q)
    BY <1>2 DEF Debtors
<1>6. /\ IsFiniteSet(Debtors(b, states, q)) /\ Cardinality(Debtors(b, states, q)) \in Nat
      /\ Cardinality(Debtors(b, states, p)) \in Nat
    BY <1>3, DebtorsAreFinite
<1>7. Cardinality(Debtors(b, states, p)) <= Cardinality(Debtors(b, states, q))
    BY <1>5, <1>6, FS_Subset
<1>8. ~IsOver(b, u) => b.count <= Cardinality(Debtors(b, states, q))
    BY <1>2, <1>3, <1>4, <1>6, <1>7
<1> QED BY <1>2, <1>3, <1>8

\* A request that is being looked up is counted by the bucket of its address.
OfItsIp == \A b \in Range(ips) : \A x \in b.held : req[x].pc = "lookup" => b.key = req[x].ip

Debts ==
    /\ Backed(ips, IpDebt, PcOf, now)
    /\ Backed(budget, BudgetDebt, PcOf, now)
    /\ OfItsIp

DebtsOK == StoresOK /\ Debts

\* Who a bucket counts after a hit, and after a refund.
LEMMA HeldAfterHit ==
    ASSUME NEW keys, NEW max \in Nat \ {0}, NEW t \in Nat, NEW st, Kept(st, keys, max, t),
           NEW r \in Request, NEW k \in keys
    PROVE  \A b \in Range(AfterHit(st, max, r, k, t)) : \A x \in b.held :
              \/ x = r /\ b.key = k
              \/ \E c \in Range(st) : c.key = b.key /\ x \in c.held
<1> DEFINE s == AfterHit(st, max, r, k, t)
<1>1. Kept(s, keys, max, t) /\ HitEffect(st, s, max, r, k, t)
    BY HitCounts
<1> HIDE DEF s
<1>2. Range(st) \subseteq Bucket(keys) /\ Range(s) \subseteq Bucket(keys)
    BY <1>1, BucketsOfAStore DEF Kept
<1> SUFFICES ASSUME NEW b \in Range(s), NEW x \in b.held
             PROVE  \/ x = r /\ b.key = k
                    \/ \E c \in Range(st) : c.key = b.key /\ x \in c.held
    BY DEF s
<1>3. CASE b.key # k
    BY <1>1, <1>3 DEF HitEffect
<1>4. CASE b.key = k /\ NewBucket(r, k, t) \in Range(s)
    <2>1. NewBucket(r, k, t).key = k /\ NewBucket(r, k, t).held = {r}
        BY NewBucketFields
    <2>2. b = NewBucket(r, k, t)
        BY <1>1, <1>4, <2>1, OneBucket
    <2> QED BY <1>4, <2>1, <2>2
<1>5. ASSUME b.key = k,
             NEW c \in Range(st), c.key = k, Counted(c, r) \in Range(s)
      PROVE  x = r \/ x \in c.held
    <2>1. Counted(c, r).key = k /\ Counted(c, r).held = c.held \cup {r}
        BY <1>2, <1>5, CountedFields
    <2>2. b = Counted(c, r)
        BY <1>1, <1>5, <2>1, OneBucket
    <2> QED BY <2>1, <2>2
<1> QED BY <1>1, <1>3, <1>4, <1>5 DEF HitEffect

LEMMA HeldAfterRefund ==
    ASSUME NEW keys, NEW max \in Nat, NEW t \in Nat, NEW st, Kept(st, keys, max, t),
           NEW r \in Request, NEW k
    PROVE  \A b \in Range(AfterRefund(st, r, k, t)) :
              \E c \in Range(st) : c.key = b.key /\ b.held \subseteq c.held
<1> SUFFICES ASSUME NEW b \in Range(AfterRefund(st, r, k, t))
             PROVE  \E c \in Range(st) : c.key = b.key /\ b.held \subseteq c.held
    OBVIOUS
<1>a. /\ Kept(AfterRefund(st, r, k, t), keys, max, t)
      /\ \A d \in Range(AfterRefund(st, r, k, t)) :
            \E c \in Range(st) : d = Repaid(c, r, k, t)
      /\ \A c \in Range(st) : Repaid(c, r, k, t) \in Range(AfterRefund(st, r, k, t))
    BY RefundGivesBack, Zenon
<1>1. PICK c \in Range(st) : b = Repaid(c, r, k, t)
    BY <1>a
<1>2. c \in Bucket(keys)
    BY BucketsOfAStore DEF Kept
<1>3. c.count > 0 => /\ GivenBack(c, r).key = c.key
                     /\ GivenBack(c, r).held \subseteq c.held
    BY <1>2, GivenBackFields
<1> QED BY <1>1, <1>3 DEF Repaid

LEMMA ArriveOwes ==
    ASSUME DebtsOK, NEW r \in Request, NEW ip \in Ip, NEW token \in Token \cup {"none"},
           Arrive(r, ip, token)
    PROVE  Debts'
<1> USE Limits
<1>0. /\ TypeOK /\ now \in Nat /\ now' = now
      /\ Kept(ips, Ip, MaxIps, now) /\ Kept(budget, {"lookups"}, 1, now)
      /\ Backed(ips, IpDebt, PcOf, now) /\ Backed(budget, BudgetDebt, PcOf, now) /\ OfItsIp
      /\ PcOf[r] = "idle"
    BY DEF DebtsOK, Debts, StoresOK, Stores, TypeOK, Arrive, PcOf
<1> DEFINE hit == AfterHit(ips, MaxIps, r, ip, now)
           bhit == AfterHit(budget, 1, r, "lookups", now)
           p == PcOf
           q == PcOf'
<1>1. Kept(hit, Ip, MaxIps, now)
    BY <1>0, HitIsTyped
<1>2. ASSUME \A x \in Request \ {r} : req'[x] = req[x]
      PROVE  \A x \in Request \ {r} : q[x] = p[x]
    BY <1>2 DEF PcOf
\* The answer is 429 or 400 before the budget is asked.
<1>3. ASSUME NEW pc \in {"ipLimited", "malformed"}, Becomes(r, pc), ips' = hit, budget' = budget
      PROVE  Debts'
    <2>1. req'[r].pc = pc /\ \A x \in Request \ {r} : req'[x] = req[x]
        BY <1>0, <1>3, BecomesTyped, AnsweredStates
    <2>2. q[r] = pc /\ \A x \in Request \ {r} : q[x] = p[x]
        BY <2>1, <1>2 DEF PcOf
    <2> HIDE DEF q, p
    <2>3. pc \in IpDebt /\ pc # "idle"
        BY <1>3 DEF IpDebt
    <2>4. Backed(hit, IpDebt, q, now)
        BY <1>0, <2>2, <2>3, HitStaysBacked DEF p
    <2>5. Backed(budget, BudgetDebt, q, now)
        <3>1. "idle" \notin BudgetDebt
            BY DEF BudgetDebt, LookedUp
        <3> DEFINE keys == {"lookups"}
        <3>2. Kept(budget, keys, 1, now)
            BY <1>0
        <3> HIDE DEF keys
        <3>3. \A x \in Request : p[x] \in BudgetDebt => q[x] \in BudgetDebt
            BY <1>0, <2>2, <3>1 DEF p
        <3>4. \A x \in Request : p[x] # "idle" => q[x] # "idle"
            BY <1>0, <2>2, <2>3 DEF p
        <3> QED BY <1>0, <3>2, <3>3, <3>4, BackedLater DEF p
    <2>6. OfItsIp'
        <3> SUFFICES ASSUME NEW b \in Range(hit), NEW x \in b.held, req'[x].pc = "lookup"
                     PROVE  b.key = req'[x].ip
            BY <1>3 DEF OfItsIp
        <3>1. x # r
            BY <2>1, <1>3
        <3>2. PICK c \in Range(ips) : c.key = b.key /\ x \in c.held
            BY <1>0, <3>1, HeldAfterHit
        <3>3. x \in Request
            BY <1>0, <3>2, BucketsOfAStore, BucketFields DEF Kept
        <3> QED BY <1>0, <2>1, <3>1, <3>2, <3>3 DEF OfItsIp
    <2> QED BY <1>0, <1>3, <2>4, <2>5, <2>6 DEF Debts, q
\* The lookup begins.
<1>4. ASSUME token # "none", budget' = bhit, ips' = hit,
             req' = [req EXCEPT ![r] = [@ EXCEPT !.pc = "lookup", !.ip = ip,
                                      !.token = token, !.window = budget'[1].start]]
      PROVE  Debts'
    <2>1. /\ req'[r].pc = "lookup" /\ req'[r].ip = ip
          /\ \A x \in Request \ {r} : req'[x] = req[x]
        <3>1. req \in [Request -> Req] /\ req[r] \in Req
            BY <1>0 DEF TypeOK
        <3> QED BY <3>1, <1>4 DEF Req
    <2>2. q[r] = "lookup" /\ \A x \in Request \ {r} : q[x] = p[x]
        BY <2>1, <1>2 DEF PcOf
    <2> HIDE DEF q, p
    <2>3. q[r] \in IpDebt /\ q[r] \in BudgetDebt /\ q[r] # "idle"
        BY <2>2 DEF IpDebt, BudgetDebt, LookedUp
    <2>4. Backed(hit, IpDebt, q, now)
        BY <1>0, <2>2, <2>3, HitStaysBacked DEF p
    <2>5. Backed(bhit, BudgetDebt, q, now)
        <3> DEFINE keys == {"lookups"}
        <3>1. Kept(budget, keys, 1, now) /\ "lookups" \in keys /\ 1 \in Nat \ {0}
            BY <1>0
        <3> HIDE DEF keys
        <3> QED BY <1>0, <2>2, <2>3, <3>1, HitStaysBacked DEF p
    <2>6. OfItsIp'
        <3> SUFFICES ASSUME NEW b \in Range(hit), NEW x \in b.held, req'[x].pc = "lookup"
                     PROVE  b.key = req'[x].ip
            BY <1>4 DEF OfItsIp
        <3>1. CASE x = r /\ b.key = ip
            BY <2>1, <3>1
        <3>2. CASE \E c \in Range(ips) : c.key = b.key /\ x \in c.held
            <4>1. PICK c \in Range(ips) : c.key = b.key /\ x \in c.held
                BY <3>2
            <4>2. x \in Request
                BY <1>0, <4>1, BucketsOfAStore, BucketFields DEF Kept
            <4>3. x # r
                BY <1>0, <4>1 DEF Backed
            <4> QED BY <1>0, <2>1, <4>1, <4>2, <4>3 DEF OfItsIp
        <3> QED BY <1>0, <3>1, <3>2, HeldAfterHit
    <2> QED BY <1>0, <1>4, <2>4, <2>5, <2>6 DEF Debts, q
\* The budget is exhausted: the slot of the address is given back.
<1>5. ASSUME budget' = bhit, Becomes(r, "budgetLimited"), NoBudget(r, ip)
      PROVE  Debts'
    <2>1. req'[r].pc = "budgetLimited" /\ \A x \in Request \ {r} : req'[x] = req[x]
        BY <1>0, <1>5, BecomesTyped, AnsweredStates
    <2>2. q[r] = "budgetLimited" /\ \A x \in Request \ {r} : q[x] = p[x]
        BY <2>1, <1>2 DEF PcOf
    <2> HIDE DEF q, p
    <2>3. q[r] \in BudgetDebt /\ q[r] # "idle"
        BY <2>2 DEF BudgetDebt
    <2>4. Backed(AfterRefund(hit, r, ip, now), IpDebt, q, now)
        <3> DEFINE m == [x \in Request |-> IF x = r THEN "ipLimited" ELSE p[x]]
        <3>1. m[r] = "ipLimited" /\ \A x \in Request \ {r} : m[x] = p[x]
            OBVIOUS
        <3> HIDE DEF m
        <3>2. m[r] \in IpDebt /\ m[r] # "idle"
            BY <3>1 DEF IpDebt
        <3>3. /\ Backed(hit, IpDebt, m, now)
              /\ \A b \in Range(hit) : \/ b \in Range(ips) /\ b.key # ip /\ r \notin b.held
                                       \/ b.key = ip /\ b.count > 0 /\ ~IsOver(b, now)
            BY <1>0, <3>1, <3>2, HitStaysBacked DEF p
        <3> HIDE DEF hit
        <3>4. \A b \in Range(hit) : r \in b.held => b.key = ip \/ IsOver(b, now)
            BY <3>3
        <3>5. \A x \in Request \ {r} : q[x] = m[x]
            BY <2>2, <3>1
        <3> QED BY <1>0, <1>1, <2>3, <3>3, <3>4, <3>5, RefundStaysBacked
    <2>5. Backed(bhit, BudgetDebt, q, now)
        <3> DEFINE keys == {"lookups"}
        <3>1. Kept(budget, keys, 1, now) /\ "lookups" \in keys /\ 1 \in Nat \ {0}
            BY <1>0
        <3> HIDE DEF keys
        <3> QED BY <1>0, <2>2, <2>3, <3>1, HitStaysBacked DEF p
    <2>6. ips' = AfterRefund(hit, r, ip, now)
        BY <1>5 DEF NoBudget
    <2>7. OfItsIp'
        <3> SUFFICES ASSUME NEW b \in Range(AfterRefund(hit, r, ip, now)), NEW x \in b.held,
                            req'[x].pc = "lookup"
                     PROVE  b.key = req'[x].ip
            BY <2>6 DEF OfItsIp
        <3>1. x # r
            BY <2>1
        <3>2. PICK d \in Range(hit) : d.key = b.key /\ b.held \subseteq d.held
            BY <1>0, <1>1, HeldAfterRefund
        <3>3. \A e \in Range(hit) : \A y \in e.held :
                 \/ y = r /\ e.key = ip
                 \/ \E c \in Range(ips) : c.key = e.key /\ y \in c.held
            BY <1>0, HeldAfterHit
        <3> HIDE DEF hit
        <3>5. PICK c \in Range(ips) : c.key = d.key /\ x \in c.held
            BY <3>1, <3>2, <3>3
        <3>4. x \in Request
            BY <1>0, <3>5, BucketsOfAStore, BucketFields DEF Kept
        <3> QED BY <1>0, <2>1, <3>1, <3>2, <3>4, <3>5 DEF OfItsIp
    <2> QED BY <1>0, <1>5, <2>4, <2>5, <2>6, <2>7 DEF Debts, q
<1> QED BY <1>3, <1>4, <1>5 DEF Arrive

LEMMA LookupFindsPaysBack ==
    ASSUME DebtsOK, NEW r \in Request, LookupFinds(r)
    PROVE  Debts'
<1> USE Limits
<1>0. /\ TypeOK /\ now \in Nat /\ now' = now
      /\ Kept(ips, Ip, MaxIps, now) /\ Kept(budget, {"lookups"}, 1, now)
      /\ Backed(ips, IpDebt, PcOf, now) /\ Backed(budget, BudgetDebt, PcOf, now) /\ OfItsIp
      /\ req \in [Request -> Req] /\ req[r].pc = "lookup"
    BY DEF DebtsOK, Debts, StoresOK, Stores, TypeOK, LookupFinds
<1> DEFINE p == PcOf
           q == PcOf'
<1>1. /\ ips' = AfterRefund(ips, r, req[r].ip, now)
      /\ budget' = AfterRefund(budget, r, "lookups", now)
    BY DEF LookupFinds, GiveBack
<1>2. /\ req'[r].pc \in {"feedLimited", "body", "userLimited"}
      /\ \A x \in Request \ {r} : req'[x] = req[x]
    BY <1>0, LookupFindsChanges DEF FoundEffect
<1>3. q[r] # "idle" /\ \A x \in Request \ {r} : q[x] = p[x]
    BY <1>2 DEF PcOf
<1> HIDE DEF p, q
<1>4. Backed(ips', IpDebt, q, now)
    <2>1. \A b \in Range(ips) : r \in b.held => b.key = req[r].ip
        BY <1>0 DEF OfItsIp
    <2> QED BY <1>0, <1>1, <1>3, <2>1, RefundStaysBacked DEF p
<1>5. Backed(budget', BudgetDebt, q, now)
    <2> DEFINE keys == {"lookups"}
    <2>1. Kept(budget, keys, 1, now)
        BY <1>0
    <2>2. \A b \in Range(budget) : b.key = "lookups"
        BY <1>0, TheBudget
    <2> HIDE DEF keys
    <2> QED BY <1>0, <1>1, <1>3, <2>1, <2>2, RefundStaysBacked DEF p
<1>6. OfItsIp'
    <2> SUFFICES ASSUME NEW b \in Range(ips'), NEW x \in b.held, req'[x].pc = "lookup"
                 PROVE  b.key = req'[x].ip
        BY DEF OfItsIp
    <2>1. x # r
        BY <1>2
    <2>2. PICK c \in Range(ips) : c.key = b.key /\ b.held \subseteq c.held
        BY <1>0, <1>1, HeldAfterRefund
    <2>3. x \in Request
        BY <1>0, <2>2, BucketsOfAStore, BucketFields DEF Kept
    <2> QED BY <1>0, <1>2, <2>1, <2>2, <2>3 DEF OfItsIp
<1> QED BY <1>0, <1>4, <1>5, <1>6 DEF Debts, q

\* The other steps leave the stores alone.
LEMMA TheRestOwes ==
    ASSUME DebtsOK, UNCHANGED <<ips, budget>>, now' \in {now, now + 1},
           \A x \in Request : \/ req'[x] = req[x]
                              \/ /\ req[x].pc = "lookup" /\ req'[x].pc \in {"notFound", "threw"}
                              \/ /\ req[x].pc \in {"body", "ingest"}
                                 /\ req'[x].pc \in {"ingest", "refused", "stored", "notStored"}
    PROVE  Debts'
<1> USE Limits
<1>0. /\ now \in Nat
      /\ Kept(ips, Ip, MaxIps, now) /\ Kept(budget, {"lookups"}, 1, now)
      /\ Backed(ips, IpDebt, PcOf, now) /\ Backed(budget, BudgetDebt, PcOf, now) /\ OfItsIp
    BY DEF DebtsOK, Debts, StoresOK, Stores, TypeOK
<1> DEFINE p == PcOf
           q == PcOf'
<1>1. /\ \A x \in Request : p[x] \in IpDebt => q[x] \in IpDebt
      /\ \A x \in Request : p[x] \in BudgetDebt => q[x] \in BudgetDebt
      /\ \A x \in Request : p[x] # "idle" => q[x] # "idle"
    BY DEF PcOf, IpDebt, BudgetDebt, LookedUp
<1> HIDE DEF p, q
<1>2. Backed(ips, IpDebt, q, now')
    BY <1>0, <1>1, BackedLater DEF p
<1>3. Backed(budget, BudgetDebt, q, now')
    <2> DEFINE keys == {"lookups"}
    <2>1. Kept(budget, keys, 1, now)
        BY <1>0
    <2> HIDE DEF keys
    <2> QED BY <1>0, <1>1, <2>1, BackedLater DEF p
<1>4. OfItsIp'
    <2> SUFFICES ASSUME NEW b \in Range(ips), NEW x \in b.held, req'[x].pc = "lookup"
                 PROVE  b.key = req'[x].ip
        BY DEF OfItsIp
    <2>1. x \in Request
        BY <1>0, BucketsOfAStore, BucketFields DEF Kept
    <2>2. req'[x] = req[x]
        BY <2>1
    <2> QED BY <1>0, <2>2 DEF OfItsIp
<1> QED BY <1>2, <1>3, <1>4 DEF Debts, q

LEMMA DebtsStep ==
    ASSUME DebtsOK, [Next]_vars
    PROVE  Debts'
<1>0. TypeOK
    BY DEF DebtsOK, StoresOK
<1>1. ASSUME NEW r \in Request, NEW ip \in Ip, NEW token \in Token \cup {"none"},
             Arrive(r, ip, token)
      PROVE  Debts'
    BY <1>1, ArriveOwes
<1>2. ASSUME NEW r \in Request, LookupMisses(r)
      PROVE  Debts'
    <2>1. PICK pc \in {"notFound", "threw"} : Becomes(r, pc)
        BY <1>2 DEF LookupMisses
    <2>2. req'[r].pc = pc /\ \A x \in Request \ {r} : req'[x] = req[x]
        BY <1>0, <2>1, BecomesTyped, AnsweredStates
    <2>3. req[r].pc = "lookup" /\ UNCHANGED <<ips, budget>> /\ now' = now
        BY <1>2 DEF LookupMisses, KeepSlots
    <2> QED BY <2>1, <2>2, <2>3, TheRestOwes
<1>3. ASSUME NEW r \in Request, LookupFinds(r)
      PROVE  Debts'
    BY <1>3, LookupFindsPaysBack
<1>4. ASSUME NEW r \in Request, ReadBody(r) \/ Ingest(r)
      PROVE  Debts'
    <2>1. PICK pc \in {"ingest", "refused", "stored", "notStored"} : Becomes(r, pc)
        BY <1>4 DEF ReadBody, Ingest
    <2>2. req'[r].pc = pc /\ \A x \in Request \ {r} : req'[x] = req[x]
        BY <1>0, <2>1, BecomesTyped, AnsweredStates
    <2>3. req[r].pc \in {"body", "ingest"} /\ UNCHANGED <<ips, budget>> /\ now' = now
        BY <1>4 DEF ReadBody, Ingest
    <2> QED BY <2>1, <2>2, <2>3, TheRestOwes
<1>5. ASSUME NEW f \in Feed, \/ \E row \in {"on", "off", "deleted"} : SetFeed(f, row)
                             \/ \E token \in Token : RegenerateToken(f, token)
      PROVE  Debts'
    BY <1>5, TheRestOwes DEF SetFeed, RegenerateToken
<1>6. CASE Tick
    BY <1>6, TheRestOwes DEF Tick
<1>7. CASE UNCHANGED vars
    BY <1>7, TheRestOwes DEF vars
<1> QED BY <1>1, <1>2, <1>3, <1>4, <1>5, <1>6, <1>7 DEF Next

\* A request whose token turns out to be good costs its address and the budget
\* nothing: at any time a bucket counts no more than the requests that are
\* being looked up, have missed, or were turned away at it, although a slot is
\* taken before an await and given back after it, perhaps to another bucket.
THEOREM OnlyDebtsCount == Spec => []OnlyDebtsAreCounted
<1>1. Init => DebtsOK
    <2> SUFFICES ASSUME Init PROVE DebtsOK
        OBVIOUS
    <2>1. Range(ips) = {} /\ Range(budget) = {}
        BY DEF Init, Range
    <2>2. Debts
        BY <2>1 DEF Debts, Backed, OfItsIp
    <2> QED BY <2>2, StoresInit DEF DebtsOK
<1>2. DebtsOK /\ [Next]_vars => DebtsOK'
    BY DebtsStep, StoresStep DEF DebtsOK
<1>3. DebtsOK => OnlyDebtsAreCounted
    <2> SUFFICES ASSUME DebtsOK PROVE OnlyDebtsAreCounted
        OBVIOUS
    <2>1. ASSUME NEW b \in OpenBuckets(ips)
          PROVE  b.count <= Cardinality({r \in b.held :
                                 req[r].pc \in LookedUp \cup {"malformed", "ipLimited"}})
        <3>1. b \in Range(ips) /\ ~IsOver(b, now)
            BY DEF OpenBuckets, Range
        <3>2. b.held \subseteq Request
            BY <3>1, BucketsOfAStore, BucketFields DEF DebtsOK, StoresOK, TypeOK
        <3>3. b.count <= Cardinality(Debtors(b, IpDebt, PcOf))
            BY <3>1 DEF DebtsOK, Debts, Backed
        <3>4. Debtors(b, IpDebt, PcOf)
                 = {r \in b.held : req[r].pc \in LookedUp \cup {"malformed", "ipLimited"}}
            BY <3>2 DEF Debtors, PcOf, IpDebt
        <3> QED BY <3>3, <3>4
    <2>2. ASSUME NEW b \in OpenBuckets(budget)
          PROVE  b.count <= Cardinality({r \in b.held :
                                 req[r].pc \in LookedUp \cup {"budgetLimited"}})
        <3>1. b \in Range(budget) /\ ~IsOver(b, now)
            BY DEF OpenBuckets, Range
        <3>2. b.held \subseteq Request
            BY <3>1, BucketsOfAStore, BucketFields DEF DebtsOK, StoresOK, TypeOK
        <3>3. b.count <= Cardinality(Debtors(b, BudgetDebt, PcOf))
            BY <3>1 DEF DebtsOK, Debts, Backed
        <3>4. Debtors(b, BudgetDebt, PcOf)
                 = {r \in b.held : req[r].pc \in LookedUp \cup {"budgetLimited"}}
            BY <3>2 DEF Debtors, PcOf, BudgetDebt
        <3> QED BY <3>3, <3>4
    <2> QED BY <2>1, <2>2 DEF OnlyDebtsAreCounted
<1> QED BY <1>1, <1>2, <1>3, PTL DEF Spec

-----------------------------------------------------------------------------
(* The budget for lookups.                                                 *)

\* The lookups of a window that are running or have missed.
Lookups(w) == {x \in Request : req[x].pc \in LookedUp /\ req[x].window = w}

\* The bucket b counts, with the slots that others gave back to it, just the
\* requests that it holds; they contain the lookups of its window, and no
\* lookup has a later window.
Accounts(b) ==
    /\ IsFiniteSet(b.held)
    /\ Cardinality(b.held) = b.count + b.foreign
    /\ \A x \in b.held : req[x].pc # "idle"
    /\ Lookups(b.start) \subseteq b.held
    /\ Cardinality(Lookups(b.start)) <= LookupLimit + b.foreign
    /\ \A x \in Request : req[x].pc \in LookedUp => req[x].window <= b.start

Budgeted ==
    /\ \A b \in Range(budget) : Accounts(b)
    /\ Range(budget) = {} => \A x \in Request : req[x].pc \notin LookedUp

BudgetOK == StoresOK /\ Budgeted

LEMMA NotInABucket ==
    ASSUME NEW pc \in {"idle", "ipLimited", "malformed", "budgetLimited", "body", "ingest",
                       "feedLimited", "userLimited", "refused", "stored", "notStored"}
    PROVE  pc \notin LookedUp
BY DEF LookedUp

\* What a hit makes of the budget.
LEMMA BudgetAfterHit ==
    ASSUME BudgetOK, NEW r \in Request, req[r].pc = "idle",
           NEW b \in Range(AfterHit(budget, 1, r, "lookups", now))
    PROVE  /\ b = AfterHit(budget, 1, r, "lookups", now)[1]
           /\ b \in Bucket({"lookups"})
           /\ BudgetLeft(r) <=> b.count <= LookupLimit
           /\ \/ /\ b.start = now /\ b.count = 1 /\ b.held = {r} /\ b.foreign = 0
                 /\ \A c \in Range(budget) : c.start < now
              \/ \E c \in Range(budget) :
                    /\ Range(budget) = {c}
                    /\ b.start = c.start /\ b.count = c.count + 1
                    /\ b.held = c.held \cup {r} /\ b.foreign = c.foreign
<1> DEFINE keys == {"lookups"}
           s == AfterHit(budget, 1, r, "lookups", now)
<1>0. now \in Nat /\ Kept(budget, keys, 1, now) /\ "lookups" \in keys /\ 1 \in Nat \ {0}
    BY DEF BudgetOK, StoresOK, Stores, TypeOK
<1>1. \A c \in Range(budget) : \A d \in Range(budget) : c = d
    BY <1>0, TheBudget
<1> HIDE DEF keys
<1>2. Kept(s, keys, 1, now) /\ HitEffect(budget, s, 1, r, "lookups", now)
    BY <1>0, HitCounts
<1> HIDE DEF s
<1>3. b = s[1] /\ b.key = "lookups" /\ b \in Bucket({"lookups"})
    BY <1>0, <1>2, TheBudget DEF s, keys
<1>4. \A c \in Range(budget) : c \in Bucket(keys)
    BY <1>0, BucketsOfAStore DEF Kept
<1>5. CountOf(s, "lookups") = b.count
    BY <1>0, <1>2, <1>3, CountOfTheBucket DEF s
<1>6. BudgetLeft(r) <=> b.count <= LookupLimit
    BY <1>5 DEF BudgetLeft, WithinLimit, s
<1>7. CASE /\ \A c \in Range(budget) : c.key = "lookups" => IsOver(c, now)
           /\ NewBucket(r, "lookups", now) \in Range(s)
    <2>1. /\ NewBucket(r, "lookups", now).key = "lookups"
          /\ NewBucket(r, "lookups", now).start = now
          /\ NewBucket(r, "lookups", now).count = 1
          /\ NewBucket(r, "lookups", now).held = {r}
          /\ NewBucket(r, "lookups", now).foreign = 0
        BY <1>0, NewBucketFields
    <2>2. b = NewBucket(r, "lookups", now)
        BY <1>0, <1>2, <1>3, <1>7, <2>1, OneBucket DEF s
    <2>3. ASSUME NEW c \in Range(budget)
          PROVE  c.start < now
        <3>1. c.key = "lookups" /\ c.start \in Nat
            BY <1>0, <1>4, BucketFields DEF keys
        <3>2. now - c.start >= Window
            BY <1>7, <3>1 DEF IsOver
        <3> QED BY <1>0, <3>1, <3>2, HookLimiterAssumption
    <2> QED BY <1>3, <1>6, <2>1, <2>2, <2>3 DEF s
<1>8. ASSUME NEW c \in Range(budget), Counted(c, r) \in Range(s)
      PROVE  /\ Range(budget) = {c}
             /\ b.start = c.start /\ b.count = c.count + 1
             /\ b.held = c.held \cup {r} /\ b.foreign = c.foreign
    <2>1. /\ Counted(c, r).key = c.key /\ Counted(c, r).start = c.start
          /\ Counted(c, r).count = c.count + 1
          /\ Counted(c, r).held = c.held \cup {r} /\ Counted(c, r).foreign = c.foreign
        BY <1>4, CountedFields
    <2>2. c.key = "lookups"
        BY <1>0, <1>4, BucketFields DEF keys
    <2>3. b = Counted(c, r)
        BY <1>0, <1>2, <1>3, <1>8, <2>1, <2>2, OneBucket DEF s
    <2> QED BY <1>1, <2>1, <2>3
<1> QED BY <1>2, <1>3, <1>6, <1>7, <1>8 DEF HitEffect, s

LEMMA LookupsStay ==
    ASSUME NEW r \in Request, \A x \in Request \ {r} : req'[x] = req[x],
           req[r].pc \notin LookedUp, req'[r].pc \notin LookedUp, NEW w
    PROVE  Lookups(w)' = Lookups(w)
BY DEF Lookups

LEMMA ArriveIsBudgeted ==
    ASSUME BudgetOK, NEW r \in Request, NEW ip \in Ip,
           NEW token \in Token \cup {"none"}, Arrive(r, ip, token)
    PROVE  Budgeted'
<1> USE Limits
<1> DEFINE bhit == AfterHit(budget, 1, r, "lookups", now)
<1>0. /\ TypeOK /\ now \in Nat /\ req \in [Request -> Req] /\ req[r].pc = "idle"
      /\ Kept(budget, {"lookups"}, 1, now)
      /\ \A c \in Range(budget) : Accounts(c)
      /\ Range(budget) = {} => \A x \in Request : req[x].pc \notin LookedUp
      /\ req[r].pc \notin LookedUp
    BY NotInABucket DEF BudgetOK, Budgeted, StoresOK, Stores, TypeOK, Arrive
<1>1. \A c \in Range(budget) : c \in Bucket({"lookups"})
    BY <1>0, TheBudget
<1>2. ASSUME NEW c \in Range(budget)
      PROVE  /\ c.start \in Nat /\ c.count \in Nat /\ c.foreign \in Nat
             /\ c.held \subseteq Request /\ r \notin c.held
    BY <1>0, <1>1, BucketFields DEF Accounts
\* The answer is 429 or 400 before the budget is asked.
<1>3. ASSUME NEW pc \in {"ipLimited", "malformed"}, Becomes(r, pc), budget' = budget
      PROVE  Budgeted'
    <2>1. req'[r].pc = pc /\ \A x \in Request \ {r} : req'[x] = req[x]
        BY <1>0, <1>3, BecomesTyped, AnsweredStates
    <2>2. req'[r].pc \notin LookedUp
        BY <1>3, <2>1, NotInABucket
    <2>3. \A w : Lookups(w)' = Lookups(w)
        BY <1>0, <2>1, <2>2, LookupsStay
    <2>4. ASSUME NEW c \in Range(budget)
          PROVE  Accounts(c)'
        <3>1. \A x \in c.held : req'[x].pc # "idle"
            BY <1>0, <1>2, <2>1 DEF Accounts
        <3>2. \A x \in Request : req'[x].pc \in LookedUp => req'[x].window <= c.start
            BY <1>0, <2>1, <2>2 DEF Accounts
        <3> QED BY <1>0, <2>3, <3>1, <3>2 DEF Accounts
    <2> QED BY <1>0, <1>3, <2>1, <2>2, <2>4 DEF Budgeted
\* The budget is asked.
<1>4. ASSUME budget' = bhit,
             \A x \in Request \ {r} : req'[x] = req[x],
             \/ /\ BudgetLeft(r) /\ req'[r].pc = "lookup" /\ req'[r].window = bhit[1].start
             \/ req'[r].pc = "budgetLimited"
      PROVE  Budgeted'
    <2>1. PICK b \in Range(bhit) : TRUE
        <3> DEFINE keys == {"lookups"}
        <3>1. Kept(budget, keys, 1, now) /\ "lookups" \in keys /\ 1 \in Nat \ {0}
            BY <1>0
        <3> HIDE DEF keys
        <3> QED BY <1>0, <3>1, HitIsTyped
    <2>2. \A d \in Range(bhit) : d = b
        BY <1>0, <2>1, BudgetAfterHit
    <2> SUFFICES Accounts(b)'
        BY <1>4, <2>1, <2>2 DEF Budgeted
    <2>3. /\ b = bhit[1]
          /\ BudgetLeft(r) <=> b.count <= LookupLimit
          /\ b \in Bucket({"lookups"})
        BY <1>0, <2>1, BudgetAfterHit
    <2>4. b.start \in Nat /\ b.count \in Nat /\ b.foreign \in Nat
        BY <2>3, BucketFields
    <2>7. ASSUME \A c \in Range(budget) : c.start < now
          PROVE  \A x \in Request : req[x].pc \in LookedUp => req[x].window < now
        <3> SUFFICES ASSUME NEW x \in Request, req[x].pc \in LookedUp
                     PROVE  req[x].window < now
            OBVIOUS
        <3>1. PICK c \in Range(budget) : TRUE
            BY <1>0
        <3>2. req[x].window <= c.start
            BY <1>0 DEF Accounts
        <3>3. req[x].window \in Nat \cup {Never}
            BY <1>0, ReqFields
        <3> QED BY <1>0, <1>2, <2>7, <3>2, <3>3 DEF Never
    <2>5. CASE req'[r].pc = "budgetLimited"
        <3>1. req'[r].pc \notin LookedUp
            BY <2>5, NotInABucket
        <3>2. \A w : Lookups(w)' = Lookups(w)
            BY <1>0, <1>4, <3>1, LookupsStay
        <3>3. CASE /\ b.start = now /\ b.count = 1 /\ b.held = {r} /\ b.foreign = 0
                   /\ \A c \in Range(budget) : c.start < now
            <4>1. \A x \in Request : req[x].pc \in LookedUp => req[x].window < now
                BY <2>7, <3>3
            <4>2. \A x \in Request : req'[x].pc \in LookedUp => req'[x].window < now
                BY <1>4, <3>1, <4>1
            <4>3. Lookups(b.start)' = {}
                <5>1. \A x \in Request : req[x].pc \in LookedUp => req[x].window # now
                    BY <1>0, <4>1
                <5>2. Lookups(b.start) = {}
                    BY <3>3, <5>1 DEF Lookups
                <5> QED BY <3>2, <5>2
            <4>4. IsFiniteSet({r}) /\ Cardinality({r}) = 1 /\ Cardinality({}) = 0
                BY FS_Singleton, FS_EmptySet
            <4>5. \A x \in b.held : req'[x].pc # "idle"
                BY <2>5, <3>3
            <4>6. \A x \in Request : req'[x].pc \in LookedUp => req'[x].window <= b.start
                <5> SUFFICES ASSUME NEW x \in Request, req'[x].pc \in LookedUp
                             PROVE  req'[x].window <= b.start
                    OBVIOUS
                <5>1. x # r
                    BY <3>1
                <5>2. req[x].window \in Nat \cup {Never} /\ req'[x] = req[x]
                    BY <1>0, <1>4, <5>1, ReqFields
                <5> QED BY <1>0, <3>3, <4>2, <5>2 DEF Never
            <4> QED BY <3>3, <4>3, <4>4, <4>5, <4>6 DEF Accounts
        <3>4. CASE \E c \in Range(budget) :
                    /\ Range(budget) = {c}
                    /\ b.start = c.start /\ b.count = c.count + 1
                    /\ b.held = c.held \cup {r} /\ b.foreign = c.foreign
            <4>1. PICK c \in Range(budget) :
                    /\ b.start = c.start /\ b.count = c.count + 1
                    /\ b.held = c.held \cup {r} /\ b.foreign = c.foreign
                BY <3>4
            <4>2. Accounts(c)
                BY <1>0
            <4>3. IsFiniteSet(b.held) /\ Cardinality(b.held) = Cardinality(c.held) + 1
                BY <1>2, <4>1, <4>2, FS_AddElement DEF Accounts
            <4>4. Cardinality(b.held) = b.count + b.foreign
                BY <1>2, <4>1, <4>2, <4>3 DEF Accounts
            <4>5. \A x \in b.held : req'[x].pc # "idle"
                BY <1>2, <1>4, <2>5, <4>1, <4>2 DEF Accounts
            <4>6. \A x \in Request : req'[x].pc \in LookedUp => req'[x].window <= b.start
                BY <1>4, <3>1, <4>1, <4>2 DEF Accounts
            <4>7. Lookups(b.start)' \subseteq b.held
                BY <3>2, <4>1, <4>2 DEF Accounts
            <4>8. Cardinality(Lookups(b.start)') <= LookupLimit + b.foreign
                BY <3>2, <4>1, <4>2 DEF Accounts
            <4> QED BY <4>3, <4>4, <4>5, <4>6, <4>7, <4>8 DEF Accounts
        <3> QED BY <1>0, <2>1, <3>3, <3>4, BudgetAfterHit
    <2>6. CASE BudgetLeft(r) /\ req'[r].pc = "lookup" /\ req'[r].window = bhit[1].start
        <3>1. req'[r].window = b.start /\ b.count <= LookupLimit
            BY <2>3, <2>6
        <3>2. Lookups(b.start)' \subseteq Lookups(b.start) \cup {r}
            BY <1>4 DEF Lookups
        <3>3. /\ IsFiniteSet(b.held) /\ Cardinality(b.held) = b.count + b.foreign
              /\ Lookups(b.start)' \subseteq b.held
              /\ \A x \in b.held : req'[x].pc # "idle"
              /\ \A x \in Request : req'[x].pc \in LookedUp => req'[x].window <= b.start
            <4>1. CASE /\ b.start = now /\ b.count = 1 /\ b.held = {r} /\ b.foreign = 0
                       /\ \A c \in Range(budget) : c.start < now
                <5>1. \A x \in Request : req[x].pc \in LookedUp => req[x].window < now
                    BY <2>7, <4>1
                <5>2. \A x \in Request : req[x].pc \in LookedUp => req[x].window # now
                    BY <1>0, <5>1
                <5>3. Lookups(b.start) = {}
                    BY <4>1, <5>2 DEF Lookups
                <5>4. IsFiniteSet({r}) /\ Cardinality({r}) = 1
                    BY FS_Singleton
                <5>5. \A x \in Request : req'[x].pc \in LookedUp => req'[x].window <= b.start
                    <6> SUFFICES ASSUME NEW x \in Request, req'[x].pc \in LookedUp
                                 PROVE  req'[x].window <= b.start
                        OBVIOUS
                    <6>1. CASE x = r
                        BY <2>4, <3>1, <6>1
                    <6>2. CASE x # r
                        <7>1. req[x].window \in Nat \cup {Never} /\ req'[x] = req[x]
                            BY <1>0, <1>4, <6>2, ReqFields
                        <7> QED BY <1>0, <4>1, <5>1, <7>1 DEF Never
                    <6> QED BY <6>1, <6>2
                <5>6. \A x \in b.held : req'[x].pc # "idle"
                    BY <2>6, <4>1
                <5> QED BY <3>2, <4>1, <5>3, <5>4, <5>5, <5>6
            <4>2. CASE \E c \in Range(budget) :
                        /\ Range(budget) = {c}
                        /\ b.start = c.start /\ b.count = c.count + 1
                        /\ b.held = c.held \cup {r} /\ b.foreign = c.foreign
                <5>1. PICK c \in Range(budget) :
                        /\ b.start = c.start /\ b.count = c.count + 1
                        /\ b.held = c.held \cup {r} /\ b.foreign = c.foreign
                    BY <4>2
                <5>2. Accounts(c)
                    BY <1>0
                <5>3. IsFiniteSet(b.held) /\ Cardinality(b.held) = Cardinality(c.held) + 1
                    BY <1>2, <5>1, <5>2, FS_AddElement DEF Accounts
                <5>4. Cardinality(b.held) = b.count + b.foreign
                    BY <1>2, <5>1, <5>2, <5>3 DEF Accounts
                <5>5. \A x \in b.held : req'[x].pc # "idle"
                    BY <1>2, <1>4, <2>6, <5>1, <5>2 DEF Accounts
                <5>6. \A x \in Request : req'[x].pc \in LookedUp => req'[x].window <= b.start
                    <6> SUFFICES ASSUME NEW x \in Request, req'[x].pc \in LookedUp
                                 PROVE  req'[x].window <= b.start
                        OBVIOUS
                    <6>1. CASE x = r
                        BY <2>4, <3>1, <6>1
                    <6>2. CASE x # r
                        BY <1>4, <5>1, <5>2, <6>2 DEF Accounts
                    <6> QED BY <6>1, <6>2
                <5>7. Lookups(b.start)' \subseteq b.held
                    BY <3>2, <5>1, <5>2 DEF Accounts
                <5> QED BY <5>3, <5>4, <5>5, <5>6, <5>7
            <4> QED BY <1>0, <2>1, <4>1, <4>2, BudgetAfterHit
        <3>4. /\ IsFiniteSet(Lookups(b.start)')
              /\ Cardinality(Lookups(b.start)') <= Cardinality(b.held)
              /\ Cardinality(Lookups(b.start)') \in Nat
            BY <3>3, FS_Subset, FS_CardinalityType
        <3>5. Cardinality(Lookups(b.start)') <= LookupLimit + b.foreign
            BY <2>4, <3>1, <3>3, <3>4
        <3> QED BY <3>3, <3>5 DEF Accounts
    <2> QED BY <1>4, <2>5, <2>6
<1>5. CASE /\ token # "none" /\ budget' = bhit /\ BudgetLeft(r)
           /\ req' = [req EXCEPT ![r] = [@ EXCEPT !.pc = "lookup", !.ip = ip,
                                      !.token = token, !.window = budget'[1].start]]
    <2>1. /\ req'[r].pc = "lookup" /\ req'[r].window = budget'[1].start
          /\ \A x \in Request \ {r} : req'[x] = req[x]
        BY <1>0, <1>5 DEF Req
    <2> QED BY <1>4, <1>5, <2>1
<1>6. CASE budget' = bhit /\ Becomes(r, "budgetLimited")
    <2>1. req'[r].pc = "budgetLimited" /\ \A x \in Request \ {r} : req'[x] = req[x]
        BY <1>0, <1>6, BecomesTyped, AnsweredStates
    <2> QED BY <1>4, <1>6, <2>1
<1> QED BY <1>3, <1>5, <1>6 DEF Arrive

\* The rest of the steps.
LEMMA LookupFindsIsBudgeted ==
    ASSUME BudgetOK, NEW r \in Request, LookupFinds(r)
    PROVE  Budgeted'
<1> USE Limits
<1> DEFINE s == AfterRefund(budget, r, "lookups", now)
<1>0. /\ TypeOK /\ now \in Nat /\ req \in [Request -> Req]
      /\ Kept(budget, {"lookups"}, 1, now)
      /\ \A c \in Range(budget) : Accounts(c)
      /\ Range(budget) = {} => \A x \in Request : req[x].pc \notin LookedUp
    BY DEF BudgetOK, Budgeted, StoresOK, Stores, TypeOK
<1>1. \A c \in Range(budget) : c \in Bucket({"lookups"})
    BY <1>0, TheBudget
<1>2. budget' = s
    BY DEF LookupFinds, GiveBack
<1>3. /\ req'[r].pc \in {"feedLimited", "body", "userLimited"}
      /\ \A x \in Request \ {r} : req'[x] = req[x]
    BY <1>0, LookupFindsChanges DEF FoundEffect
<1>4. req'[r].pc \notin LookedUp
    BY <1>3, NotInABucket
<1>5. \A w : Lookups(w)' \subseteq Lookups(w) \ {r}
    BY <1>3, <1>4 DEF Lookups
<1>6. /\ \A b \in Range(s) : \E c \in Range(budget) : b = Repaid(c, r, "lookups", now)
      /\ \A c \in Range(budget) : Repaid(c, r, "lookups", now) \in Range(s)
    <2> DEFINE keys == {"lookups"}
    <2>1. Kept(budget, keys, 1, now)
        BY <1>0
    <2> HIDE DEF keys
    <2>2. /\ Kept(s, keys, 1, now)
          /\ \A b \in Range(s) : \E c \in Range(budget) : b = Repaid(c, r, "lookups", now)
          /\ \A c \in Range(budget) : Repaid(c, r, "lookups", now) \in Range(s)
        BY <1>0, <2>1, RefundGivesBack, Zenon
    <2> QED BY <2>2
<1> HIDE DEF s
<1>7. ASSUME NEW b \in Range(s)
      PROVE  Accounts(b)'
    <2>1. PICK c \in Range(budget) : b = Repaid(c, r, "lookups", now)
        BY <1>6
    <2>2. c \in Bucket({"lookups"}) /\ Accounts(c)
        BY <1>0, <1>1
    <2>3. c.start \in Nat /\ c.count \in Nat /\ c.foreign \in Nat /\ c.held \subseteq Request
        BY <2>2, BucketFields
    <2>4. \A x \in c.held : req'[x].pc # "idle"
        BY <1>3, <2>2, <2>3 DEF Accounts
    <2>5. \A x \in Request : req'[x].pc \in LookedUp => req'[x].window <= c.start
        BY <1>3, <1>4, <2>2 DEF Accounts
    <2>6. /\ IsFiniteSet(c.held) /\ Cardinality(c.held) = c.count + c.foreign
          /\ Lookups(c.start) \subseteq c.held
          /\ Cardinality(Lookups(c.start)) <= LookupLimit + c.foreign
        BY <2>2 DEF Accounts
    <2>7. Lookups(c.start)' \subseteq c.held \ {r}
        BY <1>5, <2>6
    <2>8. Cardinality(Lookups(c.start)') <= LookupLimit + c.foreign
        <3>1. IsFiniteSet(Lookups(c.start))
            BY <2>6, FS_Subset
        <3>2. Lookups(c.start)' \subseteq Lookups(c.start)
            BY <1>5
        <3>3. /\ Cardinality(Lookups(c.start)') <= Cardinality(Lookups(c.start))
              /\ Cardinality(Lookups(c.start)') \in Nat
              /\ Cardinality(Lookups(c.start)) \in Nat
            BY <3>1, <3>2, FS_Subset, FS_CardinalityType
        <3> QED BY <2>3, <2>6, <3>3
    <2>9. Cardinality(Lookups(c.start)') \in Nat
        BY <2>6, <2>7, FS_Subset, FS_CardinalityType
    <2>10. CASE b = c
        BY <2>4, <2>5, <2>6, <2>7, <2>8, <2>10 DEF Accounts
    <2>11. CASE c.count > 0 /\ b = GivenBack(c, r) /\ r \in c.held
        <3>1. /\ b.start = c.start /\ b.count = c.count - 1
              /\ b.held = c.held \ {r} /\ b.foreign = c.foreign
            BY <2>2, <2>11, GivenBackFields
        <3>2. IsFiniteSet(b.held) /\ Cardinality(b.held) = Cardinality(c.held) - 1
            BY <2>6, <2>11, <3>1, FS_RemoveElement
        <3>3. Cardinality(b.held) = b.count + b.foreign
            BY <2>3, <2>6, <3>1, <3>2
        <3>4. /\ \A x \in b.held : req'[x].pc # "idle"
              /\ Lookups(b.start)' \subseteq b.held
              /\ Cardinality(Lookups(b.start)') <= LookupLimit + b.foreign
              /\ \A x \in Request : req'[x].pc \in LookedUp => req'[x].window <= b.start
            BY <2>4, <2>5, <2>7, <2>8, <3>1
        <3> QED BY <3>2, <3>3, <3>4 DEF Accounts
    <2>12. CASE c.count > 0 /\ b = GivenBack(c, r) /\ r \notin c.held
        <3>1. /\ b.start = c.start /\ b.count = c.count - 1
              /\ b.held = c.held /\ b.foreign = c.foreign + 1
            BY <2>2, <2>12, GivenBackFields
        <3>2. Cardinality(b.held) = b.count + b.foreign
            BY <2>3, <2>6, <3>1
        <3>3. Cardinality(Lookups(b.start)') <= LookupLimit + b.foreign
            BY <2>3, <2>8, <2>9, <3>1
        <3>4. /\ IsFiniteSet(b.held)
              /\ \A x \in b.held : req'[x].pc # "idle"
              /\ Lookups(b.start)' \subseteq b.held
              /\ \A x \in Request : req'[x].pc \in LookedUp => req'[x].window <= b.start
            BY <2>4, <2>5, <2>6, <2>7, <3>1
        <3> QED BY <3>2, <3>3, <3>4 DEF Accounts
    <2> QED BY <2>1, <2>10, <2>11, <2>12 DEF Repaid
<1>8. Range(s) = {} => \A x \in Request : req'[x].pc \notin LookedUp
    BY <1>0, <1>3, <1>4, <1>6
<1> QED BY <1>2, <1>7, <1>8 DEF Budgeted

LEMMA TheRestIsBudgeted ==
    ASSUME BudgetOK, budget' = budget,
           \A x \in Request : \/ req'[x] = req[x]
                              \/ /\ req[x].pc \in LookedUp /\ req'[x].pc \in LookedUp
                                 /\ req'[x].window = req[x].window
                              \/ /\ req[x].pc \notin LookedUp
                                 /\ req'[x].pc \notin LookedUp \cup {"idle"}
    PROVE  Budgeted'
<1>0. /\ Kept(budget, {"lookups"}, 1, now)
      /\ \A c \in Range(budget) : Accounts(c)
      /\ Range(budget) = {} => \A x \in Request : req[x].pc \notin LookedUp
    BY DEF BudgetOK, Budgeted, StoresOK, Stores
<1>1. \A w : Lookups(w)' = Lookups(w)
    BY DEF Lookups
<1>2. ASSUME NEW c \in Range(budget)
      PROVE  Accounts(c)'
    <2>1. c.held \subseteq Request
        BY <1>0, TheBudget, BucketFields DEF BudgetOK, StoresOK, TypeOK
    <2>2. \A x \in c.held : req'[x].pc # "idle"
        BY <1>0, <2>1, NotInABucket DEF Accounts
    <2>3. \A x \in Request : req'[x].pc \in LookedUp => req'[x].window <= c.start
        BY <1>0 DEF Accounts
    <2> QED BY <1>0, <1>1, <2>2, <2>3 DEF Accounts
<1>3. Range(budget) = {} => \A x \in Request : req'[x].pc \notin LookedUp
    BY <1>0
<1> QED BY <1>2, <1>3 DEF Budgeted

LEMMA BudgetStep ==
    ASSUME BudgetOK, [Next]_vars
    PROVE  Budgeted'
<1>0. TypeOK
    BY DEF BudgetOK, StoresOK
<1>1. ASSUME NEW r \in Request, NEW ip \in Ip, NEW token \in Token \cup {"none"},
             Arrive(r, ip, token)
      PROVE  Budgeted'
    BY <1>1, ArriveIsBudgeted
<1>2. ASSUME NEW r \in Request, LookupMisses(r)
      PROVE  Budgeted'
    <2>1. PICK pc \in {"notFound", "threw"} : Becomes(r, pc)
        BY <1>2 DEF LookupMisses
    <2>2. /\ req'[r].pc = pc /\ req'[r].window = req[r].window
          /\ \A x \in Request \ {r} : req'[x] = req[x]
        BY <1>0, <2>1, BecomesTyped, AnsweredStates
    <2>3. req[r].pc \in LookedUp /\ pc \in LookedUp /\ budget' = budget
        BY <1>2 DEF LookupMisses, KeepSlots, LookedUp
    <2> QED BY <2>2, <2>3, TheRestIsBudgeted
<1>3. ASSUME NEW r \in Request, LookupFinds(r)
      PROVE  Budgeted'
    BY <1>3, LookupFindsIsBudgeted
<1>4. ASSUME NEW r \in Request, ReadBody(r) \/ Ingest(r)
      PROVE  Budgeted'
    <2>1. PICK pc \in {"ingest", "refused", "stored", "notStored"} : Becomes(r, pc)
        BY <1>4 DEF ReadBody, Ingest
    <2>2. req'[r].pc = pc /\ \A x \in Request \ {r} : req'[x] = req[x]
        BY <1>0, <2>1, BecomesTyped, AnsweredStates
    <2>3. req[r].pc \notin LookedUp /\ pc \notin LookedUp \cup {"idle"} /\ budget' = budget
        BY <1>4, NotInABucket DEF ReadBody, Ingest
    <2> QED BY <2>2, <2>3, TheRestIsBudgeted
<1>5. ASSUME NEW f \in Feed, \/ \E row \in {"on", "off", "deleted"} : SetFeed(f, row)
                             \/ \E token \in Token : RegenerateToken(f, token)
      PROVE  Budgeted'
    BY <1>5, TheRestIsBudgeted DEF SetFeed, RegenerateToken
<1>6. CASE Tick
    BY <1>6, TheRestIsBudgeted DEF Tick
<1>7. CASE UNCHANGED vars
    BY <1>7, TheRestIsBudgeted DEF vars
<1> QED BY <1>1, <1>2, <1>3, <1>4, <1>5, <1>6, <1>7 DEF Next

\* The budget does its work although a slot of it is taken before an await and
\* given back after it: the lookups of a window that are running or have missed
\* are no more than the limit, but for the slots that were given back to it by
\* lookups of an earlier window.
THEOREM TheBudgetBoundsTheLookups == Spec => []LookupsAreBounded
<1>1. Init => BudgetOK
    <2> SUFFICES ASSUME Init PROVE BudgetOK
        OBVIOUS
    <2>1. Range(budget) = {}
        BY DEF Init, Range
    <2>2. \A x \in Request : req[x].pc \notin LookedUp
        BY DEF Init, NoReq, LookedUp
    <2> QED BY <2>1, <2>2, StoresInit DEF BudgetOK, Budgeted
<1>2. BudgetOK /\ [Next]_vars => BudgetOK'
    BY BudgetStep, StoresStep DEF BudgetOK
<1>3. BudgetOK => LookupsAreBounded
    <2>1. \A b \in OpenBuckets(budget) : b \in Range(budget)
        BY DEF OpenBuckets, Range
    <2> QED BY <2>1 DEF BudgetOK, Budgeted, Accounts, Lookups, LookupsAreBounded
<1> QED BY <1>1, <1>2, <1>3, PTL DEF Spec

-----------------------------------------------------------------------------
(* What a stretch of time lets through.                                    *)

\* Of the requests P, which passed at the times th: those that passed since lo,
\* and those that did so before hi.
Since(P, th, lo) == {x \in P : lo <= th[x]}
Between(P, th, lo, hi) == {x \in P : lo <= th[x] /\ th[x] < hi}

Timed(P, th) == IsFiniteSet(P) /\ \A x \in P : th[x] \in Nat

\* A bucket that counts n since s, for a key that P passed with, and a limit.
\* After the first instant of its window one less can have passed, because the
\* window began with a hit; and that is all that can have passed in a stretch
\* of one window that ends before it.
Fair(s, n, P, th, limit) ==
    /\ Cardinality(Since(P, th, s)) <= n
    /\ Cardinality(Since(P, th, s)) <= limit
    /\ Cardinality(Since(P, th, s + 1)) <= n - 1
    /\ Cardinality(Since(P, th, s + 1)) <= limit - 1
    /\ \A lo \in Nat : s < lo + Window => Cardinality(Between(P, th, lo, s)) <= limit - 1
    /\ \A x \in P : th[x] < s + Window

Twice(P, th, limit) ==
    \A lo \in Nat : Cardinality(Between(P, th, lo, lo + Window)) < 2 * limit

LEMMA StretchesAreFinite ==
    ASSUME NEW P, NEW th, Timed(P, th), NEW lo, NEW hi
    PROVE  /\ IsFiniteSet(Since(P, th, lo)) /\ Cardinality(Since(P, th, lo)) \in Nat
           /\ IsFiniteSet(Between(P, th, lo, hi)) /\ Cardinality(Between(P, th, lo, hi)) \in Nat
<1>1. Since(P, th, lo) \subseteq P /\ Between(P, th, lo, hi) \subseteq P
    BY DEF Since, Between
<1> QED BY <1>1, FS_Subset, FS_CardinalityType DEF Timed

LEMMA OneMoreInAStretch ==
    ASSUME NEW P, NEW th, Timed(P, th), NEW r, r \notin P, th[r] \in Nat, NEW lo \in Nat
    PROVE  /\ Timed(P \cup {r}, th)
           /\ Cardinality(Since(P \cup {r}, th, lo)) <= Cardinality(Since(P, th, lo)) + 1
           /\ th[r] < lo => Since(P \cup {r}, th, lo) = Since(P, th, lo)
           /\ \A hi \in Nat : hi <= th[r] =>
                  Between(P \cup {r}, th, lo, hi) = Between(P, th, lo, hi)
<1>1. Timed(P \cup {r}, th)
    BY FS_AddElement DEF Timed
<1>2. CASE lo <= th[r]
    <2>1. Since(P \cup {r}, th, lo) = Since(P, th, lo) \cup {r} /\ r \notin Since(P, th, lo)
        BY <1>2 DEF Since
    <2>2. IsFiniteSet(Since(P, th, lo)) /\ Cardinality(Since(P, th, lo)) \in Nat
        BY StretchesAreFinite
    <2>3. Cardinality(Since(P \cup {r}, th, lo)) = Cardinality(Since(P, th, lo)) + 1
        BY <2>1, <2>2, FS_AddElement
    <2> QED BY <1>1, <1>2, <2>2, <2>3 DEF Between
<1>3. CASE ~(lo <= th[r])
    <2>1. Since(P \cup {r}, th, lo) = Since(P, th, lo)
        BY <1>3 DEF Since
    <2>2. Cardinality(Since(P, th, lo)) \in Nat
        BY StretchesAreFinite
    <2> QED BY <1>1, <1>3, <2>1, <2>2 DEF Between
<1> QED BY <1>2, <1>3

\* Only the times of P matter.
LEMMA SameTimes ==
    ASSUME NEW P, NEW th, NEW ti, \A x \in P : ti[x] = th[x]
    PROVE  /\ Timed(P, th) => Timed(P, ti)
           /\ \A s, n, limit : Fair(s, n, P, th, limit) => Fair(s, n, P, ti, limit)
           /\ \A limit : Twice(P, th, limit) => Twice(P, ti, limit)
<1>1. /\ \A lo : Since(P, ti, lo) = Since(P, th, lo)
      /\ \A lo, hi : Between(P, ti, lo, hi) = Between(P, th, lo, hi)
    BY DEF Since, Between
<1>2. Timed(P, th) => Timed(P, ti)
    BY DEF Timed
<1>3. \A s, n, limit : Fair(s, n, P, th, limit) => Fair(s, n, P, ti, limit)
    BY <1>1 DEF Fair
<1>4. \A limit : Twice(P, th, limit) => Twice(P, ti, limit)
    BY <1>1 DEF Twice
<1> QED BY <1>2, <1>3, <1>4

\* A hit in an open window.
LEMMA OpenWindow ==
    ASSUME NEW P, NEW th, Timed(P, th), NEW limit \in Nat \ {0},
           NEW s \in Nat, NEW n \in Nat, Fair(s, n, P, th, limit)
    PROVE  /\ Fair(s, n + 1, P, th, limit)
           /\ \A r : r \notin P /\ th[r] \in Nat /\ s <= th[r] /\ th[r] < s + Window
                     /\ n + 1 <= limit
                        => Fair(s, n + 1, P \cup {r}, th, limit)
<1>0. /\ Cardinality(Since(P, th, s)) \in Nat /\ Cardinality(Since(P, th, s + 1)) \in Nat
      /\ Cardinality(Since(P, th, s)) <= n
      /\ Cardinality(Since(P, th, s)) <= limit
      /\ Cardinality(Since(P, th, s + 1)) <= n - 1
      /\ Cardinality(Since(P, th, s + 1)) <= limit - 1
      /\ \A lo \in Nat : s < lo + Window => Cardinality(Between(P, th, lo, s)) <= limit - 1
      /\ \A x \in P : th[x] < s + Window
    BY StretchesAreFinite DEF Fair
<1>1. Fair(s, n + 1, P, th, limit)
    <2>1. Cardinality(Since(P, th, s)) <= n + 1 /\ Cardinality(Since(P, th, s + 1)) <= (n + 1) - 1
        BY <1>0
    <2> QED BY <1>0, <2>1 DEF Fair
<1>2. ASSUME NEW r, r \notin P, th[r] \in Nat, s <= th[r], th[r] < s + Window, n + 1 <= limit
      PROVE  Fair(s, n + 1, P \cup {r}, th, limit)
    <2> DEFINE Q == P \cup {r}
    <2>1. /\ Timed(Q, th)
          /\ Cardinality(Since(Q, th, s)) <= Cardinality(Since(P, th, s)) + 1
          /\ Cardinality(Since(Q, th, s + 1)) <= Cardinality(Since(P, th, s + 1)) + 1
          /\ \A lo \in Nat : Between(Q, th, lo, s) = Between(P, th, lo, s)
        BY <1>2, OneMoreInAStretch
    <2> HIDE DEF Q
    <2>2. Cardinality(Since(Q, th, s)) \in Nat /\ Cardinality(Since(Q, th, s + 1)) \in Nat
        BY <2>1, StretchesAreFinite
    <2>3. /\ Cardinality(Since(Q, th, s)) <= n + 1
          /\ Cardinality(Since(Q, th, s)) <= limit
          /\ Cardinality(Since(Q, th, s + 1)) <= (n + 1) - 1
          /\ Cardinality(Since(Q, th, s + 1)) <= limit - 1
        BY <1>0, <1>2, <2>1, <2>2
    <2>4. \A lo \in Nat : s < lo + Window => Cardinality(Between(Q, th, lo, s)) <= limit - 1
        BY <1>0, <2>1
    <2>5. \A x \in Q : th[x] < s + Window
        BY <1>0, <1>2 DEF Q
    <2> QED BY <2>3, <2>4, <2>5 DEF Fair, Q
<1> QED BY <1>1, <1>2

\* A hit that begins a window: the one before is over, or P is empty.
LEMMA NewWindow ==
    ASSUME NEW P, NEW th, Timed(P, th), NEW limit \in Nat \ {0}, NEW t \in Nat,
           \/ P = {}
           \/ \E s \in Nat, n \in Nat : Fair(s, n, P, th, limit) /\ t - s >= Window
    PROVE  /\ Fair(t, 1, P, th, limit)
           /\ \A r : r \notin P /\ th[r] = t => Fair(t, 1, P \cup {r}, th, limit)
<1> USE HookLimiterAssumption
<1>1. \A x \in P : th[x] < t
    BY DEF Fair, Timed
<1>2. Since(P, th, t) = {} /\ Since(P, th, t + 1) = {}
    BY <1>1 DEF Since, Timed
<1>3. Cardinality({}) = 0
    BY FS_EmptySet
<1>4. ASSUME NEW lo \in Nat, t < lo + Window
      PROVE  Cardinality(Between(P, th, lo, t)) <= limit - 1
    <2>1. CASE P = {}
        <3>1. Between(P, th, lo, t) = {}
            BY <2>1 DEF Between
        <3> QED BY <3>1, <1>3
    <2>2. CASE \E s \in Nat, n \in Nat : Fair(s, n, P, th, limit) /\ t - s >= Window
        <3>1. PICK s \in Nat, n \in Nat : Fair(s, n, P, th, limit) /\ t - s >= Window
            BY <2>2
        <3>2. s + 1 <= lo
            BY <1>4, <3>1
        <3>3. Between(P, th, lo, t) \subseteq Since(P, th, s + 1)
            BY <3>2 DEF Between, Since, Timed
        <3>4. /\ IsFiniteSet(Since(P, th, s + 1)) /\ Cardinality(Since(P, th, s + 1)) \in Nat
              /\ Cardinality(Between(P, th, lo, t)) \in Nat
            BY StretchesAreFinite
        <3>5. Cardinality(Between(P, th, lo, t)) <= Cardinality(Since(P, th, s + 1))
            BY <3>3, <3>4, FS_Subset
        <3>6. Cardinality(Since(P, th, s + 1)) <= limit - 1
            BY <3>1 DEF Fair
        <3> QED BY <3>4, <3>5, <3>6
    <2> QED BY <2>1, <2>2
<1>5. Fair(t, 1, P, th, limit)
    <2>1. \A x \in P : th[x] < t + Window
        BY <1>1 DEF Timed
    <2>2. 0 <= 1 /\ 0 <= limit /\ 0 <= 1 - 1 /\ 0 <= limit - 1
        OBVIOUS
    <2> QED BY <1>2, <1>3, <1>4, <2>1, <2>2 DEF Fair
<1>6. ASSUME NEW r, r \notin P, th[r] = t
      PROVE  Fair(t, 1, P \cup {r}, th, limit)
    <2> DEFINE Q == P \cup {r}
    <2>1. Since(Q, th, t) = {r} /\ Since(Q, th, t + 1) = {}
        BY <1>2, <1>6 DEF Since
    <2>2. Cardinality({r}) = 1
        BY FS_Singleton
    <2>3. \A lo : Between(Q, th, lo, t) = Between(P, th, lo, t)
        BY <1>6 DEF Between
    <2>4. \A x \in Q : th[x] < t + Window
        BY <1>1, <1>6 DEF Timed
    <2>5. 1 <= 1 /\ 1 <= limit /\ 0 <= 1 - 1 /\ 0 <= limit - 1
        OBVIOUS
    <2> QED BY <1>3, <1>4, <2>1, <2>2, <2>3, <2>4, <2>5 DEF Fair
<1> QED BY <1>5, <1>6

\* A stretch of one window touches two windows at most, or lies before the
\* last one, where it is history.
LEMMA TwoWindowsAtMost ==
    ASSUME NEW P, NEW Q, NEW th, Timed(Q, th), NEW limit \in Nat \ {0},
           NEW s \in Nat, NEW n \in Nat, Fair(s, n, Q, th, limit), Twice(P, th, limit),
           P \subseteq Q, \A x \in Q \ P : s <= th[x]
    PROVE  Twice(Q, th, limit)
<1> USE HookLimiterAssumption
<1> SUFFICES ASSUME NEW lo \in Nat
             PROVE  Cardinality(Between(Q, th, lo, lo + Window)) < 2 * limit
    BY DEF Twice
<1>0. /\ IsFiniteSet(Since(Q, th, s)) /\ Cardinality(Since(Q, th, s)) \in Nat
      /\ IsFiniteSet(Since(Q, th, s + 1)) /\ Cardinality(Since(Q, th, s + 1)) \in Nat
      /\ IsFiniteSet(Between(Q, th, lo, s)) /\ Cardinality(Between(Q, th, lo, s)) \in Nat
      /\ Cardinality(Between(Q, th, lo, lo + Window)) \in Nat
    BY StretchesAreFinite
<1>1. CASE lo + Window <= s
    <2>1. Between(Q, th, lo, lo + Window) = Between(P, th, lo, lo + Window)
        BY <1>1 DEF Between, Timed
    <2> QED BY <2>1 DEF Twice
<1>2. CASE s < lo
    <2>1. Between(Q, th, lo, lo + Window) \subseteq Since(Q, th, s + 1)
        BY <1>2 DEF Between, Since, Timed
    <2>2. Cardinality(Between(Q, th, lo, lo + Window)) <= Cardinality(Since(Q, th, s + 1))
        BY <1>0, <2>1, FS_Subset
    <2>3. Cardinality(Since(Q, th, s + 1)) <= limit - 1
        BY DEF Fair
    <2> QED BY <1>0, <2>2, <2>3
<1>3. CASE lo <= s /\ s < lo + Window
    <2> DEFINE A == Between(Q, th, lo, s)
               B == Since(Q, th, s)
    <2>1. Between(Q, th, lo, lo + Window) \subseteq A \cup B
        BY <1>3 DEF Between, Since, Timed
    <2>2. Cardinality(A) <= limit - 1 /\ Cardinality(B) <= limit
        BY <1>3 DEF Fair
    <2>3. IsFiniteSet(A) /\ IsFiniteSet(B) /\ Cardinality(A) \in Nat /\ Cardinality(B) \in Nat
        BY <1>0
    <2> HIDE DEF A, B
    <2>4. /\ IsFiniteSet(A \cup B)
          /\ Cardinality(A \cup B) = Cardinality(A) + Cardinality(B) - Cardinality(A \cap B)
        BY <2>3, FS_Union
    <2>5. Cardinality(A \cap B) \in Nat /\ Cardinality(A \cup B) \in Nat
        BY <2>3, <2>4, FS_Intersection, FS_CardinalityType
    <2>6. Cardinality(Between(Q, th, lo, lo + Window)) <= Cardinality(A \cup B)
        BY <2>1, <2>4, FS_Subset
    <2> QED BY <1>0, <2>2, <2>3, <2>4, <2>5, <2>6
<1> QED BY <1>1, <1>2, <1>3

LimitOf(k) == IF k \in Feed THEN FeedLimit ELSE UserLimit

\* The requests that passed and count for k, a feed or a user.
PassedFor(k) == {x \in Request : /\ req[x].through # Never
                                 /\ req[x].feed = k \/ Owner[req[x].feed] = k}

TimeOf == [x \in Request |-> req[x].through]

\* A request passes once, and is of a feed then.
PassesOnce ==
    /\ IsFiniteSet({x \in Request : req[x].through # Never})
    /\ \A x \in Request : req[x].through # Never =>
          /\ req[x].pc \notin {"idle", "lookup"}
          /\ req[x].feed \in Feed

FairToAll ==
    /\ \A k \in Feed \cup User : Twice(PassedFor(k), TimeOf, LimitOf(k))
    /\ \A k \in Feed \cup User :
          (\A b \in Range(trusted) : b.key # k) => PassedFor(k) = {}
    /\ \A b \in Range(trusted) :
          Fair(b.start, b.count, PassedFor(b.key), TimeOf, LimitOf(b.key))

FairOK == StoresOK /\ PassesOnce /\ FairToAll

\* The trusted store has room for the buckets of all feeds and users, whose
\* keys are distinct.
RoomForAll ==
    /\ Feed \cap User = {}
    /\ IsFiniteSet(Feed \cup User)
    /\ Cardinality(Feed \cup User) <= MaxTrusted

LEMMA NothingIsEvicted ==
    ASSUME NEW keys, IsFiniteSet(keys), NEW max \in Nat, Cardinality(keys) <= max,
           NEW t \in Nat, NEW st, Kept(st, keys, max, t), NEW k \in keys
    PROVE  Len(st) < max \/ \E c \in Range(st) : c.key = k
<1> SUFFICES ASSUME \A c \in Range(st) : c.key # k
             PROVE  Len(st) < max
    OBVIOUS
<1>1. /\ Len(st) \in Nat /\ DOMAIN st = 1 .. Len(st)
      /\ \A i \in DOMAIN st : st[i] \in Bucket(keys)
    BY BucketsOfAStore DEF Kept
<1> DEFINE f == [i \in 1 .. Len(st) |-> st[i].key]
           others == keys \ {k}
<1>2. f \in [1 .. Len(st) -> others]
    BY <1>1, BucketFields DEF Range
<1>3. \A i, j \in 1 .. Len(st) : f[i] = f[j] => i = j
    BY <1>1, OneBucketOfAKey
<1>4. f \in Injection(1 .. Len(st), others)
    BY <1>2, <1>3 DEF Injection, IsInjective
<1>5. IsFiniteSet(others) /\ Cardinality(others) = Cardinality(keys) - 1
    BY FS_RemoveElement
<1>6. Cardinality(keys) \in Nat
    BY FS_CardinalityType
<1>7. Cardinality(1 .. Len(st)) = Len(st)
    <2> DEFINE n == Len(st)
    <2>1. n \in Nat /\ 1 \in Int /\ n \in Int
        BY <1>1
    <2> HIDE DEF n
    <2>2. Cardinality(1 .. n) = IF 1 > n THEN 0 ELSE n - 1 + 1
        BY ONLY <2>1, FS_Interval
    <2>3. CASE n = 0
        BY <2>2, <2>3 DEF n
    <2>4. CASE n > 0
        <3>1. n - 1 + 1 = n /\ ~(1 > n)
            BY ONLY <2>1, <2>4
        <3> QED BY <2>2, <3>1 DEF n
    <2> QED BY <2>1, <2>3, <2>4
<1>8. Cardinality(1 .. Len(st)) <= Cardinality(others)
    BY <1>4, <1>5, FS_Injection
<1> QED BY <1>1, <1>5, <1>6, <1>7, <1>8

\* The bucket of k in a store is fair to the requests P that count for it, and
\* there is one if there are any.
FairFor(st, k, P, th, limit) ==
    /\ \A c \in Range(st) : c.key = k => Fair(c.start, c.count, P, th, limit)
    /\ (\A c \in Range(st) : c.key # k) => P = {}

\* The bucket b of the key is fair after the hit of a request r, whether r is
\* turned away or passes.
FairHit(b, t, r, P, th, limit) ==
    /\ b.start \in Nat /\ b.count \in Nat /\ b.start <= t
    /\ Fair(b.start, b.count, P, th, limit)
    /\ r \notin P /\ th[r] = t /\ b.count <= limit =>
           Fair(b.start, b.count, P \cup {r}, th, limit)

LEMMA HitStaysFair ==
    ASSUME NEW keys, NEW max \in Nat \ {0}, NEW t \in Nat, NEW st, Kept(st, keys, max, t),
           NEW r \in Request, NEW k \in keys,
           NEW P, NEW th, Timed(P, th), NEW limit \in Nat \ {0},
           FairFor(st, k, P, th, limit)
    PROVE  \A b \in Range(AfterHit(st, max, r, k, t)) : b.key = k =>
               /\ FairHit(b, t, r, P, th, limit)
               /\ b.count = CountOf(AfterHit(st, max, r, k, t), k)
<1> DEFINE s == AfterHit(st, max, r, k, t)
<1> SUFFICES ASSUME NEW b \in Range(s), b.key = k
             PROVE  FairHit(b, t, r, P, th, limit) /\ b.count = CountOf(s, k)
    OBVIOUS
<1>1. Kept(s, keys, max, t) /\ HitEffect(st, s, max, r, k, t)
    BY HitCounts
<1>2. b.count = CountOf(s, k)
    BY <1>1, CountOfTheBucket
<1>3. b \in Range(s)
    OBVIOUS
<1> HIDE DEF s
<1>4. /\ \A c \in Range(st) : c \in Bucket(keys) /\ c.start \in Nat /\ c.count \in Nat
      /\ b.start \in Nat /\ b.count \in Nat
    BY <1>1, <1>3, BucketsOfAStore, BucketFields DEF Kept
<1>5. CASE /\ \A c \in Range(st) : c.key = k => IsOver(c, t)
           /\ NewBucket(r, k, t) \in Range(s)
    <2>1. /\ NewBucket(r, k, t).key = k /\ NewBucket(r, k, t).start = t
          /\ NewBucket(r, k, t).count = 1
        BY NewBucketFields
    <2>2. b = NewBucket(r, k, t)
        BY <1>1, <1>3, <1>5, <2>1, OneBucket
    <2>3. b.start = t /\ b.count = 1
        BY <2>1, <2>2
    <2>4. \/ P = {}
          \/ \E c \in Range(st) : Fair(c.start, c.count, P, th, limit) /\ t - c.start >= Window
        BY <1>5 DEF IsOver, FairFor
    <2>5. \/ P = {}
          \/ \E u \in Nat, n \in Nat : Fair(u, n, P, th, limit) /\ t - u >= Window
        BY <1>4, <2>4
    <2>6. /\ Fair(t, 1, P, th, limit)
          /\ \A x : x \notin P /\ th[x] = t => Fair(t, 1, P \cup {x}, th, limit)
        BY <2>5, NewWindow
    <2> QED BY <1>2, <1>4, <2>3, <2>6 DEF FairHit
<1>6. ASSUME NEW c \in Range(st), c.key = k, ~IsOver(c, t), Counted(c, r) \in Range(s)
      PROVE  /\ b.start <= t
             /\ Fair(b.start, b.count, P, th, limit)
             /\ r \notin P /\ th[r] = t /\ b.count <= limit =>
                    Fair(b.start, b.count, P \cup {r}, th, limit)
    <2>1. /\ Counted(c, r).key = k /\ Counted(c, r).start = c.start
          /\ Counted(c, r).count = c.count + 1
        BY <1>4, <1>6, CountedFields
    <2>2. b = Counted(c, r)
        BY <1>1, <1>3, <1>6, <2>1, OneBucket
    <2>3. b.start = c.start /\ b.count = c.count + 1
        BY <2>1, <2>2
    <2>4. c.start <= t /\ t < c.start + Window
        <3>1. PICK i \in DOMAIN st : st[i] = c
            BY DEF Range
        <3>2. c.start <= t
            BY <3>1 DEF Kept, InOrderOfStart
        <3> QED BY <1>4, <1>6, <3>2, HookLimiterAssumption DEF IsOver
    <2>5. Fair(c.start, c.count, P, th, limit)
        BY <1>6 DEF FairFor
    <2>6. /\ Fair(c.start, c.count + 1, P, th, limit)
          /\ \A x : x \notin P /\ th[x] \in Nat /\ c.start <= th[x] /\ th[x] < c.start + Window
                     /\ c.count + 1 <= limit
                        => Fair(c.start, c.count + 1, P \cup {x}, th, limit)
        BY <1>4, <2>5, OpenWindow
    <2> QED BY <2>3, <2>4, <2>6
<1> QED BY <1>1, <1>2, <1>4, <1>5, <1>6 DEF HitEffect, FairHit

\* No step but LookupFinds lets a request pass or touches the trusted store.
LEMMA TheRestIsFair ==
    ASSUME FairOK, trusted' = trusted,
           \A x \in Request : /\ req'[x].feed = req[x].feed
                              /\ req'[x].through = req[x].through
                              /\ \/ req'[x].pc = req[x].pc
                                 \/ req[x].pc = "idle"
                                 \/ req'[x].pc \notin {"idle", "lookup"}
    PROVE  PassesOnce' /\ FairToAll'
<1>1. \A k : PassedFor(k)' = PassedFor(k)
    BY DEF PassedFor
<1>2. TimeOf' = TimeOf
    BY DEF TimeOf
<1>3. FairToAll'
    BY <1>1, <1>2 DEF FairOK, FairToAll
<1>4. {x \in Request : req'[x].through # Never} = {x \in Request : req[x].through # Never}
    OBVIOUS
<1>5. PassesOnce'
    BY <1>4 DEF FairOK, PassesOnce
<1> QED BY <1>3, <1>5

LEMMA LookupFindsIsFair ==
    ASSUME FairOK, RoomForAll, NEW r \in Request, LookupFinds(r)
    PROVE  PassesOnce' /\ FairToAll'
<1> USE Limits
<1> DEFINE keys == Feed \cup User
           th == TimeOf'
<1>0. /\ TypeOK /\ now \in Nat /\ req \in [Request -> Req]
      /\ Kept(trusted, keys, MaxTrusted, now) /\ PassesOnce
    BY DEF FairOK, StoresOK, Stores, TypeOK
<1>1. /\ req[r].pc = "lookup"
      /\ \A x \in Request \ {r} : req'[x] = req[x]
      /\ \E f \in Feed : FoundEffect(r, f)
    BY <1>0, LookupFindsChanges
<1>2. PICK f \in Feed : FoundEffect(r, f)
    BY <1>1
<1> DEFINE u == Owner[f]
           counted == AfterHit(trusted, MaxTrusted, r, f, now)
           twice == AfterHit(counted, MaxTrusted, r, u, now)
<1>3. u \in User /\ f # u /\ f \in keys /\ u \in keys /\ u \notin Feed
    BY DEF RoomForAll
<1> HIDE DEF u
<1>4. /\ req'[r].feed = f
      /\ \/ /\ req'[r].pc = "feedLimited" /\ req'[r].through = req[r].through
            /\ trusted' = counted
         \/ /\ req'[r].pc = "userLimited" /\ req'[r].through = req[r].through
            /\ trusted' = twice
         \/ /\ req'[r].pc = "body" /\ req'[r].through = now
            /\ trusted' = twice
            /\ CountOf(counted, f) <= FeedLimit
            /\ CountOf(twice, u) <= UserLimit
    BY <1>2 DEF FoundEffect, WithinLimit, u
<1>5. req[r].through = Never
    BY <1>0, <1>1 DEF PassesOnce
\* Who has passed: r too, if it is not turned away.
<1>6. /\ \A k : Timed(PassedFor(k), TimeOf)
      /\ \A k : r \notin PassedFor(k)
      /\ \A k : \A x \in PassedFor(k) : th[x] = TimeOf[x]
    <2>1. ASSUME NEW k PROVE Timed(PassedFor(k), TimeOf)
        <3>1. PassedFor(k) \subseteq {x \in Request : req[x].through # Never}
            BY DEF PassedFor
        <3>2. IsFiniteSet(PassedFor(k))
            BY <1>0, <3>1, FS_Subset DEF PassesOnce
        <3>3. \A x \in PassedFor(k) : TimeOf[x] \in Nat
            BY <1>0, ReqFields DEF PassedFor, TimeOf
        <3> QED BY <3>2, <3>3 DEF Timed
    <2>2. \A k : r \notin PassedFor(k)
        BY <1>5 DEF PassedFor
    <2>3. ASSUME NEW k, NEW x \in PassedFor(k) PROVE th[x] = TimeOf[x]
        <3>1. x \in Request \ {r}
            BY <2>2 DEF PassedFor
        <3> QED BY <1>1, <3>1 DEF TimeOf
    <2> QED BY <2>1, <2>2, <2>3
<1>7. /\ \A k : Timed(PassedFor(k), th)
      /\ \A k \in keys : Twice(PassedFor(k), th, LimitOf(k))
      /\ \A b \in Range(trusted) :
            Fair(b.start, b.count, PassedFor(b.key), th, LimitOf(b.key))
    <2>1. \A k : Timed(PassedFor(k), th)
        BY <1>6, SameTimes
    <2>2. \A k \in keys : Twice(PassedFor(k), th, LimitOf(k))
        BY <1>6, SameTimes DEF FairOK, FairToAll
    <2>3. \A b \in Range(trusted) :
             Fair(b.start, b.count, PassedFor(b.key), TimeOf, LimitOf(b.key))
        BY DEF FairOK, FairToAll
    <2>4. ASSUME NEW b \in Range(trusted)
          PROVE  Fair(b.start, b.count, PassedFor(b.key), th, LimitOf(b.key))
        BY <1>6, <2>3, SameTimes
    <2> QED BY <2>1, <2>2, <2>4
<1>8. \A k \in keys : LimitOf(k) \in Nat \ {0}
    BY DEF LimitOf
<1>9. LimitOf(f) = FeedLimit /\ LimitOf(u) = UserLimit
    BY <1>3 DEF LimitOf
\* The stores.
<1>10. Kept(counted, keys, MaxTrusted, now) /\ HitEffect(trusted, counted, MaxTrusted, r, f, now)
    BY <1>0, <1>3, HitCounts
<1>11. Kept(twice, keys, MaxTrusted, now) /\ HitEffect(counted, twice, MaxTrusted, r, u, now)
    <2> HIDE DEF counted
    <2> QED BY <1>0, <1>3, <1>10, HitCounts
<1>12. /\ Len(trusted) < MaxTrusted \/ \E c \in Range(trusted) : c.key = f
       /\ Len(counted) < MaxTrusted \/ \E c \in Range(counted) : c.key = u
    <2>1. IsFiniteSet(keys) /\ Cardinality(keys) <= MaxTrusted
        BY DEF RoomForAll
    <2> HIDE DEF counted, keys
    <2> QED BY <1>0, <1>3, <1>10, <2>1, NothingIsEvicted
<1>13. ASSUME NEW b \in Range(counted), b.key = f
       PROVE  /\ b.start \in Nat /\ b.count \in Nat
              /\ b.count = CountOf(counted, f)
              /\ Fair(b.start, b.count, PassedFor(f), th, FeedLimit)
              /\ th[r] = now /\ b.count <= FeedLimit =>
                     Fair(b.start, b.count, PassedFor(f) \cup {r}, th, FeedLimit)
              /\ b.start <= now
    <2>1. \A c \in Range(trusted) : c.key = f =>
              Fair(c.start, c.count, PassedFor(f), th, FeedLimit)
        BY <1>7, <1>9
    <2>2. (\A c \in Range(trusted) : c.key # f) => PassedFor(f) = {}
        BY <1>3 DEF FairOK, FairToAll
    <2>3. Timed(PassedFor(f), th) /\ r \notin PassedFor(f)
        BY <1>6, <1>7
    <2> DEFINE P == PassedFor(f)
    <2>6. /\ Timed(P, th) /\ r \notin P
          /\ FairFor(trusted, f, P, th, FeedLimit)
          /\ FeedLimit \in Nat \ {0} /\ MaxTrusted \in Nat \ {0}
          /\ Kept(trusted, keys, MaxTrusted, now)
        BY <1>0, <1>10, <1>13, <2>1, <2>2, <2>3 DEF FairFor
    <2> HIDE DEF P, th, keys
    <2>7. \A c \in Range(AfterHit(trusted, MaxTrusted, r, f, now)) : c.key = f =>
              /\ FairHit(c, now, r, P, th, FeedLimit)
              /\ c.count = CountOf(AfterHit(trusted, MaxTrusted, r, f, now), f)
        <3>1. now \in Nat /\ r \in Request /\ f \in keys
            BY <1>0, <1>3
        <3> QED BY ONLY <2>6, <3>1, HitStaysFair
    <2> QED BY <1>13, <2>6, <2>7 DEF P, FairHit, counted
<1>14. ASSUME NEW b \in Range(twice), b.key = u
       PROVE  /\ b.start \in Nat /\ b.count \in Nat
              /\ b.count = CountOf(twice, u)
              /\ Fair(b.start, b.count, PassedFor(u), th, UserLimit)
              /\ th[r] = now /\ b.count <= UserLimit =>
                     Fair(b.start, b.count, PassedFor(u) \cup {r}, th, UserLimit)
              /\ b.start <= now
    <2>1. \A c \in Range(counted) : c.key = u => c \in Range(trusted)
        BY <1>3, <1>10 DEF HitEffect
    <2>2. \A c \in Range(counted) : c.key = u =>
              Fair(c.start, c.count, PassedFor(u), th, UserLimit)
        BY <1>7, <1>9, <2>1
    <2>3. \A c \in Range(trusted) : c.key # f => c \in Range(counted)
        BY <1>10, <1>12 DEF HitEffect
    <2>4. (\A c \in Range(counted) : c.key # u) => PassedFor(u) = {}
        BY <1>3, <2>3 DEF FairOK, FairToAll
    <2>5. Timed(PassedFor(u), th) /\ r \notin PassedFor(u)
        BY <1>6, <1>7
    <2> DEFINE P == PassedFor(u)
    <2>6. /\ Timed(P, th) /\ r \notin P
          /\ FairFor(counted, u, P, th, UserLimit)
          /\ UserLimit \in Nat \ {0} /\ MaxTrusted \in Nat \ {0}
          /\ Kept(counted, keys, MaxTrusted, now)
        BY <1>0, <1>10, <1>14, <2>2, <2>4, <2>5 DEF FairFor
    <2> HIDE DEF P, th, keys, counted, twice
    <2>7. \A c \in Range(AfterHit(counted, MaxTrusted, r, u, now)) : c.key = u =>
              /\ FairHit(c, now, r, P, th, UserLimit)
              /\ c.count = CountOf(AfterHit(counted, MaxTrusted, r, u, now), u)
        <3>1. now \in Nat /\ r \in Request /\ u \in keys
            BY <1>0, <1>3
        <3> QED BY ONLY <2>6, <3>1, HitStaysFair
    <2> QED BY <1>14, <2>6, <2>7 DEF P, FairHit, twice
\* A key that is not hit keeps its bucket and its requests.
<1>15. /\ \A b \in Range(trusted') :
             \/ b.key = f /\ b \in Range(counted)
             \/ b.key = u /\ trusted' = twice
             \/ b.key # f /\ b \in Range(trusted) /\ (b.key = u => trusted' # twice)
       /\ \A c \in Range(trusted) : c.key \notin {f, u} => c \in Range(trusted')
       /\ \E b \in Range(trusted') : b.key = f
       /\ trusted' = twice => \E b \in Range(trusted') : b.key = u
       /\ \A c \in Range(trusted) : c.key = u => \E b \in Range(trusted') : b.key = u
    <2>1. /\ \A b \in Range(counted) : b.key # f => b \in Range(trusted)
          /\ \A c \in Range(trusted) : c.key # f => c \in Range(counted)
          /\ \A b \in Range(twice) : b.key # u => b \in Range(counted)
          /\ \A c \in Range(counted) : c.key # u => c \in Range(twice)
        BY <1>10, <1>11, <1>12 DEF HitEffect
    <2>2. \E b \in Range(counted) : b.key = f
        <3>1. NewBucket(r, f, now).key = f
            BY <1>0, <1>3, NewBucketFields
        <3>2. \A c \in Range(trusted) : Counted(c, r).key = c.key
            BY <1>0, BucketsOfAStore, CountedFields DEF Kept
        <3> QED BY <1>10, <3>1, <3>2 DEF HitEffect
    <2>3. \E b \in Range(twice) : b.key = u
        <3>1. NewBucket(r, u, now).key = u
            BY <1>0, <1>3, NewBucketFields
        <3>2. \A c \in Range(counted) : Counted(c, r).key = c.key
            BY <1>10, BucketsOfAStore, CountedFields DEF Kept
        <3> HIDE DEF counted
        <3> QED BY <1>11, <3>1, <3>2 DEF HitEffect
    <2> HIDE DEF counted, twice
    <2> QED BY <1>3, <1>4, <2>1, <2>2, <2>3
<1> HIDE DEF counted, twice, keys
\* What has passed for a key.
<1>16. \A k \in keys : \/ PassedFor(k)' = PassedFor(k)
                       \/ /\ k \in {f, u} /\ PassedFor(k)' = PassedFor(k) \cup {r}
                          /\ th[r] = now /\ trusted' = twice
                          /\ CountOf(counted, f) <= FeedLimit /\ CountOf(twice, u) <= UserLimit
    <2>1. \A k : \A x \in Request \ {r} : x \in PassedFor(k)' <=> x \in PassedFor(k)
        BY <1>1 DEF PassedFor
    <2>2. \A k : PassedFor(k) \subseteq Request /\ PassedFor(k)' \subseteq Request
        BY DEF PassedFor
    <2>3. CASE req'[r].through = req[r].through
        <3>1. \A k : r \notin PassedFor(k)'
            BY <1>5, <2>3 DEF PassedFor
        <3> QED BY <1>6, <2>1, <2>2, <3>1
    <2>4. CASE /\ req'[r].through = now /\ trusted' = twice
               /\ CountOf(counted, f) <= FeedLimit /\ CountOf(twice, u) <= UserLimit
        <3>1. \A k : r \in PassedFor(k)' <=> k \in {f, u}
            BY <1>0, <1>4, <2>4 DEF PassedFor, Never, u
        <3>2. th[r] = now
            BY <2>4 DEF TimeOf
        <3> QED BY <1>6, <2>1, <2>2, <2>4, <3>1, <3>2
    <2> QED BY <1>4, <2>3, <2>4
<1>17. ASSUME NEW b \in Range(trusted')
       PROVE  Fair(b.start, b.count, PassedFor(b.key)', th, LimitOf(b.key))
    <2>1. b.key \in keys
        <3>1. Kept(trusted', keys, MaxTrusted, now)
            BY <1>4, <1>10, <1>11
        <3> QED BY <3>1, BucketsOfAStore, BucketFields DEF Kept
    <2>2. CASE b.key = f /\ b \in Range(counted)
        BY <1>9, <1>13, <1>16, <2>1, <2>2
    <2>3. CASE b.key = u /\ trusted' = twice
        BY <1>9, <1>14, <1>16, <2>1, <2>3
    <2>4. CASE b.key # f /\ b \in Range(trusted) /\ (b.key = u => trusted' # twice)
        <3>1. PassedFor(b.key)' = PassedFor(b.key)
            BY <1>16, <2>1, <2>4
        <3> QED BY <1>7, <2>4, <3>1
    <2> QED BY <1>15, <2>2, <2>3, <2>4
<1>18. ASSUME NEW k \in keys, \A b \in Range(trusted') : b.key # k
       PROVE  PassedFor(k)' = {}
    <2>1. k # f /\ (\A c \in Range(trusted) : c.key # k) /\ ~(k = u /\ trusted' = twice)
        BY <1>15, <1>18
    <2>2. PassedFor(k) = {}
        BY <2>1 DEF FairOK, FairToAll, keys
    <2> QED BY <1>16, <2>1, <2>2
<1>19. ASSUME NEW k \in keys
       PROVE  Twice(PassedFor(k)', th, LimitOf(k))
    <2>1. CASE PassedFor(k)' = PassedFor(k)
        BY <1>7, <2>1
    <2>2. CASE /\ k \in {f, u} /\ PassedFor(k)' = PassedFor(k) \cup {r}
               /\ th[r] = now /\ trusted' = twice
        <3>1. PICK b \in Range(trusted') : b.key = k
            BY <1>15, <2>2
        <3>2. b.start \in Nat /\ b.count \in Nat /\ b.start <= now
            BY <1>3, <1>13, <1>14, <1>15, <2>2, <3>1
        <3>3. Fair(b.start, b.count, PassedFor(k) \cup {r}, th, LimitOf(k))
            BY <1>17, <2>2, <3>1
        <3>4. Timed(PassedFor(k) \cup {r}, th)
            BY <1>0, <1>6, <1>7, <2>2, OneMoreInAStretch
        <3>5. Twice(PassedFor(k), th, LimitOf(k)) /\ LimitOf(k) \in Nat \ {0}
            BY <1>7, <1>8
        <3> DEFINE P == PassedFor(k)
                   Q == P \cup {r}
                   limit == LimitOf(k)
        <3>6. P \subseteq Q /\ \A x \in Q \ P : b.start <= th[x]
            BY <2>2, <3>2
        <3>7. PassedFor(k)' = Q
            BY <2>2
        <3> HIDE DEF P, Q, limit
        <3>8. Twice(Q, th, limit)
            BY <3>2, <3>3, <3>4, <3>5, <3>6, TwoWindowsAtMost DEF P, Q, limit
        <3> QED BY <3>7, <3>8 DEF limit
    <2> QED BY <1>16, <2>1, <2>2
<1>20. FairToAll'
    BY <1>17, <1>18, <1>19 DEF FairToAll, keys
<1>21. PassesOnce'
    <2>1. {x \in Request : req'[x].through # Never}
             \subseteq {x \in Request : req[x].through # Never} \cup {r}
        BY <1>1
    <2>2. IsFiniteSet({x \in Request : req[x].through # Never} \cup {r})
        BY <1>0, FS_AddElement DEF PassesOnce
    <2>3. IsFiniteSet({x \in Request : req'[x].through # Never})
        BY <2>1, <2>2, FS_Subset
    <2>4. ASSUME NEW x \in Request, req'[x].through # Never
          PROVE  req'[x].pc \notin {"idle", "lookup"} /\ req'[x].feed \in Feed
        BY <1>0, <1>1, <1>4, <2>4 DEF PassesOnce
    <2> QED BY <2>3, <2>4 DEF PassesOnce
<1> QED BY <1>20, <1>21

LEMMA ArriveIsFair ==
    ASSUME FairOK, NEW r \in Request, NEW ip \in Ip, NEW token \in Token \cup {"none"},
           Arrive(r, ip, token)
    PROVE  PassesOnce' /\ FairToAll'
<1>0. TypeOK /\ req \in [Request -> Req] /\ req[r] \in Req
    BY DEF FairOK, StoresOK, TypeOK
<1>1. req[r].pc = "idle" /\ trusted' = trusted
    BY DEF Arrive
<1>2. /\ req'[r].feed = req[r].feed /\ req'[r].through = req[r].through
      /\ \A x \in Request \ {r} : req'[x] = req[x]
    <2>1. CASE \E pc \in {"ipLimited", "malformed", "budgetLimited"} : Becomes(r, pc)
        BY <1>0, <2>1, BecomesTyped, AnsweredStates
    <2>2. CASE req' = [req EXCEPT ![r] = [@ EXCEPT !.pc = "lookup", !.ip = ip,
                                      !.token = token, !.window = budget'[1].start]]
        <3> DEFINE q == [[[[req[r] EXCEPT !.pc = "lookup"] EXCEPT !.ip = ip]
                              EXCEPT !.token = token] EXCEPT !.window = budget'[1].start]
        <3>1. req' = [req EXCEPT ![r] = q]
            BY <2>2
        <3>2. q.feed = req[r].feed /\ q.through = req[r].through
            BY <1>0 DEF Req
        <3> HIDE DEF q
        <3> QED BY <1>0, <3>1, <3>2
    <2> QED BY <2>1, <2>2 DEF Arrive
<1> QED BY <1>1, <1>2, TheRestIsFair

LEMMA FairStep ==
    ASSUME FairOK, RoomForAll, [Next]_vars
    PROVE  PassesOnce' /\ FairToAll'
<1> DEFINE Goal == PassesOnce' /\ FairToAll'
<1>0. TypeOK
    BY DEF FairOK, StoresOK
<1>1. ASSUME NEW r \in Request, NEW ip \in Ip, NEW token \in Token \cup {"none"},
             Arrive(r, ip, token)
      PROVE  Goal
    BY <1>1, ArriveIsFair
<1>2. ASSUME NEW r \in Request, LookupMisses(r) \/ ReadBody(r) \/ Ingest(r)
      PROVE  Goal
    <2>1. PICK pc \in {"notFound", "threw", "ingest", "refused", "stored", "notStored"} :
                  Becomes(r, pc)
        BY <1>2 DEF LookupMisses, ReadBody, Ingest
    <2>2. /\ req'[r].feed = req[r].feed /\ req'[r].through = req[r].through
          /\ req'[r].pc = pc
          /\ \A x \in Request \ {r} : req'[x] = req[x]
        BY <1>0, <2>1, BecomesTyped, AnsweredStates
    <2>3. trusted' = trusted
        BY <1>2 DEF LookupMisses, ReadBody, Ingest
    <2> QED BY <2>2, <2>3, TheRestIsFair
<1>3. ASSUME NEW r \in Request, LookupFinds(r)
      PROVE  Goal
    BY <1>3, LookupFindsIsFair
<1>4. ASSUME NEW f \in Feed, \/ \E row \in {"on", "off", "deleted"} : SetFeed(f, row)
                             \/ \E token \in Token : RegenerateToken(f, token)
      PROVE  Goal
    BY <1>4, TheRestIsFair DEF SetFeed, RegenerateToken
<1>5. CASE Tick
    BY <1>5, TheRestIsFair DEF Tick
<1>6. CASE UNCHANGED vars
    BY <1>6, TheRestIsFair DEF vars
<1> QED BY <1>1, <1>2, <1>3, <1>4, <1>5, <1>6 DEF Next

\* The windows of the limiter are fixed: in any stretch of time as long as one
\* of them a feed, and a user with all feeds of theirs, gets less than twice the
\* limit, as long as the store has room for all of them.
THEOREM LessThanTwiceIsLetThrough ==
    ASSUME RoomForAll
    PROVE  Spec => []LessThanTwiceThrough
<1>1. Init => FairOK
    <2> SUFFICES ASSUME Init PROVE FairOK
        OBVIOUS
    <2>1. Range(trusted) = {} /\ \A x \in Request : req[x].through = Never
        BY DEF Init, NoReq, Range
    <2>2. \A k : PassedFor(k) = {}
        BY <2>1 DEF PassedFor
    <2>3. {x \in Request : req[x].through # Never} = {}
        BY <2>1
    <2>4. PassesOnce
        BY <2>1, <2>3, FS_EmptySet DEF PassesOnce
    <2>5. ASSUME NEW k \in Feed \cup User
          PROVE  Twice(PassedFor(k), TimeOf, LimitOf(k))
        <3>1. LimitOf(k) \in Nat \ {0}
            BY Limits DEF LimitOf
        <3>2. \A lo : Between(PassedFor(k), TimeOf, lo, lo + Window) = {}
            BY <2>2 DEF Between
        <3>3. Cardinality({}) = 0
            BY FS_EmptySet
        <3> QED BY <3>1, <3>2, <3>3 DEF Twice
    <2>6. FairToAll
        BY <2>1, <2>2, <2>5 DEF FairToAll
    <2> QED BY <2>4, <2>6, StoresInit DEF FairOK
<1>2. FairOK /\ [Next]_vars => FairOK'
    <2> SUFFICES ASSUME FairOK, [Next]_vars PROVE FairOK'
        OBVIOUS
    <2>1. StoresOK'
        BY StoresStep DEF FairOK
    <2>2. PassesOnce' /\ FairToAll'
        BY FairStep
    <2> QED BY <2>1, <2>2 DEF FairOK
<1>3. FairOK => LessThanTwiceThrough
    <2> SUFFICES ASSUME FairOK, NEW t \in 0 .. now
                 PROVE  LET recent == {r \in Request : /\ t <= req[r].through
                                                       /\ req[r].through < t + Window}
                        IN  /\ \A f \in Feed :
                                  Cardinality({r \in recent : req[r].feed = f}) < 2 * FeedLimit
                            /\ \A u \in User :
                                  Cardinality({r \in recent : /\ req[r].feed \in Feed
                                                              /\ Owner[req[r].feed] = u})
                                      < 2 * UserLimit
        BY DEF LessThanTwiceThrough
    <2> DEFINE recent == {r \in Request : t <= req[r].through /\ req[r].through < t + Window}
    <2>1. now \in Nat /\ t \in Nat
        BY DEF FairOK, StoresOK, TypeOK
    <2>2. \A x \in recent : req[x].through # Never /\ req[x].feed \in Feed
        BY <2>1 DEF FairOK, PassesOnce, Never
    <2>3. \A x \in Request : req[x].through # Never => req[x].feed \in Feed
        BY DEF FairOK, PassesOnce
    <2>4. ASSUME NEW f \in Feed
          PROVE  Cardinality({r \in recent : req[r].feed = f}) < 2 * FeedLimit
        <3>1. \A g \in Feed : Owner[g] # f
            BY Limits DEF RoomForAll
        <3>2. {r \in recent : req[r].feed = f} = Between(PassedFor(f), TimeOf, t, t + Window)
            BY <2>1, <2>2, <2>3, <3>1 DEF Between, PassedFor, TimeOf
        <3>3. LimitOf(f) = FeedLimit
            BY DEF LimitOf
        <3> QED BY <2>1, <3>2, <3>3 DEF FairOK, FairToAll, Twice
    <2>5. ASSUME NEW u \in User
          PROVE  Cardinality({r \in recent : req[r].feed \in Feed /\ Owner[req[r].feed] = u})
                     < 2 * UserLimit
        <3>1. u \notin Feed
            BY DEF RoomForAll
        <3>2. {r \in recent : req[r].feed \in Feed /\ Owner[req[r].feed] = u}
                  = Between(PassedFor(u), TimeOf, t, t + Window)
            BY <2>1, <2>2, <2>3, <3>1 DEF Between, PassedFor, TimeOf
        <3>3. LimitOf(u) = UserLimit
            BY <3>1 DEF LimitOf
        <3> QED BY <2>1, <3>2, <3>3 DEF FairOK, FairToAll, Twice
    <2> QED BY <2>4, <2>5
<1> QED BY <1>1, <1>2, <1>3, PTL DEF Spec
=============================================================================
