-------------------------- MODULE ItemStreamProofs --------------------------
(***************************************************************************)
(* Theorems about ItemStream, for any number of streams, connections and   *)
(* items and any limits: between the database and a client whose stream    *)
(* and LISTEN connection come and go no item is lost but for the cases     *)
(* that NothingMissed names, an item is sent again only long after, and    *)
(* the hub has one listener exactly as long as it has subscribers.         *)
(***************************************************************************)
EXTENDS ItemStream, FiniteSetTheorems, SequenceTheorems, WellFoundedInduction, TLAPS

-----------------------------------------------------------------------------
(* Induction over the rows of a step.                                      *)

\* A set of numbers that is not empty has a least element.
LEMMA LeastOfASet ==
    ASSUME NEW T \in SUBSET Nat, T # {}
    PROVE  \E x \in T : \A y \in T : x <= y
<1> DEFINE R == OpToRel(<, Nat)
<1>1. IsWellFoundedOn(R, Nat)
    BY NatLessThanWellFounded
<1>2. \A x, y \in Nat : y < x => <<y, x>> \in R
    BY DEF OpToRel
<1> HIDE DEF R
<1>3. PICK x \in T : \A y \in T : ~(<<y, x>> \in R)
    BY <1>1, WFMin
<1>4. x \in Nat /\ \A y \in T : y \in Nat
    OBVIOUS
<1>5. \A y \in T : ~(y < x)
    BY <1>2, <1>3, <1>4
<1>6. \A y \in T : x <= y
    BY <1>4, <1>5
<1> QED BY <1>6

\* What holds at 0 and is handed on from each number to the next.
LEMMA OneAfterTheOther ==
    ASSUME NEW N \in Nat, NEW T, 0 \in T, \A n \in 0 .. N - 1 : n \in T => n + 1 \in T
    PROVE  \A n \in 0 .. N : n \in T
<1> SUFFICES ASSUME NEW m \in 0 .. N, m \notin T
             PROVE  FALSE
    OBVIOUS
<1> DEFINE F == {n \in 0 .. N : n \notin T}
<1>1. PICK x \in F : \A y \in F : x <= y
    <2>1. F \in SUBSET Nat /\ F # {}
        OBVIOUS
    <2> HIDE DEF F
    <2> QED BY <2>1, LeastOfASet
<1>2. x # 0 /\ x \in 0 .. N
    OBVIOUS
<1>3. x - 1 \in 0 .. N - 1 /\ x - 1 \notin F
    BY <1>1, <1>2
<1>4. x - 1 \in T
    BY <1>3
<1>5. (x - 1) + 1 \in T
    BY <1>3, <1>4
<1> QED BY <1>2, <1>5

\* Emitted is the last of the states f[0], f[1], ... that the rows lead through.
Leads(f, st, n) == f[0] = st /\ \A k \in 1 .. n : f[k] = Emit(f[k - 1], st.rows[k])

\* Emitted goes through the rows one by one.
LEMMA EmittedRowByRow ==
    ASSUME NEW st, Len(st.rows) \in Nat
    PROVE  \E f : Leads(f, st, Len(st.rows)) /\ Emitted(st) = f[Len(st.rows)]
<1> DEFINE N == Len(st.rows)
           T == {n \in Nat : \E f : Leads(f, st, n)}
           After1(f) == [n \in 0 .. N |-> IF n = 0 THEN st ELSE Emit(f[n - 1], st.rows[n])]
           g == CHOOSE f : f = After1(f)
<1>1. N \in Nat
    OBVIOUS
<1> HIDE DEF N
<1>2. 0 \in T
    <2>1. Leads([k \in {0} |-> st], st, 0)
        BY DEF Leads
    <2> QED BY <2>1
<1>3. ASSUME NEW n \in 0 .. N - 1, n \in T
      PROVE  n + 1 \in T
    <2>1. n \in Nat
        BY <1>1
    <2>2. PICK f : Leads(f, st, n)
        BY <1>3
    <2> DEFINE h == [k \in 0 .. n + 1 |-> IF k <= n THEN f[k]
                                          ELSE Emit(f[n], st.rows[n + 1])]
    <2>3. h[0] = st
        BY <2>1, <2>2 DEF Leads
    <2>4. ASSUME NEW k \in 1 .. n + 1
          PROVE  h[k] = Emit(h[k - 1], st.rows[k])
        <3>1. CASE k <= n
            <4>1. h[k] = f[k] /\ h[k - 1] = f[k - 1]
                BY <2>1, <3>1
            <4> QED BY <2>1, <2>2, <3>1, <4>1 DEF Leads
        <3>2. CASE k = n + 1
            <4>1. h[k] = Emit(f[n], st.rows[n + 1]) /\ h[k - 1] = f[n] /\ k = n + 1
                BY <2>1, <3>2
            <4> QED BY <4>1
        <3> QED BY <2>1, <3>1, <3>2
    <2>5. Leads(h, st, n + 1)
        BY <2>3, <2>4 DEF Leads
    <2> QED BY <2>1, <2>5
<1>4. N \in T
    <2> HIDE DEF T
    <2>1. \A n \in 0 .. N - 1 : n \in T => n + 1 \in T
        BY <1>3
    <2>2. \A n \in 0 .. N : n \in T
        BY <1>1, <1>2, <2>1, OneAfterTheOther
    <2>3. N \in 0 .. N
        BY <1>1
    <2> QED BY <2>2, <2>3
<1>5. PICK f : Leads(f, st, N)
    BY <1>4
<1>6. \E h : h = After1(h)
    <2> DEFINE h == [n \in 0 .. N |-> f[n]]
    <2>1. ASSUME NEW n \in 0 .. N
          PROVE  h[n] = IF n = 0 THEN st ELSE Emit(h[n - 1], st.rows[n])
        <3>1. CASE n = 0
            BY <1>5, <3>1 DEF Leads
        <3>2. CASE n # 0
            <4>1. n \in 1 .. N /\ n - 1 \in 0 .. N
                BY <1>1, <3>2
            <4>2. h[n] = f[n] /\ h[n - 1] = f[n - 1]
                BY <4>1
            <4>3. f[n] = Emit(f[n - 1], st.rows[n])
                BY <1>5, <4>1 DEF Leads
            <4> QED BY <3>2, <4>2, <4>3
        <3> QED BY <3>1, <3>2
    <2>2. h = After1(h)
        BY <2>1
    <2> QED BY <2>2
<1>7. g = After1(g)
    BY <1>6
<1>8. Emitted(st) = g[N]
    BY DEF Emitted, N
<1> HIDE DEF g
<1>9. Leads(g, st, N)
    <2>1. g[0] = st
        BY <1>1, <1>7
    <2>2. ASSUME NEW k \in 1 .. N
          PROVE  g[k] = Emit(g[k - 1], st.rows[k])
        <3>1. k \in 0 .. N /\ k # 0
            BY <1>1
        <3> QED BY <1>7, <3>1
    <2> QED BY <2>1, <2>2 DEF Leads
<1> QED BY <1>8, <1>9 DEF N

-----------------------------------------------------------------------------
(* The rows of a replay.                                                   *)

\* The place of i in S, in ascending order.
RankIn(S, i) == Cardinality({j \in S : j <= i})

\* The elements of a finite set of numbers are ranked from 1 without a gap.
LEMMA Ranks ==
    ASSUME NEW S \in SUBSET Nat, IsFiniteSet(S)
    PROVE  /\ Cardinality(S) \in Nat
           /\ \A i \in S : RankIn(S, i) \in 1 .. Cardinality(S)
           /\ \A i, j \in S : i < j => RankIn(S, i) < RankIn(S, j)
           /\ \A k \in 1 .. Cardinality(S) : \E i \in S : RankIn(S, i) = k
<1> DEFINE below(i) == {j \in S : j <= i}
           n == Cardinality(S)
           rank == [i \in S |-> Cardinality(below(i))]
<1>1. n \in Nat
    BY FS_CardinalityType
<1>2. ASSUME NEW i \in S
      PROVE  IsFiniteSet(below(i)) /\ rank[i] \in 1 .. n /\ RankIn(S, i) = rank[i]
    <2>1. below(i) \in SUBSET S /\ i \in below(i)
        OBVIOUS
    <2>2. rank[i] = Cardinality(below(i)) /\ RankIn(S, i) = rank[i]
        BY DEF RankIn
    <2> HIDE DEF below, rank
    <2>3. IsFiniteSet(below(i)) /\ Cardinality(below(i)) <= n
        BY <2>1, FS_Subset
    <2>4. Cardinality(below(i)) \in Nat /\ Cardinality(below(i)) # 0
        BY <2>1, <2>3, FS_CardinalityType, FS_EmptySet
    <2> QED BY <1>1, <2>2, <2>3, <2>4
<1>3. ASSUME NEW i \in S, NEW j \in S, i < j
      PROVE  rank[i] < rank[j]
    <2>0. \A k \in S : k \in Nat
        OBVIOUS
    <2>1. below(i) \in SUBSET below(j) /\ j \in below(j) /\ j \notin below(i)
        <3>1. \A k \in S : k <= i => k <= j
            BY <1>3, <2>0
        <3>2. j <= j /\ ~(j <= i)
            BY <1>3, <2>0
        <3> QED BY <3>1, <3>2
    <2>2. rank[i] = Cardinality(below(i)) /\ rank[j] = Cardinality(below(j))
        OBVIOUS
    <2>3. IsFiniteSet(below(j)) /\ rank[i] \in Nat /\ rank[j] \in Nat
        BY <1>1, <1>2
    <2> HIDE DEF below, rank
    <2>4. Cardinality(below(i)) <= Cardinality(below(j))
          /\ Cardinality(below(i)) # Cardinality(below(j))
        BY <2>1, <2>3, FS_Subset
    <2> QED BY <2>2, <2>3, <2>4
<1>4. rank \in Injection(S, 1 .. n)
    <2>1. rank \in [S -> 1 .. n]
        <3>1. \A i \in S : rank[i] \in 1 .. n
            BY <1>2
        <3> QED BY <3>1
    <2>2. \A i, j \in S : rank[i] = rank[j] => i = j
        <3> SUFFICES ASSUME NEW i \in S, NEW j \in S, rank[i] = rank[j], i # j
                     PROVE  FALSE
            OBVIOUS
        <3>1. i < j \/ j < i
            OBVIOUS
        <3>2. rank[i] \in Nat /\ rank[j] \in Nat
            BY <1>1, <1>2
        <3> HIDE DEF rank
        <3>3. rank[i] < rank[j] \/ rank[j] < rank[i]
            BY <3>1, <1>3
        <3> QED BY <3>2, <3>3
    <2> HIDE DEF rank
    <2> QED BY <2>1, <2>2 DEF Injection, IsInjective
<1>5. IsFiniteSet(1 .. n) /\ Cardinality(1 .. n) = n
    BY <1>1, FS_Interval
<1>6. rank \in Surjection(S, 1 .. n)
    <2> HIDE DEF rank
    <2>1. Cardinality(S) = Cardinality(1 .. n)
        BY <1>5 DEF n
    <2> HIDE DEF n
    <2> QED BY <1>4, <1>5, <2>1, FS_Injection
<1>7. \A k \in 1 .. n : \E i \in S : rank[i] = k
    <2> HIDE DEF rank
    <2> QED BY <1>6 DEF Surjection
<1> HIDE DEF rank
<1> QED BY <1>1, <1>2, <1>3, <1>7 DEF n

\* A replay reads rows that are after the cursor, or the connect time; within
\* the limit it reads all of them, none before one that is earlier.
LEMMA RowsOfAReplay ==
    ASSUME StreamAssumption, committed \subseteq Item, NEW st
    PROVE  /\ IsFiniteSet(After(st)) /\ Cardinality(After(st)) \in Nat
           /\ ReplayRows(st) \in Seq(After(st))
           /\ Cardinality(After(st)) <= ReplayLimit =>
                /\ \A i \in After(st) : \E k \in DOMAIN ReplayRows(st) : ReplayRows(st)[k] = i
                /\ \A p \in DOMAIN ReplayRows(st) : \A i \in After(st) :
                      i < ReplayRows(st)[p] =>
                          \E k \in 1 .. p - 1 : ReplayRows(st)[k] = i
<1> DEFINE S == After(st)
           N == Cardinality(S)
           L == IF N < ReplayLimit THEN N ELSE ReplayLimit
           rows == ReplayRows(st)
<1>1. S \in SUBSET Item
    BY DEF After
<1>2. Item \in SUBSET Nat /\ IsFiniteSet(Item)
    BY FS_CardinalityType DEF StreamAssumption
<1>3. S \in SUBSET Nat /\ IsFiniteSet(S)
    <2> HIDE DEF S
    <2> QED BY <1>1, <1>2, FS_Subset
<1>4. /\ N \in Nat
      /\ \A i \in S : RankIn(S, i) \in 1 .. N
      /\ \A i, j \in S : i < j => RankIn(S, i) < RankIn(S, j)
      /\ \A k \in 1 .. N : \E i \in S : RankIn(S, i) = k
    <2> HIDE DEF S
    <2> QED BY <1>3, Ranks
<1>5. ReplayLimit \in Nat
    BY DEF StreamAssumption
<1>6. L \in 0 .. N
    BY <1>4, <1>5
<1>7. rows = [k \in 1 .. L |-> CHOOSE i \in S : RankIn(S, i) = k]
    BY DEF ReplayRows, RankIn
<1> HIDE DEF rows, S
<1>8. ASSUME NEW k \in 1 .. L
      PROVE  rows[k] \in S /\ RankIn(S, rows[k]) = k
    <2>1. k \in 1 .. N
        BY <1>4, <1>6
    <2>2. \E i \in S : RankIn(S, i) = k
        BY <1>4, <2>1
    <2>3. rows[k] = CHOOSE i \in S : RankIn(S, i) = k
        BY <1>7
    <2> QED BY <2>2, <2>3
<1>9. rows \in Seq(S) /\ DOMAIN rows = 1 .. L
    <2>1. L \in Nat
        BY <1>4, <1>6
    <2> HIDE DEF L
    <2>2. DOMAIN rows = 1 .. L /\ rows = [k \in 1 .. L |-> rows[k]]
        BY <1>7
    <2>3. rows \in [1 .. L -> S]
        BY <1>8, <2>2
    <2> QED BY <2>1, <2>2, <2>3
<1>10. ASSUME NEW i \in S, NEW j \in S, RankIn(S, i) = RankIn(S, j)
       PROVE  i = j
    <2>1. i < j \/ i = j \/ j < i
        BY <1>3
    <2>2. RankIn(S, i) \in Nat /\ RankIn(S, j) \in Nat
        BY <1>4
    <2> QED BY <1>4, <1>10, <2>1, <2>2
<1>11. ASSUME N <= ReplayLimit
       PROVE  /\ \A i \in S : \E k \in DOMAIN rows : rows[k] = i
              /\ \A p \in DOMAIN rows : \A i \in S :
                    i < rows[p] => \E k \in 1 .. p - 1 : rows[k] = i
    <2>1. L = N
        BY <1>4, <1>5, <1>11
    <2> HIDE DEF L
    <2>2. ASSUME NEW i \in S
          PROVE  RankIn(S, i) \in 1 .. L /\ rows[RankIn(S, i)] = i
        <3>1. RankIn(S, i) \in 1 .. L
            BY <1>4, <2>1
        <3>2. rows[RankIn(S, i)] \in S /\ RankIn(S, rows[RankIn(S, i)]) = RankIn(S, i)
            BY <1>8, <3>1
        <3> QED BY <1>10, <3>1, <3>2
    <2>3. ASSUME NEW p \in DOMAIN rows, NEW i \in S, i < rows[p]
          PROVE  \E k \in 1 .. p - 1 : rows[k] = i
        <3>1. p \in 1 .. L /\ rows[p] \in S /\ RankIn(S, rows[p]) = p
            BY <1>8, <1>9
        <3>2. RankIn(S, i) < p
            BY <1>4, <2>3, <3>1
        <3>3. RankIn(S, i) \in 1 .. p - 1
            BY <2>1, <2>2, <3>1, <3>2, <1>4
        <3> QED BY <2>2, <3>3
    <2> QED BY <1>9, <2>2, <2>3
<1>12. /\ IsFiniteSet(S) /\ N \in Nat /\ rows \in Seq(S)
       /\ N <= ReplayLimit =>
             /\ \A i \in S : \E k \in DOMAIN rows : rows[k] = i
             /\ \A p \in DOMAIN rows : \A i \in S :
                   i < rows[p] => \E k \in 1 .. p - 1 : rows[k] = i
    BY <1>3, <1>4, <1>9, <1>11
<1> QED BY <1>12 DEF S, rows

-----------------------------------------------------------------------------
(* The operations of the hub.                                              *)

\* What holds of the hub between any two steps.
HubInv(h) ==
    /\ h \in Hub
    /\ HubServes(h)
    /\ h.client # NoConn => h.conn[h.client] # "free"
    /\ \A c \in Conn : h.conn[c] # "live" => h.inbox[c] = <<>>

\* Events reach the subscribers of h.
Live(h) == h.client # NoConn /\ h.conn[h.client] = "live"

\* From h to q no connection has become live as the client, and an inbox is
\* as it was or has been emptied.
NothingNewIn(h, q) ==
    /\ \A c \in Conn : q.inbox[c] \in {h.inbox[c], <<>>}
    /\ Live(q) => Live(h) /\ q.client = h.client /\ q.inbox[q.client] = h.inbox[h.client]

\* The fields of a hub have their types.
LEMMA HubFields ==
    ASSUME NEW h \in Hub
    PROVE  /\ h.subs \in SUBSET Stream
           /\ h.client \in Conn \cup {NoConn} /\ h.watchdog \in Conn \cup {NoConn}
           /\ h.conn \in [Conn -> ConnState] /\ h.inbox \in [Conn -> Seq(Item)]
BY DEF Hub

\* A connection changes its state and loses its inbox, and nothing else changes.
LEMMA InStateFields ==
    ASSUME NEW h \in Hub, NEW c \in Conn, NEW state \in ConnState
    PROVE  /\ InState(h, c, state) \in Hub
           /\ InState(h, c, state).subs = h.subs
           /\ InState(h, c, state).client = h.client
           /\ InState(h, c, state).watchdog = h.watchdog
           /\ \A d \in Conn :
                 /\ InState(h, c, state).conn[d] = IF d = c THEN state ELSE h.conn[d]
                 /\ InState(h, c, state).inbox[d] = IF d = c THEN <<>> ELSE h.inbox[d]
<1>1. <<>> \in Seq(Item)
    OBVIOUS
<1> QED BY <1>1 DEF InState, Hub

\* start() connects a client and sets its watchdog.
LEMMA StartedFields ==
    ASSUME NEW h \in Hub, NEW c \in Conn
    PROVE  /\ Started(h, c) \in Hub
           /\ Started(h, c).subs = h.subs
           /\ Started(h, c).client = c
           /\ Started(h, c).watchdog = c
           /\ \A d \in Conn :
                 /\ Started(h, c).conn[d] = IF d = c THEN "connecting" ELSE h.conn[d]
                 /\ Started(h, c).inbox[d] = IF d = c THEN <<>> ELSE h.inbox[d]
<1> DEFINE q == InState(h, c, "connecting")
<1>1. "connecting" \in ConnState
    BY DEF ConnState
<1>2. /\ q \in Hub /\ q.subs = h.subs
      /\ \A d \in Conn : /\ q.conn[d] = IF d = c THEN "connecting" ELSE h.conn[d]
                         /\ q.inbox[d] = IF d = c THEN <<>> ELSE h.inbox[d]
    BY <1>1, InStateFields
<1>3. Started(h, c) = [q EXCEPT !.client = c, !.watchdog = c]
    BY DEF Started
<1> HIDE DEF q
<1> QED BY <1>2, <1>3 DEF Hub

\* The hub forgets its client and watchdog; connections are as they were.
LEMMA ForgottenFields ==
    ASSUME NEW h \in Hub
    PROVE  /\ Forgotten(h) \in Hub
           /\ Forgotten(h).subs = h.subs
           /\ Forgotten(h).client = NoConn
           /\ Forgotten(h).watchdog = NoConn
           /\ Forgotten(h).conn = h.conn
           /\ Forgotten(h).inbox = h.inbox
BY DEF Forgotten, Hub

\* A client that is forgotten and ended leaves nothing that listens.
LEMMA ForgottenAndEnded ==
    ASSUME NEW h \in Hub, h.client # NoConn,
           \A c \in Conn : h.conn[c] \in {"live", "dropped", "silent"} => c = h.client,
           \A c \in Conn : h.conn[c] # "live" => h.inbox[c] = <<>>,
           NEW q, q = Ended(Forgotten(h), h.client)
    PROVE  /\ q \in Hub /\ q.subs = h.subs /\ q.client = NoConn /\ q.watchdog = NoConn
           /\ \A c \in Conn : /\ q.conn[c] \notin {"live", "dropped", "silent"}
                              /\ q.inbox[c] = <<>>
                              /\ h.conn[c] = "free" => q.conn[c] = "free"
<1>1. /\ h.client \in Conn
      /\ h.conn \in [Conn -> ConnState]
    BY HubFields
<1> DEFINE f == Forgotten(h)
           b == h.client
<1>2. /\ f \in Hub /\ f.subs = h.subs /\ f.client = NoConn /\ f.watchdog = NoConn
      /\ f.conn = h.conn /\ f.inbox = h.inbox
    BY ForgottenFields
<1>3. "free" \in ConnState /\ b \in Conn
    BY <1>1 DEF ConnState
<1>4. \A c \in Conn : h.conn[c] \in {"live", "dropped", "silent"} => c = b
    OBVIOUS
<1> HIDE DEF f, b
<1>5. CASE f.conn[b] = "connecting"
    <2>1. q = f
        BY <1>5 DEF Ended, f, b
    <2>2. \A c \in Conn : h.conn[c] \notin {"live", "dropped", "silent"}
        BY <1>2, <1>4, <1>5
    <2> QED BY <1>2, <2>1, <2>2
<1>6. CASE f.conn[b] # "connecting"
    <2>1. q = InState(f, b, "free")
        BY <1>6 DEF Ended, f, b
    <2>2. /\ q \in Hub /\ q.subs = f.subs /\ q.client = f.client /\ q.watchdog = f.watchdog
          /\ \A d \in Conn : /\ q.conn[d] = IF d = b THEN "free" ELSE f.conn[d]
                             /\ q.inbox[d] = IF d = b THEN <<>> ELSE f.inbox[d]
        BY <1>2, <1>3, <2>1, InStateFields
    <2>3. \A c \in Conn : c # b => h.conn[c] \notin {"live", "dropped", "silent"}
        BY <1>4
    <2> QED BY <1>2, <2>2, <2>3
<1> QED BY <1>5, <1>6

\* subscribe(): the first subscriber starts the client.
LEMMA SubscribedKeeps ==
    ASSUME HubAssumption, NEW h, HubInv(h), NEW s \in Stream, NEW c \in Conn, c \in Free(h),
           NEW q, q = Subscribed(h, s, c)
    PROVE  HubInv(q) /\ NothingNewIn(h, q) /\ q.subs = h.subs \cup {s}
<1> DEFINE j == [h EXCEPT !.subs = @ \cup {s}]
<1>1. h \in Hub /\ NoConn \notin Conn
    BY DEF HubInv, HubAssumption
<1>2. /\ j \in Hub /\ j.subs = h.subs \cup {s} /\ j.client = h.client
      /\ j.watchdog = h.watchdog /\ j.conn = h.conn /\ j.inbox = h.inbox
    BY <1>1 DEF Hub
<1>3. q = IF h.client = NoConn THEN Started(j, c) ELSE j
    BY DEF Subscribed
<1>4. h.conn[c] = "free"
    BY DEF Free
<1> HIDE DEF j
<1>5. CASE h.client = NoConn
    <2>1. q = Started(j, c)
        BY <1>3, <1>5
    <2>2. /\ q \in Hub /\ q.subs = j.subs /\ q.client = c /\ q.watchdog = c
          /\ \A d \in Conn : /\ q.conn[d] = IF d = c THEN "connecting" ELSE j.conn[d]
                             /\ q.inbox[d] = IF d = c THEN <<>> ELSE j.inbox[d]
        BY <1>2, <2>1, StartedFields
    <2> QED BY <1>1, <1>2, <1>4, <1>5, <2>2 DEF HubInv, HubServes, NothingNewIn, Live
<1>6. CASE h.client # NoConn
    <2>1. q = j
        BY <1>3, <1>6
    <2> QED BY <1>1, <1>2, <1>6, <2>1 DEF HubInv, HubServes, NothingNewIn, Live
<1> QED BY <1>5, <1>6

\* unsubscribe(): with the last subscriber the client goes.
LEMMA UnsubscribedKeeps ==
    ASSUME HubAssumption, NEW h, HubInv(h), NEW gone, NEW q, q = Unsubscribed(h, gone)
    PROVE  HubInv(q) /\ NothingNewIn(h, q) /\ q.subs = h.subs \ gone
<1> DEFINE l == [h EXCEPT !.subs = @ \ gone]
<1>1. h \in Hub /\ NoConn \notin Conn
    BY DEF HubInv, HubAssumption
<1>2. /\ l \in Hub /\ l.subs = h.subs \ gone /\ l.client = h.client
      /\ l.watchdog = h.watchdog /\ l.conn = h.conn /\ l.inbox = h.inbox
    BY <1>1 DEF Hub
<1>3. q = IF l.subs = {} /\ h.client # NoConn THEN Ended(Forgotten(l), h.client) ELSE l
    BY DEF Unsubscribed
<1> HIDE DEF l
<1>4. CASE l.subs = {} /\ h.client # NoConn
    <2>1. q = Ended(Forgotten(l), l.client) /\ l.client # NoConn
        BY <1>2, <1>3, <1>4
    <2>2. /\ \A c \in Conn : l.conn[c] \in {"live", "dropped", "silent"} => c = l.client
          /\ \A c \in Conn : l.conn[c] # "live" => l.inbox[c] = <<>>
        BY <1>2 DEF HubInv, HubServes
    <2>3. /\ q \in Hub /\ q.subs = l.subs /\ q.client = NoConn /\ q.watchdog = NoConn
          /\ \A c \in Conn : /\ q.conn[c] \notin {"live", "dropped", "silent"}
                             /\ q.inbox[c] = <<>>
        BY <1>2, <2>1, <2>2, ForgottenAndEnded
    <2> QED BY <1>1, <1>2, <1>4, <2>3 DEF HubInv, HubServes, NothingNewIn, Live
<1>5. CASE ~(l.subs = {} /\ h.client # NoConn)
    <2>1. q = l
        BY <1>3, <1>5
    <2> QED BY <1>1, <1>2, <1>5, <2>1 DEF HubInv, HubServes, NothingNewIn, Live
<1> QED BY <1>4, <1>5

\* restart() replaces the client by one that is not live yet.
LEMMA RestartedKeeps ==
    ASSUME HubAssumption, NEW h, HubInv(h), h.client # NoConn, NEW c \in Conn, c \in Free(h),
           NEW q, q = Restarted(h, c)
    PROVE  HubInv(q) /\ NothingNewIn(h, q) /\ q.subs = h.subs
<1> DEFINE e == Ended(Forgotten(h), h.client)
<1>1. h \in Hub /\ NoConn \notin Conn /\ h.conn[c] = "free"
    BY DEF HubInv, HubAssumption, Free
<1>2. /\ e \in Hub /\ e.subs = h.subs /\ e.client = NoConn /\ e.watchdog = NoConn
      /\ \A d \in Conn : /\ e.conn[d] \notin {"live", "dropped", "silent"}
                         /\ e.inbox[d] = <<>>
    <2>1. /\ \A d \in Conn : h.conn[d] \in {"live", "dropped", "silent"} => d = h.client
          /\ \A d \in Conn : h.conn[d] # "live" => h.inbox[d] = <<>>
        BY DEF HubInv, HubServes
    <2> QED BY <1>1, <2>1, ForgottenAndEnded
<1>3. h.subs # {}
    BY DEF HubInv, HubServes
<1>4. q = Started(e, c)
    BY <1>3 DEF Restarted
<1> HIDE DEF e
<1>5. /\ q \in Hub /\ q.subs = e.subs /\ q.client = c /\ q.watchdog = c
      /\ \A d \in Conn : /\ q.conn[d] = IF d = c THEN "connecting" ELSE e.conn[d]
                         /\ q.inbox[d] = IF d = c THEN <<>> ELSE e.inbox[d]
    BY <1>2, <1>4, StartedFields
<1> QED BY <1>1, <1>2, <1>3, <1>5 DEF HubInv, HubServes, NothingNewIn, Live

\* A connection that leaves the state live, or the state dropped, for another
\* one that is not live.
LEMMA DroppedKeeps ==
    ASSUME HubAssumption, NEW h, HubInv(h), NEW c \in Conn, h.conn[c] \in {"live", "dropped"},
           NEW state \in {"dropped", "silent"}, NEW q, q = InState(h, c, state)
    PROVE  HubInv(q) /\ NothingNewIn(h, q) /\ q.subs = h.subs
<1>1. h \in Hub /\ NoConn \notin Conn /\ state \in ConnState /\ c = h.client
    BY DEF HubInv, HubServes, HubAssumption, ConnState
<1>2. /\ q \in Hub /\ q.subs = h.subs /\ q.client = h.client /\ q.watchdog = h.watchdog
      /\ \A d \in Conn : /\ q.conn[d] = IF d = c THEN state ELSE h.conn[d]
                         /\ q.inbox[d] = IF d = c THEN <<>> ELSE h.inbox[d]
    BY <1>1, InStateFields
<1> QED BY <1>1, <1>2 DEF HubInv, HubServes, NothingNewIn, Live

\* A listen() that has settled, of the client or of one that was replaced.
LEMMA ListeningKeeps ==
    ASSUME HubAssumption, NEW h, HubInv(h), NEW c \in Conn,
           h.conn[c] \in {"connecting", "dropped"}, NEW q, q = Listening(h, c)
    PROVE  /\ HubInv(q) /\ q.subs = h.subs
           /\ \A d \in Conn : q.inbox[d] \in {h.inbox[d], <<>>}
           /\ h.client = c => q.client = c /\ q.inbox[c] = <<>>
           /\ h.client # c => NothingNewIn(h, q)
<1>1. h \in Hub /\ NoConn \notin Conn /\ "live" \in ConnState /\ "free" \in ConnState
    BY DEF HubInv, HubAssumption, ConnState
<1>2. CASE h.client = c
    <2>1. q = InState(h, c, "live")
        BY <1>2 DEF Listening
    <2>2. /\ q \in Hub /\ q.subs = h.subs /\ q.client = h.client /\ q.watchdog = h.watchdog
          /\ \A d \in Conn : /\ q.conn[d] = IF d = c THEN "live" ELSE h.conn[d]
                             /\ q.inbox[d] = IF d = c THEN <<>> ELSE h.inbox[d]
        BY <1>1, <2>1, InStateFields
    <2> QED BY <1>1, <1>2, <2>2 DEF HubInv, HubServes
<1>3. CASE h.client # c
    <2>1. q = InState(h, c, "free")
        BY <1>3 DEF Listening
    <2>2. /\ q \in Hub /\ q.subs = h.subs /\ q.client = h.client /\ q.watchdog = h.watchdog
          /\ \A d \in Conn : /\ q.conn[d] = IF d = c THEN "free" ELSE h.conn[d]
                             /\ q.inbox[d] = IF d = c THEN <<>> ELSE h.inbox[d]
        BY <1>1, <2>1, InStateFields
    <2>3. h.client \in Conn \cup {NoConn}
        BY <1>1, HubFields
    <2> QED BY <1>1, <1>3, <2>2, <2>3 DEF HubInv, HubServes, NothingNewIn, Live
<1> QED BY <1>2, <1>3

\* A listen() that has failed, of the client or of one that was replaced.
LEMMA ListenFailedKeeps ==
    ASSUME HubAssumption, NEW h, HubInv(h), NEW c \in Conn, h.conn[c] = "connecting",
           NEW q, q = ListenFailed(h, c), NEW none, none = [q EXCEPT !.subs = {}]
    PROVE  /\ h.client # c => HubInv(q) /\ NothingNewIn(h, q) /\ q.subs = h.subs
           /\ h.client = c => HubInv(none) /\ NothingNewIn(h, none) /\ none.subs = {}
<1> DEFINE f == InState(h, c, "free")
<1>1. h \in Hub /\ NoConn \notin Conn /\ "free" \in ConnState
    BY DEF HubInv, HubAssumption, ConnState
<1>2. /\ f \in Hub /\ f.subs = h.subs /\ f.client = h.client /\ f.watchdog = h.watchdog
      /\ \A d \in Conn : /\ f.conn[d] = IF d = c THEN "free" ELSE h.conn[d]
                         /\ f.inbox[d] = IF d = c THEN <<>> ELSE h.inbox[d]
    BY <1>1, InStateFields
<1>3. h.client \in Conn \cup {NoConn}
    BY <1>1, HubFields
<1>4. q = IF h.client = c THEN Forgotten(f) ELSE f
    BY DEF ListenFailed
<1> HIDE DEF f
<1>5. ASSUME h.client # c
      PROVE  HubInv(q) /\ NothingNewIn(h, q) /\ q.subs = h.subs
    <2>1. q = f
        BY <1>4, <1>5
    <2> QED BY <1>1, <1>2, <1>3, <1>5, <2>1 DEF HubInv, HubServes, NothingNewIn, Live
<1>6. ASSUME h.client = c
      PROVE  HubInv(none) /\ NothingNewIn(h, none) /\ none.subs = {}
    <2>1. q = Forgotten(f)
        BY <1>4, <1>6
    <2>2. /\ q \in Hub /\ q.client = NoConn /\ q.watchdog = NoConn /\ q.conn = f.conn
          /\ q.inbox = f.inbox
        BY <1>2, <2>1, ForgottenFields
    <2>3. /\ none \in Hub /\ none.client = NoConn /\ none.watchdog = NoConn
          /\ none.conn = f.conn /\ none.inbox = f.inbox /\ none.subs = {}
        BY <2>2 DEF Hub
    <2> QED BY <1>1, <1>2, <1>6, <2>3 DEF HubInv, HubServes, NothingNewIn, Live
<1> QED BY <1>5, <1>6

\* A NOTIFY reaches the inboxes of the connections that are live.
LEMMA NotifiedKeeps ==
    ASSUME NEW h, HubInv(h), NEW i \in Item, NEW q, q = Notified(h, i)
    PROVE  /\ HubInv(q) /\ q.subs = h.subs /\ q.client = h.client /\ q.conn = h.conn
           /\ \A c \in Conn : q.inbox[c] = IF h.conn[c] = "live" THEN Append(h.inbox[c], i)
                                           ELSE h.inbox[c]
<1>1. h \in Hub
    BY DEF HubInv
<1>2. \A c \in Conn : Append(h.inbox[c], i) \in Seq(Item)
    BY <1>1 DEF Hub
<1>3. /\ q \in Hub /\ q.subs = h.subs /\ q.client = h.client /\ q.watchdog = h.watchdog
      /\ q.conn = h.conn
      /\ \A c \in Conn : q.inbox[c] = IF h.conn[c] = "live" THEN Append(h.inbox[c], i)
                                      ELSE h.inbox[c]
    BY <1>1, <1>2 DEF Notified, Hub
<1> QED BY <1>3 DEF HubInv, HubServes

\* onNotify takes an event from an inbox.
Taken(h, c) == [h EXCEPT !.inbox[c] = Tail(@)]

\* An event leaves its inbox, and nothing else changes.
LEMMA DeliveredKeeps ==
    ASSUME NEW h, HubInv(h), NEW c \in Conn, h.conn[c] = "live", h.inbox[c] # <<>>,
           NEW q, q = Taken(h, c)
    PROVE  /\ HubInv(q) /\ q.subs = h.subs /\ q.client = h.client /\ q.conn = h.conn
           /\ h.client = c
           /\ q.inbox[c] = Tail(h.inbox[c])
           /\ \A d \in Conn : d # c => q.inbox[d] = h.inbox[d]
<1>1. h \in Hub
    BY DEF HubInv
<1>2. Tail(h.inbox[c]) \in Seq(Item)
    BY <1>1 DEF Hub
<1>3. /\ q \in Hub /\ q.subs = h.subs /\ q.client = h.client /\ q.watchdog = h.watchdog
      /\ q.conn = h.conn
      /\ \A d \in Conn : q.inbox[d] = IF d = c THEN Tail(h.inbox[c]) ELSE h.inbox[d]
    BY <1>1, <1>2 DEF Hub, Taken
<1> QED BY <1>3 DEF HubInv, HubServes

-----------------------------------------------------------------------------
(* The operations of a stream.                                             *)

\* Items are positive numbers, and the limits are numbers.
LEMMA Items ==
    ASSUME StreamAssumption
    PROVE  /\ Item \in SUBSET Nat /\ IsFiniteSet(Item) /\ 0 \notin Item
           /\ MaxStreams \in Nat /\ ReplayLimit \in Nat /\ SeenMax \in Nat /\ SeenMax > 0
           /\ QueueMax \in Nat /\ QueueMax > 0
           /\ \A i \in Item : i \in Nat /\ i > 0
<1>1. Cardinality(Item) \in Nat
    BY FS_CardinalityType DEF StreamAssumption
<1> QED BY <1>1 DEF StreamAssumption

\* The fields of a stream have their types.
LEMMA StreamFields ==
    ASSUME NEW st \in StreamState
    PROVE  /\ st.open \in BOOLEAN /\ st.since \in Nat /\ st.cursor \in Item \cup {NoItem}
           /\ st.seen \in Seq(Item) /\ st.chain \in Seq(Item \cup {Replay})
           /\ st.reading \in BOOLEAN /\ st.rows \in Seq(Item) /\ st.queue \in Seq(Item)
           /\ st.sent \in Seq(Item)
BY DEF StreamState

\* Work goes to the end of the chain, and nothing else changes.
LEMMA WithWorkFields ==
    ASSUME NEW st \in StreamState, NEW w \in Item \cup {Replay}
    PROVE  /\ WithWork(st, w) \in StreamState
           /\ WithWork(st, w).open = st.open /\ WithWork(st, w).since = st.since
           /\ WithWork(st, w).cursor = st.cursor /\ WithWork(st, w).seen = st.seen
           /\ WithWork(st, w).chain = Append(st.chain, w) /\ WithWork(st, w).chain # <<>>
           /\ WithWork(st, w).reading = st.reading /\ WithWork(st, w).rows = st.rows
           /\ WithWork(st, w).queue = st.queue /\ WithWork(st, w).sent = st.sent
<1> DEFINE q == Append(st.chain, w)
<1>1. q \in Seq(Item \cup {Replay}) /\ q # <<>>
    <2>1. st.chain \in Seq(Item \cup {Replay})
        BY StreamFields
    <2> QED BY <2>1
<1>2. WithWork(st, w) = [st EXCEPT !.chain = q]
    BY DEF WithWork
<1> HIDE DEF q
<1>3. /\ WithWork(st, w) \in StreamState
      /\ WithWork(st, w).open = st.open /\ WithWork(st, w).since = st.since
      /\ WithWork(st, w).cursor = st.cursor /\ WithWork(st, w).seen = st.seen
      /\ WithWork(st, w).chain = q
      /\ WithWork(st, w).reading = st.reading /\ WithWork(st, w).rows = st.rows
      /\ WithWork(st, w).queue = st.queue /\ WithWork(st, w).sent = st.sent
    BY <1>1, <1>2 DEF StreamState
<1> QED BY <1>1, <1>3 DEF q

\* seen stays a sequence of items.
LEMMA SeenWithSeq ==
    ASSUME StreamAssumption, NEW st \in StreamState, NEW i \in Item
    PROVE  SeenWith(st, i) \in Seq(Item)
<1> DEFINE all == Append(st.seen, i)
<1>1. all \in Seq(Item) /\ all # <<>>
    BY StreamFields
<1>2. Tail(all) \in Seq(Item)
    BY <1>1
<1> QED BY <1>1, <1>2 DEF SeenWith

\* emit() sends the item, skips it, or closes the stream.
LEMMA EmitFields ==
    ASSUME StreamAssumption, NEW st \in StreamState, NEW i \in Item, NEW e, e = Emit(st, i)
    PROVE  /\ e \in StreamState
           /\ e.since = st.since /\ e.chain = st.chain /\ e.reading = st.reading
           /\ e.rows = st.rows
           /\ \/ i \in ToSet(st.seen) /\ e = st
              \/ ~st.open /\ e = st
              \/ /\ ~e.open /\ e.cursor = st.cursor /\ e.seen = st.seen
                 /\ e.queue = st.queue /\ e.sent = st.sent
              \/ /\ st.open /\ e.open /\ i \notin ToSet(st.seen)
                 /\ e.queue = Append(st.queue, i) /\ e.sent = Append(st.sent, i)
                 /\ e.seen = SeenWith(st, i) /\ e.cursor = i
<1>1. /\ st.queue \in Seq(Item) /\ st.sent \in Seq(Item) /\ SeenWith(st, i) \in Seq(Item)
    BY StreamFields, SeenWithSeq
<1>2. Append(st.queue, i) \in Seq(Item) /\ Append(st.sent, i) \in Seq(Item)
    BY <1>1
<1>3. CASE i \in ToSet(st.seen) \/ ~st.open
    <2>1. e = st
        BY <1>3 DEF Emit
    <2> QED BY <1>3, <2>1
<1>4. CASE ~(i \in ToSet(st.seen) \/ ~st.open) /\ Len(st.queue) >= QueueMax
    <2>1. e = [st EXCEPT !.open = FALSE]
        BY <1>4 DEF Emit
    <2> QED BY <2>1 DEF StreamState
<1>5. CASE ~(i \in ToSet(st.seen) \/ ~st.open) /\ ~(Len(st.queue) >= QueueMax)
    <2> DEFINE q == Append(st.queue, i)
               t == Append(st.sent, i)
               n == SeenWith(st, i)
    <2>1. e = [st EXCEPT !.queue = q, !.sent = t, !.seen = n, !.cursor = i]
        BY <1>5 DEF Emit
    <2>2. q \in Seq(Item) /\ t \in Seq(Item) /\ n \in Seq(Item)
        BY <1>1, <1>2
    <2> HIDE DEF q, t, n
    <2>3. /\ e \in StreamState
          /\ e.since = st.since /\ e.chain = st.chain /\ e.reading = st.reading
          /\ e.rows = st.rows /\ e.open = st.open
          /\ e.queue = q /\ e.sent = t /\ e.seen = n /\ e.cursor = i
        BY <2>1, <2>2 DEF StreamState
    <2> QED BY <1>5, <2>3 DEF q, t, n
<1> QED BY <1>3, <1>4, <1>5

\* What emit() hands on from row to row, Emitted has in the end: G[n] are the
\* states that are allowed after n rows.
LEMMA EmittedIsIn ==
    ASSUME NEW st, Len(st.rows) \in Nat, NEW G, st \in G[0],
           \A n \in 1 .. Len(st.rows) : \A e \in G[n - 1] : Emit(e, st.rows[n]) \in G[n]
    PROVE  Emitted(st) \in G[Len(st.rows)]
<1> DEFINE N == Len(st.rows)
<1>1. PICK f : Leads(f, st, N) /\ Emitted(st) = f[N]
    BY EmittedRowByRow
<1> DEFINE T == {n \in 0 .. N : f[n] \in G[n]}
<1>2. N \in Nat
    OBVIOUS
<1>3. 0 \in T
    BY <1>1, <1>2 DEF Leads
<1>4. ASSUME NEW n \in 0 .. N - 1, n \in T
      PROVE  n + 1 \in T
    <2>1. n + 1 \in 1 .. N /\ (n + 1) - 1 = n
        BY <1>2
    <2>2. f[n + 1] = Emit(f[n], st.rows[n + 1])
        BY <1>1, <2>1 DEF Leads
    <2>3. Emit(f[n], st.rows[n + 1]) \in G[n + 1]
        BY <1>4, <2>1
    <2> QED BY <1>2, <2>1, <2>2, <2>3
<1>5. N \in T
    <2> HIDE DEF T, N
    <2>1. \A n \in 0 .. N - 1 : n \in T => n + 1 \in T
        BY <1>4
    <2>2. \A n \in 0 .. N : n \in T
        BY <1>2, <1>3, <2>1, OneAfterTheOther
    <2> QED BY <1>2, <2>2
<1> QED BY <1>1, <1>5

\* Emitting the rows leaves the work as it is, and opens no stream.
LEMMA EmittedFields ==
    ASSUME StreamAssumption, NEW st \in StreamState, NEW e, e = Emitted(st)
    PROVE  /\ e \in StreamState
           /\ e.since = st.since /\ e.chain = st.chain /\ e.reading = st.reading
           /\ e.rows = st.rows /\ (e.open => st.open)
<1> DEFINE N == Len(st.rows)
           A == {d \in StreamState : /\ d.since = st.since /\ d.chain = st.chain
                                     /\ d.reading = st.reading /\ d.rows = st.rows
                                     /\ (d.open => st.open)}
           G == [n \in 0 .. N |-> A]
<1>1. N \in Nat /\ \A n \in 1 .. N : st.rows[n] \in Item
    BY StreamFields
<1>2. st \in A
    OBVIOUS
<1>3. ASSUME NEW d \in A, NEW i \in Item
      PROVE  Emit(d, i) \in A
    <2>1. d \in StreamState
        OBVIOUS
    <2> DEFINE x == Emit(d, i)
    <2>2. /\ x \in StreamState
          /\ x.since = d.since /\ x.chain = d.chain /\ x.reading = d.reading
          /\ x.rows = d.rows /\ (x.open => d.open)
        <3> HIDE DEF x, A
        <3>1. x = Emit(d, i)
            BY DEF x
        <3> QED BY <2>1, <3>1, EmitFields
    <2> HIDE DEF x
    <2>3. x \in A
        BY <2>2
    <2> QED BY <2>3 DEF x
<1>4. Emitted(st) \in A
    <2> HIDE DEF A
    <2>1. st \in G[0]
        BY <1>1, <1>2
    <2>2. \A n \in 1 .. N : \A d \in G[n - 1] : Emit(d, st.rows[n]) \in G[n]
        <3> SUFFICES ASSUME NEW n \in 1 .. N, NEW d \in G[n - 1]
                     PROVE  Emit(d, st.rows[n]) \in G[n]
            OBVIOUS
        <3>1. n \in 0 .. N /\ n - 1 \in 0 .. N /\ st.rows[n] \in Item
            BY <1>1
        <3>2. G[n] = A /\ G[n - 1] = A
            BY <3>1
        <3> QED BY <1>3, <3>1, <3>2
    <2>3. G[N] = A
        BY <1>1
    <2> HIDE DEF G
    <2> QED BY <1>1, <2>1, <2>2, <2>3, EmittedIsIn DEF N
<1> QED BY <1>4

-----------------------------------------------------------------------------
(* What each action makes of a stream.                                     *)

\* A stream that is closed is gone, and only one that is reading has rows, for
\* the work at the head of its chain.
Sound(st) ==
    /\ st \in StreamState
    /\ ~st.open => st = NoStream
    /\ st.reading => st.chain # <<>>
    /\ ~st.reading => st.rows = <<>>

\* The streams, the clients and what the database has are of their types.
StreamsInv ==
    /\ stream \in [Stream -> StreamState] /\ client \in [Stream -> ClientState]
    /\ \A s \in Stream : Sound(stream[s])
    /\ begun \in Nat /\ committed \subseteq Item /\ late \subseteq committed /\ faults \in Nat

\* A stream that is closed has nothing.
LEMMA NoStreamFields ==
    /\ NoStream \in StreamState /\ Sound(NoStream)
    /\ ~NoStream.open /\ NoStream.chain = <<>> /\ NoStream.seen = <<>> /\ NoStream.rows = <<>>
    /\ NoStream.queue = <<>> /\ NoStream.sent = <<>> /\ ~NoStream.reading
<1>1. /\ <<>> \in Seq(Item) /\ <<>> \in Seq(Item \cup {Replay}) /\ NoItem \in Item \cup {NoItem}
      /\ 0 \in Nat
    OBVIOUS
<1>2. NoStream \in StreamState
    BY <1>1 DEF NoStream, StreamState
<1>3. /\ ~NoStream.open /\ NoStream.chain = <<>> /\ NoStream.seen = <<>>
      /\ NoStream.rows = <<>> /\ NoStream.queue = <<>> /\ NoStream.sent = <<>>
      /\ ~NoStream.reading
    BY DEF NoStream
<1> QED BY <1>2, <1>3 DEF Sound

\* The stream that Connect makes.
Opened(s) ==
    LET st == [NoStream EXCEPT !.open = TRUE, !.since = begun, !.cursor = client[s].last]
    IN  IF client[s].last # NoItem THEN WithWork(st, Replay) ELSE st

\* A stream that has just been opened has sent nothing.
LEMMA OpenedFields ==
    ASSUME StreamsInv, NEW s \in Stream, NEW e, e = Opened(s)
    PROVE  /\ Sound(e) /\ e.open
           /\ e.since = begun /\ e.cursor = client[s].last /\ e.seen = <<>> /\ ~e.reading
           /\ e.rows = <<>> /\ e.queue = <<>> /\ e.sent = <<>>
           /\ e.chain = IF client[s].last # NoItem THEN <<Replay>> ELSE <<>>
<1> DEFINE st == [NoStream EXCEPT !.open = TRUE, !.since = begun, !.cursor = client[s].last]
<1>1. client[s].last \in Item \cup {NoItem} /\ begun \in Nat
    BY DEF StreamsInv, ClientState
<1>2. /\ st \in StreamState /\ st.open /\ st.since = begun /\ st.cursor = client[s].last
      /\ st.seen = <<>> /\ ~st.reading /\ st.rows = <<>> /\ st.queue = <<>> /\ st.sent = <<>>
      /\ st.chain = <<>>
    BY <1>1, NoStreamFields DEF NoStream, StreamState
<1>3. e = IF client[s].last # NoItem THEN WithWork(st, Replay) ELSE st
    BY DEF Opened
<1>4. Replay \in Item \cup {Replay}
    OBVIOUS
<1> HIDE DEF st
<1>5. CASE client[s].last # NoItem
    <2>1. e = WithWork(st, Replay)
        BY <1>3, <1>5
    <2>2. /\ WithWork(st, Replay) \in StreamState
          /\ WithWork(st, Replay).open = st.open /\ WithWork(st, Replay).since = st.since
          /\ WithWork(st, Replay).cursor = st.cursor /\ WithWork(st, Replay).seen = st.seen
          /\ WithWork(st, Replay).chain = Append(st.chain, Replay)
          /\ WithWork(st, Replay).reading = st.reading
          /\ WithWork(st, Replay).rows = st.rows
          /\ WithWork(st, Replay).queue = st.queue /\ WithWork(st, Replay).sent = st.sent
        BY <1>2, <1>4, WithWorkFields
    <2>3. e.chain = <<Replay>>
        BY <1>2, <2>1, <2>2
    <2> QED BY <1>2, <1>5, <2>1, <2>2, <2>3 DEF Sound
<1>6. CASE client[s].last = NoItem
    <2>1. e = st
        BY <1>3, <1>6
    <2> QED BY <1>2, <1>6, <2>1 DEF Sound
<1> QED BY <1>5, <1>6

\* An open stream that is given work stays sound.
LEMMA WithWorkSound ==
    ASSUME NEW st, Sound(st), st.open, NEW w \in Item \cup {Replay}
    PROVE  Sound(WithWork(st, w))
<1> DEFINE e == WithWork(st, w)
<1>1. /\ e \in StreamState
      /\ e.open = st.open /\ e.chain = Append(st.chain, w) /\ e.reading = st.reading
      /\ e.rows = st.rows /\ e.chain # <<>>
    BY WithWorkFields DEF Sound
<1> HIDE DEF e
<1>2. Sound(e)
    BY <1>1 DEF Sound
<1> QED BY <1>2 DEF e

\* The three ways of ReadRows.
LEMMA ReadRowsFields ==
    ASSUME StreamAssumption, StreamsInv, NEW s \in Stream, ReadRows(s)
    PROVE  \E e :
             /\ stream' = [stream EXCEPT ![s] = e]
             /\ Sound(e) /\ e.open
             /\ e.since = stream[s].since /\ e.cursor = stream[s].cursor
             /\ e.seen = stream[s].seen /\ e.queue = stream[s].queue
             /\ e.sent = stream[s].sent
             /\ stream[s].chain # <<>> /\ ~stream[s].reading /\ stream[s].open
             /\ \/ /\ Head(stream[s].chain) = Replay
                   /\ e.reading /\ e.rows = ReplayRows(stream[s]) /\ e.chain = stream[s].chain
                \/ /\ Head(stream[s].chain) # Replay
                   /\ Head(stream[s].chain) \in ToSet(stream[s].seen)
                   /\ ~e.reading /\ e.rows = <<>> /\ e.chain = Tail(stream[s].chain)
                \/ /\ Head(stream[s].chain) # Replay
                   /\ e.reading /\ e.rows = <<Head(stream[s].chain)>>
                   /\ e.chain = stream[s].chain
<1> DEFINE st == stream[s]
           w == Head(st.chain)
<1>1. /\ st \in StreamState /\ Sound(st) /\ st.chain # <<>> /\ ~st.reading
      /\ st.chain \in Seq(Item \cup {Replay}) /\ committed \subseteq Item
    BY StreamFields DEF StreamsInv, ReadRows
<1>2. st.open
    BY <1>1, NoStreamFields DEF Sound
<1>3. /\ stream' = [stream EXCEPT ![s] =
             IF w = Replay THEN [st EXCEPT !.reading = TRUE, !.rows = ReplayRows(st)]
             ELSE IF w \in ToSet(st.seen) THEN [st EXCEPT !.chain = Tail(@)]
             ELSE [st EXCEPT !.reading = TRUE, !.rows = <<w>>]]
    BY DEF ReadRows
<1>4. w \in Item \cup {Replay} /\ Tail(st.chain) \in Seq(Item \cup {Replay})
    BY <1>1
<1>5. st.rows = <<>>
    BY <1>1 DEF Sound
<1>6. /\ stream[s].chain # <<>> /\ ~stream[s].reading /\ stream[s].open
    BY <1>1, <1>2
<1> HIDE DEF st, w
<1>7. CASE w = Replay
    <2> DEFINE rows == ReplayRows(st)
               e == [st EXCEPT !.reading = TRUE, !.rows = rows]
    <2>1. rows \in Seq(Item)
        <3>1. rows \in Seq(After(st))
            BY <1>1, RowsOfAReplay
        <3>2. After(st) \subseteq Item
            BY <1>1 DEF After
        <3> HIDE DEF rows
        <3> QED BY <3>1, <3>2, SeqMonotonic
    <2>2. stream' = [stream EXCEPT ![s] = e]
        BY <1>3, <1>7
    <2> HIDE DEF rows
    <2>3. /\ e \in StreamState /\ e.reading /\ e.rows = rows /\ e.chain = st.chain
          /\ e.open = st.open /\ e.since = st.since /\ e.cursor = st.cursor
          /\ e.seen = st.seen /\ e.queue = st.queue /\ e.sent = st.sent
        BY <1>1, <2>1 DEF StreamState
    <2> HIDE DEF e
    <2>4. Sound(e)
        BY <1>1, <1>2, <2>3 DEF Sound
    <2>5. WITNESS e
    <2> QED BY <1>2, <1>6, <1>7, <2>2, <2>3, <2>4 DEF st, w, rows
<1>8. CASE w # Replay /\ w \in ToSet(st.seen)
    <2> DEFINE e == [st EXCEPT !.chain = Tail(@)]
    <2>1. stream' = [stream EXCEPT ![s] = e]
        BY <1>3, <1>8
    <2>2. /\ e \in StreamState /\ e.reading = st.reading /\ e.rows = st.rows
          /\ e.chain = Tail(st.chain)
          /\ e.open = st.open /\ e.since = st.since /\ e.cursor = st.cursor
          /\ e.seen = st.seen /\ e.queue = st.queue /\ e.sent = st.sent
        BY <1>1, <1>4 DEF StreamState
    <2> HIDE DEF e
    <2>3. Sound(e)
        BY <1>1, <1>2, <1>5, <2>2 DEF Sound
    <2>4. WITNESS e
    <2> QED BY <1>1, <1>2, <1>5, <1>6, <1>8, <2>1, <2>2, <2>3 DEF st, w
<1>9. CASE w # Replay /\ w \notin ToSet(st.seen)
    <2> DEFINE rows == <<w>>
               e == [st EXCEPT !.reading = TRUE, !.rows = rows]
    <2>1. rows \in Seq(Item)
        BY <1>4, <1>9
    <2>2. stream' = [stream EXCEPT ![s] = e]
        BY <1>3, <1>9
    <2> HIDE DEF rows
    <2>3. /\ e \in StreamState /\ e.reading /\ e.rows = rows /\ e.chain = st.chain
          /\ e.open = st.open /\ e.since = st.since /\ e.cursor = st.cursor
          /\ e.seen = st.seen /\ e.queue = st.queue /\ e.sent = st.sent
        BY <1>1, <2>1 DEF StreamState
    <2> HIDE DEF e
    <2>4. Sound(e)
        BY <1>1, <1>2, <2>3 DEF Sound
    <2>5. WITNESS e
    <2> QED BY <1>2, <1>6, <1>9, <2>2, <2>3, <2>4 DEF st, w, rows
<1> QED BY <1>7, <1>8, <1>9

\* EmitRows ends the head of the chain, or the stream.
LEMMA EmitRowsFields ==
    ASSUME StreamAssumption, StreamsInv, NEW s \in Stream, EmitRows(s)
    PROVE  /\ stream[s].open /\ stream[s].reading
           /\ Emitted(stream[s]) \in StreamState
           /\ \/ /\ ~Emitted(stream[s]).open /\ Close({s})
              \/ \E e : /\ stream' = [stream EXCEPT ![s] = e]
                        /\ UNCHANGED <<hub, active>>
                        /\ Sound(e) /\ e.open /\ Emitted(stream[s]).open
                        /\ e.since = stream[s].since /\ e.cursor = Emitted(stream[s]).cursor
                        /\ e.seen = Emitted(stream[s]).seen
                        /\ e.queue = Emitted(stream[s]).queue
                        /\ e.sent = Emitted(stream[s]).sent
                        /\ ~e.reading /\ e.rows = <<>> /\ e.chain = Tail(stream[s].chain)
<1> DEFINE st == stream[s]
           d == Emitted(st)
<1>1. st \in StreamState /\ Sound(st) /\ st.reading
    BY DEF StreamsInv, EmitRows
<1>2. st.open /\ st.chain # <<>>
    BY <1>1, NoStreamFields DEF Sound
<1>3. IF d.open
      THEN /\ stream' = [stream EXCEPT ![s] =
                [d EXCEPT !.reading = FALSE, !.rows = <<>>, !.chain = Tail(@)]]
           /\ UNCHANGED <<hub, active>>
      ELSE Close({s})
    BY DEF EmitRows
<1> HIDE DEF st
<1>4. /\ d \in StreamState /\ d.since = st.since /\ d.chain = st.chain
    <2> HIDE DEF d
    <2>1. d = Emitted(st)
        BY DEF d
    <2> QED BY <1>1, <2>1, EmittedFields
<1> HIDE DEF d
<1>5. CASE d.open
    <2> DEFINE e == [d EXCEPT !.reading = FALSE, !.rows = <<>>, !.chain = Tail(@)]
    <2>1. stream' = [stream EXCEPT ![s] = e] /\ UNCHANGED <<hub, active>>
        BY <1>3, <1>5
    <2>2. Tail(d.chain) \in Seq(Item \cup {Replay})
        <3>1. d.chain \in Seq(Item \cup {Replay}) /\ d.chain # <<>>
            BY <1>2, <1>4, StreamFields
        <3> QED BY <3>1
    <2>3. /\ e \in StreamState /\ ~e.reading /\ e.rows = <<>> /\ e.chain = Tail(st.chain)
          /\ e.open = d.open /\ e.since = st.since /\ e.cursor = d.cursor
          /\ e.seen = d.seen /\ e.queue = d.queue /\ e.sent = d.sent
        <3> DEFINE t == Tail(d.chain)
        <3>1. <<>> \in Seq(Item) /\ t \in Seq(Item \cup {Replay}) /\ t = Tail(st.chain)
            BY <1>4, <2>2
        <3>2. e = [d EXCEPT !.reading = FALSE, !.rows = <<>>, !.chain = t]
            OBVIOUS
        <3> HIDE DEF t, e
        <3> QED BY <1>4, <3>1, <3>2 DEF StreamState
    <2> HIDE DEF e
    <2>4. Sound(e)
        BY <1>5, <2>3 DEF Sound
    <2>5. \E x : /\ stream' = [stream EXCEPT ![s] = x]
                 /\ UNCHANGED <<hub, active>>
                 /\ Sound(x) /\ x.open /\ d.open
                 /\ x.since = st.since /\ x.cursor = d.cursor
                 /\ x.seen = d.seen /\ x.queue = d.queue /\ x.sent = d.sent
                 /\ ~x.reading /\ x.rows = <<>> /\ x.chain = Tail(st.chain)
        <3> WITNESS e
        <3> QED BY <1>5, <2>1, <2>3, <2>4
    <2> QED BY <1>1, <1>2, <1>4, <2>5 DEF st, d
<1>6. CASE ~d.open
    BY <1>1, <1>2, <1>3, <1>4, <1>6 DEF st, d
<1> QED BY <1>5, <1>6

\* The client reads the head of its queue.
LEMMA ReadFields ==
    ASSUME StreamsInv, NEW s \in Stream, Read(s)
    PROVE  \E e :
             /\ stream' = [stream EXCEPT ![s] = e]
             /\ Sound(e) /\ e.open /\ stream[s].open /\ stream[s].queue # <<>>
             /\ e.since = stream[s].since /\ e.cursor = stream[s].cursor
             /\ e.seen = stream[s].seen /\ e.queue = Tail(stream[s].queue)
             /\ e.sent = stream[s].sent /\ e.chain = stream[s].chain
             /\ e.reading = stream[s].reading /\ e.rows = stream[s].rows
<1> DEFINE st == stream[s]
           e == [st EXCEPT !.queue = Tail(@)]
<1>1. st \in StreamState /\ Sound(st) /\ st.queue # <<>>
    BY DEF StreamsInv, Read
<1>2. st.open
    BY <1>1, NoStreamFields DEF Sound
<1>3. stream' = [stream EXCEPT ![s] = e]
    BY DEF Read
<1> HIDE DEF st
<1>4. Tail(st.queue) \in Seq(Item)
    <2>1. st.queue \in Seq(Item)
        BY <1>1, StreamFields
    <2> QED BY <1>1, <2>1
<1>5. /\ e \in StreamState /\ e.reading = st.reading /\ e.rows = st.rows /\ e.chain = st.chain
      /\ e.open = st.open /\ e.since = st.since /\ e.cursor = st.cursor
      /\ e.seen = st.seen /\ e.queue = Tail(st.queue) /\ e.sent = st.sent
    BY <1>1, <1>4 DEF StreamState
<1> HIDE DEF e
<1>6. Sound(e)
    BY <1>1, <1>2, <1>5 DEF Sound
<1> WITNESS e
<1> QED BY <1>1, <1>2, <1>3, <1>5, <1>6 DEF st

-----------------------------------------------------------------------------
(* Types, and who holds a slot.                                            *)

\* The open streams are the subscribers, one slot each.
SlotsInv ==
    /\ HubInv(hub)
    /\ hub.subs = {s \in Stream : stream[s].open}
    /\ IsFiniteSet(hub.subs) /\ active = Cardinality(hub.subs) /\ active <= MaxStreams

\* The inductive invariant of the hub and the slots.
HubStreamInv == StreamsInv /\ SlotsInv

\* A client that reads n items has these, and the last of them as its id.
LEMMA AfterReadingFields ==
    ASSUME StreamsInv, NEW s \in Stream, NEW n \in 0 .. Len(stream[s].queue)
    PROVE  /\ AfterReading(s, n) \in ClientState
           /\ AfterReading(s, n).from = client[s].from
           /\ AfterReading(s, n).short = client[s].short
           /\ AfterReading(s, n).last = IF n = 0 THEN client[s].last ELSE stream[s].queue[n]
           /\ \A i : i \in AfterReading(s, n).got <=>
                  i \in client[s].got \/ \E k \in 1 .. n : stream[s].queue[k] = i
<1> DEFINE q == stream[s].queue
           c == client[s]
           read == SubSeq(q, 1, n)
<1>1. q \in Seq(Item) /\ c \in ClientState /\ Len(q) \in Nat
    BY StreamFields DEF StreamsInv
<1>2. AfterReading(s, n) = IF n = 0 THEN c
                           ELSE [c EXCEPT !.got = @ \cup ToSet(read), !.last = read[n]]
    BY DEF AfterReading
<1>3. /\ c.last \in Item \cup {NoItem} /\ c.got \subseteq Item /\ c.from \in Nat
      /\ c.short \in BOOLEAN
    BY <1>1 DEF ClientState
<1> HIDE DEF c
<1>4. CASE n = 0
    BY <1>1, <1>2, <1>4 DEF q, c
<1>5. CASE n # 0
    <2> HIDE DEF q
    <2>1. \A i \in 1 .. n : q[i] \in Item
        BY <1>1 DEF q
    <2>2. /\ read \in Seq(Item) /\ Len(read) = n
          /\ \A k \in 1 .. n : read[k] = q[k]
        BY <1>1, <1>5, <2>1, SubSeqProperties DEF q
    <2> HIDE DEF read
    <2>3. /\ ToSet(read) \subseteq Item /\ read[n] = q[n] /\ q[n] \in Item
          /\ \A i : i \in ToSet(read) <=> \E k \in 1 .. n : q[k] = i
        <3>1. DOMAIN read = 1 .. n
            BY <2>2
        <3>2. n \in 1 .. n
            BY <1>1, <1>5
        <3> QED BY <2>1, <2>2, <3>1, <3>2 DEF ToSet
    <2> DEFINE g == c.got \cup ToSet(read)
               l == read[n]
               a == [c EXCEPT !.got = g, !.last = l]
    <2>4. AfterReading(s, n) = a
        BY <1>2, <1>5
    <2>5. g \subseteq Item /\ l \in Item
        BY <1>3, <2>3
    <2> HIDE DEF g, l
    <2>6. a \in ClientState /\ a.from = c.from /\ a.short = c.short /\ a.got = g /\ a.last = l
        BY <1>1, <2>5 DEF ClientState
    <2> HIDE DEF a
    <2> QED BY <1>5, <2>3, <2>4, <2>6 DEF g, l, q, c
<1> QED BY <1>4, <1>5

\* Where one stream changes, and is sound, all are.
LEMMA OneStreamChanges ==
    ASSUME StreamsInv, NEW s \in Stream, NEW e, Sound(e), stream' = [stream EXCEPT ![s] = e]
    PROVE  /\ stream' \in [Stream -> StreamState]
           /\ \A t \in Stream : Sound(stream'[t])
           /\ \A t \in Stream : stream'[t] = IF t = s THEN e ELSE stream[t]
BY DEF StreamsInv, Sound

\* A stream that stays open holds its slot.
LEMMA SlotsStay ==
    ASSUME SlotsInv, HubInv(hub'), hub'.subs = hub.subs, active' = active,
           \A s \in Stream : stream'[s].open <=> stream[s].open
    PROVE  SlotsInv'
<1>1. {s \in Stream : stream'[s].open} = {s \in Stream : stream[s].open}
    OBVIOUS
<1> QED BY <1>1 DEF SlotsInv

\* No slot is taken or given back where one stream changes and stays open.
LEMMA SlotsStayOfOne ==
    ASSUME StreamsInv, SlotsInv, UNCHANGED <<hub, active>>, NEW s \in Stream, NEW e, Sound(e),
           e.open, stream[s].open, stream' = [stream EXCEPT ![s] = e]
    PROVE  SlotsInv'
<1>1. \A t \in Stream : stream'[t] = IF t = s THEN e ELSE stream[t]
    BY OneStreamChanges
<1>2. \A t \in Stream : stream'[t].open <=> stream[t].open
    BY <1>1
<1>3. hub' = hub /\ active' = active /\ HubInv(hub')
    BY DEF SlotsInv
<1> QED BY <1>2, <1>3, SlotsStay

\* close() of a stream that is open.
LEMMA CloseOne ==
    ASSUME HubAssumption, StreamAssumption, StreamsInv, SlotsInv, NEW s \in Stream,
           stream[s].open, Close({s})
    PROVE  /\ SlotsInv' /\ NothingNewIn(hub, hub')
           /\ stream' \in [Stream -> StreamState] /\ \A t \in Stream : Sound(stream'[t])
           /\ \A t \in Stream : stream'[t] = IF t = s THEN NoStream ELSE stream[t]
<1>1. /\ HubInv(hub') /\ NothingNewIn(hub, hub') /\ hub'.subs = hub.subs \ {s}
    <2>1. HubInv(hub) /\ hub' = Unsubscribed(hub, {s})
        BY DEF SlotsInv, Close
    <2> QED BY <2>1, UnsubscribedKeeps
<1>2. \A t \in Stream : stream'[t] = IF t = s THEN NoStream ELSE stream[t]
    BY DEF Close
<1>3. stream' \in [Stream -> StreamState] /\ \A t \in Stream : Sound(stream'[t])
    <2>1. stream' = [t \in Stream |-> stream'[t]]
        BY DEF Close
    <2>2. \A t \in Stream : Sound(stream'[t])
        BY <1>2, NoStreamFields DEF StreamsInv
    <2> HIDE DEF Close
    <2> QED BY <2>1, <2>2 DEF Sound
<1>4. s \in hub.subs /\ IsFiniteSet(hub.subs)
    BY DEF SlotsInv
<1>5. active' = active - 1
    BY FS_Singleton DEF Close
<1>6. IsFiniteSet(hub.subs \ {s}) /\ Cardinality(hub.subs \ {s}) = Cardinality(hub.subs) - 1
    BY <1>4, FS_RemoveElement
<1>7. {t \in Stream : stream'[t].open} = hub.subs \ {s}
    BY <1>2, NoStreamFields DEF SlotsInv
<1>8. Cardinality(hub.subs) \in Nat /\ MaxStreams \in Nat
    BY <1>4, FS_CardinalityType, Items
<1> QED BY <1>1, <1>2, <1>3, <1>5, <1>6, <1>7, <1>8 DEF SlotsInv

\* A connection that is lost, and what becomes of it, takes nobody's place.
LEMMA ConnectionLost ==
    ASSUME HubAssumption, HubInv(hub), NEW c \in Conn,
           Drop(c) \/ RelistenFails(c) \/ WatchdogFires(c)
    PROVE  HubInv(hub') /\ NothingNewIn(hub, hub') /\ hub'.subs = hub.subs
<1>1. CASE Drop(c)
    <2>1. hub.conn[c] = "live" /\ hub' = InState(hub, c, "dropped")
        BY <1>1 DEF Drop
    <2> QED BY <2>1, DroppedKeeps
<1>2. CASE RelistenFails(c)
    <2>1. hub.conn[c] = "dropped" /\ hub' = InState(hub, c, "silent")
        BY <1>2 DEF RelistenFails
    <2> QED BY <2>1, DroppedKeeps
<1>3. CASE WatchdogFires(c)
    <2>1. hub.client # NoConn /\ c \in Free(hub) /\ hub' = Restarted(hub, c)
        BY <1>3 DEF WatchdogFires
    <2> QED BY <2>1, RestartedKeeps
<1> QED BY <1>1, <1>2, <1>3

\* At first nobody subscribes.
LEMMA InitHubStream ==
    ASSUME HubAssumption, StreamAssumption, Init
    PROVE  HubStreamInv
<1>1. hub = HubInit /\ begun = 0 /\ committed = {} /\ late = {} /\ active = 0
      /\ stream = [s \in Stream |-> NoStream] /\ faults = MaxFaults
      /\ client = [s \in Stream |-> [last |-> NoItem, got |-> {}, from |-> 0, short |-> FALSE]]
    BY DEF Init
<1>2. client \in [Stream -> ClientState]
    BY <1>1 DEF ClientState
<1>3. StreamsInv
    BY <1>1, <1>2, NoStreamFields DEF StreamsInv, StreamAssumption
<1>4. HubInv(hub)
    <2>1. <<>> \in Seq(Item)
        OBVIOUS
    <2>2. HubInit \in Hub
        BY <2>1 DEF HubInit, Hub, ConnState
    <2> QED BY <1>1, <2>2 DEF HubInv, HubServes, HubInit
<1>5. {s \in Stream : stream[s].open} = {} /\ hub.subs = {}
    BY <1>1, NoStreamFields DEF HubInit
<1>6. SlotsInv
    BY <1>1, <1>4, <1>5, FS_EmptySet, Items DEF SlotsInv
<1> QED BY <1>3, <1>6 DEF HubStreamInv

\* onResync, or onNotify: the streams that are given work stay sound.
LEMMA WorkForSome ==
    ASSUME StreamsInv, NEW w \in Item \cup {Replay}, NEW G, \A s \in G : stream[s].open,
           stream' = [s \in Stream |-> IF s \in G THEN WithWork(stream[s], w) ELSE stream[s]]
    PROVE  /\ stream' \in [Stream -> StreamState]
           /\ \A s \in Stream : Sound(stream'[s])
           /\ \A s \in Stream : stream'[s].open <=> stream[s].open
<1>1. ASSUME NEW s \in Stream
      PROVE  Sound(stream'[s]) /\ (stream'[s].open <=> stream[s].open)
    <2>1. CASE s \in G
        <3>1. stream'[s] = WithWork(stream[s], w) /\ stream[s].open /\ Sound(stream[s])
            BY <2>1 DEF StreamsInv
        <3>2. Sound(WithWork(stream[s], w))
            BY <3>1, WithWorkSound
        <3>3. WithWork(stream[s], w).open = stream[s].open
            BY <3>1, WithWorkFields DEF Sound
        <3> QED BY <3>1, <3>2, <3>3
    <2>2. CASE s \notin G
        <3>1. stream'[s] = stream[s] /\ Sound(stream[s])
            BY <2>2 DEF StreamsInv
        <3> QED BY <3>1
    <2> QED BY <2>1, <2>2
<1>2. stream' = [s \in Stream |-> stream'[s]]
    OBVIOUS
<1> QED BY <1>1, <1>2 DEF Sound

\* Every step keeps the inductive invariant of the hub and the slots.
LEMMA NextKeepsHubStream ==
    ASSUME HubAssumption, StreamAssumption, HubStreamInv, [Next]_vars
    PROVE  HubStreamInv'
<1> USE HubAssumption, StreamAssumption
<1>1. /\ StreamsInv /\ SlotsInv /\ HubInv(hub)
      /\ stream \in [Stream -> StreamState] /\ client \in [Stream -> ClientState]
      /\ \A s \in Stream : Sound(stream[s])
      /\ begun \in Nat /\ committed \subseteq Item /\ late \subseteq committed /\ faults \in Nat
      /\ hub.subs = {s \in Stream : stream[s].open}
    BY DEF HubStreamInv, StreamsInv, SlotsInv
<1>2. CASE UNCHANGED vars
    <2>1. UNCHANGED <<hub, begun, committed, late, active, stream, client, faults>>
        BY <1>2 DEF vars
    <2> QED BY <1>1, <2>1 DEF HubStreamInv, StreamsInv, SlotsInv
<1>3. CASE Begin
    <2>1. /\ begun' = begun + 1
          /\ UNCHANGED <<hub, committed, late, active, stream, client, faults>>
        BY <1>3 DEF Begin
    <2>2. SlotsInv' /\ begun' \in Nat
        BY <1>1, <2>1, SlotsStay
    <2> QED BY <1>1, <2>1, <2>2 DEF HubStreamInv, StreamsInv
<1>4. ASSUME NEW i \in Item, Commit(i)
      PROVE  HubStreamInv'
    <2>1. /\ committed' = committed \cup {i} /\ late' \in {late, late \cup {i}}
          /\ hub' = Notified(hub, i)
          /\ UNCHANGED <<begun, active, stream, client, faults>>
        BY <1>4 DEF Commit
    <2>2. HubInv(hub') /\ hub'.subs = hub.subs
        BY <1>1, <2>1, NotifiedKeeps
    <2>3. SlotsInv'
        BY <1>1, <2>1, <2>2, SlotsStay
    <2> QED BY <1>1, <2>1, <2>3 DEF HubStreamInv, StreamsInv
<1>5. ASSUME NEW s \in Stream, NEW c \in Conn, Connect(s, c)
      PROVE  HubStreamInv'
    <2>1. /\ ~stream[s].open /\ active < MaxStreams /\ active' = active + 1 /\ c \in Free(hub)
          /\ hub' = Subscribed(hub, s, c)
          /\ client' = [client EXCEPT ![s].from = IF client[s].last = NoItem THEN begun ELSE @]
          /\ UNCHANGED <<begun, committed, late, faults>>
        BY <1>5 DEF Connect
    <2>2. stream' = [stream EXCEPT ![s] = Opened(s)]
        BY <1>5 DEF Connect, Opened
    <2>3. HubInv(hub') /\ hub'.subs = hub.subs \cup {s}
        BY <1>1, <2>1, SubscribedKeeps
    <2>4. Sound(Opened(s)) /\ Opened(s).open
        BY <1>1, OpenedFields
    <2>5. /\ stream' \in [Stream -> StreamState]
          /\ \A t \in Stream : Sound(stream'[t])
          /\ \A t \in Stream : stream'[t] = IF t = s THEN Opened(s) ELSE stream[t]
        BY <1>1, <2>2, <2>4, OneStreamChanges
    <2>6. client' \in [Stream -> ClientState]
        <3>1. client[s] \in ClientState /\ client[s].from \in Nat
            BY <1>1 DEF ClientState
        <3>2. ASSUME NEW n \in Nat
              PROVE  [client[s] EXCEPT !.from = n] \in ClientState
            BY <3>1 DEF ClientState
        <3>3. PICK n \in Nat : client' = [client EXCEPT ![s] = [client[s] EXCEPT !.from = n]]
            BY <1>1, <2>1, <3>1
        <3> QED BY <1>1, <3>2, <3>3
    <2>7. s \notin hub.subs /\ IsFiniteSet(hub.subs)
        BY <1>1, <2>1 DEF SlotsInv
    <2>8. /\ IsFiniteSet(hub.subs \cup {s})
          /\ Cardinality(hub.subs \cup {s}) = Cardinality(hub.subs) + 1
        BY <2>7, FS_AddElement
    <2>9. {t \in Stream : stream'[t].open} = hub.subs \cup {s}
        BY <1>1, <2>4, <2>5
    <2>10. Cardinality(hub.subs) \in Nat /\ MaxStreams \in Nat
        BY <2>7, FS_CardinalityType, Items
    <2>11. SlotsInv'
        BY <1>1, <2>1, <2>3, <2>8, <2>9, <2>10 DEF SlotsInv
    <2> QED BY <1>1, <2>1, <2>5, <2>6, <2>11 DEF HubStreamInv, StreamsInv
<1>6. ASSUME NEW s \in Stream, End(s)
      PROVE  HubStreamInv'
    <2>1. /\ stream[s].open /\ Close({s}) /\ faults' \in Nat
          /\ UNCHANGED <<begun, committed, late>>
        BY <1>1, <1>6 DEF End, Fault
    <2>2. PICK n \in 0 .. Len(stream[s].queue) :
             client' = [client EXCEPT ![s] = AfterReading(s, n)]
        BY <1>6 DEF End
    <2>3. client' \in [Stream -> ClientState]
        BY <1>1, <2>2, AfterReadingFields
    <2>4. /\ SlotsInv'
          /\ stream' \in [Stream -> StreamState] /\ \A t \in Stream : Sound(stream'[t])
        BY <1>1, <2>1, CloseOne
    <2> QED BY <1>1, <2>1, <2>3, <2>4 DEF HubStreamInv, StreamsInv
<1>7. ASSUME NEW s \in Stream, ReadRows(s)
      PROVE  HubStreamInv'
    <2>1. PICK e : /\ stream' = [stream EXCEPT ![s] = e]
                   /\ Sound(e) /\ e.open /\ stream[s].open
        BY <1>1, <1>7, ReadRowsFields
    <2>2. /\ UNCHANGED <<hub, begun, committed, late, active, faults>>
          /\ \E b \in BOOLEAN : client' = [client EXCEPT ![s].short = b]
        <3>1. client[s].short \in BOOLEAN
            BY <1>1 DEF ClientState
        <3> QED BY <1>7, <3>1 DEF ReadRows
    <2>3. client' \in [Stream -> ClientState]
        <3>1. client[s] \in ClientState
            BY <1>1
        <3>2. ASSUME NEW b \in BOOLEAN
              PROVE  [client[s] EXCEPT !.short = b] \in ClientState
            BY <3>1 DEF ClientState
        <3>3. PICK b \in BOOLEAN : client' = [client EXCEPT ![s] = [client[s] EXCEPT !.short = b]]
            BY <1>1, <2>2, <3>1
        <3> QED BY <1>1, <3>2, <3>3
    <2>4. SlotsInv'
        BY <1>1, <2>1, <2>2, SlotsStayOfOne
    <2>5. stream' \in [Stream -> StreamState] /\ \A t \in Stream : Sound(stream'[t])
        BY <1>1, <2>1, OneStreamChanges
    <2> QED BY <1>1, <2>2, <2>3, <2>4, <2>5 DEF HubStreamInv, StreamsInv
<1>8. ASSUME NEW s \in Stream, EmitRows(s)
      PROVE  HubStreamInv'
    <2>1. UNCHANGED <<begun, committed, late, client, faults>>
        BY <1>8 DEF EmitRows
    <2>2. /\ stream[s].open
          /\ \/ Close({s})
             \/ \E e : /\ stream' = [stream EXCEPT ![s] = e]
                       /\ UNCHANGED <<hub, active>> /\ Sound(e) /\ e.open
        BY <1>1, <1>8, EmitRowsFields
    <2>3. CASE Close({s})
        <3>1. /\ SlotsInv'
              /\ stream' \in [Stream -> StreamState] /\ \A t \in Stream : Sound(stream'[t])
            BY <1>1, <2>2, <2>3, CloseOne
        <3> QED BY <1>1, <2>1, <3>1 DEF HubStreamInv, StreamsInv
    <2>4. ASSUME NEW e, stream' = [stream EXCEPT ![s] = e], UNCHANGED <<hub, active>>,
                 Sound(e), e.open
          PROVE  HubStreamInv'
        <3>1. SlotsInv'
            BY <1>1, <2>2, <2>4, SlotsStayOfOne
        <3>2. stream' \in [Stream -> StreamState] /\ \A t \in Stream : Sound(stream'[t])
            BY <1>1, <2>4, OneStreamChanges
        <3> QED BY <1>1, <2>1, <3>1, <3>2 DEF HubStreamInv, StreamsInv
    <2> QED BY <2>2, <2>3, <2>4
<1>9. ASSUME NEW s \in Stream, Read(s)
      PROVE  HubStreamInv'
    <2>1. PICK e : /\ stream' = [stream EXCEPT ![s] = e]
                   /\ Sound(e) /\ e.open /\ stream[s].open /\ stream[s].queue # <<>>
        BY <1>1, <1>9, ReadFields
    <2>2. /\ UNCHANGED <<hub, begun, committed, late, active, faults>>
          /\ client' = [client EXCEPT ![s] = AfterReading(s, 1)]
        BY <1>9 DEF Read
    <2>3. client' \in [Stream -> ClientState]
        <3>1. stream[s].queue \in Seq(Item)
            BY <1>1, StreamFields
        <3>2. 1 \in 0 .. Len(stream[s].queue)
            BY <2>1, <3>1
        <3>3. AfterReading(s, 1) \in ClientState
            BY <1>1, <3>2, AfterReadingFields
        <3> QED BY <1>1, <2>2, <3>3
    <2>4. SlotsInv'
        BY <1>1, <2>1, <2>2, SlotsStayOfOne
    <2>5. stream' \in [Stream -> StreamState] /\ \A t \in Stream : Sound(stream'[t])
        BY <1>1, <2>1, OneStreamChanges
    <2> QED BY <1>1, <2>2, <2>3, <2>4, <2>5 DEF HubStreamInv, StreamsInv
<1>10. ASSUME NEW c \in Conn, ListenSucceeds(c)
       PROVE  HubStreamInv'
    <2>1. /\ hub.conn[c] \in {"connecting", "dropped"} /\ hub' = Listening(hub, c)
          /\ UNCHANGED <<begun, committed, late, active, client, faults>>
          /\ stream' = IF hub.client = c THEN Resynced ELSE stream
        BY <1>10 DEF ListenSucceeds
    <2>2. HubInv(hub') /\ hub'.subs = hub.subs
        BY <1>1, <2>1, ListeningKeeps
    <2>3. /\ stream' \in [Stream -> StreamState] /\ \A s \in Stream : Sound(stream'[s])
          /\ \A s \in Stream : stream'[s].open <=> stream[s].open
        <3>1. CASE hub.client = c
            <4>1. stream' = [s \in Stream |-> IF s \in hub.subs
                                              THEN WithWork(stream[s], Replay) ELSE stream[s]]
                BY <2>1, <3>1 DEF Resynced
            <4>2. Replay \in Item \cup {Replay} /\ \A s \in hub.subs : stream[s].open
                BY <1>1
            <4> QED BY <1>1, <4>1, <4>2, WorkForSome
        <3>2. CASE hub.client # c
            <4>1. stream' = stream
                BY <2>1, <3>2
            <4> QED BY <1>1, <4>1
        <3> QED BY <3>1, <3>2
    <2>4. SlotsInv'
        BY <1>1, <2>1, <2>2, <2>3, SlotsStay
    <2> QED BY <1>1, <2>1, <2>3, <2>4 DEF HubStreamInv, StreamsInv
<1>11. ASSUME NEW c \in Conn, ListenFails(c)
       PROVE  HubStreamInv'
    <2> DEFINE f == ListenFailed(hub, c)
               none == [f EXCEPT !.subs = {}]
    <2>1. /\ hub.conn[c] = "connecting" /\ UNCHANGED <<begun, committed, late, client>>
          /\ IF hub.client = c
             THEN /\ Fault /\ hub' = none /\ stream' = [s \in Stream |-> NoStream]
                  /\ active' = 0
             ELSE hub' = f /\ UNCHANGED <<stream, active, faults>>
        BY <1>11 DEF ListenFails
    <2>2. /\ hub.client # c => HubInv(f) /\ f.subs = hub.subs
          /\ hub.client = c => HubInv(none) /\ none.subs = {}
        <3> DEFINE q == f
                   n == none
        <3>1. q = ListenFailed(hub, c) /\ n = [q EXCEPT !.subs = {}]
            OBVIOUS
        <3> HIDE DEF q, n
        <3>2. /\ hub.client # c => HubInv(q) /\ q.subs = hub.subs
              /\ hub.client = c => HubInv(n) /\ n.subs = {}
            BY <1>1, <2>1, <3>1, ListenFailedKeeps
        <3> QED BY <3>2 DEF q, n
    <2> HIDE DEF f, none
    <2>3. CASE hub.client = c
        <3>1. /\ faults' \in Nat /\ hub' = none /\ stream' = [s \in Stream |-> NoStream]
              /\ active' = 0
            BY <1>1, <2>1, <2>3 DEF Fault
        <3>2. {s \in Stream : stream'[s].open} = {}
            BY <3>1, NoStreamFields
        <3>3. SlotsInv'
            BY <2>2, <2>3, <3>1, <3>2, FS_EmptySet, Items DEF SlotsInv
        <3>4. stream' \in [Stream -> StreamState] /\ \A s \in Stream : Sound(stream'[s])
            BY <3>1, NoStreamFields
        <3> QED BY <1>1, <2>1, <3>1, <3>3, <3>4 DEF HubStreamInv, StreamsInv
    <2>4. CASE hub.client # c
        <3>1. hub' = f /\ UNCHANGED <<stream, active, faults>>
            BY <2>1, <2>4
        <3>2. SlotsInv'
            BY <1>1, <2>2, <2>4, <3>1, SlotsStay
        <3> QED BY <1>1, <2>1, <3>1, <3>2 DEF HubStreamInv, StreamsInv
    <2> QED BY <2>3, <2>4
<1>12. ASSUME NEW c \in Conn, Drop(c) \/ RelistenFails(c) \/ WatchdogFires(c)
       PROVE  HubStreamInv'
    <2>1. UNCHANGED <<begun, committed, late, active, stream, client>> /\ faults' \in Nat
        BY <1>1, <1>12 DEF Drop, RelistenFails, WatchdogFires, Fault
    <2>2. HubInv(hub') /\ hub'.subs = hub.subs
        BY <1>1, <1>12, ConnectionLost
    <2>3. SlotsInv'
        BY <1>1, <2>1, <2>2, SlotsStay
    <2> QED BY <1>1, <2>1, <2>3 DEF HubStreamInv, StreamsInv
<1>13. ASSUME NEW c \in Conn, Deliver(c)
       PROVE  HubStreamInv'
    <2> DEFINE i == Head(hub.inbox[c])
               G == {s \in hub.subs : hub.client = c /\ i \notin ToSet(stream[s].seen)}
    <2>1. /\ hub.conn[c] = "live" /\ hub.inbox[c] # <<>>
          /\ hub' = Taken(hub, c)
          /\ UNCHANGED <<begun, committed, late, active, client, faults>>
        BY <1>13 DEF Deliver, Taken
    <2>2. stream' = [s \in Stream |-> IF s \in G THEN WithWork(stream[s], i) ELSE stream[s]]
        BY <1>13 DEF Deliver
    <2>3. HubInv(hub') /\ hub'.subs = hub.subs
        BY <1>1, <2>1, DeliveredKeeps
    <2>4. i \in Item \cup {Replay}
        <3>1. hub.inbox[c] \in Seq(Item)
            BY <1>1, HubFields DEF HubInv
        <3> QED BY <2>1, <3>1
    <2>5. \A s \in G : stream[s].open
        BY <1>1
    <2> HIDE DEF G, i
    <2>6. /\ stream' \in [Stream -> StreamState] /\ \A s \in Stream : Sound(stream'[s])
          /\ \A s \in Stream : stream'[s].open <=> stream[s].open
        BY <1>1, <2>2, <2>4, <2>5, WorkForSome
    <2>7. SlotsInv'
        BY <1>1, <2>1, <2>3, <2>6, SlotsStay
    <2> QED BY <1>1, <2>1, <2>6, <2>7 DEF HubStreamInv, StreamsInv
<1> QED BY <1>2, <1>3, <1>4, <1>5, <1>6, <1>7, <1>8, <1>9, <1>10, <1>11, <1>12, <1>13 DEF Next

\* The inductive invariant of the hub and the slots holds in every state.
LEMMA HubStreamAlways == Spec => []HubStreamInv
<1>1. Init => HubStreamInv
    BY HubAssumption, StreamAssumption, InitHubStream
<1>2. HubStreamInv /\ [Next]_vars => HubStreamInv'
    BY HubAssumption, StreamAssumption, NextKeepsHubStream
<1> QED BY <1>1, <1>2, PTL DEF Spec

\* The hub has its client and watchdog exactly as long as there are
\* subscribers, each open stream is one and holds one slot of the user, and
\* no replaced connection goes on listening.
THEOREM OneListenerOfTheHub == Spec => []OneListener
<1>1. HubStreamInv => OneListener
    BY DEF HubStreamInv, SlotsInv, HubInv, OneListener
<1> QED BY <1>1, HubStreamAlways, PTL

\* The variables of the stream endpoint keep their types.
THEOREM StreamsAreTyped == Spec => []TypeOK
<1>1. HubStreamInv => TypeOK
    <2> SUFFICES ASSUME HubStreamInv
                 PROVE  TypeOK
        OBVIOUS
    <2>1. Cardinality(hub.subs) \in Nat /\ MaxStreams \in Nat
        BY StreamAssumption, FS_CardinalityType, Items DEF HubStreamInv, SlotsInv
    <2> QED BY <2>1 DEF HubStreamInv, StreamsInv, SlotsInv, HubInv, TypeOK
<1> QED BY <1>1, HubStreamAlways, PTL

-----------------------------------------------------------------------------
(* What a stream remembers of what it has sent.                            *)

\* seen are the last items that were sent, SeenMax of them at most.
Remembers(st) ==
    /\ Len(st.seen) = (IF Len(st.sent) < SeenMax THEN Len(st.sent) ELSE SeenMax)
    /\ \A k \in 1 .. Len(st.seen) : st.seen[k] = st.sent[Len(st.sent) - Len(st.seen) + k]

\* Between two sends of one item lie SeenMax others.
Apart(st) ==
    \A i, j \in 1 .. Len(st.sent) : i < j /\ st.sent[i] = st.sent[j] => j - i > SeenMax

\* emit() skips an item among the last SeenMax.
LEMMA EmitKeepsApart ==
    ASSUME StreamAssumption, NEW st \in StreamState, NEW i \in Item, Remembers(st), Apart(st),
           NEW e, e = Emit(st, i)
    PROVE  e \in StreamState /\ Remembers(e) /\ Apart(e)
<1>1. /\ e \in StreamState
      /\ \/ e = st
         \/ e.seen = st.seen /\ e.sent = st.sent
         \/ /\ i \notin ToSet(st.seen)
            /\ e.sent = Append(st.sent, i) /\ e.seen = SeenWith(st, i)
    BY EmitFields
<1>2. CASE e.seen = st.seen /\ e.sent = st.sent
    BY <1>1, <1>2 DEF Remembers, Apart
<1>3. CASE /\ i \notin ToSet(st.seen)
           /\ e.sent = Append(st.sent, i) /\ e.seen = SeenWith(st, i)
    <2> DEFINE n == Len(st.sent)
               m == Len(st.seen)
               all == Append(st.seen, i)
    <2>1. st.seen \in Seq(Item) /\ st.sent \in Seq(Item) /\ n \in Nat /\ m \in Nat
        BY StreamFields
    <2>2. SeenMax \in Nat /\ SeenMax > 0
        BY Items
    <2>3. Len(e.sent) = n + 1 /\ e.sent[n + 1] = i /\ \A k \in 1 .. n : e.sent[k] = st.sent[k]
        BY <1>3, <2>1
    <2>4. /\ m = (IF n < SeenMax THEN n ELSE SeenMax)
          /\ \A k \in 1 .. m : st.seen[k] = st.sent[n - m + k]
        BY DEF Remembers
    <2>5. \A k \in 1 .. m : st.seen[k] # i
        BY <1>3, <2>1 DEF ToSet
    <2>6. /\ all \in Seq(Item) /\ Len(all) = m + 1 /\ all[m + 1] = i
          /\ \A k \in 1 .. m : all[k] = st.seen[k]
        BY <2>1
    <2>7. e.seen = IF m + 1 > SeenMax THEN Tail(all) ELSE all
        BY <1>3, <2>6 DEF SeenWith
    <2>8. Remembers(e)
        <3>1. CASE m + 1 > SeenMax
            <4>1. e.seen = Tail(all) /\ all # <<>>
                BY <2>1, <2>6, <2>7, <3>1
            <4> HIDE DEF all
            <4>2. Len(e.seen) = m /\ \A k \in 1 .. m : e.seen[k] = all[k + 1]
                BY <2>1, <2>6, <4>1
            <4> HIDE DEF n, m
            <4>3. m = SeenMax /\ n >= SeenMax
                BY <2>1, <2>2, <2>4, <3>1
            <4>4. ASSUME NEW k \in 1 .. m
                  PROVE  e.seen[k] = e.sent[(n + 1) - m + k]
                <5>1. CASE k = m
                    <6>1. (n + 1) - m + k = n + 1
                        BY <2>1, <5>1
                    <6> QED BY <2>1, <2>3, <2>6, <4>2, <5>1, <6>1
                <5>2. CASE k < m
                    <6>1. k + 1 \in 1 .. m
                        BY <2>1, <5>2
                    <6>2. e.seen[k] = st.sent[n - m + (k + 1)]
                        BY <2>4, <2>6, <4>2, <6>1
                    <6>3. n - m + (k + 1) \in 1 .. n /\ n - m + (k + 1) = (n + 1) - m + k
                        BY <2>1, <4>3, <5>2
                    <6> QED BY <2>3, <6>2, <6>3
                <5> QED BY <2>1, <5>1, <5>2
            <4> QED BY <2>1, <2>2, <2>3, <4>2, <4>3, <4>4 DEF Remembers
        <3>2. CASE ~(m + 1 > SeenMax)
            <4>1. e.seen = all
                BY <2>7, <3>2
            <4> HIDE DEF all, n, m
            <4>2. m = n /\ n < SeenMax
                BY <2>1, <2>2, <2>4, <3>2
            <4>3. ASSUME NEW k \in 1 .. m + 1
                  PROVE  e.seen[k] = e.sent[k]
                <5>1. CASE k = m + 1
                    BY <2>3, <2>6, <4>1, <4>2, <5>1
                <5>2. CASE k # m + 1
                    <6>1. k \in 1 .. m /\ n - m + k = k
                        BY <2>1, <4>2, <5>2
                    <6> QED BY <2>3, <2>4, <2>6, <4>1, <4>2, <6>1
                <5> QED BY <5>1, <5>2
            <4>4. Len(e.seen) = m + 1 /\ Len(e.sent) = m + 1
                BY <2>3, <2>6, <4>1, <4>2
            <4>5. \A k \in 1 .. m + 1 : Len(e.sent) - Len(e.seen) + k = k
                BY <2>1, <4>4
            <4> QED BY <2>1, <2>2, <4>2, <4>3, <4>4, <4>5 DEF Remembers
        <3> QED BY <3>1, <3>2
    <2>9. Apart(e)
        <3> SUFFICES ASSUME NEW k \in 1 .. n + 1, NEW j \in 1 .. n + 1, k < j,
                            e.sent[k] = e.sent[j]
                     PROVE  j - k > SeenMax
            BY <2>3 DEF Apart
        <3> HIDE DEF n, m, all
        <3>1. CASE j <= n
            <4>1. k \in 1 .. n /\ j \in 1 .. n
                BY <2>1, <3>1
            <4> QED BY <2>3, <4>1 DEF Apart, n
        <3>2. CASE j = n + 1
            <4>1. k \in 1 .. n /\ st.sent[k] = i
                BY <2>1, <2>3, <3>2
            <4>2. k <= n - m
                <5> SUFFICES ASSUME k > n - m
                             PROVE  FALSE
                    BY <2>1
                <5>1. k - (n - m) \in 1 .. m /\ n - m + (k - (n - m)) = k
                    BY <2>1, <4>1
                <5> QED BY <2>4, <2>5, <4>1, <5>1
            <4> QED BY <2>1, <2>2, <2>4, <3>2, <4>1, <4>2
        <3> QED BY <2>1, <3>1, <3>2
    <2> QED BY <1>1, <2>8, <2>9
<1> QED BY <1>1, <1>2, <1>3

\* So does emitting all rows.
LEMMA EmittedKeepsApart ==
    ASSUME StreamAssumption, NEW st \in StreamState, Remembers(st), Apart(st)
    PROVE  Remembers(Emitted(st)) /\ Apart(Emitted(st))
<1> DEFINE N == Len(st.rows)
           A == {d \in StreamState : Remembers(d) /\ Apart(d)}
           G == [n \in 0 .. N |-> A]
<1>1. N \in Nat /\ \A n \in 1 .. N : st.rows[n] \in Item
    BY StreamFields
<1>2. \A d \in A : \A i \in Item : Emit(d, i) \in A
    BY EmitKeepsApart
<1>3. st \in A
    OBVIOUS
<1> HIDE DEF A
<1>4. st \in G[0] /\ G[N] = A
    BY <1>1, <1>3
<1>5. \A n \in 1 .. N : \A d \in G[n - 1] : Emit(d, st.rows[n]) \in G[n]
    <2>1. \A n \in 1 .. N : G[n] = A /\ G[n - 1] = A
        BY <1>1
    <2> QED BY <1>1, <1>2, <2>1
<1> HIDE DEF G
<1>6. Emitted(st) \in A
    BY <1>1, <1>4, <1>5, EmittedIsIn DEF N
<1> QED BY <1>6 DEF A

\* The inductive invariant of what the streams send.
SentInv == \A s \in Stream : Remembers(stream[s]) /\ Apart(stream[s])

\* A stream that has sent nothing has sent nothing twice.
LEMMA NothingSent ==
    ASSUME StreamAssumption, NEW e, e.seen = <<>>, e.sent = <<>>
    PROVE  Remembers(e) /\ Apart(e)
BY Items DEF Remembers, Apart

\* Where seen and sent stay, what holds of them stays.
LEMMA SentAsBefore ==
    ASSUME NEW st, Remembers(st), Apart(st), NEW e, e.seen = st.seen, e.sent = st.sent
    PROVE  Remembers(e) /\ Apart(e)
BY DEF Remembers, Apart

\* Every step keeps what the streams send apart.
LEMMA NextKeepsSent ==
    ASSUME HubAssumption, StreamAssumption, HubStreamInv, SentInv, [Next]_vars
    PROVE  SentInv'
<1> USE HubAssumption, StreamAssumption
<1>1. /\ StreamsInv /\ SlotsInv
      /\ \A s \in Stream : Remembers(stream[s]) /\ Apart(stream[s])
      /\ \A s \in Stream : stream[s] \in StreamState
    BY DEF HubStreamInv, StreamsInv, SentInv
<1>2. ASSUME UNCHANGED stream
      PROVE  SentInv'
    BY <1>1, <1>2 DEF SentInv
<1>3. ASSUME NEW s \in Stream, NEW e, stream' = [stream EXCEPT ![s] = e], Sound(e),
             Remembers(e) /\ Apart(e)
      PROVE  SentInv'
    <2>1. \A t \in Stream : stream'[t] = IF t = s THEN e ELSE stream[t]
        BY <1>1, <1>3, OneStreamChanges
    <2> QED BY <1>1, <1>3, <2>1 DEF SentInv
<1>4. ASSUME NEW s \in Stream, stream[s].open, Close({s})
      PROVE  SentInv'
    <2>1. \A t \in Stream : stream'[t] = IF t = s THEN NoStream ELSE stream[t]
        BY <1>1, <1>4, CloseOne
    <2>2. Remembers(NoStream) /\ Apart(NoStream)
        BY NoStreamFields, NothingSent
    <2> QED BY <1>1, <2>1, <2>2 DEF SentInv
<1>5. ASSUME NEW w \in Item \cup {Replay}, NEW G,
             stream' = [s \in Stream |-> IF s \in G THEN WithWork(stream[s], w) ELSE stream[s]]
      PROVE  SentInv'
    <2> SUFFICES ASSUME NEW s \in Stream
                 PROVE  Remembers(stream'[s]) /\ Apart(stream'[s])
        BY DEF SentInv
    <2>1. stream'[s].seen = stream[s].seen /\ stream'[s].sent = stream[s].sent
        BY <1>1, <1>5, WithWorkFields
    <2> QED BY <1>1, <2>1, SentAsBefore
<1>6. CASE UNCHANGED vars
    BY <1>2, <1>6 DEF vars
<1>7. CASE Begin \/ \E i \in Item : Commit(i)
    BY <1>2, <1>7 DEF Begin, Commit
<1>8. ASSUME NEW s \in Stream, NEW c \in Conn, Connect(s, c)
      PROVE  SentInv'
    <2>1. stream' = [stream EXCEPT ![s] = Opened(s)]
        BY <1>8 DEF Connect, Opened
    <2>2. Sound(Opened(s)) /\ Opened(s).seen = <<>> /\ Opened(s).sent = <<>>
        BY <1>1, OpenedFields
    <2>3. Remembers(Opened(s)) /\ Apart(Opened(s))
        BY <2>2, NothingSent
    <2> QED BY <1>3, <2>1, <2>2, <2>3
<1>9. ASSUME NEW s \in Stream, End(s)
      PROVE  SentInv'
    BY <1>4, <1>9 DEF End
<1>10. ASSUME NEW s \in Stream, ReadRows(s)
       PROVE  SentInv'
    <2>1. PICK e : /\ stream' = [stream EXCEPT ![s] = e]
                   /\ Sound(e) /\ e.seen = stream[s].seen /\ e.sent = stream[s].sent
        BY <1>1, <1>10, ReadRowsFields
    <2>2. Remembers(e) /\ Apart(e)
        BY <1>1, <2>1, SentAsBefore
    <2> QED BY <1>3, <2>1, <2>2
<1>11. ASSUME NEW s \in Stream, EmitRows(s)
       PROVE  SentInv'
    <2>1. /\ stream[s].open
          /\ \/ Close({s})
             \/ \E e : /\ stream' = [stream EXCEPT ![s] = e] /\ Sound(e)
                       /\ e.seen = Emitted(stream[s]).seen
                       /\ e.sent = Emitted(stream[s]).sent
        BY <1>1, <1>11, EmitRowsFields
    <2>2. Remembers(Emitted(stream[s])) /\ Apart(Emitted(stream[s]))
        BY <1>1, EmittedKeepsApart
    <2>3. ASSUME NEW e, stream' = [stream EXCEPT ![s] = e], Sound(e),
                 e.seen = Emitted(stream[s]).seen, e.sent = Emitted(stream[s]).sent
          PROVE  SentInv'
        <3>1. Remembers(e) /\ Apart(e)
            BY <2>2, <2>3, SentAsBefore
        <3> QED BY <1>3, <2>3, <3>1
    <2> QED BY <1>4, <2>1, <2>3
<1>12. ASSUME NEW s \in Stream, Read(s)
       PROVE  SentInv'
    <2>1. PICK e : /\ stream' = [stream EXCEPT ![s] = e]
                   /\ Sound(e) /\ e.seen = stream[s].seen /\ e.sent = stream[s].sent
        BY <1>1, <1>12, ReadFields
    <2>2. Remembers(e) /\ Apart(e)
        BY <1>1, <2>1, SentAsBefore
    <2> QED BY <1>3, <2>1, <2>2
<1>13. ASSUME NEW c \in Conn, ListenSucceeds(c)
       PROVE  SentInv'
    <2>1. CASE hub.client = c
        <3>1. stream' = [s \in Stream |-> IF s \in hub.subs THEN WithWork(stream[s], Replay)
                                          ELSE stream[s]]
            BY <1>13, <2>1 DEF ListenSucceeds, Resynced
        <3>2. Replay \in Item \cup {Replay}
            OBVIOUS
        <3> QED BY <1>5, <3>1, <3>2
    <2>2. CASE hub.client # c
        BY <1>2, <1>13, <2>2 DEF ListenSucceeds
    <2> QED BY <2>1, <2>2
<1>14. ASSUME NEW c \in Conn, ListenFails(c)
       PROVE  SentInv'
    <2>1. CASE hub.client = c
        <3>1. stream' = [s \in Stream |-> NoStream]
            BY <1>14, <2>1 DEF ListenFails
        <3>2. Remembers(NoStream) /\ Apart(NoStream)
            BY NoStreamFields, NothingSent
        <3> QED BY <3>1, <3>2 DEF SentInv
    <2>2. CASE hub.client # c
        BY <1>2, <1>14, <2>2 DEF ListenFails
    <2> QED BY <2>1, <2>2
<1>15. ASSUME NEW c \in Conn, Drop(c) \/ RelistenFails(c) \/ WatchdogFires(c)
       PROVE  SentInv'
    BY <1>2, <1>15 DEF Drop, RelistenFails, WatchdogFires
<1>16. ASSUME NEW c \in Conn, Deliver(c)
       PROVE  SentInv'
    <2> DEFINE i == Head(hub.inbox[c])
               G == {s \in hub.subs : hub.client = c /\ i \notin ToSet(stream[s].seen)}
    <2>1. stream' = [s \in Stream |-> IF s \in G THEN WithWork(stream[s], i) ELSE stream[s]]
        BY <1>16 DEF Deliver
    <2>2. i \in Item \cup {Replay}
        <3>1. hub.inbox[c] \in Seq(Item) /\ hub.inbox[c] # <<>>
            BY <1>1, <1>16, HubFields DEF SlotsInv, HubInv, Deliver
        <3> QED BY <3>1
    <2> HIDE DEF G, i
    <2> QED BY <1>5, <2>1, <2>2
<1> QED BY <1>6, <1>7, <1>8, <1>9, <1>10, <1>11, <1>12, <1>13, <1>14, <1>15, <1>16 DEF Next

\* Between two sends of one item a stream has sent SeenMax others, however
\* replays and events overlap.
THEOREM SendsTwiceOnlyFarApart == Spec => []TwiceOnlyFarApart
<1>1. Init => SentInv
    <2> SUFFICES ASSUME Init, NEW s \in Stream
                 PROVE  Remembers(stream[s]) /\ Apart(stream[s])
        BY DEF SentInv
    <2>1. stream[s] = NoStream
        BY DEF Init
    <2> QED BY <2>1, StreamAssumption, NoStreamFields, NothingSent
<1>2. HubStreamInv /\ SentInv /\ [Next]_vars => SentInv'
    BY HubAssumption, StreamAssumption, NextKeepsSent
<1>3. HubStreamInv /\ SentInv => TwiceOnlyFarApart
    <2> SUFFICES ASSUME HubStreamInv, SentInv, NEW s \in Stream
                 PROVE  \A i, j \in DOMAIN stream[s].sent :
                            i < j /\ stream[s].sent[i] = stream[s].sent[j] => j - i > SeenMax
        BY DEF TwiceOnlyFarApart
    <2>1. DOMAIN stream[s].sent = 1 .. Len(stream[s].sent)
        <3>1. stream[s].sent \in Seq(Item)
            BY StreamFields DEF HubStreamInv, StreamsInv
        <3> QED BY <3>1
    <2> QED BY <2>1 DEF SentInv, Apart
<1> QED BY <1>1, <1>2, <1>3, HubStreamAlways, PTL DEF Spec

-----------------------------------------------------------------------------
(* Sequences of work in which nothing is passed over.                      *)

\* ToSet of a sequence, of none, of one, with one more and with one less.
LEMMA InToSet ==
    ASSUME NEW S, NEW q \in Seq(S)
    PROVE  \A x : x \in ToSet(q) <=> \E k \in 1 .. Len(q) : q[k] = x
<1>1. DOMAIN q = 1 .. Len(q)
    OBVIOUS
<1> QED BY <1>1 DEF ToSet

LEMMA ToSetOfNone == ToSet(<<>>) = {}
BY DEF ToSet

LEMMA ToSetOfOne ==
    ASSUME NEW x
    PROVE  \A y : y \in ToSet(<<x>>) <=> y = x
<1>1. <<x>> \in Seq({x}) /\ Len(<<x>>) = 1 /\ <<x>>[1] = x
    OBVIOUS
<1>2. \A y : y \in ToSet(<<x>>) <=> \E k \in 1 .. Len(<<x>>) : <<x>>[k] = y
    BY <1>1, InToSet
<1> QED BY <1>1, <1>2

LEMMA ToSetOfAppend ==
    ASSUME NEW S, NEW q \in Seq(S), NEW x \in S
    PROVE  \A y : y \in ToSet(Append(q, x)) <=> y \in ToSet(q) \/ y = x
<1> DEFINE a == Append(q, x)
           n == Len(q)
<1>1. /\ a \in Seq(S) /\ Len(a) = n + 1 /\ a[n + 1] = x /\ n \in Nat
      /\ \A k \in 1 .. n : a[k] = q[k]
    OBVIOUS
<1>2. \A y : y \in ToSet(a) <=> \E k \in 1 .. Len(a) : a[k] = y
    BY <1>1, InToSet
<1>3. \A y : y \in ToSet(q) <=> \E k \in 1 .. n : q[k] = y
    BY InToSet
<1> HIDE DEF a, n
<1> QED BY <1>1, <1>2, <1>3 DEF a

LEMMA ToSetOfTail ==
    ASSUME NEW S, NEW q \in Seq(S), q # <<>>
    PROVE  \A y : y \in ToSet(q) <=> y = Head(q) \/ y \in ToSet(Tail(q))
<1> DEFINE a == Tail(q)
           n == Len(q)
<1>1. /\ a \in Seq(S) /\ Len(a) = n - 1 /\ Head(q) = q[1] /\ n \in Nat /\ n > 0
      /\ \A k \in 1 .. n - 1 : a[k] = q[k + 1]
    OBVIOUS
<1>2. \A y : y \in ToSet(a) <=> \E k \in 1 .. Len(a) : a[k] = y
    BY <1>1, InToSet
<1>3. \A y : y \in ToSet(q) <=> \E k \in 1 .. n : q[k] = y
    BY InToSet
<1> HIDE DEF a, n
<1>4. ASSUME NEW y, y \in ToSet(q), y # Head(q)
      PROVE  y \in ToSet(a)
    <2>1. PICK k \in 1 .. n : q[k] = y
        BY <1>3, <1>4
    <2>2. k - 1 \in 1 .. n - 1 /\ (k - 1) + 1 = k
        BY <1>1, <1>4, <2>1
    <2> QED BY <1>1, <1>2, <2>1, <2>2
<1>5. ASSUME NEW y, y \in ToSet(a)
      PROVE  y \in ToSet(q)
    <2>1. PICK k \in 1 .. n - 1 : a[k] = y
        BY <1>1, <1>2, <1>5
    <2>2. k + 1 \in 1 .. n
        BY <1>1, <2>1
    <2> QED BY <1>1, <1>3, <2>1, <2>2
<1>6. Head(q) \in ToSet(q)
    BY <1>1, <1>3
<1> QED BY <1>4, <1>5, <1>6 DEF a

\* With H in hand, whoever takes the elements of q one by one has each of M
\* before he takes a later one; a replay makes up for what follows it.
InLine(q, H, M) ==
    \A p \in 1 .. Len(q) : \A i \in M :
        q[p] # Replay /\ i < q[p] => i \in H \/ \E k \in 1 .. p - 1 : q[k] \in {i, Replay}

\* InLine of none, where more or all is had, and of one.
LEMMA InLineNone ==
    ASSUME NEW H, NEW M
    PROVE  InLine(<<>>, H, M)
BY DEF InLine

LEMMA InLineMore ==
    ASSUME NEW q, NEW H, NEW M, InLine(q, H, M), NEW K, H \subseteq K
    PROVE  InLine(q, K, M)
BY DEF InLine

LEMMA InLineAll ==
    ASSUME NEW q, NEW H, NEW M, M \subseteq H
    PROVE  InLine(q, H, M)
BY DEF InLine

LEMMA InLineOne ==
    ASSUME NEW x, NEW H, NEW M, x = Replay \/ \A i \in M : i < x => i \in H
    PROVE  InLine(<<x>>, H, M)
BY DEF InLine

\* The head of the line, a longer line, and its rest.
LEMMA InLineHead ==
    ASSUME NEW S, NEW q \in Seq(S), q # <<>>, NEW H, NEW M, InLine(q, H, M), Head(q) # Replay
    PROVE  \A i \in M : i < Head(q) => i \in H
<1>1. Head(q) = q[1] /\ 1 \in 1 .. Len(q) /\ 1 .. 1 - 1 = {}
    OBVIOUS
<1> QED BY <1>1 DEF InLine

LEMMA InLineAppend ==
    ASSUME NEW S, NEW q \in Seq(S), NEW x \in S, NEW H, NEW M, InLine(q, H, M),
           x = Replay \/ \A i \in M : i < x => \/ i \in H \/ i \in ToSet(q)
                                               \/ Replay \in ToSet(q)
    PROVE  InLine(Append(q, x), H, M)
<1> DEFINE a == Append(q, x)
           n == Len(q)
<1>1. /\ Len(a) = n + 1 /\ a[n + 1] = x /\ n \in Nat
      /\ \A k \in 1 .. n : a[k] = q[k]
    OBVIOUS
<1>2. \A y : y \in ToSet(q) <=> \E k \in 1 .. n : q[k] = y
    BY InToSet
<1> HIDE DEF a, n
<1> SUFFICES ASSUME NEW p \in 1 .. n + 1, NEW i \in M, a[p] # Replay, i < a[p], i \notin H
             PROVE  \E k \in 1 .. p - 1 : a[k] \in {i, Replay}
    BY <1>1 DEF InLine, a
<1>3. CASE p = n + 1
    <2>1. i \in ToSet(q) \/ Replay \in ToSet(q)
        BY <1>1, <1>3
    <2>2. PICK k \in 1 .. n : q[k] \in {i, Replay}
        BY <1>2, <2>1
    <2>3. k \in 1 .. p - 1 /\ a[k] = q[k]
        BY <1>1, <1>3
    <2> QED BY <2>2, <2>3
<1>4. CASE p # n + 1
    <2>1. p \in 1 .. n /\ a[p] = q[p]
        BY <1>1, <1>4
    <2>2. PICK k \in 1 .. p - 1 : q[k] \in {i, Replay}
        BY <2>1 DEF InLine, n
    <2>3. a[k] = q[k]
        BY <1>1, <2>1
    <2> QED BY <2>2, <2>3
<1> QED BY <1>3, <1>4

LEMMA InLineTail ==
    ASSUME NEW S, NEW q \in Seq(S), q # <<>>, NEW H, NEW M, InLine(q, H, M), Head(q) # Replay
    PROVE  InLine(Tail(q), H \cup {Head(q)}, M)
<1> DEFINE a == Tail(q)
           n == Len(q)
           h == Head(q)
<1>1. /\ Len(a) = n - 1 /\ h = q[1] /\ n \in Nat /\ n > 0
      /\ \A k \in 1 .. n - 1 : a[k] = q[k + 1]
    OBVIOUS
<1> HIDE DEF a, n, h
<1> SUFFICES ASSUME NEW p \in 1 .. n - 1, NEW i \in M, a[p] # Replay, i < a[p], i \notin H,
                    i # h
             PROVE  \E k \in 1 .. p - 1 : a[k] \in {i, Replay}
    BY <1>1 DEF InLine, a, h
<1>2. p + 1 \in 1 .. n /\ a[p] = q[p + 1]
    BY <1>1
<1>3. PICK k \in 1 .. (p + 1) - 1 : q[k] \in {i, Replay}
    BY <1>2 DEF InLine, n
<1>4. k # 1
    BY <1>1, <1>3 DEF h
<1>5. k - 1 \in 1 .. p - 1 /\ k - 1 \in 1 .. n - 1 /\ (k - 1) + 1 = k
    BY <1>1, <1>2, <1>3, <1>4
<1>6. a[k - 1] = q[k]
    BY <1>1, <1>5
<1> QED BY <1>3, <1>5, <1>6

\* A new item that is later than all others is passed over by none.
LEMMA InLineNew ==
    ASSUME NEW S, NEW q \in Seq(S), NEW H, NEW M, InLine(q, H, M), NEW C,
           ToSet(q) \subseteq C \cup {Replay}, NEW i, \A j \in C : ~(i < j)
    PROVE  InLine(q, H, M \cup {i})
<1>1. \A p \in 1 .. Len(q) : q[p] \in C \cup {Replay}
    BY InToSet
<1> QED BY <1>1 DEF InLine

-----------------------------------------------------------------------------
(* What a client has, is sent and is owed.                                 *)

\* The items that count for a client that started at from.
MineOf(C, L, from) == {i \in C \ L : i > from}

\* What the client has got or is being sent.
Have(st, cl) == cl.got \cup ToSet(st.queue)

\* The work that is still to be read.
Work(st) == IF st.reading THEN Tail(st.chain) ELSE st.chain

\* What the client has, or will get by the work of its stream.
Due(st, cl) == Have(st, cl) \cup ToSet(st.rows) \cup ToSet(Work(st))

\* The item after which a replay of the stream begins.
Base(st) == IF st.cursor # NoItem THEN st.cursor ELSE st.since

\* M are the items that the client cl with the stream st should have: those up
\* to its Last-Event-ID it has, what it reads, what is emitted, replayed,
\* announced or arrives passes none over, and if no replay is to come, each is
\* somewhere on its way.
Served(st, cl, M, live, box) ==
    /\ \A i \in M : i <= cl.last => i \in cl.got
    /\ InLine(st.queue, cl.got, M)
    /\ st.open =>
          /\ \A i \in M : i <= Base(st) => i \in Have(st, cl)
          /\ ToSet(st.seen) \subseteq Have(st, cl)
          /\ InLine(st.rows, Have(st, cl), M)
          /\ InLine(Work(st), Have(st, cl) \cup ToSet(st.rows), M)
          /\ live /\ Replay \notin ToSet(Work(st)) =>
                InLine(box, Due(st, cl), M) /\ M \subseteq Due(st, cl) \cup ToSet(box)

\* Everything on its way to a client is committed, and a stream without a
\* cursor has the start of its client.
Fed(st, cl, C) ==
    /\ st.open /\ st.cursor = NoItem => st.since = cl.from
    /\ ToSet(st.queue) \subseteq C /\ ToSet(st.rows) \subseteq C
    /\ ToSet(st.chain) \subseteq C \cup {Replay}
    /\ cl.last \in C \cup {NoItem} /\ st.cursor \in C \cup {NoItem}

\* A client stays served where a connection is no longer live.
LEMMA ServedQuiet ==
    ASSUME NEW st, NEW cl, NEW M, NEW live, NEW box, Served(st, cl, M, live, box),
           NEW l, NEW b, l => live /\ b = box
    PROVE  Served(st, cl, M, l, b)
BY DEF Served

\* The work still to be read is part of the chain.
LEMMA WorkSeq ==
    ASSUME NEW st, Sound(st)
    PROVE  /\ Work(st) \in Seq(Item \cup {Replay})
           /\ \A x \in ToSet(Work(st)) : x \in ToSet(st.chain)
<1>1. st.chain \in Seq(Item \cup {Replay}) /\ (st.reading => st.chain # <<>>)
    BY StreamFields DEF Sound
<1>2. CASE st.reading
    <2>1. Work(st) = Tail(st.chain) /\ st.chain # <<>>
        BY <1>1, <1>2 DEF Work
    <2>2. Tail(st.chain) \in Seq(Item \cup {Replay})
        BY <1>1, <2>1
    <2>3. \A y : y \in ToSet(st.chain) <=> y = Head(st.chain) \/ y \in ToSet(Tail(st.chain))
        BY <1>1, <2>1, ToSetOfTail
    <2> QED BY <2>1, <2>2, <2>3
<1>3. CASE ~st.reading
    BY <1>1, <1>3 DEF Work
<1> QED BY <1>2, <1>3

\* A commit: the item, if it counts for the client, is later than all others,
\* and it is announced to a client that is live.
LEMMA ServedCommit ==
    ASSUME StreamAssumption, NEW C \in SUBSET Item,
           NEW st, Sound(st), NEW cl \in ClientState, NEW M, NEW live, NEW box \in Seq(Item),
           Served(st, cl, M, live, box), Fed(st, cl, C), ToSet(box) \subseteq C,
           NEW i \in Item, NEW M2,
           \/ M2 = M
           \/ M2 = M \cup {i} /\ (\A j \in C : j < i) /\ i > cl.from
    PROVE  Served(st, cl, M2, live, Append(box, i))
<1>1. /\ st.queue \in Seq(Item) /\ st.rows \in Seq(Item) /\ st.since \in Nat
      /\ st.cursor \in Item \cup {NoItem} /\ Work(st) \in Seq(Item \cup {Replay})
      /\ cl.last \in Item \cup {NoItem} /\ cl.from \in Nat
    BY StreamFields, WorkSeq DEF Sound, ClientState
<1>2. \A x : x \in ToSet(Append(box, i)) <=> x \in ToSet(box) \/ x = i
    BY ToSetOfAppend
<1>3. \A x \in Item : x \in Nat /\ x > 0
    BY Items
<1>4. \A x \in ToSet(Work(st)) : x \in C \cup {Replay}
    BY WorkSeq DEF Fed
<1>5. CASE M2 = M
    <2>1. ASSUME live, Replay \notin ToSet(Work(st)), st.open
          PROVE  /\ InLine(Append(box, i), Due(st, cl), M)
                 /\ M \subseteq Due(st, cl) \cup ToSet(Append(box, i))
        <3>1. InLine(box, Due(st, cl), M) /\ M \subseteq Due(st, cl) \cup ToSet(box)
            BY <2>1 DEF Served
        <3> QED BY <1>2, <3>1, InLineAppend
    <2> QED BY <1>5, <2>1 DEF Served
<1>6. CASE M2 = M \cup {i} /\ (\A j \in C : j < i) /\ i > cl.from
    <2>1. \A j \in C : ~(i < j) /\ ~(i <= j)
        BY <1>3, <1>6
    <2>2. ~(i <= cl.last)
        BY <1>3, <2>1 DEF Fed, NoItem
    <2>3. ASSUME st.open
          PROVE  ~(i <= Base(st))
        <3>1. CASE st.cursor # NoItem
            BY <2>1, <3>1 DEF Fed, Base
        <3>2. CASE st.cursor = NoItem
            <4>1. Base(st) = cl.from
                BY <2>3, <3>2 DEF Fed, Base
            <4> QED BY <1>1, <1>3, <1>6, <4>1
        <3> QED BY <3>1, <3>2
    <2>4. \A j \in C : ~(i < j)
        BY <2>1
    <2>5. InLine(st.queue, cl.got, M2)
        BY <1>1, <1>6, <2>4, InLineNew DEF Served, Fed
    <2>6. ASSUME st.open
          PROVE  /\ InLine(st.rows, Have(st, cl), M2)
                 /\ InLine(Work(st), Have(st, cl) \cup ToSet(st.rows), M2)
        <3>1. /\ InLine(st.rows, Have(st, cl), M)
              /\ InLine(Work(st), Have(st, cl) \cup ToSet(st.rows), M)
            BY <2>6 DEF Served
        <3>2. ToSet(st.rows) \subseteq C \cup {Replay} /\ ToSet(Work(st)) \subseteq C \cup {Replay}
            BY <1>4 DEF Fed
        <3> QED BY <1>1, <1>6, <2>4, <3>1, <3>2, InLineNew
    <2>7. ASSUME live, Replay \notin ToSet(Work(st)), st.open
          PROVE  /\ InLine(Append(box, i), Due(st, cl), M2)
                 /\ M2 \subseteq Due(st, cl) \cup ToSet(Append(box, i))
        <3>1. InLine(box, Due(st, cl), M) /\ M \subseteq Due(st, cl) \cup ToSet(box)
            BY <2>7 DEF Served
        <3>2. InLine(box, Due(st, cl), M2)
            <4>1. ToSet(box) \subseteq C \cup {Replay}
                OBVIOUS
            <4> QED BY <1>6, <2>4, <3>1, <4>1, InLineNew
        <3>3. \A j \in M2 : j < i => j \in Due(st, cl) \/ j \in ToSet(box)
            BY <1>3, <1>6, <3>1
        <3>4. InLine(Append(box, i), Due(st, cl), M2)
            BY <3>2, <3>3, InLineAppend
        <3>5. M2 \subseteq Due(st, cl) \cup ToSet(Append(box, i))
            BY <1>2, <1>6, <3>1
        <3> QED BY <3>4, <3>5
    <2>8. \A j \in M2 : j <= cl.last => j \in cl.got
        BY <1>6, <2>2 DEF Served
    <2>9. st.open => /\ \A j \in M2 : j <= Base(st) => j \in Have(st, cl)
                     /\ ToSet(st.seen) \subseteq Have(st, cl)
        BY <1>6, <2>3 DEF Served
    <2> QED BY <2>5, <2>6, <2>7, <2>8, <2>9 DEF Served
<1> QED BY <1>5, <1>6

\* A stream that has just been opened: with a Last-Event-ID a replay is to
\* come, and without one the client starts now.
LEMMA ServedOpened ==
    ASSUME StreamAssumption, NEW st, Sound(st),
           st.seen = <<>>, st.rows = <<>>, st.queue = <<>>, ~st.reading,
           st.chain = IF st.cursor # NoItem THEN <<Replay>> ELSE <<>>,
           NEW cl, st.cursor = cl.last, NEW M, cl.last = NoItem => M = {},
           \A i \in M : i <= cl.last => i \in cl.got, NEW live, NEW box
    PROVE  Served(st, cl, M, live, box)
<1>1. Work(st) = st.chain
    BY DEF Work
<1>2. InLine(<<>>, cl.got, M) /\ InLine(<<>>, Have(st, cl), M)
    BY InLineNone
<1>3. ToSet(<<>>) = {}
    BY ToSetOfNone
<1>4. CASE cl.last = NoItem
    <2>1. M = {}
        BY <1>4
    <2>2. \A q, H : InLine(q, H, M)
        BY <2>1, InLineAll
    <2> QED BY <1>3, <2>1, <2>2 DEF Served
<1>5. CASE cl.last # NoItem
    <2>1. Work(st) = <<Replay>>
        BY <1>1, <1>5
    <2>2. Replay \in ToSet(Work(st))
        BY <2>1, ToSetOfOne
    <2>3. InLine(Work(st), Have(st, cl) \cup ToSet(st.rows), M)
        BY <2>1, InLineOne
    <2>4. Base(st) = cl.last
        BY <1>5 DEF Base
    <2>5. cl.got \subseteq Have(st, cl)
        BY DEF Have
    <2> QED BY <1>2, <1>3, <2>2, <2>3, <2>4, <2>5 DEF Served
<1> QED BY <1>4, <1>5

\* A client that has read n items of a queue.
LEMMA ReadInOrder ==
    ASSUME StreamAssumption, StreamsInv, NEW s \in Stream, NEW M \in SUBSET Item,
           NEW n \in 0 .. Len(stream[s].queue),
           \A i \in M : i <= client[s].last => i \in client[s].got,
           InLine(stream[s].queue, client[s].got, M)
    PROVE  \A i \in M : i <= AfterReading(s, n).last => i \in AfterReading(s, n).got
<1> DEFINE q == stream[s].queue
           cl == client[s]
           a == AfterReading(s, n)
<1>1. q \in Seq(Item) /\ Len(q) \in Nat
    BY StreamFields DEF StreamsInv
<1>2. /\ a.last = IF n = 0 THEN cl.last ELSE q[n]
      /\ \A i : i \in a.got <=> i \in cl.got \/ \E k \in 1 .. n : q[k] = i
    BY AfterReadingFields
<1> HIDE DEF a
<1> SUFFICES ASSUME NEW i \in M, i <= a.last
             PROVE  i \in a.got
    BY DEF a
<1>3. CASE n = 0
    BY <1>2, <1>3
<1>4. CASE n # 0
    <2>1. n \in 1 .. Len(q) /\ q[n] \in Item /\ i <= q[n] /\ n \in 1 .. n
        BY <1>1, <1>2, <1>4
    <2>2. \A k \in 1 .. n - 1 : q[k] \in Item /\ k \in 1 .. n
        BY <1>1, <2>1
    <2>3. \A x \in Item : x \in Nat /\ x > 0
        BY Items
    <2>4. CASE i = q[n]
        BY <1>2, <2>1, <2>4
    <2>5. CASE i # q[n]
        <3>1. i < q[n] /\ q[n] # Replay
            BY <2>1, <2>3, <2>5 DEF Replay
        <3>2. i \in cl.got \/ \E k \in 1 .. n - 1 : q[k] \in {i, Replay}
            BY <2>1, <3>1 DEF InLine
        <3>3. \A k \in 1 .. n - 1 : q[k] # Replay
            BY <2>2, <2>3 DEF Replay
        <3> QED BY <1>2, <2>2, <3>2, <3>3
    <2> QED BY <2>4, <2>5
<1> QED BY <1>3, <1>4

\* A stream that is closed owes nothing.
LEMMA ServedGone ==
    ASSUME NEW cl, NEW M, \A i \in M : i <= cl.last => i \in cl.got, NEW live, NEW box
    PROVE  Served(NoStream, cl, M, live, box)
BY NoStreamFields, InLineNone DEF Served

\* The client reads the head of its queue.
LEMMA ServedRead ==
    ASSUME StreamAssumption, StreamsInv, NEW s \in Stream, stream[s].queue # <<>>,
           NEW M \in SUBSET Item, NEW live, NEW box,
           Served(stream[s], client[s], M, live, box),
           NEW e, e.queue = Tail(stream[s].queue), e.open = stream[s].open,
           e.since = stream[s].since, e.cursor = stream[s].cursor, e.seen = stream[s].seen,
           e.chain = stream[s].chain, e.reading = stream[s].reading, e.rows = stream[s].rows
    PROVE  Served(e, AfterReading(s, 1), M, live, box)
<1> DEFINE st == stream[s]
           cl == client[s]
           a == AfterReading(s, 1)
           h == Head(st.queue)
<1>1. st.queue \in Seq(Item) /\ 1 \in 0 .. Len(st.queue) /\ h \in Item /\ h = st.queue[1]
    <2>1. st.queue \in Seq(Item)
        BY StreamFields DEF StreamsInv
    <2> QED BY <2>1
<1>2. \A i : i \in a.got <=> i \in cl.got \/ i = h
    <2>1. \A i : i \in a.got <=> i \in cl.got \/ \E k \in 1 .. 1 : st.queue[k] = i
        BY <1>1, AfterReadingFields
    <2> QED BY <1>1, <2>1
<1>3. \A i \in M : i <= a.last => i \in a.got
    <2>1. /\ \A i \in M : i <= client[s].last => i \in client[s].got
          /\ InLine(stream[s].queue, client[s].got, M)
        BY DEF Served
    <2> QED BY <1>1, <2>1, ReadInOrder
<1> HIDE DEF a
<1>4. a.got = cl.got \cup {h}
    BY <1>2
<1>5. InLine(e.queue, a.got, M)
    <2>1. h # Replay
        BY <1>1, Items DEF Replay
    <2>2. InLine(Tail(st.queue), cl.got \cup {h}, M)
        BY <1>1, <2>1, InLineTail DEF Served
    <2> QED BY <1>4, <2>2
<1>6. Have(e, a) = Have(st, cl)
    <2>1. \A y : y \in ToSet(st.queue) <=> y = h \/ y \in ToSet(Tail(st.queue))
        BY <1>1, ToSetOfTail
    <2> QED BY <1>4, <2>1 DEF Have
<1>7. Work(e) = Work(st) /\ Due(e, a) = Due(st, cl) /\ Base(e) = Base(st)
    BY <1>6 DEF Work, Due, Base
<1>8. Served(e, a, M, live, box)
    BY <1>3, <1>5, <1>6, <1>7 DEF Served
<1> QED BY <1>8 DEF a

\* A replay within the limit reads all that the stream has not sent.
LEMMA ServedReplayRead ==
    ASSUME StreamAssumption, committed \subseteq Item,
           NEW st, Sound(st), st.open, ~st.reading, NEW cl, NEW M, M \subseteq committed,
           NEW live, NEW box, Served(st, cl, M, live, box),
           Cardinality(After(st)) <= ReplayLimit,
           NEW e, e.reading, e.rows = ReplayRows(st), e.chain = st.chain, e.open = st.open,
           e.since = st.since, e.cursor = st.cursor, e.seen = st.seen, e.queue = st.queue
    PROVE  Served(e, cl, M, live, box)
<1> DEFINE r == ReplayRows(st)
           H == Have(st, cl)
<1>1. /\ r \in Seq(After(st))
      /\ \A i \in After(st) : \E k \in DOMAIN r : r[k] = i
      /\ \A p \in DOMAIN r : \A i \in After(st) : i < r[p] => \E k \in 1 .. p - 1 : r[k] = i
    BY RowsOfAReplay
<1> HIDE DEF r
<1>2. DOMAIN r = 1 .. Len(r)
    BY <1>1
<1>3. \A x : x \in ToSet(r) <=> \E k \in 1 .. Len(r) : r[k] = x
    BY <1>1, InToSet
<1>4. \A i \in M : i <= Base(st) => i \in H
    BY DEF Served
<1>5. \A i \in M : i \in H \/ i \in After(st)
    <2>1. Base(st) \in Nat
        BY StreamFields, Items DEF Sound, Base, NoItem
    <2>2. \A i \in M : i \in Nat
        BY Items
    <2>3. \A i \in M : ~(i <= Base(st)) => i \in After(st)
        BY <2>1, <2>2 DEF After, Base
    <2> QED BY <1>4, <2>3
<1>6. M \subseteq H \cup ToSet(r)
    BY <1>1, <1>2, <1>3, <1>5
<1>7. InLine(r, H, M)
    <2> SUFFICES ASSUME NEW p \in 1 .. Len(r), NEW i \in M, i < r[p], i \notin H
                 PROVE  \E k \in 1 .. p - 1 : r[k] \in {i, Replay}
        BY DEF InLine
    <2>1. i \in After(st) /\ p \in DOMAIN r
        BY <1>2, <1>5
    <2> QED BY <1>1, <2>1
<1>8. Have(e, cl) = H /\ Base(e) = Base(st) /\ e.rows = r
    BY DEF Have, Base, r
<1>9. InLine(Work(e), H \cup ToSet(r), M)
    BY <1>6, InLineAll
<1>10. H \cup ToSet(r) \subseteq Due(e, cl)
    BY <1>8 DEF Due
<1>11. M \subseteq Due(e, cl)
    BY <1>6, <1>10
<1>12. InLine(box, Due(e, cl), M)
    BY <1>11, InLineAll
<1>13. /\ \A i \in M : i <= cl.last => i \in cl.got
       /\ InLine(e.queue, cl.got, M)
       /\ \A i \in M : i <= Base(e) => i \in Have(e, cl)
       /\ ToSet(e.seen) \subseteq Have(e, cl)
    BY <1>8 DEF Served
<1> HIDE DEF H
<1> QED BY <1>7, <1>8, <1>9, <1>11, <1>12, <1>13 DEF Served

\* An announced item that was sent is done; one that was not is read.
LEMMA ServedItemRead ==
    ASSUME StreamAssumption, NEW st, Sound(st), st.open, ~st.reading, st.chain # <<>>,
           Head(st.chain) # Replay, NEW cl, NEW M, NEW live, NEW box,
           Served(st, cl, M, live, box),
           NEW e, Sound(e), e.open = st.open, e.since = st.since, e.cursor = st.cursor,
           e.seen = st.seen, e.queue = st.queue,
           \/ /\ Head(st.chain) \in ToSet(st.seen)
              /\ ~e.reading /\ e.rows = <<>> /\ e.chain = Tail(st.chain)
           \/ e.reading /\ e.rows = <<Head(st.chain)>> /\ e.chain = st.chain
    PROVE  Served(e, cl, M, live, box)
<1> DEFINE H == Have(st, cl)
           w == Head(st.chain)
<1>1. Work(st) = st.chain /\ st.rows = <<>> /\ ToSet(st.rows) = {}
      /\ st.chain \in Seq(Item \cup {Replay})
    BY StreamFields, ToSetOfNone DEF Work, Sound
<1>2. Work(e) = Tail(st.chain) /\ Have(e, cl) = H /\ Base(e) = Base(st)
    BY DEF Work, Have, Base
<1>3. \A y : y \in ToSet(st.chain) <=> y = w \/ y \in ToSet(Tail(st.chain))
    BY <1>1, ToSetOfTail
<1>4. InLine(st.chain, H, M)
    <2>1. InLine(Work(st), H \cup ToSet(st.rows), M) /\ H \cup ToSet(st.rows) = H
        BY <1>1 DEF Served
    <2> QED BY <1>1, <2>1
<1>5. InLine(Tail(st.chain), H \cup {w}, M)
    BY <1>1, <1>4, InLineTail
<1>6. ToSet(st.seen) \subseteq H
    BY DEF Served
<1>7. InLine(e.rows, H, M) /\ H \cup ToSet(e.rows) = H \cup {w}
    <2>1. CASE w \in ToSet(st.seen) /\ e.rows = <<>>
        BY <1>6, <2>1, InLineNone, ToSetOfNone
    <2>2. CASE e.rows = <<w>>
        <3>1. \A i \in M : i < w => i \in H
            BY <1>1, <1>4, InLineHead
        <3>2. InLine(<<w>>, H, M)
            BY <3>1, InLineOne
        <3>3. ToSet(<<w>>) = {w}
            BY ToSetOfOne
        <3> QED BY <2>2, <3>2, <3>3
    <2> QED BY <2>1, <2>2
<1>8. Due(e, cl) = Due(st, cl)
    BY <1>1, <1>2, <1>3, <1>7 DEF Due
<1>9. Replay \in ToSet(Work(st)) <=> Replay \in ToSet(Work(e))
    BY <1>1, <1>2, <1>3
<1> HIDE DEF w, H
<1> QED BY <1>2, <1>5, <1>7, <1>8, <1>9 DEF Served, H

\* After n rows nothing that belongs to M has been passed over, and the rows
\* so far are with the client or on their way to it.
SentUpTo(d, st, cl, M, n) ==
    d.open =>
        /\ InLine(d.queue, cl.got, M)
        /\ Have(st, cl) \subseteq Have(d, cl) /\ ToSet(d.seen) \subseteq Have(d, cl)
        /\ \A k \in 1 .. n : st.rows[k] \in Have(d, cl)
        /\ \A i \in M : i <= Base(d) => i \in Have(d, cl)

\* seen gains at most the item that is emitted.
LEMMA SeenWithMore ==
    ASSUME StreamAssumption, NEW st \in StreamState, NEW i \in Item
    PROVE  ToSet(SeenWith(st, i)) \subseteq ToSet(st.seen) \cup {i}
<1> DEFINE all == Append(st.seen, i)
<1>1. st.seen \in Seq(Item) /\ all \in Seq(Item) /\ all # <<>>
    <2>1. st.seen \in Seq(Item)
        BY StreamFields
    <2> QED BY <2>1
<1>2. \A y : y \in ToSet(all) <=> y \in ToSet(st.seen) \/ y = i
    BY <1>1, ToSetOfAppend
<1>3. SeenWith(st, i) \in {all, Tail(all)}
    BY DEF SeenWith
<1> HIDE DEF all
<1>4. \A y : y \in ToSet(all) <=> y = Head(all) \/ y \in ToSet(Tail(all))
    BY <1>1, ToSetOfTail
<1> QED BY <1>2, <1>3, <1>4

\* emit() of the next row.
LEMMA EmitNext ==
    ASSUME StreamAssumption, NEW st \in StreamState, NEW cl \in ClientState,
           NEW M \in SUBSET Item, InLine(st.rows, Have(st, cl), M),
           NEW n \in 1 .. Len(st.rows), NEW d \in StreamState, SentUpTo(d, st, cl, M, n - 1),
           NEW e, e = Emit(d, st.rows[n])
    PROVE  SentUpTo(e, st, cl, M, n)
<1> DEFINE i == st.rows[n]
<1>1. /\ st.rows \in Seq(Item) /\ i \in Item /\ d.queue \in Seq(Item)
      /\ Len(st.rows) \in Nat /\ \A k \in 1 .. n : k \in 1 .. n - 1 \/ k = n
    BY StreamFields
<1>2. \/ i \in ToSet(d.seen) /\ e = d
      \/ ~d.open /\ e = d
      \/ ~e.open
      \/ /\ d.open /\ e.open
         /\ e.queue = Append(d.queue, i) /\ e.seen = SeenWith(d, i) /\ e.cursor = i
    <2>1. e = Emit(d, i)
        OBVIOUS
    <2> HIDE DEF i
    <2>2. /\ e \in StreamState
          /\ e.since = d.since /\ e.chain = d.chain /\ e.reading = d.reading
          /\ e.rows = d.rows
          /\ \/ i \in ToSet(d.seen) /\ e = d
             \/ ~d.open /\ e = d
             \/ /\ ~e.open /\ e.cursor = d.cursor /\ e.seen = d.seen
                /\ e.queue = d.queue /\ e.sent = d.sent
             \/ /\ d.open /\ e.open /\ i \notin ToSet(d.seen)
                /\ e.queue = Append(d.queue, i) /\ e.sent = Append(d.sent, i)
                /\ e.seen = SeenWith(d, i) /\ e.cursor = i
        <3>1. i \in Item
            BY <1>1
        <3> QED BY ONLY StreamAssumption, d \in StreamState, <3>1, <2>1, EmitFields
    <2> QED BY <2>2
<1>3. CASE ~e.open
    BY <1>3 DEF SentUpTo
<1>4. CASE i \in ToSet(d.seen) /\ e = d /\ d.open
    BY <1>1, <1>4 DEF SentUpTo
<1>5. CASE /\ d.open /\ e.open
           /\ e.queue = Append(d.queue, i) /\ e.seen = SeenWith(d, i) /\ e.cursor = i
    <2> HIDE DEF i
    <2>1. /\ InLine(d.queue, cl.got, M)
          /\ Have(st, cl) \subseteq Have(d, cl) /\ ToSet(d.seen) \subseteq Have(d, cl)
          /\ \A k \in 1 .. n - 1 : st.rows[k] \in Have(d, cl)
        BY <1>5 DEF SentUpTo
    <2>2. \A y : y \in ToSet(e.queue) <=> y \in ToSet(d.queue) \/ y = i
        BY <1>1, <1>5, ToSetOfAppend
    <2>3. \A y : y \in Have(e, cl) <=> y \in Have(d, cl) \/ y = i
        BY <2>2 DEF Have
    <2>4. \A x \in Item : x \in Nat /\ x > 0
        BY Items
    <2>5. \A j \in M : j < i => j \in Have(d, cl)
        <3> SUFFICES ASSUME NEW j \in M, j < i
                     PROVE  j \in Have(d, cl)
            OBVIOUS
        <3>1. i # Replay
            BY <1>1, <2>4 DEF Replay
        <3>2. j \in Have(st, cl) \/ \E k \in 1 .. n - 1 : st.rows[k] \in {j, Replay}
            BY <3>1 DEF InLine, i
        <3>3. \A k \in 1 .. n - 1 : st.rows[k] # Replay
            BY <1>1, <2>4 DEF Replay
        <3> QED BY <2>1, <3>2, <3>3
    <2>6. InLine(e.queue, cl.got, M)
        <3>1. \A j \in M : j < i => j \in cl.got \/ j \in ToSet(d.queue)
            BY <2>5 DEF Have
        <3> QED BY <1>1, <1>5, <2>1, <3>1, InLineAppend
    <2>7. ToSet(e.seen) \subseteq Have(e, cl)
        <3>1. ToSet(e.seen) \subseteq ToSet(d.seen) \cup {i}
            BY <1>1, <1>5, SeenWithMore
        <3> QED BY <2>1, <2>3, <3>1
    <2>8. \A j \in M : j <= Base(e) => j \in Have(e, cl)
        <3>1. Base(e) = i
            BY <1>1, <1>5, <2>4 DEF Base, NoItem
        <3>2. \A j \in M : j <= i => j < i \/ j = i
            BY <1>1, <2>4
        <3> QED BY <2>3, <2>5, <3>1, <3>2
    <2>9. \A k \in 1 .. n : st.rows[k] \in Have(e, cl)
        BY <1>1, <2>1, <2>3 DEF i
    <2> QED BY <2>1, <2>3, <2>6, <2>7, <2>8, <2>9 DEF SentUpTo
<1> QED BY <1>2, <1>3, <1>4, <1>5

\* emit() of all rows.
LEMMA EmittedServes ==
    ASSUME StreamAssumption, NEW st, Sound(st), NEW cl \in ClientState, NEW M \in SUBSET Item,
           NEW live, NEW box, Served(st, cl, M, live, box), st.open
    PROVE  SentUpTo(Emitted(st), st, cl, M, Len(st.rows))
<1> DEFINE N == Len(st.rows)
           G == [n \in 0 .. N |-> {d \in StreamState : SentUpTo(d, st, cl, M, n)}]
<1>1. N \in Nat /\ st \in StreamState
    BY StreamFields DEF Sound
<1>2. SentUpTo(st, st, cl, M, 0)
    BY DEF Served, SentUpTo
<1>3. \A n \in 0 .. N : \A d : d \in G[n] <=> d \in StreamState /\ SentUpTo(d, st, cl, M, n)
    OBVIOUS
<1> HIDE DEF G
<1>4. st \in G[0]
    BY <1>1, <1>2, <1>3
<1>5. \A n \in 1 .. N : \A d \in G[n - 1] : Emit(d, st.rows[n]) \in G[n]
    <2> SUFFICES ASSUME NEW n \in 1 .. N, NEW d \in G[n - 1], NEW e, e = Emit(d, st.rows[n])
                 PROVE  e \in G[n]
        OBVIOUS
    <2>1. n \in 0 .. N /\ n - 1 \in 0 .. N /\ st.rows[n] \in Item
        BY <1>1, StreamFields
    <2>2. d \in StreamState /\ SentUpTo(d, st, cl, M, n - 1)
        BY <1>3, <2>1
    <2>3. e \in StreamState
        BY <2>1, <2>2, EmitFields
    <2>4. InLine(st.rows, Have(st, cl), M)
        BY DEF Served
    <2>5. SentUpTo(e, st, cl, M, n)
        BY <1>1, <2>1, <2>2, <2>4, EmitNext
    <2> QED BY <1>3, <2>1, <2>3, <2>5
<1>6. Emitted(st) \in G[N]
    BY <1>1, <1>4, <1>5, EmittedIsIn DEF N
<1>7. N \in 0 .. N
    BY <1>1
<1> QED BY <1>3, <1>6, <1>7

\* The end of the work at the head of the chain.
LEMMA ServedEmitted ==
    ASSUME StreamAssumption, NEW st, Sound(st), NEW cl \in ClientState, NEW M \in SUBSET Item,
           NEW live, NEW box, Served(st, cl, M, live, box), st.open, st.reading,
           Emitted(st).open,
           NEW e, e.since = st.since, e.cursor = Emitted(st).cursor,
           e.seen = Emitted(st).seen, e.queue = Emitted(st).queue,
           ~e.reading, e.rows = <<>>, e.chain = Tail(st.chain)
    PROVE  Served(e, cl, M, live, box)
<1> DEFINE d == Emitted(st)
<1>1. SentUpTo(d, st, cl, M, Len(st.rows)) /\ d.open /\ d.since = st.since
    BY EmittedServes, EmittedFields DEF Sound
<1> HIDE DEF d
<1>2. /\ InLine(d.queue, cl.got, M)
      /\ Have(st, cl) \subseteq Have(d, cl) /\ ToSet(d.seen) \subseteq Have(d, cl)
      /\ \A k \in 1 .. Len(st.rows) : st.rows[k] \in Have(d, cl)
      /\ \A i \in M : i <= Base(d) => i \in Have(d, cl)
    BY <1>1 DEF SentUpTo
<1>3. Have(e, cl) = Have(d, cl) /\ Base(e) = Base(d) /\ Work(e) = Work(st)
    BY <1>1 DEF Have, Base, Work, d
<1>4. ToSet(st.rows) \subseteq Have(d, cl)
    <2>1. st.rows \in Seq(Item)
        BY StreamFields DEF Sound
    <2> QED BY <1>2, <2>1, InToSet
<1>5. ToSet(e.rows) = {} /\ InLine(e.rows, Have(e, cl), M)
    BY ToSetOfNone, InLineNone
<1>6. InLine(Work(e), Have(e, cl) \cup ToSet(e.rows), M)
    <2>1. InLine(Work(st), Have(st, cl) \cup ToSet(st.rows), M)
        BY DEF Served
    <2>2. Have(st, cl) \cup ToSet(st.rows) \subseteq Have(e, cl) \cup ToSet(e.rows)
        BY <1>2, <1>3, <1>4
    <2>3. InLine(Work(st), Have(e, cl) \cup ToSet(e.rows), M)
        BY <2>1, <2>2, InLineMore
    <2> QED BY <1>3, <2>3
<1>7. Due(st, cl) \subseteq Due(e, cl)
    BY <1>2, <1>3, <1>4 DEF Due
<1>8. ASSUME live, Replay \notin ToSet(Work(e))
      PROVE  InLine(box, Due(e, cl), M) /\ M \subseteq Due(e, cl) \cup ToSet(box)
    <2>1. InLine(box, Due(st, cl), M) /\ M \subseteq Due(st, cl) \cup ToSet(box)
        BY <1>3, <1>8 DEF Served
    <2>2. InLine(box, Due(e, cl), M)
        BY <1>7, <2>1, InLineMore
    <2> QED BY <1>7, <2>1, <2>2
<1>9. /\ \A i \in M : i <= cl.last => i \in cl.got
      /\ InLine(e.queue, cl.got, M)
      /\ \A i \in M : i <= Base(e) => i \in Have(e, cl)
      /\ ToSet(e.seen) \subseteq Have(e, cl)
    BY <1>2, <1>3 DEF Served, d
<1> QED BY <1>5, <1>6, <1>8, <1>9 DEF Served

\* More work for a stream goes to the end of its chain.
LEMMA WorkGrows ==
    ASSUME NEW st, Sound(st), NEW w \in Item \cup {Replay}, NEW e, e = WithWork(st, w)
    PROVE  /\ Work(e) = Append(Work(st), w)
           /\ \A y : y \in ToSet(Work(e)) <=> y \in ToSet(Work(st)) \/ y = w
           /\ \A y : y \in ToSet(e.chain) <=> y \in ToSet(st.chain) \/ y = w
<1>1. /\ st.chain \in Seq(Item \cup {Replay}) /\ e.chain = Append(st.chain, w)
      /\ e.reading = st.reading /\ (st.reading => st.chain # <<>>)
    BY StreamFields, WithWorkFields DEF Sound
<1>2. Work(e) = Append(Work(st), w)
    <2>1. CASE st.reading
        <3>1. Tail(Append(st.chain, w)) = Append(Tail(st.chain), w)
            BY <1>1, <2>1
        <3> QED BY <1>1, <2>1, <3>1 DEF Work
    <2>2. CASE ~st.reading
        BY <1>1, <2>2 DEF Work
    <2> QED BY <2>1, <2>2
<1>3. Work(st) \in Seq(Item \cup {Replay})
    BY WorkSeq
<1>4. \A y : y \in ToSet(Work(e)) <=> y \in ToSet(Work(st)) \/ y = w
    BY <1>2, <1>3, ToSetOfAppend
<1>5. \A y : y \in ToSet(e.chain) <=> y \in ToSet(st.chain) \/ y = w
    BY <1>1, ToSetOfAppend
<1> QED BY <1>2, <1>4, <1>5

\* onListen: a replay makes up for everything.
LEMMA ServedResynced ==
    ASSUME NEW st, Sound(st), NEW cl, NEW M, NEW live, NEW box, Served(st, cl, M, live, box),
           NEW l, NEW b, NEW e, e = WithWork(st, Replay)
    PROVE  Served(e, cl, M, l, b)
<1>1. /\ e.open = st.open /\ e.since = st.since /\ e.cursor = st.cursor /\ e.seen = st.seen
      /\ e.rows = st.rows /\ e.queue = st.queue
    BY WithWorkFields DEF Sound
<1>2. Have(e, cl) = Have(st, cl) /\ Base(e) = Base(st)
    BY <1>1 DEF Have, Base
<1>3. Replay \in Item \cup {Replay}
    OBVIOUS
<1>4. Work(e) = Append(Work(st), Replay) /\ Replay \in ToSet(Work(e))
    BY <1>3, WorkGrows
<1>5. ASSUME st.open
      PROVE  InLine(Work(e), Have(e, cl) \cup ToSet(e.rows), M)
    <2>1. InLine(Work(st), Have(st, cl) \cup ToSet(st.rows), M)
        BY <1>5 DEF Served
    <2>2. Work(st) \in Seq(Item \cup {Replay})
        BY WorkSeq
    <2>3. InLine(Append(Work(st), Replay), Have(st, cl) \cup ToSet(st.rows), M)
        BY <1>3, <2>1, <2>2, InLineAppend
    <2> QED BY <1>1, <1>2, <1>4, <2>3
<1> QED BY <1>1, <1>2, <1>4, <1>5 DEF Served

\* onNotify: the event at the head of the inbox becomes work, or was seen.
LEMMA ServedDelivered ==
    ASSUME StreamAssumption, NEW st, Sound(st), st.open, NEW cl, NEW M, NEW live, live,
           NEW box \in Seq(Item), box # <<>>, Served(st, cl, M, live, box),
           NEW e, e = IF Head(box) \notin ToSet(st.seen) THEN WithWork(st, Head(box)) ELSE st
    PROVE  Served(e, cl, M, live, Tail(box))
<1> DEFINE i == Head(box)
           D == Due(st, cl)
<1>1. i \in Item /\ i \in Item \cup {Replay} /\ i # Replay
    <2>1. i \in Item
        OBVIOUS
    <2> QED BY <2>1, Items DEF Replay
<1>2. \A y : y \in ToSet(box) <=> y = i \/ y \in ToSet(Tail(box))
    BY ToSetOfTail
<1>3. ASSUME Replay \notin ToSet(Work(st))
      PROVE  /\ InLine(box, D, M) /\ M \subseteq D \cup ToSet(box)
             /\ InLine(Tail(box), D \cup {i}, M)
             /\ \A j \in M : j < i => j \in D
             /\ M \subseteq (D \cup {i}) \cup ToSet(Tail(box))
    <2>1. InLine(box, D, M) /\ M \subseteq D \cup ToSet(box)
        BY <1>3 DEF Served
    <2>2. InLine(Tail(box), D \cup {i}, M)
        BY <1>1, <2>1, InLineTail
    <2>3. \A j \in M : j < i => j \in D
        BY <1>1, <2>1, InLineHead
    <2> QED BY <1>2, <2>1, <2>2, <2>3
<1> HIDE DEF i, D
<1>4. CASE i \in ToSet(st.seen)
    <2>1. e = st
        BY <1>4 DEF i
    <2>2. i \in D
        BY <1>4 DEF Served, D, Due
    <2>3. D \cup {i} = D
        BY <2>2
    <2>4. Replay \notin ToSet(Work(st)) =>
              InLine(Tail(box), D, M) /\ M \subseteq D \cup ToSet(Tail(box))
        BY <1>3, <2>3
    <2> QED BY <2>1, <2>4 DEF Served, D
<1>5. CASE i \notin ToSet(st.seen)
    <2>1. e = WithWork(st, i)
        BY <1>5 DEF i
    <2>2. /\ e.open = st.open /\ e.since = st.since /\ e.cursor = st.cursor
          /\ e.seen = st.seen /\ e.rows = st.rows /\ e.queue = st.queue
        <3>1. st \in StreamState
            BY DEF Sound
        <3>2. /\ WithWork(st, i).open = st.open /\ WithWork(st, i).since = st.since
              /\ WithWork(st, i).cursor = st.cursor /\ WithWork(st, i).seen = st.seen
              /\ WithWork(st, i).rows = st.rows /\ WithWork(st, i).queue = st.queue
            BY <1>1, <3>1, WithWorkFields
        <3> QED BY <2>1, <3>2
    <2>3. Have(e, cl) = Have(st, cl) /\ Base(e) = Base(st)
        BY <2>2 DEF Have, Base
    <2>4. /\ Work(e) = Append(Work(st), i)
          /\ \A y : y \in ToSet(Work(e)) <=> y \in ToSet(Work(st)) \/ y = i
        BY <1>1, <2>1, WorkGrows
    <2>5. Due(e, cl) = D \cup {i}
        BY <2>2, <2>3, <2>4 DEF Due, D
    <2>6. InLine(Work(e), Have(e, cl) \cup ToSet(e.rows), M)
        <3> DEFINE H == Have(st, cl) \cup ToSet(st.rows)
        <3>1. InLine(Work(st), H, M)
            BY DEF Served
        <3>2. Work(st) \in Seq(Item \cup {Replay})
            BY WorkSeq
        <3>3. \A j \in M : j < i => j \in H \/ j \in ToSet(Work(st)) \/ Replay \in ToSet(Work(st))
            BY <1>3 DEF D, Due
        <3> HIDE DEF H
        <3>4. InLine(Append(Work(st), i), H, M)
            BY <1>1, <3>1, <3>2, <3>3, InLineAppend
        <3> QED BY <2>2, <2>3, <2>4, <3>4 DEF H
    <2>7. Replay \notin ToSet(Work(e)) =>
              /\ InLine(Tail(box), Due(e, cl), M)
              /\ M \subseteq Due(e, cl) \cup ToSet(Tail(box))
        BY <1>3, <2>4, <2>5
    <2> QED BY <2>2, <2>3, <2>6, <2>7 DEF Served
<1> QED BY <1>4, <1>5

\* Whatever is announced or on its way to a client is committed.
FedInv ==
    /\ committed \subseteq 1 .. begun
    /\ \A c \in Conn : ToSet(hub.inbox[c]) \subseteq committed
    /\ \A s \in Stream : Fed(stream[s], client[s], committed)

\* A stream that is closed has nothing on its way.
LEMMA FedGone ==
    ASSUME NEW cl, NEW C, cl.last \in C \cup {NoItem}
    PROVE  Fed(NoStream, cl, C)
<1>1. NoStream.cursor = NoItem
    BY DEF NoStream
<1> QED BY <1>1, NoStreamFields, ToSetOfNone DEF Fed

\* Work that is committed, or a replay, may be added.
LEMMA FedWithWork ==
    ASSUME NEW st, Sound(st), NEW cl, NEW C, Fed(st, cl, C), NEW w \in Item \cup {Replay},
           w \in C \cup {Replay}
    PROVE  Fed(WithWork(st, w), cl, C)
<1> DEFINE e == WithWork(st, w)
<1>1. st \in StreamState
    BY DEF Sound
<1>2. /\ WithWork(st, w).open = st.open /\ WithWork(st, w).since = st.since
      /\ WithWork(st, w).cursor = st.cursor
      /\ WithWork(st, w).rows = st.rows /\ WithWork(st, w).queue = st.queue
    BY <1>1, WithWorkFields
<1>3. \A y : y \in ToSet(e.chain) <=> y \in ToSet(st.chain) \/ y = w
    <2> HIDE DEF e
    <2>1. e = WithWork(st, w)
        BY DEF e
    <2> QED BY <2>1, WorkGrows
<1> QED BY <1>2, <1>3 DEF Fed

\* What is emitted from committed rows is committed.
LEMMA EmittedFed ==
    ASSUME StreamAssumption, NEW st, Sound(st), NEW cl, NEW C, Fed(st, cl, C)
    PROVE  /\ ToSet(Emitted(st).queue) \subseteq C
           /\ Emitted(st).cursor \in C \cup {st.cursor}
<1> DEFINE N == Len(st.rows)
           A == {d \in StreamState : ToSet(d.queue) \subseteq C /\ d.cursor \in C \cup {st.cursor}}
           G == [n \in 0 .. N |-> A]
<1>1. st \in StreamState /\ st.rows \in Seq(Item) /\ N \in Nat
    BY StreamFields DEF Sound
<1>2. \A n \in 1 .. N : st.rows[n] \in Item /\ st.rows[n] \in C
    BY <1>1, InToSet DEF Fed
<1>3. ASSUME NEW d \in A, NEW i \in Item, i \in C, NEW e, e = Emit(d, i)
      PROVE  e \in A
    <2>1. d \in StreamState /\ ToSet(d.queue) \subseteq C /\ d.cursor \in C \cup {st.cursor}
        OBVIOUS
    <2> HIDE DEF A
    <2>2. /\ e \in StreamState
          /\ e.since = d.since /\ e.chain = d.chain /\ e.reading = d.reading
          /\ e.rows = d.rows
          /\ \/ i \in ToSet(d.seen) /\ e = d
             \/ ~d.open /\ e = d
             \/ /\ ~e.open /\ e.cursor = d.cursor /\ e.seen = d.seen
                /\ e.queue = d.queue /\ e.sent = d.sent
             \/ /\ d.open /\ e.open /\ i \notin ToSet(d.seen)
                /\ e.queue = Append(d.queue, i) /\ e.sent = Append(d.sent, i)
                /\ e.seen = SeenWith(d, i) /\ e.cursor = i
        BY ONLY StreamAssumption, <2>1, i \in Item, e = Emit(d, i), EmitFields
    <2>3. d.queue \in Seq(Item)
        BY <2>1, StreamFields
    <2>4. \A y : y \in ToSet(Append(d.queue, i)) <=> y \in ToSet(d.queue) \/ y = i
        BY <2>3, ToSetOfAppend
    <2>5. ToSet(e.queue) \subseteq C /\ e.cursor \in C \cup {st.cursor}
        BY <1>3, <2>1, <2>2, <2>4
    <2> QED BY <2>2, <2>5 DEF A
<1>4. st \in A
    BY <1>1 DEF Fed
<1> HIDE DEF A
<1>5. st \in G[0] /\ G[N] = A
    BY <1>1, <1>4
<1>6. \A n \in 1 .. N : \A d \in G[n - 1] : Emit(d, st.rows[n]) \in G[n]
    <2>1. \A n \in 1 .. N : G[n] = A /\ G[n - 1] = A
        BY <1>1
    <2> QED BY <1>2, <1>3, <2>1
<1> HIDE DEF G
<1>7. Emitted(st) \in A
    BY <1>1, <1>5, <1>6, EmittedIsIn DEF N
<1> QED BY <1>7 DEF A

\* The Last-Event-ID of a client is of a committed item.
LEMMA ReadStaysIn ==
    ASSUME StreamAssumption, StreamsInv, NEW s \in Stream, NEW C,
           Fed(stream[s], client[s], C), NEW n \in 0 .. Len(stream[s].queue)
    PROVE  AfterReading(s, n).last \in C \cup {NoItem}
<1>1. stream[s].queue \in Seq(Item)
    BY StreamFields DEF StreamsInv
<1>2. AfterReading(s, n).last = IF n = 0 THEN client[s].last ELSE stream[s].queue[n]
    BY AfterReadingFields
<1>3. n # 0 => stream[s].queue[n] \in ToSet(stream[s].queue)
    <2>1. n # 0 => n \in 1 .. Len(stream[s].queue)
        BY <1>1
    <2> QED BY <1>1, <2>1, InToSet
<1> QED BY <1>2, <1>3 DEF Fed

\* Inboxes that stay or are emptied announce nothing new.
LEMMA InboxesKept ==
    ASSUME NEW h, NEW q, \A c \in Conn : q.inbox[c] \in {h.inbox[c], <<>>}, NEW C,
           \A c \in Conn : ToSet(h.inbox[c]) \subseteq C
    PROVE  \A c \in Conn : ToSet(q.inbox[c]) \subseteq C
BY ToSetOfNone

\* Every step announces and sends only what is committed.
LEMMA NextKeepsFed ==
    ASSUME HubAssumption, StreamAssumption, HubStreamInv, FedInv, [Next]_vars
    PROVE  FedInv'
<1> USE HubAssumption, StreamAssumption
<1>1. /\ StreamsInv /\ SlotsInv /\ HubInv(hub)
      /\ stream \in [Stream -> StreamState] /\ client \in [Stream -> ClientState]
      /\ \A s \in Stream : Sound(stream[s])
      /\ begun \in Nat /\ committed \subseteq Item /\ committed \subseteq 1 .. begun
      /\ \A s \in Stream : Fed(stream[s], client[s], committed)
      /\ \A c \in Conn : ToSet(hub.inbox[c]) \subseteq committed
      /\ hub.subs = {s \in Stream : stream[s].open}
    BY DEF HubStreamInv, StreamsInv, SlotsInv, FedInv
<1>2. ASSUME UNCHANGED <<stream, client, begun, committed>>,
             \A c \in Conn : hub'.inbox[c] \in {hub.inbox[c], <<>>}
      PROVE  FedInv'
    <2>1. \A c \in Conn : ToSet(hub'.inbox[c]) \subseteq committed
        BY <1>1, <1>2, InboxesKept
    <2> QED BY <1>1, <1>2, <2>1 DEF FedInv
<1>3. ASSUME NEW s \in Stream, UNCHANGED <<begun, committed>>,
             \A c \in Conn : hub'.inbox[c] \in {hub.inbox[c], <<>>},
             \A t \in Stream : t # s => stream'[t] = stream[t] /\ client'[t] = client[t],
             Fed(stream'[s], client'[s], committed)
      PROVE  FedInv'
    <2>1. \A c \in Conn : ToSet(hub'.inbox[c]) \subseteq committed
        BY <1>1, <1>3, InboxesKept
    <2>2. \A t \in Stream : Fed(stream'[t], client'[t], committed)
        BY <1>1, <1>3
    <2> QED BY <1>1, <1>3, <2>1, <2>2 DEF FedInv
<1>4. CASE UNCHANGED vars
    BY <1>2, <1>4 DEF vars
<1>5. CASE Begin
    <2>1. begun' = begun + 1 /\ UNCHANGED <<hub, committed, stream, client>>
        BY <1>5 DEF Begin
    <2>2. committed \subseteq 1 .. begun'
        BY <1>1, <2>1
    <2> QED BY <1>1, <2>1, <2>2 DEF FedInv
<1>6. ASSUME NEW i \in Item, Commit(i)
      PROVE  FedInv'
    <2>1. /\ i \in 1 .. begun /\ committed' = committed \cup {i} /\ hub' = Notified(hub, i)
          /\ UNCHANGED <<begun, stream, client>>
        BY <1>6 DEF Commit
    <2>2. \A c \in Conn : ToSet(hub'.inbox[c]) \subseteq committed'
        <3> SUFFICES ASSUME NEW c \in Conn
                     PROVE  ToSet(hub'.inbox[c]) \subseteq committed'
            OBVIOUS
        <3>1. hub'.inbox[c] = IF hub.conn[c] = "live" THEN Append(hub.inbox[c], i)
                              ELSE hub.inbox[c]
            BY <1>1, <2>1, NotifiedKeeps
        <3>2. hub.inbox[c] \in Seq(Item)
            BY <1>1, HubFields DEF HubInv
        <3>3. \A y : y \in ToSet(Append(hub.inbox[c], i)) <=> y \in ToSet(hub.inbox[c]) \/ y = i
            BY <3>2, ToSetOfAppend
        <3> QED BY <1>1, <2>1, <3>1, <3>3
    <2>3. \A s \in Stream : Fed(stream[s], client[s], committed')
        BY <1>1, <2>1 DEF Fed
    <2> QED BY <1>1, <2>1, <2>2, <2>3 DEF FedInv
<1>7. ASSUME NEW s \in Stream, NEW c \in Conn, Connect(s, c)
      PROVE  FedInv'
    <2>1. /\ c \in Free(hub) /\ hub' = Subscribed(hub, s, c)
          /\ client' = [client EXCEPT ![s].from = IF client[s].last = NoItem THEN begun ELSE @]
          /\ UNCHANGED <<begun, committed>>
        BY <1>7 DEF Connect
    <2>2. stream' = [stream EXCEPT ![s] = Opened(s)]
        BY <1>7 DEF Connect, Opened
    <2>3. \A d \in Conn : hub'.inbox[d] \in {hub.inbox[d], <<>>}
        BY <1>1, <2>1, SubscribedKeeps DEF NothingNewIn
    <2>4. /\ stream'[s] = Opened(s)
          /\ \A t \in Stream : t # s => stream'[t] = stream[t] /\ client'[t] = client[t]
        BY <1>1, <2>1, <2>2
    <2>5. /\ client'[s].last = client[s].last
          /\ client[s].last = NoItem => client'[s].from = begun
        BY <1>1, <2>1 DEF ClientState
    <2>6. /\ Opened(s).since = begun /\ Opened(s).cursor = client[s].last
          /\ Opened(s).rows = <<>> /\ Opened(s).queue = <<>>
          /\ Opened(s).chain = IF client[s].last # NoItem THEN <<Replay>> ELSE <<>>
        BY <1>1, OpenedFields
    <2>7. ToSet(<<Replay>>) = {Replay} /\ ToSet(<<>>) = {}
        BY ToSetOfOne, ToSetOfNone
    <2>8. client[s].last \in committed \cup {NoItem}
        BY <1>1 DEF Fed
    <2>9. Fed(stream'[s], client'[s], committed)
        BY <2>4, <2>5, <2>6, <2>7, <2>8 DEF Fed
    <2> QED BY <1>3, <2>1, <2>3, <2>4, <2>9
<1>8. ASSUME NEW s \in Stream, stream[s].open, Close({s}), UNCHANGED <<begun, committed>>,
             \A t \in Stream : t # s => client'[t] = client[t],
             client'[s].last \in committed \cup {NoItem}
      PROVE  FedInv'
    <2>1. /\ NothingNewIn(hub, hub')
          /\ \A t \in Stream : stream'[t] = IF t = s THEN NoStream ELSE stream[t]
        BY <1>1, <1>8, CloseOne
    <2>2. Fed(stream'[s], client'[s], committed)
        BY <1>8, <2>1, FedGone
    <2> QED BY <1>3, <1>8, <2>1, <2>2 DEF NothingNewIn
<1>9. ASSUME NEW s \in Stream, End(s)
      PROVE  FedInv'
    <2>1. /\ stream[s].open /\ Close({s}) /\ UNCHANGED <<begun, committed>>
        BY <1>9 DEF End
    <2>2. PICK n \in 0 .. Len(stream[s].queue) :
             client' = [client EXCEPT ![s] = AfterReading(s, n)]
        BY <1>9 DEF End
    <2>3. client'[s].last \in committed \cup {NoItem}
        <3>1. AfterReading(s, n).last \in committed \cup {NoItem}
            BY <1>1, ReadStaysIn
        <3> QED BY <1>1, <2>2, <3>1
    <2>4. \A t \in Stream : t # s => client'[t] = client[t]
        BY <1>1, <2>2
    <2> QED BY <1>8, <2>1, <2>3, <2>4
<1>10. ASSUME NEW s \in Stream, ReadRows(s)
       PROVE  FedInv'
    <2>1. PICK e :
             /\ stream' = [stream EXCEPT ![s] = e]
             /\ Sound(e) /\ e.open
             /\ e.since = stream[s].since /\ e.cursor = stream[s].cursor
             /\ e.seen = stream[s].seen /\ e.queue = stream[s].queue
             /\ e.sent = stream[s].sent
             /\ stream[s].chain # <<>> /\ ~stream[s].reading /\ stream[s].open
             /\ \/ /\ Head(stream[s].chain) = Replay
                   /\ e.reading /\ e.rows = ReplayRows(stream[s]) /\ e.chain = stream[s].chain
                \/ /\ Head(stream[s].chain) # Replay
                   /\ Head(stream[s].chain) \in ToSet(stream[s].seen)
                   /\ ~e.reading /\ e.rows = <<>> /\ e.chain = Tail(stream[s].chain)
                \/ /\ Head(stream[s].chain) # Replay
                   /\ e.reading /\ e.rows = <<Head(stream[s].chain)>>
                   /\ e.chain = stream[s].chain
        BY <1>1, <1>10, ReadRowsFields
    <2>2. /\ UNCHANGED <<hub, begun, committed>>
          /\ client' = [client EXCEPT ![s].short =
                @ \/ (Head(stream[s].chain) = Replay
                      /\ Cardinality(After(stream[s])) > ReplayLimit)]
        BY <1>10 DEF ReadRows
    <2>3. client'[s].last = client[s].last /\ client'[s].from = client[s].from
        BY <1>1, <2>2 DEF ClientState
    <2>4. \A t \in Stream : t # s => stream'[t] = stream[t] /\ client'[t] = client[t]
        BY <1>1, <2>1, <2>2
    <2>5. stream'[s] = e
        BY <1>1, <2>1
    <2>6. \A y : y \in ToSet(stream[s].chain)
                 <=> y = Head(stream[s].chain) \/ y \in ToSet(Tail(stream[s].chain))
        BY <1>1, <2>1, StreamFields, ToSetOfTail
    <2>7. ToSet(e.chain) \subseteq committed \cup {Replay} /\ ToSet(e.rows) \subseteq committed
        <3>1. ToSet(stream[s].chain) \subseteq committed \cup {Replay}
            BY <1>1 DEF Fed
        <3>2. CASE e.rows = ReplayRows(stream[s]) /\ e.chain = stream[s].chain
            <4>1. ReplayRows(stream[s]) \in Seq(After(stream[s]))
                BY <1>1, RowsOfAReplay
            <4>2. \A x \in ToSet(ReplayRows(stream[s])) : x \in After(stream[s])
                BY <4>1, InToSet
            <4>3. After(stream[s]) \subseteq committed
                BY DEF After
            <4> QED BY <3>1, <3>2, <4>2, <4>3
        <3>3. CASE e.rows = <<>> /\ e.chain = Tail(stream[s].chain)
            BY <2>6, <3>1, <3>3, ToSetOfNone
        <3>4. CASE /\ Head(stream[s].chain) # Replay /\ e.rows = <<Head(stream[s].chain)>>
                   /\ e.chain = stream[s].chain
            <4>1. \A y : y \in ToSet(e.rows) <=> y = Head(stream[s].chain)
                BY <3>4, ToSetOfOne
            <4> QED BY <2>6, <3>1, <3>4, <4>1
        <3> QED BY <2>1, <3>2, <3>3, <3>4
    <2>8. Fed(e, client'[s], committed)
        BY <1>1, <2>1, <2>3, <2>7 DEF Fed
    <2> QED BY <1>3, <2>2, <2>4, <2>5, <2>8
<1>11. ASSUME NEW s \in Stream, EmitRows(s)
       PROVE  FedInv'
    <2>1. UNCHANGED <<begun, committed, client>>
        BY <1>11 DEF EmitRows
    <2>2. /\ stream[s].open
          /\ \/ Close({s})
             \/ \E e : /\ stream' = [stream EXCEPT ![s] = e]
                       /\ UNCHANGED <<hub, active>>
                       /\ Sound(e) /\ e.open
                       /\ e.since = stream[s].since /\ e.cursor = Emitted(stream[s]).cursor
                       /\ e.queue = Emitted(stream[s]).queue
                       /\ e.rows = <<>> /\ e.chain = Tail(stream[s].chain)
        BY <1>1, <1>11, EmitRowsFields
    <2>3. CASE Close({s})
        <3>1. client'[s].last \in committed \cup {NoItem}
            BY <1>1, <2>1 DEF Fed
        <3> QED BY <1>8, <2>1, <2>2, <2>3, <3>1
    <2>4. ASSUME NEW e, stream' = [stream EXCEPT ![s] = e], UNCHANGED <<hub, active>>,
                 e.since = stream[s].since, e.cursor = Emitted(stream[s]).cursor,
                 e.queue = Emitted(stream[s]).queue,
                 e.rows = <<>>, e.chain = Tail(stream[s].chain)
          PROVE  FedInv'
        <3>1. /\ ToSet(e.queue) \subseteq committed
              /\ e.cursor \in committed \cup {stream[s].cursor}
            BY <1>1, <2>4, EmittedFed
        <3>2. stream[s].chain # <<>> /\ stream[s].chain \in Seq(Item \cup {Replay})
            BY <1>1, <1>11, StreamFields DEF EmitRows, Sound
        <3>3. ToSet(e.chain) \subseteq committed \cup {Replay}
            BY <1>1, <2>4, <3>2, ToSetOfTail DEF Fed
        <3>4. ~(NoItem \in committed)
            BY <1>1, Items DEF NoItem
        <3>5. Fed(e, client[s], committed)
            BY <1>1, <2>2, <2>4, <3>1, <3>3, <3>4, ToSetOfNone DEF Fed
        <3>6. /\ stream'[s] = e
              /\ \A t \in Stream : t # s => stream'[t] = stream[t] /\ client'[t] = client[t]
            BY <1>1, <2>1, <2>4
        <3> QED BY <1>3, <2>1, <2>4, <3>5, <3>6
    <2> QED BY <2>2, <2>3, <2>4
<1>12. ASSUME NEW s \in Stream, Read(s)
       PROVE  FedInv'
    <2>1. PICK e :
             /\ stream' = [stream EXCEPT ![s] = e]
             /\ Sound(e) /\ e.open /\ stream[s].open /\ stream[s].queue # <<>>
             /\ e.since = stream[s].since /\ e.cursor = stream[s].cursor
             /\ e.queue = Tail(stream[s].queue)
             /\ e.chain = stream[s].chain /\ e.rows = stream[s].rows
        BY <1>1, <1>12, ReadFields
    <2>2. /\ UNCHANGED <<hub, begun, committed>>
          /\ client' = [client EXCEPT ![s] = AfterReading(s, 1)]
        BY <1>12 DEF Read
    <2>3. stream[s].queue \in Seq(Item) /\ 1 \in 0 .. Len(stream[s].queue)
        <3>1. stream[s].queue \in Seq(Item)
            BY <1>1, StreamFields
        <3> QED BY <2>1, <3>1
    <2>4. /\ AfterReading(s, 1).last \in committed \cup {NoItem}
          /\ AfterReading(s, 1).from = client[s].from
        BY <1>1, <2>3, ReadStaysIn, AfterReadingFields
    <2>5. ToSet(e.queue) \subseteq committed
        BY <1>1, <2>1, <2>3, ToSetOfTail DEF Fed
    <2>6. /\ stream'[s] = e /\ client'[s] = AfterReading(s, 1)
          /\ \A t \in Stream : t # s => stream'[t] = stream[t] /\ client'[t] = client[t]
        BY <1>1, <2>1, <2>2
    <2>7. Fed(stream'[s], client'[s], committed)
        BY <1>1, <2>1, <2>4, <2>5, <2>6 DEF Fed
    <2> QED BY <1>3, <2>2, <2>6, <2>7
<1>13. ASSUME NEW c \in Conn, ListenSucceeds(c)
       PROVE  FedInv'
    <2>1. /\ hub.conn[c] \in {"connecting", "dropped"} /\ hub' = Listening(hub, c)
          /\ UNCHANGED <<begun, committed, client>>
          /\ stream' = IF hub.client = c THEN Resynced ELSE stream
        BY <1>13 DEF ListenSucceeds
    <2>2. \A d \in Conn : hub'.inbox[d] \in {hub.inbox[d], <<>>}
        BY <1>1, <2>1, ListeningKeeps
    <2>3. CASE hub.client = c
        <3>1. stream' = [s \in Stream |-> IF s \in hub.subs THEN WithWork(stream[s], Replay)
                                          ELSE stream[s]]
            BY <2>1, <2>3 DEF Resynced
        <3>2. Replay \in Item \cup {Replay} /\ Replay \in committed \cup {Replay}
            OBVIOUS
        <3>3. \A s \in Stream : Fed(stream'[s], client[s], committed)
            <4> SUFFICES ASSUME NEW s \in Stream
                         PROVE  Fed(stream'[s], client[s], committed)
                OBVIOUS
            <4>1. Fed(WithWork(stream[s], Replay), client[s], committed)
                BY <1>1, <3>2, FedWithWork
            <4> QED BY <1>1, <3>1, <4>1
        <3>4. \A d \in Conn : ToSet(hub'.inbox[d]) \subseteq committed
            BY <1>1, <2>2, InboxesKept
        <3> QED BY <1>1, <2>1, <3>3, <3>4 DEF FedInv
    <2>4. CASE hub.client # c
        BY <1>2, <2>1, <2>2, <2>4
    <2> QED BY <2>3, <2>4
<1>14. ASSUME NEW c \in Conn, ListenFails(c)
       PROVE  FedInv'
    <2> DEFINE f == ListenFailed(hub, c)
               none == [f EXCEPT !.subs = {}]
    <2>1. /\ hub.conn[c] = "connecting" /\ UNCHANGED <<begun, committed, client>>
          /\ IF hub.client = c
             THEN hub' = none /\ stream' = [s \in Stream |-> NoStream]
             ELSE hub' = f /\ UNCHANGED stream
        BY <1>14 DEF ListenFails
    <2>2. \A d \in Conn : hub'.inbox[d] \in {hub.inbox[d], <<>>}
        <3> DEFINE q == f
                   n == none
        <3>1. q = ListenFailed(hub, c) /\ n = [q EXCEPT !.subs = {}]
            OBVIOUS
        <3>2. hub' = IF hub.client = c THEN n ELSE q
            BY <2>1
        <3> HIDE DEF q, n, f, none
        <3>3. /\ hub.client # c => NothingNewIn(hub, q)
              /\ hub.client = c => NothingNewIn(hub, n)
            BY <1>1, <2>1, <3>1, ListenFailedKeeps
        <3> QED BY <3>2, <3>3 DEF NothingNewIn
    <2> HIDE DEF f, none
    <2>3. CASE hub.client = c
        <3>1. \A s \in Stream : Fed(stream'[s], client[s], committed)
            <4>1. \A s \in Stream : client[s].last \in committed \cup {NoItem}
                BY <1>1 DEF Fed
            <4> QED BY <2>1, <2>3, <4>1, FedGone
        <3>2. \A d \in Conn : ToSet(hub'.inbox[d]) \subseteq committed
            BY <1>1, <2>2, InboxesKept
        <3> QED BY <1>1, <2>1, <3>1, <3>2 DEF FedInv
    <2>4. CASE hub.client # c
        BY <1>2, <2>1, <2>2, <2>4
    <2> QED BY <2>3, <2>4
<1>15. ASSUME NEW c \in Conn, Drop(c) \/ RelistenFails(c) \/ WatchdogFires(c)
       PROVE  FedInv'
    <2>1. UNCHANGED <<begun, committed, stream, client>>
        BY <1>15 DEF Drop, RelistenFails, WatchdogFires
    <2>2. NothingNewIn(hub, hub')
        BY <1>1, <1>15, ConnectionLost
    <2> QED BY <1>2, <2>1, <2>2 DEF NothingNewIn
<1>16. ASSUME NEW c \in Conn, Deliver(c)
       PROVE  FedInv'
    <2> DEFINE i == Head(hub.inbox[c])
               G == {s \in hub.subs : hub.client = c /\ i \notin ToSet(stream[s].seen)}
    <2>1. /\ hub.conn[c] = "live" /\ hub.inbox[c] # <<>>
          /\ hub' = Taken(hub, c)
          /\ UNCHANGED <<begun, committed, client>>
        BY <1>16 DEF Deliver, Taken
    <2>2. stream' = [s \in Stream |-> IF s \in G THEN WithWork(stream[s], i) ELSE stream[s]]
        BY <1>16 DEF Deliver
    <2>3. /\ hub'.inbox[c] = Tail(hub.inbox[c])
          /\ \A d \in Conn : d # c => hub'.inbox[d] = hub.inbox[d]
        BY <1>1, <2>1, DeliveredKeeps
    <2>4. hub.inbox[c] \in Seq(Item)
        BY <1>1, HubFields DEF HubInv
    <2>5. \A y : y \in ToSet(hub.inbox[c]) <=> y = i \/ y \in ToSet(Tail(hub.inbox[c]))
        BY <2>1, <2>4, ToSetOfTail
    <2> HIDE DEF G, i
    <2>6. i \in committed /\ i \in Item \cup {Replay} /\ i \in committed \cup {Replay}
        <3>1. i \in ToSet(hub.inbox[c])
            BY <2>5
        <3>2. ToSet(hub.inbox[c]) \subseteq committed
            BY <1>1
        <3> QED BY <1>1, <3>1, <3>2
    <2>7. \A s \in Stream : Fed(stream'[s], client[s], committed)
        <3> SUFFICES ASSUME NEW s \in Stream
                     PROVE  Fed(stream'[s], client[s], committed)
            OBVIOUS
        <3>1. Fed(WithWork(stream[s], i), client[s], committed)
            BY <1>1, <2>6, FedWithWork
        <3> QED BY <1>1, <2>2, <3>1
    <2>8. \A d \in Conn : ToSet(hub'.inbox[d]) \subseteq committed
        BY <1>1, <2>3, <2>5
    <2> QED BY <1>1, <2>1, <2>7, <2>8 DEF FedInv
<1> QED BY <1>4, <1>5, <1>6, <1>7, <1>9, <1>10, <1>11, <1>12, <1>13, <1>14, <1>15, <1>16 DEF Next

\* The items that count for the client of s.
Mine(s) == MineOf(committed, late, client[s].from)

\* Every client is served, unless a replay of it has met its limit.
ServedInv ==
    \A s \in Stream :
        ~client[s].short =>
            Served(stream[s], client[s], Mine(s), Live(hub), hub.inbox[hub.client])

\* Every step, whoever takes it, leaves every client served.
LEMMA NextKeepsServed ==
    ASSUME HubAssumption, StreamAssumption, HubStreamInv, FedInv, ServedInv, [Next]_vars
    PROVE  ServedInv'
<1> USE HubAssumption, StreamAssumption
<1> DEFINE live == Live(hub)
           box == hub.inbox[hub.client]
           M(s) == MineOf(committed, late, client[s].from)
           live2 == Live(hub')
           box2 == hub'.inbox[hub'.client]
           M2(s) == MineOf(committed', late', client'[s].from)
           Is(s) == Served(stream'[s], client'[s], M2(s), live2, box2)
<1>1. /\ StreamsInv /\ SlotsInv /\ HubInv(hub)
      /\ stream \in [Stream -> StreamState] /\ client \in [Stream -> ClientState]
      /\ \A s \in Stream : Sound(stream[s])
      /\ begun \in Nat /\ committed \in SUBSET Item /\ committed \subseteq 1 .. begun
      /\ late \subseteq committed
      /\ \A s \in Stream : Fed(stream[s], client[s], committed)
      /\ \A c \in Conn : ToSet(hub.inbox[c]) \subseteq committed
      /\ hub.subs = {s \in Stream : stream[s].open}
    BY DEF HubStreamInv, StreamsInv, SlotsInv, FedInv
<1>2. \A s \in Stream : ~client[s].short => Served(stream[s], client[s], M(s), live, box)
    BY DEF ServedInv, Mine
<1>3. ASSUME \A s \in Stream : ~client'[s].short => Is(s)
      PROVE  ServedInv'
    BY <1>3 DEF ServedInv, Mine
<1>4. \A s \in Stream : M(s) \in SUBSET Item /\ M(s) \subseteq committed
    BY <1>1 DEF MineOf
<1> HIDE DEF live, box, live2, box2, Is, M
<1>5. ASSUME NothingNewIn(hub, hub')
      PROVE  live2 => live /\ box2 = box
    BY <1>5 DEF NothingNewIn, live, live2, box, box2
\* One stream changes, and no connection becomes live.
<1>6. ASSUME NEW s \in Stream, UNCHANGED <<committed, late>>, NothingNewIn(hub, hub'),
             \A t \in Stream : t # s => stream'[t] = stream[t] /\ client'[t] = client[t],
             ~client'[s].short => Served(stream'[s], client'[s], M2(s), live, box)
      PROVE  ServedInv'
    <2>1. ASSUME NEW t \in Stream, ~client'[t].short
          PROVE  Is(t)
        <3>1. Served(stream'[t], client'[t], M2(t), live, box)
            <4>1. CASE t = s
                BY <1>6, <2>1, <4>1
            <4>2. CASE t # s
                <5>1. M2(t) = M(t) /\ stream'[t] = stream[t] /\ client'[t] = client[t]
                    BY <1>6, <4>2 DEF M
                <5>2. Served(stream[t], client[t], M(t), live, box)
                    BY <1>2, <2>1, <5>1
                <5> QED BY <5>1, <5>2
            <4> QED BY <4>1, <4>2
        <3>2. live2 => live /\ box2 = box
            BY <1>5, <1>6
        <3> HIDE DEF M2
        <3>3. Served(stream'[t], client'[t], M2(t), live2, box2)
            BY <3>1, <3>2, ServedQuiet
        <3> QED BY <3>3 DEF Is, M2
    <2> QED BY <1>3, <2>1
\* No stream changes.
<1>7. ASSUME UNCHANGED <<committed, late, stream, client>>, NothingNewIn(hub, hub')
      PROVE  ServedInv'
    <2>1. ASSUME NEW t \in Stream, ~client'[t].short
          PROVE  Is(t)
        <3>1. Served(stream'[t], client'[t], M2(t), live, box)
            BY <1>2, <1>7, <2>1 DEF M
        <3>2. live2 => live /\ box2 = box
            BY <1>5, <1>7
        <3> HIDE DEF M2
        <3>3. Served(stream'[t], client'[t], M2(t), live2, box2)
            BY <3>1, <3>2, ServedQuiet
        <3> QED BY <3>3 DEF Is, M2
    <2> QED BY <1>3, <2>1
<1>8. ASSUME hub' = hub
      PROVE  NothingNewIn(hub, hub')
    BY <1>8 DEF NothingNewIn
<1>9. CASE UNCHANGED vars
    BY <1>7, <1>8, <1>9 DEF vars
<1>10. CASE Begin
    BY <1>7, <1>8, <1>10 DEF Begin
<1>11. ASSUME NEW i \in Item, Commit(i)
       PROVE  ServedInv'
    <2>1. /\ i \notin committed /\ committed' = committed \cup {i}
          /\ late' = IF \E j \in committed : j > i THEN late \cup {i} ELSE late
          /\ hub' = Notified(hub, i)
          /\ UNCHANGED <<begun, stream, client>>
        BY <1>11 DEF Commit
    <2>2. /\ HubInv(hub') /\ hub'.client = hub.client /\ hub'.conn = hub.conn
          /\ \A c \in Conn : hub'.inbox[c] = IF hub.conn[c] = "live"
                                             THEN Append(hub.inbox[c], i) ELSE hub.inbox[c]
        BY <1>1, <2>1, NotifiedKeeps
    <2>3. ASSUME NEW s \in Stream
          PROVE  \/ M2(s) = M(s)
                 \/ /\ M2(s) = M(s) \cup {i} /\ (\A j \in committed : j < i)
                    /\ i > client[s].from
        <3>1. \A x \in Item : x \in Nat
            BY Items
        <3>2. client[s].from \in Nat
            BY <1>1 DEF ClientState
        <3>3. CASE \E j \in committed : j > i
            <4>1. committed' \ late' = committed \ late
                BY <1>1, <2>1, <3>3
            <4> QED BY <2>1, <4>1 DEF MineOf, M
        <3>4. CASE ~\E j \in committed : j > i
            <4>1. committed' \ late' = (committed \ late) \cup {i}
                BY <1>1, <2>1, <3>4
            <4>2. \A j \in committed : j < i
                BY <1>1, <2>1, <3>1, <3>4
            <4>3. CASE i > client[s].from
                <5>1. M2(s) = M(s) \cup {i}
                    BY <2>1, <4>1, <4>3 DEF MineOf, M
                <5> QED BY <4>2, <4>3, <5>1
            <4>4. CASE ~(i > client[s].from)
                <5>1. M2(s) = M(s)
                    BY <2>1, <4>1, <4>4 DEF MineOf, M
                <5> QED BY <5>1
            <4> QED BY <4>3, <4>4
        <3> QED BY <3>3, <3>4
    <2>4. live2 <=> live
        BY <2>2 DEF live, live2, Live
    <2>5. ASSUME NEW s \in Stream, ~client'[s].short
          PROVE  Is(s)
        <3> DEFINE m2 == M2(s)
                   m == M(s)
        <3>1. Served(stream[s], client[s], m, live, box) /\ stream'[s] = stream[s]
              /\ client'[s] = client[s]
            BY <1>2, <2>1, <2>5
        <3>2. \/ m2 = m
              \/ m2 = m \cup {i} /\ (\A j \in committed : j < i) /\ i > client[s].from
            BY <2>3
        <3>3. Sound(stream[s]) /\ client[s] \in ClientState
              /\ Fed(stream[s], client[s], committed)
            BY <1>1
        <3> HIDE DEF m2, m, M2
        <3>4. CASE live
            <4>1. box \in Seq(Item) /\ ToSet(box) \subseteq committed /\ box2 = Append(box, i)
                <5>1. hub.client \in Conn /\ hub.conn[hub.client] = "live"
                    BY <1>1, <3>4, HubFields DEF HubInv, live, Live
                <5>2. hub.inbox[hub.client] \in Seq(Item)
                    BY <1>1, <5>1, HubFields DEF HubInv
                <5> QED BY <1>1, <2>2, <5>1, <5>2 DEF box, box2
            <4>2. Served(stream[s], client[s], m2, live, Append(box, i))
                BY <1>1, <3>1, <3>2, <3>3, <4>1, ServedCommit
            <4>3. Served(stream[s], client[s], m2, live2, box2)
                BY <2>4, <4>1, <4>2, ServedQuiet
            <4> QED BY <3>1, <4>3 DEF Is, m2
        <3>5. CASE ~live
            <4>1. Served(stream[s], client[s], m, FALSE, <<>>)
                BY <3>1, ServedQuiet
            <4>2. <<>> \in Seq(Item) /\ ToSet(<<>>) \subseteq committed
                BY ToSetOfNone
            <4>3. Served(stream[s], client[s], m2, FALSE, Append(<<>>, i))
                BY <1>1, <3>2, <3>3, <4>1, <4>2, ServedCommit
            <4>4. Served(stream[s], client[s], m2, live2, box2)
                BY <2>4, <3>5, <4>3, ServedQuiet
            <4> QED BY <3>1, <4>4 DEF Is, m2
        <3> QED BY <3>4, <3>5
    <2> QED BY <1>3, <2>5
<1>12. ASSUME NEW s \in Stream, NEW c \in Conn, Connect(s, c)
       PROVE  ServedInv'
    <2>1. /\ c \in Free(hub) /\ hub' = Subscribed(hub, s, c)
          /\ client' = [client EXCEPT ![s].from = IF client[s].last = NoItem THEN begun ELSE @]
          /\ UNCHANGED <<committed, late>>
        BY <1>12 DEF Connect
    <2>2. stream' = [stream EXCEPT ![s] = Opened(s)]
        BY <1>12 DEF Connect, Opened
    <2>3. NothingNewIn(hub, hub')
        BY <1>1, <2>1, SubscribedKeeps
    <2>4. /\ stream'[s] = Opened(s)
          /\ \A t \in Stream : t # s => stream'[t] = stream[t] /\ client'[t] = client[t]
        BY <1>1, <2>1, <2>2
    <2>5. /\ client'[s].last = client[s].last /\ client'[s].got = client[s].got
          /\ client'[s].short = client[s].short
          /\ client'[s].from = IF client[s].last = NoItem THEN begun ELSE client[s].from
        BY <1>1, <2>1 DEF ClientState
    <2>6. /\ Sound(Opened(s)) /\ Opened(s).cursor = client[s].last /\ Opened(s).seen = <<>>
          /\ Opened(s).rows = <<>> /\ Opened(s).queue = <<>> /\ ~Opened(s).reading
          /\ Opened(s).chain = IF client[s].last # NoItem THEN <<Replay>> ELSE <<>>
        BY <1>1, OpenedFields
    <2>7. ASSUME ~client'[s].short
          PROVE  Served(stream'[s], client'[s], M2(s), live, box)
        <3> DEFINE m2 == M2(s)
                   cl == client'[s]
                   e == Opened(s)
        <3>1. cl.last = NoItem => m2 = {}
            <4>1. \A j \in committed : j \in 1 .. begun
                BY <1>1
            <4>2. cl.last = NoItem => cl.from = begun
                BY <2>5
            <4>3. \A j \in committed : ~(j > begun)
                BY <1>1, <4>1
            <4> QED BY <2>1, <4>2, <4>3 DEF MineOf
        <3>2. \A i \in m2 : i <= cl.last => i \in cl.got
            <4>1. CASE cl.last = NoItem
                BY <3>1, <4>1
            <4>2. CASE cl.last # NoItem
                <5>1. m2 = M(s)
                    BY <2>1, <2>5, <4>2 DEF M
                <5>2. \A i \in M(s) : i <= client[s].last => i \in client[s].got
                    BY <1>2, <2>5, <2>7 DEF Served
                <5> QED BY <2>5, <5>1, <5>2
            <4> QED BY <4>1, <4>2
        <3>3. /\ Sound(e) /\ e.seen = <<>> /\ e.rows = <<>> /\ e.queue = <<>> /\ ~e.reading
              /\ e.cursor = cl.last
              /\ e.chain = IF e.cursor # NoItem THEN <<Replay>> ELSE <<>>
            BY <2>5, <2>6
        <3> HIDE DEF m2, cl, e
        <3>4. Served(e, cl, m2, live, box)
            BY <3>1, <3>2, <3>3, ServedOpened
        <3> QED BY <2>4, <3>4 DEF m2, cl, e
    <2> HIDE DEF M2
    <2> QED BY <1>6, <2>1, <2>3, <2>4, <2>7
<1>13. ASSUME NEW s \in Stream, stream[s].open, Close({s}), UNCHANGED <<committed, late>>,
              \A t \in Stream : t # s => client'[t] = client[t],
              ~client'[s].short =>
                  \A i \in M2(s) : i <= client'[s].last => i \in client'[s].got
       PROVE  ServedInv'
    <2>1. /\ NothingNewIn(hub, hub')
          /\ \A t \in Stream : stream'[t] = IF t = s THEN NoStream ELSE stream[t]
        BY <1>1, <1>13, CloseOne
    <2>2. ~client'[s].short => Served(NoStream, client'[s], M2(s), live, box)
        <3> HIDE DEF M2
        <3> QED BY <1>13, ServedGone
    <2>3. ~client'[s].short => Served(stream'[s], client'[s], M2(s), live, box)
        BY <2>1, <2>2
    <2>4. \A t \in Stream : t # s => stream'[t] = stream[t] /\ client'[t] = client[t]
        BY <1>13, <2>1
    <2> HIDE DEF M2
    <2> QED BY <1>6, <1>13, <2>1, <2>3, <2>4
<1>14. ASSUME NEW s \in Stream, End(s)
       PROVE  ServedInv'
    <2>1. stream[s].open /\ Close({s}) /\ UNCHANGED <<committed, late>>
        BY <1>14 DEF End
    <2>2. PICK n \in 0 .. Len(stream[s].queue) :
             client' = [client EXCEPT ![s] = AfterReading(s, n)]
        BY <1>14 DEF End
    <2>3. /\ client'[s] = AfterReading(s, n)
          /\ \A t \in Stream : t # s => client'[t] = client[t]
        BY <1>1, <2>2
    <2>4. client'[s].from = client[s].from /\ client'[s].short = client[s].short
        BY <1>1, <2>3, AfterReadingFields
    <2>5. M2(s) = M(s)
        BY <2>1, <2>4 DEF M
    <2>6. ASSUME ~client'[s].short
          PROVE  \A i \in M(s) : i <= AfterReading(s, n).last => i \in AfterReading(s, n).got
        <3>1. /\ \A i \in M(s) : i <= client[s].last => i \in client[s].got
              /\ InLine(stream[s].queue, client[s].got, M(s))
            BY <1>2, <2>4, <2>6 DEF Served
        <3> QED BY <1>1, <1>4, <3>1, ReadInOrder
    <2> HIDE DEF M2
    <2>7. ~client'[s].short => \A i \in M2(s) : i <= client'[s].last => i \in client'[s].got
        BY <2>3, <2>5, <2>6
    <2> QED BY <1>13, <2>1, <2>3, <2>7 DEF M2
<1>15. ASSUME NEW s \in Stream, ReadRows(s)
       PROVE  ServedInv'
    <2> DEFINE st == stream[s]
    <2>1. PICK e :
             /\ stream' = [stream EXCEPT ![s] = e]
             /\ Sound(e) /\ e.open
             /\ e.since = stream[s].since /\ e.cursor = stream[s].cursor
             /\ e.seen = stream[s].seen /\ e.queue = stream[s].queue
             /\ e.sent = stream[s].sent
             /\ stream[s].chain # <<>> /\ ~stream[s].reading /\ stream[s].open
             /\ \/ /\ Head(stream[s].chain) = Replay
                   /\ e.reading /\ e.rows = ReplayRows(stream[s]) /\ e.chain = stream[s].chain
                \/ /\ Head(stream[s].chain) # Replay
                   /\ Head(stream[s].chain) \in ToSet(stream[s].seen)
                   /\ ~e.reading /\ e.rows = <<>> /\ e.chain = Tail(stream[s].chain)
                \/ /\ Head(stream[s].chain) # Replay
                   /\ e.reading /\ e.rows = <<Head(stream[s].chain)>>
                   /\ e.chain = stream[s].chain
        BY <1>1, <1>15, ReadRowsFields
    <2>2. /\ UNCHANGED <<hub, committed, late>>
          /\ client' = [client EXCEPT ![s].short =
                @ \/ (Head(st.chain) = Replay /\ Cardinality(After(st)) > ReplayLimit)]
        BY <1>15 DEF ReadRows
    <2>3. /\ client'[s].last = client[s].last /\ client'[s].from = client[s].from
          /\ client'[s].got = client[s].got
          /\ client'[s].short = (client[s].short
                \/ (Head(st.chain) = Replay /\ Cardinality(After(st)) > ReplayLimit))
        BY <1>1, <2>2 DEF ClientState
    <2>4. \A t \in Stream : t # s => stream'[t] = stream[t] /\ client'[t] = client[t]
        BY <1>1, <2>1, <2>2
    <2>5. stream'[s] = e /\ M2(s) = M(s)
        BY <1>1, <2>1, <2>2, <2>3 DEF M
    <2>6. ASSUME ~client'[s].short
          PROVE  Served(e, client[s], M(s), live, box)
        <3> DEFINE m == M(s)
                   cl == client[s]
        <3>1. Served(st, cl, m, live, box)
            BY <1>2, <2>3, <2>6
        <3>2. Sound(st) /\ st.open /\ ~st.reading /\ st.chain # <<>> /\ m \subseteq committed
            BY <1>1, <1>4, <2>1
        <3>3. CASE Head(st.chain) = Replay
            <4>1. Cardinality(After(st)) <= ReplayLimit
                <5>1. ~(Cardinality(After(st)) > ReplayLimit)
                    BY <2>3, <2>6, <3>3
                <5>2. Cardinality(After(st)) \in Nat /\ ReplayLimit \in Nat
                    BY <1>1, RowsOfAReplay, Items
                <5> QED BY <5>1, <5>2
            <4>2. /\ e.reading /\ e.rows = ReplayRows(st) /\ e.chain = st.chain
                  /\ e.open = st.open /\ e.since = st.since /\ e.cursor = st.cursor
                  /\ e.seen = st.seen /\ e.queue = st.queue
                BY <2>1, <3>3 DEF Sound, StreamState
            <4> HIDE DEF st, m, cl
            <4>3. Served(e, cl, m, live, box)
                BY <1>1, <3>1, <3>2, <4>1, <4>2, ServedReplayRead
            <4> QED BY <4>3 DEF m, cl
        <3>4. CASE Head(st.chain) # Replay
            <4>1. /\ \/ /\ Head(st.chain) \in ToSet(st.seen)
                        /\ ~e.reading /\ e.rows = <<>> /\ e.chain = Tail(st.chain)
                     \/ e.reading /\ e.rows = <<Head(st.chain)>> /\ e.chain = st.chain
                  /\ Sound(e) /\ e.open = st.open /\ e.since = st.since /\ e.cursor = st.cursor
                  /\ e.seen = st.seen /\ e.queue = st.queue
                BY <2>1, <3>4 DEF Sound, StreamState
            <4> HIDE DEF st, m, cl
            <4>2. Served(e, cl, m, live, box)
                BY <3>1, <3>2, <3>4, <4>1, ServedItemRead
            <4> QED BY <4>2 DEF m, cl
        <3> QED BY <3>3, <3>4
    <2>7. ASSUME ~client'[s].short
          PROVE  Served(e, client'[s], M(s), live, box)
        BY <2>3, <2>6, <2>7 DEF Served, Have, Due
    <2> HIDE DEF M2
    <2>8. ~client'[s].short => Served(stream'[s], client'[s], M2(s), live, box)
        BY <2>5, <2>7
    <2>9. NothingNewIn(hub, hub')
        BY <1>8, <2>2
    <2> QED BY <1>6, <2>2, <2>4, <2>8, <2>9 DEF M2
<1>16. ASSUME NEW s \in Stream, EmitRows(s)
       PROVE  ServedInv'
    <2>1. UNCHANGED <<committed, late, client>>
        BY <1>16 DEF EmitRows
    <2>2. /\ stream[s].open /\ stream[s].reading
          /\ \/ Close({s})
             \/ \E e : /\ stream' = [stream EXCEPT ![s] = e]
                       /\ UNCHANGED <<hub, active>>
                       /\ Sound(e) /\ e.open /\ Emitted(stream[s]).open
                       /\ e.since = stream[s].since /\ e.cursor = Emitted(stream[s]).cursor
                       /\ e.seen = Emitted(stream[s]).seen
                       /\ e.queue = Emitted(stream[s]).queue
                       /\ ~e.reading /\ e.rows = <<>> /\ e.chain = Tail(stream[s].chain)
        BY <1>1, <1>16, EmitRowsFields
    <2>3. M2(s) = M(s) /\ client'[s] = client[s]
        BY <2>1 DEF M
    <2>4. CASE Close({s})
        <3>1. ~client'[s].short => \A i \in M2(s) : i <= client'[s].last => i \in client'[s].got
            <4> HIDE DEF M2
            <4> QED BY <1>2, <2>3 DEF Served
        <3> QED BY <1>13, <2>1, <2>2, <2>4, <3>1
    <2>5. ASSUME NEW e, stream' = [stream EXCEPT ![s] = e], UNCHANGED <<hub, active>>,
                 Emitted(stream[s]).open, e.since = stream[s].since,
                 e.cursor = Emitted(stream[s]).cursor, e.seen = Emitted(stream[s]).seen,
                 e.queue = Emitted(stream[s]).queue,
                 ~e.reading, e.rows = <<>>, e.chain = Tail(stream[s].chain)
          PROVE  ServedInv'
        <3>1. /\ stream'[s] = e
              /\ \A t \in Stream : t # s => stream'[t] = stream[t] /\ client'[t] = client[t]
            BY <1>1, <2>1, <2>5
        <3> HIDE DEF M2
        <3>2. ASSUME ~client'[s].short
              PROVE  Served(e, client[s], M(s), live, box)
            <4>1. Served(stream[s], client[s], M(s), live, box)
                BY <1>2, <2>3, <3>2
            <4>2. Sound(stream[s]) /\ client[s] \in ClientState /\ M(s) \in SUBSET Item
                BY <1>1, <1>4
            <4> QED BY <2>2, <2>5, <4>1, <4>2, ServedEmitted
        <3>3. ~client'[s].short => Served(stream'[s], client'[s], M2(s), live, box)
            BY <2>3, <3>1, <3>2
        <3>4. NothingNewIn(hub, hub')
            BY <1>8, <2>5
        <3> QED BY <1>6, <2>1, <3>1, <3>3, <3>4 DEF M2
    <2> QED BY <2>2, <2>4, <2>5
<1>17. ASSUME NEW s \in Stream, Read(s)
       PROVE  ServedInv'
    <2>1. PICK e :
             /\ stream' = [stream EXCEPT ![s] = e]
             /\ Sound(e) /\ e.open /\ stream[s].open /\ stream[s].queue # <<>>
             /\ e.since = stream[s].since /\ e.cursor = stream[s].cursor
             /\ e.seen = stream[s].seen /\ e.queue = Tail(stream[s].queue)
             /\ e.sent = stream[s].sent /\ e.chain = stream[s].chain
             /\ e.reading = stream[s].reading /\ e.rows = stream[s].rows
        BY <1>1, <1>17, ReadFields
    <2>2. /\ UNCHANGED <<hub, committed, late>>
          /\ client' = [client EXCEPT ![s] = AfterReading(s, 1)]
        BY <1>17 DEF Read
    <2>3. 1 \in 0 .. Len(stream[s].queue)
        <3>1. stream[s].queue \in Seq(Item)
            BY <1>1, StreamFields
        <3> QED BY <2>1, <3>1
    <2>4. /\ AfterReading(s, 1).from = client[s].from
          /\ AfterReading(s, 1).short = client[s].short
        BY <1>1, <2>3, AfterReadingFields
    <2>5. /\ stream'[s] = e /\ client'[s] = AfterReading(s, 1)
          /\ \A t \in Stream : t # s => stream'[t] = stream[t] /\ client'[t] = client[t]
        BY <1>1, <2>1, <2>2
    <2>6. M2(s) = M(s)
        BY <2>2, <2>4, <2>5 DEF M
    <2> HIDE DEF M2
    <2>7. ASSUME ~client'[s].short
          PROVE  Served(e, AfterReading(s, 1), M(s), live, box)
        <3>1. Served(stream[s], client[s], M(s), live, box)
            BY <1>2, <2>4, <2>5, <2>7
        <3>2. e.open = stream[s].open
            BY <1>1, <2>1 DEF Sound, StreamState
        <3> QED BY <1>1, <1>4, <2>1, <3>1, <3>2, ServedRead
    <2>8. ~client'[s].short => Served(stream'[s], client'[s], M2(s), live, box)
        BY <2>5, <2>6, <2>7
    <2>9. NothingNewIn(hub, hub')
        BY <1>8, <2>2
    <2> QED BY <1>6, <2>2, <2>5, <2>8, <2>9 DEF M2
<1>18. ASSUME NEW c \in Conn, ListenSucceeds(c)
       PROVE  ServedInv'
    <2>1. /\ hub.conn[c] \in {"connecting", "dropped"} /\ hub' = Listening(hub, c)
          /\ UNCHANGED <<committed, late, client>>
          /\ stream' = IF hub.client = c THEN Resynced ELSE stream
        BY <1>18 DEF ListenSucceeds
    <2>2. CASE hub.client = c
        <3>1. stream' = [s \in Stream |-> IF s \in hub.subs THEN WithWork(stream[s], Replay)
                                          ELSE stream[s]]
            BY <2>1, <2>2 DEF Resynced
        <3>2. ASSUME NEW s \in Stream, ~client'[s].short
              PROVE  Is(s)
            <4>1. client'[s] = client[s] /\ M2(s) = M(s)
                BY <2>1 DEF M
            <4>2. Served(stream[s], client[s], M(s), live, box)
                BY <1>2, <3>2, <4>1
            <4> HIDE DEF M2
            <4>3. Served(stream'[s], client[s], M(s), live2, box2)
                <5>1. CASE s \in hub.subs
                    <6>1. stream'[s] = WithWork(stream[s], Replay)
                        BY <3>1, <5>1
                    <6>2. Sound(stream[s])
                        BY <1>1
                    <6>3. Served(WithWork(stream[s], Replay), client[s], M(s), live2, box2)
                        BY <4>2, <6>2, ServedResynced
                    <6> QED BY <6>1, <6>3
                <5>2. CASE s \notin hub.subs
                    <6>1. stream'[s] = stream[s] /\ ~stream[s].open
                        BY <1>1, <3>1, <5>2
                    <6> QED BY <4>2, <6>1 DEF Served
                <5> QED BY <5>1, <5>2
            <4> QED BY <4>1, <4>3 DEF Is, M2
        <3> QED BY <1>3, <3>2
    <2>3. CASE hub.client # c
        <3>1. NothingNewIn(hub, hub')
            BY <1>1, <2>1, <2>3, ListeningKeeps
        <3> QED BY <1>7, <2>1, <2>3, <3>1
    <2> QED BY <2>2, <2>3
<1>19. ASSUME NEW c \in Conn, ListenFails(c)
       PROVE  ServedInv'
    <2> DEFINE f == ListenFailed(hub, c)
    <2>1. /\ hub.conn[c] = "connecting" /\ UNCHANGED <<committed, late, client>>
          /\ IF hub.client = c
             THEN stream' = [s \in Stream |-> NoStream]
             ELSE hub' = f /\ UNCHANGED stream
        BY <1>19 DEF ListenFails
    <2>2. hub.client # c => NothingNewIn(hub, f)
        <3> DEFINE q == f
                   n == [q EXCEPT !.subs = {}]
        <3>1. q = ListenFailed(hub, c) /\ n = [q EXCEPT !.subs = {}]
            OBVIOUS
        <3> HIDE DEF q, n
        <3>2. hub.client # c => NothingNewIn(hub, q)
            BY <1>1, <2>1, <3>1, ListenFailedKeeps
        <3> QED BY <3>2 DEF q
    <2> HIDE DEF f
    <2>3. CASE hub.client = c
        <3>1. ASSUME NEW s \in Stream, ~client'[s].short
              PROVE  Is(s)
            <4>1. client'[s] = client[s] /\ M2(s) = M(s) /\ stream'[s] = NoStream
                BY <2>1, <2>3 DEF M
            <4>2. Served(stream[s], client[s], M(s), live, box)
                BY <1>2, <3>1, <4>1
            <4> HIDE DEF M2
            <4>3. \A i \in M(s) : i <= client[s].last => i \in client[s].got
                BY <4>2 DEF Served
            <4>4. Served(NoStream, client[s], M(s), live2, box2)
                BY <4>3, ServedGone
            <4> QED BY <4>1, <4>4 DEF Is, M2
        <3> QED BY <1>3, <3>1
    <2>4. CASE hub.client # c
        BY <1>7, <2>1, <2>2, <2>4
    <2> QED BY <2>3, <2>4
<1>20. ASSUME NEW c \in Conn, Drop(c) \/ RelistenFails(c) \/ WatchdogFires(c)
       PROVE  ServedInv'
    <2>1. UNCHANGED <<committed, late, stream, client>>
        BY <1>20 DEF Drop, RelistenFails, WatchdogFires
    <2>2. NothingNewIn(hub, hub')
        BY <1>1, <1>20, ConnectionLost
    <2> QED BY <1>7, <2>1, <2>2
<1>21. ASSUME NEW c \in Conn, Deliver(c)
       PROVE  ServedInv'
    <2> DEFINE i == Head(hub.inbox[c])
    <2>1. /\ hub.conn[c] = "live" /\ hub.inbox[c] # <<>>
          /\ hub' = Taken(hub, c)
          /\ UNCHANGED <<committed, late, client>>
        BY <1>21 DEF Deliver, Taken
    <2>2. stream' = [s \in Stream |->
             IF hub.client = c /\ s \in hub.subs /\ i \notin ToSet(stream[s].seen)
             THEN WithWork(stream[s], i) ELSE stream[s]]
        BY <1>21 DEF Deliver
    <2>3. /\ hub'.client = hub.client /\ hub'.conn = hub.conn /\ hub.client = c
          /\ hub'.inbox[c] = Tail(hub.inbox[c])
        BY <1>1, <2>1, DeliveredKeeps
    <2>4. /\ live /\ box = hub.inbox[c] /\ box2 = Tail(box) /\ box \in Seq(Item) /\ box # <<>>
        <3>1. hub.inbox[c] \in Seq(Item)
            BY <1>1, HubFields DEF HubInv
        <3> QED BY <2>1, <2>3, <3>1 DEF live, Live, box, box2, HubAssumption
    <2>5. ASSUME NEW s \in Stream, ~client'[s].short
          PROVE  Is(s)
        <3> DEFINE e == IF Head(box) \notin ToSet(stream[s].seen)
                        THEN WithWork(stream[s], Head(box)) ELSE stream[s]
        <3>1. client'[s] = client[s] /\ M2(s) = M(s)
            BY <2>1 DEF M
        <3>2. Served(stream[s], client[s], M(s), live, box) /\ Sound(stream[s])
            BY <1>1, <1>2, <2>5, <3>1
        <3> HIDE DEF M2
        <3>3. Served(stream'[s], client[s], M(s), live2, box2)
            <4>1. CASE s \in hub.subs
                <5>1. stream'[s] = e /\ stream[s].open
                    BY <1>1, <2>2, <2>3, <2>4, <4>1
                <5>2. e = IF Head(box) \notin ToSet(stream[s].seen)
                          THEN WithWork(stream[s], Head(box)) ELSE stream[s]
                    OBVIOUS
                <5> HIDE DEF e
                <5>3. Served(e, client[s], M(s), live, Tail(box))
                    BY <2>4, <3>2, <5>1, <5>2, ServedDelivered
                <5>4. live2 => live
                    BY <2>4
                <5>5. Served(e, client[s], M(s), live2, box2)
                    BY <2>4, <5>3, <5>4, ServedQuiet
                <5> QED BY <5>1, <5>5
            <4>2. CASE s \notin hub.subs
                <5>1. stream'[s] = stream[s] /\ ~stream[s].open
                    BY <1>1, <2>2, <4>2
                <5> QED BY <3>2, <5>1 DEF Served
            <4> QED BY <4>1, <4>2
        <3> QED BY <3>1, <3>3 DEF Is, M2
    <2> QED BY <1>3, <2>5
<1> QED BY <1>9, <1>10, <1>11, <1>12, <1>14, <1>15, <1>16, <1>17, <1>18, <1>19, <1>20, <1>21
        DEF Next

\* At first there is nothing to be served.
LEMMA InitServes == ASSUME HubAssumption, StreamAssumption, Init
                    PROVE  FedInv /\ ServedInv
<1>1. \A c \in Conn : hub.inbox[c] = <<>>
    BY DEF Init, HubInit
<1>2. \A s \in Stream : stream[s] = NoStream /\ client[s].last = NoItem
    BY DEF Init
<1>3. committed = {}
    BY DEF Init
<1>4. ToSet(<<>>) = {}
    BY ToSetOfNone
<1>5. \A s \in Stream : Fed(stream[s], client[s], committed)
    BY <1>2, FedGone
<1>6. FedInv
    BY <1>1, <1>3, <1>4, <1>5 DEF FedInv
<1>7. ServedInv
    <2> SUFFICES ASSUME NEW s \in Stream
                 PROVE  Served(stream[s], client[s], Mine(s), Live(hub), hub.inbox[hub.client])
        BY DEF ServedInv
    <2>1. \A i \in Mine(s) : i <= client[s].last => i \in client[s].got
        BY <1>3 DEF Mine, MineOf
    <2>2. Served(NoStream, client[s], Mine(s), Live(hub), hub.inbox[hub.client])
        BY <2>1, ServedGone
    <2> QED BY <1>2, <2>2
<1> QED BY <1>6, <1>7

\* A client whose stream is open and idle, on a live connection with nothing
\* announced, has or is being sent every committed item that began after it
\* last connected without a Last-Event-ID, through lost connections, restarts
\* of the hub and the reconnects with a Last-Event-ID that followed.  A client
\* that has read nothing has no such id: each of its connections starts anew.
\* Excepted are also an item that became visible after one with a later
\* fetched_at, and a client one of whose replays met its limit.
THEOREM NothingIsMissed == Spec => []NothingMissed
<1>1. Init => FedInv /\ ServedInv
    BY HubAssumption, StreamAssumption, InitServes
<1>2. HubStreamInv /\ FedInv /\ [Next]_vars => FedInv'
    BY HubAssumption, StreamAssumption, NextKeepsFed
<1>3. HubStreamInv /\ FedInv /\ ServedInv /\ [Next]_vars => ServedInv'
    BY HubAssumption, StreamAssumption, NextKeepsServed
<1>4. HubStreamInv /\ ServedInv => NothingMissed
    <2> SUFFICES ASSUME HubStreamInv, ServedInv, NEW s \in Stream,
                        stream[s].open, stream[s].chain = <<>>,
                        hub.client # NoConn, hub.conn[hub.client] = "live",
                        hub.inbox[hub.client] = <<>>, ~client[s].short,
                        NEW i \in committed \ late, i > client[s].from
                 PROVE  i \in client[s].got \cup ToSet(stream[s].queue)
        BY DEF NothingMissed
    <2>1. Served(stream[s], client[s], Mine(s), Live(hub), hub.inbox[hub.client])
        BY DEF ServedInv
    <2>2. Live(hub)
        BY DEF Live
    <2>3. stream[s].rows = <<>> /\ Work(stream[s]) = <<>>
        BY DEF HubStreamInv, StreamsInv, Sound, Work
    <2>4. ToSet(<<>>) = {}
        BY ToSetOfNone
    <2>5. Mine(s) \subseteq Have(stream[s], client[s])
        BY <2>1, <2>2, <2>3, <2>4 DEF Served, Due
    <2>6. i \in Mine(s)
        BY DEF Mine, MineOf
    <2> QED BY <2>5, <2>6 DEF Have
<1> QED BY <1>1, <1>2, <1>3, <1>4, HubStreamAlways, PTL DEF Spec
=============================================================================
