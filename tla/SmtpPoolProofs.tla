--------------------------- MODULE SmtpPoolProofs ---------------------------
(***************************************************************************)
(* Theorems about SmtpPool, for any number of sinks, sends and edits: the  *)
(* transports of the cache are neither leaked nor mixed up, although they  *)
(* are swapped and closed under sends that wait on them.                   *)
(***************************************************************************)
EXTENDS SmtpPool, FiniteSetTheorems, TLAPS

TransportRecord ==
    [open : BOOLEAN, failed : BOOLEAN, fp : 0 .. MaxEdits, queue : Seq(Job)]
JobRecord ==
    [pc : {"idle", "validating", "queued", "sending"}, sink : Sink \cup {"none"},
     fp : 0 .. MaxEdits, on : Transport \cup {NoTransport}]

\* TypeOK without what it counts.
Typed ==
    /\ row \in [Sink -> 0 .. MaxEdits]
    /\ entries \in [Sink -> Transport \cup {NoTransport}]
    /\ transport \in [Transport -> TransportRecord]
    /\ job \in [Job -> JobRecord]
    /\ \A j \in Job : (job[j].pc \in {"queued", "sending"}) = (job[j].on # NoTransport)
    /\ \A j \in Job : job[j].pc # "idle" => job[j].sink \in Sink

\* A mail that waits is in the queue of its transport.
Queued ==
    \A j \in Job : job[j].pc = "queued" =>
        \E i \in DOMAIN transport[job[j].on].queue : transport[job[j].on].queue[i] = j

\* If the transport of a send is cached, then for the sink of that send: what
\* ConnectionFails drops is the transport that failed, if anybody could still
\* be given it.
OwnSink ==
    \A j \in Job, s \in Sink :
        job[j].on # NoTransport /\ entries[s] = job[j].on => s = job[j].sink

\* The inductive invariant.
IInv == Typed /\ Queued /\ OwnSink /\ OpenIffCached /\ SentAsRead /\ FreshAfterFailure
-----------------------------------------------------------------------------
\* There is always a transport left for a send that has none: the others have
\* one each at most, and so has each sink.
LEMMA SomeUnused ==
    ASSUME Typed, NEW j \in Job, job[j].on = NoTransport
    PROVE  /\ Unused # {}
           /\ (CHOOSE x \in Unused : TRUE) \in Unused
<1> DEFINE Others == Job \ {j}
           on == [k \in Others |-> job[k].on]
           Cached == {entries[s] : s \in Sink}
           Taken == {on[k] : k \in Others}
<1>1. IsFiniteSet(Sink) /\ IsFiniteSet(Others) /\ IsFiniteSet(Job)
  BY SmtpPoolAssumption, FS_RemoveElement
<1>2. /\ Cardinality(Sink) \in Nat /\ Cardinality(Job) \in Nat
      /\ Cardinality(Others) = Cardinality(Job) - 1
  BY <1>1, FS_CardinalityType, FS_RemoveElement
<1>3. IsFiniteSet(Cached) /\ Cardinality(Cached) <= Cardinality(Sink)
  <2>1. entries \in Surjection(Sink, Cached)
    BY DEF Typed, Surjection
  <2>2. QED
    BY <1>1, <2>1, FS_Surjection
<1>4. IsFiniteSet(Taken) /\ Cardinality(Taken) <= Cardinality(Others)
  <2>1. on \in Surjection(Others, Taken)
    BY DEF Surjection
  <2> HIDE DEF on, Taken
  <2>2. QED
    BY <1>1, <2>1, FS_Surjection
<1>5. /\ IsFiniteSet(Cached \cup Taken)
      /\ Cardinality(Cached \cup Taken) < Cardinality(Sink) + Cardinality(Job)
  <2>1. Cardinality(Cached \cup Taken)
          = Cardinality(Cached) + Cardinality(Taken) - Cardinality(Cached \cap Taken)
    BY <1>3, <1>4, FS_Union
  <2>2. IsFiniteSet(Cached \cup Taken)
    BY <1>3, <1>4, FS_Union
  <2>3. Cardinality(Cached \cap Taken) \in Nat
    <3>1. IsFiniteSet(Cached \cap Taken)
      BY <1>3, FS_Subset
    <3>2. QED
      BY <3>1, FS_CardinalityType
  <2>4. Cardinality(Cached) \in Nat /\ Cardinality(Taken) \in Nat
    BY <1>3, <1>4, FS_CardinalityType
  <2> HIDE DEF Cached, Taken, Others
  <2>5. QED
    BY <1>2, <1>3, <1>4, <2>1, <2>2, <2>3, <2>4
<1>6. Cardinality(Transport) = Cardinality(Sink) + Cardinality(Job)
  BY <1>2, FS_Interval DEF Transport
<1>7. ASSUME Unused = {} PROVE FALSE
  <2>1. Transport \subseteq Cached \cup Taken
    <3>1. ASSUME NEW t \in Transport PROVE t \in Cached \cup Taken
      <4>1. t # NoTransport
        BY <1>2 DEF Transport, NoTransport
      <4>2. (\E s \in Sink : entries[s] = t) \/ (\E k \in Job : job[k].on = t)
        BY <1>7 DEF Unused
      <4>3. ASSUME NEW k \in Job, job[k].on = t PROVE t \in Taken
        <5>1. k \in Others
          BY <4>1, <4>3
        <5>2. QED
          BY <4>3, <5>1
      <4>4. QED
        BY <4>2, <4>3
    <3>2. QED
      BY <3>1
  <2>2. Cardinality(Transport) <= Cardinality(Cached \cup Taken)
    BY <1>5, <2>1, FS_Subset
  <2>3. Cardinality(Cached \cup Taken) \in Nat
    BY <1>5, FS_CardinalityType
  <2> HIDE DEF Cached, Taken, Others
  <2>4. QED
    BY <1>2, <1>5, <1>6, <2>2, <2>3
<1>8. QED
  BY <1>7
-----------------------------------------------------------------------------
(* Closing and dropping.                                                   *)

LEMMA CloseEffect ==
    ASSUME Typed, NEW t \in Transport \cup {NoTransport}
    PROVE  /\ Close(t) \in [Transport -> TransportRecord]
           /\ \A x \in Transport :
                 /\ Close(t)[x].open = (transport[x].open /\ x # t)
                 /\ Close(t)[x].failed = transport[x].failed
                 /\ Close(t)[x].fp = transport[x].fp
                 /\ Close(t)[x].queue = transport[x].queue
<1>0. NoTransport \notin Transport
  <2>1. Cardinality(Sink) \in Nat /\ Cardinality(Job) \in Nat
    BY SmtpPoolAssumption, FS_CardinalityType
  <2>2. QED
    BY <2>1 DEF Transport, NoTransport
<1>1. CASE t = NoTransport
  BY <1>0, <1>1 DEF Close, Typed, TransportRecord
<1>2. CASE t # NoTransport
  <2>1. \A x \in Transport :
           Close(t)[x] = IF x = t THEN [transport[x] EXCEPT !.open = FALSE] ELSE transport[x]
    BY <1>2 DEF Close, Typed
  <2>2. \A x \in Transport : transport[x] \in TransportRecord
    BY DEF Typed
  <2>3. Close(t) \in [Transport -> TransportRecord]
    BY <1>2, <2>2 DEF Close, Typed, TransportRecord
  <2>4. QED
    BY <2>1, <2>2, <2>3 DEF TransportRecord
<1>3. QED
  BY <1>1, <1>2

\* The transport that leaves the cache is the one that is closed, and no other
\* sink has it.
LEMMA DropKeepsOpenIffCached ==
    ASSUME Typed, OpenIffCached, NEW s \in Sink, entries' = Forget(s),
           \A x \in Transport : transport'[x].open = (transport[x].open /\ x # entries[s])
    PROVE  OpenIffCached'
<1>1. \A u \in Sink : entries'[u] = IF u = s THEN NoTransport ELSE entries[u]
  BY DEF Forget, Typed
<1>2. NoTransport \notin Transport
  <2>1. Cardinality(Sink) \in Nat /\ Cardinality(Job) \in Nat
    BY SmtpPoolAssumption, FS_CardinalityType
  <2>2. QED
    BY <2>1 DEF Transport, NoTransport
<1>3. ASSUME NEW t \in Transport
      PROVE  transport'[t].open = \E u \in Sink : entries'[u] = t
  <2>1. (\E u \in Sink : entries'[u] = t)
           <=> (\E u \in Sink : entries[u] = t) /\ t # entries[s]
    BY <1>1, <1>2 DEF OpenIffCached
  <2>2. transport[t].open = \E u \in Sink : entries[u] = t
    BY DEF OpenIffCached
  <2>3. transport'[t].open = (transport[t].open /\ t # entries[s])
    OBVIOUS
  <2>4. QED
    BY <2>1, <2>2, <2>3
<1>4. ASSUME NEW u \in Sink, NEW v \in Sink, u # v, entries'[u] # NoTransport
      PROVE  entries'[u] # entries'[v]
  BY <1>1, <1>4 DEF OpenIffCached
<1>5. QED
  BY <1>3, <1>4 DEF OpenIffCached

\* A send that ends, or whose sink loses its transport, disturbs no other.
LEMMA EndsTyped ==
    ASSUME Typed, NEW j \in Job, job' = [job EXCEPT ![j] = Idle]
    PROVE  /\ job' \in [Job -> JobRecord]
           /\ job'[j].on = NoTransport /\ job'[j].pc = "idle"
           /\ \A k \in Job : k # j => job'[k] = job[k]
<1>1. Idle \in JobRecord
  BY SmtpPoolAssumption DEF Idle, JobRecord
<1>2. QED
  BY <1>1 DEF Typed, Idle

LEMMA SweepKeeps ==
    ASSUME IInv, NEW s \in Sink, Sweep(s)
    PROVE  IInv'
<1>1. entries[s] \in Transport \cup {NoTransport} /\ Typed
  BY DEF IInv, Typed
<1>2. /\ transport' = Close(entries[s]) /\ entries' = Forget(s)
      /\ UNCHANGED <<row, job>>
  BY DEF Sweep, Drop
<1>3. \A u \in Sink : entries'[u] = IF u = s THEN NoTransport ELSE entries[u]
  BY <1>1, <1>2 DEF Forget, Typed
<1>4. \A j \in Job : job[j].on \in Transport \cup {NoTransport}
  BY <1>1 DEF Typed, JobRecord
<1>5. Typed'
  BY <1>1, <1>2, CloseEffect DEF Typed, Forget
<1>6. Queued'
  <2>1. ASSUME NEW j \in Job, job[j].pc = "queued"
        PROVE  transport'[job[j].on].queue = transport[job[j].on].queue
    <3>1. job[j].on \in Transport
      BY <1>1, <1>4, <2>1 DEF Typed
    <3>2. QED
      BY <1>1, <1>2, <3>1, CloseEffect
  <2>2. QED
    BY <1>2, <2>1 DEF IInv, Queued
<1>7. OwnSink'
  BY <1>2, <1>3, <1>4 DEF IInv, OwnSink
<1>8. OpenIffCached'
  BY <1>1, <1>2, CloseEffect, DropKeepsOpenIffCached DEF IInv
<1>9. SentAsRead'
  BY <1>1, <1>2, <1>4, CloseEffect DEF IInv, SentAsRead
<1>10. FreshAfterFailure'
  <2>1. ASSUME NEW u \in Sink, entries'[u] # NoTransport
        PROVE  ~transport'[entries'[u]].failed
    <3>1. entries'[u] = entries[u] /\ entries[u] \in Transport
      BY <1>1, <1>3, <2>1 DEF Typed
    <3>2. transport'[entries[u]].failed = transport[entries[u]].failed
      BY <1>1, <1>2, <3>1, CloseEffect
    <3>3. QED
      BY <2>1, <3>1, <3>2 DEF IInv, FreshAfterFailure
  <2>2. QED
    BY <2>1 DEF FreshAfterFailure
<1>11. QED
  BY <1>5, <1>6, <1>7, <1>8, <1>9, <1>10 DEF IInv

LEMMA OnTypes ==
    ASSUME Typed
    PROVE  /\ NoTransport \notin Transport
           /\ \A j \in Job : job[j].on \in Transport \cup {NoTransport}
           /\ \A j \in Job : job[j].pc \in {"queued", "sending"} => job[j].on \in Transport
           /\ \A s \in Sink : entries[s] \in Transport \cup {NoTransport}
<1>1. Cardinality(Sink) \in Nat /\ Cardinality(Job) \in Nat
  BY SmtpPoolAssumption, FS_CardinalityType
<1>2. QED
  BY <1>1 DEF Transport, NoTransport, Typed, JobRecord

\* While the cache stays as it is and nothing opens, closes or fails.
LEMMA SameEntriesKeep ==
    ASSUME Typed, OpenIffCached, FreshAfterFailure, entries' = entries,
           \A x \in Transport : /\ transport'[x].open = transport[x].open
                                /\ transport'[x].failed = transport[x].failed
    PROVE  OpenIffCached' /\ FreshAfterFailure'
<1>1. ASSUME NEW t \in Transport
      PROVE  transport'[t].open = \E u \in Sink : entries'[u] = t
  <2>1. transport[t].open = \E u \in Sink : entries[u] = t
    BY DEF OpenIffCached
  <2>2. transport'[t].open = transport[t].open
    OBVIOUS
  <2>3. QED
    BY <2>1, <2>2
<1>2. \A u, v \in Sink :
         u # v /\ entries'[u] # NoTransport => entries'[u] # entries'[v]
  BY DEF OpenIffCached
<1>3. ASSUME NEW u \in Sink, entries'[u] # NoTransport
      PROVE  ~transport'[entries'[u]].failed
  <2>1. entries[u] \in Transport /\ entries'[u] = entries[u]
    BY <1>3, OnTypes
  <2>2. transport'[entries[u]].failed = transport[entries[u]].failed
    BY <2>1
  <2>3. QED
    BY <1>3, <2>1, <2>2 DEF FreshAfterFailure
<1>4. QED
  BY <1>1, <1>2, <1>3 DEF OpenIffCached, FreshAfterFailure

-----------------------------------------------------------------------------
(* Sends that have no transport after the step, or keep theirs.            *)

LEMMA OffTransportKeeps ==
    ASSUME IInv, NEW j \in Job, row' \in [Sink -> 0 .. MaxEdits],
           UNCHANGED <<entries, transport>>, job' \in [Job -> JobRecord],
           job'[j].on = NoTransport, job'[j].pc \in {"idle", "validating"},
           job'[j].pc = "validating" => job'[j].sink \in Sink,
           \A k \in Job : k # j => job'[k] = job[k]
    PROVE  IInv'
<1>1. Typed'
  BY DEF IInv, Typed
<1>2. Queued'
  BY DEF IInv, Queued
<1>3. OwnSink' /\ SentAsRead'
  BY DEF IInv, OwnSink, SentAsRead
<1>4. OpenIffCached' /\ FreshAfterFailure'
  BY DEF IInv, OpenIffCached, FreshAfterFailure
<1>5. QED
  BY <1>1, <1>2, <1>3, <1>4 DEF IInv

LEMMA BeginKeeps ==
    ASSUME IInv, NEW j \in Job, NEW s \in Sink, Begin(j, s)
    PROVE  IInv'
<1> DEFINE new == [Idle EXCEPT !.pc = "validating", !.sink = s, !.fp = row[s]]
<1>1. new \in JobRecord /\ new.on = NoTransport /\ new.pc = "validating" /\ new.sink = s
  BY DEF IInv, Typed, Idle, JobRecord
<1>2. job' = [job EXCEPT ![j] = new] /\ UNCHANGED <<row, entries, transport>>
  BY DEF Begin
<1> HIDE DEF new
<1>3. job' \in [Job -> JobRecord] /\ job'[j] = new /\ \A k \in Job : k # j => job'[k] = job[k]
  BY <1>1, <1>2 DEF IInv, Typed
<1>4. row' \in [Sink -> 0 .. MaxEdits]
  BY <1>2 DEF IInv, Typed
<1>5. QED
  BY <1>1, <1>2, <1>3, <1>4, OffTransportKeeps

LEMMA EndKeeps ==
    ASSUME IInv, NEW j \in Job, job' = [job EXCEPT ![j] = Idle],
           UNCHANGED <<row, entries, transport>>
    PROVE  IInv'
<1>1. row' \in [Sink -> 0 .. MaxEdits] /\ Typed
  BY DEF IInv, Typed
<1>2. QED
  BY <1>1, EndsTyped, OffTransportKeeps

LEMMA EditKeeps ==
    ASSUME IInv, NEW s \in Sink, EditSink(s)
    PROVE  IInv'
<1>1. row' \in [Sink -> 0 .. MaxEdits]
  BY SmtpPoolAssumption DEF EditSink, IInv, Typed
<1>2. QED
  BY <1>1 DEF EditSink, IInv, Typed, Queued, OwnSink, OpenIffCached, SentAsRead,
              FreshAfterFailure

-----------------------------------------------------------------------------
(* The head of a queue leaves it.                                          *)

LEMMA DequeueEffect ==
    ASSUME NEW tr \in [Transport -> TransportRecord], NEW t \in Transport,
           tr[t].queue # <<>>
    PROVE  LET new == [tr EXCEPT ![t].queue = Tail(@)]
           IN  /\ new \in [Transport -> TransportRecord]
               /\ \A x \in Transport : /\ new[x].open = tr[x].open
                                       /\ new[x].failed = tr[x].failed
                                       /\ new[x].fp = tr[x].fp
                                       /\ x # t => new[x].queue = tr[x].queue
               /\ new[t].queue = Tail(tr[t].queue)
<1> DEFINE new == [tr EXCEPT ![t].queue = Tail(@)]
<1>1. tr[t] \in TransportRecord /\ Tail(tr[t].queue) \in Seq(Job)
  BY DEF TransportRecord
<1>2. \A x \in Transport :
         new[x] = IF x = t THEN [tr[t] EXCEPT !.queue = Tail(tr[t].queue)] ELSE tr[x]
  OBVIOUS
<1>3. [tr[t] EXCEPT !.queue = Tail(tr[t].queue)] \in TransportRecord
  BY <1>1 DEF TransportRecord
<1>4. QED
  BY <1>1, <1>2, <1>3 DEF TransportRecord

LEMMA StillQueued ==
    ASSUME NEW q \in Seq(Job), q # <<>>, NEW j \in Job, Head(q) = j,
           NEW k \in Job, k # j, NEW i \in DOMAIN q, q[i] = k
    PROVE  \E n \in DOMAIN Tail(q) : Tail(q)[n] = k
<1>1. i \in 2 .. Len(q)
  OBVIOUS
<1>2. i - 1 \in DOMAIN Tail(q) /\ Tail(q)[i - 1] = k
  BY <1>1
<1>3. QED
  BY <1>2

\* After j, the head of the queue of its transport, has left, the others still
\* wait in theirs.
LEMMA DequeueKeepsQueued ==
    ASSUME Typed, Queued, NEW j \in Job, job[j].pc = "queued",
           Head(transport[job[j].on].queue) = j,
           \A x \in Transport : x # job[j].on => transport'[x].queue = transport[x].queue,
           transport'[job[j].on].queue = Tail(transport[job[j].on].queue),
           job'[j].pc # "queued", \A k \in Job : k # j => job'[k] = job[k]
    PROVE  transport[job[j].on].queue # <<>> /\ Queued'
<1> DEFINE t == job[j].on
           q == transport[t].queue
<1>1. t \in Transport /\ q \in Seq(Job)
  BY OnTypes DEF Typed, TransportRecord
<1>2. q # <<>>
  BY <1>1 DEF Queued
<1>3. ASSUME NEW k \in Job, job'[k].pc = "queued"
      PROVE  \E i \in DOMAIN transport'[job'[k].on].queue :
                transport'[job'[k].on].queue[i] = k
  <2>1. k # j /\ job'[k] = job[k] /\ job[k].on \in Transport
    BY <1>3, OnTypes
  <2>2. PICK i \in DOMAIN transport[job[k].on].queue : transport[job[k].on].queue[i] = k
    BY <1>3, <2>1 DEF Queued
  <2>3. CASE job[k].on = t
    <3>1. i \in DOMAIN q /\ q[i] = k
      BY <2>2, <2>3
    <3>2. PICK n \in DOMAIN Tail(q) : Tail(q)[n] = k
      BY <1>1, <1>2, <2>1, <3>1, StillQueued
    <3>3. transport'[job'[k].on].queue = Tail(q)
      BY <2>1, <2>3
    <3>4. QED
      BY <3>2, <3>3
  <2>4. CASE job[k].on # t
    <3>1. transport'[job'[k].on].queue = transport[job[k].on].queue
      BY <2>1, <2>4
    <3>2. QED
      BY <2>2, <3>1
  <2>5. QED
    BY <2>3, <2>4
<1>4. QED
  BY <1>2, <1>3 DEF Queued

LEMMA TakeUpKeeps ==
    ASSUME IInv, NEW j \in Job, TakeUp(j)
    PROVE  IInv'
<1> DEFINE t == job[j].on
<1>1. /\ Typed /\ Queued /\ job[j].pc = "queued" /\ Head(transport[t].queue) = j
      /\ transport \in [Transport -> TransportRecord] /\ t \in Transport
  BY OnTypes DEF IInv, Typed, TakeUp, IsNext
<1>2. transport[t].queue # <<>>
  BY <1>1 DEF Queued
<1>3. /\ job' = [job EXCEPT ![j].pc = "sending"]
      /\ transport' = [transport EXCEPT ![t].queue = Tail(@)]
      /\ UNCHANGED <<row, entries>>
  BY DEF TakeUp
<1>4. /\ transport' \in [Transport -> TransportRecord]
      /\ \A x \in Transport : /\ transport'[x].open = transport[x].open
                              /\ transport'[x].failed = transport[x].failed
                              /\ transport'[x].fp = transport[x].fp
                              /\ x # t => transport'[x].queue = transport[x].queue
      /\ transport'[t].queue = Tail(transport[t].queue)
  BY <1>1, <1>2, <1>3, DequeueEffect
<1>5. /\ job' \in [Job -> JobRecord]
      /\ job'[j].pc = "sending"
      /\ \A k \in Job : k # j => job'[k] = job[k]
      /\ \A k \in Job : /\ job'[k].on = job[k].on /\ job'[k].fp = job[k].fp
                        /\ job'[k].sink = job[k].sink
  BY <1>1, <1>3 DEF Typed, JobRecord
<1>6. Typed'
  BY <1>1, <1>3, <1>4, <1>5 DEF Typed
<1>7. Queued'
  BY <1>1, <1>4, <1>5, DequeueKeepsQueued
<1>8. OwnSink'
  BY <1>3, <1>5 DEF IInv, OwnSink
<1>9. OpenIffCached' /\ FreshAfterFailure'
  BY <1>3, <1>4, SameEntriesKeep DEF IInv
<1>10. SentAsRead'
  BY <1>1, <1>4, <1>5, OnTypes DEF IInv, SentAsRead
<1>11. QED
  BY <1>6, <1>7, <1>8, <1>9, <1>10 DEF IInv

-----------------------------------------------------------------------------
(* A send that ends as the cache drops the transport of its sink.          *)

\* The common part of ConnectionFails and PoolWasClosed.
LEMMA EndWithDropKeeps ==
    ASSUME IInv, NEW j \in Job, NEW s \in Sink, row' = row, entries' = Forget(s),
           job' = [job EXCEPT ![j] = Idle], Queued',
           transport' \in [Transport -> TransportRecord],
           \A x \in Transport :
              /\ transport'[x].open = (transport[x].open /\ x # entries[s])
              /\ transport'[x].fp = transport[x].fp,
           \A x \in Transport, u \in Sink :
              u # s /\ entries[u] = x => transport'[x].failed = transport[x].failed
    PROVE  IInv'
<1>1. Typed /\ NoTransport \notin Transport
  BY OnTypes DEF IInv
<1>2. /\ job' \in [Job -> JobRecord]
      /\ job'[j].on = NoTransport /\ job'[j].pc = "idle"
      /\ \A k \in Job : k # j => job'[k] = job[k]
  BY <1>1, EndsTyped
<1>3. /\ entries' \in [Sink -> Transport \cup {NoTransport}]
      /\ \A u \in Sink : entries'[u] = IF u = s THEN NoTransport ELSE entries[u]
  BY <1>1 DEF Typed, Forget
<1>4. Typed'
  BY <1>1, <1>2, <1>3 DEF Typed
<1>5. OwnSink'
  <2>1. ASSUME NEW k \in Job, NEW u \in Sink,
               job'[k].on # NoTransport, entries'[u] = job'[k].on
        PROVE  u = job'[k].sink
    <3>1. k # j /\ job'[k] = job[k] /\ entries[u] = job[k].on
      BY <1>2, <1>3, <2>1
    <3>2. QED
      BY <2>1, <3>1 DEF IInv, OwnSink
  <2>2. QED
    BY <2>1 DEF OwnSink
<1>6. OpenIffCached'
  BY <1>1, DropKeepsOpenIffCached DEF IInv
<1>7. SentAsRead'
  <2>1. ASSUME NEW k \in Job, job'[k].on # NoTransport
        PROVE  transport'[job'[k].on].fp = job'[k].fp
    <3>1. k # j /\ job'[k] = job[k] /\ job[k].on \in Transport
      BY <1>1, <1>2, <2>1, OnTypes
    <3>2. transport'[job[k].on].fp = transport[job[k].on].fp
      BY <3>1
    <3>3. QED
      BY <2>1, <3>1, <3>2 DEF IInv, SentAsRead
  <2>2. QED
    BY <2>1 DEF SentAsRead
<1>8. FreshAfterFailure'
  <2>1. ASSUME NEW u \in Sink, entries'[u] # NoTransport
        PROVE  ~transport'[entries'[u]].failed
    <3>1. u # s /\ entries'[u] = entries[u] /\ entries[u] \in Transport
      BY <1>1, <1>3, <2>1, OnTypes
    <3>2. transport'[entries[u]].failed = transport[entries[u]].failed
      BY <3>1
    <3>3. QED
      BY <2>1, <3>1, <3>2 DEF IInv, FreshAfterFailure
  <2>2. QED
    BY <2>1 DEF FreshAfterFailure
<1>9. QED
  BY <1>4, <1>5, <1>6, <1>7, <1>8 DEF IInv

\* The transport that fails is the one its sink loses, or nobody has it.
LEMMA ConnectionFailsKeeps ==
    ASSUME IInv, NEW j \in Job, ConnectionFails(j)
    PROVE  IInv'
<1> DEFINE s == job[j].sink
           t == job[j].on
           tr == Close(entries[s])
<1>1. /\ Typed /\ job[j].pc = "sending" /\ t \in Transport /\ s \in Sink
      /\ entries[s] \in Transport \cup {NoTransport}
  BY OnTypes DEF IInv, Typed, ConnectionFails
<1>2. /\ transport' = [tr EXCEPT ![t].failed = TRUE] /\ entries' = Forget(s)
      /\ job' = [job EXCEPT ![j] = Idle] /\ row' = row
  BY DEF ConnectionFails, Evict
<1>3. /\ tr \in [Transport -> TransportRecord]
      /\ \A x \in Transport : /\ tr[x].open = (transport[x].open /\ x # entries[s])
                              /\ tr[x].failed = transport[x].failed
                              /\ tr[x].fp = transport[x].fp
                              /\ tr[x].queue = transport[x].queue
  BY <1>1, CloseEffect
<1> HIDE DEF tr
<1>4. /\ transport' \in [Transport -> TransportRecord]
      /\ \A x \in Transport : /\ transport'[x].open = tr[x].open
                              /\ x # t => transport'[x].failed = tr[x].failed
                              /\ transport'[x].fp = tr[x].fp
                              /\ transport'[x].queue = tr[x].queue
  <2>1. \A x \in Transport :
           transport'[x] = IF x = t THEN [tr[t] EXCEPT !.failed = TRUE] ELSE tr[x]
    BY <1>1, <1>2, <1>3
  <2>2. [tr[t] EXCEPT !.failed = TRUE] \in TransportRecord
    BY <1>1, <1>3 DEF TransportRecord
  <2>3. transport' \in [Transport -> TransportRecord]
    BY <1>1, <1>2, <1>3, <2>2
  <2>4. \A x \in Transport : tr[x] \in TransportRecord
    BY <1>3
  <2>5. QED
    BY <2>1, <2>3, <2>4 DEF TransportRecord
<1>5. Queued'
  <2>1. ASSUME NEW k \in Job, job'[k].pc = "queued"
        PROVE  \E i \in DOMAIN transport'[job'[k].on].queue :
                  transport'[job'[k].on].queue[i] = k
    <3>1. k # j /\ job'[k] = job[k]
      BY <1>1, <1>2, <2>1, EndsTyped
    <3>2. job[k].on \in Transport
      BY <1>1, <2>1, <3>1, OnTypes
    <3>3. transport'[job[k].on].queue = transport[job[k].on].queue
      BY <1>3, <1>4, <3>2
    <3>4. QED
      BY <2>1, <3>1, <3>3 DEF IInv, Queued
  <2>2. QED
    BY <2>1 DEF Queued
<1>6. ASSUME NEW x \in Transport, NEW u \in Sink, u # s, entries[u] = x
      PROVE  transport'[x].failed = transport[x].failed
  <2>1. x # t
    BY <1>1, <1>6, OnTypes DEF IInv, OwnSink
  <2>2. QED
    BY <1>3, <1>4, <2>1
<1>7. ASSUME NEW x \in Transport
      PROVE  transport'[x].open = (transport[x].open /\ x # entries[s])
  <2>1. transport'[x].open = tr[x].open
    BY <1>4
  <2>2. tr[x].open = (transport[x].open /\ x # entries[s])
    BY <1>3
  <2>3. QED
    BY <2>1, <2>2
<1>8. \A x \in Transport : /\ transport'[x].open = (transport[x].open /\ x # entries[s])
                           /\ transport'[x].fp = transport[x].fp
  BY <1>3, <1>4, <1>7
<1>9. \A x \in Transport, u \in Sink :
         u # s /\ entries[u] = x => transport'[x].failed = transport[x].failed
  BY <1>6
<1>10. transport' \in [Transport -> TransportRecord]
  BY <1>4
<1>11. QED
  BY <1>1, <1>2, <1>5, <1>8, <1>9, <1>10, EndWithDropKeeps

LEMMA PoolWasClosedKeeps ==
    ASSUME IInv, NEW j \in Job, PoolWasClosed(j)
    PROVE  IInv'
<1> DEFINE s == job[j].sink
           t == job[j].on
           tr == Close(entries[s])
<1>1. /\ Typed /\ Queued /\ job[j].pc = "queued" /\ Head(transport[t].queue) = j
      /\ t \in Transport /\ s \in Sink
      /\ entries[s] \in Transport \cup {NoTransport}
  BY OnTypes DEF IInv, Typed, PoolWasClosed, IsNext
<1>2. transport[t].queue # <<>>
  BY <1>1 DEF Queued
<1>3. /\ transport' = [tr EXCEPT ![t].queue = Tail(@)] /\ entries' = Forget(s)
      /\ job' = [job EXCEPT ![j] = Idle] /\ row' = row
  BY DEF PoolWasClosed
<1>4. /\ tr \in [Transport -> TransportRecord]
      /\ \A x \in Transport : /\ tr[x].open = (transport[x].open /\ x # entries[s])
                              /\ tr[x].failed = transport[x].failed
                              /\ tr[x].fp = transport[x].fp
                              /\ tr[x].queue = transport[x].queue
  BY <1>1, CloseEffect
<1> HIDE DEF tr
<1>5. tr[t].queue # <<>>
  BY <1>1, <1>2, <1>4
<1>6. /\ transport' \in [Transport -> TransportRecord]
      /\ \A x \in Transport : /\ transport'[x].open = tr[x].open
                              /\ transport'[x].failed = tr[x].failed
                              /\ transport'[x].fp = tr[x].fp
                              /\ x # t => transport'[x].queue = tr[x].queue
      /\ transport'[t].queue = Tail(tr[t].queue)
  BY <1>1, <1>3, <1>4, <1>5, DequeueEffect
<1>7. job'[j].pc # "queued" /\ \A k \in Job : k # j => job'[k] = job[k]
  BY <1>1, <1>3, EndsTyped
<1>8. Queued'
  <2>1. \A x \in Transport : x # t => transport'[x].queue = transport[x].queue
    BY <1>4, <1>6
  <2>2. transport'[t].queue = Tail(transport[t].queue)
    BY <1>1, <1>4, <1>6
  <2>3. QED
    BY <1>1, <1>7, <2>1, <2>2, DequeueKeepsQueued
<1>9. ASSUME NEW x \in Transport
      PROVE  transport'[x].open = (transport[x].open /\ x # entries[s])
  <2>1. transport'[x].open = tr[x].open
    BY <1>6
  <2>2. tr[x].open = (transport[x].open /\ x # entries[s])
    BY <1>4
  <2>3. QED
    BY <2>1, <2>2
<1>10. \A x \in Transport : /\ transport'[x].fp = transport[x].fp
                            /\ transport'[x].failed = transport[x].failed
  <2>1. ASSUME NEW x \in Transport
        PROVE  transport'[x].failed = transport[x].failed
    <3>1. transport'[x].failed = tr[x].failed
      BY <1>6
    <3>2. tr[x].failed = transport[x].failed
      BY <1>4
    <3>3. QED
      BY <3>1, <3>2
  <2>2. QED
    BY <1>4, <1>6, <2>1
<1>11. QED
  BY <1>1, <1>3, <1>6, <1>8, <1>9, <1>10, EndWithDropKeeps

-----------------------------------------------------------------------------
(* A send gets its transport.                                              *)

LEMMA LastOfAppend ==
    ASSUME NEW q \in Seq(Job), NEW j \in Job
    PROVE  \E i \in DOMAIN Append(q, j) : Append(q, j)[i] = j
<1>1. Len(q) \in Nat
  OBVIOUS
<1>2. Append(q, j)[Len(q) + 1] = j
  OBVIOUS
<1>3. Len(q) + 1 \in DOMAIN Append(q, j)
  <2>1. Len(Append(q, j)) = Len(q) + 1 /\ Append(q, j) \in Seq(Job)
    OBVIOUS
  <2>2. DOMAIN Append(q, j) = 1 .. Len(Append(q, j))
    BY <2>1
  <2>3. QED
    BY <1>1, <2>1, <2>2
<1>4. QED
  BY <1>2, <1>3

\* The cached one, which is its sink's and was made from what it has read.
LEMMA HitKeeps ==
    ASSUME IInv, NEW j \in Job, job[j].pc = "validating", row' = row,
           Hit(job[j].sink, job[j].fp), GetTransport(j)
    PROVE  IInv'
<1> DEFINE s == job[j].sink
           t == entries[s]
           new == [transport[t] EXCEPT !.queue = Append(@, j)]
<1>1. /\ Typed /\ s \in Sink /\ t \in Transport /\ job[j].on = NoTransport
      /\ transport[t].fp = job[j].fp
  BY OnTypes DEF IInv, Typed, Hit
<1>2. /\ job' = [job EXCEPT ![j].pc = "queued", ![j].on = t]
      /\ transport' = [transport EXCEPT ![t].queue = Append(@, j)]
      /\ entries' = entries
  BY DEF GetTransport
<1>3. /\ job' \in [Job -> JobRecord]
      /\ job'[j].pc = "queued" /\ job'[j].on = t /\ job'[j].sink = s
      /\ job'[j].fp = job[j].fp
      /\ \A k \in Job : k # j => job'[k] = job[k]
  BY <1>1, <1>2 DEF Typed, JobRecord
<1>4. /\ transport \in [Transport -> TransportRecord]
      /\ transport[t].queue \in Seq(Job) /\ transport[t] \in TransportRecord
  BY <1>1 DEF Typed, TransportRecord
<1>5. new \in TransportRecord
  <2>1. Append(transport[t].queue, j) \in Seq(Job)
    BY <1>4
  <2>2. QED
    BY <1>4, <2>1 DEF TransportRecord
<1>6. /\ transport' \in [Transport -> TransportRecord]
      /\ \A x \in Transport : transport'[x] = IF x = t THEN new ELSE transport[x]
  BY <1>1, <1>2, <1>4, <1>5
<1>7. /\ new.open = transport[t].open /\ new.failed = transport[t].failed
      /\ new.fp = transport[t].fp /\ new.queue = Append(transport[t].queue, j)
  BY <1>4 DEF TransportRecord
<1> HIDE DEF new
<1>8. /\ \A x \in Transport : /\ transport'[x].open = transport[x].open
                              /\ transport'[x].failed = transport[x].failed
                              /\ transport'[x].fp = transport[x].fp
                              /\ x # t => transport'[x].queue = transport[x].queue
      /\ transport'[t].queue = Append(transport[t].queue, j)
  <2>1. ASSUME NEW x \in Transport
        PROVE  /\ transport'[x].open = transport[x].open
               /\ transport'[x].failed = transport[x].failed
               /\ transport'[x].fp = transport[x].fp
               /\ x # t => transport'[x].queue = transport[x].queue
    <3>1. CASE x = t
      BY <1>6, <1>7, <3>1
    <3>2. CASE x # t
      BY <1>6, <3>2
    <3>3. QED
      BY <3>1, <3>2
  <2>2. transport'[t].queue = Append(transport[t].queue, j)
    BY <1>1, <1>6, <1>7
  <2>3. QED
    BY <2>1, <2>2
<1>9. Typed'
  <2>1. \A k \in Job : (job'[k].pc \in {"queued", "sending"}) = (job'[k].on # NoTransport)
    BY <1>1, <1>3, OnTypes DEF Typed
  <2>2. QED
    BY <1>1, <1>2, <1>3, <1>6, <2>1 DEF Typed
<1>10. Queued'
  <2>1. ASSUME NEW k \in Job, job'[k].pc = "queued"
        PROVE  \E i \in DOMAIN transport'[job'[k].on].queue :
                  transport'[job'[k].on].queue[i] = k
    <3>1. CASE k = j
      <4>1. \E i \in DOMAIN Append(transport[t].queue, j) :
               Append(transport[t].queue, j)[i] = j
        BY <1>4, LastOfAppend
      <4>2. transport'[job'[k].on].queue = Append(transport[t].queue, j)
        BY <1>3, <1>8, <3>1
      <4>3. QED
        BY <3>1, <4>1, <4>2
    <3>2. CASE k # j
      <4>1. job'[k] = job[k] /\ job[k].on \in Transport
        BY <1>1, <1>3, <2>1, <3>2, OnTypes
      <4>2. PICK i \in DOMAIN transport[job[k].on].queue :
                     transport[job[k].on].queue[i] = k
        BY <2>1, <4>1 DEF IInv, Queued
      <4>3. /\ i \in DOMAIN transport'[job[k].on].queue
            /\ transport'[job[k].on].queue[i] = k
        <5>1. CASE job[k].on = t
          <6>1. i \in DOMAIN transport[t].queue /\ transport[t].queue[i] = k
            BY <4>2, <5>1
          <6>2. /\ i \in DOMAIN Append(transport[t].queue, j)
                /\ Append(transport[t].queue, j)[i] = k
            BY <1>4, <6>1
          <6>3. QED
            BY <1>8, <5>1, <6>2
        <5>2. CASE job[k].on # t
          BY <1>8, <4>1, <4>2, <5>2
        <5>3. QED
          BY <5>1, <5>2
      <4>4. QED
        BY <4>1, <4>3
    <3>3. QED
      BY <3>1, <3>2
  <2>2. QED
    BY <2>1 DEF Queued
<1>11. OwnSink'
  <2>1. ASSUME NEW k \in Job, NEW u \in Sink,
               job'[k].on # NoTransport, entries'[u] = job'[k].on
        PROVE  u = job'[k].sink
    <3>1. CASE k = j
      <4>1. entries[u] = entries[s] /\ entries[s] # NoTransport
        BY <1>1, <1>2, <1>3, <2>1, <3>1, OnTypes
      <4>2. u = s
        BY <1>1, <4>1 DEF IInv, OpenIffCached
      <4>3. QED
        BY <1>3, <3>1, <4>2
    <3>2. CASE k # j
      BY <1>2, <1>3, <2>1, <3>2 DEF IInv, OwnSink
    <3>3. QED
      BY <3>1, <3>2
  <2>2. QED
    BY <2>1 DEF OwnSink
<1>12. OpenIffCached' /\ FreshAfterFailure'
  BY <1>2, <1>8, SameEntriesKeep DEF IInv
<1>13. SentAsRead'
  <2>1. ASSUME NEW k \in Job, job'[k].on # NoTransport
        PROVE  transport'[job'[k].on].fp = job'[k].fp
    <3>1. CASE k = j
      BY <1>1, <1>3, <1>8, <3>1
    <3>2. CASE k # j
      <4>1. job'[k] = job[k] /\ job[k].on \in Transport
        BY <1>1, <1>3, <2>1, <3>2, OnTypes
      <4>2. transport'[job[k].on].fp = transport[job[k].on].fp
        BY <1>8, <4>1
      <4>3. QED
        BY <2>1, <4>1, <4>2 DEF IInv, SentAsRead
    <3>3. QED
      BY <3>1, <3>2
  <2>2. QED
    BY <2>1 DEF SentAsRead
<1>14. QED
  BY <1>9, <1>10, <1>11, <1>12, <1>13 DEF IInv

\* A new one, which replaces and closes the one the sink had.
LEMMA MissKeeps ==
    ASSUME IInv, NEW j \in Job, job[j].pc = "validating", row' = row,
           ~Hit(job[j].sink, job[j].fp), GetTransport(j)
    PROVE  IInv'
<1> DEFINE s == job[j].sink
           t == CHOOSE x \in Unused : TRUE
           fresh == [open |-> TRUE, failed |-> FALSE, fp |-> job[j].fp, queue |-> <<j>>]
           tr == Close(entries[s])
<1>1. /\ Typed /\ s \in Sink /\ job[j].on = NoTransport
      /\ entries[s] \in Transport \cup {NoTransport}
  BY OnTypes DEF IInv, Typed
<1>2. /\ job' = [job EXCEPT ![j].pc = "queued", ![j].on = t]
      /\ entries' = [entries EXCEPT ![s] = t]
      /\ transport' = [tr EXCEPT ![t] = fresh]
  BY DEF GetTransport
<1>3. t \in Unused
  BY <1>1, SomeUnused
<1> HIDE DEF t
<1>4. /\ t \in Transport /\ t # NoTransport
      /\ \A u \in Sink : entries[u] # t
      /\ \A k \in Job : job[k].on # t
  BY <1>1, <1>3, OnTypes DEF Unused
<1>5. /\ tr \in [Transport -> TransportRecord]
      /\ \A x \in Transport : /\ tr[x].open = (transport[x].open /\ x # entries[s])
                              /\ tr[x].failed = transport[x].failed
                              /\ tr[x].fp = transport[x].fp
                              /\ tr[x].queue = transport[x].queue
  BY <1>1, CloseEffect
<1> HIDE DEF tr
<1>6. fresh \in TransportRecord /\ fresh.open = TRUE /\ fresh.failed = FALSE
      /\ fresh.fp = job[j].fp /\ fresh.queue = <<j>>
  <2>1. job[j].fp \in 0 .. MaxEdits /\ <<j>> \in Seq(Job)
    BY <1>1 DEF Typed, JobRecord
  <2>2. QED
    BY <2>1 DEF TransportRecord
<1> HIDE DEF fresh
<1>7. /\ transport' \in [Transport -> TransportRecord]
      /\ transport'[t] = fresh
      /\ \A x \in Transport : x # t => transport'[x] = tr[x]
  BY <1>2, <1>4, <1>5, <1>6
<1>8. /\ job' \in [Job -> JobRecord]
      /\ job'[j].pc = "queued" /\ job'[j].on = t /\ job'[j].sink = s
      /\ job'[j].fp = job[j].fp
      /\ \A k \in Job : k # j => job'[k] = job[k]
  BY <1>1, <1>2, <1>4 DEF Typed, JobRecord
<1>9. /\ entries' \in [Sink -> Transport \cup {NoTransport}]
      /\ \A u \in Sink : entries'[u] = IF u = s THEN t ELSE entries[u]
  BY <1>1, <1>2, <1>4 DEF Typed
<1>10. \A k \in Job : k # j => job[k].on # t
  BY <1>4
<1>11. Typed'
  <2>1. \A k \in Job : (job'[k].pc \in {"queued", "sending"}) = (job'[k].on # NoTransport)
    BY <1>1, <1>4, <1>8 DEF Typed
  <2>2. \A k \in Job : job'[k].pc # "idle" => job'[k].sink \in Sink
    BY <1>1, <1>8 DEF Typed
  <2>3. row' \in [Sink -> 0 .. MaxEdits]
    BY <1>1 DEF Typed
  <2>4. QED
    BY <1>7, <1>8, <1>9, <2>1, <2>2, <2>3 DEF Typed
<1>12. Queued'
  <2>1. ASSUME NEW k \in Job, job'[k].pc = "queued"
        PROVE  \E i \in DOMAIN transport'[job'[k].on].queue :
                  transport'[job'[k].on].queue[i] = k
    <3>1. CASE k = j
      <4>1. transport'[job'[k].on].queue = <<j>>
        BY <1>6, <1>7, <1>8, <3>1
      <4>2. 1 \in DOMAIN <<j>> /\ <<j>>[1] = j
        OBVIOUS
      <4>3. QED
        BY <3>1, <4>1, <4>2
    <3>2. CASE k # j
      <4>1. job'[k] = job[k] /\ job[k].on \in Transport /\ job[k].on # t
        BY <1>1, <1>4, <1>8, <2>1, <3>2, OnTypes
      <4>2. transport'[job[k].on].queue = transport[job[k].on].queue
        BY <1>5, <1>7, <4>1
      <4>3. QED
        BY <2>1, <4>1, <4>2 DEF IInv, Queued
    <3>3. QED
      BY <3>1, <3>2
  <2>2. QED
    BY <2>1 DEF Queued
<1>13. OwnSink'
  <2>1. ASSUME NEW k \in Job, NEW u \in Sink,
               job'[k].on # NoTransport, entries'[u] = job'[k].on
        PROVE  u = job'[k].sink
    <3>1. CASE k = j
      BY <1>4, <1>8, <1>9, <2>1, <3>1
    <3>2. CASE k # j
      <4>1. job'[k] = job[k] /\ job[k].on # t
        BY <1>4, <1>8, <3>2
      <4>2. entries[u] = job[k].on
        BY <1>9, <2>1, <4>1
      <4>3. QED
        BY <2>1, <4>1, <4>2 DEF IInv, OwnSink
    <3>3. QED
      BY <3>1, <3>2
  <2>2. QED
    BY <2>1 DEF OwnSink
<1>14. OpenIffCached'
  <2>1. ASSUME NEW x \in Transport
        PROVE  transport'[x].open = \E u \in Sink : entries'[u] = x
    <3>1. CASE x = t
      <4>1. transport'[x].open = TRUE
        BY <1>6, <1>7, <3>1
      <4>2. \E u \in Sink : entries'[u] = x
        BY <1>1, <1>9, <3>1
      <4>3. QED
        BY <4>1, <4>2
    <3>2. CASE x # t
      <4>1. (\E u \in Sink : entries'[u] = x)
               <=> (\E u \in Sink : entries[u] = x) /\ x # entries[s]
        BY <1>1, <1>9, <3>2, OnTypes DEF IInv, OpenIffCached
      <4>2. transport[x].open = \E u \in Sink : entries[u] = x
        BY DEF IInv, OpenIffCached
      <4>3. transport'[x].open = (transport[x].open /\ x # entries[s])
        <5>1. transport'[x] = tr[x]
          BY <1>7, <3>2
        <5>2. tr[x].open = (transport[x].open /\ x # entries[s])
          BY <1>5
        <5>3. QED
          BY <5>1, <5>2
      <4>4. QED
        BY <4>1, <4>2, <4>3
    <3>3. QED
      BY <3>1, <3>2
  <2>2. ASSUME NEW u \in Sink, NEW v \in Sink, u # v, entries'[u] # NoTransport
        PROVE  entries'[u] # entries'[v]
    BY <1>4, <1>9, <2>2 DEF IInv, OpenIffCached
  <2>3. QED
    BY <2>1, <2>2 DEF OpenIffCached
<1>15. SentAsRead'
  <2>1. ASSUME NEW k \in Job, job'[k].on # NoTransport
        PROVE  transport'[job'[k].on].fp = job'[k].fp
    <3>1. CASE k = j
      BY <1>6, <1>7, <1>8, <3>1
    <3>2. CASE k # j
      <4>1. job'[k] = job[k] /\ job[k].on \in Transport /\ job[k].on # t
        BY <1>1, <1>4, <1>8, <2>1, <3>2, OnTypes
      <4>2. transport'[job[k].on].fp = transport[job[k].on].fp
        BY <1>5, <1>7, <4>1
      <4>3. QED
        BY <2>1, <4>1, <4>2 DEF IInv, SentAsRead
    <3>3. QED
      BY <3>1, <3>2
  <2>2. QED
    BY <2>1 DEF SentAsRead
<1>16. FreshAfterFailure'
  <2>1. ASSUME NEW u \in Sink, entries'[u] # NoTransport
        PROVE  ~transport'[entries'[u]].failed
    <3>1. CASE u = s
      BY <1>6, <1>7, <1>9, <3>1
    <3>2. CASE u # s
      <4>1. entries'[u] = entries[u] /\ entries[u] \in Transport /\ entries[u] # t
        BY <1>1, <1>4, <1>9, <2>1, <3>2, OnTypes
      <4>2. transport'[entries[u]].failed = transport[entries[u]].failed
        BY <1>5, <1>7, <4>1
      <4>3. QED
        BY <2>1, <4>1, <4>2 DEF IInv, FreshAfterFailure
    <3>3. QED
      BY <3>1, <3>2
  <2>2. QED
    BY <2>1 DEF FreshAfterFailure
<1>17. QED
  BY <1>11, <1>12, <1>13, <1>14, <1>15, <1>16 DEF IInv

LEMMA ValidatedKeeps ==
    ASSUME IInv, NEW j \in Job, Validated(j)
    PROVE  IInv'
<1>1. job[j].pc = "validating" /\ row' = row
  BY DEF Validated
<1>2. CASE GetTransport(j)
  BY <1>1, <1>2, HitKeeps, MissKeeps
<1>3. CASE job' = [job EXCEPT ![j] = Idle] /\ UNCHANGED <<entries, transport>>
  BY <1>1, <1>3, EndKeeps
<1>4. QED
  BY <1>2, <1>3 DEF Validated
-----------------------------------------------------------------------------
LEMMA InitHolds ==
    ASSUME Init
    PROVE  IInv
<1>1. NoTransport \notin Transport
  <2>1. Cardinality(Sink) \in Nat /\ Cardinality(Job) \in Nat
    BY SmtpPoolAssumption, FS_CardinalityType
  <2>2. QED
    BY <2>1 DEF Transport, NoTransport
<1>2. Closed \in TransportRecord /\ Closed.open = FALSE /\ Closed.failed = FALSE
  BY SmtpPoolAssumption DEF Closed, TransportRecord
<1>3. Idle \in JobRecord /\ Idle.pc = "idle" /\ Idle.on = NoTransport
  BY SmtpPoolAssumption DEF Idle, JobRecord
<1>4. Typed
  BY <1>2, <1>3, SmtpPoolAssumption DEF Init, Typed
<1>5. Queued /\ OwnSink /\ SentAsRead
  BY <1>3 DEF Init, Queued, OwnSink, SentAsRead
<1>6. FreshAfterFailure
  BY DEF Init, FreshAfterFailure
<1>7. OpenIffCached
  <2>1. ASSUME NEW t \in Transport
        PROVE  transport[t].open = \E s \in Sink : entries[s] = t
    <3>1. transport[t].open = FALSE
      BY <1>2 DEF Init
    <3>2. ~\E s \in Sink : entries[s] = t
      BY <1>1 DEF Init
    <3>3. QED
      BY <3>1, <3>2
  <2>2. \A s, u \in Sink : s # u /\ entries[s] # NoTransport => entries[s] # entries[u]
    BY DEF Init
  <2>3. QED
    BY <2>1, <2>2 DEF OpenIffCached
<1>8. QED
  BY <1>4, <1>5, <1>6, <1>7 DEF IInv

LEMMA NextKeeps ==
    ASSUME IInv, [Next]_vars
    PROVE  IInv'
<1>1. CASE UNCHANGED vars
  BY <1>1 DEF vars, IInv, Typed, Queued, OwnSink, OpenIffCached, SentAsRead,
              FreshAfterFailure
<1>2. ASSUME NEW j \in Job, Step(j) PROVE IInv'
  <2>1. CASE Answered(j)
    BY <2>1, EndKeeps DEF Answered
  <2>2. QED
    BY <1>2, <2>1, ValidatedKeeps, TakeUpKeeps, ConnectionFailsKeeps, PoolWasClosedKeeps
       DEF Step
<1>3. ASSUME NEW j \in Job, NEW s \in Sink, Begin(j, s) PROVE IInv'
  BY <1>3, BeginKeeps
<1>4. ASSUME NEW s \in Sink, Sweep(s) \/ EditSink(s) PROVE IInv'
  BY <1>4, SweepKeeps, EditKeeps
<1>5. QED
  BY <1>1, <1>2, <1>3, <1>4 DEF Next

LEMMA Inductive == Spec => []IInv
<1>1. Init => IInv
  BY InitHolds
<1>2. IInv /\ [Next]_vars => IInv'
  BY NextKeeps
<1>3. QED
  BY <1>1, <1>2, PTL DEF Spec

\* No transport leaks and no sink is stuck with a closed one: a transport is
\* open exactly while KeyedTransportCache can hand it out, to one sink alone.
THEOREM TransportsAreOpenIffCached == Spec => []OpenIffCached
<1>1. IInv => OpenIffCached
  BY DEF IInv
<1>2. QED
  BY <1>1, Inductive, PTL

\* A mail of sendViaSmtp goes out over a transport made from the settings its
\* sender has read and whose host it has validated.
THEOREM MailGoesOutAsRead == Spec => []SentAsRead
<1>1. IInv => SentAsRead
  BY DEF IInv
<1>2. QED
  BY <1>1, Inductive, PTL

\* After a connection error no later send is given that transport.
THEOREM NoBrokenTransportIsReused == Spec => []FreshAfterFailure
<1>1. IInv => FreshAfterFailure
  BY DEF IInv
<1>2. QED
  BY <1>1, Inductive, PTL
=============================================================================
