----------------------------- MODULE ItemStream -----------------------------
(***************************************************************************)
(* GET /api/items/stream (src/web/src/app/api/items/stream/route.ts): the  *)
(* server-sent events of new items, on the hub, and the clients that read  *)
(* them and come back with the Last-Event-ID.                              *)
(*                                                                         *)
(* Items are numbered in the order of fetched_at, which is the start of    *)
(* the transaction that inserts them; they become visible, and are         *)
(* announced, in the order of their commits.  A client has one stream at a *)
(* time.  All items belong to the one user and pass the feed filter; none  *)
(* is deleted, and all are announced: left out are those that the first    *)
(* poll of a feed stores silently, which only a replay sends.              *)
(*                                                                         *)
(* A stream does its work, a replay or the re-read of an announced item,   *)
(* in a chain: one step reads the rows, the next emits them.               *)
(***************************************************************************)
EXTENDS ItemsHub

CONSTANTS
    MaxStreams,    \* MAX_STREAMS_PER_USER
    ReplayLimit,   \* REPLAY_LIMIT
    SeenMax,       \* SEEN_MAX
    QueueMax,      \* QUEUE_HIGH_WATER_BYTES, in items
    MaxFaults      \* bound: drops, failures of listen(), restarts, ended streams

ASSUME StreamAssumption ==
    /\ IsFiniteSet(Item) /\ Item = 1 .. Cardinality(Item)
    /\ {MaxStreams, ReplayLimit, SeenMax, QueueMax} \subseteq Nat \ {0}
    /\ ReplayLimit <= SeenMax
    /\ MaxFaults \in Nat

VARIABLES
    hub,        \* the hub and its connections
    begun,      \* the items 1 .. begun have been given their fetched_at
    committed,  \* the items that are visible
    late,       \* those committed after one with a later fetched_at; history
    active,     \* open streams of the user
    stream,     \* [Stream -> StreamState]
    client,     \* [Stream -> ClientState]: the browser at the other end
    faults      \* faults left

vars == <<hub, begun, committed, late, active, stream, client, faults>>

Replay == 0
NoItem == 0

\* since    startedAt
\* cursor   cursorId, NoItem if there is none
\* chain    the work to do, a replay or the item announced
\* reading  the head of the chain has read its rows
\* queue    what is enqueued and not yet read by the client
\* sent     what this stream has enqueued; history
StreamState ==
    [open : BOOLEAN, since : Nat, cursor : Item \cup {NoItem}, seen : Seq(Item),
     chain : Seq(Item \cup {Replay}), reading : BOOLEAN, rows : Seq(Item),
     queue : Seq(Item), sent : Seq(Item)]
NoStream ==
    [open |-> FALSE, since |-> 0, cursor |-> NoItem, seen |-> <<>>, chain |-> <<>>,
     reading |-> FALSE, rows |-> <<>>, queue |-> <<>>, sent |-> <<>>]

\* last   the Last-Event-ID
\* from   begun when the client last connected without one: it had read no
\*        item yet and does not get those that began before; history
\* short  a replay has met its limit; history
ClientState == [last : Item \cup {NoItem}, got : SUBSET Item, from : Nat, short : BOOLEAN]

TypeOK ==
    /\ hub \in Hub
    /\ begun \in Nat
    /\ committed \subseteq Item /\ late \subseteq committed
    /\ active \in 0 .. MaxStreams
    /\ stream \in [Stream -> StreamState]
    /\ client \in [Stream -> ClientState]
    /\ faults \in Nat

Init ==
    /\ hub = HubInit
    /\ begun = 0 /\ committed = {} /\ late = {}
    /\ active = 0
    /\ stream = [s \in Stream |-> NoStream]
    /\ client = [s \in Stream |-> [last |-> NoItem, got |-> {}, from |-> 0, short |-> FALSE]]
    /\ faults = MaxFaults

Fault == faults > 0 /\ faults' = faults - 1

-----------------------------------------------------------------------------
(* The items of the poller and of the webhook endpoint.                    *)

Begin ==
    /\ begun + 1 \in Item
    /\ begun' = begun + 1
    /\ UNCHANGED <<hub, committed, late, active, stream, client, faults>>

Commit(i) ==
    /\ i \in 1 .. begun /\ i \notin committed
    /\ committed' = committed \cup {i}
    /\ late' = IF \E j \in committed : j > i THEN late \cup {i} ELSE late
    /\ hub' = Notified(hub, i)
    /\ UNCHANGED <<begun, active, stream, client, faults>>

-----------------------------------------------------------------------------
(* A stream.                                                               *)

WithWork(st, w) == [st EXCEPT !.chain = Append(@, w)]

\* onResync() of all subscribers.  The mutant is a hub without it.
ResyncedNobody == stream

Resynced == [s \in Stream |-> IF s \in hub.subs THEN WithWork(stream[s], Replay)
                              ELSE stream[s]]

\* GET: a slot, a subscription, and a replay if the client has come back.
Connect(s, c) ==
    /\ ~stream[s].open
    /\ active < MaxStreams
    /\ active' = active + 1
    /\ c \in Free(hub)
    /\ hub' = Subscribed(hub, s, c)
    /\ stream' = [stream EXCEPT ![s] =
          LET st == [NoStream EXCEPT !.open = TRUE, !.since = begun,
                                     !.cursor = client[s].last]
          IN  IF client[s].last # NoItem THEN WithWork(st, Replay) ELSE st]
    /\ client' = [client EXCEPT ![s].from = IF client[s].last = NoItem THEN begun ELSE @]
    /\ UNCHANGED <<begun, committed, late, faults>>

\* close(): once for every stream, whatever the reason.
Close(gone) ==
    /\ hub' = Unsubscribed(hub, gone)
    /\ stream' = [s \in Stream |-> IF s \in gone THEN NoStream ELSE stream[s]]
    /\ active' = active - Cardinality(gone)

\* What the client has when it has read the first n items of the queue.
AfterReading(s, n) ==
    LET read == SubSeq(stream[s].queue, 1, n)
    IN  IF n = 0 THEN client[s]
        ELSE [client[s] EXCEPT !.got = @ \cup ToSet(read), !.last = read[n]]

\* The session is no longer live or cannot be checked, the 30 minutes are over,
\* a read of the database has failed, the client has gone: part of the queue
\* may still reach the client.
End(s) ==
    /\ stream[s].open
    /\ Fault
    /\ Close({s})
    /\ \E n \in 0 .. Len(stream[s].queue) :
          client' = [client EXCEPT ![s] = AfterReading(s, n)]
    /\ UNCHANGED <<begun, committed, late>>

\* The mutant replays from the connect time.
AfterConnectTime(st) == {i \in committed : i > st.since}

\* queryItems for a replay: in the order of fetched_at, after the cursor or
\* else the connect time.
After(st) == {i \in committed : i > (IF st.cursor # NoItem THEN st.cursor ELSE st.since)}
ReplayRows(st) ==
    LET rank(i) == Cardinality({j \in After(st) : j <= i})
        all == Cardinality(After(st))
    IN  [k \in 1 .. (IF all < ReplayLimit THEN all ELSE ReplayLimit) |->
            CHOOSE i \in After(st) : rank(i) = k]

\* The head of the chain reads its rows, or is done if its item was sent.
ReadRows(s) ==
    LET st == stream[s]
        w == Head(st.chain)
        done == [st EXCEPT !.chain = Tail(@)]
    IN  /\ st.chain # <<>> /\ ~st.reading
        /\ stream' = [stream EXCEPT ![s] =
              IF w = Replay THEN [st EXCEPT !.reading = TRUE, !.rows = ReplayRows(st)]
              ELSE IF w \in ToSet(st.seen) THEN done
              ELSE [st EXCEPT !.reading = TRUE, !.rows = <<w>>]]
        /\ client' = [client EXCEPT ![s].short =
              @ \/ (w = Replay /\ Cardinality(After(st)) > ReplayLimit)]
        /\ UNCHANGED <<hub, begun, committed, late, active, faults>>

\* The mutant forgets the newest.
SeenWithoutNewest(st, i) == IF Len(st.seen) >= SeenMax THEN st.seen ELSE Append(st.seen, i)

\* seen forgets the oldest.
SeenWith(st, i) ==
    LET all == Append(st.seen, i)
    IN  IF Len(all) > SeenMax THEN Tail(all) ELSE all

\* emit(): an item that was sent is skipped; a queue that is full closes the
\* stream, and what follows is not sent.
Emit(st, i) ==
    IF i \in ToSet(st.seen) \/ ~st.open THEN st
    ELSE IF Len(st.queue) >= QueueMax THEN [st EXCEPT !.open = FALSE]
    ELSE [st EXCEPT !.queue = Append(@, i), !.sent = Append(@, i),
                    !.seen = SeenWith(st, i), !.cursor = i]

\* for (const it of rows) emit(it)
Emitted(st) ==
    LET after[n \in 0 .. Len(st.rows)] ==
            IF n = 0 THEN st ELSE Emit(after[n - 1], st.rows[n])
    IN  after[Len(st.rows)]

\* A slow client is cut off: the queue is dropped.
EmitRows(s) ==
    LET emitted == Emitted(stream[s])
    IN  /\ stream[s].reading
        /\ IF emitted.open
           THEN /\ stream' = [stream EXCEPT ![s] =
                      [emitted EXCEPT !.reading = FALSE, !.rows = <<>>, !.chain = Tail(@)]]
                /\ UNCHANGED <<hub, active>>
           ELSE Close({s})
        /\ UNCHANGED <<begun, committed, late, client, faults>>

Read(s) ==
    /\ stream[s].queue # <<>>
    /\ client' = [client EXCEPT ![s] = AfterReading(s, 1)]
    /\ stream' = [stream EXCEPT ![s].queue = Tail(@)]
    /\ UNCHANGED <<hub, begun, committed, late, active, faults>>

-----------------------------------------------------------------------------
(* The connections of the hub.                                             *)

\* The callback onListen: all streams replay.
ListenSucceeds(c) ==
    /\ hub.conn[c] \in {"connecting", "dropped"}
    /\ hub' = Listening(hub, c)
    /\ stream' = IF hub.client = c THEN Resynced ELSE stream
    /\ UNCHANGED <<begun, committed, late, active, client, faults>>

\* listen() rejects: if it was the client's, all streams are closed.
ListenFails(c) ==
    /\ hub.conn[c] = "connecting"
    /\ LET failed == ListenFailed(hub, c)
       IN  IF hub.client = c
           THEN /\ Fault
                /\ hub' = [failed EXCEPT !.subs = {}]
                /\ stream' = [s \in Stream |-> NoStream]
                /\ active' = 0
           ELSE hub' = failed /\ UNCHANGED <<stream, active, faults>>
    /\ UNCHANGED <<begun, committed, late, client>>

Drop(c) ==
    /\ hub.conn[c] = "live"
    /\ Fault
    /\ hub' = InState(hub, c, "dropped")
    /\ UNCHANGED <<begun, committed, late, active, stream, client>>

\* postgres-js swallows the failure of its second LISTEN.
RelistenFails(c) ==
    /\ hub.conn[c] = "dropped"
    /\ hub' = InState(hub, c, "silent")
    /\ UNCHANGED <<begun, committed, late, active, stream, client, faults>>

\* The watchdog of the client fires after PONG_TIMEOUT_MS without a pong:
\* always if the connection is silent, and perhaps if it is not, when LISTEN,
\* the pings or the event loop are slow.
WatchdogFires(c) ==
    /\ hub.watchdog # NoConn
    /\ hub.client = hub.watchdog
    /\ c \in Free(hub)
    /\ IF hub.conn[hub.client] = "silent" THEN UNCHANGED faults ELSE Fault
    /\ hub' = Restarted(hub, c)
    /\ UNCHANGED <<begun, committed, late, active, stream, client>>

\* onNotify: every stream that has not seen the item adds it to its chain.
Deliver(c) ==
    /\ hub.conn[c] = "live" /\ hub.inbox[c] # <<>>
    /\ LET i == Head(hub.inbox[c])
       IN  stream' = [s \in Stream |->
              IF /\ hub.client = c
                 /\ s \in hub.subs
                 /\ i \notin ToSet(stream[s].seen)
              THEN WithWork(stream[s], i) ELSE stream[s]]
    /\ hub' = [hub EXCEPT !.inbox[c] = Tail(@)]
    /\ UNCHANGED <<begun, committed, late, active, client, faults>>

Next ==
    \/ Begin
    \/ \E i \in Item : Commit(i)
    \/ \E s \in Stream : \/ \E c \in Conn : Connect(s, c)
                         \/ End(s) \/ ReadRows(s) \/ EmitRows(s) \/ Read(s)
    \/ \E c \in Conn : \/ ListenSucceeds(c) \/ ListenFails(c) \/ Drop(c)
                       \/ RelistenFails(c) \/ WatchdogFires(c) \/ Deliver(c)

\* Transactions commit, clients come back and read, queries and LISTENs
\* settle, events arrive and the watchdog's interval elapses.
Fairness ==
    /\ WF_vars(\E i \in Item : Commit(i))
    /\ \A s \in Stream : /\ WF_vars(\E c \in Conn : Connect(s, c))
                         /\ WF_vars(ReadRows(s) \/ EmitRows(s))
                         /\ WF_vars(Read(s))
    /\ \A c \in Conn : WF_vars(ListenSucceeds(c) \/ Deliver(c))
    /\ WF_vars(\E c \in Conn : WatchdogFires(c) /\ faults' = faults)

Spec == Init /\ [][Next]_vars /\ Fairness

-----------------------------------------------------------------------------
(* Properties.                                                             *)

\* The hub has a client, with its own watchdog, exactly as long as there are
\* subscribers; the open streams are its subscribers, and each holds one of the
\* slots of the user; and nothing else listens, whatever LISTENs were under way
\* when the client was replaced.
OneListener ==
    /\ HubServes(hub)
    /\ hub.subs = {s \in Stream : stream[s].open}
    /\ active = Cardinality(hub.subs)

\* At rest nothing is missing: once the chain of a stream is empty and no
\* event is on its way, its client has or is being sent every committed item
\* that began after the client last connected without a Last-Event-ID, through
\* lost connections, restarts of the hub, slow reading and the reconnects of a
\* client that has read something.  A client that has read nothing has no id to
\* come back with: it starts anew, and what it missed before, or what began
\* before and commits later, is lost on it.  Two more kinds are excepted, an item
\* that became visible after one with a later fetched_at, and the items a replay
\* has left out for its limit.
NothingMissed ==
    \A s \in Stream :
        /\ stream[s].open /\ stream[s].chain = <<>>
        /\ hub.client # NoConn /\ hub.conn[hub.client] = "live"
        /\ hub.inbox[hub.client] = <<>>
        /\ ~client[s].short
        => \A i \in committed \ late :
              i > client[s].from => i \in client[s].got \cup ToSet(stream[s].queue)

\* A stream sends an item twice only if SeenMax others came in between,
\* although replays and events overlap.
TwiceOnlyFarApart ==
    \A s \in Stream : \A i, j \in DOMAIN stream[s].sent :
        i < j /\ stream[s].sent[i] = stream[s].sent[j] => j - i > SeenMax

\* Every committed item reaches in the end every client that connected without
\* a Last-Event-ID, for the last time, before the item began.  Late items are
\* excepted, and those of a client that has met the limit of a replay.
EveryItemArrives ==
    []<>(\A s \in Stream : \A i \in committed \ late :
            i \in client[s].got \/ i <= client[s].from \/ client[s].short)
=============================================================================
