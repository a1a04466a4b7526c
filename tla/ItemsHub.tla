------------------------------ MODULE ItemsHub ------------------------------
(***************************************************************************)
(* The one LISTEN connection that all item streams of the web process      *)
(* share (src/web/src/lib/itemsListener.ts): createItemsHub as operators   *)
(* on the hub's variables, kept in a record with the connections that it   *)
(* has made.                                                               *)
(*                                                                         *)
(* A connection of postgres-js that drops tries one LISTEN more and, if    *)
(* that fails too, is silent for good; only the watchdog notices, for want *)
(* of a pong.                                                              *)
(***************************************************************************)
EXTENDS Integers, Sequences, FiniteSets, SequencesExt

CONSTANTS
    Stream,   \* subscribers
    Conn,     \* bound: connections that exist at a time
    Item      \* items_inserted events, by the item that they announce

\* connecting  listen() has not settled
\* live        LISTEN is in force
\* dropped     the connection is gone, the LISTEN that follows has not settled
\* silent      that LISTEN has failed, which nobody is told
\* free        never made, or ended
ConnState == {"free", "connecting", "live", "dropped", "silent"}

NoConn == "none"

ASSUME HubAssumption == NoConn \notin Conn

\* inbox: the events that are on their way to the process
Hub == [subs : SUBSET Stream, client : Conn \cup {NoConn}, watchdog : Conn \cup {NoConn},
        conn : [Conn -> ConnState], inbox : [Conn -> Seq(Item)]]

HubInit == [subs |-> {}, client |-> NoConn, watchdog |-> NoConn,
            conn |-> [c \in Conn |-> "free"], inbox |-> [c \in Conn |-> <<>>]]

Free(h) == {c \in Conn : h.conn[c] = "free"}

InState(h, c, state) == [h EXCEPT !.conn[c] = state, !.inbox[c] = <<>>]

\* end() of a connection, after its listen() has settled.
Ended(h, c) == IF h.conn[c] = "connecting" THEN h ELSE InState(h, c, "free")

\* start(): a client and its watchdog.
Started(h, c) == [InState(h, c, "connecting") EXCEPT !.client = c, !.watchdog = c]

Forgotten(h) == [h EXCEPT !.client = NoConn, !.watchdog = NoConn]

\* subscribe(): the first subscriber starts a client.
Subscribed(h, s, c) ==
    LET joined == [h EXCEPT !.subs = @ \cup {s}]
    IN  IF h.client = NoConn THEN Started(joined, c) ELSE joined

\* The mutant keeps the client when the last subscriber leaves.
UnsubscribedOnly(h, gone) == [h EXCEPT !.subs = @ \ gone]

\* The unsubscribe functions of some subscribers: when the last one leaves,
\* the client goes too.
Unsubscribed(h, gone) ==
    LET left == [h EXCEPT !.subs = @ \ gone]
    IN  IF left.subs = {} /\ h.client # NoConn THEN Ended(Forgotten(left), h.client)
        ELSE left

\* restart(): the watchdog replaces the client by a new one.
Restarted(h, c) ==
    LET ended == Ended(Forgotten(h), h.client)
    IN  IF h.subs # {} THEN Started(ended, c) ELSE ended

\* The catch of listen(): the client is forgotten, if it is the one that
\* failed.
ListenFailed(h, c) ==
    IF h.client = c THEN Forgotten(InState(h, c, "free")) ELSE InState(h, c, "free")

\* listen() settles well; a client that was replaced meanwhile is ended.
Listening(h, c) == IF h.client = c THEN InState(h, c, "live") ELSE InState(h, c, "free")

\* pg_notify at the commit of an item that is announced.
Notified(h, i) ==
    [h EXCEPT !.inbox = [c \in Conn |-> IF h.conn[c] = "live" THEN Append(h.inbox[c], i)
                                        ELSE h.inbox[c]]]

-----------------------------------------------------------------------------
\* As long as there are subscribers there is a client, with a watchdog of its
\* own, and no other connection listens.
HubServes(h) ==
    /\ h.subs # {} <=> h.client # NoConn
    /\ h.watchdog = h.client
    /\ \A c \in Conn : h.conn[c] \in {"live", "dropped", "silent"} => c = h.client
=============================================================================
