------------------------------ MODULE SmtpPool ------------------------------
(***************************************************************************)
(* Mail over SMTP: sendViaSmtp (src/web/src/lib/email/send.ts) with the    *)
(* cache of pooled transports (src/web/src/lib/email/smtpPool.ts) that all *)
(* sends of the process share.  A transport holds a few connections and a  *)
(* queue; once closed it finishes what is on a connection and fails what   *)
(* is queued.                                                              *)
(*                                                                         *)
(* One action runs from one await to the next.  Of a sink is kept how      *)
(* often its connection settings have been edited, which is what its       *)
(* fingerprint tells.                                                      *)
(***************************************************************************)
EXTENDS Integers, Sequences, FiniteSets

CONSTANTS
    Sink,            \* SMTP sinks
    Job,             \* sends of the process that may overlap
    MaxConnections,  \* maxConnections
    MaxEdits         \* bound: edits of a sink

ASSUME SmtpPoolAssumption ==
    /\ IsFiniteSet(Sink) /\ IsFiniteSet(Job)
    /\ MaxConnections \in Nat \ {0} /\ MaxEdits \in Nat

VARIABLES
    row,        \* [Sink -> 0 .. MaxEdits]: the settings in the database
    entries,    \* [Sink -> transport or NoTransport]: the cache
    transport,  \* [Transport -> [open, failed, fp, queue]]
    job         \* [Job -> [pc, sink, fp, on]]

vars == <<row, entries, transport, job>>

\* Every transport in use is cached or has a job.
Transport == 1 .. Cardinality(Sink) + Cardinality(Job)
NoTransport == 0

\* failed: a connection of it has failed, which a sender has seen.
\* fp of a transport or a job: the settings it was made from or has read.
Closed == [open |-> FALSE, failed |-> FALSE, fp |-> 0, queue |-> <<>>]
Idle == [pc |-> "idle", sink |-> "none", fp |-> 0, on |-> NoTransport]

TypeOK ==
    /\ row \in [Sink -> 0 .. MaxEdits]
    /\ entries \in [Sink -> Transport \cup {NoTransport}]
    /\ transport \in [Transport -> [open : BOOLEAN, failed : BOOLEAN, fp : 0 .. MaxEdits,
                                    queue : Seq(Job)]]
    /\ job \in [Job -> [pc : {"idle", "validating", "queued", "sending"},
                        sink : Sink \cup {"none"}, fp : 0 .. MaxEdits,
                        on : Transport \cup {NoTransport}]]
    /\ \A j \in Job : (job[j].pc \in {"queued", "sending"}) = (job[j].on # NoTransport)
    /\ \A t \in Transport : {j \in Job : job[j].on = t /\ job[j].pc = "queued"}
                              = {transport[t].queue[i] : i \in DOMAIN transport[t].queue}
    /\ \A t \in Transport :
           Cardinality({j \in Job : job[j].on = t /\ job[j].pc = "sending"})
               <= MaxConnections

Init ==
    /\ row = [s \in Sink |-> 0]
    /\ entries = [s \in Sink |-> NoTransport]
    /\ transport = [t \in Transport |-> Closed]
    /\ job = [j \in Job |-> Idle]

-----------------------------------------------------------------------------
(* KeyedTransportCache.                                                    *)

Forget(s) == [entries EXCEPT ![s] = NoTransport]

\* The mutant forgets a transport without closing it.
CloseNothing(t) == transport

Close(t) == IF t = NoTransport THEN transport
            ELSE [transport EXCEPT ![t].open = FALSE]

Drop(s) == transport' = Close(entries[s]) /\ entries' = Forget(s)

\* The mutant goes by the key alone.
HitByKey(s, fp) == entries[s] # NoTransport

Hit(s, fp) == entries[s] # NoTransport /\ transport[entries[s]].fp = fp

Unused == {t \in Transport : /\ \A s \in Sink : entries[s] # t
                             /\ \A j \in Job : job[j].on # t}

\* get, and on a miss createTransport and set: a transport that was made from
\* other settings is closed.
GetTransport(j) ==
    LET s == job[j].sink
        t == CHOOSE x \in Unused : TRUE
    IN  IF Hit(s, job[j].fp)
        THEN /\ job' = [job EXCEPT ![j].pc = "queued", ![j].on = entries[s]]
             /\ transport' = [transport EXCEPT ![entries[s]].queue = Append(@, j)]
             /\ UNCHANGED entries
        ELSE /\ job' = [job EXCEPT ![j].pc = "queued", ![j].on = t]
             /\ entries' = [entries EXCEPT ![s] = t]
             /\ transport' = [Close(entries[s]) EXCEPT
                                  ![t] = [open |-> TRUE, failed |-> FALSE,
                                          fp |-> job[j].fp, queue |-> <<j>>]]

\* On access or by the timer, an entry that no send has asked for in the last
\* SMTP_POOL_IDLE_MS.  Only lastUsedAt counts, which get and set write: mails
\* may still be on the transport or in its queue.
Sweep(s) ==
    /\ entries[s] # NoTransport
    /\ Drop(s)
    /\ UNCHANGED <<row, job>>

-----------------------------------------------------------------------------
(* sendViaSmtp.                                                            *)

\* The sender has the row of its sink; the host is being looked up.
Begin(j, s) ==
    /\ job[j].pc = "idle"
    /\ job' = [job EXCEPT ![j] = [Idle EXCEPT !.pc = "validating", !.sink = s,
                                              !.fp = row[s]]]
    /\ UNCHANGED <<row, entries, transport>>

\* The guard has answered: ssrf-blocked, or sendMail on the transport.
Validated(j) ==
    /\ job[j].pc = "validating"
    /\ \/ GetTransport(j)
       \/ job' = [job EXCEPT ![j] = Idle] /\ UNCHANGED <<entries, transport>>
    /\ UNCHANGED row

IsNext(j) == job[j].pc = "queued" /\ Head(transport[job[j].on].queue) = j

\* A connection of the open transport takes up the mail.
TakeUp(j) ==
    /\ IsNext(j) /\ transport[job[j].on].open
    /\ Cardinality({k \in Job : job[k].on = job[j].on /\ job[k].pc = "sending"})
           < MaxConnections
    /\ job' = [job EXCEPT ![j].pc = "sending"]
    /\ transport' = [transport EXCEPT ![job[j].on].queue = Tail(@)]
    /\ UNCHANGED <<row, entries>>

\* Sent, or refused for another reason than the connection.
Answered(j) ==
    /\ job[j].pc = "sending"
    /\ job' = [job EXCEPT ![j] = Idle]
    /\ UNCHANGED <<row, entries, transport>>

\* The mutant leaves the broken transport in the cache.
EvictLater(s) == UNCHANGED entries

Evict(s) == entries' = Forget(s)

\* A connection error: what the cache has for the sink is dropped, be it this
\* transport or a newer one.
ConnectionFails(j) ==
    /\ job[j].pc = "sending"
    /\ Evict(job[j].sink)
    /\ transport' = [Close(entries[job[j].sink]) EXCEPT ![job[j].on].failed = TRUE]
    /\ job' = [job EXCEPT ![j] = Idle]
    /\ UNCHANGED row

\* "pool was closed": likewise.
PoolWasClosed(j) ==
    /\ IsNext(j) /\ ~transport[job[j].on].open
    /\ entries' = Forget(job[j].sink)
    /\ transport' = [Close(entries[job[j].sink]) EXCEPT ![job[j].on].queue = Tail(@)]
    /\ job' = [job EXCEPT ![j] = Idle]
    /\ UNCHANGED row

\* PATCH of the sink.
EditSink(s) ==
    /\ row[s] < MaxEdits
    /\ row' = [row EXCEPT ![s] = @ + 1]
    /\ UNCHANGED <<entries, transport, job>>

Step(j) == Validated(j) \/ TakeUp(j) \/ Answered(j) \/ ConnectionFails(j) \/ PoolWasClosed(j)

Next ==
    \/ \E j \in Job : Step(j) \/ \E s \in Sink : Begin(j, s)
    \/ \E s \in Sink : Sweep(s) \/ EditSink(s)

Spec == Init /\ [][Next]_vars

-----------------------------------------------------------------------------
(* Properties.                                                             *)

\* No sockets leak and no sink is stuck with a dead transport: a transport is
\* open exactly as long as the cache can hand it out, and to one sink.
OpenIffCached ==
    /\ \A t \in Transport : transport[t].open = \E s \in Sink : entries[s] = t
    /\ \A s, u \in Sink : s # u /\ entries[s] # NoTransport => entries[s] # entries[u]

\* A mail goes out over a transport made from the very settings its sender has
\* read and whose host it has validated, however edits and other sends swap
\* the transport of the sink meanwhile.
SentAsRead ==
    \A j \in Job : job[j].on # NoTransport => transport[job[j].on].fp = job[j].fp

\* Once a sender has seen a connection fail, no later send is given that
\* transport.
FreshAfterFailure ==
    \A s \in Sink : entries[s] # NoTransport => ~transport[entries[s]].failed
=============================================================================
