------------------------------ MODULE RssPoller ------------------------------
(***************************************************************************)
(* How items come in: the poller of the worker                             *)
(* (src/web/src/worker/rssPoller.ts), and the edits of feeds, routes and   *)
(* destinations that run against it (src/web/src/app/api).                 *)
(*                                                                         *)
(* Items are numbered in the order of published_at, those without one      *)
(* first, as selectBackfillItems sorts them, and an origin shows them in   *)
(* this order.  A destination stands for a row of route_destinations with  *)
(* its route: it is on if both are enabled.  One action is one statement,  *)
(* except that the last insert of a transaction, which holds its locks,    *)
(* goes with the commit.  Of last_polled_at is kept whether                *)
(* poll_interval_s has passed since, which it does for each feed at its    *)
(* own time but not within a transaction, and                              *)
(* which feed was polled before which.                                     *)
(***************************************************************************)
EXTENDS Integers, Sequences, FiniteSets, SequencesExt

CONSTANTS
    Feed,            \* feeds of kind rss
    Dest,            \* destinations
    FeedOf,          \* [Dest -> feed]
    Batch,           \* POLL_BATCH_SIZE
    Days,            \* feeds with backfill_mode days; that of the others is count
    Backfill,        \* [Feed -> Nat]: backfill_value of a count; 0 stands for mode none
    Published,       \* bound: [Feed -> Nat]: items of a feed
    MaxEdits,        \* bound: edits of feeds and destinations
    MaxFaults        \* bound: failed bumps, deaths of the worker

Item == UNION {1 .. Published[f] : f \in Feed}

ASSUME RssPollerAssumption ==
    /\ FeedOf \in [Dest -> Feed]
    /\ Days \subseteq Feed
    /\ Backfill \in [Feed -> Nat]
    /\ Batch \in Nat \ {0}
    /\ Published \in [Feed -> Nat]
    /\ {MaxEdits, MaxFaults} \subseteq Nat

VARIABLES
    feed,        \* [Feed -> FeedRow]
    order,       \* the feeds by last_polled_at, those never polled first
    served,      \* [Feed -> Item \cup {0}]: what the origin shows, items 1 to this one
    cutoff,      \* [Feed -> Nat]: items 1 to this one have no date, or one that
                 \* is more than backfill_value days ago
    dest,        \* [Dest -> "none", "on", "off"]
    items,       \* [Feed -> SUBSET Item]: feed_items
    dispatches,  \* SUBSET (Dest \X Item)
    job,         \* [Feed -> Job]: pollFeed
    hist,        \* [Feed -> Hist]
    edits, faults

vars == <<feed, order, served, cutoff, dest, items, dispatches, job, hist, edits, faults>>

NoUrl == 0

\* due   last_polled_at is null or longer ago than the interval
\* hint  the URL that etag and last_modified were given by, NoUrl for none
\* done  backfill_mode is 'done'
FeedRow == [row : {"on", "off", "deleted"}, due : BOOLEAN, url : Nat \ {0},
            hint : Nat, done : BOOLEAN]

\* picked    in the batch, with the row as the SELECT found it
\* nothing   fetched: an error or a 304
\* fetched   fetched: a body with the items up to the number
\* inserted  in the transaction, which has inserted new
\* joined    and has read the destinations
\* rejected  threw
\* settled   has returned, or its failure is recorded
Job == [pc : {"idle", "picked", "nothing", "fetched", "inserted", "joined",
              "rejected", "settled"},
        url : Nat, first : BOOLEAN, upTo : Item \cup {0}, new : SUBSET Item,
        dests : SUBSET Dest]
Idle == [pc |-> "idle", url |-> NoUrl, first |-> FALSE, upTo |-> 0, new |-> {},
         dests |-> {}]

\* announced  the items notified to the streams
\* old        what the first poll that went well has found
\* stayed     destinations that are on since the transaction began
\* due        those that were on until an item's transaction ended, with the item
\* overtaken  the URL was edited while a poll was under way
\* rested     the interval has passed since the last poll began
\* excused    the end of the last poll was not recorded
Hist == [announced : SUBSET Item, old : SUBSET Item, stayed : SUBSET Dest,
         due : SUBSET (Dest \X Item), overtaken : BOOLEAN, rested : BOOLEAN, excused : BOOLEAN]

TypeOK ==
    /\ feed \in [Feed -> FeedRow]
    /\ order \in Seq(Feed) /\ ToSet(order) = Feed /\ Len(order) = Cardinality(Feed)
    /\ served \in [Feed -> Item \cup {0}]
    /\ cutoff \in [Feed -> Nat]
    /\ dest \in [Dest -> {"none", "on", "off"}]
    /\ items \in [Feed -> SUBSET Item]
    /\ dispatches \subseteq Dest \X Item
    /\ \A p \in dispatches : dest[p[1]] # "none" /\ p[2] \in items[FeedOf[p[1]]]
    /\ job \in [Feed -> Job]
    /\ hist \in [Feed -> Hist]
    /\ edits \in Nat /\ faults \in Nat

Init ==
    /\ feed = [f \in Feed |-> [row |-> "on", due |-> TRUE, url |-> 1,
                               hint |-> NoUrl, done |-> FALSE]]
    /\ order \in {s \in [1 .. Cardinality(Feed) -> Feed] : ToSet(s) = Feed}
    /\ served = [f \in Feed |-> 0]
    /\ cutoff = [f \in Feed |-> 0]
    /\ dest \in [Dest -> {"none", "on"}]
    /\ items = [f \in Feed |-> {}]
    /\ dispatches = {}
    /\ job = [f \in Feed |-> Idle]
    /\ hist = [f \in Feed |-> [announced |-> {}, old |-> {}, stayed |-> {},
                               due |-> {}, overtaken |-> FALSE, rested |-> TRUE,
                               excused |-> FALSE]]
    /\ edits = MaxEdits /\ faults = MaxFaults

On(f) == {d \in Dest : FeedOf[d] = f /\ dest[d] = "on"}

Steps(f, pc) == job' = [job EXCEPT ![f].pc = pc]

-----------------------------------------------------------------------------
(* pollDueFeeds.                                                           *)

Due == {f \in Feed : feed[f].row = "on" /\ feed[f].due}

\* ORDER BY last_polled_at NULLS FIRST LIMIT POLL_BATCH_SIZE
Ahead(g, f) == \E i, j \in DOMAIN order : i < j /\ order[i] = g /\ order[j] = f
FirstDue == {f \in Due : Cardinality({g \in Due : Ahead(g, f)}) < Batch}

\* The SELECT of the batch, when the one before is settled.
Pick ==
    /\ \A f \in Feed : job[f].pc = "idle"
    /\ Due # {}
    /\ job' = [f \in Feed |->
          IF f \in FirstDue THEN [Idle EXCEPT !.pc = "picked", !.url = feed[f].url,
                                             !.first = ~feed[f].done]
          ELSE job[f]]
    /\ hist' = [f \in Feed |->
          IF f \in FirstDue THEN [hist[f] EXCEPT !.rested = FALSE, !.excused = FALSE]
          ELSE hist[f]]
    /\ UNCHANGED <<feed, order, served, cutoff, dest, items, dispatches, edits, faults>>

\* fetchFeed of the URL that was read, with its hints, and parseFeedBody: an
\* error of whatever sort, a 304, a body, or one that does not parse.
Fetch(f) ==
    /\ job[f].pc = "picked"
    /\ \/ Steps(f, "nothing")
       \/ job' = [job EXCEPT ![f].pc = "fetched", ![f].upTo = served[f]]
       \/ Steps(f, "rejected")
    /\ UNCHANGED <<feed, order, served, cutoff, dest, items, dispatches, hist, edits, faults>>

\* last_polled_at = now(), of the feed if it is still there.
Bumped(row) == [row EXCEPT !.due = @ /\ row.row = "deleted"]
ToTheEnd(f) == Append(SelectSeq(order, LAMBDA g : g # f), f)

\* The UPDATE after an error or a 304.
Record(f) ==
    /\ job[f].pc = "nothing"
    /\ \/ /\ Steps(f, "settled")
          /\ feed' = [feed EXCEPT ![f] = Bumped(@)]
          /\ order' = ToTheEnd(f)
       \/ Steps(f, "rejected") /\ UNCHANGED <<feed, order>>
    /\ UNCHANGED <<served, cutoff, dest, items, dispatches, hist, edits, faults>>

Settled == \A f \in Feed : job[f].pc \in {"idle", "settled", "rejected"}

\* The mutant only logs the failure.
RecordFailureInLog(f) == UNCHANGED <<feed, order>>

RecordFailure(f) ==
    /\ feed' = [feed EXCEPT ![f] = Bumped(@)]
    /\ order' = ToTheEnd(f)

\* After Promise.allSettled: the failures are recorded, unless the database
\* is out of reach.
RecordRejected(f) ==
    /\ Settled
    /\ job[f].pc = "rejected"
    /\ Steps(f, "settled")
    /\ \/ RecordFailure(f) /\ UNCHANGED <<hist, faults>>
       \/ /\ faults > 0 /\ faults' = faults - 1
          /\ hist' = [hist EXCEPT ![f].excused = TRUE]
          /\ UNCHANGED <<feed, order>>
    /\ UNCHANGED <<served, cutoff, dest, items, dispatches, edits>>

\* pollDueFeeds returns; the loop calls it again.
Return ==
    /\ \E f \in Feed : job[f].pc = "settled"
    /\ \A f \in Feed : job[f].pc \in {"idle", "settled"}
    /\ job' = [f \in Feed |-> Idle]
    /\ UNCHANGED <<feed, order, served, cutoff, dest, items, dispatches, hist, edits, faults>>

WorkerDies ==
    /\ faults > 0 /\ faults' = faults - 1
    /\ job' = [f \in Feed |-> Idle]
    /\ hist' = [f \in Feed |-> [hist[f] EXCEPT !.excused = TRUE]]
    /\ UNCHANGED <<feed, order, served, cutoff, dest, items, dispatches, edits>>

-----------------------------------------------------------------------------
(* The transaction of pollFeed.                                            *)

\* INSERT INTO feed_items ... ON CONFLICT DO NOTHING RETURNING: the items that
\* were not there.  The foreign key refuses a feed that is gone; of a body
\* without items nothing is inserted.
InsertItems(f) ==
    /\ job[f].pc = "fetched"
    /\ IF feed[f].row = "deleted" /\ job[f].upTo > 0 THEN Steps(f, "rejected")
       ELSE job' = [job EXCEPT ![f].pc = "inserted",
                               ![f].new = (1 .. job[f].upTo) \ items[f]]
    /\ hist' = [hist EXCEPT ![f].stayed = On(f)]
    /\ UNCHANGED <<feed, order, served, cutoff, dest, items, dispatches, edits, faults>>

\* The newest backfill_value items of the first poll.
Freshest(f) ==
    {i \in job[f].new : Cardinality({j \in job[f].new : j > i}) < Backfill[f]}

\* The mutant takes the days for hours: the newest item at most is not too old.
WithinHours(f) ==
    {i \in job[f].new : i > cutoff[f] /\ \A j \in job[f].new : j <= i}

\* The items of the first poll published in the last backfill_value days.
WithinDays(f) == {i \in job[f].new : i > cutoff[f]}

\* selectBackfillItems, on the first poll only.
ToDispatch(f) ==
    IF ~job[f].first THEN job[f].new
    ELSE IF f \in Days THEN WithinDays(f) ELSE Freshest(f)

\* The routes and destinations that are on right now.
JoinRoutes(f) ==
    /\ job[f].pc = "inserted"
    /\ job' = [job EXCEPT ![f].pc = "joined", ![f].dests = On(f)]
    /\ UNCHANGED <<feed, order, served, cutoff, dest, items, dispatches, hist, edits, faults>>

\* The UPDATE at the end of the transaction.
PolledRow(f) ==
    IF feed[f].row = "deleted" THEN feed[f]
    ELSE [Bumped(feed[f]) EXCEPT !.hint = job[f].url, !.done = TRUE]

\* INSERT INTO dispatches, the NOTIFYs, the UPDATE of the feed, COMMIT.
CommitItems(f) ==
    /\ job[f].pc = "joined"
    /\ \A d \in job[f].dests : ToDispatch(f) # {} => dest[d] # "none"
    /\ items' = [items EXCEPT ![f] = @ \cup job[f].new]
    /\ dispatches' = dispatches \cup (job[f].dests \X ToDispatch(f))
    /\ hist' = [hist EXCEPT
          ![f].announced = @ \cup ToDispatch(f),
          ![f].old = IF job[f].first THEN job[f].new ELSE @,
          ![f].due = @ \cup (hist[f].stayed \X ToDispatch(f)),
          ![f].stayed = {}]
    /\ feed' = [feed EXCEPT ![f] = PolledRow(f)]
    /\ order' = ToTheEnd(f)
    /\ Steps(f, "settled")
    /\ UNCHANGED <<served, cutoff, dest, edits, faults>>

\* The mutant commits the items on their own.
KeepItems(f) == items' = [items EXCEPT ![f] = @ \cup job[f].new]

NothingKept(f) == UNCHANGED items

\* A destination was deleted before the insert, which its foreign key then
\* refuses, or the transaction fails for another reason.
RollBack(f) ==
    /\ job[f].pc \in {"inserted", "joined"}
    /\ NothingKept(f)
    /\ Steps(f, "rejected")
    /\ UNCHANGED <<feed, order, served, cutoff, dest, dispatches, hist, edits, faults>>

-----------------------------------------------------------------------------
(* The API: feeds, routes and destinations.                                *)

Edit == edits > 0 /\ edits' = edits - 1

\* The INSERT into feed_items holds the feed until the end of the transaction.
Held(f) == job[f].pc \in {"inserted", "joined"} /\ job[f].new # {}

SetEnabled(f, row) ==
    /\ Edit
    /\ feed[f].row # "deleted" /\ feed[f].row # row
    /\ feed' = [feed EXCEPT ![f].row = row]
    /\ UNCHANGED <<order, served, cutoff, dest, items, dispatches, job, hist, faults>>

\* The mutant keeps the HTTP cache hints.
RowWithUrlOnly(f, url) == [feed[f] EXCEPT !.url = url]

RowWithUrl(f, url) == [feed[f] EXCEPT !.url = url, !.hint = NoUrl]

\* PATCH with a url, after checkSafeOutboundUrl.
SetUrl(f) ==
    /\ Edit
    /\ feed[f].row # "deleted"
    /\ feed' = [feed EXCEPT ![f] = RowWithUrl(f, feed[f].url + 1)]
    /\ hist' = [hist EXCEPT ![f].overtaken = @ \/ job[f].pc # "idle"]
    /\ UNCHANGED <<order, served, cutoff, dest, items, dispatches, job, faults>>

\* DELETE cascades to the items, the routes, their destinations and dispatches.
DeleteFeed(f) ==
    /\ Edit
    /\ feed[f].row # "deleted" /\ ~Held(f)
    /\ feed' = [feed EXCEPT ![f].row = "deleted"]
    /\ items' = [items EXCEPT ![f] = {}]
    /\ dest' = [d \in Dest |-> IF FeedOf[d] = f THEN "none" ELSE dest[d]]
    /\ dispatches' = {p \in dispatches : FeedOf[p[1]] # f}
    /\ UNCHANGED <<order, served, cutoff, job, hist, faults>>

\* POST of a destination, or of a route with it: the feed has to be there.
AddDest(d) ==
    /\ Edit
    /\ dest[d] = "none" /\ feed[FeedOf[d]].row # "deleted"
    /\ dest' = [dest EXCEPT ![d] = "on"]
    /\ UNCHANGED <<feed, order, served, cutoff, items, dispatches, job, hist, faults>>

SetDest(d, state) ==
    /\ Edit
    /\ dest[d] # "none" /\ dest[d] # state
    /\ dest' = [dest EXCEPT ![d] = state]
    /\ hist' = [hist EXCEPT ![FeedOf[d]].stayed = @ \ {d}]
    /\ UNCHANGED <<feed, order, served, cutoff, items, dispatches, job, faults>>

WithoutDest(d) == {p \in dispatches : p[1] # d}

\* DELETE of a destination or of its route cascades to the dispatches.
DeleteDest(d) ==
    /\ Edit
    /\ dest[d] # "none"
    /\ dest' = [dest EXCEPT ![d] = "none"]
    /\ dispatches' = WithoutDest(d)
    /\ hist' = [hist EXCEPT ![FeedOf[d]].stayed = @ \ {d},
                            ![FeedOf[d]].due = {p \in @ : p[1] # d}]
    /\ UNCHANGED <<feed, order, served, cutoff, items, job, faults>>

-----------------------------------------------------------------------------
(* The origins and the clock.                                              *)

Publish(f) ==
    /\ served[f] < Published[f]
    /\ served' = [served EXCEPT ![f] = @ + 1]
    /\ UNCHANGED <<feed, order, cutoff, dest, items, dispatches, job, hist, edits, faults>>

IntervalPasses(f) ==
    /\ ~(feed[f].due /\ hist[f].rested)
    /\ job[f].pc \notin {"inserted", "joined"}
    /\ feed' = [feed EXCEPT ![f].due = TRUE]
    /\ hist' = [hist EXCEPT ![f].rested = TRUE]
    /\ UNCHANGED <<order, served, cutoff, dest, items, dispatches, job, edits, faults>>

\* An item gets older than backfill_value days.  When it does so within the
\* transaction, selectBackfillItems has read the clock before or after.
DayPasses(f) ==
    /\ f \in Days /\ cutoff[f] < Published[f]
    /\ job[f].pc \notin {"inserted", "joined"}
    /\ cutoff' = [cutoff EXCEPT ![f] = @ + 1]
    /\ UNCHANGED <<feed, order, served, dest, items, dispatches, job, hist, edits, faults>>

Poller == \/ Pick \/ Return
          \/ \E f \in Feed : \/ Fetch(f) \/ Record(f) \/ RecordRejected(f)
                            \/ InsertItems(f) \/ JoinRoutes(f) \/ CommitItems(f)
                            \/ RollBack(f)

Next ==
    \/ Poller
    \/ \E f \in Feed : \/ \E row \in {"on", "off"} : SetEnabled(f, row)
                       \/ SetUrl(f) \/ DeleteFeed(f) \/ Publish(f)
                       \/ IntervalPasses(f) \/ DayPasses(f)
    \/ \E d \in Dest : \/ \E state \in {"on", "off"} : SetDest(d, state)
                       \/ AddDest(d) \/ DeleteDest(d)
    \/ WorkerDies

\* The loop goes on, and every fetch ends, by its timeout if need be.
Spec == Init /\ [][Next]_vars /\ WF_vars(Poller)
             /\ \A f \in Feed : WF_vars(IntervalPasses(f))

-----------------------------------------------------------------------------
(* Properties.                                                             *)

\* No notification is lost between the items and the dispatches, through
\* rollbacks, retries of the poll, deaths of the worker and edits of routes:
\* an item that is stored and to be dispatched has a dispatch for each
\* destination that was on throughout its transaction.
NoneLost ==
    \A f \in Feed :
        /\ items[f] \subseteq hist[f].old \cup hist[f].announced
        /\ feed[f].row # "deleted" => hist[f].due \subseteq dispatches

\* Only the first poll that goes well keeps items silent, and only old ones:
\* with mode count those that are older than the newest backfill_value ones it
\* has found, with mode days those that are undated or older than that.
SilentIsOld ==
    \A f \in Feed : \A i \in items[f] \ hist[f].announced :
        /\ i \in hist[f].old
        /\ IF f \in Days THEN i <= cutoff[f]
           ELSE Cardinality({j \in hist[f].old \cap hist[f].announced : j > i})
                >= Backfill[f]

\* The cache hints of a feed belong to its URL, unless the URL was edited
\* while a poll of the old one was under way.
HintsBelongToUrl ==
    \A f \in Feed : feed[f].hint \in {NoUrl, feed[f].url} \/ hist[f].overtaken

\* A feed is not polled again before its interval is over, however the last
\* poll ended; the end of the worker or of the database is the exception.
NoHotLoop ==
    [][\A f \in Feed : job[f].pc = "idle" /\ job'[f].pc = "picked"
                      => hist[f].rested \/ hist[f].excused]_vars

\* Every enabled feed is polled again and again, whatever becomes of the polls
\* of the others.
EveryFeedIsPolled ==
    \A f \in Feed : []<>(job[f].pc # "idle" \/ feed[f].row # "on")
=============================================================================
