--------------------------- MODULE RssPollerProofs ---------------------------
(***************************************************************************)
(* Theorems about RssPoller, for any number of feeds, destinations, items, *)
(* edits and failures, and any batch and backfill: between an item and its *)
(* dispatches no notification is lost, the cache hints of a feed belong to   *)
(* its URL, and no feed is polled in a hot loop.                           *)
(***************************************************************************)
EXTENDS RssPoller, FiniteSetTheorems, TLAPS

\* TypeOK without what it says of the order, the cutoffs and the references.
Typed ==
    /\ feed \in [Feed -> FeedRow]
    /\ served \in [Feed -> Item \cup {0}]
    /\ dest \in [Dest -> {"none", "on", "off"}]
    /\ items \in [Feed -> SUBSET Item]
    /\ job \in [Feed -> Job]
    /\ hist \in [Feed -> Hist]

\* Nothing is stored before the first poll that goes well, which alone may
\* keep items silent, nor after the feed is deleted.
Clean(f) ==
    /\ ~feed[f].done => items[f] = {}
    /\ feed[f].row = "deleted" => items[f] = {}
    /\ job[f].first /\ job[f].pc \in {"picked", "fetched", "inserted", "joined"}
       => items[f] = {}
    /\ feed[f].row = "deleted" /\ job[f].pc \in {"inserted", "joined"} => job[f].new = {}

\* The destinations that are on throughout the transaction are found by it.
Watched(f) ==
    /\ \A d \in hist[f].stayed : FeedOf[d] = f
    /\ \A p \in hist[f].due : FeedOf[p[1]] = f
    /\ feed[f].row # "deleted" /\ job[f].pc = "inserted" => hist[f].stayed \subseteq On(f)
    /\ feed[f].row # "deleted" /\ job[f].pc = "joined" => hist[f].stayed \subseteq job[f].dests

Kept(f) ==
    /\ items[f] \subseteq hist[f].old \cup hist[f].announced
    /\ feed[f].row # "deleted" => hist[f].due \subseteq dispatches

\* A poll that nobody has overtaken has read the URL the feed still has.
Hinted(f) ==
    hist[f].overtaken \/ /\ feed[f].hint \in {NoUrl, feed[f].url}
                         /\ job[f].pc # "idle" => job[f].url = feed[f].url

Good(f) == Clean(f) /\ Watched(f) /\ Kept(f) /\ Hinted(f)

\* The inductive invariant.
IInv == Typed /\ \A f \in Feed : Good(f)

-----------------------------------------------------------------------------
(* Frames.                                                                 *)

\* What the invariant reads of a feed and its history stays the same.
SameFeed(f) ==
    /\ (feed'[f].row = "deleted") <=> (feed[f].row = "deleted")
    /\ feed'[f].done = feed[f].done
    /\ feed'[f].url = feed[f].url /\ feed'[f].hint = feed[f].hint
    /\ items'[f] = items[f]

SameHist(f) ==
    /\ hist'[f].announced = hist[f].announced /\ hist'[f].old = hist[f].old
    /\ hist'[f].stayed = hist[f].stayed /\ hist'[f].due = hist[f].due
    /\ hist'[f].overtaken = hist[f].overtaken

\* Destinations of the feed may be added; its dispatches stay.
SameDests(f) ==
    /\ feed[f].row # "deleted" => On(f) \subseteq On(f)'
    /\ \A p \in dispatches : FeedOf[p[1]] = f => p \in dispatches'

\* A poll that stays where it is, ends, or gets its answer.
QuietJob(f) ==
    \/ job'[f] = job[f]
    \/ job'[f].pc = "idle"
    \/ /\ job[f].pc # "idle" /\ job'[f].url = job[f].url
       /\ job'[f].pc \in {"nothing", "rejected", "settled"}
    \/ /\ job[f].pc = "picked" /\ job'[f].pc = "fetched"
       /\ job'[f].url = job[f].url /\ job'[f].first = job[f].first

LEMMA QuietKeeps ==
    ASSUME NEW f \in Feed, Good(f), SameFeed(f), SameHist(f), SameDests(f), QuietJob(f)
    PROVE  Good(f)'
<1>1. Clean(f)'
  BY DEF Good, Clean, SameFeed, QuietJob
<1>2. Watched(f)'
  BY DEF Good, Watched, SameFeed, SameHist, SameDests, QuietJob
<1>3. Kept(f)'
  BY DEF Good, Kept, Watched, SameFeed, SameHist, SameDests
<1>4. Hinted(f)'
  BY DEF Good, Hinted, SameFeed, SameHist, QuietJob
<1>5. QED
  BY <1>1, <1>2, <1>3, <1>4 DEF Good

\* For the feeds that a step does not concern.
LEMMA OtherKeeps ==
    ASSUME NEW f \in Feed, Good(f), SameDests(f), feed'[f] = feed[f],
           items'[f] = items[f], job'[f] = job[f], hist'[f] = hist[f]
    PROVE  Good(f)'
<1>1. SameFeed(f) /\ SameHist(f) /\ QuietJob(f)
  BY DEF SameFeed, SameHist, QuietJob
<1>2. QED
  BY <1>1, QuietKeeps

LEMMA DestsAlone ==
    ASSUME NEW f \in Feed, dest' = dest, dispatches \subseteq dispatches'
    PROVE  SameDests(f)
BY DEF SameDests, On

LEMMA IdleIsJob == Idle \in Job /\ Idle.pc = "idle"
<1>1. 0 \in Item \cup {0} /\ {} \in SUBSET Item /\ {} \in SUBSET Dest /\ FALSE \in BOOLEAN
  OBVIOUS
<1>2. QED
  BY <1>1 DEF Idle, Job, NoUrl

LEMMA StepsEffect ==
    ASSUME Typed, NEW f \in Feed,
           NEW pc \in {"idle", "picked", "nothing", "fetched", "inserted", "joined",
                       "rejected", "settled"},
           Steps(f, pc)
    PROVE  /\ job' \in [Feed -> Job]
           /\ job'[f].pc = pc
           /\ job'[f].url = job[f].url /\ job'[f].first = job[f].first
           /\ job'[f].new = job[f].new /\ job'[f].dests = job[f].dests
           /\ \A g \in Feed : g # f => job'[g] = job[g]
BY DEF Typed, Steps, Job

LEMMA ExcusedEffect ==
    ASSUME NEW h \in Hist
    PROVE  /\ [h EXCEPT !.excused = TRUE] \in Hist
           /\ [h EXCEPT !.excused = TRUE].announced = h.announced
           /\ [h EXCEPT !.excused = TRUE].old = h.old
           /\ [h EXCEPT !.excused = TRUE].stayed = h.stayed
           /\ [h EXCEPT !.excused = TRUE].due = h.due
           /\ [h EXCEPT !.excused = TRUE].overtaken = h.overtaken
BY DEF Hist

LEMMA BumpedEffect ==
    ASSUME NEW row \in FeedRow
    PROVE  /\ Bumped(row) \in FeedRow
           /\ Bumped(row).row = row.row /\ Bumped(row).done = row.done
           /\ Bumped(row).url = row.url /\ Bumped(row).hint = row.hint
BY DEF Bumped, FeedRow

\* feed' of Record and RecordFailure.
LEMMA BumpEffect ==
    ASSUME Typed, NEW f \in Feed, feed' = [feed EXCEPT ![f] = Bumped(@)]
    PROVE  /\ feed' \in [Feed -> FeedRow]
           /\ feed'[f].row = feed[f].row /\ feed'[f].done = feed[f].done
           /\ feed'[f].url = feed[f].url /\ feed'[f].hint = feed[f].hint
           /\ \A g \in Feed : g # f => feed'[g] = feed[g]
<1>1. feed[f] \in FeedRow
  BY DEF Typed
<1>2. feed'[f] = Bumped(feed[f]) /\ \A g \in Feed : g # f => feed'[g] = feed[g]
  BY DEF Typed
<1>3. feed' \in [Feed -> FeedRow]
  BY <1>1, BumpedEffect DEF Typed
<1>4. QED
  BY <1>1, <1>2, <1>3, BumpedEffect

-----------------------------------------------------------------------------
(* pollDueFeeds.                                                           *)

LEMMA PickKeeps ==
    ASSUME IInv, Pick
    PROVE  IInv'
<1> DEFINE batch == FirstDue
           new(f) == [Idle EXCEPT !.pc = "picked", !.url = feed[f].url, !.first = ~feed[f].done]
<1>1. /\ job' = [f \in Feed |-> IF f \in batch THEN new(f) ELSE job[f]]
      /\ hist' = [f \in Feed |->
                     IF f \in batch THEN [hist[f] EXCEPT !.rested = FALSE, !.excused = FALSE]
                     ELSE hist[f]]
      /\ UNCHANGED <<feed, order, served, dest, items, dispatches, edits, faults>>
  BY DEF Pick
<1> HIDE DEF batch
<1>2. \A f \in Feed : /\ new(f) \in Job /\ new(f).pc = "picked"
                      /\ new(f).url = feed[f].url /\ new(f).first = ~feed[f].done
  <2>1. ASSUME NEW f \in Feed PROVE feed[f].url \in Nat /\ (~feed[f].done) \in BOOLEAN
    BY DEF IInv, Typed, FeedRow
  <2>2. QED
    BY <2>1 DEF Idle, Job
<1> HIDE DEF new
<1>3. \A f \in Feed : SameHist(f) /\ hist'[f] \in Hist
  BY <1>1 DEF IInv, Typed, Hist, SameHist
<1>4. Typed'
  <2>1. job' \in [Feed -> Job]
    BY <1>1, <1>2 DEF IInv, Typed
  <2>2. hist' \in [Feed -> Hist]
    BY <1>1, <1>3
  <2>3. QED
    BY <1>1, <2>1, <2>2 DEF IInv, Typed
<1>5. ASSUME NEW f \in Feed PROVE Good(f)'
  <2>1. Good(f) /\ SameFeed(f) /\ SameDests(f) /\ SameHist(f)
    BY <1>1, <1>3, DestsAlone DEF IInv, SameFeed
  <2>2. CASE f \notin batch
    <3>1. job'[f] = job[f]
      BY <1>1, <2>2
    <3>2. QED
      BY <2>1, <3>1, QuietKeeps DEF QuietJob
  <2>3. CASE f \in batch
    <3>1. job'[f].pc = "picked" /\ job'[f].url = feed[f].url /\ job'[f].first = ~feed[f].done
      BY <1>1, <1>2, <2>3
    <3>2. Clean(f)'
      BY <2>1, <3>1 DEF Good, Clean, SameFeed
    <3>3. Watched(f)'
      BY <2>1, <3>1 DEF Good, Watched, SameHist
    <3>4. Kept(f)'
      BY <1>1, <2>1 DEF Good, Kept, SameFeed, SameHist
    <3>5. Hinted(f)'
      BY <2>1, <3>1 DEF Good, Hinted, SameFeed, SameHist
    <3>6. QED
      BY <3>2, <3>3, <3>4, <3>5 DEF Good
  <2>4. QED
    BY <2>2, <2>3
<1>6. QED
  BY <1>4, <1>5 DEF IInv

LEMMA FetchKeeps ==
    ASSUME IInv, NEW f \in Feed, Fetch(f)
    PROVE  IInv'
<1>1. /\ Typed /\ job[f].pc = "picked" /\ hist' = hist
      /\ UNCHANGED <<feed, order, served, dest, items, dispatches>>
  BY DEF Fetch, IInv
<1>2. /\ job' \in [Feed -> Job] /\ QuietJob(f)
      /\ \A g \in Feed : g # f => job'[g] = job[g]
  <2>1. ASSUME NEW pc \in {"nothing", "rejected"}, Steps(f, pc)
        PROVE  /\ job' \in [Feed -> Job] /\ QuietJob(f)
               /\ \A g \in Feed : g # f => job'[g] = job[g]
    BY <1>1, <2>1, StepsEffect DEF QuietJob
  <2>2. CASE job' = [job EXCEPT ![f].pc = "fetched", ![f].upTo = served[f]]
    <3>0. /\ job[f] \in Job /\ served[f] \in Item \cup {0}
          /\ [job[f] EXCEPT !.pc = "fetched", !.upTo = served[f]] \in Job
      BY <1>1 DEF Typed, Job
    <3>1. job' \in [Feed -> Job]
      BY <1>1, <2>2, <3>0 DEF Typed
    <3>2. /\ job'[f].pc = "fetched"
          /\ job'[f].url = job[f].url /\ job'[f].first = job[f].first
          /\ \A g \in Feed : g # f => job'[g] = job[g]
      BY <1>1, <2>2 DEF Typed, Job
    <3>3. QED
      BY <1>1, <3>1, <3>2 DEF QuietJob
  <2>3. QED
    BY <2>1, <2>2 DEF Fetch
<1>3. Typed'
  BY <1>1, <1>2 DEF Typed
<1>4. ASSUME NEW g \in Feed PROVE Good(g)'
  <2>1. Good(g) /\ SameFeed(g) /\ SameHist(g) /\ SameDests(g)
    BY <1>1, DestsAlone DEF IInv, SameFeed, SameHist
  <2>2. QuietJob(g)
    BY <1>2 DEF QuietJob
  <2>3. QED
    BY <2>1, <2>2, QuietKeeps
<1>5. QED
  BY <1>3, <1>4 DEF IInv

\* Record and RecordRejected.
LEMMA RecordedKeeps ==
    ASSUME IInv, NEW f \in Feed, NEW pc \in {"settled", "rejected"},
           job[f].pc # "idle", Steps(f, pc),
           feed' = feed \/ feed' = [feed EXCEPT ![f] = Bumped(@)],
           hist' = hist \/ hist' = [hist EXCEPT ![f].excused = TRUE],
           UNCHANGED <<served, dest, items, dispatches>>
    PROVE  IInv'
<1>0. Typed
  BY DEF IInv
<1>1. /\ feed' \in [Feed -> FeedRow]
      /\ \A g \in Feed : SameFeed(g)
  <2>1. CASE feed' = feed
    BY <1>0, <2>1 DEF Typed, SameFeed
  <2>2. CASE feed' = [feed EXCEPT ![f] = Bumped(@)]
    BY <1>0, <2>2, BumpEffect DEF SameFeed
  <2>3. QED
    BY <2>1, <2>2
<1>2. /\ hist' \in [Feed -> Hist]
      /\ \A g \in Feed : SameHist(g)
  <2>1. CASE hist' = hist
    BY <1>0, <2>1 DEF Typed, SameHist
  <2>2. CASE hist' = [hist EXCEPT ![f].excused = TRUE]
    <3>1. /\ hist'[f] = [hist[f] EXCEPT !.excused = TRUE]
          /\ \A g \in Feed : g # f => hist'[g] = hist[g]
      BY <1>0, <2>2 DEF Typed
    <3>2. /\ hist' \in [Feed -> Hist] /\ hist[f] \in Hist
      <4>1. hist \in [Feed -> Hist] /\ [hist[f] EXCEPT !.excused = TRUE] \in Hist
        BY <1>0, ExcusedEffect DEF Typed
      <4>2. QED
        BY <2>2, <4>1
    <3>3. SameHist(f)
      BY <3>1, <3>2, ExcusedEffect DEF SameHist
    <3>4. QED
      BY <3>1, <3>2, <3>3 DEF SameHist
  <2>3. QED
    BY <2>1, <2>2
<1>3. job' \in [Feed -> Job] /\ \A g \in Feed : QuietJob(g)
  BY <1>0, StepsEffect DEF QuietJob
<1>4. Typed'
  BY <1>0, <1>1, <1>2, <1>3 DEF Typed
<1>5. \A g \in Feed : SameDests(g)
  BY DestsAlone
<1>6. \A g \in Feed : Good(g)'
  BY <1>1, <1>2, <1>3, <1>5, QuietKeeps DEF IInv
<1>7. QED
  BY <1>4, <1>6 DEF IInv

\* Return and WorkerDies.
LEMMA AllIdleKeeps ==
    ASSUME IInv, job' = [f \in Feed |-> Idle],
           \/ hist' = hist
           \/ hist' = [f \in Feed |-> [hist[f] EXCEPT !.excused = TRUE]],
           UNCHANGED <<feed, served, dest, items, dispatches>>
    PROVE  IInv'
<1>1. Idle \in Job /\ Idle.pc = "idle"
  BY IdleIsJob
<1>2. job' \in [Feed -> Job] /\ \A f \in Feed : QuietJob(f)
  BY <1>1 DEF QuietJob
<1>3. hist' \in [Feed -> Hist] /\ \A f \in Feed : SameHist(f)
  <2>1. CASE hist' = hist
    BY <2>1 DEF IInv, Typed, SameHist
  <2>2. CASE hist' = [f \in Feed |-> [hist[f] EXCEPT !.excused = TRUE]]
    <3>1. \A f \in Feed : hist[f] \in Hist
      BY DEF IInv, Typed
    <3>2. QED
      BY <2>2, <3>1, ExcusedEffect DEF SameHist
  <2>3. QED
    BY <2>1, <2>2
<1>4. Typed'
  BY <1>2, <1>3 DEF IInv, Typed
<1>5. \A f \in Feed : SameFeed(f) /\ SameDests(f)
  BY DestsAlone DEF SameFeed
<1>6. \A f \in Feed : Good(f)'
  BY <1>2, <1>3, <1>5, QuietKeeps DEF IInv
<1>7. QED
  BY <1>4, <1>6 DEF IInv

-----------------------------------------------------------------------------
(* The transaction of pollFeed.                                            *)

LEMMA UpToIsItems ==
    ASSUME NEW n \in Item \cup {0}
    PROVE  1 .. n \subseteq Item
<1>1. CASE n = 0
  BY <1>1
<1>2. CASE n \in Item
  <2>1. PICK f \in Feed : n \in 1 .. Published[f]
    BY <1>2 DEF Item
  <2>2. 1 .. n \subseteq 1 .. Published[f] /\ Published[f] \in Nat
    BY <2>1, RssPollerAssumption
  <2>3. QED
    BY <2>2 DEF Item
<1>3. QED
  BY <1>1, <1>2

LEMMA InsertItemsKeeps ==
    ASSUME IInv, NEW f \in Feed, InsertItems(f)
    PROVE  IInv'
<1>1. /\ Typed /\ job[f].pc = "fetched" /\ job[f] \in Job /\ hist[f] \in Hist
      /\ UNCHANGED <<feed, served, dest, items, dispatches>>
      /\ hist' = [hist EXCEPT ![f].stayed = On(f)]
  BY DEF InsertItems, IInv, Typed
<1>2. On(f) \subseteq Dest /\ \A d \in On(f) : FeedOf[d] = f
  BY DEF On
<1>3. /\ hist' \in [Feed -> Hist]
      /\ hist'[f].announced = hist[f].announced /\ hist'[f].old = hist[f].old
      /\ hist'[f].stayed = On(f) /\ hist'[f].due = hist[f].due
      /\ hist'[f].overtaken = hist[f].overtaken
      /\ \A g \in Feed : g # f => hist'[g] = hist[g]
  <2>1. /\ [hist[f] EXCEPT !.stayed = On(f)] \in Hist
        /\ [hist[f] EXCEPT !.stayed = On(f)].announced = hist[f].announced
        /\ [hist[f] EXCEPT !.stayed = On(f)].old = hist[f].old
        /\ [hist[f] EXCEPT !.stayed = On(f)].stayed = On(f)
        /\ [hist[f] EXCEPT !.stayed = On(f)].due = hist[f].due
        /\ [hist[f] EXCEPT !.stayed = On(f)].overtaken = hist[f].overtaken
    BY <1>1, <1>2 DEF Hist
  <2>2. hist \in [Feed -> Hist]
    BY <1>1 DEF Typed
  <2>3. QED
    BY <1>1, <2>1, <2>2
<1>4. /\ job' \in [Feed -> Job]
      /\ job'[f].url = job[f].url /\ job'[f].first = job[f].first
      /\ \/ job'[f].pc = "rejected"
         \/ /\ job'[f].pc = "inserted"
            /\ feed[f].row = "deleted" => job'[f].new = {}
      /\ \A g \in Feed : g # f => job'[g] = job[g]
  <2>1. CASE feed[f].row = "deleted" /\ job[f].upTo > 0
    <3>1. Steps(f, "rejected")
      BY <2>1 DEF InsertItems
    <3>2. QED
      BY <1>1, <3>1, StepsEffect
  <2>2. CASE ~(feed[f].row = "deleted" /\ job[f].upTo > 0)
    <3>1. job' = [job EXCEPT ![f].pc = "inserted", ![f].new = (1 .. job[f].upTo) \ items[f]]
      BY <2>2 DEF InsertItems
    <3>2. (1 .. job[f].upTo) \ items[f] \in SUBSET Item
      BY <1>1, UpToIsItems DEF Job
    <3>3. [job[f] EXCEPT !.pc = "inserted", !.new = (1 .. job[f].upTo) \ items[f]] \in Job
      BY <1>1, <3>2 DEF Job
    <3>4. job' \in [Feed -> Job]
      BY <1>1, <3>1, <3>3 DEF Typed
    <3>5. /\ job'[f].url = job[f].url /\ job'[f].first = job[f].first
          /\ job'[f].pc = "inserted" /\ \A g \in Feed : g # f => job'[g] = job[g]
          /\ job'[f].new = (1 .. job[f].upTo) \ items[f]
      BY <1>1, <3>1 DEF Typed, Job
    <3>6. ASSUME feed[f].row = "deleted" PROVE job'[f].new = {}
      <4>1. job[f].upTo \in Nat /\ ~(job[f].upTo > 0)
        BY <1>1, <2>2, <3>6, RssPollerAssumption DEF Job, Item
      <4>2. 1 .. job[f].upTo = {}
        BY <4>1
      <4>3. QED
        BY <3>5, <4>2
    <3>7. QED
      BY <3>4, <3>5, <3>6
  <2>3. QED
    BY <2>1, <2>2
<1>5. Typed'
  BY <1>1, <1>3, <1>4 DEF Typed
<1>6. Good(f)'
  <2>1. Good(f)
    BY DEF IInv
  <2>2. Clean(f)'
    BY <1>1, <1>4, <2>1 DEF Good, Clean
  <2>3. On(f)' = On(f)
    BY <1>1 DEF On
  <2>4. Watched(f)'
    BY <1>1, <1>2, <1>3, <1>4, <2>1, <2>3 DEF Good, Watched
  <2>5. Kept(f)' /\ Hinted(f)'
    BY <1>1, <1>3, <1>4, <2>1 DEF Good, Kept, Hinted
  <2>6. QED
    BY <2>2, <2>4, <2>5 DEF Good
<1>7. ASSUME NEW g \in Feed, g # f PROVE Good(g)'
  BY <1>1, <1>3, <1>4, <1>7, OtherKeeps, DestsAlone DEF IInv
<1>8. QED
  BY <1>5, <1>6, <1>7 DEF IInv

LEMMA JoinRoutesKeeps ==
    ASSUME IInv, NEW f \in Feed, JoinRoutes(f)
    PROVE  IInv'
<1>1. /\ Typed /\ job[f].pc = "inserted" /\ job[f] \in Job
      /\ UNCHANGED <<feed, served, dest, items, dispatches, hist>>
      /\ job' = [job EXCEPT ![f].pc = "joined", ![f].dests = On(f)]
  BY DEF JoinRoutes, IInv, Typed
<1>2. [job[f] EXCEPT !.pc = "joined", !.dests = On(f)] \in Job
  <2>1. On(f) \in SUBSET Dest
    BY DEF On
  <2>2. QED
    BY <1>1, <2>1 DEF Job
<1>3. job' \in [Feed -> Job]
  BY <1>1, <1>2 DEF Typed
<1>4. /\ job'[f].pc = "joined" /\ job'[f].dests = On(f)
      /\ job'[f].url = job[f].url /\ job'[f].first = job[f].first
      /\ job'[f].new = job[f].new
      /\ \A g \in Feed : g # f => job'[g] = job[g]
  BY <1>1 DEF Typed, Job
<1>5. Typed'
  BY <1>1, <1>3 DEF Typed
<1>6. Good(f)'
  <2>1. Good(f)
    BY DEF IInv
  <2>2. Clean(f)'
    BY <1>1, <1>4, <2>1 DEF Good, Clean
  <2>3. Watched(f)'
    BY <1>1, <1>4, <2>1 DEF Good, Watched
  <2>4. Kept(f)' /\ Hinted(f)'
    BY <1>1, <1>4, <2>1 DEF Good, Kept, Hinted
  <2>5. QED
    BY <2>2, <2>3, <2>4 DEF Good
<1>7. ASSUME NEW g \in Feed, g # f PROVE Good(g)'
  BY <1>1, <1>4, <1>7, OtherKeeps, DestsAlone DEF IInv
<1>8. QED
  BY <1>5, <1>6, <1>7 DEF IInv

LEMMA PolledRowEffect ==
    ASSUME Typed, NEW f \in Feed
    PROVE  /\ PolledRow(f) \in FeedRow
           /\ PolledRow(f).row = feed[f].row /\ PolledRow(f).url = feed[f].url
           /\ feed[f].row = "deleted" => PolledRow(f) = feed[f]
           /\ feed[f].row # "deleted" => /\ PolledRow(f).hint = job[f].url
                                         /\ PolledRow(f).done = TRUE
<1>1. /\ feed[f] \in FeedRow /\ Bumped(feed[f]) \in FeedRow /\ job[f].url \in Nat
      /\ Bumped(feed[f]).row = feed[f].row /\ Bumped(feed[f]).url = feed[f].url
  BY BumpedEffect DEF Typed, Job
<1>2. CASE feed[f].row = "deleted"
  BY <1>1, <1>2 DEF PolledRow
<1>3. CASE feed[f].row # "deleted"
  <2>1. PolledRow(f) = [Bumped(feed[f]) EXCEPT !.hint = job[f].url, !.done = TRUE]
    BY <1>3 DEF PolledRow
  <2> DEFINE row == Bumped(feed[f])
  <2> HIDE DEF row
  <2>2. [row EXCEPT !.hint = job[f].url, !.done = TRUE] \in FeedRow
    BY <1>1 DEF row, FeedRow
  <2>3. /\ [row EXCEPT !.hint = job[f].url, !.done = TRUE].row = row.row
        /\ [row EXCEPT !.hint = job[f].url, !.done = TRUE].url = row.url
        /\ [row EXCEPT !.hint = job[f].url, !.done = TRUE].hint = job[f].url
        /\ [row EXCEPT !.hint = job[f].url, !.done = TRUE].done = TRUE
    BY <1>1 DEF row, FeedRow
  <2>4. QED
    BY <1>1, <1>3, <2>1, <2>2, <2>3 DEF row
<1>4. QED
  BY <1>2, <1>3

\* Whatever is stored is announced or found by the first poll, and whatever
\* destination has stayed on is among those that the transaction has read.
LEMMA CommitItemsKeeps ==
    ASSUME IInv, NEW f \in Feed, CommitItems(f)
    PROVE  IInv'
<1> DEFINE send == ToDispatch(f)
           due == hist[f].due \cup (hist[f].stayed \X send)
           old == IF job[f].first THEN job[f].new ELSE hist[f].old
           h == [hist[f] EXCEPT !.announced = hist[f].announced \cup send, !.old = old,
                                !.due = due, !.stayed = {}]
<1>1. /\ Typed /\ Good(f) /\ job[f].pc = "joined"
      /\ job[f] \in Job /\ hist[f] \in Hist
      /\ UNCHANGED <<served, dest>>
      /\ Steps(f, "settled")
      /\ items' = [items EXCEPT ![f] = @ \cup job[f].new]
      /\ dispatches' = dispatches \cup (job[f].dests \X send)
      /\ feed' = [feed EXCEPT ![f] = PolledRow(f)]
  BY DEF CommitItems, IInv, Typed
<1>2. hist' = [hist EXCEPT ![f] = h]
  BY <1>1 DEF CommitItems, Typed, Hist
<1>3. /\ send \subseteq job[f].new /\ job[f].new \subseteq Item
      /\ ~job[f].first => send = job[f].new
  BY <1>1 DEF ToDispatch, WithinDays, Freshest, Job
<1> HIDE DEF send
<1>4. /\ due \in SUBSET (Dest \X Item) /\ old \in SUBSET Item
      /\ hist[f].announced \cup send \in SUBSET Item
  BY <1>1, <1>3 DEF Hist
<1> HIDE DEF due, old
<1>5. /\ h \in Hist /\ h.announced = hist[f].announced \cup send /\ h.old = old
      /\ h.stayed = {} /\ h.due = due /\ h.overtaken = hist[f].overtaken
  BY <1>1, <1>4 DEF Hist
<1> HIDE DEF h
<1>6. /\ hist' \in [Feed -> Hist] /\ hist'[f] = h
      /\ \A g \in Feed : g # f => hist'[g] = hist[g]
  BY <1>1, <1>2, <1>5 DEF Typed
<1>7. /\ items' \in [Feed -> SUBSET Item] /\ items'[f] = items[f] \cup job[f].new
      /\ \A g \in Feed : g # f => items'[g] = items[g]
  BY <1>1, <1>3 DEF Typed
<1>8. /\ feed' \in [Feed -> FeedRow] /\ feed'[f] = PolledRow(f)
      /\ \A g \in Feed : g # f => feed'[g] = feed[g]
  BY <1>1, PolledRowEffect DEF Typed
<1>9. /\ feed'[f].row = feed[f].row /\ feed'[f].url = feed[f].url
      /\ feed[f].row = "deleted" => feed'[f] = feed[f]
      /\ feed[f].row # "deleted" => feed'[f].hint = job[f].url /\ feed'[f].done = TRUE
  BY <1>1, <1>8, PolledRowEffect
<1>10. /\ job' \in [Feed -> Job] /\ job'[f].pc = "settled" /\ job'[f].url = job[f].url
       /\ \A g \in Feed : g # f => job'[g] = job[g]
  BY <1>1, StepsEffect
<1>11. Typed'
  BY <1>1, <1>6, <1>7, <1>8, <1>10 DEF Typed
<1>12. Clean(f)'
  <2>1. CASE feed[f].row = "deleted"
    <3>1. items'[f] = {}
      BY <1>1, <1>7, <2>1 DEF Good, Clean
    <3>2. QED
      BY <1>10, <3>1 DEF Clean
  <2>2. CASE feed[f].row # "deleted"
    BY <1>9, <1>10, <2>2 DEF Clean
  <2>3. QED
    BY <2>1, <2>2
<1>13. Watched(f)'
  <2>1. \A p \in due : FeedOf[p[1]] = f
    BY <1>1 DEF Good, Watched, due
  <2>2. QED
    BY <1>5, <1>6, <1>10, <2>1 DEF Watched
<1>14. Kept(f)'
  <2>1. items'[f] \subseteq hist'[f].old \cup hist'[f].announced
    <3>1. CASE job[f].first
      <4>1. items[f] = {} /\ old = job[f].new
        BY <1>1, <3>1 DEF Good, Clean, old
      <4>2. QED
        BY <1>5, <1>6, <1>7, <4>1
    <3>2. CASE ~job[f].first
      <4>1. old = hist[f].old /\ send = job[f].new
        BY <1>3, <3>2 DEF old
      <4>2. items[f] \subseteq hist[f].old \cup hist[f].announced
        BY <1>1 DEF Good, Kept
      <4>3. QED
        BY <1>5, <1>6, <1>7, <4>1, <4>2
    <3>3. QED
      BY <3>1, <3>2
  <2>2. ASSUME feed'[f].row # "deleted" PROVE hist'[f].due \subseteq dispatches'
    <3>1. hist[f].stayed \subseteq job[f].dests /\ hist[f].due \subseteq dispatches
      BY <1>1, <1>9, <2>2 DEF Good, Watched, Kept
    <3>2. hist[f].stayed \X send \subseteq job[f].dests \X send
      BY <3>1
    <3>3. QED
      BY <1>1, <1>5, <1>6, <3>1, <3>2 DEF due
  <2>3. QED
    BY <2>1, <2>2 DEF Kept
<1>15. Hinted(f)'
  <2>1. CASE hist[f].overtaken
    BY <1>5, <1>6, <2>1 DEF Hinted
  <2>2. CASE ~hist[f].overtaken
    <3>1. feed[f].hint \in {NoUrl, feed[f].url} /\ job[f].url = feed[f].url
      BY <1>1, <2>2 DEF Good, Hinted
    <3>2. feed'[f].hint \in {NoUrl, feed'[f].url} /\ job'[f].url = feed'[f].url
      BY <1>9, <1>10, <3>1
    <3>3. QED
      BY <3>2 DEF Hinted
  <2>3. QED
    BY <2>1, <2>2
<1>16. ASSUME NEW g \in Feed, g # f PROVE Good(g)'
  <2>1. SameDests(g)
    BY <1>1, DestsAlone
  <2>2. QED
    BY <1>6, <1>7, <1>8, <1>10, <1>16, <2>1, OtherKeeps DEF IInv
<1>17. QED
  BY <1>11, <1>12, <1>13, <1>14, <1>15, <1>16 DEF IInv, Good

LEMMA RollBackKeeps ==
    ASSUME IInv, NEW f \in Feed, RollBack(f)
    PROVE  IInv'
<1>1. /\ Steps(f, "rejected") /\ job[f].pc # "idle" /\ feed' = feed /\ hist' = hist
      /\ UNCHANGED <<served, dest, items, dispatches>>
  BY DEF RollBack, NothingKept
<1>2. QED
  BY <1>1, RecordedKeeps

-----------------------------------------------------------------------------
(* The API.                                                                *)

LEMMA SetEnabledKeeps ==
    ASSUME IInv, NEW f \in Feed, NEW row \in {"on", "off"}, SetEnabled(f, row)
    PROVE  IInv'
<1>1. /\ Typed /\ feed[f].row # "deleted" /\ feed[f] \in FeedRow
      /\ feed' = [feed EXCEPT ![f].row = row]
      /\ UNCHANGED <<served, dest, items, dispatches, job, hist>>
  BY DEF SetEnabled, IInv, Typed
<1>2. /\ feed' \in [Feed -> FeedRow]
      /\ feed'[f].row = row /\ feed'[f].done = feed[f].done
      /\ feed'[f].url = feed[f].url /\ feed'[f].hint = feed[f].hint
      /\ \A g \in Feed : g # f => feed'[g] = feed[g]
  BY <1>1 DEF Typed, FeedRow
<1>3. Typed'
  BY <1>1, <1>2 DEF Typed
<1>4. ASSUME NEW g \in Feed PROVE Good(g)'
  <2>1. SameHist(g) /\ SameDests(g) /\ QuietJob(g)
    BY <1>1, DestsAlone DEF SameHist, QuietJob
  <2>2. SameFeed(g)
    BY <1>1, <1>2 DEF SameFeed
  <2>3. QED
    BY <2>1, <2>2, QuietKeeps DEF IInv
<1>5. QED
  BY <1>3, <1>4 DEF IInv

LEMMA SetUrlKeeps ==
    ASSUME IInv, NEW f \in Feed, SetUrl(f)
    PROVE  IInv'
<1> DEFINE row == RowWithUrl(f, feed[f].url + 1)
           over == hist[f].overtaken \/ job[f].pc # "idle"
<1>1. /\ Typed /\ Good(f) /\ feed[f] \in FeedRow /\ hist[f] \in Hist
      /\ feed' = [feed EXCEPT ![f] = row]
      /\ hist' = [hist EXCEPT ![f].overtaken = over]
      /\ UNCHANGED <<served, dest, items, dispatches, job>>
  BY DEF SetUrl, IInv, Typed
<1>2. /\ row \in FeedRow /\ row.row = feed[f].row /\ row.done = feed[f].done
      /\ row.hint = NoUrl
  <2>1. feed[f].url + 1 \in Nat \ {0} /\ NoUrl \in Nat
    BY <1>1 DEF FeedRow, NoUrl
  <2>2. QED
    BY <1>1, <2>1 DEF RowWithUrl, FeedRow
<1> HIDE DEF row
<1>3. /\ feed' \in [Feed -> FeedRow]
      /\ feed'[f].row = feed[f].row /\ feed'[f].done = feed[f].done /\ feed'[f].hint = NoUrl
      /\ \A g \in Feed : g # f => feed'[g] = feed[g]
  BY <1>1, <1>2 DEF Typed
<1>4. /\ [hist[f] EXCEPT !.overtaken = over] \in Hist
      /\ [hist[f] EXCEPT !.overtaken = over].overtaken = over
      /\ [hist[f] EXCEPT !.overtaken = over].announced = hist[f].announced
      /\ [hist[f] EXCEPT !.overtaken = over].old = hist[f].old
      /\ [hist[f] EXCEPT !.overtaken = over].stayed = hist[f].stayed
      /\ [hist[f] EXCEPT !.overtaken = over].due = hist[f].due
  <2>1. over \in BOOLEAN
    OBVIOUS
  <2> HIDE DEF over
  <2>2. QED
    BY <1>1, <2>1 DEF Hist
<1> HIDE DEF over
<1>5. /\ hist' \in [Feed -> Hist]
      /\ hist'[f].announced = hist[f].announced /\ hist'[f].old = hist[f].old
      /\ hist'[f].stayed = hist[f].stayed /\ hist'[f].due = hist[f].due
      /\ hist'[f].overtaken = over
      /\ \A g \in Feed : g # f => hist'[g] = hist[g]
  BY <1>1, <1>4 DEF Typed
<1>6. Typed'
  BY <1>1, <1>3, <1>5 DEF Typed
<1>7. Clean(f)'
  BY <1>1, <1>3 DEF Good, Clean
<1>8. On(f)' = On(f)
  BY <1>1 DEF On
<1>9. Watched(f)'
  BY <1>1, <1>3, <1>5, <1>8 DEF Good, Watched
<1>10. Kept(f)'
  BY <1>1, <1>3, <1>5 DEF Good, Kept
<1>11. Hinted(f)'
  <2>1. CASE job[f].pc = "idle"
    BY <1>1, <1>3, <2>1 DEF Hinted
  <2>2. CASE job[f].pc # "idle"
    BY <1>5, <2>2 DEF Hinted, over
  <2>3. QED
    BY <2>1, <2>2
<1>12. ASSUME NEW g \in Feed, g # f PROVE Good(g)'
  BY <1>1, <1>3, <1>5, <1>12, OtherKeeps, DestsAlone DEF IInv
<1>13. QED
  BY <1>6, <1>7, <1>9, <1>10, <1>11, <1>12 DEF IInv, Good

LEMMA DeleteFeedKeeps ==
    ASSUME IInv, NEW f \in Feed, DeleteFeed(f)
    PROVE  IInv'
<1>1. /\ Typed /\ Good(f) /\ feed[f] \in FeedRow
      /\ feed[f].row # "deleted" /\ ~Held(f)
      /\ feed' = [feed EXCEPT ![f].row = "deleted"]
      /\ items' = [items EXCEPT ![f] = {}]
      /\ dest' = [d \in Dest |-> IF FeedOf[d] = f THEN "none" ELSE dest[d]]
      /\ dispatches' = {p \in dispatches : FeedOf[p[1]] # f}
      /\ UNCHANGED <<served, job, hist>>
  BY DEF DeleteFeed, IInv, Typed
<1>2. /\ feed' \in [Feed -> FeedRow]
      /\ feed'[f].row = "deleted" /\ feed'[f].done = feed[f].done
      /\ feed'[f].url = feed[f].url /\ feed'[f].hint = feed[f].hint
      /\ \A g \in Feed : g # f => feed'[g] = feed[g]
  BY <1>1 DEF Typed, FeedRow
<1>3. /\ items' \in [Feed -> SUBSET Item] /\ items'[f] = {}
      /\ \A g \in Feed : g # f => items'[g] = items[g]
  BY <1>1 DEF Typed
<1>4. Typed'
  BY <1>1, <1>2, <1>3 DEF Typed
<1>5. Clean(f)'
  BY <1>1, <1>2, <1>3 DEF Clean, Held
<1>6. Watched(f)' /\ Kept(f)' /\ Hinted(f)'
  BY <1>1, <1>2, <1>3 DEF Good, Watched, Kept, Hinted
<1>7. ASSUME NEW g \in Feed, g # f PROVE Good(g)'
  <2>1. On(g) \subseteq On(g)'
    BY <1>1, <1>7 DEF On
  <2>2. \A p \in dispatches : FeedOf[p[1]] = g => p \in dispatches'
    BY <1>1, <1>7
  <2>3. SameDests(g)
    BY <2>1, <2>2 DEF SameDests
  <2>4. QED
    BY <1>1, <1>2, <1>3, <1>7, <2>3, OtherKeeps DEF IInv
<1>8. QED
  BY <1>4, <1>5, <1>6, <1>7 DEF IInv, Good

LEMMA AddDestKeeps ==
    ASSUME IInv, NEW d \in Dest, AddDest(d)
    PROVE  IInv'
<1>1. /\ Typed /\ dest[d] = "none" /\ dest' = [dest EXCEPT ![d] = "on"]
      /\ UNCHANGED <<feed, served, items, dispatches, job, hist>>
  BY DEF AddDest, IInv
<1>2. Typed'
  BY <1>1 DEF Typed
<1>3. ASSUME NEW f \in Feed PROVE Good(f)'
  <2>1. On(f) \subseteq On(f)'
    BY <1>1 DEF On, Typed
  <2>2. SameDests(f)
    BY <1>1, <2>1 DEF SameDests
  <2>3. QED
    BY <1>1, <2>2, OtherKeeps DEF IInv
<1>4. QED
  BY <1>2, <1>3 DEF IInv

\* SetDest and DeleteDest: a destination leaves those that have stayed on.
LEMMA DestChangeKeeps ==
    ASSUME IInv, NEW d \in Dest, NEW f \in Feed, f = FeedOf[d],
           dest' \in [Dest -> {"none", "on", "off"}],
           \A e \in Dest : e # d => dest'[e] = dest[e],
           \A p \in dispatches : FeedOf[p[1]] # f => p \in dispatches',
           hist' \in [Feed -> Hist],
           \A g \in Feed : g # f => hist'[g] = hist[g],
           hist'[f].announced = hist[f].announced, hist'[f].old = hist[f].old,
           hist'[f].overtaken = hist[f].overtaken,
           hist'[f].stayed = hist[f].stayed \ {d},
           hist'[f].due \subseteq hist[f].due,
           hist[f].due \subseteq dispatches => hist'[f].due \subseteq dispatches',
           UNCHANGED <<feed, served, items, job>>
    PROVE  IInv'
<1>1. Typed /\ Good(f)
  BY DEF IInv
<1>2. Typed'
  BY <1>1 DEF Typed
<1>3. Clean(f)' /\ Hinted(f)'
  BY <1>1 DEF Good, Clean, Hinted
<1>4. On(f) \ {d} \subseteq On(f)'
  BY DEF On
<1>5. Watched(f)'
  BY <1>1, <1>4 DEF Good, Watched
<1>6. Kept(f)'
  BY <1>1 DEF Good, Kept
<1>7. ASSUME NEW g \in Feed, g # f PROVE Good(g)'
  <2>1. On(g) \subseteq On(g)'
    BY <1>7 DEF On
  <2>2. SameDests(g)
    BY <1>7, <2>1 DEF SameDests
  <2>3. QED
    BY <1>7, <2>2, OtherKeeps DEF IInv
<1>8. QED
  BY <1>2, <1>3, <1>5, <1>6, <1>7 DEF IInv, Good

LEMMA SetDestKeeps ==
    ASSUME IInv, NEW d \in Dest, NEW state \in {"on", "off"}, SetDest(d, state)
    PROVE  IInv'
<1>1. PICK f \in Feed : f = FeedOf[d]
  BY RssPollerAssumption
<1>2. /\ Typed /\ hist \in [Feed -> Hist] /\ hist[f] \in Hist
      /\ dest' = [dest EXCEPT ![d] = state]
      /\ hist' = [hist EXCEPT ![f].stayed = @ \ {d}]
      /\ UNCHANGED <<feed, served, items, dispatches, job>>
  BY <1>1 DEF SetDest, IInv, Typed
<1>3. /\ dest' \in [Dest -> {"none", "on", "off"}]
      /\ \A e \in Dest : e # d => dest'[e] = dest[e]
  BY <1>2 DEF Typed
<1>4. hist' \in [Feed -> Hist] /\ \A g \in Feed : g # f => hist'[g] = hist[g]
  <2>1. [hist[f] EXCEPT !.stayed = hist[f].stayed \ {d}] \in Hist
    BY <1>2 DEF Hist
  <2>2. QED
    BY <1>2, <2>1
<1>5. /\ hist'[f].announced = hist[f].announced /\ hist'[f].old = hist[f].old
      /\ hist'[f].overtaken = hist[f].overtaken
      /\ hist'[f].stayed = hist[f].stayed \ {d}
      /\ hist'[f].due = hist[f].due
  BY <1>2 DEF Hist
<1>6. QED
  BY <1>1, <1>2, <1>3, <1>4, <1>5, DestChangeKeeps

LEMMA DeleteDestKeeps ==
    ASSUME IInv, NEW d \in Dest, DeleteDest(d)
    PROVE  IInv'
<1>1. PICK f \in Feed : f = FeedOf[d]
  BY RssPollerAssumption
<1> DEFINE due == {p \in hist[f].due : p[1] # d}
<1>2. /\ Typed /\ hist \in [Feed -> Hist] /\ hist[f] \in Hist
      /\ dest' = [dest EXCEPT ![d] = "none"]
      /\ dispatches' = {p \in dispatches : p[1] # d}
      /\ hist' = [hist EXCEPT ![f].stayed = @ \ {d}, ![f].due = due]
      /\ UNCHANGED <<feed, served, items, job>>
  BY <1>1 DEF DeleteDest, WithoutDest, IInv, Typed
<1>3. /\ dest' \in [Dest -> {"none", "on", "off"}]
      /\ \A e \in Dest : e # d => dest'[e] = dest[e]
  BY <1>2 DEF Typed
<1>4. hist' \in [Feed -> Hist] /\ \A g \in Feed : g # f => hist'[g] = hist[g]
  <2>1. due \in SUBSET (Dest \X Item)
    BY <1>2 DEF Hist
  <2> HIDE DEF due
  <2>2. [hist[f] EXCEPT !.stayed = hist[f].stayed \ {d}, !.due = due] \in Hist
    BY <1>2, <2>1 DEF Hist
  <2>3. hist' = [hist EXCEPT ![f] =
                     [hist[f] EXCEPT !.stayed = hist[f].stayed \ {d}, !.due = due]]
    BY <1>2 DEF Hist
  <2>4. QED
    BY <1>2, <2>2, <2>3
<1> HIDE DEF due
<1>5. /\ hist'[f].announced = hist[f].announced /\ hist'[f].old = hist[f].old
      /\ hist'[f].overtaken = hist[f].overtaken
      /\ hist'[f].stayed = hist[f].stayed \ {d}
      /\ hist'[f].due = due
  <2>1. hist' = [hist EXCEPT ![f] =
                     [hist[f] EXCEPT !.stayed = hist[f].stayed \ {d}, !.due = due]]
    BY <1>2 DEF Hist
  <2>2. hist'[f] = [hist[f] EXCEPT !.stayed = hist[f].stayed \ {d}, !.due = due]
    BY <1>2, <2>1
  <2>3. hist[f] \in Hist
    BY <1>2
  <2>4. QED
    BY <2>2, <2>3 DEF Hist
<1>6. /\ \A p \in dispatches : FeedOf[p[1]] # f => p \in dispatches'
      /\ hist'[f].due \subseteq hist[f].due
      /\ hist[f].due \subseteq dispatches => hist'[f].due \subseteq dispatches'
  BY <1>1, <1>2, <1>5 DEF due
<1>7. UNCHANGED <<feed, served, items, job>>
  BY <1>2
<1>8. QED
  BY <1>1, <1>3, <1>4, <1>5, <1>6, <1>7, DestChangeKeeps

-----------------------------------------------------------------------------
(* The origins and the clock.                                              *)

LEMMA PublishKeeps ==
    ASSUME IInv, NEW f \in Feed, Publish(f)
    PROVE  IInv'
<1>1. /\ Typed /\ served[f] \in Nat /\ served[f] + 1 \in 1 .. Published[f]
      /\ served' = [served EXCEPT ![f] = @ + 1]
      /\ UNCHANGED <<feed, dest, items, dispatches, job, hist>>
  <2>1. served[f] \in Item \cup {0} /\ Published[f] \in Nat
    BY RssPollerAssumption DEF IInv, Typed
  <2>2. served[f] \in Nat
    BY <2>1, RssPollerAssumption DEF Item
  <2>3. QED
    BY <2>1, <2>2 DEF Publish, IInv
<1>2. served' \in [Feed -> Item \cup {0}]
  BY <1>1 DEF Typed, Item
<1>3. Typed'
  BY <1>1, <1>2 DEF Typed
<1>4. \A g \in Feed : Good(g)'
  BY <1>1, OtherKeeps, DestsAlone DEF IInv
<1>5. QED
  BY <1>3, <1>4 DEF IInv

LEMMA DayPassesKeeps ==
    ASSUME IInv, NEW f \in Feed, DayPasses(f)
    PROVE  IInv'
BY DEF DayPasses, IInv, Typed, Good, Clean, Watched, Kept, Hinted, On

LEMMA IntervalPassesKeeps ==
    ASSUME IInv, NEW f \in Feed, IntervalPasses(f)
    PROVE  IInv'
<1>1. /\ Typed /\ feed[f] \in FeedRow /\ hist[f] \in Hist
      /\ feed' = [feed EXCEPT ![f].due = TRUE]
      /\ hist' = [hist EXCEPT ![f].rested = TRUE]
      /\ UNCHANGED <<served, dest, items, dispatches, job>>
  BY DEF IntervalPasses, IInv, Typed
<1>2. feed' \in [Feed -> FeedRow] /\ \A g \in Feed : SameFeed(g)
  <2>1. /\ feed' \in [Feed -> FeedRow]
        /\ \A g \in Feed : g # f => feed'[g] = feed[g]
        /\ feed'[f].row = feed[f].row /\ feed'[f].done = feed[f].done
        /\ feed'[f].url = feed[f].url /\ feed'[f].hint = feed[f].hint
    BY <1>1 DEF Typed, FeedRow
  <2>2. QED
    BY <1>1, <2>1 DEF SameFeed
<1>3. hist' \in [Feed -> Hist] /\ \A g \in Feed : SameHist(g)
  <2>1. /\ hist' \in [Feed -> Hist]
        /\ \A g \in Feed : g # f => hist'[g] = hist[g]
        /\ hist'[f].announced = hist[f].announced /\ hist'[f].old = hist[f].old
        /\ hist'[f].stayed = hist[f].stayed /\ hist'[f].due = hist[f].due
        /\ hist'[f].overtaken = hist[f].overtaken
    BY <1>1 DEF Typed, Hist
  <2>2. QED
    BY <1>1, <2>1 DEF SameHist
<1>4. Typed'
  BY <1>1, <1>2, <1>3 DEF Typed
<1>5. \A g \in Feed : SameDests(g) /\ QuietJob(g)
  BY <1>1, DestsAlone DEF QuietJob
<1>6. \A g \in Feed : Good(g)'
  BY <1>2, <1>3, <1>5, QuietKeeps DEF IInv
<1>7. QED
  BY <1>4, <1>6 DEF IInv

-----------------------------------------------------------------------------
LEMMA InitHolds ==
    ASSUME Init
    PROVE  IInv
<1> DEFINE row == [row |-> "on", due |-> TRUE, url |-> 1, hint |-> NoUrl, done |-> FALSE]
           h == [announced |-> {}, old |-> {}, stayed |-> {}, due |-> {},
                 overtaken |-> FALSE, rested |-> TRUE, excused |-> FALSE]
<1>1. row \in FeedRow /\ h \in Hist
  BY DEF FeedRow, Hist, NoUrl
<1>2. Typed
  BY <1>1, IdleIsJob DEF Init, Typed
<1>3. ASSUME NEW f \in Feed PROVE Good(f)
  BY IdleIsJob DEF Init, Good, Clean, Watched, Kept, Hinted
<1>4. QED
  BY <1>2, <1>3 DEF IInv

LEMMA PollerKeeps ==
    ASSUME IInv, Poller
    PROVE  IInv'
<1>1. CASE Pick
  BY <1>1, PickKeeps
<1>2. CASE Return
  BY <1>2, AllIdleKeeps DEF Return
<1>3. ASSUME NEW f \in Feed, Record(f) PROVE IInv'
  <2>1. job[f].pc # "idle" /\ UNCHANGED <<served, dest, items, dispatches, hist>>
    BY <1>3 DEF Record
  <2>2. CASE Steps(f, "settled") /\ feed' = [feed EXCEPT ![f] = Bumped(@)]
    BY <2>1, <2>2, RecordedKeeps
  <2>3. CASE Steps(f, "rejected") /\ feed' = feed
    BY <2>1, <2>3, RecordedKeeps
  <2>4. QED
    BY <1>3, <2>2, <2>3 DEF Record
<1>4. ASSUME NEW f \in Feed, RecordRejected(f) PROVE IInv'
  <2>1. /\ job[f].pc # "idle" /\ Steps(f, "settled")
        /\ UNCHANGED <<served, dest, items, dispatches>>
    BY <1>4 DEF RecordRejected
  <2>2. CASE RecordFailure(f) /\ hist' = hist
    BY <2>1, <2>2, RecordedKeeps DEF RecordFailure
  <2>3. CASE feed' = feed /\ hist' = [hist EXCEPT ![f].excused = TRUE]
    BY <2>1, <2>3, RecordedKeeps
  <2>4. QED
    BY <1>4, <2>2, <2>3 DEF RecordRejected
<1>5. ASSUME NEW f \in Feed,
             Fetch(f) \/ InsertItems(f) \/ JoinRoutes(f) \/ CommitItems(f) \/ RollBack(f)
      PROVE  IInv'
  BY <1>5, FetchKeeps, InsertItemsKeeps, JoinRoutesKeeps, CommitItemsKeeps, RollBackKeeps
<1>6. QED
  BY <1>1, <1>2, <1>3, <1>4, <1>5 DEF Poller

LEMMA NextKeeps ==
    ASSUME IInv, [Next]_vars
    PROVE  IInv'
<1>1. CASE UNCHANGED vars
  BY <1>1 DEF vars, IInv, Typed, Good, Clean, Watched, Kept, Hinted, On
<1>2. CASE Poller
  BY <1>2, PollerKeeps
<1>3. ASSUME NEW f \in Feed,
             \/ \E row \in {"on", "off"} : SetEnabled(f, row)
             \/ SetUrl(f) \/ DeleteFeed(f) \/ Publish(f) \/ IntervalPasses(f)
             \/ DayPasses(f)
      PROVE  IInv'
  BY <1>3, SetEnabledKeeps, SetUrlKeeps, DeleteFeedKeeps, PublishKeeps, IntervalPassesKeeps,
     DayPassesKeeps
<1>4. ASSUME NEW d \in Dest,
             \/ \E state \in {"on", "off"} : SetDest(d, state)
             \/ AddDest(d) \/ DeleteDest(d)
      PROVE  IInv'
  BY <1>4, SetDestKeeps, AddDestKeeps, DeleteDestKeeps
<1>5. CASE WorkerDies
  BY <1>5, AllIdleKeeps DEF WorkerDies
<1>6. QED
  BY <1>1, <1>2, <1>3, <1>4, <1>5 DEF Next

LEMMA Inductive == Spec => []IInv
<1>1. Init => IInv
  BY InitHolds
<1>2. IInv /\ [Next]_vars => IInv'
  BY NextKeeps
<1>3. QED
  BY <1>1, <1>2, PTL DEF Spec

\* Between pollFeed's items and their dispatches no notification is lost:
\* whatever is stored and to be dispatched has a dispatch for each destination
\* that was on throughout the transaction.
THEOREM NoNotificationIsLost == Spec => []NoneLost
<1>1. IInv => NoneLost
  BY DEF IInv, Good, Kept, NoneLost
<1>2. QED
  BY <1>1, Inductive, PTL

\* The etag and last_modified of a feed come from the URL it has, unless
\* PATCH has overtaken a poll.
THEOREM TheHintsAreThoseOfTheUrl == Spec => []HintsBelongToUrl
<1>1. IInv => HintsBelongToUrl
  BY DEF IInv, Good, Hinted, HintsBelongToUrl
<1>2. QED
  BY <1>1, Inductive, PTL
-----------------------------------------------------------------------------
(* The pace of the polls.                                                  *)

\* A feed that is due and not being polled has rested, or its last poll left
\* no trace.
Resting(f) == job[f].pc \in {"idle", "settled"}
Paced(f) == feed[f].row # "deleted" /\ feed[f].due /\ Resting(f)
            => hist[f].rested \/ hist[f].excused
Pacing == \A f \in Feed : Paced(f)

\* No feed becomes due and no poll ends.
LEMMA StillPaced ==
    ASSUME NEW f \in Feed, Paced(f),
           feed'[f].row # "deleted" => feed[f].row # "deleted",
           feed'[f].due => feed[f].due,
           Resting(f)' => Resting(f),
           hist[f].rested \/ hist[f].excused => hist'[f].rested \/ hist'[f].excused
    PROVE  Paced(f)'
BY DEF Paced

\* For the steps of one feed: the others are as they were.
LEMMA OthersPaced ==
    ASSUME NEW f \in Feed, \A g \in Feed : Paced(g), Paced(f)',
           \A g \in Feed : g # f => /\ feed'[g] = feed[g] /\ job'[g] = job[g]
                                    /\ hist'[g] = hist[g]
    PROVE  \A g \in Feed : Paced(g)'
BY DEF Paced, Resting

LEMMA PickPaces ==
    ASSUME Typed, \A f \in Feed : Paced(f), Pick
    PROVE  \A f \in Feed : Paced(f)'
<1>1. feed' = feed
  BY DEF Pick
<1>2. SUFFICES ASSUME NEW f \in Feed PROVE Paced(f)'
  OBVIOUS
<1>3. CASE f \in FirstDue
  <2>1. job'[f] = [Idle EXCEPT !.pc = "picked", !.url = feed[f].url, !.first = ~feed[f].done]
    BY <1>3 DEF Pick
  <2>2. job'[f].pc = "picked"
    BY <2>1 DEF Idle
  <2>3. QED
    BY <2>2 DEF Paced, Resting
<1>4. CASE f \notin FirstDue
  <2>1. job'[f] = job[f] /\ hist'[f] = hist[f]
    BY <1>4 DEF Pick
  <2>2. QED
    BY <1>1, <2>1 DEF Paced, Resting
<1>5. QED
  BY <1>3, <1>4

LEMMA RecordPaces ==
    ASSUME Typed, \A f \in Feed : Paced(f), NEW f \in Feed,
           Record(f) \/ RecordRejected(f)
    PROVE  \A g \in Feed : Paced(g)'
<1>1. /\ feed[f] \in FeedRow /\ hist[f] \in Hist
      /\ Steps(f, "settled") \/ Steps(f, "rejected")
  BY DEF Typed, Record, RecordRejected
<1>2. \A g \in Feed : g # f => job'[g] = job[g]
  BY <1>1, StepsEffect
<1>3. CASE feed' = [feed EXCEPT ![f] = Bumped(@)] /\ hist' = hist
  <2>1. /\ feed'[f] = Bumped(feed[f])
        /\ \A g \in Feed : g # f => feed'[g] = feed[g]
    BY <1>3 DEF Typed
  <2>2. ~(feed'[f].row # "deleted" /\ feed'[f].due)
    BY <1>1, <2>1 DEF Bumped, FeedRow
  <2>3. Paced(f)'
    BY <2>2 DEF Paced
  <2>4. QED
    BY <1>2, <1>3, <2>1, <2>3, OthersPaced
<1>4. CASE Steps(f, "rejected") /\ feed' = feed /\ hist' = hist
  <2>1. job'[f].pc = "rejected"
    BY <1>4, StepsEffect
  <2>2. Paced(f)'
    BY <2>1 DEF Paced, Resting
  <2>3. QED
    BY <1>2, <1>4, <2>2, OthersPaced
<1>5. CASE feed' = feed /\ hist' = [hist EXCEPT ![f].excused = TRUE]
  <2>1. /\ hist'[f].excused
        /\ \A g \in Feed : g # f => hist'[g] = hist[g]
    BY <1>1, <1>5 DEF Typed, Hist
  <2>2. Paced(f)'
    BY <2>1 DEF Paced
  <2>3. QED
    BY <1>2, <1>5, <2>1, <2>2, OthersPaced
<1>6. QED
  BY <1>3, <1>4, <1>5 DEF Record, RecordRejected, RecordFailure

\* Fetch, InsertItems, JoinRoutes, RollBack: the poll goes on.
LEMMA PollPaces ==
    ASSUME Typed, \A f \in Feed : Paced(f), NEW f \in Feed,
           Fetch(f) \/ InsertItems(f) \/ JoinRoutes(f) \/ RollBack(f)
    PROVE  \A g \in Feed : Paced(g)'
<1>1. job[f] \in Job /\ feed' = feed
  BY DEF Typed, Fetch, InsertItems, JoinRoutes, RollBack
<1>2. \A g \in Feed : g # f => job'[g] = job[g] /\ hist'[g] = hist[g]
  BY DEF Typed, Fetch, InsertItems, JoinRoutes, RollBack, Steps
<1>3. ~Resting(f)'
  <2>1. CASE Steps(f, "nothing") \/ Steps(f, "rejected")
    BY <2>1, StepsEffect DEF Resting
  <2>2. CASE job' = [job EXCEPT ![f].pc = "fetched", ![f].upTo = served[f]]
    BY <1>1, <2>2 DEF Typed, Job, Resting
  <2>3. CASE job' = [job EXCEPT ![f].pc = "inserted",
                                ![f].new = (1 .. job[f].upTo) \ items[f]]
    BY <1>1, <2>3 DEF Typed, Job, Resting
  <2>4. CASE job' = [job EXCEPT ![f].pc = "joined", ![f].dests = On(f)]
    BY <1>1, <2>4 DEF Typed, Job, Resting
  <2>5. QED
    BY <2>1, <2>2, <2>3, <2>4 DEF Fetch, InsertItems, JoinRoutes, RollBack
<1>4. Paced(f)'
  BY <1>3 DEF Paced
<1>5. QED
  BY <1>1, <1>2, <1>4, OthersPaced

LEMMA CommitPaces ==
    ASSUME Typed, \A f \in Feed : Paced(f), NEW f \in Feed, CommitItems(f)
    PROVE  \A g \in Feed : Paced(g)'
<1>1. feed[f] \in FeedRow /\ feed' = [feed EXCEPT ![f] = PolledRow(f)]
  BY DEF Typed, CommitItems
<1>2. \A g \in Feed : g # f => /\ job'[g] = job[g] /\ hist'[g] = hist[g]
                               /\ feed'[g] = feed[g]
  BY <1>1 DEF Typed, CommitItems, Steps
<1>3. feed'[f] = PolledRow(f)
  BY <1>1 DEF Typed
<1>4. ~(feed'[f].row # "deleted" /\ feed'[f].due)
  <2>1. CASE feed[f].row = "deleted"
    BY <1>3, <2>1 DEF PolledRow
  <2>2. CASE feed[f].row # "deleted"
    <3>1. /\ Bumped(feed[f]) \in FeedRow
          /\ ~Bumped(feed[f]).due
      BY <1>1, <2>2, BumpedEffect DEF Bumped, FeedRow
    <3>2. feed'[f] = [Bumped(feed[f]) EXCEPT !.hint = job[f].url, !.done = TRUE]
      BY <1>3, <2>2 DEF PolledRow
    <3>3. feed'[f].due = Bumped(feed[f]).due
      BY <3>1, <3>2 DEF FeedRow
    <3>4. QED
      BY <3>1, <3>3
  <2>3. QED
    BY <2>1, <2>2
<1>5. Paced(f)'
  BY <1>4 DEF Paced
<1>6. QED
  BY <1>2, <1>5, OthersPaced

LEMMA ReturnPaces ==
    ASSUME Typed, \A f \in Feed : Paced(f), Return \/ WorkerDies
    PROVE  \A f \in Feed : Paced(f)'
<1>1. SUFFICES ASSUME NEW f \in Feed PROVE Paced(f)'
  OBVIOUS
<1>2. feed' = feed /\ hist[f] \in Hist
  BY DEF Return, WorkerDies, Typed
<1>3. CASE Return
  BY <1>2, <1>3 DEF Return, Paced, Resting
<1>4. CASE WorkerDies
  <2>1. hist'[f].excused
    BY <1>2, <1>4 DEF WorkerDies, Hist
  <2>2. QED
    BY <2>1 DEF Paced
<1>5. QED
  BY <1>3, <1>4

\* SetEnabled, SetUrl, DeleteFeed, Publish and DayPasses leave last_polled_at alone.
LEMMA FeedEditPaces ==
    ASSUME Typed, \A f \in Feed : Paced(f), NEW f \in Feed,
           \/ \E row \in {"on", "off"} : SetEnabled(f, row)
           \/ SetUrl(f) \/ DeleteFeed(f) \/ Publish(f) \/ DayPasses(f)
    PROVE  \A g \in Feed : Paced(g)'
<1>1. feed[f] \in FeedRow /\ hist[f] \in Hist /\ job' = job
  BY DEF Typed, SetEnabled, SetUrl, DeleteFeed, Publish, DayPasses
<1>2. \A g \in Feed : g # f => feed'[g] = feed[g] /\ hist'[g] = hist[g]
  BY DEF Typed, SetEnabled, SetUrl, DeleteFeed, Publish, DayPasses
<1>3. /\ feed'[f].row # "deleted" => feed[f].row # "deleted"
      /\ feed'[f].due = feed[f].due
  <2>1. ASSUME NEW row \in {"on", "off"}, SetEnabled(f, row)
        PROVE  feed[f].row # "deleted" /\ feed'[f].due = feed[f].due
    BY <1>1, <2>1 DEF Typed, FeedRow, SetEnabled
  <2>2. CASE SetUrl(f)
    <3>1. feed[f].row # "deleted" /\ feed'[f] = RowWithUrl(f, feed[f].url + 1)
      BY <2>2 DEF SetUrl, Typed
    <3>2. QED
      BY <1>1, <3>1 DEF RowWithUrl, FeedRow
  <2>3. CASE DeleteFeed(f)
    BY <1>1, <2>3 DEF Typed, FeedRow, DeleteFeed
  <2>4. CASE Publish(f) \/ DayPasses(f)
    BY <2>4 DEF Publish, DayPasses
  <2>5. QED
    BY <2>1, <2>2, <2>3, <2>4
<1>4. hist'[f].rested = hist[f].rested /\ hist'[f].excused = hist[f].excused
  BY <1>1 DEF Typed, Hist, SetEnabled, SetUrl, DeleteFeed, Publish, DayPasses
<1>5. Paced(f)'
  BY <1>1, <1>3, <1>4, StillPaced DEF Resting
<1>6. QED
  BY <1>1, <1>2, <1>5, OthersPaced

LEMMA IntervalPaces ==
    ASSUME Typed, \A f \in Feed : Paced(f), NEW f \in Feed, IntervalPasses(f)
    PROVE  \A g \in Feed : Paced(g)'
<1>1. /\ hist'[f].rested /\ job' = job
      /\ \A g \in Feed : g # f => feed'[g] = feed[g] /\ hist'[g] = hist[g]
  BY DEF IntervalPasses, Typed, Hist
<1>2. Paced(f)'
  BY <1>1 DEF Paced
<1>3. QED
  BY <1>1, <1>2, OthersPaced

\* The edits of destinations.
LEMMA DestEditPaces ==
    ASSUME Typed, \A f \in Feed : Paced(f), NEW d \in Dest,
           \/ \E state \in {"on", "off"} : SetDest(d, state)
           \/ AddDest(d) \/ DeleteDest(d)
    PROVE  \A g \in Feed : Paced(g)'
<1>1. SUFFICES ASSUME NEW g \in Feed PROVE Paced(g)'
  OBVIOUS
<1>2. feed' = feed /\ job' = job /\ hist[g] \in Hist /\ FeedOf[d] \in Feed
  BY RssPollerAssumption DEF Typed, SetDest, AddDest, DeleteDest
<1>3. hist'[g].rested = hist[g].rested /\ hist'[g].excused = hist[g].excused
  <2>1. PICK f \in Feed : f = FeedOf[d]
    BY <1>2
  <2>2. CASE hist' = hist
    BY <2>2
  <2>3. CASE hist' = [hist EXCEPT ![f].stayed = @ \ {d}]
    BY <1>2, <2>3 DEF Typed, Hist
  <2>4. CASE hist' = [hist EXCEPT ![f].stayed = @ \ {d},
                                  ![f].due = {p \in @ : p[1] # d}]
    BY <1>2, <2>4 DEF Typed, Hist
  <2>5. QED
    BY <2>1, <2>2, <2>3, <2>4 DEF SetDest, AddDest, DeleteDest
<1>4. QED
  BY <1>2, <1>3, StillPaced DEF Resting

LEMMA NextPaces ==
    ASSUME Typed, \A f \in Feed : Paced(f), [Next]_vars
    PROVE  \A f \in Feed : Paced(f)'
<1>1. CASE UNCHANGED vars
  BY <1>1 DEF vars, Paced, Resting
<1>2. CASE Poller
  BY <1>2, PickPaces, RecordPaces, PollPaces, CommitPaces, ReturnPaces DEF Poller
<1>3. CASE WorkerDies
  BY <1>3, ReturnPaces
<1>4. ASSUME NEW f \in Feed,
             \/ \E row \in {"on", "off"} : SetEnabled(f, row)
             \/ SetUrl(f) \/ DeleteFeed(f) \/ Publish(f) \/ IntervalPasses(f)
             \/ DayPasses(f)
      PROVE  \A g \in Feed : Paced(g)'
  BY <1>4, FeedEditPaces, IntervalPaces
<1>5. ASSUME NEW d \in Dest,
             \/ \E state \in {"on", "off"} : SetDest(d, state)
             \/ AddDest(d) \/ DeleteDest(d)
      PROVE  \A g \in Feed : Paced(g)'
  BY <1>5, DestEditPaces
<1>6. QED
  BY <1>1, <1>2, <1>3, <1>4, <1>5 DEF Next

\* A poll begins with a feed that is due.
LEMMA PickedIsDue ==
    ASSUME Typed, [Next]_vars, NEW f \in Feed, job[f].pc = "idle", job'[f].pc = "picked"
    PROVE  feed[f].row # "deleted" /\ feed[f].due
<1>1. ~UNCHANGED vars /\ job' # job
  BY DEF vars
<1>2. ASSUME NEW g \in Feed,
             \/ Fetch(g) \/ Record(g) \/ RecordRejected(g) \/ InsertItems(g)
             \/ JoinRoutes(g) \/ CommitItems(g) \/ RollBack(g)
      PROVE  FALSE
  <2>1. job[g].pc # "idle"
    BY <1>2 DEF Fetch, Record, RecordRejected, InsertItems, JoinRoutes, CommitItems, RollBack
  <2>2. \A h \in Feed : h # g => job'[h] = job[h]
    BY <1>2 DEF Typed, Fetch, Record, RecordRejected, InsertItems, JoinRoutes, CommitItems,
                RollBack, Steps
  <2>3. QED
    BY <2>1, <2>2
<1>3. ~Return /\ ~WorkerDies
  BY IdleIsJob DEF Return, WorkerDies
<1>4. Pick
  <2>1. Poller
    BY <1>1, <1>3 DEF Next, SetEnabled, SetUrl, DeleteFeed, Publish, IntervalPasses,
                      DayPasses, SetDest, AddDest, DeleteDest
  <2>2. QED
    BY <1>2, <1>3, <2>1 DEF Poller
<1>5. f \in FirstDue
  BY <1>4 DEF Pick
<1>6. QED
  BY <1>5 DEF FirstDue, Due

\* However a poll of pollDueFeeds ends, by an error, an exception or a commit,
\* the feed is not polled again before its interval is over, unless the worker
\* died or the database could not be told.
THEOREM NoFeedIsPolledInAHotLoop == Spec => NoHotLoop
<1>1. Init => Pacing
  BY DEF Init, Pacing, Paced
<1>2. IInv => Typed
  BY DEF IInv
<1>3. Typed /\ Pacing /\ [Next]_vars => Pacing'
  BY NextPaces DEF Pacing
<1>4. Typed /\ Pacing /\ [Next]_vars
      => [\A f \in Feed : job[f].pc = "idle" /\ job'[f].pc = "picked"
                          => hist[f].rested \/ hist[f].excused]_vars
  BY PickedIsDue DEF Pacing, Paced, Resting
<1>5. QED
  BY <1>1, <1>2, <1>3, <1>4, Inductive, PTL DEF Spec, NoHotLoop

-----------------------------------------------------------------------------
(***************************************************************************)
(* That the backfill of RssPoller keeps only old items silent, for any     *)
(* number of items and any backfill, by count or by days.                  *)
(*                                                                         *)
(* The heart of it is NewestAreEnough, about the count of                  *)
(* selectBackfillItems: an item with backfill_value newer ones has that    *)
(* many newer ones among those that are sent.                              *)
(***************************************************************************)

Newer(i, X) == {j \in X : j > i}
Newest(n, X) == {j \in X : Cardinality(Newer(j, X)) < n}

\* Of a non-empty set of items one is the newest: the one with the fewest
\* newer ones in X.
LEMMA OneIsNewest ==
    ASSUME NEW X, X \subseteq Nat, IsFiniteSet(X), NEW Y \in SUBSET X, Y # {}
    PROVE  \E m \in Y : \A j \in Y : ~(j > m)
<1> DEFINE above == {Newer(j, X) : j \in Y}
<1>1. above \subseteq SUBSET X /\ above # {}
  BY DEF Newer
<1>2. IsWellFoundedOn(StrictSubsetOrdering(X), SUBSET X)
  BY FS_StrictSubsetOrderingWellFounded, FS_FiniteSubsetsOfFinite
<1> HIDE DEF above
<1>3. PICK a \in above : \A b \in above : <<b, a>> \notin StrictSubsetOrdering(X)
  BY <1>1, <1>2, WFMin
<1>4. PICK m \in Y : a = Newer(m, X)
  BY DEF above
<1>5. ASSUME NEW j \in Y, j > m PROVE FALSE
  <2>1. Newer(j, X) \in above
    BY DEF above
  <2>2. Newer(j, X) \subseteq Newer(m, X)
    <3>1. j \in Nat /\ m \in Nat
      OBVIOUS
    <3>2. ASSUME NEW k \in X, k > j PROVE k > m
      <4>1. k \in Nat
        OBVIOUS
      <4>2. QED
        BY <1>5, <3>1, <3>2, <4>1
    <3>3. QED
      BY <3>2 DEF Newer
  <2>3. j \in Newer(m, X) /\ j \notin Newer(j, X)
    BY <1>5 DEF Newer
  <2>4. <<Newer(j, X), Newer(m, X)>> \in StrictSubsetOrdering(X)
    <3>1. Newer(j, X) \in SUBSET X /\ Newer(m, X) \in SUBSET X
      BY DEF Newer
    <3>2. Newer(j, X) # Newer(m, X)
      BY <2>3
    <3>3. QED
      BY <2>2, <3>1, <3>2 DEF StrictSubsetOrdering
  <2>5. QED
    BY <1>3, <1>4, <2>1, <2>4
<1>6. QED
  BY <1>5

LEMMA NewestAreEnough ==
    ASSUME NEW X, X \subseteq Nat, IsFiniteSet(X), NEW n \in Nat, NEW i \in X,
           Cardinality(Newer(i, X)) >= n
    PROVE  Cardinality(Newer(i, Newest(n, X))) >= n
<1> DEFINE S == Newer(i, X)
           T == Newer(i, Newest(n, X))
<1>1. /\ S \in SUBSET X /\ T \in SUBSET S
      /\ IsFiniteSet(S) /\ IsFiniteSet(T)
      /\ Cardinality(S) \in Nat /\ Cardinality(T) \in Nat
  <2>1. S \in SUBSET X /\ T \in SUBSET S
    BY DEF Newer, Newest
  <2>2. IsFiniteSet(S) /\ IsFiniteSet(T)
    BY <2>1, FS_Subset
  <2>3. QED
    BY <2>1, <2>2, FS_CardinalityType
<1>2. SUFFICES ASSUME Cardinality(T) < n PROVE FALSE
  BY <1>1
<1>3. S \ T # {}
  BY <1>1, <1>2
<1>4. PICK m \in S \ T : \A j \in S \ T : ~(j > m)
  BY <1>1, <1>3, OneIsNewest
<1>5. Newer(m, X) \in SUBSET T
  <2>1. SUFFICES ASSUME NEW j \in X, j > m PROVE j \in T
    BY DEF Newer
  <2>2. j \in S
    BY <1>1, <1>4, <2>1 DEF Newer
  <2>3. QED
    BY <1>4, <2>1, <2>2
<1>6. /\ Cardinality(Newer(m, X)) <= Cardinality(T)
      /\ Cardinality(Newer(m, X)) \in Nat
  BY <1>1, <1>5, FS_Subset, FS_CardinalityType
<1>7. m \in T
  BY <1>1, <1>2, <1>4, <1>6 DEF Newer, Newest
<1>8. QED
  BY <1>4, <1>7

-----------------------------------------------------------------------------
\* The inductive invariant, on top of IInv: what the first poll has found is
\* finite, and newer items of it are announced than those that are silent, or
\* these are too old by their date.
Found(f) ==
    /\ IsFiniteSet(hist[f].old)
    /\ job[f].pc \in {"inserted", "joined"} => IsFiniteSet(job[f].new)

Backfilled(f) ==
    \A i \in items[f] \ hist[f].announced :
        /\ i \in hist[f].old
        /\ f \in Days => i <= cutoff[f]
        /\ f \notin Days
           => Cardinality(Newer(i, hist[f].old \cap hist[f].announced)) >= Backfill[f]

Aged == cutoff \in [Feed -> Nat] /\ \A f \in Feed : Found(f) /\ Backfilled(f)

\* No item is stored or announced, and no transaction begins.
LEMMA StillAged ==
    ASSUME NEW f \in Feed, Found(f), Backfilled(f),
           items'[f] \subseteq items[f], cutoff' = cutoff,
           hist'[f].old = hist[f].old, hist'[f].announced = hist[f].announced,
           job'[f].pc \in {"inserted", "joined"}
           => job[f].pc \in {"inserted", "joined"} /\ job'[f].new = job[f].new
    PROVE  Found(f)' /\ Backfilled(f)'
BY DEF Found, Backfilled

LEMMA ItemsAreNumbers == Item \subseteq Nat
BY RssPollerAssumption DEF Item

\* More items are announced.
LEMMA AnnouncingAges ==
    ASSUME NEW X, IsFiniteSet(X), NEW A, NEW B, A \subseteq B, NEW i, NEW n \in Nat,
           Cardinality(Newer(i, X \cap A)) >= n
    PROVE  Cardinality(Newer(i, X \cap B)) >= n
<1>1. /\ Newer(i, X \cap B) \in SUBSET X
      /\ Newer(i, X \cap A) \in SUBSET Newer(i, X \cap B)
  BY DEF Newer
<1>2. IsFiniteSet(Newer(i, X \cap B)) /\ IsFiniteSet(Newer(i, X \cap A))
  BY <1>1, FS_Subset
<1>3. /\ Cardinality(Newer(i, X \cap A)) <= Cardinality(Newer(i, X \cap B))
      /\ Cardinality(Newer(i, X \cap A)) \in Nat
      /\ Cardinality(Newer(i, X \cap B)) \in Nat
  BY <1>1, <1>2, FS_Subset, FS_CardinalityType
<1>4. QED
  BY <1>3

LEMMA CommitAges ==
    ASSUME IInv, Aged, NEW f \in Feed, CommitItems(f)
    PROVE  Aged'
<1> DEFINE send == ToDispatch(f)
           old == IF job[f].first THEN job[f].new ELSE hist[f].old
<1>1. /\ Typed /\ Good(f) /\ Found(f) /\ Backfilled(f) /\ job[f].pc = "joined"
      /\ job[f] \in Job /\ hist[f] \in Hist /\ Backfill[f] \in Nat
      /\ Steps(f, "settled")
      /\ items' = [items EXCEPT ![f] = @ \cup job[f].new]
      /\ cutoff \in [Feed -> Nat] /\ cutoff' = cutoff
  BY RssPollerAssumption DEF CommitItems, IInv, Aged, Typed
<1>2. /\ hist'[f].announced = hist[f].announced \cup send /\ hist'[f].old = old
      /\ \A g \in Feed : g # f => hist'[g] = hist[g]
  BY <1>1 DEF CommitItems, Typed, Hist
<1>3. /\ items'[f] = items[f] \cup job[f].new
      /\ \A g \in Feed : g # f => items'[g] = items[g]
  BY <1>1 DEF Typed
<1>4. job'[f].pc = "settled" /\ \A g \in Feed : g # f => job'[g] = job[g]
  BY <1>1, StepsEffect
<1>5. job[f].new \subseteq Nat /\ IsFiniteSet(job[f].new)
  BY <1>1, ItemsAreNumbers DEF Job, Found
<1>6. Found(f)'
  BY <1>1, <1>2, <1>4, <1>5 DEF Found
<1>7. ASSUME NEW i \in items'[f] \ hist'[f].announced
      PROVE  /\ i \in hist'[f].old
             /\ f \in Days => i <= cutoff'[f]
             /\ f \notin Days
                => Cardinality(Newer(i, hist'[f].old \cap hist'[f].announced)) >= Backfill[f]
  <2>1. CASE job[f].first
    <3>1. items[f] = {} /\ old = job[f].new
      BY <1>1, <2>1 DEF Good, Clean
    <3>2. i \in job[f].new /\ i \notin send
      BY <1>2, <1>3, <1>7, <3>1
    <3>3. i \in hist'[f].old
      BY <1>2, <3>1, <3>2
    <3>4. ASSUME f \in Days PROVE i <= cutoff'[f]
      <4>1. send = WithinDays(f)
        BY <2>1, <3>4 DEF ToDispatch
      <4>2. ~(i > cutoff[f])
        BY <3>2, <4>1 DEF WithinDays
      <4>3. i \in Nat /\ cutoff[f] \in Nat
        BY <1>1, <1>5, <3>2
      <4>4. QED
        BY <1>1, <4>2, <4>3
    <3>5. ASSUME f \notin Days
          PROVE  Cardinality(Newer(i, hist'[f].old \cap hist'[f].announced)) >= Backfill[f]
      <4>1. send = Newest(Backfill[f], job[f].new)
        BY <2>1, <3>5 DEF ToDispatch, Freshest, Newest, Newer
      <4>2. Cardinality(Newer(i, job[f].new)) >= Backfill[f]
        <5>1. ~(Cardinality(Newer(i, job[f].new)) < Backfill[f])
          BY <3>2, <4>1 DEF Newest
        <5>2. Newer(i, job[f].new) \in SUBSET job[f].new
          BY DEF Newer
        <5>3. Cardinality(Newer(i, job[f].new)) \in Nat
          BY <1>5, <5>2, FS_Subset, FS_CardinalityType
        <5>4. QED
          BY <1>1, <5>1, <5>3
      <4>3. Cardinality(Newer(i, send)) >= Backfill[f]
        BY <1>1, <1>5, <3>2, <4>1, <4>2, NewestAreEnough
      <4>4. send = old \cap send
        BY <3>1, <4>1 DEF Newest
      <4>5. send \subseteq hist'[f].announced
        BY <1>2
      <4>6. Cardinality(Newer(i, old \cap send)) >= Backfill[f]
        BY <4>3, <4>4
      <4>7. IsFiniteSet(old)
        BY <1>5, <3>1
      <4> HIDE DEF send, old
      <4>8. Cardinality(Newer(i, old \cap hist'[f].announced)) >= Backfill[f]
        BY <1>1, <4>5, <4>6, <4>7, AnnouncingAges
      <4>9. QED
        BY <1>2, <4>8
    <3>6. QED
      BY <3>3, <3>4, <3>5
  <2>2. CASE ~job[f].first
    <3>1. send = job[f].new /\ old = hist[f].old
      BY <2>2 DEF ToDispatch
    <3>2. i \in items[f] \ hist[f].announced
      BY <1>2, <1>3, <1>7, <3>1
    <3>3. /\ i \in hist[f].old
          /\ f \in Days => i <= cutoff[f]
          /\ f \notin Days
             => Cardinality(Newer(i, hist[f].old \cap hist[f].announced)) >= Backfill[f]
      BY <1>1, <3>2 DEF Backfilled
    <3>4. IsFiniteSet(hist[f].old) /\ hist[f].announced \subseteq hist'[f].announced
      BY <1>1, <1>2 DEF Found
    <3>5. QED
      BY <1>1, <1>2, <3>1, <3>3, <3>4, AnnouncingAges
  <2>3. QED
    BY <2>1, <2>2
<1>8. Backfilled(f)'
  BY <1>7 DEF Backfilled
<1>9. ASSUME NEW g \in Feed, g # f PROVE Found(g)' /\ Backfilled(g)'
  BY <1>1, <1>2, <1>3, <1>4, <1>9, StillAged DEF Aged
<1>10. QED
  BY <1>1, <1>6, <1>8, <1>9 DEF Aged

LEMMA InsertAges ==
    ASSUME IInv, Aged, NEW f \in Feed, InsertItems(f)
    PROVE  Aged'
<1>1. /\ Typed /\ job[f] \in Job /\ hist[f] \in Hist /\ items' = items /\ cutoff' = cutoff
  BY DEF InsertItems, IInv, Typed
<1>2. /\ hist'[f].old = hist[f].old /\ hist'[f].announced = hist[f].announced
      /\ \A g \in Feed : g # f => hist'[g] = hist[g] /\ job'[g] = job[g]
  BY <1>1 DEF InsertItems, Typed, Hist, Steps
<1>3. Found(f)'
  <2>1. CASE feed[f].row = "deleted" /\ job[f].upTo > 0
    <3>1. job'[f].pc = "rejected"
      BY <1>1, <2>1, StepsEffect DEF InsertItems
    <3>2. QED
      BY <1>2, <3>1 DEF Aged, Found
  <2>2. CASE ~(feed[f].row = "deleted" /\ job[f].upTo > 0)
    <3>1. job'[f].new = (1 .. job[f].upTo) \ items[f]
      BY <1>1, <2>2 DEF InsertItems, Typed, Job
    <3>2. job[f].upTo \in Int
      <4>1. job[f].upTo \in Item \cup {0}
        BY <1>1 DEF Job
      <4>2. \A n \in Item \cup {0} : n \in Nat
        BY ItemsAreNumbers
      <4>3. QED
        BY <4>1, <4>2
    <3>3. IsFiniteSet(1 .. job[f].upTo)
      <4>1. \A n \in Int : IsFiniteSet(1 .. n)
        BY FS_Interval
      <4>2. QED
        BY <3>2, <4>1
    <3>4. job'[f].new \in SUBSET (1 .. job[f].upTo)
      BY <3>1
    <3>5. IsFiniteSet(job'[f].new)
      BY <3>3, <3>4, FS_Subset
    <3>6. QED
      BY <1>2, <3>5 DEF Aged, Found
  <2>3. QED
    BY <2>1, <2>2
<1>4. Backfilled(f)'
  BY <1>1, <1>2 DEF Aged, Backfilled
<1>5. ASSUME NEW g \in Feed, g # f PROVE Found(g)' /\ Backfilled(g)'
  BY <1>1, <1>2, <1>5, StillAged DEF Aged
<1>6. QED
  BY <1>1, <1>3, <1>4, <1>5 DEF Aged

\* The other steps of the poller and the end of the worker.
LEMMA PollAges ==
    ASSUME IInv, Aged,
           \/ Pick \/ Return \/ WorkerDies
           \/ \E f \in Feed : \/ Fetch(f) \/ Record(f) \/ RecordRejected(f)
                              \/ JoinRoutes(f) \/ RollBack(f)
    PROVE  Aged'
<1>1. Typed /\ items' = items /\ cutoff' = cutoff
  BY DEF IInv, Pick, Return, WorkerDies, Fetch, Record, RecordRejected, JoinRoutes,
         RollBack, NothingKept
<1>2. ASSUME NEW g \in Feed
      PROVE  hist'[g].old = hist[g].old /\ hist'[g].announced = hist[g].announced
  <2>1. hist[g] \in Hist
    BY <1>1 DEF Typed
  <2>2. CASE Pick
    BY <2>1, <2>2 DEF Pick, Hist
  <2>3. CASE WorkerDies
    BY <2>1, <2>3, ExcusedEffect DEF WorkerDies
  <2>4. ASSUME NEW f \in Feed, RecordRejected(f), hist' # hist
        PROVE  hist'[g].old = hist[g].old /\ hist'[g].announced = hist[g].announced
    <3>1. hist' = [hist EXCEPT ![f].excused = TRUE]
      BY <2>4 DEF RecordRejected
    <3>2. QED
      BY <1>1, <2>1, <3>1 DEF Typed, Hist
  <2>5. QED
    BY <2>2, <2>3, <2>4 DEF Return, Fetch, Record, JoinRoutes, RollBack
<1>3. ASSUME NEW g \in Feed, job'[g].pc \in {"inserted", "joined"}
      PROVE  job[g].pc \in {"inserted", "joined"} /\ job'[g].new = job[g].new
  <2>1. ~Return /\ ~WorkerDies
    BY <1>3, IdleIsJob DEF Return, WorkerDies
  <2>2. CASE Pick
    <3>1. job[g].pc = "idle"
      BY <2>2 DEF Pick
    <3>2. job'[g] = [Idle EXCEPT !.pc = "picked", !.url = feed[g].url,
                                 !.first = ~feed[g].done] \/ job'[g] = job[g]
      BY <2>2 DEF Pick
    <3>3. QED
      BY <1>3, <3>1, <3>2 DEF Idle
  <2>3. ASSUME NEW f \in Feed, NEW pc \in {"nothing", "rejected", "settled"}, Steps(f, pc)
        PROVE  job[g].pc \in {"inserted", "joined"} /\ job'[g].new = job[g].new
    BY <1>1, <1>3, <2>3, StepsEffect
  <2>4. ASSUME NEW f \in Feed, Fetch(f),
               job' = [job EXCEPT ![f].pc = "fetched", ![f].upTo = served[f]]
        PROVE  job[g].pc \in {"inserted", "joined"} /\ job'[g].new = job[g].new
    BY <1>1, <1>3, <2>4 DEF Typed, Job
  <2>5. ASSUME NEW f \in Feed, JoinRoutes(f)
        PROVE  job[g].pc \in {"inserted", "joined"} /\ job'[g].new = job[g].new
    BY <1>1, <1>3, <2>5 DEF JoinRoutes, Typed, Job
  <2>6. QED
    BY <2>1, <2>2, <2>3, <2>4, <2>5 DEF Fetch, Record, RecordRejected, RollBack
<1>4. QED
  BY <1>1, <1>2, <1>3, StillAged DEF Aged

\* The edits, the origins and the clock.
LEMMA EditsAge ==
    ASSUME IInv, Aged,
           \/ \E f \in Feed : \/ \E row \in {"on", "off"} : SetEnabled(f, row)
                              \/ SetUrl(f) \/ DeleteFeed(f) \/ Publish(f)
                              \/ IntervalPasses(f)
           \/ \E d \in Dest : \/ \E state \in {"on", "off"} : SetDest(d, state)
                              \/ AddDest(d) \/ DeleteDest(d)
    PROVE  Aged'
<1>1. Typed /\ job' = job /\ cutoff' = cutoff
  BY DEF IInv, SetEnabled, SetUrl, DeleteFeed, Publish, IntervalPasses, SetDest, AddDest,
         DeleteDest
<1>2. SUFFICES ASSUME NEW g \in Feed PROVE Found(g)' /\ Backfilled(g)'
  BY <1>1 DEF Aged
<1>3. items'[g] \subseteq items[g]
  BY <1>1 DEF Typed, SetEnabled, SetUrl, DeleteFeed, Publish, IntervalPasses, SetDest,
              AddDest, DeleteDest
<1>4. hist'[g].old = hist[g].old /\ hist'[g].announced = hist[g].announced
  <2>1. hist \in [Feed -> Hist] /\ hist[g] \in Hist
    BY <1>1 DEF Typed
  <2>2. CASE hist' = hist
    BY <2>2
  <2>3. ASSUME NEW f \in Feed, SetUrl(f) PROVE <1>4!1 /\ <1>4!2
    BY <2>1, <2>3 DEF SetUrl, Hist
  <2>4. ASSUME NEW f \in Feed, IntervalPasses(f) PROVE <1>4!1 /\ <1>4!2
    BY <2>1, <2>4 DEF IntervalPasses, Hist
  <2>5. ASSUME NEW d \in Dest, NEW state \in {"on", "off"}, SetDest(d, state)
        PROVE  <1>4!1 /\ <1>4!2
    BY <2>1, <2>5, RssPollerAssumption DEF SetDest, Hist
  <2>6. ASSUME NEW d \in Dest, DeleteDest(d) PROVE <1>4!1 /\ <1>4!2
    BY <2>1, <2>6, RssPollerAssumption DEF DeleteDest, Hist
  <2>7. QED
    BY <2>2, <2>3, <2>4, <2>5, <2>6 DEF SetEnabled, DeleteFeed, Publish, AddDest
<1>5. QED
  BY <1>1, <1>3, <1>4, StillAged DEF Aged

\* What was too old stays so.
LEMMA DayAges ==
    ASSUME IInv, Aged, NEW f \in Feed, DayPasses(f)
    PROVE  Aged'
<1>1. /\ cutoff \in [Feed -> Nat] /\ items \in [Feed -> SUBSET Item]
      /\ cutoff' = [cutoff EXCEPT ![f] = @ + 1]
      /\ UNCHANGED <<items, job, hist>>
  BY DEF DayPasses, Aged, IInv, Typed
<1>2. cutoff' \in [Feed -> Nat] /\ \A g \in Feed : cutoff[g] <= cutoff'[g]
  BY <1>1
<1>3. ASSUME NEW g \in Feed PROVE Found(g)' /\ Backfilled(g)'
  <2>1. Found(g) /\ Backfilled(g)
    BY DEF Aged
  <2>2. ASSUME NEW i \in items[g], i <= cutoff[g] PROVE i <= cutoff'[g]
    <3>1. i \in Nat /\ cutoff[g] \in Nat /\ cutoff'[g] \in Nat /\ cutoff[g] <= cutoff'[g]
      BY <1>1, <1>2, ItemsAreNumbers
    <3>2. QED
      BY <2>2, <3>1
  <2>3. QED
    BY <1>1, <2>1, <2>2 DEF Found, Backfilled
<1>4. QED
  BY <1>2, <1>3 DEF Aged

LEMMA NextAges ==
    ASSUME IInv, Aged, [Next]_vars
    PROVE  Aged'
<1>1. CASE UNCHANGED vars
  BY <1>1 DEF vars, Aged, Found, Backfilled
<1>2. ASSUME NEW f \in Feed, InsertItems(f) \/ CommitItems(f) PROVE Aged'
  BY <1>2, InsertAges, CommitAges
<1>3. CASE Next /\ \A f \in Feed : ~InsertItems(f) /\ ~CommitItems(f)
  BY <1>3, PollAges, EditsAge, DayAges DEF Next, Poller
<1>4. QED
  BY <1>1, <1>2, <1>3

\* selectBackfillItems and backfill_mode: for any number of items, what is
\* stored without a notification was found by the first poll that went well.
\* With mode count (none is a count of 0) it is older than the newest
\* backfill_value items of that poll, which are announced; with mode days it is
\* undated or older than backfill_value days.  This holds through rollbacks,
\* restarts and edits.
THEOREM OnlyOldItemsAreSilent == Spec => []SilentIsOld
<1>1. Init => Aged
  <2>1. SUFFICES ASSUME Init, NEW f \in Feed PROVE Found(f) /\ Backfilled(f)
    BY DEF Aged, Init
  <2>2. hist[f].old = {} /\ job[f].pc = "idle" /\ items[f] = {}
    BY <2>1, IdleIsJob DEF Init
  <2>3. QED
    BY <2>2, FS_EmptySet DEF Found, Backfilled
<1>2. IInv /\ Aged /\ [Next]_vars => Aged'
  BY NextAges
<1>3. Aged => SilentIsOld
  BY DEF Aged, Backfilled, Newer, SilentIsOld
<1>4. QED
  BY <1>1, <1>2, <1>3, Inductive, PTL DEF Spec
=============================================================================
