---------------------------- MODULE MCRssPoller ----------------------------
(* Finite instances of RssPoller: two feeds in batches of one, of which one *)
(* has two items and a destination and the other is always empty; or two    *)
(* with three items each and a backfill of one item, or of one day.         *)
EXTENDS RssPoller

MCFeedOf == [d \in Dest |-> "news"]
MCBackfill == [f \in Feed |-> IF f = "news" THEN 1 ELSE 0]
MCPublished == [f \in Feed |-> IF f = "news" THEN 2 ELSE 0]

MCOne == [f \in Feed |-> 1]
MCThree == [f \in Feed |-> 3]
=============================================================================
