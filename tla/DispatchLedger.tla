--------------------------- MODULE DispatchLedger ---------------------------
(***************************************************************************)
(* What the dispatcher promises about one row of the dispatches table,     *)
(* whatever batches, backoff, faults and edits happen around it: a row is  *)
(* created once, is handed to its provider only while it is pending (or    *)
(* was deleted meanwhile), becomes 'sent' only after the provider accepted *)
(* it, and leaves 'sent' and 'skipped' only by being deleted.  The one way *)
(* back to 'pending' is the user's retry of a 'failed' row.                *)
(*                                                                         *)
(* Dispatcher.tla implements this specification for a single worker.       *)
(***************************************************************************)
EXTENDS Naturals

CONSTANT Dispatch

VARIABLES
    status,    \* [Dispatch -> Status]: what the row says
    accepted   \* [Dispatch -> Nat]: how often the provider took the message

ledger == <<status, accepted>>

Settled == {"sent", "failed", "skipped"}
Stored  == {"pending"} \cup Settled
Status  == {"none", "gone"} \cup Stored

LedgerInit ==
    /\ status = [d \in Dispatch |-> "none"]
    /\ accepted = [d \in Dispatch |-> 0]

\* A fan-out transaction stores a set of new rows.
Create(D) ==
    /\ \A d \in D : status[d] = "none"
    /\ status' = [d \in Dispatch |-> IF d \in D THEN "pending" ELSE status[d]]
    /\ UNCHANGED accepted

\* The provider takes the message of a row that is still waiting for it.
Accept(d) ==
    /\ status[d] \in {"pending", "gone"}
    /\ accepted' = [accepted EXCEPT ![d] = @ + 1]
    /\ UNCHANGED status

Settle(d, s) ==
    /\ status[d] = "pending"
    /\ s = "sent" => accepted[d] > 0
    /\ status' = [status EXCEPT ![d] = s]
    /\ UNCHANGED accepted

Retry(d) ==
    /\ status[d] = "failed"
    /\ status' = [status EXCEPT ![d] = "pending"]
    /\ UNCHANGED accepted

\* Deleting a feed, a route or a destination takes its rows along.
Remove(D) ==
    /\ status' = [d \in Dispatch |->
                    IF d \in D /\ status[d] # "none" THEN "gone" ELSE status[d]]
    /\ UNCHANGED accepted

LedgerNext ==
    \/ \E D \in SUBSET Dispatch : Create(D) \/ Remove(D)
    \/ \E d \in Dispatch :
          \/ Accept(d)
          \/ Retry(d)
          \/ \E s \in Settled : Settle(d, s)

LedgerSpec == LedgerInit /\ [][LedgerNext]_ledger
=============================================================================
