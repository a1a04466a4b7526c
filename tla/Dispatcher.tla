----------------------------- MODULE Dispatcher -----------------------------
(***************************************************************************)
(* The dispatcher of the worker process (src/web/src/worker/dispatcher.ts) *)
(* together with everything that reads or writes the dispatches table      *)
(* beside it: the fan-out transaction that creates rows, the user's retry, *)
(* the edits of destinations and sinks, and the death of the worker.       *)
(*                                                                         *)
(* One action is one SQL statement or one call to a provider; between any  *)
(* two of them the rest of the system may run.  A dispatch is the pair of  *)
(* a feed item and a route destination, which the unique index             *)
(* dest_item_unique identifies it by.  Items are numbered in the order in  *)
(* which they enter the database, and by publication date within one       *)
(* transaction, so a smaller number is an older item.                      *)
(***************************************************************************)
EXTENDS Integers, FiniteSets

CONSTANTS
    Worker,            \* worker processes (the deployment runs one)
    Item,              \* feed items, numbered from old to new
    RouteDestination,  \* rows of route_destinations
    Sink,              \* rows of the four sinks_* tables
    SinkOf,            \* RouteDestination -> Sink; sink_id is never edited
    EmailSink,         \* the sinks that need an address (smtp, resend)
    FailureCode,       \* codes a sender may return
    PermanentCode,     \* those for which isPermanentFailure holds
    Hint,              \* Retry-After hints in seconds, 0 for none
    RetryDelay(_, _),  \* retryDelaySec; backoffSec is RetryDelay(_, 0)
    Pace,              \* values of feeds.backfill_pace_seconds
    MaxAttempts,       \* MAX_ATTEMPTS
    BatchSize,         \* DISPATCH_BATCH_SIZE
    MaxFaults,         \* bound: crashes and failed statements
    MaxLostAcks,       \* bound: statements that commit and still throw
    MaxRetries,        \* bound: retries by the user
    MaxEdits           \* bound: edits of destinations and sinks

Dispatch == Item \X RouteDestination
ItemOf(d) == d[1]
DestOf(d) == d[2]

ASSUME ConstantsAssumption ==
    /\ Item \subseteq Nat /\ IsFiniteSet(Item)
    /\ SinkOf \in [RouteDestination -> Sink]
    /\ EmailSink \subseteq Sink
    /\ PermanentCode \subseteq FailureCode
    /\ 0 \in Hint /\ Hint \subseteq Nat
    /\ Pace \subseteq Nat
    /\ MaxAttempts \in Nat \ {0} /\ BatchSize \in Nat \ {0}
    /\ {MaxFaults, MaxLostAcks, MaxRetries, MaxEdits} \subseteq Nat

\* A dispatch is rescheduled only while it has attempts left, and then
\* always into the future.
ASSUME RetryDelayAssumption ==
    \A a \in 1 .. MaxAttempts, h \in Hint : RetryDelay(a, h) \in Nat \ {0}

VARIABLES
    now,     \* the database clock, in seconds
    seen,    \* the items already in feed_items
    row,     \* [Dispatch -> Row]: the dispatches table
    dest,    \* [RouteDestination -> Destination]: route_destinations
    sinks,   \* the sinks that exist
    up,      \* [Worker -> BOOLEAN]: the process runs
    job,     \* [Worker -> [Dispatch -> Job]]: the batch it works on
    hist,    \* [Dispatch -> History]: observations, no code reads them
    budget   \* what is left of the four bounds

vars == <<now, seen, row, dest, sinks, up, job, hist, budget>>

Terminal == {"sent", "failed", "skipped"}
Stored   == {"pending"} \cup Terminal
Row == [status : {"none", "gone"} \cup Stored, attempts : Nat,
        scheduled : Nat, created : Nat]
NoRow == [status |-> "none", attempts |-> 0, scheduled |-> 0, created |-> 0]

Destination == [present : BOOLEAN, enabled : BOOLEAN, address : BOOLEAN]

\* Where a claimed job stands.
\*   claimed    claimed, sinks not loaded yet
\*   ready      waits for its turn in the group of its destination
\*   orphan     its sink was not found
\*   ok, error  the result of the send, not recorded yet
\*   threw      the statement (or the sender) threw; the catch block is next
\*   abandoned  the catch block threw too; deliverOne returns regardless
Stage == {"none", "claimed", "ready", "orphan", "ok", "error", "threw", "abandoned"}
InTurn == {"orphan", "ok", "error", "threw"}
Job == [stage : Stage, attempts : Nat, due : Nat, created : Nat,
        address : BOOLEAN, found : BOOLEAN, permanent : BOOLEAN, hint : Hint]
NoJob == [stage |-> "none", attempts |-> 0, due |-> 0, created |-> 0,
          address |-> FALSE, found |-> FALSE, permanent |-> FALSE, hint |-> 0]

\* acked       how often a provider answered this dispatch with success
\* unrecorded  how many of those answers never reached the database
\* rejected    a permanent failure was seen since creation or retry
\* lost        claims that ended without any outcome in the database
\* notBefore   the moment a provider asked us to wait for, 0 if none did
History == [acked : Nat, unrecorded : Nat, rejected : BOOLEAN, lost : Nat,
            notBefore : Nat]
NoHistory == [acked |-> 0, unrecorded |-> 0, rejected |-> FALSE, lost |-> 0,
              notBefore |-> 0]

Bounded == {"faults", "acks", "retries", "edits"}

TypeOK ==
    /\ now \in Nat
    /\ seen \subseteq Item
    /\ row \in [Dispatch -> Row]
    /\ dest \in [RouteDestination -> Destination]
    /\ sinks \subseteq Sink
    /\ up \in [Worker -> BOOLEAN]
    /\ job \in [Worker -> [Dispatch -> Job]]
    /\ hist \in [Dispatch -> History]
    /\ budget \in [Bounded -> Nat]

Init ==
    /\ now = 0
    /\ seen = {}
    /\ row = [d \in Dispatch |-> NoRow]
    /\ dest = [r \in RouteDestination |->
                  [present |-> TRUE, enabled |-> TRUE, address |-> TRUE]]
    /\ sinks = Sink
    /\ up = [w \in Worker |-> TRUE]
    /\ job = [w \in Worker |-> [d \in Dispatch |-> NoJob]]
    /\ hist = [d \in Dispatch |-> NoHistory]
    /\ budget = [b \in Bounded |->
                    CASE b = "faults"  -> MaxFaults
                      [] b = "acks"    -> MaxLostAcks
                      [] b = "retries" -> MaxRetries
                      [] b = "edits"   -> MaxEdits]

Spend(b) ==
    /\ budget[b] > 0
    /\ budget' = [budget EXCEPT ![b] = @ - 1]

-----------------------------------------------------------------------------
(* The world around the worker.                                            *)

\* Offset of an item in the fan-out of the items I, oldest first.
FanOutOffset(I, pace, i) == pace * Cardinality({j \in I : j < i})

\* A poll (or a webhook post) commits the new items I and one pending row
\* for each of them and each enabled destination.  Only the first poll of a
\* feed paces its rows; in every later one they share one scheduled_at.
Enqueue(I, pace) ==
    /\ I # {} /\ \A i \in I, j \in seen : j < i
    /\ pace # 0 => seen = {}
    /\ seen' = seen \cup I
    /\ row' = [d \in Dispatch |->
                 IF ItemOf(d) \in I /\ dest[DestOf(d)].present /\ dest[DestOf(d)].enabled
                 THEN [status |-> "pending", attempts |-> 0, created |-> now,
                       scheduled |-> now + FanOutOffset(I, pace, ItemOf(d))]
                 ELSE row[d]]
    /\ now' = now + 1
    /\ UNCHANGED <<dest, sinks, up, job, hist, budget>>

\* Mutant: a row that still waits may be retried, too.
RetryDispatchAnyTime(d) ==
    /\ row[d].status \in {"pending", "failed"}
    /\ Spend("retries")
    /\ row' = [row EXCEPT ![d].status = "pending", ![d].attempts = 0,
                          ![d].scheduled = now]
    /\ hist' = [hist EXCEPT ![d].rejected = FALSE, ![d].notBefore = 0]
    /\ UNCHANGED <<now, seen, dest, sinks, up, job>>

\* POST /api/dispatches/[id]/retry: only a failed row starts over.
RetryDispatch(d) ==
    /\ row[d].status = "failed"
    /\ Spend("retries")
    /\ row' = [row EXCEPT ![d].status = "pending", ![d].attempts = 0,
                          ![d].scheduled = now]
    /\ hist' = [hist EXCEPT ![d].rejected = FALSE, ![d].notBefore = 0]
    /\ UNCHANGED <<now, seen, dest, sinks, up, job>>

\* PATCH of a route destination: mute it, or set and clear its address.
PatchDestination(r, enabled, address) ==
    /\ dest[r].present
    /\ Spend("edits")
    /\ dest' = [dest EXCEPT ![r].enabled = enabled, ![r].address = address]
    /\ UNCHANGED <<now, seen, row, sinks, up, job, hist>>

\* Deleting a route destination deletes its dispatches (ON DELETE CASCADE).
DeleteDestination(r) ==
    /\ dest[r].present
    /\ Spend("edits")
    /\ dest' = [dest EXCEPT ![r].present = FALSE]
    /\ row' = [d \in Dispatch |->
                 IF DestOf(d) = r /\ row[d].status \in Stored
                 THEN [NoRow EXCEPT !.status = "gone"] ELSE row[d]]
    /\ UNCHANGED <<now, seen, sinks, up, job, hist>>

\* Deleting a sink leaves the destinations that name it behind.
DeleteSink(s) ==
    /\ s \in sinks
    /\ Spend("edits")
    /\ sinks' = sinks \ {s}
    /\ UNCHANGED <<now, seen, row, dest, up, job, hist>>

\* Time passes up to the next moment at which a pending row falls due.
DueLater == {row[d].scheduled : d \in {e \in Dispatch :
                row[e].status = "pending" /\ row[e].scheduled > now}}

Tick ==
    /\ \E t \in DueLater : (\A u \in DueLater : t <= u) /\ now' = t
    /\ UNCHANGED <<seen, row, dest, sinks, up, job, hist, budget>>

-----------------------------------------------------------------------------
(* The worker.                                                             *)

Idle(w) == up[w] /\ \A d \in Dispatch : job[w][d].stage \in {"none", "abandoned"}

\* Mutant: rows whose attempts are used up are not picked again.
DueWithAttemptsLeft ==
    {d \in Dispatch : /\ row[d].status = "pending" /\ row[d].scheduled <= now
                      /\ row[d].attempts < MaxAttempts}

Due == {d \in Dispatch : row[d].status = "pending" /\ row[d].scheduled <= now}

\* The rows the picked CTE may return: the earliest BatchSize due ones, with
\* equal scheduled_at in any order.
Picks ==
    {P \in SUBSET Due :
        /\ P # {}
        /\ IF Cardinality(Due) <= BatchSize THEN P = Due ELSE Cardinality(P) = BatchSize
        /\ \A d \in P, e \in Due \ P : row[d].scheduled <= row[e].scheduled}

\* The claim burns an attempt.  It leaves status and scheduled_at alone.
Claim(w) ==
    /\ Idle(w)
    /\ \E P \in Picks :
         /\ row' = [d \in Dispatch |->
                      IF d \in P THEN [row[d] EXCEPT !.attempts = @ + 1] ELSE row[d]]
         /\ job' = [job EXCEPT ![w] = [d \in Dispatch |->
                      IF d \in P
                      THEN [NoJob EXCEPT !.stage = "claimed",
                                         !.attempts = row[d].attempts + 1,
                                         !.due = row[d].scheduled,
                                         !.created = row[d].created,
                                         !.address = dest[DestOf(d)].address]
                      ELSE NoJob]]
    /\ UNCHANGED <<now, seen, dest, sinks, up, hist, budget>>

\* loadSinksForBatch: which of the batch's sinks exist right now.
LoadSinks(w) ==
    /\ \E d \in Dispatch : job[w][d].stage = "claimed"
    /\ job' = [job EXCEPT ![w] = [d \in Dispatch |->
                 IF job[w][d].stage = "claimed"
                 THEN [job[w][d] EXCEPT !.stage = "ready",
                                        !.found = SinkOf[DestOf(d)] \in sinks]
                 ELSE job[w][d]]]
    /\ UNCHANGED <<now, seen, row, dest, sinks, up, hist, budget>>

\* What is lost with the jobs of w when nobody is left to record them.
LoseJobs(w) ==
    /\ job' = [job EXCEPT ![w] = [d \in Dispatch |-> NoJob]]
    /\ hist' = [d \in Dispatch |->
                 CASE job[w][d].stage = "ok" ->
                        [hist[d] EXCEPT !.lost = @ + 1, !.unrecorded = @ + 1]
                   [] job[w][d].stage \in {"none", "abandoned"} -> hist[d]
                   [] OTHER -> [hist[d] EXCEPT !.lost = @ + 1]]

\* The sink queries throw: dispatchPending rejects and the work loop starts
\* over, the batch forgotten and its attempts burnt.
LoadSinksFails(w) ==
    /\ \E d \in Dispatch : job[w][d].stage = "claimed"
    /\ Spend("faults")
    /\ LoseJobs(w)
    /\ UNCHANGED <<now, seen, row, dest, sinks, up>>

\* Mutant: the group is not sorted.
BeforeInAnyOrder(w, d, e) == FALSE

\* d goes before e in the group of one destination (scheduled_at, created_at).
Before(w, d, e) ==
    \/ job[w][d].due < job[w][e].due
    \/ job[w][d].due = job[w][e].due /\ job[w][d].created < job[w][e].created

\* Jobs for one destination are sent one after the other, in claim order.
Turn(w, d) ==
    /\ job[w][d].stage = "ready"
    /\ \A e \in Dispatch : DestOf(e) = DestOf(d) =>
          /\ job[w][e].stage \notin InTurn
          /\ job[w][e].stage = "ready" => ~Before(w, e, d)

NeedsAddress(w, d) == SinkOf[DestOf(d)] \in EmailSink /\ ~job[w][d].address

\* No sink, or no address: deliverOne does not get as far as the sender.
Reject(w, d) ==
    /\ Turn(w, d)
    /\ \/ /\ ~job[w][d].found
          /\ job' = [job EXCEPT ![w][d].stage = "orphan"]
          /\ UNCHANGED hist
       \/ /\ job[w][d].found /\ NeedsAddress(w, d)
          /\ job' = [job EXCEPT ![w][d].stage = "error", ![w][d].permanent = TRUE]
          /\ hist' = [hist EXCEPT ![d].rejected = TRUE]
    /\ UNCHANGED <<now, seen, row, dest, sinks, up, budget>>

Sends(w, d) == Turn(w, d) /\ job[w][d].found /\ ~NeedsAddress(w, d)

\* The provider takes the message and says so.
SendOk(w, d) ==
    /\ Sends(w, d)
    /\ job' = [job EXCEPT ![w][d].stage = "ok"]
    /\ hist' = [hist EXCEPT ![d].acked = @ + 1]
    /\ UNCHANGED <<now, seen, row, dest, sinks, up, budget>>

\* The sender returns a failure code, with a hint when it was rate-limited.
SendFails(w, d, code, hint) ==
    /\ Sends(w, d)
    /\ job' = [job EXCEPT ![w][d].stage = "error",
                          ![w][d].permanent = code \in PermanentCode,
                          ![w][d].hint = hint]
    /\ hist' = [hist EXCEPT ![d].rejected = @ \/ code \in PermanentCode,
                            ![d].notBefore = IF hint = 0 THEN 0 ELSE now + hint]
    /\ UNCHANGED <<now, seen, row, dest, sinks, up, budget>>

\* A formatter or a provider library throws instead.
SendThrows(w, d) ==
    /\ Sends(w, d)
    /\ job' = [job EXCEPT ![w][d].stage = "threw"]
    /\ UNCHANGED <<now, seen, row, dest, sinks, up, hist, budget>>

\* The columns an UPDATE sets, on a row that is still there.
Settle(d, status) ==
    IF row[d].status \in Stored THEN [row EXCEPT ![d].status = status] ELSE row

\* Mutant: the delay is subtracted.
RescheduleBackwards(d, delay) ==
    IF row[d].status \in Stored
    THEN [row EXCEPT ![d].status = "pending", ![d].scheduled = now - delay]
    ELSE row

\* Mutant: the delay is taken for a moment.
RescheduleAtDelay(d, delay) ==
    IF row[d].status \in Stored
    THEN [row EXCEPT ![d].status = "pending", ![d].scheduled = delay]
    ELSE row

Reschedule(d, delay) ==
    IF row[d].status \in Stored
    THEN [row EXCEPT ![d].status = "pending", ![d].scheduled = now + delay]
    ELSE row

\* Mutants: the last attempt is granted once more, or is never made.
RecordedOneAttemptLate(w, d) ==
    LET j == job[w][d]
    IN  CASE j.stage = "orphan" -> Settle(d, "skipped")
          [] j.stage = "ok"     -> Settle(d, "sent")
          [] j.stage = "error" /\ (j.permanent \/ j.attempts > MaxAttempts) ->
                Settle(d, "failed")
          [] OTHER -> Reschedule(d, RetryDelay(j.attempts, j.hint))

RecordedOneAttemptEarly(w, d) ==
    LET j == job[w][d]
    IN  CASE j.stage = "orphan" -> Settle(d, "skipped")
          [] j.stage = "ok"     -> Settle(d, "sent")
          [] j.stage = "error" /\ (j.permanent \/ j.attempts >= MaxAttempts - 1) ->
                Settle(d, "failed")
          [] OTHER -> Reschedule(d, RetryDelay(j.attempts, j.hint))

\* The table after the try block has recorded the outcome of d.  None of its
\* UPDATE statements looks at the status it overwrites.
Recorded(w, d) ==
    LET j == job[w][d]
    IN  CASE j.stage = "orphan" -> Settle(d, "skipped")
          [] j.stage = "ok"     -> Settle(d, "sent")
          [] j.stage = "error" /\ (j.permanent \/ j.attempts >= MaxAttempts) ->
                Settle(d, "failed")
          [] OTHER -> Reschedule(d, RetryDelay(j.attempts, j.hint))

Record(w, d) ==
    /\ job[w][d].stage \in {"orphan", "ok", "error"}
    /\ row' = Recorded(w, d)
    /\ job' = [job EXCEPT ![w][d] = NoJob]
    /\ UNCHANGED <<now, seen, dest, sinks, up, hist, budget>>

\* The UPDATE throws.  Either it never ran, or it committed and its answer
\* was lost with the connection.
RecordThrows(w, d) ==
    /\ job[w][d].stage \in {"orphan", "ok", "error"}
    /\ job' = [job EXCEPT ![w][d].stage = "threw"]
    /\ \/ /\ Spend("faults")
          /\ UNCHANGED row
          /\ hist' = IF job[w][d].stage = "ok"
                     THEN [hist EXCEPT ![d].unrecorded = @ + 1] ELSE hist
       \/ /\ Spend("acks")
          /\ row' = Recorded(w, d)
          /\ UNCHANGED hist
    /\ UNCHANGED <<now, seen, dest, sinks, up>>

\* Mutant: the catch block overwrites whatever it finds.
CaughtUnguarded(w, d) ==
    IF job[w][d].attempts >= MaxAttempts
    THEN Settle(d, "failed")
    ELSE Reschedule(d, RetryDelay(job[w][d].attempts, 0))

\* The table after the catch block: it touches a row only while it is pending.
Caught(w, d) ==
    IF row[d].status # "pending" THEN row
    ELSE IF job[w][d].attempts >= MaxAttempts
         THEN Settle(d, "failed")
         ELSE Reschedule(d, RetryDelay(job[w][d].attempts, 0))

Catch(w, d) ==
    /\ job[w][d].stage = "threw"
    /\ row' = Caught(w, d)
    /\ job' = [job EXCEPT ![w][d] = NoJob]
    /\ UNCHANGED <<now, seen, dest, sinks, up, hist, budget>>

\* The catch block's own UPDATE throws, which deliverOne swallows.
CatchThrows(w, d) ==
    /\ job[w][d].stage = "threw"
    /\ job' = [job EXCEPT ![w][d].stage = "abandoned"]
    /\ \/ /\ Spend("faults")
          /\ UNCHANGED row
          /\ hist' = [hist EXCEPT ![d].lost = @ + 1]
       \/ /\ Spend("acks")
          /\ row' = Caught(w, d)
          /\ UNCHANGED hist
    /\ UNCHANGED <<now, seen, dest, sinks, up>>

\* The process dies, by a signal or an uncaught error: its memory is gone.
Crash(w) ==
    /\ up[w]
    /\ Spend("faults")
    /\ up' = [up EXCEPT ![w] = FALSE]
    /\ LoseJobs(w)
    /\ UNCHANGED <<now, seen, row, dest, sinks>>

Restart(w) ==
    /\ ~up[w]
    /\ up' = [up EXCEPT ![w] = TRUE]
    /\ UNCHANGED <<now, seen, row, dest, sinks, job, hist, budget>>

Deliver(w, d) ==
    \/ Reject(w, d)
    \/ SendOk(w, d)
    \/ \E code \in FailureCode, hint \in Hint : SendFails(w, d, code, hint)
    \/ SendThrows(w, d)
    \/ Record(w, d)
    \/ Catch(w, d)

\* What the worker does of itself, as opposed to what happens to it.
WorkerStep(w) ==
    \/ Claim(w)
    \/ LoadSinks(w)
    \/ \E d \in Dispatch : Deliver(w, d)

Fault(w) ==
    \/ LoadSinksFails(w)
    \/ \E d \in Dispatch : RecordThrows(w, d) \/ CatchThrows(w, d)
    \/ Crash(w)

Edit ==
    \/ \E d \in Dispatch : RetryDispatch(d)
    \/ \E r \in RouteDestination :
          \/ \E enabled, address \in BOOLEAN : PatchDestination(r, enabled, address)
          \/ DeleteDestination(r)
    \/ \E s \in Sink : DeleteSink(s)

Next ==
    \/ \E I \in SUBSET (Item \ seen), pace \in Pace : Enqueue(I, pace)
    \/ Edit
    \/ Tick
    \/ \E w \in Worker : WorkerStep(w) \/ Fault(w) \/ Restart(w)

Spec == Init /\ [][Next]_vars

\* The work loop never stops by itself: it claims whenever rows are due, each
\* sender has a timeout, the container restarts the process, and time passes.
Fairness ==
    /\ WF_vars(Tick)
    /\ \A w \in Worker : WF_vars(WorkerStep(w)) /\ WF_vars(Restart(w))

FairSpec == Spec /\ Fairness

-----------------------------------------------------------------------------
(* Properties.                                                             *)

\* A claimed job that has not thrown owns its row: the row still waits for
\* exactly this attempt, or its destination was deleted.  Nothing in the SQL
\* says so - the claim leaves the row 'pending' and due - it holds because one
\* worker awaits its whole batch before it claims again, and because the retry
\* route refuses rows that have not failed.
JobOwnsRow ==
    \A w \in Worker, d \in Dispatch :
        job[w][d].stage \notin {"none", "threw", "abandoned"} =>
            \/ row[d].status = "gone"
            \/ row[d].status = "pending" /\ row[d].attempts = job[w][d].attempts

\* Every success a provider reported is the row's 'sent', is about to become
\* it, or was lost on its way to the database: nothing is sent again once it
\* is recorded, and no row says 'sent' that was not accepted.
EveryAckIsAccountedFor ==
    \A d \in Dispatch : row[d].status \in Stored =>
        hist[d].acked = hist[d].unrecorded
            + (IF row[d].status = "sent" \/ \E w \in Worker : job[w][d].stage = "ok"
               THEN 1 ELSE 0)

\* The attempt counter passes MAX_ATTEMPTS only by claims whose outcome never
\* reached the database: the ceiling is looked at when an outcome is recorded,
\* not when a row is claimed.
AttemptCeiling ==
    \A d \in Dispatch : row[d].attempts <= MaxAttempts + hist[d].lost

\* A row is given up only for a permanent failure or after MAX_ATTEMPTS
\* attempts since it was created or last retried.
FailedIsJustified ==
    \A d \in Dispatch : row[d].status = "failed" =>
        hist[d].rejected \/ row[d].attempts >= MaxAttempts

\* A destination gets its messages in the order in which they were due: while
\* one is being sent, none with an earlier scheduled_at is left behind, except
\* where the database took no outcome for it in this very batch.
SendsInDueOrder ==
    \A w \in Worker, d, e \in Dispatch :
        /\ DestOf(d) = DestOf(e)
        /\ job[w][d].stage \in {"ok", "error"}
        /\ row[e].status = "pending"
        /\ row[e].scheduled < job[w][d].due
        => job[w][e].stage = "abandoned"

\* A paced backfill reaches a destination from the oldest item to the newest: as
\* long as the user has retried nothing, no item is sent while an older one of its
\* transaction that was scheduled before it still waits for its first attempt.
OldestGoesOutFirst ==
    \A w \in Worker, d, e \in Dispatch :
        /\ budget.retries = MaxRetries
        /\ DestOf(d) = DestOf(e)
        /\ ItemOf(e) < ItemOf(d)
        /\ row[e].created = row[d].created
        /\ job[w][d].stage \in {"ok", "error"}
        /\ row[e].status = "pending"
        /\ row[e].scheduled < job[w][d].due
        => /\ row[e].attempts > 0
           /\ job[w][e].stage \in {"claimed", "ready"} => job[w][e].attempts > 1

\* No dispatch is attempted sooner than its provider asked, unless the user
\* retries it or a statement or the worker has failed: the catch block does not
\* know what the provider asked.
ProviderHintHonoured ==
    \A w \in Worker, d \in Dispatch :
        job[w][d].stage \in {"claimed", "ready"} /\ budget.faults = MaxFaults
            => hist[d].notBefore <= now

\* Every stored dispatch is settled in the end (or deleted with its
\* destination), however its sends, its statements and its worker fail.
EventuallySettled ==
    \A d \in Dispatch :
        row[d].status = "pending" ~> row[d].status \in Terminal \cup {"gone"}

\* The dispatches table as its ledger sees it.
Ledger == INSTANCE DispatchLedger WITH
    status   <- [d \in Dispatch |-> row[d].status],
    accepted <- [d \in Dispatch |-> hist[d].acked]

ImplementsLedger == Ledger!LedgerSpec
=============================================================================
