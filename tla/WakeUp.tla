------------------------------- MODULE WakeUp -------------------------------
(***************************************************************************)
(* The work loop of the worker (src/web/src/worker/index.ts) and the kicks *)
(* that end its idle sleep: NOTIFYs that the web sends (lib/db/notify.ts,  *)
(* lib/hooks/ingest.ts) and the worker's listener turns into the           *)
(* resolution of a promise (worker/notify.ts).                             *)
(*                                                                         *)
(* A piece of work is a feed to poll or a dispatch to deliver, in one spell*)
(* of being due.  It falls due in one of three ways: by the clock, in a    *)
(* transaction that carries its own NOTIFY ("inside"), or in a transaction *)
(* of the API whose handler sends the NOTIFY on another connection, without*)
(* waiting for either to finish ("beside").                                *)
(***************************************************************************)
EXTENDS Integers, FiniteSets

CONSTANTS
    Work,           \* pieces of work
    KindOf,         \* Work -> {"poll", "dispatch"}
    AnnouncedBy,    \* Work -> {"clock", "inside", "beside"}
    PollBatch,      \* POLL_BATCH_SIZE
    DispatchBatch,  \* DISPATCH_BATCH_SIZE
    MaxFaults       \* bound: failed rounds, abandoned work, lost notes, crashes

ASSUME WakeUpAssumption ==
    /\ IsFiniteSet(Work)
    /\ KindOf \in [Work -> {"poll", "dispatch"}]
    /\ AnnouncedBy \in [Work -> {"clock", "inside", "beside"}]
    /\ PollBatch \in Nat \ {0} /\ DispatchBatch \in Nat \ {0}
    /\ MaxFaults \in Nat

VARIABLES
    phase,   \* where the work loop stands
    did,     \* didPoll || didDispatch of this round, as far as it is known
    work,    \* [Work -> WorkState]
    note,    \* [Work -> NoteState]: the NOTIFY that goes with the work
    waits,   \* [Work -> Nat]: idle sleeps begun while it was due; history
    faults   \* faults left

vars == <<phase, did, work, note, waits, faults>>

\* poll, dispatch  about to await pollDueFeeds, dispatchPending
\* decide          both have answered
\* asleep          in sleepUntilKickOrMs
\* recovering      in the sleep after an error, which no kick ends
\* down            the process is gone
Phase == {"poll", "dispatch", "decide", "asleep", "recovering", "down"}

\* open: the transaction has run its statement and has not committed yet
WorkState == {"absent", "open", "due", "done"}
NoteState == {"unsent", "flying", "heard", "lost"}

TypeOK ==
    /\ phase \in Phase
    /\ did \in BOOLEAN
    /\ work \in [Work -> WorkState]
    /\ note \in [Work -> NoteState]
    /\ waits \in [Work -> Nat]
    /\ faults \in Nat

Init ==
    /\ phase = "poll"
    /\ did = FALSE
    /\ work = [x \in Work |-> "absent"]
    /\ note = [x \in Work |-> "unsent"]
    /\ waits = [x \in Work |-> 0]
    /\ faults = MaxFaults

Due == {x \in Work : work[x] = "due"}
DueOf(kind) == {x \in Due : KindOf[x] = kind}

Fails == faults > 0 /\ faults' = faults - 1

-----------------------------------------------------------------------------
(* How work falls due and is announced.                                    *)

FallDue(x) ==
    /\ work[x] = "absent" /\ AnnouncedBy[x] = "clock"
    /\ work' = [work EXCEPT ![x] = "due"]
    /\ UNCHANGED <<phase, did, note, waits, faults>>

\* PostgreSQL delivers a NOTIFY of a transaction once it has committed.
CommitWithNote(x) ==
    /\ work[x] = "absent" /\ AnnouncedBy[x] = "inside"
    /\ work' = [work EXCEPT ![x] = "due"]
    /\ note' = [note EXCEPT ![x] = "flying"]
    /\ UNCHANGED <<phase, did, waits, faults>>

\* The handler of an API route has run its UPDATE inside withUser.
Open(x) ==
    /\ work[x] = "absent" /\ AnnouncedBy[x] = "beside"
    /\ work' = [work EXCEPT ![x] = "open"]
    /\ UNCHANGED <<phase, did, note, waits, faults>>

\* withUser commits when the handler returns.  Nobody waits for the NOTIFY.
Commit(x) ==
    /\ work[x] = "open"
    /\ work' = [work EXCEPT ![x] = "due"]
    /\ UNCHANGED <<phase, did, note, waits, faults>>

\* `void notifyDispatchesChanged()` on a connection of its own.
Notify(x) ==
    /\ work[x] # "absent" /\ AnnouncedBy[x] = "beside" /\ note[x] = "unsent"
    /\ note' = [note EXCEPT ![x] = "flying"]
    /\ UNCHANGED <<phase, did, work, waits, faults>>

\* The NOTIFY fails (which the web swallows) or the listener is not connected.
NoteIsLost(x) ==
    /\ note[x] = "flying"
    /\ Fails
    /\ note' = [note EXCEPT ![x] = "lost"]
    /\ UNCHANGED <<phase, did, work, waits>>

\* kick(): resolve the current promise and roll in a fresh one.  Only a loop
\* that is asleep holds the promise which is resolved.
Kick(x) ==
    /\ note[x] = "flying"
    /\ note' = [note EXCEPT ![x] = IF phase = "down" THEN "lost" ELSE "heard"]
    /\ phase' = IF phase = "asleep" THEN "poll" ELSE phase
    /\ UNCHANGED <<did, work, waits, faults>>

-----------------------------------------------------------------------------
(* The work loop.                                                          *)

\* One batch of due work of a kind, as much as there is up to the batch size.
Batches(kind, size) ==
    {B \in SUBSET DueOf(kind) :
        IF Cardinality(DueOf(kind)) <= size THEN B = DueOf(kind) ELSE Cardinality(B) = size}

\* The batch is done with, but for work that not even a failure could be
\* recorded of: it stays due.
Finish(B) ==
    \E left \in SUBSET B :
        /\ IF left = {} THEN UNCHANGED faults ELSE Fails
        /\ work' = [x \in Work |-> IF x \in B \ left THEN "done" ELSE work[x]]

PollDueFeeds ==
    /\ phase = "poll"
    /\ \E B \in Batches("poll", PollBatch) : Finish(B) /\ did' = (B # {})
    /\ phase' = "dispatch"
    /\ UNCHANGED <<note, waits>>

\* Mutant: the answer of the poller is overwritten.
DispatchAndForgetPoll ==
    /\ phase = "dispatch"
    /\ \E B \in Batches("dispatch", DispatchBatch) : Finish(B) /\ did' = (B # {})
    /\ phase' = "decide"
    /\ UNCHANGED <<note, waits>>

DispatchPending ==
    /\ phase = "dispatch"
    /\ \E B \in Batches("dispatch", DispatchBatch) : Finish(B) /\ did' = (did \/ B # {})
    /\ phase' = "decide"
    /\ UNCHANGED <<note, waits>>

\* A query of the round throws.
RoundFails ==
    /\ phase \in {"poll", "dispatch"}
    /\ Fails
    /\ phase' = "recovering"
    /\ UNCHANGED <<did, work, note, waits>>

GoOn ==
    /\ phase = "decide" /\ did
    /\ phase' = "poll"
    /\ UNCHANGED <<did, work, note, waits, faults>>

\* Nothing was done: take the current promise and wait for it or the timer.
Sleep ==
    /\ phase = "decide" /\ ~did
    /\ phase' = "asleep"
    /\ waits' = [x \in Work |-> IF x \in Due THEN waits[x] + 1 ELSE waits[x]]
    /\ UNCHANGED <<did, work, note, faults>>

\* Mutant: nothing but a kick ends the idle sleep.
RecoverOnly ==
    /\ phase = "recovering"
    /\ phase' = "poll"
    /\ UNCHANGED <<did, work, note, waits, faults>>

\* IDLE_SLEEP_MS or ERROR_SLEEP_MS have passed.
Timeout ==
    /\ phase \in {"asleep", "recovering"}
    /\ phase' = "poll"
    /\ UNCHANGED <<did, work, note, waits, faults>>

Crash ==
    /\ phase # "down"
    /\ Fails
    /\ phase' = "down"
    /\ UNCHANGED <<did, work, note, waits>>

Restart ==
    /\ phase = "down"
    /\ phase' = "poll"
    /\ UNCHANGED <<did, work, note, waits, faults>>

Loop == PollDueFeeds \/ DispatchPending \/ GoOn \/ Sleep \/ Timeout \/ Restart

Next ==
    \/ Loop \/ RoundFails \/ Crash
    \/ \E x \in Work : \/ FallDue(x) \/ CommitWithNote(x) \/ Open(x) \/ Commit(x)
                       \/ Notify(x) \/ NoteIsLost(x) \/ Kick(x)

Spec == Init /\ [][Next]_vars

\* The loop and its timers go on, and compose restarts the process.  Nothing
\* is assumed of transactions and notifications.
FairSpec == Spec /\ WF_vars(Loop)

-----------------------------------------------------------------------------
(* Properties.                                                             *)

\* Work that is due sits through at most one idle sleep: the loop sleeps only
\* after a round that found nothing, however many kicks it misses and however
\* large the backlog is.
AtMostOneIdleSleep == \A x \in Due : waits[x] <= 1

\* Due work is done in the end, even if every notification is lost.
EventuallyDone == \A x \in Work : work[x] = "due" ~> work[x] = "done"
=============================================================================
