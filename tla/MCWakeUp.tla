------------------------------ MODULE MCWakeUp ------------------------------
(* Four pieces of work: every way to fall due, and a backlog of two feeds.  *)
EXTENDS WakeUp

CONSTANTS feed1, feed2, hook, retry

MCKindOf == [x \in Work |-> IF x \in {feed1, feed2} THEN "poll" ELSE "dispatch"]

MCAnnouncedBy ==
    [x \in Work |-> CASE x = hook  -> "inside"
                      [] x \in {feed2, retry} -> "beside"
                      [] OTHER     -> "clock"]
=============================================================================
