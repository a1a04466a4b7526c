-------------------------------- MODULE Hooks --------------------------------
(***************************************************************************)
(* The public webhook endpoint POST /api/hooks/<token>                     *)
(* (src/web/src/lib/hooks/handler.ts): concurrent requests against three   *)
(* limiter stores, with an await at the token lookup, at the body and at   *)
(* the insert.                                                             *)
(*                                                                         *)
(* A request reserves a slot of its IP and one of the process-wide budget  *)
(* for lookups before the lookup, and gives both back if the token belongs *)
(* to an enabled feed.  An action runs from one await to the next, as the  *)
(* event loop of the one web process does; the answer of the lookup is     *)
(* read in the action that goes on with it.                                *)
(***************************************************************************)
EXTENDS HookLimiter

CONSTANTS
    Ip, Feed, User, Token,
    Owner,         \* [Feed -> User]
    FirstToken,    \* [Feed -> Token]
    IpLimit,       \* PER_IP_BAD
    LookupLimit,   \* LOOKUP_BUDGET
    FeedLimit,     \* PER_FEED
    UserLimit,     \* PER_USER
    MaxIps,        \* MAX_KEYS of untrustedLimiter
    MaxTrusted,    \* MAX_KEYS of trustedLimiter
    MaxNow         \* bound: the clock

ASSUME HooksAssumption ==
    /\ Owner \in [Feed -> User]
    /\ FirstToken \in [Feed -> Token]
    /\ {IpLimit, LookupLimit, FeedLimit, UserLimit, MaxIps, MaxTrusted} \subseteq Nat \ {0}
    /\ MaxNow \in Nat

VARIABLES
    now,      \* Date.now()
    ips,      \* untrustedLimiter
    budget,   \* lookupBudget
    trusted,  \* trustedLimiter
    req,      \* [Request -> Req]
    feed      \* [Feed -> FeedRow]: the webhook feeds in the database

vars == <<now, ips, budget, trusted, req, feed>>

Never == 0 - 1

InFlight == {"lookup", "body", "ingest"}

\* What became of a request: limited by the store named, not found, failed
\* in the lookup, let through and refused (413, 400), stored or not (500).
Answered == {"ipLimited", "malformed", "budgetLimited", "notFound", "threw",
             "feedLimited", "userLimited", "refused", "stored", "notStored"}

\* ip and token are kept until the lookup is over.
\* window: the start of the window of the budget that it was counted in
\* through: when it passed the limits of the feed and the user
Req == [pc : {"idle"} \cup InFlight \cup Answered, ip : Ip \cup {"none"},
        token : Token \cup {"none"}, feed : Feed \cup {"none"},
        window : Nat \cup {Never}, through : Nat \cup {Never}]
NoReq == [pc |-> "idle", ip |-> "none", token |-> "none", feed |-> "none",
          window |-> Never, through |-> Never]

FeedRow == [row : {"on", "off", "deleted"}, token : Token]

TypeOK ==
    /\ now \in Nat
    /\ IsStore(ips, Ip) /\ IsStore(budget, {"lookups"}) /\ IsStore(trusted, Feed \cup User)
    /\ req \in [Request -> Req]
    /\ feed \in [Feed -> FeedRow]

Init ==
    /\ now = 0
    /\ ips = <<>> /\ budget = <<>> /\ trusted = <<>>
    /\ req = [r \in Request |-> NoReq]
    /\ feed = [f \in Feed |-> [row |-> "on", token |-> FirstToken[f]]]

-----------------------------------------------------------------------------
(* handleHook.                                                             *)

Becomes(r, pc) == req' = [req EXCEPT ![r].pc = pc, ![r].ip = "none", ![r].token = "none"]

BudgetLeft(r) == WithinLimit(budget, 1, r, "lookups", now, LookupLimit)

\* The mutant answers 429 and keeps the slot of the IP.
NoBudgetKeepIp(r, ip) == ips' = AfterHit(ips, MaxIps, r, ip, now)

\* 429 for want of budget: the slot of the IP is given back at once.
NoBudget(r, ip) == ips' = AfterRefund(AfterHit(ips, MaxIps, r, ip, now), r, ip, now)

\* From the arrival to the await of findFeed.
Arrive(r, ip, token) ==
    /\ req[r].pc = "idle"
    /\ \/ /\ ~WithinLimit(ips, MaxIps, r, ip, now, IpLimit)
          /\ Becomes(r, "ipLimited")
          /\ ips' = AfterHit(ips, MaxIps, r, ip, now)
          /\ UNCHANGED budget
       \/ /\ WithinLimit(ips, MaxIps, r, ip, now, IpLimit)
          /\ token = "none"
          /\ Becomes(r, "malformed")
          /\ ips' = AfterHit(ips, MaxIps, r, ip, now)
          /\ UNCHANGED budget
       \/ /\ WithinLimit(ips, MaxIps, r, ip, now, IpLimit)
          /\ token # "none"
          /\ budget' = AfterHit(budget, 1, r, "lookups", now)
          /\ IF BudgetLeft(r)
             THEN /\ req' = [req EXCEPT ![r] = [@ EXCEPT !.pc = "lookup", !.ip = ip,
                                      !.token = token, !.window = budget'[1].start]]
                  /\ ips' = AfterHit(ips, MaxIps, r, ip, now)
             ELSE /\ Becomes(r, "budgetLimited")
                  /\ NoBudget(r, ip)
    /\ UNCHANGED <<now, trusted, feed>>

\* findWebhookFeed: the feed with this token.
Found(r) == {f \in Feed : feed[f].row # "deleted" /\ feed[f].token = req[r].token}

GiveBack(r) ==
    /\ ips' = AfterRefund(ips, r, req[r].ip, now)
    /\ budget' = AfterRefund(budget, r, "lookups", now)

\* The slots of a lookup that missed.  The mutant gives them back.
KeepSlots(r) == UNCHANGED <<ips, budget>>

\* Unknown or disabled: 404.  If the query fails, nothing catches it in the
\* handler.  Both slots stay counted.
LookupMisses(r) ==
    /\ req[r].pc = "lookup"
    /\ \/ /\ \A f \in Found(r) : feed[f].row = "off"
          /\ Becomes(r, "notFound")
       \/ Becomes(r, "threw")
    /\ KeepSlots(r)
    /\ UNCHANGED <<now, trusted, feed>>

\* From the answer of findFeed to the await of the body: both slots are given
\* back, then the request counts against the feed, then against the user.
LookupFinds(r) ==
    /\ req[r].pc = "lookup"
    /\ \E f \in Found(r) :
          LET owner == Owner[f]
              counted == AfterHit(trusted, MaxTrusted, r, f, now)
              found == [req[r] EXCEPT !.feed = f, !.ip = "none",
                                         !.token = "none", !.window = Never]
          IN  /\ feed[f].row = "on"
              /\ GiveBack(r)
              /\ IF ~WithinLimit(trusted, MaxTrusted, r, f, now, FeedLimit)
                 THEN /\ trusted' = counted
                      /\ req' = [req EXCEPT ![r] = [found EXCEPT !.pc = "feedLimited"]]
                 ELSE /\ trusted' = AfterHit(counted, MaxTrusted, r, owner, now)
                      /\ req' = [req EXCEPT ![r] =
                            IF WithinLimit(counted, MaxTrusted, r, owner, now, UserLimit)
                            THEN [found EXCEPT !.pc = "body", !.through = now]
                            ELSE [found EXCEPT !.pc = "userLimited"]]
    /\ UNCHANGED <<now, feed>>

\* readBodyLimited and normalizeHook: too large, unusable or empty is refused.
ReadBody(r) ==
    /\ req[r].pc = "body"
    /\ Becomes(r, "ingest") \/ Becomes(r, "refused")
    /\ UNCHANGED <<now, ips, budget, trusted, feed>>

\* ingestItem, which has the feed as it was at the lookup.  The INSERT fails
\* on a feed that is gone, and may fail for another reason.
Ingest(r) ==
    /\ req[r].pc = "ingest"
    /\ \/ feed[req[r].feed].row # "deleted" /\ Becomes(r, "stored")
       \/ Becomes(r, "notStored")
    /\ UNCHANGED <<now, ips, budget, trusted, feed>>

-----------------------------------------------------------------------------
(* PATCH and DELETE /api/feeds/[id], POST .../regenerate-token.            *)

SetFeed(f, row) ==
    /\ feed[f].row # "deleted" /\ feed[f].row # row
    /\ feed' = [feed EXCEPT ![f].row = row]
    /\ UNCHANGED <<now, ips, budget, trusted, req>>

\* A random token: one that no feed has.
RegenerateToken(f, token) ==
    /\ feed[f].row # "deleted"
    /\ \A g \in Feed : token # FirstToken[g] /\ token # feed[g].token
    /\ feed' = [feed EXCEPT ![f].token = token]
    /\ UNCHANGED <<now, ips, budget, trusted, req>>

Tick ==
    /\ now < MaxNow
    /\ now' = now + 1
    /\ UNCHANGED <<ips, budget, trusted, req, feed>>

Next ==
    \/ \E r \in Request :
          \/ \E ip \in Ip, token \in Token \cup {"none"} : Arrive(r, ip, token)
          \/ LookupMisses(r) \/ LookupFinds(r) \/ ReadBody(r) \/ Ingest(r)
    \/ \E f \in Feed : \/ \E row \in {"on", "off", "deleted"} : SetFeed(f, row)
                       \/ \E token \in Token : RegenerateToken(f, token)
    \/ Tick

Spec == Init /\ [][Next]_vars

-----------------------------------------------------------------------------
(* Properties.                                                             *)

LookedUp == {"lookup", "notFound", "threw"}

OpenBuckets(st) == {st[i] : i \in {j \in DOMAIN st : ~IsOver(st[j], now)}}

\* The budget does its work although slots are reserved before an await and
\* given back after it: the lookups of a window that are still running or
\* have missed are never more than the limit, apart from the slots given
\* back in this window by lookups that began in an earlier one.
LookupsAreBounded ==
    \A b \in OpenBuckets(budget) :
        Cardinality({r \in Request : /\ req[r].pc \in LookedUp
                                     /\ req[r].window = b.start})
            <= LookupLimit + b.foreign

\* A request with a good token costs its IP and the budget nothing once the
\* token is known to be good: what a bucket counts is no more than the
\* requests that are being looked up, have missed or failed, or were turned
\* away at that very bucket.
OnlyDebtsAreCounted ==
    /\ \A b \in OpenBuckets(ips) :
          b.count <= Cardinality({r \in b.held :
                                     req[r].pc \in LookedUp \cup {"malformed", "ipLimited"}})
    /\ \A b \in OpenBuckets(budget) :
          b.count <= Cardinality({r \in b.held :
                                     req[r].pc \in LookedUp \cup {"budgetLimited"}})

\* An entry of a Map is younger than the entries before it, so that eviction
\* takes the oldest windows, of which there are never more than the cap.
OldestFirst ==
    /\ \A st \in {ips, trusted} : \A i, j \in DOMAIN st :
          i < j => st[i].start <= st[j].start /\ st[i].key # st[j].key
    /\ Len(ips) <= MaxIps /\ Len(trusted) <= MaxTrusted

\* A window starts with its first hit, so that a stretch of time of the same
\* length, which may touch two of them, lets less than twice the limit
\* through to a feed, or to all the feeds of a user.
LessThanTwiceThrough ==
    \A t \in 0 .. now :
        LET recent == {r \in Request : t <= req[r].through /\ req[r].through < t + Window}
        IN  /\ \A f \in Feed : Cardinality({r \in recent : req[r].feed = f}) < 2 * FeedLimit
            /\ \A u \in User : Cardinality({r \in recent : /\ req[r].feed \in Feed
                                                           /\ Owner[req[r].feed] = u})
                                   < 2 * UserLimit
=============================================================================
