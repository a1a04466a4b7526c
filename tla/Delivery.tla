------------------------------ MODULE Delivery ------------------------------
(***************************************************************************)
(* One notification on its way to a provider over HTTP: the attempts of    *)
(* deliverOne (src/web/src/worker/dispatcher.ts) with the policy of Retry, *)
(* and within each the request of publishToNtfy or publishToDiscord, which *)
(* safeFetch (src/web/src/lib/ssrf.ts) makes hop by hop, or the request of *)
(* sendViaResend to its fixed host.                                        *)
(*                                                                         *)
(* A host is not named: what matters of it is how it resolves, and that    *)
(* may change from one lookup to the next.  An IPv4 literal resolves to    *)
(* itself; a local name and a bracketed IPv6 literal do not resolve.       *)
(***************************************************************************)
EXTENDS Retry, Address

CONSTANTS
    MaxAttempts,   \* MAX_ATTEMPTS
    MaxRedirects,  \* maxRedirects
    StatusCode,    \* HTTP statuses of the answers
    HintSeconds,   \* numbers that occur in Retry-After, dates included
    ResetTenths,   \* numbers that occur in X-RateLimit-Reset-After
    Records        \* sets of addresses that a lookup returns

ASSUME DeliveryAssumption ==
    /\ MaxAttempts \in Nat \ {0} /\ MaxRedirects \in Nat
    /\ StatusCode \subseteq 100 .. 599
    /\ HintSeconds \subseteq Int /\ ResetTenths \subseteq Int
    /\ {} \notin Records /\ UNION Records \subseteq IpAddress

VARIABLES
    kind,      \* type of the sink: "guarded" for ntfy and Discord, "resend"
    state,     \* status of the dispatch
    attempts,  \* attempts made so far
    answer,    \* the answer that ended the last attempt
    delay,     \* seconds until the next attempt
    fetch      \* the request under way

deliveryVars == <<kind, state, attempts, answer, delay, fetch>>

Answer == [status : StatusCode,
           retryAfter : {Absent, [kind |-> "garbage"]}
                \cup {Header("date", n) : n \in HintSeconds}
                \cup {Header("seconds", n) : n \in HintSeconds \cap Nat},
           reset : {Absent} \cup {Header("tenths", n) : n \in ResetTenths}]

NoAnswer == [status |-> 0, retryAfter |-> Absent, reset |-> Absent]

RedirectStatuses == {301, 302, 303, 307, 308}

\* request    singleRequest is to resolve the host
\* pinned     and has pinned the connection to the addresses
\* connected  to conn, which is not kept any longer
\* sent       the request is out
\* recheck    a redirect was answered, and its target is validated
\* refused: why the attempt was refused before any answer
Fetch == [pc : {"none", "request", "pinned", "connected", "sent", "recheck"},
          method : {"POST", "GET"}, hop : 0 .. MaxRedirects,
          pinned : {{}} \cup Records, conn : {{}} \cup {{a} : a \in UNION Records},
          refused : {"no", "not ready", "private", "unresolved", "scheme"}]

NoFetch == [pc |-> "none", method |-> "POST", hop |-> 0, pinned |-> {}, conn |-> {},
            refused |-> "no"]

DeliveryInit ==
    /\ kind \in {"guarded", "resend"}
    /\ state = "pending"
    /\ attempts = 0
    /\ answer = NoAnswer
    /\ delay = 0
    /\ fetch = NoFetch

-----------------------------------------------------------------------------
(* The end of an attempt.                                                  *)

Deliver ==
    /\ state' = "sent"
    /\ delay' = 0
    /\ answer' = NoAnswer
    /\ attempts' = attempts + 1

GivesUp(code) == IsPermanentFailure(code) \/ attempts + 1 >= MaxAttempts

\* The mutant does not count the attempts that were rate-limited.
CountedUnlessLimited(a) == IF a.status = 429 THEN attempts ELSE attempts + 1

Counted(a) == attempts + 1

\* The attempt failed with the code; a is what the provider answered, if so.
Fail(code, a) ==
    /\ attempts' = Counted(a)
    /\ answer' = a
    /\ IF GivesUp(code)
       THEN state' = "failed" /\ delay' = 0
       ELSE /\ state' = "pending"
            /\ delay' = RetryDelaySec(attempts',
                            RetryAfterHintSec(a.status, a.retryAfter, a.reset))

\* Of the request is kept what the last attempt is judged by.
Ended(why) ==
    fetch' = IF state' = "pending" THEN NoFetch
             ELSE [NoFetch EXCEPT !.refused = why]

\* SsrfBlockedError.
Block(why) == Fail(Named("ssrf-blocked"), NoAnswer) /\ Ended(why)

\* Another Error of safeFetch or fetch, the deadline among them.
NetworkError == Fail(Named("network"), NoAnswer) /\ Ended("no")

-----------------------------------------------------------------------------
(* An attempt.                                                             *)

\* The claim, and the sender up to its request.
Start ==
    /\ state = "pending"
    /\ state' = "processing"
    /\ answer' = NoAnswer
    /\ delay' = 0
    /\ fetch' = [NoFetch EXCEPT !.pc = IF kind = "resend" THEN "sent" ELSE "request"]
    /\ UNCHANGED <<kind, attempts>>

\* The sink is incomplete or its secret cannot be decrypted.
NotReady(name) ==
    /\ fetch.pc \in {"request", "sent"} /\ fetch.hop = 0
    /\ name \in {"sink-incomplete", "decrypt-failed"}
    /\ Fail(Named(name), NoAnswer)
    /\ Ended("not ready")
    /\ UNCHANGED kind

\* resolveAndValidate: every address has to pass.
Validated(records) == \A a \in records : ~IsPrivateAddress(a)

\* singleRequest up to its request.  The URL of a sink may be of another scheme;
\* that of a redirect has passed.  A host without a name or with a local one is
\* refused unasked, like a private address, of which Records has some; an
\* address family that is unknown counts as unresolved.
Lookup ==
    /\ fetch.pc = "request"
    /\ \/ Block("unresolved")
       \/ fetch.hop = 0 /\ Block("scheme")
       \/ \E records \in Records :
              IF Validated(records)
              THEN /\ fetch' = [fetch EXCEPT !.pc = "pinned", !.pinned = records]
                   /\ UNCHANGED <<state, attempts, answer, delay>>
              ELSE Block("private")
    /\ UNCHANGED kind

\* The lookup that node is given: the pinned addresses of the families it asks
\* for, checked once more.
Usable(want) == {a \in fetch.pinned : a.family \in want /\ ~IsPrivateAddress(a)}

Connect ==
    /\ fetch.pc = "pinned"
    /\ \E want \in {{4}, {6}, {4, 6}} :
           IF Usable(want) = {} THEN NetworkError
           ELSE \E a \in Usable(want) :
                    /\ fetch' = [fetch EXCEPT !.pc = "connected", !.pinned = {},
                                                 !.conn = {a}]
                    /\ UNCHANGED <<state, attempts, answer, delay>>
    /\ UNCHANGED kind

Send ==
    /\ fetch.pc = "connected"
    /\ fetch' = [fetch EXCEPT !.pc = "sent", !.conn = {}]
    /\ UNCHANGED <<kind, state, attempts, answer, delay>>

\* A final answer.  An error in its body goes unnoticed.
Receive(a) ==
    /\ fetch.pc = "sent"
    /\ \/ /\ a.status \in 200 .. 299
          /\ Deliver
       \/ /\ a.status \notin 200 .. 299
          /\ Fail(Http(a.status), a)
    /\ Ended("no")
    /\ UNCHANGED kind

NextMethod(status) ==
    IF status \in {301, 302, 303} THEN "GET" ELSE fetch.method

\* A redirect with a Location: too many, one that is no URL, one of another
\* scheme, or one to be validated.
Redirect(status) ==
    /\ fetch.pc = "sent" /\ kind = "guarded"
    /\ \/ /\ fetch.hop = MaxRedirects
          /\ NetworkError
       \/ /\ fetch.hop < MaxRedirects
          /\ \/ NetworkError
             \/ Block("scheme")
             \/ /\ fetch' = [fetch EXCEPT !.pc = "recheck",
                                          !.method = NextMethod(status)]
                /\ UNCHANGED <<state, attempts, answer, delay>>
    /\ UNCHANGED kind

Recheck ==
    /\ fetch.pc = "recheck"
    /\ \/ Block("unresolved")
       \/ \E records \in Records :
              IF Validated(records)
              THEN /\ fetch' = [fetch EXCEPT !.pc = "request", !.hop = @ + 1]
                   /\ UNCHANGED <<state, attempts, answer, delay>>
              ELSE Block("private")
    /\ UNCHANGED kind

\* The connection fails, or the deadline of the whole request passes.
RequestFails ==
    /\ fetch.pc # "none"
    /\ NetworkError
    /\ UNCHANGED kind

Attempt ==
    \/ Start \/ Lookup \/ Connect \/ Send \/ Recheck \/ RequestFails
    \/ \E name \in {"sink-incomplete", "decrypt-failed"} : NotReady(name)
    \/ \E a \in Answer : Receive(a)
    \/ \E status \in RedirectStatuses : Redirect(status)

\* The dispatcher takes up what is due, and the deadline ends every request.
DeliverySpec == DeliveryInit /\ [][Attempt]_deliveryVars /\ WF_deliveryVars(Attempt)

-----------------------------------------------------------------------------
(* Properties.                                                             *)

DeliveryTypeOK ==
    /\ kind \in {"guarded", "resend"}
    /\ state \in {"pending", "processing", "sent", "failed"}
    /\ (state = "processing") = (fetch.pc # "none")
    /\ attempts \in 0 .. MaxAttempts
    /\ answer \in Answer \cup {NoAnswer}
    /\ delay \in 0 .. MAX_RETRY_DELAY_SEC
    /\ fetch \in Fetch

Waiting == state = "pending" /\ attempts > 0

\* Seconds a header asks for, by its own meaning.
Asked(h) ==
    CASE h.kind \in {"seconds", "date"} -> h.n
      [] h.kind = "tenths" -> (h.n \div 10) + (IF h.n % 10 = 0 THEN 0 ELSE 1)
      [] OTHER -> 0

\* A provider that answers 429 is not asked again before either of its two
\* headers allows it, up to the cap of one hour.
ProviderIsGivenItsTime ==
    Waiting /\ answer.status = 429 =>
        \A h \in {answer.retryAfter, answer.reset} :
            delay >= Min({MAX_RETRY_DELAY_SEC, Asked(h)})

\* No connection is made to an address of a reserved network, whatever the
\* lookups answer at each of the hops and by whichever notation the address is
\* given.
ConnectedIsPublic == \A a \in fetch.conn : ~Reserved(a)

\* A notification is given up before its last attempt only if the provider
\* blames the request, the sink cannot be used as it is, or the guard refuses
\* the target: never for a rate limit, an error of the provider or a failed
\* connection.
GivesUpOnlyForCause ==
    state = "failed" /\ attempts < MaxAttempts =>
        answer.status \in (400 .. 499) \ {429} \/ fetch.refused # "no"

\* As the list of permanent failures has it: the guard ends a notification for
\* good only if it points at a private address (or leaves HTTP).
BlockedIsPrivate ==
    state = "failed" /\ attempts < MaxAttempts => fetch.refused # "unresolved"

\* Every notification is sent or given up in the end, however its provider
\* answers, redirects or stays silent.
EveryDispatchEnds == <>(state \in {"sent", "failed"})
=============================================================================
