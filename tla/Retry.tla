------------------------------- MODULE Retry -------------------------------
(***************************************************************************)
(* The retry policy of the dispatcher (src/web/src/lib/retry.ts): pure     *)
(* functions of the attempt counter, the provider's rate-limit headers and *)
(* the failure code a sender returns.                                      *)
(*                                                                         *)
(* Data abstraction.  A header value is a record that says what the parser *)
(* can tell of it: absent, a whole number of seconds, a date (given as the *)
(* whole seconds that remain until it, negative once passed) or text it    *)
(* cannot read.  X-RateLimit-Reset-After is a decimal number, kept in      *)
(* tenths of a second.  A failure code is a provider's HTTP status or one  *)
(* of the codes that senders spell out by name.                            *)
(***************************************************************************)
EXTENDS Integers, FiniteSetsExt

MAX_RETRY_DELAY_SEC == 3600

\* Exponential backoff of the n-th attempt, from one minute up to the cap.
BackoffSec(attempts) ==
    Min({MAX_RETRY_DELAY_SEC, 60 * 5 ^ Max({0, attempts - 1})})

NoHint == 0

Absent == [kind |-> "absent"]
Header(kind, n) == [kind |-> kind, n |-> n]

\* Retry-After in seconds from now, the empty set standing for null.  A date
\* that has passed is 0.
ParseRetryAfterSec(value) ==
    CASE value.kind = "seconds" -> {value.n}
      [] value.kind = "date"    -> {Max({0, value.n})}
      [] OTHER                  -> {}

\* Mutant: fractions of a second are cut off.
FloorTenths(n) == n \div 10

\* Math.ceil of a number of tenths.
CeilTenths(n) == (n + 9) \div 10

\* X-RateLimit-Reset-After, when it is a positive number.
ResetSec(value) ==
    IF value.kind = "tenths" /\ value.n > 0 THEN {CeilTenths(value.n)} ELSE {}

\* The larger of the two headers of a 429 answer, NoHint when neither helps.
RetryAfterHintSec(status, retryAfter, reset) ==
    IF status = 429
    THEN Max({NoHint} \cup ParseRetryAfterSec(retryAfter) \cup ResetSec(reset))
    ELSE NoHint

\* Delay before the next attempt: the backoff, stretched by the hint, capped.
RetryDelaySec(attempts, retryAfterSec) ==
    LET base == BackoffSec(attempts)
    IN  IF retryAfterSec <= 0
        THEN base
        ELSE Min({MAX_RETRY_DELAY_SEC, Max({base, retryAfterSec})})

Http(status) == [kind |-> "http", status |-> status]
Named(name)  == [kind |-> "named", name |-> name]

\* Mutant: every 4xx answer is final.
IsPermanentFailureOrLimit(code) ==
    \/ code.kind = "http"  /\ code.status \in 400 .. 499
    \/ code.kind = "named" /\ code.name \in {"sink-incomplete", "decrypt-failed",
                                             "ssrf-blocked", "EAUTH", "EENVELOPE"}

\* The failures that will not fix themselves; 429 is transient by definition.
IsPermanentFailure(code) ==
    \/ code.kind = "http"  /\ code.status \in (400 .. 499) \ {429}
    \/ code.kind = "named" /\ code.name \in {"sink-incomplete", "decrypt-failed",
                                             "ssrf-blocked", "EAUTH", "EENVELOPE"}
=============================================================================
