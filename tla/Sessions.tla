------------------------------ MODULE Sessions ------------------------------
(***************************************************************************)
(* The sessions of one user: login, logout, the change of the password by  *)
(* the user or by an admin, the check that every request makes, expiry and *)
(* the sweep (src/web/src/lib/auth, src/web/src/app/api/auth and           *)
(* src/web/src/worker/maintenance.ts).                                     *)
(*                                                                         *)
(* A session has two ends that must agree: the JWT in the cookie, with the *)
(* second iat in which it was minted, and its row in web_sessions.  A      *)
(* password change kills both, the JWT by password_changed_at, which is    *)
(* compared with iat by the second.  One action is one SQL statement.      *)
(* Passwords are numbered; pw is the one whose hash is committed.          *)
(***************************************************************************)
EXTENDS RateLimit

CONSTANTS
    Session,     \* logins, each with the session it makes
    Change,      \* password changes, by the user or an admin
    Ttl,         \* SESSION_TTL_SECONDS
    MaxNow,      \* bound: the clock
    MaxTries     \* bound: attempts to log in

ASSUME SessionsAssumption ==
    /\ Ttl \in Nat \ {0} /\ {MaxNow, MaxTries} \subseteq Nat
    /\ "none" \notin Change

VARIABLES
    user,     \* the row of the user
    sess,     \* [Session -> Sess]
    change,   \* [Change -> Chg]
    check,    \* [Session -> Chk]: a request of the session, in checkSessionLive
    tries,    \* attempts to log in left
    wipes,    \* DELETEs run by password changes; history
    rewound   \* password_changed_at was moved back; history

authVars == <<user, sess, change, check, tries, wipes, rewound>>
vars == <<now, bucket, grants, user, sess, change, check, tries, wipes, rewound>>

\* holder: the change whose transaction has updated the row and not committed
\* wipe, since: the number of its DELETE and the begin of the last change that
\* committed; history
User == [present : BOOLEAN, pw : Nat, changed : Nat, holder : Change \cup {"none"},
         wipe : Nat, since : Nat]

\* read    the login has read the hash, password_hash number pw
\* minted  it has verified the password and minted the JWT
\* open    the row is in web_sessions and the cookie is set
\* closed  the row is gone, or never came to be
Sess == [pc : {"idle", "read", "minted", "open", "closed"}, pw : Nat, iat : Nat,
         expires : Nat, wipes : Nat]
NoSess == [pc |-> "idle", pw |-> 0, iat |-> 0, expires |-> 0, wipes |-> 0]

\* begun    the transaction has begun: start is its now()
\* updated  the UPDATE holds the row of the user
\* wiped    the sessions are deleted; wipe is the number of that DELETE
Chg == [pc : {"idle", "begun", "updated", "wiped", "done"}, start : Nat, wipe : Nat]
NoChg == [pc |-> "idle", start |-> 0, wipe |-> 0]

\* half: the row of the user was found in order; wasLive: so was all the rest
Chk == [half : BOOLEAN, wasLive : BOOLEAN]
NoChk == [half |-> FALSE, wasLive |-> FALSE]

TypeOK ==
    /\ LimitTypeOK
    /\ user \in User
    /\ sess \in [Session -> Sess]
    /\ change \in [Change -> Chg]
    /\ check \in [Session -> Chk]
    /\ {tries, wipes} \subseteq Nat
    /\ rewound \in BOOLEAN
    /\ \A c \in Change : user.holder = c <=> change[c].pc \in {"updated", "wiped"}

Init ==
    /\ LimitInit
    /\ user = [present |-> TRUE, pw |-> 0, changed |-> 0, holder |-> "none",
               wipe |-> 0, since |-> 0]
    /\ sess = [s \in Session |-> NoSess]
    /\ change = [c \in Change |-> NoChg]
    /\ check = [s \in Session |-> NoChk]
    /\ tries = MaxTries
    /\ wipes = 0
    /\ rewound = FALSE

Expired(s) == sess[s].expires < now

\* The user exists, the JWT was not minted in a second before the change of
\* the password, and its row is there and has not expired.
Live(s) == /\ user.present
           /\ user.changed <= sess[s].iat
           /\ sess[s].pc = "open" /\ ~Expired(s)

-----------------------------------------------------------------------------
(* POST /api/auth/login, logout.                                           *)

\* The limiter comes first; then the user is looked up.  A wrong password, or
\* a user who is gone, ends it here.
LoginRead(s) ==
    /\ sess[s].pc = "idle"
    /\ tries > 0 /\ tries' = tries - 1
    /\ HitAll(Key)
    /\ \/ /\ AllGranted(Key) /\ user.present
          /\ sess' = [sess EXCEPT ![s].pc = "read", ![s].pw = user.pw]
       \/ UNCHANGED sess
    /\ UNCHANGED <<now, user, change, check, wipes, rewound>>

\* verifyPassword, against the hash that was read, and mintSession
Mint(s) ==
    /\ sess[s].pc = "read"
    /\ sess' = [sess EXCEPT ![s].pc = "minted", ![s].iat = now]
    /\ UNCHANGED <<now, limitVars, user, change, check, tries, wipes, rewound>>

\* The INSERT, which the foreign key refuses if the user is gone.
Insert(s) ==
    /\ sess[s].pc = "minted"
    /\ sess' = [sess EXCEPT ![s].pc = IF user.present THEN "open" ELSE "closed",
                            ![s].expires = now + Ttl, ![s].wipes = wipes]
    /\ UNCHANGED <<now, limitVars, user, change, check, tries, wipes, rewound>>

\* The DELETE may fail, which the handler swallows; the browser forgets the
\* cookie in either case.
Logout(s) ==
    /\ sess[s].pc = "open"
    /\ sess' = [sess EXCEPT ![s].pc = "closed"]
    /\ UNCHANGED <<now, limitVars, user, change, check, tries, wipes, rewound>>

-----------------------------------------------------------------------------
(* checkSessionLive: two SELECTs, one after the other.                     *)

\* The mutant leaves password_changed_at to the routes that read the user.
UserExists(s) == user.present

UserInOrder(s) == user.present /\ user.changed <= sess[s].iat
RowInOrder(s) == sess[s].pc = "open" /\ ~Expired(s)

CheckUser(s) ==
    /\ sess[s].pc \in {"open", "closed"}
    /\ ~check[s].half
    /\ UserInOrder(s)
    /\ check' = [check EXCEPT ![s] = [half |-> TRUE, wasLive |-> Live(s)]]
    /\ UNCHANGED <<now, limitVars, user, sess, change, tries, wipes, rewound>>

CheckRow(s) ==
    /\ check[s].half
    /\ check' = [check EXCEPT ![s] = NoChk]
    /\ UNCHANGED <<now, limitVars, user, sess, change, tries, wipes, rewound>>

Passes(s) == CheckRow(s) /\ RowInOrder(s)

-----------------------------------------------------------------------------
(* POST /api/auth/change-password, PATCH /api/users/[id] with a password.  *)

\* The current password is verified (or an admin is let in) and the new one
\* hashed; then the transaction begins, with its now().
BeginChange(c) ==
    /\ change[c].pc = "idle"
    /\ change' = [change EXCEPT ![c].pc = "begun", ![c].start = now]
    /\ UNCHANGED <<now, limitVars, user, sess, check, tries, wipes, rewound>>

\* The UPDATE waits for a change that holds the row.
UpdateUser(c) ==
    /\ change[c].pc = "begun"
    /\ user.holder = "none"
    /\ user' = [user EXCEPT !.holder = c]
    /\ change' = [change EXCEPT ![c].pc = "updated"]
    /\ UNCHANGED <<now, limitVars, sess, check, tries, wipes, rewound>>

\* DELETE FROM web_sessions: the sessions it sees are gone with the commit.
\* One that is inserted from now on is not among them.
WipeSessions(c) ==
    /\ change[c].pc = "updated"
    /\ wipes' = wipes + 1
    /\ change' = [change EXCEPT ![c].pc = "wiped", ![c].wipe = wipes + 1]
    /\ UNCHANGED <<now, limitVars, user, sess, check, tries, rewound>>

\* What the commit leaves of a session: nothing if the DELETE saw it.
Wiped(s, c) == sess[s].pc = "open" /\ sess[s].wipes < change[c].wipe

\* The mutants: no new password_changed_at, and one that allows for a second
\* of clock skew.
NewUserUnstamped(c) == [user EXCEPT !.pw = @ + 1, !.holder = "none"]
NewUserWithSkew(c) ==
    [user EXCEPT !.pw = @ + 1, !.holder = "none",
                 !.changed = IF change[c].start > 0 THEN change[c].start - 1 ELSE 0]

NewUser(c) ==
    [user EXCEPT !.pw = @ + 1, !.holder = "none", !.changed = change[c].start]

CommitChange(c) ==
    /\ change[c].pc = "wiped"
    /\ user' = IF user.present
               THEN [NewUser(c) EXCEPT !.wipe = change[c].wipe, !.since = change[c].start]
               ELSE [user EXCEPT !.holder = "none"]
    /\ sess' = [s \in Session |-> IF Wiped(s, c) THEN [sess[s] EXCEPT !.pc = "closed"]
                                  ELSE sess[s]]
    /\ rewound' = (rewound \/ change[c].start < user.changed)
    /\ change' = [change EXCEPT ![c].pc = "done"]
    /\ UNCHANGED <<now, limitVars, check, tries, wipes>>

\* DELETE /api/users/[id] cascades to the sessions.  It waits for a change.
DeleteUser ==
    /\ user.present /\ user.holder = "none"
    /\ user' = [user EXCEPT !.present = FALSE]
    /\ sess' = [s \in Session |-> IF sess[s].pc = "open"
                                  THEN [sess[s] EXCEPT !.pc = "closed"] ELSE sess[s]]
    /\ UNCHANGED <<now, limitVars, change, check, tries, wipes, rewound>>

-----------------------------------------------------------------------------
(* runMaintenance.                                                         *)

\* The mutant sweeps a session in the second in which it expires.
SweptEarly(s) == sess[s].pc = "open" /\ sess[s].expires <= now

SweptSession(s) == sess[s].pc = "open" /\ sess[s].expires < now

SweepSessions ==
    /\ \E s \in Session : SweptSession(s)
    /\ sess' = [s \in Session |-> IF SweptSession(s)
                                  THEN [sess[s] EXCEPT !.pc = "closed"] ELSE sess[s]]
    /\ UNCHANGED <<now, limitVars, user, change, check, tries, wipes, rewound>>

SweepLimits ==
    /\ \E k \in Key : bucket[k].count > 0 /\ Swept(bucket[k])
    /\ SweepBuckets
    /\ UNCHANGED <<now, authVars>>

Tick ==
    /\ now < MaxNow
    /\ now' = now + 1
    /\ UNCHANGED <<limitVars, authVars>>

Next ==
    \/ \E s \in Session : \/ LoginRead(s) \/ Mint(s) \/ Insert(s) \/ Logout(s)
                          \/ CheckUser(s) \/ CheckRow(s)
    \/ \E c \in Change : \/ BeginChange(c) \/ UpdateUser(c)
                         \/ WipeSessions(c) \/ CommitChange(c)
    \/ DeleteUser \/ SweepSessions \/ SweepLimits \/ Tick

Spec == Init /\ [][Next]_vars

-----------------------------------------------------------------------------
(* Properties.                                                             *)

\* A session that lives on although the password it was opened with is no
\* longer the user's comes from a login that overlapped the last change: its
\* row was inserted after that change had deleted the others, and its JWT
\* was not minted in an earlier second than the change began.
SurvivorsOverlapped ==
    \A s \in Session :
        Live(s) /\ sess[s].pw # user.pw
        => sess[s].wipes >= user.wipe /\ sess[s].iat >= user.since

\* A session that is dead stays dead, through changes, sweeps and time.  The
\* exception is a change that moved password_changed_at back.
DeadStaysDead ==
    [][\A s \in Session :
          sess[s].pc \in {"open", "closed"} /\ ~Live(s) => ~Live(s)' \/ rewound']_vars

\* Though the check makes two queries, it lets a request in only if the
\* session was live at the first or at the second of them.
ChecksAreSound ==
    [][\A s \in Session : Passes(s) => check[s].wasLive \/ Live(s)]_vars

\* The sweep cannot be noticed: it removes no session that is live, and no
\* bucket that would still refuse a hit.
SweepIsInvisible ==
    [][SweepSessions \/ SweepLimits
       => /\ \A s \in Session : Live(s)' = Live(s)
          /\ \A k \in Key : AllGranted({k})' = AllGranted({k})]_vars
=============================================================================
