--------------------------- MODULE SessionsProofs ---------------------------
(***************************************************************************)
(* Theorems about Sessions, for any number of logins, sessions and         *)
(* password changes and any limits and times: what a change kills is dead, *)
(* a check is sound although it makes two queries, and the sweep cannot be *)
(* noticed.                                                                *)
(***************************************************************************)
EXTENDS Sessions, FiniteSetTheorems, TLAPS

\* password_changed_at is the begin of the last change that committed.
Stamped == user.changed = user.since

\* The DELETEs are counted, and those of the changes are among them.
Counted == user.wipe <= wipes /\ \A c \in Change : change[c].wipe <= wipes

\* A row that is still there was inserted after the last change that committed
\* had deleted the others.
Spared ==
    user.present => \A s \in Session : sess[s].pc = "open" => sess[s].wipes >= user.wipe

\* If the first query of a check has found a session that was not live, its
\* row was not in order, and will not be.
Sound(s) ==
    check[s].half => /\ sess[s].pc \in {"open", "closed"}
                     /\ check[s].wasLive \/ ~RowInOrder(s)

\* The inductive invariant.
IInv == TypeOK /\ Stamped /\ Counted /\ Spared /\ \A s \in Session : Sound(s)
-----------------------------------------------------------------------------
(* Time and rows only go one way.                                          *)

LEMMA Types ==
    ASSUME TypeOK
    PROVE  /\ now \in Nat /\ Ttl \in Nat /\ {tries, wipes} \subseteq Nat /\ rewound \in BOOLEAN
           /\ \A s \in Session : /\ sess[s] \in Sess /\ check[s] \in Chk
                                 /\ {sess[s].pw, sess[s].iat, sess[s].expires,
                                     sess[s].wipes} \subseteq Nat
           /\ \A c \in Change : /\ change[c] \in Chg
                                /\ {change[c].start, change[c].wipe} \subseteq Nat
           /\ {user.pw, user.changed, user.wipe, user.since} \subseteq Nat
           /\ user.present \in BOOLEAN /\ user.holder \in Change \cup {"none"}
BY SessionsAssumption DEF TypeOK, LimitTypeOK, Sess, Chk, Chg, User

\* What the steps do to the rows: a row in web_sessions is only ever deleted.
Onward ==
    /\ now' >= now
    /\ \A s \in Session : sess[s].pc \in {"open", "closed"} =>
          /\ sess'[s].pc \in {"open", "closed"}
          /\ sess[s].pc = "closed" => sess'[s].pc = "closed"
          /\ sess'[s].iat = sess[s].iat /\ sess'[s].expires = sess[s].expires
          /\ sess'[s].wipes = sess[s].wipes

LEMMA OnwardKeepsOutOfOrder ==
    ASSUME TypeOK, TypeOK', Onward, NEW s \in Session, sess[s].pc \in {"open", "closed"},
           ~RowInOrder(s)
    PROVE  ~RowInOrder(s)'
<1>1. /\ now \in Nat /\ now' \in Nat /\ sess[s].expires \in Nat
  BY DEF TypeOK, LimitTypeOK, Sess
<1>2. now' >= now /\ sess'[s].expires = sess[s].expires
  BY DEF Onward
<1>3. CASE sess[s].pc = "closed"
  BY <1>3 DEF Onward, RowInOrder
<1>4. CASE Expired(s)
  BY <1>1, <1>2, <1>4 DEF RowInOrder, Expired
<1>5. QED
  BY <1>3, <1>4 DEF RowInOrder

LEMMA UnchangedGoesOn ==
    ASSUME TypeOK, now' = now \/ now' = now + 1, sess' = sess
    PROVE  Onward
BY DEF TypeOK, LimitTypeOK, Onward

\* A step of one session, before its row is there or without a change to it.
LEMMA OneSessionGoesOn ==
    ASSUME TypeOK, NEW s \in Session, now' = now,
           sess[s].pc \notin {"open", "closed"},
           \A t \in Session : t # s => sess'[t] = sess[t]
    PROVE  Onward
BY DEF TypeOK, LimitTypeOK, Onward

\* The rows of some sessions are deleted.
Closing(S) ==
    sess' = [s \in Session |-> IF s \in S THEN [sess[s] EXCEPT !.pc = "closed"] ELSE sess[s]]

LEMMA ClosingEffect ==
    ASSUME TypeOK, NEW S, S \subseteq {s \in Session : sess[s].pc = "open"},
           Closing(S), now' = now
    PROVE  /\ sess' \in [Session -> Sess]
           /\ \A s \in S : sess'[s].pc = "closed"
           /\ \A s \in Session \ S : sess'[s] = sess[s]
           /\ Onward
<1>1. \A s \in Session : sess[s] \in Sess /\ now \in Nat
  BY DEF TypeOK, LimitTypeOK
<1>2. sess' \in [Session -> Sess]
  BY <1>1 DEF Closing, Sess
<1>3. \A s \in Session \ S : sess'[s] = sess[s]
  BY DEF Closing
<1>4. ASSUME NEW s \in S
      PROVE  /\ sess'[s].pc = "closed"
             /\ sess'[s].iat = sess[s].iat /\ sess'[s].expires = sess[s].expires
             /\ sess'[s].wipes = sess[s].wipes
  <2>1. sess'[s] = [sess[s] EXCEPT !.pc = "closed"] /\ sess[s] \in Sess
    BY <1>1 DEF Closing
  <2>2. QED
    BY <2>1 DEF Sess
<1>5. Onward
  <2>1. now' >= now
    BY DEF TypeOK, LimitTypeOK
  <2>2. ASSUME NEW s \in Session, sess[s].pc \in {"open", "closed"}
        PROVE  /\ sess'[s].pc \in {"open", "closed"}
               /\ sess[s].pc = "closed" => sess'[s].pc = "closed"
               /\ sess'[s].iat = sess[s].iat /\ sess'[s].expires = sess[s].expires
               /\ sess'[s].wipes = sess[s].wipes
    <3>1. CASE s \in S
      BY <1>4, <3>1
    <3>2. CASE s \notin S
      BY <1>3, <2>2, <3>2
    <3>3. QED
      BY <3>1, <3>2
  <2>3. QED
    BY <2>1, <2>2 DEF Onward
<1>6. QED
  BY <1>2, <1>3, <1>4, <1>5

\* The checks that are not made by the step stay sound.
LEMMA StaySound ==
    ASSUME IInv, TypeOK', Onward, check' = check
    PROVE  \A s \in Session : Sound(s)'
<1>1. ASSUME NEW s \in Session, check[s].half
      PROVE  /\ sess'[s].pc \in {"open", "closed"}
             /\ check[s].wasLive \/ ~RowInOrder(s)'
  <2>1. Sound(s) /\ sess[s].pc \in {"open", "closed"} /\ TypeOK
    BY <1>1 DEF IInv, Sound
  <2>2. sess'[s].pc \in {"open", "closed"}
    BY <2>1 DEF Onward
  <2>3. ~RowInOrder(s) => ~RowInOrder(s)'
    BY <2>1, OnwardKeepsOutOfOrder
  <2>4. QED
    BY <1>1, <2>1, <2>2, <2>3 DEF Sound
<1>2. QED
  BY <1>1 DEF Sound

\* The user is not brought back, and password_changed_at only grows, unless
\* it is rewound.
UserOnward ==
    /\ user'.present => user.present
    /\ user'.changed >= user.changed \/ rewound'

\* What is left to show of a step that does not touch the user.
LEMMA UserAloneKeeps ==
    ASSUME IInv, TypeOK', Onward, UNCHANGED <<user, change, check, wipes>>,
           \A s \in Session : sess'[s].pc = "open" /\ sess[s].pc # "open"
                             => sess'[s].wipes = wipes
    PROVE  IInv' /\ UserOnward
<1>1. Stamped' /\ Counted'
  BY DEF IInv, Stamped, Counted
<1>2. Spared'
  <2>1. ASSUME NEW s \in Session, user.present, sess'[s].pc = "open"
        PROVE  sess'[s].wipes >= user.wipe
    <3>1. CASE sess[s].pc = "open"
      BY <2>1, <3>1 DEF IInv, Spared, Onward
    <3>2. CASE sess[s].pc # "open"
      <4>1. sess'[s].wipes = wipes /\ user.wipe <= wipes
        BY <2>1, <3>2 DEF IInv, Counted
      <4>2. wipes \in Nat /\ user.wipe \in Nat
        BY Types DEF IInv
      <4>3. QED
        BY <4>1, <4>2
    <3>3. QED
      BY <3>1, <3>2
  <2>2. QED
    BY <2>1 DEF Spared
<1>3. \A s \in Session : Sound(s)'
  BY StaySound
<1>4. UserOnward
  BY Types DEF IInv, UserOnward
<1>5. QED
  BY <1>1, <1>2, <1>3, <1>4 DEF IInv

-----------------------------------------------------------------------------
(* Login and logout.                                                       *)

LEMMA HitAllTyped ==
    ASSUME LimitTypeOK, NEW keys, HitAll(keys), now' = now
    PROVE  LimitTypeOK'
<1>1. \A k \in Key : AfterHit(bucket[k], k) \in [count : Nat, start : Nat]
  <2>1. ASSUME NEW k \in Key PROVE bucket[k] \in [count : Nat, start : Nat] /\ now \in Nat
    BY DEF LimitTypeOK
  <2>2. ASSUME NEW b \in [count : Nat, start : Nat]
        PROVE  [b EXCEPT !.count = @ + 1] \in [count : Nat, start : Nat]
    OBVIOUS
  <2>3. QED
    BY <2>1, <2>2 DEF AfterHit
<1>2. bucket' \in [Key -> [count : Nat, start : Nat]]
  BY <1>1 DEF HitAll, LimitTypeOK
<1>3. \A k \in Key : Append(grants[k], now) \in Seq(Nat) /\ grants[k] \in Seq(Nat)
  BY DEF LimitTypeOK
<1>4. grants' \in [Key -> Seq(Nat)]
  BY <1>3 DEF HitAll
<1>5. QED
  BY <1>2, <1>4 DEF LimitTypeOK

LEMMA LoginReadKeeps ==
    ASSUME IInv, NEW s \in Session, LoginRead(s)
    PROVE  IInv' /\ Onward /\ UserOnward
<1>1. /\ TypeOK /\ sess[s].pc = "idle" /\ tries > 0 /\ tries' = tries - 1
      /\ HitAll(Key) /\ UNCHANGED <<now, user, change, check, wipes, rewound>>
      /\ sess' = [sess EXCEPT ![s].pc = "read", ![s].pw = user.pw] \/ sess' = sess
  BY DEF LoginRead, IInv
<1>2. /\ sess' \in [Session -> Sess] /\ sess'[s].pc \in {"idle", "read"}
      /\ \A t \in Session : t # s => sess'[t] = sess[t]
  <2>1. CASE sess' = sess
    BY <1>1, <2>1 DEF TypeOK
  <2>2. CASE sess' = [sess EXCEPT ![s].pc = "read", ![s].pw = user.pw]
    <3>1. [sess[s] EXCEPT !.pc = "read", !.pw = user.pw] \in Sess /\ sess[s] \in Sess
      BY <1>1, Types DEF Sess
    <3>2. QED
      BY <1>1, <2>2, <3>1 DEF TypeOK, Sess
  <2>3. QED
    BY <1>1, <2>1, <2>2
<1>3. TypeOK'
  <2>1. LimitTypeOK'
    BY <1>1, HitAllTyped DEF TypeOK
  <2>2. tries' \in Nat
    BY <1>1, Types
  <2>3. QED
    BY <1>1, <1>2, <2>1, <2>2 DEF TypeOK
<1>4. Onward
  BY <1>1, <1>2, OneSessionGoesOn
<1>5. \A t \in Session : sess'[t].pc = "open" /\ sess[t].pc # "open" => sess'[t].wipes = wipes
  BY <1>1, <1>2
<1>6. QED
  BY <1>1, <1>3, <1>4, <1>5, UserAloneKeeps

LEMMA MintKeeps ==
    ASSUME IInv, NEW s \in Session, Mint(s)
    PROVE  IInv' /\ Onward /\ UserOnward
<1>1. /\ TypeOK /\ sess[s].pc = "read" /\ sess' = [sess EXCEPT ![s].pc = "minted", ![s].iat = now]
      /\ UNCHANGED <<now, bucket, grants, user, change, check, tries, wipes, rewound>>
  BY DEF Mint, IInv, limitVars
<1>2. /\ sess' \in [Session -> Sess] /\ sess'[s].pc = "minted"
      /\ \A t \in Session : t # s => sess'[t] = sess[t]
  <2>1. [sess[s] EXCEPT !.pc = "minted", !.iat = now] \in Sess /\ sess[s] \in Sess
    BY <1>1, Types DEF Sess
  <2>2. QED
    BY <1>1, <2>1 DEF TypeOK, Sess
<1>3. TypeOK'
  BY <1>1, <1>2 DEF TypeOK, LimitTypeOK
<1>4. Onward
  BY <1>1, <1>2, OneSessionGoesOn
<1>5. \A t \in Session : sess'[t].pc = "open" /\ sess[t].pc # "open" => sess'[t].wipes = wipes
  BY <1>1, <1>2
<1>6. QED
  BY <1>1, <1>3, <1>4, <1>5, UserAloneKeeps

LEMMA InsertKeeps ==
    ASSUME IInv, NEW s \in Session, Insert(s)
    PROVE  IInv' /\ Onward /\ UserOnward
<1> DEFINE pc == IF user.present THEN "open" ELSE "closed"
           new == [sess[s] EXCEPT !.pc = pc, !.expires = now + Ttl, !.wipes = wipes]
<1>1. /\ TypeOK /\ sess[s].pc = "minted" /\ sess[s] \in Sess
      /\ UNCHANGED <<now, bucket, grants, user, change, check, tries, wipes, rewound>>
  BY Types DEF Insert, IInv, limitVars
<1>2. sess' = [sess EXCEPT ![s] = new]
  BY <1>1 DEF Insert, TypeOK, Sess
<1>3. pc \in {"open", "closed"} /\ now + Ttl \in Nat /\ wipes \in Nat
  BY <1>1, Types
<1> HIDE DEF pc
<1>4. new \in Sess /\ new.pc = pc /\ new.wipes = wipes
  BY <1>1, <1>3 DEF Sess
<1> HIDE DEF new
<1>5. /\ sess' \in [Session -> Sess] /\ sess'[s] = new
      /\ \A t \in Session : t # s => sess'[t] = sess[t]
  BY <1>1, <1>2, <1>4 DEF TypeOK
<1>6. TypeOK'
  BY <1>1, <1>5 DEF TypeOK, LimitTypeOK
<1>7. Onward
  BY <1>1, <1>5, OneSessionGoesOn
<1>8. \A t \in Session : sess'[t].pc = "open" /\ sess[t].pc # "open" => sess'[t].wipes = wipes
  BY <1>4, <1>5
<1>9. QED
  BY <1>1, <1>6, <1>7, <1>8, UserAloneKeeps

\* Logout and SweepSessions.
LEMMA ClosingKeeps ==
    ASSUME IInv, NEW S, S \subseteq {s \in Session : sess[s].pc = "open"}, Closing(S),
           UNCHANGED <<now, bucket, grants, user, change, check, tries, wipes, rewound>>
    PROVE  IInv' /\ Onward /\ UserOnward
<1>1. TypeOK
  BY DEF IInv
<1>2. /\ sess' \in [Session -> Sess] /\ Onward
      /\ \A s \in S : sess'[s].pc = "closed"
      /\ \A s \in Session \ S : sess'[s] = sess[s]
  BY <1>1, ClosingEffect
<1>3. TypeOK'
  BY <1>1, <1>2 DEF TypeOK, LimitTypeOK
<1>4. \A t \in Session : sess'[t].pc = "open" /\ sess[t].pc # "open" => sess'[t].wipes = wipes
  BY <1>2
<1>5. QED
  BY <1>2, <1>3, <1>4, UserAloneKeeps

LEMMA LogoutKeeps ==
    ASSUME IInv, NEW s \in Session, Logout(s)
    PROVE  IInv' /\ Onward /\ UserOnward
<1>1. /\ {s} \subseteq {t \in Session : sess[t].pc = "open"}
      /\ UNCHANGED <<now, bucket, grants, user, change, check, tries, wipes, rewound>>
      /\ sess \in [Session -> Sess] /\ sess' = [sess EXCEPT ![s].pc = "closed"]
  BY DEF Logout, limitVars, IInv, TypeOK
<1>2. Closing({s})
  BY <1>1 DEF Closing
<1>3. QED
  BY <1>1, <1>2, ClosingKeeps

LEMMA SweepSessionsKeeps ==
    ASSUME IInv, SweepSessions
    PROVE  IInv' /\ Onward /\ UserOnward
<1> DEFINE S == {s \in Session : SweptSession(s)}
<1>1. Closing(S) /\ UNCHANGED <<now, bucket, grants, user, change, check, tries, wipes, rewound>>
  BY DEF SweepSessions, limitVars, Closing
<1>2. S \subseteq {s \in Session : sess[s].pc = "open"}
  BY DEF SweptSession
<1> HIDE DEF S
<1>3. QED
  BY <1>1, <1>2, ClosingKeeps

-----------------------------------------------------------------------------
(* The two queries of a check.                                             *)

LEMMA CheckingKeeps ==
    ASSUME IInv, NEW s \in Session, NEW c \in Chk, check' = [check EXCEPT ![s] = c],
           c.half => /\ sess[s].pc \in {"open", "closed"}
                     /\ c.wasLive \/ ~RowInOrder(s),
           UNCHANGED <<now, bucket, grants, user, sess, change, tries, wipes, rewound>>
    PROVE  IInv' /\ Onward /\ UserOnward
<1>1. /\ check' \in [Session -> Chk] /\ check'[s] = c
      /\ \A t \in Session : t # s => check'[t] = check[t]
  BY DEF IInv, TypeOK
<1>2. TypeOK'
  BY <1>1 DEF IInv, TypeOK, LimitTypeOK
<1>3. Stamped' /\ Counted' /\ Spared'
  BY DEF IInv, Stamped, Counted, Spared
<1>4. ASSUME NEW t \in Session PROVE Sound(t)'
  <2>1. RowInOrder(t)' <=> RowInOrder(t)
    BY DEF RowInOrder, Expired
  <2>2. CASE t = s
    BY <1>1, <2>1, <2>2 DEF Sound
  <2>3. CASE t # s
    BY <1>1, <2>1, <2>3 DEF Sound, IInv
  <2>4. QED
    BY <2>2, <2>3
<1>5. Onward
  BY UnchangedGoesOn DEF IInv
<1>6. UserOnward
  BY Types DEF IInv, UserOnward
<1>7. QED
  BY <1>2, <1>3, <1>4, <1>5, <1>6 DEF IInv

LEMMA CheckUserKeeps ==
    ASSUME IInv, NEW s \in Session, CheckUser(s)
    PROVE  IInv' /\ Onward /\ UserOnward
<1> DEFINE c == [half |-> TRUE, wasLive |-> Live(s)]
<1>1. /\ sess[s].pc \in {"open", "closed"} /\ UserInOrder(s)
      /\ check' = [check EXCEPT ![s] = c]
      /\ UNCHANGED <<now, bucket, grants, user, sess, change, tries, wipes, rewound>>
  BY DEF CheckUser, limitVars
<1>2. Live(s) \in BOOLEAN
  BY DEF Live
<1>3. c \in Chk /\ c.half = TRUE /\ c.wasLive = Live(s)
  BY <1>2 DEF Chk
<1> HIDE DEF c
<1>4. Live(s) \/ ~RowInOrder(s)
  BY <1>1 DEF UserInOrder, RowInOrder, Live
<1>5. QED
  BY <1>1, <1>3, <1>4, CheckingKeeps

LEMMA CheckRowKeeps ==
    ASSUME IInv, NEW s \in Session, CheckRow(s)
    PROVE  IInv' /\ Onward /\ UserOnward
<1>1. /\ check' = [check EXCEPT ![s] = NoChk]
      /\ UNCHANGED <<now, bucket, grants, user, sess, change, tries, wipes, rewound>>
  BY DEF CheckRow, limitVars
<1>2. NoChk \in Chk /\ ~NoChk.half
  BY DEF NoChk, Chk
<1>3. QED
  BY <1>1, <1>2, CheckingKeeps

-----------------------------------------------------------------------------
(* Password changes and the end of the user.                               *)

\* A change moves on; the row of the user may change its holder.
LEMMA ChangeTyped ==
    ASSUME TypeOK, NEW c \in Change, NEW new \in Chg, change' = [change EXCEPT ![c] = new],
           user' \in User, wipes' \in Nat,
           user'.holder = c <=> new.pc \in {"updated", "wiped"},
           \A d \in Change : d # c => (user'.holder = d <=> user.holder = d),
           sess' \in [Session -> Sess], rewound' \in BOOLEAN,
           UNCHANGED <<now, bucket, grants, check, tries>>
    PROVE  TypeOK'
<1>1. change' \in [Change -> Chg] /\ change'[c] = new /\ \A d \in Change : d # c => change'[d] = change[d]
  BY DEF TypeOK
<1>2. \A d \in Change : user'.holder = d <=> change'[d].pc \in {"updated", "wiped"}
  BY <1>1 DEF TypeOK
<1>3. QED
  BY <1>1, <1>2 DEF TypeOK, LimitTypeOK

LEMMA BeginChangeKeeps ==
    ASSUME IInv, NEW c \in Change, BeginChange(c)
    PROVE  IInv' /\ Onward /\ UserOnward
<1> DEFINE new == [change[c] EXCEPT !.pc = "begun", !.start = now]
<1>1. /\ TypeOK /\ change[c].pc = "idle" /\ change[c] \in Chg
      /\ UNCHANGED <<now, bucket, grants, user, sess, check, tries, wipes, rewound>>
  BY Types DEF BeginChange, IInv, limitVars
<1>2. change' = [change EXCEPT ![c] = new]
  BY <1>1 DEF BeginChange, TypeOK, Chg
<1>3. new \in Chg /\ new.pc = "begun" /\ new.wipe = change[c].wipe
  BY <1>1, Types DEF Chg
<1> HIDE DEF new
<1>4. TypeOK'
  <2>1. user.holder # c
    BY <1>1 DEF TypeOK
  <2>2. user' \in User /\ sess' \in [Session -> Sess] /\ wipes' \in Nat /\ rewound' \in BOOLEAN
    BY <1>1 DEF TypeOK
  <2>3. QED
    BY <1>1, <1>2, <1>3, <2>1, <2>2, ChangeTyped
<1>5. Onward
  BY <1>1, UnchangedGoesOn
<1>6. Counted'
  BY <1>1, <1>2, <1>3 DEF IInv, Counted, TypeOK
<1>7. Stamped' /\ Spared'
  BY <1>1 DEF IInv, Stamped, Spared
<1>8. \A s \in Session : Sound(s)'
  BY <1>1, <1>4, <1>5, StaySound
<1>9. UserOnward
  BY <1>1, Types DEF UserOnward
<1>10. QED
  BY <1>4, <1>5, <1>6, <1>7, <1>8, <1>9 DEF IInv

LEMMA UpdateUserKeeps ==
    ASSUME IInv, NEW c \in Change, UpdateUser(c)
    PROVE  IInv' /\ Onward /\ UserOnward
<1> DEFINE new == [change[c] EXCEPT !.pc = "updated"]
<1>1. /\ TypeOK /\ change[c] \in Chg /\ user \in User /\ user.holder = "none"
      /\ user' = [user EXCEPT !.holder = c]
      /\ UNCHANGED <<now, bucket, grants, sess, check, tries, wipes, rewound>>
  BY Types DEF UpdateUser, IInv, limitVars, TypeOK
<1>2. change' = [change EXCEPT ![c] = new]
  BY <1>1 DEF UpdateUser, TypeOK, Chg
<1>3. new \in Chg /\ new.pc = "updated" /\ new.wipe = change[c].wipe
  BY <1>1 DEF Chg
<1> HIDE DEF new
<1>4. /\ user' \in User /\ user'.holder = c /\ user'.present = user.present
      /\ user'.changed = user.changed /\ user'.since = user.since /\ user'.wipe = user.wipe
  BY <1>1 DEF User
<1>5. TypeOK'
  <2>1. sess' \in [Session -> Sess] /\ wipes' \in Nat /\ rewound' \in BOOLEAN
    BY <1>1 DEF TypeOK
  <2>2. \A d \in Change : d # c => (user'.holder = d <=> user.holder = d)
    BY <1>1, <1>4, SessionsAssumption
  <2>3. QED
    BY <1>1, <1>2, <1>3, <1>4, <2>1, <2>2, ChangeTyped
<1>6. Onward
  BY <1>1, UnchangedGoesOn
<1>7. Counted'
  BY <1>1, <1>2, <1>3, <1>4 DEF IInv, Counted, TypeOK
<1>8. Stamped' /\ Spared'
  BY <1>1, <1>4 DEF IInv, Stamped, Spared
<1>9. \A s \in Session : Sound(s)'
  BY <1>1, <1>5, <1>6, StaySound
<1>10. UserOnward
  BY <1>1, <1>4, Types DEF UserOnward
<1>11. QED
  BY <1>5, <1>6, <1>7, <1>8, <1>9, <1>10 DEF IInv

LEMMA WipeSessionsKeeps ==
    ASSUME IInv, NEW c \in Change, WipeSessions(c)
    PROVE  IInv' /\ Onward /\ UserOnward
<1> DEFINE new == [change[c] EXCEPT !.pc = "wiped", !.wipe = wipes + 1]
<1>1. /\ TypeOK /\ change[c] \in Chg /\ change[c].pc = "updated"
      /\ wipes \in Nat /\ wipes' = wipes + 1
      /\ UNCHANGED <<now, bucket, grants, user, sess, check, tries, rewound>>
  BY Types DEF WipeSessions, IInv, limitVars
<1>2. change' = [change EXCEPT ![c] = new]
  <2>1. change \in [Change -> Chg]
    BY <1>1 DEF TypeOK
  <2>2. change' = [change EXCEPT ![c].pc = "wiped", ![c].wipe = wipes + 1]
    BY DEF WipeSessions
  <2>3. [change EXCEPT ![c].pc = "wiped", ![c].wipe = wipes + 1] = [change EXCEPT ![c] = new]
    BY <2>1 DEF Chg
  <2>4. QED
    BY <2>2, <2>3
<1>3. new \in Chg /\ new.pc = "wiped" /\ new.wipe = wipes + 1
  <2>1. wipes + 1 \in Nat /\ change[c].start \in Nat
    BY <1>1, Types
  <2>2. ASSUME NEW n \in Nat
        PROVE  /\ [change[c] EXCEPT !.pc = "wiped", !.wipe = n] \in Chg
               /\ [change[c] EXCEPT !.pc = "wiped", !.wipe = n].pc = "wiped"
               /\ [change[c] EXCEPT !.pc = "wiped", !.wipe = n].wipe = n
    BY <1>1 DEF Chg
  <2>3. QED
    BY <2>1, <2>2
<1> HIDE DEF new
<1>4. TypeOK'
  <2>1. user.holder = c
    BY <1>1 DEF TypeOK
  <2>2. user' \in User /\ sess' \in [Session -> Sess] /\ wipes' \in Nat /\ rewound' \in BOOLEAN
    BY <1>1 DEF TypeOK
  <2>3. QED
    BY <1>1, <1>2, <1>3, <2>1, <2>2, ChangeTyped
<1>5. Onward
  BY <1>1, UnchangedGoesOn
<1>6. Counted'
  <2>1. user.wipe \in Nat /\ user.wipe <= wipes
    BY <1>1, Types DEF IInv, Counted
  <2>2. ASSUME NEW d \in Change PROVE change'[d].wipe <= wipes + 1
    <3>1. change[d].wipe \in Nat /\ change[d].wipe <= wipes
      BY <1>1, Types DEF IInv, Counted
    <3>2. CASE d = c
      BY <1>1, <1>2, <1>3, <3>2 DEF TypeOK
    <3>3. CASE d # c
      BY <1>1, <1>2, <3>1, <3>3 DEF TypeOK
    <3>4. QED
      BY <3>2, <3>3
  <2>3. QED
    BY <1>1, <2>1, <2>2 DEF Counted
<1>7. Stamped' /\ Spared'
  BY <1>1 DEF IInv, Stamped, Spared
<1>8. \A s \in Session : Sound(s)'
  BY <1>1, <1>4, <1>5, StaySound
<1>9. UserOnward
  BY <1>1, Types DEF UserOnward
<1>10. QED
  BY <1>4, <1>5, <1>6, <1>7, <1>8, <1>9 DEF IInv

\* The rows the DELETE has not seen were inserted after it.
LEMMA CommitChangeKeeps ==
    ASSUME IInv, NEW c \in Change, CommitChange(c)
    PROVE  IInv' /\ Onward /\ UserOnward
<1> DEFINE new == [change[c] EXCEPT !.pc = "done"]
           S == {s \in Session : Wiped(s, c)}
<1>1. /\ TypeOK /\ change[c] \in Chg /\ user \in User /\ change[c].pc = "wiped"
      /\ user' = IF user.present
                 THEN [NewUser(c) EXCEPT !.wipe = change[c].wipe, !.since = change[c].start]
                 ELSE [user EXCEPT !.holder = "none"]
      /\ rewound' = (rewound \/ change[c].start < user.changed)
      /\ UNCHANGED <<now, bucket, grants, check, tries, wipes>>
  BY Types DEF CommitChange, IInv, limitVars, TypeOK
<1>2. change' = [change EXCEPT ![c] = new]
  BY <1>1 DEF CommitChange, TypeOK, Chg
<1>3. new \in Chg /\ new.pc = "done" /\ new.wipe = change[c].wipe
  BY <1>1 DEF Chg
<1> HIDE DEF new
<1>4. /\ user' \in User /\ user'.holder = "none" /\ user'.present = user.present
      /\ user.present => /\ user'.changed = change[c].start /\ user'.since = change[c].start
                         /\ user'.wipe = change[c].wipe
      /\ ~user.present => /\ user'.changed = user.changed /\ user'.since = user.since
                          /\ user'.wipe = user.wipe
  <2>1. change[c].start \in Nat /\ change[c].wipe \in Nat /\ user.pw + 1 \in Nat
    BY <1>1, Types
  <2>2. CASE user.present
    <3>1. user' = [[user EXCEPT !.pw = @ + 1, !.holder = "none", !.changed = change[c].start]
                      EXCEPT !.wipe = change[c].wipe, !.since = change[c].start]
      BY <1>1, <2>2 DEF NewUser
    <3>2. QED
      BY <1>1, <2>1, <2>2, <3>1 DEF User
  <2>3. CASE ~user.present
    BY <1>1, <2>3 DEF User
  <2>4. QED
    BY <2>2, <2>3
<1>5. /\ sess' \in [Session -> Sess] /\ Onward
      /\ \A s \in S : sess'[s].pc = "closed"
      /\ \A s \in Session \ S : sess'[s] = sess[s]
  <2>1. S \subseteq {s \in Session : sess[s].pc = "open"}
    BY DEF Wiped
  <2>2. Closing(S)
    BY DEF CommitChange, Closing
  <2> HIDE DEF S
  <2>3. QED
    BY <1>1, <2>1, <2>2, ClosingEffect
<1>6. TypeOK'
  <2>1. user.holder = c /\ wipes' \in Nat
    BY <1>1 DEF TypeOK
  <2>2. \A d \in Change : d # c => (user'.holder = d <=> user.holder = d)
    BY <1>4, <2>1, SessionsAssumption
  <2>3. rewound' \in BOOLEAN
    BY <1>1
  <2>4. user'.holder # c
    BY <1>4, SessionsAssumption
  <2>5. QED
    BY <1>1, <1>2, <1>3, <1>4, <1>5, <2>1, <2>2, <2>3, <2>4, ChangeTyped
<1>7. Stamped'
  BY <1>4 DEF IInv, Stamped
<1>8. Counted'
  <2>1. user'.wipe <= wipes
    BY <1>1, <1>4 DEF IInv, Counted
  <2>2. \A d \in Change : change'[d].wipe = change[d].wipe
    BY <1>1, <1>2, <1>3 DEF TypeOK
  <2>3. QED
    BY <1>1, <2>1, <2>2 DEF IInv, Counted
<1>9. Spared'
  <2>1. ASSUME NEW s \in Session, user.present, sess'[s].pc = "open"
        PROVE  sess'[s].wipes >= change[c].wipe
    <3>1. s \notin S /\ sess'[s] = sess[s]
      BY <1>5, <2>1
    <3>2. sess[s].wipes \in Nat /\ change[c].wipe \in Nat
      BY <1>1, Types
    <3>3. QED
      BY <2>1, <3>1, <3>2 DEF Wiped
  <2>2. QED
    BY <1>4, <2>1 DEF Spared
<1>10. \A s \in Session : Sound(s)'
  BY <1>1, <1>5, <1>6, StaySound
<1>11. UserOnward
  <2>1. change[c].start \in Nat /\ user.changed \in Nat
    BY <1>1, Types
  <2>2. CASE user.present
    <3>1. CASE change[c].start < user.changed
      BY <1>1, <1>4, <3>1 DEF UserOnward
    <3>2. CASE ~(change[c].start < user.changed)
      BY <1>4, <2>1, <2>2, <3>2 DEF UserOnward
    <3>3. QED
      BY <3>1, <3>2
  <2>3. CASE ~user.present
    BY <1>4, <2>1, <2>3 DEF UserOnward
  <2>4. QED
    BY <2>2, <2>3
<1>12. QED
  BY <1>5, <1>6, <1>7, <1>8, <1>9, <1>10, <1>11 DEF IInv

LEMMA DeleteUserKeeps ==
    ASSUME IInv, DeleteUser
    PROVE  IInv' /\ Onward /\ UserOnward
<1> DEFINE S == {s \in Session : sess[s].pc = "open"}
<1>1. /\ TypeOK /\ user \in User /\ user' = [user EXCEPT !.present = FALSE]
      /\ UNCHANGED <<now, bucket, grants, change, check, tries, wipes, rewound>>
  BY DEF DeleteUser, IInv, limitVars, TypeOK
<1>2. /\ user' \in User /\ user'.present = FALSE /\ user'.holder = user.holder
      /\ user'.changed = user.changed /\ user'.since = user.since /\ user'.wipe = user.wipe
  BY <1>1 DEF User
<1>3. sess' \in [Session -> Sess] /\ Onward
  <2>1. Closing(S)
    BY DEF DeleteUser, Closing
  <2>2. QED
    BY <1>1, <2>1, ClosingEffect
<1>4. TypeOK'
  BY <1>1, <1>2, <1>3 DEF TypeOK, LimitTypeOK
<1>5. Stamped' /\ Counted' /\ Spared'
  BY <1>1, <1>2 DEF IInv, Stamped, Counted, Spared
<1>6. \A s \in Session : Sound(s)'
  BY <1>1, <1>3, <1>4, StaySound
<1>7. UserOnward
  BY <1>1, <1>2, Types DEF UserOnward
<1>8. QED
  BY <1>3, <1>4, <1>5, <1>6, <1>7 DEF IInv

-----------------------------------------------------------------------------
(* The sweep of the buckets and the clock.                                 *)

LEMMA LimitsAloneKeep ==
    ASSUME IInv, LimitTypeOK', now' = now \/ now' = now + 1, UNCHANGED authVars
    PROVE  IInv' /\ Onward /\ UserOnward
<1>1. /\ TypeOK /\ UNCHANGED <<user, sess, change, check, tries, wipes, rewound>>
  BY DEF IInv, authVars
<1>2. TypeOK'
  BY <1>1 DEF TypeOK
<1>3. Onward
  BY <1>1, UnchangedGoesOn
<1>4. QED
  BY <1>1, <1>2, <1>3, UserAloneKeeps

LEMMA SweepLimitsKeeps ==
    ASSUME IInv, SweepLimits
    PROVE  IInv' /\ Onward /\ UserOnward
<1>1. /\ now' = now /\ grants' = grants /\ LimitTypeOK /\ UNCHANGED authVars
      /\ bucket' = [k \in Key |-> IF Swept(bucket[k]) THEN NoBucket ELSE bucket[k]]
  BY DEF SweepLimits, SweepBuckets, IInv, TypeOK
<1>2. NoBucket \in [count : Nat, start : Nat]
  BY DEF NoBucket
<1>3. LimitTypeOK'
  BY <1>1, <1>2 DEF LimitTypeOK
<1>4. QED
  BY <1>1, <1>3, LimitsAloneKeep

LEMMA TickKeeps ==
    ASSUME IInv, Tick
    PROVE  IInv' /\ Onward /\ UserOnward
<1>1. LimitTypeOK /\ now' = now + 1 /\ UNCHANGED <<bucket, grants>> /\ UNCHANGED authVars
  BY DEF Tick, limitVars, IInv, TypeOK
<1>2. LimitTypeOK'
  BY <1>1 DEF LimitTypeOK
<1>3. QED
  BY <1>1, <1>2, LimitsAloneKeep

-----------------------------------------------------------------------------
LEMMA InitHolds ==
    ASSUME Init
    PROVE  IInv
<1>1. NoSess \in Sess /\ NoChg \in Chg /\ NoChk \in Chk
  BY DEF NoSess, Sess, NoChg, Chg, NoChk, Chk
<1>2. user \in User /\ user.holder = "none" /\ user.changed = user.since /\ user.wipe = 0
  BY DEF Init, User
<1>3. LimitTypeOK
  BY DEF Init, LimitInit, LimitTypeOK, NoBucket
<1>4. \A c \in Change : user.holder # c /\ change[c].pc = "idle" /\ change[c].wipe = 0
  BY <1>2, SessionsAssumption DEF Init, NoChg
<1>5. TypeOK
  <2>1. /\ sess \in [Session -> Sess] /\ change \in [Change -> Chg]
        /\ check \in [Session -> Chk]
    BY <1>1 DEF Init
  <2>2. {tries, wipes} \subseteq Nat /\ rewound \in BOOLEAN
    <3>1. MaxTries \in Nat
      BY SessionsAssumption
    <3>2. tries = MaxTries /\ wipes = 0 /\ rewound = FALSE
      BY DEF Init
    <3>3. tries \in Nat /\ wipes \in Nat /\ rewound \in BOOLEAN
      BY <3>1, <3>2
    <3>4. QED
      BY <3>3
  <2>3. \A c \in Change : user.holder = c <=> change[c].pc \in {"updated", "wiped"}
    BY <1>4
  <2>4. QED
    BY <1>2, <1>3, <2>1, <2>2, <2>3 DEF TypeOK
<1>6. Stamped /\ Counted
  BY <1>2, <1>4 DEF Init, Stamped, Counted
<1>7. Spared /\ \A s \in Session : Sound(s)
  BY DEF Init, Spared, Sound, NoSess, NoChk
<1>8. QED
  BY <1>5, <1>6, <1>7 DEF IInv

LEMMA NextKeeps ==
    ASSUME IInv, Next
    PROVE  IInv' /\ Onward /\ UserOnward
<1>1. ASSUME NEW s \in Session,
             LoginRead(s) \/ Mint(s) \/ Insert(s) \/ Logout(s) \/ CheckUser(s) \/ CheckRow(s)
      PROVE  IInv' /\ Onward /\ UserOnward
  BY <1>1, LoginReadKeeps, MintKeeps, InsertKeeps, LogoutKeeps, CheckUserKeeps, CheckRowKeeps
<1>2. ASSUME NEW c \in Change,
             BeginChange(c) \/ UpdateUser(c) \/ WipeSessions(c) \/ CommitChange(c)
      PROVE  IInv' /\ Onward /\ UserOnward
  BY <1>2, BeginChangeKeeps, UpdateUserKeeps, WipeSessionsKeeps, CommitChangeKeeps
<1>3. QED
  BY <1>1, <1>2, DeleteUserKeeps, SweepSessionsKeeps, SweepLimitsKeeps, TickKeeps DEF Next

LEMMA StutterKeeps ==
    ASSUME IInv, UNCHANGED vars
    PROVE  IInv'
BY DEF vars, IInv, TypeOK, LimitTypeOK, Stamped, Counted, Spared, Sound, RowInOrder, Expired

LEMMA Inductive == Spec => []IInv
<1>1. Init => IInv
  BY InitHolds
<1>2. IInv /\ [Next]_vars => IInv'
  BY NextKeeps, StutterKeeps
<1>3. QED
  BY <1>1, <1>2, PTL DEF Spec

\* The types of Sessions and of the limiter it uses.
THEOREM TypeCorrect == Spec => []TypeOK
<1>1. IInv => TypeOK
  BY DEF IInv
<1>2. QED
  BY <1>1, Inductive, PTL

\* A session that lives on after a password change was opened by a login that
\* overlapped it.
THEOREM OnlyOverlappingLoginsSurvive == Spec => []SurvivorsOverlapped
<1>1. ASSUME IInv, NEW s \in Session, Live(s)
      PROVE  sess[s].wipes >= user.wipe /\ sess[s].iat >= user.since
  <2>1. user.present /\ sess[s].pc = "open" /\ user.changed <= sess[s].iat
    BY <1>1 DEF Live
  <2>2. user.since \in Nat /\ sess[s].iat \in Nat
    BY <1>1, Types DEF IInv
  <2>3. QED
    BY <1>1, <2>1, <2>2 DEF IInv, Spared, Stamped
<1>2. IInv => SurvivorsOverlapped
  BY <1>1 DEF SurvivorsOverlapped
<1>3. QED
  BY <1>2, Inductive, PTL

LEMMA DeadOnes ==
    ASSUME IInv, IInv', Onward, UserOnward, NEW s \in Session,
           sess[s].pc \in {"open", "closed"}, ~Live(s), ~rewound'
    PROVE  ~Live(s)'
<1>1. TypeOK /\ TypeOK'
  BY DEF IInv
<1>2. CASE ~user.present
  BY <1>2 DEF UserOnward, Live
<1>3. CASE ~(user.changed <= sess[s].iat)
  <2>1. sess'[s].iat = sess[s].iat /\ user'.changed >= user.changed
    BY DEF Onward, UserOnward
  <2>2. user.changed \in Nat /\ sess[s].iat \in Nat
    BY <1>1, Types
  <2>3. user'.changed \in Nat
    BY <1>1 DEF TypeOK, User
  <2>4. ~(user'.changed <= sess'[s].iat)
    BY <1>3, <2>1, <2>2, <2>3
  <2>5. QED
    BY <2>4 DEF Live
<1>4. CASE ~RowInOrder(s)
  <2>1. ~RowInOrder(s)'
    BY <1>1, <1>4, OnwardKeepsOutOfOrder
  <2>2. QED
    BY <2>1 DEF Live, RowInOrder
<1>5. QED
  BY <1>2, <1>3, <1>4 DEF Live, RowInOrder

\* What a change, the end of the user, expiry or a sweep has killed stays dead,
\* unless password_changed_at is moved back.
THEOREM TheDeadStayDead == Spec => DeadStaysDead
<1> DEFINE A == \A s \in Session :
                  sess[s].pc \in {"open", "closed"} /\ ~Live(s) => ~Live(s)' \/ rewound'
<1>1. IInv /\ IInv' /\ [Next]_vars => [A]_vars
  BY NextKeeps, DeadOnes
<1>2. QED
  BY <1>1, Inductive, PTL DEF Spec, DeadStaysDead

\* checkSessionLive lets a request in only if its session was live at one of
\* the two queries.
THEOREM TheChecksAreSound == Spec => ChecksAreSound
<1> DEFINE A == \A s \in Session : Passes(s) => check[s].wasLive \/ Live(s)
<1>1. IInv /\ [Next]_vars => [A]_vars
  <2>1. ASSUME IInv, NEW s \in Session, Passes(s) PROVE check[s].wasLive
    BY <2>1 DEF IInv, Sound, Passes, CheckRow
  <2>2. QED
    BY <2>1
<1>2. QED
  BY <1>1, Inductive, PTL DEF Spec, ChecksAreSound

LEMMA SweepSessionsUnseen ==
    ASSUME IInv, SweepSessions
    PROVE  /\ \A s \in Session : Live(s)' = Live(s)
           /\ \A k \in Key : AllGranted({k})' = AllGranted({k})
<1>1. /\ TypeOK
      /\ sess' = [s \in Session |-> IF SweptSession(s) THEN [sess[s] EXCEPT !.pc = "closed"]
                                   ELSE sess[s]]
      /\ UNCHANGED <<now, bucket, user>>
  BY DEF SweepSessions, limitVars, IInv
<1>2. ASSUME NEW s \in Session PROVE Live(s)' = Live(s)
  <2>1. /\ sess[s].expires \in Nat /\ now \in Nat /\ sess[s] \in Sess
    BY <1>1, Types
  <2>2. CASE SweptSession(s)
    <3>1. sess'[s].pc = "closed"
      BY <1>1, <2>1, <2>2 DEF Sess
    <3>2. ~Live(s)
      BY <2>1, <2>2 DEF SweptSession, Live, Expired
    <3>3. ~Live(s)'
      BY <3>1 DEF Live
    <3>4. Live(s) \in BOOLEAN /\ Live(s)' \in BOOLEAN
      BY DEF Live
    <3>5. QED
      BY <3>2, <3>3, <3>4
  <2>3. CASE ~SweptSession(s)
    <3>1. sess'[s] = sess[s]
      BY <1>1, <2>3
    <3>2. QED
      BY <1>1, <3>1 DEF Live, Expired
  <2>4. QED
    BY <2>2, <2>3
<1>3. ASSUME NEW k \in Key PROVE AllGranted({k})' = AllGranted({k})
  BY <1>1 DEF AllGranted, Granted, AfterHit, Stale
<1>4. QED
  BY <1>2, <1>3

\* A bucket that is swept is older than its window.
LEMMA SweepLimitsUnseen ==
    ASSUME IInv, SweepLimits
    PROVE  /\ \A s \in Session : Live(s)' = Live(s)
           /\ \A k \in Key : AllGranted({k})' = AllGranted({k})
<1>1. /\ TypeOK /\ now \in Nat /\ UNCHANGED <<now, user, sess>>
      /\ bucket \in [Key -> [count : Nat, start : Nat]]
      /\ bucket' = [k \in Key |-> IF Swept(bucket[k]) THEN NoBucket ELSE bucket[k]]
  BY DEF SweepLimits, SweepBuckets, authVars, IInv, TypeOK, LimitTypeOK
<1>2. \A s \in Session : Live(s)' = Live(s)
  BY <1>1 DEF Live, Expired
<1>3. ASSUME NEW k \in Key PROVE AllGranted({k})' = AllGranted({k})
  <2>1. AfterHit(bucket'[k], k).count = AfterHit(bucket[k], k).count
    <3>1. CASE Swept(bucket[k])
      <4>1. bucket'[k] = NoBucket
        BY <1>1, <3>1
      <4>2. Stale(bucket[k], k)
        <5>1. /\ bucket[k].start \in Nat /\ SweepAge \in Nat /\ Window[k] \in Nat
              /\ Window[k] <= SweepAge
          BY <1>1, RateLimitAssumption
        <5>2. QED
          BY <1>1, <3>1, <5>1 DEF Swept, Stale
      <4>3. QED
        BY <4>1, <4>2 DEF AfterHit, NoBucket
    <3>2. CASE ~Swept(bucket[k])
      BY <1>1, <3>2
    <3>3. QED
      BY <3>1, <3>2
  <2>2. AfterHit(bucket[k], k)' = AfterHit(bucket'[k], k)
    BY <1>1 DEF AfterHit, Stale
  <2>3. QED
    BY <2>1, <2>2 DEF AllGranted, Granted
<1>4. QED
  BY <1>2, <1>3

\* runMaintenance removes no session that is live and no bucket that would
\* still refuse a hit, whatever the windows, if none is longer than a day.
THEOREM TheSweepIsInvisible == Spec => SweepIsInvisible
<1> DEFINE A == SweepSessions \/ SweepLimits
                => /\ \A s \in Session : Live(s)' = Live(s)
                   /\ \A k \in Key : AllGranted({k})' = AllGranted({k})
<1>1. IInv /\ [Next]_vars => [A]_vars
  BY SweepSessionsUnseen, SweepLimitsUnseen
<1>2. QED
  BY <1>1, Inductive, PTL DEF Spec, SweepIsInvisible

-----------------------------------------------------------------------------
(***************************************************************************)
(* The bound of the limiter on PostgreSQL, for any number of keys and hits *)
(* and any limits and windows: less than twice the limit is let through in *)
(* any stretch of time of the length of a window.                          *)
(*                                                                         *)
(* A window lets through at most the limit, beginning with its first hit;  *)
(* so the first hits of two windows in a row are that many hits apart at   *)
(* most, and more than a window in time (Apart).                           *)
(***************************************************************************)

\* Times in their order, none later than t.
Ordered(g, t) ==
    \A i \in 1 .. Len(g) : /\ g[i] <= t
                           /\ \A j \in 1 .. Len(g) : i <= j => g[i] <= g[j]

\* Of any 2 * n times in a row the last is more than w after the first.
Spaced(g, n, w) ==
    \A i, j \in 1 .. Len(g) : i + 2 * n - 1 <= j => g[i] + w < g[j]

\* The hits that a window has let through which has counted c, and the position
\* of the first of them.
LetThrough(c, n) == IF c <= n THEN c ELSE n
FirstOf(g, c, n) == Len(g) - LetThrough(c, n) + 1

\* The window of a bucket began at its first hit, and those before it longer
\* ago than w before that, or before t if there is no bucket.
Apart(g, c, start, n, w, t) ==
    IF c = 0
    THEN \A i \in 1 .. Len(g) : i <= Len(g) + 1 - n => g[i] + w < t
    ELSE /\ LetThrough(c, n) <= Len(g)
         /\ g[FirstOf(g, c, n)] = start
         /\ \A i \in 1 .. Len(g) : i <= FirstOf(g, c, n) - n => g[i] + w < start

Steady(g, c, start, n, w, t) == Ordered(g, t) /\ Spaced(g, n, w) /\ Apart(g, c, start, n, w, t)

Paced(k) ==
    Steady(grants[k], bucket[k].count, bucket[k].start, Limit[k], Window[k], now)

LEMMA TimesAreNumbers ==
    ASSUME NEW g \in Seq(Nat)
    PROVE  Len(g) \in Nat /\ \A i \in 1 .. Len(g) : g[i] \in Nat
OBVIOUS

LEMMA AppendEffect ==
    ASSUME NEW g \in Seq(Nat), NEW t \in Nat
    PROVE  /\ Append(g, t) \in Seq(Nat)
           /\ Len(Append(g, t)) = Len(g) + 1
           /\ Append(g, t)[Len(g) + 1] = t
           /\ \A i \in 1 .. Len(g) : Append(g, t)[i] = g[i]
<1>1. Append(g, t) \in Seq(Nat) /\ Len(Append(g, t)) = Len(g) + 1
  OBVIOUS
<1>2. Append(g, t)[Len(g) + 1] = t
  OBVIOUS
<1>3. ASSUME NEW i \in 1 .. Len(g) PROVE Append(g, t)[i] = g[i]
  OBVIOUS
<1>4. QED
  BY <1>1, <1>2, <1>3

\* One more time, if it is later than w after the 2 * n - 1st before it.
LEMMA AppendKeeps ==
    ASSUME NEW g \in Seq(Nat), NEW t \in Nat, NEW n \in Nat \ {0}, NEW w \in Nat,
           Ordered(g, t), Spaced(g, n, w),
           \A i \in 1 .. Len(g) : i <= Len(g) + 2 - 2 * n => g[i] + w < t
    PROVE  Ordered(Append(g, t), t) /\ Spaced(Append(g, t), n, w)
<1> DEFINE h == Append(g, t)
           l == Len(g)
<1>1. /\ l \in Nat /\ Len(h) = l + 1 /\ h[l + 1] = t
      /\ \A i \in 1 .. l : h[i] = g[i] /\ g[i] \in Nat
  BY AppendEffect, TimesAreNumbers
<1>2. /\ \A i \in 1 .. l : g[i] <= t /\ \A j \in 1 .. l : i <= j => g[i] <= g[j]
      /\ \A i, j \in 1 .. l : i + 2 * n - 1 <= j => g[i] + w < g[j]
      /\ \A i \in 1 .. l : i <= l + 2 - 2 * n => g[i] + w < t
  BY DEF Ordered, Spaced
<1> HIDE DEF h, l
<1>3. Ordered(h, t)
  BY <1>1, <1>2 DEF Ordered
<1>4. Spaced(h, n, w)
  <2>1. SUFFICES ASSUME NEW i \in 1 .. l + 1, NEW j \in 1 .. l + 1, i + 2 * n - 1 <= j
                 PROVE  h[i] + w < h[j]
    BY <1>1 DEF Spaced
  <2>2. i \in 1 .. l
    BY <1>1, <2>1
  <2>3. CASE j = l + 1
    BY <1>1, <1>2, <2>1, <2>2, <2>3
  <2>4. CASE j \in 1 .. l
    BY <1>1, <1>2, <2>1, <2>2, <2>4
  <2>5. QED
    BY <1>1, <2>3, <2>4
<1>5. QED
  BY <1>3, <1>4 DEF h

-----------------------------------------------------------------------------
(* A bucket and the times it has let through.                              *)

LEMMA LaterIsSteady ==
    ASSUME NEW g \in Seq(Nat), NEW c, NEW start \in Nat, NEW n \in Nat \ {0}, NEW w \in Nat,
           NEW t \in Nat, NEW u \in Nat, t <= u, Steady(g, c, start, n, w, t)
    PROVE  Steady(g, c, start, n, w, u)
BY TimesAreNumbers DEF Steady, Ordered, Apart

\* When a window is over, it is to the next what those before it were to it.
LEMMA OverIsApart ==
    ASSUME NEW g \in Seq(Nat), NEW c \in Nat, NEW start \in Nat, NEW n \in Nat \ {0},
           NEW w \in Nat, NEW t \in Nat, Steady(g, c, start, n, w, t),
           c = 0 \/ t - start > w
    PROVE  \A i \in 1 .. Len(g) : i <= Len(g) + 1 - n => g[i] + w < t
<1>1. CASE c = 0
  BY <1>1 DEF Steady, Apart
<1>2. CASE c # 0
  <2> DEFINE f == FirstOf(g, c, n)
  <2>1. /\ Len(g) \in Nat /\ \A i \in 1 .. Len(g) : g[i] \in Nat
        /\ LetThrough(c, n) \in 1 .. n
    BY <1>2, TimesAreNumbers DEF LetThrough
  <2>2. LetThrough(c, n) <= Len(g) /\ g[f] = start
    BY <1>2 DEF Steady, Apart
  <2>3. f \in 1 .. Len(g) /\ Len(g) + 1 - n <= f
    BY <2>1, <2>2 DEF FirstOf
  <2>4. ASSUME NEW i \in 1 .. Len(g), i <= f PROVE g[i] <= start
    BY <2>2, <2>3, <2>4 DEF Steady, Ordered
  <2> HIDE DEF f
  <2>5. ASSUME NEW i \in 1 .. Len(g), i <= Len(g) + 1 - n PROVE g[i] + w < t
    <3>1. g[i] <= start /\ g[i] \in Nat
      BY <2>1, <2>3, <2>4, <2>5
    <3>2. QED
      BY <1>2, <3>1
  <2>6. QED
    BY <2>5
<1>3. QED
  BY <1>1, <1>2

\* The first hit of a window.
LEMMA NewWindowIsSteady ==
    ASSUME NEW g \in Seq(Nat), NEW c \in Nat, NEW start \in Nat, NEW n \in Nat \ {0},
           NEW w \in Nat, NEW t \in Nat, Steady(g, c, start, n, w, t),
           c = 0 \/ t - start > w
    PROVE  Steady(Append(g, t), 1, t, n, w, t)
<1> DEFINE h == Append(g, t)
           l == Len(g)
<1>1. \A i \in 1 .. l : i <= l + 1 - n => g[i] + w < t
  BY OverIsApart
<1>2. /\ l \in Nat /\ Len(h) = l + 1 /\ h[l + 1] = t
      /\ \A i \in 1 .. l : h[i] = g[i] /\ g[i] \in Nat
  BY AppendEffect, TimesAreNumbers
<1>3. Ordered(h, t) /\ Spaced(h, n, w)
  <2>1. \A i \in 1 .. Len(g) : i <= Len(g) + 2 - 2 * n => g[i] + w < t
    BY <1>1, <1>2
  <2>2. QED
    BY <2>1, AppendKeeps DEF Steady
<1> HIDE DEF h, l
<1>4. LetThrough(1, n) = 1 /\ FirstOf(h, 1, n) = l + 1
  BY <1>2 DEF LetThrough, FirstOf
<1>5. Apart(h, 1, t, n, w, t)
  BY <1>1, <1>2, <1>4 DEF Apart
<1>6. QED
  BY <1>3, <1>5 DEF Steady, h

\* A hit in an open window that is within the limit, and one that is not.
LEMMA OpenWindowIsSteady ==
    ASSUME NEW g \in Seq(Nat), NEW c \in Nat \ {0}, NEW start \in Nat, NEW n \in Nat \ {0},
           NEW w \in Nat, NEW t \in Nat, Steady(g, c, start, n, w, t)
    PROVE  /\ c + 1 <= n => Steady(Append(g, t), c + 1, start, n, w, t)
           /\ c + 1 > n => Steady(g, c + 1, start, n, w, t)
<1> DEFINE h == Append(g, t)
           l == Len(g)
           f == FirstOf(g, c, n)
<1>1. /\ LetThrough(c, n) <= l /\ g[f] = start
      /\ \A i \in 1 .. l : i <= f - n => g[i] + w < start
  BY DEF Steady, Apart
<1>2. /\ l \in Nat /\ Len(h) = l + 1 /\ h \in Seq(Nat)
      /\ \A i \in 1 .. l : h[i] = g[i] /\ g[i] \in Nat
  BY AppendEffect, TimesAreNumbers
<1>3. f = l - LetThrough(c, n) + 1 /\ LetThrough(c, n) \in 1 .. n
  BY <1>2 DEF FirstOf, LetThrough
<1>4. CASE c + 1 > n
  <2>1. LetThrough(c + 1, n) = LetThrough(c, n)
    BY <1>4 DEF LetThrough
  <2>2. FirstOf(g, c + 1, n) = f
    BY <2>1 DEF FirstOf
  <2>3. Apart(g, c + 1, start, n, w, t)
    BY <1>1, <2>1, <2>2 DEF Apart
  <2>4. QED
    BY <1>4, <2>3 DEF Steady
<1>5. CASE c + 1 <= n
  <2>1. LetThrough(c, n) = c /\ LetThrough(c + 1, n) = c + 1
    BY <1>5 DEF LetThrough
  <2>2. f = l - c + 1 /\ f \in 1 .. l
    BY <1>1, <1>2, <1>3, <2>1
  <2>3. start <= t
    BY <1>1, <2>2 DEF Steady, Ordered
  <2>4. Ordered(h, t) /\ Spaced(h, n, w)
    <3>1. ASSUME NEW i \in 1 .. l, i <= l + 2 - 2 * n PROVE g[i] + w < t
      <4>1. i <= f - n
        BY <1>2, <1>5, <2>2, <3>1
      <4>2. g[i] + w < start /\ g[i] \in Nat
        BY <1>1, <1>2, <4>1
      <4>3. QED
        BY <2>3, <4>2
    <3>2. QED
      BY <3>1, AppendKeeps DEF Steady
  <2> HIDE DEF h, l, f
  <2>5. FirstOf(h, c + 1, n) = f
    BY <1>2, <2>1, <2>2 DEF FirstOf
  <2>6. Apart(h, c + 1, start, n, w, t)
    <3>1. LetThrough(c + 1, n) <= Len(h) /\ c + 1 # 0
      BY <1>1, <1>2, <2>1
    <3>2. h[f] = start
      BY <1>1, <1>2, <2>2
    <3>3. ASSUME NEW i \in 1 .. l + 1, i <= f - n PROVE h[i] + w < start
      <4>1. i \in 1 .. l
        BY <1>2, <2>2, <3>3
      <4>2. QED
        BY <1>1, <1>2, <3>3, <4>1
    <3>4. QED
      BY <1>2, <2>5, <3>1, <3>2, <3>3 DEF Apart
  <2>7. QED
    BY <1>5, <2>4, <2>6 DEF Steady, h
<1>6. QED
  BY <1>4, <1>5

-----------------------------------------------------------------------------
(* The steps.                                                              *)

LEMMA KeyTypes ==
    ASSUME LimitTypeOK, NEW k \in Key
    PROVE  /\ now \in Nat /\ Limit[k] \in Nat \ {0} /\ Window[k] \in Nat
           /\ bucket[k] \in [count : Nat, start : Nat]
           /\ bucket[k].count \in Nat /\ bucket[k].start \in Nat
           /\ grants[k] \in Seq(Nat)
<1>1. /\ now \in Nat /\ Limit[k] \in Nat \ {0} /\ Window[k] \in Nat
      /\ bucket[k] \in [count : Nat, start : Nat] /\ grants[k] \in Seq(Nat)
  BY RateLimitAssumption DEF LimitTypeOK
<1>2. QED
  BY <1>1

\* The clock, and the keys that a hit does not concern.
LEMMA SameKeyPaced ==
    ASSUME LimitTypeOK, NEW k \in Key, Paced(k), now' \in Nat, now' >= now,
           bucket'[k] = bucket[k], grants'[k] = grants[k]
    PROVE  Paced(k)'
BY KeyTypes, LaterIsSteady DEF Paced

LEMMA HitAllPaced ==
    ASSUME LimitTypeOK, NEW keys, HitAll(keys), now' = now, NEW k \in Key, Paced(k)
    PROVE  Paced(k)'
<1>1. /\ now \in Nat /\ Limit[k] \in Nat \ {0} /\ Window[k] \in Nat
      /\ bucket[k] \in [count : Nat, start : Nat]
      /\ bucket[k].count \in Nat /\ bucket[k].start \in Nat /\ grants[k] \in Seq(Nat)
  BY KeyTypes
<1>2. CASE k \notin keys
  <2>1. bucket'[k] = bucket[k] /\ grants'[k] = grants[k]
    BY <1>2 DEF HitAll
  <2>2. QED
    BY <2>1 DEF Paced
<1>3. CASE k \in keys
  <2>1. /\ bucket'[k] = AfterHit(bucket[k], k)
        /\ grants'[k] = IF Granted(bucket[k], k) THEN Append(grants[k], now) ELSE grants[k]
    BY <1>3 DEF HitAll
  <2>2. CASE bucket[k].count = 0 \/ Stale(bucket[k], k)
    <3>1. AfterHit(bucket[k], k) = [count |-> 1, start |-> now]
      BY <2>2 DEF AfterHit
    <3>2. Granted(bucket[k], k)
      BY <1>1, <3>1 DEF Granted
    <3>3. /\ bucket'[k].count = 1 /\ bucket'[k].start = now
          /\ grants'[k] = Append(grants[k], now)
      BY <2>1, <3>1, <3>2
    <3>4. Steady(Append(grants[k], now), 1, now, Limit[k], Window[k], now)
      BY <1>1, <2>2, NewWindowIsSteady DEF Stale, Paced
    <3>5. QED
      BY <3>3, <3>4 DEF Paced
  <2>3. CASE ~(bucket[k].count = 0 \/ Stale(bucket[k], k))
    <3>1. AfterHit(bucket[k], k) = [bucket[k] EXCEPT !.count = @ + 1]
      BY <2>3 DEF AfterHit
    <3>2. bucket'[k].count = bucket[k].count + 1 /\ bucket'[k].start = bucket[k].start
      BY <1>1, <2>1, <3>1
    <3>3. Granted(bucket[k], k) <=> bucket[k].count + 1 <= Limit[k]
      BY <2>1, <3>2 DEF Granted
    <3>4. /\ bucket[k].count + 1 <= Limit[k]
             => Steady(Append(grants[k], now), bucket[k].count + 1, bucket[k].start,
                       Limit[k], Window[k], now)
          /\ bucket[k].count + 1 > Limit[k]
             => Steady(grants[k], bucket[k].count + 1, bucket[k].start,
                       Limit[k], Window[k], now)
      BY <1>1, <2>3, OpenWindowIsSteady DEF Paced
    <3>5. CASE bucket[k].count + 1 <= Limit[k]
      BY <2>1, <3>2, <3>3, <3>4, <3>5 DEF Paced
    <3>6. CASE bucket[k].count + 1 > Limit[k]
      BY <1>1, <2>1, <3>2, <3>3, <3>4, <3>6 DEF Paced
    <3>7. QED
      BY <1>1, <3>5, <3>6
  <2>4. QED
    BY <2>2, <2>3
<1>4. QED
  BY <1>2, <1>3

\* A bucket that is swept is older than its window.
LEMMA SweepPaced ==
    ASSUME LimitTypeOK, SweepBuckets, now' = now, NEW k \in Key, Paced(k)
    PROVE  Paced(k)'
<1>1. /\ now \in Nat /\ Limit[k] \in Nat \ {0} /\ Window[k] \in Nat
      /\ bucket[k].count \in Nat /\ bucket[k].start \in Nat /\ grants[k] \in Seq(Nat)
      /\ SweepAge \in Nat /\ Window[k] <= SweepAge
  BY KeyTypes, RateLimitAssumption
<1>2. grants'[k] = grants[k]
  BY DEF SweepBuckets
<1>3. bucket'[k] = IF Swept(bucket[k]) THEN NoBucket ELSE bucket[k]
  BY DEF SweepBuckets
<1>4. CASE ~Swept(bucket[k])
  BY <1>2, <1>3, <1>4 DEF Paced
<1>5. CASE Swept(bucket[k])
  <2>1. now - bucket[k].start > Window[k]
    BY <1>1, <1>5 DEF Swept
  <2>2. \A i \in 1 .. Len(grants[k]) :
           i <= Len(grants[k]) + 1 - Limit[k] => grants[k][i] + Window[k] < now
    BY <1>1, <2>1, OverIsApart DEF Paced
  <2>3. bucket'[k].count = 0
    BY <1>3, <1>5 DEF NoBucket
  <2>4. Apart(grants[k], 0, bucket'[k].start, Limit[k], Window[k], now)
    BY <2>2 DEF Apart
  <2>5. QED
    BY <1>2, <2>3, <2>4 DEF Paced, Steady
<1>6. QED
  BY <1>4, <1>5

-----------------------------------------------------------------------------
Regular == \A k \in Key : Paced(k)

LEMMA NextRegular ==
    ASSUME TypeOK, TypeOK', Regular, [Next]_vars
    PROVE  Regular'
<1>1. LimitTypeOK /\ LimitTypeOK' /\ now \in Nat /\ now' \in Nat
  BY DEF TypeOK, LimitTypeOK
<1>2. CASE HitAll(Key) /\ now' = now
  BY <1>1, <1>2, HitAllPaced DEF Regular
<1>3. CASE SweepBuckets /\ now' = now
  BY <1>1, <1>3, SweepPaced DEF Regular
<1>4. CASE now' >= now /\ UNCHANGED <<bucket, grants>>
  BY <1>1, <1>4, SameKeyPaced DEF Regular
<1>5. ASSUME NEW x \in Session,
             \/ LoginRead(x) \/ Mint(x) \/ Insert(x) \/ Logout(x)
             \/ CheckUser(x) \/ CheckRow(x)
      PROVE  Regular'
  BY <1>1, <1>2, <1>4, <1>5
     DEF LoginRead, Mint, Insert, Logout, CheckUser, CheckRow, limitVars
<1>6. ASSUME NEW c \in Change,
             BeginChange(c) \/ UpdateUser(c) \/ WipeSessions(c) \/ CommitChange(c)
      PROVE  Regular'
  BY <1>1, <1>4, <1>6 DEF BeginChange, UpdateUser, WipeSessions, CommitChange, limitVars
<1>7. CASE DeleteUser \/ SweepSessions \/ SweepLimits
  BY <1>1, <1>3, <1>4, <1>7 DEF DeleteUser, SweepSessions, SweepLimits, limitVars
<1>8. CASE Tick \/ UNCHANGED vars
  BY <1>1, <1>4, <1>8 DEF Tick, limitVars, vars
<1>9. QED
  BY <1>5, <1>6, <1>7, <1>8 DEF Next

LEMMA InitRegular == Init => Regular
<1>1. SUFFICES ASSUME Init, NEW k \in Key PROVE Paced(k)
  BY DEF Regular
<1>2. grants[k] = <<>> /\ bucket[k].count = 0
  BY <1>1 DEF Init, LimitInit, NoBucket
<1>3. QED
  BY <1>2 DEF Paced, Steady, Ordered, Spaced, Apart

\* Of the times in a window the first is within a window of the last, which is
\* less than 2 * n times after it.
LEMMA SpacedAreFew ==
    ASSUME NEW g \in Seq(Nat), NEW t \in Nat, NEW u \in Nat, NEW n \in Nat \ {0},
           NEW w \in Nat, Ordered(g, u), Spaced(g, n, w)
    PROVE  Cardinality({i \in 1 .. Len(g) : t <= g[i] /\ g[i] <= t + w}) < 2 * n
<1> DEFINE S == {i \in 1 .. Len(g) : t <= g[i] /\ g[i] <= t + w}
<1>1. S \subseteq Nat /\ \A i \in S : g[i] \in Nat
  OBVIOUS
<1>2. CASE S = {}
  <2>1. Cardinality(S) = 0
    BY <1>2, FS_EmptySet
  <2> HIDE DEF S
  <2>2. Cardinality(S) < 2 * n
    BY <2>1
  <2>3. QED
    BY <2>2 DEF S
<1>3. CASE S # {}
  <2>1. PICK i \in S : \A j \in S : <<j, i>> \notin OpToRel(<, Nat)
    BY <1>1, <1>3, NatLessThanWellFounded, WFMin
  <2>2. ASSUME NEW j \in S PROVE j \in i .. (i + (2 * n - 2))
    <3>1. i \in Nat /\ j \in Nat /\ g[i] \in Nat /\ g[j] \in Nat
      BY <1>1
    <3>2. i <= j
      <4>1. OpToRel(<, Nat) = {p \in Nat \X Nat : p[1] < p[2]}
        BY DEF OpToRel
      <4>2. <<j, i>> \notin {p \in Nat \X Nat : p[1] < p[2]}
        BY <2>1, <4>1
      <4>3. ~(j < i)
        BY <3>1, <4>2
      <4>4. QED
        BY <3>1, <4>3
    <3>3. ~(i + 2 * n - 1 <= j)
      BY <3>1 DEF Spaced
    <3>4. QED
      BY <3>1, <3>2, <3>3
  <2>3. i \in Int /\ i + (2 * n - 2) \in Int
    BY <1>1
  <2> DEFINE T == i .. (i + (2 * n - 2))
  <2>4. IsFiniteSet(T) /\ Cardinality(T) = 2 * n - 1
    <3> DEFINE last == i + (2 * n - 2)
    <3>1. i \in Int /\ last \in Int /\ ~(i > last) /\ last - i + 1 = 2 * n - 1
      BY <2>3
    <3> HIDE DEF last
    <3>2. IsFiniteSet(i .. last)
      BY <3>1, FS_Interval
    <3>3. Cardinality(i .. last) = IF i > last THEN 0 ELSE last - i + 1
      BY <3>1, FS_Interval
    <3>4. Cardinality(i .. last) = 2 * n - 1
      BY <3>1, <3>3
    <3>5. QED
      BY <3>2, <3>4 DEF last
  <2>5. S \in SUBSET T
    BY <2>2
  <2> HIDE DEF S, T
  <2>6. Cardinality(S) <= Cardinality(T) /\ Cardinality(S) \in Nat
    BY <2>4, <2>5, FS_Subset, FS_CardinalityType
  <2>7. QED
    BY <2>4, <2>6 DEF S
<1>4. QED
  BY <1>2, <1>3

\* rateLimit and the sweep: in any stretch of time of the length of the window
\* less than twice the limit of a key is let through.
THEOREM LessThanTwiceIsLetThrough == Spec => []LessThanTwiceTheLimit
<1>1. Init => Regular
  BY InitRegular
<1>2. IInv /\ IInv' /\ Regular /\ [Next]_vars => Regular'
  BY NextRegular DEF IInv
<1>3. IInv /\ Regular => LessThanTwiceTheLimit
  <2>1. SUFFICES ASSUME IInv, Regular, NEW k \in Key, NEW t \in 0 .. now
                 PROVE  Cardinality({i \in DOMAIN grants[k] :
                            t <= grants[k][i] /\ grants[k][i] <= t + Window[k]})
                        < 2 * Limit[k]
    BY DEF LessThanTwiceTheLimit
  <2>2. /\ now \in Nat /\ Limit[k] \in Nat \ {0} /\ Window[k] \in Nat
        /\ grants[k] \in Seq(Nat) /\ t \in Nat
    BY <2>1, KeyTypes DEF IInv, TypeOK
  <2>3. Ordered(grants[k], now) /\ Spaced(grants[k], Limit[k], Window[k])
    BY <2>1 DEF Regular, Paced, Steady
  <2>4. Cardinality({i \in 1 .. Len(grants[k]) :
            t <= grants[k][i] /\ grants[k][i] <= t + Window[k]}) < 2 * Limit[k]
    BY <2>2, <2>3, SpacedAreFew
  <2>5. DOMAIN grants[k] = 1 .. Len(grants[k])
    BY <2>2
  <2>6. QED
    BY <2>4, <2>5
<1>4. QED
  BY <1>1, <1>2, <1>3, Inductive, PTL DEF Spec
=============================================================================
