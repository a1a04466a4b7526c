------------------------------ MODULE UserAdmin ------------------------------
(***************************************************************************)
(* User administration (src/web/src/app/api/users) and the seeders that    *)
(* make the first user (src/web/src/worker/bootstrap.ts).                  *)
(*                                                                         *)
(* Requests run concurrently, one SQL statement at a time, on PostgreSQL   *)
(* at READ COMMITTED: "SELECT id FROM users WHERE is_admin FOR UPDATE"     *)
(* takes its snapshot when it starts, locks the rows of that snapshot one  *)
(* after the other, waits for those that others hold and looks at each     *)
(* again once it has it.  Rows that become admins after the snapshot are   *)
(* not among them.                                                         *)
(*                                                                         *)
(* A user is a row of the users table, and a new one has an id that was    *)
(* never used.  The seeders go by a name instead, BOOTSTRAP_USERNAME,      *)
(* which is free again once its user is deleted; that and who has it is    *)
(* all that is kept of the names, which do not change.                     *)
(***************************************************************************)
EXTENDS Integers, FiniteSets

CONSTANTS
    User,         \* ids of users
    Boot,         \* the user of an old installation
    Request,      \* handlers of /api/users that may run at the same time
    NoOne         \* no request, no user

ASSUME UserAdminAssumption ==
    /\ Boot \in User
    /\ NoOne \notin Request \cup User
    /\ IsFiniteSet(User)

VARIABLES
    row,      \* [User -> Row]: the committed users table
    lock,     \* [User -> Request or NoOne]: the row locks
    req,      \* [Request -> Req]: the handlers under way
    late,     \* an admin was removed who was no admin in the snapshot; history
    boot,     \* the user called BOOTSTRAP_USERNAME, or NoOne
    worker,   \* where the worker's boot stands
    found,    \* the user its seeder of the sink has found
    marker,   \* the markers in app_meta
    ionos,    \* boot has a sink labelled IONOS
    seeds     \* how often it was seeded; history

adminVars == <<row, lock, req, late, boot>>
bootVars  == <<worker, found, marker, ionos, seeds>>
vars == <<adminVars, bootVars>>

Row == {"unborn", "member", "admin", "gone"}

\* What a PATCH (the first two) or a DELETE asks for.  A PATCH that leaves
\* is_admin alone is one that sets it to what it is.
Op == {"promote", "demote", "delete"}

\* gated    requireAdmin has let it in, the transaction has not begun
\* locking  SELECT ... FOR UPDATE: todo is still to be locked, of the
\*          snapshot snap; got is what the statement returns so far
Pc == {"idle", "gated", "locking"}
Req == [pc : Pc, op : Op, target : User, snap : SUBSET User,
        todo : SUBSET User, got : SUBSET User]
Idle == [pc |-> "idle", op |-> "promote", target |-> Boot, snap |-> {},
         todo |-> {}, got |-> {}]

\* The steps of bootstrap(), each about to happen.  Only the worker reads and
\* writes the markers, so that looking for one belongs to the step before.
WorkerPc == {"down", "countUsers", "insertUser", "findUser", "countSinks",
             "insertSink", "up"}

\* A handler that has ended holds no lock.
TypeOK ==
    /\ row \in [User -> Row]
    /\ lock \in [User -> Request \cup {NoOne}]
    /\ req \in [Request -> Req]
    /\ late \in BOOLEAN
    /\ boot \in User \cup {NoOne}
    /\ found \in User \cup {NoOne}
    /\ worker \in WorkerPc
    /\ marker \subseteq {"user", "sink"}
    /\ ionos \in BOOLEAN
    /\ seeds \in Nat
    /\ \A r \in Request : \A u \in User : lock[u] = r => req[r].pc = "locking"

Present(u) == row[u] \in {"member", "admin"}
Admins == {u \in User : row[u] = "admin"}

\* A new database, or one that was set up before there were markers and
\* whose oldest user migration 0011 has made an admin.
Init ==
    /\ \/ row = [u \in User |-> "unborn"] /\ boot = NoOne
       \/ row = [u \in User |-> IF u = Boot THEN "admin" ELSE "unborn"] /\ boot = Boot
    /\ lock = [u \in User |-> NoOne]
    /\ req = [r \in Request |-> Idle]
    /\ late = FALSE
    /\ worker = "down"
    /\ found = NoOne
    /\ marker = {}
    /\ ionos = FALSE
    /\ seeds = 0

-----------------------------------------------------------------------------
(* PATCH and DELETE /api/users/[id], POST /api/users.                      *)

\* requireAdmin passes, the request is not the actor's own demotion or
\* deletion, and loadTarget finds the target.  All of it may change before
\* the transaction begins.
Gate(r) ==
    /\ req[r].pc = "idle"
    /\ \E actor \in Admins, target \in User, op \in Op :
          /\ op \in {"demote", "delete"} => target # actor
          /\ Present(target)
          /\ req' = [req EXCEPT ![r] = [Idle EXCEPT !.pc = "gated", !.op = op,
                                                    !.target = target]]
    /\ UNCHANGED <<row, lock, late, boot, bootVars>>

\* The statement starts: its snapshot holds the admins of this moment.
SelectAdmins(r) ==
    /\ req[r].pc = "gated"
    /\ req' = [req EXCEPT ![r] = [@ EXCEPT !.pc = "locking", !.snap = Admins,
                                           !.todo = Admins]]
    /\ UNCHANGED <<row, lock, late, boot, bootVars>>

\* It locks one more row of the snapshot, once nobody else holds it.  A row
\* that is gone is skipped; one that is no admin any more stays locked but
\* is not returned.
LockAdmin(r) ==
    /\ req[r].pc = "locking"
    /\ \E u \in req[r].todo :
          /\ lock[u] = NoOne
          /\ req' = [req EXCEPT ![r].todo = @ \ {u},
                                ![r].got = IF u \in Admins THEN @ \cup {u} ELSE @]
          /\ lock' = IF Present(u) THEN [lock EXCEPT ![u] = r] ELSE lock
    /\ UNCHANGED <<row, late, boot, bootVars>>

Release(r) == [u \in User |-> IF lock[u] = r THEN NoOne ELSE lock[u]]

\* The mutant looks before it locks: it counts the snapshot.
RemovesLastAdminUnlocked(r) ==
    /\ req[r].op \in {"demote", "delete"}
    /\ Cardinality(req[r].snap) <= 1
    /\ req[r].target \in req[r].snap

\* removesLastAdmin
RemovesLastAdmin(r) ==
    /\ req[r].op \in {"demote", "delete"}
    /\ Cardinality(req[r].got) <= 1
    /\ req[r].target \in req[r].got

Locked(r) == req[r].pc = "locking" /\ req[r].todo = {}

\* LastAdminError rolls the transaction back.
Refuse(r) ==
    /\ Locked(r)
    /\ RemovesLastAdmin(r)
    /\ lock' = Release(r)
    /\ req' = [req EXCEPT ![r] = Idle]
    /\ UNCHANGED <<row, late, boot, bootVars>>

NewRow(op) ==
    CASE op = "promote" -> "admin"
      [] op = "demote"  -> "member"
      [] op = "delete"  -> "gone"

\* The UPDATE or DELETE, which waits for the target's row, and the commit.  A
\* target that is gone by now matches no row.  Sinks go with their user.
Apply(r) ==
    LET op == req[r].op
        u  == req[r].target
    IN  /\ Locked(r)
        /\ ~RemovesLastAdmin(r)
        /\ lock[u] \in {r, NoOne}
        /\ row' = IF Present(u) THEN [row EXCEPT ![u] = NewRow(op)] ELSE row
        /\ late' = (late \/ /\ op \in {"demote", "delete"}
                            /\ u \in Admins \ req[r].snap)
        /\ IF u = boot /\ op = "delete" THEN boot' = NoOne /\ ionos' = FALSE
                                       ELSE UNCHANGED <<boot, ionos>>
        /\ lock' = Release(r)
        /\ req' = [req EXCEPT ![r] = Idle]
        /\ UNCHANGED <<worker, found, marker, seeds>>

\* The handler ends early: the rate limit, a deadlock PostgreSQL resolves by
\* this victim, a lost connection, the death of the web process.
Abort(r) ==
    /\ req[r].pc # "idle"
    /\ lock' = Release(r)
    /\ req' = [req EXCEPT ![r] = Idle]
    /\ UNCHANGED <<row, late, boot, bootVars>>

\* POST /api/users: an INSERT of its own, after the same gate.  The actor may
\* have lost the role in between; all that matters is that there was an admin.
\* The new user may have any name that is free.
CreateUser ==
    /\ Admins # {}
    /\ \E u \in User, kind \in {"member", "admin"} :
          /\ row[u] = "unborn"
          /\ row' = [row EXCEPT ![u] = kind]
          /\ boot' \in IF boot = NoOne THEN {NoOne, u} ELSE {boot}
    /\ UNCHANGED <<lock, req, late, bootVars>>

-----------------------------------------------------------------------------
(* bootstrap(), in the boot of the worker.                                 *)

At(pc) == worker = pc
GoTo(pc) == worker' = pc
SinkStep == IF "sink" \in marker THEN "up" ELSE "findUser"

\* BOOTSTRAP_USERNAME=skip disables both seeders.
StartWorker ==
    /\ At("down")
    /\ \/ GoTo("up")
       \/ GoTo(IF "user" \in marker THEN SinkStep ELSE "countUsers")
    /\ UNCHANGED <<adminVars, found, marker, ionos, seeds>>

\* The mutant asks for the bootstrap user rather than for any.
CountBootUser ==
    /\ At("countUsers")
    /\ \/ /\ boot # NoOne
          /\ marker' = marker \cup {"user"} /\ GoTo(SinkStep)
       \/ /\ boot = NoOne
          /\ GoTo("insertUser") \/ GoTo(SinkStep)
          /\ UNCHANGED marker
    /\ UNCHANGED <<adminVars, found, ionos, seeds>>

\* If there are users only the marker is set.  A weak or missing
\* BOOTSTRAP_PASSWORD is refused without one.
CountUsers ==
    /\ At("countUsers")
    /\ \/ /\ \E u \in User : Present(u)
          /\ marker' = marker \cup {"user"} /\ GoTo(SinkStep)
       \/ /\ \A u \in User : ~Present(u)
          /\ GoTo("insertUser") \/ GoTo(SinkStep)
          /\ UNCHANGED marker
    /\ UNCHANGED <<adminVars, found, ionos, seeds>>

\* One transaction: the user, ON CONFLICT (username) DO NOTHING, and the marker.
InsertUser ==
    /\ At("insertUser")
    /\ IF boot # NoOne
       THEN UNCHANGED <<row, boot>>
       ELSE \E u \in User : /\ row[u] = "unborn"
                            /\ row' = [row EXCEPT ![u] = "admin"]
                            /\ boot' = u
    /\ marker' = marker \cup {"user"}
    /\ GoTo(SinkStep)
    /\ UNCHANGED <<lock, req, late, found, ionos, seeds>>

\* findBootstrapUserId
FindUser ==
    /\ At("findUser")
    /\ GoTo(IF boot = NoOne THEN "up" ELSE "countSinks")
    /\ found' = boot
    /\ UNCHANGED <<adminVars, marker, ionos, seeds>>

\* If the user that was found has such a sink only the marker is set.
CountSinks ==
    /\ At("countSinks")
    /\ IF found = boot /\ ionos
       THEN marker' = marker \cup {"sink"} /\ GoTo("up") /\ found' = NoOne
       ELSE GoTo("insertSink") /\ UNCHANGED <<found, marker>>
    /\ UNCHANGED <<adminVars, ionos, seeds>>

\* The mutant sets the marker in a transaction of its own, after the sink,
\* and dies in between.
InsertSinkWithoutMark ==
    /\ At("insertSink")
    /\ found = boot
    /\ ionos' = TRUE /\ seeds' = seeds + 1 /\ GoTo("down") /\ found' = NoOne
    /\ UNCHANGED <<adminVars, marker>>

\* One transaction: the sink and the marker.  If the user is gone, the
\* foreign key makes it throw, and the process ends; a new user of that name
\* has another id.
InsertSink ==
    /\ At("insertSink")
    /\ IF found = boot
       THEN /\ ionos' = TRUE
            /\ marker' = marker \cup {"sink"}
            /\ seeds' = seeds + 1
            /\ GoTo("up")
       ELSE GoTo("down") /\ UNCHANGED <<ionos, marker, seeds>>
    /\ found' = NoOne
    /\ UNCHANGED adminVars

\* The worker is stopped, or fails at any step of its boot.
WorkerDies ==
    /\ ~At("down")
    /\ GoTo("down")
    /\ found' = NoOne
    /\ UNCHANGED <<adminVars, marker, ionos, seeds>>

\* The user makes a sink with that label, or deletes it.
EditSinks ==
    /\ boot # NoOne
    /\ ionos' = ~ionos
    /\ UNCHANGED <<adminVars, worker, found, marker, seeds>>

Boots == \/ StartWorker \/ CountUsers \/ InsertUser
         \/ FindUser \/ CountSinks \/ InsertSink

Handles(r) == \/ Gate(r) \/ SelectAdmins(r) \/ LockAdmin(r)
              \/ Refuse(r) \/ Apply(r) \/ Abort(r)

Next == \/ \E r \in Request : Handles(r)
        \/ CreateUser \/ EditSinks
        \/ Boots \/ WorkerDies

Spec == Init /\ [][Next]_vars

-----------------------------------------------------------------------------
(* Properties.                                                             *)

\* Once there are users, one of them is an admin, whatever demotions,
\* deletions, promotions and password resets run at the same time.  The
\* exception is late: the comment at api/users/[id]/route.ts:164 says that
\* concurrent deletes can't race the last admin away, but a request that removes
\* one who was made an admin after its snapshot does.
AdminRemainsUnlessLate ==
    late \/ Admins # {} \/ \A u \in User : row[u] = "unborn"

\* The sink is seeded once in the life of the database, across restarts,
\* and although the user may have deleted it since.
SinkSeededOnce == seeds <= 1

\* The seeder makes a user only where there has never been one: a boot that
\* died before its marker, and finds the first admin deleted when it comes back,
\* does not bring that account and its initial password back.  The exception is
\* late, after which no admin may be left and the last user be deleted.
SeedsOnlyTheFirst ==
    [][InsertUser /\ row' # row => late \/ \A u \in User : row[u] = "unborn"]_vars
=============================================================================
