--------------------------- MODULE UserAdminProofs ---------------------------
(***************************************************************************)
(* Theorems about UserAdmin, for any set of users and any number of        *)
(* requests: type correctness, and that the guard of the last admin holds  *)
(* its promise as long as nobody is removed who became an admin too late   *)
(* to be locked.                                                           *)
(*                                                                         *)
(* What makes the guard right is not what it counts but what it holds: the *)
(* rows that it counts are locked, so that nobody else can demote or       *)
(* delete them before it commits (Sound).                                  *)
(***************************************************************************)
EXTENDS UserAdmin, FiniteSetTheorems, TLAPS

Unborn == \A u \in User : row[u] = "unborn"

\* What a request that is locking knows: the admins it has got are admins and
\* its own; of the snapshot, what is not left to lock is its own or gone, and
\* if it is an admin it has been counted.
Sound(r) ==
    /\ \A u \in req[r].got : row[u] = "admin" /\ lock[u] = r
    /\ \A u \in req[r].snap : row[u] # "unborn"
    /\ \A u \in req[r].snap \ req[r].todo :
          Present(u) => /\ lock[u] = r
                        /\ row[u] = "admin" => u \in req[r].got

Safe ==
    /\ Admins # {} \/ Unborn
    /\ worker = "insertUser" => Unborn
    /\ \A r \in Request : req[r].pc = "locking" => Sound(r)
    /\ \A r \in Request : req[r].pc # "locking" => req[r].got = {}

\* The inductive invariant.
IInv == TypeOK /\ (late \/ Safe)

-----------------------------------------------------------------------------
(* Type correctness.                                                       *)

\* A handler that ends gives back its locks and leaves those of the others.
LEMMA EndingKeepsTypes ==
    ASSUME TypeOK, NEW r \in Request, lock' = Release(r),
           req' = [req EXCEPT ![r] = Idle]
    PROVE  /\ lock' \in [User -> Request \cup {NoOne}]
           /\ req' \in [Request -> Req]
           /\ \A q \in Request : \A u \in User :
                 lock'[u] = q => req'[q].pc = "locking"
<1>1. Idle \in Req
  BY UserAdminAssumption DEF Idle, Req, Pc, Op
<1>2. \A u \in User : lock'[u] # r
  BY UserAdminAssumption DEF Release, TypeOK
<1>3. QED
  BY <1>1, <1>2, UserAdminAssumption DEF Release, TypeOK

\* Steps of the boot leave the handlers alone.
LEMMA BootKeepsTypes ==
    ASSUME TypeOK, Boots \/ WorkerDies
    PROVE  TypeOK'
<1>1. CASE StartWorker
  BY <1>1 DEF StartWorker, SinkStep, At, GoTo, TypeOK, adminVars, WorkerPc
<1>2. CASE CountUsers
  BY <1>2 DEF CountUsers, SinkStep, At, GoTo, TypeOK, adminVars, WorkerPc
<1>3. CASE InsertUser
  <2>1. row' \in [User -> Row] /\ boot' \in User \cup {NoOne}
    BY <1>3 DEF InsertUser, TypeOK, Row
  <2>2. QED
    BY <1>3, <2>1 DEF InsertUser, SinkStep, At, GoTo, TypeOK, WorkerPc
<1>4. CASE FindUser
  BY <1>4 DEF FindUser, At, GoTo, TypeOK, adminVars, WorkerPc
<1>5. CASE CountSinks
  BY <1>5 DEF CountSinks, At, GoTo, TypeOK, adminVars, WorkerPc
<1>6. CASE InsertSink
  <2>1. worker' \in WorkerPc /\ UNCHANGED adminVars
    BY <1>6 DEF InsertSink, GoTo, WorkerPc
  <2>2. ionos' \in BOOLEAN
    BY <1>6 DEF InsertSink, TypeOK
  <2>3. marker' \subseteq {"user", "sink"}
    BY <1>6 DEF InsertSink, TypeOK
  <2>4. seeds' \in Nat
    <3>1. seeds' = seeds + 1 \/ seeds' = seeds
      BY <1>6 DEF InsertSink
    <3>2. QED
      BY <3>1 DEF TypeOK
  <2>5. found' = NoOne
    BY <1>6 DEF InsertSink
  <2>6. QED
    BY <2>1, <2>2, <2>3, <2>4, <2>5 DEF TypeOK, adminVars
<1>7. CASE WorkerDies
  BY <1>7 DEF WorkerDies, At, GoTo, TypeOK, adminVars, WorkerPc
<1>8. QED
  BY <1>1, <1>2, <1>3, <1>4, <1>5, <1>6, <1>7 DEF Boots

LEMMA InitTypes == Init => TypeOK
<1> SUFFICES ASSUME Init PROVE TypeOK
  OBVIOUS
<1>1. Idle \in Req
  BY UserAdminAssumption DEF Idle, Req, Pc, Op
<1>2. row \in [User -> Row]
  BY DEF Init, Row
<1>3. lock \in [User -> Request \cup {NoOne}] /\ \A u \in User : lock[u] \notin Request
  BY UserAdminAssumption DEF Init
<1>4. QED
  BY <1>1, <1>2, <1>3, UserAdminAssumption DEF Init, TypeOK, WorkerPc

LEMMA NextTypes == TypeOK /\ [Next]_vars => TypeOK'
<1> SUFFICES ASSUME TypeOK, [Next]_vars PROVE TypeOK'
  OBVIOUS
<1>1. ASSUME NEW r \in Request, Gate(r) PROVE TypeOK'
  <2>1. PICK target \in User, op \in Op :
           req' = [req EXCEPT ![r] = [Idle EXCEPT !.pc = "gated", !.op = op,
                                                 !.target = target]]
    BY <1>1 DEF Gate
  <2>2. [Idle EXCEPT !.pc = "gated", !.op = op, !.target = target] \in Req
    BY UserAdminAssumption DEF Idle, Req, Pc, Op
  <2>3. \A u \in User : lock[u] # r
    BY <1>1 DEF Gate, TypeOK
  <2>4. QED
    BY <1>1, <2>1, <2>2, <2>3 DEF Gate, TypeOK, bootVars
<1>2. ASSUME NEW r \in Request, SelectAdmins(r) PROVE TypeOK'
  <2>1. [req[r] EXCEPT !.pc = "locking", !.snap = Admins, !.todo = Admins] \in Req
    BY DEF TypeOK, Req, Pc, Admins
  <2>2. QED
    BY <1>2, <2>1 DEF SelectAdmins, TypeOK, bootVars
<1>3. ASSUME NEW r \in Request, LockAdmin(r) PROVE TypeOK'
  <2>1. PICK u \in req[r].todo :
           /\ req' = [req EXCEPT ![r].todo = @ \ {u},
                                 ![r].got = IF u \in Admins THEN @ \cup {u} ELSE @]
           /\ lock' = IF Present(u) THEN [lock EXCEPT ![u] = r] ELSE lock
    BY <1>3 DEF LockAdmin
  <2>2. u \in User /\ req[r].pc = "locking" /\ req[r] \in Req
    BY <1>3, <2>1 DEF LockAdmin, TypeOK, Req
  <2>3. req' \in [Request -> Req] /\ \A q \in Request : req'[q].pc = req[q].pc
    BY <2>1, <2>2 DEF TypeOK, Req
  <2>4. lock' \in [User -> Request \cup {NoOne}]
    BY <2>1, <2>2 DEF TypeOK
  <2>5. \A q \in Request : \A v \in User : lock'[v] = q => req'[q].pc = "locking"
    BY <2>1, <2>2, <2>3 DEF TypeOK
  <2>6. QED
    BY <1>3, <2>3, <2>4, <2>5 DEF LockAdmin, TypeOK, bootVars
<1>4. ASSUME NEW r \in Request, Refuse(r) PROVE TypeOK'
  BY <1>4, EndingKeepsTypes DEF Refuse, TypeOK, bootVars
<1>5. ASSUME NEW r \in Request, Apply(r) PROVE TypeOK'
  <2>1. req[r].target \in User /\ NewRow(req[r].op) \in Row
    BY DEF TypeOK, Req, Op, NewRow, Row
  <2>2. /\ row' \in [User -> Row] /\ late' \in BOOLEAN /\ ionos' \in BOOLEAN
        /\ boot' \in User \cup {NoOne}
    BY <1>5, <2>1 DEF Apply, TypeOK
  <2>3. QED
    BY <1>5, <2>2, EndingKeepsTypes DEF Apply, TypeOK
<1>6. ASSUME NEW r \in Request, Abort(r) PROVE TypeOK'
  BY <1>6, EndingKeepsTypes DEF Abort, TypeOK, bootVars
<1>7. CASE CreateUser
  <2>1. row' \in [User -> Row] /\ boot' \in User \cup {NoOne}
    BY <1>7 DEF CreateUser, TypeOK, Row
  <2>2. QED
    BY <1>7, <2>1 DEF CreateUser, TypeOK, bootVars
<1>8. CASE EditSinks
  BY <1>8 DEF EditSinks, TypeOK, adminVars
<1>9. CASE UNCHANGED vars
  BY <1>9 DEF vars, adminVars, bootVars, TypeOK
<1>10. QED
  BY <1>1, <1>2, <1>3, <1>4, <1>5, <1>6, <1>7, <1>8, <1>9, BootKeepsTypes
     DEF Next, Handles

\* Every reachable state of users/[id]/route.ts and bootstrap.ts is
\* type-correct; in particular a handler that has ended holds no row lock.
THEOREM TypeCorrect == Spec => []TypeOK
  BY InitTypes, NextTypes, PTL DEF Spec

-----------------------------------------------------------------------------
(* The last admin.                                                         *)

\* What a request knows stays true while no row changes and nobody takes its
\* locks.
LEMMA SoundKept ==
    ASSUME TypeOK, NEW q \in Request, Sound(q), req'[q] = req[q], UNCHANGED row,
           \A u \in User : lock[u] = q => lock'[u] = q
    PROVE  Sound(q)'
<1>1. req[q].got \subseteq User /\ req[q].snap \subseteq User
  BY DEF TypeOK, Req
<1>2. QED
  BY <1>1 DEF Sound, Present

\* If no row changes and the boot goes elsewhere, all depends on what the
\* requests know.
LEMMA SafeIfSound ==
    ASSUME Safe, UNCHANGED row, worker' = "insertUser" => Unborn,
           \A q \in Request : req'[q].pc = "locking" => Sound(q)',
           \A q \in Request : req'[q].pc # "locking" => req'[q].got = {}
    PROVE  Safe'
  BY DEF Safe, Admins, Unborn

LEMMA EndingIsSafe ==
    ASSUME TypeOK, Safe, NEW r \in Request, UNCHANGED <<row, worker>>,
           lock' = Release(r), req' = [req EXCEPT ![r] = Idle]
    PROVE  Safe'
<1>1. req'[r].pc # "locking" /\ req'[r].got = {}
  BY DEF TypeOK, Idle
<1>2. ASSUME NEW q \in Request, q # r PROVE req'[q] = req[q]
  BY <1>2 DEF TypeOK
<1>3. ASSUME NEW q \in Request, req'[q].pc = "locking" PROVE Sound(q)'
  <2>1. q # r /\ req'[q] = req[q]
    BY <1>1, <1>2, <1>3
  <2>2. \A u \in User : lock[u] = q => lock'[u] = q
    BY <2>1 DEF Release
  <2>3. QED
    BY <1>3, <2>1, <2>2, SoundKept DEF Safe
<1>4. QED
  BY <1>1, <1>2, <1>3, SafeIfSound DEF Safe

LEMMA GateIsSafe ==
    ASSUME TypeOK, Safe, NEW r \in Request, Gate(r)
    PROVE  Safe'
<1>1. req'[r].pc # "locking" /\ req'[r].got = {}
  BY DEF Gate, TypeOK, Idle
<1>2. ASSUME NEW q \in Request, q # r PROVE req'[q] = req[q]
  BY <1>2 DEF Gate, TypeOK
<1>3. ASSUME NEW q \in Request, req'[q].pc = "locking" PROVE Sound(q)'
  <2>1. req'[q] = req[q]
    BY <1>1, <1>2, <1>3
  <2>2. QED
    BY <1>3, <2>1, SoundKept DEF Safe, Gate
<1>4. QED
  BY <1>1, <1>2, <1>3, SafeIfSound DEF Safe, Gate, bootVars

LEMMA SelectIsSafe ==
    ASSUME TypeOK, Safe, NEW r \in Request, SelectAdmins(r)
    PROVE  Safe'
<1>1. req'[r].pc = "locking" /\ req'[r].snap = Admins /\ req'[r].todo = Admins
      /\ req'[r].got = req[r].got
  BY DEF SelectAdmins, TypeOK, Req
<1>2. req[r].got = {}
  BY DEF SelectAdmins, Safe
<1>3. Sound(r)'
  BY <1>1, <1>2 DEF SelectAdmins, Sound, Admins
<1>4. ASSUME NEW q \in Request, q # r PROVE req'[q] = req[q]
  BY <1>4 DEF SelectAdmins, TypeOK
<1>5. ASSUME NEW q \in Request, req'[q].pc = "locking" PROVE Sound(q)'
  <2>1. CASE q = r
    BY <1>3, <2>1
  <2>2. CASE q # r
    BY <1>4, <1>5, <2>2, SoundKept DEF Safe, SelectAdmins
  <2>3. QED
    BY <2>1, <2>2
<1>6. QED
  BY <1>1, <1>4, <1>5, SafeIfSound DEF Safe, SelectAdmins, bootVars

LEMMA LockIsSafe ==
    ASSUME TypeOK, Safe, NEW r \in Request, LockAdmin(r)
    PROVE  Safe'
<1>1. PICK u \in req[r].todo :
         /\ lock[u] = NoOne
         /\ req' = [req EXCEPT ![r].todo = @ \ {u},
                               ![r].got = IF u \in Admins THEN @ \cup {u} ELSE @]
         /\ lock' = IF Present(u) THEN [lock EXCEPT ![u] = r] ELSE lock
  BY DEF LockAdmin
<1>2. u \in User /\ req[r].pc = "locking" /\ UNCHANGED <<row, worker>>
  BY <1>1 DEF LockAdmin, TypeOK, Req, bootVars
<1>3. req[r].got \subseteq User /\ req[r].snap \subseteq User
  BY DEF TypeOK, Req
<1>4. /\ req'[r].pc = "locking"
      /\ req'[r].snap = req[r].snap
      /\ req'[r].todo = req[r].todo \ {u}
      /\ req'[r].got = IF u \in Admins THEN req[r].got \cup {u} ELSE req[r].got
  BY <1>1, <1>2 DEF TypeOK, Req
<1>5. /\ Present(u) => lock'[u] = r
      /\ \A v \in User : v # u => lock'[v] = lock[v]
      /\ \A v \in User : lock[v] = r => lock'[v] = r
  BY <1>1, <1>2 DEF TypeOK
<1>6. Sound(r)'
  <2>1. Sound(r)
    BY <1>2 DEF Safe
  <2>2. \A v \in req'[r].got : row'[v] = "admin" /\ lock'[v] = r
    BY <1>2, <1>3, <1>4, <1>5, <2>1 DEF Sound, Admins, Present
  <2>3. \A v \in req'[r].snap \ req'[r].todo :
           row'[v] \in {"member", "admin"} =>
              lock'[v] = r /\ (row'[v] = "admin" => v \in req'[r].got)
    BY <1>2, <1>3, <1>4, <1>5, <2>1 DEF Sound, Admins, Present
  <2>4. QED
    BY <1>2, <1>4, <2>1, <2>2, <2>3 DEF Sound, Present
<1>7. ASSUME NEW q \in Request, q # r PROVE req'[q] = req[q]
  BY <1>1, <1>7 DEF TypeOK
<1>8. ASSUME NEW q \in Request, req'[q].pc = "locking" PROVE Sound(q)'
  <2>1. CASE q = r
    BY <1>6, <2>1
  <2>2. CASE q # r
    <3>1. \A v \in User : lock[v] = q => lock'[v] = q
      BY <1>1, <1>5, UserAdminAssumption
    <3>2. QED
      BY <1>2, <1>7, <1>8, <2>2, <3>1, SoundKept DEF Safe
  <2>3. QED
    BY <2>1, <2>2
<1>9. QED
  BY <1>2, <1>4, <1>7, <1>8, SafeIfSound DEF Safe
\* The target of the UPDATE or DELETE is nobody else's, so that what others
\* know of their rows stays true.
LEMMA ApplyKeepsOthersSound ==
    ASSUME TypeOK, Safe, NEW r \in Request, Apply(r),
           NEW q \in Request, q # r, req[q].pc = "locking"
    PROVE  req'[q] = req[q] /\ Sound(q)'
<1> DEFINE u == req[r].target
<1>1. req'[q] = req[q] /\ Sound(q)
  BY DEF Apply, TypeOK, Safe
<1>2. u \in User /\ lock[u] # q /\ NewRow(req[r].op) # "unborn"
  BY UserAdminAssumption DEF Apply, TypeOK, Req, Op, NewRow
<1>3. \A v \in User : v # u => row'[v] = row[v]
  BY DEF Apply, TypeOK
<1>4. Present(u) \/ row'[u] = row[u]
  BY DEF Apply
<1>5. row'[u] = row[u] \/ row'[u] = NewRow(req[r].op)
  BY <1>2 DEF Apply, TypeOK
<1>6. \A v \in User : lock[v] = q => lock'[v] = q
  BY DEF Apply, Release
<1>7. req[q].got \subseteq User /\ req[q].snap \subseteq User
  BY DEF TypeOK, Req
<1>8. \A v \in req[q].got : row'[v] = "admin" /\ lock'[v] = q
  BY <1>1, <1>2, <1>3, <1>6, <1>7 DEF Sound
<1>9. \A v \in req[q].snap : row'[v] # "unborn"
  BY <1>1, <1>2, <1>3, <1>5, <1>7 DEF Sound
<1>10. ASSUME NEW v \in req[q].snap \ req[q].todo, row'[v] \in {"member", "admin"}
       PROVE  lock'[v] = q /\ (row'[v] = "admin" => v \in req[q].got)
  <2>1. row'[v] = row[v]
    BY <1>1, <1>2, <1>3, <1>4, <1>7 DEF Sound
  <2>2. QED
    BY <1>1, <1>6, <1>7, <1>10, <2>1 DEF Sound, Present
<1>11. QED
  BY <1>1, <1>8, <1>9, <1>10 DEF Sound, Present

\* The guard: what it counts is locked, so that an admin who is counted beside
\* the target is still one after the commit.
LEMMA ApplyLeavesAnAdmin ==
    ASSUME TypeOK, Safe, NEW r \in Request, Apply(r), ~late', Admins # {}
    PROVE  Admins' # {}
<1> DEFINE u == req[r].target
           op == req[r].op
<1>1. u \in User /\ op \in Op /\ req[r].pc = "locking" /\ req[r].todo = {}
  BY DEF Apply, Locked, TypeOK, Req
<1>2. \A v \in User : v # u => row'[v] = row[v]
  BY DEF Apply, TypeOK
<1>3. CASE u \notin Admins
  <2>1. PICK a \in User : row[a] = "admin"
    BY DEF Admins
  <2>2. row'[a] = "admin"
    BY <1>2, <1>3, <2>1 DEF Admins
  <2>3. QED
    BY <2>2 DEF Admins
<1>4. CASE u \in Admins /\ op = "promote"
  <2>1. row'[u] = "admin"
    BY <1>1, <1>4 DEF Apply, NewRow, TypeOK, Admins
  <2>2. QED
    BY <1>1, <2>1 DEF Admins
<1>5. CASE u \in Admins /\ op \in {"demote", "delete"}
  <2>1. u \in req[r].snap
    BY <1>5 DEF Apply
  <2>2. Sound(r) /\ u \in req[r].got /\ req[r].got \subseteq User
    BY <1>1, <1>5, <2>1 DEF Safe, Sound, Present, Admins, TypeOK, Req
  <2>3. ~(Cardinality(req[r].got) <= 1)
    BY <1>5, <2>2 DEF Apply, RemovesLastAdmin
  <2>4. PICK a \in req[r].got : a # u
    <3>1. Cardinality({u}) = 1
      BY FS_Singleton
    <3>2. req[r].got # {u}
      BY <2>3, <3>1
    <3>3. QED
      BY <2>2, <3>2
  <2>5. row'[a] = "admin" /\ a \in User
    BY <1>2, <2>2, <2>4 DEF Sound
  <2>6. QED
    BY <2>5 DEF Admins
<1>6. QED
  BY <1>1, <1>3, <1>4, <1>5 DEF Op

LEMMA ApplyIsSafe ==
    ASSUME TypeOK, Safe, NEW r \in Request, Apply(r), ~late'
    PROVE  Safe'
<1>1. req'[r].pc # "locking" /\ req'[r].got = {}
  BY DEF Apply, TypeOK, Idle
<1>2. \A q \in Request : q # r => req'[q] = req[q]
  BY DEF Apply, TypeOK
<1>3. Unborn => UNCHANGED row
  BY DEF Unborn, Apply, Present, TypeOK, Req
<1>4. Admins' # {} \/ Unborn'
  BY <1>3, ApplyLeavesAnAdmin DEF Safe, Unborn
<1>5. worker' = "insertUser" => Unborn'
  BY <1>3 DEF Safe, Apply, Unborn
<1>6. \A q \in Request : req'[q].pc = "locking" => Sound(q)'
  BY <1>1, <1>2, ApplyKeepsOthersSound
<1>7. QED
  BY <1>1, <1>2, <1>4, <1>5, <1>6 DEF Safe

LEMMA CreateIsSafe ==
    ASSUME TypeOK, Safe, CreateUser
    PROVE  Safe'
<1>1. PICK u \in User, kind \in {"member", "admin"} :
         row[u] = "unborn" /\ row' = [row EXCEPT ![u] = kind]
  BY DEF CreateUser
<1>2. PICK a \in User : row[a] = "admin"
  BY DEF CreateUser, Admins
<1>3. row'[a] = "admin" /\ \A v \in User : v # u => row'[v] = row[v]
  BY <1>1, <1>2 DEF TypeOK
<1>4. UNCHANGED <<req, lock, worker>> /\ worker # "insertUser"
  BY <1>2 DEF CreateUser, bootVars, Safe, Unborn
<1>5. ASSUME NEW q \in Request, req[q].pc = "locking" PROVE Sound(q)'
  <2>1. Sound(q) /\ req[q].got \subseteq User /\ req[q].snap \subseteq User
    BY <1>5 DEF Safe, TypeOK, Req
  <2>2. u \notin req[q].got /\ u \notin req[q].snap
    BY <1>1, <2>1 DEF Sound
  <2>3. QED
    BY <1>3, <1>4, <2>1, <2>2 DEF Sound, Present
<1>6. QED
  BY <1>2, <1>3, <1>4, <1>5 DEF Safe, Admins

\* The seeder makes its user only where there has never been one.
LEMMA InsertUserIsSafe ==
    ASSUME TypeOK, Safe, InsertUser
    PROVE  Safe'
<1>1. Unborn /\ UNCHANGED <<req, lock>> /\ worker' # "insertUser"
  BY DEF InsertUser, Safe, At, GoTo, SinkStep
<1>2. Admins' # {} \/ Unborn'
  <2>1. CASE boot # NoOne
    BY <1>1, <2>1 DEF InsertUser, Unborn
  <2>2. CASE boot = NoOne
    <3>1. PICK u \in User : row' = [row EXCEPT ![u] = "admin"]
      BY <2>2 DEF InsertUser
    <3>2. row'[u] = "admin"
      BY <3>1 DEF TypeOK
    <3>3. QED
      BY <3>2 DEF Admins
  <2>3. QED
    BY <2>1, <2>2
<1>3. ASSUME NEW q \in Request, req[q].pc = "locking" PROVE Sound(q)'
  <2>1. Sound(q) /\ req[q].got \subseteq User /\ req[q].snap \subseteq User
    BY <1>3 DEF Safe, TypeOK, Req
  <2>2. req[q].got = {} /\ req[q].snap = {}
    BY <1>1, <2>1 DEF Sound, Unborn
  <2>3. QED
    BY <1>1, <2>2 DEF Sound
<1>4. QED
  BY <1>1, <1>2, <1>3 DEF Safe, Admins

LEMMA BootIsSafe ==
    ASSUME TypeOK, Safe, Boots \/ WorkerDies
    PROVE  Safe'
<1>1. CASE InsertUser
  BY <1>1, InsertUserIsSafe
<1>2. CASE CountUsers
  <2>1. worker' = "insertUser" => \A u \in User : ~Present(u)
    BY <1>2 DEF CountUsers, SinkStep, GoTo
  <2>2. (\A u \in User : ~Present(u)) => Unborn
    BY DEF Safe, Present, Admins
  <2>3. UNCHANGED <<row, lock, req>>
    BY <1>2 DEF CountUsers, adminVars
  <2>4. QED
    BY <2>1, <2>2, <2>3, SoundKept, SafeIfSound DEF Safe
<1>3. CASE StartWorker \/ FindUser \/ CountSinks \/ InsertSink \/ WorkerDies
  <2>1. worker' # "insertUser" /\ UNCHANGED <<row, lock, req>>
    BY <1>3 DEF StartWorker, FindUser, CountSinks, InsertSink, WorkerDies,
                SinkStep, GoTo, adminVars
  <2>2. QED
    BY <2>1, SoundKept, SafeIfSound DEF Safe
<1>4. QED
  BY <1>1, <1>2, <1>3 DEF Boots

LEMMA NextIsSafe ==
    ASSUME TypeOK, Safe, [Next]_vars, ~late'
    PROVE  Safe'
<1>1. ASSUME NEW r \in Request, Refuse(r) \/ Abort(r) PROVE Safe'
  BY <1>1, EndingIsSafe DEF Refuse, Abort, bootVars
<1>2. CASE EditSinks \/ UNCHANGED vars
  <2>1. UNCHANGED <<row, lock, req, worker>>
    BY <1>2 DEF EditSinks, adminVars, bootVars, vars
  <2>2. QED
    BY <2>1, SoundKept, SafeIfSound DEF Safe
<1>3. QED
  BY <1>1, <1>2, GateIsSafe, SelectIsSafe, LockIsSafe, ApplyIsSafe, CreateIsSafe,
     BootIsSafe DEF Next, Handles

\* The history variable is never taken back.
LEMMA LateStays == TypeOK /\ late /\ [Next]_vars => late'
  BY DEF TypeOK, Next, Handles, Gate, SelectAdmins, LockAdmin, Refuse, Apply, Abort,
         CreateUser, EditSinks, Boots, StartWorker, CountUsers, InsertUser,
         FindUser, CountSinks, InsertSink, WorkerDies, adminVars, bootVars, vars

LEMMA InitIsSafe == Init => Safe
<1> SUFFICES ASSUME Init PROVE Safe
  OBVIOUS
<1>1. Admins # {} \/ Unborn
  BY UserAdminAssumption DEF Init, Admins, Unborn
<1>2. QED
  BY <1>1 DEF Init, Safe, Idle

\* The guard of PATCH and DELETE /api/users/[id] and the seeder of bootstrap.ts
\* leave an admin for any number of users and of concurrent requests: the one
\* way to lose the last is to remove an admin whose promotion was committed
\* after the guard had taken its snapshot.
THEOREM AnAdminRemains == Spec => []AdminRemainsUnlessLate
<1>1. Init => IInv
  BY InitTypes, InitIsSafe DEF IInv
<1>2. IInv /\ [Next]_vars => IInv'
  BY NextTypes, NextIsSafe, LateStays DEF IInv
<1>3. IInv => AdminRemainsUnlessLate
  BY DEF IInv, Safe, Unborn, AdminRemainsUnlessLate
<1>4. QED
  BY <1>1, <1>2, <1>3, PTL DEF Spec

\* bootstrap.ts makes its user only where there has never been one: no restart
\* of the worker gives back the account of a first admin who was deleted, for any
\* number of users and requests, unless the last admin was lost (late).
THEOREM OnlyTheFirstIsSeeded == Spec => SeedsOnlyTheFirst
<1>1. Init => IInv
  BY InitTypes, InitIsSafe DEF IInv
<1>2. IInv /\ [Next]_vars => IInv'
  BY NextTypes, NextIsSafe, LateStays DEF IInv
<1>3. IInv => [InsertUser /\ row' # row => late \/ \A u \in User : row[u] = "unborn"]_vars
  BY DEF IInv, Safe, Unborn, InsertUser, At
<1>4. QED
  BY <1>1, <1>2, <1>3, PTL DEF Spec, SeedsOnlyTheFirst

-----------------------------------------------------------------------------
(* The sink of the bootstrap user.                                         *)

\* The sink comes with its marker, which keeps every later boot from the
\* steps of the seeder.
Seeded ==
    /\ seeds \in {0, 1}
    /\ seeds = 1 => "sink" \in marker
    /\ "sink" \in marker => worker \notin {"findUser", "countSinks", "insertSink"}

LEMMA SeedingKeeps ==
    ASSUME Seeded, FindUser \/ CountSinks \/ InsertSink
    PROVE  Seeded'
<1>1. seeds = 0 /\ "sink" \notin marker
  BY DEF Seeded, FindUser, CountSinks, InsertSink, At
<1>2. CASE FindUser
  BY <1>1, <1>2 DEF FindUser, Seeded
<1>3. CASE CountSinks
  BY <1>1, <1>3 DEF CountSinks, GoTo, Seeded
<1>4. CASE InsertSink
  <2>1. CASE found = boot
    BY <1>1, <1>4, <2>1 DEF InsertSink, GoTo, Seeded
  <2>2. CASE found # boot
    BY <1>1, <1>4, <2>2 DEF InsertSink, Seeded
  <2>3. QED
    BY <2>1, <2>2
<1>5. QED
  BY <1>2, <1>3, <1>4

\* The seeder of the user goes on to that of the sink unless it is done.
LEMMA BootKeepsSeeded ==
    ASSUME Seeded, StartWorker \/ CountUsers \/ InsertUser \/ WorkerDies
    PROVE  Seeded'
<1>1. seeds' = seeds /\ ("sink" \in marker' <=> "sink" \in marker)
  BY DEF StartWorker, CountUsers, InsertUser, WorkerDies
<1>2. "sink" \in marker => worker' \notin {"findUser", "countSinks", "insertSink"}
  BY DEF StartWorker, CountUsers, InsertUser, WorkerDies, SinkStep, GoTo
<1>3. QED
  BY <1>1, <1>2 DEF Seeded

LEMMA NextKeepsSeeded ==
    ASSUME Seeded, [Next]_vars
    PROVE  Seeded'
<1>1. CASE Boots \/ WorkerDies
  BY <1>1, SeedingKeeps, BootKeepsSeeded DEF Boots
<1>2. CASE ~Boots /\ ~WorkerDies
  <2>1. UNCHANGED <<worker, marker, seeds>>
    BY <1>2 DEF Next, Handles, Gate, SelectAdmins, LockAdmin, Refuse, Apply, Abort,
                CreateUser, EditSinks, adminVars, bootVars, vars
  <2>2. QED
    BY <2>1 DEF Seeded
<1>3. QED
  BY <1>1, <1>2

\* bootstrap() seeds the sink at most once, however often the worker dies
\* between two of its steps and whatever the user does to the sink.
THEOREM TheSinkIsSeededOnce == Spec => []SinkSeededOnce
<1>1. Init => Seeded
  BY DEF Init, Seeded
<1>2. Seeded /\ [Next]_vars => Seeded'
  BY NextKeepsSeeded
<1>3. Seeded => SinkSeededOnce
  BY DEF Seeded, SinkSeededOnce
<1>4. QED
  BY <1>1, <1>2, <1>3, PTL DEF Spec
=============================================================================
