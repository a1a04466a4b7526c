-------------------------- MODULE DispatcherProofs --------------------------
(***************************************************************************)
(* Proofs about Dispatcher, for every value of its constants.              *)
(***************************************************************************)
EXTENDS Dispatcher, FiniteSetTheorems, TLAPS

\* A job exists only once a claim has counted its attempt, so the delay of
\* its next attempt is one that RetryDelayAssumption speaks of.
ClaimIsCounted ==
    \A w \in Worker, d \in Dispatch :
        job[w][d].stage # "none" => job[w][d].attempts > 0

TypeInv == TypeOK /\ ClaimIsCounted

\* A dispatch names a destination and an item.
LEMMA DispatchParts ==
    ASSUME NEW d \in Dispatch
    PROVE  ItemOf(d) \in Item /\ DestOf(d) \in RouteDestination
BY DEF Dispatch, ItemOf, DestOf

\* The constants of the model are well-typed rows, jobs and histories.
LEMMA Constructors ==
    /\ NoRow \in Row
    /\ NoJob \in Job
    /\ NoHistory \in History
BY ConstantsAssumption DEF NoRow, Row, Stored, Terminal, NoJob, Job, Stage,
    NoHistory, History

\* The offset of a fan-out row is a number of seconds.
LEMMA FanOutOffsetType ==
    ASSUME NEW I \in SUBSET Item, NEW pace \in Pace, NEW i \in Item
    PROVE  FanOutOffset(I, pace, i) \in Nat
<1>1. IsFiniteSet({j \in I : j < i})
  BY ConstantsAssumption, FS_Subset
<1>2. Cardinality({j \in I : j < i}) \in Nat
  BY <1>1, FS_CardinalityType
<1>3. pace \in Nat
  BY ConstantsAssumption
<1> QED
  BY <1>2, <1>3 DEF FanOutOffset

\* What the steps write into the observations and the jobs.
LEMMA HistoryUpdates ==
    ASSUME NEW h \in History
    PROVE  /\ [h EXCEPT !.lost = @ + 1] \in History
           /\ [h EXCEPT !.unrecorded = @ + 1] \in History
           /\ [h EXCEPT !.acked = @ + 1] \in History
           /\ [h EXCEPT !.lost = @ + 1, !.unrecorded = @ + 1] \in History
<1>1. h.lost + 1 \in Nat /\ h.unrecorded + 1 \in Nat /\ h.acked + 1 \in Nat
  BY DEF History
<1> QED
  BY <1>1 DEF History

LEMMA HistoryVerdict ==
    ASSUME NEW h \in History, NEW b \in BOOLEAN, NEW n \in Nat
    PROVE  [h EXCEPT !.rejected = b, !.notBefore = n] \in History
BY DEF History

LEMMA JobLoaded ==
    ASSUME NEW j \in Job, NEW b \in BOOLEAN
    PROVE  [j EXCEPT !.stage = "ready", !.found = b] \in Job
BY DEF Job, Stage

LEMMA JobFailed ==
    ASSUME NEW j \in Job, NEW b \in BOOLEAN, NEW h \in Hint
    PROVE  [j EXCEPT !.stage = "error", !.permanent = b, !.hint = h] \in Job
BY DEF Job, Stage

LEMMA JobClaimed ==
    ASSUME NEW n \in Nat, NEW due \in Nat, NEW created \in Nat, NEW b \in BOOLEAN
    PROVE  [NoJob EXCEPT !.stage = "claimed", !.attempts = n, !.due = due,
                         !.created = created, !.address = b] \in Job
BY ConstantsAssumption DEF NoJob, Job, Stage

\* The two ways to write a row keep the table a table.
LEMMA SettleType ==
    ASSUME row \in [Dispatch -> Row], NEW d \in Dispatch, NEW s \in Terminal
    PROVE  Settle(d, s) \in [Dispatch -> Row]
BY DEF Settle, Row, Stored, Terminal

LEMMA RescheduleType ==
    ASSUME row \in [Dispatch -> Row], now \in Nat,
           NEW d \in Dispatch, NEW delay \in Nat
    PROVE  Reschedule(d, delay) \in [Dispatch -> Row]
<1>1. now + delay \in Nat
  OBVIOUS
<1> QED
  BY <1>1 DEF Reschedule, Row, Stored

\* Recording an outcome keeps the table a table.
LEMMA RecordedType ==
    ASSUME TypeInv, NEW w \in Worker, NEW d \in Dispatch,
           job[w][d].stage \in {"orphan", "ok", "error"}
    PROVE  Recorded(w, d) \in [Dispatch -> Row]
<1> DEFINE j == job[w][d]
<1>1. j \in Job /\ row \in [Dispatch -> Row] /\ now \in Nat
  BY DEF TypeInv, TypeOK
<1>2. \A s \in Terminal : Settle(d, s) \in [Dispatch -> Row]
  BY <1>1, SettleType
<1>3. ASSUME j.stage = "error", ~j.permanent, ~(j.attempts >= MaxAttempts)
      PROVE  Reschedule(d, RetryDelay(j.attempts, j.hint)) \in [Dispatch -> Row]
  <2>1. j.attempts \in 1 .. MaxAttempts /\ j.hint \in Hint
    BY <1>1, <1>3, ConstantsAssumption DEF TypeInv, ClaimIsCounted, Job
  <2>2. RetryDelay(j.attempts, j.hint) \in Nat
    BY <2>1, RetryDelayAssumption
  <2> QED
    BY <1>1, <2>2, RescheduleType
<1> QED
  BY <1>2, <1>3 DEF Recorded, Terminal

\* So does the catch block.
LEMMA CaughtType ==
    ASSUME TypeInv, NEW w \in Worker, NEW d \in Dispatch,
           job[w][d].stage = "threw"
    PROVE  Caught(w, d) \in [Dispatch -> Row]
<1> DEFINE j == job[w][d]
<1>1. j \in Job /\ row \in [Dispatch -> Row] /\ now \in Nat
  BY DEF TypeInv, TypeOK
<1>2. Settle(d, "failed") \in [Dispatch -> Row]
  BY <1>1, SettleType DEF Terminal
<1>3. ASSUME ~(j.attempts >= MaxAttempts)
      PROVE  Reschedule(d, RetryDelay(j.attempts, 0)) \in [Dispatch -> Row]
  <2>1. j.attempts \in 1 .. MaxAttempts /\ 0 \in Hint
    BY <1>1, <1>3, ConstantsAssumption DEF TypeInv, ClaimIsCounted, Job
  <2>2. RetryDelay(j.attempts, 0) \in Nat
    BY <2>1, RetryDelayAssumption
  <2> QED
    BY <1>1, <2>2, RescheduleType
<1> QED
  BY <1>1, <1>2, <1>3 DEF Caught

\* Losing the batch keeps jobs and observations well-typed.
LEMMA LoseJobsType ==
    ASSUME TypeOK, NEW w \in Worker, LoseJobs(w)
    PROVE  /\ job' \in [Worker -> [Dispatch -> Job]]
           /\ hist' \in [Dispatch -> History]
           /\ \A v \in Worker, d \in Dispatch : job'[v][d] \in {job[v][d], NoJob}
<1>1. job' = [job EXCEPT ![w] = [d \in Dispatch |-> NoJob]]
  BY DEF LoseJobs
<1>2. [d \in Dispatch |-> NoJob] \in [Dispatch -> Job]
  BY Constructors
<1>3. job \in [Worker -> [Dispatch -> Job]] /\ hist \in [Dispatch -> History]
  BY DEF TypeOK
<1>4. job' \in [Worker -> [Dispatch -> Job]]
  BY <1>1, <1>2, <1>3
<1>5. \A v \in Worker, d \in Dispatch : job'[v][d] \in {job[v][d], NoJob}
  BY <1>1, <1>3
<1>6. hist' \in [Dispatch -> History]
  BY <1>3, HistoryUpdates DEF LoseJobs
<1> QED
  BY <1>4, <1>5, <1>6

LEMMA SpendType ==
    ASSUME budget \in [Bounded -> Nat], NEW b \in Bounded, Spend(b)
    PROVE  budget' \in [Bounded -> Nat]
BY DEF Spend

\* The part of an edit of the table that leaves the jobs alone.
LEMMA JobsUnchanged ==
    ASSUME TypeInv, UNCHANGED job
    PROVE  job' \in [Worker -> [Dispatch -> Job]] /\ ClaimIsCounted'
BY DEF TypeInv, TypeOK, ClaimIsCounted

\* The part of a step of deliverOne on one job: it moves to another stage or
\* is forgotten.
LEMMA OneJobMoves ==
    ASSUME TypeInv, NEW w \in Worker, NEW d \in Dispatch,
           NEW j \in Job, j.stage # "none" => j.attempts > 0,
           job' = [job EXCEPT ![w][d] = j]
    PROVE  job' \in [Worker -> [Dispatch -> Job]] /\ ClaimIsCounted'
BY DEF TypeInv, TypeOK, ClaimIsCounted

LEMMA TypeInvInit == Init => TypeInv
<1> SUFFICES ASSUME Init PROVE TypeInv
  OBVIOUS
<1>1. budget \in [Bounded -> Nat]
  BY ConstantsAssumption DEF Init, Bounded
<1>2. dest \in [RouteDestination -> Destination]
  BY DEF Init, Destination
<1>3. TypeOK
  BY <1>1, <1>2, Constructors DEF Init, TypeOK
<1>4. ClaimIsCounted
  BY DEF Init, ClaimIsCounted, NoJob
<1> QED
  BY <1>3, <1>4 DEF TypeInv

LEMMA TypeInvNext == TypeInv /\ [Next]_vars => TypeInv'
<1> SUFFICES ASSUME TypeInv, [Next]_vars PROVE TypeInv'
  OBVIOUS
<1> USE DEF TypeInv
<1>0. TypeOK /\ ClaimIsCounted
  OBVIOUS
<1>1. ASSUME NEW I \in SUBSET (Item \ seen), NEW pace \in Pace, Enqueue(I, pace)
      PROVE  TypeInv'
  <2>1. \A d \in Dispatch : now + FanOutOffset(I, pace, ItemOf(d)) \in Nat
    <3> TAKE d \in Dispatch
    <3>1. FanOutOffset(I, pace, ItemOf(d)) \in Nat
      BY DispatchParts, FanOutOffsetType
    <3> QED
      BY <3>1 DEF TypeOK
  <2>2. row' \in [Dispatch -> Row]
    BY <1>1, <2>1 DEF Enqueue, TypeOK, Row, Stored
  <2> QED
    BY <1>1, <2>2, JobsUnchanged DEF Enqueue, TypeOK
<1>2. ASSUME NEW d \in Dispatch, RetryDispatch(d)
      PROVE  TypeInv'
  <2>1. row' \in [Dispatch -> Row]
    BY <1>2 DEF RetryDispatch, TypeOK, Row, Stored
  <2>2. hist' \in [Dispatch -> History]
    BY <1>2 DEF RetryDispatch, TypeOK, History
  <2>3. budget' \in [Bounded -> Nat]
    BY <1>2, SpendType DEF RetryDispatch, TypeOK, Bounded
  <2> QED
    BY <1>2, <2>1, <2>2, <2>3, JobsUnchanged DEF RetryDispatch, TypeOK
<1>3. ASSUME NEW r \in RouteDestination, NEW enabled \in BOOLEAN,
             NEW address \in BOOLEAN, PatchDestination(r, enabled, address)
      PROVE  TypeInv'
  <2>1. dest' \in [RouteDestination -> Destination]
    BY <1>3 DEF PatchDestination, TypeOK, Destination
  <2>2. budget' \in [Bounded -> Nat]
    BY <1>3, SpendType DEF PatchDestination, TypeOK, Bounded
  <2> QED
    BY <1>3, <2>1, <2>2, JobsUnchanged DEF PatchDestination, TypeOK
<1>4. ASSUME NEW r \in RouteDestination, DeleteDestination(r)
      PROVE  TypeInv'
  <2>1. dest' \in [RouteDestination -> Destination]
    BY <1>4 DEF DeleteDestination, TypeOK, Destination
  <2>2. [NoRow EXCEPT !.status = "gone"] \in Row
    BY DEF NoRow, Row
  <2>3. row' \in [Dispatch -> Row]
    BY <1>4, <2>2 DEF DeleteDestination, TypeOK
  <2>4. budget' \in [Bounded -> Nat]
    BY <1>4, SpendType DEF DeleteDestination, TypeOK, Bounded
  <2> QED
    BY <1>4, <2>1, <2>3, <2>4, JobsUnchanged DEF DeleteDestination, TypeOK
<1>5. ASSUME NEW s \in Sink, DeleteSink(s)
      PROVE  TypeInv'
  <2>1. budget' \in [Bounded -> Nat]
    BY <1>5, SpendType DEF DeleteSink, TypeOK, Bounded
  <2> QED
    BY <1>5, <2>1, JobsUnchanged DEF DeleteSink, TypeOK
<1>6. ASSUME Tick
      PROVE  TypeInv'
  <2>1. DueLater \subseteq Nat
    BY DEF DueLater, TypeOK, Row
  <2>2. now' \in Nat
    BY <1>6, <2>1 DEF Tick
  <2> QED
    BY <1>6, <2>2, JobsUnchanged DEF Tick, TypeOK
<1>7. ASSUME NEW w \in Worker, Claim(w)
      PROVE  TypeInv'
  <2>1. PICK P \in Picks :
          /\ row' = [d \in Dispatch |->
                IF d \in P THEN [row[d] EXCEPT !.attempts = @ + 1] ELSE row[d]]
          /\ job' = [job EXCEPT ![w] = [d \in Dispatch |->
                IF d \in P
                THEN [NoJob EXCEPT !.stage = "claimed",
                                   !.attempts = row[d].attempts + 1,
                                   !.due = row[d].scheduled,
                                   !.created = row[d].created,
                                   !.address = dest[DestOf(d)].address]
                ELSE NoJob]]
    BY <1>7 DEF Claim
  <2>2. row' \in [Dispatch -> Row]
    <3>1. ASSUME NEW d \in Dispatch
          PROVE  [row[d] EXCEPT !.attempts = @ + 1] \in Row
      <4>1. row[d] \in Row /\ row[d].attempts + 1 \in Nat
        BY DEF TypeOK, Row
      <4> QED
        BY <4>1 DEF Row
    <3> QED
      BY <2>1, <3>1 DEF TypeOK
  <2>3. ASSUME NEW d \in Dispatch
        PROVE  /\ row[d].attempts + 1 \in Nat /\ row[d].attempts + 1 > 0
               /\ row[d].scheduled \in Nat /\ row[d].created \in Nat
               /\ dest[DestOf(d)].address \in BOOLEAN
    BY DispatchParts DEF TypeOK, Row, Destination
  <2>4. job'[w] \in [Dispatch -> Job]
    BY <2>1, <2>3, JobClaimed, Constructors DEF TypeOK
  <2>5. \A d \in Dispatch : job'[w][d].stage # "none" => job'[w][d].attempts > 0
    <3> TAKE d \in Dispatch
    <3>1. CASE d \in P
      BY <2>1, <2>3, <3>1 DEF TypeOK, NoJob
    <3>2. CASE d \notin P
      BY <2>1, <3>2 DEF TypeOK, NoJob
    <3> QED
      BY <3>1, <3>2
  <2>6. job' \in [Worker -> [Dispatch -> Job]]
    BY <2>1, <2>4 DEF TypeOK
  <2>7. ClaimIsCounted'
    BY <2>1, <2>5 DEF TypeOK, ClaimIsCounted
  <2> QED
    BY <1>7, <2>2, <2>6, <2>7 DEF Claim, TypeOK
<1>8. ASSUME NEW w \in Worker, LoadSinks(w)
      PROVE  TypeInv'
  <2> DEFINE there(d) == SinkOf[DestOf(d)] \in sinks
             loaded(d) == [job[w][d] EXCEPT !.stage = "ready", !.found = there(d)]
  <2>0. \A d \in Dispatch : there(d) \in BOOLEAN
    OBVIOUS
  <2>1. job' = [job EXCEPT ![w] = [d \in Dispatch |->
                  IF job[w][d].stage = "claimed" THEN loaded(d) ELSE job[w][d]]]
    BY <1>8 DEF LoadSinks
  <2> HIDE DEF there
  <2>2. ASSUME NEW d \in Dispatch
        PROVE  loaded(d) \in Job /\ loaded(d).attempts = job[w][d].attempts
    <3>1. job[w][d] \in Job /\ there(d) \in BOOLEAN
      BY <2>0 DEF TypeOK
    <3> QED
      BY <3>1, JobLoaded DEF Job
  <2> HIDE DEF loaded
  <2>3. job' \in [Worker -> [Dispatch -> Job]]
    BY <2>1, <2>2 DEF TypeOK
  <2>4. ClaimIsCounted'
    <3> SUFFICES ASSUME NEW v \in Worker, NEW d \in Dispatch, job'[v][d].stage # "none"
                 PROVE  job'[v][d].attempts > 0
      BY DEF ClaimIsCounted
    <3> QED
      BY <2>1, <2>2 DEF TypeOK, ClaimIsCounted
  <2> QED
    BY <1>8, <2>3, <2>4 DEF LoadSinks, TypeOK
<1>9. ASSUME NEW w \in Worker, NEW d \in Dispatch,
             Reject(w, d) \/ SendOk(w, d) \/ SendThrows(w, d)
                \/ \E code \in FailureCode, hint \in Hint : SendFails(w, d, code, hint)
      PROVE  TypeInv'
  <2> DEFINE j == job[w][d]
  <2>0. Turn(w, d)
    BY <1>9 DEF Reject, SendOk, SendThrows, SendFails, Sends
  <2>1. j \in Job /\ j.stage = "ready" /\ j.attempts > 0
    BY <2>0 DEF Turn, TypeOK, ClaimIsCounted
  <2>2. CASE Reject(w, d) /\ ~j.found
    <3>1. [j EXCEPT !.stage = "orphan"] \in Job
      BY <2>1 DEF Job, Stage
    <3>2. job' = [job EXCEPT ![w][d] = [j EXCEPT !.stage = "orphan"]]
      BY <2>2 DEF Reject, TypeOK
    <3>3. job' \in [Worker -> [Dispatch -> Job]] /\ ClaimIsCounted'
      BY <2>1, <3>1, <3>2, OneJobMoves DEF Job
    <3> QED
      BY <2>2, <3>3 DEF Reject, TypeOK
  <2>3. CASE Reject(w, d) /\ j.found
    <3>1. [j EXCEPT !.stage = "error", !.permanent = TRUE] \in Job
      BY <2>1 DEF Job, Stage
    <3>2. job' = [job EXCEPT ![w][d] = [j EXCEPT !.stage = "error", !.permanent = TRUE]]
      BY <2>3 DEF Reject, TypeOK
    <3>3. job' \in [Worker -> [Dispatch -> Job]] /\ ClaimIsCounted'
      BY <2>1, <3>1, <3>2, OneJobMoves DEF Job
    <3>4. hist' = [hist EXCEPT ![d].rejected = TRUE]
      BY <2>3 DEF Reject
    <3>5. hist' \in [Dispatch -> History]
      BY <3>4 DEF TypeOK, History
    <3> QED
      BY <2>3, <3>3, <3>5 DEF Reject, TypeOK
  <2>4. CASE SendOk(w, d)
    <3>1. [j EXCEPT !.stage = "ok"] \in Job
      BY <2>1 DEF Job, Stage
    <3>2. job' = [job EXCEPT ![w][d] = [j EXCEPT !.stage = "ok"]]
      BY <2>4 DEF SendOk, TypeOK
    <3>3. job' \in [Worker -> [Dispatch -> Job]] /\ ClaimIsCounted'
      BY <2>1, <3>1, <3>2, OneJobMoves DEF Job
    <3>4. hist' \in [Dispatch -> History]
      <4>1. hist' = [hist EXCEPT ![d] = [hist[d] EXCEPT !.acked = @ + 1]]
        BY <2>4 DEF SendOk, TypeOK
      <4> QED
        BY <4>1, HistoryUpdates DEF TypeOK
    <3> QED
      BY <2>4, <3>3, <3>4 DEF SendOk, TypeOK
  <2>5. CASE SendThrows(w, d)
    <3>1. [j EXCEPT !.stage = "threw"] \in Job
      BY <2>1 DEF Job, Stage
    <3>2. job' = [job EXCEPT ![w][d] = [j EXCEPT !.stage = "threw"]]
      BY <2>5 DEF SendThrows, TypeOK
    <3>3. job' \in [Worker -> [Dispatch -> Job]] /\ ClaimIsCounted'
      BY <2>1, <3>1, <3>2, OneJobMoves DEF Job
    <3> QED
      BY <2>5, <3>3 DEF SendThrows, TypeOK
  <2>6. ASSUME NEW code \in FailureCode, NEW hint \in Hint, SendFails(w, d, code, hint)
        PROVE  TypeInv'
    <3> DEFINE final == code \in PermanentCode
               k == [j EXCEPT !.stage = "error", !.permanent = final, !.hint = hint]
    <3>0. final \in BOOLEAN
      OBVIOUS
    <3>2. job' = [job EXCEPT ![w][d] = k]
      BY <2>6 DEF SendFails, TypeOK
    <3> HIDE DEF final
    <3>1. k \in Job /\ k.attempts > 0
      BY <2>1, <3>0, JobFailed DEF Job
    <3> HIDE DEF k
    <3>3. job' \in [Worker -> [Dispatch -> Job]] /\ ClaimIsCounted'
      BY <3>1, <3>2, OneJobMoves
    <3>4. (IF hint = 0 THEN 0 ELSE now + hint) \in Nat
      BY ConstantsAssumption DEF TypeOK
    <3>5. hist' \in [Dispatch -> History]
      <4> DEFINE n == IF hint = 0 THEN 0 ELSE now + hint
                 b == hist[d].rejected \/ code \in PermanentCode
      <4>1. hist' = [hist EXCEPT ![d] = [hist[d] EXCEPT !.rejected = b, !.notBefore = n]]
        BY <2>6 DEF SendFails, TypeOK
      <4>2. b \in BOOLEAN /\ n \in Nat
        BY <3>4
      <4> HIDE DEF b, n
      <4> QED
        BY <4>1, <4>2, HistoryVerdict DEF TypeOK
    <3> QED
      BY <2>6, <3>3, <3>5 DEF SendFails, TypeOK
  <2> QED
    BY <1>9, <2>2, <2>3, <2>4, <2>5, <2>6
<1>10. ASSUME NEW w \in Worker, NEW d \in Dispatch, Record(w, d) \/ Catch(w, d)
       PROVE  TypeInv'
  <2>1. row' \in [Dispatch -> Row]
    BY <1>10, RecordedType, CaughtType DEF Record, Catch
  <2>2. job' = [job EXCEPT ![w][d] = NoJob]
    BY <1>10 DEF Record, Catch
  <2>3. job' \in [Worker -> [Dispatch -> Job]] /\ ClaimIsCounted'
    BY <2>2, Constructors, OneJobMoves DEF NoJob
  <2> QED
    BY <1>10, <2>1, <2>3 DEF Record, Catch, TypeOK
<1>11. ASSUME NEW w \in Worker, NEW d \in Dispatch,
              RecordThrows(w, d) \/ CatchThrows(w, d)
       PROVE  TypeInv'
  <2> DEFINE j == job[w][d]
  <2>1. row' \in [Dispatch -> Row]
    BY <1>11, RecordedType, CaughtType DEF RecordThrows, CatchThrows, TypeOK
  <2>2. PICK s \in {"threw", "abandoned"} : job' = [job EXCEPT ![w][d].stage = s]
    BY <1>11 DEF RecordThrows, CatchThrows
  <2>3. [j EXCEPT !.stage = s] \in Job /\ [j EXCEPT !.stage = s].attempts > 0
    <3>1. j \in Job /\ j.stage # "none"
      BY <1>11 DEF RecordThrows, CatchThrows, TypeOK
    <3>2. j.attempts > 0
      BY <3>1 DEF ClaimIsCounted
    <3> QED
      BY <3>1, <3>2 DEF Job, Stage
  <2>4. job' = [job EXCEPT ![w][d] = [j EXCEPT !.stage = s]]
    BY <2>2 DEF TypeOK
  <2>5. job' \in [Worker -> [Dispatch -> Job]] /\ ClaimIsCounted'
    BY <2>3, <2>4, OneJobMoves
  <2>6. hist' \in [Dispatch -> History]
    <3>1. \/ hist' = hist
          \/ hist' = [hist EXCEPT ![d] = [hist[d] EXCEPT !.unrecorded = @ + 1]]
          \/ hist' = [hist EXCEPT ![d] = [hist[d] EXCEPT !.lost = @ + 1]]
      BY <1>11 DEF RecordThrows, CatchThrows, TypeOK
    <3>2. hist[d] \in History
      BY DEF TypeOK
    <3>3. /\ [hist[d] EXCEPT !.unrecorded = @ + 1] \in History
          /\ [hist[d] EXCEPT !.lost = @ + 1] \in History
      BY <3>2, HistoryUpdates
    <3> QED
      BY <3>1, <3>3 DEF TypeOK
  <2>7. budget' \in [Bounded -> Nat]
    BY <1>11, SpendType DEF RecordThrows, CatchThrows, TypeOK, Bounded
  <2> QED
    BY <1>11, <2>1, <2>5, <2>6, <2>7 DEF RecordThrows, CatchThrows, TypeOK
<1>12. ASSUME NEW w \in Worker, LoadSinksFails(w) \/ Crash(w)
       PROVE  TypeInv'
  <2>1. /\ job' \in [Worker -> [Dispatch -> Job]]
        /\ hist' \in [Dispatch -> History]
        /\ \A v \in Worker, d \in Dispatch : job'[v][d] \in {job[v][d], NoJob}
    BY <1>12, LoseJobsType DEF LoadSinksFails, Crash
  <2>2. ClaimIsCounted'
    BY <2>1 DEF ClaimIsCounted, NoJob
  <2>3. budget' \in [Bounded -> Nat]
    BY <1>12, SpendType DEF LoadSinksFails, Crash, TypeOK, Bounded
  <2> QED
    BY <1>12, <2>1, <2>2, <2>3 DEF LoadSinksFails, Crash, TypeOK
<1>13. ASSUME NEW w \in Worker, Restart(w)
       PROVE  TypeInv'
  BY <1>13, JobsUnchanged DEF Restart, TypeOK
<1>14. CASE UNCHANGED vars
  BY <1>14, JobsUnchanged DEF vars, TypeOK
<1> QED
  BY <1>1, <1>2, <1>3, <1>4, <1>5, <1>6, <1>7, <1>8, <1>9, <1>10, <1>11, <1>12,
     <1>13, <1>14 DEF Next, Edit, WorkerStep, Deliver, Fault

\* Every reachable state has the declared shape: no statement writes a status
\* outside the schema's, a schedule before the epoch or a negative counter.
THEOREM TypeCorrect == Spec => []TypeOK
<1>1. TypeInv /\ [Next]_vars => TypeInv'
  BY TypeInvNext
<1>2. TypeInv => TypeOK
  BY DEF TypeInv
<1> QED
  BY <1>1, <1>2, TypeInvInit, PTL DEF Spec

-----------------------------------------------------------------------------
(***************************************************************************)
(* The inductive invariant of a single worker w.  Owns is JobOwnsRow at    *)
(* one dispatch.  It is inductive only together with UnseenHaveNoRow: a    *)
(* fan-out does not overwrite a row somebody works on.  The accounting of  *)
(* acknowledgements and of attempts rests on Owns, which says what status  *)
(* an outcome overwrites.                                                  *)
(***************************************************************************)

\* Rows come into being together with their item.
UnseenHaveNoRow ==
    \A d \in Dispatch : ItemOf(d) \notin seen => row[d].status = "none"

Owns(w, d) ==
    job[w][d].stage \notin {"none", "threw", "abandoned"} =>
        \/ row[d].status = "gone"
        \/ row[d].status = "pending" /\ row[d].attempts = job[w][d].attempts

\* A row that waits although its job threw is at that job's attempt, or the
\* user has sent it back to the start.
NotAhead(w, d) ==
    job[w][d].stage = "threw" /\ row[d].status = "pending" =>
        row[d].attempts <= job[w][d].attempts

\* EveryAckIsAccountedFor, for rows that are yet to be created as well.
Accounted(w, d) ==
    row[d].status # "gone" =>
        hist[d].acked = hist[d].unrecorded
            + (IF row[d].status = "sent" \/ job[w][d].stage = "ok" THEN 1 ELSE 0)

Active(w, d) == job[w][d].stage \notin {"none", "abandoned"}

\* AttemptCeiling, with room for the next claim of a row nobody works on.
WithinCeiling(w, d) ==
    /\ row[d].attempts <= MaxAttempts + hist[d].lost
    /\ row[d].status = "pending" /\ ~Active(w, d) =>
          row[d].attempts < MaxAttempts + hist[d].lost

Sound(w, d) == Owns(w, d) /\ NotAhead(w, d) /\ Accounted(w, d) /\ WithinCeiling(w, d)

IInv(w) ==
    /\ TypeInv
    /\ UnseenHaveNoRow
    /\ \A d \in Dispatch : Sound(w, d)

-----------------------------------------------------------------------------
(* What the statements of deliverOne do to the table, field by field.      *)

LEMMA SettleEffect ==
    ASSUME row \in [Dispatch -> Row], NEW d \in Dispatch, NEW s \in Terminal
    PROVE  /\ \A e \in Dispatch \ {d} : Settle(d, s)[e] = row[e]
           /\ row[d].status \notin Stored => Settle(d, s)[d] = row[d]
           /\ row[d].status \in Stored =>
                 /\ Settle(d, s)[d].status = s
                 /\ Settle(d, s)[d].attempts = row[d].attempts
BY DEF Settle, Row

LEMMA RescheduleEffect ==
    ASSUME row \in [Dispatch -> Row], NEW d \in Dispatch, NEW delay \in Nat
    PROVE  /\ \A e \in Dispatch \ {d} : Reschedule(d, delay)[e] = row[e]
           /\ row[d].status \notin Stored => Reschedule(d, delay)[d] = row[d]
           /\ row[d].status \in Stored =>
                 /\ Reschedule(d, delay)[d].status = "pending"
                 /\ Reschedule(d, delay)[d].attempts = row[d].attempts
BY DEF Reschedule, Row

\* Whichever UPDATE the try block runs: it writes one row, keeps its attempts,
\* and leaves it pending only while the job had attempts left.
LEMMA RecordedEffect ==
    ASSUME TypeInv, NEW w \in Worker, NEW d \in Dispatch,
           job[w][d].stage \in {"orphan", "ok", "error"}
    PROVE  /\ \A e \in Dispatch \ {d} : Recorded(w, d)[e] = row[e]
           /\ row[d].status \notin Stored => Recorded(w, d)[d] = row[d]
           /\ row[d].status \in Stored =>
                 /\ Recorded(w, d)[d].attempts = row[d].attempts
                 /\ Recorded(w, d)[d].status \in Terminal \cup {"pending"}
                 /\ Recorded(w, d)[d].status = "sent" <=> job[w][d].stage = "ok"
                 /\ Recorded(w, d)[d].status = "pending"
                       => job[w][d].attempts < MaxAttempts
<1> DEFINE j == job[w][d]
<1>1. j \in Job /\ row \in [Dispatch -> Row] /\ MaxAttempts \in Nat
  BY ConstantsAssumption DEF TypeInv, TypeOK
<1>2. CASE j.stage = "orphan"
  <2>1. Recorded(w, d) = Settle(d, "skipped")
    BY <1>2 DEF Recorded
  <2> QED
    BY <1>1, <1>2, <2>1, SettleEffect DEF Terminal
<1>3. CASE j.stage = "ok"
  <2>1. Recorded(w, d) = Settle(d, "sent")
    BY <1>3 DEF Recorded
  <2> QED
    BY <1>1, <1>3, <2>1, SettleEffect DEF Terminal
<1>4. CASE j.stage = "error" /\ (j.permanent \/ j.attempts >= MaxAttempts)
  <2>1. Recorded(w, d) = Settle(d, "failed")
    BY <1>4 DEF Recorded
  <2> QED
    BY <1>1, <1>4, <2>1, SettleEffect DEF Terminal
<1>5. CASE j.stage = "error" /\ ~(j.permanent \/ j.attempts >= MaxAttempts)
  <2>1. Recorded(w, d) = Reschedule(d, RetryDelay(j.attempts, j.hint))
    BY <1>5 DEF Recorded
  <2>2. j.attempts \in 1 .. MaxAttempts /\ j.hint \in Hint /\ j.attempts < MaxAttempts
    BY <1>1, <1>5 DEF TypeInv, ClaimIsCounted, Job
  <2>3. RetryDelay(j.attempts, j.hint) \in Nat
    BY <2>2, RetryDelayAssumption
  <2> QED
    BY <1>1, <1>5, <2>1, <2>2, <2>3, RescheduleEffect DEF Terminal
<1> QED
  BY <1>2, <1>3, <1>4, <1>5

\* The catch block writes at most one row, which was pending.
LEMMA CaughtEffect ==
    ASSUME TypeInv, NEW w \in Worker, NEW d \in Dispatch,
           job[w][d].stage = "threw"
    PROVE  /\ \A e \in Dispatch \ {d} : Caught(w, d)[e] = row[e]
           /\ row[d].status # "pending" => Caught(w, d)[d] = row[d]
           /\ row[d].status = "pending" =>
                 /\ Caught(w, d)[d].attempts = row[d].attempts
                 /\ Caught(w, d)[d].status \in {"failed", "pending"}
                 /\ Caught(w, d)[d].status = "pending"
                       => job[w][d].attempts < MaxAttempts
<1> DEFINE j == job[w][d]
<1>1. j \in Job /\ row \in [Dispatch -> Row] /\ MaxAttempts \in Nat
  BY ConstantsAssumption DEF TypeInv, TypeOK
<1>2. CASE row[d].status # "pending"
  BY <1>2 DEF Caught
<1>3. CASE row[d].status = "pending" /\ j.attempts >= MaxAttempts
  <2>1. Caught(w, d) = Settle(d, "failed")
    BY <1>3 DEF Caught
  <2> QED
    BY <1>1, <1>3, <2>1, SettleEffect DEF Terminal, Stored
<1>4. CASE row[d].status = "pending" /\ ~(j.attempts >= MaxAttempts)
  <2>1. Caught(w, d) = Reschedule(d, RetryDelay(j.attempts, 0))
    BY <1>4 DEF Caught
  <2>2. j.attempts \in 1 .. MaxAttempts /\ 0 \in Hint /\ j.attempts < MaxAttempts
    BY <1>1, <1>4, ConstantsAssumption DEF TypeInv, ClaimIsCounted, Job
  <2>3. RetryDelay(j.attempts, 0) \in Nat
    BY <2>2, RetryDelayAssumption
  <2> QED
    BY <1>1, <1>4, <2>1, <2>2, <2>3, RescheduleEffect DEF Terminal, Stored
<1> QED
  BY <1>2, <1>3, <1>4

\* Every job that is dropped is counted as lost, and as unrecorded if its
\* provider had already answered with success.
LEMMA LoseJobsEffect ==
    ASSUME TypeOK, NEW w \in Worker, LoseJobs(w), NEW d \in Dispatch
    PROVE  /\ job'[w][d] = NoJob
           /\ hist'[d].acked = hist[d].acked
           /\ hist'[d].unrecorded =
                 hist[d].unrecorded + (IF job[w][d].stage = "ok" THEN 1 ELSE 0)
           /\ hist'[d].lost = hist[d].lost + (IF Active(w, d) THEN 1 ELSE 0)
<1>1. hist[d] \in History /\ job \in [Worker -> [Dispatch -> Job]]
  BY DEF TypeOK
<1>2. job'[w][d] = NoJob
  BY <1>1 DEF LoseJobs
<1>3. CASE job[w][d].stage = "ok"
  <2>1. hist'[d] = [hist[d] EXCEPT !.lost = @ + 1, !.unrecorded = @ + 1]
    BY <1>3 DEF LoseJobs
  <2> QED
    BY <1>1, <1>2, <1>3, <2>1 DEF Active, History
<1>4. CASE job[w][d].stage \in {"none", "abandoned"}
  <2>1. hist'[d] = hist[d]
    BY <1>4 DEF LoseJobs
  <2> QED
    BY <1>1, <1>2, <1>4, <2>1 DEF Active, History
<1>5. CASE job[w][d].stage \notin {"ok", "none", "abandoned"}
  <2>1. hist'[d] = [hist[d] EXCEPT !.lost = @ + 1]
    BY <1>5 DEF LoseJobs
  <2> QED
    BY <1>1, <1>2, <1>5, <2>1 DEF Active, History
<1> QED
  BY <1>3, <1>4, <1>5

-----------------------------------------------------------------------------
(* IInv is inductive.                                                      *)

LEMMA PointTypes ==
    ASSUME TypeInv, NEW w \in Worker, NEW d \in Dispatch
    PROVE  /\ row[d] \in Row /\ row[d].attempts \in Nat
           /\ job[w][d] \in Job /\ job[w][d].attempts \in Nat
           /\ hist[d] \in History
           /\ hist[d].acked \in Nat /\ hist[d].unrecorded \in Nat /\ hist[d].lost \in Nat
           /\ MaxAttempts \in Nat \ {0}
BY ConstantsAssumption DEF TypeInv, TypeOK, Row, Job, History

\* A dispatch that a step does not touch stays sound.
LEMMA SoundFrame ==
    ASSUME NEW w, NEW d, Sound(w, d),
           row'[d] = row[d], job'[w][d] = job[w][d], hist'[d] = hist[d]
    PROVE  Sound(w, d)'
BY DEF Sound, Owns, NotAhead, Accounted, WithinCeiling, Active

\* No step but a fan-out creates rows.
LEMMA UnseenFrame ==
    ASSUME UnseenHaveNoRow, seen \subseteq seen',
           \A d \in Dispatch : row[d].status = "none" => row'[d].status = "none"
    PROVE  UnseenHaveNoRow'
BY DEF UnseenHaveNoRow

LEMMA IInvInit ==
    ASSUME NEW w \in Worker, Init
    PROVE  IInv(w)
<1>1. TypeInv
  BY TypeInvInit
<1>2. UnseenHaveNoRow
  BY DEF Init, UnseenHaveNoRow, NoRow
<1>3. ASSUME NEW d \in Dispatch PROVE Sound(w, d)
  <2>1. row[d] = NoRow /\ job[w][d] = NoJob /\ hist[d] = NoHistory
    BY DEF Init
  <2> QED
    BY <2>1, ConstantsAssumption DEF Sound, Owns, NotAhead, Accounted,
        WithinCeiling, Active, NoRow, NoJob, NoHistory
<1> QED
  BY <1>1, <1>2, <1>3 DEF IInv

\* The world around the worker: fan-out, retries, edits and time.
LEMMA WorldKeepsIInv ==
    ASSUME NEW w \in Worker, IInv(w), TypeInv',
           \/ \E I \in SUBSET (Item \ seen), pace \in Pace : Enqueue(I, pace)
           \/ Edit
           \/ Tick
    PROVE  IInv(w)'
<1>0. TypeInv /\ UnseenHaveNoRow /\ \A d \in Dispatch : Sound(w, d)
  BY DEF IInv
<1>1. ASSUME NEW I \in SUBSET (Item \ seen), NEW pace \in Pace, Enqueue(I, pace)
      PROVE  IInv(w)'
  <2>1. ASSUME NEW d \in Dispatch PROVE Sound(w, d)'
    <3>1. job'[w][d] = job[w][d] /\ hist'[d] = hist[d]
      BY <1>1 DEF Enqueue
    <3>2. CASE row'[d] = row[d]
      BY <1>0, <3>1, <3>2, SoundFrame
    <3>3. CASE row'[d] # row[d]
      <4>1. ItemOf(d) \in I /\ row'[d].status = "pending" /\ row'[d].attempts = 0
        BY <1>1, <3>3 DEF Enqueue
      <4>2. row[d].status = "none"
        BY <1>0, <4>1 DEF UnseenHaveNoRow
      <4> QED
        BY <1>0, <3>1, <4>1, <4>2, PointTypes DEF Sound, Owns, NotAhead, Accounted,
            WithinCeiling, Active
    <3> QED
      BY <3>2, <3>3
  <2>2. UnseenHaveNoRow'
    BY <1>0, <1>1 DEF Enqueue, UnseenHaveNoRow
  <2> QED
    BY <2>1, <2>2 DEF IInv
<1>2. ASSUME NEW d \in Dispatch, RetryDispatch(d)
      PROVE  IInv(w)'
  <2>1. /\ row'[d].status = "pending" /\ row'[d].attempts = 0
        /\ row[d].status = "failed"
        /\ \A e \in Dispatch \ {d} : row'[e] = row[e] /\ hist'[e] = hist[e]
        /\ \A e \in Dispatch : job'[w][e] = job[w][e]
        /\ hist'[d].acked = hist[d].acked /\ hist'[d].unrecorded = hist[d].unrecorded
        /\ hist'[d].lost = hist[d].lost
    BY <1>0, <1>2, PointTypes DEF RetryDispatch, TypeInv, TypeOK, Row, History
  <2>2. Sound(w, d)'
    BY <1>0, <2>1, PointTypes DEF Sound, Owns, NotAhead, Accounted, WithinCeiling, Active
  <2>3. \A e \in Dispatch \ {d} : Sound(w, e)'
    BY <1>0, <2>1, SoundFrame
  <2>4. UnseenHaveNoRow'
    <3>1. seen' = seen
      BY <1>2 DEF RetryDispatch
    <3> QED
      BY <1>0, <2>1, <3>1, UnseenFrame
  <2> QED
    BY <2>2, <2>3, <2>4 DEF IInv
<1>3. ASSUME NEW r \in RouteDestination, DeleteDestination(r)
      PROVE  IInv(w)'
  <2>1. ASSUME NEW d \in Dispatch PROVE Sound(w, d)'
    <3>1. job'[w][d] = job[w][d] /\ hist'[d] = hist[d]
      BY <1>3 DEF DeleteDestination
    <3>2. CASE row'[d] = row[d]
      BY <1>0, <3>1, <3>2, SoundFrame
    <3>3. CASE row'[d] # row[d]
      <4>1. row'[d].status = "gone" /\ row'[d].attempts = 0
        BY <1>3, <3>3 DEF DeleteDestination, NoRow
      <4> QED
        BY <1>0, <3>1, <4>1, PointTypes DEF Sound, Owns, NotAhead, Accounted,
            WithinCeiling, Active
    <3> QED
      BY <3>2, <3>3
  <2>2. UnseenHaveNoRow'
    <3>1. \A d \in Dispatch : row[d].status = "none" => row'[d].status = "none"
      BY <1>3 DEF DeleteDestination, Stored, Terminal
    <3>2. seen' = seen
      BY <1>3 DEF DeleteDestination
    <3> QED
      BY <1>0, <3>1, <3>2, UnseenFrame
  <2> QED
    BY <2>1, <2>2 DEF IInv
<1>4. ASSUME UNCHANGED <<seen, row, job, hist>>
      PROVE  IInv(w)'
  BY <1>0, <1>4, SoundFrame, UnseenFrame DEF IInv
<1>5. ASSUME NEW r \in RouteDestination, NEW enabled \in BOOLEAN,
             NEW address \in BOOLEAN, PatchDestination(r, enabled, address)
      PROVE  IInv(w)'
  BY <1>4, <1>5 DEF PatchDestination
<1>6. ASSUME NEW s \in Sink, DeleteSink(s)
      PROVE  IInv(w)'
  BY <1>4, <1>6 DEF DeleteSink
<1>7. ASSUME Tick
      PROVE  IInv(w)'
  BY <1>4, <1>7 DEF Tick
<1> QED
  BY <1>1, <1>2, <1>3, <1>5, <1>6, <1>7 DEF Edit

\* The worker's own steps and the faults that hit it.
LEMMA WorkerKeepsIInv ==
    ASSUME NEW w \in Worker, IInv(w), TypeInv',
           WorkerStep(w) \/ Fault(w) \/ Restart(w)
    PROVE  IInv(w)'
<1>0. TypeInv /\ UnseenHaveNoRow /\ \A d \in Dispatch : Sound(w, d)
  BY DEF IInv
<1>a. job \in [Worker -> [Dispatch -> Job]] /\ row \in [Dispatch -> Row]
        /\ hist \in [Dispatch -> History]
  BY <1>0 DEF TypeInv, TypeOK
<1>1. CASE Claim(w)
  <2>1. PICK P \in Picks :
          /\ row' = [d \in Dispatch |->
                IF d \in P THEN [row[d] EXCEPT !.attempts = @ + 1] ELSE row[d]]
          /\ job' = [job EXCEPT ![w] = [d \in Dispatch |->
                IF d \in P
                THEN [NoJob EXCEPT !.stage = "claimed",
                                   !.attempts = row[d].attempts + 1,
                                   !.due = row[d].scheduled,
                                   !.created = row[d].created,
                                   !.address = dest[DestOf(d)].address]
                ELSE NoJob]]
    BY <1>1 DEF Claim
  <2>2. hist' = hist /\ seen' = seen
    BY <1>1 DEF Claim
  <2>3. ASSUME NEW d \in Dispatch PROVE Sound(w, d)'
    <3>1. ~Active(w, d)
      BY <1>1 DEF Claim, Idle, Active
    <3>2. CASE d \in P
      <4>1. row[d].status = "pending"
        BY <3>2 DEF Picks, Due
      <4>2. /\ row'[d].status = "pending" /\ row'[d].attempts = row[d].attempts + 1
            /\ job'[w][d].stage = "claimed" /\ job'[w][d].attempts = row[d].attempts + 1
        BY <1>a, <2>1, <3>2, <4>1 DEF Row, NoJob
      <4> QED
        BY <1>0, <2>2, <3>1, <4>1, <4>2, PointTypes DEF Sound, Owns, NotAhead,
            Accounted, WithinCeiling, Active
    <3>3. CASE d \notin P
      <4>1. row'[d] = row[d] /\ job'[w][d].stage = "none"
        BY <1>a, <2>1, <3>3 DEF NoJob
      <4> QED
        BY <1>0, <2>2, <3>1, <4>1 DEF Sound, Owns, NotAhead, Accounted,
            WithinCeiling, Active
    <3> QED
      BY <3>2, <3>3
  <2>4. UnseenHaveNoRow'
    <3>1. \A d \in Dispatch : row'[d].status = row[d].status
      BY <1>a, <2>1 DEF Row
    <3> QED
      BY <1>0, <2>2, <3>1, UnseenFrame
  <2> QED
    BY <2>3, <2>4 DEF IInv
<1>2. CASE LoadSinks(w)
  <2>1. row' = row /\ hist' = hist /\ seen' = seen
    BY <1>2 DEF LoadSinks
  <2>2. ASSUME NEW d \in Dispatch PROVE Sound(w, d)'
    <3>1. CASE job[w][d].stage = "claimed"
      <4>1. job'[w][d].stage = "ready" /\ job'[w][d].attempts = job[w][d].attempts
        <5> DEFINE there == SinkOf[DestOf(d)] \in sinks
        <5>1. job'[w][d] = [job[w][d] EXCEPT !.stage = "ready", !.found = there]
          BY <1>a, <1>2, <3>1 DEF LoadSinks
        <5>2. job[w][d] \in Job
          BY <1>a
        <5> HIDE DEF there
        <5> QED
          BY <5>1, <5>2 DEF Job
      <4> QED
        BY <1>0, <2>1, <3>1, <4>1 DEF Sound, Owns, NotAhead, Accounted,
            WithinCeiling, Active
    <3>2. CASE job[w][d].stage # "claimed"
      <4>1. job'[w][d] = job[w][d]
        BY <1>a, <1>2, <3>2 DEF LoadSinks
      <4> QED
        BY <1>0, <2>1, <4>1, SoundFrame
    <3> QED
      BY <3>1, <3>2
  <2> QED
    BY <1>0, <2>1, <2>2, UnseenFrame DEF IInv
<1>3. ASSUME NEW d \in Dispatch,
             Reject(w, d) \/ SendOk(w, d) \/ SendThrows(w, d)
                \/ \E code \in FailureCode, hint \in Hint : SendFails(w, d, code, hint)
      PROVE  IInv(w)'
  <2>1. row' = row /\ seen' = seen /\ job[w][d].stage = "ready"
    BY <1>3 DEF Reject, SendOk, SendThrows, SendFails, Sends, Turn
  <2> DEFINE Moved ==
        /\ job'[w][d].stage \in InTurn /\ job'[w][d].attempts = job[w][d].attempts
        /\ hist'[d].lost = hist[d].lost /\ hist'[d].unrecorded = hist[d].unrecorded
        /\ hist'[d].acked = hist[d].acked + (IF job'[w][d].stage = "ok" THEN 1 ELSE 0)
        /\ \A e \in Dispatch \ {d} : job'[w][e] = job[w][e] /\ hist'[e] = hist[e]
  <2>2. Moved
    <3>1. job[w][d] \in Job /\ hist[d] \in History /\ hist[d].acked \in Nat
      BY <1>a DEF History
    <3>2. CASE SendOk(w, d)
      BY <1>a, <3>1, <3>2 DEF SendOk, Job, History, InTurn
    <3>3. CASE SendThrows(w, d)
      BY <1>a, <3>1, <3>3 DEF SendThrows, Job, InTurn
    <3>4. CASE Reject(w, d)
      BY <1>a, <3>1, <3>4 DEF Reject, Job, History, InTurn
    <3>5. ASSUME NEW code \in FailureCode, NEW hint \in Hint, SendFails(w, d, code, hint)
          PROVE  Moved
      BY <1>a, <3>1, <3>5 DEF SendFails, Job, History, InTurn
    <3> QED
      BY <1>3, <3>2, <3>3, <3>4, <3>5
  <2>3. Sound(w, d)'
    BY <1>0, <2>1, <2>2, PointTypes DEF Sound, Owns, NotAhead, Accounted,
        WithinCeiling, Active, InTurn
  <2>4. \A e \in Dispatch \ {d} : Sound(w, e)'
    BY <1>0, <2>1, <2>2, SoundFrame
  <2> QED
    BY <1>0, <2>1, <2>3, <2>4, UnseenFrame DEF IInv
<1>4. ASSUME NEW d \in Dispatch, Record(w, d)
      PROVE  IInv(w)'
  <2>1. /\ job[w][d].stage \in {"orphan", "ok", "error"}
        /\ row' = Recorded(w, d) /\ seen' = seen /\ hist' = hist
        /\ job'[w][d] = NoJob /\ \A e \in Dispatch \ {d} : job'[w][e] = job[w][e]
    BY <1>a, <1>4 DEF Record
  <2>2. \A e \in Dispatch \ {d} : Sound(w, e)'
    BY <1>0, <2>1, RecordedEffect, SoundFrame
  <2>3. Sound(w, d)'
    <3>1. CASE row[d].status = "gone"
      <4>1. row'[d] = row[d]
        BY <1>0, <2>1, <3>1, RecordedEffect DEF Stored, Terminal
      <4> QED
        BY <1>0, <2>1, <3>1, <4>1, PointTypes DEF Sound, Owns, NotAhead, Accounted,
            WithinCeiling, Active, NoJob
    <3>2. CASE row[d].status # "gone"
      <4>1. row[d].status = "pending" /\ row[d].attempts = job[w][d].attempts
        BY <1>0, <2>1, <3>2 DEF Sound, Owns
      <4>2. /\ row'[d].attempts = row[d].attempts
            /\ row'[d].status \in Terminal \cup {"pending"}
            /\ row'[d].status = "sent" <=> job[w][d].stage = "ok"
            /\ row'[d].status = "pending" => job[w][d].attempts < MaxAttempts
        BY <1>0, <2>1, <4>1, RecordedEffect DEF Stored
      <4> QED
        BY <1>0, <2>1, <4>1, <4>2, PointTypes DEF Sound, Owns, NotAhead, Accounted,
            WithinCeiling, Active, NoJob, Terminal
    <3> QED
      BY <3>1, <3>2
  <2>4. UnseenHaveNoRow'
    BY <1>0, <2>1, RecordedEffect, UnseenFrame DEF Stored, Terminal
  <2> QED
    BY <2>2, <2>3, <2>4 DEF IInv
<1>5. ASSUME NEW d \in Dispatch, Catch(w, d)
      PROVE  IInv(w)'
  <2>1. /\ job[w][d].stage = "threw"
        /\ row' = Caught(w, d) /\ seen' = seen /\ hist' = hist
        /\ job'[w][d] = NoJob /\ \A e \in Dispatch \ {d} : job'[w][e] = job[w][e]
    BY <1>a, <1>5 DEF Catch
  <2>2. \A e \in Dispatch \ {d} : Sound(w, e)'
    BY <1>0, <2>1, CaughtEffect, SoundFrame
  <2>3. Sound(w, d)'
    <3>1. CASE row[d].status # "pending"
      <4>1. row'[d] = row[d]
        BY <1>0, <2>1, <3>1, CaughtEffect
      <4> QED
        BY <1>0, <2>1, <3>1, <4>1, PointTypes DEF Sound, Owns, NotAhead, Accounted,
            WithinCeiling, Active, NoJob
    <3>2. CASE row[d].status = "pending"
      <4>1. /\ row'[d].attempts = row[d].attempts
            /\ row'[d].status \in {"failed", "pending"}
            /\ row'[d].status = "pending" => job[w][d].attempts < MaxAttempts
        BY <1>0, <2>1, <3>2, CaughtEffect
      <4>2. row[d].attempts <= job[w][d].attempts
        BY <1>0, <2>1, <3>2 DEF Sound, NotAhead
      <4> QED
        BY <1>0, <2>1, <3>2, <4>1, <4>2, PointTypes DEF Sound, Owns, NotAhead, Accounted,
            WithinCeiling, Active, NoJob
    <3> QED
      BY <3>1, <3>2
  <2>4. UnseenHaveNoRow'
    BY <1>0, <2>1, CaughtEffect, UnseenFrame
  <2> QED
    BY <2>2, <2>3, <2>4 DEF IInv
<1>6. ASSUME NEW d \in Dispatch, RecordThrows(w, d)
      PROVE  IInv(w)'
  <2>1. /\ job[w][d].stage \in {"orphan", "ok", "error"} /\ seen' = seen
        /\ job'[w][d].stage = "threw" /\ job'[w][d].attempts = job[w][d].attempts
        /\ \A e \in Dispatch \ {d} : job'[w][e] = job[w][e]
    BY <1>a, <1>6 DEF RecordThrows, Job
  <2>2. CASE /\ row' = row
             /\ hist' = IF job[w][d].stage = "ok"
                        THEN [hist EXCEPT ![d].unrecorded = @ + 1] ELSE hist
    <3>1. /\ hist'[d].acked = hist[d].acked /\ hist'[d].lost = hist[d].lost
          /\ hist'[d].unrecorded =
                hist[d].unrecorded + (IF job[w][d].stage = "ok" THEN 1 ELSE 0)
          /\ \A e \in Dispatch \ {d} : hist'[e] = hist[e]
      BY <1>0, <1>a, <2>2, PointTypes DEF History
    <3>2. Sound(w, d)'
      BY <1>0, <2>1, <2>2, <3>1, PointTypes DEF Sound, Owns, NotAhead, Accounted,
          WithinCeiling, Active
    <3>3. \A e \in Dispatch \ {d} : Sound(w, e)'
      BY <1>0, <2>1, <2>2, <3>1, SoundFrame
    <3> QED
      BY <1>0, <2>1, <2>2, <3>2, <3>3, UnseenFrame DEF IInv
  <2>3. CASE row' = Recorded(w, d) /\ hist' = hist
    <3>1. \A e \in Dispatch \ {d} : Sound(w, e)'
      BY <1>0, <2>1, <2>3, RecordedEffect, SoundFrame
    <3>2. Sound(w, d)'
      <4>1. CASE row[d].status = "gone"
        <5>1. row'[d] = row[d]
          BY <1>0, <2>1, <2>3, <4>1, RecordedEffect DEF Stored, Terminal
        <5> QED
          BY <1>0, <2>1, <2>3, <4>1, <5>1, PointTypes DEF Sound, Owns, NotAhead,
              Accounted, WithinCeiling, Active
      <4>2. CASE row[d].status # "gone"
        <5>1. row[d].status = "pending" /\ row[d].attempts = job[w][d].attempts
          BY <1>0, <2>1, <4>2 DEF Sound, Owns
        <5>2. /\ row'[d].attempts = row[d].attempts
              /\ row'[d].status \in Terminal \cup {"pending"}
              /\ row'[d].status = "sent" <=> job[w][d].stage = "ok"
          BY <1>0, <2>1, <2>3, <5>1, RecordedEffect DEF Stored
        <5> QED
          BY <1>0, <2>1, <2>3, <5>1, <5>2, PointTypes DEF Sound, Owns, NotAhead,
              Accounted, WithinCeiling, Active, Terminal
      <4> QED
        BY <4>1, <4>2
    <3>3. UnseenHaveNoRow'
      BY <1>0, <2>1, <2>3, RecordedEffect, UnseenFrame DEF Stored, Terminal
    <3> QED
      BY <3>1, <3>2, <3>3 DEF IInv
  <2> QED
    BY <1>6, <2>2, <2>3 DEF RecordThrows
<1>7. ASSUME NEW d \in Dispatch, CatchThrows(w, d)
      PROVE  IInv(w)'
  <2>1. /\ job[w][d].stage = "threw" /\ seen' = seen
        /\ job'[w][d].stage = "abandoned"
        /\ \A e \in Dispatch \ {d} : job'[w][e] = job[w][e]
    BY <1>a, <1>7 DEF CatchThrows, Job
  <2>2. CASE row' = row /\ hist' = [hist EXCEPT ![d].lost = @ + 1]
    <3>1. /\ hist'[d].acked = hist[d].acked /\ hist'[d].lost = hist[d].lost + 1
          /\ hist'[d].unrecorded = hist[d].unrecorded
          /\ \A e \in Dispatch \ {d} : hist'[e] = hist[e]
      BY <1>a, <2>2 DEF History
    <3>2. Sound(w, d)'
      BY <1>0, <2>1, <2>2, <3>1, PointTypes DEF Sound, Owns, NotAhead, Accounted,
          WithinCeiling, Active
    <3>3. \A e \in Dispatch \ {d} : Sound(w, e)'
      BY <1>0, <2>1, <2>2, <3>1, SoundFrame
    <3> QED
      BY <1>0, <2>1, <2>2, <3>2, <3>3, UnseenFrame DEF IInv
  <2>3. CASE row' = Caught(w, d) /\ hist' = hist
    <3>1. \A e \in Dispatch \ {d} : Sound(w, e)'
      BY <1>0, <2>1, <2>3, CaughtEffect, SoundFrame
    <3>2. Sound(w, d)'
      <4>1. CASE row[d].status # "pending"
        <5>1. row'[d] = row[d]
          BY <1>0, <2>1, <2>3, <4>1, CaughtEffect
        <5> QED
          BY <1>0, <2>1, <2>3, <4>1, <5>1, PointTypes DEF Sound, Owns, NotAhead,
              Accounted, WithinCeiling, Active
      <4>2. CASE row[d].status = "pending"
        <5>1. /\ row'[d].attempts = row[d].attempts
              /\ row'[d].status \in {"failed", "pending"}
              /\ row'[d].status = "pending" => job[w][d].attempts < MaxAttempts
          BY <1>0, <2>1, <2>3, <4>2, CaughtEffect
        <5>2. row[d].attempts <= job[w][d].attempts
          BY <1>0, <2>1, <4>2 DEF Sound, NotAhead
        <5> QED
          BY <1>0, <2>1, <2>3, <4>2, <5>1, <5>2, PointTypes DEF Sound, Owns, NotAhead,
              Accounted, WithinCeiling, Active
      <4> QED
        BY <4>1, <4>2
    <3>3. UnseenHaveNoRow'
      BY <1>0, <2>1, <2>3, CaughtEffect, UnseenFrame
    <3> QED
      BY <3>1, <3>2, <3>3 DEF IInv
  <2> QED
    BY <1>7, <2>2, <2>3 DEF CatchThrows
<1>8. CASE LoadSinksFails(w) \/ Crash(w)
  <2>1. LoseJobs(w) /\ row' = row /\ seen' = seen /\ TypeOK
    BY <1>0, <1>8 DEF LoadSinksFails, Crash, TypeInv
  <2>2. ASSUME NEW d \in Dispatch PROVE Sound(w, d)'
    BY <1>0, <2>1, LoseJobsEffect, PointTypes DEF Sound, Owns, NotAhead, Accounted,
        WithinCeiling, Active, NoJob
  <2> QED
    BY <1>0, <2>1, <2>2, UnseenFrame DEF IInv
<1>9. CASE Restart(w)
  <2>1. UNCHANGED <<seen, row, job, hist>>
    BY <1>9 DEF Restart
  <2> QED
    BY <1>0, <2>1, SoundFrame, UnseenFrame DEF IInv
<1> QED
  BY <1>1, <1>2, <1>3, <1>4, <1>5, <1>6, <1>7, <1>8, <1>9 DEF WorkerStep, Deliver, Fault

LEMMA IInvNext ==
    ASSUME NEW w, Worker = {w}
    PROVE  IInv(w) /\ [Next]_vars => IInv(w)'
<1> SUFFICES ASSUME IInv(w), [Next]_vars PROVE IInv(w)'
  OBVIOUS
<1>1. w \in Worker /\ \A v \in Worker : v = w
  OBVIOUS
<1>2. TypeInv /\ TypeInv'
  BY TypeInvNext DEF IInv
<1>3. CASE \E I \in SUBSET (Item \ seen), pace \in Pace : Enqueue(I, pace)
  BY <1>1, <1>2, <1>3, WorldKeepsIInv
<1>4. CASE Edit \/ Tick
  BY <1>1, <1>2, <1>4, WorldKeepsIInv
<1>5. CASE \E v \in Worker : WorkerStep(v) \/ Fault(v) \/ Restart(v)
  BY <1>1, <1>2, <1>5, WorkerKeepsIInv
<1>6. CASE UNCHANGED vars
  BY <1>2, <1>6, SoundFrame, UnseenFrame DEF vars, IInv
<1> QED
  BY <1>3, <1>4, <1>5, <1>6 DEF Next

-----------------------------------------------------------------------------
(* What a single worker guarantees.                                        *)

LEMMA SingleWorkerInvariant ==
    ASSUME NEW w, Worker = {w}
    PROVE  Spec => []IInv(w)
<1>1. Init => IInv(w)
  BY IInvInit
<1>2. IInv(w) /\ [Next]_vars => IInv(w)'
  BY IInvNext
<1> QED
  BY <1>1, <1>2, PTL DEF Spec

\* With one worker, a claimed dispatch is worked on by nobody else and its row
\* waits for the outcome of this very attempt: claiming without a change of
\* status is enough for one worker.
THEOREM ClaimsOwnTheirRows ==
    ASSUME NEW w, Worker = {w}
    PROVE  Spec => []JobOwnsRow
<1>1. IInv(w) => JobOwnsRow
  BY DEF IInv, Sound, Owns, JobOwnsRow
<1> QED
  BY <1>1, SingleWorkerInvariant, PTL

\* With one worker, every success a provider reported is in the table, on its
\* way there, or was lost to a failed statement or a dead process.
THEOREM NoAckGetsLostUnnoticed ==
    ASSUME NEW w, Worker = {w}
    PROVE  Spec => []EveryAckIsAccountedFor
<1>1. IInv(w) => EveryAckIsAccountedFor
  BY DEF IInv, Sound, Accounted, EveryAckIsAccountedFor, Stored, Terminal
<1> QED
  BY <1>1, SingleWorkerInvariant, PTL

\* With one worker, a row's attempts exceed MAX_ATTEMPTS by at most the number
\* of its claims that ended without an outcome.
THEOREM AttemptsAreBounded ==
    ASSUME NEW w, Worker = {w}
    PROVE  Spec => []AttemptCeiling
<1>1. IInv(w) => AttemptCeiling
  BY DEF IInv, Sound, WithinCeiling, AttemptCeiling
<1> QED
  BY <1>1, SingleWorkerInvariant, PTL

-----------------------------------------------------------------------------
(***************************************************************************)
(* A single worker implements the ledger.  Every step of the dispatcher is *)
(* one step of one row's ledger, or none: the statements of deliverOne     *)
(* carry no guard on the status they overwrite, and IInv supplies it.      *)
(***************************************************************************)

StatusOf == [d \in Dispatch |-> row[d].status]
AckedOf == [d \in Dispatch |-> hist[d].acked]

LEMMA LedgerInitially == Init => Ledger!LedgerInit
BY DEF Init, Ledger!LedgerInit, NoRow, NoHistory

\* A step that changes one row only moves the ledger at that row.
LEMMA OneStatusMoves ==
    ASSUME NEW d \in Dispatch, NEW s, row'[d].status = s,
           \A e \in Dispatch \ {d} : row'[e] = row[e]
    PROVE  StatusOf' = [StatusOf EXCEPT ![d] = s]
BY DEF StatusOf

LEMMA LedgerStep ==
    ASSUME NEW w, Worker = {w}
    PROVE  IInv(w) /\ [Next]_vars => [Ledger!LedgerNext]_(Ledger!ledger)
<1> SUFFICES ASSUME IInv(w), [Next]_vars
             PROVE  [Ledger!LedgerNext]_(Ledger!ledger)
  OBVIOUS
<1>0. /\ TypeInv /\ UnseenHaveNoRow /\ \A d \in Dispatch : Sound(w, d)
      /\ w \in Worker /\ \A v \in Worker : v = w
  BY DEF IInv
<1>a. job \in [Worker -> [Dispatch -> Job]] /\ row \in [Dispatch -> Row]
        /\ hist \in [Dispatch -> History]
  BY <1>0 DEF TypeInv, TypeOK
<1>b. ASSUME StatusOf' = StatusOf, AckedOf' = AckedOf
      PROVE  [Ledger!LedgerNext]_(Ledger!ledger)
  BY <1>b DEF StatusOf, AckedOf, Ledger!ledger
<1>c. ASSUME row' = row, hist' = hist
      PROVE  [Ledger!LedgerNext]_(Ledger!ledger)
  BY <1>c DEF Ledger!ledger
<1>d. ASSUME NEW d \in Dispatch, NEW s \in Terminal, AckedOf' = AckedOf,
             row[d].status = "pending", s = "sent" => hist[d].acked > 0,
             StatusOf' = [StatusOf EXCEPT ![d] = s]
      PROVE  [Ledger!LedgerNext]_(Ledger!ledger)
  <2>1. Ledger!Settle(d, s)
    BY <1>d DEF StatusOf, AckedOf, Ledger!Settle
  <2> QED
    BY <2>1 DEF Ledger!LedgerNext, Ledger!Settled, Terminal
<1>1. ASSUME NEW I \in SUBSET (Item \ seen), NEW pace \in Pace, Enqueue(I, pace)
      PROVE  [Ledger!LedgerNext]_(Ledger!ledger)
  <2>1. PICK D \in SUBSET Dispatch :
            D = {d \in Dispatch : ItemOf(d) \in I /\ dest[DestOf(d)].present
                                     /\ dest[DestOf(d)].enabled}
    OBVIOUS
  <2>2. \A d \in D : row[d].status = "none"
    BY <1>0, <2>1 DEF UnseenHaveNoRow
  <2>3. \A d \in Dispatch : row'[d].status = IF d \in D THEN "pending" ELSE row[d].status
    BY <1>1, <2>1 DEF Enqueue
  <2>4. hist' = hist
    BY <1>1 DEF Enqueue
  <2>5. Ledger!Create(D)
    BY <2>1, <2>2, <2>3, <2>4 DEF Ledger!Create
  <2> QED
    BY <2>5 DEF Ledger!LedgerNext
<1>2. ASSUME NEW d \in Dispatch, RetryDispatch(d)
      PROVE  [Ledger!LedgerNext]_(Ledger!ledger)
  <2>1. /\ row[d].status = "failed" /\ row'[d].status = "pending"
        /\ \A e \in Dispatch \ {d} : row'[e] = row[e]
        /\ \A e \in Dispatch : hist'[e].acked = hist[e].acked
    BY <1>a, <1>2 DEF RetryDispatch, Row, History
  <2>2. Ledger!Retry(d)
    BY <2>1 DEF Ledger!Retry
  <2> QED
    BY <2>2 DEF Ledger!LedgerNext
<1>3. ASSUME NEW r \in RouteDestination, DeleteDestination(r)
      PROVE  [Ledger!LedgerNext]_(Ledger!ledger)
  <2> DEFINE D == {d \in Dispatch : DestOf(d) = r}
  <2>d. D \in SUBSET Dispatch
    OBVIOUS
  <2>1. hist' = hist
    BY <1>3 DEF DeleteDestination
  <2>2. ASSUME NEW d \in Dispatch
        PROVE  row'[d].status =
            IF d \in D /\ row[d].status # "none" THEN "gone" ELSE row[d].status
    <3>1. row[d].status \in {"none", "gone"} \cup Stored
      BY <1>a DEF Row
    <3>2. row'[d] = IF DestOf(d) = r /\ row[d].status \in Stored
                    THEN [NoRow EXCEPT !.status = "gone"] ELSE row[d]
      BY <1>3 DEF DeleteDestination
    <3>3. [NoRow EXCEPT !.status = "gone"].status = "gone"
      BY DEF NoRow
    <3>4. "none" \notin Stored
      BY DEF Stored, Terminal
    <3> QED
      BY <3>1, <3>2, <3>3, <3>4
  <2>3. Ledger!Remove(D)
    BY <2>1, <2>2 DEF Ledger!Remove
  <2> QED
    BY <2>3, <2>d DEF Ledger!LedgerNext
<1>4. ASSUME Tick
      PROVE  [Ledger!LedgerNext]_(Ledger!ledger)
  BY <1>c, <1>4 DEF Tick
<1>5. CASE \E r \in RouteDestination, enabled, address \in BOOLEAN :
              PatchDestination(r, enabled, address)
  BY <1>c, <1>5 DEF PatchDestination
<1>6. CASE \E s \in Sink : DeleteSink(s)
  BY <1>c, <1>6 DEF DeleteSink
<1>7. CASE Claim(w)
  <2>1. PICK P \in Picks : row' = [d \in Dispatch |->
                IF d \in P THEN [row[d] EXCEPT !.attempts = @ + 1] ELSE row[d]]
    BY <1>7 DEF Claim
  <2>2. ASSUME NEW d \in Dispatch
        PROVE  row'[d].status = row[d].status
    <3>1. row[d] \in Row
      BY <1>a
    <3>2. [row[d] EXCEPT !.attempts = @ + 1].status = row[d].status
      BY <3>1 DEF Row
    <3>3. row'[d] = IF d \in P THEN [row[d] EXCEPT !.attempts = @ + 1] ELSE row[d]
      BY <2>1
    <3> QED
      BY <3>2, <3>3
  <2>3. AckedOf' = AckedOf
    BY <1>7 DEF Claim, AckedOf
  <2> QED
    BY <1>b, <2>2, <2>3 DEF StatusOf
<1>8. CASE LoadSinks(w)
  BY <1>c, <1>8 DEF LoadSinks
<1>9. ASSUME NEW d \in Dispatch, SendOk(w, d)
      PROVE  [Ledger!LedgerNext]_(Ledger!ledger)
  <2>1. row[d].status \in {"pending", "gone"}
    BY <1>0, <1>9 DEF SendOk, Sends, Turn, Sound, Owns
  <2>2. row' = row /\ hist'[d].acked = hist[d].acked + 1
          /\ \A e \in Dispatch \ {d} : hist'[e] = hist[e]
    BY <1>a, <1>9 DEF SendOk, History
  <2>3. Ledger!Accept(d)
    BY <2>1, <2>2 DEF Ledger!Accept
  <2> QED
    BY <2>3 DEF Ledger!LedgerNext
<1>10. ASSUME NEW d \in Dispatch,
              Reject(w, d) \/ SendThrows(w, d)
                \/ \E code \in FailureCode, hint \in Hint : SendFails(w, d, code, hint)
       PROVE  [Ledger!LedgerNext]_(Ledger!ledger)
  <2>1. row' = row
    BY <1>10 DEF Reject, SendThrows, SendFails
  <2>2. \A e \in Dispatch : hist'[e].acked = hist[e].acked
    <3>1. CASE Reject(w, d) \/ SendThrows(w, d)
      BY <1>a, <3>1 DEF Reject, SendThrows, History
    <3>2. ASSUME NEW code \in FailureCode, NEW hint \in Hint, SendFails(w, d, code, hint)
          PROVE  \A e \in Dispatch : hist'[e].acked = hist[e].acked
      BY <1>a, <3>2 DEF SendFails, History
    <3> QED
      BY <1>10, <3>1, <3>2
  <2> QED
    BY <1>b, <2>1, <2>2 DEF StatusOf, AckedOf
<1>11. ASSUME NEW d \in Dispatch, job[w][d].stage \in {"orphan", "ok", "error"},
              row' = Recorded(w, d), hist' = hist
       PROVE  [Ledger!LedgerNext]_(Ledger!ledger)
  <2>1. \A e \in Dispatch \ {d} : row'[e] = row[e]
    BY <1>0, <1>11, RecordedEffect
  <2>2. CASE row[d].status = "gone"
    <3>1. row'[d] = row[d]
      BY <1>0, <1>11, <2>2, RecordedEffect DEF Stored, Terminal
    <3> QED
      BY <1>b, <1>11, <2>1, <3>1 DEF StatusOf, AckedOf
  <2>3. CASE row[d].status # "gone"
    <3>1. row[d].status = "pending"
      BY <1>0, <1>11, <2>3 DEF Sound, Owns
    <3>2. /\ row'[d].status \in Terminal \cup {"pending"}
          /\ row'[d].status = "sent" <=> job[w][d].stage = "ok"
      BY <1>0, <1>11, <3>1, RecordedEffect DEF Stored
    <3>3. row'[d].status = "sent" => hist[d].acked > 0
      BY <1>0, <3>1, <3>2, PointTypes DEF Sound, Accounted
    <3>4. CASE row'[d].status = "pending"
      BY <1>b, <1>11, <2>1, <3>1, <3>4 DEF StatusOf, AckedOf
    <3>5. CASE row'[d].status \in Terminal
      <4>1. StatusOf' = [StatusOf EXCEPT ![d] = row'[d].status]
        BY <2>1, OneStatusMoves
      <4> QED
        BY <1>d, <1>11, <3>1, <3>3, <3>5, <4>1 DEF AckedOf
    <3> QED
      BY <3>2, <3>4, <3>5
  <2> QED
    BY <2>2, <2>3
<1>12. ASSUME NEW d \in Dispatch, job[w][d].stage = "threw",
              row' = Caught(w, d), hist' = hist
       PROVE  [Ledger!LedgerNext]_(Ledger!ledger)
  <2>1. \A e \in Dispatch \ {d} : row'[e] = row[e]
    BY <1>0, <1>12, CaughtEffect
  <2>2. CASE row'[d].status = row[d].status
    BY <1>b, <1>12, <2>1, <2>2 DEF StatusOf, AckedOf
  <2>3. CASE row'[d].status # row[d].status
    <3>1. row[d].status = "pending" /\ row'[d].status = "failed"
      BY <1>0, <1>12, <2>3, CaughtEffect
    <3>2. StatusOf' = [StatusOf EXCEPT ![d] = "failed"]
      BY <2>1, <3>1, OneStatusMoves
    <3> QED
      BY <1>d, <1>12, <3>1, <3>2 DEF AckedOf, Terminal
  <2> QED
    BY <2>2, <2>3
<1>13. ASSUME NEW d \in Dispatch, Record(w, d) \/ Catch(w, d)
       PROVE  [Ledger!LedgerNext]_(Ledger!ledger)
  BY <1>11, <1>12, <1>13 DEF Record, Catch
<1>14. ASSUME NEW d \in Dispatch, RecordThrows(w, d) \/ CatchThrows(w, d)
       PROVE  [Ledger!LedgerNext]_(Ledger!ledger)
  <2>1. CASE row' = row
    <3>1. \A e \in Dispatch : hist'[e].acked = hist[e].acked
      BY <1>a, <1>14 DEF RecordThrows, CatchThrows, History
    <3> QED
      BY <1>b, <2>1, <3>1 DEF StatusOf, AckedOf
  <2> QED
    BY <1>11, <1>12, <1>14, <2>1 DEF RecordThrows, CatchThrows
<1>15. CASE LoadSinksFails(w) \/ Crash(w)
  <2>1. LoseJobs(w) /\ row' = row /\ TypeOK
    BY <1>0, <1>15 DEF LoadSinksFails, Crash, TypeInv
  <2>2. \A e \in Dispatch : hist'[e].acked = hist[e].acked
    BY <1>0, <2>1, LoseJobsEffect
  <2> QED
    BY <1>b, <2>1, <2>2 DEF StatusOf, AckedOf
<1>16. CASE Restart(w)
  BY <1>c, <1>16 DEF Restart
<1>17. CASE UNCHANGED vars
  BY <1>c, <1>17 DEF vars
<1> QED
  BY <1>0, <1>1, <1>2, <1>3, <1>4, <1>5, <1>6, <1>7, <1>8, <1>9, <1>10, <1>13, <1>14,
     <1>15, <1>16, <1>17 DEF Next, Edit, WorkerStep, Deliver, Fault

\* With one worker, each row lives as the ledger says: created once, sent only
\* while it waits, 'sent' only after the provider took it, final unless it
\* failed and the user retries it.
THEOREM WorkerImplementsLedger ==
    ASSUME NEW w, Worker = {w}
    PROVE  Spec => ImplementsLedger
<1>1. Init => Ledger!LedgerInit
  BY LedgerInitially
<1>2. IInv(w) /\ [Next]_vars => [Ledger!LedgerNext]_(Ledger!ledger)
  BY LedgerStep
<1> QED
  BY <1>1, <1>2, SingleWorkerInvariant, PTL DEF Spec, ImplementsLedger, Ledger!LedgerSpec

-----------------------------------------------------------------------------
(***************************************************************************)
(* The order of the sends, for any number of workers.  A batch holds every *)
(* row that was due before one of its own, so whoever is sent early has    *)
(* overtaken a member of its own batch, and that the turns forbid.         *)
(***************************************************************************)

\* A batch was due when it was claimed.
Overdue(w) == \A d \in Dispatch : job[w][d].due <= now

\* A row that was due before a job of the batch is in the batch, at the due
\* date it still has.
Complete(w) ==
    \A d, e \in Dispatch :
        Active(w, d) /\ row[e].status = "pending" /\ row[e].scheduled < job[w][d].due
        => job[w][e].stage # "none" /\ job[w][e].due = row[e].scheduled

\* The sinks are loaded for the whole batch before the first send; of a
\* destination one job has the turn, and none that goes before it still waits.
InTurns(w) ==
    \A d, e \in Dispatch :
        /\ job[w][d].stage = "claimed" => job[w][e].stage \in {"none", "claimed"}
        /\ DestOf(d) = DestOf(e) /\ job[w][d].stage \in InTurn =>
              /\ job[w][e].stage \in InTurn => d = e
              /\ job[w][e].stage = "ready" => ~Before(w, e, d)

InOrder(w) == Overdue(w) /\ Complete(w) /\ InTurns(w)

\* A row as it was, one that no longer waits, or one that waits from now on.
AsBeforeOrLater(e) ==
    \/ row'[e].status = row[e].status /\ row'[e].scheduled = row[e].scheduled
    \/ row'[e].status # "pending"
    \/ row'[e].scheduled >= now

LEMMA OrderTypes ==
    ASSUME TypeInv, NEW w \in Worker, NEW d \in Dispatch
    PROVE  /\ now \in Nat /\ row[d].scheduled \in Nat /\ row[d].created \in Nat
           /\ job[w][d] \in Job /\ job[w][d].due \in Nat /\ job[w][d].created \in Nat
BY DEF TypeInv, TypeOK, Row, Job

\* What happens to the table does not disturb the order of a batch.
LEMMA TableKeepsOrder ==
    ASSUME TypeInv, TypeInv', NEW w \in Worker, InOrder(w), job'[w] = job[w], now <= now',
           \A e \in Dispatch : AsBeforeOrLater(e)
    PROVE  InOrder(w)'
<1>1. Overdue(w)'
  BY OrderTypes DEF InOrder, Overdue, TypeInv, TypeOK
<1>2. Complete(w)'
  <2>1. SUFFICES ASSUME NEW d \in Dispatch, NEW e \in Dispatch,
                        Active(w, d), row'[e].status = "pending",
                        row'[e].scheduled < job[w][d].due
                 PROVE  job[w][e].stage # "none" /\ job[w][e].due = row'[e].scheduled
    BY DEF Complete, Active
  <2>2. ~(row'[e].scheduled >= now)
    BY <2>1, OrderTypes DEF InOrder, Overdue, TypeInv, TypeOK, Row
  <2>3. row'[e].status = row[e].status /\ row'[e].scheduled = row[e].scheduled
    BY <2>1, <2>2 DEF AsBeforeOrLater
  <2>4. QED
    BY <2>1, <2>3 DEF InOrder, Complete
<1>3. InTurns(w)'
  BY DEF InOrder, InTurns, Before
<1>4. QED
  BY <1>1, <1>2, <1>3 DEF InOrder

\* One job of the batch goes on, at its due date, or is done with; then its row
\* waits no longer, or from now on.
LEMMA JobKeepsOrder ==
    ASSUME TypeInv, TypeInv', NEW w \in Worker, InOrder(w), NEW d \in Dispatch,
           now' = now, \A e \in Dispatch : AsBeforeOrLater(e),
           \A e \in Dispatch \ {d} : job'[w][e] = job[w][e],
           \/ /\ job[w][d].stage \in InTurn /\ job'[w][d] = NoJob
              /\ row'[d].status # "pending" \/ row'[d].scheduled >= now
           \/ /\ job[w][d].stage = "ready" \/ job[w][d].stage \in InTurn
              /\ job[w][d].stage = "ready" => Turn(w, d)
              /\ job'[w][d].stage \in InTurn \cup {"abandoned"}
              /\ job'[w][d].due = job[w][d].due /\ job'[w][d].created = job[w][d].created
    PROVE  InOrder(w)'
<1>1. \A e \in Dispatch : job'[w][e].due <= job[w][e].due
  BY OrderTypes DEF NoJob
<1>2. Overdue(w)'
  BY <1>1, OrderTypes DEF InOrder, Overdue, TypeInv, TypeOK, Job
<1>3. Complete(w)'
  <2>1. SUFFICES ASSUME NEW c \in Dispatch, NEW e \in Dispatch,
                        Active(w, c)', row'[e].status = "pending",
                        row'[e].scheduled < job'[w][c].due
                 PROVE  job'[w][e].stage # "none" /\ job'[w][e].due = row'[e].scheduled
    BY DEF Complete
  <2>2. Active(w, c) /\ job'[w][c].due = job[w][c].due
    BY <2>1 DEF Active, InTurn, NoJob
  <2>3. ~(row'[e].scheduled >= now)
    BY <2>1, <2>2, OrderTypes DEF InOrder, Overdue, TypeInv, TypeOK, Row
  <2>4. row'[e].status = row[e].status /\ row'[e].scheduled = row[e].scheduled
    BY <2>1, <2>3 DEF AsBeforeOrLater
  <2>5. job[w][e].stage # "none" /\ job[w][e].due = row[e].scheduled
    BY <2>1, <2>2, <2>4 DEF InOrder, Complete
  <2>6. CASE e # d
    BY <2>4, <2>5, <2>6
  <2>7. CASE e = d
    BY <2>1, <2>3, <2>4, <2>5, <2>7 DEF InTurn
  <2>8. QED
    BY <2>6, <2>7
<1>4. InTurns(w)'
  <2>1. SUFFICES ASSUME NEW c \in Dispatch, NEW e \in Dispatch
                 PROVE  /\ job'[w][c].stage = "claimed" => job'[w][e].stage \in {"none", "claimed"}
                        /\ DestOf(c) = DestOf(e) /\ job'[w][c].stage \in InTurn =>
                              /\ job'[w][e].stage \in InTurn => c = e
                              /\ job'[w][e].stage = "ready" => ~Before(w, e, c)'
    BY DEF InTurns
  <2>2. job'[w][c].stage = "claimed" => job'[w][e].stage \in {"none", "claimed"}
    BY DEF InOrder, InTurns, InTurn, NoJob
  <2>3. ASSUME DestOf(c) = DestOf(e), job'[w][c].stage \in InTurn, job'[w][e].stage \in InTurn
        PROVE  c = e
    BY <2>3 DEF InOrder, InTurns, Turn, InTurn, NoJob
  <2>4. ASSUME DestOf(c) = DestOf(e), job'[w][c].stage \in InTurn, job'[w][e].stage = "ready"
        PROVE  ~Before(w, e, c)'
    <3>1. e # d /\ job'[w][e] = job[w][e]
      BY <2>4 DEF InTurn, NoJob
    <3>2. job'[w][c].due = job[w][c].due /\ job'[w][c].created = job[w][c].created
      BY <2>4 DEF InTurn, NoJob
    <3>3. ~Before(w, e, c)
      BY <2>4, <3>1 DEF InOrder, InTurns, Turn, InTurn, NoJob
    <3>4. QED
      BY <3>1, <3>2, <3>3 DEF Before
  <2>5. QED
    BY <2>2, <2>3, <2>4
<1>5. QED
  BY <1>2, <1>3, <1>4 DEF InOrder

\* The statements of deliverOne leave each row alone, settle it or make it wait
\* from now on.
LEMMA OutcomesAreLater ==
    ASSUME TypeInv, NEW w \in Worker, NEW d \in Dispatch,
           \/ job[w][d].stage \in {"orphan", "ok", "error"} /\ row' = Recorded(w, d)
           \/ job[w][d].stage = "threw" /\ row' = Caught(w, d)
    PROVE  /\ \A e \in Dispatch : AsBeforeOrLater(e)
           /\ row'[d].status # "pending" \/ row'[d].scheduled >= now
<1> DEFINE j == job[w][d]
           Later == /\ \A e \in Dispatch : AsBeforeOrLater(e)
                    /\ row'[d].status # "pending" \/ row'[d].scheduled >= now
<1>1. j \in Job /\ row \in [Dispatch -> Row] /\ now \in Nat /\ MaxAttempts \in Nat
  BY ConstantsAssumption DEF TypeInv, TypeOK
<1>2. ASSUME NEW s \in Terminal, row' = Settle(d, s)
      PROVE  Later
  BY <1>1, <1>2 DEF Settle, AsBeforeOrLater, Row, Stored, Terminal
<1>3. ASSUME NEW delay \in Nat, row' = Reschedule(d, delay)
      PROVE  Later
  BY <1>1, <1>3 DEF Reschedule, AsBeforeOrLater, Row, Stored
<1>4. CASE row' = row /\ row[d].status # "pending"
  BY <1>4 DEF AsBeforeOrLater
<1>5. ASSUME ~(j.attempts >= MaxAttempts), NEW h \in Hint, j.stage # "none"
      PROVE  RetryDelay(j.attempts, h) \in Nat
  <2>1. j.attempts \in 1 .. MaxAttempts
    BY <1>1, <1>5 DEF TypeInv, ClaimIsCounted, Job
  <2>2. QED
    BY <2>1, RetryDelayAssumption
<1>6. j.hint \in Hint /\ 0 \in Hint
  BY <1>1, ConstantsAssumption DEF Job
<1>7. CASE j.stage \in {"orphan", "ok", "error"} /\ row' = Recorded(w, d)
  <2>1. CASE row' = Reschedule(d, RetryDelay(j.attempts, j.hint)) /\ ~(j.attempts >= MaxAttempts)
    BY <1>3, <1>5, <1>6, <1>7, <2>1
  <2>2. CASE \E s \in Terminal : row' = Settle(d, s)
    BY <1>2, <2>2
  <2>3. QED
    BY <1>7, <2>1, <2>2 DEF Recorded, Terminal
<1>8. CASE j.stage = "threw" /\ row' = Caught(w, d)
  <2>1. CASE row' = Reschedule(d, RetryDelay(j.attempts, 0)) /\ ~(j.attempts >= MaxAttempts)
    BY <1>3, <1>5, <1>6, <1>8, <2>1
  <2>2. CASE row' = Settle(d, "failed")
    BY <1>2, <2>2 DEF Terminal
  <2>3. QED
    BY <1>4, <1>8, <2>1, <2>2 DEF Caught
<1>9. QED
  BY <1>7, <1>8

\* A batch is a number of the rows that were due first.
LEMMA ClaimOrders ==
    ASSUME TypeInv, TypeInv', NEW w \in Worker, Claim(w)
    PROVE  InOrder(w)'
<1>1. PICK P \in Picks :
        /\ row' = [d \in Dispatch |->
              IF d \in P THEN [row[d] EXCEPT !.attempts = @ + 1] ELSE row[d]]
        /\ job' = [job EXCEPT ![w] = [d \in Dispatch |->
              IF d \in P
              THEN [NoJob EXCEPT !.stage = "claimed",
                                 !.attempts = row[d].attempts + 1,
                                 !.due = row[d].scheduled,
                                 !.created = row[d].created,
                                 !.address = dest[DestOf(d)].address]
              ELSE NoJob]]
  BY DEF Claim
<1>2. job \in [Worker -> [Dispatch -> Job]] /\ row \in [Dispatch -> Row] /\ now \in Nat
  BY DEF TypeInv, TypeOK
<1>3. now' = now
  BY DEF Claim
<1>4. \A d \in Dispatch : /\ row'[d].status = row[d].status
                          /\ row'[d].scheduled = row[d].scheduled
  BY <1>1, <1>2 DEF Row
<1>5. \A d \in Dispatch :
         IF d \in P THEN job'[w][d].stage = "claimed" /\ job'[w][d].due = row[d].scheduled
         ELSE job'[w][d] = NoJob
  BY <1>1, <1>2 DEF NoJob
<1>6. /\ \A d \in P : d \in Due
      /\ \A d \in P, e \in Due \ P : row[d].scheduled <= row[e].scheduled
  BY DEF Picks
<1>7. Overdue(w)'
  BY <1>2, <1>3, <1>5, <1>6 DEF Overdue, Due, NoJob
<1>8. Complete(w)'
  <2>1. SUFFICES ASSUME NEW d \in Dispatch, NEW e \in Dispatch, Active(w, d)',
                        row[e].status = "pending", row[e].scheduled < job'[w][d].due
                 PROVE  job'[w][e].stage # "none" /\ job'[w][e].due = row[e].scheduled
    BY <1>4 DEF Complete
  <2>2. d \in P /\ job'[w][d].due = row[d].scheduled
    BY <1>5, <2>1 DEF Active, NoJob
  <2>3. e \in Due
    BY <1>2, <1>6, <2>1, <2>2, OrderTypes DEF Due
  <2>4. e \in P
    BY <1>6, <2>1, <2>2, <2>3, OrderTypes
  <2>5. QED
    BY <1>5, <2>4
<1>9. InTurns(w)'
  BY <1>5 DEF InTurns, InTurn, NoJob
<1>10. QED
  BY <1>7, <1>8, <1>9 DEF InOrder

LEMMA LoadKeepsOrder ==
    ASSUME TypeInv, TypeInv', NEW w \in Worker, InOrder(w), LoadSinks(w)
    PROVE  InOrder(w)'
<1>1. job \in [Worker -> [Dispatch -> Job]] /\ row' = row /\ now' = now
  BY DEF TypeInv, TypeOK, LoadSinks
<1>2. ASSUME NEW d \in Dispatch
      PROVE  /\ job'[w][d].due = job[w][d].due
             /\ job'[w][d].stage = IF job[w][d].stage = "claimed" THEN "ready"
                                   ELSE job[w][d].stage
  <2> DEFINE there == SinkOf[DestOf(d)] \in sinks
  <2>1. job'[w][d] = IF job[w][d].stage = "claimed"
                     THEN [job[w][d] EXCEPT !.stage = "ready", !.found = there]
                     ELSE job[w][d]
    BY <1>1 DEF LoadSinks
  <2>2. job[w][d] \in Job
    BY <1>1
  <2> HIDE DEF there
  <2>3. QED
    BY <2>1, <2>2 DEF Job
<1>3. Overdue(w)'
  BY <1>1, <1>2 DEF InOrder, Overdue
<1>4. Complete(w)'
  BY <1>1, <1>2 DEF InOrder, Complete, Active
<1>5. \A d \in Dispatch : job[w][d].stage \in {"none", "claimed"}
  BY DEF LoadSinks, InOrder, InTurns
<1>6. \A d \in Dispatch : job'[w][d].stage \in {"none", "ready"}
  BY <1>2, <1>5
<1>7. InTurns(w)'
  BY <1>6 DEF InTurns, InTurn
<1>8. QED
  BY <1>3, <1>4, <1>7 DEF InOrder

LEMMA LosingKeepsOrder ==
    ASSUME TypeInv, NEW w \in Worker, LoseJobs(w), now' = now
    PROVE  InOrder(w)'
<1>1. \A d \in Dispatch : job'[w][d] = NoJob
  BY DEF LoseJobs, TypeInv, TypeOK
<1>2. QED
  BY <1>1 DEF InOrder, Overdue, Complete, InTurns, Active, InTurn, NoJob, TypeInv, TypeOK

\* What is not a step of the worker itself.
LEMMA WorldKeepsOrder ==
    ASSUME TypeInv, TypeInv', NEW w \in Worker, InOrder(w),
           \/ \E I \in SUBSET (Item \ seen), pace \in Pace : Enqueue(I, pace)
           \/ Edit
           \/ Tick
           \/ UNCHANGED vars
    PROVE  InOrder(w)'
<1>1. row \in [Dispatch -> Row] /\ now \in Nat
  BY DEF TypeInv, TypeOK
<1>2. ASSUME NEW I \in SUBSET (Item \ seen), NEW pace \in Pace, Enqueue(I, pace)
      PROVE  InOrder(w)'
  <2>1. ASSUME NEW e \in Dispatch PROVE AsBeforeOrLater(e)
    <3>1. FanOutOffset(I, pace, ItemOf(e)) \in Nat
      BY DispatchParts, FanOutOffsetType
    <3>2. QED
      BY <1>1, <1>2, <3>1 DEF Enqueue, AsBeforeOrLater
  <2>2. job' = job /\ now <= now'
    BY <1>1, <1>2 DEF Enqueue
  <2>3. QED
    BY <2>1, <2>2, TableKeepsOrder
<1>3. CASE Edit
  <2>1. job' = job /\ now' = now
    BY <1>3 DEF Edit, RetryDispatch, PatchDestination, DeleteDestination, DeleteSink
  <2>2. ASSUME NEW d \in Dispatch, RetryDispatch(d), NEW e \in Dispatch
        PROVE  AsBeforeOrLater(e)
    BY <1>1, <2>2 DEF RetryDispatch, AsBeforeOrLater, Row
  <2>3. ASSUME NEW r \in RouteDestination, DeleteDestination(r), NEW e \in Dispatch
        PROVE  AsBeforeOrLater(e)
    BY <1>1, <2>3 DEF DeleteDestination, AsBeforeOrLater, NoRow
  <2>4. ASSUME row' = row, NEW e \in Dispatch
        PROVE  AsBeforeOrLater(e)
    BY <2>4 DEF AsBeforeOrLater
  <2>5. ASSUME NEW e \in Dispatch PROVE AsBeforeOrLater(e)
    BY <1>3, <2>2, <2>3, <2>4 DEF Edit, PatchDestination, DeleteSink
  <2>6. QED
    BY <1>1, <2>1, <2>5, TableKeepsOrder
<1>4. CASE Tick
  <2>1. row' = row /\ job' = job /\ now <= now'
    BY <1>1, <1>4 DEF Tick, DueLater, Row
  <2>2. QED
    BY <2>1, TableKeepsOrder DEF AsBeforeOrLater
<1>5. CASE UNCHANGED vars
  BY <1>1, <1>5, TableKeepsOrder DEF AsBeforeOrLater, vars
<1>6. QED
  BY <1>2, <1>3, <1>4, <1>5

\* A job that moves to another stage keeps what it was claimed with.
LEMMA StageEffect ==
    ASSUME job \in [Worker -> [Dispatch -> Job]], NEW w \in Worker, NEW d \in Dispatch, NEW s,
           job' = [job EXCEPT ![w][d].stage = s]
    PROVE  /\ job'[w][d].stage = s
           /\ job'[w][d].due = job[w][d].due /\ job'[w][d].created = job[w][d].created
           /\ job'[w][d].attempts = job[w][d].attempts
           /\ \A e \in Dispatch \ {d} : job'[w][e] = job[w][e]
<1>1. job[w][d] \in Job
  OBVIOUS
<1>2. job'[w][d] = [job[w][d] EXCEPT !.stage = s]
  OBVIOUS
<1>3. QED
  BY <1>1, <1>2 DEF Job

\* A send, whatever comes of it, moves its own job to a stage in turn.
LEMMA TurnEffect ==
    ASSUME TypeInv, NEW w \in Worker, NEW d \in Dispatch,
           Reject(w, d) \/ SendOk(w, d) \/ SendThrows(w, d)
              \/ \E code \in FailureCode, hint \in Hint : SendFails(w, d, code, hint)
    PROVE  /\ job'[w][d].stage \in InTurn
           /\ job'[w][d].due = job[w][d].due /\ job'[w][d].created = job[w][d].created
           /\ job'[w][d].attempts = job[w][d].attempts
           /\ \A e \in Dispatch \ {d} : job'[w][e] = job[w][e]
<1>1. job \in [Worker -> [Dispatch -> Job]] /\ hist \in [Dispatch -> History] /\ now \in Nat
  BY DEF TypeInv, TypeOK
<1>2. CASE SendOk(w, d)
  BY <1>1, <1>2, StageEffect DEF SendOk, InTurn
<1>3. CASE SendThrows(w, d)
  BY <1>1, <1>3, StageEffect DEF SendThrows, InTurn
<1>4. CASE Reject(w, d)
  <2>1. \/ job' = [job EXCEPT ![w][d].stage = "orphan"]
        \/ job' = [job EXCEPT ![w][d] = [@ EXCEPT !.stage = "error", !.permanent = TRUE]]
    BY <1>1, <1>4 DEF Reject
  <2>2. CASE job' = [job EXCEPT ![w][d].stage = "orphan"]
    BY <1>1, <2>2, StageEffect DEF InTurn
  <2>3. CASE job' = [job EXCEPT ![w][d] = [@ EXCEPT !.stage = "error", !.permanent = TRUE]]
    BY <1>1, <2>3 DEF InTurn, Job
  <2>4. QED
    BY <2>1, <2>2, <2>3
<1>5. CASE \E code \in FailureCode, hint \in Hint : SendFails(w, d, code, hint)
  <2>1. \E p, h : job' = [job EXCEPT ![w][d].stage = "error", ![w][d].permanent = p,
                                     ![w][d].hint = h]
    BY <1>5 DEF SendFails
  <2>2. PICK p, h : job' = [job EXCEPT ![w][d].stage = "error", ![w][d].permanent = p,
                                      ![w][d].hint = h]
    BY <2>1
  <2>3. /\ job'[w][d] = [job[w][d] EXCEPT !.stage = "error", !.permanent = p, !.hint = h]
        /\ \A e \in Dispatch \ {d} : job'[w][e] = job[w][e]
    BY <1>1, <2>2
  <2>4. job[w][d] \in Job
    BY <1>1
  <2>5. QED
    BY <2>3, <2>4 DEF InTurn, Job
<1>6. QED
  BY <1>2, <1>3, <1>4, <1>5

\* A step of a worker, or a fault that hits it, for its own batch ...
LEMMA WorkerKeepsOwnOrder ==
    ASSUME TypeInv, TypeInv', NEW w \in Worker, InOrder(w),
           WorkerStep(w) \/ Fault(w) \/ Restart(w)
    PROVE  InOrder(w)'
<1>1. job \in [Worker -> [Dispatch -> Job]] /\ row \in [Dispatch -> Row] /\ now \in Nat
  BY DEF TypeInv, TypeOK
<1>2. ASSUME NEW d \in Dispatch,
             Reject(w, d) \/ SendOk(w, d) \/ SendThrows(w, d)
                \/ \E code \in FailureCode, hint \in Hint : SendFails(w, d, code, hint)
      PROVE  InOrder(w)'
  <2>1. row' = row /\ now' = now /\ Turn(w, d) /\ job[w][d].stage = "ready"
    BY <1>2 DEF Reject, SendOk, SendThrows, SendFails, Sends, Turn
  <2>2. /\ job'[w][d].stage \in InTurn
        /\ job'[w][d].due = job[w][d].due /\ job'[w][d].created = job[w][d].created
        /\ \A e \in Dispatch \ {d} : job'[w][e] = job[w][e]
    BY <1>2, TurnEffect
  <2>3. \A e \in Dispatch : AsBeforeOrLater(e)
    BY <2>1 DEF AsBeforeOrLater
  <2>4. QED
    BY <2>1, <2>2, <2>3, JobKeepsOrder
<1>3. ASSUME NEW d \in Dispatch, Record(w, d) \/ Catch(w, d)
      PROVE  InOrder(w)'
  <2>1. /\ now' = now /\ job[w][d].stage \in InTurn
        /\ job'[w][d] = NoJob /\ \A e \in Dispatch \ {d} : job'[w][e] = job[w][e]
    BY <1>1, <1>3 DEF Record, Catch, InTurn
  <2>2. /\ \A e \in Dispatch : AsBeforeOrLater(e)
        /\ row'[d].status # "pending" \/ row'[d].scheduled >= now
    BY <1>3, OutcomesAreLater DEF Record, Catch
  <2>3. QED
    BY <2>1, <2>2, JobKeepsOrder
<1>4. ASSUME NEW d \in Dispatch, RecordThrows(w, d) \/ CatchThrows(w, d)
      PROVE  InOrder(w)'
  <2>1. /\ now' = now /\ job[w][d].stage \in InTurn
    BY <1>4 DEF RecordThrows, CatchThrows, InTurn
  <2>2. /\ job'[w][d].stage \in InTurn \cup {"abandoned"}
        /\ job'[w][d].due = job[w][d].due /\ job'[w][d].created = job[w][d].created
        /\ \A e \in Dispatch \ {d} : job'[w][e] = job[w][e]
    <3>1. \/ job' = [job EXCEPT ![w][d].stage = "threw"]
          \/ job' = [job EXCEPT ![w][d].stage = "abandoned"]
      BY <1>4 DEF RecordThrows, CatchThrows
    <3>2. CASE job' = [job EXCEPT ![w][d].stage = "threw"]
      BY <1>1, <3>2, StageEffect DEF InTurn
    <3>3. CASE job' = [job EXCEPT ![w][d].stage = "abandoned"]
      BY <1>1, <3>3, StageEffect
    <3>4. QED
      BY <3>1, <3>2, <3>3
  <2>3. \A e \in Dispatch : AsBeforeOrLater(e)
    <3>1. CASE row' = row
      BY <3>1 DEF AsBeforeOrLater
    <3>2. CASE row' # row
      BY <1>4, <3>2, OutcomesAreLater DEF RecordThrows, CatchThrows
    <3>3. QED
      BY <3>1, <3>2
  <2>4. QED
    BY <2>1, <2>2, <2>3, JobKeepsOrder DEF InTurn
<1>5. CASE Claim(w)
  BY <1>5, ClaimOrders
<1>6. CASE LoadSinks(w)
  BY <1>6, LoadKeepsOrder
<1>7. CASE LoadSinksFails(w) \/ Crash(w)
  BY <1>7, LosingKeepsOrder DEF LoadSinksFails, Crash
<1>8. CASE Restart(w)
  BY <1>1, <1>8, TableKeepsOrder DEF Restart, AsBeforeOrLater
<1>9. QED
  BY <1>2, <1>3, <1>4, <1>5, <1>6, <1>7, <1>8 DEF WorkerStep, Deliver, Fault

\* ... and for the batch of another.
LEMMA OthersKeepOrder ==
    ASSUME TypeInv, TypeInv', NEW w \in Worker, InOrder(w), NEW v \in Worker, v # w,
           WorkerStep(v) \/ Fault(v) \/ Restart(v)
    PROVE  InOrder(w)'
<1>1. job \in [Worker -> [Dispatch -> Job]] /\ row \in [Dispatch -> Row] /\ now \in Nat
  BY DEF TypeInv, TypeOK
<1>2. job'[w] = job[w] /\ now' = now
  BY <1>1 DEF WorkerStep, Deliver, Fault, Restart, Claim, LoadSinks, Reject, SendOk,
              SendFails, SendThrows, Record, Catch, RecordThrows, CatchThrows,
              LoadSinksFails, Crash, LoseJobs
<1>3. ASSUME NEW e \in Dispatch PROVE AsBeforeOrLater(e)
  <2>1. CASE row' = row
    BY <2>1 DEF AsBeforeOrLater
  <2>2. CASE Claim(v)
    <3>1. row'[e].status = row[e].status /\ row'[e].scheduled = row[e].scheduled
      BY <1>1, <2>2 DEF Claim, Row
    <3>2. QED
      BY <3>1 DEF AsBeforeOrLater
  <2>3. ASSUME NEW d \in Dispatch,
               Record(v, d) \/ Catch(v, d) \/ RecordThrows(v, d) \/ CatchThrows(v, d)
        PROVE  AsBeforeOrLater(e)
    BY <2>1, <2>3, OutcomesAreLater DEF Record, Catch, RecordThrows, CatchThrows
  <2>4. QED
    BY <2>1, <2>2, <2>3 DEF WorkerStep, Deliver, Fault, Restart, LoadSinks, Reject,
        SendOk, SendFails, SendThrows, LoadSinksFails, Crash
<1>4. QED
  BY <1>1, <1>2, <1>3, TableKeepsOrder

LEMMA OrderNext ==
    ASSUME TypeInv, TypeInv', NEW w \in Worker, InOrder(w), [Next]_vars
    PROVE  InOrder(w)'
<1>1. CASE \E v \in Worker : WorkerStep(v) \/ Fault(v) \/ Restart(v)
  BY <1>1, WorkerKeepsOwnOrder, OthersKeepOrder
<1>2. CASE ~\E v \in Worker : WorkerStep(v) \/ Fault(v) \/ Restart(v)
  BY <1>2, WorldKeepsOrder DEF Next
<1>3. QED
  BY <1>1, <1>2

\* For any number of workers, a destination gets its messages in the order in
\* which they were due, except where the database took no outcome for one of
\* the very batch.
THEOREM DestinationsAreServedInOrder == Spec => []SendsInDueOrder
<1> DEFINE Orderly == TypeInv /\ \A w \in Worker : InOrder(w)
<1>1. Init => Orderly
  <2>1. SUFFICES ASSUME Init PROVE \A w \in Worker : InOrder(w)
    BY TypeInvInit
  <2>2. now = 0 /\ \A w \in Worker, d \in Dispatch : job[w][d] = NoJob
    BY <2>1 DEF Init
  <2>3. QED
    BY <2>2 DEF InOrder, Overdue, Complete, InTurns, Active, InTurn, NoJob
<1>2. Orderly /\ [Next]_vars => Orderly'
  BY TypeInvNext, OrderNext
<1>3. Orderly => SendsInDueOrder
  <2>1. SUFFICES ASSUME Orderly, NEW w \in Worker, NEW d \in Dispatch, NEW e \in Dispatch,
                        DestOf(d) = DestOf(e), job[w][d].stage \in {"ok", "error"},
                        row[e].status = "pending", row[e].scheduled < job[w][d].due
                 PROVE  job[w][e].stage = "abandoned"
    BY DEF SendsInDueOrder
  <2>2. job[w][e].stage # "none" /\ job[w][e].due = row[e].scheduled
    BY <2>1 DEF InOrder, Complete, Active
  <2>3. d # e
    BY <2>1, <2>2, OrderTypes
  <2>4. job[w][e].stage # "claimed" /\ job[w][e].stage \notin InTurn
    BY <2>1, <2>3 DEF InOrder, InTurns, InTurn
  <2>5. job[w][e].stage # "ready"
    BY <2>1, <2>2 DEF InOrder, InTurns, InTurn, Before
  <2>6. job[w][e] \in Job
    BY <2>1, OrderTypes
  <2>7. QED
    BY <2>2, <2>4, <2>5, <2>6 DEF Job, Stage, InTurn
<1>4. QED
  BY <1>1, <1>2, <1>3, PTL DEF Spec

-----------------------------------------------------------------------------
(***************************************************************************)
(* What one worker does when no acknowledgement of the database is lost.   *)
(* Then an UPDATE that throws has changed nothing, and a job that threw    *)
(* owns its row just as before.                                            *)
(***************************************************************************)

NoAckLost == budget.acks = 0

\* The row of a job waits for its very attempt, even if the job threw.
OwnsThrown(w, d) ==
    job[w][d].stage = "threw" =>
        row[d].status = "gone" \/ row[d].attempts = job[w][d].attempts

\* A verdict of the sender that the row does not have yet.
Verdict(w, d) ==
    job[w][d].stage = "error" /\ job[w][d].permanent /\ row[d].status = "pending"
    => hist[d].rejected

Justified(d) ==
    row[d].status = "failed" => hist[d].rejected \/ row[d].attempts >= MaxAttempts

Just(w, d) ==
    /\ job[w][d].stage = "threw" => row[d].status \in {"gone", "pending"}
    /\ OwnsThrown(w, d) /\ Verdict(w, d) /\ Justified(d)

LEMMA JustFrame ==
    ASSUME NEW w, NEW d, Just(w, d),
           row'[d] = row[d], job'[w][d] = job[w][d], hist'[d] = hist[d]
    PROVE  Just(w, d)'
BY DEF Just, OwnsThrown, Verdict, Justified

\* A step takes at most one from the bounds.
LEMMA BudgetStep ==
    ASSUME TypeInv, [Next]_vars
    PROVE  budget' = budget \/ \E b \in Bounded : Spend(b)
<1>1. ASSUME NEW v \in Worker, WorkerStep(v) \/ Restart(v)
      PROVE  budget' = budget
  <2>1. CASE Claim(v) \/ LoadSinks(v) \/ Restart(v)
    BY <2>1 DEF Claim, LoadSinks, Restart
  <2>2. ASSUME NEW e \in Dispatch, Deliver(v, e)
        PROVE  budget' = budget
    <3>1. CASE Reject(v, e) \/ SendOk(v, e) \/ SendThrows(v, e)
      BY <3>1 DEF Reject, SendOk, SendThrows
    <3>2. CASE \E code \in FailureCode, hint \in Hint : SendFails(v, e, code, hint)
      BY <3>2 DEF SendFails
    <3>3. CASE Record(v, e) \/ Catch(v, e)
      BY <3>3 DEF Record, Catch
    <3>4. QED
      BY <2>2, <3>1, <3>2, <3>3 DEF Deliver
  <2>3. QED
    BY <1>1, <2>1, <2>2 DEF WorkerStep
<1>2. CASE \E v \in Worker : Fault(v)
  BY <1>2 DEF Fault, RecordThrows, CatchThrows, LoadSinksFails, Crash, Bounded
<1>3. CASE Edit
  BY <1>3 DEF Edit, RetryDispatch, PatchDestination, DeleteDestination, DeleteSink, Bounded
<1>4. CASE (\E I \in SUBSET (Item \ seen), pace \in Pace : Enqueue(I, pace)) \/ Tick
  BY <1>4 DEF Enqueue, Tick
<1>5. CASE UNCHANGED vars
  BY <1>5 DEF vars
<1>6. QED
  BY <1>1, <1>2, <1>3, <1>4, <1>5 DEF Next

LEMMA AcksStay ==
    ASSUME TypeInv, [Next]_vars, NoAckLost
    PROVE  NoAckLost'
BY BudgetStep DEF TypeInv, TypeOK, Spend, Bounded, NoAckLost

\* Recording leaves a row failed only for a permanent failure, or after its
\* last attempt.
LEMMA RecordedIsJust ==
    ASSUME TypeInv, NEW w \in Worker, NEW d \in Dispatch, Sound(w, d), Just(w, d),
           job[w][d].stage \in {"orphan", "ok", "error"},
           row' = Recorded(w, d), hist' = hist
    PROVE  Justified(d)'
<1> DEFINE j == job[w][d]
<1>1. j \in Job /\ row \in [Dispatch -> Row] /\ MaxAttempts \in Nat
  BY ConstantsAssumption DEF TypeInv, TypeOK
<1>2. row[d].status \in {"gone", "pending"}
  BY DEF Sound, Owns
<1>3. CASE row[d].status = "gone"
  <2>1. row'[d].status = "gone"
    BY <1>3, RecordedEffect DEF Stored, Terminal
  <2>2. QED
    BY <2>1 DEF Justified
<1>4. CASE /\ row[d].status = "pending" /\ j.stage = "error"
           /\ j.permanent \/ j.attempts >= MaxAttempts
  <2>1. row'[d].attempts = row[d].attempts
    BY <1>4, RecordedEffect DEF Stored
  <2>2. row[d].attempts = j.attempts
    BY <1>4 DEF Sound, Owns
  <2>3. j.permanent => hist[d].rejected
    BY <1>4 DEF Just, Verdict
  <2>4. QED
    BY <1>4, <2>1, <2>2, <2>3 DEF Justified
<1>5. CASE /\ row[d].status = "pending"
           /\ ~(j.stage = "error" /\ (j.permanent \/ j.attempts >= MaxAttempts))
  <2>1. row'[d].status \in {"skipped", "sent", "pending"}
    BY <1>1, <1>5 DEF Recorded, Settle, Reschedule, Stored, Row
  <2>2. QED
    BY <2>1 DEF Justified
<1>6. QED
  BY <1>2, <1>3, <1>4, <1>5

\* What a claim does to one dispatch.
LEMMA ClaimEffect ==
    ASSUME TypeInv, NEW w \in Worker, Claim(w), NEW d \in Dispatch
    PROVE  /\ row'[d].status = row[d].status /\ row'[d].scheduled = row[d].scheduled
           /\ hist' = hist /\ now' = now
           /\ \/ row'[d] = row[d] /\ job'[w][d] = NoJob
              \/ /\ d \in Due /\ job'[w][d].stage = "claimed"
                 /\ row'[d].attempts = row[d].attempts + 1
                 /\ job'[w][d].attempts = row[d].attempts + 1
<1>1. PICK P \in Picks :
        /\ row' = [e \in Dispatch |->
              IF e \in P THEN [row[e] EXCEPT !.attempts = @ + 1] ELSE row[e]]
        /\ job' = [job EXCEPT ![w] = [e \in Dispatch |->
              IF e \in P
              THEN [NoJob EXCEPT !.stage = "claimed",
                                 !.attempts = row[e].attempts + 1,
                                 !.due = row[e].scheduled,
                                 !.created = row[e].created,
                                 !.address = dest[DestOf(e)].address]
              ELSE NoJob]]
  BY DEF Claim
<1>2. job \in [Worker -> [Dispatch -> Job]] /\ row \in [Dispatch -> Row]
  BY DEF TypeInv, TypeOK
<1>3. P \subseteq Due
  BY DEF Picks
<1>4. CASE d \in P
  <2>1. row'[d] = [row[d] EXCEPT !.attempts = @ + 1]
    BY <1>1, <1>4
  <2>2. /\ row'[d].status = row[d].status /\ row'[d].scheduled = row[d].scheduled
        /\ row'[d].attempts = row[d].attempts + 1
    BY <1>2, <2>1 DEF Row
  <2>3. job'[w][d] = [NoJob EXCEPT !.stage = "claimed",
                                   !.attempts = row[d].attempts + 1,
                                   !.due = row[d].scheduled,
                                   !.created = row[d].created,
                                   !.address = dest[DestOf(d)].address]
    BY <1>1, <1>2, <1>4
  <2>4. job'[w][d].stage = "claimed" /\ job'[w][d].attempts = row[d].attempts + 1
    BY <2>3 DEF NoJob
  <2>5. QED
    BY <1>3, <1>4, <2>2, <2>4 DEF Claim
<1>5. CASE d \notin P
  BY <1>1, <1>2, <1>5 DEF Claim
<1>6. QED
  BY <1>4, <1>5

LEMMA WorldKeepsJust ==
    ASSUME TypeInv, NEW w \in Worker, IInv(w), NEW d \in Dispatch, Just(w, d),
           \/ \E I \in SUBSET (Item \ seen), pace \in Pace : Enqueue(I, pace)
           \/ Edit
           \/ Tick
           \/ UNCHANGED vars
    PROVE  Just(w, d)'
<1>1. row \in [Dispatch -> Row] /\ hist \in [Dispatch -> History] /\ Sound(w, d)
  BY DEF TypeInv, TypeOK, IInv
<1>2. ASSUME NEW I \in SUBSET (Item \ seen), NEW pace \in Pace, Enqueue(I, pace)
      PROVE  Just(w, d)'
  <2>1. job' = job /\ hist' = hist
    BY <1>2 DEF Enqueue
  <2>2. CASE row'[d] = row[d]
    BY <2>1, <2>2, JustFrame
  <2>3. CASE row'[d] # row[d]
    <3>1. ItemOf(d) \in I /\ row'[d].status = "pending"
      BY <1>1, <1>2, <2>3 DEF Enqueue
    <3>2. row[d].status = "none"
      BY <3>1, DispatchParts DEF IInv, UnseenHaveNoRow
    <3>3. job[w][d].stage \in {"none", "abandoned"}
      BY <1>1, <3>2 DEF Sound, Owns, Just
    <3>4. QED
      BY <2>1, <3>1, <3>3 DEF Just, OwnsThrown, Verdict, Justified
  <2>4. QED
    BY <2>2, <2>3
<1>3. ASSUME NEW e \in Dispatch, RetryDispatch(e)
      PROVE  Just(w, d)'
  <2>1. CASE e # d
    BY <1>1, <1>3, <2>1, JustFrame DEF RetryDispatch
  <2>2. CASE e = d
    <3>1. row[d].status = "failed" /\ row'[d].status = "pending" /\ job' = job
      BY <1>1, <1>3, <2>2 DEF RetryDispatch, Row
    <3>2. job[w][d].stage \in {"none", "abandoned"}
      BY <1>1, <3>1 DEF Sound, Owns, Just
    <3>3. QED
      BY <3>1, <3>2 DEF Just, OwnsThrown, Verdict, Justified
  <2>3. QED
    BY <2>1, <2>2
<1>4. ASSUME NEW r \in RouteDestination, DeleteDestination(r)
      PROVE  Just(w, d)'
  <2>1. job' = job /\ hist' = hist /\ (row'[d] = row[d] \/ row'[d].status = "gone")
    BY <1>1, <1>4 DEF DeleteDestination, NoRow
  <2>2. QED
    BY <2>1, JustFrame DEF Just, OwnsThrown, Verdict, Justified
<1>5. CASE UNCHANGED <<row, job, hist>>
  BY <1>5, JustFrame
<1>6. QED
  BY <1>2, <1>3, <1>4, <1>5 DEF Edit, PatchDestination, DeleteSink, Tick, vars

LEMMA WorkerKeepsJust ==
    ASSUME TypeInv, NEW w \in Worker, IInv(w), NoAckLost, NEW d \in Dispatch, Just(w, d),
           WorkerStep(w) \/ Fault(w) \/ Restart(w)
    PROVE  Just(w, d)'
<1>1. /\ job \in [Worker -> [Dispatch -> Job]] /\ row \in [Dispatch -> Row]
      /\ hist \in [Dispatch -> History] /\ Sound(w, d)
  BY DEF TypeInv, TypeOK, IInv
<1>2. CASE Claim(w)
  <2>1. /\ row'[d].status = row[d].status /\ hist' = hist
        /\ row'[d].attempts = row[d].attempts \/ row[d].status = "pending"
        /\ job'[w][d].stage \in {"none", "claimed"}
    BY <1>2, ClaimEffect DEF Due, NoJob
  <2>2. QED
    BY <2>1 DEF Just, OwnsThrown, Verdict, Justified
<1>3. CASE LoadSinks(w)
  <2>1. row' = row /\ hist' = hist
    BY <1>3 DEF LoadSinks
  <2>2. CASE job[w][d].stage = "claimed"
    <3> DEFINE there == SinkOf[DestOf(d)] \in sinks
    <3>1. job'[w][d] = [job[w][d] EXCEPT !.stage = "ready", !.found = there]
      BY <1>1, <1>3, <2>2 DEF LoadSinks
    <3> HIDE DEF there
    <3>2. job'[w][d].stage = "ready"
      BY <1>1, <3>1 DEF Job
    <3>3. QED
      BY <2>1, <3>2 DEF Just, OwnsThrown, Verdict, Justified
  <2>3. CASE job[w][d].stage # "claimed"
    <3>1. job'[w][d] = job[w][d]
      BY <1>1, <1>3, <2>3 DEF LoadSinks
    <3>2. QED
      BY <2>1, <3>1, JustFrame
  <2>4. QED
    BY <2>2, <2>3
<1>4. ASSUME NEW e \in Dispatch, Deliver(w, e) \/ RecordThrows(w, e) \/ CatchThrows(w, e),
             e # d
      PROVE  Just(w, d)'
  <2>1. job'[w][d] = job[w][d] /\ hist'[d] = hist[d] /\ row'[d] = row[d]
    <3>1. CASE Reject(w, e) \/ SendOk(w, e) \/ SendThrows(w, e)
      BY <1>1, <1>4, <3>1 DEF Reject, SendOk, SendThrows
    <3>2. CASE \E code \in FailureCode, hint \in Hint : SendFails(w, e, code, hint)
      BY <1>1, <1>4, <3>2 DEF SendFails
    <3>3. CASE Record(w, e) \/ Catch(w, e)
      BY <1>1, <1>4, <3>3, RecordedEffect, CaughtEffect DEF Record, Catch
    <3>4. CASE RecordThrows(w, e)
      BY <1>1, <1>4, <3>4, RecordedEffect DEF RecordThrows
    <3>5. CASE CatchThrows(w, e)
      BY <1>1, <1>4, <3>5, CaughtEffect DEF CatchThrows
    <3>6. QED
      BY <1>4, <3>1, <3>2, <3>3, <3>4, <3>5 DEF Deliver
  <2>2. QED
    BY <2>1, JustFrame
<1>5. CASE SendOk(w, d)
  <2>1. row' = row /\ job'[w][d].stage = "ok" /\ hist'[d].rejected = hist[d].rejected
    BY <1>1, <1>5, StageEffect DEF SendOk, History
  <2>2. QED
    BY <2>1 DEF Just, OwnsThrown, Verdict, Justified
<1>6. CASE SendThrows(w, d)
  <2>1. row' = row /\ hist' = hist /\ job[w][d].stage = "ready"
    BY <1>6 DEF SendThrows, Sends, Turn
  <2>2. job'[w][d].stage = "threw" /\ job'[w][d].attempts = job[w][d].attempts
    BY <1>1, <1>6, StageEffect DEF SendThrows
  <2>3. QED
    BY <1>1, <2>1, <2>2 DEF Just, OwnsThrown, Verdict, Justified, Sound, Owns
<1>7. CASE Reject(w, d)
  <2>1. row' = row
    BY <1>7 DEF Reject
  <2>2. CASE job' = [job EXCEPT ![w][d].stage = "orphan"] /\ hist' = hist
    <3>1. job'[w][d].stage = "orphan"
      BY <1>1, <2>2, StageEffect
    <3>2. QED
      BY <2>1, <2>2, <3>1 DEF Just, OwnsThrown, Verdict, Justified
  <2>3. CASE /\ job' = [job EXCEPT ![w][d] = [@ EXCEPT !.stage = "error", !.permanent = TRUE]]
             /\ hist' = [hist EXCEPT ![d].rejected = TRUE]
    <3>1. job'[w][d].stage = "error" /\ hist'[d].rejected
      BY <1>1, <2>3 DEF Job, History
    <3>2. QED
      BY <2>1, <3>1 DEF Just, OwnsThrown, Verdict, Justified
  <2>4. QED
    BY <1>1, <1>7, <2>2, <2>3 DEF Reject
<1>8. ASSUME NEW code \in FailureCode, NEW hint \in Hint, SendFails(w, d, code, hint)
      PROVE  Just(w, d)'
  <2> DEFINE permanent == code \in PermanentCode
             until == IF hint = 0 THEN 0 ELSE now + hint
  <2>1. /\ row' = row
        /\ job' = [job EXCEPT ![w][d] = [@ EXCEPT !.stage = "error", !.permanent = permanent,
                                                  !.hint = hint]]
        /\ hist' = [hist EXCEPT ![d] = [@ EXCEPT !.rejected = hist[d].rejected \/ permanent,
                                                 !.notBefore = until]]
    BY <1>1, <1>8 DEF SendFails
  <2> HIDE DEF permanent, until
  <2>2. /\ job'[w][d].stage = "error" /\ job'[w][d].permanent = permanent
        /\ hist'[d].rejected = (hist[d].rejected \/ permanent)
    BY <1>1, <2>1 DEF Job, History
  <2>3. QED
    BY <2>1, <2>2 DEF Just, OwnsThrown, Verdict, Justified
<1>9. CASE Record(w, d)
  <2>1. Justified(d)'
    BY <1>1, <1>9, RecordedIsJust DEF Record
  <2>2. job'[w][d] = NoJob
    BY <1>1, <1>9 DEF Record
  <2>3. QED
    BY <2>1, <2>2 DEF Just, OwnsThrown, Verdict, NoJob
<1>10. CASE Catch(w, d)
  <2>1. job'[w][d] = NoJob /\ hist' = hist /\ row' = Caught(w, d) /\ job[w][d].stage = "threw"
    BY <1>1, <1>10 DEF Catch
  <2>2. Justified(d)'
    <3>1. CASE row[d].status = "gone"
      BY <2>1, <3>1 DEF Caught, Justified
    <3>2. CASE row[d].status = "pending"
      <4>1. row[d].attempts = job[w][d].attempts /\ row'[d].attempts = row[d].attempts
        BY <2>1, <3>2, CaughtEffect DEF Just, OwnsThrown
      <4>2. ~(job[w][d].attempts >= MaxAttempts) => row'[d].status = "pending"
        BY <1>1, <2>1, <3>2 DEF Caught, Reschedule, Stored, Row
      <4>3. QED
        BY <4>1, <4>2 DEF Justified
    <3>3. QED
      BY <2>1, <3>1, <3>2 DEF Just
  <2>3. QED
    BY <2>1, <2>2 DEF Just, OwnsThrown, Verdict, NoJob
<1>11. CASE RecordThrows(w, d)
  <2>1. ~Spend("acks")
    BY DEF Spend, NoAckLost
  <2>2. row' = row /\ job[w][d].stage \in {"orphan", "ok", "error"}
    BY <1>11, <2>1 DEF RecordThrows
  <2>3. job'[w][d].stage = "threw" /\ job'[w][d].attempts = job[w][d].attempts
    BY <1>1, <1>11, StageEffect DEF RecordThrows
  <2>4. hist'[d].rejected = hist[d].rejected
    BY <1>1, <1>11 DEF RecordThrows, History
  <2>5. QED
    BY <1>1, <2>2, <2>3, <2>4 DEF Just, OwnsThrown, Verdict, Justified, Sound, Owns
<1>12. CASE CatchThrows(w, d)
  <2>1. ~Spend("acks")
    BY DEF Spend, NoAckLost
  <2>2. row' = row
    BY <1>12, <2>1 DEF CatchThrows
  <2>3. job'[w][d].stage = "abandoned"
    BY <1>1, <1>12, StageEffect DEF CatchThrows
  <2>4. hist'[d].rejected = hist[d].rejected
    BY <1>1, <1>12 DEF CatchThrows, History
  <2>5. QED
    BY <2>2, <2>3, <2>4 DEF Just, OwnsThrown, Verdict, Justified
<1>13. CASE LoadSinksFails(w) \/ Crash(w)
  <2>1. LoseJobs(w) /\ row' = row
    BY <1>13 DEF LoadSinksFails, Crash
  <2>2. job'[w][d] = NoJob
    BY <1>1, <2>1 DEF LoseJobs
  <2>3. hist'[d].rejected = hist[d].rejected
    BY <1>1, <2>1 DEF LoseJobs, History
  <2>4. QED
    BY <2>1, <2>2, <2>3 DEF Just, OwnsThrown, Verdict, Justified, NoJob
<1>14. CASE Restart(w)
  BY <1>14, JustFrame DEF Restart
<1>15. QED
  BY <1>2, <1>3, <1>4, <1>5, <1>6, <1>7, <1>8, <1>9, <1>10, <1>11, <1>12, <1>13, <1>14
     DEF WorkerStep, Deliver, Fault

\* With one worker and as long as no acknowledgement is lost, a row is given up
\* only for a permanent failure or after MAX_ATTEMPTS attempts.
THEOREM GivenUpForCause ==
    ASSUME NEW w, Worker = {w}, MaxLostAcks = 0
    PROVE  Spec => []FailedIsJustified
<1> DEFINE J == IInv(w) /\ NoAckLost /\ \A d \in Dispatch : Just(w, d)
<1>1. Init => J
  <2>1. SUFFICES ASSUME Init PROVE NoAckLost /\ \A d \in Dispatch : Just(w, d)
    BY IInvInit
  <2>2. NoAckLost
    BY <2>1 DEF Init, Bounded, NoAckLost
  <2>3. \A d \in Dispatch : row[d].status = "none" /\ job[w][d].stage = "none"
    BY <2>1 DEF Init, NoRow, NoJob
  <2>4. QED
    BY <2>2, <2>3 DEF Just, OwnsThrown, Verdict, Justified
<1>2. J /\ [Next]_vars => J'
  <2>1. SUFFICES ASSUME J, [Next]_vars PROVE NoAckLost' /\ \A d \in Dispatch : Just(w, d)'
    BY IInvNext
  <2>2. TypeInv
    BY <2>1 DEF IInv
  <2>3. NoAckLost'
    BY <2>1, <2>2, AcksStay
  <2>4. CASE \E v \in Worker : WorkerStep(v) \/ Fault(v) \/ Restart(v)
    BY <2>1, <2>2, <2>3, <2>4, WorkerKeepsJust
  <2>5. CASE ~\E v \in Worker : WorkerStep(v) \/ Fault(v) \/ Restart(v)
    BY <2>1, <2>2, <2>3, <2>5, WorldKeepsJust DEF Next
  <2>6. QED
    BY <2>4, <2>5
<1>3. J => FailedIsJustified
  BY DEF Just, Justified, FailedIsJustified
<1>4. QED
  BY <1>1, <1>2, <1>3, PTL DEF Spec

-----------------------------------------------------------------------------
(***************************************************************************)
(* What a provider asked for, as long as nothing fails.  The moment it     *)
(* named travels from the answer to the row, and from there to the next    *)
(* claim; the catch block is the one place that drops it.                  *)
(***************************************************************************)

Undisturbed == budget.faults = MaxFaults

Patient(w, d) ==
    /\ row[d].status = "none" => hist[d].notBefore = 0
    /\ row[d].status = "pending" /\ ~Active(w, d) => hist[d].notBefore <= row[d].scheduled
    /\ Active(w, d) =>
          \/ hist[d].notBefore <= now
          \/ job[w][d].stage = "error" /\ hist[d].notBefore <= now + job[w][d].hint

\* Faults come from a budget, too, and nothing refills it.
FaultsAreSpent == budget.faults <= MaxFaults

LEMMA PatienceTypes ==
    ASSUME TypeInv, NEW w \in Worker, NEW d \in Dispatch
    PROVE  /\ now \in Nat /\ row \in [Dispatch -> Row] /\ row[d].scheduled \in Nat
           /\ job \in [Worker -> [Dispatch -> Job]] /\ hist \in [Dispatch -> History]
           /\ hist[d].notBefore \in Nat /\ job[w][d].hint \in Nat /\ job[w][d].hint \in Hint
<1>1. /\ row \in [Dispatch -> Row] /\ job \in [Worker -> [Dispatch -> Job]]
      /\ hist \in [Dispatch -> History] /\ now \in Nat /\ Hint \subseteq Nat
  BY ConstantsAssumption DEF TypeInv, TypeOK
<1>2. row[d] \in Row /\ job[w][d] \in Job /\ hist[d] \in History
  BY <1>1
<1>3. row[d].scheduled \in Nat
  BY <1>2 DEF Row
<1>4. job[w][d].hint \in Hint
  BY <1>2 DEF Job
<1>5. hist[d].notBefore \in Nat
  BY <1>2 DEF History
<1>6. QED
  BY <1>1, <1>3, <1>4, <1>5

LEMMA PatienceFrame ==
    ASSUME TypeInv, NEW w \in Worker, NEW d \in Dispatch, Patient(w, d),
           row'[d] = row[d], job'[w][d] = job[w][d], hist'[d] = hist[d],
           now' \in Nat, now <= now'
    PROVE  Patient(w, d)'
BY PatienceTypes DEF Patient, Active

LEMMA FaultsStep ==
    ASSUME TypeInv, [Next]_vars, FaultsAreSpent
    PROVE  FaultsAreSpent' /\ (Undisturbed' => Undisturbed)
<1>1. budget \in [Bounded -> Nat] /\ MaxFaults \in Nat
  BY ConstantsAssumption DEF TypeInv, TypeOK
<1>2. budget' = budget \/ \E b \in Bounded : Spend(b)
  BY BudgetStep
<1>3. budget'.faults = budget.faults \/ budget'.faults = budget.faults - 1
  BY <1>1, <1>2 DEF Spend, Bounded
<1>4. QED
  BY <1>1, <1>3 DEF Bounded, FaultsAreSpent, Undisturbed

\* A step that costs a fault leaves a disturbed state behind.
LEMMA SpentIsDisturbed ==
    ASSUME TypeInv, FaultsAreSpent, Spend("faults")
    PROVE  ~Undisturbed'
BY ConstantsAssumption DEF TypeInv, TypeOK, Bounded, Spend, FaultsAreSpent, Undisturbed

\* The outcome that is written carries the moment over to the row.
LEMMA RecordedIsPatient ==
    ASSUME TypeInv, NEW w \in Worker, NEW d \in Dispatch, Patient(w, d),
           \A a \in 1 .. MaxAttempts, h \in Hint : RetryDelay(a, h) >= h,
           job[w][d].stage \in {"orphan", "ok", "error"},
           row' = Recorded(w, d), hist' = hist, now' = now, job'[w][d] = NoJob
    PROVE  Patient(w, d)'
<1> DEFINE j == job[w][d]
<1>1. j \in Job /\ row \in [Dispatch -> Row] /\ MaxAttempts \in Nat /\ now \in Nat
  BY ConstantsAssumption DEF TypeInv, TypeOK
<1>2. ~Active(w, d)' /\ Active(w, d)
  BY DEF Active, NoJob
<1>3. row[d].status \notin Stored => row'[d] = row[d]
  BY RecordedEffect
<1>4. row[d].status \in Stored /\ row'[d].status = "pending"
      => row'[d].scheduled >= hist[d].notBefore
  <2>1. SUFFICES ASSUME row[d].status \in Stored, row'[d].status = "pending"
                 PROVE  row'[d].scheduled >= hist[d].notBefore
    OBVIOUS
  <2>2. j.stage = "error" /\ ~j.permanent /\ ~(j.attempts >= MaxAttempts)
    BY <1>1, <2>1 DEF Recorded, Settle, Row, Stored, Terminal
  <2>3. j.attempts \in 1 .. MaxAttempts /\ j.hint \in Hint
    BY <1>1, <2>2 DEF TypeInv, ClaimIsCounted, Job
  <2>4. RetryDelay(j.attempts, j.hint) \in Nat /\ RetryDelay(j.attempts, j.hint) >= j.hint
    BY <2>3, RetryDelayAssumption
  <2>5. row'[d].scheduled = now + RetryDelay(j.attempts, j.hint)
    BY <1>1, <2>1, <2>2 DEF Recorded, Reschedule, Row
  <2>6. QED
    BY <1>1, <1>2, <2>2, <2>4, <2>5, PatienceTypes DEF Patient
<1>5. row'[d].status # "none" \/ row'[d] = row[d]
  BY <1>3, RecordedEffect DEF Stored, Terminal
<1>6. QED
  BY <1>2, <1>3, <1>4, <1>5, PatienceTypes DEF Patient, Stored, Terminal

\* The catch block waits at least until now, and nothing was asked for.
LEMMA CaughtIsPatient ==
    ASSUME TypeInv, NEW w \in Worker, NEW d \in Dispatch, Patient(w, d),
           job[w][d].stage = "threw",
           row' = Caught(w, d), hist' = hist, now' = now, job'[w][d] = NoJob
    PROVE  Patient(w, d)'
<1>1. Active(w, d) /\ ~Active(w, d)' /\ hist[d].notBefore <= now
  BY PatienceTypes DEF Patient, Active, NoJob
<1>2. row'[d].status # "pending" \/ row'[d].scheduled >= now
  BY OutcomesAreLater
<1>3. row[d].status # "pending" => row'[d] = row[d]
  BY CaughtEffect
<1>4. row[d].status = "pending" => row'[d].status # "none"
  BY CaughtEffect
<1>5. TypeInv /\ row'[d] \in Row
  <2>1. row' \in [Dispatch -> Row]
    BY CaughtType
  <2>2. QED
    BY <2>1
<1>6. row'[d].scheduled \in Nat
  BY <1>5 DEF Row
<1>7. QED
  BY <1>1, <1>2, <1>3, <1>4, <1>6, PatienceTypes DEF Patient

LEMMA WorldKeepsPatience ==
    ASSUME TypeInv, NEW w \in Worker, IInv(w), NEW d \in Dispatch, Patient(w, d),
           \/ \E I \in SUBSET (Item \ seen), pace \in Pace : Enqueue(I, pace)
           \/ Edit
           \/ Tick
           \/ UNCHANGED vars
    PROVE  Patient(w, d)'
<1>1. /\ row \in [Dispatch -> Row] /\ hist \in [Dispatch -> History] /\ Sound(w, d)
      /\ now \in Nat
  BY DEF TypeInv, TypeOK, IInv
<1>2. ASSUME NEW I \in SUBSET (Item \ seen), NEW pace \in Pace, Enqueue(I, pace)
      PROVE  Patient(w, d)'
  <2>1. job' = job /\ hist' = hist /\ now' \in Nat /\ now <= now'
    BY <1>1, <1>2 DEF Enqueue
  <2>2. CASE row'[d] = row[d]
    BY <2>1, <2>2, PatienceFrame
  <2>3. CASE row'[d] # row[d]
    <3>1. /\ ItemOf(d) \in I /\ row'[d].status = "pending"
          /\ row'[d].scheduled = now + FanOutOffset(I, pace, ItemOf(d))
      BY <1>1, <1>2, <2>3 DEF Enqueue
    <3>2. row[d].status = "none"
      BY <3>1, DispatchParts DEF IInv, UnseenHaveNoRow
    <3>3. hist'[d].notBefore = 0
      BY <2>1, <3>2 DEF Patient
    <3>4. row'[d].scheduled \in Nat
      BY <1>1, <3>1, DispatchParts, FanOutOffsetType
    <3>5. QED
      BY <2>1, <3>1, <3>3, <3>4 DEF Patient
  <2>4. QED
    BY <2>2, <2>3
<1>3. ASSUME NEW e \in Dispatch, RetryDispatch(e)
      PROVE  Patient(w, d)'
  <2>1. CASE e # d
    BY <1>1, <1>3, <2>1, PatienceFrame DEF RetryDispatch
  <2>2. CASE e = d
    <3>1. /\ row'[d].status = "pending" /\ row'[d].scheduled = now
          /\ hist'[d].notBefore = 0 /\ job' = job /\ now' = now
      BY <1>1, <1>3, <2>2 DEF RetryDispatch, Row, History
    <3>2. QED
      BY <3>1, PatienceTypes DEF Patient
  <2>3. QED
    BY <2>1, <2>2
<1>4. ASSUME NEW r \in RouteDestination, DeleteDestination(r)
      PROVE  Patient(w, d)'
  <2>1. /\ job' = job /\ hist' = hist /\ now' = now
        /\ row'[d] = row[d] \/ row'[d].status = "gone"
    BY <1>1, <1>4 DEF DeleteDestination, NoRow
  <2>2. QED
    BY <1>1, <2>1, PatienceFrame DEF Patient, Active
<1>5. CASE Tick
  <2>1. UNCHANGED <<row, job, hist>> /\ now' \in Nat /\ now <= now'
    BY <1>1, <1>5 DEF Tick, DueLater, Row
  <2>2. QED
    BY <2>1, PatienceFrame
<1>6. CASE UNCHANGED <<row, job, hist, now>>
  BY <1>1, <1>6, PatienceFrame
<1>7. QED
  BY <1>2, <1>3, <1>4, <1>5, <1>6 DEF Edit, PatchDestination, DeleteSink, vars

LEMMA WorkerKeepsPatience ==
    ASSUME TypeInv, NEW w \in Worker, IInv(w), NoAckLost, FaultsAreSpent, Undisturbed',
           \A a \in 1 .. MaxAttempts, h \in Hint : RetryDelay(a, h) >= h,
           NEW d \in Dispatch, Patient(w, d),
           WorkerStep(w) \/ Fault(w) \/ Restart(w)
    PROVE  Patient(w, d)'
<1>1. /\ job \in [Worker -> [Dispatch -> Job]] /\ row \in [Dispatch -> Row]
      /\ hist \in [Dispatch -> History] /\ now \in Nat /\ Sound(w, d)
  BY DEF TypeInv, TypeOK, IInv
<1>2. CASE Claim(w)
  <2>1. /\ row'[d].status = row[d].status /\ row'[d].scheduled = row[d].scheduled
        /\ hist' = hist /\ now' = now /\ ~Active(w, d)
        /\ \/ row'[d] = row[d] /\ job'[w][d] = NoJob
           \/ d \in Due /\ job'[w][d].stage = "claimed"
    BY <1>2, ClaimEffect DEF Active, Claim, Idle
  <2>2. QED
    BY <2>1, PatienceTypes DEF Patient, Active, Due, NoJob
<1>3. CASE LoadSinks(w)
  <2>1. row' = row /\ hist' = hist /\ now' = now
    BY <1>3 DEF LoadSinks
  <2>2. CASE job[w][d].stage = "claimed"
    <3> DEFINE there == SinkOf[DestOf(d)] \in sinks
    <3>1. job'[w][d] = [job[w][d] EXCEPT !.stage = "ready", !.found = there]
      BY <1>1, <1>3, <2>2 DEF LoadSinks
    <3> HIDE DEF there
    <3>2. job'[w][d].stage = "ready"
      BY <1>1, <3>1 DEF Job
    <3>3. QED
      BY <2>1, <2>2, <3>2 DEF Patient, Active
  <2>3. CASE job[w][d].stage # "claimed"
    <3>1. job'[w][d] = job[w][d]
      BY <1>1, <1>3, <2>3 DEF LoadSinks
    <3>2. QED
      BY <1>1, <2>1, <3>1, PatienceFrame
  <2>4. QED
    BY <2>2, <2>3
<1>4. ASSUME NEW e \in Dispatch, Deliver(w, e), e # d
      PROVE  Patient(w, d)'
  <2>1. job'[w][d] = job[w][d] /\ hist'[d] = hist[d] /\ row'[d] = row[d] /\ now' = now
    <3>1. CASE Reject(w, e) \/ SendOk(w, e) \/ SendThrows(w, e)
      BY <1>1, <1>4, <3>1 DEF Reject, SendOk, SendThrows
    <3>2. CASE \E code \in FailureCode, hint \in Hint : SendFails(w, e, code, hint)
      BY <1>1, <1>4, <3>2 DEF SendFails
    <3>3. CASE Record(w, e) \/ Catch(w, e)
      BY <1>1, <1>4, <3>3, RecordedEffect, CaughtEffect DEF Record, Catch
    <3>4. QED
      BY <1>4, <3>1, <3>2, <3>3 DEF Deliver
  <2>2. QED
    BY <1>1, <2>1, PatienceFrame
<1>5. CASE Reject(w, d) \/ SendOk(w, d) \/ SendThrows(w, d)
  <2>1. row' = row /\ now' = now /\ Active(w, d) /\ hist[d].notBefore <= now
    BY <1>5, PatienceTypes DEF Reject, SendOk, SendThrows, Sends, Turn, Active, Patient
  <2>2. hist'[d].notBefore = hist[d].notBefore
    BY <1>1, <1>5 DEF Reject, SendOk, SendThrows, History
  <2>3. job'[w][d].stage \in {"orphan", "error", "ok", "threw"} /\ job'[w][d].hint \in Nat
    <3>1. CASE SendOk(w, d)
      <4>1. job'[w][d] = [job[w][d] EXCEPT !.stage = "ok"]
        BY <1>1, <3>1 DEF SendOk
      <4>2. QED
        BY <1>1, <4>1, PatienceTypes DEF Job
    <3>2. CASE SendThrows(w, d)
      <4>1. job'[w][d] = [job[w][d] EXCEPT !.stage = "threw"]
        BY <1>1, <3>2 DEF SendThrows
      <4>2. QED
        BY <1>1, <4>1, PatienceTypes DEF Job
    <3>3. CASE Reject(w, d)
      <4>1. \/ job' = [job EXCEPT ![w][d] = [@ EXCEPT !.stage = "orphan"]]
            \/ job' = [job EXCEPT ![w][d] = [@ EXCEPT !.stage = "error", !.permanent = TRUE]]
        BY <1>1, <3>3 DEF Reject
      <4>2. CASE job' = [job EXCEPT ![w][d] = [@ EXCEPT !.stage = "orphan"]]
        BY <1>1, <4>2, PatienceTypes DEF Job
      <4>3. CASE job' = [job EXCEPT ![w][d] = [@ EXCEPT !.stage = "error", !.permanent = TRUE]]
        BY <1>1, <4>3, PatienceTypes DEF Job
      <4>4. QED
        BY <4>1, <4>2, <4>3
    <3>4. QED
      BY <1>5, <3>1, <3>2, <3>3
  <2>4. QED
    BY <1>1, <2>1, <2>2, <2>3, PatienceTypes DEF Patient, Active
<1>6. ASSUME NEW code \in FailureCode, NEW hint \in Hint, SendFails(w, d, code, hint)
      PROVE  Patient(w, d)'
  <2> DEFINE permanent == code \in PermanentCode
             until == IF hint = 0 THEN 0 ELSE now + hint
  <2>1. /\ row' = row /\ now' = now /\ job[w][d].stage = "ready"
        /\ job' = [job EXCEPT ![w][d] = [@ EXCEPT !.stage = "error", !.permanent = permanent,
                                                  !.hint = hint]]
        /\ hist' = [hist EXCEPT ![d] = [@ EXCEPT !.rejected = hist[d].rejected \/ permanent,
                                                 !.notBefore = until]]
    BY <1>1, <1>6 DEF SendFails, Sends, Turn
  <2>2. until <= now + hint
    BY <1>1, ConstantsAssumption
  <2> HIDE DEF permanent, until
  <2>3. /\ job'[w][d].stage = "error" /\ job'[w][d].hint = hint
        /\ hist'[d].notBefore = until
    BY <1>1, <2>1 DEF Job, History
  <2>4. row[d].status # "none"
    BY <1>1, <2>1 DEF Sound, Owns
  <2>5. QED
    BY <1>1, <2>1, <2>2, <2>3, <2>4 DEF Patient, Active
<1>7. CASE Record(w, d)
  BY <1>1, <1>7, RecordedIsPatient DEF Record
<1>8. CASE Catch(w, d)
  BY <1>1, <1>8, CaughtIsPatient DEF Catch
<1>9. ~Spend("faults") /\ ~Spend("acks")
  BY SpentIsDisturbed DEF Spend, NoAckLost
<1>10. ~Fault(w)
  BY <1>9 DEF Fault, LoadSinksFails, RecordThrows, CatchThrows, Crash
<1>11. CASE Restart(w)
  BY <1>1, <1>11, PatienceFrame DEF Restart
<1>12. QED
  BY <1>2, <1>3, <1>4, <1>5, <1>6, <1>7, <1>8, <1>10, <1>11 DEF WorkerStep, Deliver

\* With one worker, and a policy whose delays are no shorter than the hint, a
\* dispatch is not claimed before the moment its provider asked to wait for,
\* as long as no statement and no process has failed.
THEOREM ProvidersAreGivenTheirTime ==
    ASSUME NEW w, Worker = {w}, MaxLostAcks = 0,
           \A a \in 1 .. MaxAttempts, h \in Hint : RetryDelay(a, h) >= h
    PROVE  Spec => []ProviderHintHonoured
<1> DEFINE J == /\ IInv(w) /\ NoAckLost /\ FaultsAreSpent
                /\ Undisturbed => \A d \in Dispatch : Patient(w, d)
<1>1. Init => J
  <2>1. SUFFICES ASSUME Init
                 PROVE  NoAckLost /\ FaultsAreSpent /\ \A d \in Dispatch : Patient(w, d)
    BY IInvInit
  <2>2. NoAckLost /\ FaultsAreSpent
    BY <2>1, ConstantsAssumption DEF Init, Bounded, NoAckLost, FaultsAreSpent
  <2>3. \A d \in Dispatch : /\ row[d].status = "none" /\ job[w][d].stage = "none"
                            /\ hist[d].notBefore = 0
    BY <2>1 DEF Init, NoRow, NoJob, NoHistory
  <2>4. QED
    BY <2>2, <2>3 DEF Patient, Active
<1>2. J /\ [Next]_vars => J'
  <2>1. SUFFICES ASSUME J, [Next]_vars
                 PROVE  /\ NoAckLost' /\ FaultsAreSpent'
                        /\ Undisturbed' => \A d \in Dispatch : Patient(w, d)'
    BY IInvNext
  <2>2. TypeInv
    BY <2>1 DEF IInv
  <2>3. NoAckLost' /\ FaultsAreSpent' /\ (Undisturbed' => Undisturbed)
    BY <2>1, <2>2, AcksStay, FaultsStep
  <2>4. ASSUME Undisturbed', NEW d \in Dispatch
        PROVE  Patient(w, d)'
    <3>1. Patient(w, d)
      BY <2>1, <2>3, <2>4
    <3>2. CASE \E v \in Worker : WorkerStep(v) \/ Fault(v) \/ Restart(v)
      BY <2>1, <2>2, <2>4, <3>1, <3>2, WorkerKeepsPatience
    <3>3. CASE ~\E v \in Worker : WorkerStep(v) \/ Fault(v) \/ Restart(v)
      BY <2>1, <2>2, <3>1, <3>3, WorldKeepsPatience DEF Next
    <3>4. QED
      BY <3>2, <3>3
  <2>5. QED
    BY <2>3, <2>4
<1>3. J => ProviderHintHonoured
  <2>1. SUFFICES ASSUME J, NEW d \in Dispatch, job[w][d].stage \in {"claimed", "ready"},
                        Undisturbed
                 PROVE  hist[d].notBefore <= now
    BY DEF ProviderHintHonoured, Undisturbed
  <2>2. QED
    BY <2>1, PatienceTypes DEF Patient, Active, IInv
<1>4. QED
  BY <1>1, <1>2, <1>3, PTL DEF Spec

-----------------------------------------------------------------------------
(***************************************************************************)
(* The order of a paced backfill, when the user retries nothing.  A row    *)
(* leaves the place that its fan-out gave it only after an attempt, and    *)
(* then for a later one, so the first attempt of an older item always      *)
(* comes due before whatever a younger one stands at.                      *)
(***************************************************************************)

Fresh(d) == row[d].status = "pending" /\ row[d].attempts = 0

\* The moments at which d stands in the table and in the batch, and those of
\* them that belong to its first attempt.
Dues(w, d) ==
    {t \in Nat : \/ row[d].status = "pending" /\ t = row[d].scheduled
                 \/ job[w][d].stage # "none" /\ t = job[w][d].due}

FirstDues(w, d) ==
    {t \in Nat : \/ Fresh(d) /\ t = row[d].scheduled
                 \/ job[w][d].stage # "none" /\ job[w][d].attempts = 1 /\ t = job[w][d].due}

Older(e, d) == DestOf(e) = DestOf(d) /\ ItemOf(e) < ItemOf(d)

OldestFirst(w) ==
    \A d, e \in Dispatch : Older(e, d) =>
        \A s \in FirstDues(w, e), t \in Dues(w, d) : s < t

\* A job is about an item of the feed, and its row is not where it began.
Begun(w, d) ==
    job[w][d].stage # "none" =>
        ItemOf(d) \in seen /\ (row[d].status = "pending" => row[d].attempts > 0)

NoRetries == budget.retries = 0

Backfilled(w) ==
    /\ InOrder(w) /\ OldestFirst(w)
    /\ \A d \in Dispatch : Begun(w, d)

\* A dispatch stands where it stood, or, after an attempt, later than now.
StandsOrLater(w, d) ==
    /\ FirstDues(w, d)' \subseteq FirstDues(w, d)
    /\ \A t \in Dues(w, d)' : t \in Dues(w, d) \/ (t >= now /\ job[w][d].stage # "none")

LEMMA DueTypes ==
    ASSUME TypeInv, NEW w \in Worker, NEW d \in Dispatch
    PROVE  /\ Dues(w, d) \subseteq Nat /\ FirstDues(w, d) \subseteq Nat
           /\ FirstDues(w, d) \subseteq Dues(w, d)
           /\ row[d].status = "pending" => row[d].scheduled \in Dues(w, d)
           /\ job[w][d].stage # "none" => job[w][d].due \in Dues(w, d)
           /\ Fresh(d) => row[d].scheduled \in FirstDues(w, d)
           /\ job[w][d].stage # "none" /\ job[w][d].attempts = 1
                 => job[w][d].due \in FirstDues(w, d)
BY OrderTypes DEF Dues, FirstDues, Fresh

LEMMA StandingFrame ==
    ASSUME NEW w, NEW d, row'[d].status = row[d].status,
           row'[d].scheduled = row[d].scheduled, row'[d].attempts = row[d].attempts,
           job'[w][d] = job[w][d]
    PROVE  StandsOrLater(w, d)
BY DEF StandsOrLater, Dues, FirstDues, Fresh

LEMMA OldestStays ==
    ASSUME TypeInv, NEW w \in Worker, OldestFirst(w), Overdue(w),
           \A d \in Dispatch : StandsOrLater(w, d)
    PROVE  OldestFirst(w)'
<1>1. SUFFICES ASSUME NEW d \in Dispatch, NEW e \in Dispatch, Older(e, d),
                      NEW s \in FirstDues(w, e)', NEW t \in Dues(w, d)'
               PROVE  s < t
  BY DEF OldestFirst, Older
<1>2. s \in FirstDues(w, e) /\ s \in Nat
  BY DEF StandsOrLater, FirstDues
<1>3. CASE t \in Dues(w, d)
  BY <1>1, <1>2, <1>3 DEF OldestFirst
<1>4. CASE t >= now /\ job[w][d].stage # "none"
  <2>1. job[w][d].due \in Dues(w, d) /\ job[w][d].due \in Nat /\ job[w][d].due <= now
    BY <1>4, DueTypes, OrderTypes DEF Overdue
  <2>2. s < job[w][d].due
    BY <1>1, <1>2, <2>1 DEF OldestFirst
  <2>3. now \in Nat /\ t \in Nat
    BY OrderTypes DEF Dues
  <2>4. QED
    BY <1>2, <1>4, <2>1, <2>2, <2>3
<1>5. QED
  BY <1>3, <1>4 DEF StandsOrLater

\* The fan-out offsets of one poll grow with the items.
LEMMA OffsetsGrow ==
    ASSUME NEW I \in SUBSET Item, NEW pace \in Pace, pace # 0,
           NEW i \in I, NEW j \in I, i < j
    PROVE  FanOutOffset(I, pace, i) < FanOutOffset(I, pace, j)
<1> DEFINE A == {k \in I : k < i}
           B == {k \in I : k < j}
<1>1. IsFiniteSet(A) /\ IsFiniteSet(B)
  BY ConstantsAssumption, FS_Subset
<1>2. i \notin A /\ A \cup {i} \subseteq B
  <2>1. I \subseteq Nat /\ i \in Nat /\ j \in Nat
    BY ConstantsAssumption
  <2>2. ~(i < i) /\ \A k \in I : k < i => k < j
    BY <2>1
  <2>3. QED
    BY <2>2
<1>3. Cardinality(A \cup {i}) = Cardinality(A) + 1 /\ Cardinality(A) \in Nat
  BY <1>1, <1>2, FS_AddElement, FS_CardinalityType
<1>4. Cardinality(A \cup {i}) <= Cardinality(B) /\ Cardinality(B) \in Nat
  BY <1>1, <1>2, FS_Subset, FS_CardinalityType
<1>5. pace \in Nat \ {0}
  BY ConstantsAssumption
<1>6. ASSUME NEW m \in Nat, NEW n \in Nat, m + 1 <= n
      PROVE  pace * m < pace * n
  <2>1. PICK k : k \in Nat /\ n = m + k + 1
    <3>1. n - m - 1 \in Nat /\ n = m + (n - m - 1) + 1
      BY <1>6
    <3>2. QED
      BY <3>1
  <2>2. pace * n = pace * m + pace * k + pace
    BY <1>5, <2>1
  <2>3. pace * k \in Nat /\ pace * m \in Nat
    BY <1>5, <2>1
  <2>4. QED
    BY <1>5, <2>2, <2>3
<1>7. QED
  BY <1>3, <1>4, <1>6 DEF FanOutOffset

\* A first poll paces all of its rows, and before it there are none.
LEMMA FanOutIsInOrder ==
    ASSUME TypeInv, NEW w \in Worker, IInv(w), 0 \notin Pace,
           \A d \in Dispatch : Begun(w, d),
           NEW I \in SUBSET (Item \ seen), NEW pace \in Pace, Enqueue(I, pace)
    PROVE  OldestFirst(w)' /\ \A d \in Dispatch : Begun(w, d)'
<1>1. row \in [Dispatch -> Row] /\ now \in Nat /\ job' = job /\ seen = {} /\ pace # 0
  BY DEF TypeInv, TypeOK, Enqueue
<1>2. \A d \in Dispatch : job[w][d].stage = "none"
  BY <1>1 DEF Begun
<1>3. \A d \in Dispatch : row[d].status = "none"
  BY <1>1 DEF IInv, UnseenHaveNoRow
<1>4. ASSUME NEW d \in Dispatch, row'[d].status = "pending"
      PROVE  /\ ItemOf(d) \in I
             /\ row'[d].scheduled = now + FanOutOffset(I, pace, ItemOf(d))
  BY <1>1, <1>3, <1>4 DEF Enqueue
<1>5. ASSUME NEW d \in Dispatch, NEW e \in Dispatch, Older(e, d),
             NEW s \in FirstDues(w, e)', NEW t \in Dues(w, d)'
      PROVE  s < t
  <2>1. /\ row'[e].status = "pending" /\ s = row'[e].scheduled
        /\ row'[d].status = "pending" /\ t = row'[d].scheduled
    BY <1>1, <1>2, <1>5 DEF FirstDues, Dues, Fresh
  <2>2. FanOutOffset(I, pace, ItemOf(e)) < FanOutOffset(I, pace, ItemOf(d))
    BY <1>1, <1>4, <1>5, <2>1, OffsetsGrow DEF Older
  <2>3. FanOutOffset(I, pace, ItemOf(e)) \in Nat /\ FanOutOffset(I, pace, ItemOf(d)) \in Nat
    BY DispatchParts, FanOutOffsetType
  <2>4. QED
    BY <1>1, <1>4, <2>1, <2>2, <2>3
<1>6. QED
  BY <1>1, <1>2, <1>5 DEF OldestFirst, Begun, Older

LEMMA WorldKeepsOldest ==
    ASSUME TypeInv, NEW w \in Worker, IInv(w), 0 \notin Pace, NoRetries,
           OldestFirst(w), Overdue(w), \A d \in Dispatch : Begun(w, d),
           \/ \E I \in SUBSET (Item \ seen), pace \in Pace : Enqueue(I, pace)
           \/ Edit
           \/ Tick
           \/ UNCHANGED vars
    PROVE  OldestFirst(w)' /\ \A d \in Dispatch : Begun(w, d)'
<1>1. CASE \E I \in SUBSET (Item \ seen), pace \in Pace : Enqueue(I, pace)
  BY <1>1, FanOutIsInOrder
<1>2. CASE UNCHANGED <<row, job, seen>>
  BY <1>2, StandingFrame, OldestStays DEF Begun
<1>3. ASSUME NEW r \in RouteDestination, DeleteDestination(r)
      PROVE  OldestFirst(w)' /\ \A d \in Dispatch : Begun(w, d)'
  <2>1. job' = job /\ seen' = seen
    BY <1>3 DEF DeleteDestination
  <2>2. \A d \in Dispatch : row'[d] = row[d] \/ row'[d].status = "gone"
    BY <1>3 DEF DeleteDestination, NoRow, TypeInv, TypeOK
  <2>3. ASSUME NEW d \in Dispatch, row'[d].status = "gone"
        PROVE  StandsOrLater(w, d)
    BY <2>1, <2>3 DEF StandsOrLater, Dues, FirstDues, Fresh
  <2>4. \A d \in Dispatch : StandsOrLater(w, d)
    BY <2>1, <2>2, <2>3, StandingFrame
  <2>5. QED
    BY <2>1, <2>2, <2>4, OldestStays DEF Begun
<1>4. ~\E d \in Dispatch : RetryDispatch(d)
  <2>1. ~Spend("retries")
    BY DEF Spend, NoRetries
  <2>2. QED
    BY <2>1 DEF RetryDispatch
<1>5. CASE Edit
  BY <1>2, <1>3, <1>4, <1>5 DEF Edit, PatchDestination, DeleteSink
<1>6. CASE Tick \/ UNCHANGED vars
  BY <1>2, <1>6 DEF Tick, vars
<1>7. QED
  BY <1>1, <1>5, <1>6

\* What an attempt does to its dispatch, whatever comes of it.
Attempted(w, d) ==
    /\ \/ row'[d] = row[d]
       \/ row'[d].status # "pending"
       \/ job[w][d].stage # "none" /\ row'[d].scheduled >= now /\ row'[d].attempts > 0
    /\ \/ job'[w][d].stage = "none"
       \/ /\ job[w][d].stage # "none"
          /\ job'[w][d].due = job[w][d].due /\ job'[w][d].attempts = job[w][d].attempts

LEMMA AttemptedStands ==
    ASSUME TypeInv, NEW w \in Worker, NEW d \in Dispatch, Begun(w, d), Attempted(w, d),
           seen' = seen
    PROVE  StandsOrLater(w, d) /\ Begun(w, d)'
<1>1. Begun(w, d)'
  BY DEF Begun, Attempted
<1>2. FirstDues(w, d)' \subseteq FirstDues(w, d)
  BY DEF FirstDues, Fresh, Attempted
<1>3. \A t \in Dues(w, d)' : t \in Dues(w, d) \/ (t >= now /\ job[w][d].stage # "none")
  BY DEF Dues, Attempted
<1>4. QED
  BY <1>1, <1>2, <1>3 DEF StandsOrLater

LEMMA ClaimStands ==
    ASSUME TypeInv, NEW w \in Worker, IInv(w), Claim(w), NEW d \in Dispatch
    PROVE  StandsOrLater(w, d) /\ Begun(w, d)'
<1>1. PICK P \in Picks :
        /\ row' = [e \in Dispatch |->
              IF e \in P THEN [row[e] EXCEPT !.attempts = @ + 1] ELSE row[e]]
        /\ job' = [job EXCEPT ![w] = [e \in Dispatch |->
              IF e \in P
              THEN [NoJob EXCEPT !.stage = "claimed",
                                 !.attempts = row[e].attempts + 1,
                                 !.due = row[e].scheduled,
                                 !.created = row[e].created,
                                 !.address = dest[DestOf(e)].address]
              ELSE NoJob]]
  BY DEF Claim
<1>2. /\ job \in [Worker -> [Dispatch -> Job]] /\ row \in [Dispatch -> Row]
      /\ row[d].attempts \in Nat
  BY DEF TypeInv, TypeOK, Row
<1>3. seen' = seen /\ P \subseteq Due
  BY DEF Claim, Picks
<1>4. CASE d \in P
  <2>1. row[d].status = "pending" /\ ItemOf(d) \in seen
    BY <1>3, <1>4 DEF Due, IInv, UnseenHaveNoRow
  <2>2. row'[d] = [row[d] EXCEPT !.attempts = @ + 1]
    BY <1>1, <1>4
  <2>3. row'[d].status = "pending" /\ row'[d].scheduled = row[d].scheduled
        /\ row'[d].attempts = row[d].attempts + 1
    BY <1>2, <2>1, <2>2 DEF Row
  <2>4. job'[w][d] = [NoJob EXCEPT !.stage = "claimed",
                                   !.attempts = row[d].attempts + 1,
                                   !.due = row[d].scheduled,
                                   !.created = row[d].created,
                                   !.address = dest[DestOf(d)].address]
    BY <1>1, <1>2, <1>4
  <2>5. /\ job'[w][d].stage = "claimed" /\ job'[w][d].attempts = row[d].attempts + 1
        /\ job'[w][d].due = row[d].scheduled
    BY <2>4 DEF NoJob
  <2>6. row'[d].attempts # 0 /\ (job'[w][d].attempts = 1 => row[d].attempts = 0)
    BY <1>2, <2>3, <2>5
  <2>7. FirstDues(w, d)' \subseteq FirstDues(w, d) /\ Dues(w, d)' \subseteq Dues(w, d)
    BY <2>1, <2>3, <2>5, <2>6 DEF FirstDues, Dues, Fresh
  <2>8. QED
    BY <1>2, <1>3, <2>1, <2>3, <2>7 DEF StandsOrLater, Begun
<1>5. CASE d \notin P
  <2>1. row'[d] = row[d] /\ job'[w][d].stage = "none"
    BY <1>1, <1>2, <1>5 DEF NoJob
  <2>2. QED
    BY <2>1 DEF StandsOrLater, Begun, FirstDues, Dues, Fresh
<1>6. QED
  BY <1>4, <1>5

\* The statements of deliverOne, in the table: only a row that waits is
\* written, and the attempts that a claim has counted stay.
LEMMA OutcomeAttempts ==
    ASSUME TypeInv, NEW w \in Worker, NEW d \in Dispatch, Sound(w, d), Begun(w, d),
           \/ job[w][d].stage \in {"orphan", "ok", "error"} /\ row' = Recorded(w, d)
           \/ job[w][d].stage = "threw" /\ row' = Caught(w, d)
    PROVE  /\ \/ row'[d] = row[d]
              \/ row'[d].status # "pending"
              \/ row'[d].scheduled >= now /\ row'[d].attempts > 0
           /\ \A e \in Dispatch \ {d} : row'[e] = row[e]
<1>1. row'[d].status # "pending" \/ row'[d].scheduled >= now
  BY OutcomesAreLater
<1>2. CASE job[w][d].stage \in {"orphan", "ok", "error"} /\ row' = Recorded(w, d)
  <2>1. row[d].status = "gone" \/ row[d].status = "pending"
    BY <1>2 DEF Sound, Owns
  <2>2. \A e \in Dispatch \ {d} : row'[e] = row[e]
    BY <1>2, RecordedEffect
  <2>3. row[d].status = "gone" => row'[d] = row[d]
    BY <1>2, RecordedEffect DEF Stored, Terminal
  <2>4. row[d].status = "pending" => row'[d].attempts = row[d].attempts
    BY <1>2, RecordedEffect DEF Stored
  <2>5. row[d].status = "pending" => row[d].attempts > 0
    BY <1>2 DEF Begun
  <2>6. QED
    BY <1>1, <2>1, <2>2, <2>3, <2>4, <2>5
<1>3. CASE job[w][d].stage = "threw" /\ row' = Caught(w, d)
  BY <1>1, <1>3, CaughtEffect DEF Begun
<1>4. QED
  BY <1>2, <1>3

LEMMA WorkerStands ==
    ASSUME TypeInv, NEW w \in Worker, IInv(w), WorkerStep(w) \/ Fault(w) \/ Restart(w),
           \A d \in Dispatch : Begun(w, d)
    PROVE  \A d \in Dispatch : StandsOrLater(w, d) /\ Begun(w, d)'
<1>1. /\ job \in [Worker -> [Dispatch -> Job]] /\ row \in [Dispatch -> Row]
      /\ \A d \in Dispatch : Sound(w, d)
  BY DEF TypeInv, TypeOK, IInv
<1>2. seen' = seen
  BY DEF WorkerStep, Deliver, Fault, Restart, Claim, LoadSinks, Reject, SendOk, SendFails,
         SendThrows, Record, Catch, RecordThrows, CatchThrows, LoadSinksFails, Crash
<1>3. CASE Claim(w)
  BY <1>3, ClaimStands
<1>4. CASE LoadSinks(w)
  <2>1. ASSUME NEW d \in Dispatch PROVE Attempted(w, d)
    <3>1. CASE job[w][d].stage = "claimed"
      <4> DEFINE there == SinkOf[DestOf(d)] \in sinks
      <4>1. job'[w][d] = [job[w][d] EXCEPT !.stage = "ready", !.found = there]
        BY <1>1, <1>4, <3>1 DEF LoadSinks
      <4> HIDE DEF there
      <4>2. job'[w][d].due = job[w][d].due /\ job'[w][d].attempts = job[w][d].attempts
        BY <1>1, <4>1 DEF Job
      <4>3. QED
        BY <1>4, <3>1, <4>2 DEF LoadSinks, Attempted
    <3>2. CASE job[w][d].stage # "claimed"
      <4>1. job'[w][d] = job[w][d] /\ row' = row
        BY <1>1, <1>4, <3>2 DEF LoadSinks
      <4>2. QED
        BY <4>1 DEF Attempted
    <3>3. QED
      BY <3>1, <3>2
  <2>2. QED
    BY <1>2, <2>1, AttemptedStands
<1>5. ASSUME NEW e \in Dispatch,
             Deliver(w, e) \/ RecordThrows(w, e) \/ CatchThrows(w, e)
      PROVE  \A d \in Dispatch : StandsOrLater(w, d) /\ Begun(w, d)'
  <2>1. /\ job[w][e].stage # "none"
        /\ \/ job'[w][e].stage = "none"
           \/ job'[w][e].due = job[w][e].due /\ job'[w][e].attempts = job[w][e].attempts
        /\ \A d \in Dispatch \ {e} : job'[w][d] = job[w][d]
    <3>1. CASE Reject(w, e) \/ SendOk(w, e) \/ SendThrows(w, e)
                 \/ \E code \in FailureCode, hint \in Hint : SendFails(w, e, code, hint)
      <4>1. job[w][e].stage # "none"
        BY <3>1 DEF Reject, SendOk, SendThrows, SendFails, Sends, Turn
      <4>2. QED
        BY <3>1, <4>1, TurnEffect
    <3>2. CASE Record(w, e) \/ Catch(w, e)
      BY <1>1, <3>2 DEF Record, Catch, NoJob
    <3>3. CASE RecordThrows(w, e)
      BY <1>1, <3>3, StageEffect DEF RecordThrows
    <3>4. CASE CatchThrows(w, e)
      BY <1>1, <3>4, StageEffect DEF CatchThrows
    <3>5. QED
      BY <1>5, <3>1, <3>2, <3>3, <3>4 DEF Deliver
  <2>2. /\ \/ row'[e] = row[e]
           \/ row'[e].status # "pending"
           \/ row'[e].scheduled >= now /\ row'[e].attempts > 0
        /\ \A d \in Dispatch \ {e} : row'[d] = row[d]
    <3>1. CASE row' = row
      BY <3>1
    <3>2. CASE row' # row
      <4>1. \/ job[w][e].stage \in {"orphan", "ok", "error"} /\ row' = Recorded(w, e)
            \/ job[w][e].stage = "threw" /\ row' = Caught(w, e)
        BY <1>5, <3>2 DEF Deliver, Reject, SendOk, SendThrows, SendFails, Record, Catch,
                          RecordThrows, CatchThrows
      <4>2. QED
        BY <1>1, <4>1, OutcomeAttempts
    <3>3. QED
      BY <3>1, <3>2
  <2>3. \A d \in Dispatch : Attempted(w, d)
    BY <2>1, <2>2 DEF Attempted
  <2>4. QED
    BY <1>2, <2>3, AttemptedStands
<1>6. CASE LoadSinksFails(w) \/ Crash(w)
  <2>1. LoseJobs(w) /\ row' = row
    BY <1>6 DEF LoadSinksFails, Crash
  <2>2. \A d \in Dispatch : job'[w][d].stage = "none"
    BY <1>1, <2>1 DEF LoseJobs, NoJob
  <2>3. \A d \in Dispatch : Attempted(w, d)
    BY <2>1, <2>2 DEF Attempted
  <2>4. QED
    BY <1>2, <2>3, AttemptedStands
<1>7. CASE Restart(w)
  <2>1. \A d \in Dispatch : Attempted(w, d)
    BY <1>7 DEF Restart, Attempted
  <2>2. QED
    BY <1>2, <2>1, AttemptedStands
<1>8. QED
  BY <1>3, <1>4, <1>5, <1>6, <1>7 DEF WorkerStep, Fault

\* With one worker and a paced backfill, and as long as the user retries
\* nothing, a destination gets its items from old to new: a younger item is
\* not sent before each older one has had an attempt.
THEOREM BackfillGoesOutFromOldToNew ==
    ASSUME NEW w, Worker = {w}, 0 \notin Pace, MaxRetries = 0
    PROVE  Spec => []OldestGoesOutFirst
<1> DEFINE J == IInv(w) /\ NoRetries /\ Backfilled(w)
<1>1. Init => J
  <2>1. SUFFICES ASSUME Init PROVE NoRetries /\ Backfilled(w)
    BY IInvInit
  <2>2. NoRetries
    BY <2>1 DEF Init, Bounded, NoRetries
  <2>3. /\ now = 0 /\ \A d \in Dispatch : job[w][d] = NoJob /\ row[d].status = "none"
    BY <2>1 DEF Init, NoRow
  <2>4. InOrder(w)
    BY <2>3 DEF InOrder, Overdue, Complete, InTurns, Active, InTurn, NoJob
  <2>5. OldestFirst(w) /\ \A d \in Dispatch : Begun(w, d)
    BY <2>3 DEF OldestFirst, FirstDues, Fresh, Begun, NoJob
  <2>6. QED
    BY <2>2, <2>4, <2>5 DEF Backfilled
<1>2. J /\ [Next]_vars => J'
  <2>1. SUFFICES ASSUME J, [Next]_vars PROVE NoRetries' /\ Backfilled(w)'
    BY IInvNext
  <2>2. TypeInv /\ TypeInv' /\ InOrder(w)'
    BY <2>1, TypeInvNext, OrderNext DEF IInv, Backfilled
  <2>3. NoRetries'
    BY <2>1, <2>2, BudgetStep DEF TypeInv, TypeOK, Spend, Bounded, NoRetries
  <2>4. OldestFirst(w)' /\ \A d \in Dispatch : Begun(w, d)'
    <3>1. CASE \E v \in Worker : WorkerStep(v) \/ Fault(v) \/ Restart(v)
      BY <2>1, <2>2, <3>1, WorkerStands, OldestStays DEF Backfilled, InOrder
    <3>2. CASE ~\E v \in Worker : WorkerStep(v) \/ Fault(v) \/ Restart(v)
      BY <2>1, <2>2, <3>2, WorldKeepsOldest DEF Next, Backfilled, InOrder
    <3>3. QED
      BY <3>1, <3>2
  <2>5. QED
    BY <2>2, <2>3, <2>4 DEF Backfilled
<1>3. J => OldestGoesOutFirst
  <2>1. SUFFICES ASSUME J, NEW d \in Dispatch, NEW e \in Dispatch, Older(e, d),
                        job[w][d].stage \in {"ok", "error"}, row[e].status = "pending"
                 PROVE  /\ row[e].attempts > 0
                        /\ job[w][e].stage \in {"claimed", "ready"} => job[w][e].attempts > 1
    BY DEF OldestGoesOutFirst, Older
  <2>2. TypeInv /\ row[e].attempts \in Nat /\ job[w][e].attempts \in Nat
    BY <2>1, PointTypes DEF IInv
  <2>3. job[w][d].due \in Dues(w, d) /\ job[w][d].due \in Nat
    BY <2>1, <2>2, DueTypes, OrderTypes
  <2>4. row[e].attempts > 0
    <3>1. SUFFICES ASSUME row[e].attempts = 0 PROVE FALSE
      BY <2>2
    <3>2. row[e].scheduled \in FirstDues(w, e)
      BY <2>1, <2>2, <3>1, DueTypes DEF Fresh
    <3>3. row[e].scheduled < job[w][d].due
      BY <2>1, <2>3, <3>2 DEF Backfilled, OldestFirst
    <3>4. job[w][e].stage # "none"
      BY <2>1, <3>3 DEF Backfilled, InOrder, Complete, Active
    <3>5. QED
      BY <2>1, <3>1, <3>4 DEF Backfilled, Begun
  <2>5. ASSUME job[w][e].stage \in {"claimed", "ready"} PROVE job[w][e].attempts > 1
    <3>1. job[w][e].stage = "ready"
      BY <2>1, <2>5 DEF Backfilled, InOrder, InTurns
    <3>2. job[w][e].attempts > 0
      BY <2>2, <3>1 DEF TypeInv, ClaimIsCounted
    <3>3. SUFFICES ASSUME job[w][e].attempts = 1 PROVE FALSE
      BY <2>2, <3>2
    <3>4. job[w][e].due \in FirstDues(w, e)
      BY <2>2, <3>1, <3>3, DueTypes
    <3>5. job[w][e].due < job[w][d].due
      BY <2>1, <2>3, <3>4 DEF Backfilled, OldestFirst
    <3>6. QED
      BY <2>1, <3>1, <3>5 DEF Backfilled, InOrder, InTurns, InTurn, Before, Older
  <2>6. QED
    BY <2>4, <2>5
<1>4. QED
  BY <1>1, <1>2, <1>3, PTL DEF Spec
=============================================================================
