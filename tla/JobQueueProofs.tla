--------------------------- MODULE JobQueueProofs ---------------------------
(***************************************************************************)
(* Proofs about JobQueue for every number of jobs, workers, API threads,   *)
(* scopes and faults, and every pair of lock and stale periods.            *)
(***************************************************************************)
EXTENDS JobQueue, FiniteSetTheorems, TLAPS

\* Why FreshWorkerOwnsClaim is kept: as long as the row is running, its age
\* never passes the time its worker has been quiet, so it cannot expire first.
ClaimOf(w) ==
  LET j == claimed[w] IN
  /\ lockedBy[j] = w
  /\ status[j] \in {"running"} \cup Terminal
  /\ status[j] = "running" => beat[j] <= quiet[w]

ClaimInv == \A w \in Workers : Holding(w) /\ Fresh(w) => ClaimOf(w)

IInv == TypeOK /\ RunningIsReclaimable /\ ClaimInv

-----------------------------------------------------------------------------
(* Facts about the operators the actions are built from.                   *)

\* A column with the requeue value written into expired rows stays a column.
LEMMA RequeuedType ==
  ASSUME NEW S, NEW column \in [Job -> S], NEW v \in S
  PROVE  Requeued(column, v) \in [Job -> S]
BY DEF Requeued

\* Ages stay within one tick of the lock period.
LEMMA OlderType ==
  ASSUME NEW age \in 0 .. LockPeriod + 1
  PROVE  Older(age) \in 0 .. LockPeriod + 1
BY JobQueueAssumption DEF Older

\* The number of lapsing workers is a natural number.
LEMMA LapsingCount == Cardinality(Lapsing) \in Nat
<1>1. IsFiniteSet(Lapsing)
  BY JobQueueAssumption, FS_Subset DEF Lapsing
<1> QED BY <1>1, FS_CardinalityType

\* The request handed to the dispatcher is well formed.
LEMMA AfterEnqueueType ==
  ASSUME NEW j \in Job, NEW seen
  PROVE  /\ AfterEnqueue(j, seen) \in Request
         /\ AfterEnqueue(j, seen).step \in {"dispatch", "cancel"} => AfterEnqueue(j, seen).job = j
BY DEF AfterEnqueue, RequestFor, IdleRequest, Request, ApiStep

LEMMA IdleRequestType == IdleRequest \in Request /\ IdleRequest.step = "idle"
BY DEF RequestFor, IdleRequest, Request, ApiStep

-----------------------------------------------------------------------------
\* Replacing one thread's request by a well-formed one keeps the request table
\* well formed.
RequestOK ==
  /\ request \in [Apis -> Request]
  /\ \A a \in Apis : request[a].step \in {"dispatch", "cancel"} => request[a].job \in Job

LEMMA ServeType ==
  ASSUME RequestOK, NEW a \in Apis, NEW r \in Request, Serve(a, r),
         r.step \in {"dispatch", "cancel"} => r.job \in Job
  PROVE  RequestOK'
BY DEF RequestOK, Serve

LEMMA InitTypeOK == Init => TypeOK
BY JobQueueAssumption, IdleRequestType
   DEF Init, TypeOK, Status, WorkerStep

\* The column types, preserved by an action that replaces columns.
LEMMA ApiTypeOK ==
  ASSUME TypeOK, NEW a \in Apis, ApiNext(a)
  PROVE  TypeOK'
<1> USE DEF TypeOK
<1>0. RequestOK  BY DEF RequestOK
<1>1. ASSUME NEW s \in Scopes, EnqueueExisting(a, s)  PROVE TypeOK'
  <2>1. status' \in [Job -> Status] /\ lockedBy' \in [Job -> Workers \cup {NoWorker}]
        /\ locked' \in [Job -> BOOLEAN]
    BY <1>1, RequeuedType DEF EnqueueExisting, EnqueueRequeue, Status, Active
  <2>2. RequestOK'
    BY <1>0, <1>1, AfterEnqueueType, ServeType DEF EnqueueExisting
  <2> QED BY <1>1, <2>1, <2>2 DEF EnqueueExisting, EnqueueRequeue, RequestOK, workerVars
<1>2. ASSUME NEW s \in Scopes, EnqueueSelect(a, s)  PROVE TypeOK'
  <2>1. status' \in [Job -> Status] /\ lockedBy' \in [Job -> Workers \cup {NoWorker}]
        /\ locked' \in [Job -> BOOLEAN]
    BY <1>2, RequeuedType DEF EnqueueSelect, EnqueueRequeue, Status, Active
  <2>2. RequestOK'
    BY <1>0, <1>2, ServeType DEF EnqueueSelect, Request, ApiStep
  <2> QED BY <1>2, <2>1, <2>2 DEF EnqueueSelect, EnqueueRequeue, RequestOK, workerVars
<1>3. ASSUME EnqueueInsert(a)  PROVE TypeOK'
  <2>1. PICK j \in Job :
          /\ status' = [status EXCEPT ![j] = "queued"]
          /\ scope' = [scope EXCEPT ![j] = request[a].scope]
          /\ Serve(a, AfterEnqueue(j, "queued"))
    BY <1>3 DEF EnqueueInsert
  <2>2. RequestOK'  BY <1>0, <2>1, AfterEnqueueType, ServeType
  <2>3. request[a].scope \in Scopes \cup {NoScope}  BY DEF Request
  <2>4. status' \in [Job -> Status] /\ scope' \in [Job -> Scopes \cup {NoScope}]
    BY <2>1, <2>3 DEF Status, Active
  <2> QED BY <1>3, <2>2, <2>4 DEF EnqueueInsert, RequestOK, workerVars
<1>4. ASSUME DispatchJob(a)  PROVE TypeOK'
  <2>1. RequestOK'  BY <1>0, <1>4, IdleRequestType, ServeType DEF DispatchJob
  <2>2. messages' \in [Job -> Nat]  BY <1>4 DEF DispatchJob
  <2> QED BY <1>4, <2>1, <2>2 DEF DispatchJob, RequestOK, workerVars, jobRows
<1>5. ASSUME DispatchFails(a)  PROVE TypeOK'
  <2>1. RequestOK'  BY <1>0, <1>5, IdleRequestType, ServeType DEF DispatchFails
  <2>2. faults' \in Nat  BY <1>5 DEF DispatchFails
  <2> QED BY <1>5, <2>1, <2>2 DEF DispatchFails, RequestOK, workerVars, jobRows
<1>6. ASSUME NEW j \in Job, CancelSelect(a, j)  PROVE TypeOK'
  <2>1. RequestOK'
    BY <1>0, <1>6, ServeType DEF CancelSelect, RequestFor, Request, ApiStep
  <2> QED BY <1>6, <2>1 DEF CancelSelect, RequestOK, workerVars, jobRows
<1>7. ASSUME CancelUpdate(a)  PROVE TypeOK'
  <2>1. RequestOK'  BY <1>0, <1>7, IdleRequestType, ServeType DEF CancelUpdate
  <2>2. status' \in [Job -> Status] /\ locked' \in [Job -> BOOLEAN]
    BY <1>7 DEF CancelUpdate, Status, Terminal
  <2> QED BY <1>7, <2>1, <2>2 DEF CancelUpdate, RequestOK, workerVars
<1> QED BY <1>1, <1>2, <1>3, <1>4, <1>5, <1>6, <1>7 DEF ApiNext

LEMMA WorkerTypeOK ==
  ASSUME TypeOK, NEW w \in Workers, WorkerNext(w)
  PROVE  TypeOK'
<1> USE DEF TypeOK
<1>0. /\ {"queued", "running", "completed", "failed"} \subseteq Status
      /\ {"idle", "running", "raising", "leaving", "completing", "failing"} \subseteq WorkerStep
      /\ 0 \in 0 .. LockPeriod + 1
  BY JobQueueAssumption DEF Status, Active, Terminal, WorkerStep
<1>1. ASSUME ClaimNext(w)  PROVE TypeOK'
  <2>1. PICK j \in Job :
          /\ status' = [Requeued(status, "queued") EXCEPT ![j] = "running"]
          /\ lockedBy' = [Requeued(lockedBy, NoWorker) EXCEPT ![j] = w]
          /\ locked' = [Requeued(locked, FALSE) EXCEPT ![j] = TRUE]
          /\ beat' = [beat EXCEPT ![j] = 0]
          /\ StartWork(w, j)
    BY <1>1 DEF ClaimNext
  <2>2. /\ Requeued(status, "queued") \in [Job -> Status]
        /\ Requeued(lockedBy, NoWorker) \in [Job -> Workers \cup {NoWorker}]
        /\ Requeued(locked, FALSE) \in [Job -> BOOLEAN]
    BY <1>0, RequeuedType
  <2>3. /\ status' \in [Job -> Status] /\ lockedBy' \in [Job -> Workers \cup {NoWorker}]
        /\ locked' \in [Job -> BOOLEAN] /\ beat' \in [Job -> 0 .. LockPeriod + 1]
    BY <1>0, <2>1, <2>2
  <2>4. UNCHANGED <<scope, messages, request, faults>>  BY <1>1 DEF ClaimNext
  <2>5. /\ pc' \in [Workers -> WorkerStep] /\ claimed' \in [Workers -> Job \cup {NoJob}]
        /\ quiet' \in [Workers -> 0 .. LockPeriod + 1] /\ UNCHANGED beating
    BY <1>0, <2>1 DEF StartWork
  <2>6. \A v \in Workers : pc'[v] # "idle" => claimed'[v] \in Job
    BY <2>1 DEF StartWork
  <2> QED BY <2>3, <2>4, <2>5, <2>6
<1>2. ASSUME NEW j \in Job, ClaimById(w, j)  PROVE TypeOK'
  <2>1. messages' \in [Job -> Nat]  BY <1>2 DEF ClaimById
  <2> QED BY <1>0, <1>2, <2>1 DEF ClaimById, StartWork
<1>3. ASSUME NEW j \in Job, SkipMessage(w, j)  PROVE TypeOK'
  BY <1>3 DEF SkipMessage, jobRows, workerVars
<1>4. ASSUME NEW j \in Job, RaiseBeforeClaim(w, j)  PROVE TypeOK'
  <2>1. messages' \in [Job -> Nat] /\ faults' \in Nat  BY <1>4 DEF RaiseBeforeClaim
  <2>2. CASE Visible(j) = "running"
    BY <1>0, <1>4, <2>1, <2>2 DEF RaiseBeforeClaim, jobRows
  <2>3. CASE Visible(j) # "running"
    BY <1>0, <1>4, <2>1, <2>3 DEF RaiseBeforeClaim, jobRows
  <2> QED BY <2>2, <2>3
<1>5. ASSUME BeatSelect(w)  PROVE TypeOK'
  BY <1>5 DEF BeatSelect, jobRows
<1>6. ASSUME NEW j \in Job, BeatUpdate(w, j)  PROVE TypeOK'
  BY <1>0, <1>6 DEF BeatUpdate, HeartbeatRow
<1>7. ASSUME FinishSelect(w)  PROVE TypeOK'
  BY <1>0, <1>7 DEF FinishSelect, jobRows
<1>8. ASSUME FinishUpdate(w)  PROVE TypeOK'
  BY <1>0, <1>8 DEF FinishUpdate
<1>9. ASSUME Leave(w)  PROVE TypeOK'
  BY <1>0, <1>9 DEF Leave, jobRows
<1>10. ASSUME Crash(w)  PROVE TypeOK'
  <2>1. messages' \in [Job -> Nat]  BY <1>10 DEF Crash
  <2> QED BY <1>0, <1>10, <2>1 DEF Crash, jobRows
<1>11. ASSUME Redeliver(w)  PROVE TypeOK'
  BY <1>11 DEF Redeliver, jobRows, workerVars
<1> QED BY <1>1, <1>2, <1>3, <1>4, <1>5, <1>6, <1>7, <1>8, <1>9, <1>10, <1>11 DEF WorkerNext

LEMMA TickTypeOK ==
  ASSUME TypeOK, Tick
  PROVE  TypeOK'
<1>1. faults' \in Nat  BY LapsingCount DEF Tick, TypeOK
<1>2. beat' \in [Job -> 0 .. LockPeriod + 1]  BY OlderType DEF Tick, TypeOK
<1>3. quiet' \in [Workers -> 0 .. LockPeriod + 1]  BY OlderType DEF Tick, TypeOK
<1> QED BY <1>1, <1>2, <1>3 DEF Tick, TypeOK

\* API threads never touch the workers.
LEMMA ApiLeavesWorkers ==
  ASSUME NEW a \in Apis, ApiNext(a)
  PROVE  UNCHANGED <<workerVars, beat>>
BY DEF ApiNext, EnqueueExisting, EnqueueSelect, EnqueueRequeue, EnqueueInsert, DispatchJob,
       DispatchFails, CancelSelect, CancelUpdate, jobRows

-----------------------------------------------------------------------------
(* RunningIsReclaimable: a row is running only between a claim, which      *)
(* writes the lock and the owner, and a write that clears the status.      *)

LEMMA ReclaimableApi ==
  ASSUME TypeOK, RunningIsReclaimable, NEW a \in Apis, ApiNext(a)
  PROVE  RunningIsReclaimable'
<1> USE DEF TypeOK, RunningIsReclaimable
<1>1. ASSUME NEW s \in Scopes, EnqueueExisting(a, s) \/ EnqueueSelect(a, s)
      PROVE  RunningIsReclaimable'
  BY <1>1 DEF EnqueueExisting, EnqueueSelect, EnqueueRequeue, Requeued
<1>2. CASE EnqueueInsert(a)  BY <1>2 DEF EnqueueInsert
<1>3. CASE CancelUpdate(a)  BY <1>3 DEF CancelUpdate
<1>4. ASSUME UNCHANGED jobRows  PROVE RunningIsReclaimable'  BY <1>4 DEF jobRows
<1> QED BY <1>1, <1>2, <1>3, <1>4 DEF ApiNext, DispatchJob, DispatchFails, CancelSelect

LEMMA ReclaimableWorker ==
  ASSUME TypeOK, RunningIsReclaimable, NEW w \in Workers, WorkerNext(w)
  PROVE  RunningIsReclaimable'
<1> USE DEF TypeOK, RunningIsReclaimable
<1>1. CASE ClaimNext(w)
  <2>1. PICK j \in Job :
          /\ status' = [Requeued(status, "queued") EXCEPT ![j] = "running"]
          /\ lockedBy' = [Requeued(lockedBy, NoWorker) EXCEPT ![j] = w]
          /\ locked' = [Requeued(locked, FALSE) EXCEPT ![j] = TRUE]
    BY <1>1 DEF ClaimNext
  <2>2. ASSUME NEW i \in Job, status'[i] = "running", i # j
        PROVE  status[i] = "running" /\ locked'[i] = locked[i] /\ lockedBy'[i] = lockedBy[i]
    BY <2>1, <2>2 DEF Requeued
  <2>3. locked'[j] /\ lockedBy'[j] = w  BY <2>1 DEF Requeued
  <2> QED BY <2>2, <2>3
<1>2. ASSUME NEW j \in Job, ClaimById(w, j)  PROVE RunningIsReclaimable'
  BY <1>2 DEF ClaimById
<1>3. ASSUME NEW j \in Job, BeatUpdate(w, j)  PROVE RunningIsReclaimable'
  BY <1>3 DEF BeatUpdate, HeartbeatRow
<1>4. CASE FinishUpdate(w)  BY <1>4 DEF FinishUpdate
<1>5. ASSUME UNCHANGED jobRows  PROVE RunningIsReclaimable'  BY <1>5 DEF jobRows
<1> QED BY <1>1, <1>2, <1>3, <1>4, <1>5
        DEF WorkerNext, SkipMessage, RaiseBeforeClaim, BeatSelect, FinishSelect, Leave, Crash,
            Redeliver

-----------------------------------------------------------------------------
(* ClaimInv, the heart of the argument: an expired row has no fresh worker.*)

LEMMA ExpiredHasNoFreshWorker ==
  ASSUME TypeOK, ClaimInv, NEW j \in Job, Expired(j),
         NEW w \in Workers, Holding(w), claimed[w] = j
  PROVE  ~ Fresh(w)
BY JobQueueAssumption DEF TypeOK, ClaimInv, ClaimOf, Expired, Fresh

LEMMA QueuedHasNoFreshWorker ==
  ASSUME TypeOK, ClaimInv, NEW j \in Job, status[j] \in {"queued", "absent"},
         NEW w \in Workers, Holding(w), claimed[w] = j
  PROVE  ~ Fresh(w)
BY DEF ClaimInv, ClaimOf, Terminal

LEMMA HoldingHasJob ==
  ASSUME TypeOK, NEW w \in Workers, Holding(w)
  PROVE  claimed[w] \in Job
BY DEF TypeOK, Holding

LEMMA ClaimInvApi ==
  ASSUME TypeOK, ClaimInv, NEW a \in Apis, ApiNext(a)
  PROVE  ClaimInv'
<1> SUFFICES ASSUME NEW w \in Workers, Holding(w)', Fresh(w)'  PROVE ClaimOf(w)'
  BY DEF ClaimInv
<1> DEFINE c == claimed[w]
<1>0. UNCHANGED <<workerVars, beat>>  BY ApiLeavesWorkers
<1>1. Holding(w) /\ Fresh(w) /\ c' = c /\ quiet'[w] = quiet[w] /\ beat' = beat
  BY <1>0 DEF Holding, Fresh, workerVars
<1>2. ClaimOf(w) /\ c \in Job  BY <1>1, HoldingHasJob DEF ClaimInv
<1>3. ~ Expired(c) /\ status[c] \notin {"queued", "absent"}
  BY <1>1, <1>2, ExpiredHasNoFreshWorker, QueuedHasNoFreshWorker
<1>4. ASSUME lockedBy'[c] = lockedBy[c], status'[c] = status[c] \/ status'[c] = "cancelled"
      PROVE  ClaimOf(w)'
  BY <1>1, <1>2, <1>4 DEF ClaimOf, Terminal
<1>5. ASSUME NEW s \in Scopes, EnqueueExisting(a, s) \/ EnqueueSelect(a, s)  PROVE ClaimOf(w)'
  BY <1>2, <1>3, <1>4, <1>5 DEF EnqueueExisting, EnqueueSelect, EnqueueRequeue, Requeued
<1>6. CASE EnqueueInsert(a)
  <2>1. PICK j \in Job : status[j] = "absent" /\ status' = [status EXCEPT ![j] = "queued"]
    BY <1>6 DEF EnqueueInsert, IsOldest
  <2>2. status'[c] = status[c]  BY <1>2, <1>3, <2>1 DEF TypeOK
  <2> QED BY <1>4, <1>6, <2>2 DEF EnqueueInsert
<1>7. CASE CancelUpdate(a)  BY <1>2, <1>4, <1>7 DEF CancelUpdate, TypeOK
<1>8. ASSUME UNCHANGED jobRows  PROVE ClaimOf(w)'  BY <1>4, <1>8 DEF jobRows
<1> QED BY <1>5, <1>6, <1>7, <1>8 DEF ApiNext, DispatchJob, DispatchFails, CancelSelect

LEMMA ClaimInvWorker ==
  ASSUME TypeOK, ClaimInv, NEW v \in Workers, WorkerNext(v)
  PROVE  ClaimInv'
<1> SUFFICES ASSUME NEW w \in Workers, Holding(w)', Fresh(w)'  PROVE ClaimOf(w)'
  BY DEF ClaimInv
<1> DEFINE c == claimed[w]
\* A step that leaves w holding the same job, as fresh as before.
<1>same. ASSUME Holding(w), Fresh(w), claimed'[w] = c, quiet'[w] = quiet[w],
                lockedBy'[c] = lockedBy[c],
                status'[c] = status[c] \/ status'[c] \in Terminal,
                beat'[c] = beat[c] \/ beat'[c] = 0
         PROVE  ClaimOf(w)'
  <2>1. ClaimOf(w) /\ c \in Job  BY <1>same, HoldingHasJob DEF ClaimInv
  <2> QED BY <1>same, <2>1 DEF ClaimOf, TypeOK, Terminal
<1>kept. ASSUME Holding(w), Fresh(w)  PROVE c \in Job /\ ~ Claimable(c)
  <2>1. c \in Job  BY <1>kept, HoldingHasJob
  <2> QED BY <1>kept, <2>1, ExpiredHasNoFreshWorker, QueuedHasNoFreshWorker DEF Claimable
\* The claims: v starts on a job no fresh worker holds.
<1>1. CASE ClaimNext(v)
  <2>1. PICK j \in Job :
          /\ Claimable(j) /\ pc[v] = "idle"
          /\ status' = [Requeued(status, "queued") EXCEPT ![j] = "running"]
          /\ lockedBy' = [Requeued(lockedBy, NoWorker) EXCEPT ![j] = v]
          /\ beat' = [beat EXCEPT ![j] = 0]
          /\ StartWork(v, j)
    BY <1>1 DEF ClaimNext, IsOldest
  <2>2. CASE w = v
    BY <2>1, <2>2 DEF ClaimOf, StartWork, TypeOK, Requeued
  <2>3. CASE w # v
    <3>1. Holding(w) /\ Fresh(w) /\ claimed'[w] = c /\ quiet'[w] = quiet[w]
      BY <2>1, <2>3 DEF StartWork, Holding, Fresh, TypeOK
    <3>2. c \in Job /\ c # j /\ ~ Expired(c)  BY <2>1, <3>1, <1>kept DEF Claimable
    <3>3. status'[c] = status[c] /\ lockedBy'[c] = lockedBy[c] /\ beat'[c] = beat[c]
      BY <2>1, <3>2 DEF Requeued, TypeOK
    <3> QED BY <3>1, <3>3, <1>same
  <2> QED BY <2>2, <2>3
<1>2. ASSUME NEW j \in Job, ClaimById(v, j)  PROVE ClaimOf(w)'
  <2>1. CASE w = v
    BY <1>2, <2>1 DEF ClaimById, ClaimOf, StartWork, TypeOK
  <2>2. CASE w # v
    <3>1. Holding(w) /\ Fresh(w) /\ claimed'[w] = c /\ quiet'[w] = quiet[w]
      BY <1>2, <2>2 DEF ClaimById, StartWork, Holding, Fresh, TypeOK
    <3>2. c \in Job /\ c # j  BY <1>2, <3>1, <1>kept DEF ClaimById
    <3>3. status'[c] = status[c] /\ lockedBy'[c] = lockedBy[c] /\ beat'[c] = beat[c]
      BY <1>2, <3>2 DEF ClaimById, TypeOK
    <3> QED BY <3>1, <3>3, <1>same
  <2> QED BY <2>1, <2>2
\* Steps of other kinds never give w a job.
<1>rows. ASSUME UNCHANGED jobRows, Holding(w), Fresh(w), claimed'[w] = c, quiet'[w] = quiet[w]
         PROVE  ClaimOf(w)'
  BY <1>rows, <1>same DEF jobRows
<1>3. ASSUME NEW j \in Job, SkipMessage(v, j)  PROVE ClaimOf(w)'
  BY <1>3, <1>rows DEF SkipMessage, workerVars, Holding, Fresh
<1>4. ASSUME NEW j \in Job, RaiseBeforeClaim(v, j)  PROVE ClaimOf(w)'
  <2>1. pc'[w] = pc[w] /\ claimed'[w] = c /\ UNCHANGED <<jobRows, quiet>>
    BY <1>4 DEF RaiseBeforeClaim, Holding, TypeOK
  <2> QED BY <2>1, <1>rows DEF Holding, Fresh
<1>5. CASE BeatSelect(v)
  BY <1>5, <1>rows DEF BeatSelect, Holding, Fresh
<1>6. ASSUME NEW j \in Job, BeatUpdate(v, j)  PROVE ClaimOf(w)'
  <2>1. Holding(w) /\ claimed'[w] = c /\ UNCHANGED <<status, lockedBy>>
    BY <1>6 DEF BeatUpdate, HeartbeatRow, Holding
  <2>2. Fresh(w)  BY <1>6, <2>1 DEF BeatUpdate, Fresh, TypeOK
  <2>3. c \in Job /\ ClaimOf(w)  BY <2>1, <2>2, <1>kept DEF ClaimInv
  <2>4. CASE quiet'[w] = quiet[w]
    <3>1. beat'[c] = beat[c] \/ beat'[c] = 0
      BY <1>6, <2>3 DEF BeatUpdate, HeartbeatRow, TypeOK
    <3> QED BY <2>1, <2>2, <2>4, <3>1, <1>same
  <2>5. CASE quiet'[w] # quiet[w]
    <3>1. w = v /\ c = j /\ quiet'[w] = 0  BY <1>6, <2>5 DEF BeatUpdate, TypeOK
    <3>2. beat'[c] = 0  BY <1>6, <2>3, <3>1 DEF BeatUpdate, HeartbeatRow, TypeOK
    <3> QED BY <2>1, <2>3, <3>1, <3>2 DEF ClaimOf
  <2> QED BY <2>4, <2>5
<1>7. CASE FinishSelect(v)
  <2>1. Holding(w) /\ claimed'[w] = c /\ UNCHANGED <<jobRows, quiet>>
    BY <1>7 DEF FinishSelect, Holding, TypeOK
  <2> QED BY <2>1, <1>rows DEF Fresh
<1>8. CASE FinishUpdate(v)
  <2>1. Holding(w) /\ claimed'[w] = c /\ UNCHANGED <<lockedBy, quiet>>
    BY <1>8 DEF FinishUpdate, Holding, TypeOK
  <2>2. status'[c] = status[c] \/ status'[c] \in Terminal
    BY <1>8, <2>1, HoldingHasJob DEF FinishUpdate, Terminal, TypeOK
  <2>3. beat'[c] = beat[c] \/ beat'[c] = 0
    BY <1>8, <2>1, HoldingHasJob DEF FinishUpdate, TypeOK
  <2> QED BY <2>1, <2>2, <2>3, <1>same DEF Fresh
<1>9. CASE Leave(v)
  <2>1. Holding(w) /\ claimed'[w] = c /\ quiet'[w] = quiet[w] /\ UNCHANGED jobRows
    BY <1>9 DEF Leave, Holding, TypeOK
  <2> QED BY <2>1, <1>rows DEF Fresh
<1>10. CASE Crash(v)
  <2>1. Holding(w) /\ claimed'[w] = c /\ quiet'[w] = quiet[w] /\ UNCHANGED jobRows
    BY <1>10 DEF Crash, Holding, TypeOK
  <2> QED BY <2>1, <1>rows DEF Fresh
<1>11. CASE Redeliver(v)
  BY <1>11, <1>rows DEF Redeliver, workerVars, Holding, Fresh
<1> QED BY <1>1, <1>2, <1>3, <1>4, <1>5, <1>6, <1>7, <1>8, <1>9, <1>10, <1>11 DEF WorkerNext

\* A tick ages a running row and its worker alike.
LEMMA ClaimInvTick ==
  ASSUME TypeOK, ClaimInv, Tick
  PROVE  ClaimInv'
<1> SUFFICES ASSUME NEW w \in Workers, Holding(w)', Fresh(w)'  PROVE ClaimOf(w)'
  BY DEF ClaimInv
<1> DEFINE c == claimed[w]
<1>1. Holding(w) /\ claimed' = claimed /\ UNCHANGED <<status, lockedBy, pc>>
  BY DEF Tick, Holding
<1>2. pc[w] = "running"  BY <1>1 DEF Tick, NoOpenTransaction, Holding
<1>3. c \in Job  BY <1>1, HoldingHasJob
<1>4. quiet'[w] = IF status[c] = "running" THEN Older(quiet[w]) ELSE quiet[w]
  BY <1>2 DEF Tick, Working
<1>5. beat'[c] = IF status[c] = "running" THEN Older(beat[c]) ELSE beat[c]
  BY <1>3 DEF Tick
<1>6. quiet[w] \in 0 .. LockPeriod + 1 /\ beat[c] \in 0 .. LockPeriod + 1
  BY <1>3 DEF TypeOK
<1>7. Fresh(w) /\ (status[c] = "running" => quiet'[w] = quiet[w] + 1)
  BY <1>4, <1>6, JobQueueAssumption DEF Fresh, Older
<1>8. ClaimOf(w)  BY <1>1, <1>7 DEF ClaimInv
<1>9. status[c] = "running" => beat'[c] <= quiet'[w]
  BY <1>5, <1>6, <1>7, <1>8, JobQueueAssumption DEF ClaimOf, Older
<1> QED BY <1>1, <1>8, <1>9 DEF ClaimOf

-----------------------------------------------------------------------------
(* The invariant and what follows from it.                                 *)

LEMMA InitIInv == Init => IInv
<1> SUFFICES ASSUME Init PROVE IInv  OBVIOUS
<1>1. TypeOK  BY InitTypeOK
<1>2. RunningIsReclaimable /\ ClaimInv
  BY DEF Init, RunningIsReclaimable, ClaimInv, Holding
<1> QED BY <1>1, <1>2 DEF IInv

LEMMA NextIInv == IInv /\ [Next]_vars => IInv'
<1> SUFFICES ASSUME IInv, [Next]_vars PROVE IInv'  OBVIOUS
<1> USE DEF IInv
<1>1. ASSUME NEW a \in Apis, ApiNext(a)  PROVE IInv'
  <2>1. TypeOK'  BY <1>1, ApiTypeOK
  <2>2. RunningIsReclaimable'  BY <1>1, ReclaimableApi
  <2>3. ClaimInv'  BY <1>1, ClaimInvApi
  <2> QED BY <2>1, <2>2, <2>3
<1>2. ASSUME NEW w \in Workers, WorkerNext(w)  PROVE IInv'
  BY <1>2, WorkerTypeOK, ReclaimableWorker, ClaimInvWorker
<1>3. CASE Tick
  <2>1. RunningIsReclaimable'  BY <1>3 DEF Tick, RunningIsReclaimable
  <2> QED BY <1>3, <2>1, TickTypeOK, ClaimInvTick
<1>4. CASE UNCHANGED vars
  BY <1>4 DEF vars, jobRows, workerVars, TypeOK, RunningIsReclaimable,
              ClaimInv, ClaimOf, Holding, Fresh
<1> QED BY <1>1, <1>2, <1>3, <1>4 DEF Next

\* The inductive invariant holds throughout.
THEOREM Invariance == Spec => []IInv
BY InitIInv, NextIInv, PTL DEF Spec

\* The columns, requests and worker states keep their types.
THEOREM TypeCorrect == Spec => []TypeOK
<1>1. IInv => TypeOK  BY DEF IInv
<1> QED BY <1>1, Invariance, PTL

\* No running row is out of the requeue's reach.
THEOREM RunningReclaimable == Spec => []RunningIsReclaimable
<1>1. IInv => RunningIsReclaimable  BY DEF IInv
<1> QED BY <1>1, Invariance, PTL

LEMMA FreshFromIInv == IInv => FreshWorkerOwnsClaim
BY DEF IInv, ClaimInv, ClaimOf, FreshWorkerOwnsClaim, Terminal

\* A worker that keeps heartbeating keeps its claim, whatever messages are
\* duplicated and whoever else finishes, cancels or enqueues.
THEOREM FreshOwnership == Spec => []FreshWorkerOwnsClaim
BY FreshFromIInv, Invariance, PTL

LEMMA ExclusiveFromFresh == FreshWorkerOwnsClaim => ExclusiveExecution
BY DEF FreshWorkerOwnsClaim, ExclusiveExecution

\* At most one live worker executes a job.
THEOREM Exclusivity == Spec => []ExclusiveExecution
BY ExclusiveFromFresh, FreshOwnership, PTL

-----------------------------------------------------------------------------
(* NoResurrection: only rows that are absent, queued or running are given  *)
(* an active status.                                                       *)

LEMMA SettledStaysSettled ==
  ASSUME TypeOK, [Next]_vars, NEW j \in Job, status[j] \in Terminal
  PROVE  status'[j] \in Terminal
<1> USE DEF TypeOK
<1>0. status[j] \notin {"queued", "running", "absent"}  BY DEF Terminal
<1>00. ~ Expired(j) /\ ~ Claimable(j)  BY <1>0 DEF Expired, Claimable
<1>1. ASSUME NEW a \in Apis, ApiNext(a)  PROVE status'[j] \in Terminal
  <2>1. ASSUME NEW s \in Scopes, EnqueueExisting(a, s) \/ EnqueueSelect(a, s)
        PROVE  status'[j] \in Terminal
    BY <1>00, <2>1 DEF EnqueueExisting, EnqueueSelect, EnqueueRequeue, Requeued
  <2>2. CASE EnqueueInsert(a)
    <3>1. PICK i \in Job : status[i] = "absent" /\ status' = [status EXCEPT ![i] = "queued"]
      BY <2>2 DEF EnqueueInsert, IsOldest
    <3> QED BY <1>0, <3>1
  <2>3. CASE CancelUpdate(a)  BY <2>3 DEF CancelUpdate, Terminal
  <2>4. ASSUME UNCHANGED jobRows  PROVE status'[j] \in Terminal  BY <2>4 DEF jobRows
  <2> QED BY <1>1, <2>1, <2>2, <2>3, <2>4 DEF ApiNext, DispatchJob, DispatchFails, CancelSelect
<1>2. ASSUME NEW w \in Workers, WorkerNext(w)  PROVE status'[j] \in Terminal
  <2>1. CASE ClaimNext(w)
    <3>1. PICK i \in Job : Claimable(i)
                          /\ status' = [Requeued(status, "queued") EXCEPT ![i] = "running"]
      BY <2>1 DEF ClaimNext, IsOldest
    <3> QED BY <1>00, <3>1 DEF Requeued
  <2>2. ASSUME NEW i \in Job, ClaimById(w, i)  PROVE status'[j] \in Terminal
    BY <1>00, <2>2 DEF ClaimById
  <2>3. CASE FinishUpdate(w)  BY <2>3 DEF FinishUpdate, Terminal
  <2>4. ASSUME NEW i \in Job, BeatUpdate(w, i)  PROVE status'[j] \in Terminal
    BY <2>4 DEF BeatUpdate, HeartbeatRow
  <2>5. ASSUME UNCHANGED jobRows  PROVE status'[j] \in Terminal  BY <2>5 DEF jobRows
  <2> QED BY <1>2, <2>1, <2>2, <2>3, <2>4, <2>5
          DEF WorkerNext, SkipMessage, RaiseBeforeClaim, BeatSelect, FinishSelect, Leave, Crash,
              Redeliver
<1>3. CASE Tick  BY <1>3 DEF Tick
<1>4. CASE UNCHANGED vars  BY <1>4 DEF vars, jobRows
<1> QED BY <1>1, <1>2, <1>3, <1>4 DEF Next

\* A settled job never returns to the queue or to a worker.
THEOREM SettledForGood == Spec => NoResurrection
<1>1. IInv /\ [Next]_vars => [\A j \in Job : status[j] \in Terminal => status'[j] \in Terminal]_vars
  BY SettledStaysSettled DEF IInv
<1> QED BY <1>1, Invariance, PTL DEF Spec, NoResurrection
-----------------------------------------------------------------------------
(* OneActivePerScope, when one thread serves all enqueues: the SELECT's     *)
(* answer is still true at the INSERT, because nothing else makes a row     *)
(* active.                                                                  *)

\* The scope an open enqueue is about to insert into has no active row.
ScopeStaysFree ==
  \A a \in Apis : request[a].step = "insert" =>
    \A j \in Job : scope[j] = request[a].scope => status[j] \notin Active

\* A requeue changes no row's being active.
LEMMA RequeueKeepsActive ==
  ASSUME NEW j \in Job
  PROVE  (Requeued(status, "queued")[j] \in Active) <=> (status[j] \in Active)
BY DEF Requeued, Expired, Active

\* Only the INSERT makes a row active or gives it a scope.
LEMMA OnlyInsertActivates ==
  ASSUME TypeOK, [Next]_vars, \A a \in Apis : ~ EnqueueInsert(a)
  PROVE  /\ scope' = scope
         /\ \A j \in Job : status'[j] \in Active => status[j] \in Active
<1> USE DEF TypeOK
<1>1. ASSUME NEW a \in Apis, ApiNext(a)
      PROVE  scope' = scope /\ \A j \in Job : status'[j] \in Active => status[j] \in Active
  <2>1. ASSUME NEW s \in Scopes, EnqueueExisting(a, s) \/ EnqueueSelect(a, s)
        PROVE  scope' = scope /\ \A j \in Job : status'[j] \in Active => status[j] \in Active
    BY <2>1, RequeueKeepsActive DEF EnqueueExisting, EnqueueSelect, EnqueueRequeue
  <2>2. CASE CancelUpdate(a)  BY <2>2 DEF CancelUpdate, Active
  <2>3. CASE UNCHANGED jobRows  BY <2>3 DEF jobRows
  <2> QED BY <1>1, <2>1, <2>2, <2>3 DEF ApiNext, DispatchJob, DispatchFails, CancelSelect
<1>2. ASSUME NEW w \in Workers, WorkerNext(w)
      PROVE  scope' = scope /\ \A j \in Job : status'[j] \in Active => status[j] \in Active
  <2>1. CASE ClaimNext(w)
    <3>1. PICK i \in Job : /\ Claimable(i)
                           /\ status' = [Requeued(status, "queued") EXCEPT ![i] = "running"]
      BY <2>1 DEF ClaimNext, IsOldest
    <3>2. scope' = scope  BY <2>1 DEF ClaimNext
    <3>3. ASSUME NEW j \in Job, status'[j] \in Active  PROVE status[j] \in Active
      <4>1. CASE j = i  BY <3>1, <4>1 DEF Claimable, Expired, Active
      <4>2. CASE j # i
        BY <3>1, <3>3, <4>2, RequeueKeepsActive DEF Requeued
      <4> QED BY <4>1, <4>2
    <3> QED BY <3>2, <3>3
  <2>2. ASSUME NEW i \in Job, ClaimById(w, i)
        PROVE  scope' = scope /\ \A j \in Job : status'[j] \in Active => status[j] \in Active
    BY <2>2 DEF ClaimById, Claimable, Expired, Active
  <2>3. ASSUME NEW i \in Job, BeatUpdate(w, i)
        PROVE  scope' = scope /\ \A j \in Job : status'[j] \in Active => status[j] \in Active
    BY <2>3 DEF BeatUpdate, HeartbeatRow
  <2>4. CASE FinishUpdate(w)  BY <2>4 DEF FinishUpdate, Active
  <2>5. CASE UNCHANGED jobRows  BY <2>5 DEF jobRows
  <2> QED BY <1>2, <2>1, <2>2, <2>3, <2>4, <2>5
          DEF WorkerNext, SkipMessage, RaiseBeforeClaim, BeatSelect, FinishSelect, Leave, Crash,
              Redeliver
<1>3. CASE Tick  BY <1>3 DEF Tick
<1>4. CASE UNCHANGED vars  BY <1>4 DEF vars, jobRows
<1> QED BY <1>1, <1>2, <1>3, <1>4 DEF Next

\* With one API thread, an enqueue that goes on to its INSERT left no active
\* row in its scope.
LEMMA SelectFindsScopeFree ==
  ASSUME TypeOK, NEW a \in Apis, NEW s \in Scopes, EnqueueSelect(a, s)
  PROVE  /\ request'[a].scope = s
         /\ \A j \in Job : scope[j] = s => status[j] \notin Active
<1>1. \A j \in Job : scope[j] = s => Requeued(status, "queued")[j] \notin Active
  BY DEF EnqueueSelect, BusyRows, ActiveStatuses
<1> QED BY <1>1, RequeueKeepsActive DEF EnqueueSelect, Serve, TypeOK

LEMMA NextScopeFree ==
  ASSUME \A a, b \in Apis : a = b, TypeOK, ScopeStaysFree, OneActivePerScope, [Next]_vars
  PROVE  ScopeStaysFree' /\ OneActivePerScope'
<1>1. ASSUME NEW a \in Apis, EnqueueInsert(a)  PROVE ScopeStaysFree' /\ OneActivePerScope'
  <2>1. PICK i \in Job : /\ status[i] = "absent"
                         /\ status' = [status EXCEPT ![i] = "queued"]
                         /\ scope' = [scope EXCEPT ![i] = request[a].scope]
                         /\ Serve(a, AfterEnqueue(i, "queued"))
    BY <1>1 DEF EnqueueInsert, IsOldest
  <2>2. request[a].step = "insert"  BY <1>1 DEF EnqueueInsert
  <2>3. \A j \in Job : scope[j] = request[a].scope => status[j] \notin Active
    BY <2>2 DEF ScopeStaysFree
  <2>4. \A b \in Apis : request'[b].step # "insert"
    BY <2>1 DEF Serve, AfterEnqueue, RequestFor, IdleRequest, TypeOK
  <2>5. OneActivePerScope'
    BY <2>1, <2>3 DEF OneActivePerScope, TypeOK
  <2> QED BY <2>4, <2>5 DEF ScopeStaysFree
<1>2. ASSUME \A a \in Apis : ~ EnqueueInsert(a)  PROVE ScopeStaysFree' /\ OneActivePerScope'
  <2>1. /\ scope' = scope
        /\ \A j \in Job : status'[j] \in Active => status[j] \in Active
    BY <1>2, OnlyInsertActivates
  <2>2. OneActivePerScope'  BY <2>1 DEF OneActivePerScope
  <2>3. ASSUME NEW a \in Apis, request'[a].step = "insert"
        PROVE  \A j \in Job : scope'[j] = request'[a].scope => status'[j] \notin Active
    <3>1. CASE request'[a] = request[a]  BY <2>1, <2>3, <3>1 DEF ScopeStaysFree
    <3>2. ASSUME NEW s \in Scopes, EnqueueSelect(a, s)
          PROVE  \A j \in Job : scope'[j] = request'[a].scope => status'[j] \notin Active
      BY <2>1, <3>2, SelectFindsScopeFree
    <3>3. request'[a] = request[a] \/ \E s \in Scopes : EnqueueSelect(a, s)
      <4>1. ASSUME NEW b \in Apis, ApiNext(b), b = a
            PROVE  request'[a] = request[a] \/ \E s \in Scopes : EnqueueSelect(a, s)
        BY <1>2, <2>3, <4>1
           DEF ApiNext, EnqueueExisting, DispatchJob, DispatchFails, CancelSelect, CancelUpdate,
               Serve, AfterEnqueue, RequestFor, IdleRequest, TypeOK
      <4>2. ASSUME NEW w \in Workers, WorkerNext(w)  PROVE request' = request
        BY <4>2 DEF WorkerNext, ClaimNext, ClaimById, SkipMessage, RaiseBeforeClaim, BeatSelect,
                    BeatUpdate, FinishSelect, FinishUpdate, Leave, Crash, Redeliver
      <4>3. CASE Tick  BY <4>3 DEF Tick
      <4>4. CASE UNCHANGED vars  BY <4>4 DEF vars
      <4> QED BY <4>1, <4>2, <4>3, <4>4 DEF Next
    <3> QED BY <3>1, <3>2, <3>3
  <2> QED BY <2>2, <2>3 DEF ScopeStaysFree
<1> QED BY <1>1, <1>2

\* With a single API thread enqueue_job's deduplication is exact; with two
\* both SELECTs can find no active row before either INSERT.
THEOREM Deduplication ==
  ASSUME \A a, b \in Apis : a = b
  PROVE  Spec => []OneActivePerScope
<1>1. Init => ScopeStaysFree /\ OneActivePerScope
  BY DEF Init, ScopeStaysFree, OneActivePerScope, IdleRequest, RequestFor, Active
<1>2. TypeOK /\ ScopeStaysFree /\ OneActivePerScope /\ [Next]_vars
        => (ScopeStaysFree /\ OneActivePerScope)'
  BY NextScopeFree
<1> QED BY <1>1, <1>2, TypeCorrect, PTL DEF Spec

=============================================================================
