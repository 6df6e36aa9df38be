------------------------- MODULE JobQueueRefinement -------------------------
(***************************************************************************)
(* JobQueue implements JobLease: every step of the tables, threads and     *)
(* messages is a step of the lease, or leaves phases and holders alone.    *)
(***************************************************************************)
EXTENDS JobQueueProofs

\* Cancels, held rows and tasks are about rows that were inserted.
NoGhosts ==
  /\ \A a \in Apis : request[a].step = "cancel" => status[request[a].job] # "absent"
  /\ \A a \in Apis : \A j \in request[a].held : status[j] # "absent"
  /\ \A w \in Workers : pc[w] # "idle" => status[claimed[w]] # "absent"

RInv == IInv /\ NoGhosts

-----------------------------------------------------------------------------
(* NoGhosts is inductive: nothing deletes a row.                           *)

LEMMA RowsStay ==
  ASSUME TypeOK, [Next]_vars, NEW j \in Job, status[j] # "absent"
  PROVE  status'[j] # "absent"
<1> USE DEF TypeOK
<1>1. ASSUME NEW a \in Apis, ApiNext(a)  PROVE status'[j] # "absent"
  BY <1>1 DEF ApiNext, EnqueueExisting, EnqueueSelect, EnqueueRequeue, Requeued, EnqueueInsert,
              DispatchJob, DispatchFails, CancelSelect, CancelUpdate, jobRows
<1>2. ASSUME NEW w \in Workers, WorkerNext(w)  PROVE status'[j] # "absent"
  <2>1. CASE ClaimNext(w)
    <3>1. PICK i \in Job : status' = [Requeued(status, "queued") EXCEPT ![i] = "running"]
      BY <2>1 DEF ClaimNext
    <3> QED BY <3>1 DEF Requeued
  <2>2. ASSUME NEW i \in Job, ClaimById(w, i)  PROVE status'[j] # "absent"
    BY <2>2 DEF ClaimById
  <2>3. CASE FinishUpdate(w)  BY <2>3 DEF FinishUpdate
  <2>4. CASE UNCHANGED status  BY <2>4
  <2> QED BY <1>2, <2>1, <2>2, <2>3, <2>4
          DEF WorkerNext, SkipMessage, RaiseBeforeClaim, BeatSelect, BeatUpdate, HeartbeatRow,
              FinishSelect, Leave, Crash, Redeliver, jobRows
<1>3. CASE Tick  BY <1>3 DEF Tick
<1>4. CASE UNCHANGED vars  BY <1>4 DEF vars, jobRows
<1> QED BY <1>1, <1>2, <1>3, <1>4 DEF Next

\* Rows a request holds are never absent, so what looks running was inserted.
LEMMA VisibleIsReal ==
  ASSUME TypeOK, NoGhosts, NEW j \in Job, Visible(j) # "absent"
  PROVE  status[j] # "absent"
BY DEF NoGhosts, Visible, Held

LEMMA NextNoGhosts ==
  ASSUME TypeOK, NoGhosts, [Next]_vars
  PROVE  NoGhosts'
<1>1. ASSUME NEW a \in Apis
      PROVE  /\ request'[a].step = "cancel" => status'[request'[a].job] # "absent"
             /\ \A j \in request'[a].held : status'[j] # "absent"
  <2>1. CASE request'[a] = request[a]
    BY <1>1, <2>1, RowsStay DEF NoGhosts, TypeOK, Request
  <2>2. ASSUME NEW j \in Job, CancelSelect(a, j)
        PROVE  /\ request'[a].step = "cancel" => status'[request'[a].job] # "absent"
               /\ \A i \in request'[a].held : status'[i] # "absent"
    <3>1. request'[a] = RequestFor("cancel", j)  BY <2>2 DEF CancelSelect, Serve, TypeOK
    <3>2. status[j] # "absent"
      BY <2>2, VisibleIsReal DEF CancelSelect, Cancellable
    <3>3. status' = status  BY <2>2 DEF CancelSelect, jobRows
    <3> QED BY <3>1, <3>2, <3>3 DEF RequestFor
  <2>3. ASSUME NEW s \in Scopes, EnqueueSelect(a, s)
        PROVE  /\ request'[a].step = "cancel" => status'[request'[a].job] # "absent"
               /\ \A i \in request'[a].held : status'[i] # "absent"
    <3>1. request'[a] = [step |-> "insert", job |-> NoJob, scope |-> s,
                         held |-> {j \in Job : Expired(j)}]
      BY <2>3 DEF EnqueueSelect, Serve, TypeOK
    <3>2. \A j \in Job : Expired(j) => status'[j] = "queued"
      BY <2>3 DEF EnqueueSelect, EnqueueRequeue, Requeued
    <3> QED BY <3>1, <3>2
  <2>4. ASSUME request'[a].step # "cancel", request'[a].held = {}
        PROVE  /\ request'[a].step = "cancel" => status'[request'[a].job] # "absent"
               /\ \A i \in request'[a].held : status'[i] # "absent"
    BY <2>4
  <2>5. ASSUME NEW b \in Apis, ApiNext(b)
        PROVE  \/ request'[a] = request[a]
               \/ \E j \in Job : CancelSelect(a, j)
               \/ \E s \in Scopes : EnqueueSelect(a, s)
               \/ request'[a].step # "cancel" /\ request'[a].held = {}
    <3>1. CASE b # a
      BY <2>5, <3>1
         DEF ApiNext, EnqueueExisting, EnqueueSelect, EnqueueInsert, DispatchJob, DispatchFails,
             CancelSelect, CancelUpdate, Serve, TypeOK
    <3>2. ASSUME NEW r \in {IdleRequest} \cup {RequestFor("dispatch", j) : j \in Job},
                 Serve(a, r)
          PROVE  request'[a].step # "cancel" /\ request'[a].held = {}
      BY <3>2 DEF Serve, RequestFor, IdleRequest, TypeOK
    <3>3. ASSUME NEW s \in Scopes, EnqueueExisting(a, s)
          PROVE  request'[a].step # "cancel" /\ request'[a].held = {}
      BY <3>2, <3>3 DEF EnqueueExisting, AfterEnqueue
    <3>4. CASE EnqueueInsert(a)  BY <3>2, <3>4 DEF EnqueueInsert, AfterEnqueue
    <3>5. CASE DispatchJob(a) \/ DispatchFails(a) \/ CancelUpdate(a)
      BY <3>2, <3>5 DEF DispatchJob, DispatchFails, CancelUpdate
    <3> QED BY <2>5, <3>1, <3>3, <3>4, <3>5 DEF ApiNext
  <2>6. ASSUME NEW w \in Workers, WorkerNext(w)  PROVE request' = request
    BY <2>6 DEF WorkerNext, ClaimNext, ClaimById, SkipMessage, RaiseBeforeClaim, BeatSelect,
                BeatUpdate, FinishSelect, FinishUpdate, Leave, Crash, Redeliver
  <2>7. CASE Tick  BY <2>1, <2>7 DEF Tick
  <2>8. CASE UNCHANGED vars  BY <2>1, <2>8 DEF vars
  <2> QED BY <2>1, <2>2, <2>3, <2>4, <2>5, <2>6, <2>7, <2>8 DEF Next
<1>2. ASSUME NEW w \in Workers, pc'[w] # "idle"
      PROVE  status'[claimed'[w]] # "absent"
  <2>1. CASE pc[w] # "idle" /\ claimed'[w] = claimed[w]
    BY <2>1, RowsStay DEF NoGhosts, TypeOK
  <2>2. ASSUME NEW j \in Job, claimed'[w] = j, status'[j] = "running" \/ status[j] # "absent"
        PROVE  status'[claimed'[w]] # "absent"
    BY <2>2, RowsStay
  <2>3. ASSUME NEW v \in Workers, WorkerNext(v)
        PROVE  \/ pc[w] # "idle" /\ claimed'[w] = claimed[w]
               \/ \E j \in Job : claimed'[w] = j /\ (status'[j] = "running" \/ status[j] # "absent")
    <3>1. CASE ClaimNext(v)
      <4>1. PICK j \in Job : status' = [Requeued(status, "queued") EXCEPT ![j] = "running"]
                             /\ StartWork(v, j) /\ pc[v] = "idle"
        BY <3>1 DEF ClaimNext
      <4>2. status'[j] = "running"  BY <4>1 DEF Requeued
      <4> QED BY <1>2, <4>1, <4>2 DEF StartWork, TypeOK
    <3>2. ASSUME NEW j \in Job, ClaimById(v, j)
          PROVE  \/ pc[w] # "idle" /\ claimed'[w] = claimed[w]
                 \/ \E i \in Job : claimed'[w] = i /\ (status'[i] = "running" \/ status[i] # "absent")
      <4>1. status'[j] = "running"  BY <3>2 DEF ClaimById, TypeOK
      <4> QED BY <1>2, <3>2, <4>1 DEF ClaimById, StartWork, TypeOK
    <3>3. ASSUME NEW j \in Job, RaiseBeforeClaim(v, j)
          PROVE  \/ pc[w] # "idle" /\ claimed'[w] = claimed[w]
                 \/ \E i \in Job : claimed'[w] = i /\ (status'[i] = "running" \/ status[i] # "absent")
      <4>1. CASE Visible(j) = "running"
        <5>1. status[j] # "absent"  BY <4>1, VisibleIsReal
        <5> QED BY <1>2, <3>3, <4>1, <5>1 DEF RaiseBeforeClaim, TypeOK
      <4>2. CASE Visible(j) # "running"
        BY <1>2, <3>3, <4>2 DEF RaiseBeforeClaim
      <4> QED BY <4>1, <4>2
    <3>4. ASSUME ~ ClaimNext(v), \A j \in Job : ~ ClaimById(v, j) /\ ~ RaiseBeforeClaim(v, j)
          PROVE  pc[w] # "idle" /\ claimed'[w] = claimed[w]
      BY <1>2, <2>3, <3>4
         DEF WorkerNext, SkipMessage, BeatSelect, BeatUpdate, FinishSelect, FinishUpdate,
             Leave, Crash, Redeliver, workerVars, TypeOK
    <3> QED BY <3>1, <3>2, <3>3, <3>4
  <2>4. ASSUME NEW a \in Apis, ApiNext(a)  PROVE pc[w] # "idle" /\ claimed'[w] = claimed[w]
    BY <1>2, <2>4, ApiLeavesWorkers DEF workerVars
  <2>5. CASE Tick  BY <1>2, <2>1, <2>5 DEF Tick
  <2>6. CASE UNCHANGED vars  BY <1>2, <2>1, <2>6 DEF vars, workerVars
  <2> QED BY <2>1, <2>2, <2>3, <2>4, <2>5, <2>6 DEF Next
<1> QED BY <1>1, <1>2 DEF NoGhosts

\* The invariant the refinement rests on.
THEOREM RefinementInvariance == Spec => []RInv
<1>1. Init => NoGhosts  BY DEF Init, NoGhosts, IdleRequest, RequestFor
<1>2. IInv /\ NoGhosts /\ [Next]_vars => NoGhosts'  BY NextNoGhosts DEF IInv
<1> QED BY <1>1, <1>2, Invariance, PTL DEF Spec, RInv

-----------------------------------------------------------------------------
(* The simulation: which lease step each queue step is.                    *)

Simulated == Lease!Next \/ UNCHANGED <<Phase, Holder>>

\* A worker is a holder of job j exactly when it is fresh and inside the task.
LEMMA HolderOf ==
  ASSUME TypeOK, NEW w \in Workers
  PROVE  /\ Holder[w] \in Job \cup {NoJob}
         /\ \A j \in Job : Holder[w] = j <=> Holding(w) /\ Fresh(w) /\ claimed[w] = j
BY DEF Holder, TypeOK, Job, NoJob

\* What _requeue_expired_running_jobs takes back, the lease may take back.
LEMMA ExpiredIsAbandoned ==
  ASSUME RInv, NEW j \in Job, Expired(j)
  PROVE  j \in Lease!Abandoned
<1>1. Phase[j] = "leased"  BY DEF Expired, Phase
<1>2. \A w \in Workers : Holder[w] # j
  BY HolderOf, ExpiredHasNoFreshWorker DEF RInv, IInv
<1> QED BY <1>1, <1>2 DEF Lease!Abandoned, Lease!Held

\* Steps that leave rows' phases alone and only end holdings.
LEMMA ReleaseStep ==
  ASSUME status' = status,
         \A w \in Workers : Holder'[w] = Holder[w] \/ Holder'[w] = NoJob
  PROVE  Simulated
<1> DEFINE W == {w \in Workers : Holder'[w] # Holder[w]}
<1>1. Phase' = Phase  BY DEF Phase
<1>2. Holder' = [w \in Workers |-> IF w \in W THEN NoJob ELSE Holder[w]]  BY DEF Holder
<1>3. Lease!Release(W)  BY <1>1, <1>2 DEF Lease!Release
<1>4. W \in SUBSET Workers  OBVIOUS
<1> QED BY <1>3, <1>4 DEF Simulated, Lease!Next

\* A step that settles job j and ends at most some holdings.
LEMMA SettleStep ==
  ASSUME NEW j \in Job, status \in [Job -> Status], status[j] # "absent",
         NEW s \in Terminal, status' = [status EXCEPT ![j] = s],
         \A w \in Workers : Holder'[w] = Holder[w] \/ Holder'[w] = NoJob
  PROVE  Simulated
<1> DEFINE W == {w \in Workers : Holder'[w] # Holder[w]}
<1>1. Phase' = [Phase EXCEPT ![j] = "settled"]  BY DEF Phase, Terminal
<1>2. Holder' = [w \in Workers |-> IF w \in W THEN NoJob ELSE Holder[w]]  BY DEF Holder
<1>3. Phase[j] # "absent"  BY DEF Phase
<1>4. Lease!Settle(j, W)  BY <1>1, <1>2, <1>3 DEF Lease!Settle
<1>5. W \in SUBSET Workers  OBVIOUS
<1> QED BY <1>4, <1>5 DEF Simulated, Lease!Next

\* A requeue of the expired rows.
LEMMA ReclaimStep ==
  ASSUME RInv, status' = Requeued(status, "queued"), Holder' = Holder
  PROVE  Simulated
<1> DEFINE R == {j \in Job : Expired(j)}
<1>1. R \in SUBSET Lease!Abandoned  BY ExpiredIsAbandoned
<1>2. Phase' = [j \in Job |-> IF j \in R THEN "waiting" ELSE Phase[j]]
  BY DEF Phase, Requeued
<1>3. Lease!Reclaim(R)  BY <1>2 DEF Lease!Reclaim
<1> QED BY <1>1, <1>3 DEF Simulated, Lease!Next

\* A claim of job j by an idle worker, which may requeue expired rows first.
LEMMA GrantStep ==
  ASSUME RInv, NEW v \in Workers, NEW j \in Job, pc[v] = "idle", Claimable(j),
         NEW R \in SUBSET {i \in Job : Expired(i)}, Expired(j) => j \in R,
         \A i \in Job : status'[i] = IF i = j THEN "running"
                                     ELSE IF i \in R THEN "queued" ELSE status[i],
         StartWork(v, j)
  PROVE  Simulated
<1>1. R \in SUBSET Lease!Abandoned  BY ExpiredIsAbandoned
<1>2. Holder[v] = NoJob  BY DEF Holder, Holding
<1>3. Phase[j] = "waiting" \/ j \in R  BY DEF Claimable, Phase
<1>4. Phase' = [i \in Job |-> IF i = j THEN "leased"
                              ELSE IF i \in R THEN "waiting" ELSE Phase[i]]
  BY DEF Phase
<1>5. Holder' = [Holder EXCEPT ![v] = j]
  <2>1. ASSUME NEW w \in Workers  PROVE Holder'[w] = IF w = v THEN j ELSE Holder[w]
    <3>1. CASE w = v
      <4>1. pc'[v] = "running" /\ claimed'[v] = j /\ quiet'[v] = 0
        BY DEF StartWork, RInv, IInv, TypeOK
      <4>2. 0 <= LockPeriod  BY JobQueueAssumption
      <4> QED BY <3>1, <4>1, <4>2 DEF Holder, Holding, Fresh
    <3>2. CASE w # v
      <4>1. pc'[w] = pc[w] /\ claimed'[w] = claimed[w] /\ quiet'[w] = quiet[w]
        BY <3>2 DEF StartWork, RInv, IInv, TypeOK
      <4> QED BY <3>2, <4>1 DEF Holder, Holding, Fresh
    <3> QED BY <3>1, <3>2
  <2> QED BY <2>1 DEF Holder
<1>6. Lease!Grant(v, j, R)  BY <1>2, <1>3, <1>4, <1>5 DEF Lease!Grant
<1> QED BY <1>1, <1>6 DEF Simulated, Lease!Next

LEMMA ApiStepSimulated ==
  ASSUME RInv, NEW a \in Apis, ApiNext(a)
  PROVE  Simulated
<1>0. TypeOK  BY DEF RInv, IInv
<1>1. Holder' = Holder  BY ApiLeavesWorkers DEF workerVars, Holder, Holding, Fresh
<1>2. ASSUME NEW s \in Scopes, EnqueueExisting(a, s) \/ EnqueueSelect(a, s)  PROVE Simulated
  BY <1>1, <1>2, ReclaimStep DEF EnqueueExisting, EnqueueSelect, EnqueueRequeue
<1>3. CASE EnqueueInsert(a)
  <2>1. PICK j \in Job : status[j] = "absent" /\ status' = [status EXCEPT ![j] = "queued"]
    BY <1>3 DEF EnqueueInsert, IsOldest
  <2>2. Phase[j] = "absent" /\ Phase' = [Phase EXCEPT ![j] = "waiting"]
    BY <1>0, <2>1 DEF Phase, TypeOK
  <2>3. Lease!Create(j)  BY <1>1, <2>2 DEF Lease!Create
  <2> QED BY <2>3 DEF Simulated, Lease!Next
<1>4. CASE CancelUpdate(a)
  <2>1. /\ request[a].job \in Job /\ status[request[a].job] # "absent"
        /\ status' = [status EXCEPT ![request[a].job] = "cancelled"]
    BY <1>0, <1>4 DEF CancelUpdate, TypeOK, RInv, NoGhosts
  <2>2. "cancelled" \in Terminal /\ status \in [Job -> Status]  BY <1>0 DEF Terminal, TypeOK
  <2> QED BY <1>1, <2>1, <2>2, SettleStep
<1>5. CASE UNCHANGED jobRows
  BY <1>1, <1>5 DEF Simulated, Phase, jobRows
<1> QED BY <1>2, <1>3, <1>4, <1>5 DEF ApiNext, DispatchJob, DispatchFails, CancelSelect

LEMMA WorkerStepSimulated ==
  ASSUME RInv, NEW v \in Workers, WorkerNext(v)
  PROVE  Simulated
<1>0. TypeOK  BY DEF RInv, IInv
<1>1. CASE ClaimNext(v)
  <2>1. PICK j \in Job :
          /\ Claimable(j) /\ StartWork(v, j)
          /\ status' = [Requeued(status, "queued") EXCEPT ![j] = "running"]
    BY <1>1 DEF ClaimNext, IsOldest
  <2>2. pc[v] = "idle"  BY <1>1 DEF ClaimNext
  <2> DEFINE R == {i \in Job : Expired(i)}
  <2>3. \A i \in Job : status'[i] = IF i = j THEN "running"
                                    ELSE IF i \in R THEN "queued" ELSE status[i]
    BY <2>1 DEF Requeued
  <2> HIDE DEF R
  <2>4. R \in SUBSET {i \in Job : Expired(i)} /\ (Expired(j) => j \in R)  BY DEF R
  <2> QED BY <2>1, <2>2, <2>3, <2>4, GrantStep
<1>2. ASSUME NEW j \in Job, ClaimById(v, j)  PROVE Simulated
  <2> DEFINE R == {i \in Job : i = j /\ Expired(i)}
  <2>1. pc[v] = "idle" /\ Claimable(j) /\ StartWork(v, j)  BY <1>2 DEF ClaimById
  <2>2. \A i \in Job : status'[i] = IF i = j THEN "running"
                                    ELSE IF i \in R THEN "queued" ELSE status[i]
    BY <1>0, <1>2 DEF ClaimById, TypeOK
  <2>3. R \in SUBSET {i \in Job : Expired(i)} /\ (Expired(j) => j \in R)  OBVIOUS
  <2> QED BY <2>1, <2>2, <2>3, GrantStep
<1>3. CASE FinishUpdate(v)
  <2>1. claimed[v] \in Job /\ status[claimed[v]] # "absent"
    BY <1>0, <1>3 DEF FinishUpdate, TypeOK, RInv, NoGhosts
  <2>2. PICK s \in Terminal : status' = [status EXCEPT ![claimed[v]] = s]
    BY <1>3 DEF FinishUpdate, Terminal
  <2>3. \A w \in Workers : Holder'[w] = Holder[w] \/ Holder'[w] = NoJob
    BY <1>0, <1>3 DEF FinishUpdate, Holder, Holding, Fresh, TypeOK
  <2>4. status \in [Job -> Status]  BY <1>0 DEF TypeOK
  <2> QED BY <2>1, <2>2, <2>3, <2>4, SettleStep
<1>4. ASSUME ~ ClaimNext(v), \A j \in Job : ~ ClaimById(v, j), ~ FinishUpdate(v)
      PROVE  /\ status' = status
             /\ \A w \in Workers : Holder'[w] = Holder[w] \/ Holder'[w] = NoJob
  <2>1. status' = status
    BY <1>4 DEF WorkerNext, SkipMessage, RaiseBeforeClaim, BeatSelect, BeatUpdate, HeartbeatRow,
                FinishSelect, Leave, Crash, Redeliver, jobRows
  <2>2. ASSUME NEW j \in Job, RaiseBeforeClaim(v, j), NEW w \in Workers
        PROVE  Holder'[w] = Holder[w]
    BY <1>0, <2>2 DEF RaiseBeforeClaim, Holder, Holding, Fresh, TypeOK
  <2>3. ASSUME NEW j \in Job, BeatUpdate(v, j), NEW w \in Workers
        PROVE  Holder'[w] = Holder[w]
    <3>1. Holding(w)' = Holding(w) /\ claimed' = claimed  BY <2>3 DEF BeatUpdate, Holding
    <3>2. Fresh(w)' = Fresh(w)
      BY <1>0, <2>3, JobQueueAssumption DEF BeatUpdate, Fresh, TypeOK
    <3> QED BY <3>1, <3>2 DEF Holder
  <2>4. ASSUME FinishSelect(v) \/ Leave(v) \/ Crash(v), NEW w \in Workers
        PROVE  Holder'[w] = Holder[w] \/ Holder'[w] = NoJob
    BY <1>0, <2>4 DEF FinishSelect, Leave, Crash, Holder, Holding, Fresh, TypeOK
  <2>5. ASSUME UNCHANGED <<pc, claimed, quiet>>, NEW w \in Workers
        PROVE  Holder'[w] = Holder[w]
    BY <2>5 DEF Holder, Holding, Fresh
  <2> QED BY <1>4, <2>1, <2>2, <2>3, <2>4, <2>5
          DEF WorkerNext, SkipMessage, BeatSelect, Redeliver, workerVars
<1> QED BY <1>1, <1>2, <1>3, <1>4, ReleaseStep

\* A tick may end the freshness of silent workers: a release.
LEMMA TickSimulated ==
  ASSUME RInv, Tick
  PROVE  Simulated
<1>0. TypeOK  BY DEF RInv, IInv
<1>1. ASSUME NEW w \in Workers  PROVE Holder'[w] = Holder[w] \/ Holder'[w] = NoJob
  <2>1. Holding(w)' = Holding(w) /\ claimed' = claimed  BY DEF Tick, Holding
  <2>2. Fresh(w)' => Fresh(w)
    BY <1>0, JobQueueAssumption DEF Tick, Fresh, Older, TypeOK
  <2> QED BY <2>1, <2>2 DEF Holder
<1>2. status' = status  BY DEF Tick
<1> QED BY <1>1, <1>2, ReleaseStep

\* The queue implements the lease: claim, requeue, result, cancel and crash are
\* grant, reclaim, settle and release; everything else is invisible.
THEOREM Refinement == Spec => ImplementsLease
<1>1. Init => Lease!Init
  BY DEF Init, Lease!Init, Phase, Holder, Holding
<1>2. RInv /\ [Next]_vars => [Lease!Next]_(Lease!leaseVars)
  <2> SUFFICES ASSUME RInv, [Next]_vars PROVE [Lease!Next]_(Lease!leaseVars)  OBVIOUS
  <2>1. CASE UNCHANGED vars
    BY <2>1 DEF vars, jobRows, workerVars, Lease!leaseVars, Phase, Holder, Holding, Fresh
  <2>2. CASE Next
    <3>1. Simulated
      BY <2>2, ApiStepSimulated, WorkerStepSimulated, TickSimulated DEF Next
    <3> QED BY <3>1 DEF Simulated, Lease!leaseVars
  <2> QED BY <2>1, <2>2
<1> QED BY <1>1, <1>2, RefinementInvariance, PTL DEF Spec, ImplementsLease, Lease!Spec

=============================================================================
