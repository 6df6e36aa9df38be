------------------------------ MODULE JobQueue ------------------------------
(***************************************************************************)
(* The durable job queue: the "jobs" table, the API threads that enqueue,  *)
(* dispatch and cancel jobs, the Celery (or polling) workers that claim,   *)
(* heartbeat and finish them, and the broker between them.                 *)
(*                                                                         *)
(* Postgres runs the repository's transactions at READ COMMITTED and only  *)
(* the claims lock the row they read.  A claim is therefore one step; the  *)
(* operations that SELECT a row, test it in Python and UPDATE it by job_id *)
(* alone (heartbeat_job, complete_job, fail_job, cancel_job, and the       *)
(* SELECT-then-INSERT of enqueue_job) are two steps each, and any other    *)
(* transaction may commit between the two.                                 *)
(*                                                                         *)
(* Time is counted in ticks.  lock_expires_at and heartbeat_at are always  *)
(* written together (lock = heartbeat + 900 s), so one age per job, beat,  *)
(* stands for both.  A database transaction is shorter than a tick.        *)
(***************************************************************************)
EXTENDS Naturals, FiniteSets

CONSTANTS
  MaxJobs,      \* bound: number of rows ever inserted; rows are 1..MaxJobs
  Scopes,       \* scope keys jobs are enqueued under
  Workers,      \* worker slots (a Celery child process or a polling worker)
  Apis,         \* API threads serving enqueue and cancel requests
  NoWorker,     \* NULL in locked_by
  NoScope,      \* the scope of a row that was not inserted yet
  Backend,      \* MOTIS_JOB_BACKEND: "celery" or "database"
  LockPeriod,   \* ticks a claim stays valid without a heartbeat (900 s)
  StalePeriod,  \* ticks without a heartbeat before a cancel is allowed (60 s)
  MaxFaults,    \* bound: crashes, lapsed heartbeats, task errors, lost dispatches
  MaxMessages   \* bound: broker messages queued per job by the dispatcher

ASSUME JobQueueAssumption ==
  /\ MaxJobs \in Nat /\ MaxFaults \in Nat /\ MaxMessages \in Nat
  /\ LockPeriod \in Nat /\ StalePeriod \in Nat /\ StalePeriod <= LockPeriod
  /\ Backend \in {"celery", "database"}
  /\ NoWorker \notin Workers /\ NoScope \notin Scopes
  /\ IsFiniteSet(Workers) /\ IsFiniteSet(Apis)

VARIABLES
  status,    \* jobs.status per row; "absent" before the INSERT
  scope,     \* jobs.scope_key
  lockedBy,  \* jobs.locked_by
  locked,    \* jobs.lock_expires_at IS NOT NULL
  beat,      \* age of heartbeat_at while the row is running
  messages,  \* broker: run_job messages waiting for a worker, per job
  request,   \* what each API thread is in the middle of
  pc,        \* what each worker is in the middle of
  claimed,   \* the job a worker's current task is about
  beating,   \* jobs for which a heartbeat thread is between SELECT and UPDATE
  quiet,     \* ticks since the worker's claim or last effective heartbeat
  faults     \* faults that may still happen

jobRows == <<status, scope, lockedBy, locked, beat>>
workerVars == <<pc, claimed, beating, quiet>>
vars == <<jobRows, messages, request, workerVars, faults>>

Job == 1 .. MaxJobs
NoJob == 0
Active == {"queued", "running"}
Terminal == {"completed", "failed", "cancelled"}
Status == {"absent"} \cup Active \cup Terminal
WorkerStep == {"idle", "running", "completing", "failing", "raising", "leaving"}
ApiStep == {"idle", "insert", "dispatch", "cancel"}
Request == [step : ApiStep, job : Job \cup {NoJob},
            scope : Scopes \cup {NoScope}, held : SUBSET Job]
RequestFor(step, j) == [step |-> step, job |-> j, scope |-> NoScope, held |-> {}]
IdleRequest == RequestFor("idle", NoJob)

TypeOK ==
  /\ status \in [Job -> Status]
  /\ scope \in [Job -> Scopes \cup {NoScope}]
  /\ lockedBy \in [Job -> Workers \cup {NoWorker}]
  /\ locked \in [Job -> BOOLEAN]
  /\ beat \in [Job -> 0 .. LockPeriod + 1]
  /\ messages \in [Job -> Nat]
  /\ request \in [Apis -> Request]
  /\ pc \in [Workers -> WorkerStep]
  /\ claimed \in [Workers -> Job \cup {NoJob}]
  /\ beating \in [Workers -> SUBSET Job]
  /\ quiet \in [Workers -> 0 .. LockPeriod + 1]
  /\ faults \in Nat
  /\ \A w \in Workers : pc[w] # "idle" => claimed[w] \in Job
  /\ \A a \in Apis : request[a].step \in {"dispatch", "cancel"} => request[a].job \in Job

Init ==
  /\ status = [j \in Job |-> "absent"]
  /\ scope = [j \in Job |-> NoScope]
  /\ lockedBy = [j \in Job |-> NoWorker]
  /\ locked = [j \in Job |-> FALSE]
  /\ beat = [j \in Job |-> 0]
  /\ messages = [j \in Job |-> 0]
  /\ request = [a \in Apis |-> IdleRequest]
  /\ pc = [w \in Workers |-> "idle"]
  /\ claimed = [w \in Workers |-> NoJob]
  /\ beating = [w \in Workers |-> {}]
  /\ quiet = [w \in Workers |-> 0]
  /\ faults = MaxFaults

-----------------------------------------------------------------------------
(* What the SQL predicates see.                                            *)

\* Rows requeued by an enqueue transaction that has not committed yet: they
\* are row-locked, and readers still see their committed status.
Held == {j \in Job : \E a \in Apis : j \in request[a].held}
Visible(j) == IF j \in Held THEN "running" ELSE status[j]

\* Mutants of the next definitions: a requeue that uses the cancel threshold,
\* one that never fires, and one that forgets to write.
ExpiredEarly(j) == status[j] = "running" /\ locked[j] /\ beat[j] > StalePeriod
ExpiredNever(j) == FALSE
RequeueDropped(column, v) == column

\* status = 'running' AND lock_expires_at IS NOT NULL AND lock_expires_at < now
Expired(j) == status[j] = "running" /\ locked[j] /\ beat[j] > LockPeriod

\* The column after _requeue_expired_running_jobs wrote v into expired rows.
Requeued(column, v) == [j \in Job |-> IF Expired(j) THEN v ELSE column[j]]

Claimable(j) == status[j] = "queued" \/ Expired(j)

\* cancel_job: a queued row, or a running one whose heartbeat is stale.
Cancellable(j) == \/ Visible(j) = "queued"
                  \/ Visible(j) = "running" /\ beat[j] > StalePeriod

\* ORDER BY created_at LIMIT 1 (no caller passes a priority): rows are
\* numbered in creation order.
IsOldest(j, S) == j \in S /\ \A i \in S : j <= i

\* Mutant: a running job does not make its scope busy.
ActiveQueuedOnly == {"queued"}

\* The rows enqueue_job regards as making a scope busy.
ActiveStatuses == Active

-----------------------------------------------------------------------------
(* The API: enqueue_job + dispatch_runtime_job, and cancel_job.            *)

Serve(a, r) == request' = [request EXCEPT ![a] = r]

\* dispatch_runtime_job sends a message only for the Celery backend, and only
\* when the row it was handed is queued.
AfterEnqueue(j, seen) ==
  IF Backend = "celery" /\ seen = "queued"
    THEN RequestFor("dispatch", j)
    ELSE IdleRequest

\* Bound: every open enqueue can still take a fresh row.
RoomForJob ==
  Cardinality({a \in Apis : request[a].step = "insert"})
    < Cardinality({j \in Job : status[j] = "absent"})

EnqueueRequeue ==
  /\ Held = {}   \* the UPDATE waits for rows another enqueue has requeued
  /\ status' = Requeued(status, "queued")
  /\ lockedBy' = Requeued(lockedBy, NoWorker)
  /\ locked' = Requeued(locked, FALSE)
  /\ UNCHANGED <<scope, beat>>

BusyRows(s) == {j \in Job : scope[j] = s /\ Requeued(status, "queued")[j] \in ActiveStatuses}

\* enqueue_job finds an active row of the scope and returns it.
EnqueueExisting(a, s) ==
  /\ request[a].step = "idle"
  /\ EnqueueRequeue
  /\ \E j \in Job : IsOldest(j, BusyRows(s)) /\ Serve(a, AfterEnqueue(j, status'[j]))
  /\ UNCHANGED <<messages, workerVars, faults>>

\* enqueue_job finds none: it goes on to its INSERT, keeping row locks.
EnqueueSelect(a, s) ==
  /\ request[a].step = "idle"
  /\ RoomForJob
  /\ BusyRows(s) = {}
  /\ EnqueueRequeue
  /\ Serve(a, [step |-> "insert", job |-> NoJob, scope |-> s,
               held |-> {j \in Job : Expired(j)}])
  /\ UNCHANGED <<messages, workerVars, faults>>

EnqueueInsert(a) ==
  /\ request[a].step = "insert"
  /\ \E j \in Job :
       /\ IsOldest(j, {i \in Job : status[i] = "absent"})
       /\ status' = [status EXCEPT ![j] = "queued"]
       /\ scope' = [scope EXCEPT ![j] = request[a].scope]
       /\ Serve(a, AfterEnqueue(j, "queued"))
  /\ UNCHANGED <<lockedBy, locked, beat, messages, workerVars, faults>>

DispatchJob(a) ==
  LET j == request[a].job IN
  /\ request[a].step = "dispatch"
  /\ messages[j] < MaxMessages
  /\ messages' = [messages EXCEPT ![j] = @ + 1]
  /\ Serve(a, IdleRequest)
  /\ UNCHANGED <<jobRows, workerVars, faults>>

\* apply_async raises (503), or the API dies first: the row stays queued.
DispatchFails(a) ==
  /\ request[a].step = "dispatch"
  /\ faults > 0 /\ faults' = faults - 1
  /\ Serve(a, IdleRequest)
  /\ UNCHANGED <<jobRows, messages, workerVars>>

CancelSelect(a, j) ==
  /\ request[a].step = "idle"
  /\ Cancellable(j)
  /\ Serve(a, RequestFor("cancel", j))
  /\ UNCHANGED <<jobRows, messages, workerVars, faults>>

\* UPDATE ... WHERE job_id = j: the status is not tested again.
CancelUpdate(a) ==
  LET j == request[a].job IN
  /\ request[a].step = "cancel"
  /\ j \notin Held
  /\ status' = [status EXCEPT ![j] = "cancelled"]
  /\ locked' = [locked EXCEPT ![j] = FALSE]
  /\ Serve(a, IdleRequest)
  /\ UNCHANGED <<scope, lockedBy, beat, messages, workerVars, faults>>

-----------------------------------------------------------------------------
(* Claims: claim_next_job (polling worker) and claim_job (Celery task).    *)

\* Mutant: the task loses the job it has claimed.
StartWorkBlind(w, j) ==
  /\ pc' = [pc EXCEPT ![w] = "running"]
  /\ quiet' = [quiet EXCEPT ![w] = 0]
  /\ UNCHANGED <<claimed, beating>>

StartWork(w, j) ==
  /\ pc' = [pc EXCEPT ![w] = "running"]
  /\ claimed' = [claimed EXCEPT ![w] = j]
  /\ quiet' = [quiet EXCEPT ![w] = 0]
  /\ UNCHANGED beating

ClaimNext(w) ==
  /\ Backend = "database"
  /\ pc[w] = "idle"
  /\ Held = {}
  /\ \E j \in Job :
       /\ IsOldest(j, {i \in Job : Claimable(i)})
       /\ status' = [Requeued(status, "queued") EXCEPT ![j] = "running"]
       /\ lockedBy' = [Requeued(lockedBy, NoWorker) EXCEPT ![j] = w]
       /\ locked' = [Requeued(locked, FALSE) EXCEPT ![j] = TRUE]
       /\ beat' = [beat EXCEPT ![j] = 0]
       /\ StartWork(w, j)
  /\ UNCHANGED <<scope, messages, request, faults>>

\* The broker hands the message to the worker; it is acknowledged late, so
\* the worker carries it until Leave.
ClaimById(w, j) ==
  /\ pc[w] = "idle"
  /\ messages[j] > 0
  /\ j \notin Held /\ Claimable(j)
  /\ messages' = [messages EXCEPT ![j] = @ - 1]
  /\ status' = [status EXCEPT ![j] = "running"]
  /\ lockedBy' = [lockedBy EXCEPT ![j] = w]
  /\ locked' = [locked EXCEPT ![j] = TRUE]
  /\ beat' = [beat EXCEPT ![j] = 0]
  /\ StartWork(w, j)
  /\ UNCHANGED <<scope, request, faults>>

\* claim_job returns None (also when SKIP LOCKED hides a held row): the task
\* ends as "skipped" and its message is gone.
SkipMessage(w, j) ==
  /\ pc[w] = "idle"
  /\ messages[j] > 0
  /\ j \in Held \/ ~ Claimable(j)
  /\ messages' = [messages EXCEPT ![j] = @ - 1]
  /\ UNCHANGED <<jobRows, request, workerVars, faults>>

\* The task raises before it has claimed: task_failure calls fail_job on the
\* job named in the message, whoever is running it.
RaiseBeforeClaim(w, j) ==
  /\ pc[w] = "idle"
  /\ messages[j] > 0
  /\ faults > 0 /\ faults' = faults - 1
  /\ messages' = [messages EXCEPT ![j] = @ - 1]
  /\ IF Visible(j) = "running"
       THEN /\ pc' = [pc EXCEPT ![w] = "raising"]
            /\ claimed' = [claimed EXCEPT ![w] = j]
       ELSE UNCHANGED <<pc, claimed>>
  /\ UNCHANGED <<jobRows, request, beating, quiet>>

-----------------------------------------------------------------------------
(* A running task: the heartbeat thread and the end of run_claimed_job.    *)

Fresh(w) == quiet[w] <= LockPeriod

BeatSelect(w) ==
  /\ pc[w] = "running" /\ claimed[w] \notin beating[w]
  /\ Visible(claimed[w]) = "running"
  /\ beating' = [beating EXCEPT ![w] = @ \cup {claimed[w]}]
  /\ UNCHANGED <<jobRows, messages, request, pc, claimed, quiet, faults>>

\* Mutant: the heartbeat also writes status = 'running'.
HeartbeatRowRunning(j) ==
  /\ status' = [status EXCEPT ![j] = "running"]
  /\ locked' = [locked EXCEPT ![j] = TRUE]
  /\ beat' = [beat EXCEPT ![j] = 0]

HeartbeatRow(j) ==
  /\ locked' = [locked EXCEPT ![j] = TRUE]
  /\ beat' = [beat EXCEPT ![j] = 0]
  /\ UNCHANGED status

\* UPDATE ... WHERE job_id = j, whoever holds the lock by now.
BeatUpdate(w, j) ==
  /\ j \in beating[w]
  /\ j \notin Held
  /\ HeartbeatRow(j)
  /\ beating' = [beating EXCEPT ![w] = @ \ {j}]
  /\ quiet' = [quiet EXCEPT ![w] = IF claimed[w] = j /\ Fresh(w) THEN 0 ELSE @]
  /\ UNCHANGED <<scope, lockedBy, messages, request, pc, claimed, faults>>

\* execute_job returned (complete_job) or raised (fail_job); if the row is no
\* longer running the result is dropped.
FinishSelect(w) ==
  /\ pc[w] = "running"
  /\ \E step \in {"completing", "failing"} :
       pc' = [pc EXCEPT ![w] = IF Visible(claimed[w]) = "running" THEN step ELSE "leaving"]
  /\ UNCHANGED <<jobRows, messages, request, claimed, beating, quiet, faults>>

FinishUpdate(w) ==
  LET j == claimed[w] IN
  /\ pc[w] \in {"completing", "failing", "raising"}
  /\ j \notin Held
  /\ status' = [status EXCEPT ![j] = IF pc[w] = "completing" THEN "completed" ELSE "failed"]
  /\ locked' = [locked EXCEPT ![j] = FALSE]
  /\ beat' = [beat EXCEPT ![j] = 0]
  /\ pc' = [pc EXCEPT ![w] = "leaving"]
  /\ UNCHANGED <<scope, lockedBy, messages, request, claimed, beating, quiet, faults>>

\* The heartbeat thread is joined and the message acknowledged.  The join waits
\* two seconds: a slower heartbeat (a fault) outlives its task and still writes.
Leave(w) ==
  /\ pc[w] = "leaving"
  /\ \/ beating[w] = {} /\ UNCHANGED faults
     \/ beating[w] # {} /\ faults > 0 /\ faults' = faults - 1
  /\ pc' = [pc EXCEPT ![w] = "idle"]
  /\ claimed' = [claimed EXCEPT ![w] = NoJob]
  /\ quiet' = [quiet EXCEPT ![w] = 0]
  /\ UNCHANGED <<jobRows, messages, request, beating>>

-----------------------------------------------------------------------------
(* The environment: worker loss and time.                                  *)

\* The process dies: open transactions roll back, and the broker gets its
\* unacknowledged message back (task_acks_late, task_reject_on_worker_lost).
Crash(w) ==
  /\ pc[w] # "idle"
  /\ faults > 0 /\ faults' = faults - 1
  /\ messages' = IF Backend = "celery"
                   THEN [messages EXCEPT ![claimed[w]] = @ + 1]
                   ELSE messages
  /\ pc' = [pc EXCEPT ![w] = "idle"]
  /\ claimed' = [claimed EXCEPT ![w] = NoJob]
  /\ beating' = [beating EXCEPT ![w] = {}]
  /\ quiet' = [quiet EXCEPT ![w] = 0]
  /\ UNCHANGED <<jobRows, request>>

\* The broker's visibility timeout passes while a long task is unacknowledged:
\* its message is delivered a second time.
Redeliver(w) ==
  /\ Backend = "celery"
  /\ pc[w] = "running"
  /\ faults > 0 /\ faults' = faults - 1
  /\ messages' = [messages EXCEPT ![claimed[w]] = @ + 1]
  /\ UNCHANGED <<jobRows, request, workerVars>>

Older(age) == IF age <= LockPeriod THEN age + 1 ELSE age

Working(w) == pc[w] = "running" /\ status[claimed[w]] = "running"

\* A worker that has not heartbeaten for a whole LockPeriod lapses: a fault.
Lapsing == {w \in Workers : Working(w) /\ quiet[w] = LockPeriod}

NoOpenTransaction ==
  /\ \A w \in Workers : beating[w] = {} /\ pc[w] \notin {"completing", "failing", "raising"}
  /\ \A a \in Apis : request[a].step \notin {"insert", "cancel"}

Tick ==
  /\ NoOpenTransaction
  /\ Cardinality(Lapsing) <= faults
  /\ faults' = faults - Cardinality(Lapsing)
  /\ beat' = [j \in Job |-> IF status[j] = "running" THEN Older(beat[j]) ELSE beat[j]]
  /\ quiet' = [w \in Workers |-> IF Working(w) THEN Older(quiet[w]) ELSE quiet[w]]
  /\ UNCHANGED <<status, scope, lockedBy, locked, messages, request, pc, claimed, beating>>

-----------------------------------------------------------------------------
ApiNext(a) ==
  \/ \E s \in Scopes : EnqueueExisting(a, s) \/ EnqueueSelect(a, s)
  \/ EnqueueInsert(a) \/ DispatchJob(a) \/ DispatchFails(a)
  \/ \E j \in Job : CancelSelect(a, j)
  \/ CancelUpdate(a)

WorkerNext(w) ==
  \/ ClaimNext(w)
  \/ \E j \in Job : ClaimById(w, j) \/ SkipMessage(w, j) \/ RaiseBeforeClaim(w, j)
  \/ BeatSelect(w) \/ \E j \in Job : BeatUpdate(w, j)
  \/ FinishSelect(w) \/ FinishUpdate(w) \/ Leave(w)
  \/ Crash(w) \/ Redeliver(w)

Next ==
  \/ \E a \in Apis : ApiNext(a)
  \/ \E w \in Workers : WorkerNext(w)
  \/ Tick

Spec == Init /\ [][Next]_vars

-----------------------------------------------------------------------------
(* Fairness: transactions end, handlers return, heartbeat threads run,     *)
(* time passes, polling workers poll and the broker delivers.  Crashes,    *)
(* enqueues and cancels are never forced.                                  *)
Fairness ==
  /\ \A a \in Apis : WF_vars(EnqueueInsert(a)) /\ WF_vars(DispatchJob(a)) /\ WF_vars(CancelUpdate(a))
  /\ \A w \in Workers :
       /\ WF_vars(ClaimNext(w))
       /\ WF_vars(\E j \in Job : ClaimById(w, j) \/ SkipMessage(w, j))
       /\ WF_vars(BeatSelect(w)) /\ WF_vars(\E j \in Job : BeatUpdate(w, j))
       /\ WF_vars(FinishSelect(w)) /\ WF_vars(FinishUpdate(w)) /\ WF_vars(Leave(w))
  /\ WF_vars(Tick)

FairSpec == Spec /\ Fairness

\* A client that asks for every scope again and again.
RetryingSpec ==
  FairSpec /\ \A s \in Scopes : SF_vars(\E a \in Apis : EnqueueExisting(a, s) \/ EnqueueSelect(a, s))

-----------------------------------------------------------------------------
(* Properties.                                                             *)

\* A worker inside run_claimed_job: executing, or writing the result.
Holding(w) == pc[w] \in {"running", "completing", "failing"}

\* A worker that never let a whole lock period pass without a heartbeat keeps
\* its claim until the row is settled: locked_by still names it and the row is
\* not back in the queue (claim_job, claim_next_job, heartbeat_job and
\* _requeue_expired_running_jobs together).
FreshWorkerOwnsClaim ==
  \A w \in Workers : Holding(w) /\ Fresh(w) =>
    lockedBy[claimed[w]] = w /\ status[claimed[w]] # "queued"

\* Two workers execute the same job at once only if the heartbeat of one of
\* them lapsed: duplicate messages, redeliveries and retries of enqueue never
\* start a second execution of a job whose worker is alive.
ExclusiveExecution ==
  \A v, w \in Workers :
    /\ Holding(v) /\ Holding(w) /\ claimed[v] = claimed[w]
    /\ Fresh(v) /\ Fresh(w)
    => v = w

\* Every running row carries a lock expiry and an owner, whatever stale
\* heartbeats and results arrive: no running row is beyond the reach of
\* _requeue_expired_running_jobs.
RunningIsReclaimable ==
  \A j \in Job : status[j] = "running" => locked[j] /\ lockedBy[j] \in Workers

\* enqueue_job's deduplication: a scope has at most one queued or running job.
OneActivePerScope ==
  \A i, j \in Job :
    /\ status[i] \in Active /\ status[j] \in Active
    /\ scope[i] = scope[j]
    => i = j

\* No late heartbeat, requeue, claim or redelivered message brings a settled
\* job back to the queue or to a worker.
NoResurrection ==
  [][\A j \in Job : status[j] \in Terminal => status'[j] \in Terminal]_vars

\* Every inserted job is eventually completed, failed or cancelled.
EveryJobSettles ==
  \A j \in Job : status[j] = "queued" ~> status[j] \in Terminal

-----------------------------------------------------------------------------
(* The promise of JobLease, read off the rows and the live workers.        *)
Phase == [j \in Job |->
  CASE status[j] = "absent" -> "absent"
    [] status[j] = "queued" -> "waiting"
    [] status[j] = "running" -> "leased"
    [] OTHER -> "settled"]

Holder == [w \in Workers |-> IF Holding(w) /\ Fresh(w) THEN claimed[w] ELSE NoJob]

Lease == INSTANCE JobLease WITH phase <- Phase, holder <- Holder

\* The queue implements JobLease: a job is taken from a worker only when that
\* worker is dead or silent, and a settled job stays settled.
ImplementsLease == Lease!Spec

=============================================================================
