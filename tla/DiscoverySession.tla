--------------------------- MODULE DiscoverySession ---------------------------
(***************************************************************************)
(* One signal discovery session: its row in signal_discovery_sessions, its *)
(* artifact directory, the requests that move it and the job that works on *)
(* it.                                                                     *)
(*                                                                         *)
(* update_signal_discovery_session selects the row, tests the transition   *)
(* and updates by primary key; the database runs at READ COMMITTED, so     *)
(* every update is two steps here, and the second writes whatever the      *)
(* first saw.  The job queue (JobQueue) gives a session at most one active *)
(* job; its worker can die at any step and the job then runs again.  Files *)
(* are replaced atomically, one at a time.                                 *)
(***************************************************************************)
EXTENDS Naturals

CONSTANTS
  Request,     \* request threads of the API
  Policy,      \* target coordinates with a bracket policy
  Candidate,   \* engines that can be attached
  Risk,        \* config.risk_values
  Evidence,    \* contents the authorised market data can have
  None,
  MaxSessions, \* bound: sessions created under this id
  MaxRevision, \* bound: revisions of the bracket policy
  MaxFaults    \* bound: crashes, raised errors and changes of the data

JobType == {"atlas", "walk_forward", "evaluation", "handoff"}

ASSUME DiscoveryAssumption ==
  /\ None \notin Policy \cup Candidate \cup Evidence \cup Risk
  /\ None \notin JobType
  /\ Risk # {}
  /\ {MaxSessions, MaxRevision, MaxFaults} \subseteq Nat

VARIABLES
  row,       \* the session's row
  disk,      \* its artifact directory
  data,      \* contents of the market data up to research_end
  job,       \* type of the active job of scope signal_discovery:<id>
  worker,    \* the worker that executes it
  request,   \* the request threads
  created,   \* history: sessions created so far
  wiped,     \* history: the directory was removed under a thread or a row
  passed,    \* history: what an evaluation accepted
  abandoned, \* history: nobody is left to end a running status
  faults     \* faults that may still happen

vars == <<row, disk, data, job, worker, request, created, wiped, passed, abandoned, faults>>

Running == [atlas |-> "atlas_running", walk_forward |-> "walk_forward_running",
            evaluation |-> "evaluation_running", handoff |-> "handoff_running"]
Done == [atlas |-> "atlas_ready", walk_forward |-> "walk_forward_ready",
         evaluation |-> "evaluated", handoff |-> "handed_off"]
RunningStatus == {Running[t] : t \in JobType}

\* _SIGNAL_DISCOVERY_TRANSITIONS.
Transitions ==
  [draft |-> {"atlas_running", "atlas_ready", "failed"},
   atlas_running |-> {"atlas_ready", "failed"},
   atlas_ready |-> {"atlas_running", "target_frozen", "failed"},
   target_frozen |-> {"walk_forward_running", "candidate_attached", "failed"},
   walk_forward_running |-> {"walk_forward_ready", "failed"},
   walk_forward_ready |-> {"candidate_attached", "evaluation_running", "failed"},
   candidate_attached |-> {"evaluation_running", "failed"},
   evaluation_running |-> {"evaluated", "failed"},
   evaluated |-> {"candidate_attached", "accepted", "failed"},
   accepted |-> {"handoff_running", "failed"},
   handoff_running |-> {"handed_off", "failed"},
   handed_off |-> {},
   failed |-> {"atlas_running", "walk_forward_running", "evaluation_running",
               "handoff_running"}]
Status == DOMAIN Transitions

Contract == [revision : 1..MaxRevision, policy : Policy, rows : Policy]
Target == [contract : Contract, evidence : Evidence]
Verdict == [candidate : Candidate, target : Target, accepted : BOOLEAN]

Row == [status : Status \cup {"absent"}, evidence : Evidence \cup {None},
        approval : Contract \cup {None}, target : Target \cup {None},
        candidate : Candidate \cup {None}, evaluation : Verdict \cup {None},
        handoff : Verdict \cup {None}]
NoRow == [status |-> "absent", evidence |-> None, approval |-> None, target |-> None,
          candidate |-> None, evaluation |-> None, handoff |-> None]

\* manifest: evidence_manifest.json; fingerprint and completed: checkpoint.json;
\* parts: atlas/.work; labels and feasibility: the final atlas files; rows and
\* contract: brackets/; target: frozen_target.json; replay: walk_forward/.
Disk == [manifest : Evidence \cup {None}, fingerprint : Evidence \cup {None},
         completed : SUBSET Risk, parts : SUBSET Risk,
         labels : SUBSET Risk, feasibility : SUBSET Risk,
         rows : Policy \cup {None}, contract : Contract \cup {None},
         target : Target \cup {None}, replay : Target \cup {None}]
EmptyDisk == [manifest |-> None, fingerprint |-> None, completed |-> {}, parts |-> {},
              labels |-> {}, feasibility |-> {}, rows |-> None, contract |-> None,
              target |-> None, replay |-> None]

\* session: the row as Mark left it; completed: the checkpoint in memory.
WorkerAt == {"idle", "begin", "mark", "inventory", "open", "part", "checkpoint", "feasibility",
             "replay", "score", "export", "publish", "published", "accept", "accepted",
             "fail", "failed"}
Worker == [step : WorkerAt, session : Row, evidence : Evidence \cup {None},
           completed : SUBSET Risk, risk : Risk \cup {None}, verdict : Verdict \cup {None}]
IdleWorker == [step |-> "idle", session |-> NoRow, evidence |-> None, completed |-> {},
               risk |-> None, verdict |-> None]

\* session: the row the endpoint read; step "summary" returns to a freeze when
\* the approval is the implicit one of freeze_signal_discovery_target.
RequestAt == {"idle", "enqueue", "drift", "drifted", "rows", "contract", "summary", "file",
              "create_file", "freeze", "frozen", "attach", "attached", "remove"}
RequestState ==
  [step : RequestAt, session : Row, contract : Contract \cup {None},
   freezing : BOOLEAN, candidate : Candidate \cup {None}, type : JobType \cup {None}]
IdleRequest == [step |-> "idle", session |-> NoRow, contract |-> None, freezing |-> FALSE,
                candidate |-> None, type |-> None]

TypeOK ==
  /\ row \in Row
  /\ disk \in Disk
  /\ data \in Evidence
  /\ job \in JobType \cup {None}
  /\ worker \in Worker
  /\ request \in [Request -> RequestState]
  /\ created \in Nat
  /\ wiped \in BOOLEAN
  /\ passed \subseteq Verdict
  /\ abandoned \in BOOLEAN
  /\ faults \in Nat
  /\ worker.step # "idle" => job # None
  /\ worker.step = "checkpoint" => worker.risk # None

Init ==
  /\ row = NoRow
  /\ disk = EmptyDisk
  /\ data \in Evidence
  /\ job = None
  /\ worker = IdleWorker
  /\ request = [r \in Request |-> IdleRequest]
  /\ created = 0 /\ wiped = FALSE /\ passed = {} /\ abandoned = FALSE
  /\ faults = MaxFaults

-----------------------------------------------------------------------------
\* The test of update_signal_discovery_session.
Legal(status) ==
  /\ row.status # "absent"
  /\ status = row.status \/ status \in Transitions[row.status]

\* Target, version and config are immutable once one of the three tests says frozen.
TargetFree(target) ==
  \/ row.target = target
  \/ /\ row.target = None
     /\ row.status \in {"draft", "atlas_running", "atlas_ready", "failed"}

Fault == faults > 0 /\ faults' = faults - 1

\* An UPDATE by primary key: nothing if the row is gone.
Write(values) == row' = IF row.status = "absent" THEN row ELSE values

History == <<created, wiped, passed, abandoned>>
NoWorker == UNCHANGED <<data, job, worker, passed, abandoned, faults>>

-----------------------------------------------------------------------------
(* The worker.                                                             *)

At(step) == worker.step = step
Goto(step) == worker' = [worker EXCEPT !.step = step]

\* Mutant: the job is settled and its worker goes on.
JobSettles == job' = None /\ UNCHANGED worker

JobEnds == job' = None /\ worker' = IdleWorker

Claim ==
  /\ job # None /\ At("idle")
  /\ Goto("begin")
  /\ UNCHANGED <<row, disk, data, job, request, History, faults>>

\* What each executor asks of the row before it starts.
Startable ==
  /\ Legal(Running[job])
  /\ job = "walk_forward" => row.target # None
  /\ job = "evaluation" => row.candidate # None
  /\ job = "handoff" => row.evaluation # None /\ row.evaluation.accepted

Begin ==
  /\ At("begin")
  /\ IF Startable THEN Goto("mark") /\ UNCHANGED job ELSE JobEnds
  /\ UNCHANGED <<row, disk, data, request, History, faults>>

FirstStep == [atlas |-> "inventory", walk_forward |-> "replay",
              evaluation |-> "score", handoff |-> "export"]

\* The row the UPDATE returns is what the executor works on from here.
Mark ==
  /\ At("mark")
  /\ Write([row EXCEPT !.status = Running[job]])
  /\ IF row.status = "absent" THEN JobEnds
     ELSE worker' = [worker EXCEPT !.step = FirstStep[job], !.session = row'] /\ UNCHANGED job
  /\ UNCHANGED <<disk, data, request, History, faults>>

\* build_evidence_manifest, then the candles are read.
Inventory ==
  /\ At("inventory")
  /\ disk' = [disk EXCEPT !.manifest = data]
  /\ worker' = [worker EXCEPT !.step = "open", !.evidence = data]
  /\ UNCHANGED <<row, data, job, request, History, faults>>

\* Mutant: a checkpoint of other evidence is taken over.
CheckpointKept == disk.fingerprint # None /\ disk.completed \subseteq disk.parts

CheckpointValid == disk.fingerprint = worker.evidence /\ disk.completed \subseteq disk.parts

\* TrainingAtlasWorkspace: an existing checkpoint must be of this evidence and
\* every part it names must be there.
Open ==
  /\ At("open")
  /\ \/ disk.fingerprint = None /\ worker' = [worker EXCEPT !.step = "part"]
     \/ CheckpointValid /\ worker' = [worker EXCEPT !.step = "part", !.completed = disk.completed]
     \/ disk.fingerprint # None /\ ~CheckpointValid /\ Goto("fail")
  /\ UNCHANGED <<row, disk, data, job, request, History, faults>>

\* Mutant: the checkpoint names a part before the part is written.
CheckpointFirst ==
  /\ At("part")
  /\ \E risk \in Risk \ worker.completed :
       /\ disk' = [disk EXCEPT !.fingerprint = worker.evidence,
                               !.completed = worker.completed \cup {risk}]
       /\ worker' = [worker EXCEPT !.step = "checkpoint", !.risk = risk]
  /\ UNCHANGED <<row, data, job, request, History, faults>>

\* write_risk_partition: the three parts of one risk ...
WritePart ==
  /\ At("part")
  /\ \E risk \in Risk \ worker.completed :
       /\ disk' = [disk EXCEPT !.parts = @ \cup {risk}]
       /\ worker' = [worker EXCEPT !.step = "checkpoint", !.risk = risk]
  /\ UNCHANGED <<row, data, job, request, History, faults>>

\* ... then the checkpoint, from the copy in memory.
WriteCheckpoint ==
  /\ At("checkpoint")
  /\ LET completed == worker.completed \cup {worker.risk}
     IN /\ disk' = [disk EXCEPT !.fingerprint = worker.evidence, !.completed = completed]
        /\ worker' = [worker EXCEPT !.step = "part", !.completed = completed, !.risk = None]
  /\ UNCHANGED <<row, data, job, request, History, faults>>

\* finalize: the parts are compacted; a missing part raises.
WriteLabels ==
  /\ At("part") /\ worker.completed = Risk
  /\ IF worker.completed \subseteq disk.parts
     THEN disk' = [disk EXCEPT !.labels = worker.completed] /\ Goto("feasibility")
     ELSE Goto("fail") /\ UNCHANGED disk
  /\ UNCHANGED <<row, data, job, request, History, faults>>

WriteFeasibility ==
  /\ At("feasibility")
  /\ disk' = [disk EXCEPT !.feasibility = worker.completed]
  /\ Goto("publish")
  /\ UNCHANGED <<row, data, job, request, History, faults>>

\* The walk-forward window, labelled with the frozen target of the row.
Replay ==
  /\ At("replay")
  /\ disk' = [disk EXCEPT !.replay = worker.session.target]
  /\ Goto("publish")
  /\ UNCHANGED <<row, data, job, request, History, faults>>

\* evaluate_registered_engine: reads the brackets and the replay, decides either way.
Score ==
  /\ At("score")
  /\ IF None \in {disk.rows, disk.replay, worker.session.target, worker.session.candidate}
     THEN Goto("fail")
     ELSE \E accepted \in BOOLEAN :
            worker' = [worker EXCEPT !.step = "publish",
                         !.verdict = [candidate |-> worker.session.candidate,
                                      target |-> worker.session.target,
                                      accepted |-> accepted]]
  /\ UNCHANGED <<row, disk, data, job, request, History, faults>>

\* handoff_accepted_candidate creates the Stage 0 universe of the session's candidate.
Export ==
  /\ At("export")
  /\ IF \/ None \in {disk.rows, disk.replay, worker.session.target,
                     worker.session.candidate, worker.session.evaluation}
        \/ ~worker.session.evaluation.accepted
     THEN Goto("fail")
     ELSE worker' = [worker EXCEPT !.step = "publish",
                       !.verdict = [candidate |-> worker.session.candidate,
                                    target |-> worker.session.target, accepted |-> TRUE]]
  /\ UNCHANGED <<row, disk, data, job, request, History, faults>>

Publish ==
  /\ At("publish")
  /\ Goto(IF Legal(Done[job]) THEN "published" ELSE "fail")
  /\ UNCHANGED <<row, disk, data, job, request, History, faults>>

\* The summary of the atlas is a new one; the walk-forward extends the one it read.
Published ==
  LET done == [row EXCEPT !.status = Done[job]]
  IN CASE job = "atlas" -> [done EXCEPT !.evidence = worker.evidence, !.approval = None]
       [] job = "walk_forward" -> [done EXCEPT !.evidence = worker.session.evidence,
                                               !.approval = worker.session.approval]
       [] job = "evaluation" -> [done EXCEPT !.evaluation = worker.verdict]
       [] job = "handoff" -> [done EXCEPT !.handoff = worker.verdict]

PublishWrite ==
  /\ At("published")
  /\ Write(Published)
  /\ passed' = IF job = "evaluation" /\ worker.verdict.accepted
               THEN passed \cup {worker.verdict} ELSE passed
  /\ \/ row.status = "absent" /\ Goto("fail") /\ UNCHANGED job
     \/ /\ row.status # "absent"
        /\ IF job = "evaluation" /\ worker.verdict.accepted
           THEN Goto("accept") /\ UNCHANGED job
           ELSE JobEnds
  /\ UNCHANGED <<disk, data, request, created, wiped, abandoned, faults>>

\* An accepted evaluation is a second update, of the status only.
Accept ==
  /\ At("accept")
  /\ Goto(IF Legal("accepted") THEN "accepted" ELSE "fail")
  /\ UNCHANGED <<row, disk, data, job, request, History, faults>>

AcceptWrite ==
  /\ At("accepted")
  /\ Write([row EXCEPT !.status = "accepted"])
  /\ IF row.status = "absent" THEN Goto("fail") /\ UNCHANGED job ELSE JobEnds
  /\ UNCHANGED <<disk, data, request, History, faults>>

\* _fail_signal_discovery_session: its own errors are swallowed.
Fail ==
  /\ At("fail")
  /\ IF Legal("failed") THEN Goto("failed") /\ UNCHANGED job ELSE JobEnds
  /\ UNCHANGED <<row, disk, data, request, History, faults>>

\* Mutant: the summary is saved and the status is not.
FailedKeepsStatus ==
  [row EXCEPT !.evidence = worker.session.evidence, !.approval = worker.session.approval]

\* With the summary of the row it started from.
Failed ==
  [row EXCEPT !.status = "failed", !.evidence = worker.session.evidence,
              !.approval = worker.session.approval]

FailWrite ==
  /\ At("failed")
  /\ Write(Failed)
  /\ JobEnds
  /\ UNCHANGED <<disk, data, request, History, faults>>

InTry == worker.step \notin {"idle", "begin", "mark", "fail", "failed"}

\* Any exception of the executor; one in _fail_signal_discovery_session or
\* before the try ends the job.
Raise ==
  /\ ~At("idle") /\ Fault
  /\ IF InTry THEN Goto("fail") /\ UNCHANGED <<job, abandoned>>
     ELSE JobEnds /\ abandoned' = (abandoned \/ row.status \in RunningStatus)
  /\ UNCHANGED <<row, disk, data, request, created, wiped, passed>>

\* The worker dies; the queue hands the job out again.
Crash ==
  /\ ~At("idle") /\ Fault
  /\ worker' = IdleWorker
  /\ UNCHANGED <<row, disk, data, job, request, History>>

\* cancel_job: a queued job, or one whose worker died.
Cancel ==
  /\ job # None /\ At("idle")
  /\ job' = None
  /\ abandoned' = (abandoned \/ row.status \in RunningStatus)
  /\ UNCHANGED <<row, disk, data, worker, request, created, wiped, passed, faults>>

-----------------------------------------------------------------------------
(* The requests.  What an endpoint refuses (404, 409, 400) changes nothing. *)

Idle(r) == request[r].step = "idle"
On(r, step) == request[r].step = step
Send(r, state) == request' = [request EXCEPT ![r] = state]
Answer(r) == Send(r, IdleRequest)
Goes(r, step) == Send(r, [request[r] EXCEPT !.step = step])

\* A directory left behind by a session of the same id is taken over as it is, and
\* threads that still serve that session go on with the new one.
Create(r) ==
  /\ Idle(r) /\ row.status = "absent"
  /\ created < MaxSessions /\ created' = created + 1
  /\ row' = [NoRow EXCEPT !.status = "draft"]
  /\ wiped' = (disk # EmptyDisk \/ ~At("idle") \/ \E q \in Request \ {r} : ~Idle(q))
  /\ UNCHANGED <<disk, request>> /\ NoWorker

\* The tests of the four endpoints that enqueue a job.
Eligible(type) ==
  CASE type = "atlas" -> row.target = None /\ row.status \in {"draft", "atlas_ready", "failed"}
    [] type = "walk_forward" -> row.status = "target_frozen"
    [] type = "evaluation" -> row.status = "candidate_attached"
    [] type = "handoff" -> /\ row.status = "accepted"
                           /\ row.evaluation # None /\ row.evaluation.accepted

\* validate_evidence_manifest, when the file exists.
Drifted == disk.manifest # None /\ disk.manifest # data

AskJob(r, type) ==
  /\ Idle(r) /\ Eligible(type)
  /\ Send(r, [IdleRequest EXCEPT
                !.step = IF type = "evaluation" /\ Drifted THEN "drift" ELSE "enqueue",
                !.type = type])
  /\ UNCHANGED <<row, disk, created, wiped>> /\ NoWorker

\* enqueue_job: an active job of the scope, of any type, is returned instead.
Enqueue(r) ==
  /\ On(r, "enqueue")
  /\ job' = IF job = None THEN request[r].type ELSE job
  /\ Answer(r)
  /\ UNCHANGED <<row, disk, data, worker, History, faults>>

Drift(r) ==
  /\ On(r, "drift")
  /\ IF Legal("failed") THEN Goes(r, "drifted") ELSE Answer(r)
  /\ UNCHANGED <<row, disk, created, wiped>> /\ NoWorker

DriftWrite(r) ==
  /\ On(r, "drifted")
  /\ Write([row EXCEPT !.status = "failed"])
  /\ Answer(r)
  /\ UNCHANGED <<disk, created, wiped>> /\ NoWorker

Revision == IF disk.contract = None THEN 1 ELSE disk.contract.revision + 1

\* approve_training_brackets, up to its writes.
StartApproval(r, policy, freezing) ==
  /\ disk.labels # {} /\ Revision <= MaxRevision
  /\ Send(r, [IdleRequest EXCEPT
                !.step = "rows", !.session = row, !.freezing = freezing,
                !.contract = [revision |-> Revision, policy |-> policy, rows |-> policy]])
  /\ UNCHANGED <<row, disk, created, wiped>> /\ NoWorker

Approve(r, policy) ==
  /\ Idle(r) /\ row.status = "atlas_ready"
  /\ StartApproval(r, policy, FALSE)

WriteRows(r) ==
  /\ On(r, "rows")
  /\ disk' = [disk EXCEPT !.rows = request[r].contract.policy]
  /\ Goes(r, "contract")
  /\ UNCHANGED <<row, created, wiped>> /\ NoWorker

\* The hash in the contract is that of the rows found on disk.
WriteContract(r) ==
  /\ On(r, "contract")
  /\ IF disk.rows = None
     THEN Answer(r) /\ UNCHANGED disk
     ELSE LET contract == [request[r].contract EXCEPT !.rows = disk.rows]
          IN /\ disk' = [disk EXCEPT !.contract = contract]
             /\ Send(r, [request[r] EXCEPT !.step = "summary", !.contract = contract])
  /\ UNCHANGED <<row, created, wiped>> /\ NoWorker

\* The summary read at the start, with the approval; no status is tested.
WriteSummary(r) ==
  /\ On(r, "summary")
  /\ Write([row EXCEPT !.evidence = request[r].session.evidence,
                       !.approval = request[r].contract])
  /\ IF row.status # "absent" /\ request[r].freezing
     THEN Send(r, [request[r] EXCEPT !.step = "file", !.session = row'])
     ELSE Answer(r)
  /\ UNCHANGED <<disk, created, wiped>> /\ NoWorker

\* POST .../freeze: without an approval the selected coordinates are approved
\* implicitly, with one they must match and its files must be intact.
Freeze(r, policy) ==
  /\ Idle(r) /\ row.status = "atlas_ready"
  /\ \/ row.approval = None /\ StartApproval(r, policy, TRUE)
     \/ /\ row.approval # None /\ row.approval.policy = policy
        /\ disk.contract # None /\ disk.rows = disk.contract.rows
        /\ Send(r, [IdleRequest EXCEPT !.step = "file", !.session = row,
                                       !.contract = disk.contract])
        /\ UNCHANGED <<row, disk, created, wiped>> /\ NoWorker

Payload(r) == [contract |-> request[r].contract, evidence |-> request[r].session.evidence]

\* Mutant: an existing target file is accepted whatever it holds.
AcceptAnyFile(r) ==
  /\ On(r, "file")
  /\ IF disk.target # None THEN Goes(r, "freeze")
     ELSE IF disk.feasibility # {} THEN Goes(r, "create_file") ELSE Answer(r)
  /\ UNCHANGED <<row, disk, created, wiped>> /\ NoWorker

\* freeze_target_contract: an existing file must be equal, a new one needs the atlas.
CheckFile(r) ==
  /\ On(r, "file")
  /\ IF disk.target # None
     THEN IF disk.target = Payload(r) THEN Goes(r, "freeze") ELSE Answer(r)
     ELSE IF disk.feasibility # {} THEN Goes(r, "create_file") ELSE Answer(r)
  /\ UNCHANGED <<row, disk, created, wiped>> /\ NoWorker

CreateFile(r) ==
  /\ On(r, "create_file")
  /\ disk' = [disk EXCEPT !.target = Payload(r)]
  /\ Goes(r, "freeze")
  /\ UNCHANGED <<row, created, wiped>> /\ NoWorker

FreezeCheck(r) ==
  /\ On(r, "freeze")
  /\ IF Legal("target_frozen") /\ TargetFree(Payload(r)) THEN Goes(r, "frozen") ELSE Answer(r)
  /\ UNCHANGED <<row, disk, created, wiped>> /\ NoWorker

FreezeWrite(r) ==
  /\ On(r, "frozen")
  /\ Write([row EXCEPT !.status = "target_frozen", !.target = Payload(r)])
  /\ Answer(r)
  /\ UNCHANGED <<disk, created, wiped>> /\ NoWorker

\* Mutant: the endpoint relies on the transition table.
AttachEarly(r, candidate) ==
  /\ Idle(r) /\ row.status \in {"target_frozen", "walk_forward_ready", "evaluated"}
  /\ Send(r, [IdleRequest EXCEPT !.step = "attach", !.candidate = candidate])
  /\ UNCHANGED <<row, disk, created, wiped>> /\ NoWorker

AttachRead(r, candidate) ==
  /\ Idle(r) /\ row.status \in {"walk_forward_ready", "evaluated"}
  /\ Send(r, [IdleRequest EXCEPT !.step = "attach", !.candidate = candidate])
  /\ UNCHANGED <<row, disk, created, wiped>> /\ NoWorker

AttachCheck(r) ==
  /\ On(r, "attach")
  /\ IF Legal("candidate_attached") THEN Goes(r, "attached") ELSE Answer(r)
  /\ UNCHANGED <<row, disk, created, wiped>> /\ NoWorker

\* Mutant: the evaluation of the previous candidate stays.
AttachKeepsEvaluation(r) ==
  /\ On(r, "attached")
  /\ Write([row EXCEPT !.status = "candidate_attached", !.candidate = request[r].candidate])
  /\ Answer(r)
  /\ UNCHANGED <<disk, created, wiped>> /\ NoWorker

AttachWrite(r) ==
  /\ On(r, "attached")
  /\ Write([row EXCEPT !.status = "candidate_attached", !.candidate = request[r].candidate,
                       !.evaluation = None])
  /\ Answer(r)
  /\ UNCHANGED <<disk, created, wiped>> /\ NoWorker

\* DELETE removes the directory, then the row.
Delete(r) ==
  /\ Idle(r) /\ row.status \notin RunningStatus \cup {"absent"}
  /\ disk' = EmptyDisk /\ wiped' = TRUE
  /\ Send(r, [IdleRequest EXCEPT !.step = "remove"])
  /\ UNCHANGED <<row, created>> /\ NoWorker

Remove(r) ==
  /\ On(r, "remove")
  /\ row' = NoRow
  /\ Answer(r)
  /\ UNCHANGED <<disk, created, wiped>> /\ NoWorker

\* The API process ends in the middle of a request.
ApiCrash(r) ==
  /\ ~Idle(r) /\ Fault
  /\ Answer(r)
  /\ UNCHANGED <<row, disk, data, job, worker, History>>

\* A backfill changes the authorised part of a data set.
DataChange ==
  /\ Fault
  /\ data' \in Evidence \ {data}
  /\ UNCHANGED <<row, disk, job, worker, request, History>>

-----------------------------------------------------------------------------
WorkerStep ==
  \/ Claim \/ Begin \/ Mark \/ Inventory \/ Open \/ WritePart \/ WriteCheckpoint \/ WriteLabels
  \/ WriteFeasibility \/ Replay \/ Score \/ Export \/ Publish \/ PublishWrite \/ Accept
  \/ AcceptWrite \/ Fail \/ FailWrite

RequestStep(r) ==
  \/ Create(r) \/ Enqueue(r) \/ Drift(r) \/ DriftWrite(r) \/ WriteRows(r) \/ WriteContract(r)
  \/ WriteSummary(r) \/ CheckFile(r) \/ CreateFile(r) \/ FreezeCheck(r) \/ FreezeWrite(r)
  \/ AttachCheck(r) \/ AttachWrite(r) \/ Delete(r) \/ Remove(r) \/ ApiCrash(r)
  \/ \E type \in JobType : AskJob(r, type)
  \/ \E policy \in Policy : Approve(r, policy) \/ Freeze(r, policy)
  \/ \E candidate \in Candidate : AttachRead(r, candidate)

Next == WorkerStep \/ Raise \/ Crash \/ Cancel \/ DataChange \/ \E r \in Request : RequestStep(r)

Spec == Init /\ [][Next]_vars

\* Workers poll and run on; nothing is assumed of requests, faults and cancels.
FairSpec == Spec /\ WF_vars(WorkerStep)

-----------------------------------------------------------------------------
(* Properties.                                                             *)

\* Every part the checkpoint names is on disk, whenever the worker died: a retry
\* skips only what is really there.
CheckpointCovered == ~wiped => disk.completed \subseteq disk.parts

Ready == Status \ {"draft", "atlas_running", "failed"}

\* A session past the atlas has all final files, of every risk, and they carry the
\* evidence its summary names ("mark the session ready only after every final
\* artifact is published").
ReadyMeansPublished ==
  row.status \in Ready /\ ~wiped =>
    /\ disk.labels = Risk /\ disk.feasibility = Risk
    /\ row.evidence # None /\ row.evidence = disk.fingerprint

\* The target in the row is the one in target/frozen_target.json, which prompts and
\* training read, whatever happens between the file and the row.
FrozenFileAgrees == row.target # None /\ ~wiped => disk.target = row.target

\* What a candidate is attached to, evaluated on and handed off with is a replay
\* of the frozen target.
ReplayIsOfTarget ==
  /\ row.status \in {"walk_forward_ready", "candidate_attached", "evaluation_running",
                     "evaluated", "accepted", "handoff_running", "handed_off"}
  /\ ~wiped
  => row.target # None /\ disk.replay = row.target

\* The candidate and target handed to Stage 0 had an accepted evaluation, although
\* candidates are exchanged while evaluations end ("Only accepted candidates can be
\* handed off").  Not so once two attach requests overlap.
HandoffWasAccepted == row.handoff # None => row.handoff \in passed

\* A running status ends: the next worker resumes what a dead one left.  Not so when
\* the job was cancelled, when the last error could not be recorded, or when the
\* session was deleted under its job.
RunningEnds ==
  row.status \in RunningStatus ~> row.status \notin RunningStatus \/ abandoned \/ wiped

\* Violated: approved brackets change under a frozen target.
FrozenBracketsKept ==
  row.target # None /\ ~wiped =>
    /\ disk.contract = row.target.contract
    /\ disk.rows = row.target.contract.rows

=============================================================================
