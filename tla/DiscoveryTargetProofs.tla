------------------------- MODULE DiscoveryTargetProofs -------------------------
(* Proofs about the frozen target of a DiscoverySession and about what it hands  *)
(* off, for requests that do not overlap.                                       *)
EXTENDS DiscoverySessionProofs

OneAtATime == \A q, r \in Request : q = r

\* Between the file and the row a target is the same in both, and a file is
\* created only for a row that has no target.
TargetInv ==
  /\ row.target # None => disk.target = row.target
  /\ \A r \in Request :
       /\ On(r, "create_file") => row.target = None
       /\ request[r].step \in {"freeze", "frozen"} => disk.target = Payload(r)

-----------------------------------------------------------------------------
(* What the worker leaves alone.                                           *)

SameTarget == row'.target = row.target /\ disk'.target = disk.target

LEMMA PublishedValues ==
  ASSUME TypeInv, PublishWrite
  PROVE  /\ row.status # "absent" => row' = Published
         /\ row.status = "absent" => row' = row
         /\ Published.status = Done[job]
         /\ Published.target = row.target /\ Published.candidate = row.candidate
         /\ job # "evaluation" => Published.evaluation = row.evaluation
<1>1. job \in JobType
  BY DEF PublishWrite, At, TypeInv, TypeOK
<1>2. CASE job = "atlas"
  BY <1>2 DEF PublishWrite, Write, Published, Row, TypeInv, TypeOK
<1>3. CASE job = "walk_forward"
  BY <1>3 DEF PublishWrite, Write, Published, Row, TypeInv, TypeOK
<1>4. CASE job = "evaluation"
  BY <1>4 DEF PublishWrite, Write, Published, Row, TypeInv, TypeOK
<1>5. CASE job = "handoff"
  BY <1>5 DEF PublishWrite, Write, Published, Row, TypeInv, TypeOK
<1> QED
  BY <1>1, <1>2, <1>3, <1>4, <1>5 DEF JobType

LEMMA WorkerKeeps ==
  ASSUME TypeInv, WorkerStep \/ Raise \/ Crash \/ Cancel \/ DataChange
  PROVE  /\ SameTarget /\ row'.candidate = row.candidate
         /\ request' = request /\ wiped' = wiped
<1>1. CASE Claim \/ Begin \/ Open \/ Score \/ Export \/ Publish \/ Accept \/ Fail
  BY <1>1 DEF Claim, Begin, Open, Score, Export, Publish, Accept, Fail, History, SameTarget
<1>2. CASE Mark \/ AcceptWrite
  BY <1>2 DEF Mark, AcceptWrite, Write, History, SameTarget, Row, TypeInv, TypeOK
<1>3. CASE FailWrite
  BY <1>3 DEF FailWrite, Failed, Write, History, SameTarget, Row, TypeInv, TypeOK
<1>4. CASE Inventory \/ WriteLabels \/ WriteFeasibility \/ Replay \/ WritePart
  BY <1>4 DEF Inventory, WriteLabels, WriteFeasibility, Replay, WritePart, History, SameTarget,
              Disk, TypeInv, TypeOK
<1>5. CASE WriteCheckpoint
  <2>1. disk' = [disk EXCEPT !.fingerprint = worker.evidence,
                             !.completed = worker.completed \cup {worker.risk}]
    BY <1>5 DEF WriteCheckpoint
  <2>2. disk'.target = disk.target
    BY <2>1 DEF Disk, TypeInv, TypeOK
  <2> QED
    BY <1>5, <2>2 DEF WriteCheckpoint, History, SameTarget
<1>6. CASE PublishWrite
  BY <1>6, PublishedValues DEF PublishWrite, SameTarget
<1>7. CASE Raise \/ Crash \/ Cancel \/ DataChange
  BY <1>7 DEF Raise, Crash, Cancel, DataChange, History, SameTarget
<1> QED
  BY <1>1, <1>2, <1>3, <1>4, <1>5, <1>6, <1>7 DEF WorkerStep

-----------------------------------------------------------------------------
(* The file and the row.                                                   *)

LEMMA TargetSame ==
  ASSUME TargetInv, SameTarget, UNCHANGED request
  PROVE  TargetInv'
BY DEF TargetInv, SameTarget, On, Payload

\* A request that is not about to freeze.
LEMMA TargetElsewhere ==
  ASSUME OneAtATime, TargetInv, SameTarget, NEW r \in Request,
         request'[r].step \notin {"create_file", "freeze", "frozen"}
  PROVE  TargetInv'
<1>1. \A q \in Request : q = r
  BY DEF OneAtATime
<1> QED
  BY <1>1 DEF TargetInv, SameTarget, On

\* The requests that write neither file nor target.
LEMMA TargetOther ==
  ASSUME OneAtATime, TypeInv, TargetInv, NEW r \in Request,
         \/ Enqueue(r) \/ Drift(r) \/ DriftWrite(r) \/ WriteRows(r) \/ WriteContract(r)
         \/ WriteSummary(r) \/ AttachCheck(r) \/ AttachWrite(r) \/ ApiCrash(r)
         \/ (\E type \in JobType : AskJob(r, type))
         \/ (\E policy \in Policy : Approve(r, policy) \/ Freeze(r, policy))
         \/ \E candidate \in Candidate : AttachRead(r, candidate)
  PROVE  TargetInv'
<1>0. row \in Row /\ disk \in Disk /\ request \in [Request -> RequestState]
  BY DEF TypeInv, TypeOK
<1>1. SameTarget
  <2>1. CASE Enqueue(r) \/ Drift(r) \/ AttachCheck(r) \/ ApiCrash(r)
             \/ \E type \in JobType : AskJob(r, type)
    BY <2>1 DEF Enqueue, Drift, AttachCheck, ApiCrash, AskJob, SameTarget
  <2>2. CASE DriftWrite(r)
    BY <1>0, <2>2 DEF DriftWrite, Write, SameTarget, Row
  <2>3. CASE WriteRows(r) \/ WriteContract(r)
    BY <1>0, <2>3 DEF WriteRows, WriteContract, SameTarget, Disk
  <2>4. CASE WriteSummary(r)
    BY <1>0, <2>4 DEF WriteSummary, Write, SameTarget, Row
  <2>5. CASE AttachWrite(r)
    BY <1>0, <2>5 DEF AttachWrite, Write, SameTarget, Row
  <2>6. CASE \/ \E policy \in Policy : Approve(r, policy) \/ Freeze(r, policy)
             \/ \E candidate \in Candidate : AttachRead(r, candidate)
    BY <2>6 DEF Approve, Freeze, StartApproval, AttachRead, SameTarget
  <2> QED
    BY <2>1, <2>2, <2>3, <2>4, <2>5, <2>6
<1>2. ASSUME Answer(r) PROVE request'[r].step = "idle"
  BY <1>0, <1>2, AnswerType
<1>3. ASSUME NEW step \in RequestAt \ {"create_file", "freeze", "frozen"}, Goes(r, step)
      PROVE  request'[r].step \notin {"create_file", "freeze", "frozen"}
  BY <1>0, <1>3, GoesType
<1>4. ASSUME NEW state, Send(r, state)
      PROVE  request'[r] = state
  BY <1>0, <1>4 DEF Send
<1>5. request'[r].step \notin {"create_file", "freeze", "frozen"}
  <2>1. CASE Enqueue(r) \/ DriftWrite(r) \/ AttachWrite(r) \/ ApiCrash(r)
    BY <1>2, <2>1 DEF Enqueue, DriftWrite, AttachWrite, ApiCrash
  <2>2. CASE Drift(r) \/ WriteRows(r) \/ AttachCheck(r)
    BY <1>2, <1>3, <2>2 DEF Drift, WriteRows, AttachCheck, RequestAt
  <2>3. CASE WriteContract(r)
    <3>1. CASE Answer(r)
      BY <1>2, <3>1
    <3>2. CASE \E contract : Send(r, [request[r] EXCEPT !.step = "summary", !.contract = contract])
      BY <1>0, <1>4, <3>2 DEF RequestState
    <3> QED
      BY <2>3, <3>1, <3>2 DEF WriteContract
  <2>4. CASE WriteSummary(r)
    <3>1. CASE Answer(r)
      BY <1>2, <3>1
    <3>2. CASE Send(r, [request[r] EXCEPT !.step = "file", !.session = row'])
      BY <1>0, <1>4, <3>2 DEF RequestState
    <3> QED
      BY <2>4, <3>1, <3>2 DEF WriteSummary
  <2>5. CASE \E type \in JobType : AskJob(r, type)
    BY <1>4, <2>5 DEF AskJob, IdleRequest
  <2>6. CASE \E candidate \in Candidate : AttachRead(r, candidate)
    BY <1>4, <2>6 DEF AttachRead, IdleRequest
  <2>7. ASSUME NEW policy \in Policy, NEW freezing \in BOOLEAN, StartApproval(r, policy, freezing)
        PROVE  request'[r].step = "rows"
    BY <1>4, <2>7 DEF StartApproval, IdleRequest
  <2>8. CASE Send(r, [IdleRequest EXCEPT !.step = "file", !.session = row,
                                         !.contract = disk.contract])
    BY <1>4, <2>8 DEF IdleRequest
  <2>9. CASE \E policy \in Policy : Approve(r, policy) \/ Freeze(r, policy)
    BY <2>7, <2>8, <2>9 DEF Approve, Freeze
  <2> QED
    BY <2>1, <2>2, <2>3, <2>4, <2>5, <2>6, <2>9
<1> QED
  BY <1>1, <1>5, TargetElsewhere

\* freeze_target_contract and the update of the row.
LEMMA TargetFreeze ==
  ASSUME OneAtATime, TypeInv, TargetInv, NEW r \in Request,
         CheckFile(r) \/ CreateFile(r) \/ FreezeCheck(r) \/ FreezeWrite(r)
  PROVE  TargetInv'
<1>0. row \in Row /\ disk \in Disk /\ request \in [Request -> RequestState]
      /\ \A q \in Request : q = r
  BY DEF TypeInv, TypeOK, OneAtATime
<1>1. ASSUME NEW step \in RequestAt, Goes(r, step)
      PROVE  request'[r].step = step /\ Payload(r)' = Payload(r)
  BY <1>0, <1>1, GoesType DEF Payload
<1>2. ASSUME Answer(r), SameTarget PROVE TargetInv'
  BY <1>0, <1>2, AnswerType, TargetElsewhere
<1>3. CASE CheckFile(r)
  <2>1. UNCHANGED <<row, disk>> /\ SameTarget
    BY <1>3 DEF CheckFile, SameTarget
  <2>2. CASE disk.target = Payload(r) /\ Goes(r, "freeze")
    BY <1>0, <1>1, <2>1, <2>2 DEF TargetInv, On, RequestAt
  <2>3. CASE disk.target = None /\ Goes(r, "create_file")
    BY <1>0, <1>1, <2>1, <2>3 DEF TargetInv, On, RequestAt
  <2> QED
    BY <1>2, <1>3, <2>1, <2>2, <2>3 DEF CheckFile
<1>4. CASE CreateFile(r)
  <2>1. disk'.target = Payload(r) /\ row' = row /\ row.target = None
    BY <1>0, <1>4 DEF CreateFile, TargetInv, Disk
  <2>2. request'[r].step = "freeze" /\ Payload(r)' = Payload(r)
    BY <1>1, <1>4 DEF CreateFile, RequestAt
  <2> QED
    BY <1>0, <2>1, <2>2 DEF TargetInv, On
<1>5. CASE FreezeCheck(r)
  <2>1. UNCHANGED <<row, disk>> /\ SameTarget /\ disk.target = Payload(r)
    BY <1>5 DEF FreezeCheck, SameTarget, TargetInv, On
  <2>2. CASE Goes(r, "frozen")
    BY <1>0, <1>1, <2>1, <2>2 DEF TargetInv, On, RequestAt
  <2> QED
    BY <1>2, <1>5, <2>1, <2>2 DEF FreezeCheck
<1>6. CASE FreezeWrite(r)
  <2>1. disk' = disk /\ disk.target = Payload(r) /\ row'.target \in {row.target, Payload(r)}
    BY <1>0, <1>6 DEF FreezeWrite, Write, TargetInv, On, Row
  <2>2. request'[r].step = "idle"
    BY <1>0, <1>6, AnswerType DEF FreezeWrite
  <2> QED
    BY <1>0, <2>1, <2>2 DEF TargetInv, On
<1> QED
  BY <1>3, <1>4, <1>5, <1>6

\* A session whose directory was not there before begins with nothing.
Fresh ==
  /\ row' = [NoRow EXCEPT !.status = "draft"] /\ disk' = EmptyDisk
  /\ worker'.step = "idle" /\ \A q \in Request : request'[q].step = "idle"

LEMMA CreateFresh ==
  ASSUME NEW r \in Request, Create(r), ~wiped'
  PROVE  Fresh
BY DEF Create, NoWorker, At, Idle, Fresh

LEMMA RequestKeepsDirectory ==
  ASSUME NEW r \in Request, RequestStep(r), ~(Create(r) \/ Delete(r) \/ Remove(r))
  PROVE  wiped' = wiped
BY DEF RequestStep, Enqueue, Drift, DriftWrite, WriteRows, WriteContract,
       WriteSummary, CheckFile, CreateFile, FreezeCheck, FreezeWrite, AttachCheck,
       AttachWrite, ApiCrash, AskJob, Approve, Freeze, StartApproval, AttachRead, History

LEMMA TargetStep ==
  ASSUME OneAtATime, IInv, ~wiped => TargetInv, [Next]_vars
  PROVE  ~wiped' => TargetInv'
<1> SUFFICES ASSUME ~wiped' PROVE TargetInv'
  OBVIOUS
<1> USE DEF IInv
<1>1. CASE WorkerStep \/ Raise \/ Crash \/ Cancel \/ DataChange
  BY <1>1, WorkerKeeps, TargetSame
<1>2. ASSUME NEW r \in Request, RequestStep(r) PROVE TargetInv'
  <2>1. CASE Create(r)
    BY <2>1, CreateFresh DEF Fresh, TargetInv, On, NoRow
  <2>2. CASE Delete(r) \/ Remove(r)
    BY <2>2 DEF Delete, Remove, RemoveInv
  <2>3. CASE ~(Create(r) \/ Delete(r) \/ Remove(r))
    <3>1. wiped' = wiped
      BY <1>2, <2>3, RequestKeepsDirectory
    <3> QED
      BY <1>2, <2>3, <3>1, TargetOther, TargetFreeze DEF RequestStep
  <2> QED
    BY <2>1, <2>2, <2>3
<1>3. CASE UNCHANGED vars
  BY <1>3, TargetSame DEF vars, SameTarget
<1> QED
  BY <1>1, <1>2, <1>3 DEF Next

LEMMA TargetInvariance ==
  ASSUME OneAtATime
  PROVE  Spec => [](~wiped => TargetInv)
<1>1. Init => (~wiped => TargetInv)
  BY DEF Init, TargetInv, On, NoRow, IdleRequest
<1>2. IInv /\ (~wiped => TargetInv) /\ [Next]_vars => (~wiped' => TargetInv')
  BY TargetStep
<1> QED
  BY <1>1, <1>2, Inductive, PTL DEF Spec

\* freeze_target_contract and the row: while requests about the session do not
\* overlap, the target in the row is the one in the file, whatever the worker does
\* and wherever the API process ends.
THEOREM FrozenFileKept ==
  ASSUME OneAtATime
  PROVE  Spec => []FrozenFileAgrees
<1>1. (~wiped => TargetInv) => FrozenFileAgrees
  BY DEF TargetInv, FrozenFileAgrees
<1> QED
  BY <1>1, TargetInvariance, PTL

-----------------------------------------------------------------------------
(* The replay.  Once the window was labelled with the frozen target, that holds *)
(* as long as the directory is there: a later walk-forward job works for the    *)
(* same target, and whoever may move the session on has seen the replay.        *)

Replayed == row.target # None /\ disk.replay = row.target

Past == {"walk_forward_ready", "candidate_attached", "evaluation_running", "evaluated",
         "accepted", "handoff_running", "handed_off"}

ReplayInv ==
  /\ row.status \in Past \/ row.candidate # None \/ row.evaluation # None => Replayed
  /\ \A r \in Request : request[r].step \in {"attach", "attached"} => Replayed
  /\ ~At("idle") /\ ~At("begin") =>
       /\ job = "walk_forward" => row.target # None
       /\ job \in {"evaluation", "handoff"} => Replayed
  /\ Active /\ job = "walk_forward" => worker.session.target = row.target
  /\ worker.step \in {"publish", "published"} /\ job = "walk_forward" => Replayed
  /\ worker.step \in {"accept", "accepted"} => Replayed

LEMMA StatusPast ==
  /\ Running["atlas"] \notin Past /\ Running["walk_forward"] \notin Past
  /\ Done["atlas"] \notin Past
  /\ "failed" \notin Past /\ "draft" \notin Past /\ "target_frozen" \notin Past
  /\ "absent" \notin Past
BY DEF Running, Done, Past

\* The worker goes on with the same job; target and replay stay.
LEMMA ReplayGoes ==
  ASSUME ReplayInv, Replayed => Replayed', row'.target = row.target, UNCHANGED <<request, job>>,
         row'.candidate = row.candidate, row'.evaluation = row.evaluation,
         row'.status \in Past => Replayed,
         ~At("idle"), ~At("begin"), worker'.step # "idle",
         Active' /\ job = "walk_forward" => worker'.session.target = row.target,
         worker'.step \in {"publish", "published"} /\ job = "walk_forward" => Replayed',
         worker'.step \in {"accept", "accepted"} => Replayed
  PROVE  ReplayInv'
BY DEF ReplayInv, At

\* The worker stops.
LEMMA ReplayStops ==
  ASSUME ReplayInv, Replayed => Replayed', UNCHANGED request,
         row'.candidate # None \/ row'.evaluation # None \/ row'.status \in Past => Replayed',
         worker' = IdleWorker
  PROVE  ReplayInv'
<1>1. worker'.step = "idle"
  BY DEF IdleWorker
<1> QED
  BY <1>1 DEF ReplayInv, At, Active

LEMMA ReplayBegin ==
  ASSUME TypeInv, ReplayInv, Claim \/ Begin \/ Mark
  PROVE  ReplayInv'
<1>0. row \in Row /\ worker \in Worker
  BY DEF TypeInv, TypeOK
<1>1. CASE Claim
  <2>1. worker'.step = "begin"
    BY <1>0, <1>1, MoveType DEF Claim, WorkerAt
  <2> QED
    BY <1>1, <2>1 DEF Claim, ReplayInv, At, Active, Replayed
<1>2. CASE Begin
  <2>1. UNCHANGED <<row, disk, request>>
    BY <1>2 DEF Begin, History
  <2>2. CASE JobEnds
    BY <2>1, <2>2, ReplayStops DEF JobEnds, ReplayInv, Replayed
  <2>3. CASE Startable /\ Goto("mark") /\ UNCHANGED job
    <3>1. worker'.step = "mark"
      BY <1>0, <2>3, MoveType DEF WorkerAt
    <3>2. job = "walk_forward" => row.target # None
      BY <2>3 DEF Startable
    <3>3. job \in {"evaluation", "handoff"} => Replayed
      BY <2>3 DEF Startable, ReplayInv
    <3> QED
      BY <2>1, <2>3, <3>1, <3>2, <3>3 DEF ReplayInv, At, Active, Replayed
  <2> QED
    BY <1>2, <2>2, <2>3 DEF Begin
<1>3. CASE Mark
  <2>0. UNCHANGED <<disk, request>> /\ At("mark") /\ job \in JobType
    BY <1>3 DEF Mark, History, At, TypeInv, TypeOK
  <2>1. /\ row'.target = row.target /\ row'.candidate = row.candidate
        /\ row'.evaluation = row.evaluation
        /\ row'.status \in {row.status, Running[job]}
    BY <1>0, <1>3 DEF Mark, Write, Row
  <2>2. row'.status \in Past => Replayed
    BY <2>0, <2>1, StatusPast DEF ReplayInv, At, JobType
  <2>3. Replayed => Replayed'
    BY <2>0, <2>1 DEF Replayed
  <2>4. CASE JobEnds
    BY <2>0, <2>1, <2>2, <2>3, <2>4, ReplayStops DEF JobEnds, ReplayInv
  <2>5. CASE worker' = [worker EXCEPT !.step = FirstStep[job], !.session = row'] /\ UNCHANGED job
    <3>1. worker'.step = FirstStep[job] /\ worker'.session = row'
      BY <1>0, <2>5 DEF Worker
    <3>2. worker'.step \in {"inventory", "replay", "score", "export"}
      BY <2>0, <3>1, JobFacts
    <3> QED
      BY <2>0, <2>1, <2>2, <2>3, <2>5, <3>1, <3>2, ReplayGoes DEF At
  <2> QED
    BY <1>3, <2>4, <2>5 DEF Mark
<1> QED
  BY <1>1, <1>2, <1>3

LEMMA ReplayWork ==
  ASSUME TypeInv, ReplayInv,
         \/ Inventory \/ Open \/ WritePart \/ WriteCheckpoint \/ WriteLabels \/ WriteFeasibility
         \/ Replay \/ Score \/ Export
  PROVE  ReplayInv'
<1>0. worker \in Worker /\ disk \in Disk
  BY DEF TypeInv, TypeOK
<1>1. ~At("idle") /\ ~At("begin") /\ Active /\ UNCHANGED <<row, job, request>>
  BY DEF Inventory, Open, WritePart, WriteCheckpoint, WriteLabels, WriteFeasibility, Replay, Score,
         Export, At, Active, History
<1>2. CASE Replay
  <2>1. job = "walk_forward"
    BY <1>2 DEF Replay, At, TypeInv, StepInv
  <2>2. worker.session.target = row.target /\ row.target # None
    BY <1>1, <2>1 DEF ReplayInv
  <2>3. disk'.replay = worker.session.target
    BY <1>0, <1>2 DEF Replay, Disk
  <2>4. worker'.step = "publish" /\ worker'.session = worker.session
    BY <1>0, <1>2, MoveType DEF Replay, WorkerAt, MoveKept, WorkerKept
  <2>5. Replayed'
    BY <1>1, <2>2, <2>3 DEF Replayed
  <2> QED
    BY <1>1, <2>2, <2>4, <2>5, ReplayGoes DEF ReplayInv
<1>3. CASE Score \/ Export
  <2>1. disk' = disk /\ job # "walk_forward"
    BY <1>3 DEF Score, Export, At, TypeInv, StepInv
  <2>2. worker'.step \in {"publish", "fail"}
    BY <1>0, <1>3, MoveType DEF Score, Export, Worker, WorkerAt
  <2> QED
    BY <1>1, <2>1, <2>2, ReplayGoes DEF ReplayInv, Replayed
<1>4. CASE Inventory \/ Open \/ WritePart \/ WriteCheckpoint \/ WriteLabels \/ WriteFeasibility
  <2>1. job # "walk_forward"
    BY <1>4 DEF Inventory, Open, WritePart, WriteCheckpoint, WriteLabels, WriteFeasibility,
                At, TypeInv, StepInv
  <2>2. disk'.replay = disk.replay
    <3>1. CASE WriteCheckpoint
      <4>1. disk' = [disk EXCEPT !.fingerprint = worker.evidence,
                                 !.completed = worker.completed \cup {worker.risk}]
        BY <3>1 DEF WriteCheckpoint
      <4> QED
        BY <1>0, <4>1 DEF Disk
    <3> QED
      BY <1>0, <1>4, <3>1 DEF Inventory, Open, WritePart, WriteLabels, WriteFeasibility, Disk
  <2>3. worker'.step \in {"open", "part", "fail", "checkpoint", "feasibility", "publish"}
    <3>1. CASE WriteCheckpoint
      BY <1>0, <3>1 DEF WriteCheckpoint, Worker
    <3>2. ASSUME NEW step \in WorkerAt, Goto(step) PROVE worker'.step = step
      BY <1>0, <3>2, MoveType
    <3> QED
      BY <1>0, <1>4, <3>1, <3>2
         DEF Inventory, Open, WritePart, WriteLabels, WriteFeasibility, Worker, WorkerAt
  <2>4. Replayed => Replayed'
    BY <1>1, <2>2 DEF Replayed
  <2> QED
    BY <1>1, <2>1, <2>3, <2>4, ReplayGoes DEF ReplayInv
<1> QED
  BY <1>2, <1>3, <1>4

\* The job type says what a session that is published was worked on with.
LEMMA ReplayPublish ==
  ASSUME TypeInv, ReplayInv, Publish \/ PublishWrite \/ Accept \/ AcceptWrite
  PROVE  ReplayInv'
<1>0. row \in Row /\ worker \in Worker /\ job \in JobType
  BY DEF TypeInv, TypeOK, Publish, PublishWrite, Accept, AcceptWrite, At
<1>1. ~At("idle") /\ ~At("begin") /\ Active /\ UNCHANGED <<disk, request>>
  BY DEF Publish, PublishWrite, Accept, AcceptWrite, At, Active, History
<1>2. ASSUME NEW step \in WorkerAt, Goto(step)
      PROVE  worker'.step = step /\ worker'.session = worker.session
  BY <1>0, <1>2, MoveType DEF MoveKept, WorkerKept
<1>3. CASE Publish
  <2>1. UNCHANGED <<row, job>> /\ At("publish")
    BY <1>3 DEF Publish
  <2>2. worker'.step \in {"published", "fail"} /\ worker'.session = worker.session
    BY <1>2, <1>3 DEF Publish, WorkerAt
  <2> QED
    BY <1>1, <2>1, <2>2, ReplayGoes DEF ReplayInv, Replayed, At
<1>4. CASE Accept
  <2>1. UNCHANGED <<row, job>> /\ At("accept")
    BY <1>4 DEF Accept
  <2>2. worker'.step \in {"accepted", "fail"} /\ worker'.session = worker.session
    BY <1>2, <1>4 DEF Accept, WorkerAt
  <2> QED
    BY <1>1, <2>1, <2>2, ReplayGoes DEF ReplayInv, Replayed, At
<1>5. CASE PublishWrite
  <2>1. row'.target = row.target /\ row'.candidate = row.candidate
    BY <1>5, PublishedValues
  <2>2. Replayed => Replayed'
    BY <1>1, <2>1 DEF Replayed
  <2>3. job = "atlas" \/ Replayed
    BY <1>0, <1>1, <1>5 DEF PublishWrite, At, ReplayInv, JobType
  <2>4. row'.candidate # None \/ row'.evaluation # None \/ row'.status \in Past => Replayed
    <3>1. CASE job = "atlas" /\ row.status # "absent"
      BY <1>5, <3>1, PublishedValues, StatusPast DEF ReplayInv
    <3>2. CASE row.status = "absent"
      BY <1>5, <3>2, PublishedValues DEF ReplayInv
    <3> QED
      BY <2>3, <3>1, <3>2
  <2>5. CASE JobEnds
    BY <1>1, <2>2, <2>4, <2>5, ReplayStops DEF JobEnds
  <2>6. CASE (Goto("fail") \/ (Goto("accept") /\ job = "evaluation")) /\ UNCHANGED job
    <3>1. worker'.step \in {"fail", "accept"} /\ worker'.session = worker.session
      BY <1>2, <2>6 DEF WorkerAt
    <3>2. worker'.step = "accept" => Replayed
      BY <1>2, <2>3, <2>6 DEF WorkerAt
    <3> QED
      BY <1>1, <2>1, <2>2, <2>4, <2>6, <3>1, <3>2 DEF ReplayInv, At
  <2>7. CASE row.status = "absent"
    BY <1>5, <2>6, <2>7 DEF PublishWrite
  <2>8. CASE row.status # "absent"
    BY <1>5, <2>5, <2>6, <2>8, ZenonT(30) DEF PublishWrite
  <2> QED
    BY <2>7, <2>8
<1>6. CASE AcceptWrite
  <2>1. Replayed
    BY <1>6 DEF AcceptWrite, At, ReplayInv
  <2>2. row'.target = row.target
    BY <1>0, <1>6 DEF AcceptWrite, Write, Row
  <2>3. Replayed'
    BY <1>1, <2>1, <2>2 DEF Replayed
  <2>4. CASE JobEnds
    BY <1>1, <2>3, <2>4, ReplayStops DEF JobEnds
  <2>5. CASE Goto("fail") /\ UNCHANGED job
    <3>1. worker'.step = "fail" /\ worker'.session = worker.session
      BY <1>2, <2>5 DEF WorkerAt
    <3> QED
      BY <1>1, <2>2, <2>3, <2>5, <3>1 DEF ReplayInv, At, Active, Replayed
  <2> QED
    BY <1>6, <2>4, <2>5 DEF AcceptWrite
<1> QED
  BY <1>3, <1>4, <1>5, <1>6

LEMMA ReplayFails ==
  ASSUME TypeInv, ReplayInv, Fail \/ FailWrite \/ Raise \/ Crash \/ Cancel \/ DataChange
  PROVE  ReplayInv'
<1>0. row \in Row /\ worker \in Worker
  BY DEF TypeInv, TypeOK
<1>1. UNCHANGED <<disk, request>>
  BY DEF Fail, FailWrite, Raise, Crash, Cancel, DataChange, History
<1>2. ASSUME UNCHANGED <<row, job>>, NEW step \in {"fail", "failed"}, Goto(step), Active
      PROVE  ReplayInv'
  <2>1. worker'.step = step /\ worker'.session = worker.session
    BY <1>0, <1>2, MoveType DEF WorkerAt, MoveKept, WorkerKept
  <2> QED
    BY <1>1, <1>2, <2>1 DEF ReplayInv, At, Active, Replayed
<1>3. ASSUME UNCHANGED row, worker' = IdleWorker PROVE ReplayInv'
  BY <1>1, <1>3, ReplayStops DEF ReplayInv, Replayed
<1>4. CASE Fail
  BY <1>2, <1>3, <1>4 DEF Fail, JobEnds, At, Active
<1>5. CASE FailWrite
  <2>1. /\ row'.target = row.target /\ row'.candidate = row.candidate
        /\ row'.evaluation = row.evaluation /\ row'.status \in {row.status, "failed"}
    BY <1>0, <1>5 DEF FailWrite, Failed, Write, Row
  <2> QED
    BY <1>1, <1>5, <2>1, StatusPast, ReplayStops DEF FailWrite, JobEnds, ReplayInv, Replayed
<1>6. CASE Raise
  BY <1>2, <1>3, <1>6 DEF Raise, JobEnds, InTry, Active
<1>7. CASE Crash
  BY <1>3, <1>7 DEF Crash
<1>8. CASE Cancel
  BY <1>1, <1>8 DEF Cancel, ReplayInv, At, Active, Replayed
<1>9. CASE DataChange
  BY <1>1, <1>9 DEF DataChange, ReplayInv, At, Active, Replayed
<1> QED
  BY <1>4, <1>5, <1>6, <1>7, <1>8, <1>9

\* Requests leave the replay and the worker alone, and keep the target once there is one.
LEMMA RequestKeeps ==
  ASSUME OneAtATime, IInv, TargetInv, NEW r \in Request, RequestStep(r), ~Create(r), ~wiped'
  PROVE  /\ worker' = worker /\ (job # None => job' = job)
         /\ row.target # None => row'.target = row.target
         /\ disk'.replay = disk.replay
<1>0. row \in Row /\ disk \in Disk
  BY DEF IInv, TypeInv, TypeOK
<1>1. CASE \/ Enqueue(r) \/ Drift(r) \/ CheckFile(r) \/ FreezeCheck(r) \/ AttachCheck(r)
           \/ ApiCrash(r) \/ (\E type \in JobType : AskJob(r, type))
           \/ (\E policy \in Policy : Approve(r, policy) \/ Freeze(r, policy))
           \/ \E candidate \in Candidate : AttachRead(r, candidate)
  BY <1>1 DEF Enqueue, Drift, CheckFile, FreezeCheck, AttachCheck, ApiCrash, AskJob, Approve,
              Freeze, StartApproval, AttachRead, NoWorker, History
<1>2. CASE DriftWrite(r)
  BY <1>0, <1>2 DEF DriftWrite, Write, NoWorker, Row
<1>3. CASE WriteSummary(r)
  BY <1>0, <1>3 DEF WriteSummary, Write, NoWorker, Row
<1>4. CASE AttachWrite(r)
  BY <1>0, <1>4 DEF AttachWrite, Write, NoWorker, Row
<1>5. CASE WriteRows(r) \/ WriteContract(r) \/ CreateFile(r)
  BY <1>0, <1>5 DEF WriteRows, WriteContract, CreateFile, NoWorker, Disk
<1>6. CASE FreezeWrite(r)
  <2>1. row'.target \in {row.target, Payload(r)}
    BY <1>0, <1>6 DEF FreezeWrite, Write, Row
  <2>2. row.target # None => row.target = Payload(r)
    BY <1>6 DEF FreezeWrite, TargetInv, On
  <2> QED
    BY <1>6, <2>1, <2>2 DEF FreezeWrite, NoWorker
<1>7. CASE Delete(r) \/ Remove(r)
  BY <1>7 DEF Delete, Remove, IInv, RemoveInv
<1> QED
  BY <1>1, <1>2, <1>3, <1>4, <1>5, <1>6, <1>7 DEF RequestStep

\* Only a request that found the session past its replay attaches a candidate.
LEMMA RequestAttaches ==
  ASSUME OneAtATime, IInv, ReplayInv, NEW r \in Request, RequestStep(r), ~Create(r), ~wiped'
  PROVE  /\ row'.status \in Past \/ row'.candidate # None \/ row'.evaluation # None => Replayed
         /\ request'[r].step \in {"attach", "attached"} => Replayed
<1>0. row \in Row /\ disk \in Disk /\ request \in [Request -> RequestState]
  BY DEF IInv, TypeInv, TypeOK
<1>1. row.status \in Past \/ row.candidate # None \/ row.evaluation # None => Replayed
  BY DEF ReplayInv
<1>2. ASSUME Answer(r) PROVE request'[r].step = "idle"
  BY <1>0, <1>2, AnswerType
<1>3. ASSUME NEW step \in RequestAt, Goes(r, step)
      PROVE  request'[r].step = step
  BY <1>0, <1>3, GoesType
<1>4. ASSUME NEW state, Send(r, state)
      PROVE  request'[r] = state
  BY <1>0, <1>4 DEF Send
<1>5. CASE Enqueue(r) \/ Drift(r) \/ CheckFile(r) \/ FreezeCheck(r) \/ ApiCrash(r)
           \/ WriteRows(r) \/ CreateFile(r)
  <2>1. row' = row
    BY <1>5 DEF Enqueue, Drift, CheckFile, FreezeCheck, ApiCrash, WriteRows, CreateFile
  <2>2. request'[r].step \notin {"attach", "attached"}
    BY <1>2, <1>3, <1>5
       DEF Enqueue, Drift, CheckFile, FreezeCheck, ApiCrash, WriteRows, CreateFile, RequestAt
  <2> QED
    BY <1>1, <2>1, <2>2
<1>6. CASE WriteContract(r)
  <2>1. row' = row
    BY <1>6 DEF WriteContract
  <2>2. CASE \E contract : Send(r, [request[r] EXCEPT !.step = "summary", !.contract = contract])
    BY <1>0, <1>1, <1>4, <2>1, <2>2 DEF RequestState
  <2> QED
    BY <1>1, <1>2, <1>6, <2>1, <2>2 DEF WriteContract
<1>7. CASE WriteSummary(r)
  <2>1. /\ row'.status = row.status /\ row'.candidate = row.candidate
        /\ row'.evaluation = row.evaluation
    BY <1>0, <1>7 DEF WriteSummary, Write, Row
  <2>2. CASE Send(r, [request[r] EXCEPT !.step = "file", !.session = row'])
    BY <1>0, <1>1, <1>4, <2>1, <2>2 DEF RequestState
  <2> QED
    BY <1>1, <1>2, <1>7, <2>1, <2>2 DEF WriteSummary
<1>8. CASE DriftWrite(r) \/ FreezeWrite(r)
  <2>1. /\ row'.status \in {row.status, "failed", "target_frozen"}
        /\ row'.candidate = row.candidate /\ row'.evaluation = row.evaluation
    <3>1. CASE DriftWrite(r)
      BY <1>0, <3>1 DEF DriftWrite, Write, Row
    <3>2. CASE FreezeWrite(r)
      BY <1>0, <3>2 DEF FreezeWrite, Write, Row
    <3> QED
      BY <1>8, <3>1, <3>2
  <2>2. request'[r].step = "idle"
    BY <1>2, <1>8 DEF DriftWrite, FreezeWrite
  <2> QED
    BY <1>1, <2>1, <2>2, StatusPast
<1>9. CASE AttachCheck(r) \/ AttachWrite(r)
  BY <1>9 DEF AttachCheck, AttachWrite, On, ReplayInv
<1>10. CASE \E candidate \in Candidate : AttachRead(r, candidate)
  BY <1>1, <1>10 DEF AttachRead, Past
<1>11. CASE \E type \in JobType : AskJob(r, type)
  <2>1. row' = row
    BY <1>11 DEF AskJob
  <2>2. request'[r].step \in {"drift", "enqueue"}
    BY <1>4, <1>11 DEF AskJob, IdleRequest
  <2> QED
    BY <1>1, <2>1, <2>2
<1>12. CASE \E policy \in Policy : Approve(r, policy) \/ Freeze(r, policy)
  <2>1. row' = row
    BY <1>12 DEF Approve, Freeze, StartApproval
  <2>2. ASSUME NEW policy \in Policy, NEW freezing \in BOOLEAN, StartApproval(r, policy, freezing)
        PROVE  request'[r].step = "rows"
    BY <1>4, <2>2 DEF StartApproval, IdleRequest
  <2>3. CASE Send(r, [IdleRequest EXCEPT !.step = "file", !.session = row,
                                         !.contract = disk.contract])
    BY <1>1, <1>4, <2>1, <2>3 DEF IdleRequest
  <2> QED
    BY <1>1, <1>12, <2>1, <2>2, <2>3 DEF Approve, Freeze
<1>13. CASE Delete(r) \/ Remove(r)
  BY <1>13 DEF Delete, Remove, IInv, RemoveInv
<1> QED
  BY <1>5, <1>6, <1>7, <1>8, <1>9, <1>10, <1>11, <1>12, <1>13 DEF RequestStep

LEMMA ReplayRequest ==
  ASSUME OneAtATime, IInv, TargetInv, ReplayInv, NEW r \in Request, RequestStep(r), ~Create(r),
         ~wiped'
  PROVE  ReplayInv'
<1>1. /\ worker' = worker /\ (job # None => job' = job)
      /\ row.target # None => row'.target = row.target
      /\ disk'.replay = disk.replay
  BY RequestKeeps
<1>2. /\ row'.status \in Past \/ row'.candidate # None \/ row'.evaluation # None => Replayed
      /\ request'[r].step \in {"attach", "attached"} => Replayed
  BY RequestAttaches
<1>3. Replayed => Replayed'
  BY <1>1 DEF Replayed
<1>4. worker.step # "idle" => job' = job
  BY <1>1 DEF IInv, TypeInv, TypeOK
<1>5. \A q \in Request : q = r
  BY DEF OneAtATime
<1>6. CASE worker.step \in {"idle", "begin"}
  BY <1>1, <1>2, <1>3, <1>5, <1>6 DEF ReplayInv, At, Active
<1>7. CASE worker.step \notin {"idle", "begin"}
  BY <1>1, <1>2, <1>3, <1>4, <1>5, <1>7 DEF ReplayInv, At, Active
<1> QED
  BY <1>6, <1>7

LEMMA ReplayStep ==
  ASSUME OneAtATime, IInv, ~wiped => TargetInv /\ ReplayInv, [Next]_vars
  PROVE  ~wiped' => ReplayInv'
<1> SUFFICES ASSUME ~wiped' PROVE ReplayInv'
  OBVIOUS
<1>0. TypeInv
  BY DEF IInv
<1>1. CASE WorkerStep \/ Raise \/ Crash \/ Cancel \/ DataChange
  <2>1. ReplayInv
    BY <1>0, <1>1, WorkerKeeps
  <2> QED
    BY <1>0, <1>1, <2>1, ReplayBegin, ReplayWork, ReplayPublish, ReplayFails DEF WorkerStep
<1>2. ASSUME NEW r \in Request, RequestStep(r) PROVE ReplayInv'
  <2>1. CASE Create(r)
    BY <2>1, CreateFresh, StatusPast DEF Fresh, ReplayInv, NoRow, At, Active
  <2>2. CASE Remove(r) \/ Delete(r)
    BY <2>2 DEF Remove, Delete, IInv, RemoveInv
  <2>3. CASE ~(Create(r) \/ Delete(r) \/ Remove(r))
    <3>1. wiped' = wiped
      BY <1>2, <2>3, RequestKeepsDirectory
    <3> QED
      BY <1>2, <2>3, <3>1, ReplayRequest
  <2> QED
    BY <2>1, <2>2, <2>3
<1>3. CASE UNCHANGED vars
  BY <1>3 DEF vars, ReplayInv, Replayed, At, Active
<1> QED
  BY <1>1, <1>2, <1>3 DEF Next

\* A candidate is attached to, evaluated on and handed off with a replay of the frozen
\* target, while requests about the session do not overlap, whatever jobs are
\* retried, cancelled or left behind.
THEOREM ReplayKept ==
  ASSUME OneAtATime
  PROVE  Spec => []ReplayIsOfTarget
<1>1. Init => (~wiped => ReplayInv)
  BY StatusPast DEF Init, ReplayInv, NoRow, IdleRequest, IdleWorker, At, Active
<1>2. IInv /\ (~wiped => TargetInv) /\ (~wiped => ReplayInv) /\ [Next]_vars
        => (~wiped' => ReplayInv')
  BY ReplayStep
<1>3. (~wiped => ReplayInv) => ReplayIsOfTarget
  BY DEF ReplayInv, Replayed, ReplayIsOfTarget, Past
<1> QED
  BY <1>1, <1>2, <1>3, Inductive, TargetInvariance, PTL DEF Spec

-----------------------------------------------------------------------------
(* The handoff.  The job of the session and the one thread keep out of each     *)
(* other's way, so the candidate in the row is the one that is being evaluated; *)
(* what was accepted then stays true of the row until another is attached.  All *)
(* of it holds for sessions that were deleted under a job, too.                 *)

Waits == worker.step \in {"idle", "begin"}
Early == job \in {"atlas", "walk_forward"}
Scoring == job = "evaluation" /\ worker.step \in {"score", "publish", "published"}
Attaching == {"attach", "attached"}
Asking(r) ==
  On(r, "drift") \/ On(r, "drifted") \/ (On(r, "enqueue") /\ request[r].type = "evaluation")

\* What the scope's one job and the thread say of the status.
ScopeInv ==
  /\ Early /\ ~Waits => row.status \notin Past
  /\ job = "evaluation" => row.status \notin {"atlas_ready", "walk_forward_ready"}
  /\ job = "evaluation" /\ row.status = "evaluated" =>
       worker.step \in {"idle", "begin", "accept", "accepted", "fail", "failed"}
  /\ \A r \in Request :
       /\ request[r].step \in Attaching =>
            /\ Early => Waits /\ row.status \in Past
            /\ job = "evaluation" => row.status = "evaluated"
       /\ Asking(r) =>
            /\ row.status \notin {"atlas_ready", "walk_forward_ready"}
            /\ Early => Waits /\ row.status \in Past
       /\ request[r].step \in Holding => job # "evaluation"

\* An accepted evaluation in a copy of the row is of its candidate and target.
Backed(copy) ==
  copy.candidate # None /\ copy.evaluation # None /\ copy.evaluation.accepted =>
    /\ copy.target # None
    /\ [candidate |-> copy.candidate, target |-> copy.target, accepted |-> TRUE] \in passed

\* The worker evaluates and hands off what the row holds.
VerdictInv ==
  /\ Scoring /\ row.candidate # None =>
       worker.session.candidate = row.candidate /\ worker.session.target = row.target
  /\ Scoring /\ ~At("score") =>
       /\ worker.verdict.candidate = worker.session.candidate
       /\ worker.verdict.target = worker.session.target /\ worker.session.target # None
  /\ Backed(row)
  /\ At("export") => Backed(worker.session)
  /\ job = "handoff" /\ worker.step \in {"publish", "published"} => worker.verdict \in passed
  /\ HandoffWasAccepted
  /\ \A r \in Request : On(r, "frozen") => row.target \in {None, Payload(r)}

-----------------------------------------------------------------------------
(* The job and the thread.                                                 *)

\* The job ends or its worker dies.
LEMMA ScopeEnds ==
  ASSUME ScopeInv, request' = request, worker'.step = "idle", job' \in {job, None},
         row'.status = row.status
  PROVE  ScopeInv'
<1>1. None \notin JobType
  BY DiscoveryAssumption
<1> QED
  BY <1>1 DEF ScopeInv, Early, Waits, Asking, On, JobType

\* The job ends with a new status.
LEMMA ScopeSettles ==
  ASSUME TypeInv, ScopeInv, request' = request, worker'.step = "idle", job' = None,
         row'.status \in {"atlas_ready", "walk_forward_ready"} => Early /\ ~Waits
  PROVE  ScopeInv'
<1>1. None \notin JobType
  BY DiscoveryAssumption
<1> QED
  BY <1>1 DEF ScopeInv, Early, Asking, On, JobType

\* The worker goes on with the session where it is.
LEMMA ScopeGoes ==
  ASSUME ScopeInv, request' = request, job' = job, row'.status = row.status, ~Waits,
         worker'.step \in {"fail", "failed"} \/ job # "evaluation" \/ Scoring \/
           (At("accept") /\ worker'.step = "accepted")
  PROVE  ScopeInv'
BY DEF ScopeInv, Early, Waits, Asking, On, Scoring, At

LEMMA ScopeBegin ==
  ASSUME TypeInv, ScopeInv, Claim \/ Begin \/ Mark
  PROVE  ScopeInv'
<1>0. row \in Row /\ worker \in Worker
  BY DEF TypeInv, TypeOK
<1>1. CASE Claim
  <2>1. worker'.step = "begin" /\ worker.step = "idle"
    BY <1>0, <1>1, MoveType DEF Claim, At, WorkerAt
  <2> QED
    BY <1>1, <2>1 DEF Claim, ScopeInv, Early, Waits, Asking, On
<1>2. CASE Begin
  <2>1. UNCHANGED <<row, request>> /\ worker.step = "begin"
    BY <1>2 DEF Begin, At
  <2>2. CASE JobEnds
    BY <2>1, <2>2, ScopeEnds DEF JobEnds, IdleWorker
  <2>3. CASE Startable /\ Goto("mark") /\ UNCHANGED job
    <3>1. worker'.step = "mark"
      BY <1>0, <2>3, MoveType DEF WorkerAt
    <3>2. Legal(Running[job])
      BY <2>3 DEF Startable
    <3>3. Early => row.status \notin Past
      BY <3>2 DEF Legal, Early, Past, Running, Transitions
    <3>4. job = "evaluation" => row.status # "evaluated"
      BY <3>2 DEF Legal, Running, Transitions
    <3> QED
      BY <2>1, <2>3, <3>1, <3>3, <3>4 DEF ScopeInv, Early, Waits, Asking, On
  <2> QED
    BY <1>2, <2>2, <2>3 DEF Begin
<1>3. CASE Mark
  <2>0. request' = request /\ worker.step = "mark" /\ job \in JobType
    BY <1>3 DEF Mark, At, TypeInv, TypeOK
  <2>1. row.status = "absent" => row' = row
    BY <1>3 DEF Mark, Write
  <2>2. row.status # "absent" => row'.status = Running[job]
    BY <1>0, <1>3 DEF Mark, Write, Row
  <2>3. CASE row.status = "absent"
    <3>1. JobEnds
      BY <1>3, <2>3 DEF Mark
    <3> QED
      BY <2>0, <2>1, <2>3, <3>1, ScopeEnds DEF JobEnds, IdleWorker
  <2>4. CASE row.status # "absent"
    <3>1. worker'.step = FirstStep[job] /\ job' = job
      BY <1>0, <1>3, <2>4 DEF Mark, Worker
    <3>2. worker'.step \in {"inventory", "replay", "score", "export"}
      BY <2>0, <3>1, JobFacts
    <3>3. /\ Early => Running[job] \notin Past
          /\ Running[job] \notin {"atlas_ready", "walk_forward_ready", "evaluated"}
      BY <2>0 DEF Early, Past, Running, JobType
    <3> QED
      BY <2>0, <2>2, <2>4, <3>1, <3>2, <3>3 DEF ScopeInv, Early, Waits, Asking, On
  <2> QED
    BY <2>3, <2>4
<1> QED
  BY <1>1, <1>2, <1>3

\* Where the steps of the worker that leave the row and the job alone are taken.
LEMMA WorkAt ==
  /\ (Inventory => At("inventory")) /\ (Open => At("open")) /\ (WritePart => At("part"))
  /\ (WriteCheckpoint => At("checkpoint")) /\ (WriteLabels => At("part"))
  /\ (WriteFeasibility => At("feasibility")) /\ (Replay => At("replay"))
  /\ (Score => At("score")) /\ (Export => At("export"))
  /\ (Publish => At("publish")) /\ (Accept => At("accept"))
  /\ \/ Inventory \/ Open \/ WritePart \/ WriteCheckpoint \/ WriteLabels \/ WriteFeasibility
     \/ Replay \/ Score \/ Export \/ Publish \/ Accept
     => UNCHANGED <<row, job, request, passed>>
<1>1. Inventory => At("inventory") /\ UNCHANGED <<row, job, request, passed>>
  BY DEF Inventory, History
<1>2. Open => At("open") /\ UNCHANGED <<row, job, request, passed>>
  BY DEF Open, History
<1>3. WritePart => At("part") /\ UNCHANGED <<row, job, request, passed>>
  BY DEF WritePart, History
<1>4. WriteCheckpoint => At("checkpoint") /\ UNCHANGED <<row, job, request, passed>>
  BY DEF WriteCheckpoint, History
<1>5. WriteFeasibility => At("feasibility") /\ UNCHANGED <<row, job, request, passed>>
  BY DEF WriteFeasibility, History
<1>6. Replay => At("replay") /\ UNCHANGED <<row, job, request, passed>>
  BY DEF Replay, History
<1>7. Export => At("export") /\ UNCHANGED <<row, job, request, passed>>
  BY DEF Export, History
<1>8. Publish => At("publish") /\ UNCHANGED <<row, job, request, passed>>
  BY DEF Publish, History
<1>9. Accept => At("accept") /\ UNCHANGED <<row, job, request, passed>>
  BY DEF Accept, History
<1>10. UNCHANGED <<row, job, request, History>> => UNCHANGED <<row, job, request, passed>>
  BY DEF History
<1>11. WriteLabels => At("part") /\ UNCHANGED <<row, job, request, History>>
  BY Zenon DEF WriteLabels
<1>12. Score => At("score") /\ UNCHANGED <<row, job, request, History>>
  BY Zenon DEF Score
<1> QED
  BY <1>1, <1>2, <1>3, <1>4, <1>5, <1>6, <1>7, <1>8, <1>9, <1>10, <1>11, <1>12

LEMMA ScopeWork ==
  ASSUME TypeInv, ScopeInv,
         \/ Inventory \/ Open \/ WritePart \/ WriteCheckpoint \/ WriteLabels \/ WriteFeasibility
         \/ Replay \/ Score \/ Export \/ Publish \/ Accept
  PROVE  ScopeInv'
<1>0. worker \in Worker
  BY DEF TypeInv, TypeOK
<1>1. /\ UNCHANGED <<row, job, request>>
      /\ worker.step \in {"inventory", "open", "part", "checkpoint", "feasibility", "replay",
                          "score", "export", "publish", "accept"}
  BY WorkAt DEF At
<1>2. CASE At("accept")
  <2>1. Accept
    BY <1>2, WorkAt, SMT DEF At
  <2>2. worker'.step \in {"accepted", "fail"}
    BY <1>0, <2>1, MoveType DEF Accept, WorkerAt
  <2> QED
    BY <1>1, <1>2, <2>2, ScopeGoes DEF At, Waits
<1>3. CASE ~At("accept")
  <2>1. job # "evaluation" \/ Scoring
    BY <1>1, <1>3 DEF At, Scoring, TypeInv, StepInv
  <2> QED
    BY <1>1, <2>1, ScopeGoes DEF Waits
<1> QED
  BY <1>2, <1>3

LEMMA ScopePublish ==
  ASSUME TypeInv, ScopeInv, PublishWrite \/ AcceptWrite
  PROVE  ScopeInv'
<1>0. row \in Row /\ worker \in Worker /\ job \in JobType /\ ~Waits /\ request' = request
  BY DEF TypeInv, TypeOK, PublishWrite, AcceptWrite, At, Waits
<1>1. ASSUME NEW step \in WorkerAt, Goto(step) PROVE worker'.step = step
  BY <1>0, <1>1, MoveType
<1>2. CASE row.status = "absent"
  <2>1. row' = row /\ Goto("fail") /\ job' = job
    BY <1>2 DEF PublishWrite, AcceptWrite, Write
  <2> QED
    BY <1>0, <1>1, <2>1, ScopeGoes DEF WorkerAt
<1>3. CASE PublishWrite /\ row.status # "absent"
  <2>1. row'.status = Done[job]
    BY <1>3, PublishedValues
  <2>2. CASE JobEnds
    <3>1. Done[job] \in {"atlas_ready", "walk_forward_ready"} => Early
      BY <1>0 DEF Done, Early, JobType
    <3> QED
      BY <1>0, <2>1, <2>2, <3>1, ScopeSettles DEF JobEnds, IdleWorker
  <2>3. CASE job = "evaluation" /\ Goto("accept") /\ job' = job
    <3>1. worker'.step = "accept" /\ row'.status = "evaluated"
      BY <1>1, <2>1, <2>3 DEF WorkerAt, Done
    <3>2. worker.step = "published"
      BY <1>3 DEF PublishWrite, At
    <3> QED
      BY <1>0, <2>3, <3>1, <3>2 DEF ScopeInv, Early, Asking, On
  <2> QED
    BY <1>3, <2>2, <2>3, ZenonT(30) DEF PublishWrite
<1>4. CASE AcceptWrite /\ row.status # "absent"
  <2>1. row'.status = "accepted" /\ JobEnds
    BY <1>0, <1>4 DEF AcceptWrite, Write, Row
  <2> QED
    BY <1>0, <2>1, ScopeSettles DEF JobEnds, IdleWorker
<1> QED
  BY <1>2, <1>3, <1>4

LEMMA ScopeFails ==
  ASSUME TypeInv, ScopeInv, Fail \/ FailWrite \/ Raise \/ Crash \/ Cancel \/ DataChange
  PROVE  ScopeInv'
<1>0. row \in Row /\ worker \in Worker /\ request' = request
  BY DEF TypeInv, TypeOK, Fail, FailWrite, Raise, Crash, Cancel, DataChange
<1>1. ASSUME row' = row, job' = job, NEW step \in {"fail", "failed"}, Goto(step), ~Waits
      PROVE  ScopeInv'
  <2>1. worker'.step = step
    BY <1>0, <1>1, MoveType DEF WorkerAt
  <2> QED
    BY <1>0, <1>1, <2>1, ScopeGoes
<1>2. ASSUME row' = row, worker' = IdleWorker, job' \in {job, None} PROVE ScopeInv'
  BY <1>0, <1>2, ScopeEnds DEF IdleWorker
<1>3. CASE Fail
  BY <1>1, <1>2, <1>3 DEF Fail, JobEnds, At, Waits
<1>4. CASE FailWrite
  <2>1. row'.status \in {row.status, "failed"} /\ JobEnds
    BY <1>0, <1>4 DEF FailWrite, Failed, Write, Row
  <2>2. worker'.step = "idle" /\ job' = None
    BY <2>1 DEF JobEnds, IdleWorker
  <2>3. CASE row'.status = row.status
    BY <1>0, <2>2, <2>3, ScopeEnds
  <2>4. CASE row'.status = "failed"
    BY <1>0, <2>2, <2>4, ScopeSettles
  <2> QED
    BY <2>1, <2>3, <2>4
<1>5. CASE Raise
  BY <1>1, <1>2, <1>5 DEF Raise, JobEnds, InTry, Waits
<1>6. CASE Crash
  BY <1>2, <1>6 DEF Crash
<1>7. CASE Cancel
  BY <1>0, <1>7, ScopeEnds DEF Cancel, At
<1>8. CASE DataChange
  BY <1>8 DEF DataChange, ScopeInv, Early, Waits, Asking, On
<1> QED
  BY <1>3, <1>4, <1>5, <1>6, <1>7, <1>8

\* A request leaves the worker alone and starts a job only where there is none.
LEMMA RequestWorker ==
  ASSUME NEW r \in Request, RequestStep(r)
  PROVE  /\ worker' = worker /\ passed' = passed
         /\ ~Enqueue(r) => job' = job
<1>1. CASE Enqueue(r) \/ ApiCrash(r)
  BY <1>1 DEF Enqueue, ApiCrash, History
<1>2. CASE Create(r) \/ Delete(r) \/ Remove(r) \/ Drift(r) \/ DriftWrite(r) \/ WriteSummary(r)
           \/ AttachWrite(r) \/ FreezeWrite(r) \/ WriteRows(r) \/ CreateFile(r)
  BY <1>2 DEF Create, Delete, Remove, Drift, DriftWrite, WriteSummary, AttachWrite, FreezeWrite,
              WriteRows, CreateFile, NoWorker
<1>3. CASE WriteContract(r)
  BY <1>3 DEF WriteContract, NoWorker
<1>4. CASE CheckFile(r) \/ FreezeCheck(r) \/ AttachCheck(r)
  BY <1>4 DEF CheckFile, FreezeCheck, AttachCheck, NoWorker
<1>5. CASE \E policy \in Policy : Approve(r, policy) \/ Freeze(r, policy)
  BY <1>5 DEF Approve, Freeze, StartApproval, NoWorker
<1>6. CASE \E type \in JobType : AskJob(r, type)
  BY <1>6 DEF AskJob, NoWorker
<1>7. CASE \E candidate \in Candidate : AttachRead(r, candidate)
  BY <1>7 DEF AttachRead, NoWorker
<1> QED
  BY <1>1, <1>2, <1>3, <1>4, <1>5, <1>6, <1>7 DEF RequestStep

\* What the thread does next and the status it leaves: a thread that is about to
\* attach, to freeze or to ask for an evaluation found the status that allows it.
ThreadFits(r) ==
  /\ request'[r].step \in Attaching =>
       \/ /\ request[r].step \in Attaching /\ row'.status = row.status
       \/ row'.status = row.status /\ row.status \in {"walk_forward_ready", "evaluated"}
  /\ Asking(r)' =>
       \/ Asking(r) /\ row'.status = row.status
       \/ row'.status = row.status /\ row.status = "candidate_attached"
  /\ request'[r].step \in Holding =>
       \/ request[r].step \in Holding /\ row'.status = row.status
       \/ row'.status = row.status /\ row.status = "atlas_ready"
  /\ \/ row'.status = row.status
     \/ row'.status \in {"absent", "draft"}
     \/ row'.status = "failed" /\ Asking(r)
     \/ row'.status = "target_frozen" /\ request[r].step \in Holding
     \/ row'.status = "candidate_attached" /\ request[r].step \in Attaching
  /\ On(r, "frozen")' => FreezeCheck(r)

LEMMA ThreadMoves ==
  ASSUME TypeInv, NEW r \in Request, RequestStep(r)
  PROVE  ThreadFits(r)
<1>0. row \in Row /\ request \in [Request -> RequestState]
  BY DEF TypeInv, TypeOK
<1>1. ASSUME Answer(r) PROVE request'[r].step = "idle"
  BY <1>0, <1>1, AnswerType
<1>2. ASSUME NEW step \in RequestAt, Goes(r, step)
      PROVE  request'[r].step = step /\ request'[r].type = request[r].type
  BY <1>0, <1>2 DEF Goes, Send, RequestState
<1>3. ASSUME NEW state, Send(r, state)
      PROVE  request'[r] = state
  BY <1>0, <1>3 DEF Send
<1>4. ASSUME request'[r].step = "idle",
             \/ row'.status \in {row.status, "absent", "draft"}
             \/ row'.status = "failed" /\ Asking(r)
             \/ row'.status = "target_frozen" /\ request[r].step \in Holding
             \/ row'.status = "candidate_attached" /\ request[r].step \in Attaching
      PROVE  ThreadFits(r)
  BY <1>4 DEF ThreadFits, Asking, On, Attaching, Holding
<1>5. CASE ApiCrash(r) \/ Enqueue(r)
  BY <1>1, <1>4, <1>5 DEF ApiCrash, Enqueue
<1>6. CASE Create(r)
  <2>1. row'.status = "draft" /\ request'[r].step = "idle"
    BY <1>6 DEF Create, Idle, NoRow
  <2> QED
    BY <1>4, <2>1
<1>7. CASE Remove(r)
  BY <1>1, <1>4, <1>7 DEF Remove, NoRow
<1>8. CASE Delete(r)
  <2>1. row'.status = row.status /\ request'[r].step = "remove"
    BY <1>3, <1>8 DEF Delete, IdleRequest
  <2> QED
    BY <2>1 DEF ThreadFits, Asking, On, Attaching, Holding
<1>9. CASE Drift(r)
  <2>1. row' = row /\ On(r, "drift")
    BY <1>9 DEF Drift
  <2>2. CASE Goes(r, "drifted")
    <3>1. request'[r].step = "drifted"
      BY <1>2, <2>2 DEF RequestAt
    <3> QED
      BY <2>1, <3>1 DEF ThreadFits, Asking, On, Attaching, Holding
  <2> QED
    BY <1>1, <1>4, <1>9, <2>1, <2>2 DEF Drift
<1>10. CASE DriftWrite(r)
  <2>1. row'.status \in {row.status, "failed"}
    BY <1>0, <1>10 DEF DriftWrite, Write, Row
  <2>2. request'[r].step = "idle" /\ Asking(r)
    BY <1>1, <1>10 DEF DriftWrite, Asking
  <2> QED
    BY <1>4, <2>1, <2>2
<1>11. CASE AttachCheck(r)
  <2>1. row' = row /\ On(r, "attach")
    BY <1>11 DEF AttachCheck
  <2>2. CASE Goes(r, "attached")
    <3>1. request'[r].step = "attached"
      BY <1>2, <2>2 DEF RequestAt
    <3> QED
      BY <2>1, <3>1 DEF ThreadFits, Asking, On, Attaching, Holding
  <2> QED
    BY <1>1, <1>4, <1>11, <2>1, <2>2 DEF AttachCheck
<1>12. CASE AttachWrite(r)
  <2>1. row'.status \in {row.status, "candidate_attached"}
    BY <1>0, <1>12 DEF AttachWrite, Write, Row
  <2>2. request'[r].step = "idle" /\ request[r].step \in Attaching
    BY <1>1, <1>12 DEF AttachWrite, On, Attaching
  <2> QED
    BY <1>4, <2>1, <2>2
<1>13. CASE FreezeWrite(r)
  <2>1. row'.status \in {row.status, "target_frozen"}
    BY <1>0, <1>13 DEF FreezeWrite, Write, Row
  <2>2. request'[r].step = "idle" /\ request[r].step \in Holding
    BY <1>1, <1>13 DEF FreezeWrite, On, Holding
  <2> QED
    BY <1>4, <2>1, <2>2
<1>14. ASSUME request[r].step \in Holding, row'.status = row.status,
              request'[r].step \in Holding \cup {"idle"},
              request'[r].step = "frozen" => FreezeCheck(r)
       PROVE  ThreadFits(r)
  BY <1>14 DEF ThreadFits, Asking, On, Attaching, Holding
<1>15. CASE WriteRows(r) \/ CheckFile(r) \/ CreateFile(r) \/ FreezeCheck(r)
  <2>1. row' = row /\ request[r].step \in Holding
    BY <1>15 DEF WriteRows, CheckFile, CreateFile, FreezeCheck, On, Holding
  <2>2. \/ Answer(r) \/ Goes(r, "contract") \/ Goes(r, "freeze") \/ Goes(r, "create_file")
        \/ Goes(r, "frozen")
    BY <1>15 DEF WriteRows, CheckFile, CreateFile, FreezeCheck
  <2>3. request'[r].step \in Holding \cup {"idle"}
    BY <1>1, <1>2, <2>2 DEF Holding, RequestAt
  <2>4. CASE FreezeCheck(r)
    BY <1>14, <2>1, <2>3, <2>4
  <2>5. CASE WriteRows(r) \/ CheckFile(r) \/ CreateFile(r)
    <3>1. \/ Answer(r) \/ Goes(r, "contract") \/ Goes(r, "freeze") \/ Goes(r, "create_file")
      BY <2>5 DEF WriteRows, CheckFile, CreateFile
    <3>2. request'[r].step # "frozen"
      BY <1>1, <1>2, <3>1 DEF RequestAt
    <3> QED
      BY <1>14, <2>1, <2>3, <3>2
  <2> QED
    BY <1>15, <2>4, <2>5
<1>16. CASE WriteContract(r)
  <2>1. row' = row /\ request[r].step \in Holding
    BY <1>16 DEF WriteContract, On, Holding
  <2>2. CASE \E contract : Send(r, [request[r] EXCEPT !.step = "summary", !.contract = contract])
    <3>1. request'[r].step = "summary"
      BY <1>0, <1>3, <2>2 DEF RequestState
    <3> QED
      BY <1>14, <2>1, <3>1 DEF Holding
  <2>3. CASE Answer(r)
    BY <1>1, <1>14, <2>1, <2>3
  <2> QED
    BY <1>16, <2>2, <2>3, Zenon DEF WriteContract
<1>17. CASE WriteSummary(r)
  <2>1. row'.status = row.status /\ request[r].step \in Holding
    BY <1>0, <1>17 DEF WriteSummary, Write, Row, On, Holding
  <2>2. CASE Send(r, [request[r] EXCEPT !.step = "file", !.session = row'])
    <3>1. request'[r].step = "file"
      BY <1>0, <1>3, <2>2 DEF RequestState
    <3> QED
      BY <1>14, <2>1, <3>1 DEF Holding
  <2>3. CASE Answer(r)
    BY <1>1, <1>14, <2>1, <2>3
  <2> QED
    BY <1>17, <2>2, <2>3 DEF WriteSummary
<1>18. CASE \E type \in JobType : AskJob(r, type)
  <2>1. PICK type \in JobType : AskJob(r, type)
    BY <1>18
  <2>2. row' = row
    BY <2>1 DEF AskJob
  <2>3. /\ request'[r].type = type /\ request'[r].step \in {"drift", "enqueue"}
        /\ request'[r].step = "drift" => type = "evaluation"
    BY <1>3, <2>1 DEF AskJob, IdleRequest
  <2>4. type = "evaluation" => row.status = "candidate_attached"
    BY <2>1 DEF AskJob, Eligible
  <2> QED
    BY <2>2, <2>3, <2>4 DEF ThreadFits, Asking, On, Attaching, Holding
<1>19. CASE \E candidate \in Candidate : AttachRead(r, candidate)
  <2>1. row' = row /\ row.status \in {"walk_forward_ready", "evaluated"}
    BY <1>19 DEF AttachRead
  <2>2. request'[r].step = "attach"
    BY <1>3, <1>19 DEF AttachRead, IdleRequest
  <2> QED
    BY <2>1, <2>2 DEF ThreadFits, Asking, On, Attaching, Holding
<1>20. CASE \E policy \in Policy : Approve(r, policy) \/ Freeze(r, policy)
  <2>1. row' = row /\ row.status = "atlas_ready"
    BY <1>20 DEF Approve, Freeze, StartApproval
  <2>2. ASSUME NEW policy \in Policy, NEW freezing \in BOOLEAN, StartApproval(r, policy, freezing)
        PROVE  request'[r].step = "rows"
    BY <1>3, <2>2 DEF StartApproval, IdleRequest
  <2>3. CASE Send(r, [IdleRequest EXCEPT !.step = "file", !.session = row,
                                         !.contract = disk.contract])
    <3>1. request'[r].step = "file"
      BY <1>3, <2>3 DEF IdleRequest
    <3> QED
      BY <2>1, <3>1 DEF ThreadFits, Asking, On, Attaching, Holding
  <2>4. CASE request'[r].step = "rows"
    BY <2>1, <2>4 DEF ThreadFits, Asking, On, Attaching, Holding
  <2> QED
    BY <1>20, <2>2, <2>3, <2>4 DEF Approve, Freeze
<1> QED
  BY <1>5, <1>6, <1>7, <1>8, <1>9, <1>10, <1>11, <1>12, <1>13, <1>15, <1>16, <1>17, <1>18, <1>19,
     <1>20 DEF RequestStep

LEMMA ScopeRequest ==
  ASSUME OneAtATime, TypeInv, ScopeInv, NEW r \in Request, RequestStep(r)
  PROVE  ScopeInv'
<1>1. worker' = worker /\ (~Enqueue(r) => job' = job)
  BY RequestWorker
<1>2. ThreadFits(r)
  BY ThreadMoves
<1>3. \A q \in Request : q = r
  BY Zenon DEF OneAtATime
<1>4. "absent" \notin Past /\ "draft" \notin Past /\ "failed" \notin Past
      /\ "target_frozen" \notin Past /\ "atlas_ready" \notin Past
      /\ {"walk_forward_ready", "evaluated", "candidate_attached"} \subseteq Past
  BY DEF Past
<1>5. CASE Enqueue(r)
  <2>1. row' = row /\ job' = (IF job = None THEN request[r].type ELSE job)
    BY <1>5 DEF Enqueue
  <2>2. request'[r].step = "idle" /\ On(r, "enqueue")
    BY <1>5, AnswerType DEF Enqueue, TypeInv, TypeOK
  <2>3. job = None => worker.step = "idle"
    BY DEF TypeInv, TypeOK
  <2> QED
    BY <1>1, <1>3, <2>1, <2>2, <2>3
       DEF ScopeInv, Early, Waits, Asking, On, Attaching, Holding
<1>6. CASE ~Enqueue(r)
  <2>1. Early' = Early /\ Waits' = Waits /\ job' = job /\ worker' = worker
    BY <1>1, <1>6 DEF Early, Waits
  <2>2. Early /\ ~Waits => row'.status \notin Past
    BY <1>2, <1>4, <2>1 DEF ThreadFits, ScopeInv
  <2>3. job = "evaluation" => row'.status \notin {"atlas_ready", "walk_forward_ready"}
    BY <1>2, <2>1 DEF ThreadFits, ScopeInv
  <2>4. job = "evaluation" /\ row'.status = "evaluated" => row.status = "evaluated"
    BY <1>2, <2>1 DEF ThreadFits, ScopeInv
  <2>5. request'[r].step \in Attaching =>
          /\ Early => Waits /\ row'.status \in Past
          /\ job = "evaluation" => row'.status = "evaluated"
    BY <1>2, <1>4 DEF ThreadFits, ScopeInv
  <2>6. Asking(r)' =>
          /\ row'.status \notin {"atlas_ready", "walk_forward_ready"}
          /\ Early => Waits /\ row'.status \in Past
    BY <1>2, <1>4 DEF ThreadFits, ScopeInv
  <2>7. request'[r].step \in Holding => job # "evaluation"
    BY <1>2 DEF ThreadFits, ScopeInv
  <2> QED
    BY <1>3, <2>1, <2>2, <2>3, <2>4, <2>5, <2>6, <2>7 DEF ScopeInv
<1> QED
  BY <1>5, <1>6

LEMMA ScopeStep ==
  ASSUME OneAtATime, TypeInv, ScopeInv, [Next]_vars
  PROVE  ScopeInv'
<1>1. CASE WorkerStep \/ Raise \/ Crash \/ Cancel \/ DataChange
  BY <1>1, ScopeBegin, ScopeWork, ScopePublish, ScopeFails DEF WorkerStep
<1>2. CASE \E r \in Request : RequestStep(r)
  BY <1>2, ScopeRequest
<1>3. CASE UNCHANGED vars
  BY <1>3 DEF vars, ScopeInv, Early, Waits, Asking, On
<1> QED
  BY <1>1, <1>2, <1>3 DEF Next

-----------------------------------------------------------------------------
(* The verdict.                                                            *)

\* The worker is where it holds no verdict, and the row keeps what was decided.
LEMMA VerdictRests ==
  ASSUME VerdictInv, request' = request, row'.target = row.target,
         row'.candidate = row.candidate, row'.evaluation = row.evaluation,
         row'.handoff = row.handoff, passed' = passed, worker'.step \notin {"score", "export"},
         worker'.step \in {"publish", "published"} => job' \notin {"evaluation", "handoff"}
  PROVE  VerdictInv'
BY DEF VerdictInv, Scoring, Backed, HandoffWasAccepted, On, At, Payload

LEMMA VerdictMark ==
  ASSUME TypeInv, VerdictInv, Mark
  PROVE  VerdictInv'
<1>0. /\ row \in Row /\ worker \in Worker /\ job \in JobType
      /\ request' = request /\ passed' = passed
  BY DEF Mark, At, TypeInv, TypeOK, History
<1>1. /\ row'.target = row.target /\ row'.candidate = row.candidate
      /\ row'.evaluation = row.evaluation /\ row'.handoff = row.handoff
  BY <1>0 DEF Mark, Write, Row
<1>2. CASE JobEnds
  BY <1>0, <1>1, <1>2, VerdictRests DEF JobEnds, IdleWorker
<1>3. CASE worker' = [worker EXCEPT !.step = FirstStep[job], !.session = row'] /\ UNCHANGED job
  <2>1. worker'.step = FirstStep[job] /\ worker'.session = row'
    BY <1>0, <1>3 DEF Worker
  <2>2. worker'.step \in {"inventory", "replay", "score", "export"}
    BY <1>0, <2>1, JobFacts
  <2>3. Backed(row)'
    BY <1>0, <1>1 DEF VerdictInv, Backed
  <2>4. Backed(worker.session)'
    BY <2>1, <2>3 DEF Backed
  <2> QED
    BY <1>0, <1>1, <2>1, <2>2, <2>3, <2>4
       DEF VerdictInv, Scoring, HandoffWasAccepted, On, At, Payload
<1> QED
  BY <1>2, <1>3 DEF Mark

LEMMA VerdictScore ==
  ASSUME TypeInv, VerdictInv, Score
  PROVE  VerdictInv'
<1>0. UNCHANGED <<row, job, request, passed>> /\ At("score") /\ worker \in Worker
  BY WorkAt DEF TypeInv, TypeOK
<1>1. job = "evaluation"
  BY <1>0 DEF TypeInv, StepInv
<1>2. CASE Goto("fail")
  BY <1>0, <1>2, MoveType, VerdictRests DEF WorkerAt
<1>3. CASE ~Goto("fail")
  <2>0. PICK accepted \in BOOLEAN :
          worker' = [worker EXCEPT !.step = "publish",
                       !.verdict = [candidate |-> worker.session.candidate,
                                    target |-> worker.session.target, accepted |-> accepted]]
    BY <1>3, Zenon DEF Score
  <2> DEFINE verdict == [candidate |-> worker.session.candidate,
                         target |-> worker.session.target, accepted |-> accepted]
  <2>1. /\ worker' = [worker EXCEPT !.step = "publish", !.verdict = verdict]
        /\ verdict.candidate = worker.session.candidate
        /\ verdict.target = worker.session.target
    BY <2>0
  <2>2. worker.session.target # None
    BY <1>3, Zenon DEF Score
  <2> HIDE DEF verdict
  <2>3. worker'.step = "publish" /\ worker'.verdict = verdict /\ worker'.session = worker.session
    BY <1>0, <2>1 DEF Worker
  <2>4. Scoring
    BY <1>0, <1>1 DEF Scoring, At
  <2>5. Backed(row)'
    BY <1>0 DEF VerdictInv, Backed
  <2> QED
    BY <1>0, <1>1, <2>1, <2>2, <2>3, <2>4, <2>5
       DEF VerdictInv, Scoring, HandoffWasAccepted, On, At, Payload
<1> QED
  BY <1>2, <1>3

LEMMA VerdictExport ==
  ASSUME TypeInv, VerdictInv, Export
  PROVE  VerdictInv'
<1>0. UNCHANGED <<row, job, request, passed>> /\ At("export") /\ worker \in Worker
  BY WorkAt DEF TypeInv, TypeOK
<1>1. job = "handoff"
  BY <1>0 DEF TypeInv, StepInv
<1>2. CASE Goto("fail")
  BY <1>0, <1>2, MoveType, VerdictRests DEF WorkerAt
<1>3. CASE ~Goto("fail")
  <2> DEFINE verdict == [candidate |-> worker.session.candidate,
                         target |-> worker.session.target, accepted |-> TRUE]
  <2>1. worker' = [worker EXCEPT !.step = "publish", !.verdict = verdict]
    BY <1>3 DEF Export
  <2>2. /\ worker.session.candidate # None /\ worker.session.evaluation # None
        /\ worker.session.evaluation.accepted
    BY <1>3 DEF Export
  <2>3. verdict \in passed
    BY <1>0, <2>2 DEF VerdictInv, Backed
  <2> HIDE DEF verdict
  <2>4. worker'.step = "publish" /\ worker'.verdict = verdict
    BY <1>0, <2>1 DEF Worker
  <2>5. Backed(row)'
    BY <1>0 DEF VerdictInv, Backed
  <2> QED
    BY <1>0, <1>1, <2>3, <2>4, <2>5 DEF VerdictInv, Scoring, HandoffWasAccepted, On, At, Payload
<1> QED
  BY <1>2, <1>3

LEMMA VerdictPublish ==
  ASSUME TypeInv, VerdictInv, Publish
  PROVE  VerdictInv'
<1>0. UNCHANGED <<row, job, request, passed>> /\ At("publish") /\ worker \in Worker
  BY WorkAt DEF TypeInv, TypeOK
<1>1. /\ worker'.step \in {"published", "fail"} /\ worker'.session = worker.session
      /\ worker'.verdict = worker.verdict
  <2>1. Goto("published") \/ Goto("fail")
    BY DEF Publish
  <2> QED
    BY <1>0, <2>1, MoveType DEF WorkerAt, MoveKept, WorkerKept
<1>2. Backed(row)'
  BY <1>0 DEF VerdictInv, Backed
<1> QED
  BY <1>0, <1>1, <1>2 DEF VerdictInv, Scoring, HandoffWasAccepted, On, At, Payload

\* What a job that ends well writes of evaluation and handoff.
LEMMA PublishedVerdicts ==
  ASSUME TypeInv, PublishWrite
  PROVE  /\ Published.evaluation = (IF job = "evaluation" THEN worker.verdict ELSE row.evaluation)
         /\ Published.handoff = (IF job = "handoff" THEN worker.verdict ELSE row.handoff)
<1>1. job \in JobType
  BY DEF PublishWrite, At, TypeInv, TypeOK
<1>2. CASE job = "atlas"
  BY <1>2 DEF Published, Row, TypeInv, TypeOK
<1>3. CASE job = "walk_forward"
  BY <1>3 DEF Published, Row, TypeInv, TypeOK
<1>4. CASE job = "evaluation"
  BY <1>4 DEF Published, Row, TypeInv, TypeOK
<1>5. CASE job = "handoff"
  BY <1>5 DEF Published, Row, TypeInv, TypeOK
<1> QED
  BY <1>1, <1>2, <1>3, <1>4, <1>5 DEF JobType

LEMMA VerdictWrite ==
  ASSUME TypeInv, VerdictInv, PublishWrite
  PROVE  VerdictInv'
<1>0. At("published") /\ request' = request /\ worker \in Worker /\ job \in JobType
  BY DEF PublishWrite, At, TypeInv, TypeOK
<1>1. /\ row'.target = row.target /\ row'.candidate = row.candidate
      /\ passed \subseteq passed'
      /\ job = "evaluation" /\ worker.verdict.accepted => worker.verdict \in passed'
  BY PublishedValues DEF PublishWrite
<1>2. worker'.step \in {"idle", "accept", "fail"}
  <2>1. JobEnds \/ Goto("accept") \/ Goto("fail")
    BY Zenon DEF PublishWrite
  <2> QED
    BY <1>0, <2>1, MoveType DEF JobEnds, IdleWorker, WorkerAt
<1>3. /\ \/ row'.evaluation = row.evaluation
         \/ job = "evaluation" /\ row'.evaluation = worker.verdict
      /\ \/ row'.handoff = row.handoff
         \/ job = "handoff" /\ row'.handoff = worker.verdict
  BY PublishedValues, PublishedVerdicts
<1>4. job = "handoff" => worker.verdict \in passed
  BY <1>0 DEF VerdictInv, At
<1>5. HandoffWasAccepted'
  BY <1>1, <1>3, <1>4 DEF VerdictInv, HandoffWasAccepted
<1>6. Backed(row)'
  <2>1. CASE row'.evaluation = row.evaluation
    BY <1>1, <2>1 DEF VerdictInv, Backed
  <2>2. CASE job = "evaluation" /\ row'.evaluation = worker.verdict
    <3> SUFFICES ASSUME row.candidate # None, worker.verdict.accepted
                 PROVE  /\ row.target # None
                        /\ [candidate |-> row.candidate, target |-> row.target,
                            accepted |-> TRUE] \in passed'
      BY <1>1, <2>2 DEF Backed
    <3>1. /\ worker.verdict.candidate = row.candidate /\ worker.verdict.target = row.target
          /\ row.target # None
      BY <1>0, <2>2 DEF VerdictInv, Scoring, At
    <3>2. worker.verdict \in Verdict
      BY <1>0, <2>2 DEF TypeInv, StepInv, At
    <3>3. worker.verdict = [candidate |-> row.candidate, target |-> row.target, accepted |-> TRUE]
      BY <3>1, <3>2 DEF Verdict
    <3> QED
      BY <1>1, <2>2, <3>1, <3>3
  <2> QED
    BY <1>3, <2>1, <2>2
<1> QED
  BY <1>0, <1>1, <1>2, <1>5, <1>6 DEF VerdictInv, Scoring, On, At, Payload

LEMMA VerdictWorker ==
  ASSUME TypeInv, VerdictInv, WorkerStep \/ Raise \/ Crash \/ Cancel \/ DataChange
  PROVE  VerdictInv'
<1>0. /\ row \in Row /\ worker \in Worker
      /\ row'.target = row.target /\ row'.candidate = row.candidate /\ request' = request
  BY WorkerKeeps DEF SameTarget, TypeInv, TypeOK
<1>1. ASSUME NEW step \in WorkerAt, Goto(step) PROVE worker'.step = step
  BY <1>0, <1>1, MoveType
<1>2. JobEnds => worker'.step = "idle"
  BY DEF JobEnds, IdleWorker
<1>3. CASE Claim \/ Begin \/ Accept \/ Fail
  <2>1. row' = row /\ passed' = passed
    BY <1>3, WorkAt DEF Claim, Begin, Fail, History
  <2>2. \/ JobEnds \/ Goto("begin") \/ Goto("mark") \/ Goto("accepted") \/ Goto("fail")
        \/ Goto("failed")
    BY <1>3 DEF Claim, Begin, Accept, Fail
  <2>3. worker'.step \in {"idle", "begin", "mark", "accepted", "fail", "failed"}
    BY <1>1, <1>2, <2>2 DEF WorkerAt
  <2> QED
    BY <1>0, <2>1, <2>3, VerdictRests
<1>4. CASE AcceptWrite \/ FailWrite
  <2>1. row'.evaluation = row.evaluation /\ row'.handoff = row.handoff /\ passed' = passed
    BY <1>0, <1>4 DEF AcceptWrite, FailWrite, Failed, Write, Row, History
  <2>2. JobEnds \/ Goto("fail")
    BY <1>4 DEF AcceptWrite, FailWrite
  <2>3. worker'.step \in {"idle", "fail"}
    BY <1>1, <1>2, <2>2 DEF WorkerAt
  <2> QED
    BY <1>0, <2>1, <2>3, VerdictRests
<1>5. CASE \/ Inventory \/ Open \/ WritePart \/ WriteCheckpoint \/ WriteLabels \/ WriteFeasibility
           \/ Replay
  <2>1. UNCHANGED <<row, job, passed>> /\ job \notin {"evaluation", "handoff"}
    <3>1. /\ UNCHANGED <<row, job, passed>>
          /\ worker.step \in {"inventory", "open", "part", "checkpoint", "feasibility", "replay"}
      BY <1>5, WorkAt DEF At
    <3> QED
      BY <3>1 DEF TypeInv, StepInv, At
  <2>2. worker'.step \notin {"score", "export"}
    <3>1. CASE WriteCheckpoint
      BY <1>0, <3>1 DEF WriteCheckpoint, Worker
    <3>2. CASE Inventory
      BY <1>0, <3>2 DEF Inventory, Worker
    <3>3. CASE Open
      BY <1>0, <1>1, <3>3 DEF Open, Worker, WorkerAt
    <3>4. CASE WritePart
      <4>1. \E risk : worker' = [worker EXCEPT !.step = "checkpoint", !.risk = risk]
        BY <3>4, Zenon DEF WritePart
      <4> QED
        BY <1>0, <4>1 DEF Worker
    <3>5. CASE WriteLabels \/ WriteFeasibility \/ Replay
      <4>1. Goto("feasibility") \/ Goto("fail") \/ Goto("publish")
        BY <3>5, Zenon DEF WriteLabels, WriteFeasibility, Replay
      <4> QED
        BY <1>1, <4>1 DEF WorkerAt
    <3> QED
      BY <1>5, <3>1, <3>2, <3>3, <3>4, <3>5
  <2> QED
    BY <1>0, <2>1, <2>2, VerdictRests
<1>6. CASE Raise \/ Crash
  <2>1. row' = row /\ passed' = passed
    BY <1>6 DEF Raise, Crash, History
  <2>2. Goto("fail") \/ worker' = IdleWorker
    BY <1>6 DEF Raise, Crash, JobEnds
  <2>3. worker'.step \in {"fail", "idle"}
    BY <1>1, <2>2 DEF WorkerAt, IdleWorker
  <2> QED
    BY <1>0, <2>1, <2>3, VerdictRests
<1>7. CASE Cancel
  BY <1>0, <1>7, VerdictRests DEF Cancel, At
<1>8. CASE DataChange
  BY <1>8 DEF DataChange, History, VerdictInv, Scoring, Backed, HandoffWasAccepted, On, At, Payload
<1> QED
  BY <1>3, <1>4, <1>5, <1>6, <1>7, <1>8, VerdictMark, VerdictScore, VerdictExport,
     VerdictPublish, VerdictWrite DEF WorkerStep

\* Only an attach, a freeze, a new session and a delete change what the verdicts
\* are about.
LEMMA RequestVerdicts ==
  ASSUME TypeInv, NEW r \in Request, RequestStep(r),
         ~Create(r), ~Remove(r), ~AttachWrite(r), ~FreezeWrite(r)
  PROVE  /\ row'.target = row.target /\ row'.candidate = row.candidate
         /\ row'.evaluation = row.evaluation /\ row'.handoff = row.handoff
<1>0. row \in Row
  BY DEF TypeInv, TypeOK
<1>1. CASE Enqueue(r) \/ Drift(r) \/ CheckFile(r) \/ FreezeCheck(r) \/ AttachCheck(r)
           \/ ApiCrash(r) \/ WriteRows(r) \/ CreateFile(r) \/ Delete(r)
  BY <1>1 DEF Enqueue, Drift, CheckFile, FreezeCheck, AttachCheck, ApiCrash, WriteRows, CreateFile,
              Delete
<1>2. CASE WriteContract(r)
  BY <1>2 DEF WriteContract
<1>3. CASE DriftWrite(r)
  BY <1>0, <1>3 DEF DriftWrite, Write, Row
<1>4. CASE WriteSummary(r)
  BY <1>0, <1>4 DEF WriteSummary, Write, Row
<1>5. CASE \E type \in JobType : AskJob(r, type)
  BY <1>5 DEF AskJob
<1>6. CASE \E policy \in Policy : Approve(r, policy) \/ Freeze(r, policy)
  BY <1>6 DEF Approve, Freeze, StartApproval
<1>7. CASE \E candidate \in Candidate : AttachRead(r, candidate)
  BY <1>7 DEF AttachRead
<1> QED
  BY <1>1, <1>2, <1>3, <1>4, <1>5, <1>6, <1>7 DEF RequestStep

LEMMA VerdictRequest ==
  ASSUME OneAtATime, TypeInv, ScopeInv, VerdictInv, NEW r \in Request, RequestStep(r)
  PROVE  VerdictInv'
<1>0. /\ row \in Row /\ request \in [Request -> RequestState]
      /\ worker' = worker /\ passed' = passed /\ (~Enqueue(r) => job' = job)
  BY RequestWorker DEF TypeInv, TypeOK
<1>1. \A q \in Request : q = r
  BY Zenon DEF OneAtATime
<1>2. ThreadFits(r)
  BY ThreadMoves
<1>3. worker.step # "idle" => job' = job
  BY <1>0 DEF Enqueue, TypeInv, TypeOK
<1>4. Scoring' = Scoring
  BY <1>0, <1>3 DEF Scoring
<1>5. ASSUME Scoring
      PROVE  request[r].step \notin Attaching \cup Holding
  BY <1>5 DEF ScopeInv, Scoring
\* Nothing the worker holds changes, so it is enough to look at the row and the thread.
<1>6. ASSUME Scoring => row'.candidate \in {None, row.candidate}
                        /\ (row'.candidate # None => row'.target = row.target),
             Backed(row)', HandoffWasAccepted',
             On(r, "frozen")' => row'.target \in {None, Payload(r)'}
      PROVE  VerdictInv'
  <2>1. /\ At("export") => Backed(worker.session)
        /\ job' = "handoff" /\ worker.step \in {"publish", "published"}
             => worker.verdict \in passed
    BY <1>3 DEF VerdictInv
  <2>2. Backed(worker.session)' = Backed(worker.session)
    BY <1>0 DEF Backed
  <2>3. /\ Scoring /\ row'.candidate # None =>
             worker.session.candidate = row'.candidate /\ worker.session.target = row'.target
        /\ Scoring /\ ~At("score") =>
             /\ worker.verdict.candidate = worker.session.candidate
             /\ worker.verdict.target = worker.session.target /\ worker.session.target # None
    BY <1>6 DEF VerdictInv
  <2> QED
    BY <1>0, <1>1, <1>4, <1>6, <2>1, <2>2, <2>3 DEF VerdictInv, At
<1>7. CASE Create(r) \/ Remove(r)
  <2>1. row'.candidate = None /\ row'.evaluation = None /\ row'.handoff = None
    BY <1>7 DEF Create, Remove, NoRow
  <2>2. ~On(r, "frozen")'
    BY <1>2, <1>7 DEF ThreadFits, FreezeCheck, Create, Remove, Idle, On
  <2> QED
    BY <1>6, <2>1, <2>2 DEF Backed, HandoffWasAccepted
<1>8. CASE AttachWrite(r)
  <2>1. row'.handoff = row.handoff /\ (row' = row \/ row'.evaluation = None)
    BY <1>0, <1>8 DEF AttachWrite, Write, Row
  <2>2. ~Scoring
    BY <1>5, <1>8 DEF AttachWrite, On, Attaching
  <2>3. Backed(row)' /\ HandoffWasAccepted'
    BY <1>0, <2>1 DEF VerdictInv, Backed, HandoffWasAccepted
  <2>4. ~On(r, "frozen")'
    BY <1>2, <1>8 DEF ThreadFits, FreezeCheck, AttachWrite, On
  <2> QED
    BY <1>6, <2>2, <2>3, <2>4
<1>9. CASE FreezeWrite(r)
  <2>1. /\ row'.handoff = row.handoff /\ row'.evaluation = row.evaluation
        /\ row'.candidate = row.candidate /\ row'.target \in {row.target, Payload(r)}
    BY <1>0, <1>9 DEF FreezeWrite, Write, Row
  <2>2. row.target \in {None, Payload(r)} /\ ~Scoring
    BY <1>5, <1>9 DEF FreezeWrite, On, Holding, VerdictInv
  <2>3. Backed(row)' /\ HandoffWasAccepted'
    BY <1>0, <2>1, <2>2 DEF VerdictInv, Backed, HandoffWasAccepted
  <2>4. ~On(r, "frozen")'
    BY <1>2, <1>9 DEF ThreadFits, FreezeCheck, FreezeWrite, On
  <2> QED
    BY <1>6, <2>2, <2>3, <2>4
<1>10. CASE ~(Create(r) \/ Remove(r) \/ AttachWrite(r) \/ FreezeWrite(r))
  <2>1. /\ row'.target = row.target /\ row'.candidate = row.candidate
        /\ row'.evaluation = row.evaluation /\ row'.handoff = row.handoff
    BY <1>10, RequestVerdicts
  <2>2. Backed(row)' /\ HandoffWasAccepted'
    BY <1>0, <2>1 DEF VerdictInv, Backed, HandoffWasAccepted
  <2>3. ASSUME On(r, "frozen")' PROVE row'.target \in {None, Payload(r)'}
    <3>1. FreezeCheck(r)
      BY <1>2, <2>3 DEF ThreadFits
    <3>2. request'[r].step = "frozen" /\ request[r].step = "freeze"
      BY <2>3, <3>1 DEF FreezeCheck, On
    <3>3. TargetFree(Payload(r)) /\ Goes(r, "frozen")
      <4>1. Answer(r) => request'[r].step = "idle"
        BY <1>0, AnswerType
      <4> QED
        BY <3>1, <3>2, <4>1 DEF FreezeCheck
    <3>4. Payload(r)' = Payload(r)
      <4>1. /\ request'[r].contract = request[r].contract
            /\ request'[r].session = request[r].session
        BY <1>0, <3>3 DEF Goes, Send, RequestState
      <4> QED
        BY <4>1 DEF Payload
    <3> QED
      BY <2>1, <3>3, <3>4 DEF TargetFree
  <2> QED
    BY <1>6, <2>1, <2>2, <2>3
<1> QED
  BY <1>7, <1>8, <1>9, <1>10

LEMMA VerdictStep ==
  ASSUME OneAtATime, TypeInv, ScopeInv, VerdictInv, [Next]_vars
  PROVE  VerdictInv'
<1>1. CASE WorkerStep \/ Raise \/ Crash \/ Cancel \/ DataChange
  BY <1>1, VerdictWorker
<1>2. CASE \E r \in Request : RequestStep(r)
  BY <1>2, VerdictRequest
<1>3. CASE UNCHANGED vars
  BY <1>3 DEF vars, VerdictInv, Scoring, Backed, HandoffWasAccepted, On, At, Payload
<1> QED
  BY <1>1, <1>2, <1>3 DEF Next

\* What is handed to Stage 0 had an accepted evaluation, of that candidate and that
\* target, while requests about the session do not overlap: whatever is exchanged,
\* retried, cancelled, deleted or created again.
THEOREM HandoffsWereAccepted ==
  ASSUME OneAtATime
  PROVE  Spec => []HandoffWasAccepted
<1>1. Init => ScopeInv /\ VerdictInv
  <2>1. None \notin JobType
    BY DiscoveryAssumption
  <2> QED
    BY <2>1 DEF Init, ScopeInv, VerdictInv, Early, Waits, Asking, On, At, Attaching, Holding,
            Scoring, Backed, HandoffWasAccepted, NoRow, IdleRequest, IdleWorker, JobType
<1>2. IInv /\ ScopeInv /\ VerdictInv /\ [Next]_vars => ScopeInv' /\ VerdictInv'
  BY ScopeStep, VerdictStep DEF IInv
<1>3. VerdictInv => HandoffWasAccepted
  BY DEF VerdictInv
<1> QED
  BY <1>1, <1>2, <1>3, Inductive, PTL DEF Spec

=============================================================================
