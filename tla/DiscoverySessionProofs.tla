------------------------ MODULE DiscoverySessionProofs ------------------------
(* Proofs about DiscoverySession, for any number of request threads.        *)
EXTENDS DiscoverySession, TLAPS

Holding == {"rows", "contract", "summary", "file", "create_file", "freeze", "frozen"}

\* What each step may assume of the records it works on.
StepInv ==
  /\ At("idle") => worker = IdleWorker
  /\ worker.step \in {"inventory", "open", "part", "checkpoint", "feasibility"}
      => job = "atlas"
  /\ At("replay") => job = "walk_forward"
  /\ At("score") => job = "evaluation"
  /\ At("export") => job = "handoff"
  /\ \/ worker.step \in {"open", "part", "checkpoint", "feasibility"}
     \/ worker.step \in {"publish", "published"} /\ job = "atlas"
     => worker.evidence \in Evidence
  /\ worker.step \in {"publish", "published"} /\ job \in {"evaluation", "handoff"} =>
       worker.verdict \in Verdict
  /\ row.status = "atlas_ready" => row.evidence \in Evidence
  /\ \A r \in Request : request[r].step \in Holding =>
       request[r].contract \in Contract /\ request[r].session.evidence \in Evidence

TypeInv == TypeOK /\ StepInv

\* What the worker holds of the checkpoint is on disk, as the checkpoint is.
CoverInv ==
  ~wiped =>
    /\ disk.completed \subseteq disk.parts
    /\ worker.completed \subseteq disk.parts
    /\ At("checkpoint") => worker.risk \in disk.parts

Complete == disk.labels = Risk /\ disk.feasibility = Risk /\ disk.fingerprint # None

\* The evidence a copy of the row names is that of complete final files.
Evidenced(copy) == copy.evidence # None => Complete /\ copy.evidence = disk.fingerprint

Active == worker.step \notin {"idle", "begin", "mark"}

\* The worker of an atlas: its evidence is the fingerprint once there is one.
AtlasInv ==
  /\ worker.step \in {"idle", "begin", "mark", "inventory", "open"} => worker.completed = {}
  /\ worker.step \in {"part", "checkpoint", "feasibility"} =>
       /\ disk.fingerprint \in {None, worker.evidence}
       /\ worker.completed # {} => disk.fingerprint = worker.evidence
  /\ At("feasibility") => worker.completed = Risk /\ disk.labels = Risk
  /\ worker.step \in {"publish", "published"} /\ job = "atlas" =>
       Complete /\ worker.evidence = disk.fingerprint
  /\ worker.step \in {"accept", "accepted"} => job # "atlas"

\* Whoever may move the session past the atlas found evidence in the row, and no
\* copy of an older row can take it away.
EvidenceInv ==
  /\ Evidenced(row) /\ Evidenced(worker.session)
  /\ \A r \in Request : request[r].step \in Holding => Evidenced(request[r].session)
  /\ \/ row.status \in Ready \/ row.target # None
     \/ row.candidate # None \/ row.evaluation # None
     => row.evidence # None
  /\ (Active \/ At("mark")) /\ job # "atlas" => row.evidence # None
  /\ Active /\ row.evidence # None => worker.session.evidence # None
  /\ \A r \in Request :
       request[r].step \in Holding \cup {"attach", "attached"} => row.evidence # None

RemoveInv == \A r \in Request : On(r, "remove") => wiped

IInv ==
  /\ TypeInv
  /\ CoverInv
  /\ RemoveInv
  /\ ~wiped => AtlasInv /\ EvidenceInv


WorkerKept ==
  /\ worker'.evidence = worker.evidence /\ worker'.session = worker.session
  /\ worker'.completed = worker.completed
MoveKept == WorkerKept /\ worker'.verdict = worker.verdict /\ worker'.risk = worker.risk
OthersKept(r) == \A q \in Request \ {r} : request'[q] = request[q]
FilesKept ==
  /\ disk'.labels = disk.labels /\ disk'.feasibility = disk.feasibility
  /\ disk'.fingerprint = disk.fingerprint
SessionKept ==
  /\ row'.evidence = row.evidence /\ row'.target = row.target
  /\ row'.candidate = row.candidate /\ row'.evaluation = row.evaluation

USE DEF WorkerKept, MoveKept, OthersKept, FilesKept, SessionKept

-----------------------------------------------------------------------------
(* Types.                                                                  *)

LEMMA StatusFacts ==
  /\ {"draft", "atlas_running", "atlas_ready", "target_frozen", "walk_forward_running",
      "walk_forward_ready", "candidate_attached", "evaluation_running", "evaluated", "accepted",
      "handoff_running", "handed_off", "failed"} \subseteq Status
  /\ "absent" \notin Status
  BY DEF Status, Transitions

LEMMA JobFacts ==
  ASSUME NEW t \in JobType
  PROVE  /\ Running[t] \in Status /\ Done[t] \in Status
         /\ Running[t] # "atlas_ready"
         /\ Done[t] = "atlas_ready" => t = "atlas"
         /\ FirstStep[t] \in {"inventory", "replay", "score", "export"}
         /\ FirstStep[t] = "inventory" <=> t = "atlas"
         /\ FirstStep[t] = "replay" <=> t = "walk_forward"
         /\ FirstStep[t] = "score" <=> t = "evaluation"
         /\ FirstStep[t] = "export" <=> t = "handoff"
  BY StatusFacts DEF JobType, Running, Done, FirstStep

LEMMA EmptyTypes ==
  NoRow \in Row /\ EmptyDisk \in Disk /\ IdleWorker \in Worker
      /\ IdleRequest \in RequestState
<1>1. NoRow \in Row
  BY DEF NoRow, Row
<1>2. EmptyDisk \in Disk
  BY DEF EmptyDisk, Disk
<1>3. IdleWorker \in Worker
  BY <1>1 DEF IdleWorker, Worker, WorkerAt
<1>4. IdleRequest \in RequestState
  BY <1>1 DEF IdleRequest, RequestState, RequestAt
<1> QED
  BY <1>1, <1>2, <1>3, <1>4

\* A worker that only moves on.
LEMMA MoveType ==
  ASSUME worker \in Worker, NEW step \in WorkerAt, Goto(step)
  PROVE  /\ worker' \in Worker /\ worker'.step = step /\ MoveKept
  BY DEF Goto, Worker

LEMMA SendType ==
  ASSUME request \in [Request -> RequestState], NEW r \in Request, NEW state \in RequestState,
         Send(r, state)
  PROVE  /\ request' \in [Request -> RequestState]
         /\ request'[r] = state
         /\ OthersKept(r)
  BY DEF Send

\* A request that only moves on.
LEMMA GoesType ==
  ASSUME request \in [Request -> RequestState], NEW r \in Request, NEW step \in RequestAt,
         Goes(r, step)
  PROVE  /\ request' \in [Request -> RequestState]
         /\ request'[r].step = step /\ request'[r].session = request[r].session
         /\ request'[r].contract = request[r].contract
         /\ OthersKept(r)
<1>1. [request[r] EXCEPT !.step = step] \in RequestState
  BY DEF RequestState
<1> QED
  BY <1>1, SendType DEF Goes, RequestState

LEMMA AnswerType ==
  ASSUME request \in [Request -> RequestState], NEW r \in Request, Answer(r)
  PROVE  /\ request' \in [Request -> RequestState]
         /\ request'[r] = IdleRequest /\ request'[r].step = "idle"
         /\ OthersKept(r)
  BY EmptyTypes, SendType DEF Answer, IdleRequest

LEMMA TypeInit == Init => TypeInv
<1> SUFFICES ASSUME Init PROVE TypeInv
  OBVIOUS
<1> QED
  BY EmptyTypes, DiscoveryAssumption
     DEF Init, TypeInv, TypeOK, StepInv, At, Holding, IdleRequest, IdleWorker, NoRow

LEMMA TypeClaim == TypeInv /\ Claim => TypeInv'
<1> SUFFICES ASSUME TypeInv, Claim PROVE TypeInv'
  OBVIOUS
<1>1. \A step \in {"begin"} : Goto(step) => worker' \in Worker /\ worker'.step = step
          /\ MoveKept
  BY MoveType DEF TypeInv, TypeOK, WorkerAt
<1> QED
  BY <1>1, StatusFacts, EmptyTypes, DiscoveryAssumption
     DEF TypeInv, TypeOK, StepInv, Claim, JobEnds, At, History, IdleWorker, Holding

LEMMA TypeBegin == TypeInv /\ Begin => TypeInv'
<1> SUFFICES ASSUME TypeInv, Begin PROVE TypeInv'
  OBVIOUS
<1>1. \A step \in {"mark"} : Goto(step) => worker' \in Worker /\ worker'.step = step
          /\ MoveKept
  BY MoveType DEF TypeInv, TypeOK, WorkerAt
<1>2. JobEnds => worker' \in Worker /\ worker'.step = "idle" /\ worker' = IdleWorker
          /\ job' = None
  BY EmptyTypes DEF JobEnds, IdleWorker
<1> QED
  BY <1>1, <1>2, StatusFacts, EmptyTypes, DiscoveryAssumption
     DEF TypeInv, TypeOK, StepInv, Begin, At, History, Holding

LEMMA TypeMark == TypeInv /\ Mark => TypeInv'
<1> SUFFICES ASSUME TypeInv, Mark PROVE TypeInv'
  OBVIOUS
<1>1. JobEnds => worker' \in Worker /\ worker'.step = "idle" /\ worker' = IdleWorker
          /\ job' = None
  BY EmptyTypes DEF JobEnds, IdleWorker
<1>2. job \in JobType
  BY DEF Mark, At, TypeInv, TypeOK
<1>3. [row EXCEPT !.status = Running[job]] \in Row
  BY <1>2, JobFacts DEF Row, TypeInv, TypeOK
<1>4. row' \in Row /\ (row'.status = "atlas_ready" => row' = row)
  BY <1>2, <1>3, JobFacts DEF Mark, Write, Row, TypeInv, TypeOK
<1>5. FirstStep[job] \in WorkerAt
  BY <1>2, JobFacts DEF WorkerAt
<1>6. JobEnds \/ (worker' \in Worker /\ worker'.step = FirstStep[job]
          /\ worker'.session = row' /\ job' = job)
  BY <1>4, <1>5 DEF Mark, Worker, TypeInv, TypeOK
<1> QED
  BY <1>1, <1>2, <1>3, <1>4, <1>5, <1>6, JobFacts, StatusFacts, EmptyTypes,
     DiscoveryAssumption
     DEF TypeInv, TypeOK, StepInv, Mark, At, History, Holding

LEMMA TypeInventory == TypeInv /\ Inventory => TypeInv'
<1> SUFFICES ASSUME TypeInv, Inventory PROVE TypeInv'
  OBVIOUS
<1>1. disk' \in Disk
  BY DEF Inventory, Disk, TypeInv, TypeOK
<1>2. worker' \in Worker /\ worker'.step = "open" /\ worker'.evidence = data
  BY DEF Inventory, Worker, WorkerAt, TypeInv, TypeOK
<1> QED
  BY <1>1, <1>2, StatusFacts, EmptyTypes, DiscoveryAssumption
     DEF TypeInv, TypeOK, StepInv, Inventory, JobEnds, At, History, IdleWorker, Holding

LEMMA TypeOpen == TypeInv /\ Open => TypeInv'
<1> SUFFICES ASSUME TypeInv, Open PROVE TypeInv'
  OBVIOUS
<1>1. \A step \in {"fail"} : Goto(step) => worker' \in Worker /\ worker'.step = step
          /\ MoveKept
  BY MoveType DEF TypeInv, TypeOK, WorkerAt
<1>2. ~Goto("fail") => worker' \in Worker /\ worker'.step = "part"
          /\ worker'.evidence = worker.evidence
  BY DEF Open, Worker, WorkerAt, Disk, TypeInv, TypeOK
<1> QED
  BY <1>1, <1>2, StatusFacts, EmptyTypes, DiscoveryAssumption
     DEF TypeInv, TypeOK, StepInv, Open, JobEnds, At, History, IdleWorker, Holding

LEMMA TypeWritePart == TypeInv /\ WritePart => TypeInv'
<1> SUFFICES ASSUME TypeInv, WritePart PROVE TypeInv'
  OBVIOUS
<1>1. disk' \in Disk
  BY DEF WritePart, Disk, TypeInv, TypeOK
<1>2. worker' \in Worker /\ worker'.step = "checkpoint" /\ worker'.risk \in Risk
          /\ worker'.evidence = worker.evidence
  BY DEF WritePart, Worker, WorkerAt, TypeInv, TypeOK
<1> QED
  BY <1>1, <1>2, StatusFacts, EmptyTypes, DiscoveryAssumption
     DEF TypeInv, TypeOK, StepInv, WritePart, JobEnds, At, History, IdleWorker, Holding

LEMMA TypeWriteCheckpoint == TypeInv /\ WriteCheckpoint => TypeInv'
<1> SUFFICES ASSUME TypeInv, WriteCheckpoint PROVE TypeInv'
  OBVIOUS
<1>1. worker.completed \cup {worker.risk} \in SUBSET Risk /\ worker.evidence \in Evidence
  BY DEF WriteCheckpoint, Worker, At, TypeInv, TypeOK, StepInv
<1>2. disk' \in Disk
  BY <1>1 DEF WriteCheckpoint, Disk, TypeInv, TypeOK
<1>3. worker' \in Worker /\ worker'.step = "part" /\ worker'.evidence = worker.evidence
  BY <1>1 DEF WriteCheckpoint, Worker, WorkerAt, TypeInv, TypeOK
<1> QED
  BY <1>1, <1>2, <1>3, StatusFacts, EmptyTypes, DiscoveryAssumption
     DEF TypeInv, TypeOK, StepInv, WriteCheckpoint, JobEnds, At, History, IdleWorker,
         Holding

LEMMA TypeWriteLabels == TypeInv /\ WriteLabels => TypeInv'
<1> SUFFICES ASSUME TypeInv, WriteLabels PROVE TypeInv'
  OBVIOUS
<1>1. \A step \in {"fail", "feasibility"} : Goto(step) => worker' \in Worker
          /\ worker'.step = step /\ MoveKept
  BY MoveType DEF TypeInv, TypeOK, WorkerAt
<1>2. disk' \in Disk
  BY DEF WriteLabels, Disk, Worker, TypeInv, TypeOK
<1> QED
  BY <1>1, <1>2, StatusFacts, EmptyTypes, DiscoveryAssumption
     DEF TypeInv, TypeOK, StepInv, WriteLabels, JobEnds, At, History, IdleWorker, Holding

LEMMA TypeWriteFeasibility == TypeInv /\ WriteFeasibility => TypeInv'
<1> SUFFICES ASSUME TypeInv, WriteFeasibility PROVE TypeInv'
  OBVIOUS
<1>1. \A step \in {"publish"} : Goto(step) => worker' \in Worker /\ worker'.step = step
          /\ MoveKept
  BY MoveType DEF TypeInv, TypeOK, WorkerAt
<1>2. disk' \in Disk
  BY DEF WriteFeasibility, Disk, Worker, TypeInv, TypeOK
<1> QED
  BY <1>1, <1>2, StatusFacts, EmptyTypes, DiscoveryAssumption
     DEF TypeInv, TypeOK, StepInv, WriteFeasibility, JobEnds, At, History, IdleWorker,
         Holding

LEMMA TypeReplay == TypeInv /\ Replay => TypeInv'
<1> SUFFICES ASSUME TypeInv, Replay PROVE TypeInv'
  OBVIOUS
<1>1. \A step \in {"publish"} : Goto(step) => worker' \in Worker /\ worker'.step = step
          /\ MoveKept
  BY MoveType DEF TypeInv, TypeOK, WorkerAt
<1>2. disk' \in Disk
  BY DEF Replay, Disk, Worker, Row, TypeInv, TypeOK
<1> QED
  BY <1>1, <1>2, StatusFacts, EmptyTypes, DiscoveryAssumption
     DEF TypeInv, TypeOK, StepInv, Replay, At, History, Holding

LEMMA TypeScore == TypeInv /\ Score => TypeInv'
<1> SUFFICES ASSUME TypeInv, Score PROVE TypeInv'
  OBVIOUS
<1>1. \A step \in {"fail"} : Goto(step) => worker' \in Worker /\ worker'.step = step
          /\ MoveKept
  BY MoveType DEF TypeInv, TypeOK, WorkerAt
<1>2. ~Goto("fail") => \E verdict \in Verdict : worker' = [worker EXCEPT !.step = "publish", !.verdict = verdict]
  BY DEF Score, Worker, Row, Verdict, TypeInv, TypeOK
<1>3. \A verdict \in Verdict : [worker EXCEPT !.step = "publish", !.verdict = verdict] \in Worker
  BY DEF Worker, WorkerAt, TypeInv, TypeOK
<1>4. ~Goto("fail") => worker' \in Worker /\ worker'.step = "publish"
          /\ worker'.evidence = worker.evidence /\ worker'.verdict \in Verdict
  BY <1>2, <1>3 DEF Worker, TypeInv, TypeOK
<1> QED
  BY <1>1, <1>2, <1>3, <1>4, StatusFacts, EmptyTypes, DiscoveryAssumption
     DEF TypeInv, TypeOK, StepInv, Score, At, History, Holding

LEMMA TypeExport == TypeInv /\ Export => TypeInv'
<1> SUFFICES ASSUME TypeInv, Export PROVE TypeInv'
  OBVIOUS
<1>1. \A step \in {"fail"} : Goto(step) => worker' \in Worker /\ worker'.step = step
          /\ MoveKept
  BY MoveType DEF TypeInv, TypeOK, WorkerAt
<1>2. ~Goto("fail") => \E verdict \in Verdict : worker' = [worker EXCEPT !.step = "publish", !.verdict = verdict]
  BY DEF Export, Worker, Row, Verdict, TypeInv, TypeOK
<1>3. \A verdict \in Verdict : [worker EXCEPT !.step = "publish", !.verdict = verdict] \in Worker
  BY DEF Worker, WorkerAt, TypeInv, TypeOK
<1>4. ~Goto("fail") => worker' \in Worker /\ worker'.step = "publish"
          /\ worker'.evidence = worker.evidence /\ worker'.verdict \in Verdict
  BY <1>2, <1>3 DEF Worker, TypeInv, TypeOK
<1> QED
  BY <1>1, <1>2, <1>3, <1>4, StatusFacts, EmptyTypes, DiscoveryAssumption
     DEF TypeInv, TypeOK, StepInv, Export, At, History, Holding

LEMMA TypePublish == TypeInv /\ Publish => TypeInv'
<1> SUFFICES ASSUME TypeInv, Publish PROVE TypeInv'
  OBVIOUS
<1>1. \A step \in {"published", "fail"} : Goto(step) => worker' \in Worker
          /\ worker'.step = step /\ MoveKept
  BY MoveType DEF TypeInv, TypeOK, WorkerAt
<1> QED
  BY <1>1, StatusFacts, EmptyTypes, DiscoveryAssumption
     DEF TypeInv, TypeOK, StepInv, Publish, JobEnds, At, History, IdleWorker, Holding

LEMMA TypePublishWrite == TypeInv /\ PublishWrite => TypeInv'
<1> SUFFICES ASSUME TypeInv, PublishWrite PROVE TypeInv'
  OBVIOUS
<1>1. \A step \in {"accept", "fail"} : Goto(step) => worker' \in Worker
          /\ worker'.step = step /\ MoveKept
  BY MoveType DEF TypeInv, TypeOK, WorkerAt
<1>2. JobEnds => worker' \in Worker /\ worker'.step = "idle" /\ worker' = IdleWorker
          /\ job' = None
  BY EmptyTypes DEF JobEnds, IdleWorker
<1>3. job \in JobType /\ (job = "atlas" => worker.evidence \in Evidence)
          /\ (job \in {"evaluation", "handoff"} => worker.verdict \in Verdict)
          /\ worker.session \in Row
  BY DEF PublishWrite, At, Worker, TypeInv, TypeOK, StepInv
<1>4. row.status # "absent" => row' = Published
  BY DEF PublishWrite, Write
<1>5. [row EXCEPT !.status = Done[job]] \in Row
          /\ [row EXCEPT !.status = Done[job]].status = Done[job]
  BY <1>3, JobFacts DEF Row, TypeInv, TypeOK
<1>6. job = "atlas" => Published \in Row
  BY <1>3, <1>5 DEF Published, Row
<1>7. job = "walk_forward" => Published \in Row
  BY <1>3, <1>5 DEF Published, Row
<1>8. job = "evaluation" => Published \in Row
  BY <1>3, <1>5 DEF Published, Row
<1>9. job = "handoff" => Published \in Row
  BY <1>3, <1>5 DEF Published, Row
<1>10. Published.status = Done[job] /\ (job = "atlas"
           => Published.evidence = worker.evidence)
  BY <1>3, <1>5 DEF Published, JobType, Row
<1>11. row' \in Row /\ (row'.status = "atlas_ready" => row'.evidence \in Evidence)
  BY <1>3, <1>4, <1>6, <1>7, <1>8, <1>9, <1>10, JobFacts
     DEF JobType, PublishWrite, Write, TypeInv, TypeOK, StepInv
<1>12. passed' \subseteq Verdict
  BY <1>3 DEF PublishWrite, TypeInv, TypeOK, StepInv
<1> QED
  BY <1>1, <1>2, <1>3, <1>4, <1>5, <1>6, <1>7, <1>8, <1>9, <1>10, <1>11, <1>12, StatusFacts,
     EmptyTypes, DiscoveryAssumption
     DEF TypeInv, TypeOK, StepInv, PublishWrite, At, History, Holding

LEMMA TypeAccept == TypeInv /\ Accept => TypeInv'
<1> SUFFICES ASSUME TypeInv, Accept PROVE TypeInv'
  OBVIOUS
<1>1. \A step \in {"accepted", "fail"} : Goto(step) => worker' \in Worker
          /\ worker'.step = step /\ MoveKept
  BY MoveType DEF TypeInv, TypeOK, WorkerAt
<1> QED
  BY <1>1, StatusFacts, EmptyTypes, DiscoveryAssumption
     DEF TypeInv, TypeOK, StepInv, Accept, JobEnds, At, History, IdleWorker, Holding

LEMMA TypeAcceptWrite == TypeInv /\ AcceptWrite => TypeInv'
<1> SUFFICES ASSUME TypeInv, AcceptWrite PROVE TypeInv'
  OBVIOUS
<1>1. JobEnds => worker' \in Worker /\ worker'.step = "idle" /\ worker' = IdleWorker
          /\ job' = None
  BY EmptyTypes DEF JobEnds, IdleWorker
<1>2. \A step \in {"fail"} : Goto(step) => worker' \in Worker /\ worker'.step = step
          /\ MoveKept
  BY MoveType DEF TypeInv, TypeOK, WorkerAt
<1>3. row' \in Row /\ (row'.status = "atlas_ready" => row' = row)
  BY StatusFacts DEF AcceptWrite, Write, Row, TypeInv, TypeOK
<1> QED
  BY <1>1, <1>2, <1>3, StatusFacts, EmptyTypes, DiscoveryAssumption
     DEF TypeInv, TypeOK, StepInv, AcceptWrite, At, History, Holding

LEMMA TypeFail == TypeInv /\ Fail => TypeInv'
<1> SUFFICES ASSUME TypeInv, Fail PROVE TypeInv'
  OBVIOUS
<1>1. \A step \in {"failed"} : Goto(step) => worker' \in Worker /\ worker'.step = step
          /\ MoveKept
  BY MoveType DEF TypeInv, TypeOK, WorkerAt
<1>2. JobEnds => worker' \in Worker /\ worker'.step = "idle" /\ worker' = IdleWorker
          /\ job' = None
  BY EmptyTypes DEF JobEnds, IdleWorker
<1> QED
  BY <1>1, <1>2, StatusFacts, EmptyTypes, DiscoveryAssumption
     DEF TypeInv, TypeOK, StepInv, Fail, At, History, Holding

LEMMA TypeFailWrite == TypeInv /\ FailWrite => TypeInv'
<1> SUFFICES ASSUME TypeInv, FailWrite PROVE TypeInv'
  OBVIOUS
<1>1. Failed \in Row /\ Failed.status = "failed"
  BY StatusFacts DEF Failed, Row, Worker, TypeInv, TypeOK
<1> QED
  BY <1>1, StatusFacts, EmptyTypes, DiscoveryAssumption
     DEF TypeInv, TypeOK, StepInv, FailWrite, Write, JobEnds, At, History, IdleWorker,
         Holding

LEMMA TypeRaise == TypeInv /\ Raise => TypeInv'
<1> SUFFICES ASSUME TypeInv, Raise PROVE TypeInv'
  OBVIOUS
<1>1. \A step \in {"fail"} : Goto(step) => worker' \in Worker /\ worker'.step = step
          /\ MoveKept
  BY MoveType DEF TypeInv, TypeOK, WorkerAt
<1>2. JobEnds => worker' \in Worker /\ worker'.step = "idle" /\ worker' = IdleWorker
          /\ job' = None
  BY EmptyTypes DEF JobEnds, IdleWorker
<1>3. abandoned' \in BOOLEAN
  BY DEF Raise, TypeInv, TypeOK
<1>4. faults' \in Nat
  BY DEF Raise, Fault, TypeInv, TypeOK
<1>5. \/ worker' \in Worker /\ worker'.step = "fail" /\ job' = job
      \/ worker' \in Worker /\ worker'.step = "idle" /\ worker' = IdleWorker /\ job' = None
  BY <1>1, <1>2 DEF Raise
<1>6. job # None
  BY DEF Raise, At, TypeInv, TypeOK
<1> QED
  BY <1>1, <1>2, <1>3, <1>4, <1>5, <1>6, StatusFacts, EmptyTypes, DiscoveryAssumption
     DEF TypeInv, TypeOK, StepInv, Raise, At, History, Holding

LEMMA TypeCrash == TypeInv /\ Crash => TypeInv'
<1> SUFFICES ASSUME TypeInv, Crash PROVE TypeInv'
  OBVIOUS
<1> QED
  BY StatusFacts, EmptyTypes, DiscoveryAssumption
     DEF TypeInv, TypeOK, StepInv, Crash, Fault, JobEnds, At, History, IdleWorker, Holding

LEMMA TypeCancel == TypeInv /\ Cancel => TypeInv'
<1> SUFFICES ASSUME TypeInv, Cancel PROVE TypeInv'
  OBVIOUS
<1> QED
  BY StatusFacts, EmptyTypes, DiscoveryAssumption
     DEF TypeInv, TypeOK, StepInv, Cancel, JobEnds, At, History, IdleWorker, Holding

LEMMA TypeDataChange == TypeInv /\ DataChange => TypeInv'
<1> SUFFICES ASSUME TypeInv, DataChange PROVE TypeInv'
  OBVIOUS
<1> QED
  BY StatusFacts, EmptyTypes, DiscoveryAssumption
     DEF TypeInv, TypeOK, StepInv, DataChange, Fault, JobEnds, At, History, IdleWorker,
         Holding

LEMMA TypeCreate ==
  ASSUME TypeInv, NEW r \in Request, Create(r)
  PROVE  TypeInv'
<1>1. row' \in Row /\ row'.status = "draft"
  BY StatusFacts, EmptyTypes DEF Create, Row, NoRow
<1> QED
  BY <1>1, StatusFacts, EmptyTypes, DiscoveryAssumption
     DEF TypeInv, TypeOK, StepInv, Create, At, NoWorker, Holding, IdleRequest, On, History

LEMMA TypeEnqueue ==
  ASSUME TypeInv, NEW r \in Request, Enqueue(r)
  PROVE  TypeInv'
<1>1. Answer(r) => request' \in [Request -> RequestState] /\ request'[r].step = "idle"
          /\ OthersKept(r)
  BY AnswerType DEF TypeInv, TypeOK
<1>2. job' \in JobType \cup {None} /\ (job # None => job' = job)
  BY DEF Enqueue, RequestState, TypeInv, TypeOK
<1> QED
  BY <1>1, <1>2, StatusFacts, EmptyTypes, DiscoveryAssumption
     DEF TypeInv, TypeOK, StepInv, Enqueue, At, NoWorker, Holding, IdleRequest, On, History

LEMMA TypeDrift ==
  ASSUME TypeInv, NEW r \in Request, Drift(r)
  PROVE  TypeInv'
<1>1. Answer(r) => request' \in [Request -> RequestState] /\ request'[r].step = "idle"
          /\ OthersKept(r)
  BY AnswerType DEF TypeInv, TypeOK
<1>2. \A step \in {"drifted"} : Goes(r, step) => request' \in [Request -> RequestState]
          /\ request'[r].step = step /\ request'[r].session = request[r].session
          /\ request'[r].contract = request[r].contract /\ OthersKept(r)
  BY GoesType DEF RequestAt, TypeInv, TypeOK
<1> QED
  BY <1>1, <1>2, StatusFacts, EmptyTypes, DiscoveryAssumption
     DEF TypeInv, TypeOK, StepInv, Drift, At, NoWorker, Holding, IdleRequest, On, History

LEMMA TypeDriftWrite ==
  ASSUME TypeInv, NEW r \in Request, DriftWrite(r)
  PROVE  TypeInv'
<1>1. Answer(r) => request' \in [Request -> RequestState] /\ request'[r].step = "idle"
          /\ OthersKept(r)
  BY AnswerType DEF TypeInv, TypeOK
<1>2. row' \in Row /\ (row'.status = "atlas_ready" => row' = row)
  BY StatusFacts DEF DriftWrite, Write, Row, TypeInv, TypeOK
<1> QED
  BY <1>1, <1>2, StatusFacts, EmptyTypes, DiscoveryAssumption
     DEF TypeInv, TypeOK, StepInv, DriftWrite, At, NoWorker, Holding, IdleRequest, On,
         History

LEMMA TypeWriteRows ==
  ASSUME TypeInv, NEW r \in Request, WriteRows(r)
  PROVE  TypeInv'
<1>1. \A step \in {"contract"} : Goes(r, step) => request' \in [Request -> RequestState]
          /\ request'[r].step = step /\ request'[r].session = request[r].session
          /\ request'[r].contract = request[r].contract /\ OthersKept(r)
  BY GoesType DEF RequestAt, TypeInv, TypeOK
<1>2. disk' \in Disk
  BY DEF WriteRows, Disk, Contract, On, Holding, TypeInv, TypeOK, StepInv
<1> QED
  BY <1>1, <1>2, StatusFacts, EmptyTypes, DiscoveryAssumption
     DEF TypeInv, TypeOK, StepInv, WriteRows, At, NoWorker, Holding, IdleRequest, On,
         History

LEMMA TypeWriteContract ==
  ASSUME TypeInv, NEW r \in Request, WriteContract(r)
  PROVE  TypeInv'
<1>1. Answer(r) => request' \in [Request -> RequestState] /\ request'[r].step = "idle"
          /\ OthersKept(r)
  BY AnswerType DEF TypeInv, TypeOK
<1>2. disk.rows # None => [request[r].contract EXCEPT !.rows = disk.rows] \in Contract
  BY DEF WriteContract, Contract, Disk, On, Holding, TypeInv, TypeOK, StepInv
<1>3. disk' \in Disk
  BY <1>2 DEF WriteContract, Disk, TypeInv, TypeOK
<1>4. disk.rows # None
          => [request[r] EXCEPT !.step = "summary", !.contract = [request[r].contract EXCEPT !.rows = disk.rows]] \in RequestState
  BY <1>2 DEF RequestState, RequestAt, TypeInv, TypeOK
<1>5. LET state == [request[r] EXCEPT !.step = "summary", !.contract = [request[r].contract EXCEPT !.rows = disk.rows]] IN disk.rows # None
          => state.contract \in Contract /\ state.session = request[r].session
  BY <1>2 DEF RequestState, TypeInv, TypeOK
<1>6. disk.rows # None => \E state \in RequestState : Send(r, state)
          /\ state.contract \in Contract /\ state.session = request[r].session
  BY <1>4, <1>5 DEF WriteContract
<1>7. disk.rows # None => request' \in [Request -> RequestState]
          /\ request'[r].contract \in Contract /\ request'[r].session = request[r].session
          /\ OthersKept(r)
  BY <1>6, SendType DEF TypeInv, TypeOK
<1> QED
  BY <1>1, <1>2, <1>3, <1>4, <1>5, <1>6, <1>7, StatusFacts, EmptyTypes, DiscoveryAssumption
     DEF TypeInv, TypeOK, StepInv, WriteContract, At, NoWorker, Holding, IdleRequest, On,
         History

LEMMA TypeWriteSummary ==
  ASSUME TypeInv, NEW r \in Request, WriteSummary(r)
  PROVE  TypeInv'
<1>1. Answer(r) => request' \in [Request -> RequestState] /\ request'[r].step = "idle"
          /\ OthersKept(r)
  BY AnswerType DEF TypeInv, TypeOK
<1>2. [row EXCEPT !.evidence = request[r].session.evidence, !.approval = request[r].contract] \in Row
  BY DEF WriteSummary, Row, On, Holding, TypeInv, TypeOK, StepInv
<1>3. row' \in Row /\ (row'.status = "atlas_ready" => row'.evidence \in Evidence)
  BY <1>2 DEF WriteSummary, Write, Row, On, Holding, TypeInv, TypeOK, StepInv
<1>4. row.status # "absent" => row'.evidence \in Evidence
  BY <1>2 DEF WriteSummary, Write, Row, On, Holding, TypeInv, TypeOK, StepInv
<1>5. [request[r] EXCEPT !.step = "file", !.session = row'] \in RequestState
  BY <1>3 DEF RequestState, RequestAt, TypeInv, TypeOK
<1>6. [request[r] EXCEPT !.step = "file", !.session = row'].contract = request[r].contract
          /\ [request[r] EXCEPT !.step = "file", !.session = row'].session = row'
  BY DEF RequestState, TypeInv, TypeOK
<1>7. ~Answer(r) => \E state \in RequestState : Send(r, state)
          /\ state.contract = request[r].contract /\ state.session.evidence \in Evidence
  BY <1>4, <1>5, <1>6 DEF WriteSummary
<1>8. ~Answer(r) => request' \in [Request -> RequestState]
          /\ request'[r].contract = request[r].contract
          /\ request'[r].session.evidence \in Evidence /\ OthersKept(r)
  BY <1>7, SendType DEF TypeInv, TypeOK
<1> QED
  BY <1>1, <1>2, <1>3, <1>4, <1>5, <1>6, <1>7, <1>8, StatusFacts, EmptyTypes,
     DiscoveryAssumption
     DEF TypeInv, TypeOK, StepInv, WriteSummary, At, NoWorker, Holding, IdleRequest, On,
         History

LEMMA TypeCheckFile ==
  ASSUME TypeInv, NEW r \in Request, CheckFile(r)
  PROVE  TypeInv'
<1>1. Answer(r) => request' \in [Request -> RequestState] /\ request'[r].step = "idle"
          /\ OthersKept(r)
  BY AnswerType DEF TypeInv, TypeOK
<1>2. \A step \in {"freeze", "create_file"} : Goes(r, step)
          => request' \in [Request -> RequestState] /\ request'[r].step = step
          /\ request'[r].session = request[r].session
          /\ request'[r].contract = request[r].contract /\ OthersKept(r)
  BY GoesType DEF RequestAt, TypeInv, TypeOK
<1> QED
  BY <1>1, <1>2, StatusFacts, EmptyTypes, DiscoveryAssumption
     DEF TypeInv, TypeOK, StepInv, CheckFile, At, NoWorker, Holding, IdleRequest, On,
         History

LEMMA TypeCreateFile ==
  ASSUME TypeInv, NEW r \in Request, CreateFile(r)
  PROVE  TypeInv'
<1>1. Payload(r) \in Target
  BY DEF CreateFile, Payload, Target, On, Holding, TypeInv, TypeOK, StepInv
<1>2. \A step \in {"freeze"} : Goes(r, step) => request' \in [Request -> RequestState]
          /\ request'[r].step = step /\ request'[r].session = request[r].session
          /\ request'[r].contract = request[r].contract /\ OthersKept(r)
  BY GoesType DEF RequestAt, TypeInv, TypeOK
<1>3. disk' \in Disk
  BY <1>1 DEF CreateFile, Disk, TypeInv, TypeOK
<1> QED
  BY <1>1, <1>2, <1>3, StatusFacts, EmptyTypes, DiscoveryAssumption
     DEF TypeInv, TypeOK, StepInv, CreateFile, At, NoWorker, Holding, IdleRequest, On,
         History

LEMMA TypeFreezeCheck ==
  ASSUME TypeInv, NEW r \in Request, FreezeCheck(r)
  PROVE  TypeInv'
<1>1. Answer(r) => request' \in [Request -> RequestState] /\ request'[r].step = "idle"
          /\ OthersKept(r)
  BY AnswerType DEF TypeInv, TypeOK
<1>2. \A step \in {"frozen"} : Goes(r, step) => request' \in [Request -> RequestState]
          /\ request'[r].step = step /\ request'[r].session = request[r].session
          /\ request'[r].contract = request[r].contract /\ OthersKept(r)
  BY GoesType DEF RequestAt, TypeInv, TypeOK
<1> QED
  BY <1>1, <1>2, StatusFacts, EmptyTypes, DiscoveryAssumption
     DEF TypeInv, TypeOK, StepInv, FreezeCheck, At, NoWorker, Holding, IdleRequest, On,
         History

LEMMA TypeFreezeWrite ==
  ASSUME TypeInv, NEW r \in Request, FreezeWrite(r)
  PROVE  TypeInv'
<1>1. Payload(r) \in Target
  BY DEF FreezeWrite, Payload, Target, On, Holding, TypeInv, TypeOK, StepInv
<1>2. Answer(r) => request' \in [Request -> RequestState] /\ request'[r].step = "idle"
          /\ OthersKept(r)
  BY AnswerType DEF TypeInv, TypeOK
<1>3. row' \in Row /\ (row'.status = "atlas_ready" => row' = row)
  BY <1>1, StatusFacts DEF FreezeWrite, Write, Row, TypeInv, TypeOK
<1> QED
  BY <1>1, <1>2, <1>3, StatusFacts, EmptyTypes, DiscoveryAssumption
     DEF TypeInv, TypeOK, StepInv, FreezeWrite, At, NoWorker, Holding, IdleRequest, On,
         History

LEMMA TypeAttachCheck ==
  ASSUME TypeInv, NEW r \in Request, AttachCheck(r)
  PROVE  TypeInv'
<1>1. Answer(r) => request' \in [Request -> RequestState] /\ request'[r].step = "idle"
          /\ OthersKept(r)
  BY AnswerType DEF TypeInv, TypeOK
<1>2. \A step \in {"attached"} : Goes(r, step) => request' \in [Request -> RequestState]
          /\ request'[r].step = step /\ request'[r].session = request[r].session
          /\ request'[r].contract = request[r].contract /\ OthersKept(r)
  BY GoesType DEF RequestAt, TypeInv, TypeOK
<1> QED
  BY <1>1, <1>2, StatusFacts, EmptyTypes, DiscoveryAssumption
     DEF TypeInv, TypeOK, StepInv, AttachCheck, At, NoWorker, Holding, IdleRequest, On,
         History

LEMMA TypeAttachWrite ==
  ASSUME TypeInv, NEW r \in Request, AttachWrite(r)
  PROVE  TypeInv'
<1>1. Answer(r) => request' \in [Request -> RequestState] /\ request'[r].step = "idle"
          /\ OthersKept(r)
  BY AnswerType DEF TypeInv, TypeOK
<1>2. row' \in Row /\ (row'.status = "atlas_ready" => row' = row)
  BY StatusFacts DEF AttachWrite, Write, Row, RequestState, TypeInv, TypeOK
<1> QED
  BY <1>1, <1>2, StatusFacts, EmptyTypes, DiscoveryAssumption
     DEF TypeInv, TypeOK, StepInv, AttachWrite, At, NoWorker, Holding, IdleRequest, On,
         History

LEMMA TypeDelete ==
  ASSUME TypeInv, NEW r \in Request, Delete(r)
  PROVE  TypeInv'
<1>1. [IdleRequest EXCEPT !.step = "remove"] \in RequestState
  BY EmptyTypes DEF RequestState, RequestAt
<1>2. request' \in [Request -> RequestState] /\ request'[r].step = "remove" /\ OthersKept(r)
  BY <1>1, SendType DEF Delete, TypeInv, TypeOK, IdleRequest
<1> QED
  BY <1>1, <1>2, StatusFacts, EmptyTypes, DiscoveryAssumption
     DEF TypeInv, TypeOK, StepInv, Delete, At, NoWorker, Holding, IdleRequest, On, History

LEMMA TypeRemove ==
  ASSUME TypeInv, NEW r \in Request, Remove(r)
  PROVE  TypeInv'
<1>1. Answer(r) => request' \in [Request -> RequestState] /\ request'[r].step = "idle"
          /\ OthersKept(r)
  BY AnswerType DEF TypeInv, TypeOK
<1> QED
  BY <1>1, StatusFacts, EmptyTypes, DiscoveryAssumption
     DEF TypeInv, TypeOK, StepInv, Remove, NoRow, At, NoWorker, Holding, IdleRequest, On,
         History

LEMMA TypeApiCrash ==
  ASSUME TypeInv, NEW r \in Request, ApiCrash(r)
  PROVE  TypeInv'
<1>1. Answer(r) => request' \in [Request -> RequestState] /\ request'[r].step = "idle"
          /\ OthersKept(r)
  BY AnswerType DEF TypeInv, TypeOK
<1> QED
  BY <1>1, StatusFacts, EmptyTypes, DiscoveryAssumption
     DEF TypeInv, TypeOK, StepInv, ApiCrash, Fault, At, NoWorker, Holding, IdleRequest, On,
         History

LEMMA TypeAskJob ==
  ASSUME TypeInv, NEW r \in Request, NEW type \in JobType, AskJob(r, type)
  PROVE  TypeInv'
<1>1. \A step \in {"drift", "enqueue"} :
          /\ [IdleRequest EXCEPT !.step = step, !.type = type] \in RequestState
          /\ [IdleRequest EXCEPT !.step = step, !.type = type].step = step
  BY EmptyTypes DEF RequestState, RequestAt
<1>2. PICK state \in RequestState : Send(r, state) /\ state.step \in {"drift", "enqueue"}
  BY <1>1 DEF AskJob
<1>3. request' \in [Request -> RequestState] /\ request'[r].step \in {"drift", "enqueue"}
          /\ OthersKept(r)
  BY <1>2, SendType DEF TypeInv, TypeOK
<1> QED
  BY <1>1, <1>2, <1>3, StatusFacts, EmptyTypes, DiscoveryAssumption
     DEF TypeInv, TypeOK, StepInv, AskJob, At, NoWorker, Holding, IdleRequest, On, History

LEMMA TypeAttachRead ==
  ASSUME TypeInv, NEW r \in Request, NEW candidate \in Candidate, AttachRead(r, candidate)
  PROVE  TypeInv'
<1>1. [IdleRequest EXCEPT !.step = "attach", !.candidate = candidate] \in RequestState
          /\ [IdleRequest EXCEPT !.step = "attach", !.candidate = candidate].step = "attach"
  BY EmptyTypes DEF RequestState, RequestAt
<1>2. PICK state \in RequestState : Send(r, state) /\ state.step = "attach"
  BY <1>1 DEF AttachRead
<1>3. request' \in [Request -> RequestState] /\ request'[r].step = "attach" /\ OthersKept(r)
  BY <1>2, SendType DEF TypeInv, TypeOK
<1> QED
  BY <1>1, <1>2, <1>3, StatusFacts, EmptyTypes, DiscoveryAssumption
     DEF TypeInv, TypeOK, StepInv, AttachRead, At, NoWorker, Holding, IdleRequest, On,
         History

LEMMA TypeStartApproval ==
  ASSUME TypeInv, NEW r \in Request, NEW policy \in Policy, NEW freezing \in BOOLEAN,
         row.status = "atlas_ready", StartApproval(r, policy, freezing)
  PROVE  /\ TypeInv'
         /\ request'[r].step = "rows" /\ request'[r].session = row
         /\ OthersKept(r)
<1> DEFINE contract == [revision |-> Revision, policy |-> policy, rows |-> policy]
           state == [IdleRequest EXCEPT !.step = "rows", !.session = row, !.freezing = freezing,
                                        !.contract = contract]
<1>1. contract \in Contract
  BY DiscoveryAssumption DEF StartApproval, Revision, Contract, Disk, TypeInv, TypeOK
<1>2. state \in RequestState /\ state.step = "rows" /\ state.session = row
          /\ state.contract = contract
  BY <1>1, EmptyTypes DEF RequestState, RequestAt, TypeInv, TypeOK
<1>3. Send(r, state)
  BY DEF StartApproval
<1>4. /\ request' \in [Request -> RequestState] /\ request'[r] = state
      /\ OthersKept(r)
  BY <1>2, <1>3, SendType DEF TypeInv, TypeOK
<1> HIDE DEF contract, state
<1> QED
  BY <1>1, <1>2, <1>4 DEF TypeInv, TypeOK, StepInv, At, StartApproval, NoWorker, Holding

LEMMA TypeApprove ==
  ASSUME TypeInv, NEW r \in Request, NEW policy \in Policy, Approve(r, policy)
  PROVE  TypeInv'
  BY TypeStartApproval DEF Approve

LEMMA TypeFreeze ==
  ASSUME TypeInv, NEW r \in Request, NEW policy \in Policy, Freeze(r, policy)
  PROVE  TypeInv'
<1> DEFINE state == [IdleRequest EXCEPT !.step = "file", !.session = row,
                                        !.contract = disk.contract]
<1>1. CASE StartApproval(r, policy, TRUE)
  BY <1>1, TypeStartApproval DEF Freeze
<1>2. CASE Send(r, state) /\ disk.contract # None /\ UNCHANGED <<row, disk, created, wiped>>
               /\ NoWorker
  <2>1. disk.contract \in Contract
    BY <1>2 DEF Disk, TypeInv, TypeOK
  <2>2. state \in RequestState /\ state.step = "file" /\ state.session = row
            /\ state.contract = disk.contract
    BY <2>1, EmptyTypes DEF RequestState, RequestAt, TypeInv, TypeOK
  <2>3. /\ request' \in [Request -> RequestState] /\ request'[r] = state
        /\ OthersKept(r)
    BY <1>2, <2>2, SendType DEF TypeInv, TypeOK
  <2> HIDE DEF state
  <2> QED
    BY <1>2, <2>1, <2>2, <2>3 DEF TypeInv, TypeOK, StepInv, At, Freeze, NoWorker, Holding
<1> QED
  BY <1>1, <1>2 DEF Freeze

LEMMA TypeStep == TypeInv /\ [Next]_vars => TypeInv'
<1> SUFFICES ASSUME TypeInv, [Next]_vars PROVE TypeInv'
  OBVIOUS
<1>1. CASE WorkerStep
  BY <1>1, TypeClaim, TypeBegin, TypeMark, TypeInventory, TypeOpen, TypeWritePart,
     TypeWriteCheckpoint, TypeWriteLabels, TypeWriteFeasibility, TypeReplay, TypeScore,
     TypeExport, TypePublish, TypePublishWrite, TypeAccept, TypeAcceptWrite, TypeFail,
     TypeFailWrite
     DEF WorkerStep
<1>2. CASE Raise \/ Crash \/ Cancel \/ DataChange
  BY <1>2, TypeRaise, TypeCrash, TypeCancel, TypeDataChange
<1>3. CASE \E r \in Request : RequestStep(r)
  BY <1>3, TypeCreate, TypeEnqueue, TypeDrift, TypeDriftWrite, TypeWriteRows,
     TypeWriteContract, TypeWriteSummary, TypeCheckFile, TypeCreateFile, TypeFreezeCheck,
     TypeFreezeWrite, TypeAttachCheck, TypeAttachWrite, TypeDelete, TypeRemove,
     TypeApiCrash, TypeAskJob, TypeApprove, TypeFreeze, TypeAttachRead
     DEF RequestStep
<1>4. CASE UNCHANGED vars
  BY <1>4 DEF vars, TypeInv, TypeOK, StepInv, At
<1> QED
  BY <1>1, <1>2, <1>3, <1>4 DEF Next

-----------------------------------------------------------------------------
(* The checkpoint and the parts; a directory that is removed.              *)

LEMMA CoverStep == TypeInv /\ CoverInv /\ [Next]_vars => CoverInv'
<1> SUFFICES ASSUME TypeInv, CoverInv, [Next]_vars PROVE CoverInv'
  OBVIOUS
<1> USE DEF CoverInv, At
<1>1. CASE Claim
  BY <1>1 DEF Claim, Goto, Worker, Disk, History, TypeInv, TypeOK
<1>2. CASE Begin
  BY <1>2 DEF Begin, Goto, Worker, Disk, History, JobEnds, IdleWorker, TypeInv, TypeOK
<1>3. CASE Mark
  <2>1. job \in JobType
    BY <1>3 DEF Mark, TypeInv, TypeOK
  <2>2. CASE JobEnds
    BY <1>3, <2>2 DEF Mark, JobEnds, IdleWorker, History
  <2>3. CASE worker' = [worker EXCEPT !.step = FirstStep[job], !.session = row']
    <3>1. worker'.completed = worker.completed /\ worker'.step = FirstStep[job]
      BY <2>3 DEF Worker, TypeInv, TypeOK
    <3>2. FirstStep[job] # "checkpoint"
      BY <2>1, JobFacts
    <3> QED
      BY <1>3, <3>1, <3>2 DEF Mark, History
  <2> QED
    BY <1>3, <2>2, <2>3 DEF Mark
<1>4. CASE Inventory
  BY <1>4 DEF Inventory, Goto, Worker, Disk, History, TypeInv, TypeOK
<1>5. CASE Open
  BY <1>5 DEF Open, Goto, Worker, Disk, History, CheckpointValid, TypeInv, TypeOK
<1>6. CASE WritePart
  BY <1>6 DEF WritePart, Goto, Worker, Disk, History, TypeInv, TypeOK
<1>7. CASE WriteCheckpoint
  BY <1>7 DEF WriteCheckpoint, Goto, Worker, Disk, History, TypeInv, TypeOK
<1>8. CASE WriteLabels
  BY <1>8 DEF WriteLabels, Goto, Worker, Disk, History, TypeInv, TypeOK
<1>9. CASE WriteFeasibility
  BY <1>9 DEF WriteFeasibility, Goto, Worker, Disk, History, TypeInv, TypeOK
<1>10. CASE Replay
  BY <1>10 DEF Replay, Goto, Worker, Disk, History, TypeInv, TypeOK
<1>11. CASE Score
  BY <1>11 DEF Score, Goto, Worker, Disk, History, TypeInv, TypeOK
<1>12. CASE Export
  BY <1>12 DEF Export, Goto, Worker, Disk, History, TypeInv, TypeOK
<1>13. CASE Publish
  BY <1>13 DEF Publish, Goto, Worker, Disk, History, TypeInv, TypeOK
<1>14. CASE PublishWrite
  BY <1>14
     DEF PublishWrite, Goto, Worker, Disk, History, JobEnds, IdleWorker, TypeInv, TypeOK
<1>15. CASE Accept
  BY <1>15 DEF Accept, Goto, Worker, Disk, History, TypeInv, TypeOK
<1>16. CASE AcceptWrite
  BY <1>16
     DEF AcceptWrite, Goto, Worker, Disk, History, JobEnds, IdleWorker, TypeInv, TypeOK
<1>17. CASE Fail
  BY <1>17 DEF Fail, Goto, Worker, Disk, History, JobEnds, IdleWorker, TypeInv, TypeOK
<1>18. CASE FailWrite
  BY <1>18 DEF FailWrite, Goto, Worker, Disk, History, JobEnds, IdleWorker, TypeInv, TypeOK
<1>19. CASE Raise
  BY <1>19 DEF Raise, Goto, Worker, Disk, History, JobEnds, IdleWorker, TypeInv, TypeOK
<1>20. CASE Crash
  BY <1>20 DEF Crash, Goto, Worker, Disk, History, IdleWorker, TypeInv, TypeOK
<1>21. CASE Cancel
  BY <1>21 DEF Cancel, Goto, Worker, Disk, History, TypeInv, TypeOK
<1>22. CASE DataChange
  BY <1>22 DEF DataChange, Goto, Worker, Disk, History, TypeInv, TypeOK
<1>23. CASE \E r \in Request : RequestStep(r)
  <2> SUFFICES ASSUME NEW r \in Request, RequestStep(r) PROVE CoverInv'
    BY <1>23
  <2>1. CASE Create(r)
    BY <2>1 DEF Create, NoWorker, Disk, TypeInv, TypeOK, EmptyDisk, IdleWorker, StepInv
  <2>2. CASE Enqueue(r)
    BY <2>2 DEF Enqueue, NoWorker, Disk, TypeInv, TypeOK, History
  <2>3. CASE Drift(r)
    BY <2>3 DEF Drift, NoWorker, Disk, TypeInv, TypeOK
  <2>4. CASE DriftWrite(r)
    BY <2>4 DEF DriftWrite, NoWorker, Disk, TypeInv, TypeOK
  <2>5. CASE WriteRows(r)
    BY <2>5 DEF WriteRows, NoWorker, Disk, TypeInv, TypeOK
  <2>6. CASE WriteContract(r)
    BY <2>6 DEF WriteContract, NoWorker, Disk, TypeInv, TypeOK
  <2>7. CASE WriteSummary(r)
    BY <2>7 DEF WriteSummary, NoWorker, Disk, TypeInv, TypeOK
  <2>8. CASE CheckFile(r)
    BY <2>8 DEF CheckFile, NoWorker, Disk, TypeInv, TypeOK
  <2>9. CASE CreateFile(r)
    BY <2>9 DEF CreateFile, NoWorker, Disk, TypeInv, TypeOK
  <2>10. CASE FreezeCheck(r)
    BY <2>10 DEF FreezeCheck, NoWorker, Disk, TypeInv, TypeOK
  <2>11. CASE FreezeWrite(r)
    BY <2>11 DEF FreezeWrite, NoWorker, Disk, TypeInv, TypeOK
  <2>12. CASE AttachCheck(r)
    BY <2>12 DEF AttachCheck, NoWorker, Disk, TypeInv, TypeOK
  <2>13. CASE AttachWrite(r)
    BY <2>13 DEF AttachWrite, NoWorker, Disk, TypeInv, TypeOK
  <2>14. CASE Delete(r)
    BY <2>14 DEF Delete, NoWorker, Disk, TypeInv, TypeOK
  <2>15. CASE Remove(r)
    BY <2>15 DEF Remove, NoWorker, Disk, TypeInv, TypeOK
  <2>16. CASE ApiCrash(r)
    BY <2>16 DEF ApiCrash, NoWorker, Disk, TypeInv, TypeOK, History
  <2>17. CASE \E type \in JobType : AskJob(r, type)
    BY <2>17 DEF AskJob, NoWorker, Disk, TypeInv, TypeOK
  <2>18. CASE \E policy \in Policy : Approve(r, policy)
    BY <2>18 DEF Approve, NoWorker, Disk, TypeInv, TypeOK, StartApproval
  <2>19. CASE \E policy \in Policy : Freeze(r, policy)
    BY <2>19 DEF Freeze, NoWorker, Disk, TypeInv, TypeOK, StartApproval
  <2>20. CASE \E candidate \in Candidate : AttachRead(r, candidate)
    BY <2>20 DEF AttachRead, NoWorker, Disk, TypeInv, TypeOK
  <2> QED
    BY <2>1, <2>2, <2>3, <2>4, <2>5, <2>6, <2>7, <2>8, <2>9, <2>10, <2>11, <2>12, <2>13,
       <2>14, <2>15, <2>16, <2>17, <2>18, <2>19, <2>20
       DEF RequestStep
<1>24. CASE UNCHANGED vars
  BY <1>24 DEF vars
<1> QED
  BY <1>1, <1>2, <1>3, <1>4, <1>5, <1>6, <1>7, <1>8, <1>9, <1>10, <1>11, <1>12, <1>13,
     <1>14, <1>15, <1>16, <1>17, <1>18, <1>19, <1>20, <1>21, <1>22, <1>23, <1>24
     DEF Next, WorkerStep

LEMMA RemoveStep ==
  ASSUME TypeInv, RemoveInv, [Next]_vars PROVE RemoveInv'
<1> USE DEF RemoveInv, On
<1>1. CASE UNCHANGED <<request, wiped>>
  BY <1>1
<1>2. ASSUME NEW r \in Request, RequestStep(r) PROVE RemoveInv'
  <2> USE DEF NoWorker
  <2>1. CASE Create(r)
    BY <2>1 DEF Create, Idle
  <2>2. CASE Delete(r)
    BY <2>2 DEF Delete
  <2>3. CASE Answer(r) /\ wiped' = wiped
    BY <2>3, AnswerType DEF TypeInv, TypeOK
  <2>4. CASE (\E step \in RequestAt \ {"remove"} : Goes(r, step)) /\ wiped' = wiped
    BY <2>4, GoesType DEF TypeInv, TypeOK
  <2>5. ASSUME NEW step \in RequestAt \ {"remove"}, wiped' = wiped, request'[r].step = step,
              OthersKept(r)
       PROVE  RemoveInv'
    BY <2>5
  <2>6. CASE (\E type \in JobType : AskJob(r, type))
                 \/ \E candidate \in Candidate : AttachRead(r, candidate)
    <3>1. \A type \in JobType : \A step \in RequestAt :
            [IdleRequest EXCEPT !.step = step, !.type = type].step = step
      BY DEF IdleRequest
    <3>2. \A candidate \in Candidate :
            [IdleRequest EXCEPT !.step = "attach", !.candidate = candidate].step = "attach"
      BY DEF IdleRequest
    <3>3. PICK state : Send(r, state) /\ state.step \in {"drift", "enqueue", "attach"}
              /\ wiped' = wiped
      BY <2>6, <3>1, <3>2 DEF AskJob, AttachRead, RequestAt
    <3> QED
      BY <2>5, <3>3 DEF Send, RequestAt, TypeInv, TypeOK
  <2>10. CASE \E policy \in Policy : Approve(r, policy) \/ Freeze(r, policy)
    <3>1. ASSUME NEW policy \in Policy, NEW freezing \in BOOLEAN, row.status = "atlas_ready",
                 StartApproval(r, policy, freezing)
          PROVE  RemoveInv'
      BY <3>1, <2>5, TypeStartApproval DEF StartApproval, RequestAt
    <3>2. [IdleRequest EXCEPT !.step = "file", !.session = row, !.contract = disk.contract].step = "file"
      BY DEF IdleRequest
    <3>3. CASE Send(r, [IdleRequest EXCEPT !.step = "file", !.session = row, !.contract = disk.contract])
               /\ wiped' = wiped
      BY <3>2, <3>3, <2>5 DEF Send, RequestAt, TypeInv, TypeOK
    <3> QED
      BY <2>10, <3>1, <3>3 DEF Approve, Freeze
  <2>7. CASE WriteContract(r) \/ WriteSummary(r)
    BY <2>7, EmptyTypes, AnswerType
       DEF WriteContract, WriteSummary, Send, RequestState, TypeInv, TypeOK
  <2>8. CASE Enqueue(r) \/ Drift(r) \/ DriftWrite(r) \/ WriteRows(r) \/ CheckFile(r)
                 \/ CreateFile(r)
             \/ FreezeCheck(r) \/ FreezeWrite(r) \/ AttachCheck(r) \/ AttachWrite(r)
                 \/ Remove(r)
             \/ ApiCrash(r)
    BY <2>3, <2>4, <2>8
       DEF Enqueue, Drift, DriftWrite, WriteRows, CheckFile, CreateFile, FreezeCheck,
           FreezeWrite,
           AttachCheck, AttachWrite, Remove, ApiCrash, History, RequestAt
  <2> QED
    BY <1>2, <2>1, <2>2, <2>6, <2>7, <2>8, <2>10 DEF RequestStep
<1>3. CASE ~\E r \in Request : RequestStep(r)
  BY <1>1, <1>3
     DEF Next, vars, WorkerStep, History, Claim, Begin, Mark, Inventory, Open, WritePart,
         WriteCheckpoint, WriteLabels, WriteFeasibility, Replay, Score, Export, Publish,
         PublishWrite, Accept, AcceptWrite, Fail, FailWrite, Raise, Crash, Cancel, DataChange
<1> QED
  BY <1>2, <1>3

-----------------------------------------------------------------------------
(* The evidence: one lemma per action, in a directory that is not removed. *)

LEMMA EvidenceClaim ==
  ASSUME IInv, ~wiped, ~wiped', Claim
  PROVE  AtlasInv' /\ EvidenceInv'
<1> USE DEF IInv
<1>1. \A step \in {"begin"} : Goto(step) => worker'.step = step /\ WorkerKept
  BY MoveType DEF TypeInv, TypeOK, WorkerAt
<1>a. AtlasInv'
  BY <1>1
     DEF Claim, At, History, AtlasInv, EvidenceInv, Complete, Evidenced, Active, TypeInv,
         TypeOK, StepInv
<1>e. EvidenceInv'
  BY <1>1
     DEF Claim, At, History, AtlasInv, EvidenceInv, Complete, Evidenced, Active, TypeInv,
         TypeOK, StepInv
<1> QED
  BY <1>a, <1>e

LEMMA EvidenceBegin ==
  ASSUME IInv, ~wiped, ~wiped', Begin
  PROVE  AtlasInv' /\ EvidenceInv'
<1> USE DEF IInv
<1>1. \A step \in {"mark"} : Goto(step) => worker'.step = step /\ WorkerKept
  BY MoveType DEF TypeInv, TypeOK, WorkerAt
<1>2. JobEnds => worker' = IdleWorker /\ worker'.step = "idle"
          /\ worker'.session.evidence = None /\ worker'.completed = {} /\ job' = None
  BY DEF JobEnds, IdleWorker, NoRow
<1>3. Goto("mark") /\ job # "atlas" => row.target # None \/ row.candidate # None
          \/ row.evaluation # None
  BY DEF Begin, Startable, JobEnds, Goto, JobType, At, IdleWorker, Worker, TypeInv, TypeOK
<1>a. AtlasInv'
  BY <1>1, <1>2, <1>3
     DEF Begin, At, History, AtlasInv, EvidenceInv, Complete, Evidenced, Active, TypeInv,
         TypeOK, StepInv
<1>e. EvidenceInv'
  BY <1>1, <1>2, <1>3
     DEF Begin, At, History, AtlasInv, EvidenceInv, Complete, Evidenced, Active, TypeInv,
         TypeOK, StepInv
<1> QED
  BY <1>a, <1>e

LEMMA EvidenceMark ==
  ASSUME IInv, ~wiped, ~wiped', Mark
  PROVE  AtlasInv' /\ EvidenceInv'
<1> USE DEF IInv
<1>1. JobEnds => worker' = IdleWorker /\ worker'.step = "idle"
          /\ worker'.session.evidence = None /\ worker'.completed = {} /\ job' = None
  BY DEF JobEnds, IdleWorker, NoRow
<1>2. job \in JobType
  BY DEF Mark, At, TypeInv, TypeOK
<1>3. SessionKept
  BY <1>2, JobFacts DEF Mark, Write, Row, TypeInv, TypeOK
<1>4. row.status # "absent" => row'.status = Running[job]
  BY <1>2 DEF Mark, Write, Row, TypeInv, TypeOK
<1>5. JobEnds \/ (worker'.step = FirstStep[job] /\ worker'.session = row'
          /\ worker'.completed = worker.completed /\ job' = job)
  BY DEF Mark, Worker, TypeInv, TypeOK
<1>6. job # "atlas" \/ Running[job] \notin Ready
  BY DEF Running, Ready, JobType
<1>7. row' = row \/ row'.status = Running[job]
  BY <1>4 DEF Mark, Write
<1>a. AtlasInv'
  BY <1>1, <1>2, <1>3, <1>4, <1>5, <1>6, <1>7, JobFacts
     DEF Mark, At, History, AtlasInv, EvidenceInv, Complete, Evidenced, Active, TypeInv,
         TypeOK, StepInv
<1>e. EvidenceInv'
  BY <1>1, <1>2, <1>3, <1>4, <1>5, <1>6, <1>7, JobFacts
     DEF Mark, At, History, AtlasInv, EvidenceInv, Complete, Evidenced, Active, TypeInv,
         TypeOK, StepInv
<1> QED
  BY <1>a, <1>e

LEMMA EvidenceInventory ==
  ASSUME IInv, ~wiped, ~wiped', Inventory
  PROVE  AtlasInv' /\ EvidenceInv'
<1> USE DEF IInv
<1>1. worker'.step = "open" /\ worker'.session = worker.session
  BY DEF Inventory, Worker, TypeInv, TypeOK
<1>2. FilesKept
  BY DEF Inventory, Disk, TypeInv, TypeOK
<1>a. AtlasInv'
  BY <1>1, <1>2
     DEF Inventory, At, History, AtlasInv, EvidenceInv, Complete, Evidenced, Active,
         TypeInv, TypeOK, StepInv
<1>e. EvidenceInv'
  BY <1>1, <1>2
     DEF Inventory, At, History, AtlasInv, EvidenceInv, Complete, Evidenced, Active,
         TypeInv, TypeOK, StepInv
<1> QED
  BY <1>a, <1>e

LEMMA EvidenceOpen ==
  ASSUME IInv, ~wiped, ~wiped', Open
  PROVE  AtlasInv' /\ EvidenceInv'
<1> USE DEF IInv
<1>1. \A step \in {"fail"} : Goto(step) => worker'.step = step /\ WorkerKept
  BY MoveType DEF TypeInv, TypeOK, WorkerAt
<1>2. ~Goto("fail") => /\ worker'.step = "part" /\ worker'.session = worker.session
          /\ worker'.evidence = worker.evidence
        /\ ((disk.fingerprint = None /\ worker'.completed = worker.completed)
            \/ disk.fingerprint = worker.evidence)
  BY DEF Open, CheckpointValid, Worker, TypeInv, TypeOK
<1>a. AtlasInv'
  BY <1>1, <1>2
     DEF Open, At, History, AtlasInv, EvidenceInv, Complete, Evidenced, Active, TypeInv,
         TypeOK, StepInv
<1>e. EvidenceInv'
  BY <1>1, <1>2
     DEF Open, At, History, AtlasInv, EvidenceInv, Complete, Evidenced, Active, TypeInv,
         TypeOK, StepInv
<1> QED
  BY <1>a, <1>e

LEMMA EvidenceWritePart ==
  ASSUME IInv, ~wiped, ~wiped', WritePart
  PROVE  AtlasInv' /\ EvidenceInv'
<1> USE DEF IInv
<1>1. worker'.step = "checkpoint" /\ WorkerKept
  BY DEF WritePart, Worker, TypeInv, TypeOK
<1>2. FilesKept
  BY DEF WritePart, Disk, TypeInv, TypeOK
<1>a. AtlasInv'
  BY <1>1, <1>2
     DEF WritePart, At, History, AtlasInv, EvidenceInv, Complete, Evidenced, Active,
         TypeInv, TypeOK, StepInv
<1>e. EvidenceInv'
  BY <1>1, <1>2
     DEF WritePart, At, History, AtlasInv, EvidenceInv, Complete, Evidenced, Active,
         TypeInv, TypeOK, StepInv
<1> QED
  BY <1>a, <1>e

LEMMA EvidenceWriteCheckpoint ==
  ASSUME IInv, ~wiped, ~wiped', WriteCheckpoint
  PROVE  AtlasInv' /\ EvidenceInv'
<1> USE DEF IInv
<1>1. worker'.step = "part" /\ worker'.evidence = worker.evidence
          /\ worker'.session = worker.session
  BY DEF WriteCheckpoint, Worker, TypeInv, TypeOK
<1>2. disk'.labels = disk.labels /\ disk'.feasibility = disk.feasibility
          /\ disk'.fingerprint = worker.evidence
  BY DEF WriteCheckpoint, Disk, TypeInv, TypeOK
<1>a. AtlasInv'
  BY <1>1, <1>2, DiscoveryAssumption
     DEF WriteCheckpoint, At, History, AtlasInv, EvidenceInv, Complete, Evidenced, Active,
         TypeInv, TypeOK, StepInv
<1>e. EvidenceInv'
  BY <1>1, <1>2, DiscoveryAssumption
     DEF WriteCheckpoint, At, History, AtlasInv, EvidenceInv, Complete, Evidenced, Active,
         TypeInv, TypeOK, StepInv
<1> QED
  BY <1>a, <1>e

LEMMA EvidenceWriteLabels ==
  ASSUME IInv, ~wiped, ~wiped', WriteLabels
  PROVE  AtlasInv' /\ EvidenceInv'
<1> USE DEF IInv
<1>1. \A step \in {"fail", "feasibility"} : Goto(step) => worker'.step = step /\ WorkerKept
  BY MoveType DEF TypeInv, TypeOK, WorkerAt
<1>2. disk'.feasibility = disk.feasibility /\ disk'.fingerprint = disk.fingerprint
  BY DEF WriteLabels, Disk, TypeInv, TypeOK
<1>3. worker.completed = Risk
  BY DEF WriteLabels
<1>4. \/ Goto("feasibility") /\ disk' = [disk EXCEPT !.labels = worker.completed]
      \/ Goto("fail") /\ disk' = disk
  BY DEF WriteLabels
<1>5. [disk EXCEPT !.labels = worker.completed].labels = worker.completed
  BY DEF Disk, TypeInv, TypeOK
<1>a. AtlasInv'
  BY <1>1, <1>2, <1>3, <1>4, <1>5
     DEF WriteLabels, At, History, AtlasInv, EvidenceInv, Complete, Evidenced, Active,
         TypeInv, TypeOK, StepInv
<1>e. EvidenceInv'
  BY <1>1, <1>2, <1>3, <1>4, <1>5
     DEF WriteLabels, At, History, AtlasInv, EvidenceInv, Complete, Evidenced, Active,
         TypeInv, TypeOK, StepInv
<1> QED
  BY <1>a, <1>e

LEMMA EvidenceWriteFeasibility ==
  ASSUME IInv, ~wiped, ~wiped', WriteFeasibility
  PROVE  AtlasInv' /\ EvidenceInv'
<1> USE DEF IInv
<1>1. \A step \in {"publish"} : Goto(step) => worker'.step = step /\ WorkerKept
  BY MoveType DEF TypeInv, TypeOK, WorkerAt
<1>2. disk'.labels = disk.labels /\ disk'.fingerprint = disk.fingerprint
          /\ disk'.feasibility = worker.completed
  BY DEF WriteFeasibility, Disk, TypeInv, TypeOK
<1>a. AtlasInv'
  BY <1>1, <1>2, DiscoveryAssumption
     DEF WriteFeasibility, At, History, AtlasInv, EvidenceInv, Complete, Evidenced, Active,
         TypeInv, TypeOK, StepInv
<1>e. EvidenceInv'
  BY <1>1, <1>2, DiscoveryAssumption
     DEF WriteFeasibility, At, History, AtlasInv, EvidenceInv, Complete, Evidenced, Active,
         TypeInv, TypeOK, StepInv
<1> QED
  BY <1>a, <1>e

LEMMA EvidenceReplay ==
  ASSUME IInv, ~wiped, ~wiped', Replay
  PROVE  AtlasInv' /\ EvidenceInv'
<1> USE DEF IInv
<1>1. \A step \in {"publish"} : Goto(step) => worker'.step = step /\ WorkerKept
  BY MoveType DEF TypeInv, TypeOK, WorkerAt
<1>2. FilesKept
  BY DEF Replay, Disk, TypeInv, TypeOK
<1>a. AtlasInv'
  BY <1>1, <1>2
     DEF Replay, At, History, AtlasInv, EvidenceInv, Complete, Evidenced, Active, TypeInv,
         TypeOK, StepInv
<1>e. EvidenceInv'
  BY <1>1, <1>2
     DEF Replay, At, History, AtlasInv, EvidenceInv, Complete, Evidenced, Active, TypeInv,
         TypeOK, StepInv
<1> QED
  BY <1>a, <1>e

LEMMA EvidenceScore ==
  ASSUME IInv, ~wiped, ~wiped', Score
  PROVE  AtlasInv' /\ EvidenceInv'
<1> USE DEF IInv
<1>1. \A step \in {"fail"} : Goto(step) => worker'.step = step /\ WorkerKept
  BY MoveType DEF TypeInv, TypeOK, WorkerAt
<1>2. ~Goto("fail") => worker'.step = "publish" /\ WorkerKept
  BY DEF Score, Worker, TypeInv, TypeOK
<1>a. AtlasInv'
  BY <1>1, <1>2
     DEF Score, At, History, AtlasInv, EvidenceInv, Complete, Evidenced, Active, TypeInv,
         TypeOK, StepInv
<1>e. EvidenceInv'
  BY <1>1, <1>2
     DEF Score, At, History, AtlasInv, EvidenceInv, Complete, Evidenced, Active, TypeInv,
         TypeOK, StepInv
<1> QED
  BY <1>a, <1>e

LEMMA EvidenceExport ==
  ASSUME IInv, ~wiped, ~wiped', Export
  PROVE  AtlasInv' /\ EvidenceInv'
<1> USE DEF IInv
<1>1. \A step \in {"fail"} : Goto(step) => worker'.step = step /\ WorkerKept
  BY MoveType DEF TypeInv, TypeOK, WorkerAt
<1>2. ~Goto("fail") => worker'.step = "publish" /\ WorkerKept
  BY DEF Export, Worker, TypeInv, TypeOK
<1>a. AtlasInv'
  BY <1>1, <1>2
     DEF Export, At, History, AtlasInv, EvidenceInv, Complete, Evidenced, Active, TypeInv,
         TypeOK, StepInv
<1>e. EvidenceInv'
  BY <1>1, <1>2
     DEF Export, At, History, AtlasInv, EvidenceInv, Complete, Evidenced, Active, TypeInv,
         TypeOK, StepInv
<1> QED
  BY <1>a, <1>e

LEMMA EvidencePublish ==
  ASSUME IInv, ~wiped, ~wiped', Publish
  PROVE  AtlasInv' /\ EvidenceInv'
<1> USE DEF IInv
<1>1. \A step \in {"published", "fail"} : Goto(step) => worker'.step = step /\ WorkerKept
  BY MoveType DEF TypeInv, TypeOK, WorkerAt
<1>a. AtlasInv'
  BY <1>1
     DEF Publish, At, History, AtlasInv, EvidenceInv, Complete, Evidenced, Active, TypeInv,
         TypeOK, StepInv
<1>e. EvidenceInv'
  BY <1>1
     DEF Publish, At, History, AtlasInv, EvidenceInv, Complete, Evidenced, Active, TypeInv,
         TypeOK, StepInv
<1> QED
  BY <1>a, <1>e

LEMMA EvidencePublishWrite ==
  ASSUME IInv, ~wiped, ~wiped', PublishWrite
  PROVE  AtlasInv' /\ EvidenceInv'
<1> USE DEF IInv
<1>1. \A step \in {"accept", "fail"} : Goto(step) => worker'.step = step /\ WorkerKept
  BY MoveType DEF TypeInv, TypeOK, WorkerAt
<1>2. JobEnds => worker' = IdleWorker /\ worker'.step = "idle"
          /\ worker'.session.evidence = None /\ worker'.completed = {} /\ job' = None
  BY DEF JobEnds, IdleWorker, NoRow
<1>3. job \in JobType
  BY DEF PublishWrite, At, TypeInv, TypeOK
<1>4. row.status # "absent" => row' = Published
  BY DEF PublishWrite, Write
<1>5. row.status = "absent" => row' = row
  BY DEF PublishWrite, Write
<1>6. /\ job = "atlas" => Published.evidence = worker.evidence
      /\ job = "walk_forward" => Published.evidence = worker.session.evidence
      /\ job \in {"evaluation", "handoff"} => Published.evidence = row.evidence
  BY DEF Published, Row, TypeInv, TypeOK
<1>a. AtlasInv'
  BY <1>1, <1>2, <1>3, <1>4, <1>5, <1>6, DiscoveryAssumption
     DEF PublishWrite, At, History, AtlasInv, EvidenceInv, Complete, Evidenced, Active,
         TypeInv, TypeOK, StepInv
<1>7. worker.step = "published" /\ Active /\ wiped' = wiped /\ UNCHANGED <<disk, request>>
  BY DEF PublishWrite, At, Active, History
<1>8. /\ row'.evidence = row.evidence \/ Evidenced(row')
      /\ row.evidence # None => row'.evidence # None
      /\ row.status # "absent" => row'.evidence # None
  <2>1. CASE row.status = "absent"
    BY <1>5, <2>1
  <2>2. CASE row.status # "absent" /\ job = "atlas"
    BY <1>4, <1>6, <1>7, <2>2, DiscoveryAssumption
       DEF Evidenced, Complete, AtlasInv, StepInv, TypeInv
  <2>3. CASE row.status # "absent" /\ job = "walk_forward"
    BY <1>4, <1>6, <1>7, <2>3 DEF Evidenced, Complete, EvidenceInv
  <2>4. CASE row.status # "absent" /\ job \in {"evaluation", "handoff"}
    BY <1>4, <1>6, <1>7, <2>4 DEF EvidenceInv
  <2> QED
    BY <1>3, <2>1, <2>2, <2>3, <2>4 DEF JobType
<1>9. Evidenced(row') /\ (row.status = "absent" => row' = row)
  BY <1>5, <1>8 DEF EvidenceInv, Evidenced
<1>10. \/ worker'.step = "idle" /\ worker'.session.evidence = None /\ job' = None
       \/ worker'.step \in {"accept", "fail"} /\ worker'.session = worker.session
           /\ job' = job
  BY <1>1, <1>2 DEF PublishWrite
<1>11. worker'.step # "idle" => row'.evidence = row.evidence
  BY <1>1, <1>2, <1>4, <1>5, <1>6 DEF PublishWrite
<1>e. EvidenceInv'
  BY <1>7, <1>8, <1>9, <1>10, <1>11 DEF EvidenceInv, Evidenced, Complete, Active, At
<1> QED
  BY <1>a, <1>e

LEMMA EvidenceAccept ==
  ASSUME IInv, ~wiped, ~wiped', Accept
  PROVE  AtlasInv' /\ EvidenceInv'
<1> USE DEF IInv
<1>1. \A step \in {"accepted", "fail"} : Goto(step) => worker'.step = step /\ WorkerKept
  BY MoveType DEF TypeInv, TypeOK, WorkerAt
<1>a. AtlasInv'
  BY <1>1
     DEF Accept, At, History, AtlasInv, EvidenceInv, Complete, Evidenced, Active, TypeInv,
         TypeOK, StepInv
<1>e. EvidenceInv'
  BY <1>1
     DEF Accept, At, History, AtlasInv, EvidenceInv, Complete, Evidenced, Active, TypeInv,
         TypeOK, StepInv
<1> QED
  BY <1>a, <1>e

LEMMA EvidenceAcceptWrite ==
  ASSUME IInv, ~wiped, ~wiped', AcceptWrite
  PROVE  AtlasInv' /\ EvidenceInv'
<1> USE DEF IInv
<1>1. JobEnds => worker' = IdleWorker /\ worker'.step = "idle"
          /\ worker'.session.evidence = None /\ worker'.completed = {} /\ job' = None
  BY DEF JobEnds, IdleWorker, NoRow
<1>2. \A step \in {"fail"} : Goto(step) => worker'.step = step /\ WorkerKept
  BY MoveType DEF TypeInv, TypeOK, WorkerAt
<1>3. SessionKept
  BY DEF AcceptWrite, Write, Row, TypeInv, TypeOK
<1>a. AtlasInv'
  BY <1>1, <1>2, <1>3
     DEF AcceptWrite, At, History, AtlasInv, EvidenceInv, Complete, Evidenced, Active,
         TypeInv, TypeOK, StepInv
<1>e. EvidenceInv'
  BY <1>1, <1>2, <1>3
     DEF AcceptWrite, At, History, AtlasInv, EvidenceInv, Complete, Evidenced, Active,
         TypeInv, TypeOK, StepInv
<1> QED
  BY <1>a, <1>e

LEMMA EvidenceFail ==
  ASSUME IInv, ~wiped, ~wiped', Fail
  PROVE  AtlasInv' /\ EvidenceInv'
<1> USE DEF IInv
<1>1. \A step \in {"failed"} : Goto(step) => worker'.step = step /\ WorkerKept
  BY MoveType DEF TypeInv, TypeOK, WorkerAt
<1>2. JobEnds => worker' = IdleWorker /\ worker'.step = "idle"
          /\ worker'.session.evidence = None /\ worker'.completed = {} /\ job' = None
  BY DEF JobEnds, IdleWorker, NoRow
<1>a. AtlasInv'
  BY <1>1, <1>2
     DEF Fail, At, History, AtlasInv, EvidenceInv, Complete, Evidenced, Active, TypeInv,
         TypeOK, StepInv
<1>e. EvidenceInv'
  BY <1>1, <1>2
     DEF Fail, At, History, AtlasInv, EvidenceInv, Complete, Evidenced, Active, TypeInv,
         TypeOK, StepInv
<1> QED
  BY <1>a, <1>e

LEMMA EvidenceFailWrite ==
  ASSUME IInv, ~wiped, ~wiped', FailWrite
  PROVE  AtlasInv' /\ EvidenceInv'
<1> USE DEF IInv
<1>1. JobEnds => worker' = IdleWorker /\ worker'.step = "idle"
          /\ worker'.session.evidence = None /\ worker'.completed = {} /\ job' = None
  BY DEF JobEnds, IdleWorker, NoRow
<1>2. row.status # "absent" => row'.evidence = worker.session.evidence
          /\ row'.target = row.target /\ row'.candidate = row.candidate
          /\ row'.evaluation = row.evaluation /\ row'.status = "failed"
  BY DEF FailWrite, Write, Failed, Row, TypeInv, TypeOK
<1>3. row.status = "absent" => row' = row
  BY DEF FailWrite, Write
<1>a. AtlasInv'
  BY <1>1, <1>2, <1>3
     DEF FailWrite, Ready, At, History, AtlasInv, EvidenceInv, Complete, Evidenced, Active,
         TypeInv, TypeOK, StepInv
<1>e. EvidenceInv'
  BY <1>1, <1>2, <1>3
     DEF FailWrite, Ready, At, History, AtlasInv, EvidenceInv, Complete, Evidenced, Active,
         TypeInv, TypeOK, StepInv
<1> QED
  BY <1>a, <1>e

LEMMA EvidenceRaise ==
  ASSUME IInv, ~wiped, ~wiped', Raise
  PROVE  AtlasInv' /\ EvidenceInv'
<1> USE DEF IInv
<1>1. \A step \in {"fail"} : Goto(step) => worker'.step = step /\ WorkerKept
  BY MoveType DEF TypeInv, TypeOK, WorkerAt
<1>2. JobEnds => worker' = IdleWorker /\ worker'.step = "idle"
          /\ worker'.session.evidence = None /\ worker'.completed = {} /\ job' = None
  BY DEF JobEnds, IdleWorker, NoRow
<1>a. AtlasInv'
  BY <1>1, <1>2
     DEF Raise, InTry, At, History, AtlasInv, EvidenceInv, Complete, Evidenced, Active,
         TypeInv, TypeOK, StepInv
<1>e. EvidenceInv'
  BY <1>1, <1>2
     DEF Raise, InTry, At, History, AtlasInv, EvidenceInv, Complete, Evidenced, Active,
         TypeInv, TypeOK, StepInv
<1> QED
  BY <1>a, <1>e

LEMMA EvidenceCrash ==
  ASSUME IInv, ~wiped, ~wiped', Crash
  PROVE  AtlasInv' /\ EvidenceInv'
<1> USE DEF IInv
<1>1. worker'.step = "idle" /\ worker'.completed = {} /\ worker'.session.evidence = None
  BY DEF Crash, IdleWorker, NoRow
<1>a. AtlasInv'
  BY <1>1
     DEF Crash, At, History, AtlasInv, EvidenceInv, Complete, Evidenced, Active, TypeInv,
         TypeOK, StepInv
<1>e. EvidenceInv'
  BY <1>1
     DEF Crash, At, History, AtlasInv, EvidenceInv, Complete, Evidenced, Active, TypeInv,
         TypeOK, StepInv
<1> QED
  BY <1>a, <1>e

LEMMA EvidenceCancel ==
  ASSUME IInv, ~wiped, ~wiped', Cancel
  PROVE  AtlasInv' /\ EvidenceInv'
<1> USE DEF IInv
<1>a. AtlasInv'
  BY
     DEF Cancel, At, History, AtlasInv, EvidenceInv, Complete, Evidenced, Active, TypeInv,
         TypeOK, StepInv
<1>e. EvidenceInv'
  BY
     DEF Cancel, At, History, AtlasInv, EvidenceInv, Complete, Evidenced, Active, TypeInv,
         TypeOK, StepInv
<1> QED
  BY <1>a, <1>e

LEMMA EvidenceDataChange ==
  ASSUME IInv, ~wiped, ~wiped', DataChange
  PROVE  AtlasInv' /\ EvidenceInv'
<1> USE DEF IInv
<1>a. AtlasInv'
  BY
     DEF DataChange, At, History, AtlasInv, EvidenceInv, Complete, Evidenced, Active,
         TypeInv, TypeOK, StepInv
<1>e. EvidenceInv'
  BY
     DEF DataChange, At, History, AtlasInv, EvidenceInv, Complete, Evidenced, Active,
         TypeInv, TypeOK, StepInv
<1> QED
  BY <1>a, <1>e

LEMMA EvidenceEnqueue ==
  ASSUME IInv, ~wiped, ~wiped', NEW r \in Request, Enqueue(r)
  PROVE  AtlasInv' /\ EvidenceInv'
<1> USE DEF IInv
<1>1. Answer(r) => request'[r].step = "idle" /\ OthersKept(r)
  BY AnswerType DEF TypeInv, TypeOK
<1>a. AtlasInv'
  BY <1>1
     DEF Enqueue, NoWorker, Holding, On, Idle, History, At, AtlasInv, EvidenceInv, Complete,
         Evidenced, Active, TypeInv, TypeOK, StepInv
<1>e. EvidenceInv'
  BY <1>1
     DEF Enqueue, NoWorker, Holding, On, Idle, History, At, AtlasInv, EvidenceInv, Complete,
         Evidenced, Active, TypeInv, TypeOK, StepInv
<1> QED
  BY <1>a, <1>e

LEMMA EvidenceDrift ==
  ASSUME IInv, ~wiped, ~wiped', NEW r \in Request, Drift(r)
  PROVE  AtlasInv' /\ EvidenceInv'
<1> USE DEF IInv
<1>1. Answer(r) => request'[r].step = "idle" /\ OthersKept(r)
  BY AnswerType DEF TypeInv, TypeOK
<1>2. \A step \in {"drifted"} : Goes(r, step) => request'[r].step = step
          /\ request'[r].session = request[r].session /\ OthersKept(r)
  BY GoesType DEF RequestAt, TypeInv, TypeOK
<1>a. AtlasInv'
  BY <1>1, <1>2
     DEF Drift, NoWorker, Holding, On, Idle, History, At, AtlasInv, EvidenceInv, Complete,
         Evidenced, Active, TypeInv, TypeOK, StepInv
<1>e. EvidenceInv'
  BY <1>1, <1>2
     DEF Drift, NoWorker, Holding, On, Idle, History, At, AtlasInv, EvidenceInv, Complete,
         Evidenced, Active, TypeInv, TypeOK, StepInv
<1> QED
  BY <1>a, <1>e

LEMMA EvidenceDriftWrite ==
  ASSUME IInv, ~wiped, ~wiped', NEW r \in Request, DriftWrite(r)
  PROVE  AtlasInv' /\ EvidenceInv'
<1> USE DEF IInv
<1>1. Answer(r) => request'[r].step = "idle" /\ OthersKept(r)
  BY AnswerType DEF TypeInv, TypeOK
<1>2. SessionKept
  BY DEF DriftWrite, Write, Row, TypeInv, TypeOK
<1>3. row' = row \/ row'.status = "failed"
  BY DEF DriftWrite, Write, Row, TypeInv, TypeOK
<1>a. AtlasInv'
  BY <1>1, <1>2, <1>3
     DEF DriftWrite, NoWorker, Holding, On, Idle, History, At, Ready, AtlasInv, EvidenceInv,
         Complete, Evidenced, Active, TypeInv, TypeOK, StepInv
<1>e. EvidenceInv'
  BY <1>1, <1>2, <1>3
     DEF DriftWrite, NoWorker, Holding, On, Idle, History, At, Ready, AtlasInv, EvidenceInv,
         Complete, Evidenced, Active, TypeInv, TypeOK, StepInv
<1> QED
  BY <1>a, <1>e

LEMMA EvidenceWriteRows ==
  ASSUME IInv, ~wiped, ~wiped', NEW r \in Request, WriteRows(r)
  PROVE  AtlasInv' /\ EvidenceInv'
<1> USE DEF IInv
<1>1. \A step \in {"contract"} : Goes(r, step) => request'[r].step = step
          /\ request'[r].session = request[r].session /\ OthersKept(r)
  BY GoesType DEF RequestAt, TypeInv, TypeOK
<1>2. FilesKept
  BY DEF WriteRows, Disk, TypeInv, TypeOK
<1>a. AtlasInv'
  BY <1>1, <1>2
     DEF WriteRows, NoWorker, Holding, On, Idle, History, At, AtlasInv, EvidenceInv,
         Complete, Evidenced, Active, TypeInv, TypeOK, StepInv
<1>e. EvidenceInv'
  BY <1>1, <1>2
     DEF WriteRows, NoWorker, Holding, On, Idle, History, At, AtlasInv, EvidenceInv,
         Complete, Evidenced, Active, TypeInv, TypeOK, StepInv
<1> QED
  BY <1>a, <1>e

LEMMA EvidenceWriteContract ==
  ASSUME IInv, ~wiped, ~wiped', NEW r \in Request, WriteContract(r)
  PROVE  AtlasInv' /\ EvidenceInv'
<1> USE DEF IInv
<1>1. Answer(r) => request'[r].step = "idle" /\ OthersKept(r)
  BY AnswerType DEF TypeInv, TypeOK
<1>2. FilesKept
  BY DEF WriteContract, Disk, TypeInv, TypeOK
<1>3. ~Answer(r) => request'[r].step = "summary" /\ request'[r].session = request[r].session
          /\ OthersKept(r)
  BY DEF WriteContract, Send, RequestState, TypeInv, TypeOK
<1>a. AtlasInv'
  BY <1>1, <1>2, <1>3
     DEF WriteContract, NoWorker, Holding, On, Idle, History, At, AtlasInv, EvidenceInv,
         Complete, Evidenced, Active, TypeInv, TypeOK, StepInv
<1>e. EvidenceInv'
  BY <1>1, <1>2, <1>3
     DEF WriteContract, NoWorker, Holding, On, Idle, History, At, AtlasInv, EvidenceInv,
         Complete, Evidenced, Active, TypeInv, TypeOK, StepInv
<1> QED
  BY <1>a, <1>e

LEMMA EvidenceWriteSummary ==
  ASSUME IInv, ~wiped, ~wiped', NEW r \in Request, WriteSummary(r)
  PROVE  AtlasInv' /\ EvidenceInv'
<1> USE DEF IInv
<1>1. Answer(r) => request'[r].step = "idle" /\ OthersKept(r)
  BY AnswerType DEF TypeInv, TypeOK
<1>2. row.status # "absent" => row'.evidence = request[r].session.evidence
          /\ row'.status = row.status /\ row'.target = row.target
          /\ row'.candidate = row.candidate /\ row'.evaluation = row.evaluation
  BY DEF WriteSummary, Write, Row, TypeInv, TypeOK
<1>3. row.status = "absent" => row' = row
  BY DEF WriteSummary, Write
<1>4. ~Answer(r) => request'[r].step = "file" /\ request'[r].session = row' /\ OthersKept(r)
  BY DEF WriteSummary, Send, RequestState, TypeInv, TypeOK
<1>a. AtlasInv'
  BY <1>1, <1>2, <1>3, <1>4, DiscoveryAssumption
     DEF WriteSummary, NoWorker, Holding, On, Idle, History, At, AtlasInv, EvidenceInv,
         Complete, Evidenced, Active, TypeInv, TypeOK, StepInv
<1>e. EvidenceInv'
  BY <1>1, <1>2, <1>3, <1>4, DiscoveryAssumption
     DEF WriteSummary, NoWorker, Holding, On, Idle, History, At, AtlasInv, EvidenceInv,
         Complete, Evidenced, Active, TypeInv, TypeOK, StepInv
<1> QED
  BY <1>a, <1>e

LEMMA EvidenceCheckFile ==
  ASSUME IInv, ~wiped, ~wiped', NEW r \in Request, CheckFile(r)
  PROVE  AtlasInv' /\ EvidenceInv'
<1> USE DEF IInv
<1>1. Answer(r) => request'[r].step = "idle" /\ OthersKept(r)
  BY AnswerType DEF TypeInv, TypeOK
<1>2. \A step \in {"freeze", "create_file"} : Goes(r, step) => request'[r].step = step
          /\ request'[r].session = request[r].session /\ OthersKept(r)
  BY GoesType DEF RequestAt, TypeInv, TypeOK
<1>a. AtlasInv'
  BY <1>1, <1>2
     DEF CheckFile, NoWorker, Holding, On, Idle, History, At, AtlasInv, EvidenceInv,
         Complete, Evidenced, Active, TypeInv, TypeOK, StepInv
<1>e. EvidenceInv'
  BY <1>1, <1>2
     DEF CheckFile, NoWorker, Holding, On, Idle, History, At, AtlasInv, EvidenceInv,
         Complete, Evidenced, Active, TypeInv, TypeOK, StepInv
<1> QED
  BY <1>a, <1>e

LEMMA EvidenceCreateFile ==
  ASSUME IInv, ~wiped, ~wiped', NEW r \in Request, CreateFile(r)
  PROVE  AtlasInv' /\ EvidenceInv'
<1> USE DEF IInv
<1>1. \A step \in {"freeze"} : Goes(r, step) => request'[r].step = step
          /\ request'[r].session = request[r].session /\ OthersKept(r)
  BY GoesType DEF RequestAt, TypeInv, TypeOK
<1>2. FilesKept
  BY DEF CreateFile, Disk, TypeInv, TypeOK
<1>a. AtlasInv'
  BY <1>1, <1>2
     DEF CreateFile, NoWorker, Holding, On, Idle, History, At, AtlasInv, EvidenceInv,
         Complete, Evidenced, Active, TypeInv, TypeOK, StepInv
<1>e. EvidenceInv'
  BY <1>1, <1>2
     DEF CreateFile, NoWorker, Holding, On, Idle, History, At, AtlasInv, EvidenceInv,
         Complete, Evidenced, Active, TypeInv, TypeOK, StepInv
<1> QED
  BY <1>a, <1>e

LEMMA EvidenceFreezeCheck ==
  ASSUME IInv, ~wiped, ~wiped', NEW r \in Request, FreezeCheck(r)
  PROVE  AtlasInv' /\ EvidenceInv'
<1> USE DEF IInv
<1>1. Answer(r) => request'[r].step = "idle" /\ OthersKept(r)
  BY AnswerType DEF TypeInv, TypeOK
<1>2. \A step \in {"frozen"} : Goes(r, step) => request'[r].step = step
          /\ request'[r].session = request[r].session /\ OthersKept(r)
  BY GoesType DEF RequestAt, TypeInv, TypeOK
<1>a. AtlasInv'
  BY <1>1, <1>2
     DEF FreezeCheck, NoWorker, Holding, On, Idle, History, At, AtlasInv, EvidenceInv,
         Complete, Evidenced, Active, TypeInv, TypeOK, StepInv
<1>e. EvidenceInv'
  BY <1>1, <1>2
     DEF FreezeCheck, NoWorker, Holding, On, Idle, History, At, AtlasInv, EvidenceInv,
         Complete, Evidenced, Active, TypeInv, TypeOK, StepInv
<1> QED
  BY <1>a, <1>e

LEMMA EvidenceFreezeWrite ==
  ASSUME IInv, ~wiped, ~wiped', NEW r \in Request, FreezeWrite(r)
  PROVE  AtlasInv' /\ EvidenceInv'
<1> USE DEF IInv
<1>1. Answer(r) => request'[r].step = "idle" /\ OthersKept(r)
  BY AnswerType DEF TypeInv, TypeOK
<1>2. row'.evidence = row.evidence
  BY DEF FreezeWrite, Write, Row, TypeInv, TypeOK
<1>a. AtlasInv'
  BY <1>1, <1>2
     DEF FreezeWrite, NoWorker, Holding, On, Idle, History, At, AtlasInv, EvidenceInv,
         Complete, Evidenced, Active, TypeInv, TypeOK, StepInv
<1>e. EvidenceInv'
  BY <1>1, <1>2
     DEF FreezeWrite, NoWorker, Holding, On, Idle, History, At, AtlasInv, EvidenceInv,
         Complete, Evidenced, Active, TypeInv, TypeOK, StepInv
<1> QED
  BY <1>a, <1>e

LEMMA EvidenceAttachCheck ==
  ASSUME IInv, ~wiped, ~wiped', NEW r \in Request, AttachCheck(r)
  PROVE  AtlasInv' /\ EvidenceInv'
<1> USE DEF IInv
<1>1. Answer(r) => request'[r].step = "idle" /\ OthersKept(r)
  BY AnswerType DEF TypeInv, TypeOK
<1>2. \A step \in {"attached"} : Goes(r, step) => request'[r].step = step
          /\ request'[r].session = request[r].session /\ OthersKept(r)
  BY GoesType DEF RequestAt, TypeInv, TypeOK
<1>a. AtlasInv'
  BY <1>1, <1>2
     DEF AttachCheck, NoWorker, Holding, On, Idle, History, At, AtlasInv, EvidenceInv,
         Complete, Evidenced, Active, TypeInv, TypeOK, StepInv
<1>e. EvidenceInv'
  BY <1>1, <1>2
     DEF AttachCheck, NoWorker, Holding, On, Idle, History, At, AtlasInv, EvidenceInv,
         Complete, Evidenced, Active, TypeInv, TypeOK, StepInv
<1> QED
  BY <1>a, <1>e

LEMMA EvidenceAttachWrite ==
  ASSUME IInv, ~wiped, ~wiped', NEW r \in Request, AttachWrite(r)
  PROVE  AtlasInv' /\ EvidenceInv'
<1> USE DEF IInv
<1>1. Answer(r) => request'[r].step = "idle" /\ OthersKept(r)
  BY AnswerType DEF TypeInv, TypeOK
<1>2. row'.evidence = row.evidence
  BY DEF AttachWrite, Write, Row, TypeInv, TypeOK
<1>a. AtlasInv'
  BY <1>1, <1>2
     DEF AttachWrite, NoWorker, Holding, On, Idle, History, At, AtlasInv, EvidenceInv,
         Complete, Evidenced, Active, TypeInv, TypeOK, StepInv
<1>e. EvidenceInv'
  BY <1>1, <1>2
     DEF AttachWrite, NoWorker, Holding, On, Idle, History, At, AtlasInv, EvidenceInv,
         Complete, Evidenced, Active, TypeInv, TypeOK, StepInv
<1> QED
  BY <1>a, <1>e

LEMMA EvidenceRemove ==
  ASSUME IInv, ~wiped, ~wiped', NEW r \in Request, Remove(r)
  PROVE  AtlasInv' /\ EvidenceInv'
<1> USE DEF IInv
<1>1. wiped
  BY DEF Remove, RemoveInv, On
<1>a. AtlasInv'
  BY <1>1
     DEF Remove, NoWorker, Holding, On, Idle, History, At, AtlasInv, EvidenceInv, Complete,
         Evidenced, Active, TypeInv, TypeOK, StepInv
<1>e. EvidenceInv'
  BY <1>1
     DEF Remove, NoWorker, Holding, On, Idle, History, At, AtlasInv, EvidenceInv, Complete,
         Evidenced, Active, TypeInv, TypeOK, StepInv
<1> QED
  BY <1>a, <1>e

LEMMA EvidenceApiCrash ==
  ASSUME IInv, ~wiped, ~wiped', NEW r \in Request, ApiCrash(r)
  PROVE  AtlasInv' /\ EvidenceInv'
<1> USE DEF IInv
<1>1. Answer(r) => request'[r].step = "idle" /\ OthersKept(r)
  BY AnswerType DEF TypeInv, TypeOK
<1>a. AtlasInv'
  BY <1>1
     DEF ApiCrash, NoWorker, Holding, On, Idle, History, At, AtlasInv, EvidenceInv,
         Complete, Evidenced, Active, TypeInv, TypeOK, StepInv
<1>e. EvidenceInv'
  BY <1>1
     DEF ApiCrash, NoWorker, Holding, On, Idle, History, At, AtlasInv, EvidenceInv,
         Complete, Evidenced, Active, TypeInv, TypeOK, StepInv
<1> QED
  BY <1>a, <1>e

LEMMA EvidenceAskJob ==
  ASSUME IInv, ~wiped, ~wiped', NEW r \in Request, NEW type \in JobType, AskJob(r, type)
  PROVE  AtlasInv' /\ EvidenceInv'
<1> USE DEF IInv
<1>1. \A step \in {"drift", "enqueue"} : [IdleRequest EXCEPT !.step = step, !.type = type].step = step
  BY DEF IdleRequest
<1>2. PICK state : Send(r, state) /\ state.step \in {"drift", "enqueue"}
  BY <1>1 DEF AskJob
<1>3. request'[r].step \in {"drift", "enqueue"} /\ OthersKept(r)
  BY <1>2 DEF Send, TypeInv, TypeOK
<1>a. AtlasInv'
  BY <1>1, <1>2, <1>3
     DEF AskJob, NoWorker, Holding, On, Idle, History, At, AtlasInv, EvidenceInv, Complete,
         Evidenced, Active, TypeInv, TypeOK, StepInv
<1>e. EvidenceInv'
  BY <1>1, <1>2, <1>3
     DEF AskJob, NoWorker, Holding, On, Idle, History, At, AtlasInv, EvidenceInv, Complete,
         Evidenced, Active, TypeInv, TypeOK, StepInv
<1> QED
  BY <1>a, <1>e

LEMMA EvidenceAttachRead ==
  ASSUME IInv, ~wiped, ~wiped', NEW r \in Request, NEW candidate \in Candidate, AttachRead(r, candidate)
  PROVE  AtlasInv' /\ EvidenceInv'
<1> USE DEF IInv
<1>1. [IdleRequest EXCEPT !.step = "attach", !.candidate = candidate].step = "attach"
  BY DEF IdleRequest
<1>2. request'[r].step = "attach" /\ OthersKept(r)
  BY <1>1 DEF AttachRead, Send, TypeInv, TypeOK
<1>a. AtlasInv'
  BY <1>1, <1>2, StatusFacts
     DEF AttachRead, NoWorker, Holding, On, Idle, History, At, Ready, AtlasInv, EvidenceInv,
         Complete, Evidenced, Active, TypeInv, TypeOK, StepInv
<1>e. EvidenceInv'
  BY <1>1, <1>2, StatusFacts
     DEF AttachRead, NoWorker, Holding, On, Idle, History, At, Ready, AtlasInv, EvidenceInv,
         Complete, Evidenced, Active, TypeInv, TypeOK, StepInv
<1> QED
  BY <1>a, <1>e

LEMMA EvidenceHeld ==
  ASSUME IInv, ~wiped, NEW r \in Request, row.status = "atlas_ready", UNCHANGED <<row, disk, wiped>>,
         NoWorker, request'[r].step \in Holding, request'[r].session = row, OthersKept(r)
  PROVE  AtlasInv' /\ EvidenceInv'
<1>1. row.evidence # None
  BY StatusFacts DEF IInv, EvidenceInv, Ready
<1> QED
  BY <1>1
     DEF IInv, AtlasInv, EvidenceInv, Complete, Evidenced, Active, At, NoWorker, TypeInv,
         TypeOK

LEMMA EvidenceApprove ==
  ASSUME IInv, ~wiped, NEW r \in Request, NEW policy \in Policy, Approve(r, policy)
  PROVE  AtlasInv' /\ EvidenceInv'
  BY EvidenceHeld, TypeStartApproval DEF IInv, Approve, StartApproval, Holding

LEMMA EvidenceFreeze ==
  ASSUME IInv, ~wiped, NEW r \in Request, NEW policy \in Policy, Freeze(r, policy)
  PROVE  AtlasInv' /\ EvidenceInv'
<1> DEFINE state == [IdleRequest EXCEPT !.step = "file", !.session = row,
                                        !.contract = disk.contract]
<1>1. CASE StartApproval(r, policy, TRUE)
  BY <1>1, EvidenceHeld, TypeStartApproval DEF IInv, Freeze, StartApproval, Holding
<1>2. CASE Send(r, state) /\ UNCHANGED <<row, disk, created, wiped>> /\ NoWorker
  <2>1. state.step = "file" /\ state.session = row
    BY DEF IdleRequest
  <2> HIDE DEF state
  <2>2. request'[r] = state /\ OthersKept(r)
    BY <1>2 DEF Send, IInv, TypeInv, TypeOK
  <2> QED
    BY <1>2, <2>1, <2>2, EvidenceHeld DEF Freeze, Holding
<1> QED
  BY <1>1, <1>2 DEF Freeze

\* A directory that was not removed under anyone is empty when a session is created.
LEMMA EvidenceCreate ==
  ASSUME IInv, NEW r \in Request, Create(r), ~wiped'
  PROVE  CoverInv' /\ AtlasInv' /\ EvidenceInv'
<1>1. disk = EmptyDisk /\ worker = IdleWorker /\ UNCHANGED <<disk, worker, request, job>>
  BY DEF Create, At, NoWorker, IInv, TypeInv, StepInv
<1>2. row'.status = "draft" /\ row'.evidence = None /\ row'.target = None
      /\ row'.candidate = None /\ row'.evaluation = None
  BY DEF Create, NoRow
<1>3. \A q \in Request : request[q].step = "idle"
  BY DEF Create, Idle
<1>4. worker.step = "idle" /\ worker.completed = {} /\ worker.session.evidence = None
  BY <1>1 DEF IdleWorker, NoRow
<1>5. CoverInv'
  BY <1>1, <1>4 DEF CoverInv, At, EmptyDisk
<1>6. AtlasInv'
  BY <1>1, <1>4 DEF AtlasInv, At
<1>7. EvidenceInv'
  BY <1>1, <1>2, <1>3, <1>4 DEF EvidenceInv, Evidenced, Active, At, Holding, Ready
<1> QED
  BY <1>5, <1>6, <1>7

LEMMA EvidenceStep ==
  ASSUME IInv, [Next]_vars, ~wiped'
  PROVE  AtlasInv' /\ EvidenceInv'
<1>1. CASE wiped
  <2>1. PICK r \in Request : Create(r)
    BY <1>1
       DEF Next, vars, WorkerStep, RequestStep, History, NoWorker, StartApproval, Claim,
           Begin, Mark, Inventory, Open, WritePart, WriteCheckpoint, WriteLabels,
           WriteFeasibility, Replay, Score, Export, Publish, PublishWrite, Accept,
           AcceptWrite, Fail, FailWrite, Raise, Crash, Cancel, DataChange, Enqueue, Drift,
           DriftWrite, WriteRows, WriteContract, WriteSummary, CheckFile, CreateFile,
           FreezeCheck, FreezeWrite, AttachCheck, AttachWrite, Delete, Remove, ApiCrash,
           AskJob, Approve, Freeze, AttachRead
  <2> QED
    BY <2>1, EvidenceCreate
<1>2. CASE ~wiped
  <2>1. CASE WorkerStep
    BY <1>2, <2>1, EvidenceClaim, EvidenceBegin, EvidenceMark, EvidenceInventory,
       EvidenceOpen, EvidenceWritePart, EvidenceWriteCheckpoint, EvidenceWriteLabels,
       EvidenceWriteFeasibility, EvidenceReplay, EvidenceScore, EvidenceExport,
       EvidencePublish, EvidencePublishWrite, EvidenceAccept, EvidenceAcceptWrite,
       EvidenceFail, EvidenceFailWrite
       DEF WorkerStep
  <2>2. CASE Raise \/ Crash \/ Cancel \/ DataChange
    BY <1>2, <2>2, EvidenceRaise, EvidenceCrash, EvidenceCancel, EvidenceDataChange
  <2>3. ASSUME NEW r \in Request, RequestStep(r)
  PROVE  AtlasInv' /\ EvidenceInv'
    <3>1. ~Delete(r)
      BY <1>2 DEF Delete
    <3> QED
      BY <1>2, <2>3, <3>1, EvidenceCreate, EvidenceEnqueue, EvidenceDrift,
         EvidenceDriftWrite, EvidenceWriteRows, EvidenceWriteContract, EvidenceWriteSummary,
         EvidenceCheckFile, EvidenceCreateFile, EvidenceFreezeCheck, EvidenceFreezeWrite,
         EvidenceAttachCheck, EvidenceAttachWrite, EvidenceRemove, EvidenceApiCrash,
         EvidenceAskJob, EvidenceApprove, EvidenceFreeze, EvidenceAttachRead
         DEF RequestStep
  <2>4. CASE UNCHANGED vars
    BY <1>2, <2>4
       DEF vars, IInv, AtlasInv, EvidenceInv, Evidenced, Complete, Active, At
  <2> QED
    BY <2>1, <2>2, <2>3, <2>4 DEF Next
<1> QED
  BY <1>1, <1>2

-----------------------------------------------------------------------------
(* The theorems.                                                           *)

LEMMA IInvInit == Init => IInv
<1> SUFFICES ASSUME Init PROVE IInv
  OBVIOUS
<1>1. TypeInv
  BY TypeInit
<1>2. worker.step = "idle" /\ worker.completed = {} /\ worker.session.evidence = None
  BY DEF Init, IdleWorker, NoRow
<1>3. \A r \in Request : request[r].step = "idle"
  BY DEF Init, IdleRequest
<1>4. CoverInv /\ RemoveInv /\ AtlasInv
  BY <1>2, <1>3 DEF Init, CoverInv, RemoveInv, AtlasInv, At, On, EmptyDisk
<1>5. EvidenceInv
  BY <1>2, <1>3, StatusFacts
     DEF Init, EvidenceInv, Evidenced, Active, At, Holding, Ready, NoRow
<1> QED
  BY <1>1, <1>4, <1>5 DEF IInv

LEMMA IInvStep == IInv /\ [Next]_vars => IInv'
<1> SUFFICES ASSUME IInv, [Next]_vars PROVE IInv'
  OBVIOUS
<1>1. TypeInv' /\ CoverInv' /\ RemoveInv'
  BY TypeStep, CoverStep, RemoveStep DEF IInv
<1>2. ~wiped' => AtlasInv' /\ EvidenceInv'
  BY EvidenceStep
<1> QED
  BY <1>1, <1>2 DEF IInv

LEMMA Inductive == Spec => []IInv
  BY IInvInit, IInvStep, PTL DEF Spec

\* Every record of the session, its files, its worker and its requests keeps its type,
\* for any number of requests, policies, candidates, risks and faults.
THEOREM TypeCorrect == Spec => []TypeOK
<1>1. IInv => TypeOK
  BY DEF IInv, TypeInv
<1> QED
  BY <1>1, Inductive, PTL

\* TrainingAtlasWorkspace: a worker that dies anywhere leaves a checkpoint that names
\* only parts which are on disk.
THEOREM CheckpointsCovered == Spec => []CheckpointCovered
<1>1. IInv => CheckpointCovered
  BY DEF IInv, CoverInv, CheckpointCovered
<1> QED
  BY <1>1, Inductive, PTL

\* execute_signal_atlas_job and the requests: a session past the atlas has every final
\* file, and its summary names the evidence they carry, whatever summaries older requests
\* and failing workers write back.
THEOREM PublishedWhenReady == Spec => []ReadyMeansPublished
<1>1. IInv => ReadyMeansPublished
  BY DEF IInv, EvidenceInv, Evidenced, Complete, ReadyMeansPublished
<1> QED
  BY <1>1, Inductive, PTL

======================================================================
