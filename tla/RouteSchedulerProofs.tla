-------------------------- MODULE RouteSchedulerProofs --------------------------
(* Proofs about RouteScheduler, for any number of timers, requests, faults. *)
EXTENDS RouteScheduler, TLAPS

\* What TypeOK says of the threads.
ThreadsOK(at) ==
  /\ at \in [Timer \cup Request -> TimerStep \cup RequestStep]
  /\ \A t \in Timer : at[t] \in TimerStep
  /\ \A r \in Request : at[r] \in RequestStep

(* The helpers that move threads keep them at steps of their own kind.      *)

LEMMA GotoType ==
  ASSUME TypeOK, NEW p \in Timer \cup Request, NEW step, Goto(p, step),
         p \in Timer => step \in TimerStep, p \in Request => step \in RequestStep
  PROVE  ThreadsOK(pc')
  BY DEF TypeOK, Goto, ThreadsOK

LEMMA CancelEntryType ==
  ASSUME TypeOK, NEW p \in Timer \cup Request, NEW next, CancelEntry(p, next),
         p \in Timer => next \in TimerStep, p \in Request => next \in RequestStep
  PROVE  entry' = None /\ ThreadsOK(pc')
<1>1. \A r \in Request : pc[r] # "pending"
  BY DEF TypeOK, RequestStep
<1> QED
  BY <1>1 DEF CancelEntry, TypeOK, ThreadsOK, TimerStep

LEMMA CancelType ==
  ASSUME TypeOK, NEW p \in Timer \cup Request, Cancel(p)
  PROVE  TypeOK'
<1>1. entry' = None /\ ThreadsOK(pc')
  BY CancelEntryType DEF Cancel, TimerStep, RequestStep
<1> QED
  BY <1>1 DEF Cancel, TypeOK, ThreadsOK

LEMMA RegisterType ==
  ASSUME TypeOK, NEW p \in Timer \cup Request, Register(p)
  PROVE  TypeOK'
<1>1. PICK u \in Timer :
        entry' = u /\ pc' = [pc EXCEPT ![p] = Rest(p), ![u] = "pending"]
  BY DEF Register
<1>2. p \in Timer => Rest(p) \in TimerStep
  BY DEF Rest, TimerStep
<1>3. p \in Request => Rest(p) \in RequestStep
  BY SchedulerAssumption DEF Rest, RequestStep
<1>4. u \notin Request
  BY SchedulerAssumption
<1>5. ThreadsOK(pc')
  BY <1>1, <1>2, <1>3, <1>4 DEF TypeOK, ThreadsOK, TimerStep
<1> QED
  BY <1>1, <1>5 DEF Register, TypeOK, ThreadsOK

LEMMA TimerType ==
  ASSUME TypeOK, NEW t \in Timer, TimerNext(t) \/ Die(t)
  PROVE  TypeOK'
<1>0. t \notin Request
  BY SchedulerAssumption
<1>1. CASE Fire(t)
  <2>1. ThreadsOK(pc')
    BY <1>0, <1>1, GotoType DEF Fire, TimerStep
  <2> QED
    BY <1>1, <2>1 DEF Fire, TypeOK, ThreadsOK
<1>2. CASE Pop(t)
  <2>1. ThreadsOK(pc')
    BY <1>0, <1>2, GotoType DEF Pop, TimerStep
  <2> QED
    BY <1>2, <2>1 DEF Pop, TypeOK, ThreadsOK
<1>3. CASE Load(t) \/ Reload(t)
  <2>1. ThreadsOK(pc')
    BY <1>0, <1>3, GotoType DEF Load, Reload, Continue, TimerStep
  <2> QED
    BY <1>3, <2>1 DEF Load, Reload, Continue, TypeOK, ThreadsOK
<1>4. CASE Cycle(t)
  <2>1. ThreadsOK(pc')
    BY <1>0, <1>4, GotoType DEF Cycle, TimerStep
  <2> QED
    BY <1>4, <2>1 DEF Cycle, TypeOK, ThreadsOK
<1>5. CASE Die(t)
  <2>1. ThreadsOK(pc')
    BY <1>0, <1>5, GotoType DEF Die, TimerStep
  <2> QED
    BY <1>5, <2>1 DEF Die, Fault, TypeOK, ThreadsOK
<1> QED
  BY <1>1, <1>2, <1>3, <1>4, <1>5, CancelType, RegisterType DEF TimerNext

LEMMA RequestType ==
  ASSUME TypeOK, NEW r \in Request,
         Start(r) \/ Stop(r) \/ Archive(r) \/ Delete(r) \/ RequestNext(r)
  PROVE  TypeOK'
<1>0. r \notin Timer
  BY SchedulerAssumption
<1>1. CASE Start(r)
  <2>1. ThreadsOK(pc')
    BY <1>0, <1>1, GotoType DEF Start, RequestStep
  <2> QED
    BY <1>1, <2>1 DEF Start, TypeOK, ThreadsOK
<1>2. CASE StartCycle(r)
  <2>1. ThreadsOK(pc')
    BY <1>0, <1>2, GotoType DEF StartCycle, RequestStep
  <2>2. row' \in {"running", "stopped", "deleted"}
    BY <1>2 DEF StartCycle, Set, TypeOK
  <2>3. faults' \in Nat
    BY <1>2 DEF StartCycle, Fault, TypeOK
  <2>4. lost' \in BOOLEAN
    BY <1>2 DEF StartCycle, TypeOK
  <2> QED
    BY <1>2, <2>1, <2>2, <2>3, <2>4 DEF StartCycle, TypeOK, ThreadsOK
<1>3. CASE StartLoad(r) \/ StartUpdate(r)
  <2>1. ThreadsOK(pc')
    BY <1>0, <1>3, GotoType DEF StartLoad, StartUpdate, RequestStep
  <2> QED
    BY <1>3, <2>1 DEF StartLoad, StartUpdate, Set, TypeOK, ThreadsOK
<1>4. CASE Stop(r) \/ Archive(r)
  <2>1. entry' = None /\ ThreadsOK(pc')
    BY <1>0, <1>4, CancelEntryType DEF Stop, Archive, RequestStep
  <2> QED
    BY <1>4, <2>1 DEF Stop, Archive, TypeOK, ThreadsOK
<1>5. CASE StopUpdate(r) \/ ArchiveStop(r) \/ ArchiveUpdate(r)
  <2>1. ThreadsOK(pc')
    BY <1>0, <1>5, GotoType DEF StopUpdate, ArchiveStop, ArchiveUpdate, RequestStep
  <2>2. row' \in {"running", "stopped", "deleted"} /\ archive' \in BOOLEAN
    BY <1>5 DEF StopUpdate, ArchiveStop, ArchiveUpdate, Set, TypeOK
  <2> QED
    BY <1>5, <2>1, <2>2 DEF StopUpdate, ArchiveStop, ArchiveUpdate, TypeOK, ThreadsOK
<1>6. CASE Delete(r) \/ DeleteRow(r)
  <2>1. ThreadsOK(pc')
    BY <1>0, <1>6, GotoType DEF Delete, DeleteRow, RequestStep
  <2> QED
    BY <1>6, <2>1 DEF Delete, DeleteRow, TypeOK, ThreadsOK
<1> QED
  BY <1>1, <1>2, <1>3, <1>4, <1>5, <1>6, CancelType, RegisterType DEF RequestNext

LEMMA RestartType ==
  ASSUME TypeOK, Restart
  PROVE  TypeOK'
<1>1. ThreadsOK(Quiet)
  BY SchedulerAssumption DEF ThreadsOK, Quiet, TimerStep, RequestStep
<1>2. ThreadsOK(pc') /\ entry' \in Timer \cup {None}
  BY <1>1, SchedulerAssumption DEF Restart, ThreadsOK, TimerStep
<1>3. lost' \in BOOLEAN
  BY DEF Restart, Resumable
<1>4. faults' \in Nat
  BY DEF Restart, Fault, TypeOK
<1> QED
  BY <1>2, <1>3, <1>4 DEF Restart, TypeOK, ThreadsOK

\* Every reachable state has the types that the code's rows, dictionary and
\* threads have.
THEOREM TypeCorrect == Spec => []TypeOK
<1>1. Init => TypeOK
  BY SchedulerAssumption DEF Init, TypeOK, Quiet, TimerStep, RequestStep
<1>2. TypeOK /\ [Next]_vars => TypeOK'
  <2> SUFFICES ASSUME TypeOK, [Next]_vars PROVE TypeOK'
    OBVIOUS
  <2>1. CASE Promote
    BY <2>1 DEF Promote, TypeOK
  <2>2. CASE UNCHANGED vars
    BY <2>2 DEF vars, TypeOK
  <2> QED
    BY <2>1, <2>2, TimerType, RequestType, RestartType DEF Next
<1> QED
  BY <1>1, <1>2, PTL DEF Spec

-----------------------------------------------------------------------------
(* The dictionary entry.                                                    *)

LEMMA EntryTimer ==
  ASSUME TypeOK, EntryIsAlive, NEW t \in Timer, TimerNext(t) \/ Die(t)
  PROVE  EntryIsAlive'
<1>0. None \notin Timer
  BY SchedulerAssumption
<1>1. CASE Fire(t)
  BY <1>0, <1>1 DEF Fire, Goto, EntryIsAlive, TypeOK
<1>2. CASE Pop(t) \/ Cancel(t)
  BY <1>2 DEF Pop, Cancel, CancelEntry, EntryIsAlive
<1>3. CASE Load(t) \/ Reload(t) \/ Cycle(t) \/ Die(t)
  <2>1. t # entry
    BY <1>0, <1>3 DEF Load, Reload, Continue, Cycle, Die, EntryIsAlive
  <2> QED
    BY <1>3, <2>1 DEF Load, Reload, Continue, Cycle, Die, Goto, EntryIsAlive, TypeOK
<1>4. CASE Register(t)
  BY <1>4 DEF Register, EntryIsAlive, TypeOK
<1> QED
  BY <1>1, <1>2, <1>3, <1>4 DEF TimerNext

LEMMA EntryRequest ==
  ASSUME TypeOK, EntryIsAlive, NEW r \in Request,
         Start(r) \/ Stop(r) \/ Archive(r) \/ Delete(r) \/ RequestNext(r)
  PROVE  EntryIsAlive'
<1>1. CASE Stop(r) \/ Archive(r) \/ Cancel(r)
  BY <1>1 DEF Stop, Archive, Cancel, CancelEntry, EntryIsAlive
<1>2. CASE Register(r)
  BY <1>2 DEF Register, EntryIsAlive, TypeOK
<1>3. CASE Start(r) \/ Delete(r) \/ StartCycle(r) \/ StartLoad(r) \/ StartUpdate(r)
           \/ StopUpdate(r) \/ ArchiveStop(r) \/ ArchiveUpdate(r) \/ DeleteRow(r)
  <2>1. entry' = entry /\ \E step : Goto(r, step)
    BY <1>3 DEF Start, Delete, StartCycle, StartLoad, StartUpdate, StopUpdate,
                ArchiveStop, ArchiveUpdate, DeleteRow
  <2>2. entry # None => entry # r
    BY SchedulerAssumption DEF TypeOK
  <2> QED
    BY <2>1, <2>2 DEF Goto, EntryIsAlive, TypeOK
<1> QED
  BY <1>1, <1>2, <1>3 DEF RequestNext

\* The dictionary entry is always a timer that is pending or has fired just now.
THEOREM EntryAlive == Spec => []EntryIsAlive
<1>1. Init => EntryIsAlive
  BY DEF Init, EntryIsAlive
<1>2. TypeOK /\ EntryIsAlive /\ [Next]_vars => EntryIsAlive'
  <2> SUFFICES ASSUME TypeOK, EntryIsAlive, [Next]_vars PROVE EntryIsAlive'
    OBVIOUS
  <2>1. CASE Promote
    BY <2>1 DEF Promote, EntryIsAlive
  <2>2. CASE Restart
    BY <2>2 DEF Restart, Quiet, EntryIsAlive
  <2>3. CASE UNCHANGED vars
    BY <2>3 DEF vars, EntryIsAlive
  <2> QED
    BY <2>1, <2>2, <2>3, EntryTimer, EntryRequest DEF Next
<1> QED
  BY <1>1, <1>2, TypeCorrect, PTL DEF Spec

-----------------------------------------------------------------------------
(* Somebody is there to wake a running route.                               *)

\* Someone who will look at the route, register a timer, or stop the route.
Attended(at) ==
  \/ \E t \in Timer : at[t] # "unused"
  \/ \E r \in Request : at[r] \in {"start_cycle", "start_load", "start_update", "cancel",
                                 "register", "stop_update", "archive_stop", "archive_update"}

LEMMA ScheduledIff ==
  RunningIsScheduled <=> (row = "running" /\ ~ archive /\ ~ lost => Attended(pc))
  BY DEF RunningIsScheduled, Attended, Chains, Starting, Stopping

LEMMA RegisterAttends ==
  ASSUME TypeOK, NEW p \in Timer \cup Request, Register(p)
  PROVE  Attended(pc')
<1>1. PICK u \in Timer : pc' = [pc EXCEPT ![p] = Rest(p), ![u] = "pending"]
  BY DEF Register
<1>2. pc'[u] = "pending"
  BY <1>1 DEF TypeOK
<1> QED
  BY <1>2 DEF Attended

LEMMA ScheduledTimer ==
  ASSUME TypeOK, RunningIsScheduled, NEW t \in Timer, TimerNext(t) \/ Die(t)
  PROVE  RunningIsScheduled'
<1> SUFFICES ASSUME row' = "running", ~ archive', ~ lost'
             PROVE  Attended(pc)'
  BY DEF RunningIsScheduled, Attended, Chains, Starting, Stopping
<1>1. CASE Fire(t) \/ Pop(t) \/ Cycle(t)
  <2>1. pc'[t] # "unused"
    BY <1>1 DEF Fire, Pop, Cycle, Goto, TypeOK
  <2> QED
    BY <2>1 DEF Attended
<1>2. CASE Load(t) \/ Reload(t)
  <2>1. row = "running"
    BY <1>2 DEF Load, Reload, Continue
  <2>2. pc'[t] \in {"cycle", "cancel"}
    BY <1>2, <2>1 DEF Load, Reload, Continue, Goto, TypeOK
  <2> QED
    BY <2>2 DEF Attended
<1>3. CASE Cancel(t)
  <2>1. pc'[t] = "register"
    BY <1>3 DEF Cancel, CancelEntry
  <2> QED
    BY <2>1 DEF Attended
<1>4. CASE Register(t)
  BY <1>4, RegisterAttends DEF Attended
<1>5. CASE Die(t)
  BY <1>5 DEF Die
<1> QED
  BY <1>1, <1>2, <1>3, <1>4, <1>5 DEF TimerNext

LEMMA ScheduledRequest ==
  ASSUME TypeOK, RunningIsScheduled, NEW r \in Request,
         Start(r) \/ Stop(r) \/ Archive(r) \/ Delete(r) \/ RequestNext(r)
  PROVE  RunningIsScheduled'
<1> SUFFICES ASSUME row' = "running", ~ archive', ~ lost'
             PROVE  Attended(pc)'
  BY DEF RunningIsScheduled, Attended, Chains, Starting, Stopping
<1>0. r \notin Timer
  BY SchedulerAssumption
<1>1. CASE Start(r) \/ StartLoad(r) \/ StartUpdate(r)
  <2>1. pc'[r] \in {"start_cycle", "start_load", "start_update", "cancel"}
    BY <1>1 DEF Start, StartLoad, StartUpdate, Goto, TypeOK
  <2> QED
    BY <2>1 DEF Attended
<1>2. CASE StartCycle(r)
  <2>1. row # "deleted" \/ row' = "deleted"
    BY <1>2 DEF StartCycle, Set
  <2>2. pc'[r] = "start_load"
    BY <1>2, <2>1 DEF StartCycle, Set, Goto, TypeOK
  <2> QED
    BY <2>2 DEF Attended
<1>3. CASE Stop(r) \/ Archive(r) \/ Cancel(r)
  <2>1. pc'[r] \in {"stop_update", "archive_stop", "register"}
    BY <1>3 DEF Stop, Archive, Cancel, CancelEntry
  <2> QED
    BY <2>1 DEF Attended
<1>4. CASE Register(r)
  BY <1>4, RegisterAttends DEF Attended
<1>5. CASE StopUpdate(r) \/ ArchiveStop(r) \/ ArchiveUpdate(r) \/ DeleteRow(r)
  BY <1>5 DEF StopUpdate, ArchiveStop, ArchiveUpdate, DeleteRow, Set
<1>6. CASE Delete(r)
  <2>1. Attended(pc)
    BY <1>6, ScheduledIff DEF Delete
  <2>2. pc[r] = "idle" /\ \A q \in Timer \cup Request : q # r => pc'[q] = pc[q]
    BY <1>6 DEF Delete, Goto, TypeOK
  <2> QED
    BY <1>0, <2>1, <2>2 DEF Attended
<1> QED
  BY <1>1, <1>2, <1>3, <1>4, <1>5, <1>6 DEF RequestNext

LEMMA ScheduledRestart ==
  ASSUME TypeOK, Restart
  PROVE  RunningIsScheduled'
<1> SUFFICES ASSUME row' = "running", ~ archive', ~ lost'
             PROVE  Attended(pc)'
  BY DEF RunningIsScheduled, Attended, Chains, Starting, Stopping
<1>1. PICK u \in Timer : pc' = [Quiet EXCEPT ![u] = "pending"]
  BY DEF Restart, Resumable
<1>2. pc'[u] = "pending"
  BY <1>1 DEF Quiet
<1> QED
  BY <1>2 DEF Attended

\* Whatever the order of starts, stops, firing timers and restarts, a running route
\* always has someone to wake it, unless the database failed.
THEOREM AlwaysScheduled == Spec => []RunningIsScheduled
<1>1. Init => RunningIsScheduled
  BY DEF Init, RunningIsScheduled
<1>2. TypeOK /\ RunningIsScheduled /\ [Next]_vars => RunningIsScheduled'
  <2> SUFFICES ASSUME TypeOK, RunningIsScheduled, [Next]_vars PROVE RunningIsScheduled'
    OBVIOUS
  <2>1. CASE Promote
    BY <2>1 DEF Promote, RunningIsScheduled
  <2>2. CASE UNCHANGED vars
    BY <2>2 DEF vars, RunningIsScheduled, Chains, Starting, Stopping
  <2> QED
    BY <2>1, <2>2, ScheduledTimer, ScheduledRequest, ScheduledRestart DEF Next
<1> QED
  BY <1>1, <1>2, TypeCorrect, PTL DEF Spec

=============================================================================
