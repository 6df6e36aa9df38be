---------------------------- MODULE RouteScheduler ----------------------------
(***************************************************************************)
(* The scheduler of one live or paper route: RouteLifecycleScheduler and   *)
(* the endpoints that start, stop, archive and delete the route.           *)
(*                                                                         *)
(* The dictionary _timers holds at most one timer per route, under a lock. *)
(* A timer that fired is a thread: it pops the dictionary entry, reads the *)
(* route, runs a cycle, reads the route again and registers the next timer *)
(* (_run_and_reschedule).  Nothing but the two dictionary accesses and the *)
(* database transactions is atomic, so request threads come in between.    *)
(*                                                                         *)
(* next_wake_at only decides how long a timer waits, which is left open: a *)
(* pending timer may fire at any time.                                     *)
(***************************************************************************)
EXTENDS Naturals

CONSTANTS
  Timer,     \* bound: timers (and their threads) that exist at the same time
  Request,   \* request threads of the API
  None,      \* no timer
  MaxFaults  \* bound: lost database calls, failed cycles and restarts

ASSUME SchedulerAssumption == None \notin Timer /\ Timer \cap Request = {} /\ MaxFaults \in Nat

VARIABLES
  row,     \* deployment_routes.scheduler_status, or "deleted": no such row
  archive, \* deployment_routes.archived
  entry,   \* _timers.get(route_id)
  pc,      \* step of each timer and of each request
  lost,    \* a thread died of a database error since the last start or restart
  faults   \* faults that may still happen

vars == <<row, archive, entry, pc, lost, faults>>

TimerStep == {"unused", "pending", "pop", "load", "cycle", "reload", "cancel", "register"}
RequestStep == {"idle", "start_cycle", "start_load", "start_update", "cancel", "register",
                "stop_update", "archive_cancel", "archive_stop", "archive_update", "delete"}

TypeOK ==
  /\ row \in {"running", "stopped", "deleted"}
  /\ archive \in BOOLEAN
  /\ entry \in Timer \cup {None}
  /\ pc \in [Timer \cup Request -> TimerStep \cup RequestStep]
  /\ \A t \in Timer : pc[t] \in TimerStep
  /\ \A r \in Request : pc[r] \in RequestStep
  /\ lost \in BOOLEAN
  /\ faults \in Nat

Quiet == [p \in Timer \cup Request |-> IF p \in Timer THEN "unused" ELSE "idle"]

Init ==
  /\ row = "deleted" /\ archive = FALSE
  /\ entry = None
  /\ pc = Quiet
  /\ lost = FALSE
  /\ faults = MaxFaults

-----------------------------------------------------------------------------
Goto(p, step) == pc' = [pc EXCEPT ![p] = step]

\* Mutant: the thread of a timer waits for another call, as a request does.
RestIdle(p) == "idle"

Rest(p) == IF p \in Timer THEN "unused" ELSE "idle"
Fault == faults > 0 /\ faults' = faults - 1

\* _cancel: the entry leaves the dictionary, and its timer, unless it has fired
\* already, never will.
CancelEntry(p, next) ==
  /\ entry' = None
  /\ pc' = [q \in Timer \cup Request |->
              IF q = p THEN next
              ELSE IF q = entry /\ pc[q] = "pending" THEN "unused"
              ELSE pc[q]]

\* _schedule, first half.
Cancel(p) ==
  /\ pc[p] = "cancel"
  /\ CancelEntry(p, "register")
  /\ UNCHANGED <<row, archive, lost, faults>>

\* _schedule, second half: the new timer overwrites the entry and is started.
Register(p) ==
  /\ pc[p] = "register"
  /\ \E u \in Timer :
       /\ pc[u] = "unused" \/ u = p
       /\ entry' = u
       /\ pc' = [pc EXCEPT ![p] = Rest(p), ![u] = "pending"]
  /\ lost' = (lost /\ p \in Timer)
  /\ UNCHANGED <<row, archive, faults>>

-----------------------------------------------------------------------------
(* _run_and_reschedule.                                                    *)

Fire(t) ==
  /\ pc[t] = "pending"
  /\ Goto(t, "pop")
  /\ UNCHANGED <<row, archive, entry, lost, faults>>

\* Mutant: the entry is dropped only when the next timer is registered.
PopLater(t) ==
  /\ pc[t] = "pop"
  /\ Goto(t, "load")
  /\ UNCHANGED <<row, archive, entry, lost, faults>>

\* The entry is dropped, whichever timer it is.
Pop(t) ==
  /\ pc[t] = "pop"
  /\ entry' = None
  /\ Goto(t, "load")
  /\ UNCHANGED <<row, archive, lost, faults>>

\* Mutant: a thread that goes on whatever became of the route.
ContinueAlways(t, step, next) ==
  /\ pc[t] = step
  /\ Goto(t, next)
  /\ UNCHANGED <<row, archive, entry, lost, faults>>

\* A thread that finds the route stopped or gone ends.
Continue(t, step, next) ==
  /\ pc[t] = step
  /\ Goto(t, IF row = "running" THEN next ELSE "unused")
  /\ UNCHANGED <<row, archive, entry, lost, faults>>

Load(t) == Continue(t, "load", "cycle")
Reload(t) == Continue(t, "reload", "cancel")

\* Mutant: an exception of run_cycle ends the chain.
CycleRaises(t) ==
  /\ pc[t] = "cycle"
  /\ \E step \in {"reload", "unused"} : Goto(t, step)
  /\ UNCHANGED <<row, archive, entry, lost, faults>>

\* run_cycle: its exceptions are recorded in the route and end nothing.
Cycle(t) ==
  /\ pc[t] = "cycle"
  /\ Goto(t, "reload")
  /\ UNCHANGED <<row, archive, entry, lost, faults>>

\* A database error in one of the reads, or in the update that records the
\* exception of a cycle, is caught by nobody: the thread dies.
Die(t) ==
  /\ pc[t] \in {"load", "cycle", "reload"}
  /\ Fault
  /\ Goto(t, "unused")
  /\ lost' = TRUE
  /\ UNCHANGED <<row, archive, entry>>

-----------------------------------------------------------------------------
(* The endpoints.                                                          *)

\* update_deployment_route_gate: one UPDATE, without a look at the row.
Set(status) == row' = IF row = "deleted" THEN row ELSE status

\* upsert_deployment_route_for_bundle: promotion of a bundle writes the whole row,
\* of a new route or of an existing one, whatever its timers do.
Promote ==
  /\ row' = "stopped" /\ archive' = FALSE
  /\ UNCHANGED <<entry, pc, lost, faults>>

\* POST .../start opens the gates and sets "running"; a paper route runs its
\* first cycle in the request.
Start(r) ==
  /\ pc[r] = "idle"
  /\ row # "deleted"
  /\ row' = "running"
  /\ \E step \in {"start_load", "start_cycle"} : Goto(r, step)
  /\ UNCHANGED <<archive, entry, lost, faults>>

\* An ExchangeAdapterError of that cycle stops the route again; any other
\* exception leaves it running.
StartCycle(r) ==
  /\ pc[r] = "start_cycle"
  /\ \/ Goto(r, "start_load") /\ UNCHANGED <<row, lost, faults>>
     \/ Fault /\ Set("stopped") /\ Goto(r, "idle") /\ UNCHANGED lost
     \/ Fault /\ lost' = TRUE /\ Goto(r, "idle") /\ UNCHANGED row
  /\ UNCHANGED <<archive, entry>>

\* RouteLifecycleScheduler.start.
StartLoad(r) ==
  /\ pc[r] = "start_load"
  /\ Goto(r, IF row = "deleted" THEN "idle" ELSE "start_update")
  /\ UNCHANGED <<row, archive, entry, lost, faults>>

StartUpdate(r) ==
  /\ pc[r] = "start_update"
  /\ Set("running")
  /\ Goto(r, "cancel")
  /\ UNCHANGED <<archive, entry, lost, faults>>

\* POST .../stop: RouteLifecycleScheduler.stop cancels, then updates the row.
Stop(r) ==
  /\ pc[r] = "idle"
  /\ CancelEntry(r, "stop_update")
  /\ UNCHANGED <<row, archive, lost, faults>>

StopUpdate(r) ==
  /\ pc[r] = "stop_update"
  /\ Set("stopped")
  /\ Goto(r, "idle")
  /\ UNCHANGED <<archive, entry, lost, faults>>

\* POST .../archive: scheduler.stop, then archive_deployment_route.
Archive(r) ==
  /\ pc[r] = "idle"
  /\ CancelEntry(r, "archive_stop")
  /\ UNCHANGED <<row, archive, lost, faults>>

ArchiveStop(r) ==
  /\ pc[r] = "archive_stop"
  /\ Set("stopped")
  /\ Goto(r, "archive_update")
  /\ UNCHANGED <<archive, entry, lost, faults>>

ArchiveUpdate(r) ==
  /\ pc[r] = "archive_update"
  /\ Set("stopped")
  /\ archive' = (archive \/ row # "deleted")
  /\ Goto(r, "idle")
  /\ UNCHANGED <<entry, lost, faults>>

\* DELETE .../archived-strategy: archived is read in one transaction, and the
\* row is deleted in another.
Delete(r) ==
  /\ pc[r] = "idle"
  /\ archive /\ row # "deleted"
  /\ Goto(r, "delete")
  /\ UNCHANGED <<row, archive, entry, lost, faults>>

DeleteRow(r) ==
  /\ pc[r] = "delete"
  /\ row' = "deleted"
  /\ Goto(r, "idle")
  /\ UNCHANGED <<archive, entry, lost, faults>>

-----------------------------------------------------------------------------
\* list_deployment_routes leaves archived routes out.
Resumable == row = "running" /\ ~ archive

\* Mutant: nothing is resumed.
RestartCold ==
  /\ Fault
  /\ pc' = Quiet /\ entry' = None
  /\ lost' = FALSE
  /\ UNCHANGED <<row, archive>>

\* The API process is restarted; resume_running registers the timers again, and
\* an exception in it is swallowed.
Restart ==
  /\ Fault
  /\ \/ /\ Resumable
        /\ \E u \in Timer : pc' = [Quiet EXCEPT ![u] = "pending"] /\ entry' = u
        /\ lost' = FALSE
     \/ /\ pc' = Quiet /\ entry' = None
        /\ lost' = Resumable
  /\ UNCHANGED <<row, archive>>

TimerNext(t) == Fire(t) \/ Pop(t) \/ Load(t) \/ Cycle(t) \/ Reload(t) \/ Cancel(t) \/ Register(t)

RequestNext(r) ==
  \/ StartCycle(r) \/ StartLoad(r) \/ StartUpdate(r) \/ Cancel(r) \/ Register(r)
  \/ StopUpdate(r) \/ ArchiveStop(r) \/ ArchiveUpdate(r) \/ DeleteRow(r)

Next ==
  \/ \E t \in Timer : TimerNext(t) \/ Die(t)
  \/ \E r \in Request : Start(r) \/ Stop(r) \/ Archive(r) \/ Delete(r) \/ RequestNext(r)
  \/ Promote \/ Restart

Spec == Init /\ [][Next]_vars

(* Fairness: timers fire, and threads and requests that began run on.       *)
FairSpec ==
  /\ Spec
  /\ \A t \in Timer : WF_vars(TimerNext(t))
  /\ \A r \in Request : WF_vars(RequestNext(r))

-----------------------------------------------------------------------------
(* Properties.                                                             *)

\* Timers that will still look at the route.
Chains == {t \in Timer : pc[t] # "unused"}

\* Requests that will register a timer, or will stop the route.
Starting == {r \in Request : pc[r] \in {"start_cycle", "start_load", "start_update", "cancel", "register"}}
Stopping == {r \in Request : pc[r] \in {"stop_update", "archive_stop", "archive_update"}}

\* However starts, stops, archives, fired timers and restarts interleave, a route
\* whose row says "running" is never left without anyone to wake it, unless a
\* database error killed a thread (scheduler.start, stop, _run_and_reschedule).
RunningIsScheduled ==
  row = "running" /\ ~ archive /\ ~ lost => Chains # {} \/ Starting # {} \/ Stopping # {}

\* The dictionary entry is a timer that is pending or has fired just now: neither
\* is_scheduled nor _cancel ever see a timer that ended (_schedule, _cancel).
EntryIsAlive == entry # None => pc[entry] \in {"pending", "pop"}

\* A route that stays running keeps being woken, once nobody presses start any
\* more: every start postpones the next wake.
KeepsWaking ==
  <>[](row = "running" /\ ~ archive /\ ~ lost /\ \A r \in Request : pc[r] = "idle")
    => []<>(\E t \in Timer : pc[t] = "cycle")

\* A route that stays stopped or deleted loses every timer, also those that a race
\* of two schedules dropped from the dictionary and _cancel cannot reach.
StoppedDrains == <>[](row # "running") => <>[](Chains = {})

=============================================================================
