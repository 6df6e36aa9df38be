------------------------------ MODULE JobLease ------------------------------
(***************************************************************************)
(* What the job queue promises its callers, without rows, locks, clocks    *)
(* and messages: a job waits, is leased to one live worker at a time,      *)
(* falls back to waiting only when no live worker holds it, and is settled *)
(* for good.  A worker that crashed or whose heartbeat lapsed is not live. *)
(***************************************************************************)
CONSTANTS Job, Workers, NoJob

VARIABLES
  phase,   \* "absent", "waiting", "leased" or "settled", per job
  holder   \* the job each live worker executes, or NoJob

leaseVars == <<phase, holder>>

Held(j) == \E w \in Workers : holder[w] = j

Init ==
  /\ phase = [j \in Job |-> "absent"]
  /\ holder = [w \in Workers |-> NoJob]

Create(j) ==
  /\ phase[j] = "absent"
  /\ phase' = [phase EXCEPT ![j] = "waiting"]
  /\ UNCHANGED holder

\* Jobs that may be taken away: leased, and no live worker executes them.
Abandoned == {j \in Job : phase[j] = "leased" /\ ~ Held(j)}

Reclaim(R) ==
  /\ phase' = [j \in Job |-> IF j \in R THEN "waiting" ELSE phase[j]]
  /\ UNCHANGED holder

Grant(w, j, R) ==
  /\ holder[w] = NoJob
  /\ phase[j] = "waiting" \/ j \in R
  /\ phase' = [i \in Job |-> IF i = j THEN "leased"
                             ELSE IF i \in R THEN "waiting" ELSE phase[i]]
  /\ holder' = [holder EXCEPT ![w] = j]

\* Workers finish, crash or lapse.
Release(W) ==
  /\ holder' = [w \in Workers |-> IF w \in W THEN NoJob ELSE holder[w]]
  /\ UNCHANGED phase

\* A result or a cancellation settles the job, whoever executes it.
Settle(j, W) ==
  /\ phase[j] # "absent"
  /\ phase' = [phase EXCEPT ![j] = "settled"]
  /\ holder' = [w \in Workers |-> IF w \in W THEN NoJob ELSE holder[w]]

Next ==
  \/ \E j \in Job : Create(j)
  \/ \E R \in SUBSET Abandoned : Reclaim(R)
  \/ \E w \in Workers, j \in Job : \E R \in SUBSET Abandoned : Grant(w, j, R)
  \/ \E W \in SUBSET Workers : Release(W)
  \/ \E j \in Job : \E W \in SUBSET Workers : Settle(j, W)

Spec == Init /\ [][Next]_leaseVars
=============================================================================
