------------------------------ MODULE LiveRoute ------------------------------
(***************************************************************************)
(* One live route: lifecycle cycles (run_route_lifecycle_cycle), the wake  *)
(* each of them runs (run_route_wake), and the submission of the wake's    *)
(* order intent to the exchange (submit_wake_order_intents).               *)
(*                                                                         *)
(* Cycles run in threads of the API process: the scheduler's timer thread  *)
(* and the request threads of POST .../wake.  Request threads of POST      *)
(* .../submit-orders submit the intent of a recorded wake.  Every database *)
(* transaction and every exchange call is a step of its own, and each      *)
(* thread works on the route document and the snapshot it read earlier.    *)
(*                                                                         *)
(* The route is live with a pinned decision cadence, so entries come from  *)
(* the canonical signal pool: opportunities are numbered by timestamp, and *)
(* the cursor in risk_limits is the last one that was decided.             *)
(*                                                                         *)
(* The route's gates (enabled, armed, warmed, promoted) and auto_submit    *)
(* are switched by operators at any time, so whoever reads them may find   *)
(* them on or off; with SwitchesTurn = FALSE they stay on.                 *)
(***************************************************************************)
EXTENDS Naturals, FiniteSets

CONSTANTS
  CycleThreads,  \* threads that run lifecycle cycles
  SubmitThreads, \* request threads that submit a recorded wake's intent
  MaxSignals,    \* bound: opportunities that ever reach the pool
  MaxWakes,      \* bound: wake rows with an intent kept at the same time
  MaxEpisodes,   \* bound: positions ever opened on the exchange
  MaxFaults,     \* bound: crashes, failed calls and raised errors
  SwitchesTurn,  \* whether the gates and auto_submit may be found off
  LoadMayFail    \* whether loading the pending signals may raise ValueError

ASSUME LiveRouteAssumption ==
  /\ MaxSignals \in Nat /\ MaxWakes \in Nat /\ MaxEpisodes \in Nat /\ MaxFaults \in Nat
  /\ SwitchesTurn \in BOOLEAN /\ LoadMayFail \in BOOLEAN
  /\ CycleThreads \cap SubmitThreads = {}

VARIABLES
  latest,    \* newest opportunity at or before the latest confirmed candle
  stale,     \* newest opportunity older than the late arrival grace
  cursor,    \* risk_limits...last_processed_decision_ts
  observed,  \* opportunities with a live signal observation
  wakes,     \* wake_runs that carry an order intent
  owners,    \* owner_states that are open
  adopted,   \* positions whose adopted owner state exists, open or closed
  position,  \* exchange: the open position's episode, 0 when flat
  episode,   \* exchange: positions opened so far
  protected, \* exchange: a live TP/SL order covers the position
  orders,    \* exchange: the order of each wake's client order id
  pc,        \* step of each thread
  my,        \* what each thread has read and decided
  faults     \* faults that may still happen

pool == <<latest, stale>>
tables == <<cursor, observed, wakes, owners, adopted>>
exchange == <<position, episode, protected, orders>>
vars == <<pool, tables, exchange, pc, my, faults>>

Thread == CycleThreads \cup SubmitThreads
Signal == 1 .. MaxSignals
Wake == 1 .. MaxWakes
Episode == 1 .. MaxEpisodes
None == 0
Owner == ({"entry"} \X Wake) \cup ({"adopted"} \X Episode)
Kind == {"none", "ENTER", "ADD", "EXIT", "PROTECT"}
Intent == [kind : Kind, signal : Signal \cup {None},
           status : {"intent_only", "answered"}]
Step == {"idle", "snapshot", "load", "expired", "manage", "blocked", "flat",
         "select", "persist", "record", "submit", "cancel_protection", "place",
         "post_fill", "ensure", "store", "create_owner"}
Local == [cursor : 0 .. MaxSignals, stale : 0 .. MaxSignals, upto : 0 .. MaxSignals,
          missed : BOOLEAN, position : Episode \cup {None},
          protected : BOOLEAN, fresh : BOOLEAN, aged : SUBSET Wake,
          kind : Kind, then : {"idle", "expired", "blocked", "select", "record"},
          wake : Wake \cup {None}, failed : BOOLEAN]

NoIntent == [kind |-> "none", signal |-> None, status |-> "intent_only"]
Nothing == [cursor |-> 0, stale |-> 0, upto |-> 0, missed |-> FALSE,
            position |-> None, protected |-> FALSE, fresh |-> FALSE, aged |-> {},
            kind |-> "none", then |-> "idle",
            wake |-> None, failed |-> FALSE]

TypeOK ==
  /\ latest \in 0 .. MaxSignals /\ stale \in 0 .. MaxSignals
  /\ cursor \in 0 .. MaxSignals
  /\ observed \in SUBSET Signal
  /\ wakes \in [Wake -> Intent]
  /\ owners \in SUBSET Owner /\ adopted \in SUBSET Episode
  /\ position \in Episode \cup {None} /\ episode \in 0 .. MaxEpisodes
  /\ protected \in BOOLEAN
  /\ orders \in [Wake -> {"none", "working", "done"}]
  /\ pc \in [Thread -> Step]
  /\ my \in [Thread -> Local]
  /\ faults \in Nat

Init ==
  /\ latest = 0 /\ stale = 0
  /\ cursor = 0 /\ observed = {}
  /\ wakes = [w \in Wake |-> NoIntent]
  /\ owners = {} /\ adopted = {}
  /\ position = None /\ episode = 0 /\ protected = FALSE
  /\ orders = [w \in Wake |-> "none"]
  /\ pc = [t \in Thread |-> "idle"]
  /\ my = [t \in Thread |-> Nothing]
  /\ faults = MaxFaults

-----------------------------------------------------------------------------
Goto(t, step) == pc' = [pc EXCEPT ![t] = step]
Set(t, local) == my' = [my EXCEPT ![t] = local]
End(t) == Goto(t, "idle") /\ Set(t, Nothing)
Fault == faults > 0 /\ faults' = faults - 1

\* Entry orders resting on the exchange (reduce-only ones are not entries).
Working == {w \in Wake : orders[w] = "working" /\ wakes[w].kind \in {"ENTER", "ADD"}}

\* The opportunity after the thread's copy of the cursor.
NextSignal(t) == my[t].cursor + 1

\* What a wake still needs once its snapshot has been dealt with.
Decided(t, kind) ==
  [Nothing EXCEPT !.cursor = my[t].cursor, !.upto = my[t].upto, !.kind = kind]

-----------------------------------------------------------------------------
(* A cycle up to the branch on the exchange snapshot.                      *)

\* The route document is read, its gates open.  A closed gate or a failed warmup
\* records a wake without intents and ends the cycle: nothing changes here.
BeginCycle(t) ==
  /\ pc[t] = "idle"
  /\ Set(t, [Nothing EXCEPT !.cursor = cursor, !.stale = stale])
  /\ Goto(t, "snapshot")
  /\ UNCHANGED <<pool, tables, exchange, faults>>

\* adapter.snapshot: any of the resting orders may be older than its TTL.
TakeSnapshot(t) ==
  /\ pc[t] = "snapshot"
  /\ \E aged \in SUBSET Working :
       Set(t, [my[t] EXCEPT !.position = position, !.protected = protected,
                            !.fresh = (aged # Working), !.aged = aged])
  /\ Goto(t, "load")
  /\ UNCHANGED <<pool, tables, exchange, faults>>

\* load_pending_canonical_entry_signals.  A wake whose signal extension failed
\* sees no pending signals; one whose load raised ValueError goes on without
\* them, and tries again when it selects an entry.
LoadPending(t) ==
  /\ pc[t] = "load"
  /\ \/ /\ \E upto \in {latest, my[t].cursor} : Set(t, [my[t] EXCEPT !.upto = upto])
        /\ UNCHANGED faults
     \/ /\ LoadMayFail
        /\ Fault
        /\ Set(t, [my[t] EXCEPT !.upto = my[t].cursor, !.missed = TRUE])
  /\ Goto(t, "expired")
  /\ UNCHANGED <<pool, tables, exchange>>

\* Mutant: the observation is left to the next wake.
ObserveLost(t, then) ==
  /\ observed' = observed
  /\ Set(t, [my[t] EXCEPT !.then = then])
  /\ Goto(t, "persist")

\* record_live_signal_observation, then persist_decision_cursor.
Observe(t, then) ==
  /\ observed' = observed \cup {NextSignal(t)}
  /\ Set(t, [my[t] EXCEPT !.then = then])
  /\ Goto(t, "persist")

\* persist_decision_cursor writes the thread's whole risk_limits document.
Persist(t) ==
  /\ pc[t] = "persist"
  /\ cursor' = NextSignal(t)
  /\ Set(t, [my[t] EXCEPT !.cursor = NextSignal(t), !.then = "idle"])
  /\ Goto(t, my[t].then)
  /\ UNCHANGED <<pool, observed, wakes, owners, adopted, exchange, faults>>

\* Mutant: an opportunity counts as expired only when a later one is too.
ExpiredLate(t) == NextSignal(t) <= my[t].upto /\ NextSignal(t) < my[t].stale

Expired(t) == NextSignal(t) <= my[t].upto /\ NextSignal(t) <= my[t].stale

\* Expired opportunities are consumed first, whatever branch follows.
ConsumeExpired(t) ==
  /\ pc[t] = "expired"
  /\ Expired(t)
  /\ Observe(t, "expired")
  /\ UNCHANGED <<pool, cursor, wakes, owners, adopted, exchange, faults>>

Branch(t) ==
  /\ pc[t] = "expired"
  /\ ~ Expired(t)
  /\ \/ my[t].position # None /\ Goto(t, "manage") /\ UNCHANGED my
     \/ my[t].position = None /\ my[t].fresh /\ Goto(t, "blocked") /\ Set(t, Decided(t, "none"))
     \/ my[t].position = None /\ ~ my[t].fresh /\ Goto(t, "flat") /\ UNCHANGED my
  /\ UNCHANGED <<pool, tables, exchange, faults>>

-----------------------------------------------------------------------------
(* The branches.                                                           *)

\* Cancelling an order that is gone raises, and the cycle ends there.
CancelAged(t) ==
  /\ my[t].aged \subseteq Working
  /\ orders' = [w \in Wake |-> IF w \in my[t].aged THEN "done" ELSE orders[w]]

CancelRaises(t) ==
  /\ pc[t] \in {"manage", "flat"}
  /\ ~ (my[t].aged \subseteq Working)
  /\ \E cancelled \in SUBSET (my[t].aged \cap Working) :
       orders' = [w \in Wake |-> IF w \in cancelled THEN "done" ELSE orders[w]]
  /\ End(t)
  /\ UNCHANGED <<pool, tables, position, episode, protected, faults>>

\* Mutant: every wake that sees a position adopts it.
AdoptAlways(e) == owners' = owners \cup {<<"adopted", e>>} /\ adopted' = adopted \cup {e}

\* Mutant: a resting entry order is taken for the position's owner.
AdoptUnlessWorking(e) ==
  IF owners = {} /\ Working = {}
    THEN owners' = {<<"adopted", e>>} /\ adopted' = adopted \cup {e}
    ELSE UNCHANGED <<owners, adopted>>

\* _adopt_exchange_position, when no owner state is open.
Adopt(e) ==
  IF owners = {}
    THEN owners' = {<<"adopted", e>>} /\ adopted' = adopted \cup {e}
    ELSE UNCHANGED <<owners, adopted>>

\* Mutant: missing protection is left to the strategy.
ManagementLax(t) ==
  {"none", "EXIT", "PROTECT"} \cup (IF my[t].fresh THEN {} ELSE {"ADD"})

\* _run_position_management: exits come first, then protection that is missing
\* or out of date, and only a protected position without a resting add order
\* is completed or pyramided.
Management(t) ==
  IF my[t].protected
    THEN {"none", "EXIT", "PROTECT"} \cup (IF my[t].fresh THEN {} ELSE {"ADD"})
    ELSE {"EXIT", "PROTECT"}

\* Without a protection policy (no ATR source for it) the decision is to hold,
\* or what size reconciliation and pyramiding make of that.
Unresolved(t) == {"none", "EXIT"} \cup (IF my[t].fresh THEN {} ELSE {"ADD"})

\* The adopted owner's key is the exchange position: a second insert raises.
ManagePosition(t) ==
  /\ pc[t] = "manage"
  /\ CancelAged(t)
  /\ IF owners = {} /\ my[t].position \in adopted
       THEN End(t) /\ UNCHANGED <<owners, adopted, faults>>
       ELSE /\ Adopt(my[t].position)
            /\ \E kind \in Kind \ {"ENTER"} :
                 /\ \/ kind \in Management(t) /\ UNCHANGED faults
                    \/ kind \in Unresolved(t) /\ Fault
                 /\ Set(t, Decided(t, kind))
            /\ Goto(t, "blocked")
  /\ UNCHANGED <<pool, cursor, observed, wakes, position, episode, protected>>

\* _consume_canonical_opportunities in mode "blocked".
ConsumeBlocked(t) ==
  /\ pc[t] = "blocked"
  /\ IF NextSignal(t) <= my[t].upto
       THEN Observe(t, "blocked")
       ELSE Goto(t, "record") /\ UNCHANGED <<observed, my>>
  /\ UNCHANGED <<pool, cursor, wakes, owners, adopted, exchange, faults>>

\* No position and no fresh entry order: cancel, close the owner states, update
\* the pause rules (the whole risk_limits document, when one changed), then
\* decide whether the wake may scan for an entry.
Flat(t) ==
  /\ pc[t] = "flat"
  /\ CancelAged(t)
  /\ owners' = {}
  /\ cursor' \in {cursor, my[t].cursor}
  /\ \/ Goto(t, "blocked") /\ Set(t, Decided(t, "none"))
     \/ my[t].aged = {} /\ Goto(t, "select") /\ UNCHANGED my
  /\ UNCHANGED <<pool, observed, wakes, adopted, position, episode, protected, faults>>

\* _has_live_entry_for_signal and _processed_entry_signal_timestamp.
EnteredBefore(s) == \E w \in Wake : wakes[w].kind = "ENTER" /\ wakes[w].signal >= s

\* Mutant: one opportunity too many.
UptoBeyond(t) == IF my[t].missed THEN latest ELSE my[t].upto + 1

\* The pending signals are loaded now if they could not be loaded before.
Upto(t) == IF my[t].missed THEN latest ELSE my[t].upto

SelectNone(t) ==
  /\ pc[t] = "select"
  /\ NextSignal(t) > Upto(t)
  /\ End(t)
  /\ UNCHANGED <<pool, tables, exchange, faults>>

\* The strategy skips the opportunity: look at the next one.
SelectSkip(t) ==
  /\ pc[t] = "select"
  /\ NextSignal(t) <= Upto(t)
  /\ observed' = observed \cup {NextSignal(t)}
  /\ Set(t, [my[t] EXCEPT !.then = "select", !.upto = Upto(t), !.missed = FALSE])
  /\ Goto(t, "persist")
  /\ UNCHANGED <<pool, cursor, wakes, owners, adopted, exchange, faults>>

\* The strategy wants the entry; a duplicate only moves the cursor.
SelectEntry(t) ==
  LET s == NextSignal(t) IN
  /\ pc[t] = "select"
  /\ s <= Upto(t)
  /\ observed' = IF EnteredBefore(s) THEN observed ELSE observed \cup {s}
  /\ Set(t, [Decided(t, IF EnteredBefore(s) THEN "none" ELSE "ENTER") EXCEPT
               !.then = "record"])
  /\ Goto(t, "persist")
  /\ UNCHANGED <<pool, cursor, wakes, owners, adopted, exchange, faults>>

-----------------------------------------------------------------------------
(* The end of a wake: _record_wake, and _submit_if_enabled.                *)

\* Bound: rows that can no longer matter are reused.
Free(w) ==
  /\ wakes[w].kind # "ENTER"
  /\ orders[w] # "working"
  /\ \A t \in Thread : my[t].wake # w /\ w \notin my[t].aged

RecordNothing(t) ==
  /\ pc[t] = "record"
  /\ my[t].kind = "none"
  /\ End(t)
  /\ UNCHANGED <<pool, tables, exchange, faults>>

RecordWake(t) ==
  /\ pc[t] = "record"
  /\ my[t].kind # "none"
  /\ \E w \in Wake :
       /\ Free(w) /\ \A v \in Wake : Free(v) => w <= v
       /\ wakes' = [wakes EXCEPT ![w] = [kind |-> my[t].kind, status |-> "intent_only",
                      signal |-> IF my[t].kind = "ENTER" THEN my[t].cursor ELSE None]]
       /\ orders' = [orders EXCEPT ![w] = "none"]
       /\ \/ Set(t, [Nothing EXCEPT !.wake = w]) /\ Goto(t, "submit")
          \/ SwitchesTurn /\ End(t)
  /\ UNCHANGED <<pool, cursor, observed, owners, adopted, position, episode, protected, faults>>

\* A ValueError while the intents are built (no ATR source, no side policy), or
\* a failed insert: the cursor has moved and no wake is recorded.
RecordRaises(t) ==
  /\ pc[t] = "record"
  /\ Fault
  /\ End(t)
  /\ UNCHANGED <<pool, tables, exchange>>

-----------------------------------------------------------------------------
(* submit_wake_order_intents.                                              *)

\* Only intents that are still "intent_only" are handed to the exchange.
Submittable(w) == wakes[w].status = "intent_only"

SubmitOrders(t, w) ==
  /\ Set(t, [Nothing EXCEPT !.wake = w])
  /\ Goto(t, IF wakes[w].kind = "PROTECT" THEN "ensure" ELSE "cancel_protection")

\* POST .../submit-orders for a recorded wake; closed gates refuse it.
ManualSubmit(t, w) ==
  /\ pc[t] = "idle"
  /\ wakes[w].kind # "none"
  /\ Submittable(w)
  /\ SubmitOrders(t, w)
  /\ UNCHANGED <<pool, tables, exchange, faults>>

\* _submit_if_enabled, for the wake the cycle recorded; closed gates end it.
AutoSubmit(t) ==
  LET w == my[t].wake IN
  /\ pc[t] = "submit"
  /\ \/ Submittable(w) /\ SubmitOrders(t, w)
     \/ (SwitchesTurn \/ ~ Submittable(w)) /\ End(t)
  /\ UNCHANGED <<pool, tables, exchange, faults>>

\* An ExchangeAdapterError is recorded as the intent's result.
FailCall(t) == Fault /\ Set(t, [my[t] EXCEPT !.failed = TRUE]) /\ Goto(t, "store")

\* Leverage, then the live TP/SL orders, before any order on the position.
CancelProtection(t) ==
  /\ pc[t] = "cancel_protection"
  /\ \/ protected' = FALSE /\ Goto(t, "place") /\ UNCHANGED <<my, faults>>
     \/ protected' \in {protected, FALSE} /\ FailCall(t)
  /\ UNCHANGED <<pool, tables, position, episode, orders>>

\* Mutant: every attempt gets a client order id of its own.
KnownNever(w) == FALSE

\* The exchange has seen the wake's client order id, which every attempt to submit
\* the wake derives in the same way.
Known(w) == orders[w] # "none"

\* place_swap_order; the exchange rejects a client order id it knows, and a
\* call may fail after the order was accepted.
Place(t) ==
  LET w == my[t].wake IN
  /\ pc[t] = "place"
  /\ \/ /\ ~ Known(w)
        /\ orders' = [orders EXCEPT ![w] = "working"]
        /\ Goto(t, IF wakes[w].kind = "EXIT" THEN "store" ELSE "post_fill")
        /\ UNCHANGED <<my, faults>>
     \/ /\ Known(w)
        /\ Set(t, [my[t] EXCEPT !.failed = TRUE]) /\ Goto(t, "store")
        /\ UNCHANGED <<orders, faults>>
     \/ /\ orders' \in {orders, [orders EXCEPT ![w] = IF Known(w) THEN @ ELSE "working"]}
        /\ FailCall(t)
  /\ UNCHANGED <<pool, tables, position, episode, protected>>

\* _ensure_post_fill_protection: nothing to protect until the order fills.
PostFill(t) ==
  /\ pc[t] = "post_fill"
  /\ protected' = (position # None)
  /\ Goto(t, "store")
  /\ UNCHANGED <<pool, tables, position, episode, orders, my, faults>>

\* ensure_swap_protection amends, or cancels and places; it may stop halfway.
EnsureProtection(t) ==
  /\ pc[t] = "ensure"
  /\ \/ protected' = (position # None) /\ Goto(t, "store") /\ UNCHANGED <<my, faults>>
     \/ protected' \in {protected, FALSE} /\ FailCall(t)
  /\ UNCHANGED <<pool, tables, position, episode, orders>>

\* update_wake_execution_results: "submitted" or "submission_failed", which only
\* a reader of the wake tells apart.
StoreResult(t) ==
  LET w == my[t].wake IN
  /\ pc[t] = "store"
  /\ wakes' = [wakes EXCEPT ![w].status = "answered"]
  /\ IF wakes[w].kind = "ENTER" /\ ~ my[t].failed
       THEN Goto(t, "create_owner") /\ UNCHANGED my
       ELSE End(t)
  /\ UNCHANGED <<pool, cursor, observed, owners, adopted, exchange, faults>>

CreateOwner(t) ==
  /\ pc[t] = "create_owner"
  /\ owners' = owners \cup {<<"entry", my[t].wake>>}
  /\ End(t)
  /\ UNCHANGED <<pool, cursor, observed, wakes, adopted, exchange, faults>>

\* An error no handler expects (a CLI timeout, a lost connection, a failed
\* call outside the try): the thread unwinds and records nothing more.
Raise(t) ==
  /\ pc[t] \notin {"idle", "record"}
  /\ Fault
  /\ End(t)
  /\ UNCHANGED <<pool, tables, exchange>>

-----------------------------------------------------------------------------
(* The rest of the world.                                                  *)

NewSignal ==
  /\ latest < MaxSignals
  /\ latest' = latest + 1
  /\ UNCHANGED <<stale, tables, exchange, pc, my, faults>>

GraceEnds ==
  /\ stale < latest
  /\ stale' = stale + 1
  /\ UNCHANGED <<latest, tables, exchange, pc, my, faults>>

OpenPosition ==
  /\ episode < MaxEpisodes
  /\ episode' = episode + 1
  /\ position' = episode + 1
  /\ protected' = FALSE

ClosePosition ==
  /\ position' = None
  /\ protected' = FALSE
  /\ UNCHANGED episode

\* An entry or add order fills; alone, it opens a position.
FillEntry(w) ==
  /\ w \in Working
  /\ orders' = [orders EXCEPT ![w] = "done"]
  /\ IF position = None THEN OpenPosition ELSE UNCHANGED <<position, episode, protected>>
  /\ UNCHANGED <<pool, tables, pc, my, faults>>

\* A reduce-only order closes the position, or dies without one.
FillExit(w) ==
  /\ orders[w] = "working" /\ wakes[w].kind = "EXIT"
  /\ orders' = [orders EXCEPT ![w] = "done"]
  /\ ClosePosition
  /\ UNCHANGED <<pool, tables, pc, my, faults>>

\* TP or SL triggers, or the owner of the account closes the position.
ExchangeCloses ==
  /\ position # None
  /\ ClosePosition
  /\ UNCHANGED <<pool, tables, orders, pc, my, faults>>

\* A position opened by hand at the exchange.
ManualPosition ==
  /\ position = None
  /\ OpenPosition
  /\ UNCHANGED <<pool, tables, orders, pc, my, faults>>

\* The API process dies with all its threads and is started again.
Crash ==
  /\ \E t \in Thread : pc[t] # "idle"
  /\ Fault
  /\ pc' = [t \in Thread |-> "idle"]
  /\ my' = [t \in Thread |-> Nothing]
  /\ UNCHANGED <<pool, tables, exchange>>

-----------------------------------------------------------------------------
WakeStep(t) ==
  \/ TakeSnapshot(t) \/ LoadPending(t) \/ ConsumeExpired(t) \/ Branch(t) \/ Persist(t)
  \/ CancelRaises(t) \/ ManagePosition(t) \/ ConsumeBlocked(t) \/ Flat(t)
  \/ SelectNone(t) \/ SelectSkip(t) \/ SelectEntry(t)
  \/ RecordNothing(t) \/ RecordWake(t) \/ RecordRaises(t)

SubmitStep(t) ==
  \/ AutoSubmit(t) \/ CancelProtection(t) \/ Place(t) \/ PostFill(t)
  \/ EnsureProtection(t) \/ StoreResult(t) \/ CreateOwner(t)

ThreadNext(t) == WakeStep(t) \/ SubmitStep(t) \/ Raise(t)

Environment ==
  \/ NewSignal \/ GraceEnds
  \/ \E w \in Wake : FillEntry(w) \/ FillExit(w)
  \/ ExchangeCloses \/ ManualPosition \/ Crash

Next ==
  \/ \E t \in CycleThreads : BeginCycle(t)
  \/ \E t \in SubmitThreads, w \in Wake : ManualSubmit(t, w)
  \/ \E t \in Thread : ThreadNext(t)
  \/ Environment

Spec == Init /\ [][Next]_vars

(* Fairness: the scheduler keeps starting cycles, threads keep running, and *)
(* exit orders, which are market orders, fill.                              *)
FairSpec ==
  /\ Spec
  /\ \A t \in CycleThreads : WF_vars(BeginCycle(t))
  /\ \A t \in Thread : WF_vars(WakeStep(t)) /\ WF_vars(SubmitStep(t))
  /\ \A w \in Wake : WF_vars(FillExit(w))

-----------------------------------------------------------------------------
(* Properties.                                                             *)

Entry(w) == wakes[w].kind = "ENTER"

\* An opportunity is entered at most once: an entry order is accepted only when
\* no order of its wake, nor of another wake for the same opportunity, was accepted
\* before, whatever crashes, failed calls and manual submissions come between the
\* decision, the cursor, the wake and the order (run_route_wake,
\* submit_wake_order_intents).
EnteredOnce ==
  [][\A w \in Wake :
       Entry(w) /\ orders[w] # "working" /\ orders'[w] = "working" =>
         \A v \in Wake :
           Entry(v) /\ wakes[v].signal = wakes[w].signal => orders[v] = "none"]_vars

\* The cursor never passes an opportunity that was not answered: each one at or
\* before it has an observation (_consume_canonical_opportunities,
\* _select_next_canonical_opportunity, persist_decision_cursor).
NothingSkippedSilently == \A s \in Signal : s <= cursor => s \in observed

\* An opportunity whose grace was over when the wake began is never entered
\* (expired_opportunities_advance_cursor of the decision cadence contract).
NoLateEntry ==
  [][\A t \in CycleThreads :
       my'[t].kind = "ENTER" /\ my[t].kind # "ENTER" => NextSignal(t) > my[t].stale]_vars

\* A route has at most one open owner state.
OneOpenOwner == \A o, p \in owners : o = p

\* While the route's gates stay open, an exchange position gets an owner state
\* after any crash between its order and create_owner_state.
PositionGetsOwner == position # None ~> position = None \/ owners # {}

\* While the route's gates stay open and auto_submit on, a position that lost its
\* TP/SL orders (cancelled before an order that then failed) is protected again,
\* unless the bundle's protection policy never resolves.
PositionGetsProtected ==
  position # None /\ ~ protected ~> position = None \/ protected

=============================================================================
