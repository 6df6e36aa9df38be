---------------------------- MODULE LiveRouteProofs ----------------------------
(* Proofs about LiveRoute, for any number of signals, wakes, episodes,      *)
(* faults and threads; EnteredOnce needs that one thread runs the cycles.   *)
EXTENDS LiveRoute, TLAPS

-----------------------------------------------------------------------------
(* Types.  A cycle moves the cursor only within the pool, which the thread's *)
(* copy of the cursor must say before the cursor is persisted, manages only  *)
(* a position that it has seen, and submits only a wake that was recorded.   *)

SubmitSteps == {"submit", "cancel_protection", "place", "post_fill", "ensure", "store",
                "create_owner"}

StepOK ==
  \A t \in Thread :
    /\ pc[t] = "persist" => my[t].cursor < MaxSignals
    /\ pc[t] = "manage" => my[t].position # None
    /\ pc[t] \in SubmitSteps => my[t].wake # None

ThreadsOK ==
  /\ pc \in [Thread -> Step] /\ my \in [Thread -> Local]
  /\ StepOK

\* The types of all that the threads share.
SharedOK ==
  /\ latest \in 0 .. MaxSignals /\ stale \in 0 .. MaxSignals
  /\ cursor \in 0 .. MaxSignals
  /\ observed \in SUBSET Signal
  /\ wakes \in [Wake -> Intent]
  /\ owners \in SUBSET Owner /\ adopted \in SUBSET Episode
  /\ position \in Episode \cup {None} /\ episode \in 0 .. MaxEpisodes
  /\ protected \in BOOLEAN
  /\ orders \in [Wake -> {"none", "working", "done"}]
  /\ faults \in Nat

TInv == ThreadsOK /\ SharedOK

LEMMA TInvTypes == TInv => TypeOK
  BY DEF TInv, TypeOK, ThreadsOK, SharedOK

LEMMA NothingType == Nothing \in Local
  BY LiveRouteAssumption DEF Nothing, Local, Kind, None

LEMMA DecidedType ==
  ASSUME TInv, NEW t \in Thread, NEW kind \in Kind
  PROVE  /\ Decided(t, kind) \in Local
         /\ Decided(t, kind).cursor = my[t].cursor
         /\ Decided(t, kind).kind = kind
<1>1. my[t] \in Local
  BY DEF TInv, ThreadsOK, SharedOK
<1> QED
  BY <1>1, NothingType DEF Decided, Nothing, Local

LEMMA MoveType ==
  ASSUME TInv, NEW t \in Thread, NEW step \in Step, NEW local \in Local,
         Goto(t, step), Set(t, local),
         step = "persist" => local.cursor < MaxSignals,
         step = "manage" => local.position # None,
         step \in SubmitSteps => local.wake # None
  PROVE  ThreadsOK'
  BY DEF TInv, ThreadsOK, StepOK, Goto, Set

LEMMA GotoType ==
  ASSUME TInv, NEW t \in Thread, NEW step \in Step \ {"persist"},
         Goto(t, step), UNCHANGED my,
         step = "manage" => my[t].position # None,
         step \in SubmitSteps => my[t].wake # None
  PROVE  ThreadsOK'
  BY DEF TInv, ThreadsOK, StepOK, Goto

LEMMA EndType ==
  ASSUME TInv, NEW t \in Thread, End(t)
  PROVE  ThreadsOK'
  BY MoveType, NothingType DEF End, Step, SubmitSteps

\* Only the cursor of the wake it is in, and the pool, bound what a thread reads.
LEMMA BeginType ==
  ASSUME TInv, NEW t \in Thread, BeginCycle(t) \/ TakeSnapshot(t) \/ LoadPending(t)
  PROVE  TInv'
<1>0. my[t] \in Local /\ cursor \in 0 .. MaxSignals /\ stale \in 0 .. MaxSignals
      /\ latest \in 0 .. MaxSignals
  BY DEF TInv, ThreadsOK, SharedOK
<1>1. CASE BeginCycle(t)
  <2>1. [Nothing EXCEPT !.cursor = cursor, !.stale = stale] \in Local
    BY <1>0, NothingType DEF Nothing, Local
  <2>2. ThreadsOK'
    BY <1>1, <2>1, MoveType DEF BeginCycle, Step, SubmitSteps
  <2> QED
    BY <1>1, <2>2 DEF BeginCycle, SharedOK, TInv, pool, tables, exchange
<1>2. CASE TakeSnapshot(t)
  <2>1. PICK aged \in SUBSET Working :
          Set(t, [my[t] EXCEPT !.position = position, !.protected = protected,
                               !.fresh = (aged # Working), !.aged = aged])
    BY <1>2 DEF TakeSnapshot
  <2>2. aged \in SUBSET Wake /\ position \in Episode \cup {None} /\ protected \in BOOLEAN
    BY DEF Working, TInv, SharedOK
  <2>3. [my[t] EXCEPT !.position = position, !.protected = protected,
                      !.fresh = (aged # Working), !.aged = aged] \in Local
    BY <1>0, <2>2 DEF Local
  <2>4. ThreadsOK'
    BY <1>2, <2>1, <2>3, MoveType DEF TakeSnapshot, Step, SubmitSteps
  <2> QED
    BY <1>2, <2>4 DEF TakeSnapshot, SharedOK, TInv, pool, tables, exchange
<1>3. CASE LoadPending(t)
  <2>1. PICK local \in Local : Set(t, local)
    <3>1. CASE \E upto \in {latest, my[t].cursor} : Set(t, [my[t] EXCEPT !.upto = upto])
      BY <1>0, <3>1 DEF Local
    <3>2. CASE Set(t, [my[t] EXCEPT !.upto = my[t].cursor, !.missed = TRUE])
      BY <1>0, <3>2 DEF Local
    <3> QED
      BY <1>3, <3>1, <3>2 DEF LoadPending
  <2>2. ThreadsOK'
    BY <1>3, <2>1, MoveType DEF LoadPending, Step, SubmitSteps
  <2>3. faults' \in Nat
    BY <1>3 DEF LoadPending, Fault, TInv, SharedOK
  <2> QED
    BY <1>3, <2>2, <2>3 DEF LoadPending, SharedOK, TInv, pool, tables, exchange
<1> QED
  BY <1>1, <1>2, <1>3

\* Opportunities are consumed one by one up to what the thread loaded.
LEMMA ConsumeType ==
  ASSUME TInv, NEW t \in Thread,
         ConsumeExpired(t) \/ ConsumeBlocked(t) \/ Persist(t) \/ Branch(t)
  PROVE  TInv'
<1>0. my[t] \in Local /\ cursor \in 0 .. MaxSignals
  BY DEF TInv, ThreadsOK, SharedOK
<1>1. my[t].cursor \in 0 .. MaxSignals /\ my[t].upto \in 0 .. MaxSignals
  BY <1>0 DEF Local
<1>2. ASSUME NEW then \in {"expired", "blocked"}, Observe(t, then), NextSignal(t) <= my[t].upto
      PROVE  ThreadsOK' /\ observed' \in SUBSET Signal
  <2>1. my[t].cursor < MaxSignals /\ NextSignal(t) \in Signal
    BY <1>1, <1>2, LiveRouteAssumption DEF NextSignal, Signal
  <2>2. [my[t] EXCEPT !.then = then] \in Local
    BY <1>0 DEF Local
  <2>3. [my[t] EXCEPT !.then = then].cursor = my[t].cursor
    BY <1>0 DEF Local
  <2>4. ThreadsOK'
    BY <1>2, <2>1, <2>2, <2>3, MoveType DEF Observe, Step, SubmitSteps
  <2> QED
    BY <1>2, <2>1, <2>4 DEF Observe, TInv, SharedOK
<1>3. CASE ConsumeExpired(t)
  <2>1. ThreadsOK' /\ observed' \in SUBSET Signal
    BY <1>2, <1>3 DEF ConsumeExpired, Expired
  <2> QED
    BY <1>3, <2>1 DEF ConsumeExpired, SharedOK, TInv, pool, tables, exchange
<1>4. CASE ConsumeBlocked(t)
  <2>1. ThreadsOK' /\ observed' \in SUBSET Signal
    <3>1. CASE NextSignal(t) <= my[t].upto
      BY <1>2, <1>4, <3>1 DEF ConsumeBlocked
    <3>2. CASE ~ (NextSignal(t) <= my[t].upto)
      BY <1>4, <3>2, GotoType DEF ConsumeBlocked, Step, SubmitSteps, TInv, SharedOK
    <3> QED
      BY <3>1, <3>2
  <2> QED
    BY <1>4, <2>1 DEF ConsumeBlocked, SharedOK, TInv, pool, tables, exchange
<1>5. CASE Persist(t)
  <2>1. my[t].cursor < MaxSignals
    BY <1>5 DEF Persist, TInv, ThreadsOK, StepOK
  <2>2. NextSignal(t) \in 0 .. MaxSignals
    BY <1>1, <2>1, LiveRouteAssumption DEF NextSignal
  <2>3. [my[t] EXCEPT !.cursor = NextSignal(t), !.then = "idle"] \in Local
    BY <1>0, <2>2 DEF Local
  <2>4. my[t].then \in {"idle", "expired", "blocked", "select", "record"}
    BY <1>0 DEF Local
  <2>5. ThreadsOK'
    BY <1>5, <2>3, <2>4, MoveType DEF Persist, Step, SubmitSteps
  <2> QED
    BY <1>5, <2>2, <2>5 DEF Persist, SharedOK, TInv, pool, exchange
<1>6. CASE Branch(t)
  <2>1. CASE my[t].position # None
    BY <1>6, <2>1, GotoType DEF Branch, Step, SubmitSteps, SharedOK, TInv, pool, tables, exchange
  <2>2. CASE my[t].position = None /\ my[t].fresh
    <3>1. ThreadsOK'
      BY <1>6, <2>2, MoveType, DecidedType DEF Branch, Step, SubmitSteps, Kind
    <3> QED
      BY <1>6, <3>1 DEF Branch, SharedOK, TInv, pool, tables, exchange
  <2>3. CASE my[t].position = None /\ ~ my[t].fresh
    BY <1>6, <2>3, GotoType DEF Branch, Step, SubmitSteps, SharedOK, TInv, pool, tables, exchange
  <2> QED
    BY <2>1, <2>2, <2>3
<1> QED
  BY <1>3, <1>4, <1>5, <1>6

LEMMA BranchType ==
  ASSUME TInv, NEW t \in Thread, CancelRaises(t) \/ ManagePosition(t) \/ Flat(t)
  PROVE  TInv'
<1>0. my[t] \in Local /\ orders \in [Wake -> {"none", "working", "done"}]
  BY DEF TInv, ThreadsOK, SharedOK
<1>1. CASE CancelRaises(t)
  <2>1. ThreadsOK'
    BY <1>1, EndType DEF CancelRaises
  <2>2. orders' \in [Wake -> {"none", "working", "done"}]
    BY <1>0, <1>1 DEF CancelRaises
  <2> QED
    BY <1>1, <2>1, <2>2 DEF CancelRaises, SharedOK, TInv, pool, tables
<1>2. CASE ManagePosition(t)
  <2>1. ThreadsOK'
    <3>1. CASE End(t)
      BY <3>1, EndType
    <3>2. CASE (\E kind \in Kind : Set(t, Decided(t, kind))) /\ Goto(t, "blocked")
      BY <3>2, MoveType, DecidedType DEF Step, SubmitSteps
    <3> QED
      BY <1>2, <3>1, <3>2 DEF ManagePosition
  <2>2. owners' \in SUBSET Owner /\ adopted' \in SUBSET Episode
    <3>1. ASSUME Adopt(my[t].position), my[t].position \in Episode
          PROVE  owners' \in SUBSET Owner /\ adopted' \in SUBSET Episode
      BY <3>1 DEF Adopt, Owner, TInv, SharedOK
    <3>2. my[t].position \in Episode
      BY <1>0, <1>2 DEF ManagePosition, Local, TInv, ThreadsOK, StepOK
    <3> QED
      BY <1>2, <3>1, <3>2 DEF ManagePosition, TInv, SharedOK
  <2>3. orders' \in [Wake -> {"none", "working", "done"}]
    BY <1>0, <1>2 DEF ManagePosition, CancelAged
  <2>4. faults' \in Nat
    BY <1>2 DEF ManagePosition, Fault, TInv, SharedOK
  <2> QED
    BY <1>2, <2>1, <2>2, <2>3, <2>4 DEF ManagePosition, SharedOK, TInv, pool, tables
<1>3. CASE Flat(t)
  <2>1. ThreadsOK'
    BY <1>3, GotoType, MoveType, DecidedType DEF Flat, Step, SubmitSteps, Kind
  <2>2. orders' \in [Wake -> {"none", "working", "done"}]
    BY <1>0, <1>3 DEF Flat, CancelAged
  <2>3. cursor' \in 0 .. MaxSignals
    BY <1>0, <1>3 DEF Flat, Local, TInv, SharedOK
  <2> QED
    BY <1>3, <2>1, <2>2, <2>3 DEF Flat, SharedOK, TInv, pool
<1> QED
  BY <1>1, <1>2, <1>3

LEMMA SelectType ==
  ASSUME TInv, NEW t \in Thread, SelectNone(t) \/ SelectSkip(t) \/ SelectEntry(t)
  PROVE  TInv'
<1>0. my[t] \in Local /\ latest \in 0 .. MaxSignals
  BY DEF TInv, ThreadsOK, SharedOK
<1>1. my[t].cursor \in 0 .. MaxSignals /\ Upto(t) \in 0 .. MaxSignals
  BY <1>0 DEF Local, Upto
<1>2. NextSignal(t) <= Upto(t) => my[t].cursor < MaxSignals /\ NextSignal(t) \in Signal
  BY <1>1, LiveRouteAssumption DEF NextSignal, Signal
<1>3. CASE SelectNone(t)
  <2>1. ThreadsOK'
    BY <1>3, EndType DEF SelectNone
  <2> QED
    BY <1>3, <2>1 DEF SelectNone, SharedOK, TInv, pool, tables, exchange
<1>4. CASE SelectSkip(t)
  <2> DEFINE local == [my[t] EXCEPT !.then = "select", !.upto = Upto(t), !.missed = FALSE]
  <2>1. local \in Local /\ local.cursor = my[t].cursor
    BY <1>0, <1>1 DEF Local
  <2>2. ThreadsOK'
    BY <1>2, <1>4, <2>1, MoveType DEF SelectSkip, Step, SubmitSteps
  <2> QED
    BY <1>2, <1>4, <2>2 DEF SelectSkip, SharedOK, TInv, pool, exchange
<1>5. CASE SelectEntry(t)
  <2>1. PICK kind \in {"none", "ENTER"} : Set(t, [Decided(t, kind) EXCEPT !.then = "record"])
    BY <1>5 DEF SelectEntry
  <2> DEFINE local == [Decided(t, kind) EXCEPT !.then = "record"]
  <2>2. Decided(t, kind) \in Local /\ Decided(t, kind).cursor = my[t].cursor
    BY DecidedType DEF Kind
  <2>3. local \in Local /\ local.cursor = my[t].cursor
    BY <2>2 DEF Local
  <2>4. ThreadsOK'
    BY <1>2, <1>5, <2>1, <2>3, MoveType DEF SelectEntry, Step, SubmitSteps
  <2> QED
    BY <1>2, <1>5, <2>4 DEF SelectEntry, SharedOK, TInv, pool, exchange
<1> QED
  BY <1>3, <1>4, <1>5

LEMMA RecordType ==
  ASSUME TInv, NEW t \in Thread, RecordNothing(t) \/ RecordWake(t) \/ RecordRaises(t)
  PROVE  TInv'
<1>0. my[t] \in Local /\ wakes \in [Wake -> Intent]
      /\ orders \in [Wake -> {"none", "working", "done"}]
  BY DEF TInv, ThreadsOK, SharedOK
<1>1. CASE RecordNothing(t)
  <2>1. ThreadsOK'
    BY <1>1, EndType DEF RecordNothing
  <2> QED
    BY <1>1, <2>1 DEF RecordNothing, SharedOK, TInv, pool, tables, exchange
<1>2. CASE RecordRaises(t)
  <2>1. ThreadsOK'
    BY <1>2, EndType DEF RecordRaises
  <2> QED
    BY <1>2, <2>1 DEF RecordRaises, Fault, SharedOK, TInv, pool, tables, exchange
<1>3. CASE RecordWake(t)
  <2>1. PICK w \in Wake :
          /\ wakes' = [wakes EXCEPT ![w] = [kind |-> my[t].kind, status |-> "intent_only",
                         signal |-> IF my[t].kind = "ENTER" THEN my[t].cursor ELSE None]]
          /\ orders' = [orders EXCEPT ![w] = "none"]
          /\ \/ Set(t, [Nothing EXCEPT !.wake = w]) /\ Goto(t, "submit")
             \/ SwitchesTurn /\ End(t)
    BY <1>3 DEF RecordWake
  <2>2. [kind |-> my[t].kind, status |-> "intent_only",
         signal |-> IF my[t].kind = "ENTER" THEN my[t].cursor ELSE None] \in Intent
    BY <1>0, LiveRouteAssumption DEF Intent, Local, Signal, None
  <2>3. [Nothing EXCEPT !.wake = w] \in Local /\ [Nothing EXCEPT !.wake = w].wake = w /\ w # None
    BY NothingType DEF Local, Wake, None
  <2>4. ThreadsOK'
    BY <2>1, <2>3, MoveType, EndType DEF Step, SubmitSteps
  <2>5. wakes' \in [Wake -> Intent] /\ orders' \in [Wake -> {"none", "working", "done"}]
    BY <1>0, <2>1, <2>2
  <2> QED
    BY <1>3, <2>4, <2>5 DEF RecordWake, SharedOK, TInv, pool
<1> QED
  BY <1>1, <1>2, <1>3

LEMMA MyWake ==
  ASSUME TInv, NEW t \in Thread, pc[t] \in SubmitSteps
  PROVE  my[t].wake \in Wake
  BY DEF TInv, ThreadsOK, StepOK, Local

LEMMA FailCallType ==
  ASSUME TInv, NEW t \in Thread, FailCall(t), pc[t] \in SubmitSteps
  PROVE  ThreadsOK' /\ faults' \in Nat
<1>0. my[t] \in Local /\ my[t].wake # None
  BY DEF TInv, ThreadsOK, StepOK
<1>1. [my[t] EXCEPT !.failed = TRUE] \in Local
      /\ [my[t] EXCEPT !.failed = TRUE].wake = my[t].wake
  BY <1>0 DEF Local
<1>2. ThreadsOK'
  BY <1>1, <1>0, MoveType DEF FailCall, Step, SubmitSteps
<1> QED
  BY <1>2 DEF FailCall, Fault, TInv, SharedOK

LEMMA BeginSubmitType ==
  ASSUME TInv, NEW t \in Thread, NEW v \in Wake, ManualSubmit(t, v) \/ AutoSubmit(t)
  PROVE  TInv'
<1>1. ASSUME NEW w \in Wake, SubmitOrders(t, w)
      PROVE  ThreadsOK'
  <2>1. [Nothing EXCEPT !.wake = w] \in Local /\ [Nothing EXCEPT !.wake = w].wake = w /\ w # None
    BY NothingType DEF Local, Wake, None
  <2> QED
    BY <1>1, <2>1, MoveType DEF SubmitOrders, Step, SubmitSteps
<1>2. CASE ManualSubmit(t, v)
  BY <1>1, <1>2 DEF ManualSubmit, SharedOK, TInv, pool, tables, exchange
<1>3. CASE AutoSubmit(t)
  <2>1. my[t].wake \in Wake
    BY <1>3, MyWake DEF AutoSubmit, SubmitSteps
  <2>2. ThreadsOK'
    BY <1>1, <1>3, <2>1, EndType DEF AutoSubmit
  <2> QED
    BY <1>3, <2>2 DEF AutoSubmit, SharedOK, TInv, pool, tables, exchange
<1> QED
  BY <1>2, <1>3

LEMMA SubmitType ==
  ASSUME TInv, NEW t \in Thread,
         CancelProtection(t) \/ Place(t) \/ PostFill(t) \/ EnsureProtection(t)
  PROVE  TInv'
<1>1. CASE CancelProtection(t)
  <2>1. ThreadsOK' /\ faults' \in Nat
    BY <1>1, FailCallType, GotoType, MyWake
       DEF CancelProtection, Step, SubmitSteps, TInv, ThreadsOK, StepOK, SharedOK
  <2>2. protected' \in BOOLEAN
    BY <1>1 DEF CancelProtection, TInv, SharedOK
  <2> QED
    BY <1>1, <2>1, <2>2 DEF CancelProtection, SharedOK, TInv, pool, tables
<1>2. CASE Place(t)
  <2>0. my[t] \in Local /\ my[t].wake \in Wake
    BY <1>2, MyWake DEF Place, SubmitSteps, TInv, ThreadsOK
  <2>1. ThreadsOK' /\ faults' \in Nat
    <3>1. CASE Set(t, [my[t] EXCEPT !.failed = TRUE]) /\ Goto(t, "store") /\ UNCHANGED faults
      <4>1. [my[t] EXCEPT !.failed = TRUE] \in Local
            /\ [my[t] EXCEPT !.failed = TRUE].wake = my[t].wake
        BY <2>0 DEF Local
      <4>2. my[t].wake # None
        BY <2>0, LiveRouteAssumption DEF Wake, None
      <4> QED
        BY <3>1, <4>1, <4>2, MoveType DEF Step, TInv, SharedOK
    <3>2. CASE (\E step \in {"store", "post_fill"} : Goto(t, step)) /\ UNCHANGED <<my, faults>>
      BY <2>0, <3>2, GotoType DEF Step, Wake, None, TInv, SharedOK
    <3>3. CASE FailCall(t)
      BY <1>2, <3>3, FailCallType DEF Place, SubmitSteps
    <3> QED
      BY <1>2, <3>1, <3>2, <3>3 DEF Place
  <2>2. orders' \in [Wake -> {"none", "working", "done"}]
    BY <1>2, <2>0 DEF Place, TInv, SharedOK
  <2> QED
    BY <1>2, <2>1, <2>2 DEF Place, SharedOK, TInv, pool, tables
<1>3. CASE PostFill(t)
  <2>1. ThreadsOK'
    BY <1>3, GotoType DEF PostFill, Step, SubmitSteps, TInv, ThreadsOK, StepOK
  <2> QED
    BY <1>3, <2>1 DEF PostFill, SharedOK, TInv, pool, tables
<1>4. CASE EnsureProtection(t)
  <2>1. ThreadsOK' /\ faults' \in Nat
    BY <1>4, FailCallType, GotoType
       DEF EnsureProtection, Step, SubmitSteps, TInv, ThreadsOK, StepOK, SharedOK
  <2>2. protected' \in BOOLEAN
    BY <1>4 DEF EnsureProtection, TInv, SharedOK
  <2> QED
    BY <1>4, <2>1, <2>2 DEF EnsureProtection, SharedOK, TInv, pool, tables
<1> QED
  BY <1>1, <1>2, <1>3, <1>4

LEMMA StoreType ==
  ASSUME TInv, NEW t \in Thread, StoreResult(t) \/ CreateOwner(t)
  PROVE  TInv'
<1>0. my[t].wake \in Wake
  BY MyWake DEF StoreResult, CreateOwner, SubmitSteps
<1>1. CASE StoreResult(t)
  <2>1. ThreadsOK'
    BY <1>0, <1>1, GotoType, EndType DEF StoreResult, Step, Wake, None
  <2>2. wakes' \in [Wake -> Intent]
    BY <1>0, <1>1 DEF StoreResult, Intent, TInv, SharedOK
  <2> QED
    BY <1>1, <2>1, <2>2 DEF StoreResult, SharedOK, TInv, pool, exchange
<1>2. CASE CreateOwner(t)
  <2>1. ThreadsOK'
    BY <1>2, EndType DEF CreateOwner
  <2> QED
    BY <1>0, <1>2, <2>1 DEF CreateOwner, Owner, SharedOK, TInv, pool, exchange
<1> QED
  BY <1>1, <1>2

LEMMA RaiseType ==
  ASSUME TInv, NEW t \in Thread, Raise(t)
  PROVE  TInv'
<1>1. ThreadsOK'
  BY EndType DEF Raise
<1> QED
  BY <1>1 DEF Raise, Fault, SharedOK, TInv, pool, tables, exchange

LEMMA EnvironmentType ==
  ASSUME TInv, Environment
  PROVE  TInv'
<1>1. CASE Crash
  <2>1. ThreadsOK'
    BY <1>1, NothingType DEF Crash, ThreadsOK, StepOK, SubmitSteps, Step
  <2> QED
    BY <1>1, <2>1 DEF Crash, Fault, SharedOK, TInv, pool, tables, exchange
<1>2. CASE NewSignal \/ GraceEnds
  <2>1. ThreadsOK'
    BY <1>2 DEF NewSignal, GraceEnds, TInv, ThreadsOK, StepOK
  <2>2. latest' \in 0 .. MaxSignals /\ stale' \in 0 .. MaxSignals
    BY <1>2, LiveRouteAssumption DEF NewSignal, GraceEnds, TInv, SharedOK
  <2> QED
    BY <1>2, <2>1, <2>2 DEF NewSignal, GraceEnds, SharedOK, TInv, tables, exchange
<1>3. CASE (\E w \in Wake : FillEntry(w) \/ FillExit(w)) \/ ExchangeCloses \/ ManualPosition
  <2>1. ThreadsOK'
    BY <1>3 DEF FillEntry, FillExit, ExchangeCloses, ManualPosition, TInv, ThreadsOK, StepOK
  <2>2. position' \in Episode \cup {None} /\ episode' \in 0 .. MaxEpisodes
        /\ protected' \in BOOLEAN
    <3>1. CASE OpenPosition
      <4>1. episode \in 0 .. MaxEpisodes /\ MaxEpisodes \in Nat
        BY LiveRouteAssumption DEF TInv, SharedOK
      <4>2. episode + 1 \in 1 .. MaxEpisodes /\ episode + 1 \in 0 .. MaxEpisodes
        BY <3>1, <4>1 DEF OpenPosition
      <4> QED
        BY <3>1, <4>2 DEF OpenPosition, Episode
    <3>2. CASE ClosePosition
      BY <3>2 DEF ClosePosition, TInv, SharedOK, None
    <3>3. CASE UNCHANGED <<position, episode, protected>>
      BY <3>3 DEF TInv, SharedOK
    <3> QED
      BY <1>3, <3>1, <3>2, <3>3 DEF FillEntry, FillExit, ExchangeCloses, ManualPosition
  <2>3. orders' \in [Wake -> {"none", "working", "done"}]
    BY <1>3 DEF FillEntry, FillExit, ExchangeCloses, ManualPosition, TInv, SharedOK
  <2> QED
    BY <1>3, <2>1, <2>2, <2>3
       DEF FillEntry, FillExit, ExchangeCloses, ManualPosition, SharedOK, TInv, pool, tables
<1> QED
  BY <1>1, <1>2, <1>3 DEF Environment

THEOREM TypesHold == Spec => []TInv
<1>1. Init => TInv
  <2> SUFFICES ASSUME Init PROVE TInv
    OBVIOUS
  <2>1. ThreadsOK
    BY NothingType DEF Init, ThreadsOK, StepOK, SubmitSteps, Step
  <2>2. NoIntent \in Intent
    BY DEF NoIntent, Intent, Kind
  <2>3. wakes \in [Wake -> Intent] /\ orders \in [Wake -> {"none", "working", "done"}]
    BY <2>2 DEF Init
  <2>4. 0 \in 0 .. MaxSignals /\ 0 \in 0 .. MaxEpisodes /\ MaxFaults \in Nat
    BY LiveRouteAssumption
  <2> QED
    BY <2>1, <2>3, <2>4 DEF Init, TInv, SharedOK
<1>2. TInv /\ [Next]_vars => TInv'
  <2> SUFFICES ASSUME TInv, [Next]_vars PROVE TInv'
    OBVIOUS
  <2>1. ASSUME NEW t \in CycleThreads, BeginCycle(t) PROVE TInv'
    BY <2>1, BeginType DEF Thread
  <2>2. ASSUME NEW t \in SubmitThreads, NEW w \in Wake, ManualSubmit(t, w) PROVE TInv'
    BY <2>2, BeginSubmitType DEF Thread
  <2>3. ASSUME NEW t \in Thread, WakeStep(t) PROVE TInv'
    BY <2>3, BeginType, ConsumeType, BranchType, SelectType, RecordType DEF WakeStep
  <2>4. ASSUME NEW t \in Thread, SubmitStep(t) PROVE TInv'
    <3>1. CASE AutoSubmit(t)
      BY <3>1, MyWake, BeginSubmitType DEF AutoSubmit, SubmitSteps
    <3> QED
      BY <2>4, <3>1, SubmitType, StoreType DEF SubmitStep
  <2>5. CASE UNCHANGED vars
    BY <2>5 DEF vars, pool, tables, exchange, TInv, ThreadsOK, StepOK, SharedOK
  <2> QED
    BY <2>1, <2>2, <2>3, <2>4, <2>5, RaiseType, EnvironmentType DEF Next, ThreadNext
<1> QED
  BY <1>1, <1>2, PTL DEF Spec

\* Every row, order, position and thread keeps the type the code gives it.
THEOREM TypeCorrect == Spec => []TypeOK
  BY TypesHold, TInvTypes, PTL

-----------------------------------------------------------------------------
(* Nothing is skipped.  Whatever a thread believes the cursor to be, all the *)
(* opportunities up to there were observed; so were those up to a recorded   *)
(* entry, which a duplicate entry is measured against.  This needs no bound  *)
(* on the threads, and survives cursors that are written back.               *)

Seen(n, seen) == \A s \in Signal : s <= n => s \in seen

SkipInv ==
  /\ Seen(cursor, observed)
  /\ \A t \in Thread :
       /\ Seen(my[t].cursor, observed)
       /\ pc[t] = "persist" => Seen(NextSignal(t), observed)
  /\ \A w \in Wake : Entry(w) => Seen(wakes[w].signal, observed)

LEMMA SeenNothing == \A seen : Seen(0, seen)
  BY LiveRouteAssumption DEF Seen, Signal

LEMMA SeenMore ==
  ASSUME NEW n, NEW seen, NEW more, seen \subseteq more, Seen(n, seen)
  PROVE  Seen(n, more)
  BY DEF Seen

LEMMA SeenNext ==
  ASSUME NEW n \in Nat, NEW seen, NEW more, seen \cup {n + 1} \subseteq more, Seen(n, seen)
  PROVE  Seen(n + 1, more)
<1>1. \A s \in Signal : s <= n + 1 => s <= n \/ s = n + 1
  BY LiveRouteAssumption DEF Signal
<1> QED
  BY <1>1 DEF Seen

\* A thread moves on with the cursor it had, the route's, or none.
LEMMA SkipMove ==
  ASSUME TInv, SkipInv, NEW t \in Thread, NEW step, step # "persist", Goto(t, step),
         \/ UNCHANGED my
         \/ \E local \in Local : Set(t, local) /\ local.cursor \in {0, cursor, my[t].cursor},
         UNCHANGED <<cursor, observed, wakes>>
  PROVE  SkipInv'
<1>1. \A u \in Thread : my'[u].cursor \in {0, cursor, my[u].cursor}
  BY DEF Set, TInv, ThreadsOK
<1>2. \A u \in Thread : Seen(my'[u].cursor, observed)
  BY <1>1, SeenNothing DEF SkipInv
<1>3. \A u \in Thread : pc'[u] = "persist" => u # t /\ pc[u] = "persist"
  BY DEF Goto, TInv, ThreadsOK
<1>4. \A u \in Thread : u # t => my'[u] = my[u]
  BY DEF Set, TInv, ThreadsOK
<1>5. \A u \in Thread : pc'[u] = "persist" => Seen(my'[u].cursor + 1, observed)
  BY <1>3, <1>4 DEF SkipInv, NextSignal
<1> QED
  BY <1>2, <1>5 DEF SkipInv, NextSignal, Entry

LEMMA SkipEnd ==
  ASSUME TInv, SkipInv, NEW t \in Thread, End(t), UNCHANGED <<cursor, observed, wakes>>
  PROVE  SkipInv'
<1>1. Nothing \in Local /\ Nothing.cursor = 0
  BY NothingType DEF Nothing
<1> QED
  BY <1>1, SkipMove DEF End

\* The thread decides about the next opportunity and is about to persist that.
LEMMA SkipObserve ==
  ASSUME TInv, SkipInv, NEW t \in Thread, Goto(t, "persist"),
         NEW local, Set(t, local), local.cursor = my[t].cursor,
         observed \subseteq observed', Seen(NextSignal(t), observed'),
         UNCHANGED <<cursor, wakes>>
  PROVE  SkipInv'
<1>1. \A u \in Thread : my'[u].cursor = my[u].cursor
  BY DEF Set, TInv, ThreadsOK
<1>2. \A u \in Thread : u # t => pc'[u] = pc[u]
  BY DEF Goto, TInv, ThreadsOK
<1>3. Seen(cursor, observed') /\ \A u \in Thread : Seen(my[u].cursor, observed')
  BY SeenMore DEF SkipInv
<1>4. \A w \in Wake : Entry(w) => Seen(wakes[w].signal, observed')
  BY SeenMore DEF SkipInv
<1>5. \A u \in Thread : pc'[u] = "persist" => Seen(my[u].cursor + 1, observed')
  BY <1>2, SeenMore DEF SkipInv, NextSignal
<1> QED
  BY <1>1, <1>3, <1>4, <1>5 DEF SkipInv, NextSignal, Entry

LEMMA SkipBegin ==
  ASSUME TInv, SkipInv, NEW t \in Thread,
         BeginCycle(t) \/ TakeSnapshot(t) \/ LoadPending(t) \/ Branch(t)
  PROVE  SkipInv'
<1>0. my[t] \in Local /\ Nothing \in Local /\ cursor \in 0 .. MaxSignals /\ stale \in 0 .. MaxSignals
      /\ latest \in 0 .. MaxSignals
  BY NothingType DEF TInv, ThreadsOK, SharedOK
<1>1. CASE BeginCycle(t)
  <2>1. [Nothing EXCEPT !.cursor = cursor, !.stale = stale] \in Local
        /\ [Nothing EXCEPT !.cursor = cursor, !.stale = stale].cursor = cursor
    BY <1>0 DEF Local
  <2> QED
    BY <1>1, <2>1, SkipMove DEF BeginCycle, tables
<1>2. CASE TakeSnapshot(t)
  <2>1. PICK aged \in SUBSET Working :
          Set(t, [my[t] EXCEPT !.position = position, !.protected = protected,
                               !.fresh = (aged # Working), !.aged = aged])
    BY <1>2 DEF TakeSnapshot
  <2> DEFINE local == [my[t] EXCEPT !.position = position, !.protected = protected,
                                    !.fresh = (aged # Working), !.aged = aged]
  <2>2. aged \in SUBSET Wake /\ position \in Episode \cup {None} /\ protected \in BOOLEAN
    BY DEF Working, TInv, SharedOK
  <2>3. local \in Local /\ local.cursor = my[t].cursor
    BY <1>0, <2>2 DEF Local
  <2> QED
    BY <1>2, <2>1, <2>3, SkipMove DEF TakeSnapshot, tables
<1>3. CASE LoadPending(t)
  <2>1. PICK local \in Local : Set(t, local) /\ local.cursor = my[t].cursor
    <3>0. my[t].cursor \in 0 .. MaxSignals
      BY <1>0 DEF Local
    <3>1. ASSUME NEW upto \in 0 .. MaxSignals
          PROVE  [my[t] EXCEPT !.upto = upto] \in Local
                 /\ [my[t] EXCEPT !.upto = upto].cursor = my[t].cursor
      BY <1>0 DEF Local
    <3>2. [my[t] EXCEPT !.upto = my[t].cursor, !.missed = TRUE] \in Local
          /\ [my[t] EXCEPT !.upto = my[t].cursor, !.missed = TRUE].cursor = my[t].cursor
      BY <1>0 DEF Local
    <3> QED
      BY <1>0, <1>3, <3>0, <3>1, <3>2 DEF LoadPending
  <2> QED
    BY <1>3, <2>1, SkipMove DEF LoadPending, tables
<1>4. CASE Branch(t)
  <2>1. Decided(t, "none") \in Local /\ Decided(t, "none").cursor = my[t].cursor
    BY DecidedType DEF Kind
  <2> QED
    BY <1>4, <2>1, SkipMove DEF Branch, tables
<1> QED
  BY <1>1, <1>2, <1>3, <1>4

LEMMA SkipConsume ==
  ASSUME TInv, SkipInv, NEW t \in Thread, ConsumeExpired(t) \/ ConsumeBlocked(t)
  PROVE  SkipInv'
<1>0. my[t] \in Local /\ my[t].cursor \in Nat
  BY LiveRouteAssumption DEF TInv, ThreadsOK, Local
<1>1. ASSUME NEW then, Observe(t, then), UNCHANGED <<cursor, wakes>>
      PROVE  SkipInv'
  <2>1. Seen(NextSignal(t), observed')
    BY <1>0, <1>1, SeenNext DEF Observe, NextSignal, SkipInv
  <2>2. [my[t] EXCEPT !.then = then].cursor = my[t].cursor
    BY <1>0 DEF Local
  <2> QED
    BY <1>1, <2>1, <2>2, SkipObserve DEF Observe
<1>2. CASE ConsumeExpired(t)
  BY <1>1, <1>2 DEF ConsumeExpired
<1>3. CASE ConsumeBlocked(t)
  <2>1. CASE NextSignal(t) <= my[t].upto
    BY <1>1, <1>3, <2>1 DEF ConsumeBlocked
  <2>2. CASE ~ (NextSignal(t) <= my[t].upto)
    BY <1>3, <2>2, SkipMove DEF ConsumeBlocked
  <2> QED
    BY <2>1, <2>2
<1> QED
  BY <1>2, <1>3

LEMMA SkipPersist ==
  ASSUME TInv, SkipInv, NEW t \in Thread, Persist(t)
  PROVE  SkipInv'
<1>0. my[t] \in Local
  BY DEF TInv, ThreadsOK
<1>1. Seen(NextSignal(t), observed)
  BY DEF Persist, SkipInv
<1>2. my'[t].cursor = NextSignal(t) /\ \A u \in Thread : u # t => my'[u] = my[u]
  BY <1>0 DEF Persist, Set, Local, TInv, ThreadsOK
<1>3. pc'[t] # "persist" /\ \A u \in Thread : u # t => pc'[u] = pc[u]
  BY <1>0 DEF Persist, Goto, Local, TInv, ThreadsOK
<1>4. cursor' = NextSignal(t) /\ observed' = observed /\ wakes' = wakes
  BY DEF Persist
<1> QED
  BY <1>1, <1>2, <1>3, <1>4 DEF SkipInv, NextSignal, Entry

LEMMA SkipBranch ==
  ASSUME TInv, SkipInv, NEW t \in Thread, CancelRaises(t) \/ ManagePosition(t) \/ Flat(t)
  PROVE  SkipInv'
<1>1. CASE CancelRaises(t)
  BY <1>1, SkipEnd DEF CancelRaises, tables
<1>2. CASE ManagePosition(t)
  <2>1. CASE End(t)
    BY <1>2, <2>1, SkipEnd DEF ManagePosition
  <2>2. CASE (\E kind \in Kind : Set(t, Decided(t, kind))) /\ Goto(t, "blocked")
    <3>1. PICK kind \in Kind : Set(t, Decided(t, kind))
      BY <2>2
    <3>2. Decided(t, kind) \in Local /\ Decided(t, kind).cursor = my[t].cursor
      BY DecidedType
    <3> QED
      BY <1>2, <2>2, <3>1, <3>2, SkipMove DEF ManagePosition
  <2> QED
    BY <1>2, <2>1, <2>2 DEF ManagePosition
<1>3. CASE Flat(t)
  <2>1. Decided(t, "none") \in Local /\ Decided(t, "none").cursor = my[t].cursor
    BY DecidedType DEF Kind
  <2>2. PICK step \in {"blocked", "select"} : Goto(t, step)
    BY <1>3 DEF Flat
  <2>3. \A u \in Thread : my'[u].cursor = my[u].cursor
    BY <1>3, <2>1 DEF Flat, Set, TInv, ThreadsOK
  <2>4. \A u \in Thread : pc'[u] = "persist" => pc[u] = "persist"
    BY <2>2 DEF Goto, TInv, ThreadsOK
  <2>5. Seen(cursor', observed)
    BY <1>3 DEF Flat, SkipInv
  <2> QED
    BY <1>3, <2>3, <2>4, <2>5 DEF Flat, SkipInv, NextSignal, Entry
<1> QED
  BY <1>1, <1>2, <1>3

LEMMA SkipSelect ==
  ASSUME TInv, SkipInv, NEW t \in Thread, SelectNone(t) \/ SelectSkip(t) \/ SelectEntry(t)
  PROVE  SkipInv'
<1>0. my[t] \in Local /\ my[t].cursor \in Nat
  BY LiveRouteAssumption DEF TInv, ThreadsOK, Local
<1>1. CASE SelectNone(t)
  BY <1>1, SkipEnd DEF SelectNone, tables
<1>2. CASE SelectSkip(t)
  <2> DEFINE local == [my[t] EXCEPT !.then = "select", !.upto = Upto(t), !.missed = FALSE]
  <2>1. local.cursor = my[t].cursor
    BY <1>0 DEF Local
  <2>2. Seen(NextSignal(t), observed')
    BY <1>0, <1>2, SeenNext DEF SelectSkip, NextSignal, SkipInv
  <2> QED
    BY <1>2, <2>1, <2>2, SkipObserve DEF SelectSkip
<1>3. CASE SelectEntry(t)
  <2>1. PICK kind \in {"none", "ENTER"} : Set(t, [Decided(t, kind) EXCEPT !.then = "record"])
    BY <1>3 DEF SelectEntry
  <2> DEFINE local == [Decided(t, kind) EXCEPT !.then = "record"]
  <2>2. local.cursor = my[t].cursor
    BY DecidedType DEF Kind, Local
  <2>3. Seen(NextSignal(t), observed')
    <3>1. CASE EnteredBefore(NextSignal(t))
      <4>1. PICK w \in Wake : Entry(w) /\ wakes[w].signal >= NextSignal(t)
        BY <3>1 DEF EnteredBefore, Entry
      <4>2. Seen(wakes[w].signal, observed) /\ wakes[w].signal \in Nat /\ NextSignal(t) \in Nat
        BY <1>0, <4>1, LiveRouteAssumption
           DEF SkipInv, TInv, SharedOK, Intent, Signal, None, NextSignal
      <4>3. Seen(NextSignal(t), observed)
        BY <4>1, <4>2, LiveRouteAssumption DEF Seen, Signal
      <4> QED
        BY <1>3, <3>1, <4>3 DEF SelectEntry
    <3>2. CASE ~ EnteredBefore(NextSignal(t))
      BY <1>0, <1>3, <3>2, SeenNext DEF SelectEntry, NextSignal, SkipInv
    <3> QED
      BY <3>1, <3>2
  <2> QED
    BY <1>3, <2>1, <2>2, <2>3, SkipObserve DEF SelectEntry
<1> QED
  BY <1>1, <1>2, <1>3

LEMMA SkipRecord ==
  ASSUME TInv, SkipInv, NEW t \in Thread, RecordNothing(t) \/ RecordWake(t) \/ RecordRaises(t)
  PROVE  SkipInv'
<1>1. CASE RecordNothing(t) \/ RecordRaises(t)
  BY <1>1, SkipEnd DEF RecordNothing, RecordRaises, tables
<1>2. CASE RecordWake(t)
  <2>1. PICK w \in Wake :
          /\ wakes' = [wakes EXCEPT ![w] = [kind |-> my[t].kind, status |-> "intent_only",
                         signal |-> IF my[t].kind = "ENTER" THEN my[t].cursor ELSE None]]
          /\ \/ Set(t, [Nothing EXCEPT !.wake = w]) /\ Goto(t, "submit")
             \/ SwitchesTurn /\ End(t)
    BY <1>2 DEF RecordWake
  <2>2. [Nothing EXCEPT !.wake = w].cursor = 0 /\ Nothing.cursor = 0
    BY DEF Nothing
  <2>3. \A u \in Thread : my'[u].cursor \in {0, my[u].cursor}
    BY <2>1, <2>2 DEF Set, End, TInv, ThreadsOK
  <2>4. \A u \in Thread : pc'[u] = "persist" => u # t /\ pc[u] = "persist"
    BY <2>1 DEF Goto, End, TInv, ThreadsOK
  <2>5. \A u \in Thread : u # t => my'[u] = my[u]
    BY <2>1 DEF Set, End, TInv, ThreadsOK
  <2>6. \A v \in Wake : wakes'[v].kind = "ENTER" =>
          \/ Entry(v) /\ wakes'[v] = wakes[v]
          \/ wakes'[v].signal = my[t].cursor
    BY <2>1 DEF Entry, TInv, SharedOK
  <2>7. cursor' = cursor /\ observed' = observed
    BY <1>2 DEF RecordWake
  <2>8. \A v \in Wake : wakes'[v].kind = "ENTER" => Seen(wakes'[v].signal, observed)
    BY <2>6 DEF SkipInv
  <2>9. \A u \in Thread : Seen(my'[u].cursor, observed)
    BY <2>3, SeenNothing DEF SkipInv
  <2>10. \A u \in Thread : pc'[u] = "persist" => Seen(my'[u].cursor + 1, observed)
    BY <2>4, <2>5 DEF SkipInv, NextSignal
  <2> QED
    BY <2>7, <2>8, <2>9, <2>10 DEF SkipInv, NextSignal, Entry
<1> QED
  BY <1>1, <1>2

LEMMA SkipSubmit ==
  ASSUME TInv, SkipInv, NEW t \in Thread,
         (\E w \in Wake : ManualSubmit(t, w)) \/ SubmitStep(t) \/ Raise(t)
  PROVE  SkipInv'
<1>0. my[t] \in Local /\ Nothing \in Local /\ Nothing.cursor = 0
  BY NothingType DEF TInv, ThreadsOK, Nothing
<1>1. ASSUME NEW w \in Wake, SubmitOrders(t, w), UNCHANGED <<cursor, observed, wakes>>
      PROVE  SkipInv'
  <2>1. [Nothing EXCEPT !.wake = w] \in Local /\ [Nothing EXCEPT !.wake = w].cursor = 0
    BY <1>0 DEF Local
  <2> QED
    BY <1>1, <2>1, SkipMove DEF SubmitOrders
<1>2. CASE \E w \in Wake : ManualSubmit(t, w)
  BY <1>1, <1>2 DEF ManualSubmit, tables
<1>3. CASE AutoSubmit(t)
  <2>1. my[t].wake \in Wake
    BY <1>3, MyWake DEF AutoSubmit, SubmitSteps
  <2> QED
    BY <1>1, <1>3, <2>1, SkipEnd DEF AutoSubmit, tables
<1>4. CASE CancelProtection(t) \/ Place(t) \/ PostFill(t) \/ EnsureProtection(t)
  <2>1. [my[t] EXCEPT !.failed = TRUE] \in Local
        /\ [my[t] EXCEPT !.failed = TRUE].cursor = my[t].cursor
    BY <1>0 DEF Local
  <2>2. \/ UNCHANGED my
        \/ Set(t, [my[t] EXCEPT !.failed = TRUE])
    BY <1>4 DEF CancelProtection, Place, PostFill, EnsureProtection, FailCall
  <2>3. \E step \in {"place", "store", "post_fill"} : Goto(t, step)
    BY <1>4 DEF CancelProtection, Place, PostFill, EnsureProtection, FailCall
  <2>4. UNCHANGED <<cursor, observed, wakes>>
    BY <1>4 DEF CancelProtection, Place, PostFill, EnsureProtection, tables
  <2> QED
    BY <2>1, <2>2, <2>3, <2>4, SkipMove
<1>5. CASE StoreResult(t)
  <2>1. my[t].wake \in Wake
    BY <1>5, MyWake DEF StoreResult, SubmitSteps
  <2>2. \A w \in Wake : wakes'[w].kind = wakes[w].kind /\ wakes'[w].signal = wakes[w].signal
    BY <1>5, <2>1 DEF StoreResult, TInv, SharedOK, Intent
  <2>3. \A u \in Thread : my'[u].cursor \in {0, my[u].cursor}
    BY <1>0, <1>5 DEF StoreResult, End, Set, TInv, ThreadsOK
  <2>4. \A u \in Thread : pc'[u] = "persist" => u # t /\ pc[u] = "persist"
    BY <1>5 DEF StoreResult, End, Goto, TInv, ThreadsOK
  <2>5. \A u \in Thread : u # t => my'[u] = my[u]
    BY <1>5 DEF StoreResult, End, Set, TInv, ThreadsOK
  <2>6. \A u \in Thread : Seen(my'[u].cursor, observed)
    BY <2>3, SeenNothing DEF SkipInv
  <2>7. \A u \in Thread : pc'[u] = "persist" => Seen(my'[u].cursor + 1, observed)
    BY <2>4, <2>5 DEF SkipInv, NextSignal
  <2> QED
    BY <1>5, <2>2, <2>6, <2>7 DEF StoreResult, SkipInv, NextSignal, Entry
<1>6. CASE CreateOwner(t) \/ Raise(t)
  BY <1>6, SkipEnd DEF CreateOwner, Raise, tables
<1> QED
  BY <1>2, <1>3, <1>4, <1>5, <1>6 DEF SubmitStep

LEMMA SkipEnvironment ==
  ASSUME TInv, SkipInv, Environment
  PROVE  SkipInv'
<1>1. cursor' = cursor /\ observed' = observed /\ wakes' = wakes
  BY DEF Environment, NewSignal, GraceEnds, FillEntry, FillExit, ExchangeCloses,
         ManualPosition, Crash, tables
<1>2. CASE Crash
  <2>1. \A u \in Thread : my'[u].cursor = 0 /\ pc'[u] # "persist"
    BY <1>2 DEF Crash, Nothing
  <2> QED
    BY <1>1, <2>1, SeenNothing DEF SkipInv, Entry
<1>3. CASE UNCHANGED <<pc, my>>
  BY <1>1, <1>3 DEF SkipInv, NextSignal, Entry
<1> QED
  BY <1>2, <1>3 DEF Environment, NewSignal, GraceEnds, FillEntry, FillExit, ExchangeCloses,
                    ManualPosition

THEOREM SkipInvariance == Spec => []SkipInv
<1>1. Init => SkipInv
  BY SeenNothing DEF Init, SkipInv, Nothing, NoIntent, Entry
<1>2. TInv /\ SkipInv /\ [Next]_vars => SkipInv'
  <2> SUFFICES ASSUME TInv, SkipInv, [Next]_vars PROVE SkipInv'
    OBVIOUS
  <2>1. ASSUME NEW t \in Thread, WakeStep(t) PROVE SkipInv'
    BY <2>1, SkipBegin, SkipConsume, SkipPersist, SkipBranch, SkipSelect, SkipRecord
       DEF WakeStep
  <2>2. CASE UNCHANGED vars
    BY <2>2 DEF vars, tables, SkipInv, NextSignal, Entry
  <2> QED
    BY <2>1, <2>2, SkipBegin, SkipSubmit, SkipEnvironment DEF Next, ThreadNext, Thread
<1> QED
  BY <1>1, <1>2, TypesHold, PTL DEF Spec

\* However cycles, crashes and stale writes of the cursor interleave, the cursor
\* has no unobserved opportunity behind it.
THEOREM NothingSkipped == Spec => []NothingSkippedSilently
<1>1. SkipInv => NothingSkippedSilently
  BY DEF SkipInv, Seen, NothingSkippedSilently
<1> QED
  BY <1>1, SkipInvariance, PTL

-----------------------------------------------------------------------------
(* Entered once.  Recorded entries are for different opportunities, because  *)
(* an entry is decided only beyond all of them and, as long as one thread    *)
(* runs the cycles, nobody records another in between; a wake's order is     *)
(* accepted only while the exchange has not seen its client order id.        *)

EntriesUpTo(n) == \A w \in Wake : Entry(w) => wakes[w].signal <= n
EntriesBefore(n) == \A w \in Wake : Entry(w) => wakes[w].signal < n

EntryPending(t) ==
  \/ pc[t] = "persist" /\ my[t].then = "record" /\ EntriesUpTo(my[t].cursor)
  \/ pc[t] = "record" /\ EntriesBefore(my[t].cursor)

OnceInv ==
  /\ \A t \in SubmitThreads : pc[t] \in {"idle"} \cup SubmitSteps
  /\ \A t \in CycleThreads : my[t].kind = "ENTER" => EntryPending(t)
  /\ \A v, w \in Wake :
       Entry(v) /\ Entry(w) /\ wakes[v].signal = wakes[w].signal => v = w

\* Only thread t moves.
OnlyMoves(t) ==
  \A u \in Thread : u # t => pc'[u] = pc[u] /\ my'[u] = my[u]

SameEntries ==
  \A w \in Wake : wakes'[w].kind = wakes[w].kind /\ wakes'[w].signal = wakes[w].signal

LEMMA MovesOnly ==
  ASSUME TInv, NEW t \in Thread, NEW step, Goto(t, step),
         UNCHANGED my \/ \E local : Set(t, local)
  PROVE  OnlyMoves(t) /\ pc'[t] = step
  BY DEF TInv, ThreadsOK, Goto, Set, OnlyMoves

\* A step that decides no entry.
LEMMA OnceMove ==
  ASSUME TInv, OnceInv, NEW t \in Thread, OnlyMoves(t), SameEntries,
         my'[t].kind # "ENTER" \/ (my'[t].kind = my[t].kind /\ pc[t] \notin {"persist", "record"}),
         t \in SubmitThreads => pc'[t] \in {"idle"} \cup SubmitSteps
  PROVE  OnceInv'
<1>1. \A v, w \in Wake :
        wakes'[v].kind = "ENTER" /\ wakes'[w].kind = "ENTER"
          /\ wakes'[v].signal = wakes'[w].signal => v = w
  BY DEF SameEntries, OnceInv, Entry
<1>2. \A u \in SubmitThreads : pc'[u] \in {"idle"} \cup SubmitSteps
  BY DEF OnlyMoves, OnceInv, Thread
<1>3. my'[t].kind = "ENTER" => t \notin CycleThreads
  BY DEF OnceInv, EntryPending
<1>4. \A u \in CycleThreads : my'[u].kind = "ENTER" =>
        u # t /\ pc'[u] = pc[u] /\ my'[u] = my[u] /\ EntryPending(u)
  BY <1>3 DEF OnlyMoves, OnceInv, Thread
<1>5. \A u \in CycleThreads : my'[u].kind = "ENTER" => EntryPending(u)'
  BY <1>4 DEF EntryPending, EntriesUpTo, EntriesBefore, SameEntries, Entry
<1> QED
  BY <1>1, <1>2, <1>5 DEF OnceInv, Entry

LEMMA OnceEnd ==
  ASSUME TInv, OnceInv, NEW t \in Thread, End(t), SameEntries
  PROVE  OnceInv'
<1>1. OnlyMoves(t) /\ pc'[t] = "idle"
  BY MovesOnly DEF End
<1>2. my'[t].kind = "none"
  BY DEF End, Set, Nothing, TInv, ThreadsOK
<1> QED
  BY <1>1, <1>2, OnceMove

LEMMA OnceWake ==
  ASSUME TInv, OnceInv, NEW t \in Thread,
         \/ BeginCycle(t) \/ TakeSnapshot(t) \/ LoadPending(t) \/ ConsumeExpired(t)
         \/ Branch(t) \/ CancelRaises(t) \/ ManagePosition(t) \/ ConsumeBlocked(t)
         \/ Flat(t) \/ SelectNone(t) \/ SelectSkip(t),
         BeginCycle(t) => t \in CycleThreads
  PROVE  OnceInv'
<1>0. my[t] \in Local /\ Nothing \in Local /\ Nothing.kind = "none"
  BY NothingType DEF TInv, ThreadsOK, Nothing
<1>1. SameEntries
  BY DEF SameEntries, BeginCycle, TakeSnapshot, LoadPending, ConsumeExpired, Branch,
         CancelRaises, ManagePosition, ConsumeBlocked, Flat, SelectNone, SelectSkip, tables
<1>2. t \notin SubmitThreads
  <2>1. CASE BeginCycle(t)
    BY <2>1, LiveRouteAssumption
  <2>2. CASE ~ BeginCycle(t)
    <3>1. pc[t] \in {"snapshot", "load", "expired", "manage", "flat", "blocked", "select"}
      BY <2>2 DEF TakeSnapshot, LoadPending, ConsumeExpired, Branch,
           CancelRaises, ManagePosition, ConsumeBlocked, Flat, SelectNone, SelectSkip
    <3> QED
      BY <3>1 DEF OnceInv, SubmitSteps
  <2> QED
    BY <2>1, <2>2
<1>3. pc[t] \notin {"persist", "record"}
  BY DEF BeginCycle, TakeSnapshot, LoadPending, ConsumeExpired, Branch,
         CancelRaises, ManagePosition, ConsumeBlocked, Flat, SelectNone, SelectSkip
<1>4. \A kind \in Kind : Decided(t, kind).kind = kind
  BY DecidedType
<1>6. OnlyMoves(t) /\ (my'[t].kind # "ENTER" \/ my'[t].kind = my[t].kind)
  <2>1. CASE BeginCycle(t)
    BY <1>0, <2>1, MovesOnly DEF BeginCycle, Set, TInv, ThreadsOK, Local
  <2>2. CASE TakeSnapshot(t)
    <3>1. PICK aged \in SUBSET Working :
            Set(t, [my[t] EXCEPT !.position = position, !.protected = protected,
                                 !.fresh = (aged # Working), !.aged = aged])
      BY <2>2 DEF TakeSnapshot
    <3>2. OnlyMoves(t)
      BY <2>2, <3>1, MovesOnly DEF TakeSnapshot
    <3> QED
      BY <1>0, <3>1, <3>2 DEF Set, TInv, ThreadsOK, Local
  <2>3. CASE LoadPending(t)
    <3>1. PICK upto \in {latest, my[t].cursor} :
            \/ Set(t, [my[t] EXCEPT !.upto = upto])
            \/ Set(t, [my[t] EXCEPT !.upto = my[t].cursor, !.missed = TRUE])
      BY <2>3 DEF LoadPending
    <3>2. OnlyMoves(t)
      BY <2>3, <3>1, MovesOnly DEF LoadPending
    <3>3. CASE Set(t, [my[t] EXCEPT !.upto = upto])
      BY <1>0, <3>2, <3>3 DEF Set, TInv, ThreadsOK, Local
    <3>4. CASE Set(t, [my[t] EXCEPT !.upto = my[t].cursor, !.missed = TRUE])
      BY <1>0, <3>2, <3>4 DEF Set, TInv, ThreadsOK, Local
    <3> QED
      BY <3>1, <3>3, <3>4
  <2>4. CASE ConsumeExpired(t) \/ ConsumeBlocked(t)
    BY <1>0, <2>4, MovesOnly DEF ConsumeExpired, ConsumeBlocked, Observe, Set, TInv, ThreadsOK, Local
  <2>5. CASE Branch(t) \/ Flat(t)
    BY <1>0, <1>4, <2>5, MovesOnly DEF Branch, Flat, Set, TInv, ThreadsOK, Kind
  <2>6. CASE CancelRaises(t) \/ SelectNone(t)
    BY <1>0, <2>6, MovesOnly DEF CancelRaises, SelectNone, End, Set, TInv, ThreadsOK
  <2>7. CASE ManagePosition(t)
    <3>1. CASE End(t)
      BY <1>0, <3>1, MovesOnly DEF End, Set, TInv, ThreadsOK
    <3>2. CASE (\E kind \in Kind \ {"ENTER"} : Set(t, Decided(t, kind))) /\ Goto(t, "blocked")
      BY <1>4, <3>2, MovesOnly DEF Set, TInv, ThreadsOK
    <3> QED
      BY <2>7, <3>1, <3>2 DEF ManagePosition
  <2>8. CASE SelectSkip(t)
    BY <1>0, <2>8, MovesOnly DEF SelectSkip, Set, TInv, ThreadsOK, Local
  <2> QED
    BY <2>1, <2>2, <2>3, <2>4, <2>5, <2>6, <2>7, <2>8
<1> QED
  BY <1>1, <1>2, <1>3, <1>6, OnceMove

LEMMA OncePersist ==
  ASSUME TInv, OnceInv, NEW t \in Thread, Persist(t)
  PROVE  OnceInv'
<1>0. my[t] \in Local
  BY DEF TInv, ThreadsOK
<1>1. OnlyMoves(t) /\ pc'[t] = my[t].then
  BY MovesOnly DEF Persist
<1>2. t \notin SubmitThreads
  BY DEF Persist, OnceInv, SubmitSteps
<1>3. my'[t].kind = my[t].kind /\ my'[t].cursor = my[t].cursor + 1
  BY <1>0 DEF Persist, Set, NextSignal, Local, TInv, ThreadsOK
<1>4. SameEntries
  BY DEF Persist, SameEntries
<1>5. CASE my[t].kind # "ENTER" \/ t \notin CycleThreads
  BY <1>1, <1>2, <1>3, <1>4, <1>5, OnceMove DEF Thread
<1>6. CASE my[t].kind = "ENTER" /\ t \in CycleThreads
  <2>1. pc'[t] = "record" /\ EntriesUpTo(my[t].cursor)
    BY <1>1, <1>6 DEF Persist, OnceInv, EntryPending
  <2>2. my[t].cursor \in Nat /\ \A w \in Wake : wakes[w].signal \in Nat
    BY <1>0, LiveRouteAssumption DEF Local, TInv, SharedOK, Intent, Signal, None
  <2>3. \A w \in Wake : wakes'[w].kind = "ENTER" => wakes'[w].signal < my'[t].cursor
    BY <1>3, <1>4, <2>1, <2>2 DEF EntriesUpTo, Entry, SameEntries
  <2>4. EntryPending(t)'
    BY <2>1, <2>3 DEF EntryPending, EntriesBefore, Entry
  <2>5. \A u \in CycleThreads : u # t /\ my'[u].kind = "ENTER" => EntryPending(u)'
    BY <1>1, <1>4
       DEF OnlyMoves, OnceInv, EntryPending, EntriesUpTo, EntriesBefore, SameEntries, Entry, Thread
  <2>6. \A u \in SubmitThreads : pc'[u] \in {"idle"} \cup SubmitSteps
    BY <1>1, <1>2 DEF OnlyMoves, OnceInv, Thread
  <2>7. \A v, w \in Wake :
          wakes'[v].kind = "ENTER" /\ wakes'[w].kind = "ENTER"
            /\ wakes'[v].signal = wakes'[w].signal => v = w
    BY <1>4 DEF SameEntries, OnceInv, Entry
  <2> QED
    BY <2>4, <2>5, <2>6, <2>7 DEF OnceInv, Entry
<1> QED
  BY <1>5, <1>6

\* _has_live_entry_for_signal and the timestamp it compares hold off the entry
\* unless the opportunity lies beyond every recorded one.
LEMMA OnceSelect ==
  ASSUME TInv, OnceInv, NEW t \in Thread, SelectEntry(t)
  PROVE  OnceInv'
<1>0. my[t] \in Local
  BY DEF TInv, ThreadsOK
<1>1. OnlyMoves(t) /\ pc'[t] = "persist"
  BY MovesOnly DEF SelectEntry
<1>2. t \notin SubmitThreads
  BY DEF SelectEntry, OnceInv, SubmitSteps
<1>3. SameEntries
  BY DEF SelectEntry, SameEntries
<1>4. PICK kind \in {"none", "ENTER"} :
        /\ Set(t, [Decided(t, kind) EXCEPT !.then = "record"])
        /\ kind = "ENTER" => ~ EnteredBefore(NextSignal(t))
  BY DEF SelectEntry
<1>5. my'[t].kind = kind /\ my'[t].cursor = my[t].cursor /\ my'[t].then = "record"
  <2>1. Decided(t, kind) \in Local /\ Decided(t, kind).cursor = my[t].cursor
        /\ Decided(t, kind).kind = kind
    BY DecidedType DEF Kind
  <2> QED
    BY <1>4, <2>1 DEF Set, TInv, ThreadsOK, Local
<1>6. CASE kind = "none"
  BY <1>1, <1>2, <1>3, <1>5, <1>6, OnceMove
<1>7. CASE kind = "ENTER"
  <2>1. my[t].cursor \in Nat /\ \A w \in Wake : wakes[w].signal \in Nat
    BY <1>0, LiveRouteAssumption DEF Local, TInv, SharedOK, Intent, Signal, None
  <2>2. \A w \in Wake : Entry(w) => ~ (wakes[w].signal >= NextSignal(t))
    BY <1>4, <1>7 DEF EnteredBefore, Entry
  <2>3. EntriesUpTo(my[t].cursor)
    BY <2>1, <2>2 DEF EntriesUpTo, NextSignal
  <2>4. EntryPending(t)'
    BY <1>1, <1>3, <1>5, <2>3 DEF EntryPending, EntriesUpTo, SameEntries, Entry
  <2>5. \A u \in CycleThreads : u # t /\ my'[u].kind = "ENTER" => EntryPending(u)'
    BY <1>1, <1>3
       DEF OnlyMoves, OnceInv, EntryPending, EntriesUpTo, EntriesBefore, SameEntries, Entry, Thread
  <2>6. \A u \in SubmitThreads : pc'[u] \in {"idle"} \cup SubmitSteps
    BY <1>1, <1>2 DEF OnlyMoves, OnceInv, Thread
  <2>7. \A v, w \in Wake :
          wakes'[v].kind = "ENTER" /\ wakes'[w].kind = "ENTER"
            /\ wakes'[v].signal = wakes'[w].signal => v = w
    BY <1>3 DEF SameEntries, OnceInv, Entry
  <2> QED
    BY <2>4, <2>5, <2>6, <2>7 DEF OnceInv, Entry
<1> QED
  BY <1>6, <1>7

LEMMA OnceRecord ==
  ASSUME TInv, OnceInv, \A a, b \in CycleThreads : a = b,
         NEW t \in Thread, RecordNothing(t) \/ RecordWake(t) \/ RecordRaises(t)
  PROVE  OnceInv'
<1>1. CASE RecordNothing(t) \/ RecordRaises(t)
  BY <1>1, OnceEnd DEF RecordNothing, RecordRaises, SameEntries, tables
<1>2. CASE RecordWake(t)
  <2>0. my[t] \in Local /\ t \notin SubmitThreads /\ t \in CycleThreads
    BY <1>2 DEF RecordWake, OnceInv, SubmitSteps, TInv, ThreadsOK, Thread
  <2>1. PICK w \in Wake :
          /\ Free(w)
          /\ wakes' = [wakes EXCEPT ![w] = [kind |-> my[t].kind, status |-> "intent_only",
                         signal |-> IF my[t].kind = "ENTER" THEN my[t].cursor ELSE None]]
          /\ \/ Set(t, [Nothing EXCEPT !.wake = w]) /\ Goto(t, "submit")
             \/ SwitchesTurn /\ End(t)
    BY <1>2 DEF RecordWake
  <2>2. OnlyMoves(t) /\ my'[t].kind = "none"
    BY <2>1, MovesOnly DEF End, Set, Nothing, TInv, ThreadsOK
  <2>3. \A u \in CycleThreads : my'[u].kind # "ENTER"
    BY <2>0, <2>2
  <2>4. \A u \in SubmitThreads : pc'[u] \in {"idle"} \cup SubmitSteps
    BY <2>0, <2>2 DEF OnlyMoves, OnceInv, Thread
  <2>5. \A v \in Wake : v # w => wakes'[v] = wakes[v]
    BY <2>1 DEF TInv, SharedOK
  <2>6. wakes'[w].kind = "ENTER" =>
          wakes'[w].signal = my[t].cursor /\ EntriesBefore(my[t].cursor)
    BY <1>2, <2>0, <2>1 DEF RecordWake, OnceInv, EntryPending, TInv, SharedOK
  <2>7. my[t].cursor \in Nat /\ \A v \in Wake : wakes[v].signal \in Nat
    BY <2>0, LiveRouteAssumption DEF Local, TInv, SharedOK, Intent, Signal, None
  <2>8. \A v \in Wake : v # w /\ wakes'[v].kind = "ENTER" /\ wakes'[w].kind = "ENTER"
          => wakes'[v].signal # wakes'[w].signal
    BY <2>5, <2>6, <2>7 DEF EntriesBefore, Entry
  <2>9. \A u, v \in Wake :
          wakes'[u].kind = "ENTER" /\ wakes'[v].kind = "ENTER"
            /\ wakes'[u].signal = wakes'[v].signal => u = v
    BY <2>5, <2>8 DEF OnceInv, Entry
  <2> QED
    BY <2>3, <2>4, <2>9 DEF OnceInv, Entry
<1> QED
  BY <1>1, <1>2

LEMMA OnceSubmit ==
  ASSUME TInv, OnceInv, NEW t \in Thread,
         (\E w \in Wake : ManualSubmit(t, w)) \/ SubmitStep(t) \/ Raise(t)
  PROVE  OnceInv'
<1>0. my[t] \in Local /\ Nothing \in Local /\ Nothing.kind = "none"
  BY NothingType DEF TInv, ThreadsOK, Nothing
<1>1. ASSUME NEW w \in Wake, SubmitOrders(t, w), UNCHANGED wakes
      PROVE  OnceInv'
  <2>1. OnlyMoves(t) /\ pc'[t] \in SubmitSteps
    BY <1>1, MovesOnly DEF SubmitOrders, SubmitSteps
  <2>2. my'[t].kind = "none"
    BY <1>0, <1>1 DEF SubmitOrders, Set, TInv, ThreadsOK, Local
  <2> QED
    BY <1>1, <2>1, <2>2, OnceMove DEF SameEntries
<1>2. CASE \E w \in Wake : ManualSubmit(t, w)
  BY <1>1, <1>2 DEF ManualSubmit, tables
<1>3. CASE AutoSubmit(t)
  <2>1. my[t].wake \in Wake
    BY <1>3, MyWake DEF AutoSubmit, SubmitSteps
  <2> QED
    BY <1>1, <1>3, <2>1, OnceEnd DEF AutoSubmit, SameEntries, tables
<1>4. CASE CancelProtection(t) \/ Place(t) \/ PostFill(t) \/ EnsureProtection(t)
  <2>1. UNCHANGED my \/ Set(t, [my[t] EXCEPT !.failed = TRUE])
    BY <1>4 DEF CancelProtection, Place, PostFill, EnsureProtection, FailCall
  <2>2. PICK step \in {"place", "store", "post_fill"} : Goto(t, step)
    BY <1>4 DEF CancelProtection, Place, PostFill, EnsureProtection, FailCall
  <2>3. OnlyMoves(t) /\ pc'[t] \in SubmitSteps
    BY <2>1, <2>2, MovesOnly DEF SubmitSteps
  <2>4. my'[t].kind = my[t].kind
    BY <1>0, <2>1 DEF Set, TInv, ThreadsOK, Local
  <2>5. pc[t] \notin {"persist", "record"}
    BY <1>4 DEF CancelProtection, Place, PostFill, EnsureProtection
  <2>6. SameEntries
    BY <1>4 DEF CancelProtection, Place, PostFill, EnsureProtection, tables, SameEntries
  <2> QED
    BY <2>3, <2>4, <2>5, <2>6, OnceMove
<1>5. CASE StoreResult(t)
  <2>1. my[t].wake \in Wake
    BY <1>5, MyWake DEF StoreResult, SubmitSteps
  <2>2. SameEntries
    BY <1>5, <2>1 DEF StoreResult, TInv, SharedOK, Intent, SameEntries
  <2>3. CASE End(t)
    BY <2>2, <2>3, OnceEnd
  <2>4. CASE Goto(t, "create_owner") /\ UNCHANGED my
    <3>1. OnlyMoves(t) /\ pc'[t] \in SubmitSteps
      BY <2>4, MovesOnly DEF SubmitSteps
    <3> QED
      BY <1>5, <2>2, <2>4, <3>1, OnceMove DEF StoreResult
  <2> QED
    BY <1>5, <2>3, <2>4 DEF StoreResult
<1>6. CASE CreateOwner(t) \/ Raise(t)
  BY <1>6, OnceEnd DEF CreateOwner, Raise, SameEntries, tables
<1> QED
  BY <1>2, <1>3, <1>4, <1>5, <1>6 DEF SubmitStep

LEMMA OnceEnvironment ==
  ASSUME TInv, OnceInv, Environment
  PROVE  OnceInv'
<1>1. wakes' = wakes
  BY DEF Environment, NewSignal, GraceEnds, FillEntry, FillExit, ExchangeCloses,
         ManualPosition, Crash, tables
<1>2. CASE Crash
  <2>1. \A u \in Thread : my'[u].kind = "none" /\ pc'[u] = "idle"
    BY <1>2 DEF Crash, Nothing
  <2> QED
    BY <1>1, <2>1 DEF OnceInv, Entry, Thread
<1>3. CASE UNCHANGED <<pc, my>>
  BY <1>1, <1>3 DEF OnceInv, EntryPending, EntriesUpTo, EntriesBefore, Entry
<1> QED
  BY <1>2, <1>3 DEF Environment, NewSignal, GraceEnds, FillEntry, FillExit, ExchangeCloses,
                    ManualPosition

THEOREM OnceInvariance ==
  ASSUME \A a, b \in CycleThreads : a = b
  PROVE  Spec => []OnceInv
<1>1. Init => OnceInv
  BY DEF Init, OnceInv, Nothing, NoIntent, Entry, Thread
<1>2. TInv /\ OnceInv /\ [Next]_vars => OnceInv'
  <2> SUFFICES ASSUME TInv, OnceInv, [Next]_vars PROVE OnceInv'
    OBVIOUS
  <2>1. ASSUME NEW t \in Thread, WakeStep(t) PROVE OnceInv'
    <3>1. CASE BeginCycle(t)
      BY <2>1, <3>1 DEF WakeStep, BeginCycle, TakeSnapshot, LoadPending, ConsumeExpired, Branch,
           Persist, CancelRaises, ManagePosition, ConsumeBlocked, Flat, SelectNone, SelectSkip,
           SelectEntry, RecordNothing, RecordWake, RecordRaises
    <3>2. CASE ~ BeginCycle(t)
      BY <2>1, <3>2, OnceWake, OncePersist, OnceSelect, OnceRecord DEF WakeStep
    <3> QED
      BY <3>1, <3>2
  <2>2. ASSUME NEW t \in CycleThreads, BeginCycle(t) PROVE OnceInv'
    BY <2>2, OnceWake DEF Thread
  <2>3. CASE UNCHANGED vars
    BY <2>3 DEF vars, tables, OnceInv, EntryPending, EntriesUpTo, EntriesBefore, Entry
  <2> QED
    BY <2>1, <2>2, <2>3, OnceSubmit, OnceEnvironment DEF Next, ThreadNext, Thread
<1> QED
  BY <1>1, <1>2, TypesHold, PTL DEF Spec

\* Only place_swap_order makes an order working, and only one that is new.
LEMMA AcceptedNew ==
  ASSUME TInv, [Next]_vars, NEW w \in Wake, orders[w] # "working", orders'[w] = "working"
  PROVE  orders[w] = "none"
<1>0. orders \in [Wake -> {"none", "working", "done"}]
  BY DEF TInv, SharedOK
<1>1. CASE UNCHANGED orders
  BY <1>1
<1>2. ASSUME NEW t \in Thread, Place(t) PROVE orders[w] = "none"
  <2>1. my[t].wake \in Wake
    BY <1>2, MyWake DEF Place, SubmitSteps
  <2> QED
    BY <1>0, <1>2, <2>1 DEF Place, Known
<1>3. ASSUME NEW t \in Thread, CancelRaises(t) \/ ManagePosition(t) \/ Flat(t)
      PROVE  FALSE
  BY <1>0, <1>3 DEF CancelRaises, ManagePosition, Flat, CancelAged
<1>4. ASSUME NEW t \in Thread, RecordWake(t) PROVE FALSE
  BY <1>0, <1>4 DEF RecordWake
<1>5. ASSUME NEW v \in Wake, FillEntry(v) \/ FillExit(v) PROVE FALSE
  BY <1>0, <1>5 DEF FillEntry, FillExit
<1>6. ASSUME NEW t \in Thread, ThreadNext(t) PROVE orders[w] = "none"
  BY <1>1, <1>2, <1>3, <1>4, <1>6
     DEF ThreadNext, WakeStep, SubmitStep, Raise, TakeSnapshot, LoadPending, ConsumeExpired,
         Branch, Persist, ConsumeBlocked, SelectNone, SelectSkip, SelectEntry, RecordNothing,
         RecordRaises, AutoSubmit, CancelProtection, PostFill, EnsureProtection, StoreResult,
         CreateOwner, exchange
<1>7. CASE Environment
  BY <1>1, <1>5, <1>7 DEF Environment, NewSignal, GraceEnds, ExchangeCloses, ManualPosition,
                          Crash, exchange
<1> QED
  BY <1>1, <1>6, <1>7 DEF Next, BeginCycle, ManualSubmit, exchange, vars

\* With one thread running the cycles of a route, an opportunity is entered at
\* most once; the run with two such threads shows that the premise is needed.
THEOREM EntersOnce ==
  ASSUME \A a, b \in CycleThreads : a = b
  PROVE  Spec => EnteredOnce
<1> DEFINE AcceptsOnce ==
      \A w \in Wake :
        Entry(w) /\ orders[w] # "working" /\ orders'[w] = "working" =>
          \A v \in Wake : Entry(v) /\ wakes[v].signal = wakes[w].signal => orders[v] = "none"
<1>1. TInv /\ OnceInv /\ [Next]_vars => AcceptsOnce
  BY AcceptedNew DEF OnceInv
<1>2. Spec => [][AcceptsOnce]_vars
  BY <1>1, TypesHold, OnceInvariance, PTL DEF Spec
<1> QED
  BY <1>2 DEF EnteredOnce

-----------------------------------------------------------------------------
(* No late entry.  A wake that reaches the choice of an entry has consumed    *)
(* every expired opportunity it loaded, and as long as the load cannot be     *)
(* made up for later it chooses among those only.  Each thread compares with  *)
(* what it has read, so nothing here depends on the other threads.            *)

ToChoose(t) ==
  \/ pc[t] \in {"flat", "select"} /\ NextSignal(t) <= my[t].upto
  \/ pc[t] = "persist" /\ my[t].then = "select"

LateInv ==
  \A t \in Thread : ~ my[t].missed /\ (ToChoose(t) => NextSignal(t) > my[t].stale)

LEMMA LateMove ==
  ASSUME TInv, LateInv, NEW t \in Thread, OnlyMoves(t), ~ my'[t].missed,
         ToChoose(t)' => my'[t].cursor + 1 > my'[t].stale
  PROVE  LateInv'
<1>1. \A u \in Thread : u # t => pc'[u] = pc[u] /\ my'[u] = my[u]
  BY DEF OnlyMoves
<1>2. \A u \in Thread : u # t => (ToChoose(u)' <=> ToChoose(u)) /\ my'[u] = my[u]
  BY <1>1 DEF ToChoose, NextSignal
<1> QED
  BY <1>2 DEF LateInv, NextSignal

\* Only the steps up to the choice are told apart.
LEMMA LateRest ==
  ASSUME TInv, LateInv, NEW t \in Thread, OnlyMoves(t), ~ my'[t].missed,
         pc'[t] \notin {"flat", "select", "persist"}
  PROVE  LateInv'
BY LateMove DEF ToChoose

LEMMA LateEnd ==
  ASSUME TInv, LateInv, NEW t \in Thread, End(t)
  PROVE  LateInv'
<1>1. OnlyMoves(t) /\ pc'[t] = "idle"
  BY MovesOnly DEF End
<1>2. ~ my'[t].missed
  BY DEF End, Set, Nothing, TInv, ThreadsOK
<1> QED
  BY <1>1, <1>2, LateRest

LEMMA LateBegin ==
  ASSUME LoadMayFail = FALSE, TInv, LateInv, NEW t \in Thread,
         BeginCycle(t) \/ TakeSnapshot(t) \/ LoadPending(t)
  PROVE  LateInv'
<1>0. my[t] \in Local /\ ~ my[t].missed /\ Nothing \in Local /\ ~ Nothing.missed
  BY NothingType DEF TInv, ThreadsOK, LateInv, Nothing
<1>1. CASE BeginCycle(t)
  <2>1. OnlyMoves(t) /\ pc'[t] = "snapshot"
    BY <1>1, MovesOnly DEF BeginCycle
  <2>2. ~ my'[t].missed
    BY <1>0, <1>1 DEF BeginCycle, Set, TInv, ThreadsOK, Local
  <2> QED
    BY <2>1, <2>2, LateRest
<1>2. CASE TakeSnapshot(t)
  <2>1. PICK aged \in SUBSET Working :
          Set(t, [my[t] EXCEPT !.position = position, !.protected = protected,
                               !.fresh = (aged # Working), !.aged = aged])
    BY <1>2 DEF TakeSnapshot
  <2>2. OnlyMoves(t) /\ pc'[t] = "load"
    BY <1>2, <2>1, MovesOnly DEF TakeSnapshot
  <2>3. ~ my'[t].missed
    BY <1>0, <2>1 DEF Set, TInv, ThreadsOK, Local
  <2> QED
    BY <2>2, <2>3, LateRest
<1>3. CASE LoadPending(t)
  <2>1. PICK upto \in {latest, my[t].cursor} : Set(t, [my[t] EXCEPT !.upto = upto])
    BY <1>3 DEF LoadPending
  <2>2. OnlyMoves(t) /\ pc'[t] = "expired"
    BY <1>3, <2>1, MovesOnly DEF LoadPending
  <2>3. ~ my'[t].missed
    BY <1>0, <2>1 DEF Set, TInv, ThreadsOK, Local
  <2> QED
    BY <2>2, <2>3, LateRest
<1> QED
  BY <1>1, <1>2, <1>3

LEMMA LateConsume ==
  ASSUME TInv, LateInv, NEW t \in Thread,
         ConsumeExpired(t) \/ ConsumeBlocked(t) \/ Persist(t) \/ Branch(t)
  PROVE  LateInv'
<1>0. my[t] \in Local /\ ~ my[t].missed /\ my[t].cursor \in Nat /\ my[t].stale \in Nat
      /\ my[t].upto \in Nat
  BY DEF TInv, ThreadsOK, LateInv, Local
<1>1. CASE ConsumeExpired(t) \/ ConsumeBlocked(t)
  <2>1. CASE Goto(t, "record") /\ UNCHANGED my
    <3>1. OnlyMoves(t) /\ pc'[t] = "record"
      BY <2>1, MovesOnly
    <3> QED
      BY <1>0, <2>1, <3>1, LateRest
  <2>2. ASSUME NEW then \in {"expired", "blocked"}, Observe(t, then) PROVE LateInv'
    <3>1. OnlyMoves(t) /\ pc'[t] = "persist"
      BY <2>2, MovesOnly DEF Observe
    <3>2. ~ my'[t].missed /\ my'[t].then = then
      BY <1>0, <2>2 DEF Observe, Set, TInv, ThreadsOK, Local
    <3>3. ~ ToChoose(t)'
      BY <2>2, <3>1, <3>2 DEF ToChoose
    <3> QED
      BY <3>1, <3>2, <3>3, LateMove
  <2> QED
    BY <1>1, <2>1, <2>2 DEF ConsumeExpired, ConsumeBlocked
<1>2. CASE Persist(t)
  <2>1. OnlyMoves(t) /\ pc'[t] = my[t].then
    BY <1>2, MovesOnly DEF Persist
  <2>2. /\ ~ my'[t].missed /\ my'[t].cursor = my[t].cursor + 1 /\ my'[t].stale = my[t].stale
        /\ my'[t].then = "idle"
    BY <1>0, <1>2 DEF Persist, NextSignal, Set, TInv, ThreadsOK, Local
  <2>3. my[t].then \in {"idle", "expired", "blocked", "select", "record"}
    BY <1>0 DEF Local
  <2>4. ToChoose(t)' => my[t].cursor + 1 > my[t].stale
    BY <1>2, <2>1, <2>3 DEF ToChoose, Persist, LateInv, NextSignal
  <2>5. ToChoose(t)' => my'[t].cursor + 1 > my'[t].stale
    BY <1>0, <2>2, <2>4
  <2> QED
    BY <2>1, <2>2, <2>5, LateMove
<1>3. CASE Branch(t)
  <2>1. CASE \E step \in {"manage", "flat"} : Goto(t, step) /\ UNCHANGED my
    <3>1. PICK step \in {"manage", "flat"} : Goto(t, step) /\ UNCHANGED my
      BY <2>1
    <3>2. OnlyMoves(t) /\ pc'[t] = step
      BY <3>1, MovesOnly
    <3>3. NextSignal(t) <= my[t].upto => my[t].cursor + 1 > my[t].stale
      BY <1>0, <1>3 DEF Branch, Expired, NextSignal
    <3>4. ToChoose(t)' => NextSignal(t) <= my[t].upto
      BY <3>1, <3>2 DEF ToChoose, NextSignal
    <3> QED
      BY <1>0, <3>1, <3>2, <3>3, <3>4, LateMove
  <2>2. CASE Goto(t, "blocked") /\ Set(t, Decided(t, "none"))
    <3>1. OnlyMoves(t) /\ pc'[t] = "blocked"
      BY <2>2, MovesOnly
    <3>2. ~ my'[t].missed
      BY <2>2 DEF Set, Decided, Nothing, TInv, ThreadsOK
    <3> QED
      BY <3>1, <3>2, LateRest
  <2> QED
    BY <1>3, <2>1, <2>2 DEF Branch
<1> QED
  BY <1>1, <1>2, <1>3

LEMMA LateBranch ==
  ASSUME TInv, LateInv, NEW t \in Thread, CancelRaises(t) \/ ManagePosition(t) \/ Flat(t)
  PROVE  LateInv'
<1>0. my[t] \in Local /\ ~ my[t].missed
  BY DEF TInv, ThreadsOK, LateInv
<1>1. ASSUME NEW kind, Set(t, Decided(t, kind)), Goto(t, "blocked") PROVE LateInv'
  <2>1. OnlyMoves(t) /\ pc'[t] = "blocked"
    BY <1>1, MovesOnly
  <2>2. ~ my'[t].missed
    BY <1>1 DEF Set, Decided, Nothing, TInv, ThreadsOK
  <2> QED
    BY <2>1, <2>2, LateRest
<1>2. CASE CancelRaises(t)
  BY <1>2, LateEnd DEF CancelRaises
<1>3. CASE ManagePosition(t)
  BY <1>1, <1>3, LateEnd DEF ManagePosition
<1>4. CASE Flat(t)
  <2>1. CASE Goto(t, "select") /\ UNCHANGED my
    <3>1. OnlyMoves(t) /\ pc'[t] = "select"
      BY <2>1, MovesOnly
    <3>2. ToChoose(t)' => my[t].cursor + 1 > my[t].stale
      BY <1>4, <2>1, <3>1 DEF ToChoose, Flat, LateInv, NextSignal
    <3> QED
      BY <1>0, <2>1, <3>1, <3>2, LateMove
  <2> QED
    BY <1>1, <1>4, <2>1 DEF Flat
<1> QED
  BY <1>2, <1>3, <1>4

LEMMA LateSelect ==
  ASSUME TInv, LateInv, NEW t \in Thread, SelectNone(t) \/ SelectSkip(t) \/ SelectEntry(t)
  PROVE  LateInv'
<1>0. my[t] \in Local /\ ~ my[t].missed
  BY DEF TInv, ThreadsOK, LateInv
<1>1. CASE SelectNone(t)
  BY <1>1, LateEnd DEF SelectNone
<1>2. CASE SelectSkip(t)
  <2>1. OnlyMoves(t) /\ pc'[t] = "persist"
    BY <1>2, MovesOnly DEF SelectSkip
  <2>2. ~ my'[t].missed /\ my'[t].cursor = my[t].cursor /\ my'[t].stale = my[t].stale
    BY <1>0, <1>2 DEF SelectSkip, Set, TInv, ThreadsOK, Local
  <2>3. my[t].cursor + 1 > my[t].stale
    BY <1>0, <1>2 DEF SelectSkip, Upto, LateInv, ToChoose, NextSignal
  <2> QED
    BY <2>1, <2>2, <2>3, LateMove
<1>3. CASE SelectEntry(t)
  <2>1. PICK kind \in {"none", "ENTER"} : Set(t, [Decided(t, kind) EXCEPT !.then = "record"])
    BY <1>3 DEF SelectEntry
  <2>2. OnlyMoves(t) /\ pc'[t] = "persist"
    BY <1>3, MovesOnly DEF SelectEntry
  <2>3. ~ my'[t].missed /\ my'[t].then = "record"
    BY <2>1 DEF Set, Decided, Nothing, TInv, ThreadsOK
  <2>4. ~ ToChoose(t)'
    BY <2>2, <2>3 DEF ToChoose
  <2> QED
    BY <2>2, <2>3, <2>4, LateMove
<1> QED
  BY <1>1, <1>2, <1>3

LEMMA LateRecord ==
  ASSUME TInv, LateInv, NEW t \in Thread, RecordNothing(t) \/ RecordWake(t) \/ RecordRaises(t)
  PROVE  LateInv'
<1>1. CASE RecordWake(t)
  <2>1. PICK w \in Wake : \/ Set(t, [Nothing EXCEPT !.wake = w]) /\ Goto(t, "submit")
                          \/ SwitchesTurn /\ End(t)
    BY <1>1 DEF RecordWake
  <2>2. CASE Set(t, [Nothing EXCEPT !.wake = w]) /\ Goto(t, "submit")
    <3>1. OnlyMoves(t) /\ pc'[t] = "submit"
      BY <2>2, MovesOnly
    <3>2. ~ my'[t].missed
      BY <2>2 DEF Set, Nothing, TInv, ThreadsOK
    <3> QED
      BY <3>1, <3>2, LateRest
  <2> QED
    BY <2>1, <2>2, LateEnd
<1> QED
  BY <1>1, LateEnd DEF RecordNothing, RecordRaises

LEMMA LateSubmit ==
  ASSUME TInv, LateInv, NEW t \in Thread,
         (\E w \in Wake : ManualSubmit(t, w)) \/ SubmitStep(t) \/ Raise(t)
  PROVE  LateInv'
<1>0. my[t] \in Local /\ ~ my[t].missed
  BY DEF TInv, ThreadsOK, LateInv
<1>1. ASSUME NEW w, SubmitOrders(t, w) PROVE LateInv'
  <2>1. PICK step \in {"ensure", "cancel_protection"} : Goto(t, step)
    BY <1>1 DEF SubmitOrders
  <2>2. OnlyMoves(t) /\ pc'[t] = step
    BY <1>1, <2>1, MovesOnly DEF SubmitOrders
  <2>3. ~ my'[t].missed
    BY <1>1 DEF SubmitOrders, Set, Nothing, TInv, ThreadsOK
  <2> QED
    BY <2>1, <2>2, <2>3, LateRest
<1>2. CASE (\E w \in Wake : ManualSubmit(t, w)) \/ AutoSubmit(t)
  BY <1>1, <1>2, LateEnd DEF ManualSubmit, AutoSubmit
<1>3. CASE CancelProtection(t) \/ Place(t) \/ PostFill(t) \/ EnsureProtection(t)
  <2>1. UNCHANGED my \/ Set(t, [my[t] EXCEPT !.failed = TRUE])
    BY <1>3 DEF CancelProtection, Place, PostFill, EnsureProtection, FailCall
  <2>2. PICK step \in {"place", "store", "post_fill"} : Goto(t, step)
    BY <1>3 DEF CancelProtection, Place, PostFill, EnsureProtection, FailCall
  <2>3. OnlyMoves(t) /\ pc'[t] = step
    BY <2>1, <2>2, MovesOnly
  <2>4. ~ my'[t].missed
    BY <1>0, <2>1 DEF Set, TInv, ThreadsOK, Local
  <2> QED
    BY <2>2, <2>3, <2>4, LateRest
<1>4. CASE StoreResult(t)
  <2>1. CASE Goto(t, "create_owner") /\ UNCHANGED my
    <3>1. OnlyMoves(t) /\ pc'[t] = "create_owner"
      BY <2>1, MovesOnly
    <3> QED
      BY <1>0, <2>1, <3>1, LateRest
  <2> QED
    BY <1>4, <2>1, LateEnd DEF StoreResult
<1>5. CASE CreateOwner(t) \/ Raise(t)
  BY <1>5, LateEnd DEF CreateOwner, Raise
<1> QED
  BY <1>2, <1>3, <1>4, <1>5 DEF SubmitStep

LEMMA LateEnvironment ==
  ASSUME TInv, LateInv, Environment
  PROVE  LateInv'
<1>1. CASE Crash
  BY <1>1 DEF Crash, LateInv, ToChoose, Nothing
<1>2. CASE UNCHANGED <<pc, my>>
  BY <1>2 DEF LateInv, ToChoose, NextSignal
<1> QED
  BY <1>1, <1>2 DEF Environment, NewSignal, GraceEnds, FillEntry, FillExit, ExchangeCloses,
                    ManualPosition

THEOREM LateInvariance ==
  ASSUME LoadMayFail = FALSE
  PROVE  Spec => []LateInv
<1>1. Init => LateInv
  BY DEF Init, LateInv, ToChoose, Nothing
<1>2. TInv /\ LateInv /\ [Next]_vars => LateInv'
  <2> SUFFICES ASSUME TInv, LateInv, [Next]_vars PROVE LateInv'
    OBVIOUS
  <2>1. ASSUME NEW t \in Thread, WakeStep(t) PROVE LateInv'
    BY <2>1, LateBegin, LateConsume, LateBranch, LateSelect, LateRecord DEF WakeStep
  <2>2. CASE UNCHANGED vars
    BY <2>2 DEF vars, LateInv, ToChoose, NextSignal
  <2> QED
    BY <2>1, <2>2, LateBegin, LateSubmit, LateEnvironment DEF Next, ThreadNext, Thread
<1> QED
  BY <1>1, <1>2, TypesHold, PTL DEF Spec

\* What a thread means to do becomes an entry only where an entry is chosen.
LEMMA KeepsKind ==
  ASSUME TInv, NEW t \in Thread,
         \/ BeginCycle(t) \/ TakeSnapshot(t) \/ LoadPending(t) \/ ConsumeExpired(t)
         \/ Branch(t) \/ Persist(t) \/ CancelRaises(t) \/ ManagePosition(t)
         \/ ConsumeBlocked(t) \/ Flat(t) \/ SelectNone(t) \/ SelectSkip(t)
         \/ RecordNothing(t) \/ RecordWake(t) \/ RecordRaises(t)
         \/ (\E w \in Wake : ManualSubmit(t, w)) \/ SubmitStep(t) \/ Raise(t)
  PROVE  my'[t].kind # "ENTER" \/ my'[t].kind = my[t].kind
<1>0. my[t] \in Local /\ Nothing \in Local /\ Nothing.kind = "none"
  BY NothingType DEF TInv, ThreadsOK, Nothing
<1>1. \A kind \in Kind : Decided(t, kind).kind = kind
  BY DecidedType
<1>2. ASSUME End(t) PROVE my'[t].kind # "ENTER"
  BY <1>0, <1>2 DEF End, Set, TInv, ThreadsOK
<1>3. ASSUME NEW w, Set(t, [Nothing EXCEPT !.wake = w]) PROVE my'[t].kind # "ENTER"
  BY <1>3 DEF Set, Nothing, TInv, ThreadsOK
<1>4. CASE BeginCycle(t)
  BY <1>0, <1>4 DEF BeginCycle, Set, TInv, ThreadsOK, Local
<1>5. CASE TakeSnapshot(t)
  <2>1. PICK aged \in SUBSET Working :
          Set(t, [my[t] EXCEPT !.position = position, !.protected = protected,
                               !.fresh = (aged # Working), !.aged = aged])
    BY <1>5 DEF TakeSnapshot
  <2> QED
    BY <1>0, <2>1 DEF Set, TInv, ThreadsOK, Local
<1>6. CASE LoadPending(t)
  <2>1. CASE \E upto : Set(t, [my[t] EXCEPT !.upto = upto])
    BY <1>0, <2>1 DEF Set, TInv, ThreadsOK, Local
  <2>2. CASE Set(t, [my[t] EXCEPT !.upto = my[t].cursor, !.missed = TRUE])
    BY <1>0, <2>2 DEF Set, TInv, ThreadsOK, Local
  <2> QED
    BY <1>6, <2>1, <2>2 DEF LoadPending
<1>7. CASE ConsumeExpired(t) \/ ConsumeBlocked(t) \/ Persist(t)
  <2>1. ASSUME NEW then, Observe(t, then) PROVE my'[t].kind = my[t].kind
    BY <1>0, <2>1 DEF Observe, Set, TInv, ThreadsOK, Local
  <2>2. CASE ConsumeExpired(t)
    BY <2>1, <2>2 DEF ConsumeExpired
  <2>3. CASE ConsumeBlocked(t)
    BY <2>1, <2>3 DEF ConsumeBlocked
  <2>4. CASE Persist(t)
    BY <1>0, <2>4 DEF Persist, Set, TInv, ThreadsOK, Local
  <2> QED
    BY <1>7, <2>2, <2>3, <2>4
<1>8. CASE Branch(t) \/ Flat(t)
  BY <1>1, <1>8 DEF Branch, Flat, Set, TInv, ThreadsOK, Kind
<1>9. CASE ManagePosition(t)
  <2>1. CASE \E kind \in Kind \ {"ENTER"} : Set(t, Decided(t, kind))
    BY <1>1, <2>1 DEF Set, TInv, ThreadsOK
  <2> QED
    BY <1>2, <1>9, <2>1 DEF ManagePosition
<1>10. CASE SelectSkip(t)
  BY <1>0, <1>10 DEF SelectSkip, Set, TInv, ThreadsOK, Local
<1>11. CASE RecordWake(t)
  BY <1>2, <1>3, <1>11 DEF RecordWake
<1>12. CASE (\E w \in Wake : ManualSubmit(t, w)) \/ AutoSubmit(t)
  BY <1>2, <1>3, <1>12 DEF ManualSubmit, AutoSubmit, SubmitOrders
<1>13. CASE CancelProtection(t) \/ Place(t) \/ PostFill(t) \/ EnsureProtection(t)
  <2>1. UNCHANGED my \/ Set(t, [my[t] EXCEPT !.failed = TRUE])
    BY <1>13 DEF CancelProtection, Place, PostFill, EnsureProtection, FailCall
  <2> QED
    BY <1>0, <2>1 DEF Set, TInv, ThreadsOK, Local
<1>14. CASE StoreResult(t)
  BY <1>2, <1>14 DEF StoreResult
<1>15. CASE \/ CancelRaises(t) \/ SelectNone(t) \/ RecordNothing(t) \/ RecordRaises(t)
            \/ CreateOwner(t) \/ Raise(t)
  BY <1>2, <1>15 DEF CancelRaises, SelectNone, RecordNothing, RecordRaises, CreateOwner, Raise
<1> QED
  BY <1>4, <1>5, <1>6, <1>7, <1>8, <1>9, <1>10, <1>11, <1>12, <1>13, <1>14, <1>15 DEF SubmitStep

LEMMA NewEntry ==
  ASSUME TInv, [Next]_vars, NEW t \in Thread, my'[t].kind = "ENTER", my[t].kind # "ENTER"
  PROVE  SelectEntry(t)
<1>1. ASSUME NEW u \in Thread, u # t PROVE my'[t] = my[t] \/ ~ \E local : Set(u, local)
  BY <1>1 DEF Set, TInv, ThreadsOK
<1>2. ASSUME NEW u \in Thread,
             BeginCycle(u) \/ (\E w \in Wake : ManualSubmit(u, w)) \/ ThreadNext(u)
      PROVE  UNCHANGED my \/ \E local : Set(u, local)
  BY <1>2 DEF BeginCycle, ManualSubmit, SubmitOrders, ThreadNext, WakeStep, SubmitStep, Raise,
       TakeSnapshot, LoadPending, ConsumeExpired, Branch, Persist, CancelRaises, ManagePosition,
       ConsumeBlocked, Flat, SelectNone, SelectSkip, SelectEntry, RecordNothing, RecordWake,
       RecordRaises, AutoSubmit, CancelProtection, Place, PostFill, EnsureProtection,
       StoreResult, CreateOwner, Observe, FailCall, End
<1>3. ASSUME NEW u \in Thread,
             BeginCycle(u) \/ (\E w \in Wake : ManualSubmit(u, w)) \/ ThreadNext(u)
      PROVE  SelectEntry(t)
  <2>1. u = t
    BY <1>1, <1>2, <1>3
  <2> QED
    BY <1>3, <2>1, KeepsKind DEF ThreadNext, WakeStep
<1>4. CASE Crash
  BY <1>4 DEF Crash, Nothing
<1>5. CASE UNCHANGED my
  BY <1>5
<1> QED
  BY <1>3, <1>4, <1>5 DEF Next, Environment, NewSignal, GraceEnds, FillEntry, FillExit,
                          ExchangeCloses, ManualPosition, Thread, vars

\* As long as a failed load of the pending signals is not made up for while an entry
\* is chosen, an opportunity whose grace was over when the wake began is never entered,
\* by any number of threads.
THEOREM EntersInTime ==
  ASSUME LoadMayFail = FALSE
  PROVE  Spec => NoLateEntry
<1> DEFINE InTime ==
      \A t \in CycleThreads :
        my'[t].kind = "ENTER" /\ my[t].kind # "ENTER" => NextSignal(t) > my[t].stale
<1>1. TInv /\ LateInv /\ [Next]_vars => InTime
  <2> SUFFICES ASSUME TInv, LateInv, [Next]_vars, NEW t \in CycleThreads,
                      my'[t].kind = "ENTER", my[t].kind # "ENTER"
               PROVE  NextSignal(t) > my[t].stale
    OBVIOUS
  <2>1. t \in Thread /\ SelectEntry(t)
    BY NewEntry DEF Thread
  <2> QED
    BY <2>1 DEF SelectEntry, Upto, LateInv, ToChoose
<1>2. Spec => [][InTime]_vars
  BY <1>1, TypesHold, LateInvariance, PTL DEF Spec
<1> QED
  BY <1>2 DEF NoLateEntry


-----------------------------------------------------------------------------
(* One open owner.  From the moment an entry may be chosen to the moment its   *)
(* owner state is created no owner state is open, because no other thread can  *)
(* adopt a position in between: one thread runs the cycles of the route, and   *)
(* nobody submits a recorded wake by hand.                                     *)

OneThread == SubmitThreads = {} /\ \A a, b \in CycleThreads : a = b

Entering(t) ==
  \/ pc[t] = "select"
  \/ pc[t] = "persist" /\ my[t].then = "select"
  \/ my[t].kind = "ENTER"
  \/ pc[t] \in SubmitSteps /\ wakes[my[t].wake].kind = "ENTER"
  \/ pc[t] = "create_owner"

OwnerInv == OneOpenOwner /\ \A t \in Thread : Entering(t) => owners = {}

LEMMA OwnerStep ==
  ASSUME OneThread, OwnerInv, NEW t \in Thread, OneOpenOwner', Entering(t)' => owners' = {}
  PROVE  OwnerInv'
BY DEF OneThread, OwnerInv, Thread

LEMMA OwnerSame ==
  ASSUME OneThread, OwnerInv, NEW t \in Thread, owners' = owners, Entering(t)' => Entering(t)
  PROVE  OwnerInv'
BY OwnerStep DEF OwnerInv, OneOpenOwner

LEMMA OwnerRest ==
  ASSUME OneThread, OwnerInv, NEW t \in Thread, owners' = owners,
         my'[t].kind # "ENTER" \/ my'[t].kind = my[t].kind,
         pc'[t] \notin {"select", "persist"} \cup SubmitSteps
  PROVE  OwnerInv'
BY OwnerSame DEF Entering, SubmitSteps

LEMMA OwnerEnd ==
  ASSUME OneThread, TInv, OwnerInv, NEW t \in Thread, End(t), OneOpenOwner'
  PROVE  OwnerInv'
<1>1. pc'[t] = "idle" /\ my'[t].kind = "none"
  BY DEF End, Goto, Set, Nothing, TInv, ThreadsOK
<1> QED
  BY <1>1, OwnerStep DEF Entering, SubmitSteps

LEMMA OwnerBegin ==
  ASSUME OneThread, TInv, OwnerInv, NEW t \in Thread,
         BeginCycle(t) \/ TakeSnapshot(t) \/ LoadPending(t) \/ Branch(t)
  PROVE  OwnerInv'
<1>1. my'[t].kind # "ENTER" \/ my'[t].kind = my[t].kind
  BY KeepsKind
<1>2. pc'[t] \in {"snapshot", "load", "expired", "manage", "blocked", "flat"}
  BY DEF BeginCycle, TakeSnapshot, LoadPending, Branch, Goto, TInv, ThreadsOK
<1>3. owners' = owners
  BY DEF BeginCycle, TakeSnapshot, LoadPending, Branch, tables
<1> QED
  BY <1>1, <1>2, <1>3, OwnerRest DEF SubmitSteps

LEMMA OwnerConsume ==
  ASSUME OneThread, TInv, OwnerInv, NEW t \in Thread,
         ConsumeExpired(t) \/ ConsumeBlocked(t) \/ Persist(t)
  PROVE  OwnerInv'
<1>0. my[t] \in Local
  BY DEF TInv, ThreadsOK
<1>1. my'[t].kind # "ENTER" \/ my'[t].kind = my[t].kind
  BY KeepsKind
<1>2. owners' = owners
  BY DEF ConsumeExpired, ConsumeBlocked, Persist
<1>3. CASE Persist(t)
  <2>1. pc'[t] = my[t].then /\ pc[t] = "persist"
    BY <1>3 DEF Persist, Goto, TInv, ThreadsOK
  <2>2. my[t].then \in {"idle", "expired", "blocked", "select", "record"}
    BY <1>0 DEF Local
  <2>3. Entering(t)' => Entering(t)
    BY <1>1, <2>1, <2>2 DEF Entering, SubmitSteps
  <2> QED
    BY <1>2, <2>3, OwnerSame
<1>4. ASSUME NEW then \in {"expired", "blocked"}, Observe(t, then) PROVE OwnerInv'
  <2>1. pc'[t] = "persist" /\ my'[t].then = then
    BY <1>0, <1>4 DEF Observe, Goto, Set, TInv, ThreadsOK, Local
  <2>2. Entering(t)' => Entering(t)
    BY <1>1, <1>4, <2>1 DEF Entering, SubmitSteps
  <2> QED
    BY <1>2, <2>2, OwnerSame
<1>5. CASE Goto(t, "record")
  <2>1. pc'[t] = "record"
    BY <1>5 DEF Goto, TInv, ThreadsOK
  <2> QED
    BY <1>1, <1>2, <2>1, OwnerRest DEF SubmitSteps
<1> QED
  BY <1>3, <1>4, <1>5 DEF ConsumeExpired, ConsumeBlocked

\* A position is adopted only while no owner state is open.
LEMMA OwnerBranch ==
  ASSUME OneThread, TInv, OwnerInv, NEW t \in Thread,
         CancelRaises(t) \/ ManagePosition(t) \/ Flat(t)
  PROVE  OwnerInv'
<1>1. CASE CancelRaises(t)
  BY <1>1, OwnerEnd DEF CancelRaises, tables, OwnerInv, OneOpenOwner
<1>2. CASE ManagePosition(t)
  <2>1. ASSUME NEW e, Adopt(e) PROVE OneOpenOwner'
    BY <2>1 DEF Adopt, OwnerInv, OneOpenOwner
  <2>2. CASE End(t) /\ UNCHANGED owners
    BY <2>2, OwnerEnd DEF OwnerInv, OneOpenOwner
  <2>3. CASE Adopt(my[t].position) /\ Goto(t, "blocked")
             /\ \E kind \in Kind \ {"ENTER"} : Set(t, Decided(t, kind))
    <3>1. pc'[t] = "blocked"
      BY <2>3 DEF Goto, TInv, ThreadsOK
    <3>2. my'[t].kind # "ENTER"
      BY <2>3, DecidedType DEF Set, TInv, ThreadsOK
    <3>3. ~ Entering(t)'
      BY <3>1, <3>2 DEF Entering, SubmitSteps
    <3> QED
      BY <2>1, <2>3, <3>3, OwnerStep
  <2> QED
    BY <1>2, <2>2, <2>3 DEF ManagePosition
<1>3. CASE Flat(t)
  BY <1>3, OwnerStep DEF Flat, OneOpenOwner
<1> QED
  BY <1>1, <1>2, <1>3

LEMMA OwnerSelect ==
  ASSUME OneThread, TInv, OwnerInv, NEW t \in Thread,
         SelectNone(t) \/ SelectSkip(t) \/ SelectEntry(t)
  PROVE  OwnerInv'
<1>1. owners = {}
  BY DEF SelectNone, SelectSkip, SelectEntry, OwnerInv, Entering
<1>2. owners' = {}
  BY <1>1 DEF SelectNone, SelectSkip, SelectEntry, tables
<1> QED
  BY <1>2, OwnerStep DEF OneOpenOwner

LEMMA OwnerRecord ==
  ASSUME OneThread, TInv, OwnerInv, NEW t \in Thread,
         RecordNothing(t) \/ RecordWake(t) \/ RecordRaises(t)
  PROVE  OwnerInv'
<1>1. owners' = owners /\ OneOpenOwner'
  BY DEF RecordNothing, RecordWake, RecordRaises, tables, OwnerInv, OneOpenOwner
<1>2. CASE RecordWake(t)
  <2>1. PICK w \in Wake :
          /\ wakes' = [wakes EXCEPT ![w] = [kind |-> my[t].kind, status |-> "intent_only",
                         signal |-> IF my[t].kind = "ENTER" THEN my[t].cursor ELSE None]]
          /\ \/ Set(t, [Nothing EXCEPT !.wake = w]) /\ Goto(t, "submit")
             \/ SwitchesTurn /\ End(t)
    BY <1>2 DEF RecordWake
  <2>2. CASE Set(t, [Nothing EXCEPT !.wake = w]) /\ Goto(t, "submit")
    <3>1. pc'[t] = "submit" /\ my'[t].kind # "ENTER" /\ my'[t].wake = w
      BY <2>2 DEF Goto, Set, Nothing, TInv, ThreadsOK
    <3>2. wakes'[w].kind = my[t].kind
      BY <2>1 DEF TInv, SharedOK
    <3>3. Entering(t)' => Entering(t)
      BY <3>1, <3>2 DEF Entering
    <3> QED
      BY <1>1, <3>3, OwnerSame
  <2> QED
    BY <1>1, <2>1, <2>2, OwnerEnd
<1> QED
  BY <1>1, <1>2, OwnerEnd DEF RecordNothing, RecordRaises

LEMMA OwnerSubmit ==
  ASSUME OneThread, TInv, OwnerInv, NEW t \in Thread, SubmitStep(t) \/ Raise(t)
  PROVE  OwnerInv'
<1>0. my[t] \in Local
  BY DEF TInv, ThreadsOK
<1>1. ASSUME End(t), owners' = owners PROVE OwnerInv'
  BY <1>1, OwnerEnd DEF OwnerInv, OneOpenOwner
<1>2. my'[t].kind # "ENTER" \/ my'[t].kind = my[t].kind
  BY KeepsKind
<1>3. ASSUME owners' = owners, pc[t] \in SubmitSteps, my'[t].wake = my[t].wake,
             \A w \in Wake : wakes'[w].kind = wakes[w].kind
      PROVE  OwnerInv'
  <2>1. my[t].wake \in Wake
    BY <1>3, MyWake
  <2>2. Entering(t)' => Entering(t) \/ pc'[t] \in {"select", "persist", "create_owner"}
    BY <1>2, <1>3, <2>1 DEF Entering
  <2>3. /\ pc'[t] \notin {"select", "persist"}
        /\ pc'[t] = "create_owner" => wakes[my[t].wake].kind = "ENTER"
    BY DEF SubmitStep, Raise, AutoSubmit, SubmitOrders, CancelProtection, Place, PostFill,
           EnsureProtection, StoreResult, CreateOwner, FailCall, End, Goto, TInv, ThreadsOK
  <2>4. Entering(t)' => Entering(t)
    BY <1>3, <2>2, <2>3 DEF Entering
  <2> QED
    BY <1>3, <2>4, OwnerSame
<1>4. CASE AutoSubmit(t)
  <2>1. CASE SubmitOrders(t, my[t].wake)
    <3>1. my'[t].wake = my[t].wake
      BY <2>1 DEF SubmitOrders, Set, Nothing, TInv, ThreadsOK
    <3> QED
      BY <1>3, <1>4, <3>1 DEF AutoSubmit, SubmitSteps, tables
  <2> QED
    BY <1>1, <1>4, <2>1 DEF AutoSubmit, tables
<1>5. CASE CancelProtection(t) \/ Place(t) \/ PostFill(t) \/ EnsureProtection(t)
  <2>1. UNCHANGED my \/ Set(t, [my[t] EXCEPT !.failed = TRUE])
    BY <1>5 DEF CancelProtection, Place, PostFill, EnsureProtection, FailCall
  <2>2. my'[t].wake = my[t].wake
    BY <1>0, <2>1 DEF Set, TInv, ThreadsOK, Local
  <2>3. pc[t] \in SubmitSteps /\ UNCHANGED <<owners, wakes>>
    BY <1>5 DEF CancelProtection, Place, PostFill, EnsureProtection, SubmitSteps, tables
  <2> QED
    BY <1>3, <2>2, <2>3
<1>6. CASE StoreResult(t)
  <2>1. my[t].wake \in Wake
    BY <1>6, MyWake DEF StoreResult, SubmitSteps
  <2>2. \A w \in Wake : wakes'[w].kind = wakes[w].kind
    BY <1>6, <2>1 DEF StoreResult, TInv, SharedOK, Intent
  <2>3. UNCHANGED my \/ End(t)
    BY <1>6 DEF StoreResult
  <2> QED
    BY <1>1, <1>3, <1>6, <2>2, <2>3 DEF StoreResult, SubmitSteps
<1>7. CASE CreateOwner(t)
  <2>1. my'[t].kind = "none" /\ pc'[t] = "idle"
    BY <1>7 DEF CreateOwner, End, Goto, Set, Nothing, TInv, ThreadsOK
  <2>2. owners = {}
    BY <1>7 DEF CreateOwner, OwnerInv, Entering
  <2>3. ~ Entering(t)'
    BY <2>1 DEF Entering, SubmitSteps
  <2>4. OneOpenOwner'
    BY <1>7, <2>2 DEF CreateOwner, OneOpenOwner
  <2> QED
    BY <2>3, <2>4, OwnerStep
<1>8. CASE Raise(t)
  BY <1>1, <1>8 DEF Raise, tables
<1> QED
  BY <1>4, <1>5, <1>6, <1>7, <1>8 DEF SubmitStep

LEMMA OwnerEnvironment ==
  ASSUME OneThread, TInv, OwnerInv, Environment
  PROVE  OwnerInv'
<1>1. owners' = owners /\ wakes' = wakes
  BY DEF Environment, NewSignal, GraceEnds, FillEntry, FillExit, ExchangeCloses,
         ManualPosition, Crash, tables
<1>2. CASE Crash
  <2>1. \A u \in Thread : my'[u].kind = "none" /\ pc'[u] = "idle"
    BY <1>2 DEF Crash, Nothing
  <2> QED
    BY <1>1, <2>1 DEF OwnerInv, OneOpenOwner, Entering, SubmitSteps
<1>3. CASE UNCHANGED <<pc, my>>
  BY <1>1, <1>3 DEF OwnerInv, OneOpenOwner, Entering
<1> QED
  BY <1>2, <1>3 DEF Environment, NewSignal, GraceEnds, FillEntry, FillExit, ExchangeCloses,
                    ManualPosition

\* While one thread runs the cycles and submits their wakes, a route has at most one
\* open owner state: a position is adopted, and an entry's owner state created, only
\* where no other one is open, whatever crashes and failed calls come between.
THEOREM OwnsOnce ==
  ASSUME OneThread
  PROVE  Spec => []OneOpenOwner
<1>1. Init => OwnerInv
  BY DEF Init, OwnerInv, OneOpenOwner
<1>2. TInv /\ OwnerInv /\ [Next]_vars => OwnerInv'
  <2> SUFFICES ASSUME TInv, OwnerInv, [Next]_vars PROVE OwnerInv'
    OBVIOUS
  <2>1. ASSUME NEW t \in Thread, WakeStep(t) PROVE OwnerInv'
    BY <2>1, OwnerBegin, OwnerConsume, OwnerBranch, OwnerSelect, OwnerRecord DEF WakeStep
  <2>2. CASE UNCHANGED vars
    BY <2>2 DEF vars, tables, OwnerInv, OneOpenOwner, Entering
  <2>3. ~ \E t \in SubmitThreads, w \in Wake : ManualSubmit(t, w)
    BY DEF OneThread
  <2> QED
    BY <2>1, <2>2, <2>3, OwnerBegin, OwnerSubmit, OwnerEnvironment DEF Next, ThreadNext, Thread
<1>3. OwnerInv => OneOpenOwner
  BY DEF OwnerInv
<1> QED
  BY <1>1, <1>2, <1>3, TypesHold, PTL DEF Spec

=============================================================================
