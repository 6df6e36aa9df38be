------------------------------ MODULE PauseRules ------------------------------
(***************************************************************************)
(* The pause rules of a live route: after n consecutive losses or wins, or *)
(* a burst of profit, no entry until a cooldown after the last close.      *)
(*                                                                         *)
(* Every cycle derives the state of the three rules from the recent fills  *)
(* of the exchange and saves it in risk_limits of the route, one whole     *)
(* document per rule, on top of the route it read when it started.  Timer  *)
(* and wake requests run cycles of one route side by side; a cycle can end *)
(* with an exception between any two writes, and the query of the fills    *)
(* may fail, in which case the adapter reports none.                       *)
(***************************************************************************)
EXTENDS Integers, Sequences, FiniteSetsExt

CONSTANTS
  Cycle,      \* threads that run lifecycle cycles of the route
  None,
  Losses,     \* consecutive_count of the rule consecutive_losses
  Wins,       \* consecutive_count of the rule consecutive_wins
  Profit,     \* profit_threshold_pct of the rule profit_burst, as a sum of pnl
  Lookback,   \* its lookback_hours
  Cooldown,   \* cooldown_hours of the three
  Page,       \* fills the exchange reports
  Results,    \* net results of a close
  MaxCloses,  \* bound: positions closed
  MaxTime,    \* bound: hours
  MaxFaults   \* bound: cycles that raise and queries of fills that fail

ASSUME PauseAssumption ==
  /\ {Losses, Wins, Profit, Cooldown, Page} \subseteq Nat \ {0}
  /\ {Lookback, MaxCloses, MaxTime, MaxFaults} \subseteq Nat
  /\ Results \subseteq Int
  /\ None \notin Int

VARIABLES
  now,       \* the clock, in hours
  closes,    \* closes of the route's positions at the exchange, oldest first
  open,      \* a position is open at the exchange
  owner,     \* an open owner state exists
  rules,     \* risk_limits.pause_rule_state of the route's row
  cycle,     \* the running cycles
  gap,       \* history: the rule for losses was not given every close
  faults     \* faults that may still happen

vars == <<now, closes, open, owner, rules, cycle, gap, faults>>

Time == 0..MaxTime
Close == [pnl : Results, at : Time]
EventId == 1..MaxCloses

\* Closes are identified by their place in time; count is the number of consecutive
\* losses or wins, last the close processed last (of profit_burst: that triggered last).
RuleState == [count : 0..MaxCloses, last : EventId \cup {None},
              until : Int \cup {None}]
NoState == [count |-> 0, last |-> None, until |-> None]
Rules == [loss : RuleState, win : RuleState, burst : RuleState]

\* route: the rules as the cycle knows them; page: the closes its snapshot has.
CycleState == [step : {"idle", "snapshot", "loss", "win", "burst", "check"},
               route : Rules, page : SUBSET EventId, owner : BOOLEAN, at : Time]
IdleCycle == [step |-> "idle", route |-> [loss |-> NoState, win |-> NoState, burst |-> NoState],
              page |-> {}, owner |-> FALSE, at |-> 0]

TypeOK ==
  /\ now \in Time
  /\ closes \in Seq(Close) /\ Len(closes) <= MaxCloses
  /\ open \in BOOLEAN /\ owner \in BOOLEAN
  /\ rules \in Rules
  /\ cycle \in [Cycle -> CycleState]
  /\ gap \in BOOLEAN
  /\ faults \in Nat

Init ==
  /\ now = 0
  /\ closes = <<>>
  /\ open = FALSE /\ owner = FALSE
  /\ rules = IdleCycle.route
  /\ cycle = [c \in Cycle |-> IdleCycle]
  /\ gap = FALSE
  /\ faults = MaxFaults

-----------------------------------------------------------------------------
On(c, step) == cycle[c].step = step
\* The owner state the cycle found is an argument of the rule for wins only.
To(c, step, route) ==
  cycle' = [cycle EXCEPT ![c].step = step, ![c].route = route,
                         ![c].owner = @ /\ step \in {"loss", "win"}]
Goto(c, step) == To(c, step, cycle[c].route)
End(c) == cycle' = [cycle EXCEPT ![c] = IdleCycle]
Fault == faults > 0 /\ faults' = faults - 1

World == <<now, closes, open>>

\* The cycle reads the route; started_at is its time for every decision.
Start(c) ==
  /\ On(c, "idle")
  /\ cycle' = [cycle EXCEPT ![c].step = "snapshot", ![c].route = rules, ![c].at = now]
  /\ UNCHANGED <<World, owner, rules, gap, faults>>

Reported == {i \in DOMAIN closes : i > Len(closes) - Page}

\* With an open position the cycle manages it and touches no rule.  Without one the
\* owner state is closed; the rule for wins needs the old one.  (One step here: LiveRoute
\* interleaves the snapshot and what follows it with a second cycle's entry.)
Snapshot(c) ==
  /\ On(c, "snapshot")
  /\ IF open THEN End(c) /\ UNCHANGED <<owner, faults>>
     ELSE \E page \in {Reported, {}} :
            /\ page = Reported \/ Fault
            /\ page = Reported => UNCHANGED faults
            /\ cycle' = [cycle EXCEPT ![c].step = "loss", ![c].page = page,
                                      ![c].owner = owner]
            /\ owner' = FALSE
  /\ UNCHANGED <<World, rules, gap>>

\* The document is saved as a whole; what the row had meanwhile is overwritten.
Persist(c, step, rule, state) ==
  LET route == [cycle[c].route EXCEPT ![rule] = state]
  IN /\ rules' = route
     /\ To(c, step, route)

Leave(c, step) == Goto(c, step) /\ UNCHANGED rules

Latest(c) == Max(cycle[c].page)
Expiry(id) == closes[id].at + Cooldown
Pnl(ids) == MapThenSumSet(LAMBDA i : closes[i].pnl, ids)

\* Mutant: a close that is no loss does not end the series.
CountAllLosses(count, ids) == count + Cardinality({i \in ids : closes[i].pnl < 0})

\* consecutive losses at the end of ids, counted on from count if all are losses.
CountLosses(count, ids) ==
  LET others == {i \in ids : closes[i].pnl >= 0}
  IN IF others = {} THEN count + Cardinality(ids)
     ELSE Cardinality({i \in ids : i > Max(others)})

\* Mutant: the page is counted again.
WholePage(state, page) == page

\* All closes since the last one processed; only the latest if that left the page.
NewCloses(state, page) ==
  IF state.last = None THEN page
  ELSE IF state.last \in page THEN {i \in page : i > state.last} ELSE {Max(page)}

LossState(state, page) ==
  LET latest == Max(page)
      new == NewCloses(state, page)
      count == CountLosses(state.count, new)
  IN [count |-> count, last |-> latest,
      until |-> IF closes[latest].pnl < 0 /\ count >= Losses THEN Expiry(latest)
                ELSE IF \E i \in new : closes[i].pnl >= 0 THEN None ELSE state.until]

UpdateLoss(c) ==
  /\ On(c, "loss")
  /\ LET state == cycle[c].route.loss
         page == cycle[c].page
     IN IF page = {} \/ state.last = Latest(c)
        THEN Leave(c, "win") /\ UNCHANGED gap
        ELSE /\ Persist(c, "win", "loss", LossState(state, page))
             /\ gap' = (gap \/ \E i \in 1..Latest(c) :
                                 /\ state.last = None \/ i > state.last
                                 /\ i \notin NewCloses(state, page))
  /\ UNCHANGED <<World, owner, faults>>

\* Only the latest close, and only in the cycle that still found the owner state.
WinState(state, latest) ==
  LET won == closes[latest].pnl > 0
      count == IF won THEN state.count + 1 ELSE 0
  IN [count |-> count, last |-> latest,
      until |-> IF ~won THEN None
                ELSE IF count >= Wins THEN Expiry(latest) ELSE state.until]

\* Mutant: whether the close was counted before is not asked.
CountsAgain(c) ==
  /\ On(c, "win")
  /\ IF ~cycle[c].owner \/ cycle[c].page = {}
     THEN Leave(c, "burst")
     ELSE Persist(c, "burst", "win", WinState(cycle[c].route.win, Latest(c)))
  /\ UNCHANGED <<World, owner, gap, faults>>

UpdateWin(c) ==
  /\ On(c, "win")
  /\ IF ~cycle[c].owner \/ cycle[c].page = {} \/ cycle[c].route.win.last = Latest(c)
     THEN Leave(c, "burst")
     ELSE Persist(c, "burst", "win", WinState(cycle[c].route.win, Latest(c)))
  /\ UNCHANGED <<World, owner, gap, faults>>

Burst(page, latest) ==
  Pnl({i \in page : closes[i].at >= closes[latest].at - Lookback}) >= Profit

UpdateBurst(c) ==
  /\ On(c, "burst")
  /\ LET state == cycle[c].route.burst
     IN IF cycle[c].page = {} \/ state.last = Latest(c)
        THEN Leave(c, "check")
        ELSE Persist(c, "check", "burst",
               IF Burst(cycle[c].page, Latest(c))
               THEN [state EXCEPT !.last = Latest(c), !.until = Expiry(Latest(c))]
               ELSE state)
  /\ UNCHANGED <<World, owner, gap, faults>>

Active(state, time) == state.until # None /\ time < state.until

\* Mutant: the pause for losses is not looked up.
LossesIgnored(route, time) == Active(route.win, time) \/ Active(route.burst, time)

\* Whether the scan finds a signal is open, and whether the entry order fills before it
\* is too old; either way its acceptance creates the owner state (LiveRoute).
ScanForEntry ==
  \/ owner' = TRUE /\ open' \in {TRUE, open}
  \/ UNCHANGED <<open, owner>>

\* _active_pause_rule, with the state this cycle saved.
Paused(route, time) == \E rule \in {"loss", "win", "burst"} : Active(route[rule], time)

Check(c) ==
  /\ On(c, "check")
  /\ End(c)
  /\ \/ Paused(cycle[c].route, cycle[c].at) /\ UNCHANGED <<open, owner>>
     \/ ~Paused(cycle[c].route, cycle[c].at) /\ ScanForEntry
  /\ UNCHANGED <<now, closes, rules, gap, faults>>

\* An exception or the end of the process; before these steps nothing is changed yet.
Raise(c) ==
  /\ cycle[c].step \in {"loss", "win", "burst", "check"} /\ Fault
  /\ End(c)
  /\ UNCHANGED <<World, owner, rules, gap>>

\* The exchange closes the position (stop, target or by hand).
ClosePosition ==
  /\ open /\ Len(closes) < MaxCloses
  /\ open' = FALSE
  /\ \E pnl \in Results : closes' = Append(closes, [pnl |-> pnl, at |-> now])
  /\ UNCHANGED <<now, owner, rules, cycle, gap, faults>>

Tick ==
  /\ now < MaxTime /\ now' = now + 1
  /\ UNCHANGED <<closes, open, owner, rules, cycle, gap, faults>>

CycleStep(c) ==
  \/ Start(c) \/ Snapshot(c) \/ UpdateLoss(c) \/ UpdateWin(c)
  \/ UpdateBurst(c) \/ Check(c)

Next == ClosePosition \/ Tick \/ \E c \in Cycle : CycleStep(c) \/ Raise(c)

Spec == Init /\ [][Next]_vars

-----------------------------------------------------------------------------
\* Losses in a row up to the close id.
TrailingLosses(id) ==
  Cardinality({i \in 1..id : \A j \in i..id : closes[j].pnl < 0})

LossesPause(id) == TrailingLosses(id) >= Losses

\* What is saved of the rule consecutive_losses is a function of the closes up to
\* the one processed last: no close is counted twice and none is forgotten, whichever
\* cycles overwrote each other, failed between two writes or had no fills
\* (_update_consecutive_loss_pause_state, _persist_consecutive_loss_pause_state).
LossStateIsHistory ==
  LET state == rules.loss
  IN ~gap /\ state.last # None =>
       /\ state.count = TrailingLosses(state.last)
       /\ state.until = IF LossesPause(state.last) THEN Expiry(state.last) ELSE None

\* The rule consecutive_wins may miss a close, but counts none twice, and its pause is
\* that of the close it processed last (_update_consecutive_win_pause_state).
WinsCountedOnce ==
  LET state == rules.win
  IN state.last # None =>
       /\ state.count <= Cardinality({i \in 1..state.last : closes[i].pnl > 0})
       /\ state.count > 0 <=> closes[state.last].pnl > 0
       /\ state.until = IF state.count >= Wins THEN Expiry(state.last) ELSE None

\* A cycle opens a position only if the closes it was told of, or if it was told of
\* none those the route had on record, end neither in a pause for losses nor in a
\* burst of profit that its own start lies in (run_route_wake from the flat position to
\* _active_pause_rule).
NoEntryInPause ==
  [][\A c \in Cycle :
       LET last == cycle[c].route.loss.last
           page == cycle[c].page
           over(id) == cycle[c].at >= Expiry(id)
       IN On(c, "check") /\ cycle'[c] = IdleCycle /\ ~open /\ open' =>
            /\ ~gap /\ last # None /\ LossesPause(last) => over(last)
            /\ page # {} => last = Max(page)
            /\ page # {} /\ Burst(page, Max(page)) => over(Max(page))]_vars
===============================================================================
