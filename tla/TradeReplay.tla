---------------------------- MODULE TradeReplay ----------------------------
(* One signal, replayed candle by candle by the four simulators of the       *)
(* research pipeline:                                                        *)
(*   grid       Stage 3, stage3/grid_search.py _simulate_policy_trade        *)
(*   pyramid    Stage 3, stage3/pyramid.py simulate_pyramid_trade            *)
(*   stage4     Stage 4, realized_expectancy.py _simulate_account_position   *)
(*   portfolio  portfolio_backtest.py _manage_position                       *)
(* Each stage picks candidates for the next from what its own simulator      *)
(* says, so the question is where the four agree.                            *)
(*                                                                           *)
(* Prices are distances from the reference price of the signal, counted in   *)
(* the direction of the trade: a SHORT is the mirror image of a LONG in      *)
(* every test of the code.  Percentages are distances too, so they add up,   *)
(* in units small enough that averages of entries are whole.  Fees,          *)
(* slippage, leverage and the sizes of the legs are left out; orders fill at *)
(* their level, the default fill models.                                     *)
EXTENDS Integers, Sequences, FiniteSetsExt

CONSTANTS Target,   \* final_tp_pct
          Stop,     \* initial_sl_pct
          Trigger,  \* protect_trigger_pct
          Trail,    \* trail_sl_pct: the stop once protected
          Step,     \* pyramid.step_pct
          MaxLegs,  \* the largest pyramid.max_legs
          Hold,     \* candles from the signal to the hard exit
          Late,     \* candles followed after the hard exit
          Levels    \* the prices a candle can touch

ASSUME ReplayAssumption ==
  /\ {Target, Stop, Trigger, Trail, Step, Late} \subseteq Nat
  /\ MaxLegs \in Nat \ {0}
  /\ Hold \in Nat \ {0}
  /\ Levels \subseteq Int

VARIABLES setup,      \* the Stage 4 candidate
          time,       \* candles since the signal, gaps included
          last,       \* close and time of the last candle in the window
          ended,      \* whether the data ended
          grid, pyramid, stage4, portfolio

vars == <<setup, time, last, ended, grid, pyramid, stage4, portfolio>>

-----------------------------------------------------------------------------
(* What the simulators share.                                                *)

Exit(status, price, at) == [status |-> status, price |-> price, at |-> at]
Open == Exit("open", 0, 0)

\* open is the low or the high: only the sign of the body is ever looked at.
Candles == {c \in [low : Levels, high : Levels, open : Levels, close : Levels] :
              /\ c.low <= c.close /\ c.close <= c.high
              /\ c.open \in {c.low, c.high}}

BodyFavors(c) == c.close >= c.open
TpHit(c, tp) == c.high >= tp
SlHit(c, sl) == c.low <= sl
EntryHit(c, price) == c.high >= price

\* Which exit level a candle hits first; the body decides when it is both.
Hit(c, tp, sl) ==
  CASE TpHit(c, tp) /\ SlHit(c, sl) -> IF BodyFavors(c) THEN "TP" ELSE "SL"
    [] TpHit(c, tp) /\ ~SlHit(c, sl) -> "TP"
    [] ~TpHit(c, tp) /\ SlHit(c, sl) -> "SL"
    [] OTHER -> "none"

SlStatus(kind) == IF kind = "protected" THEN "PROTECTED_SL" ELSE "INITIAL_SL"

\* The exit of a leg with these levels, Open if the candle misses both.
LegExit(c, tp, sl, kind, at) ==
  LET hit == Hit(c, tp, sl) IN
  CASE hit = "TP" -> Exit("TP", tp, at)
    [] hit = "SL" -> Exit(SlStatus(kind), sl, at)
    [] OTHER -> Open

\* The average entry of a record that keeps the sum of its entries.  The portfolio
\* weights by notional; its legs have the same margin, so distances average plainly.
Average(sum, legs) == sum \div legs

-----------------------------------------------------------------------------
(* Stage 3, grid: exits first, on the stop in force; protection after, for   *)
(* the next candle.                                                          *)

GridOpens == [stop |-> -Stop, kind |-> "initial", exit |-> Open]

Protects(c, protected) == setup.protect /\ ~protected /\ EntryHit(c, Trigger)

GridProtectsFirst(g, c, at) ==
  LET p == IF Protects(c, g.kind = "protected")
           THEN [g EXCEPT !.stop = Trail, !.kind = "protected"] ELSE g
      exit == LegExit(c, Target, p.stop, p.kind, at)
  IN  IF g.exit = Open THEN [p EXCEPT !.exit = exit] ELSE g

GridCandle(g, c, at) ==
  LET exit == LegExit(c, Target, g.stop, g.kind, at) IN
  CASE g.exit # Open -> g
    [] g.exit = Open /\ exit # Open -> [g EXCEPT !.exit = exit]
    [] g.exit = Open /\ exit = Open /\ Protects(c, g.kind = "protected") ->
         [g EXCEPT !.stop = Trail, !.kind = "protected"]
    [] OTHER -> g

GridTimesOut(g) ==
  IF g.exit = Open THEN [g EXCEPT !.exit = Exit("TIME_EXIT", last.close, last.at)] ELSE g

-----------------------------------------------------------------------------
(* Stage 3, pyramid: one leg may be added per candle before the exits, each  *)
(* leg has its own target and all share the stop; pnl counts a stopped leg   *)
(* as a loss of its distance from the stop; open legs are not counted.       *)

PyramidOpens == [entries |-> <<0>>, sum |-> 0, outcome |-> <<"open">>, stop |-> -Stop, pnl |-> 0]

PyramidAdds(p, c) ==
  LET next == p.entries[Len(p.entries)] + Step
      sum == p.sum + next
  IN  IF Len(p.entries) < setup.legs /\ EntryHit(c, next)
      THEN [p EXCEPT !.entries = Append(@, next), !.sum = sum, !.outcome = Append(@, "open"),
                     !.stop = IF setup.breakeven THEN Average(sum, Len(p.entries) + 1) ELSE @]
      ELSE p

SignedDistance(x, y) == y - x

Distance(x, y) == IF x >= y THEN x - y ELSE y - x

LegHit(p, c, i) ==
  IF p.outcome[i] = "open" THEN Hit(c, p.entries[i] + Target, p.stop) ELSE "none"

Books(p, c) ==
  LET gain(i) == CASE LegHit(p, c, i) = "TP" -> Target
                   [] LegHit(p, c, i) = "SL" -> -Distance(p.entries[i], p.stop)
                   [] OTHER -> 0
  IN  MapThenSumSet(gain, DOMAIN p.entries)

PyramidCloses(p, c) ==
  [p EXCEPT !.outcome = [i \in DOMAIN @ |-> IF LegHit(p, c, i) = "none" THEN @[i] ELSE LegHit(p, c, i)],
            !.pnl = @ + Books(p, c)]

AllOut(p) == \A i \in DOMAIN p.outcome : p.outcome[i] # "open"

PyramidClosesFirst(p, c) == IF AllOut(p) THEN p ELSE PyramidAdds(PyramidCloses(p, c), c)

PyramidCandle(p, c) == IF AllOut(p) THEN p ELSE PyramidCloses(PyramidAdds(p, c), c)

-----------------------------------------------------------------------------
(* Stage 4: a leg may be added, then exits leg by leg, then protection, the  *)
(* levels of which are those of the first entry.                             *)

Stage4Opens == [entries |-> <<0>>, sum |-> 0, exits |-> <<Open>>, stop |-> -Stop,
                kind |-> "initial", protected |-> FALSE]

Stage4AddsOneMore(s, c) ==
  LET next == s.entries[Len(s.entries)] + Step
      sum == s.sum + next
  IN  IF Len(s.entries) <= setup.legs /\ EntryHit(c, next)
      THEN [s EXCEPT !.entries = Append(@, next), !.sum = sum, !.exits = Append(@, Open),
                     !.stop = IF setup.breakeven THEN Average(sum, Len(s.entries) + 1) ELSE @,
                     !.kind = IF setup.breakeven THEN "breakeven" ELSE @]
      ELSE s

Stage4Adds(s, c) ==
  LET next == s.entries[Len(s.entries)] + Step
      sum == s.sum + next
  IN  IF Len(s.entries) < setup.legs /\ EntryHit(c, next)
      THEN [s EXCEPT !.entries = Append(@, next), !.sum = sum, !.exits = Append(@, Open),
                     !.stop = IF setup.breakeven THEN Average(sum, Len(s.entries) + 1) ELSE @,
                     !.kind = IF setup.breakeven THEN "breakeven" ELSE @]
      ELSE s

Stage4Closes(s, c, at) ==
  [s EXCEPT !.exits = [i \in DOMAIN @ |->
     IF @[i] = Open THEN LegExit(c, s.entries[i] + Target, s.stop, s.kind, at) ELSE @[i]]]

Flat(s) == \A i \in DOMAIN s.exits : s.exits[i] # Open

Stage4Protects(s, c) ==
  IF ~Flat(s) /\ Protects(c, s.protected)
  THEN [s EXCEPT !.stop = Trail, !.kind = "protected", !.protected = TRUE]
  ELSE s

Stage4Candle(s, c, at) ==
  IF Flat(s) THEN s ELSE Stage4Protects(Stage4Closes(Stage4Adds(s, c), c, at), c)

\* Without a candle in the window the trade ends where it began, at the cutoff.
Stage4TimesOut(s) ==
  LET exit == IF last.at = 0 THEN Exit("HARD_EXIT", 0, Hold)
              ELSE Exit("HARD_EXIT", last.close, last.at)
  IN  [s EXCEPT !.exits = [i \in DOMAIN @ |-> IF @[i] = Open THEN exit ELSE @[i]]]

-----------------------------------------------------------------------------
(* Portfolio: the legs share target and stop, both measured from the average *)
(* entry; protection comes before the exits of the same candle; a candle at  *)
(* or after the cutoff closes the position before anything else is looked    *)
(* at.  funded is whether the account can pay for another leg.               *)

PortfolioOpens == [legs |-> 1, sum |-> 0, kind |-> "initial", protected |-> FALSE, exit |-> Open]

SharedStopBelow(p) ==
  CASE p.kind = "breakeven" -> Average(p.sum, p.legs)
    [] p.kind = "protected" -> Average(p.sum, p.legs) - Trail
    [] OTHER -> Average(p.sum, p.legs) - Stop

SharedStop(p) ==
  CASE p.kind = "breakeven" -> Average(p.sum, p.legs)
    [] p.kind = "protected" -> Average(p.sum, p.legs) + Trail
    [] OTHER -> Average(p.sum, p.legs) - Stop

PortfolioAdds(p, c, funded) ==
  LET next == Average(p.sum, p.legs) + p.legs * Step
  IN  IF p.legs < setup.legs /\ EntryHit(c, next) /\ funded
      THEN [p EXCEPT !.legs = @ + 1, !.sum = @ + next,
                     !.kind = IF setup.breakeven THEN "breakeven" ELSE @]
      ELSE p

PortfolioProtects(p, c) ==
  IF setup.protect /\ ~p.protected /\ EntryHit(c, Average(p.sum, p.legs) + Trigger)
  THEN [p EXCEPT !.kind = "protected", !.protected = TRUE]
  ELSE p

PortfolioClosesStopFirst(p, c, at) ==
  [p EXCEPT !.exit = IF SlHit(c, SharedStop(p)) THEN Exit(SlStatus(p.kind), SharedStop(p), at)
                     ELSE LegExit(c, Average(p.sum, p.legs) + Target, SharedStop(p), p.kind, at)]

PortfolioCloses(p, c, at) ==
  [p EXCEPT !.exit = LegExit(c, Average(p.sum, p.legs) + Target, SharedStop(p), p.kind, at)]

PortfolioCandle(p, c, at, funded) ==
  CASE p.exit # Open -> p
    [] p.exit = Open /\ at >= Hold -> [p EXCEPT !.exit = Exit("HARD_EXIT", c.close, at)]
    [] OTHER -> PortfolioCloses(PortfolioProtects(PortfolioAdds(p, c, funded), c), c, at)

\* The candle of the signal closes at the reference price.
PortfolioForceCloses(p) ==
  IF p.exit = Open THEN [p EXCEPT !.exit = Exit("HARD_EXIT", last.close, last.at)] ELSE p

-----------------------------------------------------------------------------
Setups == [legs : 1..MaxLegs, breakeven : BOOLEAN, protect : BOOLEAN]

Init ==
  /\ setup \in Setups
  /\ time = 0
  /\ last = [close |-> 0, at |-> 0]
  /\ ended = FALSE
  /\ grid = GridOpens
  /\ pyramid = PyramidOpens
  /\ stage4 = Stage4Opens
  /\ portfolio = PortfolioOpens

\* A candle no later than the cutoff.
WindowCandle ==
  /\ ~ended /\ time < Hold
  /\ time' = time + 1
  /\ \E c \in Candles, funded \in BOOLEAN :
       /\ last' = [close |-> c.close, at |-> time + 1]
       /\ grid' = GridCandle(grid, c, time + 1)
       /\ pyramid' = PyramidCandle(pyramid, c)
       /\ stage4' = Stage4Candle(stage4, c, time + 1)
       /\ portfolio' = PortfolioCandle(portfolio, c, time + 1, funded)
  /\ UNCHANGED <<setup, ended>>

\* Later candles reach the portfolio only.
LateCandle ==
  /\ ~ended /\ time >= Hold /\ time < Hold + Late
  /\ time' = time + 1
  /\ \E c \in Candles : portfolio' = PortfolioCandle(portfolio, c, time + 1, FALSE)
  /\ UNCHANGED <<setup, last, ended, grid, pyramid, stage4>>

\* A candle is missing.
Gap ==
  /\ ~ended /\ time < Hold + Late
  /\ time' = time + 1
  /\ UNCHANGED <<setup, last, ended, grid, pyramid, stage4, portfolio>>

\* The loops of the first three end after the last candle of the window.
Cutoff ==
  /\ ~ended /\ time >= Hold
  /\ grid' = GridTimesOut(grid)
  /\ stage4' = Stage4TimesOut(stage4)
  /\ UNCHANGED <<setup, time, last, ended, pyramid, portfolio>>

\* The data ends, in the window or after it.  After it, the last candle is
\* at or past the cutoff and closed the portfolio's position, or it is missing.
DataEnds ==
  /\ ~ended
  /\ ended' = TRUE
  /\ grid' = GridTimesOut(grid)
  /\ stage4' = Stage4TimesOut(stage4)
  /\ portfolio' = PortfolioForceCloses(portfolio)
  /\ UNCHANGED <<setup, time, last, pyramid>>

Next == WindowCandle \/ LateCandle \/ Gap \/ Cutoff \/ DataEnds
Spec == Init /\ [][Next]_vars

-----------------------------------------------------------------------------
Statuses == {"open", "TP", "INITIAL_SL", "PROTECTED_SL", "TIME_EXIT", "HARD_EXIT"}
Exits == [status : Statuses, price : Int, at : 0..Hold + Late]
Kinds == {"initial", "breakeven", "protected"}

(* Every simulator keeps its record: no more legs than the candidate allows, *)
(* an exit for each, and a protected Stage 4 stop only once protection was   *)
(* reached (max_legs and protection_activated in the ledgers).               *)
TypeOK ==
  /\ setup \in Setups
  /\ time \in 0..Hold + Late
  /\ last \in [close : Int, at : 0..Hold]
  /\ ended \in BOOLEAN
  /\ grid \in [stop : Int, kind : Kinds, exit : Exits]
  /\ pyramid \in [entries : Seq(Int), sum : Int, outcome : Seq({"open", "TP", "SL"}),
                stop : Int, pnl : Int]
  /\ stage4 \in [entries : Seq(Int), sum : Int, exits : Seq(Exits), stop : Int,
               kind : Kinds, protected : BOOLEAN]
  /\ portfolio \in [legs : 1..setup.legs, sum : Int, kind : Kinds, protected : BOOLEAN, exit : Exits]
  /\ Len(pyramid.entries) \in 1..setup.legs /\ Len(pyramid.outcome) = Len(pyramid.entries)
  /\ Len(stage4.entries) \in 1..setup.legs /\ Len(stage4.exits) = Len(stage4.entries)
  /\ (stage4.kind = "protected" => stage4.protected)

SameExit(a, b) ==
  /\ a.price = b.price /\ a.at = b.at
  /\ a.status = b.status \/ (a.status = "TIME_EXIT" /\ b.status = "HARD_EXIT")

(* A candidate of one leg is scored by the grid and replayed by Stage 4 with *)
(* the same stop at every candle and the same exit, protection included, as  *)
(* soon as there is a candle in the window (grid_search.py 598-625 against   *)
(* realized_expectancy.py 675-760).                                          *)
GridMatchesStage4 ==
  setup.legs = 1 /\ last.at > 0 =>
    /\ grid.stop = stage4.stop
    /\ (grid.kind = "protected") = stage4.protected
    /\ SameExit(grid.exit, stage4.exits[1])

(* Without protection the pyramid search and Stage 4 add the same legs on    *)
(* the same candles, hold the same stop and close the same legs at the same  *)
(* level, whatever the number of legs (pyramid.py 205-248 against            *)
(* realized_expectancy.py 681-731).                                          *)
PyramidMatchesStage4 ==
  ~setup.protect =>
    /\ pyramid.entries = stage4.entries /\ pyramid.stop = stage4.stop
    /\ \A i \in DOMAIN pyramid.outcome :
         pyramid.outcome[i] = CASE stage4.exits[i].status = "TP" -> "TP"
                                [] stage4.exits[i].status = "INITIAL_SL" -> "SL"
                                [] OTHER -> "open"

Closed == {i \in DOMAIN pyramid.outcome : pyramid.outcome[i] # "open"}
Gain(i) == stage4.exits[i].price - stage4.entries[i]

(* The search books for its closed legs what Stage 4 gains on them, except   *)
(* that a leg stopped above its entry, which only a breakeven stop does, is  *)
(* booked as a loss (pyramid.py 231-240): it never books more.               *)
PyramidNeverOverstates ==
  ~setup.protect =>
    /\ pyramid.pnl <= MapThenSumSet(Gain, Closed)
    /\ (~setup.breakeven => pyramid.pnl = MapThenSumSet(Gain, Closed))

(* A plain candidate, one leg and no protection, ends the same way in the    *)
(* portfolio and in Stage 4, unless a candle is missing at the cutoff or the *)
(* candle of the cutoff itself hits a level, which the portfolio no longer   *)
(* looks at (portfolio_backtest.py 757-760).                                 *)
PortfolioMatchesStage4 ==
  /\ setup.legs = 1 /\ ~setup.protect
  /\ stage4.exits[1] # Open /\ portfolio.exit # Open
  /\ last.at > 0 /\ portfolio.exit.at <= Hold
  => \/ portfolio.exit = stage4.exits[1]
     \/ /\ stage4.exits[1].at = Hold /\ stage4.exits[1].status # "HARD_EXIT"
        /\ portfolio.exit = Exit("HARD_EXIT", last.close, Hold)

(* With protection the portfolio may stop a trade on the candle that         *)
(* protects it, so it differs from Stage 4; but a trade of one leg that      *)
(* Stage 4 ended at a level is over in the portfolio by then.                *)
PortfolioExitsNoLater ==
  setup.legs = 1 /\ stage4.exits[1].status \in {"TP", "INITIAL_SL", "PROTECTED_SL"} =>
    portfolio.exit # Open /\ portfolio.exit.at <= stage4.exits[1].at
=============================================================================
