------------------------- MODULE TradeReplayProofs -------------------------
(* For every choice of levels, number of legs and length of the window: the  *)
(* grid agrees with Stage 4 on candidates of one leg, the pyramid search on  *)
(* candidates without protection, legs and profit alike, the portfolio as    *)
(* far as PortfolioMatchesStage4 and PortfolioExitsNoLater say, and every    *)
(* simulator keeps its record.                                               *)
EXTENDS TradeReplay, FiniteSetTheorems, TLAPS

-----------------------------------------------------------------------------
(* A Stage 4 trade and a portfolio position of one leg.                      *)

One(stop, kind, exit) ==
  [entries |-> <<0>>, sum |-> 0, exits |-> <<exit>>, stop |-> stop, kind |-> kind,
   protected |-> IF kind = "protected" THEN TRUE ELSE FALSE]

PortfolioOne(kind, exit) ==
  [legs |-> 1, sum |-> 0, kind |-> kind, exit |-> exit,
   protected |-> IF kind = "protected" THEN TRUE ELSE FALSE]

StopOf(kind) == IF kind = "protected" THEN Trail ELSE -Stop

Leg == stage4.exits[1]

\* The exit or the state after a candle, for a simulator that tests exits first.
Later(stop, kind, c, at) ==
  LET exit == LegExit(c, Target, stop, kind, at) IN
  IF exit # Open THEN One(stop, kind, exit)
  ELSE IF Protects(c, kind = "protected") THEN One(Trail, "protected", Open)
  ELSE One(stop, kind, Open)

TimeInv ==
  /\ setup \in Setups
  /\ time \in Nat
  /\ last \in [close : Int, at : Nat] /\ last.at <= time /\ last.at <= Hold

(* The single legs of the grid and of Stage 4.                               *)
GridInv ==
  setup.legs = 1 =>
    /\ grid.kind \in {"initial", "protected"} /\ grid.stop = StopOf(grid.kind)
    /\ grid = [stop |-> grid.stop, kind |-> grid.kind, exit |-> grid.exit]
    /\ stage4 = One(grid.stop, grid.kind, Leg)
    /\ (grid.exit = Open) <=> (Leg = Open)
    /\ (last.at > 0 => SameExit(grid.exit, Leg))
    /\ (last.at = 0 /\ Leg # Open => ended \/ time >= Hold)

LevelStatuses == {"TP", "INITIAL_SL", "PROTECTED_SL"}

(* The portfolio is protected no later, and out no later.                    *)
SoonerInv ==
  setup.legs = 1 =>
    /\ portfolio.kind \in {"initial", "protected"}
    /\ portfolio = PortfolioOne(portfolio.kind, portfolio.exit)
    /\ (grid.kind = "protected" => portfolio.kind = "protected" \/ portfolio.exit # Open)
    /\ (portfolio.exit # Open => portfolio.exit.at \in Nat /\ portfolio.exit.at <= time)
    /\ (Leg.status \in LevelStatuses => portfolio.exit # Open /\ portfolio.exit.at <= Leg.at)

(* Without protection: how the two single legs can differ.                   *)
PlainInv ==
  setup.legs = 1 /\ ~setup.protect =>
    /\ grid.kind = "initial" /\ portfolio.kind = "initial"
    /\ (last.at = 0 /\ portfolio.exit # Open => ended \/ time >= Hold)
    /\ (Leg # Open /\ portfolio.exit = Open =>
          /\ time >= Hold
          /\ (last.at > 0 => Leg = Exit("HARD_EXIT", last.close, last.at)))
    /\ (Leg = Open /\ portfolio.exit # Open =>
          /\ time >= Hold
          /\ \/ portfolio.exit.at > Hold
             \/ portfolio.exit = Exit("HARD_EXIT", last.close, Hold) /\ last.at = Hold)
    /\ (Leg # Open /\ portfolio.exit # Open /\ last.at > 0 =>
          \/ portfolio.exit.at > Hold
          \/ portfolio.exit = Leg
          \/ /\ time >= Hold
             /\ Leg.at = Hold /\ Leg.status # "HARD_EXIT"
             /\ portfolio.exit = Exit("HARD_EXIT", last.close, Hold))

IInv == TimeInv /\ GridInv /\ SoonerInv /\ PlainInv

-----------------------------------------------------------------------------
LEMMA LegExitFacts ==
  ASSUME NEW c, NEW tp, NEW sl, NEW kind, NEW at
  PROVE  /\ LegExit(c, tp, sl, kind, at) = Open <=> ~TpHit(c, tp) /\ ~SlHit(c, sl)
         /\ LegExit(c, tp, sl, kind, at) # Open =>
              /\ LegExit(c, tp, sl, kind, at).status \in LevelStatuses
              /\ LegExit(c, tp, sl, kind, at).at = at
  BY DEF LegExit, Hit, SlStatus, Exit, Open, LevelStatuses

(* A candle changes a Stage 4 trade of one leg as it changes the grid's.     *)
LEMMA OneCandle ==
  ASSUME setup.legs = 1, NEW stop, NEW kind, NEW exit, NEW c, NEW at
  PROVE  Stage4Candle(One(stop, kind, exit), c, at) =
           IF exit # Open THEN One(stop, kind, exit) ELSE Later(stop, kind, c, at)
<1> DEFINE s == One(stop, kind, exit)
           e == LegExit(c, Target, stop, kind, at)
<1>1. Stage4Adds(s, c) = s
  BY DEF Stage4Adds, One
<1>2. Flat(s) <=> exit # Open
  BY DEF Flat, One
<1>3. ASSUME exit = Open PROVE Stage4Closes(s, c, at) = One(stop, kind, e)
  <2>1. s.entries[1] + Target = Target
    BY ReplayAssumption DEF One
  <2>2. DOMAIN s.exits = {1}
    BY DEF One
  <2>3. Stage4Closes(s, c, at).exits = <<e>>
    <3>1. Stage4Closes(s, c, at).exits = [i \in DOMAIN s.exits |->
            IF s.exits[i] = Open THEN LegExit(c, s.entries[i] + Target, s.stop, s.kind, at)
            ELSE s.exits[i]]
      BY DEF Stage4Closes, One
    <3>2. s.exits[1] = Open /\ s.stop = stop /\ s.kind = kind
      BY <1>3 DEF One
    <3>3. Stage4Closes(s, c, at).exits = [i \in {1} |-> e]
      BY <3>1, <3>2, <2>1, <2>2
    <3> QED BY <3>3
  <2>4. Stage4Closes(s, c, at) = [s EXCEPT !.exits = Stage4Closes(s, c, at).exits]
    BY DEF Stage4Closes, One
  <2> QED BY <2>3, <2>4 DEF One
<1>4. ASSUME exit = Open PROVE Stage4Protects(One(stop, kind, e), c) = Later(stop, kind, c, at)
  <2>1. Flat(One(stop, kind, e)) <=> e # Open
    BY DEF Flat, One
  <2>2. One(stop, kind, e).protected = (kind = "protected")
    BY DEF One
  <2>3. [One(stop, kind, e) EXCEPT !.stop = Trail, !.kind = "protected", !.protected = TRUE]
          = One(Trail, "protected", e)
    <3> DEFINE entries == <<0>>
               exits == <<e>>
               before == IF kind = "protected" THEN TRUE ELSE FALSE
               after == TRUE
    <3>1. One(stop, kind, e) = [entries |-> entries, sum |-> 0, exits |-> exits, stop |-> stop,
                                kind |-> kind, protected |-> before]
      BY DEF One
    <3>2. One(Trail, "protected", e) = [entries |-> entries, sum |-> 0, exits |-> exits,
                                stop |-> Trail, kind |-> "protected", protected |-> after]
      BY DEF One
    <3> HIDE DEF entries, exits, before, after
    <3>3. [[entries |-> entries, sum |-> 0, exits |-> exits, stop |-> stop, kind |-> kind,
            protected |-> before]
              EXCEPT !.stop = Trail, !.kind = "protected", !.protected = after]
            = [entries |-> entries, sum |-> 0, exits |-> exits, stop |-> Trail,
               kind |-> "protected", protected |-> after]
      <4> DEFINE r(st, k, p) == [entries |-> entries, sum |-> 0, exits |-> exits, stop |-> st,
                                 kind |-> k, protected |-> p]
      <4>1. [r(stop, kind, before) EXCEPT !.stop = Trail] = r(Trail, kind, before)
        OBVIOUS
      <4>2. [r(Trail, kind, before) EXCEPT !.kind = "protected"] = r(Trail, "protected", before)
        OBVIOUS
      <4>3. [r(Trail, "protected", before) EXCEPT !.protected = after]
              = r(Trail, "protected", after)
        OBVIOUS
      <4> QED BY <4>1, <4>2, <4>3
    <3>4. [One(stop, kind, e) EXCEPT !.stop = Trail, !.kind = "protected", !.protected = after]
            = One(Trail, "protected", e)
      BY <3>1, <3>2, <3>3
    <3> QED BY <3>4 DEF after
  <2> QED BY <2>1, <2>2, <2>3 DEF Stage4Protects, Later
<1> QED BY <1>1, <1>2, <1>3, <1>4 DEF Stage4Candle

LEMMA GridOneCandle ==
  ASSUME NEW stop, NEW kind, NEW exit, NEW c, NEW at,
         kind \in {"initial", "protected"}
  PROVE  GridCandle([stop |-> stop, kind |-> kind, exit |-> exit], c, at) =
           IF exit # Open THEN [stop |-> stop, kind |-> kind, exit |-> exit]
           ELSE [stop |-> Later(stop, kind, c, at).stop,
                 kind |-> Later(stop, kind, c, at).kind,
                 exit |-> Later(stop, kind, c, at).exits[1]]
<1> DEFINE g == [stop |-> stop, kind |-> kind, exit |-> exit]
           e == LegExit(c, Target, stop, kind, at)
<1>1. CASE exit # Open
  BY <1>1 DEF GridCandle
<1>2. CASE exit = Open /\ e # Open
  <2>1. GridCandle(g, c, at) = [g EXCEPT !.exit = e]
    BY <1>2 DEF GridCandle
  <2>2. Later(stop, kind, c, at) = One(stop, kind, e)
    BY <1>2 DEF Later
  <2> HIDE DEF e
  <2> QED BY <1>2, <2>1, <2>2 DEF One
<1>3. CASE exit = Open /\ e = Open /\ Protects(c, kind = "protected")
  <2>1. GridCandle(g, c, at) = [g EXCEPT !.stop = Trail, !.kind = "protected"]
    BY <1>3 DEF GridCandle
  <2>2. Later(stop, kind, c, at) = One(Trail, "protected", Open)
    BY <1>3 DEF Later
  <2>3. [g EXCEPT !.stop = Trail] = [stop |-> Trail, kind |-> kind, exit |-> exit]
    OBVIOUS
  <2>4. [[stop |-> Trail, kind |-> kind, exit |-> exit] EXCEPT !.kind = "protected"]
          = [stop |-> Trail, kind |-> "protected", exit |-> exit]
    OBVIOUS
  <2>5. GridCandle(g, c, at) = [stop |-> Trail, kind |-> "protected", exit |-> Open]
    BY <1>3, <2>1, <2>3, <2>4
  <2> QED BY <1>3, <2>2, <2>5 DEF One
<1>4. CASE exit = Open /\ e = Open /\ ~Protects(c, kind = "protected")
  <2>1. GridCandle(g, c, at) = g
    BY <1>4 DEF GridCandle
  <2>2. Later(stop, kind, c, at) = One(stop, kind, Open)
    BY <1>4 DEF Later
  <2> QED BY <1>4, <2>1, <2>2 DEF One
<1> QED BY <1>1, <1>2, <1>3, <1>4

LEMMA LaterForm ==
  ASSUME NEW stop, NEW kind, NEW c, NEW at
  PROVE  Later(stop, kind, c, at) =
           One(Later(stop, kind, c, at).stop, Later(stop, kind, c, at).kind,
               Later(stop, kind, c, at).exits[1])
  BY DEF Later, One

(* At a timeout the open leg ends at the last close.                         *)
LEMMA OneTimesOut ==
  ASSUME NEW stop, NEW kind, NEW exit
  PROVE  Stage4TimesOut(One(stop, kind, exit)) =
           One(stop, kind,
               IF exit # Open THEN exit
               ELSE IF last.at = 0 THEN Exit("HARD_EXIT", 0, Hold)
               ELSE Exit("HARD_EXIT", last.close, last.at))
<1> DEFINE s == One(stop, kind, exit)
           x == IF last.at = 0 THEN Exit("HARD_EXIT", 0, Hold)
                ELSE Exit("HARD_EXIT", last.close, last.at)
           y == IF exit # Open THEN exit ELSE x
<1>1. Stage4TimesOut(s) = [s EXCEPT !.exits = [i \in DOMAIN s.exits |->
                             IF s.exits[i] = Open THEN x ELSE s.exits[i]]]
  BY DEF Stage4TimesOut, One
<1>2. [i \in DOMAIN s.exits |-> IF s.exits[i] = Open THEN x ELSE s.exits[i]] = <<y>>
  <2>1. DOMAIN s.exits = {1} /\ s.exits[1] = exit
    BY DEF One
  <2>2. [i \in DOMAIN s.exits |-> IF s.exits[i] = Open THEN x ELSE s.exits[i]] = [i \in {1} |-> y]
    BY <2>1
  <2> QED BY <2>2
<1> QED BY <1>1, <1>2 DEF One

(* The kind of stop of a portfolio position after a candle.                  *)
KindAfter(kind, c) == IF Protects(c, kind = "protected") THEN "protected" ELSE kind

LEMMA PortfolioOneCandle ==
  ASSUME setup.legs = 1, NEW kind \in {"initial", "protected"}, NEW exit, NEW c, NEW at,
         NEW funded
  PROVE  PortfolioCandle(PortfolioOne(kind, exit), c, at, funded) =
           IF exit # Open THEN PortfolioOne(kind, exit)
           ELSE IF at >= Hold THEN PortfolioOne(kind, Exit("HARD_EXIT", c.close, at))
           ELSE PortfolioOne(KindAfter(kind, c),
                  LegExit(c, Target, StopOf(KindAfter(kind, c)), KindAfter(kind, c), at))
<1> DEFINE p == PortfolioOne(kind, exit)
           q == PortfolioOne(KindAfter(kind, c), exit)
<1>1. CASE exit # Open
  BY <1>1 DEF PortfolioCandle, PortfolioOne
<1>2. CASE exit = Open /\ at >= Hold
  <2>1. [p EXCEPT !.exit = Exit("HARD_EXIT", c.close, at)]
          = PortfolioOne(kind, Exit("HARD_EXIT", c.close, at))
    <3> DEFINE flag == IF kind = "protected" THEN TRUE ELSE FALSE
               x == Exit("HARD_EXIT", c.close, at)
    <3>1. p = [legs |-> 1, sum |-> 0, kind |-> kind, exit |-> exit, protected |-> flag]
      BY DEF PortfolioOne
    <3>2. PortfolioOne(kind, x) = [legs |-> 1, sum |-> 0, kind |-> kind, exit |-> x,
                                   protected |-> flag]
      BY DEF PortfolioOne
    <3> HIDE DEF flag, x, p
    <3>3. [p EXCEPT !.exit = x] = PortfolioOne(kind, x)
      BY <3>1, <3>2
    <3> QED BY <3>3 DEF x
  <2> QED BY <1>2, <2>1 DEF PortfolioCandle, PortfolioOne
<1>3. CASE exit = Open /\ ~(at >= Hold)
  <2>1. PortfolioAdds(p, c, funded) = p
    BY DEF PortfolioAdds, PortfolioOne
  <2>2. Average(0, 1) = 0
    BY DEF Average
  <2>3. PortfolioProtects(p, c) = q
    <3>1. 0 + Trigger = Trigger
      BY ReplayAssumption
    <3>2. p.protected <=> kind = "protected"
      BY DEF PortfolioOne
    <3>3. Average(p.sum, p.legs) = 0
      BY <2>2 DEF PortfolioOne
    <3>4. CASE Protects(c, kind = "protected")
      <4>1. PortfolioProtects(p, c) = [p EXCEPT !.kind = "protected", !.protected = TRUE]
        BY <3>1, <3>2, <3>3, <3>4 DEF PortfolioProtects, Protects
      <4> DEFINE before == IF kind = "protected" THEN TRUE ELSE FALSE
                 after == TRUE
                 r(k, f) == [legs |-> 1, sum |-> 0, kind |-> k, exit |-> exit, protected |-> f]
      <4>2. p = r(kind, before)
        BY DEF PortfolioOne
      <4>3. q = r("protected", after)
        BY <3>4 DEF PortfolioOne, KindAfter
      <4> HIDE DEF before, after, p, q
      <4>4. [r(kind, before) EXCEPT !.kind = "protected"] = r("protected", before)
        OBVIOUS
      <4>5. [r("protected", before) EXCEPT !.protected = after] = r("protected", after)
        OBVIOUS
      <4>6. [p EXCEPT !.kind = "protected", !.protected = after] = q
        BY <4>2, <4>3, <4>4, <4>5
      <4> QED BY <4>1, <4>6 DEF after
    <3>5. CASE ~Protects(c, kind = "protected")
      BY <3>1, <3>2, <3>3, <3>5 DEF PortfolioProtects, Protects, KindAfter
    <3> QED BY <3>4, <3>5
  <2>4. KindAfter(kind, c) \in {"initial", "protected"}
    BY DEF KindAfter
  <2>5. PortfolioCloses(q, c, at) =
          PortfolioOne(KindAfter(kind, c),
            LegExit(c, Target, StopOf(KindAfter(kind, c)), KindAfter(kind, c), at))
    <3>1. Average(q.sum, q.legs) = 0 /\ q.kind = KindAfter(kind, c)
      BY <2>2 DEF PortfolioOne
    <3>2. SharedStop(q) = StopOf(KindAfter(kind, c)) /\ 0 + Target = Target
      BY <3>1, <2>4, ReplayAssumption DEF SharedStop, StopOf
    <3> DEFINE x == LegExit(c, Target, StopOf(KindAfter(kind, c)), KindAfter(kind, c), at)
               k == KindAfter(kind, c)
               flag == IF k = "protected" THEN TRUE ELSE FALSE
    <3>3. PortfolioCloses(q, c, at) = [q EXCEPT !.exit = x]
      BY <3>1, <3>2 DEF PortfolioCloses
    <3>4. q = [legs |-> 1, sum |-> 0, kind |-> k, exit |-> exit, protected |-> flag]
      BY DEF PortfolioOne
    <3>5. PortfolioOne(k, x) = [legs |-> 1, sum |-> 0, kind |-> k, exit |-> x, protected |-> flag]
      BY DEF PortfolioOne
    <3> HIDE DEF flag, x, k, q
    <3>6. [q EXCEPT !.exit = x] = PortfolioOne(k, x)
      BY <3>4, <3>5
    <3> QED BY <3>3, <3>6 DEF x, k
  <2>6. p.exit = Open
    BY <1>3 DEF PortfolioOne
  <2>7. PortfolioCandle(p, c, at, funded) = PortfolioCloses(q, c, at)
    BY <1>3, <2>1, <2>3, <2>6 DEF PortfolioCandle
  <2> QED BY <1>3, <2>5, <2>7
<1> QED BY <1>1, <1>2, <1>3

LEMMA PortfolioOneForced ==
  ASSUME NEW kind, NEW exit
  PROVE  PortfolioForceCloses(PortfolioOne(kind, exit)) =
           PortfolioOne(kind, IF exit = Open THEN Exit("HARD_EXIT", last.close, last.at) ELSE exit)
<1> DEFINE p == PortfolioOne(kind, exit)
           x == Exit("HARD_EXIT", last.close, last.at)
           flag == IF kind = "protected" THEN TRUE ELSE FALSE
<1>1. p = [legs |-> 1, sum |-> 0, kind |-> kind, exit |-> exit, protected |-> flag]
  BY DEF PortfolioOne
<1>2. PortfolioOne(kind, x) = [legs |-> 1, sum |-> 0, kind |-> kind, exit |-> x, protected |-> flag]
  BY DEF PortfolioOne
<1>3. p.exit = exit
  BY DEF PortfolioOne
<1>4. PortfolioForceCloses(p) = IF p.exit = Open THEN [p EXCEPT !.exit = x] ELSE p
  BY DEF PortfolioForceCloses
<1>5. [p EXCEPT !.exit = x] = PortfolioOne(kind, x)
  <2> HIDE DEF p, x, flag
  <2> QED BY <1>1, <1>2
<1> QED BY <1>3, <1>4, <1>5

LEMMA LaterFacts ==
  ASSUME NEW kind \in {"initial", "protected"}, NEW c, NEW at
  PROVE  LET later == Later(StopOf(kind), kind, c, at) IN
         /\ later.kind \in {"initial", "protected"}
         /\ later.stop = StopOf(later.kind)
         /\ later.exits[1] = LegExit(c, Target, StopOf(kind), kind, at)
         /\ later.kind = "protected" =>
              \/ kind = "protected"
              \/ Protects(c, kind = "protected")
         /\ later = One(later.stop, later.kind, later.exits[1])
<1> DEFINE exit == LegExit(c, Target, StopOf(kind), kind, at)
           later == Later(StopOf(kind), kind, c, at)
<1>1. CASE exit # Open
  <2>1. later = One(StopOf(kind), kind, exit)
    BY <1>1 DEF Later
  <2> HIDE DEF exit, later
  <2> QED BY <2>1 DEF One, exit, later
<1>2. CASE exit = Open /\ Protects(c, kind = "protected")
  <2>1. later = One(Trail, "protected", exit)
    BY <1>2 DEF Later
  <2>2. StopOf("protected") = Trail
    BY DEF StopOf
  <2> HIDE DEF exit, later
  <2> QED BY <1>2, <2>1, <2>2 DEF One, exit, later
<1>3. CASE exit = Open /\ ~Protects(c, kind = "protected")
  <2>1. later = One(StopOf(kind), kind, exit)
    BY <1>3 DEF Later
  <2> HIDE DEF exit, later
  <2> QED BY <2>1 DEF One, exit, later
<1> QED BY <1>1, <1>2, <1>3

-----------------------------------------------------------------------------
LEMMA Initially == Init => IInv
<1> SUFFICES ASSUME Init PROVE IInv
  OBVIOUS
<1>1. TimeInv
  BY ReplayAssumption DEF Init, TimeInv, Setups
<1>2. Leg = Open /\ grid.exit = Open /\ portfolio.exit = Open
  BY DEF Init, Stage4Opens, GridOpens, PortfolioOpens, Leg
<1>3. GridInv
  <2>1. stage4 = One(-Stop, "initial", Open)
    BY DEF Init, Stage4Opens, One
  <2>2. grid.kind = "initial" /\ grid.stop = -Stop /\ last.at = 0
    BY DEF Init, GridOpens
  <2>3. grid = [stop |-> grid.stop, kind |-> grid.kind, exit |-> grid.exit]
    BY DEF Init, GridOpens
  <2> QED BY <1>2, <2>1, <2>2, <2>3 DEF GridInv, StopOf
<1>4. grid.kind = "initial" /\ portfolio.kind = "initial"
  BY DEF Init, GridOpens, PortfolioOpens
<1>5. SoonerInv
  <2>1. portfolio = PortfolioOne("initial", Open)
    BY DEF Init, PortfolioOpens, PortfolioOne
  <2>2. Leg.status = "open"
    BY <1>2 DEF Open, Exit
  <2> QED BY <1>2, <1>4, <2>1, <2>2 DEF SoonerInv, LevelStatuses
<1>6. PlainInv
  BY <1>2, <1>4 DEF PlainInv
<1> QED BY <1>1, <1>3, <1>5, <1>6 DEF IInv

(* A candle in the window.                                                   *)
LEMMA WindowStep ==
  ASSUME IInv, WindowCandle
  PROVE  IInv'
<1> PICK c \in Candles, funded \in BOOLEAN :
      /\ last' = [close |-> c.close, at |-> time + 1]
      /\ grid' = GridCandle(grid, c, time + 1)
      /\ stage4' = Stage4Candle(stage4, c, time + 1)
      /\ portfolio' = PortfolioCandle(portfolio, c, time + 1, funded)
  BY DEF WindowCandle
<1> DEFINE at == time + 1
<1>1. /\ ~ended /\ time < Hold /\ time' = at /\ setup' = setup /\ ended' = ended
      /\ time \in Nat /\ Hold \in Nat /\ at \in Nat /\ at > time /\ at > 0 /\ at <= Hold
  BY ReplayAssumption DEF WindowCandle, IInv, TimeInv
<1>2. last'.close = c.close /\ last'.at = at /\ c.close \in Int /\ c.high \in Int /\ c.low \in Int
  BY ReplayAssumption DEF Candles
<1>3. TimeInv'
  BY <1>1, <1>2 DEF IInv, TimeInv
<1> SUFFICES ASSUME setup.legs = 1 PROVE GridInv' /\ SoonerInv' /\ PlainInv'
  BY <1>1, <1>3 DEF IInv, GridInv, SoonerInv, PlainInv
<1> DEFINE kind == grid.kind
           later == Later(grid.stop, kind, c, at)
           pk == portfolio.kind
           pe == portfolio.exit
<1>4. /\ kind \in {"initial", "protected"} /\ grid.stop = StopOf(kind)
      /\ grid = [stop |-> grid.stop, kind |-> kind, exit |-> grid.exit]
      /\ stage4 = One(grid.stop, kind, Leg)
      /\ (grid.exit = Open) <=> (Leg = Open)
      /\ (Leg # Open => SameExit(grid.exit, Leg) /\ last.at > 0)
  BY <1>1 DEF IInv, GridInv, TimeInv
<1>5. CASE Leg # Open
  <2>1. stage4' = stage4 /\ grid' = grid
    <3>1. Stage4Candle(One(grid.stop, kind, Leg), c, at) = One(grid.stop, kind, Leg)
      BY <1>5, OneCandle
    <3>2. GridCandle(grid, c, at) = grid
      BY <1>4, <1>5 DEF GridCandle
    <3> QED BY <1>4, <3>1, <3>2
  <2>2. Leg' = Leg
    BY <2>1 DEF Leg
  <2>3. GridInv'
    BY <1>1, <1>2, <1>4, <1>5, <2>1, <2>2 DEF GridInv
  <2>4. CASE pe # Open
    <3>1. portfolio' = portfolio
      BY <2>4, PortfolioOneCandle DEF IInv, SoonerInv
    <3>2. SoonerInv'
      BY <1>1, <2>1, <2>2, <2>4, <3>1 DEF IInv, SoonerInv
    <3>3. PlainInv'
      BY <1>1, <1>2, <1>4, <1>5, <2>1, <2>2, <2>4, <3>1 DEF IInv, PlainInv
    <3> QED BY <2>3, <3>2, <3>3
  <2>5. CASE pe = Open
    <3>1. Leg.status \notin LevelStatuses
      BY <2>5 DEF IInv, SoonerInv
    <3>2. setup.protect
      BY <1>1, <1>5, <2>5 DEF IInv, PlainInv
    <3>3. PlainInv'
      BY <1>1, <3>2 DEF PlainInv
    <3>4. /\ pk \in {"initial", "protected"} /\ portfolio = PortfolioOne(pk, pe)
          /\ (kind = "protected" => pk = "protected")
      BY <2>5 DEF IInv, SoonerInv
    <3> DEFINE k2 == IF at >= Hold THEN pk ELSE KindAfter(pk, c)
               x == IF at >= Hold THEN Exit("HARD_EXIT", c.close, at)
                    ELSE LegExit(c, Target, StopOf(k2), k2, at)
    <3>5. portfolio' = PortfolioOne(k2, x)
      BY <2>5, <3>4, PortfolioOneCandle
    <3>6. k2 \in {"initial", "protected"} /\ (kind = "protected" => k2 = "protected")
      BY <3>4 DEF KindAfter
    <3>7. x # Open => x.at = at
      BY LegExitFacts DEF Exit
    <3> HIDE DEF k2, x
    <3>8. portfolio'.kind = k2 /\ portfolio'.exit = x
      BY <3>5 DEF PortfolioOne
    <3>9. SoonerInv'
      BY <1>1, <2>1, <2>2, <3>1, <3>5, <3>6, <3>7, <3>8 DEF SoonerInv
    <3> QED BY <2>3, <3>3, <3>9
  <2> QED BY <2>4, <2>5
<1>6. CASE Leg = Open
  <2>1. stage4' = later
    BY <1>4, <1>6, OneCandle
  <2>2. grid' = [stop |-> later.stop, kind |-> later.kind, exit |-> later.exits[1]]
    BY <1>4, <1>6, GridOneCandle
  <2>3. /\ later.kind \in {"initial", "protected"} /\ later.stop = StopOf(later.kind)
        /\ later.exits[1] = LegExit(c, Target, StopOf(kind), kind, at)
        /\ (later.kind = "protected" => kind = "protected" \/ Protects(c, kind = "protected"))
        /\ later = One(later.stop, later.kind, later.exits[1])
    BY <1>4, LaterFacts
  <2> DEFINE x == LegExit(c, Target, StopOf(kind), kind, at)
  <2> HIDE DEF later, x
  <2>4. /\ grid'.stop = later.stop /\ grid'.kind = later.kind /\ grid'.exit = x
        /\ Leg' = x
    BY <2>1, <2>2, <2>3 DEF Leg, x
  <2>5. GridInv'
    BY <1>1, <1>2, <2>1, <2>2, <2>3, <2>4 DEF GridInv, SameExit, x
  <2>6. x # Open => x.status \in LevelStatuses /\ x.at = at
    BY LegExitFacts DEF x
  <2>7. x.status \in LevelStatuses => x # Open
    BY DEF Open, Exit, LevelStatuses
  <2>8. CASE pe # Open
    <3>1. portfolio' = portfolio
      BY <2>8, PortfolioOneCandle DEF IInv, SoonerInv
    <3>2. SoonerInv'
      BY <1>1, <2>4, <2>6, <2>7, <2>8, <3>1 DEF IInv, SoonerInv
    <3>3. setup.protect
      BY <1>1, <1>6, <2>8 DEF IInv, PlainInv
    <3>4. PlainInv'
      BY <1>1, <3>3 DEF PlainInv
    <3> QED BY <2>5, <3>2, <3>4
  <2>9. CASE pe = Open
    <3>1. /\ pk \in {"initial", "protected"} /\ portfolio = PortfolioOne(pk, pe)
          /\ (kind = "protected" => pk = "protected")
      BY <2>9 DEF IInv, SoonerInv
    <3>2. CASE at >= Hold
      <4> DEFINE y == Exit("HARD_EXIT", c.close, at)
      <4>1. portfolio' = PortfolioOne(pk, y)
        BY <2>9, <3>1, <3>2, PortfolioOneCandle
      <4>2. y # Open /\ y.at = at /\ at = Hold
        BY <1>1, <3>2 DEF Open, Exit
      <4> HIDE DEF y
      <4>3. portfolio'.kind = pk /\ portfolio'.exit = y
        BY <4>1 DEF PortfolioOne
      <4>4. SoonerInv'
        BY <1>1, <2>4, <2>6, <2>7, <3>1, <4>1, <4>2, <4>3 DEF SoonerInv
      <4>5. ASSUME ~setup.protect PROVE PlainInv'
        <5>1. kind = "initial" /\ pk = "initial"
          BY <4>5 DEF IInv, PlainInv
        <5>2. later.kind = "initial"
          BY <2>3, <4>5, <5>1 DEF Protects
        <5>3. y = Exit("HARD_EXIT", last'.close, Hold) /\ last'.at = Hold
          BY <1>2, <4>2 DEF y
        <5>4. x.status # "HARD_EXIT" \/ x = Open
          BY <2>6 DEF LevelStatuses
        <5> QED BY <1>1, <2>4, <2>6, <4>2, <4>3, <5>1, <5>2, <5>3, <5>4 DEF PlainInv
      <4> QED BY <1>1, <2>5, <4>4, <4>5 DEF PlainInv
    <3>3. CASE ~(at >= Hold)
      <4> DEFINE k2 == KindAfter(pk, c)
                 y == LegExit(c, Target, StopOf(k2), k2, at)
      <4>1. portfolio' = PortfolioOne(k2, y)
        BY <2>9, <3>1, <3>3, PortfolioOneCandle
      <4>2. k2 \in {"initial", "protected"} /\ (kind = "protected" => k2 = "protected")
        BY <3>1 DEF KindAfter
      <4>3. later.kind = "protected" => k2 = "protected"
        BY <2>3, <3>1 DEF KindAfter, Protects
      <4>4. y # Open => y.at = at
        BY LegExitFacts
      <4>5. x # Open => y # Open
        <5>1. StopOf(kind) <= StopOf(k2) /\ StopOf(kind) \in Int /\ StopOf(k2) \in Int
          BY <1>4, <4>2, ReplayAssumption DEF StopOf
        <5>2. SlHit(c, StopOf(kind)) => SlHit(c, StopOf(k2))
          BY <1>2, <5>1 DEF SlHit
        <5> QED BY <5>2, LegExitFacts DEF x
      <4>6. ~setup.protect => k2 = pk /\ (kind = "initial" => later.kind = "initial")
        BY <1>4, <2>3, <3>1 DEF KindAfter, Protects
      <4>7. pk = kind => (~setup.protect => y = x)
        BY <4>6 DEF x
      <4> HIDE DEF k2, y
      <4>8. portfolio'.kind = k2 /\ portfolio'.exit = y
        BY <4>1 DEF PortfolioOne
      <4>9. SoonerInv'
        BY <1>1, <2>4, <2>6, <2>7, <4>1, <4>2, <4>3, <4>4, <4>5, <4>8 DEF SoonerInv
      <4>10. ASSUME ~setup.protect PROVE PlainInv'
        <5>1. kind = "initial" /\ pk = "initial"
          BY <4>10 DEF IInv, PlainInv
        <5>2. y = x /\ k2 = "initial" /\ later.kind = "initial"
          BY <4>6, <4>7, <4>10, <5>1
        <5> QED BY <1>1, <1>2, <2>4, <4>8, <5>2 DEF PlainInv
      <4> QED BY <1>1, <2>5, <4>9, <4>10 DEF PlainInv
    <3> QED BY <3>2, <3>3
  <2> QED BY <2>8, <2>9
<1> QED BY <1>5, <1>6

(* A candle after the window.                                                *)
LEMMA LateStep ==
  ASSUME IInv, LateCandle
  PROVE  IInv'
<1> DEFINE at == time + 1
           pk == portfolio.kind
           pe == portfolio.exit
<1> PICK c \in Candles, funded \in BOOLEAN :
      portfolio' = PortfolioCandle(portfolio, c, at, funded)
  BY DEF LateCandle
<1>1. /\ time' = at /\ setup' = setup /\ ended' = ended /\ last' = last
      /\ grid' = grid /\ stage4' = stage4 /\ Leg' = Leg
      /\ time \in Nat /\ Hold \in Nat /\ at \in Nat /\ at > time /\ time >= Hold /\ at > Hold
  BY ReplayAssumption DEF LateCandle, IInv, TimeInv, Leg
<1>2. TimeInv'
  BY <1>1 DEF IInv, TimeInv
<1>3. GridInv'
  BY <1>1 DEF IInv, GridInv
<1> SUFFICES ASSUME setup.legs = 1 PROVE SoonerInv' /\ PlainInv'
  BY <1>1, <1>2, <1>3 DEF IInv, SoonerInv, PlainInv
<1>4. pk \in {"initial", "protected"} /\ portfolio = PortfolioOne(pk, pe)
  BY DEF IInv, SoonerInv
<1>5. CASE pe # Open
  <2>1. portfolio' = portfolio
    BY <1>5 DEF PortfolioCandle
  <2>2. SoonerInv'
    BY <1>1, <1>5, <2>1 DEF IInv, SoonerInv
  <2>3. PlainInv'
    BY <1>1, <1>5, <2>1 DEF IInv, PlainInv
  <2> QED BY <2>2, <2>3
<1>6. CASE pe = Open
  <2> DEFINE y == Exit("HARD_EXIT", c.close, at)
  <2>1. portfolio' = PortfolioOne(pk, y)
    BY <1>1, <1>4, <1>6, PortfolioOneCandle
  <2>2. y # Open /\ y.at = at
    BY DEF Open, Exit
  <2> HIDE DEF y
  <2>3. portfolio'.kind = pk /\ portfolio'.exit = y
    BY <2>1 DEF PortfolioOne
  <2>4. Leg.status \notin LevelStatuses
    BY <1>6 DEF IInv, SoonerInv
  <2>5. grid.kind = "protected" => pk = "protected"
    BY <1>6 DEF IInv, SoonerInv
  <2>6. SoonerInv'
    BY <1>1, <1>4, <2>1, <2>2, <2>3, <2>4, <2>5 DEF SoonerInv
  <2>7. PlainInv'
    BY <1>1, <2>2, <2>3 DEF IInv, PlainInv
  <2> QED BY <2>6, <2>7
<1> QED BY <1>5, <1>6

(* A missing candle.                                                         *)
LEMMA GapStep ==
  ASSUME IInv, Gap
  PROVE  IInv'
<1>1. /\ time' = time + 1 /\ setup' = setup /\ ended' = ended /\ last' = last
      /\ grid' = grid /\ stage4' = stage4 /\ portfolio' = portfolio /\ Leg' = Leg
      /\ time \in Nat /\ Hold \in Nat
  BY ReplayAssumption DEF Gap, IInv, TimeInv, Leg
<1>2. TimeInv'
  BY <1>1 DEF IInv, TimeInv
<1>3. GridInv'
  BY <1>1 DEF IInv, GridInv
<1>4. SoonerInv'
  BY <1>1 DEF IInv, SoonerInv
<1>5. PlainInv'
  BY <1>1 DEF IInv, PlainInv
<1> QED BY <1>2, <1>3, <1>4, <1>5 DEF IInv

(* The grid and Stage 4 end an open leg at the last close.                   *)
LEMMA TimesOut ==
  ASSUME IInv, setup.legs = 1,
         grid' = GridTimesOut(grid), stage4' = Stage4TimesOut(stage4),
         last' = last, setup' = setup,
         ended' \/ time' >= Hold
  PROVE  /\ GridInv'
         /\ grid'.kind = grid.kind
         /\ Leg # Open => Leg' = Leg
         /\ Leg = Open => /\ Leg' # Open /\ Leg'.status \notin LevelStatuses
                          /\ last.at > 0 => Leg' = Exit("HARD_EXIT", last.close, last.at)
<1> DEFINE kind == grid.kind
           x == IF Leg # Open THEN Leg
                ELSE IF last.at = 0 THEN Exit("HARD_EXIT", 0, Hold)
                ELSE Exit("HARD_EXIT", last.close, last.at)
           y == Exit("TIME_EXIT", last.close, last.at)
<1>1. /\ kind \in {"initial", "protected"} /\ grid.stop = StopOf(kind)
      /\ grid = [stop |-> grid.stop, kind |-> kind, exit |-> grid.exit]
      /\ stage4 = One(grid.stop, kind, Leg)
      /\ (grid.exit = Open) <=> (Leg = Open)
      /\ (last.at > 0 => SameExit(grid.exit, Leg))
      /\ last.at \in Nat
  BY DEF IInv, GridInv, TimeInv
<1>2. stage4' = One(grid.stop, kind, x)
  BY <1>1, OneTimesOut
<1>3. Leg' = x
  BY <1>2 DEF Leg, One
<1>4. CASE Leg # Open
  <2>1. grid' = grid
    BY <1>1, <1>4 DEF GridTimesOut
  <2>2. Leg' = Leg
    BY <1>3, <1>4
  <2>3. x = Leg
    BY <1>4
  <2> HIDE DEF x
  <2> QED BY <1>1, <1>2, <1>4, <2>1, <2>2, <2>3 DEF GridInv
<1>5. CASE Leg = Open
  <2>1. grid' = [stop |-> grid.stop, kind |-> kind, exit |-> y]
    <3>1. grid' = [grid EXCEPT !.exit = y]
      BY <1>1, <1>5 DEF GridTimesOut
    <3> HIDE DEF y
    <3> QED BY <1>1, <3>1
  <2>2. grid'.exit = y /\ grid'.stop = grid.stop /\ grid'.kind = kind
    BY <2>1
  <2>3. x # Open /\ x.status \notin LevelStatuses /\ y # Open
    BY <1>5 DEF Exit, Open, LevelStatuses
  <2>4. last.at > 0 => x = Exit("HARD_EXIT", last.close, last.at)
    BY <1>1, <1>5
  <2>5. last.at > 0 => SameExit(y, x)
    BY <2>4 DEF SameExit, Exit
  <2> HIDE DEF x, y
  <2>6. GridInv'
    BY <1>1, <1>2, <1>3, <2>1, <2>2, <2>3, <2>5 DEF GridInv
  <2> QED BY <1>3, <1>5, <2>2, <2>3, <2>4, <2>6
<1> QED BY <1>4, <1>5

LEMMA CutoffStep ==
  ASSUME IInv, Cutoff
  PROVE  IInv'
<1>1. /\ time' = time /\ setup' = setup /\ ended' = ended /\ last' = last
      /\ portfolio' = portfolio /\ time \in Nat /\ Hold \in Nat /\ time >= Hold
      /\ last.at \in Nat
  BY ReplayAssumption DEF Cutoff, IInv, TimeInv
<1>2. TimeInv'
  BY <1>1 DEF IInv, TimeInv
<1> SUFFICES ASSUME setup.legs = 1 PROVE GridInv' /\ SoonerInv' /\ PlainInv'
  BY <1>1, <1>2 DEF IInv, GridInv, SoonerInv, PlainInv
<1>3. /\ GridInv'
      /\ grid'.kind = grid.kind
      /\ Leg # Open => Leg' = Leg
      /\ Leg = Open => /\ Leg' # Open /\ Leg'.status \notin LevelStatuses
                       /\ last.at > 0 => Leg' = Exit("HARD_EXIT", last.close, last.at)
  BY <1>1, TimesOut DEF Cutoff
<1>4. SoonerInv'
  BY <1>1, <1>3 DEF IInv, SoonerInv
<1>5. PlainInv'
  BY <1>1, <1>3 DEF IInv, PlainInv
<1> QED BY <1>3, <1>4, <1>5

LEMMA EndStep ==
  ASSUME IInv, DataEnds
  PROVE  IInv'
<1>1. /\ time' = time /\ setup' = setup /\ ended' /\ last' = last
      /\ time \in Nat /\ Hold \in Nat /\ last.at \in Nat /\ last.at <= time
  BY ReplayAssumption DEF DataEnds, IInv, TimeInv
<1>2. TimeInv'
  BY <1>1 DEF IInv, TimeInv
<1> SUFFICES ASSUME setup.legs = 1 PROVE GridInv' /\ SoonerInv' /\ PlainInv'
  BY <1>1, <1>2 DEF IInv, GridInv, SoonerInv, PlainInv
<1>3. /\ GridInv'
      /\ grid'.kind = grid.kind
      /\ Leg # Open => Leg' = Leg
      /\ Leg = Open => /\ Leg' # Open /\ Leg'.status \notin LevelStatuses
                       /\ last.at > 0 => Leg' = Exit("HARD_EXIT", last.close, last.at)
  BY <1>1, TimesOut DEF DataEnds
<1> DEFINE pk == portfolio.kind
           pe == portfolio.exit
           y == IF pe = Open THEN Exit("HARD_EXIT", last.close, last.at) ELSE pe
<1>4. pk \in {"initial", "protected"} /\ portfolio = PortfolioOne(pk, pe)
  BY DEF IInv, SoonerInv
<1>5. portfolio' = PortfolioOne(pk, y)
  BY <1>4, PortfolioOneForced DEF DataEnds
<1>6. y # Open /\ (pe # Open => y = pe)
      /\ (pe = Open => y = Exit("HARD_EXIT", last.close, last.at) /\ y.at = last.at)
  BY DEF Open, Exit
<1> HIDE DEF y
<1>7. portfolio'.kind = pk /\ portfolio'.exit = y
  BY <1>5 DEF PortfolioOne
<1>8. SoonerInv'
  BY <1>1, <1>3, <1>4, <1>5, <1>6, <1>7 DEF IInv, SoonerInv
<1>9. PlainInv'
  BY <1>1, <1>3, <1>6, <1>7 DEF IInv, PlainInv
<1> QED BY <1>3, <1>8, <1>9

LEMMA Inductive == IInv /\ [Next]_vars => IInv'
<1> SUFFICES ASSUME IInv, [Next]_vars PROVE IInv'
  OBVIOUS
<1>1. CASE WindowCandle
  BY <1>1, WindowStep
<1>2. CASE LateCandle
  BY <1>2, LateStep
<1>3. CASE Gap
  BY <1>3, GapStep
<1>4. CASE Cutoff
  BY <1>4, CutoffStep
<1>5. CASE DataEnds
  BY <1>5, EndStep
<1>6. CASE UNCHANGED vars
  BY <1>6 DEF vars, IInv, TimeInv, GridInv, SoonerInv, PlainInv, Leg
<1> QED BY <1>1, <1>2, <1>3, <1>4, <1>5, <1>6 DEF Next

LEMMA Invariance == Spec => []IInv
  BY Initially, Inductive, PTL DEF Spec

-----------------------------------------------------------------------------
(* For any levels and any window: the grid's verdict on a candidate of one   *)
(* leg is the exit Stage 4 replays (grid_search.py 598-625).                 *)
THEOREM GridAgrees == Spec => []GridMatchesStage4
<1>1. IInv => GridMatchesStage4
  <2> SUFFICES ASSUME IInv, setup.legs = 1, last.at > 0
               PROVE  /\ grid.stop = stage4.stop
                      /\ (grid.kind = "protected") = stage4.protected
                      /\ SameExit(grid.exit, stage4.exits[1])
    BY DEF GridMatchesStage4
  <2>1. stage4 = One(grid.stop, grid.kind, Leg) /\ SameExit(grid.exit, Leg)
    BY DEF IInv, GridInv
  <2>2. stage4.stop = grid.stop
    BY <2>1 DEF One
  <2>3. (grid.kind = "protected") = stage4.protected
    BY <2>1 DEF One
  <2> QED BY <2>1, <2>2, <2>3 DEF Leg
<1> QED BY <1>1, Invariance, PTL

(* For any levels and any window: a plain candidate ends in the portfolio as *)
(* in Stage 4, but for the candle of the cutoff and missing candles          *)
(* (portfolio_backtest.py 757-760).                                          *)
THEOREM PortfolioAgrees == Spec => []PortfolioMatchesStage4
<1>1. IInv => PortfolioMatchesStage4
  <2> SUFFICES ASSUME IInv, setup.legs = 1, ~setup.protect,
                      Leg # Open, portfolio.exit # Open,
                      last.at > 0, portfolio.exit.at <= Hold
               PROVE  \/ portfolio.exit = Leg
                      \/ /\ Leg.at = Hold /\ Leg.status # "HARD_EXIT"
                         /\ portfolio.exit = Exit("HARD_EXIT", last.close, Hold)
    BY DEF PortfolioMatchesStage4, Leg
  <2>1. portfolio.exit.at \in Nat /\ Hold \in Nat
    BY ReplayAssumption DEF IInv, SoonerInv
  <2> QED BY <2>1 DEF IInv, PlainInv
<1> QED BY <1>1, Invariance, PTL

(* For any levels and any window: with protection too, the portfolio is out  *)
(* of a trade no later than a level took Stage 4 out of it                   *)
(* (portfolio_backtest.py 811-826).                                          *)
THEOREM PortfolioSooner == Spec => []PortfolioExitsNoLater
<1>1. IInv => PortfolioExitsNoLater
  BY DEF IInv, SoonerInv, PortfolioExitsNoLater, LevelStatuses, Leg
<1> QED BY <1>1, Invariance, PTL

-----------------------------------------------------------------------------
(* The pyramid search and Stage 4, whatever the number of legs.              *)

Tag(exit) == CASE exit.status = "TP" -> "TP"
               [] exit.status = "INITIAL_SL" -> "SL"
               [] OTHER -> "open"

ExitSet == [status : {"open", "TP", "INITIAL_SL", "HARD_EXIT"}, price : Int, at : Nat]

PyramidForm(p) ==
  p \in [entries : Seq(Int), sum : Int, outcome : Seq({"open", "TP", "SL"}), stop : Int,
         pnl : {p.pnl}]

Stage4Form(s) ==
  s \in [entries : Seq(Int), sum : Int, exits : Seq(ExitSet), stop : Int,
         kind : {"initial", "breakeven"}, protected : BOOLEAN]

Alike(p, s) ==
  /\ PyramidForm(p) /\ Stage4Form(s)
  /\ p.entries = s.entries /\ p.sum = s.sum /\ p.stop = s.stop
  /\ Len(s.entries) \in Nat \ {0}
  /\ Len(s.exits) = Len(s.entries) /\ Len(p.outcome) = Len(s.entries)
  /\ \A i \in 1..Len(s.entries) :
       /\ p.outcome[i] = Tag(s.exits[i])
       /\ s.exits[i].status = "open" => s.exits[i] = Open

NoTimeout(s) == \A i \in 1..Len(s.entries) : s.exits[i].status # "HARD_EXIT"

LEMMA AverageInt ==
  ASSUME NEW sum \in Int, NEW n \in Nat \ {0}
  PROVE  Average(sum, n) \in Int
  BY DEF Average

LEMMA AppendLast ==
  ASSUME NEW T, NEW seq \in Seq(T), NEW e \in T
  PROVE  Append(seq, e)[Len(seq) + 1] = e
  OBVIOUS

LEMMA AddsAlike ==
  ASSUME NEW p, NEW s, NEW c, Alike(p, s), NoTimeout(s)
  PROVE  Alike(PyramidAdds(p, c), Stage4Adds(s, c)) /\ NoTimeout(Stage4Adds(s, c))
<1> DEFINE n == Len(s.entries)
           next == s.entries[n] + Step
           sum == s.sum + next
           entries == Append(s.entries, next)
           stop == IF setup.breakeven THEN Average(sum, n + 1) ELSE s.stop
           kind == IF setup.breakeven THEN "breakeven" ELSE s.kind
           p2 == [p EXCEPT !.entries = entries, !.sum = sum, !.outcome = Append(p.outcome, "open"),
                           !.stop = stop]
           s2 == [s EXCEPT !.entries = entries, !.sum = sum, !.exits = Append(s.exits, Open),
                           !.stop = stop, !.kind = kind]
<1>1. /\ PyramidForm(p) /\ Stage4Form(s) /\ n \in Nat \ {0}
      /\ p.entries = s.entries /\ p.sum = s.sum /\ p.stop = s.stop
      /\ Len(s.exits) = n /\ Len(p.outcome) = n
      /\ s.entries \in Seq(Int) /\ s.exits \in Seq(ExitSet) /\ s.sum \in Int /\ s.stop \in Int
      /\ p.outcome \in Seq({"open", "TP", "SL"}) /\ s.kind \in {"initial", "breakeven"}
  BY DEF Alike, PyramidForm, Stage4Form
<1>2. next \in Int /\ sum \in Int
  <2>1. s.entries[n] \in Int
    BY <1>1
  <2>2. Step \in Int
    BY ReplayAssumption
  <2>3. next \in Int
    BY <2>1, <2>2
  <2> HIDE DEF next
  <2> QED BY <1>1, <2>3
<1>3. stop \in Int /\ kind \in {"initial", "breakeven"}
  BY <1>1, <1>2, AverageInt
<1>4. Open \in ExitSet
  BY DEF Open, Exit, ExitSet
<1>5. /\ entries \in Seq(Int) /\ Len(entries) = n + 1
      /\ Append(s.exits, Open) \in Seq(ExitSet) /\ Len(Append(s.exits, Open)) = n + 1
      /\ Append(p.outcome, "open") \in Seq({"open", "TP", "SL"})
      /\ Len(Append(p.outcome, "open")) = n + 1
  BY <1>1, <1>2, <1>4
<1>6. CASE n < setup.legs /\ EntryHit(c, next)
  <2>1. PyramidAdds(p, c) = p2
    BY <1>1, <1>6 DEF PyramidAdds
  <2>2. Stage4Adds(s, c) = s2
    BY <1>6 DEF Stage4Adds
  <2> HIDE DEF stop, kind, next, sum, entries
  <2>3. /\ PyramidForm(p2) /\ p2.entries = entries /\ p2.sum = sum /\ p2.stop = stop
        /\ p2.outcome = Append(p.outcome, "open")
    BY <1>1, <1>2, <1>3, <1>5 DEF PyramidForm
  <2>4. /\ Stage4Form(s2) /\ s2.entries = entries /\ s2.sum = sum /\ s2.stop = stop
        /\ s2.exits = Append(s.exits, Open)
    BY <1>1, <1>2, <1>3, <1>5 DEF Stage4Form
  <2>5. ASSUME NEW i \in 1..n + 1
        PROVE  /\ Append(p.outcome, "open")[i] = Tag(Append(s.exits, Open)[i])
               /\ Append(s.exits, Open)[i].status = "open" => Append(s.exits, Open)[i] = Open
               /\ Append(s.exits, Open)[i].status # "HARD_EXIT"
    <3>1. CASE i = n + 1
      <4>1. Append(p.outcome, "open")[i] = "open" /\ Append(s.exits, Open)[i] = Open
        BY <1>1, <1>4, <3>1, AppendLast
      <4>2. Tag(Open) = "open" /\ Open.status = "open"
        BY DEF Tag, Open, Exit
      <4> QED BY <4>1, <4>2
    <3>2. CASE i # n + 1
      <4>1. i \in 1..n
        BY <1>1, <3>2
      <4>2. Append(p.outcome, "open")[i] = p.outcome[i] /\ Append(s.exits, Open)[i] = s.exits[i]
        BY <1>1, <4>1
      <4> QED BY <4>1, <4>2 DEF Alike, NoTimeout
    <3> QED BY <3>1, <3>2
  <2> HIDE DEF p2, s2
  <2>6. Alike(p2, s2) /\ NoTimeout(s2)
    <3>1. Len(p2.entries) = n + 1 /\ Len(s2.entries) = n + 1 /\ n + 1 \in Nat \ {0}
      BY <1>1, <1>5, <2>3, <2>4
    <3>2. Len(p2.outcome) = n + 1 /\ Len(s2.exits) = n + 1
      BY <1>5, <2>3, <2>4
    <3>3. NoTimeout(s2)
      BY <2>4, <2>5, <3>1 DEF NoTimeout
    <3>4. \A i \in 1..Len(s2.entries) :
            /\ p2.outcome[i] = Tag(s2.exits[i])
            /\ s2.exits[i].status = "open" => s2.exits[i] = Open
      BY <2>3, <2>4, <2>5, <3>1
    <3> QED BY <2>3, <2>4, <3>1, <3>2, <3>3, <3>4 DEF Alike
  <2> QED BY <2>1, <2>2, <2>6
<1>7. CASE ~(n < setup.legs /\ EntryHit(c, next))
  <2>1. PyramidAdds(p, c) = p
    BY <1>1, <1>7 DEF PyramidAdds
  <2>2. Stage4Adds(s, c) = s
    BY <1>7 DEF Stage4Adds
  <2> QED BY <2>1, <2>2
<1> QED BY <1>6, <1>7

LEMMA SeqOf ==
  ASSUME NEW T, NEW n \in Nat, NEW f, f = [i \in 1..n |-> f[i]], \A i \in 1..n : f[i] \in T
  PROVE  f \in Seq(T) /\ Len(f) = n
<1>1. f \in [1..n -> T]
  OBVIOUS
<1> QED BY <1>1

LEMMA ClosesAlike ==
  ASSUME NEW p, NEW s, NEW c \in Candles, NEW at \in Nat, Alike(p, s), NoTimeout(s)
  PROVE  Alike(PyramidCloses(p, c), Stage4Closes(s, c, at)) /\ NoTimeout(Stage4Closes(s, c, at))
<1> DEFINE n == Len(s.entries)
           outcome == [i \in DOMAIN p.outcome |->
                         IF LegHit(p, c, i) = "none" THEN p.outcome[i] ELSE LegHit(p, c, i)]
           exits == [i \in DOMAIN s.exits |->
                       IF s.exits[i] = Open
                       THEN LegExit(c, s.entries[i] + Target, s.stop, s.kind, at)
                       ELSE s.exits[i]]
           pnl == p.pnl + Books(p, c)
           p2 == [p EXCEPT !.outcome = outcome, !.pnl = pnl]
           s2 == [s EXCEPT !.exits = exits]
<1>1. /\ PyramidForm(p) /\ Stage4Form(s) /\ n \in Nat \ {0}
      /\ p.entries = s.entries /\ p.sum = s.sum /\ p.stop = s.stop
      /\ Len(s.exits) = n /\ Len(p.outcome) = n
      /\ s.entries \in Seq(Int) /\ s.exits \in Seq(ExitSet) /\ s.stop \in Int
      /\ p.outcome \in Seq({"open", "TP", "SL"}) /\ s.kind \in {"initial", "breakeven"}
  BY DEF Alike, PyramidForm, Stage4Form
<1>2. DOMAIN p.outcome = 1..n /\ DOMAIN s.exits = 1..n /\ DOMAIN s.entries = 1..n
  BY <1>1
<1>3. ASSUME NEW i \in 1..n
      PROVE  /\ exits[i] \in ExitSet /\ outcome[i] \in {"open", "TP", "SL"}
             /\ outcome[i] = Tag(exits[i])
             /\ exits[i].status = "open" => exits[i] = Open
             /\ exits[i].status # "HARD_EXIT"
  <2> DEFINE tp == s.entries[i] + Target
             exit == LegExit(c, tp, s.stop, s.kind, at)
             hit == Hit(c, tp, s.stop)
  <2>1. /\ p.outcome[i] = Tag(s.exits[i]) /\ s.exits[i] \in ExitSet
        /\ s.exits[i].status = "open" => s.exits[i] = Open
        /\ s.exits[i].status # "HARD_EXIT"
        /\ p.outcome[i] \in {"open", "TP", "SL"}
    BY <1>1 DEF Alike, NoTimeout
  <2>2. p.outcome[i] = "open" <=> s.exits[i] = Open
    BY <2>1 DEF Tag, ExitSet, Open, Exit
  <2>3. exits[i] = IF s.exits[i] = Open THEN exit ELSE s.exits[i]
    BY <1>2
  <2>4. LegHit(p, c, i) = IF p.outcome[i] = "open" THEN hit ELSE "none"
    BY <1>1 DEF LegHit
  <2>5. outcome[i] = IF LegHit(p, c, i) = "none" THEN p.outcome[i] ELSE LegHit(p, c, i)
    BY <1>2
  <2>6. tp \in Int /\ s.stop \in Int
    <3>1. s.entries[i] \in Int
      BY <1>1
    <3> QED BY <1>1, <3>1, ReplayAssumption
  <2>7. hit \in {"TP", "SL", "none"}
    BY DEF Hit
  <2>8. exit = CASE hit = "TP" -> Exit("TP", tp, at)
                 [] hit = "SL" -> Exit("INITIAL_SL", s.stop, at)
                 [] OTHER -> Open
    BY <1>1 DEF LegExit, SlStatus
  <2> HIDE DEF exits, outcome, exit, tp, hit
  <2>9. CASE s.exits[i] # Open
    BY <2>1, <2>2, <2>3, <2>4, <2>5, <2>9
  <2>10. CASE s.exits[i] = Open
    <3>1. exits[i] = exit
      BY <2>3, <2>10
    <3>2. outcome[i] = IF hit = "none" THEN "open" ELSE hit
      BY <2>2, <2>4, <2>5, <2>10
    <3>3. CASE hit = "TP"
      BY <2>6, <2>8, <3>1, <3>2, <3>3 DEF Tag, ExitSet, Exit
    <3>4. CASE hit = "SL"
      BY <2>6, <2>8, <3>1, <3>2, <3>4 DEF Tag, ExitSet, Exit
    <3>5. CASE hit = "none"
      <4>1. exit = Open /\ outcome[i] = "open"
        BY <2>8, <3>2, <3>5
      <4> QED BY <3>1, <4>1 DEF Tag, ExitSet, Open, Exit
    <3> QED BY <2>7, <3>3, <3>4, <3>5
  <2> QED BY <2>9, <2>10
<1>4. exits \in Seq(ExitSet) /\ Len(exits) = n
  <2>1. exits = [i \in 1..n |-> exits[i]]
    BY <1>2
  <2> HIDE DEF exits
  <2>2. \A i \in 1..n : exits[i] \in ExitSet
    BY <1>3
  <2>3. n \in Nat
    BY <1>1
  <2> HIDE DEF n
  <2> QED BY <2>1, <2>2, <2>3, SeqOf
<1>5. outcome \in Seq({"open", "TP", "SL"}) /\ Len(outcome) = n
  <2>1. outcome = [i \in 1..n |-> outcome[i]]
    BY <1>2
  <2> HIDE DEF outcome
  <2>2. \A i \in 1..n : outcome[i] \in {"open", "TP", "SL"}
    BY <1>3
  <2>3. n \in Nat
    BY <1>1
  <2> HIDE DEF n
  <2> QED BY <2>1, <2>2, <2>3, SeqOf
<1>6. PyramidCloses(p, c) = p2
  BY DEF PyramidCloses
<1>7. Stage4Closes(s, c, at) = s2
  BY DEF Stage4Closes
<1> HIDE DEF exits, outcome, pnl
<1>8. /\ PyramidForm(p2) /\ p2.entries = p.entries /\ p2.sum = p.sum /\ p2.stop = p.stop
      /\ p2.outcome = outcome
  BY <1>1, <1>5 DEF PyramidForm
<1>9. /\ Stage4Form(s2) /\ s2.entries = s.entries /\ s2.sum = s.sum /\ s2.stop = s.stop
      /\ s2.exits = exits
  BY <1>1, <1>4 DEF Stage4Form
<1> HIDE DEF p2, s2
<1>10. Alike(p2, s2) /\ NoTimeout(s2)
  BY <1>1, <1>3, <1>4, <1>5, <1>8, <1>9 DEF Alike, NoTimeout
<1> QED BY <1>6, <1>7, <1>10

LEMMA CandleAlike ==
  ASSUME NEW p, NEW s, NEW c \in Candles, NEW at \in Nat, Alike(p, s), NoTimeout(s), ~setup.protect
  PROVE  Alike(PyramidCandle(p, c), Stage4Candle(s, c, at)) /\ NoTimeout(Stage4Candle(s, c, at))
<1> DEFINE n == Len(s.entries)
<1>1. n \in Nat /\ s.exits \in Seq(ExitSet) /\ p.outcome \in Seq({"open", "TP", "SL"})
      /\ Len(s.exits) = n /\ Len(p.outcome) = n
  BY DEF Alike, PyramidForm, Stage4Form
<1>2. DOMAIN p.outcome = 1..n /\ DOMAIN s.exits = 1..n
  BY <1>1
<1>3. ASSUME NEW i \in 1..n PROVE p.outcome[i] = "open" <=> s.exits[i] = Open
  <2>1. /\ p.outcome[i] = Tag(s.exits[i]) /\ s.exits[i] \in ExitSet
        /\ s.exits[i].status = "open" => s.exits[i] = Open
        /\ s.exits[i].status # "HARD_EXIT"
    BY <1>1 DEF Alike, NoTimeout
  <2> QED BY <2>1 DEF Tag, ExitSet, Open, Exit
<1>4. AllOut(p) <=> Flat(s)
  BY <1>2, <1>3 DEF AllOut, Flat
<1>5. CASE Flat(s)
  BY <1>4, <1>5 DEF PyramidCandle, Stage4Candle
<1>6. CASE ~Flat(s)
  <2> DEFINE p2 == PyramidAdds(p, c)
             s2 == Stage4Adds(s, c)
             p3 == PyramidCloses(p2, c)
             s3 == Stage4Closes(s2, c, at)
  <2>1. PyramidCandle(p, c) = p3
    BY <1>4, <1>6 DEF PyramidCandle
  <2>2. Stage4Candle(s, c, at) = Stage4Protects(s3, c)
    BY <1>6 DEF Stage4Candle
  <2>3. Stage4Protects(s3, c) = s3
    BY DEF Stage4Protects, Protects
  <2>4. Alike(p2, s2) /\ NoTimeout(s2)
    BY AddsAlike
  <2> HIDE DEF p2, s2
  <2>5. Alike(p3, s3) /\ NoTimeout(s3)
    BY <2>4, ClosesAlike
  <2> QED BY <2>1, <2>2, <2>3, <2>5
<1> QED BY <1>5, <1>6

LEMMA TimesOutAlike ==
  ASSUME NEW p, NEW s, Alike(p, s), TimeInv
  PROVE  Alike(p, Stage4TimesOut(s))
<1> DEFINE n == Len(s.entries)
           exit == IF last.at = 0 THEN Exit("HARD_EXIT", 0, Hold)
                   ELSE Exit("HARD_EXIT", last.close, last.at)
           exits == [i \in DOMAIN s.exits |-> IF s.exits[i] = Open THEN exit ELSE s.exits[i]]
           s2 == [s EXCEPT !.exits = exits]
<1>1. PyramidForm(p) /\ Stage4Form(s) /\ n \in Nat /\ s.exits \in Seq(ExitSet) /\ Len(s.exits) = n
  BY DEF Alike, Stage4Form
<1>2. DOMAIN s.exits = 1..n
  BY <1>1
<1>3. exit \in ExitSet /\ exit.status = "HARD_EXIT"
  <2>1. last.close \in Int /\ last.at \in Nat /\ Hold \in Nat
    BY ReplayAssumption DEF TimeInv
  <2> QED BY <2>1 DEF Exit, ExitSet
<1>4. Stage4TimesOut(s) = s2
  BY DEF Stage4TimesOut
<1> HIDE DEF exit
<1>5. ASSUME NEW i \in 1..n
      PROVE  /\ exits[i] \in ExitSet /\ Tag(exits[i]) = Tag(s.exits[i])
             /\ exits[i].status = "open" => exits[i] = Open
  <2>1. exits[i] = IF s.exits[i] = Open THEN exit ELSE s.exits[i]
    BY <1>2
  <2>2. s.exits[i] \in ExitSet /\ (s.exits[i].status = "open" => s.exits[i] = Open)
    BY <1>1 DEF Alike
  <2> HIDE DEF exits
  <2>3. CASE s.exits[i] = Open
    <3>1. exits[i] = exit
      BY <2>1, <2>3
    <3>2. Tag(Open) = "open"
      BY DEF Tag, Open, Exit
    <3> QED BY <1>3, <2>3, <3>1, <3>2 DEF Tag
  <2>4. CASE s.exits[i] # Open
    BY <2>1, <2>2, <2>4
  <2> QED BY <2>3, <2>4
<1>6. exits \in Seq(ExitSet) /\ Len(exits) = n
  <2>1. exits = [i \in 1..n |-> exits[i]]
    BY <1>2
  <2> HIDE DEF exits
  <2>2. \A i \in 1..n : exits[i] \in ExitSet
    BY <1>5
  <2>3. n \in Nat
    BY <1>1
  <2> HIDE DEF n
  <2> QED BY <2>1, <2>2, <2>3, SeqOf
<1> HIDE DEF exits
<1>7. /\ Stage4Form(s2) /\ s2.entries = s.entries /\ s2.sum = s.sum /\ s2.stop = s.stop
      /\ s2.exits = exits
  BY <1>1, <1>6 DEF Stage4Form
<1> HIDE DEF s2
<1>8. Alike(p, s2)
  BY <1>1, <1>5, <1>6, <1>7 DEF Alike
<1> QED BY <1>4, <1>8

PairInv ==
  ~setup.protect =>
    Alike(pyramid, stage4) /\ (NoTimeout(stage4) \/ ended \/ time >= Hold)

LEMMA PairInitially == Init => PairInv
<1> SUFFICES ASSUME Init PROVE PairInv
  OBVIOUS
<1>1. Open \in ExitSet /\ Tag(Open) = "open" /\ Open.status = "open"
  BY DEF Open, Exit, ExitSet, Tag
<1> HIDE DEF Open
<1> DEFINE one == <<0>>
           exits == <<Open>>
           outcome == <<"open">>
<1>2. /\ one \in Seq(Int) /\ Len(one) = 1
      /\ exits \in Seq(ExitSet) /\ Len(exits) = 1 /\ exits[1] = Open
      /\ outcome \in Seq({"open", "TP", "SL"}) /\ Len(outcome) = 1 /\ outcome[1] = "open"
  BY <1>1
<1>3. -Stop \in Int
  BY ReplayAssumption
<1> HIDE DEF one, exits, outcome
<1>4. /\ pyramid.entries = one /\ pyramid.sum = 0 /\ pyramid.outcome = outcome
      /\ pyramid.stop = -Stop /\ PyramidForm(pyramid)
  BY <1>2, <1>3 DEF Init, PyramidOpens, PyramidForm, one, outcome
<1>5. /\ stage4.entries = one /\ stage4.sum = 0 /\ stage4.exits = exits
      /\ stage4.stop = -Stop /\ Stage4Form(stage4)
  BY <1>2, <1>3 DEF Init, Stage4Opens, Stage4Form, one, exits
<1>6. Len(stage4.entries) = 1 /\ Len(stage4.exits) = 1 /\ Len(pyramid.outcome) = 1
  BY <1>2, <1>4, <1>5
<1>7. ASSUME NEW i \in 1..Len(stage4.entries)
      PROVE  pyramid.outcome[i] = "open" /\ stage4.exits[i] = Open
  <2>1. i = 1
    BY <1>6
  <2> QED BY <1>2, <1>4, <1>5, <2>1
<1>8. Alike(pyramid, stage4)
  BY <1>1, <1>4, <1>5, <1>6, <1>7 DEF Alike
<1>9. NoTimeout(stage4)
  BY <1>1, <1>7 DEF NoTimeout
<1> QED BY <1>8, <1>9 DEF PairInv

LEMMA PairInductive == TimeInv /\ PairInv /\ [Next]_vars => PairInv'
<1> SUFFICES ASSUME TimeInv, PairInv, [Next]_vars PROVE PairInv'
  OBVIOUS
<1>1. time \in Nat /\ Hold \in Nat
  BY ReplayAssumption DEF TimeInv
<1>2. CASE WindowCandle
  <2> SUFFICES ASSUME ~setup.protect PROVE Alike(pyramid', stage4') /\ NoTimeout(stage4')
    BY <1>2 DEF WindowCandle, PairInv, NoTimeout
  <2>1. PICK c \in Candles : /\ pyramid' = PyramidCandle(pyramid, c)
                             /\ stage4' = Stage4Candle(stage4, c, time + 1)
    BY <1>2 DEF WindowCandle
  <2>2. Alike(pyramid, stage4) /\ NoTimeout(stage4) /\ time + 1 \in Nat
    BY <1>1, <1>2 DEF WindowCandle, PairInv
  <2>3. /\ Alike(PyramidCandle(pyramid, c), Stage4Candle(stage4, c, time + 1))
        /\ NoTimeout(Stage4Candle(stage4, c, time + 1))
    BY <2>2, CandleAlike
  <2> QED BY <2>1, <2>3
<1>3. CASE LateCandle
  BY <1>1, <1>3 DEF LateCandle, PairInv, Alike, NoTimeout
<1>4. CASE Gap
  BY <1>1, <1>4 DEF Gap, PairInv, Alike, NoTimeout
<1>5. CASE Cutoff
  BY <1>1, <1>5, TimesOutAlike DEF Cutoff, PairInv
<1>6. CASE DataEnds
  BY <1>1, <1>6, TimesOutAlike DEF DataEnds, PairInv
<1>7. CASE UNCHANGED vars
  BY <1>7 DEF vars, PairInv, Alike, NoTimeout
<1> QED BY <1>2, <1>3, <1>4, <1>5, <1>6, <1>7 DEF Next

(* For any levels, any number of legs and any window: without protection     *)
(* the pyramid search holds the legs, the stop and the outcomes Stage 4      *)
(* replays (pyramid.py 205-248).                                             *)
THEOREM PyramidAgrees == Spec => []PyramidMatchesStage4
<1>1. IInv => TimeInv
  BY DEF IInv
<1>2. PairInv => PyramidMatchesStage4
  <2> SUFFICES ASSUME Alike(pyramid, stage4)
               PROVE  /\ pyramid.entries = stage4.entries /\ pyramid.stop = stage4.stop
                      /\ \A i \in DOMAIN pyramid.outcome : pyramid.outcome[i] = Tag(stage4.exits[i])
    BY DEF PairInv, PyramidMatchesStage4, Tag
  <2>1. DOMAIN pyramid.outcome = 1..Len(stage4.entries)
    BY DEF Alike, PyramidForm
  <2> QED BY <2>1 DEF Alike
<1>3. Spec => []PairInv
  BY PairInitially, PairInductive, Invariance, <1>1, PTL DEF Spec
<1> QED BY <1>2, <1>3, PTL

-----------------------------------------------------------------------------
(* Sums over finite sets.  The library folds a set by choosing a member, so  *)
(* a sum is the value of a recursive function that has to be shown to exist; *)
(* what holds of every finite set is proved by a smallest counterexample.    *)

First(s) == CHOOSE x \in s : TRUE
\* f is the fold of g over the subsets of S.
IsFold(f, g, S) ==
  f = [s \in SUBSET S |-> IF s = {} THEN 0 ELSE g[First(s)] + f[s \ {First(s)}]]

Fold(g, S) == CHOOSE f : IsFold(f, g, S)
Total(g, S) == Fold(g, S)[S]

LEMMA FirstIn ==
  ASSUME NEW s, s # {}
  PROVE  First(s) \in s /\ s \ {First(s)} \subseteq s /\ s \ {First(s)} # s
  BY DEF First

\* a set of sets with a member has a smallest one
LEMMA Smallest ==
  ASSUME NEW S, IsFiniteSet(S), NEW F, F \subseteq SUBSET S, F # {}
  PROVE  \E U \in F : \A V \in F : V \subseteq U => V = U
<1>1. IsWellFoundedOn(StrictSubsetOrdering(S), SUBSET S)
  BY FS_FiniteSubsetsOfFinite, FS_StrictSubsetOrderingWellFounded
<1>2. PICK U \in F : \A V \in F : ~ (<<V, U>> \in StrictSubsetOrdering(S))
  BY <1>1, WFMin
<1>3. ASSUME NEW V \in F, V \subseteq U PROVE V = U
  <2>1. V \in SUBSET S /\ U \in SUBSET S
    OBVIOUS
  <2>2. V # U => <<V, U>> \in StrictSubsetOrdering(S)
    BY <1>3, <2>1 DEF StrictSubsetOrdering
  <2> QED BY <1>2, <2>2
<1> QED
  BY <1>2, <1>3

LEMMA FoldValue ==
  ASSUME NEW g, NEW S, NEW f, IsFold(f, g, S), NEW s \in SUBSET S
  PROVE  f[s] = IF s = {} THEN 0 ELSE g[First(s)] + f[s \ {First(s)}]
<1>1. f = [t \in SUBSET S |-> IF t = {} THEN 0 ELSE g[First(t)] + f[t \ {First(t)}]]
  BY DEF IsFold
<1>2. PICK h : h = [t \in SUBSET S |-> IF t = {} THEN 0 ELSE g[First(t)] + f[t \ {First(t)}]]
  OBVIOUS
<1>3. h[s] = IF s = {} THEN 0 ELSE g[First(s)] + f[s \ {First(s)}]
  BY <1>2
<1>4. h = f
  BY <1>1, <1>2
<1>5. QED
  BY <1>3, <1>4

LEMMA FoldsAgree ==
  ASSUME NEW g, NEW S, IsFiniteSet(S), NEW a, NEW A, NEW b, NEW B,
         A \subseteq S, B \subseteq S, IsFold(a, g, A), IsFold(b, g, B)
  PROVE  \A s \in SUBSET (A \cap B) : a[s] = b[s]
<1> DEFINE Bad == {s \in SUBSET (A \cap B) : a[s] # b[s]}
<1>1. SUFFICES ASSUME Bad # {} PROVE FALSE
  OBVIOUS
<1>2. Bad \subseteq SUBSET S
  OBVIOUS
<1>3. PICK U \in Bad : \A V \in Bad : V \subseteq U => V = U
  <2> HIDE DEF Bad
  <2> QED BY <1>1, <1>2, Smallest
<1>4. U \in SUBSET A /\ U \in SUBSET B /\ a[U] # b[U]
  OBVIOUS
<1>5. CASE U = {}
  BY <1>4, <1>5, FoldValue
<1>6. CASE U # {}
  <2> DEFINE V == U \ {First(U)}
  <2>1. V \subseteq U /\ V # U
    BY <1>6, FirstIn
  <2>2. a[V] = b[V]
    BY <1>3, <1>4, <2>1
  <2>3. a[U] = g[First(U)] + a[V] /\ b[U] = g[First(U)] + b[V]
    BY <1>4, <1>6, FoldValue
  <2> QED
    BY <1>4, <2>2, <2>3
<1> QED
  BY <1>5, <1>6

LEMMA FoldExists ==
  ASSUME NEW g, NEW S, IsFiniteSet(S)
  PROVE  \A U \in SUBSET S : IsFold(Fold(g, U), g, U)
<1> DEFINE Bad == {U \in SUBSET S : ~ \E f : IsFold(f, g, U)}
<1>1. SUFFICES ASSUME Bad # {} PROVE FALSE
  BY DEF Fold
<1>2. PICK U \in Bad : \A V \in Bad : V \subseteq U => V = U
  <2>1. Bad \subseteq SUBSET S
    OBVIOUS
  <2> HIDE DEF Bad
  <2> QED BY <1>1, <2>1, Smallest
<1>3. \A V \in SUBSET U : V # U => IsFold(Fold(g, V), g, V)
  <2> SUFFICES ASSUME NEW V \in SUBSET U, V # U PROVE IsFold(Fold(g, V), g, V)
    OBVIOUS
  <2>1. \E f : IsFold(f, g, V)
    BY <1>2
  <2> QED
    BY <2>1 DEF Fold
<1> DEFINE Rest(s) == s \ {First(s)}
           h == [s \in SUBSET U |-> IF s = {} THEN 0 ELSE g[First(s)] + Fold(g, Rest(s))[Rest(s)]]
<1>4. \A s \in SUBSET U : s # {} => Rest(s) \in SUBSET U /\ Rest(s) # U
  BY FirstIn
<1>5. ASSUME NEW s \in SUBSET U, s # {}
      PROVE  h[Rest(s)] = Fold(g, Rest(s))[Rest(s)]
  <2> DEFINE V == Rest(s)
  <2>1. V \in SUBSET U /\ V # U /\ IsFold(Fold(g, V), g, V)
    BY <1>3, <1>4, <1>5
  <2>2. h[V] = IF V = {} THEN 0 ELSE g[First(V)] + Fold(g, Rest(V))[Rest(V)]
    BY <2>1
  <2>3. Fold(g, V)[V] = IF V = {} THEN 0 ELSE g[First(V)] + Fold(g, V)[Rest(V)]
    <3>1. PICK f : f = Fold(g, V)
      OBVIOUS
    <3>2. PICK W : W = V
      OBVIOUS
    <3>3. IsFold(f, g, W) /\ W \in SUBSET W
      BY <2>1, <3>1, <3>2
    <3>4. f[W] = IF W = {} THEN 0 ELSE g[First(W)] + f[W \ {First(W)}]
      BY <3>3, FoldValue
    <3> HIDE DEF V
    <3> QED BY <3>1, <3>2, <3>4
  <2>4. ASSUME V # {} PROVE Fold(g, V)[Rest(V)] = Fold(g, Rest(V))[Rest(V)]
    <3>1. Rest(V) \in SUBSET U /\ Rest(V) # U /\ Rest(V) \subseteq V
      BY <1>4, <2>1, <2>4
    <3>2. IsFold(Fold(g, Rest(V)), g, Rest(V))
      BY <1>3, <3>1
    <3>3. Rest(V) \in SUBSET (V \cap Rest(V)) /\ V \subseteq S /\ Rest(V) \subseteq S
      BY <2>1, <3>1
    <3> QED
      BY <2>1, <3>2, <3>3, FoldsAgree
  <2> HIDE DEF h, Rest, V
  <2> QED
    BY <2>2, <2>3, <2>4 DEF V
<1>6. h = [s \in SUBSET U |-> IF s = {} THEN 0 ELSE g[First(s)] + h[Rest(s)]]
  <2>1. \A s \in SUBSET U : s # {} => h[Rest(s)] = Fold(g, Rest(s))[Rest(s)]
    BY <1>5
  <2>2. PICK k : k = h
    OBVIOUS
  <2>3. \A s \in SUBSET U : s # {} => k[Rest(s)] = Fold(g, Rest(s))[Rest(s)]
    BY <2>1, <2>2
  <2>4. k = [s \in SUBSET U |-> IF s = {} THEN 0 ELSE g[First(s)] + Fold(g, Rest(s))[Rest(s)]]
    BY <2>2
  <2> HIDE DEF h, Rest
  <2>5. k = [s \in SUBSET U |-> IF s = {} THEN 0 ELSE g[First(s)] + k[Rest(s)]]
    BY <2>3, <2>4
  <2> QED
    BY <2>2, <2>5
<1>7. IsFold(h, g, U)
  BY <1>6 DEF IsFold
<1> QED
  BY <1>2, <1>7

LEMMA TotalStep ==
  ASSUME NEW g, NEW S, IsFiniteSet(S)
  PROVE  Total(g, S) = IF S = {} THEN 0 ELSE g[First(S)] + Total(g, S \ {First(S)})
<1> DEFINE V == S \ {First(S)}
<1>1. IsFold(Fold(g, S), g, S)
  BY FoldExists
<1>2. Total(g, S) = IF S = {} THEN 0 ELSE g[First(S)] + Fold(g, S)[V]
  BY <1>1, FoldValue DEF Total
<1>3. V \subseteq S /\ V \in SUBSET (S \cap V)
  OBVIOUS
<1>4. IsFold(Fold(g, V), g, V)
  BY <1>3, FoldExists
<1>5. Fold(g, S)[V] = Fold(g, V)[V]
  BY <1>1, <1>3, <1>4, FoldsAgree
<1> QED
  BY <1>2, <1>5 DEF Total

LEMMA TotalNone ==
  ASSUME NEW g
  PROVE  Total(g, {}) = 0
  BY FS_EmptySet, TotalStep

LEMMA TotalInt ==
  ASSUME NEW g, NEW S, IsFiniteSet(S), \A i \in S : g[i] \in Int
  PROVE  \A U \in SUBSET S : Total(g, U) \in Int
<1> DEFINE Bad == {U \in SUBSET S : Total(g, U) \notin Int}
<1>1. SUFFICES ASSUME Bad # {} PROVE FALSE
  OBVIOUS
<1>2. PICK U \in Bad : \A V \in Bad : V \subseteq U => V = U
  <2>1. Bad \subseteq SUBSET S
    OBVIOUS
  <2> HIDE DEF Bad
  <2> QED BY <1>1, <2>1, Smallest
<1>3. U \subseteq S /\ IsFiniteSet(U) /\ Total(g, U) \notin Int
  BY FS_Subset
<1>4. U # {}
  <2>1. U = {} => Total(g, U) = 0
    BY TotalNone
  <2> QED BY <1>3, <2>1
<1> DEFINE V == U \ {First(U)}
<1>5. First(U) \in U /\ V \subseteq U /\ V # U
  BY <1>4, FirstIn
<1>6. Total(g, U) = g[First(U)] + Total(g, V)
  BY <1>3, <1>4, TotalStep
<1>7. Total(g, V) \in Int
  BY <1>2, <1>3, <1>5
<1>8. g[First(U)] \in Int
  BY <1>3, <1>5
<1> QED
  BY <1>3, <1>6, <1>7, <1>8

LEMMA TotalWithout ==
  ASSUME NEW g, NEW S, IsFiniteSet(S), \A i \in S : g[i] \in Int
  PROVE  \A U \in SUBSET S : \A x \in U : Total(g, U) = g[x] + Total(g, U \ {x})
<1> DEFINE Bad == {U \in SUBSET S : \E x \in U : Total(g, U) # g[x] + Total(g, U \ {x})}
<1>1. SUFFICES ASSUME Bad # {} PROVE FALSE
  OBVIOUS
<1>2. PICK U \in Bad : \A V \in Bad : V \subseteq U => V = U
  <2>1. Bad \subseteq SUBSET S
    OBVIOUS
  <2> HIDE DEF Bad
  <2> QED BY <1>1, <2>1, Smallest
<1>3. PICK x \in U : Total(g, U) # g[x] + Total(g, U \ {x})
  OBVIOUS
<1>4. PICK y \in U : y = First(U)
  BY <1>3, FirstIn
<1>5. U \subseteq S /\ IsFiniteSet(U) /\ U # {}
  BY <1>3, FS_Subset
<1>6. Total(g, U) = g[y] + Total(g, U \ {y})
  BY <1>4, <1>5, TotalStep
<1>7. x # y
  BY <1>3, <1>6
<1>8. \A V \in SUBSET U : V # U => \A z \in V : Total(g, V) = g[z] + Total(g, V \ {z})
  <2> TAKE V \in SUBSET U
  <2>1. V \in SUBSET S
    BY <1>5
  <2> QED BY <1>2, <2>1
<1>9. Total(g, U \ {y}) = g[x] + Total(g, (U \ {y}) \ {x})
  BY <1>7, <1>8
<1>10. Total(g, U \ {x}) = g[y] + Total(g, (U \ {x}) \ {y})
  BY <1>7, <1>8
<1>11. PICK W : W = (U \ {y}) \ {x}
  OBVIOUS
<1>12. (U \ {x}) \ {y} = W
  BY <1>11
<1>13. Total(g, W) \in Int
  BY <1>5, <1>11, TotalInt
<1>14. g[x] \in Int /\ g[y] \in Int
  BY <1>5
<1>15. Total(g, U) = g[y] + (g[x] + Total(g, W))
  BY <1>6, <1>9, <1>11
<1>16. Total(g, U \ {x}) = g[y] + Total(g, W)
  BY <1>10, <1>12
<1> HIDE DEF Bad
<1>17. g[y] + (g[x] + Total(g, W)) = g[x] + (g[y] + Total(g, W))
  BY <1>13, <1>14
<1> QED
  BY <1>3, <1>15, <1>16, <1>17

\* What is zero outside a part adds up to the part.
LEMMA TotalOfPart ==
  ASSUME NEW g, NEW h, NEW D, IsFiniteSet(D), NEW A \in SUBSET D,
         \A i \in A : g[i] \in Int /\ h[i] = g[i], \A i \in D \ A : h[i] = 0
  PROVE  Total(h, D) = Total(g, A)
<1> DEFINE Bad == {U \in SUBSET D : Total(h, U) # Total(g, U \cap A)}
<1>1. SUFFICES ASSUME Bad # {} PROVE FALSE
  <2>1. D \notin Bad /\ D \cap A = A
    BY <1>1
  <2> QED BY <2>1
<1>2. PICK U \in Bad : \A V \in Bad : V \subseteq U => V = U
  <2>1. Bad \subseteq SUBSET D
    OBVIOUS
  <2> HIDE DEF Bad
  <2> QED BY <1>1, <2>1, Smallest
<1>3. U \subseteq D /\ IsFiniteSet(U) /\ Total(h, U) # Total(g, U \cap A)
  BY FS_Subset
<1>4. U # {}
  <2>1. U = {} => U \cap A = {}
    OBVIOUS
  <2>2. Total(h, {}) = 0 /\ Total(g, {}) = 0
    BY TotalNone
  <2> QED BY <1>3, <2>1, <2>2
<1>5. PICK x \in U : x = First(U)
  BY <1>4, FirstIn
<1>6. Total(h, U) = h[x] + Total(h, U \ {x})
  BY <1>3, <1>4, <1>5, TotalStep
<1>7. Total(h, U \ {x}) = Total(g, (U \ {x}) \cap A)
  <2>1. U \ {x} \subseteq U /\ U \ {x} # U /\ U \ {x} \in SUBSET D
    BY <1>3
  <2> QED BY <1>2, <2>1
<1>8. IsFiniteSet(A) /\ U \cap A \in SUBSET A
  BY FS_Subset
<1>9. PICK W \in SUBSET A : W = (U \ {x}) \cap A
  OBVIOUS
<1>10. Total(g, W) \in Int
  BY <1>8, TotalInt
<1>11. CASE x \in A
  <2>1. Total(g, U \cap A) = g[x] + Total(g, (U \cap A) \ {x})
    BY <1>8, <1>11, TotalWithout
  <2>2. (U \cap A) \ {x} = W
    BY <1>9
  <2> QED BY <1>3, <1>6, <1>7, <1>9, <1>11, <2>1, <2>2
<1>12. CASE x \notin A
  <2>1. U \cap A = W /\ h[x] = 0
    BY <1>3, <1>9, <1>12
  <2>2. Total(g, U \cap A) = Total(g, W)
    BY <2>1
  <2>3. Total(h, U) = 0 + Total(g, W)
    BY <1>6, <1>7, <1>9, <2>1
  <2>4. 0 + Total(g, W) = Total(g, W)
    BY <1>10
  <2> QED BY <1>3, <2>2, <2>3, <2>4
<1> QED
  BY <1>11, <1>12

LEMMA TotalSame ==
  ASSUME NEW g, NEW h, NEW D, IsFiniteSet(D), \A i \in D : g[i] \in Int /\ h[i] = g[i]
  PROVE  Total(h, D) = Total(g, D)
  BY TotalOfPart

LEMMA TotalsAtMost ==
  ASSUME NEW a, NEW b, NEW h, NEW D, IsFiniteSet(D),
         \A i \in D : a[i] \in Int /\ b[i] \in Int /\ h[i] \in Int /\ a[i] + b[i] <= h[i]
  PROVE  Total(a, D) + Total(b, D) <= Total(h, D)
<1> DEFINE Bad == {U \in SUBSET D : ~(Total(a, U) + Total(b, U) <= Total(h, U))}
<1>1. SUFFICES ASSUME Bad # {} PROVE FALSE
  OBVIOUS
<1>2. PICK U \in Bad : \A V \in Bad : V \subseteq U => V = U
  <2>1. Bad \subseteq SUBSET D
    OBVIOUS
  <2> HIDE DEF Bad
  <2> QED BY <1>1, <2>1, Smallest
<1>3. U \subseteq D /\ IsFiniteSet(U) /\ ~(Total(a, U) + Total(b, U) <= Total(h, U))
  BY FS_Subset
<1>4. U # {}
  <2>1. Total(a, {}) = 0 /\ Total(b, {}) = 0 /\ Total(h, {}) = 0
    BY TotalNone
  <2>2. Total(a, {}) + Total(b, {}) <= Total(h, {})
    BY <2>1
  <2>3. U # {}
    BY <1>3, <2>2
  <2> QED BY <2>3
<1>5. PICK x \in U : x = First(U)
  BY <1>4, FirstIn
<1>6. PICK V \in SUBSET U : V = U \ {x}
  OBVIOUS
<1>7. /\ Total(a, U) = a[x] + Total(a, V) /\ Total(b, U) = b[x] + Total(b, V)
      /\ Total(h, U) = h[x] + Total(h, V)
  BY <1>3, <1>4, <1>5, <1>6, TotalStep
<1>8. Total(a, V) + Total(b, V) <= Total(h, V)
  <2>1. V # U /\ V \in SUBSET D
    BY <1>3, <1>6
  <2> QED BY <1>2, <2>1
<1>9. Total(a, V) \in Int /\ Total(b, V) \in Int /\ Total(h, V) \in Int
  <2>1. V \in SUBSET D
    BY <1>3
  <2>2. (\A i \in D : a[i] \in Int) /\ (\A i \in D : b[i] \in Int) /\ (\A i \in D : h[i] \in Int)
    OBVIOUS
  <2> QED BY <2>1, <2>2, TotalInt
<1>10. a[x] \in Int /\ b[x] \in Int /\ h[x] \in Int /\ a[x] + b[x] <= h[x]
  BY <1>3
<1> QED
  BY <1>3, <1>7, <1>8, <1>9, <1>10

LEMMA TotalsAdd ==
  ASSUME NEW a, NEW b, NEW h, NEW D, IsFiniteSet(D),
         \A i \in D : a[i] \in Int /\ b[i] \in Int /\ h[i] = a[i] + b[i]
  PROVE  Total(h, D) = Total(a, D) + Total(b, D)
<1> DEFINE Bad == {U \in SUBSET D : Total(h, U) # Total(a, U) + Total(b, U)}
<1>1. SUFFICES ASSUME Bad # {} PROVE FALSE
  OBVIOUS
<1>2. PICK U \in Bad : \A V \in Bad : V \subseteq U => V = U
  <2>1. Bad \subseteq SUBSET D
    OBVIOUS
  <2> HIDE DEF Bad
  <2> QED BY <1>1, <2>1, Smallest
<1>3. U \subseteq D /\ IsFiniteSet(U) /\ Total(h, U) # Total(a, U) + Total(b, U)
  BY FS_Subset
<1>4. U # {}
  <2>1. Total(a, {}) = 0 /\ Total(b, {}) = 0 /\ Total(h, {}) = 0
    BY TotalNone
  <2> QED BY <1>3, <2>1
<1>5. PICK x \in U : x = First(U)
  BY <1>4, FirstIn
<1>6. PICK V \in SUBSET U : V = U \ {x}
  OBVIOUS
<1>7. /\ Total(a, U) = a[x] + Total(a, V) /\ Total(b, U) = b[x] + Total(b, V)
      /\ Total(h, U) = h[x] + Total(h, V)
  BY <1>3, <1>4, <1>5, <1>6, TotalStep
<1>8. Total(h, V) = Total(a, V) + Total(b, V)
  <2>1. V # U /\ V \in SUBSET D
    BY <1>3, <1>6
  <2> QED BY <1>2, <2>1
<1>9. Total(a, V) \in Int /\ Total(b, V) \in Int
  <2>1. V \in SUBSET D
    BY <1>3
  <2>2. (\A i \in D : a[i] \in Int) /\ (\A i \in D : b[i] \in Int)
    OBVIOUS
  <2> QED BY <2>1, <2>2, TotalInt
<1>10. a[x] \in Int /\ b[x] \in Int /\ h[x] = a[x] + b[x]
  BY <1>3
<1> QED
  BY <1>3, <1>7, <1>8, <1>9, <1>10

-----------------------------------------------------------------------------
(* What the pyramid search books, against what Stage 4 gains.                *)

ClosedOf(p) == {i \in DOMAIN p.outcome : p.outcome[i] # "open"}
Gains(s) == [i \in DOMAIN s.exits |-> s.exits[i].price - s.entries[i]]

\* What each leg books on a candle.
Bookings(p, c) ==
  [i \in DOMAIN p.entries |->
     CASE LegHit(p, c, i) = "TP" -> Target
       [] LegHit(p, c, i) = "SL" -> -Distance(p.entries[i], p.stop)
       [] OTHER -> 0]

\* The fold of Gain, as a function of the record.
GainFold(s, S) ==
  (CHOOSE f : f = [u \in SUBSET S |->
      IF u = {} THEN 0
      ELSE (s.exits[CHOOSE x \in u : TRUE].price - s.entries[CHOOSE x \in u : TRUE])
             + f[u \ {CHOOSE x \in u : TRUE}]])[S]

LEMMA GainIs ==
  /\ MapThenSumSet(Gain, Closed) = GainFold(stage4, ClosedOf(pyramid))
  /\ MapThenSumSet(Gain, Closed)' = GainFold(stage4', ClosedOf(pyramid'))
  BY DEF Gain, Closed, MapThenSumSet, MapThenFoldSet, GainFold, ClosedOf

LEMMA GainTotal ==
  ASSUME NEW s, NEW S, S \subseteq DOMAIN s.exits
  PROVE  GainFold(s, S) = Total(Gains(s), S)
<1> DEFINE old(f) == [u \in SUBSET S |->
                        IF u = {} THEN 0
                        ELSE (s.exits[CHOOSE x \in u : TRUE].price - s.entries[CHOOSE x \in u : TRUE])
                               + f[u \ {CHOOSE x \in u : TRUE}]]
           new(f) == [u \in SUBSET S |->
                        IF u = {} THEN 0 ELSE Gains(s)[First(u)] + f[u \ {First(u)}]]
<1>1. GainFold(s, S) = (CHOOSE f : f = old(f))[S]
  BY DEF GainFold
<1>2. Total(Gains(s), S) = (CHOOSE f : f = new(f))[S]
  BY DEF Total, Fold, IsFold
<1>3. \A u \in SUBSET S : u # {} =>
        Gains(s)[First(u)] = s.exits[CHOOSE x \in u : TRUE].price - s.entries[CHOOSE x \in u : TRUE]
  <2> SUFFICES ASSUME NEW u \in SUBSET S, u # {}
               PROVE  Gains(s)[First(u)] = s.exits[First(u)].price - s.entries[First(u)]
    BY DEF First
  <2>1. First(u) \in DOMAIN s.exits
    BY FirstIn
  <2> QED BY <2>1 DEF Gains
<1>4. \A f : old(f) = new(f)
  BY <1>3 DEF First
<1>5. \A f : f = old(f) <=> f = new(f)
  BY <1>4
<1> HIDE DEF old, new
<1>6. (CHOOSE f : f = old(f)) = (CHOOSE f : f = new(f))
  BY <1>5, Zenon
<1> QED BY <1>1, <1>2, <1>6

LEMMA BooksTotal ==
  ASSUME NEW p, NEW c
  PROVE  Books(p, c) = Total(Bookings(p, c), DOMAIN p.entries)
<1> DEFINE S == DOMAIN p.entries
           gain(i) == CASE LegHit(p, c, i) = "TP" -> Target
                        [] LegHit(p, c, i) = "SL" -> -Distance(p.entries[i], p.stop)
                        [] OTHER -> 0
           old(f) == [u \in SUBSET S |->
                        IF u = {} THEN 0
                        ELSE gain(CHOOSE x \in u : TRUE) + f[u \ {CHOOSE x \in u : TRUE}]]
           new(f) == [u \in SUBSET S |->
                        IF u = {} THEN 0 ELSE Bookings(p, c)[First(u)] + f[u \ {First(u)}]]
<1>1. Books(p, c) = (CHOOSE f : f = old(f))[S]
  BY DEF Books, MapThenSumSet, MapThenFoldSet
<1>2. Total(Bookings(p, c), S) = (CHOOSE f : f = new(f))[S]
  BY DEF Total, Fold, IsFold
<1>3. \A u \in SUBSET S : u # {} => Bookings(p, c)[First(u)] = gain(First(u))
  <2> SUFFICES ASSUME NEW u \in SUBSET S, u # {}
               PROVE  Bookings(p, c)[First(u)] = gain(First(u))
    OBVIOUS
  <2>1. First(u) \in DOMAIN p.entries
    BY FirstIn
  <2> QED BY <2>1 DEF Bookings
<1> HIDE DEF gain
<1>4. \A f : old(f) = new(f)
  BY <1>3 DEF First
<1>5. \A f : f = old(f) <=> f = new(f)
  BY <1>4
<1> HIDE DEF old, new
<1>6. (CHOOSE f : f = old(f)) = (CHOOSE f : f = new(f))
  BY <1>5, Zenon
<1> QED BY <1>1, <1>2, <1>6

\* The books of a search that holds the legs of a Stage 4 trade.
Scored(p, s) ==
  /\ \A i \in 1..Len(s.entries) : s.entries[i] >= 0
  /\ ~setup.breakeven => s.stop = -Stop
  /\ p.pnl \in Int
  /\ p.pnl <= Total(Gains(s), ClosedOf(p))
  /\ ~setup.breakeven => p.pnl = Total(Gains(s), ClosedOf(p))

LEMMA AlikeFacts ==
  ASSUME NEW p, NEW s, Alike(p, s), NEW n, n = Len(s.entries)
  PROVE  /\ n \in Nat \ {0} /\ IsFiniteSet(1..n)
         /\ DOMAIN s.exits = 1..n /\ DOMAIN s.entries = 1..n
         /\ DOMAIN p.entries = 1..n /\ DOMAIN p.outcome = 1..n
         /\ ClosedOf(p) \subseteq 1..n
         /\ \A i \in 1..n : /\ s.exits[i] \in ExitSet /\ s.entries[i] \in Int
                            /\ Gains(s)[i] = s.exits[i].price - s.entries[i]
                            /\ Gains(s)[i] \in Int
                            /\ p.outcome[i] = Tag(s.exits[i])
<1>1. /\ n \in Nat \ {0} /\ Len(s.exits) = n /\ Len(p.outcome) = n
      /\ s.entries \in Seq(Int) /\ s.exits \in Seq(ExitSet)
      /\ p.outcome \in Seq({"open", "TP", "SL"}) /\ p.entries = s.entries
  BY DEF Alike, PyramidForm, Stage4Form
<1>2. IsFiniteSet(1..n)
  BY <1>1, FS_Interval
<1>3. /\ DOMAIN s.exits = 1..n /\ DOMAIN s.entries = 1..n
      /\ DOMAIN p.entries = 1..n /\ DOMAIN p.outcome = 1..n
  BY <1>1
<1>4. ClosedOf(p) \subseteq 1..n
  BY <1>3 DEF ClosedOf
<1>5. ASSUME NEW i \in 1..n
      PROVE  /\ s.exits[i] \in ExitSet /\ s.entries[i] \in Int
             /\ Gains(s)[i] = s.exits[i].price - s.entries[i]
             /\ Gains(s)[i] \in Int
             /\ p.outcome[i] = Tag(s.exits[i])
  <2>1. s.exits[i] \in ExitSet /\ s.entries[i] \in Int
    BY <1>1
  <2>2. s.exits[i].price \in Int
    BY <2>1 DEF ExitSet
  <2>3. Gains(s)[i] = s.exits[i].price - s.entries[i]
    BY <1>3 DEF Gains
  <2>4. p.outcome[i] = Tag(s.exits[i])
    BY DEF Alike
  <2> QED BY <2>1, <2>2, <2>3, <2>4
<1> QED BY <1>1, <1>2, <1>3, <1>4, <1>5

\* Legs that keep entry and exit keep their total.
LEMMA GainsKept ==
  ASSUME NEW p, NEW s, Alike(p, s), NEW t, NEW A, A \subseteq 1..Len(s.entries),
         A \subseteq DOMAIN t.exits,
         \A i \in A : t.exits[i] = s.exits[i] /\ t.entries[i] = s.entries[i]
  PROVE  Total(Gains(t), A) = Total(Gains(s), A)
<1>1. PICK n : n = Len(s.entries)
  OBVIOUS
<1>2. IsFiniteSet(A)
  BY <1>1, AlikeFacts, FS_Subset
<1>3. \A i \in A : Gains(s)[i] \in Int /\ Gains(s)[i] = s.exits[i].price - s.entries[i]
  BY <1>1, AlikeFacts
<1>4. \A i \in A : Gains(t)[i] = t.exits[i].price - t.entries[i]
  BY DEF Gains
<1>5. \A i \in A : Gains(s)[i] \in Int /\ Gains(t)[i] = Gains(s)[i]
  BY <1>3, <1>4
<1> QED BY <1>2, <1>5, TotalSame

LEMMA AddsScored ==
  ASSUME NEW p, NEW s, NEW c, Alike(p, s), NoTimeout(s), Scored(p, s)
  PROVE  Scored(PyramidAdds(p, c), Stage4Adds(s, c))
<1> DEFINE n == Len(s.entries)
           next == s.entries[n] + Step
           sum == s.sum + next
           entries == Append(s.entries, next)
           stop == IF setup.breakeven THEN Average(sum, n + 1) ELSE s.stop
           kind == IF setup.breakeven THEN "breakeven" ELSE s.kind
           p2 == [p EXCEPT !.entries = entries, !.sum = sum, !.outcome = Append(p.outcome, "open"),
                           !.stop = stop]
           s2 == [s EXCEPT !.entries = entries, !.sum = sum, !.exits = Append(s.exits, Open),
                           !.stop = stop, !.kind = kind]
<1>1. /\ PyramidForm(p) /\ Stage4Form(s) /\ n \in Nat \ {0}
      /\ p.entries = s.entries /\ p.sum = s.sum /\ p.stop = s.stop
      /\ Len(s.exits) = n /\ Len(p.outcome) = n
      /\ s.entries \in Seq(Int) /\ s.exits \in Seq(ExitSet)
      /\ p.outcome \in Seq({"open", "TP", "SL"})
  BY DEF Alike, PyramidForm, Stage4Form
<1>2. /\ DOMAIN s.exits = 1..n /\ DOMAIN s.entries = 1..n
      /\ DOMAIN p.outcome = 1..n /\ ClosedOf(p) \subseteq 1..n
  <2> HIDE DEF n
  <2> QED BY AlikeFacts DEF n
<1>3. next \in Int /\ next >= 0
  <2>1. s.entries[n] \in Int /\ s.entries[n] >= 0
    BY <1>1 DEF Scored
  <2>2. Step \in Nat
    BY ReplayAssumption
  <2> QED BY <2>1, <2>2
<1>4. CASE n < setup.legs /\ EntryHit(c, next)
  <2>1. PyramidAdds(p, c) = p2
    BY <1>1, <1>4 DEF PyramidAdds
  <2>2. Stage4Adds(s, c) = s2
    BY <1>4 DEF Stage4Adds
  <2> HIDE DEF stop, kind, next, sum, entries
  <2>3. p2.pnl = p.pnl /\ p2.outcome = Append(p.outcome, "open")
    BY <1>1 DEF PyramidForm
  <2>4. s2.entries = entries /\ s2.exits = Append(s.exits, Open) /\ s2.stop = stop
    BY <1>1 DEF Stage4Form
  <2> HIDE DEF p2, s2
  <2>5. PICK m : m = n + 1
    OBVIOUS
  <2>6. m \in Nat /\ n \in Nat /\ m = n + 1
    BY <1>1, <2>5
  <2>7. Open \in ExitSet
    BY DEF Open, Exit, ExitSet
  <2>8. /\ DOMAIN Append(p.outcome, "open") = 1..m
        /\ \A i \in 1..n : Append(p.outcome, "open")[i] = p.outcome[i]
        /\ Append(p.outcome, "open")[m] = "open"
    BY <1>1, <2>6
  <2>9. /\ DOMAIN Append(s.exits, Open) = 1..m
        /\ \A i \in 1..n : Append(s.exits, Open)[i] = s.exits[i]
    BY <1>1, <2>6, <2>7
  <2>10. /\ Len(entries) = m /\ entries[m] = next
         /\ \A i \in 1..n : entries[i] = s.entries[i]
    BY <1>1, <1>3, <2>6 DEF entries
  <2>11. \A i \in 1..m : i \in 1..n \/ i = m
    BY <2>6
  <2>12. 1..n \subseteq 1..m
    BY <2>6
  <2>13. ClosedOf(p2) = ClosedOf(p)
    BY <1>2, <2>3, <2>8, <2>11, <2>12 DEF ClosedOf
  <2>14. Total(Gains(s2), ClosedOf(p)) = Total(Gains(s), ClosedOf(p))
    <3>1. ClosedOf(p) \subseteq 1..Len(s.entries) /\ ClosedOf(p) \subseteq DOMAIN s2.exits
      BY <1>2, <2>4, <2>9, <2>12
    <3>2. \A i \in ClosedOf(p) : s2.exits[i] = s.exits[i] /\ s2.entries[i] = s.entries[i]
      BY <1>2, <2>4, <2>9, <2>10
    <3> QED BY <3>1, <3>2, GainsKept
  <2>15. \A i \in 1..Len(s2.entries) : s2.entries[i] >= 0
    <3>1. ASSUME NEW i \in 1..m PROVE entries[i] >= 0
      <4>1. CASE i = m
        BY <1>3, <2>10, <4>1
      <4>2. CASE i \in 1..n
        <5>1. s.entries[i] >= 0
          BY <4>2 DEF Scored
        <5> QED BY <2>10, <4>2, <5>1
      <4> QED BY <2>11, <4>1, <4>2
    <3> QED BY <2>4, <2>10, <3>1
  <2>16. ~setup.breakeven => s2.stop = -Stop
    BY <2>4 DEF Scored, stop
  <2>17. Scored(p2, s2)
    BY <2>3, <2>13, <2>14, <2>15, <2>16 DEF Scored
  <2> QED BY <2>1, <2>2, <2>17
<1>5. CASE ~(n < setup.legs /\ EntryHit(c, next))
  <2>1. PyramidAdds(p, c) = p
    BY <1>1, <1>5 DEF PyramidAdds
  <2>2. Stage4Adds(s, c) = s
    BY <1>5 DEF Stage4Adds
  <2> QED BY <2>1, <2>2
<1> QED BY <1>4, <1>5

OutcomeAfter(p, c, i) == IF LegHit(p, c, i) = "none" THEN p.outcome[i] ELSE LegHit(p, c, i)
ExitAfter(s, c, at, i) ==
  IF s.exits[i] = Open THEN LegExit(c, s.entries[i] + Target, s.stop, s.kind, at) ELSE s.exits[i]

\* What one leg books on a candle, and what it gains.
LEMMA LegScored ==
  ASSUME NEW p, NEW s, NEW c, NEW at, Alike(p, s), NoTimeout(s), Scored(p, s),
         NEW i \in 1..Len(s.entries)
  PROVE  /\ p.outcome[i] # "open" =>
              /\ Bookings(p, c)[i] = 0
              /\ ExitAfter(s, c, at, i) = s.exits[i] /\ OutcomeAfter(p, c, i) = p.outcome[i]
         /\ p.outcome[i] = "open" /\ OutcomeAfter(p, c, i) = "open" => Bookings(p, c)[i] = 0
         /\ p.outcome[i] = "open" /\ OutcomeAfter(p, c, i) # "open" =>
              /\ Bookings(p, c)[i] \in Int
              /\ ExitAfter(s, c, at, i).price - s.entries[i] \in Int
              /\ Bookings(p, c)[i] <= ExitAfter(s, c, at, i).price - s.entries[i]
              /\ ~setup.breakeven => Bookings(p, c)[i] = ExitAfter(s, c, at, i).price - s.entries[i]
<1> DEFINE tp == s.entries[i] + Target
           hit == Hit(c, tp, s.stop)
<1>1. PICK outcome : outcome = OutcomeAfter(p, c, i)
  OBVIOUS
<1>2. PICK exit : exit = ExitAfter(s, c, at, i)
  OBVIOUS
<1>3. PICK loss : loss = -Distance(s.entries[i], s.stop)
  OBVIOUS
<1>4. /\ s.entries[i] \in Int /\ s.exits[i] \in ExitSet /\ i \in DOMAIN p.entries
      /\ p.outcome[i] = Tag(s.exits[i])
  BY AlikeFacts
<1>5. /\ p.entries = s.entries /\ p.stop = s.stop /\ s.stop \in Int
      /\ s.kind \in {"initial", "breakeven"}
      /\ s.exits[i].status = "open" => s.exits[i] = Open
      /\ s.exits[i].status # "HARD_EXIT"
  BY DEF Alike, Stage4Form, NoTimeout
<1>6. p.outcome[i] = "open" <=> s.exits[i] = Open
  BY <1>4, <1>5 DEF Tag, ExitSet, Open, Exit
<1>7. LegHit(p, c, i) = IF p.outcome[i] = "open" THEN hit ELSE "none"
  BY <1>5 DEF LegHit
<1>8. hit \in {"TP", "SL", "none"}
  BY DEF Hit
<1>9. Bookings(p, c)[i] = CASE LegHit(p, c, i) = "TP" -> Target
                            [] LegHit(p, c, i) = "SL" -> loss
                            [] OTHER -> 0
  BY <1>4, <1>5, <1>3 DEF Bookings
<1>10. s.exits[i] = Open =>
        exit = CASE hit = "TP" -> Exit("TP", tp, at)
                 [] hit = "SL" -> Exit("INITIAL_SL", s.stop, at)
                 [] OTHER -> Open
  BY <1>2, <1>5 DEF LegExit, SlStatus, ExitAfter
<1>11. tp \in Int /\ Target \in Int /\ tp - s.entries[i] = Target
  BY <1>4, ReplayAssumption
<1>12. /\ loss \in Int /\ s.stop - s.entries[i] \in Int
       /\ loss <= s.stop - s.entries[i]
       /\ ~setup.breakeven => loss = s.stop - s.entries[i]
  <2>1. s.entries[i] >= 0 /\ (~setup.breakeven => s.stop = -Stop) /\ Stop \in Nat
    BY ReplayAssumption DEF Scored
  <2>2. PICK e \in Int : e = s.entries[i]
    BY <1>4
  <2>3. PICK q \in Int : q = s.stop
    BY <1>5
  <2>4. loss = -(IF e >= q THEN e - q ELSE q - e)
    BY <1>3, <2>2, <2>3 DEF Distance
  <2>5. loss \in Int /\ q - e \in Int /\ loss <= q - e
    BY <2>4
  <2>6. ~setup.breakeven => loss = q - e
    <3>1. ~setup.breakeven => q <= e
      BY <2>1, <2>2, <2>3
    <3> QED BY <2>4, <3>1
  <2> QED BY <2>2, <2>3, <2>5, <2>6
<1>13. outcome = IF LegHit(p, c, i) = "none" THEN p.outcome[i] ELSE LegHit(p, c, i)
  BY <1>1 DEF OutcomeAfter
<1>14. s.exits[i] # Open => exit = s.exits[i]
  BY <1>2 DEF ExitAfter
<1> HIDE DEF hit, tp
<1>15. CASE p.outcome[i] # "open"
  <2>1. LegHit(p, c, i) = "none"
    BY <1>7, <1>15
  <2> QED BY <1>1, <1>2, <1>6, <1>9, <1>15, <1>13, <1>14, <2>1
<1>16. CASE p.outcome[i] = "open" /\ hit = "none"
  <2>1. LegHit(p, c, i) = "none"
    BY <1>7, <1>16
  <2>2. Bookings(p, c)[i] = 0 /\ outcome = "open"
    BY <1>9, <1>16, <1>13, <2>1
  <2> QED BY <1>1, <1>2, <1>16, <2>2
<1>17. CASE p.outcome[i] = "open" /\ hit = "TP"
  <2>1. LegHit(p, c, i) = "TP"
    BY <1>7, <1>17
  <2>2. Bookings(p, c)[i] = Target /\ outcome = "TP"
    BY <1>9, <1>13, <2>1
  <2>3. exit.price = tp
    BY <1>6, <1>10, <1>17 DEF Exit
  <2> QED BY <1>1, <1>2, <1>11, <1>17, <2>2, <2>3
<1>18. CASE p.outcome[i] = "open" /\ hit = "SL"
  <2>1. LegHit(p, c, i) = "SL"
    BY <1>7, <1>18
  <2>2. Bookings(p, c)[i] = loss /\ outcome = "SL"
    BY <1>9, <1>13, <2>1
  <2>3. exit.price = s.stop
    BY <1>6, <1>10, <1>18 DEF Exit
  <2> QED BY <1>1, <1>2, <1>12, <1>18, <2>2, <2>3
<1> QED BY <1>8, <1>15, <1>16, <1>17, <1>18

LEMMA ClosesScored ==
  ASSUME NEW p, NEW s, NEW c \in Candles, NEW at \in Nat, Alike(p, s), NoTimeout(s), Scored(p, s)
  PROVE  Scored(PyramidCloses(p, c), Stage4Closes(s, c, at))
<1> DEFINE outcome == [i \in DOMAIN p.outcome |->
                         IF LegHit(p, c, i) = "none" THEN p.outcome[i] ELSE LegHit(p, c, i)]
           exits == [i \in DOMAIN s.exits |->
                       IF s.exits[i] = Open
                       THEN LegExit(c, s.entries[i] + Target, s.stop, s.kind, at)
                       ELSE s.exits[i]]
           pnl == p.pnl + Books(p, c)
<1>1. PICK p2 : p2 = PyramidCloses(p, c)
  OBVIOUS
<1>2. PICK s2 : s2 = Stage4Closes(s, c, at)
  OBVIOUS
<1>3. PyramidForm(p) /\ Stage4Form(s)
  BY DEF Alike
<1>4. p2.outcome = outcome /\ p2.pnl = pnl
  <2>1. p2 = [p EXCEPT !.outcome = outcome, !.pnl = pnl]
    BY <1>1 DEF PyramidCloses
  <2> HIDE DEF outcome, pnl
  <2> QED BY <1>3, <2>1 DEF PyramidForm
<1>5. s2.exits = exits /\ s2.entries = s.entries /\ s2.stop = s.stop
  <2>1. s2 = [s EXCEPT !.exits = exits]
    BY <1>2 DEF Stage4Closes
  <2> HIDE DEF exits
  <2> QED BY <1>3, <2>1 DEF Stage4Form
<1>6. Alike(p2, s2)
  BY <1>1, <1>2, ClosesAlike
<1>7. PICK D : D = 1..Len(s.entries)
  OBVIOUS
<1>8. /\ IsFiniteSet(D) /\ DOMAIN s.exits = D /\ DOMAIN p.outcome = D
      /\ DOMAIN p.entries = D /\ ClosedOf(p) \subseteq D
      /\ \A i \in D : /\ Gains(s)[i] = s.exits[i].price - s.entries[i]
                         /\ Gains(s)[i] \in Int
  <2>1. PICK n : n = Len(s.entries)
    OBVIOUS
  <2> HIDE DEF outcome, exits, pnl
  <2> QED BY <1>7, <2>1, AlikeFacts
<1>9. /\ DOMAIN p2.outcome = D /\ ClosedOf(p2) \subseteq D
      /\ \A i \in D : /\ Gains(s2)[i] = s2.exits[i].price - s.entries[i]
                         /\ Gains(s2)[i] \in Int
  <2>1. PICK n : n = Len(s2.entries)
    OBVIOUS
  <2>2. D = 1..n
    BY <1>5, <1>7, <2>1
  <2> HIDE DEF outcome, exits, pnl
  <2> QED BY <1>5, <1>6, <2>1, <2>2, AlikeFacts
<1>10. \A i \in D :
         /\ (i \in ClosedOf(p) <=> p.outcome[i] # "open")
         /\ (i \in ClosedOf(p2) <=> p2.outcome[i] # "open")
  BY <1>8, <1>9 DEF ClosedOf
<1>11. ASSUME NEW i \in D
       PROVE  /\ i \in ClosedOf(p) =>
                   Bookings(p, c)[i] = 0 /\ Gains(s2)[i] = Gains(s)[i] /\ i \in ClosedOf(p2)
              /\ i \notin ClosedOf(p) /\ i \notin ClosedOf(p2) => Bookings(p, c)[i] = 0
              /\ i \notin ClosedOf(p) /\ i \in ClosedOf(p2) =>
                   /\ Bookings(p, c)[i] \in Int
                   /\ Bookings(p, c)[i] <= Gains(s2)[i]
                   /\ ~setup.breakeven => Bookings(p, c)[i] = Gains(s2)[i]
  <2>1. p2.outcome[i] = OutcomeAfter(p, c, i)
    BY <1>4, <1>8 DEF OutcomeAfter
  <2>2. s2.exits[i] = ExitAfter(s, c, at, i)
    BY <1>5, <1>8 DEF ExitAfter
  <2>3. i \in 1..Len(s.entries)
    BY <1>7
  <2> HIDE DEF outcome, exits, pnl
  <2>4. /\ p.outcome[i] # "open" =>
             Bookings(p, c)[i] = 0 /\ s2.exits[i] = s.exits[i] /\ p2.outcome[i] = p.outcome[i]
        /\ p.outcome[i] = "open" /\ p2.outcome[i] = "open" => Bookings(p, c)[i] = 0
        /\ p.outcome[i] = "open" /\ p2.outcome[i] # "open" =>
             /\ Bookings(p, c)[i] \in Int
             /\ Bookings(p, c)[i] <= s2.exits[i].price - s.entries[i]
             /\ ~setup.breakeven => Bookings(p, c)[i] = s2.exits[i].price - s.entries[i]
    BY <2>1, <2>2, <2>3, LegScored
  <2> QED BY <1>8, <1>9, <1>10, <2>4
<1> HIDE DEF outcome, exits, pnl
<1> DEFINE before == [i \in D |-> IF i \in ClosedOf(p) THEN Gains(s)[i] ELSE 0]
           after == [i \in D |-> IF i \in ClosedOf(p2) THEN Gains(s2)[i] ELSE 0]
           books == Bookings(p, c)
<1>12. Total(before, D) = Total(Gains(s), ClosedOf(p))
  <2>1. ClosedOf(p) \in SUBSET D /\ IsFiniteSet(D)
    BY <1>8
  <2>2. \A i \in ClosedOf(p) : Gains(s)[i] \in Int /\ before[i] = Gains(s)[i]
    BY <1>8
  <2>3. \A i \in D \ ClosedOf(p) : before[i] = 0
    OBVIOUS
  <2>4. PICK A \in SUBSET D : A = ClosedOf(p)
    BY <2>1
  <2>5. PICK g : g = Gains(s)
    OBVIOUS
  <2>6. PICK h : h = before
    OBVIOUS
  <2> HIDE DEF before
  <2>7. /\ \A i \in A : g[i] \in Int /\ h[i] = g[i]
        /\ \A i \in D \ A : h[i] = 0
    BY <2>2, <2>3, <2>4, <2>5, <2>6
  <2>8. Total(h, D) = Total(g, A)
    BY <2>1, <2>7, TotalOfPart
  <2> QED BY <2>4, <2>5, <2>6, <2>8
<1>13. Total(after, D) = Total(Gains(s2), ClosedOf(p2))
  <2>1. ClosedOf(p2) \in SUBSET D /\ IsFiniteSet(D)
    BY <1>8, <1>9
  <2>2. \A i \in ClosedOf(p2) : Gains(s2)[i] \in Int /\ after[i] = Gains(s2)[i]
    BY <1>9
  <2>3. \A i \in D \ ClosedOf(p2) : after[i] = 0
    OBVIOUS
  <2>4. PICK A \in SUBSET D : A = ClosedOf(p2)
    BY <2>1
  <2>5. PICK g : g = Gains(s2)
    OBVIOUS
  <2>6. PICK h : h = after
    OBVIOUS
  <2> HIDE DEF after
  <2>7. /\ \A i \in A : g[i] \in Int /\ h[i] = g[i]
        /\ \A i \in D \ A : h[i] = 0
    BY <2>2, <2>3, <2>4, <2>5, <2>6
  <2>8. Total(h, D) = Total(g, A)
    BY <2>1, <2>7, TotalOfPart
  <2> QED BY <2>4, <2>5, <2>6, <2>8
<1>14. \A i \in D :
         /\ before[i] \in Int /\ books[i] \in Int /\ after[i] \in Int
         /\ before[i] + books[i] <= after[i]
         /\ ~setup.breakeven => after[i] = before[i] + books[i]
  <2> SUFFICES ASSUME NEW i \in D
               PROVE  /\ before[i] \in Int /\ books[i] \in Int /\ after[i] \in Int
                      /\ before[i] + books[i] <= after[i]
                      /\ ~setup.breakeven => after[i] = before[i] + books[i]
    OBVIOUS
  <2>1. before[i] = IF i \in ClosedOf(p) THEN Gains(s)[i] ELSE 0
    OBVIOUS
  <2>2. after[i] = IF i \in ClosedOf(p2) THEN Gains(s2)[i] ELSE 0
    OBVIOUS
  <2>3. Gains(s)[i] \in Int /\ Gains(s2)[i] \in Int
    BY <1>8, <1>9
  <2> HIDE DEF before, after
  <2>4. CASE i \in ClosedOf(p)
    BY <1>11, <2>1, <2>2, <2>3, <2>4
  <2>5. CASE i \notin ClosedOf(p) /\ i \notin ClosedOf(p2)
    BY <1>11, <2>1, <2>2, <2>3, <2>5
  <2>6. CASE i \notin ClosedOf(p) /\ i \in ClosedOf(p2)
    BY <1>11, <2>1, <2>2, <2>3, <2>6
  <2> QED BY <2>4, <2>5, <2>6
<1>15. Books(p, c) = Total(books, D)
  BY <1>8, BooksTotal
<1> HIDE DEF before, after, books
<1>16. Total(before, D) \in Int /\ Total(books, D) \in Int /\ Total(after, D) \in Int
  <2>1. (\A i \in D : before[i] \in Int) /\ (\A i \in D : books[i] \in Int)
        /\ (\A i \in D : after[i] \in Int)
    BY <1>14
  <2> QED BY <1>8, <2>1, TotalInt
<1>17. Total(before, D) + Total(books, D) <= Total(after, D)
  BY <1>8, <1>14, TotalsAtMost
<1>18. ASSUME ~setup.breakeven
       PROVE  Total(after, D) = Total(before, D) + Total(books, D)
  <2>1. \A i \in D : before[i] \in Int /\ books[i] \in Int /\ after[i] = before[i] + books[i]
    BY <1>14, <1>18
  <2> QED BY <1>8, <2>1, TotalsAdd
<1>19. p.pnl \in Int /\ p.pnl <= Total(before, D)
       /\ (~setup.breakeven => p.pnl = Total(before, D))
  BY <1>12 DEF Scored
<1>20. p2.pnl = p.pnl + Total(books, D)
  BY <1>4, <1>15 DEF pnl
<1>21. /\ p2.pnl \in Int /\ p2.pnl <= Total(after, D)
       /\ ~setup.breakeven => p2.pnl = Total(after, D)
  BY <1>16, <1>17, <1>18, <1>19, <1>20
<1>22. Scored(p2, s2)
  BY <1>5, <1>13, <1>21 DEF Scored
<1> QED BY <1>1, <1>2, <1>22

LEMMA CandleScored ==
  ASSUME NEW p, NEW s, NEW c \in Candles, NEW at \in Nat, Alike(p, s), NoTimeout(s),
         Scored(p, s), ~setup.protect
  PROVE  Scored(PyramidCandle(p, c), Stage4Candle(s, c, at))
<1> DEFINE n == Len(s.entries)
<1>1. DOMAIN p.outcome = 1..n /\ DOMAIN s.exits = 1..n
  <2> HIDE DEF n
  <2> QED BY AlikeFacts DEF n
<1>2. ASSUME NEW i \in 1..n PROVE p.outcome[i] = "open" <=> s.exits[i] = Open
  <2>1. /\ p.outcome[i] = Tag(s.exits[i]) /\ s.exits[i] \in ExitSet
        /\ s.exits[i].status = "open" => s.exits[i] = Open
        /\ s.exits[i].status # "HARD_EXIT"
    BY AlikeFacts DEF Alike, NoTimeout
  <2> QED BY <2>1 DEF Tag, ExitSet, Open, Exit
<1>3. AllOut(p) <=> Flat(s)
  BY <1>1, <1>2 DEF AllOut, Flat
<1>4. CASE Flat(s)
  BY <1>3, <1>4 DEF PyramidCandle, Stage4Candle
<1>5. CASE ~Flat(s)
  <2> DEFINE p2 == PyramidAdds(p, c)
             s2 == Stage4Adds(s, c)
             p3 == PyramidCloses(p2, c)
             s3 == Stage4Closes(s2, c, at)
  <2>1. PyramidCandle(p, c) = p3
    BY <1>3, <1>5 DEF PyramidCandle
  <2>2. Stage4Candle(s, c, at) = Stage4Protects(s3, c)
    BY <1>5 DEF Stage4Candle
  <2>3. Stage4Protects(s3, c) = s3
    BY DEF Stage4Protects, Protects
  <2>4. Alike(p2, s2) /\ NoTimeout(s2) /\ Scored(p2, s2)
    BY AddsAlike, AddsScored
  <2> HIDE DEF p2, s2
  <2>5. Scored(p3, s3)
    BY <2>4, ClosesScored
  <2> QED BY <2>1, <2>2, <2>3, <2>5
<1> QED BY <1>4, <1>5

\* A timeout closes only legs the search has not counted.
LEMMA TimesOutScored ==
  ASSUME NEW p, NEW s, Alike(p, s), Scored(p, s)
  PROVE  Scored(p, Stage4TimesOut(s))
<1> DEFINE exit == IF last.at = 0 THEN Exit("HARD_EXIT", 0, Hold)
                   ELSE Exit("HARD_EXIT", last.close, last.at)
           exits == [i \in DOMAIN s.exits |-> IF s.exits[i] = Open THEN exit ELSE s.exits[i]]
<1>1. PICK s2 : s2 = Stage4TimesOut(s)
  OBVIOUS
<1>2. s2.exits = exits /\ s2.entries = s.entries /\ s2.stop = s.stop
  <2>1. s2 = [s EXCEPT !.exits = exits]
    BY <1>1 DEF Stage4TimesOut
  <2> HIDE DEF exits
  <2> QED BY <2>1 DEF Alike, Stage4Form
<1>3. PICK n : n = Len(s.entries)
  OBVIOUS
<1>4. /\ DOMAIN s.exits = 1..n /\ DOMAIN p.outcome = 1..n /\ ClosedOf(p) \subseteq 1..n
      /\ \A i \in 1..n : p.outcome[i] = Tag(s.exits[i])
  BY <1>3, AlikeFacts
<1>5. \A i \in ClosedOf(p) : s2.exits[i] = s.exits[i] /\ s2.entries[i] = s.entries[i]
  <2> SUFFICES ASSUME NEW i \in ClosedOf(p) PROVE s2.exits[i] = s.exits[i]
    BY <1>2
  <2>1. i \in 1..n /\ Tag(s.exits[i]) # "open"
    BY <1>4 DEF ClosedOf
  <2>2. s.exits[i] # Open
    BY <2>1 DEF Tag, Open, Exit
  <2> HIDE DEF exit
  <2> QED BY <1>2, <1>4, <2>1, <2>2
<1>6. ClosedOf(p) \subseteq 1..Len(s.entries) /\ ClosedOf(p) \subseteq DOMAIN s2.exits
  BY <1>2, <1>3, <1>4
<1>7. Total(Gains(s2), ClosedOf(p)) = Total(Gains(s), ClosedOf(p))
  BY <1>5, <1>6, GainsKept
<1>8. Scored(p, s2)
  BY <1>2, <1>7 DEF Scored
<1> QED BY <1>1, <1>8

ScoreInv == ~setup.protect => Scored(pyramid, stage4)

LEMMA ScoreInitially == Init => ScoreInv
<1> SUFFICES ASSUME Init PROVE Scored(pyramid, stage4)
  BY DEF ScoreInv
<1> DEFINE one == <<0>>
           exits == <<Open>>
<1>1. Len(one) = 1 /\ one[1] = 0
  OBVIOUS
<1> HIDE DEF exits, one
<1>2. /\ stage4.entries = one /\ stage4.stop = -Stop
      /\ pyramid.pnl = 0 /\ pyramid.outcome = <<"open">>
  BY DEF Init, PyramidOpens, Stage4Opens, one
<1>3. ClosedOf(pyramid) = {}
  BY <1>2 DEF ClosedOf
<1>4. Total(Gains(stage4), {}) = 0
  BY TotalNone
<1>5. \A i \in 1..Len(stage4.entries) : stage4.entries[i] >= 0
  <2>1. ASSUME NEW i \in 1..1 PROVE one[i] >= 0
    <3>1. i = 1
      OBVIOUS
    <3> QED BY <1>1, <3>1
  <2> QED BY <1>1, <1>2, <2>1
<1> QED BY <1>2, <1>3, <1>4, <1>5 DEF Scored

LEMMA ScoreInductive == TimeInv /\ PairInv /\ ScoreInv /\ [Next]_vars => ScoreInv'
<1> SUFFICES ASSUME TimeInv, PairInv, ScoreInv, [Next]_vars, ~setup.protect'
             PROVE  Scored(pyramid, stage4)'
  BY DEF ScoreInv
<1>1. time \in Nat /\ Hold \in Nat
  BY ReplayAssumption DEF TimeInv
<1>2. setup' = setup
  BY DEF Next, WindowCandle, LateCandle, Gap, Cutoff, DataEnds, vars
<1>3. ~setup.protect /\ Alike(pyramid, stage4) /\ Scored(pyramid, stage4)
  BY <1>2 DEF PairInv, ScoreInv
<1>4. Scored(pyramid', stage4') => Scored(pyramid, stage4)'
  BY <1>2 DEF Scored
<1>5. CASE WindowCandle
  <2>1. PICK c \in Candles : /\ pyramid' = PyramidCandle(pyramid, c)
                             /\ stage4' = Stage4Candle(stage4, c, time + 1)
    BY <1>5 DEF WindowCandle
  <2>2. NoTimeout(stage4) /\ time + 1 \in Nat
    BY <1>1, <1>3, <1>5 DEF WindowCandle, PairInv
  <2>3. Scored(PyramidCandle(pyramid, c), Stage4Candle(stage4, c, time + 1))
    BY <1>3, <2>2, CandleScored
  <2> QED BY <1>4, <2>1, <2>3
<1>6. CASE LateCandle
  BY <1>3, <1>4, <1>6 DEF LateCandle
<1>7. CASE Gap
  BY <1>3, <1>4, <1>7 DEF Gap
<1>8. CASE Cutoff
  <2>1. Scored(pyramid, Stage4TimesOut(stage4))
    BY <1>3, TimesOutScored
  <2> QED BY <1>4, <1>8, <2>1 DEF Cutoff
<1>9. CASE DataEnds
  <2>1. Scored(pyramid, Stage4TimesOut(stage4))
    BY <1>3, TimesOutScored
  <2> QED BY <1>4, <1>9, <2>1 DEF DataEnds
<1>10. CASE UNCHANGED vars
  BY <1>3, <1>4, <1>10 DEF vars
<1> QED BY <1>5, <1>6, <1>7, <1>8, <1>9, <1>10 DEF Next

(* For any levels, any number of legs and any window: the search books no    *)
(* more than Stage 4 gains on the same legs, and as much without a breakeven *)
(* stop (pyramid.py 231-240).                                                *)
THEOREM PyramidBooksNoMore == Spec => []PyramidNeverOverstates
<1>1. IInv => TimeInv
  BY DEF IInv
<1>2. PairInv /\ ScoreInv => PyramidNeverOverstates
  <2> SUFFICES ASSUME ~setup.protect, Alike(pyramid, stage4), Scored(pyramid, stage4)
               PROVE  /\ pyramid.pnl <= MapThenSumSet(Gain, Closed)
                      /\ ~setup.breakeven => pyramid.pnl = MapThenSumSet(Gain, Closed)
    BY DEF PairInv, ScoreInv, PyramidNeverOverstates
  <2>1. ClosedOf(pyramid) \subseteq DOMAIN stage4.exits
    <3>1. PICK n : n = Len(stage4.entries)
      OBVIOUS
    <3> QED BY <3>1, AlikeFacts
  <2>2. MapThenSumSet(Gain, Closed) = Total(Gains(stage4), ClosedOf(pyramid))
    BY <2>1, GainIs, GainTotal
  <2> QED BY <2>2 DEF Scored
<1>3. Spec => [](PairInv /\ ScoreInv)
  <2>1. Init => PairInv /\ ScoreInv
    BY PairInitially, ScoreInitially
  <2>2. TimeInv /\ (PairInv /\ ScoreInv) /\ [Next]_vars => (PairInv /\ ScoreInv)'
    BY PairInductive, ScoreInductive
  <2> QED BY <2>1, <2>2, Invariance, <1>1, PTL DEF Spec
<1> QED BY <1>2, <1>3, PTL

-----------------------------------------------------------------------------
(* The records of the simulators.                                            *)

Times == 0..Hold + Late
Outcomes == {"open", "TP", "SL"}

Grids == [stop : Int, kind : Kinds, exit : Exits]
Positions == [legs : 1..setup.legs, sum : Int, kind : Kinds, protected : BOOLEAN, exit : Exits]

PyramidTyped(p) ==
  /\ p \in [entries : Seq(Int), sum : Int, outcome : Seq(Outcomes), stop : Int, pnl : Int]
  /\ Len(p.entries) \in 1..setup.legs /\ Len(p.outcome) = Len(p.entries)

Stage4Typed(s) ==
  /\ s \in [entries : Seq(Int), sum : Int, exits : Seq(Exits), stop : Int,
            kind : Kinds, protected : BOOLEAN]
  /\ Len(s.entries) \in 1..setup.legs /\ Len(s.exits) = Len(s.entries)
  /\ s.kind = "protected" => s.protected

TypeInv ==
  /\ setup \in Setups
  /\ time \in Times
  /\ last \in [close : Int, at : 0..Hold]
  /\ ended \in BOOLEAN
  /\ grid \in Grids
  /\ PyramidTyped(pyramid)
  /\ Stage4Typed(stage4)
  /\ portfolio \in Positions

LEMMA Constants ==
  /\ Target \in Int /\ Stop \in Int /\ -Stop \in Int /\ Trigger \in Int /\ Trail \in Int
  /\ Step \in Int /\ Hold \in Nat /\ Late \in Nat /\ 0 \in Times /\ Hold \in Times
  /\ 0..Hold \subseteq Times
  BY ReplayAssumption DEF Times

LEMMA ExitTyped ==
  ASSUME NEW status \in Statuses, NEW price \in Int, NEW at \in Times
  PROVE  Exit(status, price, at) \in Exits
  BY DEF Exit, Exits, Times

LEMMA OpenTyped == Open \in Exits
  BY ExitTyped, Constants DEF Open, Statuses

LEMMA LegExitTyped ==
  ASSUME NEW c, NEW tp \in Int, NEW sl \in Int, NEW kind, NEW at \in Times
  PROVE  LegExit(c, tp, sl, kind, at) \in Exits
<1>1. SlStatus(kind) \in Statuses /\ "TP" \in Statuses
  BY DEF SlStatus, Statuses
<1>2. Exit("TP", tp, at) \in Exits /\ Exit(SlStatus(kind), sl, at) \in Exits /\ Open \in Exits
  BY <1>1, ExitTyped, OpenTyped
<1>3. LegExit(c, tp, sl, kind, at) \in {Exit("TP", tp, at), Exit(SlStatus(kind), sl, at), Open}
  BY DEF LegExit
<1> QED BY <1>2, <1>3

LEMMA GridCandleTyped ==
  ASSUME NEW g \in Grids, NEW c, NEW at \in Times
  PROVE  GridCandle(g, c, at) \in Grids
<1> DEFINE exit == LegExit(c, Target, g.stop, g.kind, at)
<1>1. g.stop \in Int /\ exit \in Exits
  <2>1. g.stop \in Int
    BY DEF Grids
  <2> QED BY <2>1, LegExitTyped, Constants
<1> HIDE DEF exit
<1>2. [g EXCEPT !.exit = exit] \in Grids
  BY <1>1 DEF Grids
<1>3. [g EXCEPT !.stop = Trail, !.kind = "protected"] \in Grids
  BY Constants DEF Grids, Kinds
<1>4. GridCandle(g, c, at) \in
        {g, [g EXCEPT !.exit = exit], [g EXCEPT !.stop = Trail, !.kind = "protected"]}
  BY DEF GridCandle, exit
<1> QED BY <1>2, <1>3, <1>4

LEMMA GridTimesOutTyped ==
  ASSUME NEW g \in Grids, last \in [close : Int, at : 0..Hold]
  PROVE  GridTimesOut(g) \in Grids
<1> DEFINE exit == Exit("TIME_EXIT", last.close, last.at)
<1>1. exit \in Exits
  <2>1. last.close \in Int /\ last.at \in Times /\ "TIME_EXIT" \in Statuses
    BY Constants DEF Statuses
  <2> QED BY <2>1, ExitTyped
<1> HIDE DEF exit
<1>2. [g EXCEPT !.exit = exit] \in Grids
  BY <1>1 DEF Grids
<1> QED BY <1>2 DEF GridTimesOut, exit

LEMMA PyramidAddsTyped ==
  ASSUME NEW p, NEW c, PyramidTyped(p), setup.legs \in Nat
  PROVE  PyramidTyped(PyramidAdds(p, c))
<1> DEFINE n == Len(p.entries)
           next == p.entries[n] + Step
           sum == p.sum + next
           entries == Append(p.entries, next)
           outcome == Append(p.outcome, "open")
           stop == IF setup.breakeven THEN Average(sum, n + 1) ELSE p.stop
           p2 == [p EXCEPT !.entries = entries, !.sum = sum, !.outcome = outcome, !.stop = stop]
<1>1. /\ p.entries \in Seq(Int) /\ p.outcome \in Seq(Outcomes) /\ n \in 1..setup.legs
      /\ Len(p.outcome) = n /\ p.sum \in Int /\ p.stop \in Int /\ n \in Nat \ {0}
  BY DEF PyramidTyped
<1>2. next \in Int
  <2>1. p.entries[n] \in Int
    BY <1>1
  <2> QED BY <2>1, Constants
<1>3. sum \in Int /\ n + 1 \in Nat \ {0}
  BY <1>1, <1>2
<1>4. stop \in Int
  BY <1>1, <1>3, AverageInt
<1> HIDE DEF next, sum
<1>5. /\ entries \in Seq(Int) /\ Len(entries) = n + 1
      /\ outcome \in Seq(Outcomes) /\ Len(outcome) = n + 1
  BY <1>1, <1>2 DEF Outcomes
<1>6. PyramidAdds(p, c) = IF n < setup.legs /\ EntryHit(c, next) THEN p2 ELSE p
  BY DEF PyramidAdds, next, sum
<1>7. ASSUME n < setup.legs PROVE PyramidTyped(p2)
  <2>1. n + 1 \in 1..setup.legs
    BY <1>1, <1>7
  <2> HIDE DEF entries, outcome, stop
  <2>2. p2 \in [entries : Seq(Int), sum : Int, outcome : Seq(Outcomes), stop : Int, pnl : Int]
    BY <1>3, <1>4, <1>5 DEF PyramidTyped
  <2>3. p2.entries = entries /\ p2.outcome = outcome
    BY DEF PyramidTyped
  <2> QED BY <1>5, <2>1, <2>2, <2>3 DEF PyramidTyped
<1> HIDE DEF p2
<1> QED BY <1>6, <1>7

LEMMA BooksInt ==
  ASSUME NEW p, NEW c, PyramidTyped(p)
  PROVE  Books(p, c) \in Int
<1>1. PICK D : D = DOMAIN p.entries
  OBVIOUS
<1>2. /\ p.entries \in Seq(Int) /\ p.stop \in Int
      /\ Len(p.entries) \in Nat /\ D = 1..Len(p.entries)
  BY <1>1 DEF PyramidTyped
<1>3. IsFiniteSet(D)
  BY <1>2, FS_Interval
<1>4. ASSUME NEW i \in D PROVE Bookings(p, c)[i] \in Int
  <2>1. PICK e \in Int : e = p.entries[i]
    BY <1>2
  <2>2. PICK q \in Int : q = p.stop
    BY <1>2
  <2>3. Distance(p.entries[i], p.stop) = IF e >= q THEN e - q ELSE q - e
    BY <2>1, <2>2 DEF Distance
  <2>4. PICK d \in Int : d = Distance(p.entries[i], p.stop)
    BY <2>3
  <2>5. PICK loss \in Int : loss = -Distance(p.entries[i], p.stop)
    BY <2>4
  <2>6. Bookings(p, c)[i] = CASE LegHit(p, c, i) = "TP" -> Target
                              [] LegHit(p, c, i) = "SL" -> loss
                              [] OTHER -> 0
    BY <1>1, <2>5 DEF Bookings
  <2>7. Bookings(p, c)[i] \in {Target, loss, 0}
    BY <2>6
  <2> QED BY <2>7, Constants
<1>5. Total(Bookings(p, c), D) \in Int
  BY <1>3, <1>4, TotalInt
<1> QED BY <1>1, <1>5, BooksTotal

LEMMA PyramidClosesTyped ==
  ASSUME NEW p, NEW c, PyramidTyped(p)
  PROVE  PyramidTyped(PyramidCloses(p, c))
<1> DEFINE outcome == [i \in DOMAIN p.outcome |->
                         IF LegHit(p, c, i) = "none" THEN p.outcome[i] ELSE LegHit(p, c, i)]
           pnl == p.pnl + Books(p, c)
           p2 == [p EXCEPT !.outcome = outcome, !.pnl = pnl]
<1>1. PICK n \in Nat : n = Len(p.entries)
  BY DEF PyramidTyped
<1>2. p.outcome \in Seq(Outcomes) /\ Len(p.outcome) = n /\ DOMAIN p.outcome = 1..n
  BY <1>1 DEF PyramidTyped
<1>3. pnl \in Int
  <2>1. Books(p, c) \in Int /\ p.pnl \in Int
    BY BooksInt DEF PyramidTyped
  <2> QED BY <2>1
<1>4. outcome \in Seq(Outcomes) /\ Len(outcome) = n
  <2>1. outcome = [i \in 1..n |-> outcome[i]]
    BY <1>2
  <2>2. ASSUME NEW i \in 1..n PROVE outcome[i] \in Outcomes
    <3>1. p.outcome[i] \in Outcomes
      BY <1>2
    <3>2. LegHit(p, c, i) \in {"TP", "SL", "none"}
      BY DEF LegHit, Hit
    <3>3. outcome[i] = IF LegHit(p, c, i) = "none" THEN p.outcome[i] ELSE LegHit(p, c, i)
      BY <1>2
    <3> QED BY <3>1, <3>2, <3>3 DEF Outcomes
  <2> HIDE DEF outcome
  <2> QED BY <2>1, <2>2, SeqOf
<1>5. PyramidCloses(p, c) = p2
  BY DEF PyramidCloses
<1> HIDE DEF outcome, pnl
<1>6. p2 \in [entries : Seq(Int), sum : Int, outcome : Seq(Outcomes), stop : Int, pnl : Int]
  BY <1>3, <1>4 DEF PyramidTyped
<1>7. p2.entries = p.entries /\ p2.outcome = outcome
  BY DEF PyramidTyped
<1> HIDE DEF p2
<1> QED BY <1>1, <1>4, <1>5, <1>6, <1>7 DEF PyramidTyped

LEMMA PyramidCandleTyped ==
  ASSUME NEW p, NEW c, PyramidTyped(p), setup.legs \in Nat
  PROVE  PyramidTyped(PyramidCandle(p, c))
<1>1. PyramidTyped(PyramidCloses(PyramidAdds(p, c), c))
  BY PyramidAddsTyped, PyramidClosesTyped
<1> QED BY <1>1 DEF PyramidCandle

LEMMA Stage4AddsTyped ==
  ASSUME NEW s, NEW c, Stage4Typed(s), setup.legs \in Nat
  PROVE  Stage4Typed(Stage4Adds(s, c))
<1> DEFINE n == Len(s.entries)
           next == s.entries[n] + Step
           sum == s.sum + next
           entries == Append(s.entries, next)
           exits == Append(s.exits, Open)
           stop == IF setup.breakeven THEN Average(sum, n + 1) ELSE s.stop
           kind == IF setup.breakeven THEN "breakeven" ELSE s.kind
           s2 == [s EXCEPT !.entries = entries, !.sum = sum, !.exits = exits,
                           !.stop = stop, !.kind = kind]
<1>1. /\ s.entries \in Seq(Int) /\ s.exits \in Seq(Exits) /\ n \in 1..setup.legs
      /\ Len(s.exits) = n /\ s.sum \in Int /\ s.stop \in Int /\ n \in Nat \ {0}
      /\ s.kind \in Kinds /\ (s.kind = "protected" => s.protected)
  BY DEF Stage4Typed
<1>2. next \in Int
  <2>1. s.entries[n] \in Int
    BY <1>1
  <2> QED BY <2>1, Constants
<1>3. sum \in Int /\ n + 1 \in Nat \ {0}
  BY <1>1, <1>2
<1>4. stop \in Int /\ kind \in Kinds /\ (kind = "protected" => s.protected)
  BY <1>1, <1>3, AverageInt DEF Kinds
<1> HIDE DEF next, sum
<1>5. /\ entries \in Seq(Int) /\ Len(entries) = n + 1
      /\ exits \in Seq(Exits) /\ Len(exits) = n + 1
  BY <1>1, <1>2, OpenTyped
<1>6. Stage4Adds(s, c) = IF n < setup.legs /\ EntryHit(c, next) THEN s2 ELSE s
  BY DEF Stage4Adds, next, sum
<1>7. ASSUME n < setup.legs PROVE Stage4Typed(s2)
  <2>1. n + 1 \in 1..setup.legs
    BY <1>1, <1>7
  <2> HIDE DEF entries, exits, stop, kind
  <2>2. s2 \in [entries : Seq(Int), sum : Int, exits : Seq(Exits), stop : Int,
                kind : Kinds, protected : BOOLEAN]
    BY <1>3, <1>4, <1>5 DEF Stage4Typed
  <2>3. /\ s2.entries = entries /\ s2.exits = exits /\ s2.kind = kind
        /\ s2.protected = s.protected
    BY DEF Stage4Typed
  <2> QED BY <1>4, <1>5, <2>1, <2>2, <2>3 DEF Stage4Typed
<1> HIDE DEF s2
<1> QED BY <1>6, <1>7

LEMMA ExitsTyped ==
  ASSUME NEW s, NEW exits, Stage4Typed(s), DOMAIN s.exits = DOMAIN exits,
         exits = [i \in DOMAIN exits |-> exits[i]], \A i \in DOMAIN s.exits : exits[i] \in Exits
  PROVE  Stage4Typed([s EXCEPT !.exits = exits])
<1>1. PICK n \in Nat : n = Len(s.entries)
  BY DEF Stage4Typed
<1>2. s.exits \in Seq(Exits) /\ Len(s.exits) = n /\ DOMAIN s.exits = 1..n
  BY <1>1 DEF Stage4Typed
<1>3. exits \in Seq(Exits) /\ Len(exits) = n
  BY <1>2, SeqOf
<1>4. PICK s2 : s2 = [s EXCEPT !.exits = exits]
  OBVIOUS
<1>5. s2 \in [entries : Seq(Int), sum : Int, exits : Seq(Exits), stop : Int,
              kind : Kinds, protected : BOOLEAN]
  BY <1>3, <1>4 DEF Stage4Typed
<1>6. /\ s2.entries = s.entries /\ s2.exits = exits /\ s2.kind = s.kind
      /\ s2.protected = s.protected
  BY <1>4 DEF Stage4Typed
<1>7. Stage4Typed(s2)
  BY <1>1, <1>3, <1>5, <1>6 DEF Stage4Typed
<1> QED BY <1>4, <1>7

LEMMA Stage4ClosesTyped ==
  ASSUME NEW s, NEW c, NEW at \in Times, Stage4Typed(s)
  PROVE  Stage4Typed(Stage4Closes(s, c, at))
<1> DEFINE exits == [i \in DOMAIN s.exits |->
                       IF s.exits[i] = Open
                       THEN LegExit(c, s.entries[i] + Target, s.stop, s.kind, at)
                       ELSE s.exits[i]]
<1>1. /\ s.entries \in Seq(Int) /\ s.exits \in Seq(Exits) /\ Len(s.exits) = Len(s.entries)
      /\ s.stop \in Int
  BY DEF Stage4Typed
<1>2. ASSUME NEW i \in DOMAIN s.exits PROVE exits[i] \in Exits
  <2>1. s.exits[i] \in Exits /\ s.entries[i] \in Int
    BY <1>1
  <2>2. s.entries[i] + Target \in Int
    BY <2>1, Constants
  <2>3. LegExit(c, s.entries[i] + Target, s.stop, s.kind, at) \in Exits
    BY <1>1, <2>2, LegExitTyped
  <2> QED BY <2>1, <2>3
<1>3. DOMAIN exits = DOMAIN s.exits /\ exits = [i \in DOMAIN exits |-> exits[i]]
  OBVIOUS
<1>4. Stage4Closes(s, c, at) = [s EXCEPT !.exits = exits]
  BY DEF Stage4Closes
<1> HIDE DEF exits
<1>5. Stage4Typed([s EXCEPT !.exits = exits])
  BY <1>2, <1>3, ExitsTyped
<1> QED BY <1>4, <1>5

LEMMA Stage4TimesOutTyped ==
  ASSUME NEW s, Stage4Typed(s), last \in [close : Int, at : 0..Hold]
  PROVE  Stage4Typed(Stage4TimesOut(s))
<1> DEFINE exit == IF last.at = 0 THEN Exit("HARD_EXIT", 0, Hold)
                   ELSE Exit("HARD_EXIT", last.close, last.at)
           exits == [i \in DOMAIN s.exits |-> IF s.exits[i] = Open THEN exit ELSE s.exits[i]]
<1>1. exit \in Exits
  <2>1. last.close \in Int /\ last.at \in Times /\ "HARD_EXIT" \in Statuses
    BY Constants DEF Statuses
  <2> QED BY <2>1, ExitTyped, Constants
<1>2. ASSUME NEW i \in DOMAIN s.exits PROVE exits[i] \in Exits
  <2>1. s.exits[i] \in Exits
    BY DEF Stage4Typed
  <2> HIDE DEF exit
  <2> QED BY <1>1, <2>1
<1>3. DOMAIN exits = DOMAIN s.exits /\ exits = [i \in DOMAIN exits |-> exits[i]]
  OBVIOUS
<1>4. Stage4TimesOut(s) = [s EXCEPT !.exits = exits]
  BY DEF Stage4TimesOut
<1> HIDE DEF exits
<1>5. Stage4Typed([s EXCEPT !.exits = exits])
  BY <1>2, <1>3, ExitsTyped
<1> QED BY <1>4, <1>5

LEMMA Stage4CandleTyped ==
  ASSUME NEW s, NEW c, NEW at \in Times, Stage4Typed(s), setup.legs \in Nat
  PROVE  Stage4Typed(Stage4Candle(s, c, at))
<1>1. PICK t : t = Stage4Closes(Stage4Adds(s, c), c, at)
  OBVIOUS
<1>2. Stage4Typed(t)
  BY <1>1, Stage4AddsTyped, Stage4ClosesTyped
<1> DEFINE u == [t EXCEPT !.stop = Trail, !.kind = "protected", !.protected = TRUE]
<1>3. Stage4Typed(u)
  <2>1. PICK yes \in BOOLEAN : yes = TRUE
    OBVIOUS
  <2>2. u = [t EXCEPT !.stop = Trail, !.kind = "protected", !.protected = yes]
    BY <2>1
  <2>3. PICK v : v = [t EXCEPT !.stop = Trail, !.kind = "protected", !.protected = yes]
    OBVIOUS
  <2>4. v \in [entries : Seq(Int), sum : Int, exits : Seq(Exits), stop : Int,
               kind : Kinds, protected : BOOLEAN]
    BY <1>2, <2>3, Constants DEF Stage4Typed, Kinds
  <2>5. v.entries = t.entries /\ v.exits = t.exits /\ v.protected = yes
    BY <1>2, <2>3 DEF Stage4Typed
  <2>6. Stage4Typed(v)
    BY <1>2, <2>1, <2>4, <2>5 DEF Stage4Typed
  <2> QED BY <2>2, <2>3, <2>6
<1> HIDE DEF u
<1>4. Stage4Protects(t, c) \in {t, u}
  BY DEF Stage4Protects, u
<1>5. Stage4Typed(Stage4Protects(t, c))
  BY <1>2, <1>3, <1>4
<1> QED BY <1>1, <1>5 DEF Stage4Candle

LEMMA PositionExits ==
  ASSUME NEW p \in Positions, NEW exit \in Exits
  PROVE  [p EXCEPT !.exit = exit] \in Positions
  BY DEF Positions

LEMMA PortfolioCandleTyped ==
  ASSUME NEW p \in Positions, NEW c, c.close \in Int, NEW at \in Times, NEW funded,
         setup.legs \in Nat
  PROVE  PortfolioCandle(p, c, at, funded) \in Positions
<1>1. \A q \in Positions : /\ q.legs \in Nat \ {0} /\ q.sum \in Int
                           /\ Average(q.sum, q.legs) \in Int
  <2> TAKE q \in Positions
  <2>1. q.legs \in 1..setup.legs /\ q.sum \in Int
    BY DEF Positions
  <2>2. q.legs \in Nat \ {0}
    BY <2>1
  <2> QED BY <2>1, <2>2, AverageInt
<1>2. ASSUME NEW q \in Positions PROVE PortfolioAdds(q, c, funded) \in Positions
  <2>1. PICK next : next = Average(q.sum, q.legs) + q.legs * Step
    OBVIOUS
  <2>2. next \in Int
    <3>1. q.legs * Step \in Int
      BY <1>1, Constants
    <3> QED BY <1>1, <2>1, <3>1
  <2> DEFINE legs == q.legs + 1
             sum == q.sum + next
             kind == IF setup.breakeven THEN "breakeven" ELSE q.kind
             r == [q EXCEPT !.legs = legs, !.sum = sum, !.kind = kind]
  <2>3. PortfolioAdds(q, c, funded) =
          IF q.legs < setup.legs /\ EntryHit(c, next) /\ funded THEN r ELSE q
    BY <2>1 DEF PortfolioAdds
  <2>4. sum \in Int /\ kind \in Kinds
    BY <1>1, <2>2 DEF Positions, Kinds
  <2>5. ASSUME q.legs < setup.legs PROVE r \in Positions
    <3>1. legs \in 1..setup.legs
      BY <1>1, <2>5
    <3> HIDE DEF legs, sum, kind
    <3> QED BY <2>4, <3>1 DEF Positions
  <2> HIDE DEF r
  <2> QED BY <2>3, <2>5
<1>3. ASSUME NEW q \in Positions PROVE PortfolioProtects(q, c) \in Positions
  <2>1. PICK yes \in BOOLEAN : yes = TRUE
    OBVIOUS
  <2>2. [q EXCEPT !.kind = "protected", !.protected = yes] \in Positions
    BY DEF Positions, Kinds
  <2>3. [q EXCEPT !.kind = "protected", !.protected = TRUE] \in Positions
    BY <2>1, <2>2
  <2> QED BY <2>3 DEF PortfolioProtects
<1>4. ASSUME NEW q \in Positions PROVE PortfolioCloses(q, c, at) \in Positions
  <2>1. PICK average \in Int : average = Average(q.sum, q.legs)
    BY <1>1
  <2>2. SharedStop(q) \in Int
    BY <2>1, Constants DEF SharedStop
  <2>3. average + Target \in Int
    BY <2>1, Constants
  <2>4. LegExit(c, average + Target, SharedStop(q), q.kind, at) \in Exits
    BY <2>2, <2>3, LegExitTyped
  <2> QED BY <2>1, <2>4, PositionExits DEF PortfolioCloses
<1>5. Exit("HARD_EXIT", c.close, at) \in Exits
  BY ExitTyped DEF Statuses
<1>6. [p EXCEPT !.exit = Exit("HARD_EXIT", c.close, at)] \in Positions
  BY <1>5, PositionExits
<1>7. PortfolioCloses(PortfolioProtects(PortfolioAdds(p, c, funded), c), c, at) \in Positions
  BY <1>2, <1>3, <1>4
<1> QED BY <1>6, <1>7 DEF PortfolioCandle

LEMMA PortfolioForceClosesTyped ==
  ASSUME NEW p \in Positions, last \in [close : Int, at : 0..Hold]
  PROVE  PortfolioForceCloses(p) \in Positions
<1>1. Exit("HARD_EXIT", last.close, last.at) \in Exits
  <2>1. last.close \in Int /\ last.at \in Times /\ "HARD_EXIT" \in Statuses
    BY Constants DEF Statuses
  <2> QED BY <2>1, ExitTyped
<1> QED BY <1>1, PositionExits DEF PortfolioForceCloses

LEMMA TypedInitially == Init => TypeInv
<1> SUFFICES ASSUME Init PROVE TypeInv
  OBVIOUS
<1>1. setup \in Setups /\ setup.legs \in Nat /\ 1 \in 1..setup.legs
  BY ReplayAssumption DEF Init, Setups
<1>2. last \in [close : Int, at : 0..Hold] /\ time \in Times /\ ended \in BOOLEAN
  <2>1. 0 \in 0..Hold
    BY Constants
  <2>2. last \in [close : Int, at : 0..Hold]
    BY <2>1 DEF Init
  <2>3. time \in Times
    BY Constants DEF Init
  <2>4. ended \in BOOLEAN
    BY DEF Init
  <2> QED BY <2>2, <2>3, <2>4
<1>3. grid \in Grids
  BY Constants, OpenTyped DEF Init, GridOpens, Grids, Kinds
<1>4. PyramidTyped(pyramid)
  <2> DEFINE one == <<0>>
             outcome == <<"open">>
  <2>1. one \in Seq(Int) /\ Len(one) = 1 /\ outcome \in Seq(Outcomes) /\ Len(outcome) = 1
    BY DEF Outcomes
  <2>2. pyramid = [entries |-> one, sum |-> 0, outcome |-> outcome, stop |-> -Stop, pnl |-> 0]
    BY DEF Init, PyramidOpens
  <2> HIDE DEF one, outcome
  <2>3. pyramid \in [entries : Seq(Int), sum : Int, outcome : Seq(Outcomes), stop : Int, pnl : Int]
    BY <2>1, <2>2, Constants
  <2>4. pyramid.entries = one /\ pyramid.outcome = outcome
    BY <2>2
  <2> QED BY <1>1, <2>1, <2>3, <2>4 DEF PyramidTyped
<1>5. Stage4Typed(stage4)
  <2> DEFINE one == <<0>>
             exits == <<Open>>
  <2>1. one \in Seq(Int) /\ Len(one) = 1 /\ exits \in Seq(Exits) /\ Len(exits) = 1
    BY OpenTyped
  <2>2. stage4 = [entries |-> one, sum |-> 0, exits |-> exits, stop |-> -Stop,
                  kind |-> "initial", protected |-> FALSE]
    BY DEF Init, Stage4Opens
  <2> HIDE DEF one, exits
  <2>3. stage4 \in [entries : Seq(Int), sum : Int, exits : Seq(Exits), stop : Int,
                    kind : Kinds, protected : BOOLEAN]
    BY <2>1, <2>2, Constants DEF Kinds
  <2>4. stage4.entries = one /\ stage4.exits = exits /\ stage4.kind # "protected"
    BY <2>2
  <2> QED BY <1>1, <2>1, <2>3, <2>4 DEF Stage4Typed
<1>6. portfolio \in Positions
  BY <1>1, OpenTyped DEF Init, PortfolioOpens, Positions, Kinds
<1> QED BY <1>1, <1>2, <1>3, <1>4, <1>5, <1>6 DEF TypeInv

LEMMA TypedInductive == TypeInv /\ [Next]_vars => TypeInv'
<1> SUFFICES ASSUME TypeInv, [Next]_vars PROVE TypeInv'
  OBVIOUS
<1> USE DEF TypeInv
<1>1. setup.legs \in Nat
  BY ReplayAssumption DEF Setups
<1>2. setup' = setup /\ (PyramidTyped(pyramid') <=> PyramidTyped(pyramid)')
      /\ (Stage4Typed(stage4') <=> Stage4Typed(stage4)')
      /\ Positions' = Positions /\ Grids' = Grids /\ Setups' = Setups /\ Times' = Times
  BY DEF Next, WindowCandle, LateCandle, Gap, Cutoff, DataEnds, vars, PyramidTyped, Stage4Typed,
         Positions, Grids, Setups, Times
<1>3. time < Hold + Late => time + 1 \in Times
  BY Constants DEF Times
<1>4. \A c \in Candles : c.close \in Int
  BY ReplayAssumption DEF Candles
<1>5. CASE WindowCandle
  <2>1. PICK c \in Candles, funded \in BOOLEAN :
          /\ last' = [close |-> c.close, at |-> time + 1]
          /\ grid' = GridCandle(grid, c, time + 1)
          /\ pyramid' = PyramidCandle(pyramid, c)
          /\ stage4' = Stage4Candle(stage4, c, time + 1)
          /\ portfolio' = PortfolioCandle(portfolio, c, time + 1, funded)
    BY <1>5 DEF WindowCandle
  <2>2. time < Hold /\ time' = time + 1 /\ ended' = ended
    BY <1>5 DEF WindowCandle
  <2>3. time + 1 \in 0..Hold /\ time + 1 \in Times
    BY <2>2, Constants DEF Times
  <2>4. grid' \in Grids /\ PyramidTyped(pyramid') /\ Stage4Typed(stage4') /\ portfolio' \in Positions
    BY <1>1, <1>4, <2>1, <2>3, GridCandleTyped, PyramidCandleTyped, Stage4CandleTyped,
       PortfolioCandleTyped
  <2>5. last' \in [close : Int, at : 0..Hold]
    BY <1>4, <2>1, <2>3
  <2> QED BY <1>2, <2>2, <2>3, <2>4, <2>5
<1>6. CASE LateCandle
  <2>1. PICK c \in Candles : portfolio' = PortfolioCandle(portfolio, c, time + 1, FALSE)
    BY <1>6 DEF LateCandle
  <2>2. time + 1 \in Times
    BY <1>3, <1>6 DEF LateCandle
  <2>3. portfolio' \in Positions
    BY <1>1, <1>4, <2>1, <2>2, PortfolioCandleTyped
  <2> QED BY <1>2, <1>6, <2>2, <2>3 DEF LateCandle
<1>7. CASE Gap
  BY <1>2, <1>3, <1>7 DEF Gap
<1>8. CASE Cutoff
  BY <1>2, <1>8, GridTimesOutTyped, Stage4TimesOutTyped DEF Cutoff
<1>9. CASE DataEnds
  BY <1>2, <1>9, GridTimesOutTyped, Stage4TimesOutTyped, PortfolioForceClosesTyped DEF DataEnds
<1>10. CASE UNCHANGED vars
  BY <1>2, <1>10 DEF vars
<1> QED BY <1>5, <1>6, <1>7, <1>8, <1>9, <1>10 DEF Next

(* For any levels, any number of legs and any window: every simulator keeps  *)
(* its record, an exit for each leg and no leg too many.                     *)
THEOREM RecordsTyped == Spec => []TypeOK
<1>1. TypeInv => TypeOK
  BY DEF TypeInv, TypeOK, Grids, Positions, PyramidTyped, Stage4Typed, Times, Outcomes
<1>2. Spec => []TypeInv
  BY TypedInitially, TypedInductive, PTL DEF Spec
<1> QED BY <1>1, <1>2, PTL
=============================================================================
