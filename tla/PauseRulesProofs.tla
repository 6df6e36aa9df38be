--------------------------- MODULE PauseRulesProofs ---------------------------
(***************************************************************************)
(* For every number of cycles, length of the page and limit of the rules:  *)
(* the saved counters are what the closes say, and no position is opened   *)
(* in a pause the cycle knew of.                                           *)
(*                                                                         *)
(* The invariant speaks of every copy of the three rules, the one in the   *)
(* route's row and those the cycles carry: each is true of the closes up   *)
(* to the close it processed last, so it does not matter which copy a      *)
(* slower cycle writes over which.  What the order of the steps gives is   *)
(* that a cycle's copy never runs ahead of the page its snapshot took.     *)
(***************************************************************************)
EXTENDS PauseRules, FiniteSetTheorems, TLAPS

\* A cycle's page is empty or the last Page closes up to one it saw.
Window(page) ==
  page = {} \/ \E n \in 1..Len(closes) : page = {i \in 1..n : i > n - Page}

\* What every copy of the rule for losses satisfies, whatever was skipped.
LossFits(state) ==
  /\ state.last = None => state.count = 0 /\ state.until = None
  /\ state.last # None => state.last <= Len(closes) /\ state.count <= state.last

\* What it satisfies as long as no close was skipped.
LossHistory(state) ==
  state.last # None =>
    /\ state.count = TrailingLosses(state.last)
    /\ state.until = IF LossesPause(state.last) THEN Expiry(state.last) ELSE None

\* The wins among the closes up to id.
WonUpTo(id) == {i \in 1..id : closes[i].pnl > 0}

\* What every copy of the rule for wins satisfies.
WinFits(state) ==
  /\ state.last = None => state.count = 0 /\ state.until = None
  /\ state.last # None =>
       /\ state.last <= Len(closes)
       /\ state.count <= Cardinality(WonUpTo(state.last))
       /\ state.count > 0 <=> closes[state.last].pnl > 0
       /\ state.until = IF state.count >= Wins THEN Expiry(state.last) ELSE None

\* And of the rule for a burst of profit.
BurstFits(state) ==
  state.last # None =>
    state.last <= Len(closes) /\ state.until = Expiry(state.last)

RouteFits(route) ==
  /\ LossFits(route.loss)
  /\ ~gap => LossHistory(route.loss)
  /\ WinFits(route.win)
  /\ BurstFits(route.burst)

\* A cycle's copy is never ahead of its page, and after a rule's step up to it.
Ahead(state, page) == state.last # None /\ state.last > Max(page)

CycleFits(k) ==
  /\ k.step \in {"loss", "win", "burst", "check"} => Window(k.page)
  /\ k.page # {} /\ k.step = "loss" => ~Ahead(k.route.loss, k.page)
  /\ k.page # {} /\ k.step \in {"loss", "win"} => ~Ahead(k.route.win, k.page)
  /\ k.page # {} /\ k.step \in {"win", "burst", "check"} => k.route.loss.last = Max(k.page)
  /\ k.page # {} /\ k.step = "check" /\ Burst(k.page, Max(k.page))
       => k.route.burst.last = Max(k.page)

IInv ==
  /\ TypeOK
  /\ RouteFits(rules)
  /\ \A c \in Cycle : RouteFits(cycle[c].route)
  /\ \A c \in Cycle : CycleFits(cycle[c])

-----------------------------------------------------------------------------
\* The maximum of a set of integers that has one.
LEMMA MaxIs ==
  ASSUME NEW S \in SUBSET Int, NEW m \in S, \A y \in S : m >= y
  PROVE  Max(S) = m
<1>1. \A x \in S : (\A y \in S : x >= y) => x = m
  OBVIOUS
<1>2. QED
  BY <1>1 DEF Max

\* A nonempty set of numbers up to n has a maximum: the set of its members from k on
\* is smallest for the largest k.
LEMMA MaxExists ==
  ASSUME NEW n \in Nat, NEW S \in SUBSET (1..n), S # {}
  PROVE  Max(S) \in S /\ \A y \in S : Max(S) >= y
<1> DEFINE from(k) == {i \in S : i >= k}
           F == {from(k) : k \in S}
<1>0. S \subseteq Int
  OBVIOUS
<1>1. IsFiniteSet(1..n)
  BY FS_Interval
<1>2. IsFiniteSet(S)
  BY <1>1, FS_Subset
<1>3. FiniteSubsetsOf(S) = SUBSET S
  BY <1>2, FS_FiniteSubsetsOfFinite
<1>4. IsWellFoundedOn(StrictSubsetOrdering(S), SUBSET S)
  BY <1>3, FS_StrictSubsetOrderingWellFounded
<1>5. F \subseteq SUBSET S /\ F # {}
  OBVIOUS
<1>6. PICK T \in F : \A U \in F : ~ (<<U, T>> \in StrictSubsetOrdering(S))
  BY <1>4, <1>5, WFMin
<1>7. PICK k \in S : T = from(k)
  BY <1>6
<1>8. \A y \in S : k >= y
  <2> SUFFICES ASSUME NEW y \in S, y > k
               PROVE  FALSE
    OBVIOUS
  <2>0. k \in Int /\ y \in Int /\ \A i \in S : i \in Int
    BY <1>0
  <2>a. ~(k >= y) /\ k >= k /\ \A i \in S : i >= y => i >= k
    BY <2>0
  <2>1. from(y) \subseteq from(k) /\ k \in from(k) /\ k \notin from(y)
    BY <2>a
  <2>2. from(y) \in F
    OBVIOUS
  <2>3. <<from(y), T>> \in StrictSubsetOrdering(S)
    BY <2>1, <1>7, <1>5, <2>2 DEF StrictSubsetOrdering
  <2>4. QED
    BY <2>2, <2>3, <1>6
<1>9. Max(S) = k
  BY <1>8, MaxIs
<1>10. QED
  BY <1>8, <1>9

\* The fold of Burst, as a function of the closes.
SumOf(cl, ids) ==
  (CHOOSE f : f = [s \in SUBSET ids |-> IF s = {} THEN 0
     ELSE cl[CHOOSE x \in s : TRUE].pnl + f[s \ {CHOOSE x \in s : TRUE}]])[ids]

Recent(cl, page, latest) == {i \in page : cl[i].at >= cl[latest].at - Lookback}

\* Burst is that fold, in a state and in the next one.
LEMMA BurstIs ==
  ASSUME NEW page, NEW latest
  PROVE  /\ Burst(page, latest) = (SumOf(closes, Recent(closes, page, latest)) >= Profit)
         /\ Burst(page, latest)' = (SumOf(closes', Recent(closes', page, latest)) >= Profit)
  BY DEF Burst, Pnl, MapThenSumSet, MapThenFoldSet, SumOf, Recent

\* A fold over closes that are the same is the same.
LEMMA SumSame ==
  ASSUME NEW a, NEW b, NEW ids, \A i \in ids : a[i] = b[i]
  PROVE  SumOf(a, ids) = SumOf(b, ids)
<1> DEFINE old(f) == [s \in SUBSET ids |-> IF s = {} THEN 0
                       ELSE a[CHOOSE x \in s : TRUE].pnl + f[s \ {CHOOSE x \in s : TRUE}]]
           new(f) == [s \in SUBSET ids |-> IF s = {} THEN 0
                       ELSE b[CHOOSE x \in s : TRUE].pnl + f[s \ {CHOOSE x \in s : TRUE}]]
<1>1. SumOf(a, ids) = (CHOOSE f : f = old(f))[ids]
  BY DEF SumOf
<1>2. SumOf(b, ids) = (CHOOSE f : f = new(f))[ids]
  BY DEF SumOf
<1>3. \A s \in SUBSET ids : s # {} => (CHOOSE x \in s : TRUE) \in ids
  OBVIOUS
<1>4. \A f : old(f) = new(f)
  BY <1>3
<1>5. \A f : f = old(f) <=> f = new(f)
  BY <1>4
<1> HIDE DEF old, new
<1>6. (CHOOSE f : f = old(f)) = (CHOOSE f : f = new(f))
  BY <1>5, Zenon
<1>7. QED
  BY <1>1, <1>2, <1>6

\* A page that is not empty ends with the last close the cycle saw.
LEMMA WindowMax ==
  ASSUME closes \in Seq(Close), NEW page, Window(page), page # {}
  PROVE  \E n \in 1..Len(closes) :
           page = {i \in 1..n : i > n - Page} /\ n \in page /\ Max(page) = n
<1>1. PICK n \in 1..Len(closes) : page = {i \in 1..n : i > n - Page}
  BY DEF Window
<1>2. n \in Int /\ Page \in Nat \ {0} /\ n \in page
  BY <1>1, PauseAssumption
<1>3. page \in SUBSET Int /\ \A y \in page : n >= y
  BY <1>1, <1>2
<1>4. Max(page) = n
  BY <1>2, <1>3, MaxIs
<1>5. QED
  BY <1>1, <1>2, <1>4

\* Closes have a result and a time.
LEMMA Typed ==
  ASSUME closes \in Seq(Close), NEW i \in 1..Len(closes)
  PROVE  closes[i] \in Close /\ closes[i].pnl \in Int /\ closes[i].at \in Int /\ Expiry(i) \in Int
<1>1. closes[i] \in Close
  OBVIOUS
<1>2. Results \subseteq Int /\ MaxTime \in Nat /\ Cooldown \in Nat
  BY PauseAssumption
<1>a. closes[i].pnl \in Results /\ closes[i].at \in Time
  BY <1>1 DEF Close
<1>b. closes[i].pnl \in Int
  BY <1>a, <1>2
<1>c. Time \subseteq Int
  BY <1>2 DEF Time
<1>3. closes[i].pnl \in Int /\ closes[i].at \in Int
  BY <1>a, <1>b, <1>c
<1>4. QED
  BY <1>1, <1>2, <1>3 DEF Expiry

\* Members of m+1..n.
LEMMA AboveCard ==
  ASSUME NEW m \in Nat, NEW n \in Nat, m <= n
  PROVE  Cardinality(m+1..n) = n - m
<1>1. PICK k \in Int : k = m + 1
  OBVIOUS
<1>2. Cardinality(k..n) = IF k > n THEN 0 ELSE n - k + 1
  BY FS_Interval
<1>3. QED
  BY <1>1, <1>2

\* The part of an interval above one of its members.
LEMMA Above ==
  ASSUME NEW lo \in Nat, NEW n \in Nat, NEW m \in lo..n
  PROVE  {i \in lo..n : i > m} = m+1..n
  OBVIOUS

\* The set that TrailingLosses counts.
Trail(id) == {i \in 1..id : \A j \in i..id : closes[j].pnl < 0}

\* Losses after k lengthen the series that ends in k.
LEMMA TrailExtends ==
  ASSUME closes \in Seq(Close), NEW n \in 1..Len(closes), NEW k \in 0..n,
         \A j \in k+1..n : closes[j].pnl < 0
  PROVE  TrailingLosses(n) = TrailingLosses(k) + (n - k)
<1>1. n \in Nat /\ k \in Nat /\ k <= n
  OBVIOUS
<1>2. Trail(n) = Trail(k) \cup (k+1..n)
  <2>1. ASSUME NEW i \in Trail(n) PROVE i \in Trail(k) \cup (k+1..n)
    BY <1>1, <2>1 DEF Trail
  <2>2. ASSUME NEW i \in Trail(k) PROVE i \in Trail(n)
    <3>1. \A j \in i..n : j \in i..k \/ j \in k+1..n
      BY <1>1, <2>2 DEF Trail
    <3>2. QED
      BY <1>1, <2>2, <3>1 DEF Trail
  <2>3. ASSUME NEW i \in k+1..n PROVE i \in Trail(n)
    BY <1>1, <2>3 DEF Trail
  <2>4. QED
    BY <2>1, <2>2, <2>3
<1>3. Trail(k) \cap (k+1..n) = {}
  BY <1>1 DEF Trail
<1>4. IsFiniteSet(1..k) /\ IsFiniteSet(k+1..n) /\ Cardinality(k+1..n) = n - k
  BY <1>1, FS_Interval
<1>5. Trail(k) \in SUBSET (1..k)
  BY DEF Trail
<1>6. IsFiniteSet(Trail(k)) /\ Cardinality(Trail(k)) \in Nat
  BY <1>4, <1>5, FS_Subset, FS_CardinalityType
<1>7. Cardinality(Trail(n)) = Cardinality(Trail(k)) + (n - k) - Cardinality({})
  BY <1>2, <1>3, <1>4, <1>6, FS_Union
<1>8. Cardinality({}) = 0
  BY FS_EmptySet
<1>9. TrailingLosses(n) = Cardinality(Trail(n)) /\ TrailingLosses(k) = Cardinality(Trail(k))
  BY DEF TrailingLosses, Trail
<1>10. QED
  BY <1>1, <1>6, <1>7, <1>8, <1>9

\* A close m that is no loss starts the series after it.
LEMMA TrailCut ==
  ASSUME closes \in Seq(Close), NEW n \in 1..Len(closes), NEW m \in 1..n,
         closes[m].pnl >= 0, \A j \in m+1..n : closes[j].pnl < 0
  PROVE  TrailingLosses(n) = n - m
<1>1. n \in Nat /\ m \in Nat /\ m <= n /\ closes[m].pnl \in Int
  BY Typed
<1>2. Trail(n) = m+1..n
  <2>1. ASSUME NEW i \in Trail(n) PROVE i \in m+1..n
    <3>1. i \in 1..n /\ i \in Int /\ \A j \in i..n : closes[j].pnl < 0
      BY DEF Trail
    <3>2. CASE i <= m
      <4>1. m \in i..n
        BY <1>1, <3>1, <3>2
      <4>2. QED
        BY <1>1, <3>1, <4>1
    <3>3. QED
      BY <1>1, <3>1, <3>2
  <2>2. ASSUME NEW i \in m+1..n PROVE i \in Trail(n)
    BY <1>1, <2>2 DEF Trail
  <2>3. QED
    BY <2>1, <2>2
<1>3. Cardinality(m+1..n) = n - m
  BY <1>1, AboveCard
<1>4. QED
  BY <1>2, <1>3 DEF TrailingLosses, Trail

\* What CountLosses gives for the closes lo..n: all of them after count, or those after
\* the last that is no loss.
LEMMA CountIs ==
  ASSUME closes \in Seq(Close), NEW n \in 1..Len(closes), NEW lo \in 1..n,
         NEW count \in Nat
  PROVE  \/ /\ \A j \in lo..n : closes[j].pnl < 0
            /\ CountLosses(count, lo..n) = count + (n - lo + 1)
         \/ \E m \in lo..n : /\ closes[m].pnl >= 0
                             /\ \A j \in m+1..n : closes[j].pnl < 0
                             /\ CountLosses(count, lo..n) = n - m
<1> DEFINE others == {i \in lo..n : closes[i].pnl >= 0}
<1>1. n \in Nat /\ lo \in Nat /\ lo <= n /\ \A i \in lo..n : i \in 1..Len(closes)
  OBVIOUS
<1>2. \A i \in lo..n : closes[i].pnl \in Int
  BY <1>1, Typed
<1>3. CASE others = {}
  <2>1. \A j \in lo..n : closes[j].pnl < 0
    BY <1>2, <1>3
  <2>2. Cardinality(lo..n) = n - lo + 1
    BY <1>1, FS_Interval
  <2>3. QED
    BY <1>3, <2>1, <2>2 DEF CountLosses
<1>4. CASE others # {}
  <2>1. others \in SUBSET (1..n)
    BY <1>1
  <2>2. Max(others) \in others /\ \A y \in others : Max(others) >= y
    BY <1>1, <1>4, <2>1, MaxExists
  <2> DEFINE m == Max(others)
  <2>3. m \in lo..n /\ closes[m].pnl >= 0 /\ m \in Int
    BY <2>2
  <2>4. \A j \in m+1..n : closes[j].pnl < 0
    <3> SUFFICES ASSUME NEW j \in m+1..n, ~ closes[j].pnl < 0
                 PROVE  FALSE
      OBVIOUS
    <3>1. j \in lo..n /\ j > m
      BY <1>1, <2>3
    <3>2. closes[j].pnl \in Int
      BY <1>2, <3>1
    <3>3. j \in others
      BY <3>1, <3>2
    <3>4. QED
      BY <2>2, <2>3, <3>1, <3>3
  <2>5. {i \in lo..n : i > m} = m+1..n
    BY <1>1, <2>3, Above
  <2>6. Cardinality(m+1..n) = n - m
    <3>1. m \in Nat /\ m <= n
      BY <1>1, <2>3
    <3>2. QED
      BY <1>1, <3>1, AboveCard
  <2>7. CountLosses(count, lo..n) = n - m
    BY <1>4, <2>5, <2>6 DEF CountLosses
  <2>8. QED
    BY <2>3, <2>4, <2>7
<1>5. QED
  BY <1>3, <1>4

\* The update of the rule for losses leaves out a close.
Skips(state, page) ==
  \E i \in 1..Max(page) : /\ state.last = None \/ i > state.last
                          /\ i \notin NewCloses(state, page)

\* The closes a cycle counts are lo..n with n the last of its page; they start where the
\* state ended, unless a close is left out (_update_consecutive_loss_pause_state 716-722).
LEMMA NewIs ==
  ASSUME closes \in Seq(Close), NEW page, Window(page), page # {},
         NEW state, state.last \in Int \cup {None},
         state.last # None => state.last >= 1 /\ state.last < Max(page)
  PROVE  \E lo \in 1..Max(page) :
           /\ NewCloses(state, page) = lo..Max(page)
           /\ state.last # None => state.last < lo
           /\ state.last = None /\ ~Skips(state, page) => lo = 1
           /\ state.last # None /\ ~Skips(state, page) => lo = state.last + 1
<1>1. PICK n \in 1..Len(closes) :
        page = {i \in 1..n : i > n - Page} /\ n \in page /\ Max(page) = n
  BY WindowMax
<1>2. n \in Nat /\ n >= 1 /\ Page \in Nat \ {0} /\ None \notin Int
  BY PauseAssumption
<1>3. PICK from \in 1..n : page = from..n
  <2>1. CASE n - Page < 1
    <3>1. page = 1..n
      BY <1>1, <1>2, <2>1
    <3>2. QED
      BY <1>2, <3>1
  <2>2. CASE ~(n - Page < 1)
    <3>1. n - Page + 1 \in 1..n
      BY <1>2, <2>2
    <3>2. page = (n - Page + 1)..n
      BY <1>1, <1>2, <2>2
    <3>3. QED
      BY <3>1, <3>2
  <2>3. QED
    BY <2>1, <2>2
<1>4. from \in Nat /\ from >= 1 /\ from <= n
  BY <1>2
<1>5. CASE state.last = None
  <2>1. NewCloses(state, page) = from..n
    BY <1>3, <1>5 DEF NewCloses
  <2>2. ~Skips(state, page) => from = 1
    <3> SUFFICES ASSUME ~Skips(state, page)
                 PROVE  from = 1
      OBVIOUS
    <3>1. 1 \in 1..Max(page)
      BY <1>1, <1>2
    <3>2. 1 \in from..n
      BY <1>5, <2>1, <3>1 DEF Skips
    <3>3. QED
      BY <1>4, <3>2
  <2>3. QED
    BY <1>1, <1>4, <1>5, <2>1, <2>2
<1>6. CASE state.last # None /\ state.last \in page
  <2>1. state.last \in from..n /\ state.last < n
    BY <1>1, <1>3, <1>6
  <2>2. {i \in from..n : i > state.last} = state.last+1..n
    BY <1>4, <2>1, Above
  <2>3. NewCloses(state, page) = state.last+1..n
    BY <1>3, <1>6, <2>2 DEF NewCloses
  <2>4. PICK lo \in Int : lo = state.last + 1
    BY <2>1
  <2>5. lo \in 1..n /\ state.last < lo
    BY <1>2, <1>4, <2>1, <2>4
  <2>6. QED
    BY <1>1, <1>6, <2>3, <2>4, <2>5
<1>7. CASE state.last # None /\ state.last \notin page
  <2>1. NewCloses(state, page) = {n}
    BY <1>1, <1>7 DEF NewCloses
  <2>2. {n} = n..n
    BY <1>2
  <2>3. state.last \in Nat /\ state.last >= 1 /\ state.last < n
    BY <1>1, <1>7
  <2>4. ~Skips(state, page) => n = state.last + 1
    <3> SUFFICES ASSUME ~Skips(state, page)
                 PROVE  n = state.last + 1
      OBVIOUS
    <3>1. PICK i \in Int : i = state.last + 1
      BY <2>3
    <3>2. i \in 1..Max(page) /\ i > state.last
      BY <1>1, <1>2, <2>3, <3>1
    <3>3. i \in {n}
      BY <2>1, <3>2 DEF Skips
    <3>4. QED
      BY <3>1, <3>3
  <2>5. QED
    BY <1>1, <1>2, <1>7, <2>1, <2>2, <2>3, <2>4
<1>8. QED
  BY <1>5, <1>6, <1>7

-----------------------------------------------------------------------------
\* The update of the rule for losses gives a state that is true of the closes up to the
\* last of the page, if the one it counts on from was.
LEMMA LossStep ==
  ASSUME closes \in Seq(Close), Len(closes) <= MaxCloses,
         NEW page, Window(page), page # {},
         NEW state \in RuleState, LossFits(state),
         ~Ahead(state, page), state.last # Max(page)
  PROVE  /\ LossState(state, page) \in RuleState
         /\ LossFits(LossState(state, page))
         /\ LossState(state, page).last = Max(page)
         /\ LossHistory(state) /\ ~Skips(state, page)
              => LossHistory(LossState(state, page))
<1> DEFINE n == Max(page)
           new == NewCloses(state, page)
           count == CountLosses(state.count, new)
           until == IF closes[n].pnl < 0 /\ count >= Losses THEN Expiry(n)
                    ELSE IF \E i \in new : closes[i].pnl >= 0 THEN None ELSE state.until
<1>0. LossState(state, page) = [count |-> count, last |-> n, until |-> until]
  BY DEF LossState
<1> HIDE DEF until, count, new, n
<1>1. n \in 1..Len(closes) /\ n = Max(page) /\ n \in Nat /\ n <= MaxCloses /\ n # None
  <2>1. n \in 1..Len(closes)
    BY WindowMax DEF n
  <2>2. MaxCloses \in Nat /\ None \notin Int
    BY PauseAssumption
  <2>3. QED
    BY <2>1, <2>2 DEF n
<1>2. /\ state.count \in Nat /\ state.last \in (1..MaxCloses) \cup {None}
      /\ state.until \in Int \cup {None}
  BY DEF RuleState, EventId
<1>3. MaxCloses \in Nat /\ Losses \in Nat \ {0} /\ None \notin Int
  BY PauseAssumption
<1>4. state.last # None => state.last \in Nat /\ state.last >= 1 /\ state.last < n
  BY <1>1, <1>2, <1>3 DEF Ahead, n
<1>5. PICK lo \in 1..n :
        /\ new = lo..n
        /\ state.last # None => state.last < lo
        /\ state.last = None /\ ~Skips(state, page) => lo = 1
        /\ state.last # None /\ ~Skips(state, page) => lo = state.last + 1
  <2>1. state.last \in Int \cup {None}
    BY <1>2, <1>3
  <2>2. QED
    BY <1>4, <2>1, NewIs DEF n, new
<1>6. lo \in Nat /\ lo >= 1 /\ lo <= n
  BY <1>1
<1>7. \/ /\ \A j \in lo..n : closes[j].pnl < 0
         /\ count = state.count + (n - lo + 1)
      \/ \E m \in lo..n : /\ closes[m].pnl >= 0
                          /\ \A j \in m+1..n : closes[j].pnl < 0
                          /\ count = n - m
  BY <1>1, <1>2, <1>5, CountIs DEF count
<1>8. state.count < lo
  <2>1. CASE state.last = None
    BY <1>6, <2>1 DEF LossFits
  <2>2. CASE state.last # None
    BY <1>2, <1>4, <1>5, <1>6, <2>2 DEF LossFits
  <2>3. QED
    BY <2>1, <2>2
<1>9. count \in Nat /\ count <= n
  <2>1. CASE count = state.count + (n - lo + 1)
    BY <1>1, <1>2, <1>6, <1>8, <2>1
  <2>2. ASSUME NEW m \in lo..n, count = n - m PROVE count \in Nat /\ count <= n
    BY <1>1, <1>6, <2>2
  <2>3. QED
    BY <1>7, <2>1, <2>2
<1>10. until \in Int \cup {None}
  BY <1>1, <1>2, Typed DEF until
<1>11. LossState(state, page) \in RuleState
  BY <1>0, <1>1, <1>3, <1>9, <1>10 DEF RuleState, EventId
<1>12. LossFits(LossState(state, page))
  BY <1>0, <1>1, <1>9 DEF LossFits
<1>13. ASSUME LossHistory(state), ~Skips(state, page)
       PROVE  LossHistory(LossState(state, page))
  <2>1. PICK k \in 0..n :
           /\ lo = k + 1
           /\ state.count = TrailingLosses(k)
           /\ state.last = None => k = 0
           /\ state.last # None => k = state.last
    <3>1. CASE state.last = None
      <4>1. TrailingLosses(0) = 0
        <5>1. 1..0 = {}
          OBVIOUS
        <5>2. QED
          BY <5>1, FS_EmptySet DEF TrailingLosses
      <4>2. QED
        BY <1>1, <1>5, <1>13, <3>1, <4>1 DEF LossFits
    <3>2. CASE state.last # None
      <4>1. state.last \in 0..n
        BY <1>1, <1>4, <3>2
      <4>2. state.count = TrailingLosses(state.last)
        BY <1>13, <3>2 DEF LossHistory
      <4>3. lo = state.last + 1
        BY <1>5, <1>13, <3>2
      <4>4. QED
        BY <3>2, <4>1, <4>2, <4>3
    <3>3. QED
      BY <3>1, <3>2
  <2>2. k \in Nat /\ k <= n /\ new = k+1..n
    BY <1>1, <1>5, <2>1
  <2>3. count = TrailingLosses(n)
    <3>1. CASE /\ \A j \in lo..n : closes[j].pnl < 0
               /\ count = state.count + (n - lo + 1)
      <4>1. TrailingLosses(n) = TrailingLosses(k) + (n - k)
        BY <1>1, <2>1, <3>1, TrailExtends
      <4>2. n - lo + 1 = n - k
        BY <1>1, <2>1, <2>2
      <4>3. QED
        BY <2>1, <3>1, <4>1, <4>2
    <3>2. ASSUME NEW m \in lo..n, closes[m].pnl >= 0,
                 \A j \in m+1..n : closes[j].pnl < 0, count = n - m
          PROVE  count = TrailingLosses(n)
      <4>1. m \in 1..n
        BY <1>6
      <4>2. TrailingLosses(n) = n - m
        BY <1>1, <3>2, <4>1, TrailCut
      <4>3. QED
        BY <3>2, <4>2
    <3>3. QED
      BY <1>7, <3>1, <3>2
  <2>4. until = IF LossesPause(n) THEN Expiry(n) ELSE None
    <3>1. LossesPause(n) <=> count >= Losses
      BY <2>3 DEF LossesPause
    <3>2. CASE count >= Losses
      <4>1. closes[n].pnl < 0
        <5>1. CASE \A j \in lo..n : closes[j].pnl < 0
          <6>1. n \in lo..n
            BY <1>1, <1>6
          <6>2. QED
            BY <5>1, <6>1
        <5>2. ASSUME NEW m \in lo..n, \A j \in m+1..n : closes[j].pnl < 0, count = n - m
              PROVE  closes[n].pnl < 0
          <6>1. m \in Int /\ m < n
            BY <1>1, <1>3, <3>2, <5>2
          <6>2. n \in m+1..n
            BY <1>1, <6>1
          <6>3. QED
            BY <5>2, <6>2
        <5>3. QED
          BY <1>7, <5>1, <5>2
      <4>2. QED
        BY <3>1, <3>2, <4>1 DEF until
    <3>3. CASE ~(count >= Losses)
      <4>1. CASE \E i \in new : closes[i].pnl >= 0
        BY <3>1, <3>3, <4>1 DEF until
      <4>2. CASE ~ \E i \in new : closes[i].pnl >= 0
        <5>1. ~(\E m \in lo..n : closes[m].pnl >= 0)
          BY <1>5, <4>2
        <5>2. count = state.count + (n - lo + 1)
          BY <1>7, <5>1
        <5>3. state.count < Losses
          BY <1>1, <1>2, <1>3, <1>6, <1>9, <3>3, <5>2
        <5>4. state.until = None
          <6>1. CASE state.last = None
            BY <6>1 DEF LossFits
          <6>2. CASE state.last # None
            <7>1. ~LossesPause(state.last)
              BY <1>2, <1>3, <1>13, <5>3, <6>2 DEF LossHistory, LossesPause
            <7>2. QED
              BY <1>13, <6>2, <7>1 DEF LossHistory
          <6>3. QED
            BY <6>1, <6>2
        <5>5. QED
          BY <3>1, <3>3, <4>2, <5>4 DEF until
      <4>3. QED
        BY <4>1, <4>2
    <3>4. QED
      BY <3>2, <3>3
  <2>5. QED
    BY <1>0, <2>3, <2>4 DEF LossHistory
<1>14. QED
  BY <1>0, <1>1, <1>11, <1>12, <1>13

\* Wins up to id are at most id.
LEMMA WinsCard ==
  ASSUME NEW id \in Nat
  PROVE  /\ IsFiniteSet(WonUpTo(id))
         /\ Cardinality(WonUpTo(id)) \in Nat /\ Cardinality(WonUpTo(id)) <= id
<1>1. IsFiniteSet(1..id) /\ Cardinality(1..id) = id
  BY FS_Interval
<1>2. WonUpTo(id) \in SUBSET (1..id)
  BY DEF WonUpTo
<1>3. QED
  BY <1>1, <1>2, FS_Subset, FS_CardinalityType

\* A win after k is one more.
LEMMA WinsGrow ==
  ASSUME NEW n \in Nat, NEW k \in 0..n-1, closes[n].pnl > 0
  PROVE  Cardinality(WonUpTo(k)) + 1 <= Cardinality(WonUpTo(n))
<1>1. k \in Nat /\ k < n
  OBVIOUS
<1>2. n \notin WonUpTo(k) /\ WonUpTo(k) \cup {n} \in SUBSET WonUpTo(n)
  BY <1>1 DEF WonUpTo
<1>3. IsFiniteSet(WonUpTo(k)) /\ Cardinality(WonUpTo(k)) \in Nat
  BY <1>1, WinsCard
<1>4. Cardinality(WonUpTo(k) \cup {n}) = Cardinality(WonUpTo(k)) + 1
  BY <1>2, <1>3, FS_AddElement
<1>5. IsFiniteSet(WonUpTo(n))
  BY WinsCard
<1>6. Cardinality(WonUpTo(k) \cup {n}) <= Cardinality(WonUpTo(n))
  BY <1>2, <1>5, FS_Subset
<1>7. QED
  BY <1>4, <1>6

\* The update of the rule for wins gives a state that is true of the closes.
LEMMA WinStep ==
  ASSUME closes \in Seq(Close), Len(closes) <= MaxCloses,
         NEW n \in 1..Len(closes),
         NEW state \in RuleState, WinFits(state),
         state.last # None => state.last < n
  PROVE  /\ WinState(state, n) \in RuleState
         /\ WinFits(WinState(state, n))
<1> DEFINE won == closes[n].pnl > 0
           count == IF won THEN state.count + 1 ELSE 0
           until == IF ~won THEN None
                    ELSE IF count >= Wins THEN Expiry(n) ELSE state.until
<1>0. WinState(state, n) = [count |-> count, last |-> n, until |-> until]
  BY DEF WinState
<1>1. n \in Nat /\ n >= 1 /\ n <= MaxCloses /\ MaxCloses \in Nat /\ Wins \in Nat \ {0}
        /\ None \notin Int
  BY PauseAssumption
<1>2. /\ state.count \in Nat /\ state.last \in (1..MaxCloses) \cup {None}
      /\ state.until \in Int \cup {None}
  BY DEF RuleState, EventId
<1>3. PICK k \in 0..n-1 : state.count <= Cardinality(WonUpTo(k))
  <2>1. CASE state.last = None
    <3>1. 0 \in 0..n-1 /\ state.count = 0 /\ Cardinality(WonUpTo(0)) \in Nat
      BY <1>1, <2>1, WinsCard DEF WinFits
    <3>2. QED
      BY <3>1
  <2>2. CASE state.last # None
    <3>1. state.last \in 0..n-1
      BY <1>1, <1>2, <2>2
    <3>2. QED
      BY <2>2, <3>1 DEF WinFits
  <2>3. QED
    BY <2>1, <2>2
<1>4. k \in Nat /\ Cardinality(WonUpTo(k)) \in Nat /\ Cardinality(WonUpTo(n)) \in Nat
        /\ Cardinality(WonUpTo(n)) <= n
  BY <1>1, WinsCard
<1>5. count \in Nat /\ count <= Cardinality(WonUpTo(n)) /\ (count > 0 <=> won)
  <2>1. CASE won
    <3>1. Cardinality(WonUpTo(k)) + 1 <= Cardinality(WonUpTo(n))
      BY <1>1, <2>1, WinsGrow
    <3>2. QED
      BY <1>2, <1>3, <1>4, <2>1, <3>1
  <2>2. CASE ~won
    BY <1>4, <2>2
  <2>3. QED
    BY <2>1, <2>2
<1>6. until = IF count >= Wins THEN Expiry(n) ELSE None
  <2>1. CASE ~won
    BY <1>1, <2>1
  <2>2. CASE won /\ count >= Wins
    BY <2>2
  <2>3. CASE won /\ ~(count >= Wins)
    <3>1. state.count < Wins
      BY <1>1, <1>2, <2>3
    <3>2. state.until = None
      BY <1>1, <1>2, <3>1 DEF WinFits
    <3>3. QED
      BY <2>3, <3>2
  <2>4. QED
    BY <2>1, <2>2, <2>3
<1>7. until \in Int \cup {None}
  BY <1>6, Typed
<1> HIDE DEF until, count
<1>8. n # None /\ n \in 1..MaxCloses /\ count \in 0..MaxCloses
  BY <1>1, <1>4, <1>5
<1>9. WinState(state, n) \in RuleState
  BY <1>0, <1>7, <1>8 DEF RuleState, EventId
<1>10. n <= Len(closes)
  OBVIOUS
<1>11. WinFits(WinState(state, n))
  BY <1>0, <1>5, <1>6, <1>8, <1>10 DEF WinFits
<1>12. QED
  BY <1>9, <1>11

-----------------------------------------------------------------------------
\* What a further close leaves as it is.
LEMMA AppendKeeps ==
  ASSUME closes \in Seq(Close), NEW close \in Close, closes' = Append(closes, close)
  PROVE  /\ closes' \in Seq(Close)
         /\ Len(closes') = Len(closes) + 1
         /\ \A i \in 1..Len(closes) : closes'[i] = closes[i]
  OBVIOUS

\* What is true of a rule's state stays true when closes are added.
LEMMA FitsKept ==
  ASSUME closes \in Seq(Close), closes' \in Seq(Close), Len(closes) <= Len(closes'),
         \A i \in 1..Len(closes) : closes'[i] = closes[i],
         NEW state \in RuleState
  PROVE  /\ LossFits(state) => LossFits(state)'
         /\ LossFits(state) /\ LossHistory(state) => LossHistory(state)'
         /\ WinFits(state) => WinFits(state)'
         /\ BurstFits(state) => BurstFits(state)'
<1>1. Len(closes) \in Nat /\ Len(closes') \in Nat
  OBVIOUS
<1>2. state.last \in (1..MaxCloses) \cup {None}
  BY DEF RuleState, EventId
<1>3. CASE state.last # None /\ state.last <= Len(closes)
  <2>1. state.last \in Nat /\ state.last \in 1..Len(closes) /\ state.last <= Len(closes')
    BY <1>1, <1>2, <1>3
  <2>2. \A i \in 1..state.last : closes'[i] = closes[i]
    BY <1>1, <2>1
  <2>3. Expiry(state.last)' = Expiry(state.last)
    BY <2>1 DEF Expiry
  <2>4. Trail(state.last)' = Trail(state.last)
    <3>1. \A i \in 1..state.last : \A j \in i..state.last : closes'[j] = closes[j]
      BY <2>1, <2>2
    <3>2. QED
      BY <3>1 DEF Trail
  <2>5. TrailingLosses(state.last)' = TrailingLosses(state.last)
    BY <2>4 DEF TrailingLosses, Trail
  <2>6. WonUpTo(state.last)' = WonUpTo(state.last)
    BY <2>2 DEF WonUpTo
  <2>7. LossesPause(state.last)' = LossesPause(state.last)
    BY <2>5 DEF LossesPause
  <2>8. LossFits(state) => LossFits(state)'
    BY <1>3, <2>1 DEF LossFits
  <2>9. LossHistory(state) => LossHistory(state)'
    BY <2>3, <2>5, <2>7 DEF LossHistory
  <2>10. WinFits(state) => WinFits(state)'
    BY <1>3, <2>1, <2>2, <2>3, <2>6 DEF WinFits
  <2>11. BurstFits(state) => BurstFits(state)'
    BY <2>1, <2>3 DEF BurstFits
  <2>12. QED
    BY <2>8, <2>9, <2>10, <2>11
<1>4. CASE state.last # None /\ ~(state.last <= Len(closes))
  BY <1>4 DEF LossFits, WinFits, BurstFits
<1>5. CASE state.last = None
  BY <1>5 DEF LossFits, LossHistory, WinFits, BurstFits
<1>6. QED
  BY <1>3, <1>4, <1>5

\* What is true of a cycle stays true when closes are added.
LEMMA WindowKept ==
  ASSUME closes \in Seq(Close), closes' \in Seq(Close), Len(closes) <= Len(closes'),
         \A i \in 1..Len(closes) : closes'[i] = closes[i],
         NEW k \in CycleState, CycleFits(k)
  PROVE  CycleFits(k)'
<1>1. Len(closes) \in Nat /\ Len(closes') \in Nat
  OBVIOUS
<1>2. Window(k.page) => Window(k.page)'
  <2>1. \A n \in 1..Len(closes) : n \in 1..Len(closes')
    BY <1>1
  <2>2. QED
    BY <2>1 DEF Window
<1>3. ASSUME Window(k.page), k.page # {}
      PROVE  Burst(k.page, Max(k.page))' = Burst(k.page, Max(k.page))
  <2>1. PICK n \in 1..Len(closes) :
          k.page = {i \in 1..n : i > n - Page} /\ n \in k.page /\ Max(k.page) = n
    BY <1>3, WindowMax
  <2>2. \A i \in k.page : closes'[i] = closes[i]
    BY <1>1, <2>1
  <2>3. Recent(closes', k.page, n) = Recent(closes, k.page, n)
    BY <2>1, <2>2 DEF Recent
  <2>4. \A i \in Recent(closes, k.page, n) : closes'[i] = closes[i]
    BY <2>2 DEF Recent
  <2>5. SumOf(closes', Recent(closes, k.page, n)) = SumOf(closes, Recent(closes, k.page, n))
    BY <2>4, SumSame
  <2>6. Burst(k.page, n)' = Burst(k.page, n)
    BY <2>3, <2>5, BurstIs
  <2>7. QED
    BY <2>1, <2>6
<1>4. QED
  BY <1>2, <1>3 DEF CycleFits, Ahead

\* A step that leaves the closes alone and moves one cycle.
LEMMA CycleMoves ==
  ASSUME IInv, NEW c \in Cycle, NEW k \in CycleState,
         cycle' = [cycle EXCEPT ![c] = k],
         closes' = closes, gap => gap',
         RouteFits(rules)', RouteFits(k.route)', CycleFits(k)
  PROVE  /\ cycle' \in [Cycle -> CycleState]
         /\ RouteFits(rules)'
         /\ \A d \in Cycle : RouteFits(cycle[d].route)'
         /\ \A d \in Cycle : CycleFits(cycle[d])'
<1>1. cycle \in [Cycle -> CycleState]
  BY DEF IInv, TypeOK
<1>2. cycle'[c] = k /\ \A d \in Cycle : d # c => cycle'[d] = cycle[d]
  BY <1>1
<1>3. \A s : /\ LossFits(s)' = LossFits(s) /\ LossHistory(s)' = LossHistory(s)
             /\ WinFits(s)' = WinFits(s) /\ BurstFits(s)' = BurstFits(s)
  BY DEF LossFits, LossHistory, TrailingLosses, LossesPause, WinFits, WonUpTo, BurstFits, Expiry
<1>4. \A d \in Cycle : d # c => RouteFits(cycle[d].route)'
  BY <1>2, <1>3 DEF IInv, RouteFits
<1>5. \A q : CycleFits(q)' = CycleFits(q)
  <2>1. \A p, l : Burst(p, l)' = Burst(p, l)
    BY BurstIs
  <2>2. QED
    BY <2>1 DEF CycleFits, Window, Ahead
<1>6. \A d \in Cycle : d # c => CycleFits(cycle[d])'
  BY <1>2, <1>5 DEF IInv
<1>7. RouteFits(cycle[c].route)'
  BY <1>2 DEF RouteFits
<1>8. CycleFits(cycle[c])'
  BY <1>2, <1>5
<1>9. QED
  BY <1>1, <1>4, <1>6, <1>7, <1>8

Steps == {"idle", "snapshot", "loss", "win", "burst", "check"}

\* The records the steps put in the place of a cycle o.
Routed(o, s, r, w) == [o EXCEPT !.step = s, !.route = r, !.owner = w]
Started(o, r, t) == [o EXCEPT !.step = "snapshot", !.route = r, !.at = t]
Paged(o, p, w) == [o EXCEPT !.step = "loss", !.page = p, !.owner = w]

\* The fields of those records.
LEMMA WithRoute ==
  ASSUME NEW o \in CycleState, NEW s \in Steps, NEW r \in Rules, NEW w \in BOOLEAN,
         NEW k, k = Routed(o, s, r, w)
  PROVE  k \in CycleState /\ k.step = s /\ k.route = r /\ k.page = o.page /\ k.at = o.at
<1>1. k \in CycleState
  BY DEF Routed, Started, Paged, CycleState, Steps
<1>2. k.step = s /\ k.route = r
  BY DEF Routed, Started, Paged, CycleState
<1>3. k.page = o.page /\ k.at = o.at
  BY DEF Routed, Started, Paged, CycleState
<1>4. QED
  BY <1>1, <1>2, <1>3

\* A cycle that starts.
LEMMA WithStart ==
  ASSUME NEW o \in CycleState, NEW r \in Rules, NEW t \in Time,
         NEW k, k = Started(o, r, t)
  PROVE  k \in CycleState /\ k.step = "snapshot" /\ k.route = r
<1>1. k \in CycleState
  BY DEF Routed, Started, Paged, CycleState
<1>2. k.step = "snapshot" /\ k.route = r
  BY DEF Routed, Started, Paged, CycleState
<1>3. QED
  BY <1>1, <1>2

\* A cycle after its snapshot.
LEMMA WithPage ==
  ASSUME NEW o \in CycleState, NEW p \in SUBSET EventId, NEW w \in BOOLEAN,
         NEW k, k = Paged(o, p, w)
  PROVE  k \in CycleState /\ k.step = "loss" /\ k.page = p /\ k.route = o.route
<1>1. k \in CycleState
  BY DEF Routed, Started, Paged, CycleState
<1>2. k.step = "loss" /\ k.page = p /\ k.route = o.route
  BY DEF Routed, Started, Paged, CycleState
<1>3. QED
  BY <1>1, <1>2

\* A step to the next rule changes step and route of one cycle.
LEMMA ToIs ==
  ASSUME cycle \in [Cycle -> CycleState], NEW c \in Cycle,
         NEW step \in Steps, NEW route \in Rules, To(c, step, route)
  PROVE  \E k \in CycleState :
           /\ k.step = step /\ k.route = route
           /\ k.page = cycle[c].page /\ k.at = cycle[c].at
           /\ cycle' = [cycle EXCEPT ![c] = k]
<1> DEFINE o == cycle[c]
           owned == o.owner /\ step \in {"loss", "win"}
<1>1. o \in CycleState
  OBVIOUS
<1>2. owned \in BOOLEAN
  OBVIOUS
<1>3. PICK k : /\ k = Routed(o, step, route, owned)
               /\ cycle' = [cycle EXCEPT ![c] = k]
  BY DEF To, Routed
<1> HIDE DEF owned
<1>4. k \in CycleState /\ k.step = step /\ k.route = route /\ k.page = o.page /\ k.at = o.at
  BY <1>1, <1>2, <1>3, WithRoute
<1>5. QED
  BY <1>3, <1>4

\* The state of a rule never updated.
LEMMA NoStateIs == NoState \in RuleState /\ IdleCycle.route \in Rules /\ IdleCycle \in CycleState
<1>1. MaxCloses \in Nat /\ MaxTime \in Nat
  BY PauseAssumption
<1>2. NoState \in RuleState
  BY <1>1 DEF NoState, RuleState
<1>3. IdleCycle.route \in Rules
  BY <1>2 DEF IdleCycle, Rules
<1>4. IdleCycle \in CycleState
  BY <1>1, <1>2 DEF IdleCycle, CycleState, Rules, Time
<1>5. QED
  BY <1>2, <1>3, <1>4

\* A cycle that is not running.
LEMMA IdleFits == RouteFits(IdleCycle.route) /\ CycleFits(IdleCycle)
  BY DEF IdleCycle, NoState, RouteFits, LossFits, LossHistory, WinFits, BurstFits, CycleFits

\* Nor does a step change that.
LEMMA IdleFitsNext == RouteFits(IdleCycle.route)'
  BY DEF IdleCycle, NoState, RouteFits, LossFits, LossHistory, WinFits, BurstFits

\* The invariant holds at the start.
LEMMA InitInv == Init => IInv
<1> SUFFICES ASSUME Init PROVE IInv
  OBVIOUS
<1>1. closes \in Seq(Close) /\ Len(closes) <= MaxCloses
  BY PauseAssumption DEF Init
<1>2. now \in Time /\ faults \in Nat /\ open \in BOOLEAN /\ owner \in BOOLEAN /\ gap \in BOOLEAN
  <2>1. MaxTime \in Nat /\ MaxFaults \in Nat
    BY PauseAssumption
  <2>2. now \in Time /\ faults \in Nat
    BY <2>1 DEF Init, Time
  <2>3. open \in BOOLEAN /\ owner \in BOOLEAN /\ gap \in BOOLEAN
    BY DEF Init
  <2>4. QED
    BY <2>2, <2>3
<1>3. rules = IdleCycle.route /\ cycle = [c \in Cycle |-> IdleCycle]
  BY DEF Init
<1>4. rules \in Rules /\ cycle \in [Cycle -> CycleState]
  BY <1>3, NoStateIs
<1>5. \A c \in Cycle : cycle[c] = IdleCycle
  BY <1>3
<1>6. QED
  BY <1>1, <1>2, <1>3, <1>4, <1>5, IdleFits DEF IInv, TypeOK

\* Everything a step of a cycle that leaves the clock and the closes alone must show.
LEMMA CyclePreserves ==
  ASSUME IInv, NEW c \in Cycle, NEW k \in CycleState,
         cycle' = [cycle EXCEPT ![c] = k],
         closes' = closes, now' = now, gap => gap', gap' \in BOOLEAN,
         open' \in BOOLEAN, owner' \in BOOLEAN, faults' \in Nat, rules' \in Rules,
         RouteFits(rules)', RouteFits(k.route)', CycleFits(k)
  PROVE  IInv'
<1>1. closes' \in Seq(Close) /\ Len(closes') <= MaxCloses /\ now' \in Time
  BY DEF IInv, TypeOK
<1>2. /\ cycle' \in [Cycle -> CycleState]
      /\ RouteFits(rules)'
      /\ \A d \in Cycle : RouteFits(cycle[d].route)'
      /\ \A d \in Cycle : CycleFits(cycle[d])'
  BY CycleMoves
<1>3. TypeOK'
  BY <1>1, <1>2 DEF TypeOK
<1>4. QED
  BY <1>2, <1>3 DEF IInv

\* The parts of the invariant that a step of cycle c starts from.
LEMMA CycleHolds ==
  ASSUME IInv, NEW c \in Cycle
  PROVE  /\ closes \in Seq(Close) /\ Len(closes) <= MaxCloses /\ now \in Time
         /\ open \in BOOLEAN /\ owner \in BOOLEAN /\ gap \in BOOLEAN /\ faults \in Nat
         /\ rules \in Rules /\ cycle \in [Cycle -> CycleState]
         /\ cycle[c] \in CycleState /\ cycle[c].route \in Rules
         /\ cycle[c].page \in SUBSET EventId /\ cycle[c].at \in Time
         /\ RouteFits(rules) /\ RouteFits(cycle[c].route) /\ CycleFits(cycle[c])
<1>1. cycle[c] \in CycleState
  BY DEF IInv, TypeOK
<1>2. cycle[c].route \in Rules /\ cycle[c].page \in SUBSET EventId /\ cycle[c].at \in Time
  BY <1>1 DEF CycleState
<1>3. QED
  BY <1>1, <1>2 DEF IInv, TypeOK

\* The document of a route with one rule's state replaced.
LEMMA RulesAre ==
  ASSUME NEW route \in Rules
  PROVE  /\ route.loss \in RuleState /\ route.win \in RuleState /\ route.burst \in RuleState
         /\ \A s \in RuleState :
              /\ [route EXCEPT !["loss"] = s] \in Rules
              /\ [route EXCEPT !["loss"] = s].loss = s
              /\ [route EXCEPT !["loss"] = s].win = route.win
              /\ [route EXCEPT !["loss"] = s].burst = route.burst
              /\ [route EXCEPT !["win"] = s] \in Rules
              /\ [route EXCEPT !["win"] = s].win = s
              /\ [route EXCEPT !["win"] = s].loss = route.loss
              /\ [route EXCEPT !["win"] = s].burst = route.burst
              /\ [route EXCEPT !["burst"] = s] \in Rules
              /\ [route EXCEPT !["burst"] = s].burst = s
              /\ [route EXCEPT !["burst"] = s].loss = route.loss
              /\ [route EXCEPT !["burst"] = s].win = route.win
  BY DEF Rules

\* What a rule's state says depends on the closes only.
LEMMA StateSame ==
  ASSUME closes' = closes
  PROVE  \A s : /\ LossFits(s)' = LossFits(s) /\ LossHistory(s)' = LossHistory(s)
                /\ WinFits(s)' = WinFits(s) /\ BurstFits(s)' = BurstFits(s)
  BY DEF LossFits, LossHistory, TrailingLosses, LossesPause, WinFits, WonUpTo, BurstFits, Expiry

\* The same for the document of a route.
LEMMA RouteSame ==
  ASSUME closes' = closes, gap => gap', NEW route, RouteFits(route)
  PROVE  RouteFits(route)'
  BY StateSame DEF RouteFits



\* A cycle that starts takes over the row's rules.
LEMMA StepStart ==
  ASSUME IInv, NEW c \in Cycle, Start(c)
  PROVE  IInv'
<1> DEFINE o == cycle[c]
<1>1. o \in CycleState /\ rules \in Rules /\ now \in Time /\ gap \in BOOLEAN
        /\ open \in BOOLEAN /\ owner \in BOOLEAN /\ faults \in Nat /\ RouteFits(rules)
  BY CycleHolds
<1>2. PICK k : /\ k = Started(o, rules, now)
               /\ cycle' = [cycle EXCEPT ![c] = k]
  BY DEF Start, Started
<1>3. k \in CycleState /\ k.step = "snapshot" /\ k.route = rules
  BY <1>1, <1>2, WithStart
<1>4. /\ closes' = closes /\ now' = now /\ open' = open /\ owner' = owner
      /\ gap' = gap /\ faults' = faults /\ rules' = rules
  BY DEF Start, World
<1>5. RouteFits(rules)'
  BY <1>1, <1>4, RouteSame
<1>6. RouteFits(k.route)'
  BY <1>1, <1>3, <1>4, RouteSame
<1>7. CycleFits(k)
  BY <1>3 DEF CycleFits
<1>8. QED
  BY <1>1, <1>2, <1>3, <1>4, <1>5, <1>6, <1>7, CyclePreserves

\* The page the exchange reports.
LEMMA ReportedWindow ==
  ASSUME closes \in Seq(Close), Len(closes) <= MaxCloses
  PROVE  /\ Window(Reported) /\ Reported \in SUBSET EventId
         /\ Reported # {} => Max(Reported) = Len(closes)
<1>1. Len(closes) \in Nat /\ DOMAIN closes = 1..Len(closes) /\ MaxCloses \in Nat /\ Page \in Nat \ {0}
  BY PauseAssumption
<1>2. Reported = {i \in 1..Len(closes) : i > Len(closes) - Page}
  BY <1>1 DEF Reported
<1>3. Reported \in SUBSET EventId
  BY <1>1, <1>2 DEF EventId
<1>4. ASSUME Reported # {} PROVE Len(closes) \in 1..Len(closes) /\ Max(Reported) = Len(closes)
  <2>1. Len(closes) \in 1..Len(closes)
    BY <1>1, <1>2, <1>4
  <2>2. Len(closes) \in Reported /\ Reported \in SUBSET Int
    BY <1>1, <1>2, <2>1
  <2>3. \A y \in Reported : Len(closes) >= y
    BY <1>1, <1>2
  <2>4. QED
    BY <2>1, <2>2, <2>3, MaxIs
<1>5. Window(Reported)
  BY <1>2, <1>4 DEF Window
<1>6. QED
  BY <1>3, <1>4, <1>5

\* No copy of the rules is ahead of the page a snapshot takes.
LEMMA StepSnapshot ==
  ASSUME IInv, NEW c \in Cycle, Snapshot(c)
  PROVE  IInv'
<1> DEFINE o == cycle[c]
<1>1. /\ closes \in Seq(Close) /\ Len(closes) <= MaxCloses
      /\ o \in CycleState /\ rules \in Rules /\ gap \in BOOLEAN
      /\ open \in BOOLEAN /\ owner \in BOOLEAN /\ faults \in Nat
      /\ RouteFits(rules) /\ RouteFits(o.route) /\ o.route \in Rules
  BY CycleHolds
<1>2. closes' = closes /\ now' = now /\ open' = open /\ gap' = gap /\ rules' = rules
  BY DEF Snapshot, World
<1>3. RouteFits(rules)'
  BY <1>1, <1>2, RouteSame
<1>4. CASE open
  <2>1. End(c) /\ owner' = owner /\ faults' = faults
    BY <1>4 DEF Snapshot
  <2>2. cycle' = [cycle EXCEPT ![c] = IdleCycle]
    BY <2>1 DEF End
  <2>3. QED
    BY <1>1, <1>2, <1>3, <2>1, <2>2, NoStateIs, IdleFits, IdleFitsNext, CyclePreserves
<1>5. CASE ~open
  <2>1. PICK page \in {Reported, {}} :
          /\ page = Reported \/ Fault
          /\ page = Reported => UNCHANGED faults
          /\ cycle' = [cycle EXCEPT ![c] = [o EXCEPT !.step = "loss", !.page = page, !.owner = owner]]
          /\ owner' = FALSE
    BY <1>5 DEF Snapshot
  <2>2. faults' \in Nat
    BY <1>1, <2>1 DEF Fault
  <2>3. page \in SUBSET EventId /\ Window(page) /\ (page # {} => Max(page) = Len(closes))
    BY <1>1, ReportedWindow DEF Window
  <2>5. PICK k : /\ k = Paged(o, page, owner)
                 /\ cycle' = [cycle EXCEPT ![c] = k]
    BY <2>1 DEF Paged
  <2>4. k \in CycleState /\ k.step = "loss" /\ k.page = page /\ k.route = o.route
    BY <1>1, <2>3, <2>5, WithPage
  <2>6. RouteFits(k.route)'
    BY <1>1, <1>2, <2>4, RouteSame
  <2>7. page # {} => ~Ahead(o.route.loss, page) /\ ~Ahead(o.route.win, page)
    <3>1. o.route.loss \in RuleState /\ o.route.win \in RuleState
      BY <1>1, RulesAre
    <3>2. MaxCloses \in Nat /\ Len(closes) \in Nat
      BY <1>1, PauseAssumption
    <3>3. /\ o.route.loss.last # None => o.route.loss.last \in Nat
          /\ o.route.win.last # None => o.route.win.last \in Nat
      BY <3>1, <3>2 DEF RuleState, EventId
    <3>4. /\ o.route.loss.last # None => o.route.loss.last <= Len(closes)
          /\ o.route.win.last # None => o.route.win.last <= Len(closes)
      BY <1>1 DEF RouteFits, LossFits, WinFits
    <3>5. QED
      BY <2>3, <3>2, <3>3, <3>4 DEF Ahead
  <2>8. CycleFits(k)
    BY <2>3, <2>4, <2>7 DEF CycleFits
  <2>9. owner' \in BOOLEAN
    BY <2>1
  <2>10. QED
    BY <1>1, <1>2, <1>3, <2>2, <2>4, <2>5, <2>6, <2>8, <2>9, CyclePreserves
<1>6. QED
  BY <1>4, <1>5

\* A page that is not empty has its last close among the closes.
LEMMA PageTop ==
  ASSUME closes \in Seq(Close), Len(closes) <= MaxCloses, NEW page, Window(page), page # {}
  PROVE  /\ Max(page) \in 1..Len(closes) /\ Max(page) \in EventId
         /\ Max(page) \in Nat /\ Max(page) # None
<1>1. Max(page) \in 1..Len(closes)
  BY WindowMax
<1>2. MaxCloses \in Nat /\ None \notin Int /\ Len(closes) \in Nat
  BY PauseAssumption
<1>3. QED
  BY <1>1, <1>2 DEF EventId

\* The step of the rule for losses.
LEMMA StepLoss ==
  ASSUME IInv, NEW c \in Cycle, UpdateLoss(c)
  PROVE  IInv'
<1> DEFINE o == cycle[c]
           page == o.page
           state == o.route.loss
<1>1. /\ closes \in Seq(Close) /\ Len(closes) <= MaxCloses
      /\ cycle \in [Cycle -> CycleState] /\ rules \in Rules /\ gap \in BOOLEAN
      /\ open \in BOOLEAN /\ owner \in BOOLEAN /\ faults \in Nat
      /\ RouteFits(rules) /\ RouteFits(o.route) /\ o.route \in Rules /\ CycleFits(o)
  BY CycleHolds
<1>2. closes' = closes /\ now' = now /\ open' = open /\ owner' = owner /\ faults' = faults
  BY DEF UpdateLoss, World
<1>3. o.step = "loss" /\ Window(page) /\ "win" \in Steps
  BY <1>1 DEF UpdateLoss, On, CycleFits, Steps
<1>4. page # {} => ~Ahead(state, page) /\ ~Ahead(o.route.win, page)
  BY <1>1, <1>3 DEF CycleFits
<1>5. CASE page = {} \/ state.last = Max(page)
  <2>1. To(c, "win", o.route) /\ rules' = rules /\ gap' = gap
    BY <1>5 DEF UpdateLoss, Leave, Goto, Latest
  <2>2. PICK k \in CycleState :
          /\ k.step = "win" /\ k.route = o.route /\ k.page = page
          /\ cycle' = [cycle EXCEPT ![c] = k]
    BY <1>1, <1>3, <2>1, ToIs
  <2>3. RouteFits(rules)' /\ RouteFits(k.route)'
    BY <1>1, <1>2, <2>1, <2>2, RouteSame
  <2>4. CycleFits(k)
    BY <1>3, <1>4, <1>5, <2>2 DEF CycleFits
  <2>5. QED
    BY <1>1, <1>2, <2>1, <2>2, <2>3, <2>4, CyclePreserves
<1>6. CASE ~(page = {} \/ state.last = Max(page))
  <2> DEFINE new == LossState(state, page)
             route == [o.route EXCEPT !["loss"] = new]
  <2>1. /\ rules' = route /\ To(c, "win", route)
        /\ gap' = (gap \/ Skips(state, page))
    BY <1>6 DEF UpdateLoss, Persist, Latest, Skips
  <2>2. state \in RuleState /\ LossFits(state) /\ (~gap => LossHistory(state))
    BY <1>1, RulesAre DEF RouteFits
  <2>3. /\ new \in RuleState /\ LossFits(new) /\ new.last = Max(page)
        /\ LossHistory(state) /\ ~Skips(state, page) => LossHistory(new)
    BY <1>1, <1>3, <1>4, <1>6, <2>2, LossStep
  <2> HIDE DEF new
  <2>4. /\ route \in Rules /\ route.loss = new
        /\ route.win = o.route.win /\ route.burst = o.route.burst
    BY <1>1, <2>3, RulesAre
  <2>5. PICK r \in Rules : r = route
    BY <2>4
  <2> HIDE DEF route
  <2>6. PICK k \in CycleState :
          /\ k.step = "win" /\ k.route = r /\ k.page = page
          /\ cycle' = [cycle EXCEPT ![c] = k]
    BY <1>1, <1>3, <2>1, <2>5, ToIs
  <2>7. gap' \in BOOLEAN /\ (gap => gap')
    BY <1>1, <2>1
  <2>8. LossFits(r.loss) /\ (~gap' => LossHistory(r.loss)) /\ WinFits(r.win) /\ BurstFits(r.burst)
    BY <1>1, <2>1, <2>2, <2>3, <2>4, <2>5 DEF RouteFits
  <2>9. RouteFits(r)'
    BY <1>2, <2>8, StateSame DEF RouteFits
  <2>10. CycleFits(k)
    BY <1>3, <1>4, <2>3, <2>4, <2>5, <2>6 DEF CycleFits
  <2>11. rules' = r /\ rules' \in Rules
    BY <2>1, <2>5
  <2>12. RouteFits(rules)' /\ RouteFits(k.route)'
    BY <2>6, <2>9, <2>11 DEF RouteFits
  <2>13. QED
    BY <1>1, <1>2, <2>6, <2>7, <2>10, <2>11, <2>12, CyclePreserves
<1>7. QED
  BY <1>5, <1>6

\* The step of the rule for wins.
LEMMA StepWin ==
  ASSUME IInv, NEW c \in Cycle, UpdateWin(c)
  PROVE  IInv'
<1> DEFINE o == cycle[c]
           page == o.page
           state == o.route.win
<1>1. /\ closes \in Seq(Close) /\ Len(closes) <= MaxCloses
      /\ cycle \in [Cycle -> CycleState] /\ rules \in Rules /\ gap \in BOOLEAN
      /\ open \in BOOLEAN /\ owner \in BOOLEAN /\ faults \in Nat
      /\ RouteFits(rules) /\ RouteFits(o.route) /\ o.route \in Rules /\ CycleFits(o)
  BY CycleHolds
<1>2. closes' = closes /\ now' = now /\ open' = open /\ owner' = owner /\ faults' = faults
        /\ gap' = gap
  BY DEF UpdateWin, World
<1>3. o.step = "win" /\ Window(page) /\ "burst" \in Steps
  BY <1>1 DEF UpdateWin, On, CycleFits, Steps
<1>4. page # {} => ~Ahead(state, page) /\ o.route.loss.last = Max(page)
  BY <1>1, <1>3 DEF CycleFits
<1>5. CASE ~o.owner \/ page = {} \/ state.last = Max(page)
  <2>1. To(c, "burst", o.route) /\ rules' = rules
    BY <1>5 DEF UpdateWin, Leave, Goto, Latest
  <2>2. PICK k \in CycleState :
          /\ k.step = "burst" /\ k.route = o.route /\ k.page = page
          /\ cycle' = [cycle EXCEPT ![c] = k]
    BY <1>1, <1>3, <2>1, ToIs
  <2>3. RouteFits(rules)' /\ RouteFits(k.route)'
    BY <1>1, <1>2, <2>1, <2>2, RouteSame
  <2>4. CycleFits(k)
    BY <1>3, <1>4, <2>2 DEF CycleFits
  <2>5. QED
    BY <1>1, <1>2, <2>1, <2>2, <2>3, <2>4, CyclePreserves
<1>6. CASE ~(~o.owner \/ page = {} \/ state.last = Max(page))
  <2> DEFINE new == WinState(state, Max(page))
             route == [o.route EXCEPT !["win"] = new]
  <2>1. rules' = route /\ To(c, "burst", route)
    BY <1>6 DEF UpdateWin, Persist, Latest
  <2>2. state \in RuleState /\ WinFits(state) /\ None \notin Int /\ MaxCloses \in Nat
    BY <1>1, RulesAre, PauseAssumption DEF RouteFits
  <2>3. Max(page) \in 1..Len(closes) /\ Max(page) \in Nat
    BY <1>1, <1>3, <1>6, PageTop
  <2>4. state.last # None => state.last < Max(page)
    <3>1. state.last # None => state.last \in Nat
      BY <2>2 DEF RuleState, EventId
    <3>2. QED
      BY <1>4, <1>6, <2>3, <3>1 DEF Ahead
  <2>5. new \in RuleState /\ WinFits(new)
    BY <1>1, <2>2, <2>3, <2>4, WinStep
  <2> HIDE DEF new
  <2>6. /\ route \in Rules /\ route.win = new
        /\ route.loss = o.route.loss /\ route.burst = o.route.burst
    BY <1>1, <2>5, RulesAre
  <2>7. PICK r \in Rules : r = route
    BY <2>6
  <2> HIDE DEF route
  <2>8. PICK k \in CycleState :
          /\ k.step = "burst" /\ k.route = r /\ k.page = page
          /\ cycle' = [cycle EXCEPT ![c] = k]
    BY <1>1, <1>3, <2>1, <2>7, ToIs
  <2>9. RouteFits(r)
    BY <1>1, <2>5, <2>6, <2>7 DEF RouteFits
  <2>10. CycleFits(k)
    BY <1>3, <1>4, <2>6, <2>7, <2>8 DEF CycleFits
  <2>11. rules' = r /\ rules' \in Rules
    BY <2>1, <2>7
  <2>12. RouteFits(r)'
    BY <1>2, <2>9, RouteSame
  <2>13. RouteFits(rules)' /\ RouteFits(k.route)'
    BY <2>8, <2>11, <2>12 DEF RouteFits
  <2>14. QED
    BY <1>1, <1>2, <2>8, <2>10, <2>11, <2>13, CyclePreserves
<1>7. QED
  BY <1>5, <1>6

\* The step of the rule for a burst of profit.
LEMMA StepBurst ==
  ASSUME IInv, NEW c \in Cycle, UpdateBurst(c)
  PROVE  IInv'
<1> DEFINE o == cycle[c]
           page == o.page
           state == o.route.burst
<1>1. /\ closes \in Seq(Close) /\ Len(closes) <= MaxCloses
      /\ cycle \in [Cycle -> CycleState] /\ rules \in Rules /\ gap \in BOOLEAN
      /\ open \in BOOLEAN /\ owner \in BOOLEAN /\ faults \in Nat
      /\ RouteFits(rules) /\ RouteFits(o.route) /\ o.route \in Rules /\ CycleFits(o)
  BY CycleHolds
<1>2. closes' = closes /\ now' = now /\ open' = open /\ owner' = owner /\ faults' = faults
        /\ gap' = gap
  BY DEF UpdateBurst, World
<1>3. o.step = "burst" /\ Window(page) /\ "check" \in Steps
  BY <1>1 DEF UpdateBurst, On, CycleFits, Steps
<1>4. page # {} => o.route.loss.last = Max(page)
  BY <1>1, <1>3 DEF CycleFits
<1>5. CASE page = {} \/ state.last = Max(page)
  <2>1. To(c, "check", o.route) /\ rules' = rules
    BY <1>5 DEF UpdateBurst, Leave, Goto, Latest
  <2>2. PICK k \in CycleState :
          /\ k.step = "check" /\ k.route = o.route /\ k.page = page
          /\ cycle' = [cycle EXCEPT ![c] = k]
    BY <1>1, <1>3, <2>1, ToIs
  <2>3. RouteFits(rules)' /\ RouteFits(k.route)'
    BY <1>1, <1>2, <2>1, <2>2, RouteSame
  <2>4. CycleFits(k)
    BY <1>3, <1>4, <1>5, <2>2 DEF CycleFits
  <2>5. QED
    BY <1>1, <1>2, <2>1, <2>2, <2>3, <2>4, CyclePreserves
<1>6. CASE ~(page = {} \/ state.last = Max(page))
  <2> DEFINE hot == [state EXCEPT !.last = Max(page), !.until = Expiry(Max(page))]
             new == IF Burst(page, Max(page)) THEN hot ELSE state
             route == [o.route EXCEPT !["burst"] = new]
  <2>1. rules' = route /\ To(c, "check", route)
    BY <1>6 DEF UpdateBurst, Persist, Latest
  <2>2. state \in RuleState /\ BurstFits(state)
    BY <1>1, RulesAre DEF RouteFits
  <2>3. /\ Max(page) \in 1..Len(closes) /\ Max(page) \in Nat /\ Max(page) \in EventId
        /\ Max(page) <= Len(closes) /\ Expiry(Max(page)) \in Int
    BY <1>1, <1>3, <1>6, PageTop, Typed
  <2>4. hot \in RuleState
    BY <2>2, <2>3 DEF RuleState
  <2>5. hot.last = Max(page) /\ hot.until = Expiry(Max(page))
    BY <2>2 DEF RuleState
  <2> HIDE DEF hot
  <2>6. /\ new \in RuleState /\ BurstFits(new)
        /\ Burst(page, Max(page)) => new.last = Max(page)
    BY <2>2, <2>3, <2>4, <2>5 DEF BurstFits
  <2> HIDE DEF new
  <2>7. /\ route \in Rules /\ route.burst = new
        /\ route.loss = o.route.loss /\ route.win = o.route.win
    BY <1>1, <2>6, RulesAre
  <2>8. PICK r \in Rules : r = route
    BY <2>7
  <2> HIDE DEF route
  <2>9. PICK k \in CycleState :
          /\ k.step = "check" /\ k.route = r /\ k.page = page
          /\ cycle' = [cycle EXCEPT ![c] = k]
    BY <1>1, <1>3, <2>1, <2>8, ToIs
  <2>10. RouteFits(r)
    BY <1>1, <2>6, <2>7, <2>8 DEF RouteFits
  <2>11. CycleFits(k)
    BY <1>3, <1>4, <2>6, <2>7, <2>8, <2>9 DEF CycleFits
  <2>12. rules' = r /\ rules' \in Rules
    BY <2>1, <2>8
  <2>13. RouteFits(r)'
    BY <1>2, <2>10, RouteSame
  <2>14. RouteFits(rules)' /\ RouteFits(k.route)'
    BY <2>9, <2>12, <2>13 DEF RouteFits
  <2>15. QED
    BY <1>1, <1>2, <2>9, <2>11, <2>12, <2>14, CyclePreserves
<1>7. QED
  BY <1>5, <1>6

\* A cycle that ends: by its check of the pauses, or by an exception.
LEMMA StepEnds ==
  ASSUME IInv, NEW c \in Cycle, Check(c) \/ Raise(c)
  PROVE  IInv'
<1>1. /\ open \in BOOLEAN /\ owner \in BOOLEAN /\ gap \in BOOLEAN /\ faults \in Nat
      /\ rules \in Rules /\ RouteFits(rules)
  BY CycleHolds
<1>2. /\ cycle' = [cycle EXCEPT ![c] = IdleCycle]
      /\ closes' = closes /\ now' = now /\ rules' = rules /\ gap' = gap
  BY DEF Check, Raise, End, World
<1>3. open' \in BOOLEAN /\ owner' \in BOOLEAN
  BY <1>1 DEF Check, Raise, ScanForEntry, World
<1>4. faults' \in Nat
  BY <1>1 DEF Check, Raise, Fault
<1>5. RouteFits(rules)'
  BY <1>1, <1>2, RouteSame
<1>6. QED
  BY <1>1, <1>2, <1>3, <1>4, <1>5, NoStateIs, IdleFits, IdleFitsNext, CyclePreserves

\* A further close.
LEMMA StepClose ==
  ASSUME IInv, ClosePosition
  PROVE  IInv'
<1>1. /\ TypeOK /\ closes \in Seq(Close) /\ Len(closes) <= MaxCloses
      /\ rules \in Rules /\ cycle \in [Cycle -> CycleState] /\ now \in Time
  BY DEF IInv, TypeOK
<1>2. PICK pnl \in Results : closes' = Append(closes, [pnl |-> pnl, at |-> now])
  BY DEF ClosePosition
<1>3. [pnl |-> pnl, at |-> now] \in Close
  BY <1>1 DEF Close
<1>4. /\ closes' \in Seq(Close) /\ Len(closes') = Len(closes) + 1
      /\ \A i \in 1..Len(closes) : closes'[i] = closes[i]
  BY <1>1, <1>2, <1>3, AppendKeeps
<1>5. /\ open' = FALSE /\ Len(closes) < MaxCloses
      /\ now' = now /\ owner' = owner /\ rules' = rules /\ cycle' = cycle
      /\ gap' = gap /\ faults' = faults
  BY DEF ClosePosition
<1>6. Len(closes) \in Nat /\ MaxCloses \in Nat /\ Len(closes) <= Len(closes') /\ Len(closes') <= MaxCloses
  BY <1>1, <1>4, <1>5, PauseAssumption
<1>7. TypeOK'
  BY <1>1, <1>4, <1>5, <1>6 DEF TypeOK
<1>8. ASSUME NEW route \in Rules, RouteFits(route) PROVE RouteFits(route)'
  <2>1. route.loss \in RuleState /\ route.win \in RuleState /\ route.burst \in RuleState
    BY RulesAre
  <2>2. /\ LossFits(route.loss)' /\ WinFits(route.win)' /\ BurstFits(route.burst)'
        /\ LossHistory(route.loss) => LossHistory(route.loss)'
    BY <1>1, <1>4, <1>6, <1>8, <2>1, FitsKept DEF RouteFits
  <2>3. QED
    BY <1>5, <1>8, <2>2 DEF RouteFits
<1>9. ASSUME NEW k \in CycleState, CycleFits(k) PROVE CycleFits(k)'
  BY <1>1, <1>4, <1>6, <1>9, WindowKept
<1>10. RouteFits(rules)'
  <2>1. PICK r \in Rules : r = rules
    BY <1>1
  <2>2. RouteFits(r)'
    BY <1>8, <2>1 DEF IInv
  <2>3. QED
    BY <1>5, <2>1, <2>2 DEF RouteFits
<1>11. ASSUME NEW c \in Cycle PROVE RouteFits(cycle[c].route)' /\ CycleFits(cycle[c])'
  <2>1. PICK k \in CycleState : k = cycle[c]
    BY <1>1
  <2>2. k.route \in Rules
    BY DEF CycleState
  <2>3. RouteFits(k.route) /\ CycleFits(k)
    BY <2>1 DEF IInv
  <2>4. RouteFits(k.route)' /\ CycleFits(k)'
    BY <1>8, <1>9, <2>2, <2>3
  <2>5. cycle'[c] = k
    BY <1>5, <2>1
  <2>6. QED
    BY <2>4, <2>5
<1>12. QED
  BY <1>7, <1>10, <1>11 DEF IInv

\* The clock.
LEMMA StepTick ==
  ASSUME IInv, Tick
  PROVE  IInv'
<1>1. /\ now < MaxTime /\ now' = now + 1
      /\ closes' = closes /\ open' = open /\ owner' = owner /\ rules' = rules
      /\ cycle' = cycle /\ gap' = gap /\ faults' = faults
  BY DEF Tick
<1>2. now' \in Time
  BY <1>1, PauseAssumption DEF IInv, TypeOK, Time
<1>3. TypeOK'
  BY <1>1, <1>2 DEF IInv, TypeOK
<1>4. \A r : RouteFits(r)' = RouteFits(r)
  BY <1>1, StateSame DEF RouteFits
<1>5. \A k : CycleFits(k)' = CycleFits(k)
  <2>1. \A p, l : Burst(p, l)' = Burst(p, l)
    BY <1>1, BurstIs
  <2>2. QED
    BY <1>1, <2>1 DEF CycleFits, Window, Ahead
<1>6. QED
  BY <1>1, <1>3, <1>4, <1>5 DEF IInv

\* Nothing happens.
LEMMA StepStutters ==
  ASSUME IInv, UNCHANGED vars
  PROVE  IInv'
<1>1. /\ now' = now /\ closes' = closes /\ open' = open /\ owner' = owner /\ rules' = rules
      /\ cycle' = cycle /\ gap' = gap /\ faults' = faults
  BY DEF vars
<1>2. TypeOK'
  BY <1>1 DEF IInv, TypeOK
<1>3. \A r : RouteFits(r)' = RouteFits(r)
  BY <1>1, StateSame DEF RouteFits
<1>4. \A k : CycleFits(k)' = CycleFits(k)
  <2>1. \A p, l : Burst(p, l)' = Burst(p, l)
    BY <1>1, BurstIs
  <2>2. QED
    BY <1>1, <2>1 DEF CycleFits, Window, Ahead
<1>5. QED
  BY <1>1, <1>2, <1>3, <1>4 DEF IInv

\* Every step preserves the invariant.
LEMMA NextInv == IInv /\ [Next]_vars => IInv'
<1> SUFFICES ASSUME IInv, [Next]_vars
             PROVE  IInv'
  OBVIOUS
<1>1. CASE ClosePosition
  BY <1>1, StepClose
<1>2. CASE Tick
  BY <1>2, StepTick
<1>3. ASSUME NEW c \in Cycle, CycleStep(c) \/ Raise(c) PROVE IInv'
  BY <1>3, StepStart, StepSnapshot, StepLoss, StepWin, StepBurst, StepEnds DEF CycleStep
<1>4. CASE UNCHANGED vars
  BY <1>4, StepStutters
<1>5. QED
  BY <1>1, <1>2, <1>3, <1>4 DEF Next

\* The inductive invariant: every copy of the rules is true of the closes.
THEOREM Invariant == Spec => []IInv
  BY InitInv, NextInv, PTL DEF Spec

\* The rules' states and the cycles keep their type; a count is at most the number of
\* closes, which is what keeps it a count.
THEOREM RulesTyped == Spec => []TypeOK
<1>1. IInv => TypeOK
  BY DEF IInv
<1>2. QED
  BY <1>1, Invariant, PTL

\* Unless a close was skipped, the saved count of losses is the number of losses in a row
\* up to the close processed last, and its pause is that close's, however cycles
\* overwrite each other, fail or find no fills (_update_consecutive_loss_pause_state).
THEOREM LossesAreHistory == Spec => []LossStateIsHistory
<1>1. IInv => LossStateIsHistory
  BY DEF IInv, RouteFits, LossHistory, LossStateIsHistory
<1>2. QED
  BY <1>1, Invariant, PTL

\* The rule for wins counts no win twice and pauses by the close it processed last
\* (_update_consecutive_win_pause_state).
THEOREM WinsAreCountedOnce == Spec => []WinsCountedOnce
<1>1. IInv => WinsCountedOnce
  BY DEF IInv, RouteFits, WinFits, WonUpTo, WinsCountedOnce
<1>2. QED
  BY <1>1, Invariant, PTL

\* The cycle whose step opens a position has looked up the pauses it knew.
LEMMA EntryKnew ==
  ASSUME IInv, Next, NEW c \in Cycle, On(c, "check"), cycle'[c] = IdleCycle, ~open, open'
  PROVE  Check(c) /\ ~Paused(cycle[c].route, cycle[c].at)
<1>1. cycle \in [Cycle -> CycleState]
  BY DEF IInv, TypeOK
<1>2. cycle[c] # IdleCycle
  BY DEF On, IdleCycle
<1>3. PICK d \in Cycle : Check(d)
  BY DEF Next, CycleStep, ClosePosition, Tick, Raise, Start, Snapshot, UpdateLoss,
         UpdateWin, UpdateBurst, World
<1>4. cycle' = [cycle EXCEPT ![d] = IdleCycle]
  BY <1>3 DEF Check, End
<1>5. d = c
  BY <1>1, <1>2, <1>4
<1>6. ~Paused(cycle[d].route, cycle[d].at)
  BY <1>3 DEF Check
<1>7. QED
  BY <1>3, <1>5, <1>6

\* No cycle opens a position in a pause of the losses it knew of or of a burst of profit
\* it was told of (_active_pause_rule).
THEOREM EntriesKnowPauses == Spec => NoEntryInPause
<1>1. ASSUME IInv, Next, NEW c \in Cycle, On(c, "check"), cycle'[c] = IdleCycle, ~open, open'
      PROVE  LET last == cycle[c].route.loss.last
                 page == cycle[c].page
                 over(id) == cycle[c].at >= Expiry(id)
             IN /\ ~gap /\ last # None /\ LossesPause(last) => over(last)
                /\ page # {} => last = Max(page)
                /\ page # {} /\ Burst(page, Max(page)) => over(Max(page))
  <2> DEFINE o == cycle[c]
             last == o.route.loss.last
             page == o.page
  <2>1. /\ closes \in Seq(Close) /\ Len(closes) <= MaxCloses /\ o \in CycleState
        /\ o.route \in Rules /\ o.at \in Int /\ RouteFits(o.route) /\ CycleFits(o)
    <3>1. Time \subseteq Int
      BY DEF Time
    <3>2. QED
      BY <1>1, <3>1, CycleHolds
  <2>2. o.step = "check" /\ None \notin Int /\ Window(page)
    BY <1>1, <2>1, PauseAssumption DEF On, CycleFits
  <2>3. ~Active(o.route.loss, o.at) /\ ~Active(o.route.burst, o.at)
    BY <1>1, EntryKnew DEF Paused
  <2>4. o.route.loss \in RuleState /\ o.route.burst \in RuleState
    BY <2>1, RulesAre
  <2>5. ASSUME ~gap, last # None, LossesPause(last) PROVE o.at >= Expiry(last)
    <3>1. last <= Len(closes) /\ o.route.loss.until = Expiry(last)
      BY <2>1, <2>5 DEF RouteFits, LossFits, LossHistory
    <3>2. last \in 1..Len(closes)
      BY <2>1, <2>4, <2>5, <3>1, PauseAssumption DEF RuleState, EventId
    <3>3. Expiry(last) \in Int
      BY <2>1, <3>2, Typed
    <3>4. QED
      BY <2>1, <2>2, <2>3, <3>1, <3>3 DEF Active
  <2>6. page # {} => last = Max(page)
    BY <2>1, <2>2 DEF CycleFits
  <2>7. ASSUME page # {}, Burst(page, Max(page)) PROVE o.at >= Expiry(Max(page))
    <3>1. o.route.burst.last = Max(page) /\ Max(page) # None /\ Max(page) \in 1..Len(closes)
      BY <2>1, <2>2, <2>7, PageTop DEF CycleFits
    <3>2. o.route.burst.until = Expiry(Max(page))
      BY <2>1, <3>1 DEF RouteFits, BurstFits
    <3>3. Expiry(Max(page)) \in Int
      BY <2>1, <3>1, Typed
    <3>4. QED
      BY <2>1, <2>2, <2>3, <3>2, <3>3 DEF Active
  <2>8. QED
    BY <2>5, <2>6, <2>7
<1>2. IInv /\ [Next]_vars =>
        [\A c \in Cycle :
           LET last == cycle[c].route.loss.last
               page == cycle[c].page
               over(id) == cycle[c].at >= Expiry(id)
           IN On(c, "check") /\ cycle'[c] = IdleCycle /\ ~open /\ open' =>
                /\ ~gap /\ last # None /\ LossesPause(last) => over(last)
                /\ page # {} => last = Max(page)
                /\ page # {} /\ Burst(page, Max(page)) => over(Max(page))]_vars
  BY <1>1
<1>3. QED
  BY <1>2, Invariant, PTL DEF Spec, NoEntryInPause
===============================================================================
