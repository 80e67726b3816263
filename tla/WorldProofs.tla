---------------------------- MODULE WorldProofs ----------------------------
(* Quotes, and what commands do to purses, stalls, nodes, ranks and goods,  *)
(* for all content.                                                         *)
EXTENDS World, PileProofs

-----------------------------------------------------------------------------
(* Quotes for every base, demand, have and target. *)

LEMMA PullNat ==
  ASSUME NEW target \in Nat
  PROVE  Pull(target) \in Nat \ {0} /\ Scale(target) \in Nat \ {0}
BY DEF Pull, Scale

LEMMA FactorNat ==
  ASSUME NEW have \in Nat, NEW target \in Nat
  PROVE  Factor(have, target) \in Nat \ {0}
BY PullNat DEF Factor, Pull

LEMMA FactorFalls ==
  ASSUME NEW s \in Nat, NEW u \in Nat, NEW target \in Nat, s <= u
  PROVE  Factor(u, target) <= Factor(s, target)
BY PullNat DEF Factor, Pull

LEMMA TimesMonotone ==
  ASSUME NEW a \in Nat, NEW x \in Nat, NEW y \in Nat, x <= y
  PROVE  a * x <= a * y /\ a * x \in Nat /\ a * y \in Nat
<1>1. PICK k \in Nat : y = x + k
  <2>1. y - x \in Nat /\ y = x + (y - x)
    OBVIOUS
  <2> QED BY <2>1
<1>2. a * y = a * x + a * k /\ a * k \in Nat /\ a * x \in Nat
  BY <1>1
<1> QED BY <1>2

LEMMA Quotient ==
  ASSUME NEW x \in Nat, NEW d \in Nat \ {0}
  PROVE  /\ x \div d \in Nat
         /\ d * (x \div d) <= x /\ x < d * (x \div d) + d
OBVIOUS

LEMMA DivMonotone ==
  ASSUME NEW x \in Nat, NEW y \in Nat, NEW d \in Nat \ {0}, x <= y
  PROVE  x \div d <= y \div d
<1> DEFINE q == x \div d  r == y \div d
<1>1. q \in Nat /\ r \in Nat /\ d * q <= x /\ y < d * r + d
  BY Quotient
<1> HIDE DEF q, r
<1>2. CASE q <= r
  BY <1>2 DEF q, r
<1>3. CASE r + 1 <= q
  <2>1. d * (r + 1) <= d * q /\ d * (r + 1) \in Nat /\ d * q \in Nat
    BY <1>1, <1>3, TimesMonotone
  <2>2. d * (r + 1) = d * r + d /\ d * r \in Nat
    BY <1>1
  <2> QED BY <1>1, <2>1, <2>2
<1> QED BY <1>1, <1>2, <1>3

\* A quote is a whole number of coins and never free.
THEOREM PricePositive ==
  ASSUME NEW base \in Nat, NEW demand \in Nat, NEW have \in Nat, NEW target \in Nat
  PROVE  Price(base, demand, have, target) \in Nat \ {0}
<1> DEFINE D == 2 * Scale(target)
           X == 2 * (base * demand * Factor(have, target)) + Scale(target)
<1>1. D \in Nat \ {0} /\ X \in Nat
  <2>1. base * demand \in Nat
    OBVIOUS
  <2>2. base * demand * Factor(have, target) \in Nat
    <3>1. Factor(have, target) \in Nat
      BY FactorNat
    <3>2. \A a, c \in Nat : a * c \in Nat
      OBVIOUS
    <3> QED BY <2>1, <3>1, <3>2
  <2>3. Scale(target) \in Nat \ {0}
    BY PullNat
  <2>4. \A a, c \in Nat : c # 0 => 2 * c \in Nat \ {0} /\ 2 * a + c \in Nat
    OBVIOUS
  <2> QED BY <2>2, <2>3, <2>4
<1> HIDE DEF D, X
<1>2. X \div D \in Nat
  BY <1>1, Quotient
<1>3. Price(base, demand, have, target) = IF X \div D < 1 THEN 1 ELSE X \div D
  BY DEF Price, D, X
<1> QED BY <1>2, <1>3

\* The more there is of a good, the lower its quote, rounding and floor included.
THEOREM PriceFalls ==
  ASSUME NEW base \in Nat, NEW demand \in Nat, NEW s \in Nat, NEW u \in Nat,
         NEW target \in Nat, s <= u
  PROVE  Price(base, demand, u, target) <= Price(base, demand, s, target)
<1> DEFINE D == 2 * Scale(target)
           X(v) == 2 * (base * demand * Factor(v, target)) + Scale(target)
<1>1. base * demand \in Nat
  OBVIOUS
<1>2. /\ Factor(u, target) \in Nat /\ Factor(s, target) \in Nat
      /\ Factor(u, target) <= Factor(s, target)
  BY FactorNat, FactorFalls
<1>3. /\ base * demand * Factor(u, target) <= base * demand * Factor(s, target)
      /\ base * demand * Factor(u, target) \in Nat
      /\ base * demand * Factor(s, target) \in Nat
  BY <1>1, <1>2, TimesMonotone
<1>4. D \in Nat \ {0} /\ X(u) \in Nat /\ X(s) \in Nat /\ X(u) <= X(s)
  BY <1>3, PullNat
<1>5. /\ Price(base, demand, u, target) = IF X(u) \div D < 1 THEN 1 ELSE X(u) \div D
      /\ Price(base, demand, s, target) = IF X(s) \div D < 1 THEN 1 ELSE X(s) \div D
  BY DEF Price
<1> HIDE DEF D, X
<1>6. X(u) \div D <= X(s) \div D /\ X(u) \div D \in Nat /\ X(s) \div D \in Nat
  BY <1>4, DivMonotone, Quotient
<1> QED BY <1>5, <1>6

-----------------------------------------------------------------------------
(* Purses, stalls and nodes. *)

\* No purse and no stall is ever overdrawn, and no node holds more than it may.
Ledger ==
  /\ nyang \in [Players -> Nat]
  /\ stock \in [Wares -> Nat]
  /\ left \in [Nodes -> Nat] /\ \A nd \in Nodes : left[nd] <= nd.max

\* The commands that leave the ledger alone.
Unpaid(p) ==
  \/ Enter(p) \/ LeaveWorld(p)
  \/ \E i \in Items : Get(p, i) \/ GetHeavy(p, i) \/ DropItem(p, i) \/ Equip(p, i)
  \/ \E s \in Slots : Unequip(p, s)
  \/ \E rec \in Recipes : Craft(p, rec) \/ CraftShort(p, rec)
  \/ \E sk \in Skills : PracticeSkill(p, sk)
  \/ \E tp \in Topics : Meet(p, tp)

LEMMA UnpaidChangesNothing ==
  ASSUME NEW p \in Players, Unpaid(p)
  PROVE  UNCHANGED <<nyang, stock, left>>
<1>1. CASE Enter(p) \/ LeaveWorld(p)
  BY <1>1 DEF Enter, LeaveWorld, bodyVars, placeVars
<1>2. CASE \E i \in Items : Get(p, i) \/ GetHeavy(p, i) \/ DropItem(p, i) \/ Equip(p, i)
  BY <1>2 DEF Get, GetHeavy, DropItem, Equip, bodyVars, placeVars
<1>3. CASE \/ \E s \in Slots : Unequip(p, s)
           \/ \E rec \in Recipes : Craft(p, rec) \/ CraftShort(p, rec)
  BY <1>3 DEF Unequip, Craft, CraftShort, placeVars
<1>4. CASE \/ \E sk \in Skills : PracticeSkill(p, sk)
           \/ \E tp \in Topics : Meet(p, tp)
  BY <1>4 DEF PracticeSkill, Meet, placeVars
<1> QED BY <1>1, <1>2, <1>3, <1>4 DEF Unpaid

LEMMA CommandCases ==
  ASSUME NEW p \in Players, Command(p)
  PROVE  \/ Unpaid(p)
         \/ \E dest \in Rooms : Move(p, dest)
         \/ \E nd \in Nodes : Gather(p, nd)
         \/ \E w \in Wares, n \in 1..MaxTrade : Sell(p, w, n) \/ Buy(p, w, n)
BY DEF Command, Unpaid

LEMMA QuoteNat ==
  ASSUME Ledger, NEW w \in Wares
  PROVE  Quote(w) \in Nat \ {0} /\ stock[w] \in Nat
BY WorldAssumption, PricePositive DEF Ledger, Quote

LEMMA MoveKeepsLedger ==
  ASSUME Ledger, NEW p \in Players, NEW dest \in Rooms, Move(p, dest)
  PROVE  Ledger'
<1>1. UNCHANGED <<stock, left>>
  BY DEF Move, placeVars
<1>2. nyang' = nyang \/ (nyang[p] >= TollNyang /\ nyang' = [nyang EXCEPT ![p] = nyang[p] - TollNyang])
  BY DEF Move, Put
<1>3. TollNyang \in Nat
  BY WorldAssumption
<1>4. nyang' \in [Players -> Nat]
  BY <1>2, <1>3 DEF Ledger
<1> QED BY <1>1, <1>4 DEF Ledger

LEMMA GatherKeepsLedger ==
  ASSUME Ledger, NEW p \in Players, NEW nd \in Nodes, Gather(p, nd)
  PROVE  Ledger'
<1>1. UNCHANGED <<nyang, stock>> /\ left[nd] > 0 /\ left' = [left EXCEPT ![nd] = left[nd] - 1]
  BY DEF Gather, Put
<1>2. left \in [Nodes -> Nat] /\ \A m \in Nodes : left[m] <= m.max
  BY DEF Ledger
<1>3. left' \in [Nodes -> Nat] /\ \A m \in Nodes : left'[m] <= left[m]
  BY <1>1, <1>2
<1>4. \A m \in Nodes : m.max \in Nat
  BY WorldAssumption
<1>5. \A m \in Nodes : left'[m] <= m.max
  BY <1>2, <1>3, <1>4
<1> QED BY <1>1, <1>3, <1>5 DEF Ledger

LEMMA TradeKeepsLedger ==
  ASSUME Ledger, NEW p \in Players, NEW w \in Wares, NEW n \in 1..MaxTrade,
         Sell(p, w, n) \/ Buy(p, w, n)
  PROVE  Ledger'
<1>1. n \in Nat /\ Quote(w) \in Nat /\ stock[w] \in Nat
  BY QuoteNat, WorldAssumption
<1> DEFINE cost == Quote(w) * n
<1>2. cost \in Nat
  BY <1>1, Product
<1>3. /\ UNCHANGED left
      /\ \/ nyang' = [nyang EXCEPT ![p] = nyang[p] + cost] /\ stock' = [stock EXCEPT ![w] = stock[w] + n]
         \/ /\ stock[w] >= n /\ nyang[p] >= cost
            /\ nyang' = [nyang EXCEPT ![p] = nyang[p] - cost] /\ stock' = [stock EXCEPT ![w] = stock[w] - n]
  BY DEF Sell, Buy, Put
<1> HIDE DEF cost
<1>4. nyang \in [Players -> Nat] /\ stock \in [Wares -> Nat]
  BY DEF Ledger
<1>5. nyang' \in [Players -> Nat] /\ stock' \in [Wares -> Nat]
  BY <1>1, <1>2, <1>3, <1>4
<1> QED BY <1>3, <1>5 DEF Ledger

LEMMA TickKeepsLedger ==
  ASSUME Ledger, Tick
  PROVE  Ledger'
<1> DEFINE now == (ticks + 1) % Period
<1>1. /\ nyang' = nyang
      /\ left' = [nd \in Nodes |-> Regen(nd, now)]
      /\ stock' = IF now % MarketTickEvery = 0 THEN [w \in Wares |-> Drift(w)] ELSE stock
  BY DEF Tick, bodyVars
<1> HIDE DEF now
<1>2. \A nd \in Nodes : left[nd] \in Nat /\ left[nd] <= nd.max /\ nd.max \in Nat
  BY WorldAssumption DEF Ledger
<1>3. \A nd \in Nodes : Regen(nd, now) \in Nat /\ Regen(nd, now) <= nd.max
  BY <1>2 DEF Regen
<1>4. \A w \in Wares : stock[w] \in Nat /\ w.target \in Nat
  BY WorldAssumption DEF Ledger
<1>5. \A w \in Wares : Drift(w) \in Nat
  BY <1>4 DEF Drift
<1>6. stock' \in [Wares -> Nat]
  BY <1>1, <1>5 DEF Ledger
<1>7. left' \in [Nodes -> Nat] /\ \A nd \in Nodes : left'[nd] <= nd.max
  BY <1>1, <1>3
<1> QED BY <1>1, <1>6, <1>7 DEF Ledger

\* Purses and stalls are never overdrawn and nodes never overgrown, whatever the
\* content: the checks of toll, sell, buy, gather and tick suffice.
\* (livelihood.go, economy.Book, craft.Stock)
THEOREM LedgerHolds == Spec => []Ledger
<1>1. Init => Ledger
  BY WorldAssumption DEF Init, Ledger
<1>2. Ledger /\ [Next]_vars => Ledger'
  <2> SUFFICES ASSUME Ledger, [Next]_vars PROVE Ledger'
    OBVIOUS
  <2>1. ASSUME NEW p \in Players, Command(p) PROVE Ledger'
    <3>1. CASE Unpaid(p)
      BY <3>1, UnpaidChangesNothing DEF Ledger
    <3> QED BY <2>1, <3>1, CommandCases, MoveKeepsLedger, GatherKeepsLedger, TradeKeepsLedger
  <2>2. CASE UNCHANGED vars
    BY <2>2 DEF vars, Ledger
  <2> QED BY <2>1, <2>2, TickKeepsLedger DEF Next
<1> QED BY <1>1, <1>2, PTL DEF Spec

\* Whatever is sold, bought or drifts, a quote rises only when its stall has less.
\* (economy.Price, Sell, Buy, Tick)
THEOREM PricesEase == Spec => PriceEases
<1>1. ASSUME Ledger, Ledger', NEW w \in Wares, stock'[w] >= stock[w]
      PROVE  Quote(w)' <= Quote(w)
  <2>1. stock[w] \in Nat /\ stock'[w] \in Nat
    BY <1>1 DEF Ledger
  <2>2. w.base \in Nat /\ w.demand \in Nat /\ w.target \in Nat
    BY WorldAssumption
  <2>3. stock[w] <= stock'[w]
    BY <1>1, <2>1
  <2>4. Price(w.base, w.demand, stock'[w], w.target) <= Price(w.base, w.demand, stock[w], w.target)
    BY <2>1, <2>2, <2>3, PriceFalls
  <2> QED BY <2>4 DEF Quote
<1>2. Ledger /\ Ledger' => [\A w \in Wares : stock'[w] >= stock[w] => Quote(w)' <= Quote(w)]_vars
  BY <1>1
<1> QED BY <1>2, LedgerHolds, PTL DEF PriceEases

-----------------------------------------------------------------------------
(* Ranks and stats. *)

Ladder ==
  /\ ranks \in [Players -> [Skills -> 0..RankCap]]
  /\ stats \in [Players -> [Stats -> 0..StatCap]]

LEMMA TrialStays ==
  ASSUME NEW r \in [Skills -> 0..RankCap], NEW s \in [Stats -> 0..StatCap], NEW sk,
         NEW t \in TryGain(r, s, sk)
  PROVE  /\ t[1] \in [Skills -> 0..RankCap] /\ t[2] \in [Stats -> 0..StatCap]
         /\ \A x \in Skills : t[1][x] >= r[x]
         /\ \A x \in Stats : t[2][x] >= s[x]
<1>1. RankCap \in Nat /\ StatCap \in Nat /\ StatOf \in [Skills -> Stats]
  BY SkillAssumption
<1>2. CASE t = <<r, s>>
  BY <1>2, <1>1
<1>3. CASE t # <<r, s>>
  <2>1. CanGain(r, sk) /\ t \in {Raise(r, sk)} \X
                 ({s} \cup {Raise(s, st) : st \in {u \in {StatOf[sk]} : CanGrow(s, u)}})
    BY <1>3 DEF TryGain
  <2>2. sk \in Skills /\ r[sk] < RankCap /\ t[1] = Raise(r, sk)
    BY <2>1 DEF CanGain
  <2>3. t[2] = s \/ (CanGrow(s, StatOf[sk]) /\ t[2] = Raise(s, StatOf[sk]))
    BY <2>1
  <2>4. t[1] \in [Skills -> 0..RankCap] /\ \A x \in Skills : t[1][x] >= r[x]
    BY <1>1, <2>2 DEF Raise
  <2>5. t[2] \in [Stats -> 0..StatCap] /\ \A x \in Stats : t[2][x] >= s[x]
    <3>1. StatOf[sk] \in Stats
      BY <1>1, <2>2
    <3>2. CASE t[2] = s
      BY <1>1, <3>2
    <3>3. CASE s[StatOf[sk]] < StatCap /\ t[2] = Raise(s, StatOf[sk])
      BY <1>1, <3>1, <3>3 DEF Raise
    <3> QED BY <2>3, <3>2, <3>3 DEF CanGrow
  <2> QED BY <2>4, <2>5
<1> QED BY <1>2, <1>3

\* What a trial does to a player's entry; the entries of the others stay.
Climbs ==
  /\ \A p \in Players, sk \in Skills : ranks'[p][sk] >= ranks[p][sk]
  /\ \A p \in Players, st \in Stats : stats'[p][st] >= stats[p][st]

LEMMA GainClimbs ==
  ASSUME Ladder, NEW p \in Players, NEW sk, ApplyGain(p, sk)
  PROVE  Ladder' /\ Climbs
<1>1. PICK t \in TryGain(ranks[p], stats[p], sk) :
        ranks' = Put(ranks, p, t[1]) /\ stats' = Put(stats, p, t[2])
  BY DEF ApplyGain
<1>2. ranks[p] \in [Skills -> 0..RankCap] /\ stats[p] \in [Stats -> 0..StatCap]
  BY DEF Ladder
<1>3. /\ t[1] \in [Skills -> 0..RankCap] /\ t[2] \in [Stats -> 0..StatCap]
      /\ \A x \in Skills : t[1][x] >= ranks[p][x]
      /\ \A x \in Stats : t[2][x] >= stats[p][x]
  BY <1>2, TrialStays
<1>4. ranks' = [ranks EXCEPT ![p] = t[1]] /\ stats' = [stats EXCEPT ![p] = t[2]]
  BY <1>1 DEF Put
<1>5. Ladder'
  BY <1>3, <1>4 DEF Ladder
<1>6. \A q \in Players : /\ ranks'[q] = IF q = p THEN t[1] ELSE ranks[q]
                         /\ stats'[q] = IF q = p THEN t[2] ELSE stats[q]
  BY <1>4 DEF Ladder
<1>7. \A q \in Players : /\ \A x \in Skills : ranks[q][x] \in 0..RankCap
                         /\ \A x \in Stats : stats[q][x] \in 0..StatCap
  BY DEF Ladder
<1>8. RankCap \in Nat /\ StatCap \in Nat
  BY SkillAssumption
<1>9. Climbs
  BY <1>3, <1>6, <1>7, <1>8 DEF Climbs
<1> QED BY <1>5, <1>9

LEMMA CommandTrials ==
  ASSUME NEW p \in Players, Command(p)
  PROVE  UNCHANGED <<ranks, stats>> \/ \E sk : ApplyGain(p, sk)
<1>1. CASE Enter(p) \/ LeaveWorld(p)
  BY <1>1 DEF Enter, LeaveWorld, bodyVars
<1>2. CASE \E dest \in Rooms : Move(p, dest)
  BY <1>2 DEF Move
<1>3. CASE \E i \in Items : Get(p, i) \/ GetHeavy(p, i) \/ DropItem(p, i) \/ Equip(p, i)
  BY <1>3 DEF Get, GetHeavy, DropItem, Equip, bodyVars
<1>4. CASE \/ \E s \in Slots : Unequip(p, s)
           \/ \E rec \in Recipes : CraftShort(p, rec)
           \/ \E tp \in Topics : Meet(p, tp)
  BY <1>4 DEF Unequip, CraftShort, Meet
<1>5. CASE \/ \E nd \in Nodes : Gather(p, nd)
           \/ \E rec \in Recipes : Craft(p, rec)
           \/ \E w \in Wares, n \in 1..MaxTrade : Sell(p, w, n) \/ Buy(p, w, n)
           \/ \E sk \in Skills : PracticeSkill(p, sk)
  BY <1>5 DEF Gather, Craft, Sell, Buy, PracticeSkill
<1> QED BY <1>1, <1>2, <1>3, <1>4, <1>5 DEF Command

LEMMA StepClimbs ==
  ASSUME Ladder, [Next]_vars
  PROVE  Ladder' /\ Climbs
<1>1. UNCHANGED <<ranks, stats>> \/ \E p \in Players : \E sk : ApplyGain(p, sk)
  <2>1. CASE Tick \/ UNCHANGED vars
    BY <2>1 DEF Tick, vars, bodyVars
  <2> QED BY <2>1, CommandTrials DEF Next
<1>2. CASE UNCHANGED <<ranks, stats>>
  <2>1. \A q \in Players : /\ \A x \in Skills : ranks[q][x] \in 0..RankCap
                           /\ \A x \in Stats : stats[q][x] \in 0..StatCap
    BY DEF Ladder
  <2>2. RankCap \in Nat /\ StatCap \in Nat
    BY SkillAssumption
  <2> QED BY <1>2, <2>1, <2>2 DEF Ladder, Climbs
<1> QED BY <1>1, <1>2, GainClimbs

LadderUp == [][Climbs]_vars

\* Nothing a player does, and nothing others do, lowers a rank or a stat.
\* (skill.Sheet.TryGain and its callers)
THEOREM NobodyUnlearns == Spec => LadderUp
<1>1. Init => Ladder
  BY SkillAssumption DEF Init, Ladder
<1>2. Ladder /\ [Next]_vars => Ladder' /\ [Climbs]_vars
  BY StepClimbs
<1> QED BY <1>1, <1>2, PTL DEF Spec, LadderUp

\* No rank and no stat passes its own cap, whatever mix of practice, gathering,
\* crafting and trade raised it.  (skill.Sheet.TryGain, tryStatGain)
THEOREM CapsHold == Spec => []Ladder
<1>1. Init => Ladder
  BY SkillAssumption DEF Init, Ladder
<1>2. Ladder /\ [Next]_vars => Ladder'
  BY StepClimbs
<1> QED BY <1>1, <1>2, PTL DEF Spec

-----------------------------------------------------------------------------
(* Sums of ranks and stats. *)

\* Raising one entry adds one to the sum.
LEMMA RaiseAddsOne ==
  ASSUME NEW S, IsFiniteSet(S), NEW f \in [S -> Nat], NEW x \in S
  PROVE  /\ SumFunction(Raise(f, x)) = SumFunction(f) + 1
         /\ SumFunction(f) \in Nat
<1> DEFINE g == Raise(f, x)
<1>1. /\ g[x] = f[x] + 1 /\ g[x] \in Nat /\ DOMAIN g = S /\ DOMAIN f = S
      /\ f[x] \in Nat /\ \A y \in S : f[y] \in Nat /\ (y # x => g[y] = f[y])
  BY DEF Raise
<1> HIDE DEF g
<1>2. /\ SumFunctionOnSet(g, S) + f[x] = SumFunctionOnSet(f, S) + g[x]
      /\ SumFunctionOnSet(g, S) \in Nat /\ SumFunctionOnSet(f, S) \in Nat
  BY <1>1, SumChanged
<1>3. SumFunctionOnSet(g, S) = SumFunctionOnSet(f, S) + 1
  BY <1>1, <1>2
<1> QED BY <1>1, <1>2, <1>3 DEF SumFunction, g

Sums ==
  \A p \in Players : SumFunction(ranks[p]) <= RankSumCap /\ SumFunction(stats[p]) <= StatSumCap

LEMMA GainKeepsSums ==
  ASSUME Ladder, Sums, NEW p \in Players, NEW sk, ApplyGain(p, sk)
  PROVE  Sums'
<1>1. PICK t \in TryGain(ranks[p], stats[p], sk) :
        ranks' = Put(ranks, p, t[1]) /\ stats' = Put(stats, p, t[2])
  BY DEF ApplyGain
<1>2. /\ ranks[p] \in [Skills -> Nat] /\ stats[p] \in [Stats -> Nat]
      /\ IsFiniteSet(Skills) /\ IsFiniteSet(Stats) /\ StatOf \in [Skills -> Stats]
      /\ RankSumCap \in Nat /\ StatSumCap \in Nat
  BY SkillAssumption DEF Ladder
<1>3. SumFunction(t[1]) <= RankSumCap /\ SumFunction(t[2]) <= StatSumCap
  <2>1. CASE t = <<ranks[p], stats[p]>>
    BY <2>1 DEF Sums
  <2>2. CASE t # <<ranks[p], stats[p]>>
    <3>1. /\ CanGain(ranks[p], sk)
          /\ t \in {Raise(ranks[p], sk)} \X ({stats[p]} \cup
                     {Raise(stats[p], st) : st \in {u \in {StatOf[sk]} : CanGrow(stats[p], u)}})
      BY <2>2 DEF TryGain
    <3>2. /\ sk \in Skills /\ SumFunction(ranks[p]) < RankSumCap /\ t[1] = Raise(ranks[p], sk)
      BY <3>1 DEF CanGain
    <3>3. \/ t[2] = stats[p]
          \/ SumFunction(stats[p]) < StatSumCap /\ t[2] = Raise(stats[p], StatOf[sk])
      BY <3>1 DEF CanGrow
    <3>4. SumFunction(t[1]) <= RankSumCap
      <4>1. SumFunction(Raise(ranks[p], sk)) = SumFunction(ranks[p]) + 1 /\ SumFunction(ranks[p]) \in Nat
        BY <1>2, <3>2, RaiseAddsOne
      <4> QED BY <1>2, <3>2, <4>1
    <3>5. SumFunction(t[2]) <= StatSumCap
      <4>1. StatOf[sk] \in Stats
        BY <1>2, <3>2
      <4>2. /\ SumFunction(Raise(stats[p], StatOf[sk])) = SumFunction(stats[p]) + 1
            /\ SumFunction(stats[p]) \in Nat
        BY <1>2, <4>1, RaiseAddsOne
      <4> QED BY <1>2, <3>3, <4>2 DEF Sums
    <3> QED BY <3>4, <3>5
  <2> QED BY <2>1, <2>2
<1>4. \A q \in Players : /\ ranks'[q] = IF q = p THEN t[1] ELSE ranks[q]
                         /\ stats'[q] = IF q = p THEN t[2] ELSE stats[q]
  BY <1>1 DEF Ladder, Put
<1> QED BY <1>3, <1>4 DEF Sums

LEMMA SumsStep ==
  ASSUME Ladder, Sums, [Next]_vars
  PROVE  Sums'
<1>1. CASE \E p \in Players : Command(p)
  <2>1. PICK p \in Players : UNCHANGED <<ranks, stats>> \/ \E sk : ApplyGain(p, sk)
    BY <1>1, CommandTrials
  <2> QED BY <2>1, GainKeepsSums DEF Sums
<1>2. CASE Tick \/ UNCHANGED vars
  BY <1>2 DEF Tick, vars, bodyVars, Sums
<1> QED BY <1>1, <1>2 DEF Next

\* Ranks and stats stay under their caps, one by one and in sum, for every catalog and
\* whatever mix of practice, gathering, crafting and trade raised them.
\* (skill.Sheet.TryGain, tryStatGain)
THEOREM SumCapsHold == Spec => []SkillCaps
<1>1. Init => Ladder /\ Sums
  <2> SUFFICES ASSUME Init PROVE Ladder /\ Sums
    OBVIOUS
  <2>1. Ladder
    BY SkillAssumption DEF Init, Ladder
  <2>2. \A p \in Players : ranks[p] = [s \in Skills |-> 0] /\ stats[p] = [s \in Stats |-> 0]
    BY DEF Init
  <2>3. ASSUME NEW S, IsFiniteSet(S) PROVE SumFunction([s \in S |-> 0]) = 0
    <3> DEFINE z == [s \in S |-> 0]
    <3>1. DOMAIN z = S /\ \A s \in S : z[s] = 0
      OBVIOUS
    <3> HIDE DEF z
    <3>2. SumFunctionOnSet(z, S) = 0
      BY <2>3, <3>1, SumZero
    <3> QED BY <3>1, <3>2 DEF SumFunction, z
  <2> QED BY <2>1, <2>2, <2>3, SkillAssumption DEF Sums
<1>2. Ladder /\ Sums /\ [Next]_vars => Ladder' /\ Sums'
  BY StepClimbs, SumsStep
<1>3. Ladder /\ Sums => SkillCaps
  BY SkillAssumption DEF Ladder, Sums, SkillCaps
<1> QED BY <1>1, <1>2, <1>3, PTL DEF Spec

-----------------------------------------------------------------------------
(* The materials of a recipe, taken one after the other. *)

Haul == [ok : BOOLEAN, rest : Seq(Pile(Items)), old : Seq(Pile(Items))]

LEMMA NextHaul ==
  ASSUME NEW t \in Haul, NEW in \in Pile(Items)
  PROVE  TakeNext(t, in) \in Haul
<1>1. /\ t.ok \in BOOLEAN /\ t.rest \in Seq(Pile(Items)) /\ t.old \in Seq(Pile(Items))
      /\ in.n \in Nat
  BY DEF Haul, Pile
<1>2. CASE t.ok /\ CanTake(t.rest, in.id, in.n)
  <2> DEFINE L == Leftover(t.rest, in.id, in.n)
             R == TakeStack(t.rest, in.id, in.n)
             tail == SubSeq(t.old, Len(t.rest) + 1, Len(t.old))
  <2>1. R \in Seq(Pile(Items)) /\ L \in Seq(Pile(Items))
    BY <1>1, <1>2, TakeShape
  <2>2. tail \in Seq(Pile(Items))
    BY <1>1
  <2>3. TakeNext(t, in) = [ok |-> TRUE, rest |-> R, old |-> L \o tail]
    BY <1>2 DEF TakeNext
  <2> HIDE DEF L, R, tail
  <2>4. L \o tail \in Seq(Pile(Items))
    BY <2>1, <2>2
  <2> QED BY <2>1, <2>3, <2>4 DEF Haul
<1>3. CASE ~(t.ok /\ CanTake(t.rest, in.id, in.n))
  <2>1. TakeNext(t, in) = [t EXCEPT !.ok = FALSE]
    BY <1>3 DEF TakeNext
  <2> QED BY <2>1 DEF Haul
<1> QED BY <1>2, <1>3

\* t[k] is the haul after k materials.
TakenInTurn(t, b, ins) ==
  /\ t \in [0..Len(ins) -> Haul]
  /\ t[0] = [ok |-> TRUE, rest |-> b, old |-> b]
  /\ \A k \in 1..Len(ins) : t[k] = TakeNext(t[k - 1], ins[k])
  /\ TakeAll(b, ins) = t[Len(ins)]

LEMMA MaxOfSet ==
  ASSUME NEW N \in Nat, NEW s \in SUBSET (1..N), s # {}
  PROVE  Max(s) \in s /\ \A x \in s : Max(s) >= x
<1> DEFINE B == {m \in Nat : \A x \in s : m >= x}
<1>1. N \in B
  OBVIOUS
<1>2. PICK m \in B : \A k \in B : m <= k
  BY <1>1, LeastNat
<1>3. m \in s
  <2> SUFFICES ASSUME m \notin s PROVE FALSE
    OBVIOUS
  <2>1. \A x \in s : x \in Nat /\ x < m
    BY <1>2
  <2>2. m - 1 \in Nat
    <3>1. PICK x \in s : x \in Nat /\ x < m
      BY <2>1
    <3>2. m \in Nat
      BY <1>2
    <3> QED BY <3>1, <3>2
  <2>3. m - 1 \in B
    BY <2>1, <2>2, <1>2
  <2> QED BY <1>2, <2>3
<1> QED BY <1>2, <1>3 DEF Max

LEMMA TakeAllInTurn ==
  ASSUME NEW b \in Seq(Pile(Items)), NEW ins \in Seq(Pile(Items))
  PROVE  \E t : TakenInTurn(t, b, ins)
<1> DEFINE N == Len(ins)
           S == 1..N
           base == [ok |-> TRUE, rest |-> b, old |-> b]
           c == [s \in SUBSET S |-> Max(s)]
           st == [p \in Haul \X S |-> TakeNext(p[1], ins[p[2]])]
           jt == CHOOSE iter : iter = [s \in SUBSET (DOMAIN ins) |->
                   IF s = {} THEN [ok |-> TRUE, rest |-> b, old |-> b]
                   ELSE TakeNext(iter[s \ {Max(s)}], ins[Max(s)])]
<1>1. TakeAll(b, ins) = jt[DOMAIN ins]
  BY DEF TakeAll, FoldLeft, MapThenFoldSet
<1>2. DOMAIN ins = S /\ N \in Nat /\ IsFiniteSet(S) /\ base \in Haul /\ \A k \in S : ins[k] \in Pile(Items)
  BY FS_Interval DEF Haul
<1>3. \A s \in SUBSET S : s # {} => c[s] \in s /\ c[s] = Max(s)
  BY <1>2, MaxOfSet
<1>4. \A y \in Haul, x \in S : st[<<y, x>>] = TakeNext(y, ins[x]) /\ TakeNext(y, ins[x]) \in Haul
  BY <1>2, NextHaul
<1> HIDE DEF N, c, st, jt, base
<1>5. PICK it : FoldOf(it, S, Haul, base, c, st)
  <2>1. Folds(S, Haul, base, c, st)
    BY <1>2, <1>3, <1>4 DEF Folds
  <2> QED BY <2>1, FoldExists
<1>6. /\ it \in [SUBSET S -> Haul] /\ it[{}] = base
      /\ \A s \in SUBSET S : s # {} => it[s] = TakeNext(it[s \ {Max(s)}], ins[Max(s)])
  <2>1. it \in [SUBSET S -> Haul] /\ it[{}] = base
    BY <1>5 DEF FoldOf
  <2>2. ASSUME NEW s \in SUBSET S, s # {}
        PROVE  it[s] = TakeNext(it[s \ {Max(s)}], ins[Max(s)])
    <3>1. it[s] = st[<<it[s \ {c[s]}], c[s]>>]
      BY <1>5, <2>2 DEF FoldOf
    <3>2. c[s] = Max(s) /\ c[s] \in S /\ it[s \ {c[s]}] \in Haul
      BY <1>3, <2>1, <2>2
    <3> QED BY <1>4, <3>1, <3>2
  <2> QED BY <2>1, <2>2
<1>7. it = [s \in SUBSET S |-> IF s = {} THEN base ELSE TakeNext(it[s \ {Max(s)}], ins[Max(s)])]
  BY <1>6
<1>8. jt = [s \in SUBSET S |-> IF s = {} THEN base ELSE TakeNext(jt[s \ {Max(s)}], ins[Max(s)])]
  BY <1>2, <1>7 DEF jt, base
<1>9. \A s \in SUBSET S : jt[s] = it[s]
  <2> DEFINE B == {s \in SUBSET S : jt[s] # it[s]}
  <2> SUFFICES ASSUME B # {} PROVE FALSE
    OBVIOUS
  <2>1. PICK s \in B : \A x \in s : s \ {x} \notin B
    BY <1>2, LeastSet
  <2>2. s # {}
    BY <1>6, <1>8, <2>1
  <2>3. Max(s) \in s /\ s \ {Max(s)} \in SUBSET S
    BY <1>3, <2>1, <2>2
  <2>4. jt[s \ {Max(s)}] = it[s \ {Max(s)}]
    BY <2>1, <2>3
  <2> QED BY <1>6, <1>8, <2>1, <2>2, <2>4
<1> DEFINE t == [k \in 0..N |-> it[1..k]]
<1>10. \A k \in 0..N : 1..k \in SUBSET S
  BY <1>2
<1>11. t \in [0..N -> Haul] /\ t[0] = base /\ t[N] = TakeAll(b, ins)
  <2>1. 1..0 = {} /\ 0 \in 0..N /\ N \in 0..N
    BY <1>2
  <2> QED BY <1>1, <1>2, <1>6, <1>9, <1>10, <2>1
<1>12. ASSUME NEW k \in 1..N
       PROVE  t[k] = TakeNext(t[k - 1], ins[k])
  <2>1. k \in 0..N /\ k - 1 \in 0..N /\ 1..k # {} /\ 1..k \in SUBSET S
    <3>1. k \in Nat /\ k >= 1 /\ k <= N /\ N \in Nat
      BY <1>2
    <3>2. k \in 0..N /\ k - 1 \in 0..N /\ 1 \in 1..k
      BY <3>1
    <3> QED BY <1>10, <3>2
  <2>2. Max(1..k) = k
    <3>1. Max(1..k) \in 1..k /\ \A x \in 1..k : Max(1..k) >= x
      BY <1>2, <2>1, MaxOfSet
    <3> QED BY <3>1
  <2>3. (1..k) \ {k} = 1..(k - 1)
    BY <1>2
  <2>4. it[1..k] = TakeNext(it[(1..k) \ {Max(1..k)}], ins[Max(1..k)])
    BY <1>6, <2>1
  <2> QED BY <2>1, <2>2, <2>3, <2>4
<1> HIDE DEF t
<1>13. TakenInTurn(t, b, ins)
  BY <1>11, <1>12 DEF TakenInTurn, base, N
<1> QED BY <1>13

\* Where the haul is still whole, the material was there.
LEMMA HaulStep ==
  ASSUME NEW t \in Haul, NEW in, TakeNext(t, in).ok
  PROVE  /\ t.ok /\ CanTake(t.rest, in.id, in.n)
         /\ TakeNext(t, in).rest = TakeStack(t.rest, in.id, in.n)
<1>1. CASE t.ok /\ CanTake(t.rest, in.id, in.n)
  BY <1>1 DEF TakeNext
<1>2. CASE ~(t.ok /\ CanTake(t.rest, in.id, in.n))
  <2>1. TakeNext(t, in) = [t EXCEPT !.ok = FALSE]
    BY <1>2 DEF TakeNext
  <2>2. TakeNext(t, in).ok = FALSE
    BY <2>1 DEF Haul
  <2> QED BY <2>2
<1> QED BY <1>1, <1>2

LEMMA Prefix ==
  ASSUME NEW T, NEW s \in Seq(T)
  PROVE  /\ Len(s) \in Nat /\ SubSeq(s, 1, 0) = <<>> /\ SubSeq(s, 1, Len(s)) = s
         /\ \A k \in 1..Len(s) : /\ s[k] \in T /\ SubSeq(s, 1, k - 1) \in Seq(T)
                                 /\ SubSeq(s, 1, k) = Append(SubSeq(s, 1, k - 1), s[k])
OBVIOUS

\* The materials that were all there leave the rest, tidy when the bag was.
LEMMA HaulWhole ==
  ASSUME NEW b \in Seq(Pile(Items)), NEW ins \in Seq(Pile(Items)), TakeAll(b, ins).ok,
         NEW c \in [Items -> Nat]
  PROVE  /\ TakeAll(b, ins).rest \in Seq(Pile(Items))
         /\ Weigh(c, b) = Weigh(c, TakeAll(b, ins).rest) + Weigh(c, ins)
         /\ Tidy(b) => Tidy(TakeAll(b, ins).rest)
<1>1. PICK t : TakenInTurn(t, b, ins)
  BY TakeAllInTurn
<1> DEFINE N == Len(ins)
           Pre(k) == SubSeq(ins, 1, k)
           Good(k) == /\ t[k].rest \in Seq(Pile(Items))
                      /\ Weigh(c, b) = Weigh(c, t[k].rest) + Weigh(c, Pre(k))
                      /\ Tidy(b) => Tidy(t[k].rest)
           Bad == {k \in 0..N : t[k].ok /\ ~Good(k)}
<1>2. /\ t \in [0..N -> Haul] /\ t[0] = [ok |-> TRUE, rest |-> b, old |-> b]
      /\ \A k \in 1..N : t[k] = TakeNext(t[k - 1], ins[k])
      /\ TakeAll(b, ins) = t[N]
  BY <1>1 DEF TakenInTurn
<1>3. /\ N \in Nat /\ Pre(0) = <<>> /\ Pre(N) = ins
      /\ \A k \in 1..N : ins[k] \in Pile(Items) /\ Pre(k - 1) \in Seq(Pile(Items))
                         /\ Pre(k) = Append(Pre(k - 1), ins[k])
  BY Prefix
<1> HIDE DEF N, Pre
<1>4. Good(0)
  <2>1. t[0].rest = b
    BY <1>2
  <2>2. Weigh(c, b) \in Nat /\ Weigh(c, Pre(0)) = 0
    BY <1>3, WeighNat, WeighEmpty
  <2>3. Weigh(c, b) = Weigh(c, b) + 0
    BY <2>2
  <2> QED BY <2>1, <2>2, <2>3
<1>5. ASSUME NEW k \in 1..N, t[k].ok, t[k - 1].ok => Good(k - 1)
      PROVE  Good(k)
  <2>1. k - 1 \in 0..N /\ t[k - 1] \in Haul /\ t[k] = TakeNext(t[k - 1], ins[k])
    <3>1. k - 1 \in 0..N
      BY <1>3
    <3> QED BY <1>2, <3>1
  <2> DEFINE r == t[k - 1].rest
             d == t[k].rest
             id == ins[k].id
             n == ins[k].n
             L == Weigh(c, d)
             x == Worth(c, id, n)
             y == Weigh(c, Pre(k - 1))
  <2>2. /\ t[k - 1].ok /\ CanTake(r, id, n) /\ d = TakeStack(r, id, n)
    BY <1>5, <2>1, HaulStep
  <2>3. r \in Seq(Pile(Items)) /\ id \in Items /\ n \in Nat
    BY <1>3, <2>1 DEF Haul, Pile
  <2>4. Good(k - 1)
    BY <1>5, <2>2
  <2>5. Weigh(c, r) = L + x /\ L \in Nat /\ d \in Seq(Pile(Items))
    <3> HIDE DEF r, d, id, n, y
    <3> QED BY <2>2, <2>3, TakeWeighs
  <2>6. Tidy(r) => Tidy(d)
    <3> HIDE DEF r, d, id, n
    <3> QED BY <2>2, <2>3, TakeKeepsTidy
  <2>7. Weigh(c, Pre(k)) = y + x /\ y \in Nat
    BY <1>3, WeighAppended
  <2>8. x \in Nat
    BY <2>3, WorthNat
  <2>9. Weigh(c, b) = Weigh(c, r) + y /\ (Tidy(b) => Tidy(r))
    BY <2>4
  <2>10. Weigh(c, b) = L + (y + x)
    <3> HIDE DEF r, d, id, n, L, x, y
    <3> QED BY <2>5, <2>7, <2>8, <2>9
  <2> QED BY <2>5, <2>6, <2>7, <2>9, <2>10
<1> HIDE DEF Good
<1>6. Bad = {}
  <2> SUFFICES ASSUME Bad # {} PROVE FALSE
    OBVIOUS
  <2>1. PICK k \in Bad : \A j \in Bad : k <= j
    <3>1. Bad \subseteq Nat
      BY <1>3
    <3> QED BY <3>1, LeastNat
  <2>2. k # 0
    BY <1>4, <2>1
  <2>3. k \in 1..N /\ k - 1 \in 0..N /\ ~(k <= k - 1)
    BY <1>3, <2>1, <2>2
  <2> QED BY <1>5, <2>1, <2>3
<1>7. Good(N)
  <2>1. N \in 0..N
    BY <1>3
  <2> QED BY <1>2, <1>6, <2>1
<1> QED BY <1>2, <1>3, <1>7 DEF Good

\* Typed it is in any case.
LEMMA HaulTyped ==
  ASSUME NEW b \in Seq(Pile(Items)), NEW ins \in Seq(Pile(Items))
  PROVE  TakeAll(b, ins) \in Haul /\ TakeAll(b, ins).old \in Seq(Pile(Items))
<1>1. PICK t : TakenInTurn(t, b, ins)
  BY TakeAllInTurn
<1>2. Len(ins) \in 0..Len(ins)
  OBVIOUS
<1>3. TakeAll(b, ins) \in Haul
  BY <1>1, <1>2 DEF TakenInTurn
<1> QED BY <1>3 DEF Haul

-----------------------------------------------------------------------------
(* What the bag of a craft that ran short still reads. *)

\* After some materials of M were taken from b: no unit of i was, none lies in the slots
\* the list no longer has, and behind every pile of i lies one that is no material.
Spared(h, b, i, M) ==
  /\ Weigh(Only({i}), h.rest) = Weigh(Only({i}), b)
  /\ Len(h.old) >= Len(h.rest)
  /\ \A j \in 1..Len(h.rest) : h.old[j] = h.rest[j]
  /\ \A j \in 1..Len(h.old) : j > Len(h.rest) => h.old[j].id # i
  /\ \A j \in 1..Len(h.rest) : h.rest[j].id = i => \E g \in 1..Len(h.rest) : g > j /\ h.rest[g].id \notin M

\* a laid over the beginning of s.
LEMMA Overlaid ==
  ASSUME NEW T, NEW a \in Seq(T), NEW s \in Seq(T), Len(s) >= Len(a),
         NEW d, d = a \o SubSeq(s, Len(a) + 1, Len(s))
  PROVE  /\ Len(d) = Len(s) /\ Len(s) \in Nat /\ Len(a) \in Nat
         /\ \A j \in 1..Len(a) : d[j] = a[j]
         /\ \A j \in 1..Len(s) : j > Len(a) => d[j] = s[j]
<1> DEFINE u == SubSeq(s, Len(a) + 1, Len(s))
<1>1. Len(a) \in Nat /\ Len(s) \in Nat
  OBVIOUS
<1>2. /\ u \in Seq(T) /\ Len(u) = Len(s) - Len(a)
      /\ \A j \in 1..(Len(s) - Len(a)) : u[j] = s[Len(a) + j]
  BY <1>1
<1>3. d = a \o u
  OBVIOUS
<1> HIDE DEF u
<1>4. Len(d) = Len(s) /\ \A j \in 1..Len(a) : d[j] = a[j]
  BY <1>1, <1>2, <1>3
<1>5. ASSUME NEW j \in 1..Len(s), j > Len(a)
      PROVE  d[j] = s[j]
  <2>1. j - Len(a) \in 1..(Len(s) - Len(a)) /\ Len(a) + (j - Len(a)) = j
    BY <1>1, <1>5
  <2>2. d[j] = u[j - Len(a)]
    BY <1>1, <1>2, <1>3, <1>5
  <2> QED BY <1>2, <2>1, <2>2
<1> QED BY <1>1, <1>4, <1>5

LEMMA OnlyIs ==
  ASSUME NEW i
  PROVE  Only({i}) \in [Items -> Nat] /\ \A x \in Items : Only({i})[x] = IF x = i THEN 1 ELSE 0
BY DEF Only

LEMMA TakeParts ==
  ASSUME NEW I, NEW b \in Seq(Pile(I)), NEW id, NEW n \in Nat, CanTake(b, id, n),
         NEW R, R = TakeStack(b, id, n), NEW L, L = Leftover(b, id, n)
  PROVE  \E k \in 1..Len(b) :
           /\ b[k].id = id
           /\ R \in Seq(Pile(I)) /\ L \in Seq(Pile(I)) /\ Len(L) = Len(b)
           /\ \/ Shrinks(b, k, n, R) /\ L = R
              \/ /\ Closed(b, k, R)
                 /\ \A j \in 1..Len(R) : L[j] = R[j]
                 /\ L[Len(b)] = IF k = Len(b) THEN [id |-> id, n |-> 0] ELSE b[Len(b)]
BY TakeShape

LEMMA SparedTaken ==
  ASSUME NEW h \in Haul, NEW b, NEW in \in Pile(Items), NEW M, in.id \in M, NEW i, i \notin M,
         Spared(h, b, i, M), h.ok, CanTake(h.rest, in.id, in.n)
  PROVE  Spared(TakeNext(h, in), b, i, M)
<1> DEFINE r == h.rest
           o == h.old
           id == in.id
           n == in.n
           R == TakeStack(r, id, n)
           L == Leftover(r, id, n)
           O == L \o SubSeq(o, Len(r) + 1, Len(o))
           h2 == TakeNext(h, in)
<1>1. r \in Seq(Pile(Items)) /\ o \in Seq(Pile(Items)) /\ id \in Items /\ n \in Nat
  BY DEF Haul, Pile
<1>2. h2.rest = R /\ h2.old = O
  BY DEF TakeNext
<1>3. /\ Weigh(Only({i}), r) = Weigh(Only({i}), b)
      /\ Len(o) >= Len(r)
      /\ \A j \in 1..Len(o) : j > Len(r) => o[j].id # i
      /\ \A j \in 1..Len(r) : r[j].id = i => \E g \in 1..Len(r) : g > j /\ r[g].id \notin M
  BY DEF Spared
<1>4. CanTake(r, id, n) /\ id \in M /\ id # i
  OBVIOUS
<1> HIDE DEF r, o, id, n
<1>5. PICK k \in 1..Len(r) :
           /\ r[k].id = id
           /\ R \in Seq(Pile(Items)) /\ L \in Seq(Pile(Items)) /\ Len(L) = Len(r)
           /\ \/ Shrinks(r, k, n, R) /\ L = R
              \/ /\ Closed(r, k, R)
                 /\ \A j \in 1..Len(R) : L[j] = R[j]
                 /\ L[Len(r)] = IF k = Len(r) THEN [id |-> id, n |-> 0] ELSE r[Len(r)]
  <2> HIDE DEF R, L
  <2>1. R = TakeStack(r, id, n) /\ L = Leftover(r, id, n)
    BY DEF R, L
  <2> QED BY <1>1, <1>4, <2>1, TakeParts
<1> HIDE DEF R, L
<1>6. Weigh(Only({i}), R) = Weigh(Only({i}), b)
  <2>1. Worth(Only({i}), id, n) = 0
    <3>1. Only({i})[id] = 0
      BY <1>1, <1>4, OnlyIs
    <3> QED BY <1>1, <3>1 DEF Worth
  <2>2. /\ Weigh(Only({i}), r) = Weigh(Only({i}), R) + Worth(Only({i}), id, n)
        /\ Weigh(Only({i}), R) \in Nat
    <3> DEFINE c == Only({i})
    <3>1. c \in [Items -> Nat]
      BY OnlyIs
    <3> HIDE DEF c
    <3>2. Weigh(c, r) = Weigh(c, R) + Worth(c, id, n) /\ Weigh(c, R) \in Nat
      BY <1>1, <1>4, <3>1, TakeWeighs DEF R
    <3> QED BY <3>2 DEF c
  <2> QED BY <1>3, <2>1, <2>2
<1>7. /\ Len(O) = Len(o) /\ Len(o) \in Nat /\ Len(r) \in Nat
      /\ \A j \in 1..Len(r) : O[j] = L[j]
      /\ \A j \in 1..Len(o) : j > Len(r) => O[j] = o[j]
  <2>1. O = L \o SubSeq(o, Len(L) + 1, Len(o)) /\ Len(o) >= Len(L)
    BY <1>3, <1>5
  <2> HIDE DEF O
  <2>2. /\ Len(O) = Len(o) /\ Len(o) \in Nat /\ Len(L) \in Nat
        /\ \A j \in 1..Len(L) : O[j] = L[j]
        /\ \A j \in 1..Len(o) : j > Len(L) => O[j] = o[j]
    <3>1. L \in Seq(Pile(Items)) /\ o \in Seq(Pile(Items))
      BY <1>1, <1>5
    <3>2. \A d : d = L \o SubSeq(o, Len(L) + 1, Len(o)) =>
            /\ Len(d) = Len(o) /\ Len(o) \in Nat /\ Len(L) \in Nat
            /\ \A j \in 1..Len(L) : d[j] = L[j]
            /\ \A j \in 1..Len(o) : j > Len(L) => d[j] = o[j]
      BY <2>1, <3>1, Overlaid
    <3> QED BY <2>1, <3>2
  <2> QED BY <1>5, <2>2
<1> HIDE DEF O, h2
<1> DEFINE Kept == /\ Len(O) >= Len(R)
                   /\ \A j \in 1..Len(R) : O[j] = R[j]
                   /\ \A j \in 1..Len(O) : j > Len(R) => O[j].id # i
                   /\ \A j \in 1..Len(R) : R[j].id = i => \E g \in 1..Len(R) : g > j /\ R[g].id \notin M
<1>8. ASSUME Shrinks(r, k, n, R), L = R
      PROVE  Kept
  <2>1. Len(R) = Len(r) /\ \A j \in 1..Len(r) : R[j].id = r[j].id
    <3>1. PICK m \in Nat : R = Altered(r, k, m)
      BY <1>8 DEF Shrinks
    <3>2. /\ Len(R) = Len(r) /\ R[k] = [id |-> r[k].id, n |-> m]
          /\ \A j \in 1..Len(r) : j # k => R[j] = r[j]
      BY <1>1, <3>1, AlteredIs
    <3> QED BY <3>2
  <2>2. \A j \in 1..Len(O) : j > Len(R) => O[j].id # i
    BY <1>3, <1>7, <2>1
  <2>3. \A j \in 1..Len(R) : R[j].id = i => \E g \in 1..Len(R) : g > j /\ R[g].id \notin M
    BY <1>3, <2>1
  <2> QED BY <1>3, <1>7, <1>8, <2>1, <2>2, <2>3
<1>9. ASSUME Closed(r, k, R), \A j \in 1..Len(R) : L[j] = R[j],
             L[Len(r)] = IF k = Len(r) THEN [id |-> id, n |-> 0] ELSE r[Len(r)]
      PROVE  Kept
  <2>1. /\ Len(R) \in Nat /\ Len(R) = Len(r) - 1
        /\ \A j \in 1..Len(R) : Shift(k, j) \in 1..Len(r) /\ R[j] = r[Shift(k, j)]
        /\ \A j \in 1..Len(r) : j # k => \E g \in 1..Len(R) : Shift(k, g) = j
    <3>1. R \in Seq(Pile(Items)) /\ Closed(r, k, R)
      BY <1>5, <1>9
    <3> QED BY <1>1, <3>1, ShiftIs
  <2>2. L[Len(r)].id # i
    <3>1. CASE k = Len(r)
      BY <1>4, <1>9, <3>1
    <3>2. CASE k # Len(r)
      <4>1. Len(r) \in 1..Len(r) /\ ~ \E g \in 1..Len(r) : g > Len(r)
        BY <1>7, <2>1
      <4>2. r[Len(r)].id # i
        BY <1>3, <4>1
      <4> QED BY <1>9, <3>2, <4>2
    <3> QED BY <3>1, <3>2
  <2>3. ASSUME NEW j \in 1..Len(O), j > Len(R) PROVE O[j].id # i
    <3>1. (j > Len(r) /\ j \in 1..Len(o)) \/ (j = Len(r) /\ j \in 1..Len(r))
      BY <1>7, <2>1, <2>3
    <3> QED BY <1>3, <1>7, <2>2, <3>1
  <2>4. ASSUME NEW j \in 1..Len(R), R[j].id = i
        PROVE  \E g \in 1..Len(R) : g > j /\ R[g].id \notin M
    <3>1. PICK s \in 1..Len(r) : s > Shift(k, j) /\ r[s].id \notin M
      BY <1>3, <2>1, <2>4
    <3>2. s # k
      BY <1>4, <1>5, <3>1
    <3>3. PICK g \in 1..Len(R) : Shift(k, g) = s
      BY <2>1, <3>2
    <3>4. g > j
      <4>1. g \in Nat /\ j \in Nat
        BY <2>1
      <4>2. CASE g <= j
        <5>1. Shift(k, g) <= Shift(k, j)
          <6>1. k \in Nat
            BY <1>7
          <6> QED BY <4>1, <4>2, <6>1 DEF Shift
        <5>2. s \in Nat /\ Shift(k, j) \in Nat
          BY <1>7, <2>1
        <5> QED BY <3>1, <3>3, <5>1, <5>2
      <4> QED BY <4>1, <4>2
    <3> QED BY <2>1, <3>1, <3>3, <3>4
  <2>5. Len(O) >= Len(R) /\ \A j \in 1..Len(R) : j \in 1..Len(r)
    BY <1>3, <1>7, <2>1
  <2> QED BY <1>7, <1>9, <2>3, <2>4, <2>5
<1>10. Kept
  BY <1>5, <1>8, <1>9
<1>11. Spared(h2, b, i, M)
  BY <1>2, <1>6, <1>10 DEF Spared
<1> QED BY <1>11 DEF h2

LEMMA SparedNext ==
  ASSUME NEW h \in Haul, NEW b, NEW in \in Pile(Items), NEW M, in.id \in M, NEW i, i \notin M,
         Spared(h, b, i, M)
  PROVE  Spared(TakeNext(h, in), b, i, M)
<1>1. CASE h.ok /\ CanTake(h.rest, in.id, in.n)
  BY <1>1, SparedTaken
<1>2. CASE ~(h.ok /\ CanTake(h.rest, in.id, in.n))
  <2>1. TakeNext(h, in) = [h EXCEPT !.ok = FALSE]
    BY <1>2 DEF TakeNext
  <2>2. TakeNext(h, in).rest = h.rest /\ TakeNext(h, in).old = h.old
    BY <2>1 DEF Haul
  <2> QED BY <2>2 DEF Spared
<1> QED BY <1>1, <1>2

\* A craft that runs short spares every item that is neither a material nor the last but
\* for materials.
LEMMA HaulSpares ==
  ASSUME NEW b \in Seq(Pile(Items)), NEW ins \in Seq(Pile(Items)),
         NEW M, \A k \in 1..Len(ins) : ins[k].id \in M, NEW i, i \notin M \cup LastBut(b, M)
  PROVE  Weigh(Only({i}), TakeAll(b, ins).old) = Weigh(Only({i}), b)
<1>1. PICK t : TakenInTurn(t, b, ins)
  BY TakeAllInTurn
<1> DEFINE N == Len(ins)
           Bad == {k \in 0..N : ~Spared(t[k], b, i, M)}
<1>2. /\ t \in [0..N -> Haul] /\ t[0] = [ok |-> TRUE, rest |-> b, old |-> b]
      /\ \A k \in 1..N : t[k] = TakeNext(t[k - 1], ins[k])
      /\ TakeAll(b, ins) = t[N] /\ N \in Nat
  BY <1>1 DEF TakenInTurn
<1>12. \A k \in 1..N : ins[k] \in Pile(Items) /\ ins[k].id \in M
  OBVIOUS
<1>3. Spared(t[0], b, i, M)
  <2>1. t[0].rest = b /\ t[0].old = b /\ Len(b) \in Nat /\ DOMAIN b = 1..Len(b)
    BY <1>2
  <2>2. ASSUME NEW j \in 1..Len(b), b[j].id = i
        PROVE  \E g \in 1..Len(b) : g > j /\ b[g].id \notin M
    <3>1. ~ \A g \in (j + 1)..Len(b) : b[g].id \in M
      BY <2>1, <2>2 DEF LastBut
    <3>2. \A g \in (j + 1)..Len(b) : g \in 1..Len(b) /\ g > j
      BY <2>1
    <3> QED BY <3>1, <3>2
  <2> QED BY <2>1, <2>2 DEF Spared
<1> HIDE DEF N
<1>4. ASSUME NEW k \in 1..N, Spared(t[k - 1], b, i, M)
      PROVE  Spared(t[k], b, i, M)
  <2>1. k - 1 \in 0..N
    BY <1>2
  <2>2. t[k - 1] \in Haul /\ t[k] = TakeNext(t[k - 1], ins[k])
    BY <1>2, <2>1
  <2> QED BY <1>4, <1>12, <2>2, SparedNext
<1>5. Bad = {}
  <2> SUFFICES ASSUME Bad # {} PROVE FALSE
    OBVIOUS
  <2>1. PICK k \in Bad : \A j \in Bad : k <= j
    <3>1. Bad \subseteq Nat
      BY <1>2
    <3> QED BY <3>1, LeastNat
  <2>2. k # 0
    BY <1>3, <2>1
  <2>3. k \in 1..N /\ k - 1 \in 0..N /\ ~(k <= k - 1)
    BY <1>2, <2>1, <2>2
  <2> QED BY <1>4, <2>1, <2>3
<1> DEFINE h == TakeAll(b, ins)
           c == Only({i})
<1>6. Spared(h, b, i, M) /\ h \in Haul
  <2>1. N \in 0..N
    BY <1>2
  <2> QED BY <1>2, <1>5, <2>1
<1> HIDE DEF h
<1>7. h.old \in Seq(Pile(Items)) /\ h.rest \in Seq(Pile(Items))
  BY <1>6 DEF Haul
<1>8. /\ Weigh(c, h.rest) = Weigh(c, b) /\ Len(h.rest) <= Len(h.old)
      /\ \A j \in 1..Len(h.rest) : h.old[j] = h.rest[j]
      /\ \A j \in 1..Len(h.old) : j > Len(h.rest) => h.old[j].id # i
  BY <1>6, <1>7 DEF Spared
<1>9. c \in [Items -> Nat] /\ \A x \in Items : x # i => c[x] = 0
  BY OnlyIs
<1>10. \A j \in 1..Len(h.old) : j > Len(h.rest) => c[h.old[j].id] = 0
  BY <1>7, <1>8, <1>9, PileParts
<1> HIDE DEF c
<1>11. Weigh(c, h.old) = Weigh(c, h.rest)
  BY <1>7, <1>8, <1>9, <1>10, WeighBeyond
<1> QED BY <1>8, <1>11 DEF c, h

-----------------------------------------------------------------------------
(* What is carried and what is worn, for any count of a unit of each item.  *)

Wear == [Slots -> Items \cup {NoItem}]

\* What a slot comes to, and all the slots of one player.
Piece(c, x) == IF x = NoItem THEN 0 ELSE c[x]
Pieces(c, w) == [s \in Slots |-> Piece(c, w[s])]
Dressed(c, w) == SumFunctionOnSet(Pieces(c, w), Slots)

LEMMA SlotsFinite == IsFiniteSet(Slots)
<1>1. IsFiniteSet(Items)
  BY WorldAssumption
<1> DEFINE T == {SlotOf[i] : i \in Items}
<1>2. IsFiniteSet(T)
  <2>1. [i \in Items |-> SlotOf[i]] \in Surjection(Items, T)
    BY DEF Surjection
  <2> QED BY <1>1, <2>1, FS_Surjection
<1> QED BY <1>2, FS_Difference DEF Slots

LEMMA PieceNat ==
  ASSUME NEW c \in [Items -> Nat], NEW x \in Items \cup {NoItem}
  PROVE  Piece(c, x) \in Nat /\ Piece(c, NoItem) = 0 /\ (x \in Items => Piece(c, x) = c[x])
BY WorldAssumption DEF Piece

LEMMA DressedNat ==
  ASSUME NEW c \in [Items -> Nat], NEW w \in Wear
  PROVE  /\ Dressed(c, w) \in Nat
         /\ \A s \in Slots : Pieces(c, w)[s] = Piece(c, w[s]) /\ Pieces(c, w)[s] \in Nat
<1>1. \A s \in Slots : Pieces(c, w)[s] = Piece(c, w[s]) /\ Pieces(c, w)[s] \in Nat
  BY PieceNat DEF Wear, Pieces
<1>2. Dressed(c, w) \in Nat
  BY <1>1, SlotsFinite, SumNat DEF Dressed
<1> QED BY <1>1, <1>2

\* One slot changed.
Dons(u, w, s, x) == u = [w EXCEPT ![s] = x]

LEMMA Redressed ==
  ASSUME NEW c \in [Items -> Nat], NEW w \in Wear, NEW s \in Slots, NEW x \in Items \cup {NoItem},
         NEW u, Dons(u, w, s, x)
  PROVE  /\ u \in Wear
         /\ Dressed(c, u) + Piece(c, w[s]) = Dressed(c, w) + Piece(c, x)
         /\ Dressed(c, u) \in Nat /\ Dressed(c, w) \in Nat
         /\ Piece(c, w[s]) \in Nat /\ Piece(c, x) \in Nat
<1>1. u \in Wear /\ u[s] = x /\ \A y \in Slots : y # s => u[y] = w[y]
  BY DEF Wear, Dons
<1> DEFINE v == Pieces(c, w)
           z == Pieces(c, u)
<1>2. /\ \A y \in Slots : v[y] = Piece(c, w[y]) /\ v[y] \in Nat
      /\ \A y \in Slots : z[y] = Piece(c, u[y]) /\ z[y] \in Nat
  BY <1>1, DressedNat
<1>3. Dressed(c, w) = SumFunctionOnSet(v, Slots) /\ Dressed(c, u) = SumFunctionOnSet(z, Slots)
  BY DEF Dressed
<1> HIDE DEF v, z
<1>4. z[s] = Piece(c, x) /\ v[s] = Piece(c, w[s]) /\ z[s] \in Nat /\ v[s] \in Nat
  BY <1>1, <1>2
<1>5. \A y \in Slots : y # s => z[y] = v[y]
  BY <1>1, <1>2
<1>6. /\ SumFunctionOnSet(z, Slots) + v[s] = SumFunctionOnSet(v, Slots) + z[s]
      /\ SumFunctionOnSet(z, Slots) \in Nat /\ SumFunctionOnSet(v, Slots) \in Nat
  BY <1>2, <1>4, <1>5, SlotsFinite, SumChanged
<1> QED BY <1>1, <1>3, <1>4, <1>6

\* The goods of the world are where they can be.
Goods ==
  /\ room \in [Players -> Rooms \cup {Away}]
  /\ bag \in [Players -> Seq(Pile(Items))]
  /\ worn \in [Players -> Wear]
  /\ told \in [Players -> SUBSET Topics]
  /\ ground \in [Rooms -> Seq(Pile(Items))]
  /\ ticks \in 0..(Period - 1)

LEMMA CarriedIs ==
  ASSUME bag \in [Players -> Seq(Pile(Items))], worn \in [Players -> Wear],
         NEW c \in [Items -> Nat], NEW p \in Players
  PROVE  /\ Carried(c, p) = Weigh(c, bag[p]) + Dressed(c, worn[p])
         /\ Weigh(c, bag[p]) \in Nat /\ Dressed(c, worn[p]) \in Nat /\ Carried(c, p) \in Nat
<1>1. [s \in Slots |-> IF worn[p][s] = NoItem THEN 0 ELSE c[worn[p][s]]] = Pieces(c, worn[p])
  BY DEF Pieces, Piece
<1>2. DOMAIN Pieces(c, worn[p]) = Slots
  BY DEF Pieces
<1>3. Carried(c, p) = Weigh(c, bag[p]) + Dressed(c, worn[p])
  BY <1>1, <1>2 DEF Carried, SumFunction, Dressed
<1>4. bag[p] \in Seq(Pile(Items)) /\ worn[p] \in Wear
  OBVIOUS
<1>5. Weigh(c, bag[p]) \in Nat /\ Dressed(c, worn[p]) \in Nat
  BY <1>4, WeighNat, DressedNat
<1> QED BY <1>3, <1>5

\* In the next state the same.
LEMMA CarriedNext ==
  ASSUME (bag \in [Players -> Seq(Pile(Items))])', (worn \in [Players -> Wear])',
         NEW c \in [Items -> Nat], NEW p \in Players
  PROVE  /\ Carried(c, p)' = Weigh(c, bag'[p]) + Dressed(c, worn'[p])
         /\ Weigh(c, bag'[p]) \in Nat /\ Dressed(c, worn'[p]) \in Nat /\ Carried(c, p)' \in Nat
<1>1. [s \in Slots |-> IF worn'[p][s] = NoItem THEN 0 ELSE c[worn'[p][s]]] = Pieces(c, worn'[p])
  BY DEF Pieces, Piece
<1>2. DOMAIN Pieces(c, worn'[p]) = Slots
  BY DEF Pieces
<1>3. Carried(c, p)' = Weigh(c, bag'[p]) + Dressed(c, worn'[p])
  BY <1>1, <1>2 DEF Carried, SumFunction, Dressed, Slots
<1>4. bag'[p] \in Seq(Pile(Items)) /\ worn'[p] \in Wear
  BY DEF Wear, Slots
<1>5. Weigh(c, bag'[p]) \in Nat /\ Dressed(c, worn'[p]) \in Nat
  BY <1>4, WeighNat, DressedNat
<1> QED BY <1>3, <1>5

-----------------------------------------------------------------------------
(* What a step does to the load of a player and to the ground. *)

\* The others keep what they have; p's load changes from a to z for the count c.
Apart(p) == \A q \in Players : q # p => bag'[q] = bag[q] /\ worn'[q] = worn[q]
Loads(p, c, a, z) == Carried(c, p)' + a = Carried(c, p) + z

Gnd(c) == SumFunction([r \in Rooms |-> Weigh(c, ground[r])])
Lies(c, a, z) == Gnd(c)' + a = Gnd(c) + z

\* A player's bag is x and his slots are u afterwards.
Becomes(p, x, u) == bag' = [bag EXCEPT ![p] = x] /\ worn' = [worn EXCEPT ![p] = u]

LEMMA Loaded ==
  ASSUME Goods, NEW p \in Players, NEW x \in Seq(Pile(Items)), NEW u \in Wear,
         Becomes(p, x, u)
  PROVE  /\ bag' \in [Players -> Seq(Pile(Items))] /\ (worn \in [Players -> Wear])'
         /\ Apart(p) /\ bag'[p] = x
         /\ \A c \in [Items -> Nat] :
              /\ Carried(c, p)' = Weigh(c, x) + Dressed(c, u)
              /\ Carried(c, p) = Weigh(c, bag[p]) + Dressed(c, worn[p])
              /\ Weigh(c, x) \in Nat /\ Dressed(c, u) \in Nat
              /\ Weigh(c, bag[p]) \in Nat /\ Dressed(c, worn[p]) \in Nat
<1>1. bag' \in [Players -> Seq(Pile(Items))]
  BY DEF Goods, Becomes
<1>2. worn' \in [Players -> Wear]
  BY DEF Goods, Becomes
<1>3. (worn \in [Players -> Wear])'
  BY <1>2 DEF Wear, Slots
<1>4. Apart(p) /\ bag'[p] = x /\ worn'[p] = u
  BY DEF Apart, Goods, Becomes
<1>5. ASSUME NEW c \in [Items -> Nat]
      PROVE  /\ Carried(c, p)' = Weigh(c, x) + Dressed(c, u)
             /\ Weigh(c, x) \in Nat /\ Dressed(c, u) \in Nat
  BY <1>1, <1>3, <1>4, CarriedNext
<1>6. ASSUME NEW c \in [Items -> Nat]
      PROVE  /\ Carried(c, p) = Weigh(c, bag[p]) + Dressed(c, worn[p])
             /\ Weigh(c, bag[p]) \in Nat /\ Dressed(c, worn[p]) \in Nat
  BY CarriedIs DEF Goods
<1> QED BY <1>1, <1>3, <1>4, <1>5, <1>6

\* Only the bag.
LEMMA Bagged ==
  ASSUME Goods, NEW p \in Players, NEW x \in Seq(Pile(Items)),
         bag' = [bag EXCEPT ![p] = x], worn' = worn
  PROVE  /\ bag' \in [Players -> Seq(Pile(Items))] /\ (worn \in [Players -> Wear])'
         /\ Apart(p) /\ bag'[p] = x
         /\ \A c \in [Items -> Nat] :
              /\ Loads(p, c, Weigh(c, bag[p]), Weigh(c, x)) /\ Carried(c, p) \in Nat
              /\ Carried(c, p)' \in Nat
<1>1. worn[p] \in Wear /\ worn' = [worn EXCEPT ![p] = worn[p]]
  BY DEF Goods
<1> DEFINE u == worn[p]
<1> HIDE DEF u
<1>2. u \in Wear /\ Becomes(p, x, u)
  BY <1>1 DEF u, Becomes
<1>3. /\ bag' \in [Players -> Seq(Pile(Items))] /\ (worn \in [Players -> Wear])'
      /\ Apart(p) /\ bag'[p] = x
      /\ \A c \in [Items -> Nat] :
              /\ Carried(c, p)' = Weigh(c, x) + Dressed(c, u)
              /\ Carried(c, p) = Weigh(c, bag[p]) + Dressed(c, worn[p])
              /\ Weigh(c, x) \in Nat /\ Dressed(c, u) \in Nat
              /\ Weigh(c, bag[p]) \in Nat /\ Dressed(c, worn[p]) \in Nat
  BY <1>2, Loaded
<1>4. ASSUME NEW c \in [Items -> Nat]
      PROVE  /\ Loads(p, c, Weigh(c, bag[p]), Weigh(c, x)) /\ Carried(c, p) \in Nat
             /\ Carried(c, p)' \in Nat
  <2>1. /\ Carried(c, p)' = Weigh(c, x) + Dressed(c, u)
        /\ Carried(c, p) = Weigh(c, bag[p]) + Dressed(c, u)
        /\ Weigh(c, x) \in Nat /\ Dressed(c, u) \in Nat
        /\ Weigh(c, bag[p]) \in Nat
    BY <1>3 DEF u
  <2> QED BY <2>1 DEF Loads
<1> QED BY <1>3, <1>4

LEMMA GroundIs ==
  ASSUME NEW g \in [Rooms -> Seq(Pile(Items))], NEW c \in [Items -> Nat], NEW f,
         f = [r \in Rooms |-> Weigh(c, g[r])]
  PROVE  /\ SumFunction(f) = SumFunctionOnSet(f, Rooms) /\ SumFunction(f) \in Nat
         /\ \A r \in Rooms : f[r] = Weigh(c, g[r]) /\ f[r] \in Nat
<1>1. \A r \in Rooms : f[r] = Weigh(c, g[r]) /\ f[r] \in Nat
  BY WeighNat
<1>2. SumFunction(f) = SumFunctionOnSet(f, Rooms)
  BY DEF SumFunction
<1>3. SumFunctionOnSet(f, Rooms) \in Nat
  BY <1>1, SumNat, WorldAssumption
<1> QED BY <1>1, <1>2, <1>3

\* The ground of one room is x afterwards.
LEMMA Laid ==
  ASSUME Goods, NEW r \in Rooms, NEW x \in Seq(Pile(Items)), ground' = [ground EXCEPT ![r] = x]
  PROVE  /\ ground' \in [Rooms -> Seq(Pile(Items))]
         /\ \A c \in [Items -> Nat] :
              /\ Lies(c, Weigh(c, ground[r]), Weigh(c, x)) /\ Gnd(c) \in Nat /\ Gnd(c)' \in Nat
              /\ Weigh(c, ground[r]) \in Nat
<1>1. /\ ground' \in [Rooms -> Seq(Pile(Items))] /\ ground'[r] = x
      /\ ground \in [Rooms -> Seq(Pile(Items))] /\ \A y \in Rooms : y # r => ground'[y] = ground[y]
  BY DEF Goods
<1>2. ASSUME NEW c \in [Items -> Nat]
      PROVE  /\ Lies(c, Weigh(c, ground[r]), Weigh(c, x)) /\ Gnd(c) \in Nat /\ Gnd(c)' \in Nat
             /\ Weigh(c, ground[r]) \in Nat
  <2> DEFINE f == [y \in Rooms |-> Weigh(c, ground[y])]
             h == [y \in Rooms |-> Weigh(c, ground'[y])]
  <2>1. /\ SumFunction(f) = SumFunctionOnSet(f, Rooms) /\ SumFunction(f) \in Nat
        /\ \A y \in Rooms : f[y] = Weigh(c, ground[y]) /\ f[y] \in Nat
    BY <1>1, GroundIs
  <2>2. /\ SumFunction(h) = SumFunctionOnSet(h, Rooms) /\ SumFunction(h) \in Nat
        /\ \A y \in Rooms : h[y] = Weigh(c, ground'[y]) /\ h[y] \in Nat
    BY <1>1, GroundIs
  <2>3. Gnd(c) = SumFunction(f) /\ Gnd(c)' = SumFunction(h)
    BY DEF Gnd
  <2> HIDE DEF f, h
  <2>4. f[r] = Weigh(c, ground[r]) /\ h[r] = Weigh(c, x) /\ f[r] \in Nat /\ h[r] \in Nat
    BY <1>1, <2>1, <2>2
  <2>5. \A y \in Rooms : y # r => h[y] = f[y]
    BY <1>1, <2>1, <2>2
  <2>6. SumFunctionOnSet(h, Rooms) + f[r] = SumFunctionOnSet(f, Rooms) + h[r]
    <3>1. IsFiniteSet(Rooms) /\ \A y \in Rooms : f[y] \in Nat
      BY <2>1, WorldAssumption
    <3> QED BY <2>4, <2>5, <3>1, SumChanged
  <2> QED BY <2>1, <2>2, <2>3, <2>4, <2>6 DEF Lies
<1> QED BY <1>1, <1>2

-----------------------------------------------------------------------------
(* The commands, one by one. *)

\* d is b with n units of item id more.
More(d, b, id, n) ==
  \A c \in [Items -> Nat] :
    /\ Weigh(c, d) = Weigh(c, b) + Worth(c, id, n)
    /\ Weigh(c, b) \in Nat /\ Weigh(c, d) \in Nat /\ Worth(c, id, n) \in Nat

LEMMA TakeUnits ==
  ASSUME NEW b \in Seq(Pile(Items)), NEW id, NEW n \in Nat, CanTake(b, id, n)
  PROVE  /\ id \in Items /\ TakeStack(b, id, n) \in Seq(Pile(Items)) 
         /\ Tidy(b) => Tidy(TakeStack(b, id, n))
         /\ More(b, TakeStack(b, id, n), id, n)
<1>1. id \in Items /\ TakeStack(b, id, n) \in Seq(Pile(Items))
  <2>1. [i \in Items |-> 0] \in [Items -> Nat]
    OBVIOUS
  <2> QED BY <2>1, TakeWeighs
<1>2. Tidy(b) => Tidy(TakeStack(b, id, n))
  BY TakeKeepsTidy
<1>3. ASSUME NEW c \in [Items -> Nat]
      PROVE  /\ Weigh(c, b) = Weigh(c, TakeStack(b, id, n)) + Worth(c, id, n)
             /\ Weigh(c, b) \in Nat /\ Weigh(c, TakeStack(b, id, n)) \in Nat /\ Worth(c, id, n) \in Nat
  <2>1. /\ Weigh(c, b) = Weigh(c, TakeStack(b, id, n)) + Worth(c, id, n)
        /\ Weigh(c, TakeStack(b, id, n)) \in Nat /\ Weigh(c, b) \in Nat
    BY TakeWeighs
  <2>2. Worth(c, id, n) \in Nat
    BY <1>1, WorthNat
  <2> QED BY <2>1, <2>2
<1> QED BY <1>1, <1>2, <1>3 DEF More

LEMMA AddUnits ==
  ASSUME NEW b \in Seq(Pile(Items)), NEW id \in Items, NEW n \in Nat
  PROVE  /\ AddStack(b, id, n) \in Seq(Pile(Items)) 
         /\ Tidy(b) => Tidy(AddStack(b, id, n))
         /\ More(AddStack(b, id, n), b, id, n)
<1>1. AddStack(b, id, n) \in Seq(Pile(Items))
  <2>1. [i \in Items |-> 0] \in [Items -> Nat]
    OBVIOUS
  <2> QED BY <2>1, AddWeighs
<1>2. Tidy(b) => Tidy(AddStack(b, id, n))
  BY AddKeepsTidy
<1>3. ASSUME NEW c \in [Items -> Nat]
      PROVE  /\ Weigh(c, AddStack(b, id, n)) = Weigh(c, b) + Worth(c, id, n)
             /\ Weigh(c, b) \in Nat /\ Weigh(c, AddStack(b, id, n)) \in Nat /\ Worth(c, id, n) \in Nat
  <2>1. /\ Weigh(c, AddStack(b, id, n)) = Weigh(c, b) + Worth(c, id, n)
        /\ Weigh(c, b) \in Nat
    BY AddWeighs
  <2>2. Worth(c, id, n) \in Nat
    BY WorthNat
  <2> QED BY <2>1, <2>2
<1> QED BY <1>1, <1>2, <1>3 DEF More

\* What every command of p but a craft that runs short leaves: typed goods, the others' as
\* they were, a tidy bag tidy.
Orderly(p) == Goods' /\ Apart(p) /\ (Tidy(bag[p]) => Tidy(bag'[p]))

\* p is in a room.
LEMMA InRoom ==
  ASSUME Goods, NEW p \in Players, Here(p)
  PROVE  /\ room[p] \in Rooms /\ ground[room[p]] \in Seq(Pile(Items))
         /\ bag[p] \in Seq(Pile(Items)) /\ worn[p] \in Wear
BY DEF Goods, Here

\* Only the bag of p may have changed.
LEMMA BagOnly ==
  ASSUME Goods, NEW p \in Players, NEW x \in Seq(Pile(Items)), Tidy(bag[p]) => Tidy(x),
         bag' = Put(bag, p, x), worn' = worn, told' = told, ticks' = ticks, ground' = ground,
         room' \in [Players -> Rooms \cup {Away}]
  PROVE  /\ Orderly(p)
         /\ \A c \in [Items -> Nat] :
              /\ Loads(p, c, Weigh(c, bag[p]), Weigh(c, x))
              /\ Carried(c, p) \in Nat /\ Carried(c, p)' \in Nat
<1>1. bag' = [bag EXCEPT ![p] = x]
  BY DEF Put
<1>2. /\ bag' \in [Players -> Seq(Pile(Items))] /\ (worn \in [Players -> Wear])'
      /\ Apart(p) /\ bag'[p] = x
      /\ \A c \in [Items -> Nat] :
              /\ Loads(p, c, Weigh(c, bag[p]), Weigh(c, x)) /\ Carried(c, p) \in Nat
              /\ Carried(c, p)' \in Nat
  BY <1>1, Bagged
<1>3. Goods'
  BY <1>2 DEF Goods
<1> QED BY <1>2, <1>3 DEF Orderly

LEMMA GetMoves ==
  ASSUME Goods, NEW p \in Players, NEW i \in Items, Get(p, i)
  PROVE  /\ Orderly(p)
         /\ \A c \in [Items -> Nat] : /\ Loads(p, c, 0, c[i]) /\ Lies(c, c[i], 0)
                                      /\ Carried(c, p) \in Nat /\ Carried(c, p)' \in Nat
                                      /\ Gnd(c) \in Nat /\ Gnd(c)' \in Nat
<1> DEFINE r == room[p]
           g == ground[r]
           o == bag[p]
           d == TakeStack(g, i, 1)
           x == AddStack(o, i, 1)
<1>1. Here(p) /\ CanTake(g, i, 1) /\ ground' = Put(ground, r, d) /\ bag' = Put(bag, p, x)
      /\ UNCHANGED <<room, worn, told, ticks>>
  <2>1. UNCHANGED <<room, worn, told, ticks>>
    BY DEF Get
  <2> QED BY <2>1 DEF Get
<1>2. r \in Rooms /\ g \in Seq(Pile(Items)) /\ o \in Seq(Pile(Items))
  BY <1>1, InRoom
<1> HIDE DEF r, g, o
<1>3. /\ d \in Seq(Pile(Items)) /\ More(g, d, i, 1)
  BY <1>1, <1>2, TakeUnits
<1>4. /\ x \in Seq(Pile(Items)) /\ (Tidy(o) => Tidy(x)) /\ More(x, o, i, 1)
  BY <1>2, AddUnits
<1> HIDE DEF d, x
<1>5. bag' = [bag EXCEPT ![p] = x] /\ ground' = [ground EXCEPT ![r] = d]
  BY <1>1 DEF Put
<1>6. /\ bag' \in [Players -> Seq(Pile(Items))] /\ (worn \in [Players -> Wear])'
      /\ Apart(p) /\ bag'[p] = x
      /\ \A c \in [Items -> Nat] :
              /\ Loads(p, c, Weigh(c, o), Weigh(c, x)) /\ Carried(c, p) \in Nat
              /\ Carried(c, p)' \in Nat
  BY <1>1, <1>4, <1>5, Bagged DEF o
<1>7. /\ ground' \in [Rooms -> Seq(Pile(Items))]
      /\ \A c \in [Items -> Nat] :
              /\ Lies(c, Weigh(c, ground[r]), Weigh(c, d)) /\ Gnd(c) \in Nat /\ Gnd(c)' \in Nat
  BY <1>2, <1>3, <1>5, Laid DEF g
<1>8. Orderly(p)
  BY <1>1, <1>4, <1>6, <1>7 DEF Orderly, Goods, o
<1>9. ASSUME NEW c \in [Items -> Nat]
      PROVE  Loads(p, c, 0, c[i]) /\ Lies(c, c[i], 0)
  <2>1. Worth(c, i, 1) = c[i] /\ c[i] \in Nat
    BY WorthNat
  <2>2. /\ Loads(p, c, Weigh(c, o), Weigh(c, x)) /\ Lies(c, Weigh(c, g), Weigh(c, d))
        /\ {Carried(c, p), Carried(c, p)', Gnd(c), Gnd(c)'} \subseteq Nat
        /\ Weigh(c, x) = Weigh(c, o) + c[i] /\ Weigh(c, g) = Weigh(c, d) + c[i]
        /\ {Weigh(c, x), Weigh(c, o), Weigh(c, g), Weigh(c, d)} \subseteq Nat
    BY <1>3, <1>4, <1>6, <1>7, <2>1 DEF More, g
  <2> QED BY <2>1, <2>2 DEF Loads, Lies
<1> QED BY <1>6, <1>7, <1>8, <1>9

LEMMA DropMoves ==
  ASSUME Goods, NEW p \in Players, NEW i \in Items, DropItem(p, i)
  PROVE  /\ Orderly(p)
         /\ \A c \in [Items -> Nat] : /\ Loads(p, c, c[i], 0) /\ Lies(c, 0, c[i])
                                      /\ Carried(c, p) \in Nat /\ Carried(c, p)' \in Nat
                                      /\ Gnd(c) \in Nat /\ Gnd(c)' \in Nat
<1> DEFINE r == room[p]
           g == ground[r]
           o == bag[p]
           d == AddStack(g, i, 1)
           x == TakeStack(o, i, 1)
<1>1. Here(p) /\ CanTake(o, i, 1) /\ ground' = Put(ground, r, d) /\ bag' = Put(bag, p, x)
      /\ UNCHANGED <<room, worn, told, ticks>>
  <2>1. UNCHANGED <<room, worn, told, ticks>>
    BY DEF DropItem
  <2>2. Here(p) /\ CanTake(o, i, 1) /\ bag' = Put(bag, p, x)
    BY DEF DropItem
  <2>3. ground' = Put(ground, r, d)
    BY DEF DropItem
  <2> QED BY <2>1, <2>2, <2>3
<1>2. r \in Rooms /\ g \in Seq(Pile(Items)) /\ o \in Seq(Pile(Items))
  BY <1>1, InRoom
<1> HIDE DEF r, g, o
<1>3. /\ d \in Seq(Pile(Items)) /\ More(d, g, i, 1)
  BY <1>2, AddUnits
<1>4. /\ x \in Seq(Pile(Items)) /\ (Tidy(o) => Tidy(x)) /\ More(o, x, i, 1)
  BY <1>1, <1>2, TakeUnits
<1> HIDE DEF d, x
<1>5. bag' = [bag EXCEPT ![p] = x] /\ ground' = [ground EXCEPT ![r] = d]
  BY <1>1 DEF Put
<1>6. /\ bag' \in [Players -> Seq(Pile(Items))] /\ (worn \in [Players -> Wear])'
      /\ Apart(p) /\ bag'[p] = x
      /\ \A c \in [Items -> Nat] :
              /\ Loads(p, c, Weigh(c, o), Weigh(c, x)) /\ Carried(c, p) \in Nat
              /\ Carried(c, p)' \in Nat
  BY <1>1, <1>4, <1>5, Bagged DEF o
<1>7. /\ ground' \in [Rooms -> Seq(Pile(Items))]
      /\ \A c \in [Items -> Nat] :
              /\ Lies(c, Weigh(c, ground[r]), Weigh(c, d)) /\ Gnd(c) \in Nat /\ Gnd(c)' \in Nat
  BY <1>2, <1>3, <1>5, Laid DEF g
<1>8. Orderly(p)
  BY <1>1, <1>4, <1>6, <1>7 DEF Orderly, Goods, o
<1>9. ASSUME NEW c \in [Items -> Nat]
      PROVE  Loads(p, c, c[i], 0) /\ Lies(c, 0, c[i])
  <2>1. Worth(c, i, 1) = c[i] /\ c[i] \in Nat
    BY WorthNat
  <2>2. /\ Loads(p, c, Weigh(c, o), Weigh(c, x)) /\ Lies(c, Weigh(c, g), Weigh(c, d))
        /\ {Carried(c, p), Carried(c, p)', Gnd(c), Gnd(c)'} \subseteq Nat
        /\ Weigh(c, o) = Weigh(c, x) + c[i] /\ Weigh(c, d) = Weigh(c, g) + c[i]
        /\ {Weigh(c, x), Weigh(c, o), Weigh(c, g), Weigh(c, d)} \subseteq Nat
    BY <1>3, <1>4, <1>6, <1>7, <2>1 DEF More, g
  <2> QED BY <2>1, <2>2 DEF Loads, Lies
<1> QED BY <1>6, <1>7, <1>8, <1>9

\* Unless a used-up pile had others behind it, the old array comes to what was left.
LEMMA LeftoverWeighs ==
  ASSUME NEW b \in Seq(Pile(Items)), NEW id, NEW n \in Nat, CanTake(b, id, n)
  PROVE  /\ Leftover(b, id, n) \in Seq(Pile(Items))
         /\ \/ More(b, Leftover(b, id, n), id, n)
            \/ LET k == First(Serving(b, id, n)) IN b[k].n = n /\ k < Len(b)
<1> DEFINE T == TakeStack(b, id, n)
           L == Leftover(b, id, n)
           f == First(Serving(b, id, n))
<1>1. PICK k \in 1..Len(b) :
           /\ k = f
           /\ T \in Seq(Pile(Items)) /\ L \in Seq(Pile(Items)) /\ Len(L) = Len(b)
           /\ \/ L = T
              \/ /\ b[k].n = n
                 /\ Closed(b, k, T)
                 /\ \A j \in 1..Len(T) : L[j] = T[j]
                 /\ L[Len(b)] = IF k = Len(b) THEN [id |-> id, n |-> 0] ELSE b[Len(b)]
  BY TakeShape
<1>2. More(b, T, id, n) /\ id \in Items
  BY TakeUnits
<1> HIDE DEF T, L, f
<1>3. CASE L = T
  BY <1>1, <1>2, <1>3 DEF L
<1>4. CASE b[k].n = n /\ k = Len(b) /\ Closed(b, k, T) /\ L[Len(b)] = [id |-> id, n |-> 0]
           /\ \A j \in 1..Len(T) : L[j] = T[j]
  <2>1. Len(b) \in Nat /\ Len(b) \in 1..Len(L) /\ Len(T) = Len(L) - 1 /\ Len(T) \in Nat
    BY <1>1, <1>4 DEF Closed
  <2>2. Closed(L, Len(b), T)
    BY <1>1, <1>4, <2>1 DEF Closed, Shift
  <2>3. L[Len(b)].id = id /\ L[Len(b)].n = 0
    BY <1>4
  <2>4. ASSUME NEW c \in [Items -> Nat]
        PROVE  Weigh(c, L) = Weigh(c, T) /\ Weigh(c, T) \in Nat
    <3>1. Weigh(c, L) = Weigh(c, T) + Worth(c, L[Len(b)].id, L[Len(b)].n) /\ Weigh(c, T) \in Nat
      BY <1>1, <2>1, <2>2, WeighClosed
    <3>2. Worth(c, id, 0) = 0
      BY <1>2, WorthNat
    <3> QED BY <2>3, <3>1, <3>2
  <2>5. More(b, L, id, n)
    BY <1>2, <2>4 DEF More
  <2> QED BY <1>1, <2>5 DEF L
<1>5. CASE b[k].n = n /\ k # Len(b)
  <2>1. k < Len(b)
    BY <1>5
  <2> QED BY <1>1, <1>5, <2>1 DEF f, L
<1> QED BY <1>1, <1>3, <1>4, <1>5

\* A unit too heavy to take leaves the goods as they are, unless it is there twice.
LEMMA GetHeavyMoves ==
  ASSUME Goods, NEW p \in Players, NEW i \in Items, GetHeavy(p, i)
  PROVE  /\ Goods' /\ bag' = bag /\ worn' = worn
         /\ PutBackTwice \/ \A c \in [Items -> Nat] : Lies(c, 0, 0) /\ Gnd(c) \in Nat /\ Gnd(c)' \in Nat
<1> DEFINE r == room[p]
           g == ground[r]
           l == Leftover(g, i, 1)
           d == AddStack(l, i, 1)
<1>1. Here(p) /\ CanTake(g, i, 1) /\ ground' = [ground EXCEPT ![r] = d]
      /\ UNCHANGED <<room, bag, worn, told, ticks>>
  BY DEF GetHeavy, bodyVars, Put
<1>2. r \in Rooms /\ g \in Seq(Pile(Items))
  BY <1>1, InRoom
<1>3. /\ l \in Seq(Pile(Items))
      /\ More(g, l, i, 1) \/ PutBackTwice
  <2>1. /\ l \in Seq(Pile(Items))
        /\ \/ More(g, l, i, 1)
           \/ LET k == First(Serving(g, i, 1)) IN g[k].n = 1 /\ k < Len(g)
    BY <1>1, <1>2, LeftoverWeighs
  <2> QED BY <2>1 DEF PutBackTwice
<1> HIDE DEF l
<1>4. d \in Seq(Pile(Items)) /\ More(d, l, i, 1)
  BY <1>3, AddUnits
<1> HIDE DEF d
<1>5. /\ ground' \in [Rooms -> Seq(Pile(Items))]
      /\ \A c \in [Items -> Nat] :
              /\ Lies(c, Weigh(c, g), Weigh(c, d)) /\ Gnd(c) \in Nat /\ Gnd(c)' \in Nat
  BY <1>1, <1>2, <1>4, Laid
<1>6. Goods'
  BY <1>1, <1>5 DEF Goods, Wear, Slots
<1>7. ASSUME More(g, l, i, 1), NEW c \in [Items -> Nat]
      PROVE  Lies(c, 0, 0) /\ Gnd(c) \in Nat /\ Gnd(c)' \in Nat
  <2>1. /\ Lies(c, Weigh(c, g), Weigh(c, d)) /\ Gnd(c) \in Nat /\ Gnd(c)' \in Nat
        /\ Weigh(c, g) = Weigh(c, d) /\ Weigh(c, g) \in Nat
    BY <1>4, <1>5, <1>7 DEF More
  <2> QED BY <2>1 DEF Lies
<1> QED BY <1>1, <1>3, <1>6, <1>7

LEMMA SlotIs ==
  ASSUME NEW i \in Items, SlotOf[i] # NoSlot
  PROVE  SlotOf[i] \in Slots
BY DEF Slots

\* Equipping moves a unit from the bag to a slot and what was there back.
LEMMA EquipMoves ==
  ASSUME Goods, NEW p \in Players, NEW i \in Items, Equip(p, i)
  PROVE  /\ Orderly(p) /\ ground' = ground
         /\ \A c \in [Items -> Nat] : /\ Loads(p, c, 0, 0)
                                      /\ Carried(c, p) \in Nat /\ Carried(c, p)' \in Nat
<1> DEFINE o == bag[p]
           w == worn[p]
           s == SlotOf[i]
           prev == w[s]
           rest == TakeStack(o, i, 1)
           x == IF prev = NoItem THEN rest ELSE AddStack(rest, prev, 1)
           u == [w EXCEPT ![s] = i]
<1>1. /\ Here(p) /\ s # NoSlot /\ CanTake(o, i, 1)
      /\ bag' = [bag EXCEPT ![p] = x] /\ worn' = [worn EXCEPT ![p] = u]
      /\ room' = room /\ told' = told /\ ground' = ground /\ ticks' = ticks
  <2>1. Here(p) /\ s # NoSlot /\ CanTake(o, i, 1) /\ bag' = [bag EXCEPT ![p] = x]
    BY DEF Equip, Put
  <2>2. worn' = [worn EXCEPT ![p] = u]
    BY DEF Equip
  <2>3. room' = room /\ told' = told /\ ground' = ground /\ ticks' = ticks
    BY DEF Equip, placeVars
  <2> QED BY <2>1, <2>2, <2>3
<1>2. o \in Seq(Pile(Items)) /\ w \in Wear /\ s \in Slots
  BY <1>1, InRoom, SlotIs
<1> HIDE DEF o, w, s
<1>3. prev \in Items \cup {NoItem}
  BY <1>2 DEF Wear
<1>4. rest \in Seq(Pile(Items)) /\ (Tidy(o) => Tidy(rest)) /\ More(o, rest, i, 1)
  BY <1>1, <1>2, TakeUnits
<1> HIDE DEF rest, prev
<1>5. /\ x \in Seq(Pile(Items)) /\ (Tidy(o) => Tidy(x))
      /\ prev = NoItem => x = rest
      /\ prev # NoItem => prev \in Items /\ More(x, rest, prev, 1)
  BY <1>3, <1>4, AddUnits
<1> HIDE DEF x, u
<1>6. /\ u \in Wear
      /\ \A c \in [Items -> Nat] :
           /\ Dressed(c, u) + Piece(c, prev) = Dressed(c, w) + Piece(c, i)
           /\ Dressed(c, u) \in Nat /\ Dressed(c, w) \in Nat
           /\ Piece(c, prev) \in Nat /\ Piece(c, i) \in Nat
  <2>1. Dons(u, w, s, i)
    BY DEF u, Dons
  <2>2. u \in Wear
    BY <1>2, <2>1 DEF Wear, Dons
  <2>3. ASSUME NEW c \in [Items -> Nat]
        PROVE  /\ Dressed(c, u) + Piece(c, w[s]) = Dressed(c, w) + Piece(c, i)
               /\ Dressed(c, u) \in Nat /\ Dressed(c, w) \in Nat
               /\ Piece(c, w[s]) \in Nat /\ Piece(c, i) \in Nat
    <3>1. i \in Items \cup {NoItem}
      OBVIOUS
    <3> QED BY <1>2, <2>1, <3>1, Redressed
  <2> QED BY <2>2, <2>3 DEF prev
<1>7. /\ bag' \in [Players -> Seq(Pile(Items))] /\ (worn \in [Players -> Wear])'
      /\ Apart(p) /\ bag'[p] = x
      /\ \A c \in [Items -> Nat] :
              /\ Carried(c, p)' = Weigh(c, x) + Dressed(c, u)
              /\ Carried(c, p) = Weigh(c, o) + Dressed(c, w)
              /\ Weigh(c, x) \in Nat /\ Weigh(c, o) \in Nat
  <2>1. x \in Seq(Pile(Items)) /\ u \in Wear /\ Becomes(p, x, u)
    BY <1>1, <1>5, <1>6 DEF Becomes
  <2>2. /\ bag' \in [Players -> Seq(Pile(Items))] /\ (worn \in [Players -> Wear])'
        /\ Apart(p) /\ bag'[p] = x
        /\ \A c \in [Items -> Nat] :
              /\ Carried(c, p)' = Weigh(c, x) + Dressed(c, u)
              /\ Carried(c, p) = Weigh(c, bag[p]) + Dressed(c, worn[p])
              /\ Weigh(c, x) \in Nat /\ Weigh(c, bag[p]) \in Nat
    BY <2>1, Loaded
  <2> QED BY <2>2 DEF o, w
<1>8. Orderly(p)
  BY <1>1, <1>5, <1>7 DEF Orderly, Goods, o
<1>9. ASSUME NEW c \in [Items -> Nat]
      PROVE  Loads(p, c, 0, 0) /\ Carried(c, p) \in Nat /\ Carried(c, p)' \in Nat
  <2>1. /\ Weigh(c, o) = Weigh(c, rest) + Worth(c, i, 1)
        /\ Weigh(c, rest) \in Nat /\ Worth(c, i, 1) = c[i] /\ c[i] \in Nat /\ Piece(c, i) = c[i]
    BY <1>4, WorthNat, PieceNat DEF More
  <2>2. Weigh(c, x) = Weigh(c, rest) + Piece(c, prev)
    <3>1. CASE prev = NoItem
      BY <1>5, <2>1, <3>1, PieceNat
    <3>2. CASE prev # NoItem
      <4>1. Piece(c, prev) = c[prev] /\ Worth(c, prev, 1) = c[prev] /\ prev \in Items
        BY <1>5, <3>2, WorthNat, PieceNat
      <4>2. Weigh(c, x) = Weigh(c, rest) + Worth(c, prev, 1)
        BY <1>5, <3>2 DEF More
      <4> QED BY <4>1, <4>2
    <3> QED BY <3>1, <3>2
  <2>3. /\ Carried(c, p)' = Weigh(c, x) + Dressed(c, u)
        /\ Carried(c, p) = Weigh(c, o) + Dressed(c, w)
        /\ Dressed(c, u) + Piece(c, prev) = Dressed(c, w) + Piece(c, i)
        /\ Dressed(c, u) \in Nat /\ Dressed(c, w) \in Nat
        /\ Piece(c, prev) \in Nat
    BY <1>6, <1>7
  <2> QED BY <2>1, <2>2, <2>3 DEF Loads
<1> QED BY <1>1, <1>8, <1>9

LEMMA UnequipMoves ==
  ASSUME Goods, NEW p \in Players, NEW s \in Slots, Unequip(p, s)
  PROVE  /\ Orderly(p) /\ ground' = ground
         /\ \A c \in [Items -> Nat] : /\ Loads(p, c, 0, 0)
                                      /\ Carried(c, p) \in Nat /\ Carried(c, p)' \in Nat
<1> DEFINE o == bag[p]
           w == worn[p]
           i == w[s]
           x == AddStack(o, i, 1)
           u == [w EXCEPT ![s] = NoItem]
<1>1. /\ Here(p) /\ i # NoItem
      /\ bag' = [bag EXCEPT ![p] = x] /\ worn' = [worn EXCEPT ![p] = u]
      /\ room' = room /\ told' = told /\ ground' = ground /\ ticks' = ticks
  <2>1. Here(p) /\ i # NoItem /\ bag' = [bag EXCEPT ![p] = x]
    BY DEF Unequip, Put
  <2>2. worn' = [worn EXCEPT ![p] = u]
    BY DEF Unequip
  <2>3. room' = room /\ told' = told /\ ground' = ground /\ ticks' = ticks
    BY DEF Unequip, placeVars
  <2> QED BY <2>1, <2>2, <2>3
<1>2. o \in Seq(Pile(Items)) /\ w \in Wear
  BY <1>1, InRoom
<1> HIDE DEF o, w
<1>3. i \in Items
  BY <1>1, <1>2 DEF Wear
<1> HIDE DEF i
<1>4. x \in Seq(Pile(Items)) /\ (Tidy(o) => Tidy(x)) /\ More(x, o, i, 1)
  BY <1>2, <1>3, AddUnits
<1>5. Dons(u, w, s, NoItem) /\ u \in Wear
  BY <1>2 DEF Dons, Wear
<1>6. Becomes(p, x, u)
  BY <1>1 DEF Becomes
<1> HIDE DEF x, u
<1>7. /\ bag' \in [Players -> Seq(Pile(Items))] /\ (worn \in [Players -> Wear])'
      /\ Apart(p) /\ bag'[p] = x
      /\ \A c \in [Items -> Nat] :
              /\ Carried(c, p)' = Weigh(c, x) + Dressed(c, u)
              /\ Carried(c, p) = Weigh(c, bag[p]) + Dressed(c, worn[p])
  BY <1>4, <1>5, <1>6, Loaded
<1>8. Orderly(p)
  BY <1>1, <1>4, <1>7 DEF Orderly, Goods, o
<1>9. ASSUME NEW c \in [Items -> Nat]
      PROVE  Loads(p, c, 0, 0) /\ Carried(c, p) \in Nat /\ Carried(c, p)' \in Nat
  <2>1. /\ Weigh(c, x) = Weigh(c, o) + Worth(c, i, 1)
        /\ Weigh(c, o) \in Nat /\ Worth(c, i, 1) = c[i] /\ c[i] \in Nat /\ Piece(c, i) = c[i] /\ Piece(c, NoItem) = 0
    BY <1>3, <1>4, WorthNat, PieceNat DEF More
  <2>2. /\ Dressed(c, u) + Piece(c, i) = Dressed(c, w) + Piece(c, NoItem)
        /\ Dressed(c, u) \in Nat /\ Dressed(c, w) \in Nat
    <3>1. NoItem \in Items \cup {NoItem}
      OBVIOUS
    <3>2. /\ Dressed(c, u) + Piece(c, w[s]) = Dressed(c, w) + Piece(c, NoItem)
          /\ Dressed(c, u) \in Nat /\ Dressed(c, w) \in Nat
      BY <1>2, <1>5, <3>1, Redressed
    <3> QED BY <3>2 DEF i
  <2>3. /\ Carried(c, p)' = Weigh(c, x) + Dressed(c, u)
        /\ Carried(c, p) = Weigh(c, o) + Dressed(c, w)
    BY <1>7 DEF o, w
  <2> QED BY <2>1, <2>2, <2>3 DEF Loads
<1> QED BY <1>1, <1>8, <1>9

\* n units of item i more, or fewer, in the bag of p, and nothing else among the goods.
LEMMA BagGains ==
  ASSUME Goods, NEW p \in Players, NEW i \in Items, NEW n \in Nat, bag' = Put(bag, p, AddStack(bag[p], i, n)),
         room' = room, worn' = worn, told' = told, ticks' = ticks, ground' = ground
  PROVE  /\ Orderly(p)
         /\ \A c \in [Items -> Nat] : /\ Loads(p, c, 0, Worth(c, i, n)) /\ Worth(c, i, n) \in Nat
                                      /\ Carried(c, p) \in Nat /\ Carried(c, p)' \in Nat
<1> DEFINE o == bag[p]
           x == AddStack(o, i, n)
<1>1. o \in Seq(Pile(Items)) /\ room' \in [Players -> Rooms \cup {Away}] /\ bag' = Put(bag, p, x)
  BY DEF Goods
<1> HIDE DEF o
<1>2. x \in Seq(Pile(Items)) /\ (Tidy(o) => Tidy(x)) /\ More(x, o, i, n)
  BY <1>1, AddUnits
<1> HIDE DEF x
<1>3. /\ Orderly(p)
      /\ \A c \in [Items -> Nat] :
              /\ Loads(p, c, Weigh(c, o), Weigh(c, x))
              /\ Carried(c, p) \in Nat /\ Carried(c, p)' \in Nat
  BY <1>1, <1>2, BagOnly DEF o
<1>4. ASSUME NEW c \in [Items -> Nat]
      PROVE  Loads(p, c, 0, Worth(c, i, n)) /\ Worth(c, i, n) \in Nat
  <2>1. /\ Loads(p, c, Weigh(c, o), Weigh(c, x)) /\ Carried(c, p) \in Nat /\ Carried(c, p)' \in Nat
        /\ Weigh(c, x) = Weigh(c, o) + Worth(c, i, n) /\ Weigh(c, o) \in Nat /\ Worth(c, i, n) \in Nat
    BY <1>2, <1>3 DEF More
  <2> QED BY <2>1 DEF Loads
<1> QED BY <1>3, <1>4

LEMMA BagGives ==
  ASSUME Goods, NEW p \in Players, NEW i \in Items, NEW n \in Nat, CanTake(bag[p], i, n),
         bag' = Put(bag, p, TakeStack(bag[p], i, n)),
         room' \in [Players -> Rooms \cup {Away}], worn' = worn, told' = told, ticks' = ticks, ground' = ground
  PROVE  /\ Orderly(p)
         /\ \A c \in [Items -> Nat] : /\ Loads(p, c, Worth(c, i, n), 0) /\ Worth(c, i, n) \in Nat
                                      /\ Carried(c, p) \in Nat /\ Carried(c, p)' \in Nat
<1> DEFINE o == bag[p]
           x == TakeStack(o, i, n)
<1>1. o \in Seq(Pile(Items)) /\ bag' = Put(bag, p, x) /\ CanTake(o, i, n)
  BY DEF Goods
<1> HIDE DEF o
<1>2. x \in Seq(Pile(Items)) /\ (Tidy(o) => Tidy(x)) /\ More(o, x, i, n)
  BY <1>1, TakeUnits
<1> HIDE DEF x
<1>3. /\ Orderly(p)
      /\ \A c \in [Items -> Nat] :
              /\ Loads(p, c, Weigh(c, o), Weigh(c, x))
              /\ Carried(c, p) \in Nat /\ Carried(c, p)' \in Nat
  BY <1>1, <1>2, BagOnly DEF o
<1>4. ASSUME NEW c \in [Items -> Nat]
      PROVE  Loads(p, c, Worth(c, i, n), 0) /\ Worth(c, i, n) \in Nat
  <2>1. /\ Loads(p, c, Weigh(c, o), Weigh(c, x)) /\ Carried(c, p) \in Nat /\ Carried(c, p)' \in Nat
        /\ Weigh(c, o) = Weigh(c, x) + Worth(c, i, n) /\ Weigh(c, x) \in Nat /\ Worth(c, i, n) \in Nat
    BY <1>2, <1>3 DEF More
  <2> QED BY <2>1 DEF Loads
<1> QED BY <1>3, <1>4

LEMMA GatherMoves ==
  ASSUME Goods, NEW p \in Players, NEW nd \in Nodes, Gather(p, nd)
  PROVE  /\ Orderly(p) /\ ground' = ground /\ nd.item \in Items
         /\ \A c \in [Items -> Nat] : /\ Loads(p, c, 0, c[nd.item])
                                      /\ Carried(c, p) \in Nat /\ Carried(c, p)' \in Nat
<1>1. /\ bag' = Put(bag, p, AddStack(bag[p], nd.item, 1))
      /\ room' = room /\ worn' = worn /\ told' = told /\ ticks' = ticks /\ ground' = ground
  BY DEF Gather
<1>2. nd.item \in Items
  BY WorldAssumption
<1> DEFINE i == nd.item
<1>3. i \in Items /\ bag' = Put(bag, p, AddStack(bag[p], i, 1)) /\ 1 \in Nat
  BY <1>1, <1>2
<1> HIDE DEF i
<1>4. /\ Orderly(p)
      /\ \A c \in [Items -> Nat] : /\ Loads(p, c, 0, Worth(c, i, 1))
                                   /\ Carried(c, p) \in Nat /\ Carried(c, p)' \in Nat
  BY <1>1, <1>3, BagGains
<1>5. \A c \in [Items -> Nat] : Worth(c, i, 1) = c[i]
  BY <1>3, WorthNat
<1> QED BY <1>1, <1>2, <1>4, <1>5 DEF i

\* n of a trade is a number of units.
LEMMA Lot == ASSUME NEW n \in 1..MaxTrade PROVE n \in Nat /\ n > 0
BY WorldAssumption

LEMMA SellMoves ==
  ASSUME Goods, NEW p \in Players, NEW w \in Wares, NEW n \in 1..MaxTrade, Sell(p, w, n)
  PROVE  /\ Orderly(p) /\ ground' = ground /\ w.item \in Items
         /\ \A c \in [Items -> Nat] : /\ Loads(p, c, Worth(c, w.item, n), 0) /\ Worth(c, w.item, n) \in Nat
                                      /\ Carried(c, p) \in Nat /\ Carried(c, p)' \in Nat
<1> DEFINE i == w.item
<1>1. /\ QtyOf(bag[p], i) >= n
      /\ bag' = Put(bag, p, TakeStack(bag[p], i, n))
      /\ room' = room /\ worn' = worn /\ told' = told /\ ticks' = ticks /\ ground' = ground
  BY DEF Sell
<1>2. i \in Items /\ bag[p] \in Seq(Pile(Items)) /\ room' \in [Players -> Rooms \cup {Away}] /\ n \in Nat /\ n > 0
  BY <1>1, WorldAssumption, Lot DEF Goods
<1> HIDE DEF i
<1>3. CanTake(bag[p], i, n)
  BY <1>1, <1>2, QtyServes
<1>4. /\ Orderly(p)
      /\ \A c \in [Items -> Nat] : /\ Loads(p, c, Worth(c, i, n), 0) /\ Worth(c, i, n) \in Nat
                                   /\ Carried(c, p) \in Nat /\ Carried(c, p)' \in Nat
  BY <1>1, <1>2, <1>3, BagGives
<1> QED BY <1>1, <1>2, <1>4 DEF i

LEMMA BuyMoves ==
  ASSUME Goods, NEW p \in Players, NEW w \in Wares, NEW n \in 1..MaxTrade, Buy(p, w, n)
  PROVE  /\ Orderly(p) /\ ground' = ground /\ w.item \in Items
         /\ \A c \in [Items -> Nat] : /\ Loads(p, c, 0, Worth(c, w.item, n)) /\ Worth(c, w.item, n) \in Nat
                                      /\ Carried(c, p) \in Nat /\ Carried(c, p)' \in Nat
<1> DEFINE i == w.item
<1>1. /\ bag' = Put(bag, p, AddStack(bag[p], i, n))
      /\ room' = room /\ worn' = worn /\ told' = told /\ ticks' = ticks /\ ground' = ground
  BY DEF Buy
<1>2. i \in Items /\ n \in Nat
  BY WorldAssumption, Lot
<1> HIDE DEF i
<1>3. /\ Orderly(p)
      /\ \A c \in [Items -> Nat] : /\ Loads(p, c, 0, Worth(c, i, n)) /\ Worth(c, i, n) \in Nat
                                   /\ Carried(c, p) \in Nat /\ Carried(c, p)' \in Nat
  BY <1>1, <1>2, BagGains
<1> QED BY <1>1, <1>2, <1>3 DEF i

\* Who carries bulk has a pile of it that can be taken from.
LEMMA TollServed ==
  ASSUME Goods, NEW p \in Players, TradeQty(p) >= TradeBulk
  PROVE  FirstTradeItem(p) \in Items /\ CanTake(bag[p], FirstTradeItem(p), 1)
<1> DEFINE b == bag[p]
           c == Only(Traded)
           K == {k \in DOMAIN b : b[k].n > 0 /\ b[k].id \in Traded}
<1>1. b \in Seq(Pile(Items)) /\ DOMAIN b = 1..Len(b) /\ Len(b) \in Nat
  BY DEF Goods
<1>2. c \in [Items -> Nat] /\ \A x \in Items : x \notin Traded => c[x] = 0
  BY DEF Only
<1>3. TradeQty(p) = Weigh(c, b) /\ Weigh(c, b) # 0
  <2>1. TradeQty(p) = Weigh(c, b)
    BY DEF TradeQty
  <2>2. Weigh(c, b) \in Nat
    BY <1>1, <1>2, WeighNat
  <2> QED BY <2>1, <2>2, WorldAssumption
<1>4. FirstTradeItem(p) = b[First(K)].id
  BY DEF FirstTradeItem
<1> HIDE DEF b, c
<1>5. K # {}
  <2> SUFFICES ASSUME K = {} PROVE FALSE
    OBVIOUS
  <2>1. ASSUME NEW k \in 1..Len(b) PROVE Val(c, b)[k] = 0
    <3>1. b[k].id \in Items /\ b[k].n \in Nat /\ Val(c, b)[k] = Worth(c, b[k].id, b[k].n)
      <4>1. Val(c, b)[k] = Worth(c, b[k].id, b[k].n)
        BY DEF Val
      <4> QED BY <1>1, <4>1, PileParts
    <3>2. b[k].n = 0 \/ c[b[k].id] = 0
      BY <1>1, <1>2, <3>1
    <3>3. c[b[k].id] \in Nat
      BY <1>2, <3>1
    <3> QED BY <3>1, <3>2, <3>3 DEF Worth
  <2>2. IsFiniteSet(1..Len(b))
    BY <1>1, FS_Interval
  <2>3. SumFunctionOnSet(Val(c, b), 1..Len(b)) = 0
    BY <2>1, <2>2, SumZero
  <2> QED BY <1>1, <1>3, <2>3, WeighIs
<1> DEFINE k == First(K)
<1>6. k \in 1..Len(b) /\ b[k].n > 0
  <2>1. K \subseteq Nat
    BY <1>1
  <2>2. k \in K
    BY <1>5, <2>1, FirstIs
  <2> QED BY <1>1, <2>2
<1> HIDE DEF k
<1>7. b[k].id \in Items /\ b[k].n \in Nat
  BY <1>1, <1>6, PileParts
<1>8. CanTake(b, b[k].id, 1)
  BY <1>1, <1>6, <1>7 DEF CanTake, Serving, Merging
<1> QED BY <1>4, <1>7, <1>8 DEF b, k

\* A move changes nothing among the goods but what the toll takes for want of coin: one unit.
LEMMA MoveMoves ==
  ASSUME Goods, NEW p \in Players, NEW dest \in Rooms, Move(p, dest)
  PROVE  /\ Orderly(p) /\ ground' = ground
         /\ \/ bag' = bag /\ worn' = worn
            \/ FirstTradeItem(p) \in Items
               /\ \A c \in [Items -> Nat] : /\ Loads(p, c, c[FirstTradeItem(p)], 0)
                                            /\ Carried(c, p) \in Nat /\ Carried(c, p)' \in Nat
<1>1. /\ worn' = worn /\ told' = told /\ ticks' = ticks /\ ground' = ground /\ room' = Put(room, p, dest)
      /\ \/ bag' = bag
         \/ Stopped(p, dest) /\ bag' = Put(bag, p, TakeStack(bag[p], FirstTradeItem(p), 1))
  BY DEF Move, placeVars
<1>2. room' \in [Players -> Rooms \cup {Away}]
  BY <1>1 DEF Goods, Put
<1>3. CASE bag' = bag
  <2>1. Goods'
    BY <1>1, <1>2, <1>3 DEF Goods, Wear, Slots
  <2> QED BY <1>1, <1>3, <2>1 DEF Orderly, Apart
<1>4. CASE Stopped(p, dest) /\ bag' = Put(bag, p, TakeStack(bag[p], FirstTradeItem(p), 1))
  <2> DEFINE i == FirstTradeItem(p)
  <2>1. i \in Items /\ CanTake(bag[p], i, 1) /\ bag' = Put(bag, p, TakeStack(bag[p], i, 1)) /\ 1 \in Nat
    BY <1>4, TollServed DEF Stopped
  <2> HIDE DEF i
  <2>2. /\ Orderly(p)
        /\ \A c \in [Items -> Nat] : /\ Loads(p, c, Worth(c, i, 1), 0)
                                     /\ Carried(c, p) \in Nat /\ Carried(c, p)' \in Nat
    BY <1>1, <1>2, <2>1, BagGives
  <2>3. \A c \in [Items -> Nat] : Worth(c, i, 1) = c[i]
    BY <2>1, WorthNat
  <2> QED BY <1>1, <2>1, <2>2, <2>3 DEF i
<1> QED BY <1>1, <1>3, <1>4

\* A craft takes the materials and gives what the recipe makes.
LEMMA CraftMoves ==
  ASSUME Goods, NEW p \in Players, NEW rec \in Recipes, Craft(p, rec)
  PROVE  /\ Orderly(p) /\ ground' = ground
         /\ \A c \in [Items -> Nat] :
              /\ Loads(p, c, Weigh(c, rec.in), Worth(c, rec.out.id, rec.out.n))
              /\ Weigh(c, rec.in) \in Nat /\ Worth(c, rec.out.id, rec.out.n) \in Nat
              /\ Carried(c, p) \in Nat /\ Carried(c, p)' \in Nat
<1> DEFINE o == bag[p]
           ins == rec.in
           i == rec.out.id
           n == rec.out.n
           rest == TakeAll(o, ins).rest
           x == AddStack(rest, i, n)
<1>1. /\ TakeAll(o, ins).ok /\ bag' = Put(bag, p, x)
      /\ room' = room /\ worn' = worn /\ told' = told /\ ticks' = ticks /\ ground' = ground
  <2>1. TakeAll(o, ins).ok /\ bag' = Put(bag, p, x)
    BY DEF Craft
  <2>2. room' = room /\ worn' = worn /\ told' = told /\ ticks' = ticks /\ ground' = ground
    BY DEF Craft, placeVars
  <2> QED BY <2>1, <2>2
<1>2. ins \in Seq(Pile(Items)) /\ i \in Items /\ n \in Nat
  BY WorldAssumption DEF Pile
<1>3. o \in Seq(Pile(Items)) /\ room' \in [Players -> Rooms \cup {Away}]
  BY <1>1 DEF Goods
<1> HIDE DEF o, ins, i, n
<1>4. ASSUME NEW c \in [Items -> Nat]
      PROVE  /\ rest \in Seq(Pile(Items))
             /\ Weigh(c, o) = Weigh(c, rest) + Weigh(c, ins)
             /\ Tidy(o) => Tidy(rest)
  BY <1>1, <1>2, <1>3, HaulWhole
<1>5. rest \in Seq(Pile(Items)) /\ (Tidy(o) => Tidy(rest))
  <2>1. [j \in Items |-> 0] \in [Items -> Nat]
    OBVIOUS
  <2> QED BY <1>4, <2>1
<1> HIDE DEF rest
<1>6. x \in Seq(Pile(Items)) /\ (Tidy(rest) => Tidy(x)) /\ More(x, rest, i, n)
  BY <1>2, <1>5, AddUnits
<1>7. Tidy(o) => Tidy(x)
  BY <1>5, <1>6
<1> HIDE DEF x
<1>8. /\ Orderly(p)
      /\ \A c \in [Items -> Nat] :
              /\ Loads(p, c, Weigh(c, o), Weigh(c, x))
              /\ Carried(c, p) \in Nat /\ Carried(c, p)' \in Nat
  BY <1>1, <1>3, <1>6, <1>7, BagOnly DEF o
<1>9. ASSUME NEW c \in [Items -> Nat]
      PROVE  /\ Loads(p, c, Weigh(c, ins), Worth(c, i, n))
             /\ Weigh(c, ins) \in Nat /\ Worth(c, i, n) \in Nat
  <2>1. Weigh(c, x) = Weigh(c, rest) + Worth(c, i, n) /\ Weigh(c, rest) \in Nat /\ Worth(c, i, n) \in Nat
    BY <1>6 DEF More
  <2>2. Weigh(c, o) = Weigh(c, rest) + Weigh(c, ins) /\ Weigh(c, ins) \in Nat
    BY <1>2, <1>4, WeighNat
  <2>3. Loads(p, c, Weigh(c, o), Weigh(c, x)) /\ Carried(c, p) \in Nat /\ Carried(c, p)' \in Nat
    BY <1>8
  <2> QED BY <2>1, <2>2, <2>3 DEF Loads
<1> QED BY <1>1, <1>8, <1>9 DEF ins, i, n

\* A craft that runs short leaves the goods typed and every item alone that is neither a
\* material nor the last but for materials.
LEMMA CraftShortMoves ==
  ASSUME Goods, NEW p \in Players, NEW rec \in Recipes, CraftShort(p, rec)
  PROVE  /\ Goods' /\ Apart(p) /\ ground' = ground
         /\ \A i \in Items \ (Materials(rec) \cup LastBut(bag[p], Materials(rec))) :
              /\ Loads(p, Only({i}), 0, 0)
              /\ Carried(Only({i}), p) \in Nat /\ Carried(Only({i}), p)' \in Nat
<1> DEFINE o == bag[p]
           ins == rec.in
           M == Materials(rec)
           x == TakeAll(o, ins).old
<1>1. /\ bag' = [bag EXCEPT ![p] = x]
      /\ room' = room /\ worn' = worn /\ told' = told /\ ticks' = ticks /\ ground' = ground
  BY DEF CraftShort, placeVars, Put
<1>2. ins \in Seq(Pile(Items)) /\ o \in Seq(Pile(Items))
  BY WorldAssumption DEF Goods
<1>3. \A k \in 1..Len(ins) : ins[k].id \in M
  BY <1>2 DEF Materials
<1> HIDE DEF o, ins, M
<1>4. x \in Seq(Pile(Items))
  BY <1>2, HaulTyped
<1>5. \A i : i \notin M \cup LastBut(o, M) => Weigh(Only({i}), x) = Weigh(Only({i}), o)
  BY <1>2, <1>3, HaulSpares
<1> HIDE DEF x
<1>6. /\ bag' \in [Players -> Seq(Pile(Items))] /\ (worn \in [Players -> Wear])'
      /\ Apart(p)
      /\ \A c \in [Items -> Nat] :
              /\ Loads(p, c, Weigh(c, o), Weigh(c, x))
              /\ Carried(c, p) \in Nat /\ Carried(c, p)' \in Nat
  BY <1>1, <1>4, Bagged DEF o
<1>7. Goods'
  BY <1>1, <1>6 DEF Goods
<1>8. ASSUME NEW i \in Items, i \notin M \cup LastBut(o, M)
      PROVE  /\ Loads(p, Only({i}), 0, 0)
             /\ Carried(Only({i}), p) \in Nat /\ Carried(Only({i}), p)' \in Nat
  <2> DEFINE c == Only({i})
  <2>1. c \in [Items -> Nat]
    BY OnlyIs
  <2>2. Weigh(c, x) = Weigh(c, o)
    BY <1>5, <1>8
  <2> HIDE DEF c
  <2>3. /\ Loads(p, c, Weigh(c, o), Weigh(c, x)) /\ Weigh(c, o) \in Nat
        /\ Carried(c, p) \in Nat /\ Carried(c, p)' \in Nat
    BY <1>2, <1>6, <2>1, WeighNat
  <2>4. Loads(p, c, 0, 0)
    BY <2>2, <2>3 DEF Loads
  <2> QED BY <2>3, <2>4 DEF c
<1> QED BY <1>1, <1>6, <1>7, <1>8 DEF o, M

-----------------------------------------------------------------------------
(* Every step keeps the goods in their places, bags tidy and loads down. *)

\* The steps that move no goods.
Idle ==
  \/ \E p \in Players : Enter(p) \/ LeaveWorld(p)
  \/ \E p \in Players, sk \in Skills : PracticeSkill(p, sk)
  \/ \E p \in Players, tp \in Topics : Meet(p, tp)
  \/ Tick \/ UNCHANGED vars

LEMMA IdleKeeps ==
  ASSUME Goods, Idle
  PROVE  Goods' /\ bag' = bag /\ worn' = worn /\ ground' = ground
<1>1. bag' = bag /\ worn' = worn /\ ground' = ground
  BY DEF Idle, Enter, LeaveWorld, PracticeSkill, Meet, Tick, vars, bodyVars, placeVars
<1>2. room' \in [Players -> Rooms \cup {Away}]
  <2>1. CASE \E p \in Players : Enter(p) \/ LeaveWorld(p)
    BY <2>1, WorldAssumption DEF Enter, LeaveWorld, Put, Goods
  <2>2. CASE room' = room
    BY <2>2 DEF Goods
  <2>3. ASSUME ~ \E p \in Players : Enter(p) \/ LeaveWorld(p)
        PROVE  room' = room
    BY <2>3 DEF Idle, PracticeSkill, Meet, Tick, vars
  <2> QED BY <2>1, <2>2, <2>3
<1>3. told' \in [Players -> SUBSET Topics]
  <2>1. CASE \E p \in Players, tp \in Topics : Meet(p, tp)
    <3>1. PICK p \in Players, tp \in Topics : told' = [told EXCEPT ![p] = told[p] \cup {tp}]
      BY <2>1 DEF Meet, Put
    <3> QED BY <3>1 DEF Goods
  <2>2. CASE told' = told
    BY <2>2 DEF Goods
  <2>3. ASSUME ~ \E p \in Players, tp \in Topics : Meet(p, tp)
        PROVE  told' = told
    BY <2>3 DEF Idle, Enter, LeaveWorld, PracticeSkill, Tick, vars, bodyVars
  <2> QED BY <2>1, <2>2, <2>3
<1>4. ticks' \in 0..(Period - 1)
  <2>1. CASE Tick
    BY <2>1, WorldAssumption DEF Tick, Goods
  <2>2. CASE ~Tick
    BY <2>2 DEF Idle, Enter, LeaveWorld, PracticeSkill, Meet, vars, placeVars, Goods
  <2> QED BY <2>1, <2>2
<1> QED BY <1>1, <1>2, <1>3, <1>4 DEF Goods, Wear, Slots

\* What a load may do.
Light(p) == CarryWeight(p)' <= BagCap \/ CarryWeight(p)' <= CarryWeight(p)

LEMMA LoadDown ==
  ASSUME NEW p, NEW a \in Nat, Loads(p, Weight, a, 0),
         Carried(Weight, p) \in Nat, Carried(Weight, p)' \in Nat
  PROVE  Light(p)
BY DEF Light, CarryWeight, Loads

LEMMA LoadFits ==
  ASSUME NEW p, NEW a \in Nat, NEW z \in Nat, Loads(p, Weight, a, z),
         Carried(Weight, p) \in Nat, Carried(Weight, p)' \in Nat, Carried(Weight, p) + z <= BagCap + a
  PROVE  Light(p)
BY WorldAssumption DEF Light, CarryWeight, Loads

LEMMA FitsIs ==
  ASSUME NEW p, NEW i, NEW n, Fits(p, i, n)
  PROVE  Carried(Weight, p) + Worth(Weight, i, n) <= BagCap
BY DEF Fits, CarryWeight, Worth

LEMMA WeightOf ==
  /\ Weight \in [Items -> Nat] /\ BagCap \in Nat
  /\ \A i \in Items : Weight[i] \in Nat /\ Worth(Weight, i, 1) = Weight[i]
BY WorldAssumption, WorthNat

\* A command of p that is not idle.
Handles(p) ==
  \/ \E dest \in Rooms : Move(p, dest)
  \/ \E i \in Items : Get(p, i) \/ GetHeavy(p, i) \/ DropItem(p, i) \/ Equip(p, i)
  \/ \E s \in Slots : Unequip(p, s)
  \/ \E nd \in Nodes : Gather(p, nd)
  \/ \E rec \in Recipes : Craft(p, rec) \/ CraftShort(p, rec)
  \/ \E w \in Wares, n \in 1..MaxTrade : Sell(p, w, n) \/ Buy(p, w, n)

LEMMA NextCases ==
  ASSUME [Next]_vars
  PROVE  Idle \/ \E p \in Players : Handles(p)
BY DEF Next, Command, Idle, Handles

\* Goods are typed, the others' bags alone; the bag is tidy if it was and the load in bounds.
Well(p) == Orderly(p) /\ Light(p)

LEMMA GetWell ==
  ASSUME Goods, NEW p \in Players, NEW i \in Items, Get(p, i)
  PROVE  Well(p)
<1>1. /\ Orderly(p) /\ Loads(p, Weight, 0, Weight[i])
      /\ Carried(Weight, p) \in Nat /\ Carried(Weight, p)' \in Nat
  BY GetMoves, WeightOf
<1>2. Carried(Weight, p) + Weight[i] <= BagCap
  BY FitsIs, WeightOf DEF Get
<1>3. Carried(Weight, p) + Weight[i] <= BagCap + 0 /\ Weight[i] \in Nat
  BY <1>2, WeightOf
<1>4. Light(p)
  BY <1>1, <1>3, LoadFits
<1> QED BY <1>1, <1>4 DEF Well

LEMMA GatherWell ==
  ASSUME Goods, NEW p \in Players, NEW nd \in Nodes, Gather(p, nd)
  PROVE  Well(p)
<1> DEFINE i == nd.item
<1>1. /\ Orderly(p) /\ Loads(p, Weight, 0, Weight[i]) /\ i \in Items
      /\ Carried(Weight, p) \in Nat /\ Carried(Weight, p)' \in Nat
  BY GatherMoves, WeightOf
<1>2. Carried(Weight, p) + Worth(Weight, i, 1) <= BagCap
  BY FitsIs DEF Gather
<1> HIDE DEF i
<1>3. Carried(Weight, p) + Weight[i] <= BagCap + 0 /\ Weight[i] \in Nat
  BY <1>1, <1>2, WeightOf
<1>4. Light(p)
  BY <1>1, <1>3, LoadFits
<1> QED BY <1>1, <1>4 DEF Well

LEMMA BuyWell ==
  ASSUME Goods, NEW p \in Players, NEW w \in Wares, NEW n \in 1..MaxTrade, Buy(p, w, n)
  PROVE  Well(p)
<1> DEFINE z == Worth(Weight, w.item, n)
<1>1. /\ Orderly(p) /\ Loads(p, Weight, 0, z) /\ z \in Nat
      /\ Carried(Weight, p) \in Nat /\ Carried(Weight, p)' \in Nat
  BY BuyMoves, WeightOf
<1>2. Carried(Weight, p) + z <= BagCap
  BY FitsIs DEF Buy
<1> HIDE DEF z
<1>3. Carried(Weight, p) + z <= BagCap + 0
  BY <1>1, <1>2, WeightOf
<1>4. Light(p)
  BY <1>1, <1>3, LoadFits
<1> QED BY <1>1, <1>4 DEF Well

LEMMA CraftWell ==
  ASSUME Goods, NEW p \in Players, NEW rec \in Recipes, Craft(p, rec)
  PROVE  Well(p)
<1> DEFINE a == Weigh(Weight, rec.in)
           z == Worth(Weight, rec.out.id, rec.out.n)
<1>1. /\ Orderly(p) /\ Loads(p, Weight, a, z) /\ a \in Nat /\ z \in Nat
      /\ Carried(Weight, p) \in Nat /\ Carried(Weight, p)' \in Nat
  BY CraftMoves, WeightOf
<1>2. Carried(Weight, p) + z <= BagCap + a
  BY DEF Craft, CanCraft, CarryWeight, Worth
<1> HIDE DEF a, z
<1>3. Light(p)
  BY <1>1, <1>2, LoadFits
<1> QED BY <1>1, <1>3 DEF Well

LEMMA DownWell ==
  ASSUME Goods, NEW p \in Players,
         \/ \E i \in Items : DropItem(p, i) \/ Equip(p, i)
         \/ \E s \in Slots : Unequip(p, s)
         \/ \E w \in Wares, n \in 1..MaxTrade : Sell(p, w, n)
  PROVE  Well(p)
<1>1. ASSUME NEW a \in Nat, Orderly(p), Loads(p, Weight, a, 0),
             Carried(Weight, p) \in Nat, Carried(Weight, p)' \in Nat
      PROVE  Well(p)
  BY <1>1, LoadDown DEF Well
<1>2. ASSUME NEW i \in Items, DropItem(p, i)
      PROVE  Well(p)
  <2>1. /\ Orderly(p) /\ Loads(p, Weight, Weight[i], 0) /\ Weight[i] \in Nat
        /\ Carried(Weight, p) \in Nat /\ Carried(Weight, p)' \in Nat
    BY <1>2, DropMoves, WeightOf
  <2> QED BY <1>1, <2>1
<1>3. ASSUME NEW i \in Items, Equip(p, i)
      PROVE  Well(p)
  <2>1. /\ Orderly(p) /\ Loads(p, Weight, 0, 0)
        /\ Carried(Weight, p) \in Nat /\ Carried(Weight, p)' \in Nat
    BY <1>3, EquipMoves, WeightOf
  <2> QED BY <1>1, <2>1
<1>4. ASSUME NEW s \in Slots, Unequip(p, s)
      PROVE  Well(p)
  <2>1. /\ Orderly(p) /\ Loads(p, Weight, 0, 0)
        /\ Carried(Weight, p) \in Nat /\ Carried(Weight, p)' \in Nat
    BY <1>4, UnequipMoves, WeightOf
  <2> QED BY <1>1, <2>1
<1>5. ASSUME NEW w \in Wares, NEW n \in 1..MaxTrade, Sell(p, w, n)
      PROVE  Well(p)
  <2> DEFINE a == Worth(Weight, w.item, n)
  <2>1. /\ Orderly(p) /\ Loads(p, Weight, a, 0) /\ a \in Nat
        /\ Carried(Weight, p) \in Nat /\ Carried(Weight, p)' \in Nat
    BY <1>5, SellMoves, WeightOf
  <2> HIDE DEF a
  <2> QED BY <1>1, <2>1
<1> QED BY <1>2, <1>3, <1>4, <1>5

\* Who keeps bag and slots keeps his load.
LEMMA SameLoad ==
  ASSUME Goods, NEW p \in Players, bag'[p] = bag[p], worn'[p] = worn[p], NEW c \in [Items -> Nat]
  PROVE  Carried(c, p)' = Carried(c, p) /\ Carried(c, p) \in Nat
<1>1. Carried(c, p) \in Nat
  BY CarriedIs DEF Goods
<1>2. Carried(c, p)' = Carried(c, p)
  BY DEF Carried
<1> QED BY <1>1, <1>2

LEMMA SameLight ==
  ASSUME Goods, NEW p \in Players, bag'[p] = bag[p], worn'[p] = worn[p]
  PROVE  Light(p)
<1>1. Carried(Weight, p)' = Carried(Weight, p) /\ Carried(Weight, p) \in Nat
  BY SameLoad, WeightOf
<1> QED BY <1>1 DEF Light, CarryWeight

LEMMA MoveWell ==
  ASSUME Goods, NEW p \in Players, NEW dest \in Rooms, Move(p, dest)
  PROVE  Well(p)
<1>1. Orderly(p)
  BY MoveMoves
<1>2. CASE bag' = bag /\ worn' = worn
  BY <1>1, <1>2, SameLight DEF Well
<1>3. CASE /\ FirstTradeItem(p) \in Items
           /\ \A c \in [Items -> Nat] : /\ Loads(p, c, c[FirstTradeItem(p)], 0)
                                        /\ Carried(c, p) \in Nat /\ Carried(c, p)' \in Nat
  <2> DEFINE i == FirstTradeItem(p)
  <2>1. /\ Loads(p, Weight, Weight[i], 0) /\ Weight[i] \in Nat
        /\ Carried(Weight, p) \in Nat /\ Carried(Weight, p)' \in Nat
    BY <1>3, WeightOf
  <2> HIDE DEF i
  <2>2. Light(p)
    BY <2>1, LoadDown
  <2> QED BY <1>1, <2>2 DEF Well
<1> QED BY <1>2, <1>3, MoveMoves

LEMMA HandlesWell ==
  ASSUME Goods, NEW p \in Players, Handles(p)
  PROVE  Goods' /\ Apart(p) /\ (RunsShort(p) \/ Well(p))
<1>1. Well(p) => Goods' /\ Apart(p)
  BY DEF Well, Orderly
<1>2. ASSUME NEW i \in Items, GetHeavy(p, i)
      PROVE  Goods' /\ Apart(p) /\ Well(p)
  <2>1. Goods' /\ bag' = bag /\ worn' = worn
    BY <1>2, GetHeavyMoves
  <2>2. Orderly(p)
    BY <2>1 DEF Orderly, Apart
  <2> QED BY <1>1, <2>1, <2>2, SameLight DEF Well
<1>3. ASSUME NEW rec \in Recipes, CraftShort(p, rec)
      PROVE  Goods' /\ Apart(p) /\ RunsShort(p)
  BY <1>3, CraftShortMoves DEF RunsShort
<1>4. ASSUME \/ \E dest \in Rooms : Move(p, dest)
             \/ \E i \in Items : Get(p, i) \/ DropItem(p, i) \/ Equip(p, i)
             \/ \E s \in Slots : Unequip(p, s)
             \/ \E nd \in Nodes : Gather(p, nd)
             \/ \E rec \in Recipes : Craft(p, rec)
             \/ \E w \in Wares, n \in 1..MaxTrade : Sell(p, w, n) \/ Buy(p, w, n)
      PROVE  Well(p)
  BY <1>4, MoveWell, GetWell, GatherWell, BuyWell, CraftWell, DownWell
<1> QED BY <1>1, <1>2, <1>3, <1>4 DEF Handles

LEMMA StepWell ==
  ASSUME Goods, [Next]_vars
  PROVE  /\ Goods'
         /\ \A p \in Players : RunsShort(p) \/ ((Tidy(bag[p]) => Tidy(bag'[p])) /\ Light(p))
<1>1. CASE Idle
  <2>1. Goods' /\ bag' = bag /\ worn' = worn
    BY <1>1, IdleKeeps
  <2>2. \A p \in Players : Light(p) /\ bag'[p] = bag[p]
    BY <2>1, SameLight
  <2> QED BY <2>1, <2>2
<1>2. ASSUME NEW q \in Players, Handles(q)
      PROVE  /\ Goods'
             /\ \A p \in Players : RunsShort(p) \/ ((Tidy(bag[p]) => Tidy(bag'[p])) /\ Light(p))
  <2>1. Goods' /\ Apart(q) /\ (RunsShort(q) \/ Well(q))
    BY <1>2, HandlesWell
  <2>2. ASSUME NEW p \in Players, p # q
        PROVE  bag'[p] = bag[p] /\ worn'[p] = worn[p]
    BY <2>1, <2>2 DEF Apart
  <2>3. \A p \in Players : p # q => (Tidy(bag[p]) => Tidy(bag'[p])) /\ Light(p)
    BY <2>2, SameLight
  <2> QED BY <2>1, <2>3 DEF Well, Orderly
<1> QED BY <1>1, <1>2, NextCases

LEMMA GoodsFirst == Init => Goods
<1> SUFFICES ASSUME Init PROVE Goods
  OBVIOUS
<1>1. bag \in [Players -> Seq(Pile(Items))] /\ worn \in [Players -> Wear]
  BY DEF Init, Wear
<1>2. room \in [Players -> Rooms \cup {Away}] /\ told \in [Players -> SUBSET Topics]
  BY DEF Init
<1>3. ground \in [Rooms -> Seq(Pile(Items))]
  BY WorldAssumption DEF Init
<1>4. ticks \in 0..(Period - 1)
  BY WorldAssumption DEF Init
<1> QED BY <1>1, <1>2, <1>3, <1>4 DEF Goods

\* Rooms, bags, slots, purses, ranks, ground, nodes and stalls hold what their types say for
\* all content: no command takes from a pile that is not there, and no toll finds nothing.
\* (engine/inventory.go, livelihood.go)
THEOREM TypeCorrect == Spec => []TypeOK
<1>1. Goods /\ [Next]_vars => Goods'
  BY StepWell
<1>2. Goods /\ Ledger /\ Ladder => TypeOK
  <2> SUFFICES ASSUME Goods, Ledger, Ladder PROVE TypeOK
    OBVIOUS
  <2>1. /\ \A p \in Players : bag[p] \in Seq(Pile(Items))
        /\ \A r \in Rooms : ground[r] \in Seq(Pile(Items))
        /\ worn \in [Players -> [Slots -> Items \cup {NoItem}]]
    BY DEF Goods, Wear
  <2>2. \A nd \in Nodes : left[nd] \in 0..nd.max
    BY WorldAssumption DEF Ledger
  <2>3. ranks \in [Players -> [Skills -> Nat]] /\ stats \in [Players -> [Stats -> Nat]]
    BY SkillAssumption DEF Ladder
  <2> QED BY <2>1, <2>2, <2>3 DEF TypeOK, Goods, Ledger
<1> QED BY <1>1, <1>2, GoodsFirst, LedgerHolds, CapsHold, PTL DEF Spec

\* No command but a craft that runs short leaves a tidy bag with an empty pile or two piles
\* of one item, however much is taken and added in place.
\* (world.AddStack, TakeStack and their callers)
THEOREM BagsStayTidy == Spec => BagsTidy
<1>1. Goods /\ [Next]_vars => Goods' /\ [\A p \in Players : Tidy(bag[p]) => Tidy(bag'[p]) \/ RunsShort(p)]_vars
  BY StepWell
<1> QED BY <1>1, GoodsFirst, PTL DEF Spec, BagsTidy

\* No command but a craft that runs short makes a load heavier than the limit, or heavier at
\* all when it is over it: bag and equipment, for all weights and recipes.
\* (carryWeight and its callers, engine/inventory.go, livelihood.go)
THEOREM LoadsStayLight == Spec => CarryLimit
<1>1. Goods /\ [Next]_vars => Goods' /\ [\A p \in Players :
         \/ CarryWeight(p)' <= BagCap \/ CarryWeight(p)' <= CarryWeight(p)
         \/ RunsShort(p)]_vars
  BY StepWell DEF Light
<1> QED BY <1>1, GoodsFirst, PTL DEF Spec, CarryLimit

-----------------------------------------------------------------------------
(* The units of one item, wherever they are. *)

Hands(c) == SumFunction([p \in Players |-> Carried(c, p)])

\* A sum over all players, nodes or stalls of which one changed.
LEMMA OneChanged ==
  ASSUME NEW S, IsFiniteSet(S), NEW f, NEW h, DOMAIN f = S, DOMAIN h = S, NEW y \in S,
         \A x \in S : f[x] \in Nat /\ h[x] \in Nat, \A x \in S : x # y => h[x] = f[x],
         NEW a \in Nat, NEW z \in Nat, h[y] + a = f[y] + z
  PROVE  SumFunction(h) + a = SumFunction(f) + z /\ SumFunction(h) \in Nat /\ SumFunction(f) \in Nat
<1>1. h[y] \in Nat /\ f[y] \in Nat /\ \A x \in S : f[x] \in Nat
  OBVIOUS
<1>2. /\ SumFunctionOnSet(h, S) + f[y] = SumFunctionOnSet(f, S) + h[y]
      /\ SumFunctionOnSet(h, S) \in Nat /\ SumFunctionOnSet(f, S) \in Nat
  BY <1>1, SumChanged
<1>3. SumFunction(h) = SumFunctionOnSet(h, S) /\ SumFunction(f) = SumFunctionOnSet(f, S)
  BY DEF SumFunction
<1> QED BY <1>1, <1>2, <1>3

LEMMA HandsNat ==
  ASSUME Goods, NEW c \in [Items -> Nat]
  PROVE  Hands(c) \in Nat
<1> DEFINE f == [p \in Players |-> Carried(c, p)]
<1>1. \A p \in Players : f[p] \in Nat
  BY CarriedIs DEF Goods
<1>2. DOMAIN f = Players /\ Hands(c) = SumFunction(f)
  BY DEF Hands
<1> HIDE DEF f
<1>3. SumFunctionOnSet(f, Players) \in Nat
  BY <1>1, SumNat, WorldAssumption
<1> QED BY <1>2, <1>3 DEF SumFunction

\* The hands change by what the load of one changes.
LEMMA HandsChanged ==
  ASSUME Goods, NEW p \in Players, Apart(p), NEW c \in [Items -> Nat], NEW a \in Nat, NEW z \in Nat,
         Loads(p, c, a, z), Carried(c, p)' \in Nat
  PROVE  Hands(c)' + a = Hands(c) + z /\ Hands(c)' \in Nat /\ Hands(c) \in Nat
<1> DEFINE f == [q \in Players |-> Carried(c, q)]
           h == [q \in Players |-> Carried(c, q)']
<1>1. \A q \in Players : Carried(c, q) \in Nat
  BY CarriedIs DEF Goods
<1>2. ASSUME NEW q \in Players, q # p PROVE Carried(c, q)' = Carried(c, q)
  BY <1>2, SameLoad DEF Apart
<1>3. /\ \A q \in Players : f[q] \in Nat /\ h[q] \in Nat
      /\ \A q \in Players : q # p => h[q] = f[q]
      /\ h[p] + a = f[p] + z
      /\ DOMAIN f = Players /\ DOMAIN h = Players
  BY <1>1, <1>2 DEF Loads
<1>4. Hands(c) = SumFunction(f) /\ Hands(c)' = SumFunction(h)
  BY DEF Hands
<1>5. IsFiniteSet(Players)
  BY WorldAssumption
<1> HIDE DEF f, h
<1> QED BY <1>3, <1>4, <1>5, OneChanged

LEMMA HandsSame ==
  ASSUME Goods, bag' = bag, worn' = worn, NEW c \in [Items -> Nat]
  PROVE  Hands(c)' = Hands(c)
<1> DEFINE f == [q \in Players |-> Carried(c, q)]
           h == [q \in Players |-> Carried(c, q)']
<1>1. \A q \in Players : Carried(c, q)' = Carried(c, q)
  BY SameLoad
<1>2. f = h
  BY <1>1
<1>3. Hands(c) = SumFunction(f) /\ Hands(c)' = SumFunction(h)
  BY DEF Hands
<1> QED BY <1>2, <1>3

LEMMA GroundSame ==
  ASSUME ground' = ground, NEW c
  PROVE  Gnd(c)' = Gnd(c)
BY DEF Gnd

LEMMA GroundNat ==
  ASSUME Goods, NEW c \in [Items -> Nat]
  PROVE  Gnd(c) \in Nat
<1> DEFINE f == [r \in Rooms |-> Weigh(c, ground[r])]
<1>1. SumFunction(f) \in Nat
  BY GroundIs DEF Goods
<1> QED BY <1>1 DEF Gnd

\* A node's or a stall's share in the units of item i.
Share(x, i, n) == IF x.item = i THEN n ELSE 0

LEMMA NodesNat ==
  ASSUME Ledger, NEW i
  PROVE  /\ InNodes(i) \in Nat
         /\ \A nd \in Nodes : [x \in Nodes |-> Share(x, i, left[x])][nd] \in Nat
<1> DEFINE f == [x \in Nodes |-> Share(x, i, left[x])]
<1>1. \A nd \in Nodes : f[nd] \in Nat
  BY DEF Ledger, Share
<1>2. DOMAIN f = Nodes /\ InNodes(i) = SumFunction(f)
  BY DEF InNodes, Share
<1> HIDE DEF f
<1>3. SumFunctionOnSet(f, Nodes) \in Nat
  BY <1>1, SumNat, WorldAssumption
<1>4. InNodes(i) \in Nat
  BY <1>2, <1>3 DEF SumFunction
<1> QED BY <1>1, <1>4 DEF f

LEMMA StallsNat ==
  ASSUME Ledger, NEW i
  PROVE  /\ InStalls(i) \in Nat
         /\ \A w \in Wares : [x \in Wares |-> Share(x, i, stock[x])][w] \in Nat
<1> DEFINE f == [x \in Wares |-> Share(x, i, stock[x])]
<1>1. \A w \in Wares : f[w] \in Nat
  BY DEF Ledger, Share
<1>2. DOMAIN f = Wares /\ InStalls(i) = SumFunction(f)
  BY DEF InStalls, Share
<1> HIDE DEF f
<1>3. SumFunctionOnSet(f, Wares) \in Nat
  BY <1>1, SumNat, WorldAssumption
<1>4. InStalls(i) \in Nat
  BY <1>2, <1>3 DEF SumFunction
<1> QED BY <1>1, <1>4 DEF f

\* One node picked.
LEMMA NodePicked ==
  ASSUME Ledger, Ledger', NEW nd \in Nodes, left[nd] > 0, left' = Put(left, nd, left[nd] - 1), NEW i
  PROVE  InNodes(i)' + Share(nd, i, 1) = InNodes(i) /\ InNodes(i)' \in Nat /\ InNodes(i) \in Nat
<1> DEFINE f == [x \in Nodes |-> Share(x, i, left[x])]
           h == [x \in Nodes |-> Share(x, i, left'[x])]
           a == Share(nd, i, 1)
<1>1. left \in [Nodes -> Nat] /\ left' \in [Nodes -> Nat]
  BY DEF Ledger
<1>2. left'[nd] = left[nd] - 1 /\ \A x \in Nodes : x # nd => left'[x] = left[x]
  BY <1>1 DEF Put
<1>3. /\ \A x \in Nodes : f[x] \in Nat /\ h[x] \in Nat
      /\ \A x \in Nodes : x # nd => h[x] = f[x]
      /\ DOMAIN f = Nodes /\ DOMAIN h = Nodes
  BY <1>1, <1>2 DEF Share
<1>4. h[nd] + a = f[nd] + 0 /\ a \in Nat
  BY <1>1, <1>2 DEF Share
<1>5. InNodes(i) = SumFunction(f) /\ InNodes(i)' = SumFunction(h)
  BY DEF InNodes, Share
<1>6. IsFiniteSet(Nodes)
  BY WorldAssumption
<1> HIDE DEF f, h, a
<1>7. /\ SumFunction(h) + a = SumFunction(f) + 0
      /\ SumFunction(h) \in Nat /\ SumFunction(f) \in Nat
  BY <1>3, <1>4, <1>6, OneChanged
<1> QED BY <1>4, <1>5, <1>7 DEF a

\* The stock of one stall changed.
LEMMA StallChanged ==
  ASSUME Ledger, Ledger', NEW w \in Wares, NEW n \in Nat, NEW i,
         \A x \in Wares : x # w => stock'[x] = stock[x]
  PROVE  /\ InStalls(i)' \in Nat /\ InStalls(i) \in Nat /\ Share(w, i, n) \in Nat
         /\ stock'[w] = stock[w] + n => InStalls(i)' = InStalls(i) + Share(w, i, n)
         /\ stock'[w] + n = stock[w] => InStalls(i)' + Share(w, i, n) = InStalls(i)
<1> DEFINE f == [x \in Wares |-> Share(x, i, stock[x])]
           h == [x \in Wares |-> Share(x, i, stock'[x])]
           a == Share(w, i, n)
<1>1. stock \in [Wares -> Nat] /\ stock' \in [Wares -> Nat]
  BY DEF Ledger
<1>2. /\ \A x \in Wares : f[x] \in Nat /\ h[x] \in Nat
      /\ \A x \in Wares : x # w => h[x] = f[x]
      /\ DOMAIN f = Wares /\ DOMAIN h = Wares
  BY <1>1 DEF Share
<1>3. /\ a \in Nat
      /\ stock'[w] = stock[w] + n => h[w] + 0 = f[w] + a
      /\ stock'[w] + n = stock[w] => h[w] + a = f[w] + 0
  BY <1>1 DEF Share
<1>4. InStalls(i) = SumFunction(f) /\ InStalls(i)' = SumFunction(h)
  BY DEF InStalls, Share
<1>5. IsFiniteSet(Wares)
  BY WorldAssumption
<1>6. InStalls(i)' \in Nat /\ InStalls(i) \in Nat
  <2>1. InStalls(i) \in Nat
    BY StallsNat
  <2>2. SumFunctionOnSet(h, Wares) \in Nat
    <3> HIDE DEF h, f
    <3> QED BY <1>2, <1>5, SumNat
  <2>3. SumFunction(h) = SumFunctionOnSet(h, Wares)
    BY <1>2 DEF SumFunction
  <2> QED BY <1>4, <2>1, <2>2, <2>3
<1> HIDE DEF f, h, a
<1>7. ASSUME stock'[w] = stock[w] + n
      PROVE  SumFunction(h) + 0 = SumFunction(f) + a
  BY <1>2, <1>3, <1>5, <1>7, OneChanged
<1>8. ASSUME stock'[w] + n = stock[w]
      PROVE  SumFunction(h) + a = SumFunction(f) + 0
  BY <1>2, <1>3, <1>5, <1>8, OneChanged
<1> QED BY <1>3, <1>4, <1>6, <1>7, <1>8 DEF a

\* The four places.
LEMMA TotalIs ==
  ASSUME NEW i
  PROVE  /\ Total(i) = Hands(Only({i})) + Gnd(Only({i})) + InNodes(i) + InStalls(i)
         /\ Total(i)' = Hands(Only({i}))' + Gnd(Only({i}))' + InNodes(i)' + InStalls(i)'
<1>1. InHands(i) = Hands(Only({i})) /\ OnGround(i) = Gnd(Only({i}))
  BY DEF InHands, OnGround, Hands, Gnd
<1>2. InHands(i)' = Hands(Only({i}))' /\ OnGround(i)' = Gnd(Only({i}))'
  BY DEF InHands, OnGround, Hands, Gnd, Only
<1> QED BY <1>1, <1>2 DEF Total

\* The count that looks at i only.
LEMMA OnlyWorth ==
  ASSUME NEW i, NEW j \in Items, NEW n \in Nat
  PROVE  /\ Worth(Only({i}), j, n) = IF j = i THEN n ELSE 0
         /\ Only({i})[j] = IF j = i THEN 1 ELSE 0
         /\ Only({i}) \in [Items -> Nat]
<1>1. Only({i}) \in [Items -> Nat] /\ Only({i})[j] = IF j = i THEN 1 ELSE 0
  BY OnlyIs
<1> QED BY <1>1 DEF Worth

\* All four are numbers, before and after.
LEMMA AllNat ==
  ASSUME Goods, Ledger, NEW i
  PROVE  /\ Hands(Only({i})) \in Nat /\ Gnd(Only({i})) \in Nat
         /\ InNodes(i) \in Nat /\ InStalls(i) \in Nat
BY OnlyIs, HandsNat, GroundNat, NodesNat, StallsNat

\* Nodes and stalls are as they were.
LEMMA PlacesSame ==
  ASSUME left' = left, stock' = stock, NEW i
  PROVE  InNodes(i)' = InNodes(i) /\ InStalls(i)' = InStalls(i)
BY DEF InNodes, InStalls

LEMMA GetKeepsTotal ==
  ASSUME Goods, Ledger, NEW p \in Players, NEW j \in Items, Get(p, j) \/ DropItem(p, j), NEW i \in Items
  PROVE  Total(i)' = Total(i)
<1> DEFINE c == Only({i})
<1>1. c \in [Items -> Nat] /\ c[j] \in Nat
  BY OnlyIs
<1>2. left' = left /\ stock' = stock
  BY DEF Get, DropItem
<1> HIDE DEF c
<1>3. /\ Apart(p)
      /\ \/ Loads(p, c, 0, c[j]) /\ Lies(c, c[j], 0)
         \/ Loads(p, c, c[j], 0) /\ Lies(c, 0, c[j])
      /\ Carried(c, p)' \in Nat /\ Gnd(c)' \in Nat /\ Gnd(c) \in Nat
  BY <1>1, GetMoves, DropMoves DEF Orderly
<1> DEFINE n == c[j]
<1>4. n \in Nat
  BY <1>1
<1> HIDE DEF n
<1>5. CASE Loads(p, c, 0, n) /\ Lies(c, n, 0)
  <2>1. Hands(c)' + 0 = Hands(c) + n /\ Hands(c)' \in Nat /\ Hands(c) \in Nat
    BY <1>1, <1>3, <1>4, <1>5, HandsChanged
  <2>2. Gnd(c)' + n = Gnd(c) + 0
    BY <1>5 DEF Lies
  <2>3. Hands(c)' + Gnd(c)' = Hands(c) + Gnd(c)
    BY <1>3, <1>4, <2>1, <2>2
  <2> QED BY <1>2, <2>3, PlacesSame, TotalIs DEF c
<1>6. CASE Loads(p, c, n, 0) /\ Lies(c, 0, n)
  <2>1. Hands(c)' + n = Hands(c) + 0 /\ Hands(c)' \in Nat /\ Hands(c) \in Nat
    BY <1>1, <1>3, <1>4, <1>6, HandsChanged
  <2>2. Gnd(c)' + 0 = Gnd(c) + n
    BY <1>6 DEF Lies
  <2>3. Hands(c)' + Gnd(c)' = Hands(c) + Gnd(c)
    BY <1>3, <1>4, <2>1, <2>2
  <2> QED BY <1>2, <2>3, PlacesSame, TotalIs DEF c
<1> QED BY <1>3, <1>5, <1>6 DEF n

LEMMA EquipKeepsTotal ==
  ASSUME Goods, NEW p \in Players, NEW i \in Items,
         \/ \E j \in Items : Equip(p, j)
         \/ \E s \in Slots : Unequip(p, s)
  PROVE  Total(i)' = Total(i)
<1> DEFINE c == Only({i})
<1>1. c \in [Items -> Nat]
  BY OnlyIs
<1>2. left' = left /\ stock' = stock
  BY DEF Equip, Unequip, placeVars
<1> HIDE DEF c
<1>3. Apart(p) /\ ground' = ground /\ Loads(p, c, 0, 0) /\ Carried(c, p)' \in Nat
  BY <1>1, EquipMoves, UnequipMoves DEF Orderly
<1>4. Hands(c)' + 0 = Hands(c) + 0 /\ Hands(c)' \in Nat /\ Hands(c) \in Nat
  BY <1>1, <1>3, HandsChanged
<1>5. Hands(c)' = Hands(c) /\ Gnd(c)' = Gnd(c)
  BY <1>3, <1>4, GroundSame
<1> QED BY <1>2, <1>5, PlacesSame, TotalIs DEF c

LEMMA GetHeavyKeepsTotal ==
  ASSUME Goods, NEW p \in Players, NEW j \in Items, GetHeavy(p, j), NEW i \in Items, ~PutBackTwice
  PROVE  Total(i)' = Total(i)
<1> DEFINE c == Only({i})
<1>1. c \in [Items -> Nat]
  BY OnlyIs
<1>2. left' = left /\ stock' = stock
  BY DEF GetHeavy
<1> HIDE DEF c
<1>3. bag' = bag /\ worn' = worn /\ Lies(c, 0, 0) /\ Gnd(c) \in Nat /\ Gnd(c)' \in Nat
  BY <1>1, GetHeavyMoves
<1>4. Hands(c)' = Hands(c) /\ Gnd(c)' = Gnd(c)
  BY <1>1, <1>3, HandsSame DEF Lies
<1> QED BY <1>2, <1>4, PlacesSame, TotalIs DEF c

LEMMA GatherKeepsTotal ==
  ASSUME Goods, Ledger, Goods', Ledger', NEW p \in Players, NEW nd \in Nodes, Gather(p, nd), NEW i \in Items
  PROVE  Total(i)' = Total(i)
<1> DEFINE c == Only({i})
           n == Share(nd, i, 1)
<1>1. c \in [Items -> Nat] /\ c[nd.item] = n /\ n \in Nat
  BY OnlyWorth, GatherMoves DEF Share
<1>2. left[nd] > 0 /\ left' = Put(left, nd, left[nd] - 1) /\ stock' = stock
  BY DEF Gather
<1>3. InNodes(i)' + n = InNodes(i) /\ InNodes(i)' \in Nat /\ InNodes(i) \in Nat
  BY <1>2, NodePicked
<1>4. InStalls(i)' = InStalls(i)
  BY <1>2 DEF InStalls
<1>5. InStalls(i) \in Nat /\ Gnd(c) \in Nat
  BY AllNat
<1> HIDE DEF c, n
<1>6. Apart(p) /\ ground' = ground /\ Loads(p, c, 0, n) /\ Carried(c, p)' \in Nat
  BY <1>1, GatherMoves DEF Orderly
<1>7. Hands(c)' + 0 = Hands(c) + n /\ Hands(c)' \in Nat /\ Hands(c) \in Nat
  BY <1>1, <1>6, HandsChanged
<1>8. Gnd(c)' = Gnd(c)
  BY <1>6, GroundSame
<1>9. Hands(c)' + Gnd(c)' + InNodes(i)' + InStalls(i)' = Hands(c) + Gnd(c) + InNodes(i) + InStalls(i)
  BY <1>1, <1>3, <1>4, <1>5, <1>7, <1>8
<1> QED BY <1>9, TotalIs DEF c

LEMMA TradeKeepsTotal ==
  ASSUME Goods, Ledger, Ledger', NEW p \in Players, NEW w \in Wares, NEW n \in 1..MaxTrade,
         Sell(p, w, n) \/ Buy(p, w, n), NEW i \in Items
  PROVE  Total(i)' = Total(i)
<1> DEFINE c == Only({i})
           m == Share(w, i, n)
<1>1. n \in Nat
  BY Lot
<1>2. c \in [Items -> Nat] /\ Worth(c, w.item, n) = m
  <2>1. w.item \in Items
    BY WorldAssumption
  <2> QED BY <1>1, <2>1, OnlyWorth DEF Share
<1>3. left' = left /\ stock[w] \in Nat /\ stock \in [Wares -> Nat]
  BY DEF Sell, Buy, Ledger
<1>4. /\ \A x \in Wares : x # w => stock'[x] = stock[x]
      /\ Sell(p, w, n) => stock'[w] = stock[w] + n
      /\ Buy(p, w, n) => stock'[w] + n = stock[w]
  <2>1. Sell(p, w, n) => stock' = Put(stock, w, stock[w] + n)
    BY DEF Sell
  <2>2. Buy(p, w, n) => stock' = Put(stock, w, stock[w] - n)
    BY DEF Buy
  <2> QED BY <1>1, <1>3, <2>1, <2>2 DEF Put
<1>5. /\ InStalls(i)' \in Nat /\ InStalls(i) \in Nat /\ m \in Nat
      /\ Sell(p, w, n) => InStalls(i)' = InStalls(i) + m
      /\ Buy(p, w, n) => InStalls(i)' + m = InStalls(i)
  BY <1>1, <1>4, StallChanged
<1>6. InNodes(i)' = InNodes(i) /\ InNodes(i) \in Nat /\ Gnd(c) \in Nat
  BY <1>3, AllNat DEF InNodes
<1> HIDE DEF c, m
<1>7. CASE Sell(p, w, n)
  <2>1. Apart(p) /\ ground' = ground /\ Loads(p, c, m, 0) /\ Carried(c, p)' \in Nat
    BY <1>2, <1>7, SellMoves DEF Orderly
  <2>2. Hands(c)' + m = Hands(c) + 0 /\ Hands(c)' \in Nat /\ Hands(c) \in Nat
    BY <1>2, <1>5, <2>1, HandsChanged
  <2>3. Gnd(c)' = Gnd(c)
    BY <2>1, GroundSame
  <2>4. Hands(c)' + Gnd(c)' + InNodes(i)' + InStalls(i)' = Hands(c) + Gnd(c) + InNodes(i) + InStalls(i)
    BY <1>5, <1>6, <1>7, <2>2, <2>3
  <2> QED BY <2>4, TotalIs DEF c
<1>8. CASE Buy(p, w, n)
  <2>1. Apart(p) /\ ground' = ground /\ Loads(p, c, 0, m) /\ Carried(c, p)' \in Nat
    BY <1>2, <1>8, BuyMoves DEF Orderly
  <2>2. Hands(c)' + 0 = Hands(c) + m /\ Hands(c)' \in Nat /\ Hands(c) \in Nat
    BY <1>2, <1>5, <2>1, HandsChanged
  <2>3. Gnd(c)' = Gnd(c)
    BY <2>1, GroundSame
  <2>4. Hands(c)' + Gnd(c)' + InNodes(i)' + InStalls(i)' = Hands(c) + Gnd(c) + InNodes(i) + InStalls(i)
    BY <1>5, <1>6, <1>8, <2>2, <2>3
  <2> QED BY <2>4, TotalIs DEF c
<1> QED BY <1>7, <1>8

\* A toll takes one unit or none of i.
LEMMA MoveTotal ==
  ASSUME Goods, Ledger, NEW p \in Players, NEW dest \in Rooms, Move(p, dest), NEW i \in Items
  PROVE  Total(i)' = Total(i) \/ Total(i)' = Total(i) - 1
<1> DEFINE c == Only({i})
           j == FirstTradeItem(p)
<1>1. c \in [Items -> Nat] /\ (j \in Items => c[j] \in {0, 1})
  BY OnlyIs
<1>2. left' = left /\ stock' = stock
  BY DEF Move, placeVars
<1>3. /\ InNodes(i)' = InNodes(i) /\ InStalls(i)' = InStalls(i)
      /\ InNodes(i) \in Nat /\ InStalls(i) \in Nat /\ Gnd(c) \in Nat
  BY <1>2, PlacesSame, AllNat
<1> DEFINE n == c[j]
<1>4. /\ Apart(p) /\ ground' = ground
      /\ \/ bag' = bag /\ worn' = worn
         \/ j \in Items /\ Loads(p, c, n, 0) /\ Carried(c, p)' \in Nat
  BY <1>1, MoveMoves DEF Orderly
<1>5. j \in Items => n \in {0, 1}
  BY <1>1
<1> HIDE DEF c, j, n
<1>6. Gnd(c)' = Gnd(c)
  BY <1>4, GroundSame
<1>7. CASE bag' = bag /\ worn' = worn
  <2>1. Hands(c)' = Hands(c)
    BY <1>1, <1>7, HandsSame
  <2> QED BY <1>3, <1>6, <2>1, TotalIs DEF c
<1>8. CASE j \in Items /\ Loads(p, c, n, 0) /\ Carried(c, p)' \in Nat
  <2>1. n \in Nat
    BY <1>5, <1>8
  <2>2. Hands(c)' + n = Hands(c) + 0 /\ Hands(c)' \in Nat /\ Hands(c) \in Nat
    BY <1>1, <1>4, <1>8, <2>1, HandsChanged
  <2> DEFINE T == Hands(c) + Gnd(c) + InNodes(i) + InStalls(i)
             U == Hands(c)' + Gnd(c)' + InNodes(i)' + InStalls(i)'
  <2>3. U = T \/ U = T - 1
    BY <1>3, <1>5, <1>6, <1>8, <2>2
  <2> QED BY <2>3, TotalIs DEF c
<1> QED BY <1>4, <1>7, <1>8

LEMMA WeighOne ==
  ASSUME NEW c \in [Items -> Nat], NEW x \in Pile(Items)
  PROVE  Weigh(c, <<x>>) = Worth(c, x.id, x.n) /\ Worth(c, x.id, x.n) \in Nat
<1>1. Append(<<>>, x) = <<x>> /\ <<>> \in Seq(Pile(Items))
  OBVIOUS
<1>2. Weigh(c, Append(<<>>, x)) = Weigh(c, <<>>) + Worth(c, x.id, x.n)
  BY <1>1, WeighAppended
<1>3. x.id \in Items /\ x.n \in Nat
  BY DEF Pile
<1>4. Worth(c, x.id, x.n) \in Nat
  BY <1>3, WorthNat
<1> QED BY <1>1, <1>2, <1>4, WeighEmpty

LEMMA CraftTotal ==
  ASSUME Goods, Ledger, NEW p \in Players, NEW rec \in Recipes, Craft(p, rec), NEW i \in Items
  PROVE  Crafted(i)
<1> DEFINE c == Only({i})
           a == Weigh(c, rec.in)
           z == Worth(c, rec.out.id, rec.out.n)
<1>1. c \in [Items -> Nat] /\ rec.out \in Pile(Items)
  BY OnlyIs, WorldAssumption
<1>2. Weigh(c, <<rec.out>>) = z
  BY <1>1, WeighOne
<1>3. left' = left /\ stock' = stock
  BY DEF Craft, placeVars
<1>4. /\ InNodes(i)' = InNodes(i) /\ InStalls(i)' = InStalls(i)
      /\ InNodes(i) \in Nat /\ InStalls(i) \in Nat /\ Gnd(c) \in Nat
  BY <1>3, PlacesSame, AllNat
<1>5. Apart(p) /\ ground' = ground /\ Loads(p, c, a, z) /\ Carried(c, p)' \in Nat /\ a \in Nat /\ z \in Nat
  BY <1>1, CraftMoves DEF Orderly
<1> HIDE DEF a, z, c
<1>6. Hands(c)' + a = Hands(c) + z /\ Hands(c)' \in Nat /\ Hands(c) \in Nat
  BY <1>1, <1>5, HandsChanged
<1>7. Gnd(c)' = Gnd(c)
  BY <1>5, GroundSame
<1> DEFINE T == Hands(c) + Gnd(c) + InNodes(i) + InStalls(i)
           U == Hands(c)' + Gnd(c)' + InNodes(i)' + InStalls(i)'
<1>8. U = T + z - a
  BY <1>4, <1>5, <1>6, <1>7
<1>9. Total(i)' = U /\ Total(i) = T
  BY TotalIs DEF c
<1> HIDE DEF T, U
<1>10. Total(i)' = Total(i) + Weigh(Only({i}), <<rec.out>>) - Weigh(Only({i}), rec.in)
  BY <1>2, <1>8, <1>9 DEF a, c
<1> QED BY <1>10 DEF Crafted

LEMMA CraftShortTotal ==
  ASSUME Goods, NEW p \in Players, NEW rec \in Recipes, CraftShort(p, rec), NEW i \in Items, ~HalfCrafted(i)
  PROVE  Total(i)' = Total(i)
<1> DEFINE c == Only({i})
<1>1. i \in Items \ (Materials(rec) \cup LastBut(bag[p], Materials(rec)))
  BY DEF HalfCrafted
<1>2. c \in [Items -> Nat]
  BY OnlyIs
<1>3. left' = left /\ stock' = stock
  BY DEF CraftShort, placeVars
<1>4. Apart(p) /\ ground' = ground /\ Loads(p, c, 0, 0) /\ Carried(c, p)' \in Nat
  BY <1>1, CraftShortMoves
<1> HIDE DEF c
<1>5. Hands(c)' + 0 = Hands(c) + 0 /\ Hands(c)' \in Nat /\ Hands(c) \in Nat
  BY <1>2, <1>4, HandsChanged
<1>6. Hands(c)' = Hands(c) /\ Gnd(c)' = Gnd(c)
  BY <1>4, <1>5, GroundSame
<1> QED BY <1>3, <1>6, PlacesSame, TotalIs DEF c

LEMMA IdleTotal ==
  ASSUME Goods, Idle, ~Tick, NEW i \in Items
  PROVE  Total(i)' = Total(i)
<1>1. bag' = bag /\ worn' = worn /\ ground' = ground
  BY IdleKeeps
<1>2. left' = left /\ stock' = stock
  BY DEF Idle, Enter, LeaveWorld, PracticeSkill, Meet, vars, placeVars
<1>3. Only({i}) \in [Items -> Nat]
  BY OnlyIs
<1>4. Hands(Only({i}))' = Hands(Only({i})) /\ Gnd(Only({i}))' = Gnd(Only({i}))
  BY <1>1, <1>3, HandsSame, GroundSame
<1> QED BY <1>2, <1>4, PlacesSame, TotalIs

\* How the number of units of i may change.
Accounted(i) == Crafted(i) \/ HalfCrafted(i) \/ Tolled(i) \/ Tick \/ PutBackTwice

LEMMA StepTotal ==
  ASSUME Goods, Ledger, Goods', Ledger', [Next]_vars, NEW i \in Items, Total(i)' # Total(i)
  PROVE  Accounted(i)
<1>1. ASSUME Idle PROVE Accounted(i)
  BY <1>1, IdleTotal DEF Accounted
<1>2. ASSUME NEW p \in Players, Handles(p) PROVE Accounted(i)
  <2>1. ASSUME NEW dest \in Rooms, Move(p, dest) PROVE Accounted(i)
    BY <2>1, MoveTotal DEF Accounted, Tolled
  <2>2. ASSUME NEW j \in Items, Get(p, j) \/ DropItem(p, j) PROVE FALSE
    BY <2>2, GetKeepsTotal
  <2>3. ASSUME NEW j \in Items, GetHeavy(p, j) PROVE Accounted(i)
    BY <2>3, GetHeavyKeepsTotal DEF Accounted
  <2>4. ASSUME \/ \E j \in Items : Equip(p, j)
               \/ \E s \in Slots : Unequip(p, s)
        PROVE FALSE
    BY <2>4, EquipKeepsTotal
  <2>5. ASSUME NEW nd \in Nodes, Gather(p, nd) PROVE FALSE
    BY <2>5, GatherKeepsTotal
  <2>6. ASSUME NEW rec \in Recipes, Craft(p, rec) PROVE Accounted(i)
    BY <2>6, CraftTotal DEF Accounted
  <2>7. ASSUME NEW rec \in Recipes, CraftShort(p, rec) PROVE Accounted(i)
    BY <2>7, CraftShortTotal DEF Accounted
  <2>8. ASSUME NEW w \in Wares, NEW n \in 1..MaxTrade, Sell(p, w, n) \/ Buy(p, w, n) PROVE FALSE
    BY <2>8, TradeKeepsTotal
  <2> QED BY <1>2, <2>1, <2>2, <2>3, <2>4, <2>5, <2>6, <2>7, <2>8 DEF Handles
<1> QED BY <1>1, <1>2, NextCases

\* Goods are neither made nor lost but by crafting, the toll and the tick, and by the two
\* commands that change an array others read, for any number of players, piles, nodes and
\* stalls: every other command moves them between bag, slots, ground, node and stall.
\* (engine/inventory.go, livelihood.go)
THEOREM GoodsConserved == Spec => Conserved
<1>1. Goods /\ [Next]_vars => Goods'
  BY StepWell
<1>2. Goods /\ Ledger /\ Goods' /\ Ledger' /\ [Next]_vars =>
        [\A i \in Items : Total(i)' # Total(i) =>
           Crafted(i) \/ HalfCrafted(i) \/ Tolled(i) \/ Tick \/ PutBackTwice]_vars
  BY StepTotal DEF Accounted
<1> QED BY <1>1, <1>2, GoodsFirst, LedgerHolds, PTL DEF Spec, Conserved

=============================================================================
