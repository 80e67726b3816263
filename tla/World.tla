------------------------------- MODULE World -------------------------------
(***************************************************************************)
(* What commands do to players, rooms, gathering nodes and stalls          *)
(* (internal/engine/inventory.go, livelihood.go, practice.go, story.go).   *)
(*                                                                         *)
(* The loop handles one command at a time, so every action is one whole    *)
(* handler.  A refused command answers and changes nothing: it is a        *)
(* stuttering step, except where the code has already changed a pile in    *)
(* place (GetHeavy, CraftShort).                                           *)
(* A player away keeps the sheet that was saved; module Lifecycle says     *)
(* when it really does.                                                    *)
(***************************************************************************)
EXTENDS Stacks, PriceBook, SkillSheet, SequencesExt

CONSTANTS Players, Rooms, Away, Spawn,
          Exits,        \* pairs of rooms
          Items, NoItem, Weight, SlotOf, NoSlot,
          FirstGround,  \* piles on the ground at boot
          Nodes,        \* [room, item, skill, max, every]
          Recipes,      \* [skill, rooms, tool, in, out]: rooms carry the recipe's flag
          MarketAt,     \* market of a room, NoMarket where there is none
          NoMarket,
          Wares,        \* [market, item, base, demand, stock, target]
          Haggle,       \* the skill trading trains
          Checkpoints,
          Topics,       \* [room, name]: people to talk to, things to examine
          BagCap, TradeBulk, TollNyang, MarketTickEvery,
          FirstNyang,   \* purse of a player's first sheet
          Period,       \* bound: ticks are counted modulo this common multiple
          MaxTrade,     \* bound: units named in one sell or buy
          MaxNyang, MaxStock, MaxGround  \* bounds on purse, stall and the units on one room's ground

VARIABLES room, bag, worn, nyang, ranks, stats, told, ground, left, stock, ticks

bodyVars  == <<bag, worn, nyang, ranks, stats, told>>
placeVars == <<ground, left, stock, ticks>>
vars == <<room, bag, worn, nyang, ranks, stats, told, ground, left, stock, ticks>>

Slots == {SlotOf[i] : i \in Items} \ {NoSlot}

ASSUME WorldAssumption ==
  /\ \A S \in {Players, Rooms, Items, Nodes, Wares} : IsFiniteSet(S)
  /\ Spawn \in Rooms /\ Away \notin Rooms /\ NoItem \notin Items
  /\ Exits \subseteq Rooms \X Rooms
  /\ Weight \in [Items -> Nat]
  /\ FirstGround \in [Rooms -> Seq(Pile(Items))]
  /\ \A nd \in Nodes : nd.item \in Items /\ nd.max \in Nat /\ nd.every \in Nat
  /\ \A nd \in Nodes : nd.every > 0 => Period % nd.every = 0
  /\ Period \in Nat \ {0} /\ MarketTickEvery \in Nat \ {0} /\ Period % MarketTickEvery = 0
  /\ {FirstNyang, TollNyang, MaxTrade, BagCap} \subseteq Nat /\ TradeBulk \in Nat \ {0}
  /\ \A rec \in Recipes : rec.in \in Seq(Pile(Items)) /\ rec.out \in Pile(Items)
  /\ \A w \in Wares : w.item \in Items /\ w.base \in Nat \ {0} /\ w.demand \in Nat \ {0} /\ w.stock \in Nat /\ w.target \in Nat

TypeOK ==
  /\ room \in [Players -> Rooms \cup {Away}]
  /\ \A p \in Players : bag[p] \in Seq(Pile(Items))
  /\ worn \in [Players -> [Slots -> Items \cup {NoItem}]]
  /\ nyang \in [Players -> Nat]
  /\ ranks \in [Players -> [Skills -> Nat]]
  /\ stats \in [Players -> [Stats -> Nat]]
  /\ told \in [Players -> SUBSET Topics]
  /\ \A r \in Rooms : ground[r] \in Seq(Pile(Items))
  /\ \A nd \in Nodes : left[nd] \in 0..nd.max
  /\ stock \in [Wares -> Nat]
  /\ ticks \in 0..(Period - 1)

Init ==
  /\ room = [p \in Players |-> Away]
  /\ bag = [p \in Players |-> <<>>]
  /\ worn = [p \in Players |-> [s \in Slots |-> NoItem]]
  /\ nyang = [p \in Players |-> FirstNyang]
  /\ ranks = [p \in Players |-> [s \in Skills |-> 0]]
  /\ stats = [p \in Players |-> [s \in Stats |-> 0]]
  /\ told = [p \in Players |-> {}]
  /\ ground = FirstGround
  /\ left = [nd \in Nodes |-> nd.max]
  /\ stock = [w \in Wares |-> w.stock]
  /\ ticks = 0

-----------------------------------------------------------------------------
Here(p) == room[p] # Away

\* Bag and slots of p, counted alike.
Carried(c, p) ==
  Weigh(c, bag[p]) + SumFunction([s \in Slots |-> IF worn[p][s] = NoItem THEN 0 ELSE c[worn[p][s]]])

CarryWeight(p) == Carried(Weight, p)

\* The count that looks at the items of S only.
Only(S) == [i \in Items |-> IF i \in S THEN 1 ELSE 0]

Put(f, x, v) == [f EXCEPT ![x] = v]

\* applyGain: one trial of a skill, when the catalog has it.
ApplyGain(p, sk) ==
  \E t \in TryGain(ranks[p], stats[p], sk) :
    ranks' = Put(ranks, p, t[1]) /\ stats' = Put(stats, p, t[2])

-----------------------------------------------------------------------------
(* Coming and going. *)

Enter(p) ==
  /\ ~Here(p)
  /\ room' = Put(room, p, Spawn)
  /\ UNCHANGED <<bodyVars, placeVars>>

LeaveWorld(p) ==
  /\ Here(p)
  /\ room' = Put(room, p, Away)
  /\ UNCHANGED <<bodyVars, placeVars>>

Traded == {w.item : w \in Wares}
TradeQty(p) == Weigh(Only(Traded), bag[p])
FirstTradeItem(p) == bag[p][First({k \in DOMAIN bag[p] : bag[p][k].n > 0 /\ bag[p][k].id \in Traded})].id

\* maybeToll: carrying bulk into a checkpoint may cost coin, or else goods.
Stopped(p, dest) == dest \in Checkpoints /\ TradeQty(p) >= TradeBulk

Move(p, dest) ==
  /\ Here(p) /\ <<room[p], dest>> \in Exits
  /\ room' = Put(room, p, dest)
  /\ \/ UNCHANGED <<bag, nyang>>
     \/ /\ Stopped(p, dest) /\ nyang[p] >= TollNyang
        /\ nyang' = Put(nyang, p, nyang[p] - TollNyang)
        /\ UNCHANGED bag
     \/ /\ Stopped(p, dest) /\ nyang[p] < TollNyang
        /\ bag' = Put(bag, p, TakeStack(bag[p], FirstTradeItem(p), 1))
        /\ UNCHANGED nyang
  /\ UNCHANGED <<worn, ranks, stats, told, placeVars>>

-----------------------------------------------------------------------------
(* Things. *)

\* The bound on a room's ground.
Spacious(r) == Weigh(Only(Items), ground[r]) < MaxGround

Fits(p, i, n) == CarryWeight(p) + Weight[i] * n <= BagCap

Get(p, i) ==
  /\ Here(p) /\ CanTake(ground[room[p]], i, 1) /\ Fits(p, i, 1)
  /\ ground' = Put(ground, room[p], TakeStack(ground[room[p]], i, 1))
  /\ bag' = Put(bag, p, AddStack(bag[p], i, 1))
  /\ UNCHANGED <<room, worn, nyang, ranks, stats, told, left, stock, ticks>>

\* Too heavy: the unit is put back, into the slice header from before it was taken.
GetHeavy(p, i) ==
  /\ Here(p) /\ CanTake(ground[room[p]], i, 1) /\ ~Fits(p, i, 1)
  /\ Spacious(room[p])
  /\ ground' = Put(ground, room[p], AddStack(Leftover(ground[room[p]], i, 1), i, 1))
  /\ UNCHANGED <<room, bodyVars, left, stock, ticks>>

DropItem(p, i) ==
  /\ Here(p) /\ CanTake(bag[p], i, 1) /\ Spacious(room[p])
  /\ bag' = Put(bag, p, TakeStack(bag[p], i, 1))
  /\ ground' = Put(ground, room[p], AddStack(ground[room[p]], i, 1))
  /\ UNCHANGED <<room, worn, nyang, ranks, stats, told, left, stock, ticks>>

Equip(p, i) ==
  /\ Here(p) /\ SlotOf[i] # NoSlot /\ CanTake(bag[p], i, 1)
  /\ LET rest == TakeStack(bag[p], i, 1)
         prev == worn[p][SlotOf[i]]
     IN bag' = Put(bag, p, IF prev = NoItem THEN rest ELSE AddStack(rest, prev, 1))
  /\ worn' = [worn EXCEPT ![p][SlotOf[i]] = i]
  /\ UNCHANGED <<room, nyang, ranks, stats, told, placeVars>>

Unequip(p, s) ==
  /\ Here(p) /\ worn[p][s] # NoItem
  /\ bag' = Put(bag, p, AddStack(bag[p], worn[p][s], 1))
  /\ worn' = [worn EXCEPT ![p][s] = NoItem]
  /\ UNCHANGED <<room, nyang, ranks, stats, told, placeVars>>

-----------------------------------------------------------------------------
(* Livelihood. *)

\* Slip: the node is only looked at.
GatherFree(p, nd) ==
  /\ Here(p) /\ room[p] = nd.room /\ left[nd] > 0 /\ Fits(p, nd.item, 1)
  /\ bag' = Put(bag, p, AddStack(bag[p], nd.item, 1))
  /\ ApplyGain(p, nd.skill)
  /\ UNCHANGED <<room, worn, nyang, told, placeVars>>

Gather(p, nd) ==
  /\ Here(p) /\ room[p] = nd.room /\ left[nd] > 0 /\ Fits(p, nd.item, 1)
  /\ left' = Put(left, nd, left[nd] - 1)
  /\ bag' = Put(bag, p, AddStack(bag[p], nd.item, 1))
  /\ ApplyGain(p, nd.skill)
  /\ UNCHANGED <<room, worn, nyang, told, ground, stock, ticks>>

Holds(p, i) == (\E s \in Slots : worn[p][s] = i) \/ QtyOf(bag[p], i) > 0

\* Slip: the weight of what is made is not looked at.
CanCraftHeavy(p, rec) ==
  /\ Here(p) /\ room[p] \in rec.rooms
  /\ rec.tool = NoItem \/ Holds(p, rec.tool)
  /\ \A k \in DOMAIN rec.in : QtyOf(bag[p], rec.in[k].id) >= rec.in[k].n

\* Station, tool, materials and weight, as doCraft asks before taking anything.
CanCraft(p, rec) ==
  /\ Here(p) /\ room[p] \in rec.rooms
  /\ rec.tool = NoItem \/ Holds(p, rec.tool)
  /\ \A k \in DOMAIN rec.in : QtyOf(bag[p], rec.in[k].id) >= rec.in[k].n
  /\ CarryWeight(p) + Weight[rec.out.id] * rec.out.n
       <= BagCap + Weigh(Weight, rec.in)

\* One more material taken: what is left, what the player's own slice header
\* reads meanwhile, and whether every one was there.
TakeNext(t, in) ==
  IF t.ok /\ CanTake(t.rest, in.id, in.n)
  THEN [ok |-> TRUE,
        rest |-> TakeStack(t.rest, in.id, in.n),
        old |-> Leftover(t.rest, in.id, in.n) \o SubSeq(t.old, Len(t.rest) + 1, Len(t.old))]
  ELSE [t EXCEPT !.ok = FALSE]

TakeAll(b, ins) == FoldLeft(TakeNext, [ok |-> TRUE, rest |-> b, old |-> b], ins)

Craft(p, rec) ==
  /\ CanCraft(p, rec)
  /\ LET t == TakeAll(bag[p], rec.in) IN
       t.ok /\ bag' = Put(bag, p, AddStack(t.rest, rec.out.id, rec.out.n))
  /\ ApplyGain(p, rec.skill)
  /\ UNCHANGED <<room, worn, nyang, told, placeVars>>

\* A recipe that names one material twice may run short half-way; the entry on
\* the roster is not written back but its piles were already changed.
CraftShort(p, rec) ==
  /\ CanCraft(p, rec) /\ ~TakeAll(bag[p], rec.in).ok
  /\ bag' = Put(bag, p, TakeAll(bag[p], rec.in).old)
  /\ UNCHANGED <<room, worn, nyang, ranks, stats, told, placeVars>>

Quote(w) == Price(w.base, w.demand, stock[w], w.target)

\* Slip: the shortened bag is not written back.
SellUnwritten(p, w, n) ==
  /\ Here(p) /\ MarketAt[room[p]] = w.market
  /\ QtyOf(bag[p], w.item) >= n
  /\ nyang[p] + Quote(w) * n <= MaxNyang /\ stock[w] + n <= MaxStock
  /\ stock' = Put(stock, w, stock[w] + n)
  /\ nyang' = Put(nyang, p, nyang[p] + Quote(w) * n)
  /\ ApplyGain(p, Haggle)
  /\ UNCHANGED <<room, bag, worn, told, ground, left, ticks>>

Sell(p, w, n) ==
  /\ Here(p) /\ MarketAt[room[p]] = w.market
  /\ QtyOf(bag[p], w.item) >= n
  /\ nyang[p] + Quote(w) * n <= MaxNyang /\ stock[w] + n <= MaxStock
  /\ bag' = Put(bag, p, TakeStack(bag[p], w.item, n))
  /\ stock' = Put(stock, w, stock[w] + n)
  /\ nyang' = Put(nyang, p, nyang[p] + Quote(w) * n)
  /\ ApplyGain(p, Haggle)
  /\ UNCHANGED <<room, worn, told, ground, left, ticks>>

\* Slip: one unit is weighed and one unit is priced, whatever the quantity.
BuyOne(p, w, n) ==
  /\ Here(p) /\ MarketAt[room[p]] = w.market
  /\ stock[w] >= n /\ nyang[p] >= Quote(w) /\ Fits(p, w.item, 1)
  /\ stock' = Put(stock, w, stock[w] - n)
  /\ nyang' = Put(nyang, p, nyang[p] - Quote(w) * n)
  /\ bag' = Put(bag, p, AddStack(bag[p], w.item, n))
  /\ ApplyGain(p, Haggle)
  /\ UNCHANGED <<room, worn, told, ground, left, ticks>>

Buy(p, w, n) ==
  /\ Here(p) /\ MarketAt[room[p]] = w.market
  /\ stock[w] >= n /\ nyang[p] >= Quote(w) * n /\ Fits(p, w.item, n)
  /\ stock' = Put(stock, w, stock[w] - n)
  /\ nyang' = Put(nyang, p, nyang[p] - Quote(w) * n)
  /\ bag' = Put(bag, p, AddStack(bag[p], w.item, n))
  /\ ApplyGain(p, Haggle)
  /\ UNCHANGED <<room, worn, told, ground, left, ticks>>

-----------------------------------------------------------------------------
(* Practice and story. *)

PracticeSkill(p, sk) ==
  /\ Here(p) /\ ApplyGain(p, sk)
  /\ UNCHANGED <<room, bag, worn, nyang, told, placeVars>>

\* talk, examine: the first time sets a flag for good.
Meet(p, tp) ==
  /\ Here(p) /\ room[p] = tp.room
  /\ told' = Put(told, p, told[p] \cup {tp})
  /\ UNCHANGED <<room, bag, worn, nyang, ranks, stats, placeVars>>

-----------------------------------------------------------------------------
(* The tick: nodes grow back, stalls drift towards their target. *)

\* Slip: a node grows past its maximum.
RegenPast(nd, now) ==
  IF nd.every > 0 /\ now % nd.every = 0 THEN left[nd] + 1 ELSE left[nd]

\* Slip: a picked-clean node stays bare.
RegenLive(nd, now) ==
  IF nd.every > 0 /\ now % nd.every = 0 /\ left[nd] > 0 /\ left[nd] < nd.max THEN left[nd] + 1 ELSE left[nd]

Regen(nd, now) ==
  IF nd.every > 0 /\ now % nd.every = 0 /\ left[nd] < nd.max THEN left[nd] + 1 ELSE left[nd]

\* Slip: a sold-out good is not restocked.
DriftLive(w) ==
  IF stock[w] > w.target THEN stock[w] - 1 ELSE stock[w]

Drift(w) ==
  IF stock[w] < w.target THEN stock[w] + 1
  ELSE IF stock[w] > w.target THEN stock[w] - 1 ELSE stock[w]

Tick ==
  LET now == (ticks + 1) % Period IN
    /\ ticks' = now
    /\ left' = [nd \in Nodes |-> Regen(nd, now)]
    /\ stock' = IF now % MarketTickEvery = 0 THEN [w \in Wares |-> Drift(w)] ELSE stock
    /\ UNCHANGED <<room, bodyVars, ground>>

Command(p) ==
  \/ Enter(p) \/ LeaveWorld(p)
  \/ \E dest \in Rooms : Move(p, dest)
  \/ \E i \in Items : Get(p, i) \/ GetHeavy(p, i) \/ DropItem(p, i) \/ Equip(p, i)
  \/ \E s \in Slots : Unequip(p, s)
  \/ \E nd \in Nodes : Gather(p, nd)
  \/ \E rec \in Recipes : Craft(p, rec) \/ CraftShort(p, rec)
  \/ \E w \in Wares, n \in 1..MaxTrade : Sell(p, w, n) \/ Buy(p, w, n)
  \/ \E sk \in Skills : PracticeSkill(p, sk)
  \/ \E tp \in Topics : Meet(p, tp)

Next == Tick \/ \E p \in Players : Command(p)

Spec == Init /\ [][Next]_vars

\* The ticker keeps firing.
FairSpec == Spec /\ WF_vars(Tick)
-----------------------------------------------------------------------------
(* Properties. *)

InHands(i)  == SumFunction([p \in Players |-> Carried(Only({i}), p)])
OnGround(i) == SumFunction([r \in Rooms |-> Weigh(Only({i}), ground[r])])
InNodes(i)  == SumFunction([nd \in Nodes |-> IF nd.item = i THEN left[nd] ELSE 0])
InStalls(i) == SumFunction([w \in Wares |-> IF w.item = i THEN stock[w] ELSE 0])

Total(i) == InHands(i) + OnGround(i) + InNodes(i) + InStalls(i)

RunsShort(p) == \E rec \in Recipes : CraftShort(p, rec)

\* A bag never gets two piles of one item nor an empty pile, whatever was taken
\* and added in place ("Qty is >= 1 when stored", item.go; joinStacks, qtyOfBag
\* and TakeStack look at one pile per item), but by a craft that runs short.
BagsTidy ==
  [][\A p \in Players : Tidy(bag[p]) => Tidy(bag'[p]) \/ RunsShort(p)]_vars

\* No load grows past the limit, equipment included, whichever way the goods
\* came: get, gather, craft, buy, equip, unequip; but by a craft that runs
\* short.  (BagCap, loop.go)
CarryLimit ==
  [][\A p \in Players :
       \/ CarryWeight(p)' <= BagCap \/ CarryWeight(p)' <= CarryWeight(p)
       \/ RunsShort(p)]_vars

\* Ranks and stats stay under their caps, one by one and in sum, whatever mix of
\* practice, gathering, crafting and trading raised them.  (skill/sheet.go)
SkillCaps ==
  \A p \in Players :
    /\ \A sk \in Skills : ranks[p][sk] <= RankCap
    /\ \A st \in Stats : stats[p][st] <= StatCap
    /\ SumFunction(ranks[p]) <= RankSumCap /\ SumFunction(stats[p]) <= StatSumCap

\* The ways the number of units of i in the world may change.
Crafted(i) ==
  \E p \in Players, rec \in Recipes :
    /\ Craft(p, rec)
    /\ Total(i)' = Total(i) + Weigh(Only({i}), <<rec.out>>) - Weigh(Only({i}), rec.in)
\* A recipe that names a material twice took the first and found no second: the
\* pile is gone, or the piles after it moved up and the last is there twice.  The
\* last is of a material, or the last that is not.
Materials(rec) == {rec.in[k].id : k \in DOMAIN rec.in}
LastBut(b, M) == {b[k].id : k \in {j \in DOMAIN b : \A h \in (j + 1)..Len(b) : b[h].id \in M}}
HalfCrafted(i) ==
  \E p \in Players, rec \in Recipes :
    CraftShort(p, rec) /\ i \in Materials(rec) \cup LastBut(bag[p], Materials(rec))
Tolled(i)  == \E p \in Players, r \in Rooms : Move(p, r) /\ Total(i)' = Total(i) - 1
\* The defect GetMovesOne states: a used-up pile with others after it.
PutBackTwice ==
  \E p \in Players, i \in Items :
    /\ GetHeavy(p, i)
    /\ LET g == ground[room[p]]
           k == First(Serving(g, i, 1)) IN g[k].n = 1 /\ k < Len(g)

\* Goods are neither made nor lost but by crafting, the toll and the tick; every
\* other command moves them between bag, slots, ground, node and stall.
\* (inventory.go, livelihood.go)
Conserved ==
  [][\A i \in Items : Total(i)' # Total(i) =>
       Crafted(i) \/ HalfCrafted(i) \/ Tolled(i) \/ Tick \/ PutBackTwice]_vars

\* Selling eases a quote and buying raises it, at every stock and target and with
\* the rounding.  ("Selling raises stock (price eases). Buying lowers it.", D-043)
PriceEases ==
  [][\A w \in Wares : stock'[w] >= stock[w] => Quote(w)' <= Quote(w)]_vars

\* A node picked clean grows back, however greedily it is gathered.  (Stock.Regen)
Regrows == \A nd \in Nodes : left[nd] = 0 ~> left[nd] > 0

\* A good that is sold out comes back.  (Book.Tick)
Restocks == \A w \in Wares : stock[w] = 0 ~> stock[w] > 0

-----------------------------------------------------------------------------
(* What the comments say, as stated. *)

\* "Get moves one ground unit of ItemID into the bag if weight allows": when it
\* does not, nothing moves.  (engine/command.go)
GetMovesOne ==
  [][\A p \in Players, i \in Items : GetHeavy(p, i) =>
       \A j \in Items : Total(j)' = Total(j)]_vars
=============================================================================
