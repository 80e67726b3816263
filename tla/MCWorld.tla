------------------------------ MODULE MCWorld ------------------------------
(* World on small instances the loaders accept: a shared room, a trade road, a workshop. *)
EXTENDS Content, TLC

CONSTANTS ann, yard, road, away, herb, iron, pan, knife, none, hand, smith, haggle, wit

P(i, n) == [id |-> i, n |-> n]

One == {ann}
OneRoom == {yard}
TwoRooms == {yard, road}
NoExits == {}
BackAndForth == {<<yard, road>>, <<road, yard>>}
AllItems == {herb, iron, pan, knife}
HerbOnly == {herb}
Weights == [i \in Items |-> IF i = pan THEN 2 ELSE 1]
SlotsOf == [i \in Items |-> IF i \in {pan, knife} THEN hand ELSE none]
Nothing == {}
NoGround == [r \in Rooms |-> <<>>]
NoMarkets == [r \in Rooms |-> none]
NoStatOf == [s \in {} |-> wit]

\* A heap of things to pick up, put down and put on.
Heap == [r \in Rooms |-> <<P(knife, 1), P(herb, 2), P(pan, 1)>>]

\* Two stalls with one good each way, the second behind a checkpoint.
Trading == haggle
HaggleOnly == {haggle}
HaggleStat == (haggle :> wit)
Wit == {wit}
Stalls == (yard :> yard) @@ (road :> road)
Goods == {[market |-> yard, item |-> herb, base |-> 2, demand |-> 7, stock |-> 3, target |-> 3],
          [market |-> road, item |-> herb, base |-> 2, demand |-> 16, stock |-> 1, target |-> 2]}
Gate == {road}

\* A workshop: two nodes, a recipe with a tool, and something to examine.
Bench == [r \in Rooms |-> <<P(knife, 1)>>]
TwoNodes == {[room |-> yard, item |-> herb, skill |-> smith, max |-> 1, every |-> 1],
             [room |-> yard, item |-> iron, skill |-> smith, max |-> 1, every |-> 2]}
PanRecipe == {[skill |-> smith, rooms |-> {yard}, tool |-> knife,
               in |-> <<P(iron, 1), P(herb, 1)>>, out |-> P(pan, 1)],
              [skill |-> smith, rooms |-> {yard}, tool |-> none,
               in |-> <<P(herb, 1)>>, out |-> P(iron, 3)]}
SmithOnly == {smith}
SmithStat == (smith :> wit)
SmithAndHaggle == {smith, haggle}
BothStats == (smith :> wit) @@ (haggle :> wit)
Sign == {[room |-> yard, name |-> "sign"]}

\* The loader accepts a recipe that names one material twice.
ThreeRecipes == PanRecipe \cup
  {[skill |-> smith, rooms |-> {yard}, tool |-> none,
    in |-> <<P(iron, 1), P(herb, 1), P(herb, 1)>>, out |-> P(knife, 1)]}
=============================================================================
