------------------------------ MODULE Content -------------------------------
(***************************************************************************)
(* What the loaders accept (internal/content, internal/craft/load.go,      *)
(* internal/economy/load.go, internal/skill/catalog.go).  The process does *)
(* not start on anything else, so this is what World may be run on.        *)
(* Texts, file names and the shape of identifiers are left out.            *)
(***************************************************************************)
EXTENDS World

CONSTANTS SpawnZone,     \* the rooms of the zone of Spawn
          GatherSkills   \* skills of the group "gather"

\* Rooms one can walk to from Spawn.
Reachable ==
  {r \in Rooms :
     \A S \in SUBSET Rooms :
       Spawn \in S /\ (\A e \in Exits : e[1] \in S => e[2] \in S) => r \in S}

RoomsLoad ==
  /\ Spawn \in Rooms
  /\ \A e \in Exits : e[1] \in Rooms /\ e[2] \in Rooms

ZoneLoads == SpawnZone \subseteq Reachable

\* Beside "none" the loader knows main_hand and body.
ItemsLoad ==
  /\ \A i \in Items : Weight[i] \in Nat
  /\ Cardinality(Slots) <= 2

\* Unit after unit is put down with AddStack.
SpawnsLoad ==
  \A r \in Rooms :
    /\ \A k \in DOMAIN FirstGround[r] : FirstGround[r][k].id \in Items
    /\ Tidy(FirstGround[r])

SkillsLoad == StatOf \in [Skills -> Stats] /\ GatherSkills \subseteq Skills

NodesLoad ==
  /\ \A nd \in Nodes :
       /\ nd.room \in Rooms /\ nd.item \in Items /\ nd.skill \in GatherSkills
       /\ nd.max \in Nat /\ nd.every \in Nat
  /\ \A m, n \in Nodes : m.room = n.room /\ m.item = n.item => m = n

Positive(pile) == pile.id \in Items /\ pile.n \in Nat \ {0}

\* Nothing forbids a material named twice.
RecipesLoad ==
  \A rec \in Recipes :
    /\ rec.skill \in Skills /\ rec.tool \in Items \cup {NoItem}
    /\ rec.in # <<>> /\ \A k \in DOMAIN rec.in : Positive(rec.in[k])
    /\ Positive(rec.out)

OneRecipeEach == \A q, r \in Recipes : q.out.id = r.out.id => q = r

GoodsLoad ==
  \A w \in Wares :
    /\ w.base \in Nat \ {0} /\ w.demand \in Nat \ {0}
    /\ w.stock \in Nat /\ w.target \in Nat

MarketsLoad ==
  /\ \A w \in Wares : w.item \in Items
  /\ \A v, w \in Wares : v.market = w.market /\ v.item = w.item => v = w

PeopleLoad ==
  /\ \A tp \in Topics : tp.room \in Rooms
  /\ \A s, t \in Topics : s.name = t.name => s = t

LoadersAccept ==
  /\ RoomsLoad /\ ZoneLoads /\ ItemsLoad /\ SpawnsLoad /\ SkillsLoad
  /\ NodesLoad /\ RecipesLoad /\ OneRecipeEach
  /\ GoodsLoad /\ MarketsLoad /\ PeopleLoad

ASSUME ContentAssumption == LoadersAccept
=============================================================================
