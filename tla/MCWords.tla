------------------------------ MODULE MCWords ------------------------------
(* Words and Titles in a small town: a few skills, two rooms, and skill books, rule *)
(* lists and casts an author might write, right and wrong.                          *)
EXTENDS Words

Cases == "look" :> "look" @@ "talk" :> "talk" @@ "address" :> "talk" @@ "practice" :> "practice"
           @@ "gather" :> "gather" @@ "craft" :> "craft" @@ "go" :> "go" @@ "sell" :> "sell" @@ "buy" :> "buy"
           @@ "say" :> "other"

Compass == {"north", "south"}
ReservedWords == Compass \cup (DOMAIN Cases \ {"talk", "address"})

Street == <<"gate", "north">> :> "yard" @@ <<"yard", "south">> :> "gate"

Stuff == << [id |-> "awl", names |-> {"stuff"}], [id |-> "herb", names |-> {"leaf"}],
            [id |-> "ore", names |-> {"stuff"}] >>
Field == << [room |-> "yard", item |-> "ore", skill |-> "smith"],
            [room |-> "yard", item |-> "herb", skill |-> "forage"] >>
Menu  == << [id |-> "nail", out |-> "ore", skill |-> "smith"],
            [id |-> "tea", out |-> "herb", skill |-> "forage"] >>

None == ""

-----------------------------------------------------------------------------
(* Skills. *)

Skill(id, name, verbs, group) == [id |-> id, names |-> {name}, verbs |-> verbs, group |-> group]
Smith  == Skill("smith", "anvil", <<"hammer", "pound">>, "craft")
Speech == Skill("speech", "talking", <<"chat", "address">>, "social")
Forage == Skill("forage", "foraging", <<"dig">>, "gather")
Haggle == Skill("haggle", "bargain", <<"barter">>, "social")

Shipped == <<Smith, Speech, Forage>>
Books ==
  { Shipped,
    <<Skill("bow", "dig", <<"pound">>, "combat"), Forage>>,          \* a name is another's verb
    <<Skill("bow", "bow", <<"smith">>, "combat"), Smith>>,           \* a verb is another's id
    <<Smith, Skill("bow", "bow", <<"pound">>, "combat")>>,           \* refused: a verb twice
    <<Smith, Skill("smith", "bow", <<"shoot">>, "combat")>>,         \* refused: an id twice
    <<Skill("watch", "watch", <<"look">>, "social"), Forage>> }      \* refused: reserved

Ids == {"smith", "speech", "forage", "bow", "watch", "haggle"}
Wit == {"wit"}
Trains == [s \in Ids |-> "wit"]

-----------------------------------------------------------------------------
(* Titles. *)

TitleTexts == {"master", "smith", "pedlar", "nobody", "hear: master", "hear: smith", "hear: pedlar"}

R(id, need, title, announce) == [id |-> id, need |-> need, title |-> title, announce |-> announce]

Master  == R("master", "smith" :> 2, "master", "hear: master")
ASmith  == R("smith", "smith" :> 1, "smith", "hear: smith")
Pedlar  == R("pedlar", "smith" :> 1 @@ "speech" :> 2, "pedlar", "hear: pedlar")
Nobody  == R("nobody", <<>>, "nobody", "")
Quiet   == R("quiet", "smith" :> 1, "smith", "")
Twin    == R("twin", "speech" :> 1, "smith", "hear: pedlar")
Bare    == R("bare", "speech" :> 1, "", "hear: pedlar")
TooFar  == R("far", "smith" :> 3, "master", "hear: master")
Below   == R("below", "smith" :> -1, "master", "hear: master")
Dealer  == R("dealer", "haggle" :> 2, "master", "hear: master")
Hawker  == R("hawker", "haggle" :> 1, "pedlar", "hear: pedlar")
Lost    == R("lost", "ghost" :> 1, "master", "hear: master")

ListRules == {Master, ASmith, Pedlar, Nobody, Quiet, Twin, Bare, TooFar, Below, Dealer, Hawker, Lost}

Lists ==
  { <<>>,
    <<Pedlar, Master, ASmith, Nobody>>, <<Master, Twin, ASmith, Nobody>>,
    <<ASmith, Master, Nobody>>, <<Master, Quiet, Nobody>>,
    <<Master, ASmith>>, <<Nobody, ASmith>>, <<ASmith, Nobody, Nobody>>,   \* from here on refused
    <<Bare, Nobody>>, <<TooFar, Nobody>>, <<Below, Nobody>>, <<Lost, Nobody>>,
    <<ASmith, ASmith, Nobody>> }

Dealings == <<Dealer, Hawker, Nobody>>

-----------------------------------------------------------------------------
(* People and things. *)

Entry(id, r, aliases, name) == [id |-> id, room |-> r, aliases |-> aliases, names |-> {name}]
Ann == Entry("ann", "gate", <<"guard">>, "Ann")
Bob == Entry("bob", "yard", <<"guard", "old">>, "Bob")
Cid == Entry("cid", "gate", <<"guard">>, "Cid")
Sign  == Entry("sign", "gate", <<"old">>, "board")
Stone == Entry("stone", "yard", <<"old">>, "rock")

Town == [people |-> <<Ann, Bob>>, things |-> <<Sign, Stone>>]
Towns ==
  { Town,
    [people |-> <<Ann, Cid>>, things |-> <<Stone>>],
    [people |-> <<Entry("dan", "gate", <<>>, "Dan")>>, things |-> <<>>],                    \* refused
    [people |-> <<>>, things |-> <<Entry("well", "gate", <<"old", "old">>, "well")>>] }     \* refused

-----------------------------------------------------------------------------
(* A process is started on the shipped content with one part of it replaced, and *)
(* what is said is what that part can make a difference to.                      *)

L(v, w) == Line(v, w)
F(t, w) == Frame(t, w, None)

Walks == {L("north", None), L("go", "south"), F("go", "north"), F("go", "gate")}
Talks ==
  { L("look", None), L("look", "guard"), L("look", "old"), L("talk", "guard"), L("talk", None),
    L("address", None), L("sing", None), L("say", "old"),
    F("look", "guard"), F("look", None), F("talk", "old"), F("talk", None), F("sing", None) }
Works ==
  { L("chat", None), L("hammer", None), L("smith", None), L("dig", None), L("dig", "leaf"),
    L("gather", None), L("gather", "stuff"), L("craft", "leaf"), L("craft", "stuff"), L("practice", "foraging"),
    F("practice", "dig"), F("practice", "smith"), F("gather", "leaf"), F("craft", "leaf"),
    Frame("gather", None, "dig"), Frame("gather", "leaf", "smith") }
Trials == {L("hammer", None), L("chat", None), F("practice", "smith"), F("practice", "chat")}

Trades ==
  { L("buy", "stuff"), L("buy", "smith"), L("sell", "stuff"), L("sell", None), L("barter", None),
    F("buy", "leaf"), F("buy", None), F("sell", "awl") }

Process(b, t, c, l) == [book |-> b, table |-> t, cast |-> c, said |-> l]
Processes ==
  {Process(b, <<Nobody>>, Town, Walks \cup Works) : b \in Books}
    \cup {Process(Shipped, <<Nobody>>, c, Walks \cup Talks) : c \in Towns}
    \cup {Process(Shipped, t, Town, Trials) : t \in Lists}
    \cup {Process(<<Haggle>>, Dealings, Town, Trades), Process(<<Smith>>, <<Nobody>>, Town, Trades)}
AllTables == Lists \cup {<<Nobody>>, Dealings}
=============================================================================
