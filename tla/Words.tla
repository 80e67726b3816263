-------------------------------- MODULE Words --------------------------------
(***************************************************************************)
(* What a line typed at the Telnet prompt, or a frame of a WebSocket       *)
(* client, comes to.  The adapter decides which command it is (dispatch in *)
(* internal/net/telnet.go, handleFrame in ws.go) and submits it; the loop, *)
(* later and in whatever room the player is by then, decides whom or what  *)
(* its words name (internal/engine, and the catalogs of internal/world,    *)
(* internal/skill and internal/craft).  What reaches a skill trains it,    *)
(* which is the practice of Titles: the player of that module is this one. *)
(*                                                                         *)
(* A word is compared as a whole; case, which commands and ids ignore and   *)
(* names and verbs of skills do not, is left out.  What a command does to   *)
(* bags, slots and stock is the subject of World.                          *)
(***************************************************************************)
EXTENDS Titles, FiniteSets, SequencesExt

CONSTANTS Commands,    \* the words of dispatch's cases, each with its command
          Directions,
          Reserved,    \* reservedVerbs
          Exits,       \* <<room, direction>> -> room
          Start,       \* the room the player is in first
          Contents,    \* what a process may be started on: [book, table, cast, said]
                       \*   book: list of skills [id, names, verbs, group]
                       \*   table: the rules of titles
                       \*   cast: [people, things], lists of [id, room, aliases, names]
                       \*   said: bound, what is typed and sent there, see Line and Frame
          Goods,       \* list of [id, names], in the order of ids
          Nodes,       \* list of [room, item, skill]
          Recipes,     \* list of [id, out, skill]
          NoWord,
          Pending      \* bound: commands of the player that wait in the queue

ASSUME WordsAssumption ==
  /\ Directions \cap DOMAIN Commands = {} /\ NoWord \notin Directions \cup DOMAIN Commands
  /\ Reserved \subseteq Directions \cup DOMAIN Commands
  /\ Tables = {c.table : c \in Contents}
  /\ \A list \in {Goods, Nodes, Recipes} : list \in Seq(ToSet(list))
  /\ \A c \in Contents : \A list \in {c.book, c.cast.people, c.cast.things} : list \in Seq(ToSet(list))
  \* Skills holds those of every book; what a table asks for is in its own.
  /\ \A c \in Contents :
       LET ids == {s.id : s \in ToSet(c.book)} IN
       /\ ids \subseteq Skills
       /\ \A r \in ToSet(c.table) : DOMAIN r.need \subseteq Skills => DOMAIN r.need \subseteq ids

VARIABLES book, cast, sayable,  \* the content the process was started on
          adapter,              \* by which the player is in
          room,
          queue,                \* the player's commands in Loop.cmds
          plan,                 \* history: the room all queued moves will lead to
          last                  \* history: what was last answered, and what it reached

content == <<book, cast, sayable>>
promptVars == <<adapter, room, queue, plan, last>>
wordsVars == <<vars, content, promptVars>>

Rooms == {Start} \cup {Exits[e] : e \in DOMAIN Exits}
Nothing == <<"nothing", NoWord>>

\* A line's first word and the rest; a frame's type, and its payload.
Line(v, w)     == <<"telnet", v, w, NoWord>>
Frame(t, w, k) == <<"ws", t, w, k>>

WordsInit ==
  /\ Init
  /\ \E c \in Contents : table = c.table /\ book = c.book /\ cast = c.cast /\ sayable = c.said
  /\ adapter = "none" /\ room = Start /\ queue = <<>> /\ plan = Start
  /\ last = [said |-> Line(NoWord, NoWord), plan |-> Start, got |-> Nothing]

-----------------------------------------------------------------------------
(* What the loaders take.  Lists of people and things are in the order InRoom *)
(* sorts them by, that of their names.                                        *)

Distinct(list, F(_)) == \A i, j \in DOMAIN list : F(list[i]) = F(list[j]) => i = j

VerbsFree(s) == ToSet(s.verbs) \cap Reserved = {}

\* A verb stands once in all the list.
SkillsLoad ==
  /\ \A s \in ToSet(book) : VerbsFree(s)
  /\ Distinct(book, LAMBDA s : s.id)
  /\ Distinct(FlattenSeq([k \in DOMAIN book |-> book[k].verbs]), LAMBDA v : v)

\* toNPC, toObject: aliases are compared within one entry only.
CastLoads ==
  /\ Distinct(cast.people, LAMBDA p : p.id) /\ Distinct(cast.things, LAMBDA o : o.id)
  /\ \A k \in DOMAIN cast.people : cast.people[k].aliases # <<>>
  /\ \A x \in ToSet(cast.people) \cup ToSet(cast.things) :
       x.room \in Rooms /\ Distinct(x.aliases, LAMBDA a : a)

\* loadWorld and loadSkills: the rules of titles come with the skills.
BootOn ==
  /\ IF SkillsLoad /\ CastLoads THEN Boot
     ELSE /\ phase = "boot" /\ phase' = "refused"
          /\ UNCHANGED <<table, ranks, stats, asWhom, heard>>
  /\ UNCHANGED <<content, promptVars>>

-----------------------------------------------------------------------------
(* Whom or what a word names: the first entry of a list that fits it, or nothing. *)

First(kind, list, fits) == IF fits = {} THEN Nothing ELSE <<kind, list[Min(fits)].id>>

Else(got, other) == IF got = Nothing THEN other ELSE got

\* matchQuery: id, name or alias.
Bears(x, w) == w = x.id \/ w \in x.names \/ w \in ToSet(x.aliases)

\* Slip: anybody of that name, anywhere.
PersonAnywhere(r, w) ==
  First("person", cast.people, {k \in DOMAIN cast.people : Bears(cast.people[k], w)})

PersonHere(r, w) ==
  First("person", cast.people,
        {k \in DOMAIN cast.people : cast.people[k].room = r /\ Bears(cast.people[k], w)})

ThingHere(r, w) ==
  First("thing", cast.things,
        {k \in DOMAIN cast.things : cast.things[k].room = r /\ Bears(cast.things[k], w)})

\* Lookup: an id before any name or verb.
Lookup(w) ==
  IF w = NoWord THEN Nothing
  ELSE Else(First("skill", book, {k \in DOMAIN book : book[k].id = w}),
            First("skill", book, {k \in DOMAIN book : w \in book[k].names \cup ToSet(book[k].verbs)}))

Gathers(got) == \E s \in ToSet(book) : s.group = "gather" /\ got = <<"skill", s.id>>

Good(w) ==
  Else(First("good", Goods, {k \in DOMAIN Goods : Goods[k].id = w}),
       First("good", Goods, {k \in DOMAIN Goods : w \in Goods[k].names}))

\* The goods that a word names.
Wares(w) == {g.id : g \in {g \in ToSet(Goods) : w = g.id \/ w \in g.names}}

LookupRecipe(w) ==
  First("recipe", Recipes, {k \in DOMAIN Recipes : w \in {Recipes[k].id, Recipes[k].out}})

\* findRecipe: by its id or its output's, then by the name of a good.
FindRecipe(w) ==
  Else(LookupRecipe(w), IF Good(w) = Nothing THEN Nothing ELSE LookupRecipe(Good(w)[2]))

\* pickNode: the first node of the good named, or without a name any, which
\* depends on what is left at each.
PickNode(r, w, skill) ==
  LET item == IF Good(w) = Nothing THEN w ELSE Good(w)[2]
      fits == {k \in DOMAIN Nodes : /\ Nodes[k].room = r
                                    /\ w = NoWord \/ Nodes[k].item = item
                                    /\ skill = Nothing \/ Nodes[k].skill = skill[2]}
  IN CASE fits = {}    -> {Nothing}
       [] w = NoWord   -> {<<"node", Nodes[k]>> : k \in fits}
       [] OTHER        -> {<<"node", Nodes[Min(fits)]>>}

-----------------------------------------------------------------------------
(* The command that a line or a frame is, or none: "no such command", or a bad *)
(* frame.                                                                      *)

Cmd(op, arg, skill) == [op |-> op, arg |-> arg, skill |-> skill]

NoCmd == Cmd("none", NoWord, NoWord)

\* Commands of people, skills and trade and "other" ones (say, get, drop, ...) want a
\* word, "go" wants a direction.
Complete(op, w) ==
  CASE op \in {"talk", "practice", "sell", "buy", "other"} -> w # NoWord
    [] op = "go"                                           -> w \in Directions
    [] OTHER                                               -> TRUE

\* A skill's word of the default branch: gather with it, or practise it.
SkillCmd(v, w) ==
  CASE Lookup(v) = Nothing  -> NoCmd
    [] Gathers(Lookup(v))   -> Cmd("gather", w, v)
    [] OTHER                -> Cmd("practice", v, NoWord)

Dispatch(v, w) ==
  CASE v \in DOMAIN Commands ->
         IF Complete(Commands[v], w) THEN Cmd(Commands[v], w, NoWord) ELSE NoCmd
    [] v \in Directions /\ w = NoWord -> Cmd("go", v, NoWord)
    [] OTHER -> SkillCmd(v, w)

FrameTypes == {"look", "talk", "go", "practice", "gather", "craft", "sell", "buy", "other"}

\* handleFrame, and the do... of each type; only gather's payload has a skill.
HandleFrame(t, w, k) ==
  IF t \in FrameTypes /\ Complete(t, w)
  THEN Cmd(t, w, IF t = "gather" THEN k ELSE NoWord)
  ELSE NoCmd

CommandOf(s) == IF s[1] = "telnet" THEN Dispatch(s[2], s[3]) ELSE HandleFrame(s[2], s[3], s[4])

Dest(r, dir) == IF <<r, dir>> \in DOMAIN Exits THEN Exits[<<r, dir>>] ELSE r

\* The client types a line or sends a frame.  What is no command is answered at
\* once, and what meets a full queue is refused.
Say(s) ==
  /\ phase = "in" /\ s[1] = adapter
  /\ LET c == CommandOf(s) IN
       IF c = NoCmd
       THEN /\ last' = [said |-> s, plan |-> plan, got |-> Nothing]
            /\ UNCHANGED <<queue, plan>>
       ELSE /\ Len(queue) < Pending
            /\ queue' = Append(queue, [cmd |-> c, said |-> s, plan |-> plan])
            /\ plan' = IF c.op = "go" THEN Dest(plan, c.arg) ELSE plan
            /\ UNCHANGED last
  /\ UNCHANGED <<vars, content, adapter, room>>

-----------------------------------------------------------------------------
(* The loop. *)

Examine(r, w) == Else(PersonHere(r, w), ThingHere(r, w))

\* A trade that market, stock, purse or bag refuse (World) comes to nothing.  What is
\* sold is looked for in the bag, what is bought in the catalog.
Traded(op, w) ==
  {Nothing} \cup IF op = "buy" THEN {Good(w)} ELSE {<<"good", g>> : g \in Wares(w)}

\* What a command may reach: with no choice, but for a node and a trade.
Reached(c) ==
  CASE c.op = "look" /\ c.arg # NoWord  -> {Examine(room, c.arg)}
    [] c.op = "talk"                     -> {PersonHere(room, c.arg)}
    [] c.op = "practice"                 -> {Lookup(c.arg)}
    [] c.op = "gather"                   ->
         PickNode(room, c.arg, IF Gathers(Lookup(c.skill)) THEN Lookup(c.skill) ELSE Nothing)
    [] c.op = "craft" /\ c.arg # NoWord -> {FindRecipe(c.arg)}
    [] c.op \in {"sell", "buy"}          -> Traded(c.op, c.arg)
    [] OTHER                             -> {Nothing}

\* The skill that what was reached trains, if the catalog has it.
Trained(got) ==
  {s.id : s \in ToSet(book)} \cap
    CASE got[1] = "skill"  -> {got[2]}
      [] got[1] = "node"   -> {got[2].skill}
      [] got[1] = "recipe" -> {q.skill : q \in {q \in ToSet(Recipes) : q.id = got[2]}}
      [] got[1] = "good"   -> {"haggle"}
      [] OTHER             -> {}

\* A gathering or a craft that comes to nothing trains no more than a missed trial.
Train(got) ==
  IF Trained(got) = {} THEN UNCHANGED vars ELSE \E sk \in Trained(got) : Practice(sk)

Handle ==
  /\ phase = "in" /\ queue # <<>>
  /\ LET h == Head(queue) IN
       /\ \E got \in Reached(h.cmd) :
            /\ last' = [said |-> h.said, plan |-> h.plan, got |-> got]
            /\ Train(got)
       /\ room' = IF h.cmd.op = "go" THEN Dest(room, h.cmd.arg) ELSE room
  /\ queue' = Tail(queue)
  /\ UNCHANGED <<content, adapter, plan>>

\* enter: whoever comes in stands at the start.
ComeIn ==
  /\ Enter
  /\ adapter' \in {"telnet", "ws"}
  /\ room' = Start /\ plan' = Start
  /\ UNCHANGED <<content, queue, last>>

\* LeaveWorld comes behind the commands that wait, and nothing is typed after it.
GoOut == queue = <<>> /\ Leave /\ UNCHANGED <<content, promptVars>>

WordsNext ==
  \/ BootOn \/ ComeIn \/ GoOut \/ Handle
  \/ Refused /\ UNCHANGED <<content, promptVars>>
  \/ \E s \in sayable : Say(s)

WordsSpec == WordsInit /\ [][WordsNext]_wordsVars
-----------------------------------------------------------------------------
(* Properties. *)

\* What look may mean, and talk: people of a room before its things.
People(r, w) == {<<"person", p.id>> : p \in {p \in ToSet(cast.people) : p.room = r /\ Bears(p, w)}}
Things(r, w) == {<<"thing", o.id>> : o \in {o \in ToSet(cast.things) : o.room = r /\ Bears(o, w)}}

Meant(op, r, w) ==
  CASE People(r, w) # {}                 -> People(r, w)
    [] op = "look" /\ People(r, w) = {}  -> Things(r, w)
    [] OTHER                            -> {}

\* Recipes that a word names, by themselves or by a good.
Dishes(w) ==
  LET goods == {g.id : g \in {g \in ToSet(Goods) : w \in g.names}}
  IN {q \in ToSet(Recipes) : {q.id, q.out} \cap ({w} \cup goods) # {}}

OrNothing(set) == IF set = {} THEN {Nothing} ELSE set

One(set) == \E x \in set : set = {x}

\* A word of this skill, and of no other.
Means(v, s) ==
  /\ v # NoWord
  /\ v \in {s.id} \cup s.names \cup ToSet(s.verbs)
  /\ \A t \in ToSet(book) : t # s => v \notin {t.id} \cup t.names \cup ToSet(t.verbs)

\* The skills that the word of a gathering means.
Hands(v) == {s.id : s \in {s \in ToSet(book) : s.group = "gather" /\ Means(v, s)}}

\* What the client asks for: a command; with a first word that is none, the skill
\* that has the word to itself.
Asked(s) ==
  CASE s[1] = "ws"                                      -> {Cmd(s[2], s[3], s[4])}
    [] s[1] = "telnet" /\ s[2] \in DOMAIN Commands      -> {Cmd(Commands[s[2]], s[3], NoWord)}
    [] s[1] = "telnet" /\ s[2] \notin DOMAIN Commands   ->
         {IF k.group = "gather" THEN Cmd("gather", s[3], s[2]) ELSE Cmd("practice", s[2], NoWord) :
            k \in {k \in ToSet(book) : s[2] \notin Directions /\ Means(s[2], k)}}

\* However much a player has said ahead, moves among it, by either adapter, each
\* reaches what its words name in the room the player was bound for when saying it:
\* for look and talk, one of those who bear the word there, people first, and
\* nothing only if nobody does; a trade, no good but one of that name; for a word a skill has to itself, that skill, or
\* when gathering a node of it and of the good named, if one is; and one of the
\* dishes named, if the goods of that name are not several.
\* (dispatch, handleFrame, FindInRoom, Lookup, pickNode, findRecipe, catalogItemID)
WordsReach ==
  LET r == last.plan  got == last.got IN
  \A c \in Asked(last.said) :
    /\ c.op \in {"look", "talk"} /\ c.arg # NoWord => got \in OrNothing(Meant(c.op, r, c.arg))
    /\ c.op \in {"sell", "buy"} /\ c.arg # NoWord =>
         got \in {<<"good", g>> : g \in Wares(c.arg)} \cup {Nothing}
    /\ c.op = "craft" /\ c.arg # NoWord =>
         LET dishes == {<<"recipe", q.id>> : q \in Dishes(c.arg)} IN
         /\ got \in dishes \cup {Nothing}
         /\ Wares(c.arg) = {} \/ One(Wares(c.arg)) => got \in OrNothing(dishes)
    /\ c.op = "practice" => \A s \in ToSet(book) : Means(c.arg, s) => got = <<"skill", s.id>>
    /\ /\ c.op = "gather"
       /\ c.skill = NoWord \/ Hands(c.skill) # {}
       /\ c.arg = NoWord \/ One(Wares(c.arg))
       => got \in OrNothing({<<"node", n>> : n \in {n \in ToSet(Nodes) :
                    /\ n.room = r
                    /\ c.skill = NoWord \/ n.skill \in Hands(c.skill)
                    /\ c.arg = NoWord \/ n.item \in Wares(c.arg)}})
=============================================================================
