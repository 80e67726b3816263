# Verification of the YEOMYEONG server

TLA+ models of the game server in `cmd/` and `internal/`, checked with TLC and,
where a statement is worth having for every value of the constants, proved with
TLAPS. File and line references are to this repository.

## 1. Inventory

| Part | Source | State it keeps | Operations | Talks to |
|---|---|---|---|---|
| Process start and stop | `cmd/server/main.go`, `internal/net/listen.go` | phase of `run()`, what is open, listening ports | open the store, load content, bind (with a step to the next port), serve, cancel, wait for the listeners, wait for the loop, close the saver, close the store | all parts |
| Game loop | `internal/engine/loop.go` | command queue (256), roster, ground, outbound map, tick count | handle one command, drain, tick, stop | adapters (queue in, event buffers out), saver |
| World commands | `internal/engine/inventory.go`, `livelihood.go`, `practice.go`, `story.go` | player entries (room, bag, equipment, purse, ranks, flags), ground piles | get, drop, equip, unequip, practice, gather, craft, sell, buy, quote, talk, look, move with toll | catalogs, price book, node stock |
| Piles | `internal/world/item.go` | Go slices of `{id, qty}` updated in place | `AddStack`, `TakeStack` | world commands |
| Price book | `internal/economy/book.go` | stock per market and good | `Price`, `Sell`, `Buy`, `Tick` | world commands, tick |
| Node stock | `internal/craft/stock.go` | remaining harvest per node | `Take`, `Regen` | gather, tick |
| Skill sheet | `internal/skill/sheet.go` | ranks and stats under four caps | `TryGain`, `Difficulty` | practice, gather, craft, trade |
| Event delivery | `loop.go` `emit`, adapters' `drain` | one bounded buffer (64) per connection | emit with drop-oldest, receive, close | loop, adapters |
| Telnet adapter | `internal/net/telnet.go` | handler phase, line buffer, rate window, socket deadlines | authenticate, seat, dispatch, leave | loop, store |
| WebSocket adapter | `internal/net/ws.go` | `authed`, `attached`, rate window | authenticate, enter (retryable), dispatch, quit, leave | loop, store |
| Account store | `internal/persist/memory.go`, `postgres.go`, `persist.go` | accounts by folded name, sessions, sheets | create, exists, authenticate, issue/lookup/revoke session, load/save sheet | adapters, saver |
| Sheet saver | `internal/persist/sheet.go` | job queue (64), one worker | `SaveAsync` (drop when full), worker step, `Close` | loop, store |
| Catalogs and loaders | `internal/world/catalog.go`, `story.go`, `item.go`, `internal/content`, `internal/craft`, `internal/economy/load.go`, `internal/skill/catalog.go` | immutable after boot | load, look a word up, name a title | loop, Telnet adapter |
| Texts, config, password hashing, web page | `internal/text`, `internal/config`, `internal/persist/password.go`, `web/` | none | formatting, environment, hashing | |

How they interact. Every connection has a goroutine (two, once events flow). It
authenticates against the store, loads the account's sheet, asks the loop for an
event buffer (`Attach`) and submits `EnterWorld` with that sheet. From then on it
submits commands without blocking; a full queue refuses them. The loop is one
goroutine and the only writer of world state; it answers by `emit`, which drops
the oldest event of a full buffer. Leaving is `LeaveWorld` (save, delete) and
`Detach` (close the buffer). The saver's worker writes sheets to the store one
after the other. `main` cancels one context: the listeners and the loop both see
it, in either order.


## 2. What is hard here

* **One writer, many goroutines.** The loop has no locks because it alone touches
  the world; every hazard sits where a sheet or an event crosses to another
  goroutine: the sheet is loaded by the handler, carried in a command, lives in the
  roster, is cloned into the saver's queue and written by the worker, while the same
  account may be logging in elsewhere.
* **Queues that refuse.** `Submit`, `SaveAsync` and `emit` never block; a full queue
  refuses the command, drops the save, drops the oldest event. What each refusal may
  cost is the question the models answer.
* **Selects that are not atomic.** `emit` is three selects, between which a reader may
  take an event.
* **Two places, two times.** What a line means is decided in part by the handler, when it
  is typed, and in part by the loop, when the player may already be elsewhere.
* **Content is program.** Skill verbs, aliases, title rules and recipes come from files; what
  the loaders let pass decides whether a word reaches its thing and a title its player.
* **Starting.** Two listeners bind concurrently and may take each other's port; any step
  may fail and has to undo those before it.
* **Dying.** Nothing is written before a player leaves, so a crash must cost the players of
  that moment what they did, and nobody else anything.
* **Stopping.** One context is seen by the loop and by every handler in either order;
  the saver must outlive the loop, and the process must outlive the saver.
* **Slices changed in place.** `TakeStack` shifts the caller's own array; a handler that
  goes on with the header from before reads (and may store) the shifted array.
* **Limits.** Weight, two skill caps each single and in sum, stock never below zero,
  quotes never below one, node maximum.

`PROJECT.json` lists each hazard with its line and the properties that cover it.

## 3. What makes each component correct

| Component | Correct when | Property |
|---|---|---|
| Sheets across loop, saver, store | progress is lost for a recorded cause or not at all; through any number of crashes the store goes back only by a sheet loaded too early, and never holds what was not done | `NothingLost`, `KeepsSheets`, `EventuallySaved` |
| Loop and adapters | a departed player leaves the roster; who is seated has a buffer | `NoGhost`, `Departs` |
| Start | what is used is open; every way out closes all, last opened first; no half server stays | `WayOut`, `NoHalfServer` |
| Stop | the process exits, later than the last write; nobody sends on a closed channel | `ShutdownCompletes`, `StopKeepsAll`, `WayOut` |
| World commands | goods are only moved, except by crafting, toll and tick (coin is not counted); nobody is overloaded | `Conserved`, `CarryLimit` |
| Piles | one non-empty pile per item | `BagsTidy` |
| Price book | quotes fall as stock rises; a stall comes back from empty | `PriceEases`, `Restocks` |
| Node stock | a bare node grows back | `Regrows` |
| Skill sheet | four caps | `SkillCaps` |
| Event delivery | in order, none twice, bounded loss, the newest kept; the loop never waits | `KeepsPromise`, `NewestKept`, `Delivered`, `LoopNeverWaits` |
| Telnet seating | no prompt before the room card | `PromptAfterCard` |
| Account store and gate | a name has one account and keeps its password; a connection is one account, with a token issued for it and nobody else | `OneAccountPerName`, `KeepsRegistry`, `StaysWho`, `SessionsTrue` |
| Telnet lines | lines arrive whole and once, and all of them; the window is exact; a stop takes one command line more at most | `LinesArriveWhole`, `WindowExact`, `OneLineMore`, `Stops` |
| Titles | a player has a title, and it is the one last told; announcements come once and only upwards | `KnownAs`, `HeardOnce` |
| Words | a line or a frame reaches what its words name in the room it was meant for | `WordsReach` |

## 4. Plan

Order of the modules, the most important behaviour first. All steps are done.

1. `Lifecycle` (loop, adapters' phases, saver, store, stop) with `LifecycleProofs`.
2. `Stacks`, `PriceBook`, `SkillSheet` (the pure parts) and `World`, which composes
   them, with `PileProofs` (lists of piles and their sums) and `WorldProofs`.
3. `Mailboxes` (abstract) and `Delivery`, which implements it, with `DeliveryProofs`.
4. `Registry` (abstract) and `Accounts`, which implements it, with `AccountsProofs`.
5. `Lines`, with `LinesProofs`.
6. `Content`, what the loaders accept, under which `World` is run.
7. `Sheets` (abstract: an account's progress, lost only by a named fault) and `Restart`,
   Lifecycle with crashes, which implements it.
8. `Titles`: what a player is called.
9. `Boot`, with `BootProofs`.
10. `Words`, composed with `Titles`: what is typed trains the player whose title that is; with
    `WordsProofs`, which proves about both.

Every invariant and every action property of the runs is a theorem too. What would come next:
the steps on which liveness rests (what each fair action brings nearer) as theorems about
single steps, which need no fairness.

## 5. The modules and the code

**Lifecycle.** `pc` is where a handler stands in `Server.handle` (Telnet) or
`wsSession.readLoop` (WebSocket); `cmds` is `Loop.cmds`; `roster` and `body` are the
roster with each entry's sheet; `outbound` the connections with a channel in
`Loop.outbound`; `saves`, `inflight`, `closed` the saver; `store` the durable sheets;
`main` the phase of `run()`. Each handler step is an action (`Accept`, `Authenticate`,
`LoadSheet`, `AttachRequest`, ... `DetachEnd`), each command the loop handles one
(`HandleEnter`, ...), then the worker's take, write and failure, and the steps of the
stop. A sheet is the set of deeds it records: a deed is one mutating command. `faults`
records, where it happens, every event after which an account may have lost deeds; it is
what `NothingLost` is relative to.

**Restart** is Lifecycle in a process that may die at any step and start over: everything
in memory is gone, the store stays. **Sheets** is the promise to one account, whatever the
machinery: its sheet is with its store or away with a session; deeds are done while it is
away; a fault befalls only a sheet that is away; a sheet comes home with all that was done
or, after a fault, takes back nothing the store had, unless it was loaded while a copy of it
was away.

**Boot.** `main` is the statement of `run()`, `up` what it has opened, `serve` and `port` where
the two `Serve` calls stand and the port each has, `results` the channel they report on and
`taken` what was read from it. `busy` ports are held by other processes. A listener that meets
one steps to the next port where `allowPortFallback` lets it; out of ports, or on any other
error, it fails. The two bind in either order.

**Titles.** `table` is the list of rules, which `Boot` accepts as the loader does;
`ranks` and `stats` are the sheet, `heard` the rules announced in this sitting, `asWhom` the
title at the entry. A gain is SkillSheet's trial.

**Words** extends Titles: the player of Titles is the one at the prompt or behind the
WebSocket (`adapter`); what reaches a skill, a node or a dish is a trial of its skill, and what
reaches a good in a trade one of haggling (`Train`; whether market, purse and bag allow the trade
is World's, here a free choice). Coming in and going out are those of Titles with the room and the queue. `book`, `table` and `cast` are the content the
process was started on, which `BootOn` accepts or refuses; `sayable` bounds what is typed and sent there.
`queue` holds the player's commands in `Loop.cmds`; `plan` is where its moves will have led it,
`last` what was answered last, with what it reached. `Dispatch` is the switch of
`session.dispatch`, `HandleFrame` that of `wsSession.handleFrame` with its `do...` methods; the look-ups are those of the catalogs, in their order.

**World.** One action per command of `inventory.go`, `livelihood.go`, `practice.go` and
`story.go`, plus `Enter`, `LeaveWorld` and `Tick`. The loop handles commands one at a
time, so one action is one handler, with every call it makes. A refused command changes
nothing and is a stutter, except `GetHeavy` and `CraftShort`, where the code has already
changed a slice in place. Random rolls are free choices: below its cap every chance lies
strictly between zero and one. Item names in a query are taken as resolved. A player who
is away keeps the sheet that was saved (what may go wrong there is Lifecycle's subject).
What a player carries, in the bag and on the body, and what lies on the ground are sums over
piles with a weight for each item (`Weigh`, `Carried`): with `Weight` it is the load that
`BagCap` limits, with `Only({i})` the number of units of `i` that `Conserved` counts.

**Stacks** gives `AddStack` and `TakeStack` together with `Leftover`, the array as the
holder of the old slice header sees it. **PriceBook** gives `economy.Price` in exact
fractions instead of floats. **SkillSheet** gives the outcomes of one `TryGain`.

**Delivery.** `out` is the channel of a connection, `todo` what the handler in progress
still has to emit and to whom, `step` which of emit's three selects comes next, `reader`
whether the handler waits to be seated (`await`), empties the channel before the prompt
(`flush`) or the goroutine drains. `user` is the account each connection is logged in as: the
wait ends with a seated line of that name, whichever connection of the account it tells of. A
room is any set of seated players. `sent` and `got`
are histories, and they are the state of **Mailboxes**, the abstract specification: events
are posted with growing numbers, delivered in that order, and each posting beyond the
capacity may cost one event.

**Accounts.** `at` is where a handler stands in `session.auth` (Telnet) or what a WebSocket
session does between two frames; `said`, `acc` and `tok` are its local variables, `last` the
last command it submitted to the loop. A store call is one step, because `Memory` holds its
mutex and `Postgres` runs one statement; between two calls every other handler may run.
`Create` and `IssueSession` may have done their work when their answer is lost (Postgres),
and any call may fail before it. `Fold` is `foldUsername`: two spellings, one key.
**Registry** is the promise: names are claimed, taken once, keep their password, and are
entered with it alone.

**Lines.** `wire` is what the client sent, `buf` the `bufio.Reader`, `filt` where
`readFilteredByte` stands, `line` and `over` the locals of `readLineInto`, `pc` the loop of
`commands`, `times` the limiter's slice, `deadline` the socket's read deadline, which both
the handler (`Arm`) and the watcher goroutine (`Watch`) set. A byte is one of two letters,
the controls, deletion, CR, LF or a Telnet byte. What a client means is defined apart from how
the handler reads: `Key` is what one key does to a line, `Typing` what a list of keys does, and
a text in `Texts` has its keys and the line they make (`TextsAssumption`). `typed` keeps the lines
with something in them, `empties` counts the others.

**Content** states what the loaders accept as the assumption of every World run, so that no
run is about rooms, nodes, recipes or stalls the process would refuse to start on.

Operators under a comment that begins "Slip:" are plausible mistakes in the definition
that follows them; with one in its place a property must fail. No specification uses them.

## 6. The runs

| Run | Question | Outcome |
|---|---|---|
| LifecycleLive | A Telnet and a WebSocket connection, logins tried again, a stop at any point: does a cancelled server exit, a departed player leave, progress reach the store, and is anything lost without a recorded cause? | they do, under the fairness of section 8, and nothing is |
| LifecycleCrash | Two sessions of one account, at once or one after the other, in a process that stops, dies and starts over at any point: who is left on the roster, what may a sheet lose? | only what the recorded faults and `Sheets` allow |
| LifecycleReconnect | "Reconnect must restore the sheet" (`docs/DECISIONS.md:437`) | violated: the sheet is loaded while the earlier save waits |
| LifecycleStopLoses | LeaveWorld: "Persist sheet" (`docs/EVENT-BUS.md:55`) at a stop | violated: the loop drains once and returns before the handlers submit |
| WorldRoad | One trader, two stalls, a checkpoint, the drift: units of goods, weight, the direction of quotes; does a sold-out good return? | holds; coin is not weighed against goods |
| WorldBench | Nodes, tools, recipes, practice, things dropped, picked up, put on and taken off, and a recipe that names one material twice: types, tidy bags, goods, caps, weight; does a bare node grow back? | holds; `Conserved`, `BagsTidy` and `CarryLimit` name the exceptions: the craft that runs short, and the pile put back twice (WorldGetHeavy) |
| WorldGetHeavy | "Get moves one ground unit of ItemID into the bag if weight allows" (`command.go:57`) | violated: taking the unit has moved the piles behind it up in the room's own array, and the unit is put back through the old slice header: the last pile stands there twice |
| Delivery | Two connections of two players or of one, channels of two events, readers at any pace: the mailbox, the newest event, the prompt, the loop | holds |
| Accounts | Two clients, three spellings of two names, calls that fail before or after their work, reconnects: one account per name, one identity per connection, the registry | holds |
| Lines | Three lines typed with corrections and Telnet commands, four line endings, packets of one or two bytes, a stop at any time: what is heard, what is refused, when the handler ends | holds |
| Boot | Neighbouring ports of which any are busy, any step failing, a signal at any time, listeners that break with players on them: how does `run()` end? | holds |
| Words | Forty-two lines and frames, two of them ahead, moves among them, leaving and coming back, eight skill lists, four casts, fifteen rule lists: what does each reach, what is announced, what is the player called? | holds |

## 7. Bounds

* *LifecycleLive*: one connection per adapter, one account, queue, saver and deeds of 1, so
  that every refusal is reachable. Two connections suffice for every race on one account (both
  at once, one after the other). Two accounts meet only in the queues, which others' commands
  fill no differently; with a second account, and with both adapters under crashes, the state
  spaces are out of reach, and the proofs of section 9, which have no bounds, cover them.
* *LifecycleCrash*: two Telnet sessions of one account, one deed each, and at most two kinds
  of fault (`FewFaults`); the number of crashes is not bounded.
* *LifecycleReconnect, LifecycleStopLoses*: two Telnet connections, queue 2, two deeds.
* *Boot*: ports 1 to 4 in the place of those about 4000 and 4001, two retries for ten, two
  players; which ports are busy is free and does not change within a run.
* *Words*: two commands in the queue suffice for a move between a line and its answer; two
  rooms share an alias, a person and a thing share another, two goods share a name, of which only the second
  grows and goes into a dish. A process
  is started on the shipped content with its skills, its cast or its rules of titles replaced,
  and what is typed or sent is what the replaced part bears on. Ranks go to 2 and to 4 in sum, so
  that each skill meets its own and the common cap; rule lists come with and without a last
  rule, with doubles, unknown skills, silent rules, an easier rule before a harder one.
* *World*: one player, one or two rooms, one to four items, weights 1 and 2 with
  a bag of 1, 3 or 4 (commands are handled one at a time, and what another player would put
  down, buy or gather, this one may), so that limits are met after two or three commands; nodes
  of one unit, so that they are picked clean. `MaxGround`,
  `MaxNyang`, `MaxStock` and `MaxTrade` cap what the code leaves open; they are guards of
  the actions that would pass them. `Period` is a multiple of every tick period, modulo
  which ticks are counted.
* *Delivery*: `OutCap` 2 and `MaxEvents` 5, so that an overflow happens, twice for one
  channel. The two connections belong to two players or to one, which decides the names in
  seated lines (`Logins`). Connection ids are never reused, as in `connSeq`.
* *Accounts*: one connection of each kind (both may want one name, and the same connection
  comes back), two spellings of one name and another name, two valid passwords and one that is
  too short, two ids and three tokens. Ids and tokens are 128 and 256 random bits in the code,
  never repeated; two of each let every race happen and then stop the creation of more.
* *Lines*: a limit of two commands in a window of two on a clock of 0 to 2 and three lines, so
  that a refusal and an entry exactly as old as the window both happen; lines of two bytes, so
  that the third is too long; packets of one and two bytes cut every line ending. The client
  types when the handler waits for the network, which loses nothing: when a byte was typed
  matters only once it is asked for.
* Symmetry is used only where no liveness is checked, over the two Telnet connections, which are alike.

## 8. Fairness

* *Lifecycle*: goroutines run. The loop handles what is queued, the worker takes and ends
  its jobs, `main` goes on when what it waits for is there. A handler owes nothing while
  its client is silent; after a cancellation its socket is closed or past its deadline, a
  failed step is left, deferred calls run, and `Detach` has a deadline, which is what
  `Unwind` names. The worker's write may fail at any time.
* *World*: only the ticker (`time.NewTicker`, served by the loop's select). No player is
  ever obliged to act.
* *Delivery*: the loop (`Emit`) and each reader that has something to take. `LoopNeverWaits`
  holds by the first alone; nothing is assumed of clients.
* *Lines*: the handler's goroutine runs, a read that waits times out (five minutes after the
  line's start, or at once past the watcher's deadline), and the watcher runs.
* *Boot*: its goroutines run, and a handler ends after its server was cancelled (Lifecycle
  shows how). The signal, failures and clients are free.
* *Accounts* and *Words* have no liveness: a client may stay silent at a prompt for as
  long as it answers within five minutes each time.

## 9. Proofs

All are for any numbers of connections, accounts and players, any capacities and, in
World, any content that satisfies the module's named assumptions.

* **Lifecycle.** `TypeCorrect` comes first. `NobodyLeftBehind` rests on an invariant about where a connection's commands stand in the queue
  and relative to its handler's phase: the properties alone are not inductive, because what
  the loop does to the roster depends on the order of a connection's `attach`, `enter`,
  `leave` and `detach` in the queue. `NothingIsLost` and `ExitKeepsAll` add
  that copies of a sheet in handler, queue, roster, saver and worker exclude each other
  until a fault is recorded. `SheetsKept` is the refinement of `Sheets` by `Restart`, for any
  number of sessions and crashes: its invariant, `TrueToLife`, says that whatever fault there
  was, no copy of a sheet and no store holds a deed that was not done.
* **Delivery.** For one channel, `Channel(s, g, o, p)` relates what was emitted, read and
  waits: what waits is the end of what was emitted (`p` of it still with emit), numbers
  increase, what was read is older than what waits, and losses are counted. One lemma per
  operation on a channel (send, record, drop, put after all, take) shows that it is kept;
  `IInv` adds the order of `todo` and what emit holds between its selects. From it:
  `TypeCorrect` (no channel beyond its capacity), `NewestNeverLost`, and `Implementation`,
  the refinement of `Mailboxes`: the first select posts, a reader's receive delivers, all
  else stutters. `CardBeforePrompt` adds `Opening`: nothing is emitted to a connection before it
  is seated, its card is then what emit is at, so the first event of its channel is the card;
  and the first event read is the first emitted, or more was emitted than the channel holds.
* **World.** `PriceFalls` and `PricePositive` hold for every base, demand, stock and target,
  rounding and floor included; with the invariant `Ledger` (no purse or stall overdrawn, no
  node overgrown, itself `LedgerHolds`) they give `PricesEase` for all content. `CapsHold`
  and `NobodyUnlearns` are about single ranks and stats, `SumCapsHold` about their sums too.
  `TypeCorrect`, `BagsStayTidy`, `LoadsStayLight` and `GoodsConserved` hold for any number of
  players, rooms, items, nodes, recipes and stalls, and for piles of any number. They rest on
  `Goods`, which says that every bag, slot and ground is made of items of the catalog; it is
  inductive by itself, and conservation takes `Ledger` besides. Nothing is assumed of the
  order or the tidiness of a bag.
  * *Sums.* `PileProofs` proves of sums over finite sets, and over lists of piles, what the
    commands need: when one value changes, the sum changes by as much. What would be an
    induction over the set or the list is done with a least counterexample: a least number
    (`LeastNat`), or a set of least size (`LeastSet`), for which the sum is known one element
    earlier. On it stand `AddKeepsTidy`, `TakeKeepsTidy` and their counterparts about weight:
    adding `n` units adds `n` times their weight, taking them takes as much, for any weights.
  * *Commands.* For each command a lemma says what the load of its player (`Loads`) and the
    ground (`Lies`) gain and lose, for any weights. With `Weight` it gives
    `LoadsStayLight`, with `Only({i})` the number of units, and so `GoodsConserved`: the same
    lemma says that nobody is overloaded and that nothing is made.
  * *Crafts.* A craft takes its materials in turn, each from what is left of the bag after the
    one before. If all are found, the bag has lost just what the recipe names (`HaulWhole`); if
    one is not, the array that stays behind differs from the bag in materials, and in the last
    pile that is of none (`HaulSpares`).

  The proof found a mistake in the statement. `HalfCrafted`, the exception `Conserved` makes for
  a craft that runs short, spoke of materials and of the last pile of the bag only. When the last
  piles are of materials, one before them moves up and is doubled; the statement now says so,
  and *WorldBench* has a recipe of that shape.

  `WorldAssumption` is all that is taken of the content: players, rooms, items, nodes and wares
  are finite sets, what nodes, recipes and stalls name is in the catalog, weights are natural
  numbers, tick periods divide `Period`. The loaders refuse an unknown item in a node, a recipe
  or a stall, and content is a finite set of files. Nothing is assumed of a recipe's materials
  being distinct, because the loader does not ask for it.
* **Accounts.** The invariant behind `OneName`, `TokensTrue` and `Implementation` says of each
  handler what its step needs: an account it was given is a record of the store, a token it
  holds is a session of that account, and, between `Create` or `Authenticate` and `Enter`, the
  password it read is that record's. Names alone are not inductive: `Implementation` needs that
  the account of a handler on its way in is the only one of its key. `StaysWhoItIs` goes over the
  steps of one connection, which are of five kinds, with what the loop has heard of it at each
  place (`Heard`). Each store or handler step
  maps to a claim, a registration, an entry, a leaving or a stutter of `Registry`.
* **Lines.** `TypeCorrect` goes through the Telnet filter byte by byte: every phase of it keeps
  bytes bytes and the line within its limit. `ArriveWhole` holds for any texts, line limit and
  packets. Its invariant, `Arrives`, is about the bytes that are not read yet: fed one by one to
  `Feed`, which is `Key` and the end of a line, they lead from where the handler is (`Here`) to
  all that was typed, and at no byte past it (`Leads`). Reading a byte takes the first step of
  that path, a packet moves none of it, what the client types makes it longer. The property alone
  is not inductive, because it says nothing of the bytes on their way. A CR is remembered in the
  path, so that an LF after it adds nothing there; when the handler reads the two apart it adds
  an empty line, and `lone` has counted it. `TypingRuns`, that `Typing` obeys its recursion, is
  an induction over the keys by a least counterexample. `Limit` says that the limiter's slice is
  the end of what has passed and that all before it is at least a window old; with it `Window`
  and `Exact` follow for every rate and window, through one lemma on pruning (the slice keeps the
  longest end whose first entry is younger than the window). `Stopping` says a line read after
  the stop leaves the handler where it looks at the context next, which gives `LastLine`.
* **Titles.** A rule list that loads ends with a rule that asks for nothing, so some rule
  matches, and the least that does names the player (`HasLeast`, by well-foundedness). Ranks never fall, so
  the naming rule only moves to the front; the invariant says that none announced is before
  the rule that names the player now, which gives `HeardOnlyOnce`, and `KnowsTitle` with it.
  `TitledAtThePrompt` says the same of the player of Words, where a boot is refused for its
  skills or its cast too.
* **Words.** For all content the loaders take, all that may be said of it and any length of the
  queue, `ReachesWhatItNames`. The invariant has a history in it: each command that waits was
  said for the room where the one before it leads, the first for the room of now, and what is
  said next for the room where the last leads (`Route`), so the room in which the loop looks is
  the one that was meant. The rest is about the look-ups, one lemma each on what the first entry
  that fits is (`Found`), and about the adapters: what is asked for is what they submit
  (`Understood`), which for a skill's word needs that ids differ, as `newCatalog` ensures.
  The proof found an earlier claim false, that a dish named by a word is found whenever the word
  names one dish: of two goods of one name `findRecipe` tries the first only, and that one may go
  into no dish. The property now says so, and the run has such goods.
* **Boot.** The invariant says, statement by statement of `run()`, what is open (`Opened`),
  what each `Serve` holds (`Served`) and what the results channel has told (`Told`). `WayOut`
  alone is not inductive: that nothing is left at the exit follows from what was open at the
  step before.

Only model-checked: all liveness, and with it `NoHalfServer` and `LoopNeverWaits` (fairness
and ENABLED are out of the prover's reach).

## 10. Not modelled, and observations

Not modelled: reading of content files, texts and formatting, password hashing,
environment, JSON framing, the web page. No property compares coin with goods: purses and stalls
are never overdrawn (`LedgerHolds`), quotes move the right way (`PricesEase`), and `Buy` and
`Sell` take and pay what the code does, but `Conserved` counts units of goods only. What lies on the ground, grows at nodes and stands in
stalls is not kept over a restart, nor is anything with the memory store, so no property is
about it. Looking up, expiring and revoking
sessions have no caller outside the tests; sessions are only ever added. A WebSocket handler that starts after `Serve`
returned can only fail and is left out.

Met while modelling, and not runs of their own:

* `Loop.enter` refuses only a connection id that is already on the roster (`loop.go:330`): two
  connections of one account are both seated, each with a copy of the sheet, and the later save
  overwrites the earlier, although `docs/DECISIONS.md:436` says "Still one body per login".
  `NothingLost` names it as the fault "second copy".
* `allowPortFallback` looks at the port being tried, not at the one requested, and admits only
  4000 and 4001 (`listen.go:54`): from 4001 the Telnet listener tries 4002 and no further,
  although `docs/DECISIONS.md:471` and the comment at `listen.go:15` speak of up to ten ports.
* `isTalk` takes 말걸다 before the skills are asked (`telnet.go:595`), and alone it is an unknown
  command, so this verb of the skill speech never practises it, although
  `docs/SKILL-TABLE.md:30` lists it; the loader accepts the verb because `reservedVerbs`
  (`catalog.go:77`) lacks the words of talk. `WordsReach` speaks of words a skill has to itself.
* A `LeaveWorld` refused by a full queue is not tried again (`telnet.go:147`): the player stays
  on the roster with no connection, unsaved, although `docs/EVENT-BUS.md:55` says "delete
  roster". `NoGhost` and `Departs` state what holds but for that refusal.
* A line ending cut between CR and LF is read as two, the second an empty line
  (`telnet.go:644`): harmless at the prompt for commands, a failed login at the one for the
  password. `LinesArriveWhole` shows it is the only source of empty lines nobody typed.
* At a stop, a handler between two lines sets its deadline ahead again after the watcher has
  set it to now (`telnet.go:518`); the stop then waits for that client's next line, or five
  minutes. `OneLineMore` and `Stops` state what is left, for the loop of commands; in the
  dialogue of names and passwords a stop may wait for two lines.
* `docs/WIRE-PROTOCOL.md` and `docs/EVENT-BUS.md` put the seated line before the room card;
  `Loop.enter` sends the card first, on purpose (`loop.go:352`), and `PromptAfterCard`
  depends on it: with the documented order it fails (the slip `HandleEnterCardLast`).
* The drop of the oldest event may happen although the reader has just made room, so an
  event can be lost that need not have been. `Mailboxes` allows for it.
* A recipe that names one material twice passes the loader; crafting it may take the first
  and refuse at the second, with the slice already changed (`CraftShort`).
* Buying and then selling the same units in one stall never costs anything, because the
  quote is taken once per command, at the stock before it.
* `PriceBook` equals the float computation for every shipped good and stock 0 to 199; on a
  general grid the two differ only at exact halves.
* The goroutine that writes a Telnet client's events ends at its first failed write
  (`telnet.go:327`), while the handler still reads commands; their answers are dropped in the
  channel. `Delivered` excepts a reader that stopped.
* `docs/EVENT-BUS.md:69` has an event `Drop` after which the adapter closes the socket; nothing
  emits it.
* A title may change in silence: the loader does not ask for `announce`, although
  `docs/DECISIONS.md` (D-040) says a title change is announced. `KnownAs` states the rest. A rule
  behind one that asks for less is never reached, and the loader accepts it.
* A verb that is another skill's id, or the name of an earlier skill, is accepted and reaches
  that skill; an alias two people of a room share reaches the first by name; of two goods of one
  name the first by id. `WordsReach` says what holds besides.
* A WebSocket `gather` frame may name any word as its skill; one that is no gathering skill is
  dropped without a word, and the first node with something left is picked whatever its skill
  (`loop.go:126`, `livelihood.go:38`).
* When Telnet's `Accept` fails, its `Serve` waits for the connected players before it reports
  (`telnet.go:108`); until they leave, nobody new can come by Telnet, and the process stays.
