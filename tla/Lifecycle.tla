----------------------------- MODULE Lifecycle -----------------------------
(***************************************************************************)
(* How a player's sheet travels: store -> adapter -> game loop -> saver -> *)
(* store, while connections come and go and the process stops.             *)
(*                                                                         *)
(* Processes: one handler per connection (internal/net), the game loop     *)
(* (internal/engine/loop.go), the saver's worker (internal/persist), and   *)
(* main (cmd/server/main.go).                                              *)
(*                                                                         *)
(* A sheet is the set of deeds it records.  A deed stands for one command  *)
(* that changes the player (get, craft, practice, ...): what it changes is *)
(* the subject of module World.                                            *)
(***************************************************************************)
EXTENDS Naturals, Sequences

CONSTANTS Conns,      \* connection ids, never reused (connSeq)
          Telnet,     \* those accepted by the Telnet listener; the rest are WebSocket
          Accounts,
          NoAccount,
          QueueCap,   \* CommandQueueSize
          SaverCap,   \* capacity of the saver's job channel
          MaxDeeds    \* bound: mutating commands submitted in one behaviour

ASSUME TelnetAssumption == Telnet \subseteq Conns
ASSUME NoAccountAssumption == NoAccount \notin Accounts
ASSUME CapAssumption == /\ QueueCap \in Nat \ {0}
                        /\ SaverCap \in Nat \ {0}
                        /\ MaxDeeds \in Nat

VARIABLES
  pc,        \* where each handler stands
  acct,      \* account the handler authenticated as
  sheet,     \* sheet the handler loaded
  attached,  \* WebSocket sessions whose Attach succeeded (wsSession.attached)
  reply,     \* control requests the loop has answered: <<conn, "attach" | "detach">>
  cmds,      \* Loop.cmds
  roster,    \* account of each connection on the roster, NoAccount when absent
  body,      \* sheet of the roster entry
  outbound,  \* connections with an open event buffer (Loop.outbound)
  loop,      \* phase of Loop.Run
  ctx,       \* root context cancelled (loop and listeners)
  lctx,      \* serveListeners' context cancelled
  main,      \* phase of run() in main.go
  saves,     \* AsyncSaver.ch
  inflight,  \* jobs (at most one) the worker is writing
  closed,    \* AsyncSaver.ch closed
  store,     \* durable sheet of each account
  deeds,     \* number of deeds submitted so far
  done,      \* history: deeds performed by bodies of each account
  faults     \* history: why an account may have lost deeds

netVars   == <<pc, acct, sheet, attached>>
loopVars  == <<roster, body, outbound, reply, done>>
saverVars == <<saves, inflight, closed, store>>
mainVars  == <<loop, ctx, lctx, main>>
vars == <<pc, acct, sheet, attached, reply, cmds, roster, body, outbound, loop,
          ctx, lctx, main, saves, inflight, closed, store, deeds, done, faults>>

Deed   == 1..MaxDeeds
Sheet  == SUBSET Deed
Job    == [acct : Accounts, sheet : Sheet]
Command == [op : {"attach", "leave", "detach"}, conn : Conns]
             \cup [op : {"work"}, conn : Conns, deed : Deed]
             \cup [op : {"enter"}, conn : Conns, acct : Accounts, sheet : Sheet]

Pc == {"new", "auth", "load", "attach", "attachWait", "enter", "seat", "play",
       "leave", "detach", "detachWait", "done"}
\* Why progress of an account may be lost; each is recorded where it happens.
Cause == {"second copy",    \* loaded while a handler, the queue or the roster has its sheet
          "save pending",   \* loaded while a save of it was not yet written
          "leave refused",  \* LeaveWorld met a full queue
          "loop gone",      \* LeaveWorld entered a queue nobody reads any more
          "save dropped",   \* the saver's channel was full
          "save failed",    \* SaveSheet returned an error
          "crash"}          \* the process died with progress not yet stored (Restart)

TypeOK ==
  /\ pc \in [Conns -> Pc]
  /\ acct \in [Conns -> Accounts \cup {NoAccount}]
  /\ sheet \in [Conns -> Sheet]
  /\ attached \subseteq Conns
  /\ reply \subseteq Conns \X {"attach", "detach"}
  /\ cmds \in Seq(Command) /\ Len(cmds) <= QueueCap
  /\ roster \in [Conns -> Accounts \cup {NoAccount}]
  /\ body \in [Conns -> Sheet]
  /\ outbound \subseteq Conns
  /\ loop \in {"run", "drain", "stopped"}
  /\ ctx \in BOOLEAN /\ lctx \in BOOLEAN /\ closed \in BOOLEAN
  /\ main \in {"serve", "drainConns", "waitLoop", "closeSaver", "exited"}
  /\ saves \in Seq(Job) /\ Len(saves) <= SaverCap
  /\ inflight \in SUBSET Job
  /\ store \in [Accounts -> Sheet]
  /\ deeds \in 0..MaxDeeds
  /\ done \in [Accounts -> Sheet]
  /\ faults \in [Accounts -> SUBSET Cause]

Init ==
  /\ pc = [c \in Conns |-> "new"]
  /\ acct = [c \in Conns |-> NoAccount]
  /\ sheet = [c \in Conns |-> {}]
  /\ attached = {} /\ reply = {} /\ outbound = {}
  /\ cmds = <<>> /\ saves = <<>> /\ inflight = {}
  /\ roster = [c \in Conns |-> NoAccount]
  /\ body = [c \in Conns |-> {}]
  /\ loop = "run" /\ ctx = FALSE /\ lctx = FALSE /\ main = "serve"
  /\ closed = FALSE
  /\ store = [a \in Accounts |-> {}]
  /\ deeds = 0
  /\ done = [a \in Accounts |-> {}]
  /\ faults = [a \in Accounts |-> {}]

-----------------------------------------------------------------------------
(* The command queue: Submit never blocks, a full queue refuses. *)

HasRoom == Len(cmds) < QueueCap
Submit(cmd) == HasRoom /\ cmds' = Append(cmds, cmd)

Goto(c, l) == pc' = [pc EXCEPT ![c] = l]

-----------------------------------------------------------------------------
(* Where an account's sheet has copies. *)

OnRoster(c) == roster[c] # NoAccount

\* The handler has loaded a sheet and not yet submitted it with EnterWorld.
Holding(c) == \/ pc[c] = "enter"
              \/ c \in Telnet /\ pc[c] \in {"attach", "attachWait"}

Entering(a) == {i \in DOMAIN cmds : cmds[i].op = "enter" /\ cmds[i].acct = a}
Queued(a)   == {i \in DOMAIN saves : saves[i].acct = a}
Writing(a)  == {j \in inflight : j.acct = a}
Bodies(a)   == {c \in Conns : roster[c] = a}
Holders(a)  == {c \in Conns : acct[c] = a /\ Holding(c)}

Sent(c, op) == \E i \in DOMAIN cmds : cmds[i].op = op /\ cmds[i].conn = c

\* Why a LeaveWorld submitted now will never take c off the roster, if so.
LeaveFaults(c) ==
  {f \in {"leave refused"} : /\ ~HasRoom /\ ~Sent(c, "leave")
                            /\ (OnRoster(c) \/ Sent(c, "enter"))}
    \cup {f \in {"loop gone"} : loop = "stopped" /\ OnRoster(c)}

Blame(a, f) == faults' = [b \in Accounts |-> IF b = a THEN faults[b] \cup f ELSE faults[b]]

\* Why loading a's sheet now is not safe, if it is not.
LoadFaults(a) ==
  {f \in {"second copy"} : Holders(a) \cup Bodies(a) # {} \/ Entering(a) # {}}
    \cup {f \in {"save pending"} : Queued(a) # {} \/ Writing(a) # {}}

-----------------------------------------------------------------------------
(* Connection handlers. *)

\* The listener accepts c.  It may still accept between the cancellation and
\* the close of the listening socket.
Accept(c) ==
  /\ main = "serve" /\ pc[c] = "new"
  /\ Goto(c, "auth")
  /\ UNCHANGED <<acct, sheet, attached, cmds, deeds, faults, loopVars, saverVars, mainVars>>

\* Authentication against the store succeeded and a session was issued.
Authenticate(c, a) ==
  /\ pc[c] = "auth"
  /\ acct' = [acct EXCEPT ![c] = a]
  /\ Goto(c, IF c \in Telnet THEN "load" ELSE "attach")
  /\ UNCHANGED <<sheet, attached, cmds, deeds, faults, loopVars, saverVars, mainVars>>

\* store.LoadSheet: reads whatever the store holds now.
LoadSheet(c) ==
  /\ pc[c] = "load"
  /\ sheet' = [sheet EXCEPT ![c] = store[acct[c]]]
  /\ faults' = [faults EXCEPT ![acct[c]] = @ \cup LoadFaults(acct[c])]
  /\ Goto(c, IF c \in Telnet THEN "attach" ELSE "enter")
  /\ UNCHANGED <<acct, attached, cmds, deeds, loopVars, saverVars, mainVars>>

\* After a failed login Telnet gives up; a WebSocket session reports it and may
\* authenticate again, unless readLoop finds its context cancelled.
AfterFailure(c) == IF c \in Telnet \/ lctx THEN "leave" ELSE "auth"

\* Slip: Attach waits for the loop alone.
FailOnLoadOnly(c) ==
  /\ pc[c] = "load"
  /\ Goto(c, AfterFailure(c))
  /\ UNCHANGED <<acct, sheet, attached, cmds, deeds, faults, loopVars, saverVars, mainVars>>

\* LoadSheet returns an error, or Attach sees the context cancelled.
Fail(c) ==
  /\ \/ pc[c] = "load"
     \/ pc[c] \in {"attach", "attachWait"} /\ lctx
  /\ Goto(c, AfterFailure(c))
  /\ UNCHANGED <<acct, sheet, attached, cmds, deeds, faults, loopVars, saverVars, mainVars>>

\* Attach, first half: enqueue retries until there is room.
AttachRequest(c) ==
  /\ pc[c] = "attach"
  /\ Submit([op |-> "attach", conn |-> c])
  /\ Goto(c, "attachWait")
  /\ UNCHANGED <<acct, sheet, attached, deeds, faults, loopVars, saverVars, mainVars>>

\* Attach, second half: the loop answered.
AttachReply(c) ==
  /\ pc[c] = "attachWait" /\ <<c, "attach">> \in reply
  /\ reply' = reply \ {<<c, "attach">>}
  /\ attached' = IF c \in Telnet THEN attached ELSE attached \cup {c}
  /\ Goto(c, IF c \in Telnet THEN "enter" ELSE "load")
  /\ UNCHANGED <<acct, sheet, cmds, deeds, faults, roster, body, outbound, done,
                 saverVars, mainVars>>

\* Submit(EnterWorld).  When refused, Telnet closes, a WebSocket session stays
\* unauthenticated and may try again.
EnterWorld(c) ==
  /\ pc[c] = "enter"
  /\ \/ /\ Submit([op |-> "enter", conn |-> c, acct |-> acct[c], sheet |-> sheet[c]])
        /\ Goto(c, IF c \in Telnet THEN "seat" ELSE "play")
     \/ /\ ~HasRoom /\ UNCHANGED cmds
        /\ Goto(c, AfterFailure(c))
  /\ UNCHANGED <<acct, sheet, attached, deeds, faults, loopVars, saverVars, mainVars>>

\* awaitSeated: the seated line arrives only after the loop handled EnterWorld.
Seated(c) ==
  /\ pc[c] = "seat" /\ OnRoster(c)
  /\ Goto(c, "play")
  /\ UNCHANGED <<acct, sheet, attached, cmds, deeds, faults, loopVars, saverVars, mainVars>>

\* A command line or frame that changes the player.  When the queue is full
\* the client is told rate_limited and nothing else happens.
Work(c) ==
  /\ pc[c] = "play" /\ deeds < MaxDeeds
  /\ Submit([op |-> "work", conn |-> c, deed |-> deeds + 1])
  /\ deeds' = deeds + 1
  /\ UNCHANGED <<netVars, faults, loopVars, saverVars, mainVars>>

\* Submit(LeaveWorld), its result ignored: on a full queue nobody will ever
\* take this player off the roster, and on a stopped loop nobody will read it.
SubmitLeave(c) ==
  /\ IF HasRoom THEN Submit([op |-> "leave", conn |-> c]) ELSE UNCHANGED cmds
  /\ Blame(acct[c], LeaveFaults(c))

\* The quit command submits LeaveWorld itself; the deferred one follows.
Quit(c) ==
  /\ pc[c] \in IF c \in Telnet THEN {"play"} ELSE {"auth", "play"}
  /\ IF HasRoom THEN Submit([op |-> "leave", conn |-> c]) ELSE UNCHANGED cmds
  /\ Goto(c, "leave")
  /\ UNCHANGED <<acct, sheet, attached, deeds, faults, loopVars, saverVars, mainVars>>

\* The socket fails or idles out, awaitSeated times out, or the listener's
\* context is cancelled.
Disconnect(c) ==
  /\ pc[c] \in {"auth", "seat", "play"}
  /\ Goto(c, "leave")
  /\ UNCHANGED <<acct, sheet, attached, cmds, deeds, faults, loopVars, saverVars, mainVars>>

\* Slip: only a quit command takes the player out of the world.
LeaveSilently(c) ==
  /\ pc[c] = "leave"
  /\ Goto(c, IF c \in Telnet \cup attached THEN "detach" ELSE "done")
  /\ UNCHANGED <<acct, sheet, attached, cmds, deeds, faults, loopVars, saverVars, mainVars>>

\* The deferred LeaveWorld.
Leave(c) ==
  /\ pc[c] = "leave"
  /\ SubmitLeave(c)
  /\ Goto(c, IF c \in Telnet \cup attached THEN "detach" ELSE "done")
  /\ UNCHANGED <<acct, sheet, attached, deeds, loopVars, saverVars, mainVars>>

\* Detach, first half: enqueue retries until there is room or the deadline.
DetachRequest(c) ==
  /\ pc[c] = "detach"
  /\ Submit([op |-> "detach", conn |-> c])
  /\ Goto(c, "detachWait")
  /\ UNCHANGED <<acct, sheet, attached, deeds, faults, loopVars, saverVars, mainVars>>

\* Detach, second half: answered, or given up after two seconds or on shutdown.
DetachEnd(c) ==
  /\ pc[c] \in {"detach", "detachWait"}
  /\ reply' = reply \ {<<c, "detach">>}
  /\ Goto(c, "done")
  /\ UNCHANGED <<acct, sheet, attached, cmds, deeds, faults, roster, body, outbound,
                 done, saverVars, mainVars>>

-----------------------------------------------------------------------------
(* The game loop: one command at a time, in queue order. *)

\* Slip: no bound on pending saves.
SaveAsyncUnbounded(a, s) ==
  saves' = Append(saves, [acct |-> a, sheet |-> s]) /\ UNCHANGED faults

\* AsyncSaver.SaveAsync: never blocks; a full channel drops the save.
SaveAsync(a, s) ==
  IF Len(saves) < SaverCap
  THEN /\ saves' = Append(saves, [acct |-> a, sheet |-> s])
       /\ UNCHANGED faults
  ELSE /\ faults' = [faults EXCEPT ![a] = @ \cup {"save dropped"}]
       /\ UNCHANGED saves

HandleAttach(c) ==
  /\ outbound' = outbound \cup {c}
  /\ reply' = reply \cup {<<c, "attach">>}
  /\ UNCHANGED <<roster, body, done, saves, faults>>

\* A connection already on the roster is left as it is.
HandleEnter(c, a, s) ==
  /\ IF OnRoster(c)
     THEN UNCHANGED <<roster, body, outbound>>
     ELSE /\ roster' = [roster EXCEPT ![c] = a]
          /\ body' = [body EXCEPT ![c] = s]
          /\ outbound' = outbound \cup {c}
  /\ UNCHANGED <<reply, done, saves, faults>>

\* Any world command: a connection that is not on the roster is a no-op.
HandleWork(c, d) ==
  /\ IF OnRoster(c)
     THEN /\ body' = [body EXCEPT ![c] = @ \cup {d}]
          /\ done' = [done EXCEPT ![roster[c]] = @ \cup {d}]
     ELSE UNCHANGED <<body, done>>
  /\ UNCHANGED <<roster, outbound, reply, saves, faults>>

\* Slip: leave forgets to save.
HandleLeaveUnsaved(c) ==
  /\ roster' = [roster EXCEPT ![c] = NoAccount]
  /\ UNCHANGED <<body, outbound, reply, done, saves, faults>>

\* Slip: leave forgets the roster.
HandleLeaveSaveOnly(c) ==
  /\ IF OnRoster(c) THEN SaveAsync(roster[c], body[c]) ELSE UNCHANGED <<saves, faults>>
  /\ UNCHANGED <<roster, body, outbound, reply, done>>

\* leave: save, then delete; unknown connections are a no-op.
HandleLeave(c) ==
  /\ IF OnRoster(c)
     THEN /\ SaveAsync(roster[c], body[c])
          /\ roster' = [roster EXCEPT ![c] = NoAccount]
     ELSE UNCHANGED <<roster, saves, faults>>
  /\ UNCHANGED <<body, outbound, reply, done>>

HandleDetach(c) ==
  /\ outbound' = outbound \ {c}
  /\ reply' = reply \cup {<<c, "detach">>}
  /\ UNCHANGED <<roster, body, done, saves, faults>>

Handle ==
  /\ loop # "stopped" /\ cmds # <<>>
  /\ cmds' = Tail(cmds)
  /\ LET cmd == Head(cmds) IN
       \/ cmd.op = "attach" /\ HandleAttach(cmd.conn)
       \/ cmd.op = "enter"  /\ HandleEnter(cmd.conn, cmd.acct, cmd.sheet)
       \/ cmd.op = "work"   /\ HandleWork(cmd.conn, cmd.deed)
       \/ cmd.op = "leave"  /\ HandleLeave(cmd.conn)
       \/ cmd.op = "detach" /\ HandleDetach(cmd.conn)
  /\ UNCHANGED <<netVars, mainVars, inflight, closed, store, deeds>>

\* Run sees the cancelled context: it drains what is queued and returns.
LoopCancelled ==
  /\ loop = "run" /\ ctx
  /\ loop' = "drain"
  /\ UNCHANGED <<netVars, loopVars, saverVars, cmds, deeds, faults, ctx, lctx, main>>

LoopReturn ==
  /\ loop = "drain" /\ cmds = <<>>
  /\ loop' = "stopped"
  /\ UNCHANGED <<netVars, loopVars, saverVars, cmds, deeds, faults, ctx, lctx, main>>

-----------------------------------------------------------------------------
(* The saver's worker: one job at a time, in queue order. *)

\* Slip: the worker quits when the channel is closed, not when it is empty.
WorkerTakeUntilClosed ==
  /\ inflight = {} /\ saves # <<>> /\ ~closed
  /\ inflight' = {Head(saves)}
  /\ saves' = Tail(saves)
  /\ UNCHANGED <<netVars, loopVars, mainVars, cmds, closed, store, deeds, faults>>

WorkerTake ==
  /\ inflight = {} /\ saves # <<>>
  /\ inflight' = {Head(saves)}
  /\ saves' = Tail(saves)
  /\ UNCHANGED <<netVars, loopVars, mainVars, cmds, closed, store, deeds, faults>>

WorkerWrite ==
  /\ \E j \in inflight : store' = [store EXCEPT ![j.acct] = j.sheet]
  /\ inflight' = {}
  /\ UNCHANGED <<netVars, loopVars, mainVars, cmds, saves, closed, deeds, faults>>

\* Slip: the row is emptied before it is written, in a statement of its own.
WorkerFailHalfWay ==
  /\ \E j \in inflight :
       /\ faults' = [faults EXCEPT ![j.acct] = @ \cup {"save failed"}]
       /\ store' = [store EXCEPT ![j.acct] = {}]
  /\ inflight' = {}
  /\ UNCHANGED <<netVars, loopVars, mainVars, cmds, saves, closed, deeds>>

\* SaveSheet returns an error: it is logged and the job is gone.  After the five
\* second timeout the store may have taken the write all the same.
WorkerFail ==
  /\ \E j \in inflight :
       /\ faults' = [faults EXCEPT ![j.acct] = @ \cup {"save failed"}]
       /\ \/ UNCHANGED store
          \/ store' = [store EXCEPT ![j.acct] = j.sheet]
  /\ inflight' = {}
  /\ UNCHANGED <<netVars, loopVars, mainVars, cmds, saves, closed, deeds>>

-----------------------------------------------------------------------------
(* Starting to stop, and stopping. *)

\* SIGINT or SIGTERM cancels the root context, hence both.
Signal ==
  /\ ~ctx /\ ctx' = TRUE /\ lctx' = TRUE
  /\ UNCHANGED <<netVars, loopVars, saverVars, cmds, deeds, faults, loop, main>>

\* One listener fails: serveListeners cancels only its own context.
ListenerFails ==
  /\ ~lctx /\ main = "serve" /\ lctx' = TRUE
  /\ UNCHANGED <<netVars, loopVars, saverVars, cmds, deeds, faults, loop, ctx, main>>

StopAccepting ==
  /\ main = "serve" /\ lctx
  /\ main' = "drainConns"
  /\ UNCHANGED <<netVars, loopVars, saverVars, cmds, deeds, faults, loop, ctx, lctx>>

\* Both Serve calls have waited for their handlers; run() cancels the root context.
ListenersReturn ==
  /\ main = "drainConns" /\ \A c \in Conns : pc[c] \in {"new", "done"}
  /\ main' = "waitLoop" /\ ctx' = TRUE
  /\ UNCHANGED <<netVars, loopVars, saverVars, cmds, deeds, faults, loop, lctx>>

\* <-loopDone, then the deferred saver.Close.
CloseSaver ==
  /\ main = "waitLoop" /\ loop = "stopped"
  /\ main' = "closeSaver" /\ closed' = TRUE
  /\ UNCHANGED <<netVars, loopVars, cmds, saves, inflight, store, deeds, faults, loop, ctx, lctx>>

\* Slip: Close does not wait for the worker.
ExitAtOnce ==
  /\ main = "closeSaver" /\ main' = "exited"
  /\ UNCHANGED <<netVars, loopVars, saverVars, cmds, deeds, faults, loop, ctx, lctx>>

\* Close returns when the worker has emptied the channel; then the store closes.
Exit ==
  /\ main = "closeSaver" /\ saves = <<>> /\ inflight = {}
  /\ main' = "exited"
  /\ UNCHANGED <<netVars, loopVars, saverVars, cmds, deeds, faults, loop, ctx, lctx>>

Terminated == main = "exited" /\ UNCHANGED vars

-----------------------------------------------------------------------------
Handler(c) ==
  \/ Accept(c) \/ (\E a \in Accounts : Authenticate(c, a))
  \/ LoadSheet(c) \/ Fail(c) \/ AttachRequest(c) \/ AttachReply(c)
  \/ EnterWorld(c) \/ Seated(c) \/ Work(c) \/ Quit(c) \/ Disconnect(c)
  \/ Leave(c) \/ DetachRequest(c) \/ DetachEnd(c)

Loop   == Handle \/ LoopCancelled \/ LoopReturn
Worker == WorkerTake \/ WorkerWrite \/ WorkerFail
Main   == Signal \/ ListenerFails \/ StopAccepting \/ ListenersReturn \/ CloseSaver \/ Exit \/ Terminated

Next == (\E c \in Conns : Handler(c)) \/ Loop \/ Worker \/ Main

Spec == Init /\ [][Next]_vars

\* Goroutines keep running.  A handler is not obliged to do anything while its
\* client is idle, but a cancelled listener context interrupts it (socket closed
\* or deadline set), a failed step is left, the deferred calls run, and Detach
\* has a deadline.
Unwind(c) == Fail(c) \/ EnterWorld(c) \/ Leave(c) \/ DetachEnd(c) \/ (lctx /\ Disconnect(c))

Fairness ==
  /\ \A c \in Conns : WF_vars(Unwind(c))
  /\ WF_vars(Handle) /\ WF_vars(LoopCancelled) /\ WF_vars(LoopReturn)
  /\ WF_vars(Worker)
  /\ WF_vars(StopAccepting) /\ WF_vars(ListenersReturn)
  /\ WF_vars(CloseSaver) /\ WF_vars(Exit)

FairSpec == Spec /\ Fairness
-----------------------------------------------------------------------------
(* Properties. *)

\* Every sheet in memory that will be written back, wherever it is.
Copies(a) ==
  {<<"held", c, sheet[c]>> : c \in Holders(a)}
    \cup {<<"entering", i, cmds[i].sheet>> : i \in Entering(a)}
    \cup {<<"body", c, body[c]>> : c \in Bodies(a)}
    \cup {<<"queued", i, saves[i].sheet>> : i \in Queued(a)}
    \cup {<<"writing", 0, j.sheet>> : j \in Writing(a)}

\* Progress is lost for one of the recorded reasons or not at all: an account
\* no fault befell has at most one sheet on its way round, that sheet records
\* everything its player did, and so does the store when no sheet is under way.
\* (enter, leave, SaveAsync and the saver's worker, loop.go and sheet.go)
OneCopy(a) == \A x, y \in Copies(a) : x = y

NothingLost ==
  \A a \in Accounts : faults[a] = {} =>
    /\ OneCopy(a)
    /\ \A x \in Copies(a) : x[3] = done[a]
    /\ Bodies(a) = {} /\ Queued(a) = {} /\ Writing(a) = {} => store[a] = done[a]

\* When the process has exited, what the store holds is what the players did,
\* for every account no fault befell.  (the order of main.go's cancel, <-loopDone
\* and deferred saver.Close)
StopKeepsAll ==
  main = "exited" => \A a \in Accounts : faults[a] = {} => store[a] = done[a]

\* Whoever is on the roster is served or on the way out: it has an event buffer,
\* and when its handler is gone its LeaveWorld is still queued.  Only a player whose
\* LeaveWorld was refused may stand there without.  (the deferred Submit, then
\* Detach, of both adapters; leave, enqueue)
NoGhost ==
  \A c \in Conns :
    OnRoster(c) /\ (c \notin outbound \/ (pc[c] = "done" /\ ~Sent(c, "leave"))) =>
      "leave refused" \in faults[roster[c]]

\* A cancelled server exits: no handler waits for a loop that has stopped, and
\* the loop does not wait for anyone.  (Attach and Detach select on ctx.Done)
ShutdownCompletes == lctx ~> main = "exited"

\* While the server runs, a departed player leaves the roster, unless its
\* LeaveWorld was refused.  (the deferred Submit in both adapters, leave)
Departs ==
  \A c \in Conns : pc[c] = "done" ~>
    lctx \/ ~OnRoster(c) \/ "leave refused" \in faults[roster[c]]

\* Once every handler is gone an account's progress reaches the store, whether
\* the server goes on running or stops meanwhile, unless a fault befalls it.
EventuallySaved ==
  \A a \in Accounts : (\A c \in Conns : pc[c] = "done") ~> store[a] = done[a] \/ faults[a] # {}

-----------------------------------------------------------------------------
(* What the documents say, as stated. *)

\* "Reconnect must restore the sheet": a player who reconnects, all its earlier
\* connections gone from the world, plays on with what it had.  (docs/DECISIONS.md:437)
ReconnectRestores ==
  \A a \in Accounts : faults[a] \subseteq {"save pending"} =>
    \A c \in Bodies(a) : done[a] \subseteq body[c]

\* LeaveWorld, on quit or disconnect: "Persist sheet".  (docs/EVENT-BUS.md)
\* Here for a server that is stopped while players are connected.
StopPersists ==
  main = "exited" =>
    \A a \in Accounts : faults[a] \subseteq {"loop gone"} => store[a] = done[a]
=============================================================================
