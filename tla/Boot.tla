-------------------------------- MODULE Boot --------------------------------
(***************************************************************************)
(* From the first line of run() to its return (cmd/server/main.go), with   *)
(* the two listeners it starts (internal/net): what is opened in which     *)
(* order, which step may fail, which ports are tried, and how every way    *)
(* out closes what was opened.  Players are counted, no more: what they do *)
(* is the subject of the other modules.                                    *)
(***************************************************************************)
EXTENDS Naturals

CONSTANTS Want,         \* the port configured for each listener
          Stepping,     \* ports from which the next may be tried (allowPortFallback)
          BindRetries,
          LastPort,     \* 65535
          MaxPlayers    \* bound: players on one listener at a time

Listeners == {"telnet", "ws"}
Ports == 1..LastPort
NoPort == 0

ASSUME BootAssumption ==
  /\ LastPort \in Nat \ {0} /\ BindRetries \in Nat \ {0} /\ MaxPlayers \in Nat
  /\ Want \in [Listeners -> Ports]

VARIABLES
  main,     \* the step run() is at
  up,       \* what is open or running: "store", "saver", "loop"
  err,      \* run() will return an error
  signal,   \* SIGINT or SIGTERM came
  ctx,      \* the context of the loop cancelled
  lctx,     \* serveListeners' context cancelled
  busy,     \* ports that other processes hold
  serve,    \* where each Serve is
  port,     \* the port it tries or holds, NoPort once it has failed to bind
  tries,    \* Telnet: ports tried
  failed,   \* listeners whose bind or accept failed
  players,  \* number of handlers of each listener
  results,  \* listeners whose result waits in errCh, with the result
  taken     \* listeners whose result serveListeners has taken

runVars == <<main, up, err>>
ctxVars == <<signal, ctx, lctx>>
netVars == <<serve, port, tries, failed, players, results>>
vars == <<main, up, err, signal, ctx, lctx, busy, serve, port, tries, failed, players,
          results, taken>>

Steps == {"store", "world", "skills", "saver", "livelihood", "loop", "serve",
          "waitLoop", "closeSaver", "closeStore", "exited"}

TypeOK ==
  /\ main \in Steps /\ up \subseteq {"store", "saver", "loop"} /\ err \in BOOLEAN
  /\ signal \in BOOLEAN /\ ctx \in BOOLEAN /\ lctx \in BOOLEAN
  /\ busy \subseteq Ports
  /\ serve \in [Listeners -> {"off", "bind", "accept", "drain", "over"}]
  /\ port \in [Listeners -> Ports \cup {NoPort}] /\ tries \in [Listeners -> 0..BindRetries]
  /\ failed \subseteq Listeners
  /\ players \in [Listeners -> 0..MaxPlayers]
  /\ results \subseteq Listeners \X BOOLEAN
  /\ taken \subseteq Listeners

Init ==
  /\ main = "store" /\ up = {} /\ err = FALSE
  /\ signal = FALSE /\ ctx = FALSE /\ lctx = FALSE
  /\ busy \in SUBSET Ports
  /\ serve = [l \in Listeners |-> "off"] /\ port = Want
  /\ tries = [l \in Listeners |-> 0] /\ failed = {}
  /\ players = [l \in Listeners |-> 0]
  /\ results = {} /\ taken = {}

-----------------------------------------------------------------------------
(* run(): a step that fails goes to the deferred calls of those before it. *)

GiveUp(step) == main' = step /\ err' = TRUE

OpenStore ==
  /\ main = "store"
  /\ \/ main' = "world" /\ up' = {"store"} /\ UNCHANGED err
     \/ GiveUp("exited") /\ UNCHANGED up
  /\ UNCHANGED <<ctxVars, busy, netVars, taken>>

\* loadWorld, loadSkills: an absent directory is no failure.
Load ==
  /\ main \in {"world", "skills"}
  /\ \/ main' = (IF main = "world" THEN "skills" ELSE "saver") /\ UNCHANGED err
     \/ GiveUp("closeStore")
  /\ UNCHANGED <<up, ctxVars, busy, netVars, taken>>

NewSaver ==
  /\ main = "saver" /\ main' = "livelihood"
  /\ up' = up \cup {"saver"}
  /\ UNCHANGED <<err, ctxVars, busy, netVars, taken>>

\* Skipped without a world.  The saver is open already.
LoadLivelihood ==
  /\ main = "livelihood"
  /\ \/ main' = "loop" /\ UNCHANGED err
     \/ GiveUp("closeSaver")
  /\ UNCHANGED <<up, ctxVars, busy, netVars, taken>>

\* The loop's goroutine, then serveListeners with a goroutine for each Serve.
Start ==
  /\ main = "loop" /\ main' = "serve"
  /\ up' = up \cup {"loop"}
  /\ serve' = [l \in Listeners |-> "bind"]
  /\ UNCHANGED <<err, ctxVars, busy, port, tries, failed, players, results, taken>>

\* Slip: the other listener is left running.
TakeResultOnly ==
  /\ main = "serve"
  /\ \E r \in results :
       /\ results' = results \ {r}
       /\ taken' = taken \cup {r[1]}
       /\ err' = (err \/ r[2])
       /\ UNCHANGED lctx
  /\ UNCHANGED <<main, up, signal, ctx, busy, serve, port, tries, failed, players>>

\* serveListeners: the first error cancels the other listener.
TakeResult ==
  /\ main = "serve"
  /\ \E r \in results :
       /\ results' = results \ {r}
       /\ taken' = taken \cup {r[1]}
       /\ err' = (err \/ r[2])
       /\ lctx' = (lctx \/ r[2])
  /\ UNCHANGED <<main, up, signal, ctx, busy, serve, port, tries, failed, players>>

ListenersOver ==
  /\ main = "serve" /\ taken = Listeners
  /\ main' = "waitLoop" /\ lctx' = TRUE /\ ctx' = TRUE
  /\ UNCHANGED <<up, err, signal, busy, netVars, taken>>

\* Slip: run() returns without waiting for the loop.
LoopForgotten ==
  /\ main = "waitLoop" /\ main' = "closeSaver"
  /\ UNCHANGED <<up, err, ctxVars, busy, netVars, taken>>

LoopAwaited ==
  /\ main = "waitLoop" /\ "loop" \notin up
  /\ main' = "closeSaver"
  /\ UNCHANGED <<up, err, ctxVars, busy, netVars, taken>>

\* The deferred calls, last first; that of the context has nobody left to tell.
CloseSaver ==
  /\ main = "closeSaver" /\ main' = "closeStore"
  /\ up' = up \ {"saver"} /\ ctx' = TRUE
  /\ UNCHANGED <<err, signal, lctx, busy, netVars, taken>>

CloseStore ==
  /\ main = "closeStore" /\ main' = "exited"
  /\ up' = up \ {"store"}
  /\ UNCHANGED <<err, ctxVars, busy, netVars, taken>>

\* A signal at any time; it does not interrupt the start.
Signal ==
  /\ ~signal /\ signal' = TRUE /\ ctx' = TRUE /\ lctx' = TRUE
  /\ UNCHANGED <<runVars, busy, netVars, taken>>

LoopReturns ==
  /\ "loop" \in up /\ ctx
  /\ up' = up \ {"loop"}
  /\ UNCHANGED <<main, err, ctxVars, busy, netVars, taken>>

-----------------------------------------------------------------------------
(* The listeners. *)

Go(l, s) == serve' = [serve EXCEPT ![l] = s]

\* Whether l holds its port.  Telnet's listener is closed at the cancellation,
\* also when its Accept has failed; http.Serve closes its own.
Bound(l) == serve[l] = "accept" \/ (l = "telnet" /\ l \in failed /\ ~lctx)

Free(p) == p \notin busy /\ \A l \in Listeners : Bound(l) => port[l] # p

Bind(l) ==
  /\ serve[l] = "bind" /\ tries[l] < BindRetries /\ Free(port[l])
  /\ Go(l, "accept")
  /\ UNCHANGED <<runVars, ctxVars, busy, port, tries, failed, players, results, taken>>

\* listenTCP of the Telnet listener; the WebSocket listener binds once.
MayStep(l) == l = "telnet" /\ port[l] \in Stepping /\ port[l] < LastPort

Step(l) ==
  /\ serve[l] = "bind" /\ tries[l] < BindRetries /\ ~Free(port[l]) /\ MayStep(l)
  /\ port' = [port EXCEPT ![l] = @ + 1]
  /\ tries' = [tries EXCEPT ![l] = @ + 1]
  /\ UNCHANGED <<runVars, ctxVars, busy, serve, failed, players, results, taken>>

Return(l, e) == Go(l, "over") /\ results' = results \cup {<<l, e>>}

\* Out of ports or of tries, or an error other than "address in use", which ends it at
\* once, on a free port too.
BindFails(l) ==
  /\ serve[l] = "bind"
  /\ failed' = failed \cup {l} /\ port' = [port EXCEPT ![l] = NoPort]
  /\ Return(l, TRUE)
  /\ UNCHANGED <<runVars, ctxVars, busy, tries, players, taken>>

Connect(l) ==
  /\ serve[l] = "accept" /\ players[l] < MaxPlayers
  /\ players' = [players EXCEPT ![l] = @ + 1]
  /\ UNCHANGED <<runVars, ctxVars, busy, serve, port, tries, failed, results, taken>>

Part(l) ==
  /\ players[l] > 0
  /\ players' = [players EXCEPT ![l] = @ - 1]
  /\ UNCHANGED <<runVars, ctxVars, busy, serve, port, tries, failed, results, taken>>

\* Accept returns an error although nobody closed the listener.
AcceptFails(l) ==
  /\ serve[l] = "accept" /\ Go(l, "drain")
  /\ failed' = failed \cup {l}
  /\ UNCHANGED <<runVars, ctxVars, busy, port, tries, players, results, taken>>

\* The goroutine that waits for the cancellation closes the listener.
CloseListener(l) ==
  /\ serve[l] = "accept" /\ lctx /\ Go(l, "drain")
  /\ UNCHANGED <<runVars, ctxVars, busy, port, tries, failed, players, results, taken>>

\* wg.Wait, and only then the look at what Accept returned: an error is one
\* unless the listener's context was cancelled meanwhile.
ServeReturns(l) ==
  /\ serve[l] = "drain" /\ players[l] = 0
  /\ Return(l, l \in failed /\ ~lctx)
  /\ UNCHANGED <<runVars, ctxVars, busy, port, tries, failed, players, taken>>

-----------------------------------------------------------------------------
Exited == main = "exited" /\ UNCHANGED vars

Run == OpenStore \/ Load \/ NewSaver \/ LoadLivelihood \/ Start \/ TakeResult
         \/ ListenersOver \/ LoopAwaited \/ CloseSaver \/ CloseStore

Listen(l) == Bind(l) \/ Step(l) \/ BindFails(l) \/ CloseListener(l) \/ ServeReturns(l)

Next == Run \/ Signal \/ LoopReturns \/ Exited
          \/ \E l \in Listeners : Listen(l) \/ Connect(l) \/ Part(l) \/ AcceptFails(l)

Spec == Init /\ [][Next]_vars

\* Goroutines run, and a cancelled listener's handlers end (Lines, Lifecycle).
FairSpec ==
  /\ Spec /\ WF_vars(Run) /\ WF_vars(LoopReturns)
  /\ \A l \in Listeners : WF_vars(Listen(l)) /\ WF_vars(lctx /\ Part(l))
-----------------------------------------------------------------------------
(* Properties. *)

Serving(l) == serve[l] \in {"bind", "accept", "drain"} \/ players[l] > 0

\* On every way out of run(), after any number of its steps, what is used is
\* open: the loop has its saver, the saver and the handlers have the store; the
\* process exits with nothing left running, and with an error unless it was told
\* to stop.  (the order of the deferred calls, <-loopDone and the two results)
WayOut ==
  /\ "loop" \in up => "saver" \in up
  /\ ("saver" \in up \/ \E l \in Listeners : Serving(l)) => "store" \in up
  /\ main = "exited" => up = {} /\ (err \/ signal)

\* A process with one listener is not left standing: once a listener has failed
\* and its players are gone, or a signal came, the process exits.  ("A bind failure
\* on either side cancels the other", main.go:109)
NoHalfServer ==
  /\ signal ~> main = "exited"
  /\ \A l \in Listeners : l \in failed /\ players[l] = 0 ~> main = "exited"

=============================================================================
