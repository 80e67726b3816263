----------------------------- MODULE BootProofs -----------------------------
(* Every way out of run(), for any ports, retries and players.             *)
EXTENDS Boot, TLAPS

\* What each step of run() finds open.
Opened ==
  /\ main = "store" => up = {}
  /\ main \in {"world", "skills", "saver", "closeStore"} => up = {"store"}
  /\ main \in {"livelihood", "loop", "closeSaver"} => up = {"store", "saver"}
  /\ main \in {"serve", "waitLoop"} => {"store", "saver"} \subseteq up
  /\ main = "exited" => up = {}

\* Listeners serve while run() waits for them, and only then.
Quiet(l) == serve[l] \in {"off", "over"} /\ players[l] = 0

Served ==
  /\ main # "serve" => \A l \in Listeners : Quiet(l)
  /\ main \in {"store", "world", "skills", "saver", "livelihood", "loop"} =>
       results = {} /\ taken = {} /\ \A l \in Listeners : serve[l] = "off"
  /\ \A l \in Listeners : players[l] > 0 => serve[l] \in {"accept", "drain"}
  /\ \A l \in Listeners :
       l \in taken \/ (\E r \in results : r[1] = l) => serve[l] = "over"

\* Why a context is cancelled, and an error result is on its way to run().
Told ==
  /\ main \in {"waitLoop", "exited"} => err \/ signal
  /\ main \in {"closeSaver", "closeStore"} => err \/ signal
  /\ lctx => err \/ signal
  /\ \A l \in Listeners : serve[l] = "drain" /\ l \notin failed => lctx
  /\ \A r \in results : r[2] \/ lctx
  /\ taken # {} => lctx

IInv == TypeOK /\ Opened /\ Served /\ Told
-----------------------------------------------------------------------------
LEMMA TypeInit == Init => TypeOK
<1> SUFFICES ASSUME Init PROVE TypeOK
  OBVIOUS
<1>1. port \in [Listeners -> Ports \cup {NoPort}]
  BY BootAssumption DEF Init
<1>2. tries \in [Listeners -> 0..BindRetries] /\ players \in [Listeners -> 0..MaxPlayers]
  BY BootAssumption DEF Init
<1> QED BY <1>1, <1>2 DEF Init, TypeOK, Steps

\* What one more result does to those that wait.
LEMMA Returned ==
  ASSUME NEW l \in Listeners, NEW e, Return(l, e), results \subseteq Listeners \X BOOLEAN
  PROVE  /\ e \in BOOLEAN => results' \subseteq Listeners \X BOOLEAN
         /\ \A x \in results' : x \in results \/ (x[1] = l /\ x[2] = e)
BY DEF Return

LEMMA TypeStep == TypeOK /\ [Next]_vars => TypeOK'
<1> SUFFICES ASSUME TypeOK, [Next]_vars PROVE TypeOK'
  OBVIOUS
<1> USE BootAssumption
<1>1. CASE OpenStore
  BY <1>1 DEF TypeOK, OpenStore, GiveUp, runVars, ctxVars, netVars, Steps, Listeners, Ports
<1>2. CASE Load
  BY <1>2 DEF TypeOK, Load, GiveUp, runVars, ctxVars, netVars, Steps, Listeners, Ports
<1>3. CASE NewSaver
  BY <1>3 DEF TypeOK, NewSaver, runVars, ctxVars, netVars, Steps, Listeners, Ports
<1>4. CASE LoadLivelihood
  BY <1>4 DEF TypeOK, LoadLivelihood, GiveUp, runVars, ctxVars, netVars, Steps, Listeners, Ports
<1>5. CASE Start
  BY <1>5 DEF TypeOK, Start, runVars, ctxVars, netVars, Steps, Listeners, Ports
<1>6. CASE TakeResult
  BY <1>6 DEF TypeOK, TakeResult, runVars, ctxVars, netVars, Steps, Listeners, Ports
<1>7. CASE ListenersOver
  BY <1>7 DEF TypeOK, ListenersOver, runVars, ctxVars, netVars, Steps, Listeners, Ports
<1>8. CASE LoopAwaited
  BY <1>8 DEF TypeOK, LoopAwaited, runVars, ctxVars, netVars, Steps, Listeners, Ports
<1>9. CASE CloseSaver
  BY <1>9 DEF TypeOK, CloseSaver, runVars, ctxVars, netVars, Steps, Listeners, Ports
<1>10. CASE CloseStore
  BY <1>10 DEF TypeOK, CloseStore, runVars, ctxVars, netVars, Steps, Listeners, Ports
<1>11. CASE Signal
  BY <1>11 DEF TypeOK, Signal, runVars, ctxVars, netVars, Steps, Listeners, Ports
<1>12. CASE LoopReturns
  BY <1>12 DEF TypeOK, LoopReturns, runVars, ctxVars, netVars, Steps, Listeners, Ports
<1>13. ASSUME NEW l \in Listeners, Bind(l) PROVE TypeOK'
  BY <1>13 DEF TypeOK, Bind, Go, runVars, ctxVars, netVars, Ports
<1>14. ASSUME NEW l \in Listeners, Step(l) PROVE TypeOK'
  BY <1>14 DEF TypeOK, Step, MayStep, runVars, ctxVars, netVars, Ports, NoPort
<1>15. ASSUME NEW l \in Listeners, BindFails(l) PROVE TypeOK'
  <2>1. Return(l, TRUE) /\ serve' \in [Listeners -> {"off", "bind", "accept", "drain", "over"}]
    BY <1>15 DEF TypeOK, BindFails, Return, Go
  <2>2. results' \subseteq Listeners \X BOOLEAN
    BY <2>1, Returned DEF TypeOK
  <2> QED BY <1>15, <2>1, <2>2 DEF TypeOK, BindFails, runVars, ctxVars
<1>16. ASSUME NEW l \in Listeners, CloseListener(l) PROVE TypeOK'
  BY <1>16 DEF TypeOK, CloseListener, Go, runVars, ctxVars, netVars, Ports
<1>17. ASSUME NEW l \in Listeners, ServeReturns(l) PROVE TypeOK'
  <2>1. serve' \in [Listeners -> {"off", "bind", "accept", "drain", "over"}]
    BY <1>17 DEF TypeOK, ServeReturns, Return, Go
  <2>2. results' \subseteq Listeners \X BOOLEAN
    BY <1>17, Returned DEF TypeOK, ServeReturns
  <2> QED BY <1>17, <2>1, <2>2 DEF TypeOK, ServeReturns, runVars, ctxVars
<1>18. ASSUME NEW l \in Listeners, Connect(l) PROVE TypeOK'
  BY <1>18 DEF TypeOK, Connect, runVars, ctxVars, netVars, Ports
<1>19. ASSUME NEW l \in Listeners, Part(l) PROVE TypeOK'
  BY <1>19 DEF TypeOK, Part, runVars, ctxVars, netVars, Ports
<1>20. ASSUME NEW l \in Listeners, AcceptFails(l) PROVE TypeOK'
  BY <1>20 DEF TypeOK, AcceptFails, Go, runVars, ctxVars, netVars, Ports
<1>21. CASE UNCHANGED vars
  BY <1>21 DEF TypeOK, vars
<1> QED BY <1>1, <1>2, <1>3, <1>4, <1>5, <1>6, <1>7, <1>8, <1>9, <1>10, <1>11, <1>12, <1>13, <1>14, <1>15, <1>16, <1>17, <1>18, <1>19, <1>20, <1>21 DEF Next, Run, Listen, Exited

-----------------------------------------------------------------------------
LEMMA WayInit == Init => Opened /\ Served /\ Told
BY DEF Init, Opened, Served, Told, Quiet

LEMMA WayStep == IInv /\ [Next]_vars => (Opened /\ Served /\ Told)'
<1> SUFFICES ASSUME IInv, [Next]_vars PROVE (Opened /\ Served /\ Told)'
  OBVIOUS
<1> USE DEF IInv
<1>1. CASE OpenStore
  <2>1. Opened'
    BY <1>1 DEF OpenStore, GiveUp, runVars, ctxVars, netVars, Opened
  <2>2. Served'
    BY <1>1 DEF OpenStore, GiveUp, runVars, ctxVars, netVars, Served, Quiet
  <2>3. Told'
    BY <1>1 DEF OpenStore, GiveUp, runVars, ctxVars, netVars, Told, Served
  <2> QED BY <2>1, <2>2, <2>3
<1>2. CASE Load
  <2>1. Opened'
    BY <1>2 DEF Load, GiveUp, runVars, ctxVars, netVars, Opened
  <2>2. Served'
    BY <1>2 DEF Load, GiveUp, runVars, ctxVars, netVars, Served, Quiet
  <2>3. Told'
    BY <1>2 DEF Load, GiveUp, runVars, ctxVars, netVars, Told, Served
  <2> QED BY <2>1, <2>2, <2>3
<1>3. CASE NewSaver
  <2>1. Opened'
    BY <1>3 DEF NewSaver, runVars, ctxVars, netVars, Opened
  <2>2. Served'
    BY <1>3 DEF NewSaver, runVars, ctxVars, netVars, Served, Quiet
  <2>3. Told'
    BY <1>3 DEF NewSaver, runVars, ctxVars, netVars, Told, Served
  <2> QED BY <2>1, <2>2, <2>3
<1>4. CASE LoadLivelihood
  <2>1. Opened'
    BY <1>4 DEF LoadLivelihood, GiveUp, runVars, ctxVars, netVars, Opened
  <2>2. Served'
    BY <1>4 DEF LoadLivelihood, GiveUp, runVars, ctxVars, netVars, Served, Quiet
  <2>3. Told'
    BY <1>4 DEF LoadLivelihood, GiveUp, runVars, ctxVars, netVars, Told, Served
  <2> QED BY <2>1, <2>2, <2>3
<1>5. CASE Start
  <2>1. Opened'
    BY <1>5 DEF Start, runVars, ctxVars, netVars, Opened
  <2>2. Served'
    BY <1>5 DEF Start, runVars, ctxVars, netVars, Served, Quiet
  <2>3. Told'
    BY <1>5 DEF Start, runVars, ctxVars, netVars, Told, Served
  <2> QED BY <2>1, <2>2, <2>3
<1>6. CASE TakeResult
  <2>1. Opened'
    BY <1>6 DEF TakeResult, runVars, ctxVars, netVars, Opened
  <2>2. Served'
    BY <1>6 DEF TakeResult, runVars, ctxVars, netVars, Served, Quiet
  <2>3. Told'
    BY <1>6 DEF TakeResult, runVars, ctxVars, netVars, Told, Served
  <2> QED BY <2>1, <2>2, <2>3
<1>7. CASE ListenersOver
  <2>1. Opened'
    BY <1>7 DEF ListenersOver, runVars, ctxVars, netVars, Opened
  <2>2. Served'
    BY <1>7 DEF ListenersOver, runVars, ctxVars, netVars, Served, Quiet, TypeOK
  <2>3. Told'
    BY <1>7 DEF ListenersOver, runVars, ctxVars, netVars, Told, TypeOK, Listeners
  <2> QED BY <2>1, <2>2, <2>3
<1>8. CASE LoopAwaited
  <2>1. Opened'
    BY <1>8 DEF LoopAwaited, runVars, ctxVars, netVars, Opened, TypeOK
  <2>2. Served'
    BY <1>8 DEF LoopAwaited, runVars, ctxVars, netVars, Served, Quiet
  <2>3. Told'
    BY <1>8 DEF LoopAwaited, runVars, ctxVars, netVars, Told, Served
  <2> QED BY <2>1, <2>2, <2>3
<1>9. CASE CloseSaver
  <2>1. Opened'
    BY <1>9 DEF CloseSaver, runVars, ctxVars, netVars, Opened
  <2>2. Served'
    BY <1>9 DEF CloseSaver, runVars, ctxVars, netVars, Served, Quiet
  <2>3. Told'
    BY <1>9 DEF CloseSaver, runVars, ctxVars, netVars, Told, Served
  <2> QED BY <2>1, <2>2, <2>3
<1>10. CASE CloseStore
  <2>1. Opened'
    BY <1>10 DEF CloseStore, runVars, ctxVars, netVars, Opened
  <2>2. Served'
    BY <1>10 DEF CloseStore, runVars, ctxVars, netVars, Served, Quiet
  <2>3. Told'
    BY <1>10 DEF CloseStore, runVars, ctxVars, netVars, Told, Served
  <2> QED BY <2>1, <2>2, <2>3
<1>11. CASE Signal
  <2>1. Opened'
    BY <1>11 DEF Signal, runVars, ctxVars, netVars, Opened
  <2>2. Served'
    BY <1>11 DEF Signal, runVars, ctxVars, netVars, Served, Quiet
  <2>3. Told'
    BY <1>11 DEF Signal, runVars, ctxVars, netVars, Told, Served
  <2> QED BY <2>1, <2>2, <2>3
<1>12. CASE LoopReturns
  <2>1. Opened'
    BY <1>12 DEF LoopReturns, runVars, ctxVars, netVars, Opened
  <2>2. Served'
    BY <1>12 DEF LoopReturns, runVars, ctxVars, netVars, Served, Quiet
  <2>3. Told'
    BY <1>12 DEF LoopReturns, runVars, ctxVars, netVars, Told, Served
  <2> QED BY <2>1, <2>2, <2>3
<1>13. ASSUME NEW l \in Listeners, Bind(l) PROVE (Opened /\ Served /\ Told)'
  <2>1. Opened'
    BY <1>13 DEF TypeOK, Bind, Go, runVars, ctxVars, netVars, Opened
  <2>2. Served'
    BY <1>13 DEF TypeOK, Bind, Go, runVars, ctxVars, netVars, Served, Quiet
  <2>3. Told'
    BY <1>13 DEF TypeOK, Bind, Go, runVars, ctxVars, netVars, Told
  <2> QED BY <2>1, <2>2, <2>3
<1>14. ASSUME NEW l \in Listeners, Step(l) PROVE (Opened /\ Served /\ Told)'
  <2>1. Opened'
    BY <1>14 DEF TypeOK, Step, MayStep, runVars, ctxVars, netVars, Opened
  <2>2. Served'
    BY <1>14 DEF TypeOK, Step, MayStep, runVars, ctxVars, netVars, Served, Quiet
  <2>3. Told'
    BY <1>14 DEF TypeOK, Step, MayStep, runVars, ctxVars, netVars, Told
  <2> QED BY <2>1, <2>2, <2>3
<1>15. ASSUME NEW l \in Listeners, BindFails(l) PROVE (Opened /\ Served /\ Told)'
  <2>1. Opened'
    BY <1>15 DEF TypeOK, BindFails, Return, Go, runVars, ctxVars, netVars, Opened
  <2>2. Served'
    <3>1. serve' = [serve EXCEPT ![l] = "over"] /\ main' = main /\ players' = players /\ taken' = taken
      BY <1>15 DEF BindFails, Return, Go, runVars
    <3>2. serve[l] \in {"bind", "drain"} /\ main = "serve" /\ players[l] = 0
      BY <1>15 DEF BindFails, TypeOK, Served, Quiet
    <3>3. \A x \in results' : x \in results \/ x[1] = l
      BY <1>15, Returned DEF BindFails, TypeOK
    <3>4. \A j \in Listeners : j \in taken' \/ (\E x \in results' : x[1] = j) => serve'[j] = "over"
      BY <3>1, <3>3 DEF Served, TypeOK
    <3> QED BY <3>1, <3>2, <3>4 DEF Served, TypeOK
  <2>3. Told'
    <3>1. /\ serve' = [serve EXCEPT ![l] = "over"] /\ lctx' = lctx /\ failed \subseteq failed'
          /\ UNCHANGED <<main, err, signal, taken>>
      BY <1>15 DEF BindFails, Return, Go, runVars, ctxVars
    <3>2. \A x \in results' : x \in results \/ x[2] = (TRUE)
      BY <1>15, Returned DEF BindFails, TypeOK
    <3>3. \A x \in results' : x[2] \/ lctx'
      BY <3>1, <3>2 DEF Told
    <3>4. \A j \in Listeners : serve'[j] = "drain" /\ j \notin failed' => lctx'
      BY <3>1 DEF Told, TypeOK
    <3> QED BY <3>1, <3>3, <3>4 DEF Told
  <2> QED BY <2>1, <2>2, <2>3
<1>16. ASSUME NEW l \in Listeners, CloseListener(l) PROVE (Opened /\ Served /\ Told)'
  <2>1. Opened'
    BY <1>16 DEF TypeOK, CloseListener, Go, runVars, ctxVars, netVars, Opened
  <2>2. Served'
    BY <1>16 DEF TypeOK, CloseListener, Go, runVars, ctxVars, netVars, Served, Quiet
  <2>3. Told'
    BY <1>16 DEF TypeOK, CloseListener, Go, runVars, ctxVars, netVars, Told
  <2> QED BY <2>1, <2>2, <2>3
<1>17. ASSUME NEW l \in Listeners, ServeReturns(l) PROVE (Opened /\ Served /\ Told)'
  <2>1. Opened'
    BY <1>17 DEF TypeOK, ServeReturns, Return, Go, runVars, ctxVars, netVars, Opened
  <2>2. Served'
    <3>1. serve' = [serve EXCEPT ![l] = "over"] /\ main' = main /\ players' = players /\ taken' = taken
      BY <1>17 DEF ServeReturns, Return, Go, runVars
    <3>2. serve[l] \in {"bind", "drain"} /\ main = "serve" /\ players[l] = 0
      BY <1>17 DEF ServeReturns, TypeOK, Served, Quiet
    <3>3. \A x \in results' : x \in results \/ x[1] = l
      BY <1>17, Returned DEF ServeReturns, TypeOK
    <3>4. \A j \in Listeners : j \in taken' \/ (\E x \in results' : x[1] = j) => serve'[j] = "over"
      BY <3>1, <3>3 DEF Served, TypeOK
    <3> QED BY <3>1, <3>2, <3>4 DEF Served, TypeOK
  <2>3. Told'
    <3>0. l \in failed \/ lctx
      BY <1>17 DEF ServeReturns, Told
    <3>1. /\ serve' = [serve EXCEPT ![l] = "over"] /\ lctx' = lctx /\ failed \subseteq failed'
          /\ UNCHANGED <<main, err, signal, taken>>
      BY <1>17 DEF ServeReturns, Return, Go, runVars, ctxVars
    <3>2. \A x \in results' : x \in results \/ x[2] = (l \in failed /\ ~lctx)
      BY <1>17, Returned DEF ServeReturns, TypeOK
    <3>3. \A x \in results' : x[2] \/ lctx'
      BY <3>1, <3>2, <3>0 DEF Told
    <3>4. \A j \in Listeners : serve'[j] = "drain" /\ j \notin failed' => lctx'
      BY <3>1 DEF Told, TypeOK
    <3> QED BY <3>1, <3>3, <3>4 DEF Told
  <2> QED BY <2>1, <2>2, <2>3
<1>18. ASSUME NEW l \in Listeners, Connect(l) PROVE (Opened /\ Served /\ Told)'
  <2>1. Opened'
    BY <1>18 DEF TypeOK, Connect, runVars, ctxVars, netVars, Opened
  <2>2. Served'
    BY <1>18 DEF TypeOK, Connect, runVars, ctxVars, netVars, Served, Quiet
  <2>3. Told'
    BY <1>18 DEF TypeOK, Connect, runVars, ctxVars, netVars, Told
  <2> QED BY <2>1, <2>2, <2>3
<1>19. ASSUME NEW l \in Listeners, Part(l) PROVE (Opened /\ Served /\ Told)'
  <2>1. Opened'
    BY <1>19 DEF TypeOK, Part, runVars, ctxVars, netVars, Opened
  <2>2. Served'
    BY <1>19 DEF TypeOK, Part, runVars, ctxVars, netVars, Served, Quiet
  <2>3. Told'
    BY <1>19 DEF TypeOK, Part, runVars, ctxVars, netVars, Told
  <2> QED BY <2>1, <2>2, <2>3
<1>20. ASSUME NEW l \in Listeners, AcceptFails(l) PROVE (Opened /\ Served /\ Told)'
  <2>1. Opened'
    BY <1>20 DEF TypeOK, AcceptFails, Go, runVars, ctxVars, netVars, Opened
  <2>2. Served'
    BY <1>20 DEF TypeOK, AcceptFails, Go, runVars, ctxVars, netVars, Served, Quiet
  <2>3. Told'
    BY <1>20 DEF TypeOK, AcceptFails, Go, runVars, ctxVars, netVars, Told
  <2> QED BY <2>1, <2>2, <2>3
<1>21. CASE UNCHANGED vars
  BY <1>21 DEF Opened, Served, Told, Quiet, vars
<1> QED BY <1>1, <1>2, <1>3, <1>4, <1>5, <1>6, <1>7, <1>8, <1>9, <1>10, <1>11, <1>12, <1>13, <1>14, <1>15, <1>16, <1>17, <1>18, <1>19, <1>20, <1>21 DEF Next, Run, Listen, Exited

LEMMA AllHolds == Spec => []IInv
<1>1. Init => IInv
  BY TypeInit, WayInit DEF IInv
<1>2. IInv /\ [Next]_vars => IInv'
  BY TypeStep, WayStep DEF IInv
<1> QED BY <1>1, <1>2, PTL DEF Spec

\* Every reachable state is well typed.
THEOREM TypeCorrect == Spec => []TypeOK
<1>1. IInv => TypeOK
  BY DEF IInv
<1> QED BY <1>1, AllHolds, PTL

\* Whatever step fails and whenever the signal comes, run() closes what it opened,
\* last first and unused, and returns an error unless it was told to stop.
THEOREM EveryWayOut == Spec => []WayOut
<1>1. IInv => WayOut
  <2> SUFFICES ASSUME IInv PROVE WayOut
    OBVIOUS
  <2>1. "loop" \in up => "saver" \in up
    BY DEF IInv, TypeOK, Steps, Opened
  <2>2. "saver" \in up => "store" \in up
    BY DEF IInv, TypeOK, Steps, Opened
  <2>3. ASSUME NEW l \in Listeners, Serving(l) PROVE "store" \in up
    BY <2>3 DEF IInv, Opened, Served, Serving, Quiet
  <2>4. main = "exited" => up = {} /\ (err \/ signal)
    BY DEF IInv, Opened, Told
  <2> QED BY <2>1, <2>2, <2>3, <2>4 DEF WayOut
<1> QED BY <1>1, AllHolds, PTL
=============================================================================
