-------------------------- MODULE LifecycleProofs --------------------------
(* What Lifecycle guarantees for every number of connections and accounts   *)
(* and every queue capacity.  The second part is about sheets: one is never *)
(* in two places, never falls behind the store and is not lost, however     *)
(* often the process dies.                                                  *)
EXTENDS Lifecycle, Restart, TLAPS

-----------------------------------------------------------------------------
(* Commands and queues. *)

\* Every command a handler submits is a command.
LEMMA PlainCommands ==
  ASSUME NEW c \in Conns
  PROVE  /\ [op |-> "attach", conn |-> c] \in Command
         /\ [op |-> "leave", conn |-> c] \in Command
         /\ [op |-> "detach", conn |-> c] \in Command
BY DEF Command

LEMMA WorkCommand ==
  ASSUME NEW c \in Conns, NEW d \in Deed
  PROVE  [op |-> "work", conn |-> c, deed |-> d] \in Command
BY DEF Command

LEMMA EnterCommand ==
  ASSUME NEW c \in Conns, NEW a \in Accounts, NEW s \in Sheet
  PROVE  [op |-> "enter", conn |-> c, acct |-> a, sheet |-> s] \in Command
BY DEF Command

\* What a queued command carries.
LEMMA CommandParts ==
  ASSUME NEW x \in Command
  PROVE  /\ x.conn \in Conns
         /\ x.op \in {"attach", "leave", "detach", "work", "enter"}
         /\ x.op = "enter" => x.acct \in Accounts /\ x.sheet \in Sheet
         /\ x.op = "work" => x.deed \in Deed
BY DEF Command

\* Taking the head of a queue.
LEMMA QueueTail ==
  ASSUME NEW S, NEW q \in Seq(S), q # <<>>
  PROVE  /\ Head(q) \in S /\ Tail(q) \in Seq(S)
         /\ Len(q) \in Nat \ {0} /\ Len(Tail(q)) = Len(q) - 1
         /\ Head(q) = q[1]
         /\ DOMAIN Tail(q) = 1..(Len(q) - 1)
         /\ \A i \in 1..(Len(q) - 1) : Tail(q)[i] = q[i + 1]
OBVIOUS

\* Adding to a queue.
LEMMA QueueAppend ==
  ASSUME NEW S, NEW q \in Seq(S), NEW x \in S
  PROVE  /\ Append(q, x) \in Seq(S)
         /\ Len(q) \in Nat /\ Len(Append(q, x)) = Len(q) + 1
         /\ DOMAIN q = 1..Len(q)
         /\ DOMAIN Append(q, x) = 1..(Len(q) + 1)
         /\ \A i \in 1..Len(q) : Append(q, x)[i] = q[i]
         /\ Append(q, x)[Len(q) + 1] = x
OBVIOUS

-----------------------------------------------------------------------------
(* Every state is well typed. *)

USE DEF netVars, loopVars, saverVars, mainVars, vars

\* A handler past authentication knows its account.
Known == \A c \in Conns :
  pc[c] \in {"load", "attach", "attachWait", "enter", "seat", "play"} => acct[c] \in Accounts

Typed == TypeOK /\ Known

LEMMA InitTyped == Init => Typed
<1> SUFFICES ASSUME Init PROVE Typed
  OBVIOUS
<1>1. cmds \in Seq(Command) /\ Len(cmds) <= QueueCap
  BY CapAssumption DEF Init
<1>2. saves \in Seq(Job) /\ Len(saves) <= SaverCap
  BY CapAssumption DEF Init
<1>3. deeds \in 0..MaxDeeds
  BY CapAssumption DEF Init
<1>4. /\ pc \in [Conns -> Pc] /\ acct \in [Conns -> Accounts \cup {NoAccount}]
      /\ roster \in [Conns -> Accounts \cup {NoAccount}]
  BY DEF Init, Pc
<1>5. /\ sheet \in [Conns -> Sheet] /\ body \in [Conns -> Sheet]
      /\ store \in [Accounts -> Sheet] /\ done \in [Accounts -> Sheet]
      /\ faults \in [Accounts -> SUBSET Cause]
  BY DEF Init, Sheet
<1>6. TypeOK
  BY <1>1, <1>2, <1>3, <1>4, <1>5 DEF Init, TypeOK
<1> QED
  BY <1>6 DEF Init, Typed, Known

\* A submitted command keeps the queue a bounded queue of commands.
LEMMA SubmitTyped ==
  ASSUME cmds \in Seq(Command), NEW x \in Command, Submit(x)
  PROVE  cmds' \in Seq(Command) /\ Len(cmds') <= QueueCap
BY QueueAppend, CapAssumption DEF Submit, HasRoom

\* No step of a handler breaks the types.
LEMMA HandlerTyped ==
  ASSUME Typed, NEW c \in Conns, Handler(c)
  PROVE  Typed'
<1> USE DEF Typed, Known, TypeOK, Goto, Pc
<1> DEFINE QueueOK == cmds' \in Seq(Command) /\ Len(cmds') <= QueueCap
<1>1. CASE Accept(c)
  BY <1>1 DEF Accept
<1>2. CASE \E a \in Accounts : Authenticate(c, a)
  BY <1>2 DEF Authenticate
<1>3. CASE LoadSheet(c)
  <2>1. acct[c] \in Accounts /\ store[acct[c]] \in Sheet
    BY <1>3 DEF LoadSheet
  <2>2. LoadFaults(acct[c]) \subseteq Cause
    BY DEF LoadFaults, Cause
  <2> QED
    BY <1>3, <2>1, <2>2 DEF LoadSheet
<1>4. CASE Fail(c)
  BY <1>4 DEF Fail, AfterFailure
<1>5. CASE AttachRequest(c)
  <2>1. QueueOK
    BY <1>5, PlainCommands, SubmitTyped DEF AttachRequest
  <2> QED
    BY <1>5, <2>1 DEF AttachRequest
<1>6. CASE AttachReply(c)
  BY <1>6 DEF AttachReply
<1>7. CASE EnterWorld(c)
  <2>1. [op |-> "enter", conn |-> c, acct |-> acct[c], sheet |-> sheet[c]] \in Command
    BY <1>7, EnterCommand DEF EnterWorld
  <2>2. QueueOK
    BY <1>7, <2>1, SubmitTyped DEF EnterWorld
  <2> QED
    BY <1>7, <2>2 DEF EnterWorld, AfterFailure
<1>8. CASE Seated(c)
  BY <1>8 DEF Seated
<1>9. CASE Work(c)
  <2>1. deeds + 1 \in Deed
    BY <1>9, CapAssumption DEF Work, Deed
  <2>2. QueueOK
    BY <1>9, <2>1, WorkCommand, SubmitTyped DEF Work
  <2> QED
    BY <1>9, <2>1, <2>2, CapAssumption DEF Work, Deed
<1>10. CASE Quit(c)
  <2>1. QueueOK
    BY <1>10, PlainCommands, SubmitTyped DEF Quit
  <2> QED
    BY <1>10, <2>1 DEF Quit
<1>11. CASE Disconnect(c)
  BY <1>11 DEF Disconnect
<1>12. CASE Leave(c)
  <2>1. QueueOK
    BY <1>12, PlainCommands, SubmitTyped DEF Leave, SubmitLeave
  <2>2. faults' \in [Accounts -> SUBSET Cause]
    <3>1. LeaveFaults(c) \subseteq Cause
      BY DEF LeaveFaults, Cause
    <3> QED
      BY <1>12, <3>1 DEF Leave, SubmitLeave, Blame
  <2> QED
    BY <1>12, <2>1, <2>2 DEF Leave
<1>13. CASE DetachRequest(c)
  <2>1. QueueOK
    BY <1>13, PlainCommands, SubmitTyped DEF DetachRequest
  <2> QED
    BY <1>13, <2>1 DEF DetachRequest
<1>14. CASE DetachEnd(c)
  BY <1>14 DEF DetachEnd
<1> QED
  BY <1>1, <1>2, <1>3, <1>4, <1>5, <1>6, <1>7, <1>8, <1>9, <1>10, <1>11, <1>12, <1>13, <1>14 DEF Handler

\* SaveAsync keeps the channel a bounded queue of jobs.
LEMMA SaveTyped ==
  ASSUME saves \in Seq(Job), Len(saves) <= SaverCap, faults \in [Accounts -> SUBSET Cause],
         NEW a \in Accounts, NEW s \in Sheet, SaveAsync(a, s)
  PROVE  /\ saves' \in Seq(Job) /\ Len(saves') <= SaverCap
         /\ faults' \in [Accounts -> SUBSET Cause]
<1>1. [acct |-> a, sheet |-> s] \in Job
  BY DEF Job
<1>2. CASE Len(saves) < SaverCap
  BY <1>1, <1>2, QueueAppend, CapAssumption DEF SaveAsync
<1>3. CASE ~(Len(saves) < SaverCap)
  BY <1>3 DEF SaveAsync, Cause
<1> QED
  BY <1>2, <1>3

\* No step of the loop breaks the types.
LEMMA HandleTyped ==
  ASSUME Typed, Handle
  PROVE  Typed'
<1> DEFINE x == Head(cmds)
<1> USE DEF Typed, Known, TypeOK
<1>1. /\ x \in Command
      /\ cmds' \in Seq(Command) /\ Len(cmds') <= QueueCap
  BY QueueTail, CapAssumption DEF Handle
<1>2. /\ x.conn \in Conns
      /\ x.op = "enter" => x.acct \in Accounts /\ x.sheet \in Sheet
      /\ x.op = "work" => x.deed \in Deed
  BY <1>1, CommandParts
<1> HIDE DEF x
<1>3. CASE x.op = "attach" /\ HandleAttach(x.conn)
  BY <1>1, <1>2, <1>3 DEF HandleAttach, Handle
<1>4. CASE x.op = "enter" /\ HandleEnter(x.conn, x.acct, x.sheet)
  BY <1>1, <1>2, <1>4 DEF HandleEnter, Handle
<1>5. CASE x.op = "work" /\ HandleWork(x.conn, x.deed)
  <2>1. CASE OnRoster(x.conn)
    <3>1. roster[x.conn] \in Accounts
      BY <1>2, <2>1 DEF OnRoster
    <3>2. body' = [body EXCEPT ![x.conn] = body[x.conn] \cup {x.deed}]
      BY <1>5, <2>1 DEF HandleWork
    <3>3. done' = [done EXCEPT ![roster[x.conn]] = done[roster[x.conn]] \cup {x.deed}]
      BY <1>5, <2>1 DEF HandleWork
    <3> QED
      BY <1>1, <1>2, <1>5, <3>1, <3>2, <3>3 DEF HandleWork, Handle, Sheet
  <2>2. CASE ~OnRoster(x.conn)
    BY <1>1, <1>2, <1>5, <2>2 DEF HandleWork, Handle
  <2> QED
    BY <2>1, <2>2
<1>6. CASE x.op = "leave" /\ HandleLeave(x.conn)
  <2>1. CASE OnRoster(x.conn)
    <3>1. SaveAsync(roster[x.conn], body[x.conn])
      BY <2>1, <1>6 DEF HandleLeave
    <3>2. roster[x.conn] \in Accounts /\ body[x.conn] \in Sheet
      BY <2>1, <1>2 DEF OnRoster
    <3> QED
      BY <1>1, <1>2, <1>6, <2>1, <3>1, <3>2, SaveTyped DEF HandleLeave, Handle
  <2>2. CASE ~OnRoster(x.conn)
    BY <1>1, <1>2, <1>6, <2>2 DEF HandleLeave, Handle
  <2> QED
    BY <2>1, <2>2
<1>7. CASE x.op = "detach" /\ HandleDetach(x.conn)
  BY <1>1, <1>2, <1>7 DEF HandleDetach, Handle
<1> QED
  BY <1>3, <1>4, <1>5, <1>6, <1>7 DEF Handle, x

\* No other step breaks the types.
LEMMA OthersTyped ==
  ASSUME Typed, LoopCancelled \/ LoopReturn \/ Worker \/ Main \/ UNCHANGED vars
  PROVE  Typed'
<1> USE DEF Typed, Known, TypeOK
<1>1. CASE LoopCancelled \/ LoopReturn
  BY <1>1 DEF LoopCancelled, LoopReturn
<1>2. CASE WorkerTake
  <2>1. Head(saves) \in Job /\ saves' \in Seq(Job) /\ Len(saves') <= SaverCap
    BY <1>2, QueueTail, CapAssumption DEF WorkerTake
  <2> QED
    BY <1>2, <2>1 DEF WorkerTake
<1>3. CASE WorkerWrite
  <2> PICK j \in inflight : store' = [store EXCEPT ![j.acct] = j.sheet]
    BY <1>3 DEF WorkerWrite
  <2> j.acct \in Accounts /\ j.sheet \in Sheet
    BY DEF Job
  <2> QED
    BY <1>3 DEF WorkerWrite
<1>4. CASE WorkerFail
  <2> PICK j \in inflight :
        /\ faults' = [faults EXCEPT ![j.acct] = @ \cup {"save failed"}]
        /\ store' = store \/ store' = [store EXCEPT ![j.acct] = j.sheet]
    BY <1>4 DEF WorkerFail
  <2> j.acct \in Accounts /\ j.sheet \in Sheet
    BY DEF Job
  <2> QED
    BY <1>4 DEF WorkerFail, Cause
<1>5. CASE Main
  BY <1>5 DEF Main, Signal, ListenerFails, StopAccepting, ListenersReturn, CloseSaver, Exit,
              Terminated
<1>6. CASE UNCHANGED vars
  BY <1>6
<1> QED
  BY <1>1, <1>2, <1>3, <1>4, <1>5, <1>6 DEF Worker

LEMMA NextTyped == Typed /\ [Next]_vars => Typed'
BY HandlerTyped, HandleTyped, OthersTyped DEF Next, Loop

\* The types hold in every state a server can reach, whatever the capacities.
THEOREM TypeCorrect == Spec => []TypeOK
<1>1. Typed => TypeOK
  BY DEF Typed
<1> QED
  BY InitTyped, NextTyped, <1>1, PTL DEF Spec

-----------------------------------------------------------------------------
(* The order of a connection's commands: EnterWorld, LeaveWorld, Detach.     *)

Before == {"new", "auth", "load", "attach", "attachWait", "enter"}
After  == {"detach", "detachWait", "done"}

NotYetIn ==
  \A c \in Conns : pc[c] \in Before => ~OnRoster(c) /\ ~Sent(c, "enter") /\ ~Sent(c, "leave")

DetachLast == \A c \in Conns : pc[c] \notin {"detachWait", "done"} => ~Sent(c, "detach")

QueueOrder ==
  \A i, j \in DOMAIN cmds : cmds[i].conn = cmds[j].conn =>
    /\ cmds[i].op = "enter" /\ cmds[j].op = "enter" => i = j
    /\ cmds[i].op = "enter" /\ cmds[j].op = "leave" => i < j
    /\ cmds[i].op = "leave" /\ cmds[j].op = "detach" => i < j

EntersKnown ==
  \A i \in DOMAIN cmds : cmds[i].op = "enter" =>
    cmds[i].acct = acct[cmds[i].conn] /\ ~OnRoster(cmds[i].conn)

RosterKnown == \A c \in Conns : OnRoster(c) => roster[c] = acct[c]

\* Nobody is left in the world unless its LeaveWorld was refused.
Inside(c) == OnRoster(c) \/ Sent(c, "enter")

LeftBehind ==
  \A c \in Conns : pc[c] \in After /\ Inside(c) /\ ~Sent(c, "leave") =>
    "leave refused" \in faults[acct[c]]

Order == NotYetIn /\ DetachLast /\ QueueOrder /\ EntersKnown /\ RosterKnown /\ LeftBehind

\* What a submission changes.
LEMMA SentAppend ==
  ASSUME cmds \in Seq(Command), NEW x \in Command, cmds' = Append(cmds, x), NEW c, NEW op
  PROVE  Sent(c, op)' <=> Sent(c, op) \/ (x.conn = c /\ x.op = op)
<1>1. /\ DOMAIN cmds = 1..Len(cmds) /\ Len(cmds) \in Nat
      /\ DOMAIN cmds' = 1..(Len(cmds) + 1)
      /\ \A i \in 1..Len(cmds) : cmds'[i] = cmds[i]
      /\ cmds'[Len(cmds) + 1] = x
  BY QueueAppend
<1> QED
  BY <1>1 DEF Sent

\* What handling the oldest command changes.
LEMMA SentTail ==
  ASSUME cmds \in Seq(Command), cmds # <<>>, cmds' = Tail(cmds), NEW c, NEW op
  PROVE  Sent(c, op) <=> Sent(c, op)' \/ (Head(cmds).conn = c /\ Head(cmds).op = op)
<1>1. /\ DOMAIN cmds = 1..Len(cmds) /\ Len(cmds) \in Nat \ {0}
      /\ DOMAIN cmds' = 1..(Len(cmds) - 1)
      /\ \A i \in 1..(Len(cmds) - 1) : cmds'[i] = cmds[i + 1]
      /\ cmds[1] = Head(cmds)
  BY QueueTail
<1>2. Sent(c, op)' => Sent(c, op)
  BY <1>1 DEF Sent
<1>3. Head(cmds).conn = c /\ Head(cmds).op = op => Sent(c, op)
  BY <1>1 DEF Sent
<1>4. ASSUME NEW i \in DOMAIN cmds, cmds[i].op = op, cmds[i].conn = c, i # 1
      PROVE  Sent(c, op)'
  <2>1. i - 1 \in DOMAIN cmds' /\ cmds'[i - 1] = cmds[i]
    BY <1>1, <1>4
  <2> QED
    BY <1>4, <2>1 DEF Sent
<1> QED
  BY <1>1, <1>2, <1>3, <1>4 DEF Sent

\* A submission that fits the order keeps the order of the queue.
LEMMA OrderAppend ==
  ASSUME cmds \in Seq(Command), NEW x \in Command, cmds' = Append(cmds, x), QueueOrder,
         x.op = "enter" => ~Sent(x.conn, "enter") /\ ~Sent(x.conn, "leave"),
         x.op = "leave" => ~Sent(x.conn, "detach")
  PROVE  QueueOrder'
<1>1. /\ DOMAIN cmds = 1..Len(cmds) /\ Len(cmds) \in Nat
      /\ DOMAIN cmds' = 1..(Len(cmds) + 1)
      /\ \A i \in 1..Len(cmds) : cmds'[i] = cmds[i]
      /\ cmds'[Len(cmds) + 1] = x
  BY QueueAppend
<1> QED
  BY <1>1 DEF QueueOrder, Sent

LEMMA OrderTail ==
  ASSUME cmds \in Seq(Command), cmds # <<>>, cmds' = Tail(cmds), QueueOrder
  PROVE  QueueOrder'
<1>1. /\ DOMAIN cmds = 1..Len(cmds) /\ Len(cmds) \in Nat \ {0}
      /\ DOMAIN cmds' = 1..(Len(cmds) - 1)
      /\ \A i \in 1..(Len(cmds) - 1) : cmds'[i] = cmds[i + 1]
  BY QueueTail
<1> QED
  BY <1>1 DEF QueueOrder

\* After the oldest command, an EnterWorld or a LeaveWorld, nothing of that
\* connection is left in the queue that should have come before it.
LEMMA HeadFirst ==
  ASSUME cmds \in Seq(Command), cmds # <<>>, cmds' = Tail(cmds), QueueOrder,
         NEW x, x = Head(cmds)
  PROVE  /\ x.op = "enter"  => ~Sent(x.conn, "enter")'
         /\ x.op = "leave"  => ~Sent(x.conn, "enter")
         /\ x.op = "detach" => ~Sent(x.conn, "leave")
<1>1. /\ DOMAIN cmds = 1..Len(cmds) /\ Len(cmds) \in Nat \ {0}
      /\ DOMAIN cmds' = 1..(Len(cmds) - 1)
      /\ \A i \in 1..(Len(cmds) - 1) : cmds'[i] = cmds[i + 1]
      /\ cmds[1] = Head(cmds)
  BY QueueTail
<1>2. ASSUME NEW i \in DOMAIN cmds, cmds[i].conn = x.conn
      PROVE  /\ x.op = "enter" /\ cmds[i].op = "enter" => i = 1
             /\ x.op = "leave" => cmds[i].op # "enter"
             /\ x.op = "detach" => cmds[i].op # "leave"
  <2>1. 1 \in DOMAIN cmds /\ cmds[1] = x /\ i >= 1
    BY <1>1, <1>2
  <2>2. /\ cmds[1].op = "enter" /\ cmds[i].op = "enter" => 1 = i
        /\ cmds[i].op = "enter" /\ cmds[1].op = "leave" => i < 1
        /\ cmds[i].op = "leave" /\ cmds[1].op = "detach" => i < 1
    BY <1>2, <2>1 DEF QueueOrder
  <2>3. i \in Nat
    BY <1>1, <1>2
  <2> QED
    BY <2>1, <2>2, <2>3
<1>3. ASSUME x.op = "enter" PROVE ~Sent(x.conn, "enter")'
  <2> SUFFICES ASSUME NEW i \in DOMAIN cmds', cmds'[i].op = "enter", cmds'[i].conn = x.conn
               PROVE  FALSE
    BY DEF Sent
  <2>1. i + 1 \in DOMAIN cmds /\ cmds[i + 1] = cmds'[i] /\ i + 1 # 1
    BY <1>1
  <2> QED
    BY <1>2, <1>3, <2>1
<1>4. /\ x.op = "leave" => ~Sent(x.conn, "enter")
      /\ x.op = "detach" => ~Sent(x.conn, "leave")
  BY <1>2 DEF Sent
<1> QED
  BY <1>3, <1>4
LEMMA InitOrdered == Init => Order
BY DEF Init, Order, NotYetIn, DetachLast, QueueOrder, EntersKnown, RosterKnown, LeftBehind,
       OnRoster, Sent, After

\* Whoever is in the world, or about to be, has an account.
LEMMA InsideKnown ==
  ASSUME Typed, Order, NEW c \in Conns, Inside(c)
  PROVE  acct[c] \in Accounts
<1>1. CASE OnRoster(c)
  BY <1>1 DEF OnRoster, Order, RosterKnown, Typed, TypeOK
<1>2. CASE Sent(c, "enter")
  <2>1. PICK i \in DOMAIN cmds : cmds[i].op = "enter" /\ cmds[i].conn = c
    BY <1>2 DEF Sent
  <2>2. cmds[i] \in Command
    BY DEF Typed, TypeOK
  <2> QED
    BY <2>1, <2>2, CommandParts DEF Order, EntersKnown
<1> QED
  BY <1>1, <1>2 DEF Inside

\* A handler moves on from one phase to another: never back to before its
\* EnterWorld, nor back from its Detach.
Advances(c, l) ==
  /\ pc' = [pc EXCEPT ![c] = l]
  /\ l \in Before => pc[c] \in Before
  /\ pc[c] \in {"detachWait", "done"} => l \in {"detachWait", "done"}
  /\ \A d \in Conns : acct'[d] = acct[d] \/ (d = c /\ pc[c] \in Before)
  /\ \A a \in Accounts : faults[a] \subseteq faults'[a]
  /\ roster' = roster

\* Steps that submit nothing; a handler that gets past its LeaveWorld this way
\* had it refused.
Refused(c, l) ==
  l \in After /\ pc[c] \notin After /\ Inside(c) /\ ~Sent(c, "leave") =>
    "leave refused" \in faults'[acct[c]]

LEMMA QuietOrdered ==
  ASSUME Typed, Order, NEW c \in Conns, NEW l \in Pc, Advances(c, l), cmds' = cmds,
         Refused(c, l)
  PROVE  Order'
<1>1. \A d \in Conns : OnRoster(d)' <=> OnRoster(d)
  BY DEF Advances, OnRoster
<1>2. \A d \in Conns, op \in {"enter", "leave", "detach"} :
        Sent(d, op)' <=> Sent(d, op)
  BY DEF Sent
<1>3. \A d \in Conns : pc'[d] = pc[d] \/ (d = c /\ pc'[d] = l)
  BY DEF Advances, Typed, TypeOK
<1>4. NotYetIn' /\ DetachLast'
  <2>1. NotYetIn'
    BY <1>1, <1>2, <1>3 DEF NotYetIn, Order, Advances, Before
  <2>2. DetachLast'
    BY <1>2, <1>3 DEF DetachLast, Order, Advances, Before
  <2> QED
    BY <2>1, <2>2
<1>5. QueueOrder'
  BY DEF QueueOrder, Order
<1>6. \A i \in DOMAIN cmds : cmds[i].op = "enter" =>
        cmds[i].conn \in Conns /\ acct'[cmds[i].conn] = acct[cmds[i].conn]
  <2> SUFFICES ASSUME NEW i \in DOMAIN cmds, cmds[i].op = "enter"
               PROVE  cmds[i].conn \in Conns /\ acct'[cmds[i].conn] = acct[cmds[i].conn]
    OBVIOUS
  <2>1. cmds[i] \in Command
    BY DEF Typed, TypeOK
  <2>2. cmds[i].conn \in Conns /\ Sent(cmds[i].conn, "enter")
    BY <2>1, CommandParts DEF Sent
  <2> QED
    BY <2>2 DEF NotYetIn, Order, Advances
<1>7. EntersKnown'
  BY <1>1, <1>6 DEF EntersKnown, Order
<1>8. RosterKnown'
  BY <1>1 DEF RosterKnown, NotYetIn, Order, Advances
<1>9. LeftBehind'
  <2> SUFFICES ASSUME NEW d \in Conns, pc'[d] \in After, Inside(d), ~Sent(d, "leave")
               PROVE  "leave refused" \in faults'[acct'[d]]
    BY <1>1, <1>2 DEF LeftBehind, Inside
  <2>1. pc[d] \in After \/ (d = c /\ l \in After)
    BY <1>3
  <2>2. acct'[d] = acct[d] /\ acct[d] \in Accounts
    BY InsideKnown DEF Inside, NotYetIn, Order, Advances
  <2> QED
    BY <2>1, <2>2 DEF LeftBehind, Order, Advances, Refused
<1> QED
  BY <1>4, <1>5, <1>7, <1>8, <1>9 DEF Order
\* Steps that submit a command, each in its place.
InPlace(c, l, x) ==
  /\ x.conn = c
  /\ x.op = "enter" => pc[c] = "enter" /\ l \notin Before /\ x.acct = acct'[c]
  /\ x.op = "leave" => pc[c] \notin {"detachWait", "done"} /\ l \notin Before
  /\ x.op = "detach" => l \in {"detachWait", "done"}
  /\ l \in After => pc[c] \in After \/ x.op = "leave"

LEMMA SubmitOrdered ==
  ASSUME Typed, Order, NEW c \in Conns, NEW l \in Pc, Advances(c, l),
         NEW x \in Command, cmds' = Append(cmds, x), InPlace(c, l, x)
  PROVE  Order'
<1>1. \A d \in Conns : OnRoster(d)' <=> OnRoster(d)
  BY DEF Advances, OnRoster
<1>2. \A d \in Conns, op \in {"enter", "leave", "detach"} :
        Sent(d, op)' <=> Sent(d, op) \/ (d = c /\ x.op = op)
  BY SentAppend DEF InPlace, Typed, TypeOK
<1>3. \A d \in Conns : pc'[d] = pc[d] \/ (d = c /\ pc'[d] = l)
  BY DEF Advances, Typed, TypeOK
<1>4. ASSUME NEW d \in Conns
      PROVE  /\ pc'[d] \in Before => ~OnRoster(d)' /\ ~Sent(d, "enter")' /\ ~Sent(d, "leave")'
             /\ pc'[d] \notin {"detachWait", "done"} => ~Sent(d, "detach")'
  <2>1. CASE d = c
    <3>1. pc'[d] = l
      BY <2>1 DEF Advances, Typed, TypeOK
    <3>2. ASSUME l \in Before
          PROVE  ~OnRoster(c)' /\ ~Sent(c, "enter")' /\ ~Sent(c, "leave")'
      BY <3>2, <1>1, <1>2 DEF Order, NotYetIn, Advances, InPlace
    <3>3. ASSUME l \notin {"detachWait", "done"}
          PROVE  ~Sent(c, "detach")'
      BY <3>3, <1>2 DEF Order, DetachLast, Advances, InPlace
    <3> QED
      BY <2>1, <3>1, <3>2, <3>3
  <2>2. CASE d # c
    BY <1>1, <1>2, <1>3, <2>2 DEF Order, NotYetIn, DetachLast
  <2> QED
    BY <2>1, <2>2
<1>5. QueueOrder'
  BY OrderAppend DEF InPlace, NotYetIn, DetachLast, Typed, TypeOK, Order, Before
<1>6. EntersKnown'
  <2> SUFFICES ASSUME NEW i \in DOMAIN cmds', cmds'[i].op = "enter"
               PROVE  (cmds[i].acct = acct[cmds[i].conn] /\ ~OnRoster(cmds[i].conn))'
    BY DEF EntersKnown
  <2>1. CASE i \in DOMAIN cmds
    <3>1. cmds'[i] = cmds[i] /\ cmds[i] \in Command
      BY <2>1, QueueAppend DEF Typed, TypeOK
    <3>2. cmds[i].conn \in Conns /\ Sent(cmds[i].conn, "enter")
      BY <2>1, <3>1, CommandParts DEF Sent
    <3>3. acct'[cmds[i].conn] = acct[cmds[i].conn]
      BY <3>2 DEF NotYetIn, Order, Advances
    <3> QED
      BY <1>1, <2>1, <3>1, <3>2, <3>3 DEF EntersKnown, Order
  <2>2. CASE i \notin DOMAIN cmds
    <3>1. cmds'[i] = x
      BY <2>2, QueueAppend DEF Typed, TypeOK
    <3> QED
      BY <1>1, <3>1 DEF NotYetIn, Order, Before, InPlace
  <2> QED
    BY <2>1, <2>2
<1>7. RosterKnown'
  BY <1>1 DEF RosterKnown, NotYetIn, Order, Advances
<1>8. LeftBehind'
  <2> SUFFICES ASSUME NEW d \in Conns, pc'[d] \in After, Inside(d)', ~Sent(d, "leave")'
               PROVE  "leave refused" \in faults'[acct'[d]]
    BY DEF LeftBehind
  <2>1. pc[d] \in After /\ ~Sent(d, "leave") /\ Inside(d)
    BY <1>1, <1>2, <1>3 DEF Inside, After, InPlace
  <2>2. acct'[d] = acct[d] /\ acct[d] \in Accounts
    BY <2>1, InsideKnown DEF Inside, NotYetIn, Order, Advances
  <2> QED
    BY <2>1, <2>2 DEF LeftBehind, Order, Advances
<1> QED
  BY <1>4, <1>5, <1>6, <1>7, <1>8 DEF Order, NotYetIn, DetachLast
\* Handlers submit in order.
LEMMA HandlerOrdered ==
  ASSUME Typed, Order, NEW c \in Conns, Handler(c)
  PROVE  Order'
<1>1. CASE Accept(c)
  <2>1. Advances(c, "auth") /\ cmds' = cmds
    BY <1>1 DEF Accept, Advances, Typed, TypeOK, Known, Before, Goto
  <2>2. Refused(c, "auth")
    BY <1>1 DEF Accept, Refused, After
  <2> QED
    BY <2>1, <2>2, QuietOrdered DEF Pc
<1>2. CASE \E a \in Accounts : Authenticate(c, a)
  <2> PICK a \in Accounts : Authenticate(c, a)
    BY <1>2
  <2> DEFINE l == IF c \in Telnet THEN "load" ELSE "attach"
  <2>1. Advances(c, l) /\ cmds' = cmds
    BY DEF Authenticate, Advances, Typed, TypeOK, Before, Goto
  <2>2. Refused(c, l) /\ l \in Pc
    BY DEF Refused, After, Pc
  <2> QED
    BY <2>1, <2>2, QuietOrdered
<1>3. CASE LoadSheet(c)
  <2> DEFINE l == IF c \in Telnet THEN "attach" ELSE "enter"
  <2>1. Advances(c, l) /\ cmds' = cmds
    BY <1>3 DEF LoadSheet, Advances, Typed, TypeOK, Before, Goto
  <2>2. Refused(c, l) /\ l \in Pc
    BY DEF Refused, After, Pc
  <2> QED
    BY <2>1, <2>2, QuietOrdered
<1>4. CASE Fail(c)
  <2> DEFINE l == AfterFailure(c)
  <2>1. Advances(c, l) /\ cmds' = cmds
    BY <1>4 DEF Fail, AfterFailure, Advances, Typed, TypeOK, Before, Goto
  <2>2. Refused(c, l) /\ l \in Pc
    BY DEF Refused, After, Pc, AfterFailure
  <2> QED
    BY <2>1, <2>2, QuietOrdered
<1>5. CASE AttachRequest(c)
  <2> DEFINE x == [op |-> "attach", conn |-> c]
  <2>1. Advances(c, "attachWait") /\ cmds' = Append(cmds, x)
    BY <1>5 DEF AttachRequest, Submit, Advances, Typed, TypeOK, Before, Goto
  <2>2. x \in Command /\ InPlace(c, "attachWait", x)
    BY <1>5, PlainCommands DEF AttachRequest, InPlace, Before, After
  <2> QED
    BY <2>1, <2>2, SubmitOrdered DEF Pc
<1>6. CASE AttachReply(c)
  <2> DEFINE l == IF c \in Telnet THEN "enter" ELSE "load"
  <2>1. Advances(c, l) /\ cmds' = cmds
    BY <1>6 DEF AttachReply, Advances, Typed, TypeOK, Before, Goto
  <2>2. Refused(c, l) /\ l \in Pc
    BY DEF Refused, After, Pc
  <2> QED
    BY <2>1, <2>2, QuietOrdered
<1>7. CASE EnterWorld(c)
  <2>1. CASE HasRoom
    <3> DEFINE l == IF c \in Telnet THEN "seat" ELSE "play"
               x == [op |-> "enter", conn |-> c, acct |-> acct[c], sheet |-> sheet[c]]
    <3>1. Advances(c, l) /\ cmds' = Append(cmds, x)
      BY <1>7, <2>1 DEF EnterWorld, Submit, Advances, Typed, TypeOK, Before, Goto
    <3>2. x \in Command
      BY <1>7, EnterCommand DEF EnterWorld, Typed, TypeOK, Known
    <3>3. InPlace(c, l, x) /\ l \in Pc
      BY <1>7 DEF EnterWorld, InPlace, Before, After, Pc
    <3> QED
      BY <3>1, <3>2, <3>3, SubmitOrdered
  <2>2. CASE ~HasRoom
    <3> DEFINE l == AfterFailure(c)
    <3>1. Advances(c, l) /\ cmds' = cmds
      BY <1>7, <2>2 DEF EnterWorld, Submit, AfterFailure, Advances, Typed, TypeOK, Before, Goto
    <3>2. Refused(c, l) /\ l \in Pc
      BY DEF Refused, After, Pc, AfterFailure
    <3> QED
      BY <3>1, <3>2, QuietOrdered
  <2> QED
    BY <2>1, <2>2
<1>8. CASE Seated(c)
  <2>1. Advances(c, "play") /\ cmds' = cmds
    BY <1>8 DEF Seated, Advances, Typed, TypeOK, Known, Before, Goto
  <2>2. Refused(c, "play")
    BY <1>8 DEF Seated, Refused, After
  <2> QED
    BY <2>1, <2>2, QuietOrdered DEF Pc
<1>9. CASE Work(c)
  <2> DEFINE x == [op |-> "work", conn |-> c, deed |-> deeds + 1]
  <2>1. Advances(c, pc[c]) /\ cmds' = Append(cmds, x)
    BY <1>9 DEF Work, Submit, Advances, Typed, TypeOK, Before, Goto
  <2>2. deeds + 1 \in Deed
    BY <1>9, CapAssumption DEF Work, Deed, Typed, TypeOK
  <2>3. x \in Command
    BY <2>2, WorkCommand
  <2>4. InPlace(c, pc[c], x)
    BY <1>9 DEF Work, InPlace, Before, After
  <2> QED
    BY <2>1, <2>3, <2>4, SubmitOrdered DEF Typed, TypeOK
<1>10. CASE Quit(c)
  <2>1. CASE HasRoom
    <3> DEFINE x == [op |-> "leave", conn |-> c]
    <3>1. Advances(c, "leave") /\ cmds' = Append(cmds, x)
      BY <1>10, <2>1 DEF Quit, Submit, Advances, Typed, TypeOK, Before, Goto
    <3>2. x \in Command /\ InPlace(c, "leave", x)
      BY <1>10, PlainCommands DEF Quit, InPlace, Before, After
    <3> QED
      BY <3>1, <3>2, SubmitOrdered DEF Pc
  <2>2. CASE ~HasRoom
    <3>1. Advances(c, "leave") /\ cmds' = cmds
      BY <1>10, <2>2 DEF Quit, Advances, Typed, TypeOK, Before, Goto
    <3>2. Refused(c, "leave")
      BY DEF Refused, After
    <3> QED
      BY <3>1, <3>2, QuietOrdered DEF Pc
  <2> QED
    BY <2>1, <2>2
<1>11. CASE Disconnect(c)
  <2>1. Advances(c, "leave") /\ cmds' = cmds
    BY <1>11 DEF Disconnect, Advances, Typed, TypeOK, Known, Before, Goto
  <2>2. Refused(c, "leave")
    BY <1>11 DEF Disconnect, Refused, After
  <2> QED
    BY <2>1, <2>2, QuietOrdered DEF Pc
<1>12. CASE Leave(c)
  <2> DEFINE l == IF c \in Telnet \cup attached THEN "detach" ELSE "done"
  <2>1. Advances(c, l) /\ l \in Pc
    BY <1>12 DEF Leave, SubmitLeave, Blame, Advances, Typed, TypeOK, Before, Goto, Pc
  <2>2. CASE HasRoom
    <3> DEFINE x == [op |-> "leave", conn |-> c]
    <3>1. cmds' = Append(cmds, x)
      BY <1>12, <2>2 DEF Leave, SubmitLeave, Submit
    <3>2. x \in Command /\ InPlace(c, l, x)
      BY <1>12, PlainCommands DEF Leave, InPlace, Before, After
    <3> QED
      BY <2>1, <3>1, <3>2, SubmitOrdered
  <2>3. CASE ~HasRoom
    <3>1. cmds' = cmds
      BY <1>12, <2>3 DEF Leave, SubmitLeave
    <3>2. ASSUME Inside(c), ~Sent(c, "leave")
          PROVE  "leave refused" \in faults'[acct[c]]
      <4>1. acct[c] \in Accounts
        BY <3>2, InsideKnown
      <4>2. "leave refused" \in LeaveFaults(c)
        BY <3>2, <2>3 DEF LeaveFaults, Inside
      <4> QED
        BY <1>12, <4>1, <4>2 DEF Leave, SubmitLeave, Blame
    <3>3. Refused(c, l)
      BY <3>2 DEF Refused
    <3> QED
      BY <2>1, <3>1, <3>3, QuietOrdered
  <2> QED
    BY <2>2, <2>3
<1>13. CASE DetachRequest(c)
  <2> DEFINE x == [op |-> "detach", conn |-> c]
  <2>1. Advances(c, "detachWait") /\ cmds' = Append(cmds, x)
    BY <1>13 DEF DetachRequest, Submit, Advances, Typed, TypeOK, Before, Goto
  <2>2. x \in Command /\ InPlace(c, "detachWait", x)
    BY <1>13, PlainCommands DEF DetachRequest, InPlace, Before, After
  <2> QED
    BY <2>1, <2>2, SubmitOrdered DEF Pc
<1>14. CASE DetachEnd(c)
  <2>1. Advances(c, "done") /\ cmds' = cmds
    BY <1>14 DEF DetachEnd, Advances, Typed, TypeOK, Known, Before, Goto
  <2>2. Refused(c, "done")
    BY <1>14 DEF DetachEnd, Refused, After
  <2> QED
    BY <2>1, <2>2, QuietOrdered DEF Pc
<1> QED
  BY <1>1, <1>2, <1>3, <1>4, <1>5, <1>6, <1>7, <1>8, <1>9, <1>10, <1>11, <1>12, <1>13, <1>14 DEF Handler

\* The loop handles in order.
LEMMA HandleOrdered ==
  ASSUME Typed, Order, Handle
  PROVE  Order'
<1>1. cmds # <<>> /\ cmds' = Tail(cmds) /\ cmds \in Seq(Command)
  BY DEF Handle, Typed, TypeOK
<1> PICK x \in Command : x = Head(cmds)
  BY <1>1, QueueTail
<1>2. /\ x.conn \in Conns
      /\ x.op = "enter" => x.acct \in Accounts /\ x.sheet \in Sheet
  BY CommandParts
<1>3. pc' = pc /\ acct' = acct
  BY DEF Handle, netVars
<1>4. \A a \in Accounts : faults[a] \subseteq faults'[a]
  <2>1. CASE faults' = faults
    BY <2>1
  <2>2. CASE faults' # faults
    <3>1. faults' = [faults EXCEPT ![roster[x.conn]] =
                       faults[roster[x.conn]] \cup {"save dropped"}]
      BY <2>2 DEF Handle, HandleAttach, HandleEnter, HandleWork, HandleLeave, HandleDetach,
                  SaveAsync
    <3> QED
      BY <3>1 DEF Typed, TypeOK
  <2> QED
    BY <2>1, <2>2
<1>5. \A d \in Conns, op \in {"enter", "leave", "detach"} :
        Sent(d, op) <=> Sent(d, op)' \/ (x.conn = d /\ x.op = op)
  BY <1>1, SentTail
<1>6. QueueOrder'
  BY <1>1, OrderTail DEF Order
<1>7. /\ x.op = "enter"  => ~Sent(x.conn, "enter")'
      /\ x.op = "leave"  => ~Sent(x.conn, "enter")
      /\ x.op = "detach" => ~Sent(x.conn, "leave")
  BY <1>1, HeadFirst DEF Order
<1>8. x.op = "enter" => x.acct = acct[x.conn] /\ ~OnRoster(x.conn)
  BY <1>1, QueueTail DEF Order, EntersKnown
\* How the roster changes.
<1>9. ASSUME NEW d \in Conns
      PROVE  \/ roster'[d] = roster[d]
             \/ d = x.conn /\ x.op = "enter" /\ roster'[d] = acct[d] /\ acct[d] # NoAccount
             \/ d = x.conn /\ x.op = "leave" /\ ~OnRoster(d)'
  <2>1. roster \in [Conns -> Accounts \cup {NoAccount}]
    BY DEF Typed, TypeOK
  <2>2. CASE x.op = "enter" /\ HandleEnter(x.conn, x.acct, x.sheet)
    <3>1. roster' = [roster EXCEPT ![x.conn] = acct[x.conn]]
      BY <1>8, <2>2 DEF HandleEnter
    <3>2. acct[x.conn] # NoAccount
      BY <1>2, <1>8, <2>2, NoAccountAssumption
    <3> QED
      BY <1>2, <2>1, <2>2, <3>1, <3>2
  <2>3. CASE x.op = "leave" /\ HandleLeave(x.conn)
    BY <1>2, <2>1, <2>3 DEF HandleLeave, OnRoster
  <2>4. CASE roster' = roster
    BY <2>4
  <2> QED
    BY <2>2, <2>3, <2>4 DEF Handle, HandleAttach, HandleWork, HandleDetach
<1>10. x.op = "leave" => ~OnRoster(x.conn)'
  BY <1>2 DEF Handle, HandleLeave, OnRoster, Typed, TypeOK
<1>11. NotYetIn'
  <2> SUFFICES ASSUME NEW d \in Conns, pc[d] \in Before
               PROVE  ~OnRoster(d)' /\ ~Sent(d, "enter")' /\ ~Sent(d, "leave")'
    BY <1>3 DEF NotYetIn
  <2>1. ~OnRoster(d) /\ ~Sent(d, "enter") /\ ~Sent(d, "leave")
    BY DEF Order, NotYetIn
  <2> QED
    BY <2>1, <1>5, <1>9 DEF OnRoster
<1>12. DetachLast'
  BY <1>3, <1>5 DEF Order, DetachLast
<1>13. EntersKnown'
  <2> SUFFICES ASSUME NEW i \in DOMAIN cmds', cmds'[i].op = "enter"
               PROVE  (cmds[i].acct = acct[cmds[i].conn] /\ ~OnRoster(cmds[i].conn))'
    BY DEF EntersKnown
  <2>1. i + 1 \in DOMAIN cmds /\ cmds'[i] = cmds[i + 1]
    BY <1>1, QueueTail
  <2> PICK y \in Command : y = cmds[i + 1]
    BY <1>1, <2>1
  <2>2. y.op = "enter" /\ y.conn \in Conns /\ y.acct = acct[y.conn] /\ ~OnRoster(y.conn)
    BY <2>1, CommandParts DEF Order, EntersKnown
  <2>3. Sent(y.conn, "enter")'
    BY <2>1 DEF Sent
  <2>4. ~OnRoster(y.conn)'
    BY <2>2, <2>3, <1>7, <1>9 DEF OnRoster
  <2> QED
    BY <1>3, <2>1, <2>2, <2>4
<1>14. RosterKnown'
  BY <1>3, <1>9 DEF Order, RosterKnown, OnRoster
<1>15. LeftBehind'
  <2> SUFFICES ASSUME NEW d \in Conns, pc[d] \in After, Inside(d)', ~Sent(d, "leave")'
               PROVE  "leave refused" \in faults'[acct[d]]
    BY <1>3 DEF LeftBehind
  <2>1. ~(d = x.conn /\ x.op = "leave")
    BY <1>5, <1>7, <1>10 DEF Inside
  <2>2. Inside(d) /\ ~Sent(d, "leave")
    BY <2>1, <1>5, <1>9 DEF Inside, OnRoster
  <2> QED
    BY <2>2, <1>4, InsideKnown DEF Order, LeftBehind
<1> QED
  BY <1>6, <1>11, <1>12, <1>13, <1>14, <1>15 DEF Order

\* Nothing else touches the queue or the roster.
LEMMA OthersOrdered ==
  ASSUME Typed, Order, LoopCancelled \/ LoopReturn \/ Worker \/ Main \/ UNCHANGED vars
  PROVE  Order'
<1>1. pc' = pc /\ acct' = acct /\ cmds' = cmds /\ roster' = roster
  BY DEF LoopCancelled, LoopReturn, Worker, WorkerTake, WorkerWrite, WorkerFail, Main, Signal,
         ListenerFails, StopAccepting, ListenersReturn, CloseSaver, Exit, Terminated
<1>2. \A a \in Accounts : faults[a] \subseteq faults'[a]
  BY DEF LoopCancelled, LoopReturn, Worker, WorkerTake, WorkerWrite, WorkerFail, Main, Signal,
         ListenerFails, StopAccepting, ListenersReturn, CloseSaver, Exit, Terminated,
         Typed, TypeOK
<1>3. \A d \in Conns, op \in {"enter", "leave", "detach"} : Sent(d, op)' <=> Sent(d, op)
  BY <1>1 DEF Sent
<1>4. \A d \in Conns : (OnRoster(d)' <=> OnRoster(d)) /\ (Inside(d)' <=> Inside(d))
  BY <1>1, <1>3 DEF OnRoster, Inside
<1>5. NotYetIn' /\ DetachLast'
  BY <1>1, <1>3, <1>4 DEF Order, NotYetIn, DetachLast
<1>6. QueueOrder'
  BY <1>1 DEF Order, QueueOrder
<1>7. EntersKnown' /\ RosterKnown'
  BY <1>1 DEF Order, EntersKnown, RosterKnown, OnRoster
<1>8. LeftBehind'
  BY <1>1, <1>2, <1>3, <1>4, InsideKnown DEF Order, LeftBehind
<1> QED
  BY <1>5, <1>6, <1>7, <1>8 DEF Order

LEMMA NextOrdered == Typed /\ Order /\ [Next]_vars => Order'
BY HandlerOrdered, HandleOrdered, OthersOrdered DEF Next, Loop

LEMMA AlwaysOrdered == Spec => [](Typed /\ Order)
BY InitTyped, InitOrdered, NextTyped, NextOrdered, PTL DEF Spec

LEMMA NoneLeftBehind ==
  ASSUME Typed, Order, NEW c \in Conns, OnRoster(c), pc[c] = "done", ~Sent(c, "leave")
  PROVE  "leave refused" \in faults[roster[c]]
BY DEF Order, LeftBehind, RosterKnown, After, Inside

-----------------------------------------------------------------------------
(* Event buffers. *)

SeatedHasBuffer ==
  \A c \in Conns : OnRoster(c) /\ c \notin outbound => "leave refused" \in faults[roster[c]]

\* Faults are never forgotten.
LEMMA FaultsGrow ==
  ASSUME Typed, [Next]_vars, NEW a \in Accounts
  PROVE  faults[a] \subseteq faults'[a]
<1>1. CASE faults' = faults
  BY <1>1
<1>2. ASSUME NEW b, NEW f, faults' = [faults EXCEPT ![b] = faults[b] \cup f]
      PROVE  faults[a] \subseteq faults'[a]
  BY <1>2 DEF Typed, TypeOK
<1>3. CASE \E c \in Conns : Handler(c)
  <2> PICK c \in Conns : Handler(c)
    BY <1>3
  <2>1. CASE LoadSheet(c)
    BY <2>1, <1>2 DEF LoadSheet
  <2>2. CASE Leave(c)
    BY <2>2 DEF Leave, SubmitLeave, Blame
  <2> QED
    BY <1>1, <2>1, <2>2 DEF Handler, Accept, Authenticate, Fail, AttachRequest, AttachReply,
       EnterWorld, Seated, Work, Quit, Disconnect, DetachRequest, DetachEnd
<1>4. CASE Handle
  BY <1>1, <1>2, <1>4 DEF Handle, HandleAttach, HandleEnter, HandleWork, HandleLeave,
     HandleDetach, SaveAsync
<1>5. CASE WorkerFail
  BY <1>2, <1>5 DEF WorkerFail
<1> QED
  BY <1>1, <1>3, <1>4, <1>5 DEF Next, Loop, LoopCancelled, LoopReturn, Worker, WorkerTake,
     WorkerWrite, Main, Signal, ListenerFails, StopAccepting, ListenersReturn, CloseSaver, Exit,
     Terminated

LEMMA BufferStep ==
  ASSUME Typed, Order, SeatedHasBuffer, [Next]_vars
  PROVE  SeatedHasBuffer'
<1> SUFFICES ASSUME NEW c \in Conns, OnRoster(c)', c \notin outbound'
             PROVE  "leave refused" \in faults'[roster'[c]]
  BY DEF SeatedHasBuffer
<1>1. ASSUME roster'[c] = roster[c], c \notin outbound
      PROVE  "leave refused" \in faults'[roster'[c]]
  BY <1>1, FaultsGrow DEF SeatedHasBuffer, OnRoster, Typed, TypeOK
<1>2. CASE Handle
  <2> PICK x \in Command : x = Head(cmds) /\ cmds # <<>>
    BY <1>2, QueueTail DEF Handle, Typed, TypeOK
  <2>1. x.conn \in Conns /\ roster \in [Conns -> Accounts \cup {NoAccount}]
    BY CommandParts DEF Typed, TypeOK
  <2>2. CASE x.op = "attach" /\ HandleAttach(x.conn)
    BY <1>1, <2>2 DEF HandleAttach
  <2>3. CASE x.op = "enter" /\ HandleEnter(x.conn, x.acct, x.sheet)
    BY <1>1, <2>1, <2>3 DEF HandleEnter
  <2>4. CASE x.op = "work" /\ HandleWork(x.conn, x.deed)
    BY <1>1, <2>4 DEF HandleWork
  <2>5. CASE x.op = "leave" /\ HandleLeave(x.conn)
    BY <1>1, <2>1, <2>5 DEF HandleLeave, OnRoster
  <2>6. CASE x.op = "detach" /\ HandleDetach(x.conn)
    <3>1. roster' = roster /\ faults' = faults
      BY <2>6 DEF HandleDetach
    <3>2. CASE c = x.conn
      <4>1. cmds \in Seq(Command) /\ cmds' = Tail(cmds)
        BY <1>2 DEF Handle, Typed, TypeOK
      <4>2. ~Sent(c, "leave")
        BY <2>6, <3>2, <4>1, HeadFirst DEF Order
      <4>3. Sent(c, "detach")
        BY <2>6, <3>2, <4>1, QueueTail DEF Sent
      <4>4. pc[c] \in After
        BY <4>3 DEF Order, DetachLast, After
      <4> QED
        BY <3>1, <4>2, <4>4 DEF Order, LeftBehind, RosterKnown, Inside, OnRoster
    <3>3. CASE c # x.conn
      BY <1>1, <2>6, <3>1, <3>3 DEF HandleDetach
    <3> QED
      BY <3>2, <3>3
  <2> QED
    BY <1>2, <2>2, <2>3, <2>4, <2>5, <2>6 DEF Handle
<1>3. CASE roster' = roster /\ outbound' = outbound
  BY <1>1, <1>3
<1> QED
  BY <1>2, <1>3 DEF Next, Handler, Accept, Authenticate, LoadSheet, Fail, AttachRequest,
     AttachReply, EnterWorld, Seated, Work, Quit, Disconnect, Leave, DetachRequest, DetachEnd,
     Loop, LoopCancelled, LoopReturn, Worker, WorkerTake, WorkerWrite, WorkerFail, Main, Signal,
     ListenerFails, StopAccepting, ListenersReturn, CloseSaver, Exit, Terminated

\* Whatever the number of connections and the capacity of the queue, a player
\* whose handler is gone stays in the world only if its LeaveWorld was refused
\* or is still in the queue; and a Detach is handled only when the player it
\* belongs to has left, or could not.
THEOREM NobodyLeftBehind == Spec => []NoGhost
<1>1. Init => SeatedHasBuffer
  BY DEF Init, SeatedHasBuffer, OnRoster
<1>2. Typed /\ Order /\ SeatedHasBuffer /\ [Next]_vars => SeatedHasBuffer'
  BY BufferStep
<1>3. Typed /\ Order /\ SeatedHasBuffer => NoGhost
  BY NoneLeftBehind DEF SeatedHasBuffer, NoGhost
<1> QED
  BY <1>1, <1>2, <1>3, AlwaysOrdered, PTL DEF Spec

-----------------------------------------------------------------------------
(* Sheets. *)

USE DEF netVars, loopVars, saverVars, mainVars, vars

-----------------------------------------------------------------------------
(* The inductive invariant, one account at a time. *)

\* a's sheet was never loaded while another copy of it could still be saved.
LoadedSafely(a) == faults[a] \cap {"second copy", "save pending"} = {}

\* OneCopy, place by place.
LoneCopy(a) ==
  /\ \A c, d \in Holders(a) : c = d
  /\ \A i, j \in Entering(a) : i = j
  /\ \A c, d \in Bodies(a) : c = d
  /\ \A i, j \in Queued(a) : i = j
  /\ \A j, k \in Writing(a) : j = k
  /\ Holders(a) # {} => Entering(a) = {} /\ Bodies(a) = {} /\ Queued(a) = {} /\ Writing(a) = {}
  /\ Entering(a) # {} => Bodies(a) = {} /\ Queued(a) = {} /\ Writing(a) = {}
  /\ Bodies(a) # {} => Queued(a) = {} /\ Writing(a) = {}
  /\ Queued(a) # {} => Writing(a) = {}

\* No copy records less than the store.
NotBehind(a) ==
  /\ \A c \in Holders(a) : store[a] \subseteq sheet[c]
  /\ \A i \in Entering(a) : store[a] \subseteq cmds[i].sheet
  /\ \A c \in Bodies(a) : store[a] \subseteq body[c]
  /\ \A i \in Queued(a) : store[a] \subseteq saves[i].sheet
  /\ \A j \in Writing(a) : store[a] \subseteq j.sheet

\* Every copy records all that was done, and so does the store between saves.
UpToDate(a) ==
  /\ \A c \in Holders(a) : sheet[c] = done[a]
  /\ \A i \in Entering(a) : cmds[i].sheet = done[a]
  /\ \A c \in Bodies(a) : body[c] = done[a]
  /\ \A i \in Queued(a) : saves[i].sheet = done[a]
  /\ \A j \in Writing(a) : j.sheet = done[a]
  /\ Bodies(a) = {} /\ Queued(a) = {} /\ Writing(a) = {} => store[a] = done[a]

\* No copy, nor the store, records what was not done.
TrueToLife(a) ==
  /\ store[a] \subseteq done[a]
  /\ \A c \in Holders(a) : sheet[c] \subseteq done[a]
  /\ \A i \in Entering(a) : cmds[i].sheet \subseteq done[a]
  /\ \A c \in Bodies(a) : body[c] \subseteq done[a]
  /\ \A i \in Queued(a) : saves[i].sheet \subseteq done[a]
  /\ \A j \in Writing(a) : j.sheet \subseteq done[a]

Kept(a) ==
  /\ TrueToLife(a)
  /\ LoadedSafely(a) => LoneCopy(a) /\ NotBehind(a)
  /\ faults[a] = {} => UpToDate(a)

OneInflight == \A j, k \in inflight : j = k

SheetInv == OneInflight /\ \A a \in Accounts : Kept(a)

-----------------------------------------------------------------------------
(* How the places change. *)

\* A submission that is not a's EnterWorld leaves a's entries where they were.
LEMMA EnteringAppend ==
  ASSUME cmds \in Seq(Command), NEW x \in Command, cmds' = Append(cmds, x), NEW a \in Accounts
  PROVE  /\ ~(x.op = "enter" /\ x.acct = a) => Entering(a)' = Entering(a)
         /\ x.op = "enter" /\ x.acct = a => Entering(a)' = Entering(a) \cup {Len(cmds) + 1}
         /\ \A i \in Entering(a) : cmds'[i] = cmds[i]
         /\ cmds'[Len(cmds) + 1] = x
<1>1. /\ DOMAIN cmds = 1..Len(cmds) /\ Len(cmds) \in Nat
      /\ DOMAIN cmds' = 1..(Len(cmds) + 1)
      /\ \A i \in 1..Len(cmds) : cmds'[i] = cmds[i]
      /\ cmds'[Len(cmds) + 1] = x
  BY QueueAppend
<1> QED
  BY <1>1 DEF Entering

\* Handling the oldest command moves a's entries up by one, and takes a's
\* EnterWorld if it is the oldest.
LEMMA EnteringTail ==
  ASSUME cmds \in Seq(Command), cmds # <<>>, cmds' = Tail(cmds), NEW a \in Accounts
  PROVE  /\ \A i \in Entering(a)' : i + 1 \in Entering(a) /\ i + 1 # 1 /\ cmds'[i] = cmds[i + 1]
                                    /\ i \in Nat
         /\ Head(cmds).op = "enter" /\ Head(cmds).acct = a => 1 \in Entering(a)
         /\ cmds[1] = Head(cmds)
<1>1. /\ DOMAIN cmds = 1..Len(cmds) /\ Len(cmds) \in Nat \ {0}
      /\ DOMAIN cmds' = 1..(Len(cmds) - 1)
      /\ \A i \in 1..(Len(cmds) - 1) : cmds'[i] = cmds[i + 1]
      /\ cmds[1] = Head(cmds)
  BY QueueTail
<1> QED
  BY <1>1 DEF Entering

\* A step that at most drops a sheet not yet in the world keeps the rest.
LEMMA FewerCopies ==
  ASSUME Typed, NEW a \in Accounts, Kept(a), NEW k \in {0, 1},
         Holders(a)' \subseteq Holders(a),
         \A c \in Holders(a)' : sheet'[c] = sheet[c],
         \A i \in Entering(a)' : i \in Nat /\ i + k \in Entering(a) /\ cmds'[i] = cmds[i + k],
         Bodies(a)' = Bodies(a), \A c \in Bodies(a) : body'[c] = body[c],
         saves' = saves, inflight' = inflight, store'[a] = store[a], done'[a] = done[a],
         faults[a] \subseteq faults'[a]
  PROVE  Kept(a)'
<1>1. Queued(a)' = Queued(a) /\ Writing(a)' = Writing(a)
  BY DEF Queued, Writing
<1>2. (faults[a] = {})' => faults[a] = {}
  OBVIOUS
<1>3. LoadedSafely(a)' => LoadedSafely(a)
  BY DEF LoadedSafely
<1>4. LoneCopy(a) => LoneCopy(a)'
  BY <1>1 DEF LoneCopy
<1>5. NotBehind(a) => NotBehind(a)'
  BY <1>1 DEF NotBehind
<1>6. UpToDate(a) => UpToDate(a)'
  BY <1>1 DEF UpToDate
<1>7. TrueToLife(a) => TrueToLife(a)'
  BY <1>1 DEF TrueToLife
<1> QED
  BY <1>2, <1>3, <1>4, <1>5, <1>6, <1>7 DEF Kept

-----------------------------------------------------------------------------
(* Handlers. *)

\* Steps after which c holds a sheet only if it held the same one before.
LEMMA HandlerQuiet ==
  ASSUME Typed, NEW a \in Accounts, Kept(a), NEW c \in Conns,
         \A d \in Conns \ {c} : pc'[d] = pc[d] /\ acct'[d] = acct[d],
         Holding(c)' => Holding(c) /\ acct'[c] = acct[c],
         sheet' = sheet, UNCHANGED <<roster, body, done, saves, inflight, store>>,
         Entering(a)' = Entering(a), \A i \in Entering(a) : cmds'[i] = cmds[i],
         faults[a] \subseteq faults'[a]
  PROVE  Kept(a)'
<1>1. Holders(a)' \subseteq Holders(a)
  BY DEF Holders, Holding
<1>2. Bodies(a)' = Bodies(a)
  BY DEF Bodies
<1>3. \A i \in Entering(a)' : i \in Nat /\ i + 0 = i
  BY DEF Entering, Typed, TypeOK
<1> QED
  BY <1>1, <1>2, <1>3, FewerCopies

\* Loading adds a copy; it is the only one unless the load is blamed.
LEMMA LoadKeeps ==
  ASSUME Typed, NEW a \in Accounts, Kept(a), NEW c \in Conns, LoadSheet(c)
  PROVE  Kept(a)'
<1>1. /\ acct[c] \in Accounts /\ ~Holding(c) /\ acct' = acct
      /\ \A d \in Conns \ {c} : Holding(d)' <=> Holding(d)
      /\ \A d \in Conns \ {c} : sheet'[d] = sheet[d]
      /\ sheet'[c] = store[acct[c]]
  BY DEF LoadSheet, Holding, Goto, Typed, TypeOK, Known
<1>2. /\ Entering(a)' = Entering(a) /\ Bodies(a)' = Bodies(a)
      /\ Queued(a)' = Queued(a) /\ Writing(a)' = Writing(a)
  BY DEF LoadSheet, Entering, Bodies, Queued, Writing
<1>3. faults'[acct[c]] = faults[acct[c]] \cup LoadFaults(acct[c])
      /\ faults[a] \subseteq faults'[a]
  BY <1>1 DEF LoadSheet, Typed, TypeOK
<1>4. CASE acct[c] # a
  <2>1. Holders(a)' = Holders(a)
    BY <1>1, <1>4 DEF Holders
  <2>2. c \notin Holders(a)
    BY <1>1 DEF Holders
  <2>3. \A i \in Entering(a)' : i \in Nat /\ i + 0 = i
    BY DEF Entering, LoadSheet, Typed, TypeOK
  <2> QED
    BY <1>1, <1>2, <1>3, <2>1, <2>2, <2>3, FewerCopies DEF LoadSheet, Holders
<1>5. CASE acct[c] = a
  <2>3. TrueToLife(a)'
    <3>1. Holders(a)' \subseteq Holders(a) \cup {c}
      BY <1>1 DEF Holders
    <3>2. \A d \in Holders(a)' : sheet'[d] \subseteq done[a]
      BY <1>1, <1>5, <3>1 DEF Kept, TrueToLife, Holders
    <3> QED
      BY <1>2, <3>2 DEF Kept, TrueToLife, LoadSheet
  <2>1. CASE LoadFaults(a) = {}
    <3>1. /\ Holders(a) = {} /\ Bodies(a) = {} /\ Entering(a) = {}
          /\ Queued(a) = {} /\ Writing(a) = {}
      BY <2>1 DEF LoadFaults
    <3>2. Holders(a)' \subseteq {c}
      BY <1>1, <3>1 DEF Holders
    <3>3. LoneCopy(a)'
      BY <1>2, <3>1, <3>2 DEF LoneCopy
    <3>4. NotBehind(a)'
      BY <1>1, <1>2, <1>5, <3>1, <3>2 DEF NotBehind, LoadSheet
    <3>5. faults'[a] = {} => store[a] = done[a]
      BY <1>3, <3>1 DEF Kept, UpToDate
    <3>6. faults'[a] = {} => UpToDate(a)'
      BY <1>1, <1>2, <1>5, <3>1, <3>2, <3>5 DEF UpToDate, LoadSheet
    <3> QED
      BY <2>3, <3>3, <3>4, <3>6 DEF Kept
  <2>2. CASE LoadFaults(a) # {}
    <3>1. LoadFaults(a) \subseteq {"second copy", "save pending"}
      BY DEF LoadFaults
    <3>2. ~LoadedSafely(a)' /\ faults'[a] # {}
      BY <1>3, <1>5, <2>2, <3>1 DEF LoadedSafely
    <3> QED
      BY <2>3, <3>2 DEF Kept
  <2> QED
    BY <2>1, <2>2
<1> QED
  BY <1>4, <1>5

\* EnterWorld passes the held sheet on to the queue, or drops it.
LEMMA EnterKeeps ==
  ASSUME Typed, NEW a \in Accounts, Kept(a), NEW c \in Conns, EnterWorld(c)
  PROVE  Kept(a)'
<1>1. /\ Holding(c) /\ ~Holding(c)' /\ acct' = acct /\ sheet' = sheet
      /\ \A d \in Conns \ {c} : Holding(d)' <=> Holding(d)
      /\ UNCHANGED <<roster, body, done, saves, inflight, store, faults>>
  BY DEF EnterWorld, Holding, Goto, AfterFailure, Typed, TypeOK
<1>2. Holders(a)' = Holders(a) \ {c}
  BY <1>1 DEF Holders
<1>3. /\ Bodies(a)' = Bodies(a) /\ Queued(a)' = Queued(a) /\ Writing(a)' = Writing(a)
  BY <1>1 DEF Bodies, Queued, Writing
<1>4. \A i \in Entering(a) : i \in Nat /\ i + 0 = i
  BY DEF Entering, Typed, TypeOK
<1>5. CASE cmds' = cmds
  <2>1. Entering(a)' = Entering(a)
    BY <1>5 DEF Entering
  <2> QED
    BY <1>1, <1>2, <1>3, <1>4, <1>5, <2>1, FewerCopies
<1>6. CASE cmds' # cmds
  <2> DEFINE x == [op |-> "enter", conn |-> c, acct |-> acct[c], sheet |-> sheet[c]]
  <2>1. cmds' = Append(cmds, x)
    BY <1>6 DEF EnterWorld, Submit
  <2>2. x \in Command
    BY EnterCommand DEF EnterWorld, Typed, TypeOK, Known
  <2>3. cmds \in Seq(Command) /\ x.op = "enter" /\ x.acct = acct[c] /\ x.sheet = sheet[c]
    BY DEF Typed, TypeOK
  <2> HIDE DEF x
  <2>4. /\ acct[c] # a => Entering(a)' = Entering(a)
        /\ acct[c] = a => Entering(a)' = Entering(a) \cup {Len(cmds) + 1}
        /\ \A i \in Entering(a) : cmds'[i] = cmds[i]
        /\ cmds'[Len(cmds) + 1].sheet = sheet[c]
    BY <2>1, <2>2, <2>3, EnteringAppend
  <2>5. CASE acct[c] # a
    BY <1>1, <1>2, <1>3, <1>4, <2>4, <2>5, FewerCopies
  <2>6. CASE acct[c] = a
    <3>1. c \in Holders(a)
      BY <1>1, <2>6 DEF Holders
    <3>2. LoneCopy(a) => LoneCopy(a)' /\ Holders(a)' = {} /\ Entering(a)' = {Len(cmds) + 1}
      BY <1>2, <1>3, <2>4, <2>6, <3>1 DEF LoneCopy
    <3>3. LoneCopy(a) /\ NotBehind(a) => NotBehind(a)'
      BY <1>1, <1>3, <2>4, <3>1, <3>2 DEF NotBehind
    <3>4. UpToDate(a) => UpToDate(a)'
      BY <1>1, <1>2, <1>3, <2>4, <2>6, <3>1 DEF UpToDate
    <3>5. TrueToLife(a) => TrueToLife(a)'
      BY <1>1, <1>2, <1>3, <2>4, <2>6, <3>1 DEF TrueToLife
    <3> QED
      BY <1>1, <3>2, <3>3, <3>4, <3>5 DEF Kept, LoadedSafely
  <2> QED
    BY <2>5, <2>6
<1> QED
  BY <1>5, <1>6

\* No step of a handler loses a sheet.
LEMMA HandlerKeeps ==
  ASSUME Typed, NEW a \in Accounts, Kept(a), NEW c \in Conns, Handler(c), [Next]_vars
  PROVE  Kept(a)'
<1>1. faults[a] \subseteq faults'[a]
  BY FaultsGrow
<1>2. CASE LoadSheet(c)
  BY <1>2, LoadKeeps
<1>3. CASE EnterWorld(c)
  BY <1>3, EnterKeeps
\* What all the others have in common.
<1>4. ASSUME ~LoadSheet(c), ~EnterWorld(c)
      PROVE  /\ \A d \in Conns \ {c} : pc'[d] = pc[d] /\ acct'[d] = acct[d]
             /\ Holding(c)' => Holding(c) /\ acct'[c] = acct[c]
             /\ sheet' = sheet /\ UNCHANGED <<roster, body, done, saves, inflight, store>>
             /\ \/ cmds' = cmds
                \/ \E op \in {"attach", "leave", "detach"} :
                     cmds' = Append(cmds, [op |-> op, conn |-> c])
                \/ cmds' = Append(cmds, [op |-> "work", conn |-> c, deed |-> deeds + 1])
                   /\ deeds + 1 \in Deed
  BY <1>4, CapAssumption
     DEF Handler, Accept, Authenticate, Fail, AfterFailure, AttachRequest, AttachReply, Seated,
         Work, Quit, Disconnect, Leave, SubmitLeave, DetachRequest, DetachEnd, Holding, Goto,
         Submit, Deed, Typed, TypeOK
<1>5. ASSUME ~LoadSheet(c), ~EnterWorld(c)
      PROVE  Entering(a)' = Entering(a) /\ \A i \in Entering(a) : cmds'[i] = cmds[i]
  <2>1. CASE cmds' = cmds
    BY <2>1 DEF Entering
  <2>2. ASSUME NEW op \in {"attach", "leave", "detach"},
               cmds' = Append(cmds, [op |-> op, conn |-> c])
        PROVE  Entering(a)' = Entering(a) /\ \A i \in Entering(a) : cmds'[i] = cmds[i]
    <3>1. [op |-> op, conn |-> c] \in Command
      BY DEF Command
    <3>2. [op |-> op, conn |-> c].op # "enter"
      OBVIOUS
    <3> QED
      BY <2>2, <3>1, <3>2, EnteringAppend DEF Typed, TypeOK
  <2>3. CASE cmds' = Append(cmds, [op |-> "work", conn |-> c, deed |-> deeds + 1])
             /\ deeds + 1 \in Deed
    <3>1. [op |-> "work", conn |-> c, deed |-> deeds + 1] \in Command
      BY <2>3, WorkCommand
    <3> QED
      BY <2>3, <3>1, EnteringAppend DEF Typed, TypeOK
  <2> QED
    BY <1>4, <1>5, <2>1, <2>2, <2>3
<1> QED
  BY <1>1, <1>2, <1>3, <1>4, <1>5, HandlerQuiet

-----------------------------------------------------------------------------
(* The loop. *)

\* EnterWorld: from the queue to the roster.
LEMMA HandleEnterKeeps ==
  ASSUME Typed, Order, NEW a \in Accounts, Kept(a), Handle,
         NEW x \in Command, x = Head(cmds), x.op = "enter",
         HandleEnter(x.conn, x.acct, x.sheet)
  PROVE  Kept(a)'
<1>1. cmds \in Seq(Command) /\ cmds # <<>> /\ cmds' = Tail(cmds)
  BY DEF Handle, Typed, TypeOK
<1>2. x.conn \in Conns /\ x.acct \in Accounts /\ ~OnRoster(x.conn)
  BY <1>1, CommandParts, QueueTail DEF Order, EntersKnown
<1>3. /\ roster' = [roster EXCEPT ![x.conn] = x.acct] /\ body' = [body EXCEPT ![x.conn] = x.sheet]
      /\ UNCHANGED <<pc, acct, sheet, done, saves, inflight, store, faults>>
  BY <1>2 DEF HandleEnter, Handle
<1>4. Holders(a)' = Holders(a) /\ Queued(a)' = Queued(a) /\ Writing(a)' = Writing(a)
  BY <1>3 DEF Holders, Holding, Queued, Writing
<1>5. \A i \in Entering(a)' : /\ i + 1 \in Entering(a) /\ i + 1 # 1 /\ i \in Nat
                              /\ cmds'[i] = cmds[i + 1]
  BY <1>1, EnteringTail
<1>6. CASE x.acct # a
  <2>1. Bodies(a)' = Bodies(a) /\ x.conn \notin Bodies(a)
    BY <1>2, <1>3, <1>6, NoAccountAssumption DEF Bodies, OnRoster, Typed, TypeOK
  <2>2. \A c \in Bodies(a) : body'[c] = body[c]
    BY <1>3, <2>1 DEF Bodies, Typed, TypeOK
  <2> QED
    BY <1>3, <1>4, <1>5, <2>1, <2>2, FewerCopies
<1>7. CASE x.acct = a
  <2>1. 1 \in Entering(a) /\ cmds[1] = x
    BY <1>1, <1>7, EnteringTail
  <2>2. Bodies(a)' = Bodies(a) \cup {x.conn} /\ x.conn \notin Bodies(a)
    BY <1>2, <1>3, <1>7, NoAccountAssumption DEF Bodies, OnRoster, Typed, TypeOK
  <2>3. body'[x.conn] = x.sheet /\ \A c \in Bodies(a) : body'[c] = body[c]
    BY <1>2, <1>3, <2>2 DEF Bodies, Typed, TypeOK
  <2>4. LoneCopy(a) => Entering(a)' = {} /\ Bodies(a)' = {x.conn}
    BY <1>5, <2>1, <2>2 DEF LoneCopy
  <2>5. LoneCopy(a) => LoneCopy(a)'
    BY <1>4, <2>1, <2>4 DEF LoneCopy
  <2>6. LoneCopy(a) /\ NotBehind(a) => NotBehind(a)'
    BY <1>3, <1>4, <2>1, <2>3, <2>4 DEF NotBehind
  <2>7. UpToDate(a) => UpToDate(a)'
    BY <1>3, <1>4, <1>5, <2>1, <2>2, <2>3 DEF UpToDate
  <2>8. TrueToLife(a) => TrueToLife(a)'
    BY <1>3, <1>4, <1>5, <2>1, <2>2, <2>3 DEF TrueToLife
  <2> QED
    BY <1>3, <2>5, <2>6, <2>7, <2>8 DEF Kept, LoadedSafely
<1> QED
  BY <1>6, <1>7

\* A command that changes the player: what is done and the body grow together.
LEMMA HandleWorkKeeps ==
  ASSUME Typed, NEW a \in Accounts, Kept(a), Handle,
         NEW x \in Command, x = Head(cmds), x.op = "work", HandleWork(x.conn, x.deed)
  PROVE  Kept(a)'
<1>1. cmds \in Seq(Command) /\ cmds # <<>> /\ cmds' = Tail(cmds) /\ x.conn \in Conns
  BY CommandParts DEF Handle, Typed, TypeOK
<1>2. UNCHANGED <<pc, acct, sheet, roster, saves, inflight, store, faults>>
  BY DEF HandleWork, Handle
<1>3. Holders(a)' = Holders(a) /\ Queued(a)' = Queued(a) /\ Writing(a)' = Writing(a)
      /\ Bodies(a)' = Bodies(a)
  BY <1>2 DEF Holders, Holding, Queued, Writing, Bodies
<1>4. \A i \in Entering(a)' : /\ i + 1 \in Entering(a) /\ i + 1 # 1 /\ i \in Nat
                              /\ cmds'[i] = cmds[i + 1]
  BY <1>1, EnteringTail
<1>5. CASE roster[x.conn] # a
  <2>1. done'[a] = done[a] /\ \A c \in Bodies(a) : body'[c] = body[c]
    BY <1>1, <1>5 DEF HandleWork, OnRoster, Bodies, Typed, TypeOK
  <2> QED
    BY <1>2, <1>3, <1>4, <2>1, FewerCopies
<1>6. CASE roster[x.conn] = a
  <2>1. x.conn \in Bodies(a) /\ OnRoster(x.conn)
    BY <1>1, <1>6, NoAccountAssumption DEF Bodies, OnRoster
  <2>2. done'[a] = done[a] \cup {x.deed} /\ body'[x.conn] = body[x.conn] \cup {x.deed}
    BY <1>1, <1>6, <2>1 DEF HandleWork, Typed, TypeOK
  <2>3. LoneCopy(a) => /\ Bodies(a) = {x.conn} /\ Holders(a) = {} /\ Entering(a)' = {}
                       /\ Queued(a) = {} /\ Writing(a) = {}
    BY <1>4, <2>1 DEF LoneCopy
  <2>4. LoneCopy(a) => LoneCopy(a)'
    BY <1>3, <2>3 DEF LoneCopy
  <2>5. LoneCopy(a) /\ NotBehind(a) => NotBehind(a)'
    BY <1>2, <1>3, <2>2, <2>3 DEF NotBehind
  <2>6. LoneCopy(a) /\ UpToDate(a) => UpToDate(a)'
    BY <1>2, <1>3, <2>2, <2>3 DEF UpToDate
  <2>7. faults[a] = {} => LoadedSafely(a)
    BY DEF LoadedSafely
  <2>8. \A c \in Bodies(a) : body'[c] \subseteq body[c] \cup {x.deed}
    BY <1>1, <2>1 DEF HandleWork, Bodies, Typed, TypeOK
  <2>9. TrueToLife(a) => TrueToLife(a)'
    BY <1>2, <1>3, <1>4, <2>2, <2>8 DEF TrueToLife
  <2> QED
    BY <1>2, <2>4, <2>5, <2>6, <2>7, <2>9 DEF Kept, LoadedSafely
<1> QED
  BY <1>5, <1>6

\* LeaveWorld: from the roster to the saver, or nowhere when it is full.
LEMMA HandleLeaveKeeps ==
  ASSUME Typed, NEW a \in Accounts, Kept(a), Handle,
         NEW x \in Command, x = Head(cmds), x.op = "leave", HandleLeave(x.conn),
         faults[a] \subseteq faults'[a]
  PROVE  Kept(a)'
<1>1. cmds \in Seq(Command) /\ cmds # <<>> /\ cmds' = Tail(cmds) /\ x.conn \in Conns
  BY CommandParts DEF Handle, Typed, TypeOK
<1>2. UNCHANGED <<pc, acct, sheet, body, done, inflight, store>>
  BY DEF HandleLeave, Handle
<1>3. Holders(a)' = Holders(a) /\ Writing(a)' = Writing(a)
  BY <1>2 DEF Holders, Holding, Writing
<1>4. \A i \in Entering(a)' : /\ i + 1 \in Entering(a) /\ i + 1 # 1 /\ i \in Nat
                              /\ cmds'[i] = cmds[i + 1]
  BY <1>1, EnteringTail
<1>5. CASE ~OnRoster(x.conn)
  <2>1. UNCHANGED <<roster, saves, faults>>
    BY <1>5 DEF HandleLeave
  <2>2. Bodies(a)' = Bodies(a)
    BY <2>1 DEF Bodies
  <2> QED
    BY <1>2, <1>3, <1>4, <2>1, <2>2, FewerCopies
<1>6. CASE OnRoster(x.conn)
  <2> DEFINE b == roster[x.conn]
             job == [acct |-> b, sheet |-> body[x.conn]]
  <2>1. SaveAsync(b, body[x.conn]) /\ roster' = [roster EXCEPT ![x.conn] = NoAccount]
    BY <1>6 DEF HandleLeave
  <2>2. b \in Accounts /\ job \in Job
    BY <1>1, <1>6 DEF OnRoster, Job, Typed, TypeOK
  <2>3. Bodies(a)' = Bodies(a) \ {x.conn}
    BY <1>1, <2>1, NoAccountAssumption DEF Bodies, Typed, TypeOK
  \* What of the saver's queue is a's.
  <2>4. /\ \/ Queued(a)' = Queued(a)
           \/ b = a /\ Queued(a)' = Queued(a) \cup {Len(saves) + 1}
                  /\ saves'[Len(saves) + 1].sheet = body[x.conn]
        /\ \A i \in Queued(a) : saves'[i] = saves[i]
        /\ b = a /\ Queued(a)' = Queued(a) => faults'[a] # {}
        /\ b # a => Queued(a)' = Queued(a)
    <3>1. CASE saves' = saves
      <4>1. saves' # Append(saves, job)
        BY <2>2, <3>1, QueueAppend DEF Typed, TypeOK
      <4>2. faults' = [faults EXCEPT ![b] = faults[b] \cup {"save dropped"}]
        BY <2>1, <4>1 DEF SaveAsync
      <4>3. b = a => faults'[a] # {}
        BY <2>2, <4>2 DEF Typed, TypeOK
      <4> QED
        BY <3>1, <4>3 DEF Queued
    <3>2. CASE saves' = Append(saves, job)
      <4>1. saves \in Seq(Job)
        BY DEF Typed, TypeOK
      <4> HIDE DEF job
      <4>2. /\ DOMAIN saves = 1..Len(saves) /\ Len(saves) \in Nat
            /\ DOMAIN saves' = 1..(Len(saves) + 1)
            /\ \A i \in 1..Len(saves) : saves'[i] = saves[i]
            /\ saves'[Len(saves) + 1] = job
        BY <2>2, <3>2, <4>1, QueueAppend
      <4>3. job.acct = b /\ job.sheet = body[x.conn]
        BY DEF job
      <4>4. b = a => Queued(a)' = Queued(a) \cup {Len(saves) + 1} /\ Len(saves) + 1 \notin Queued(a)
        BY <4>2, <4>3 DEF Queued
      <4>5. b # a => Queued(a)' = Queued(a)
        BY <4>2, <4>3 DEF Queued
      <4>6. \A i \in Queued(a) : saves'[i] = saves[i]
        BY <4>2 DEF Queued
      <4> QED
        BY <4>2, <4>3, <4>4, <4>5, <4>6
    <3> QED
      BY <2>1, <3>1, <3>2 DEF SaveAsync
  <2>5. CASE b # a
    <3>1. Bodies(a)' = Bodies(a) /\ Queued(a)' = Queued(a)
      BY <2>3, <2>4, <2>5 DEF Bodies
    <3>2. LoneCopy(a) => LoneCopy(a)'
      BY <1>3, <1>4, <3>1 DEF LoneCopy
    <3>3. NotBehind(a) => NotBehind(a)'
      BY <1>2, <1>3, <1>4, <2>4, <3>1 DEF NotBehind
    <3>4. UpToDate(a) => UpToDate(a)'
      BY <1>2, <1>3, <1>4, <2>4, <3>1 DEF UpToDate
    <3>5. TrueToLife(a) => TrueToLife(a)'
      BY <1>2, <1>3, <1>4, <2>4, <3>1 DEF TrueToLife
    <3> QED
      BY <3>2, <3>3, <3>4, <3>5 DEF Kept, LoadedSafely
  <2>6. CASE b = a
    <3>1. x.conn \in Bodies(a)
      BY <1>1, <2>6 DEF Bodies
    <3>2. LoneCopy(a) => /\ Bodies(a)' = {} /\ Holders(a) = {} /\ Entering(a)' = {}
                         /\ Queued(a) = {} /\ Writing(a) = {}
      BY <1>4, <2>3, <3>1 DEF LoneCopy
    <3>3. LoneCopy(a) => LoneCopy(a)'
      BY <1>3, <2>4, <3>2 DEF LoneCopy
    <3>4. LoneCopy(a) /\ NotBehind(a) => NotBehind(a)'
      BY <1>2, <1>3, <2>4, <3>1, <3>2 DEF NotBehind
    <3>5. LoneCopy(a) /\ UpToDate(a) /\ faults'[a] = {} => UpToDate(a)'
      BY <1>2, <1>3, <2>4, <2>6, <3>1, <3>2 DEF UpToDate
    <3>6. faults[a] = {} => LoadedSafely(a)
      BY DEF LoadedSafely
    <3>7. TrueToLife(a) => TrueToLife(a)'
      BY <1>2, <1>3, <1>4, <2>3, <2>4, <3>1 DEF TrueToLife
    <3> QED
      BY <3>3, <3>4, <3>5, <3>6, <3>7 DEF Kept, LoadedSafely
  <2> QED
    BY <2>5, <2>6
<1> QED
  BY <1>5, <1>6

\* Handling a command loses no sheet.
LEMMA HandleKeeps ==
  ASSUME Typed, Order, NEW a \in Accounts, Kept(a), Handle, [Next]_vars
  PROVE  Kept(a)'
<1>1. cmds \in Seq(Command) /\ cmds # <<>> /\ cmds' = Tail(cmds)
  BY DEF Handle, Typed, TypeOK
<1> PICK x \in Command : x = Head(cmds)
  BY <1>1, QueueTail
<1>2. CASE x.op \in {"attach", "detach"}
  <2>1. UNCHANGED <<pc, acct, sheet, roster, body, done, saves, inflight, store, faults>>
    BY <1>2 DEF Handle, HandleAttach, HandleDetach
  <2>2. Holders(a)' = Holders(a) /\ Bodies(a)' = Bodies(a)
    BY <2>1 DEF Holders, Holding, Bodies
  <2>3. \A i \in Entering(a)' : i \in Nat /\ i + 1 \in Entering(a) /\ cmds'[i] = cmds[i + 1]
    BY <1>1, EnteringTail
  <2> QED
    BY <2>1, <2>2, <2>3, FewerCopies
<1>3. CASE x.op = "enter" /\ HandleEnter(x.conn, x.acct, x.sheet)
  BY <1>3, HandleEnterKeeps
<1>4. CASE x.op = "work" /\ HandleWork(x.conn, x.deed)
  BY <1>4, HandleWorkKeeps
<1>5. CASE x.op = "leave" /\ HandleLeave(x.conn)
  BY <1>5, HandleLeaveKeeps, FaultsGrow
<1> QED
  BY <1>2, <1>3, <1>4, <1>5 DEF Handle

-----------------------------------------------------------------------------
(* The saver's worker, and the rest. *)

\* Steps of the worker leave these alone.
LEMMA WorkerFrame ==
  ASSUME Worker, NEW a \in Accounts
  PROVE  /\ Holders(a)' = Holders(a) /\ Entering(a)' = Entering(a) /\ Bodies(a)' = Bodies(a)
         /\ UNCHANGED <<sheet, cmds, body, done>>
BY DEF Worker, WorkerTake, WorkerWrite, WorkerFail, Holders, Holding, Entering, Bodies

\* The oldest job goes from the channel to the worker.
LEMMA TakeKeeps ==
  ASSUME Typed, NEW a \in Accounts, Kept(a), WorkerTake
  PROVE  Kept(a)'
<1>1. /\ Holders(a)' = Holders(a) /\ Entering(a)' = Entering(a) /\ Bodies(a)' = Bodies(a)
      /\ UNCHANGED <<sheet, cmds, body, done, store, faults>>
  BY WorkerFrame DEF Worker, WorkerTake
<1>2. saves \in Seq(Job) /\ saves # <<>> /\ saves' = Tail(saves) /\ inflight = {}
  BY DEF WorkerTake, Typed, TypeOK
<1> PICK j \in Job : j = Head(saves)
  BY <1>2, QueueTail
<1>3. /\ DOMAIN saves = 1..Len(saves) /\ Len(saves) \in Nat \ {0}
      /\ DOMAIN saves' = 1..(Len(saves) - 1)
      /\ \A i \in 1..(Len(saves) - 1) : saves'[i] = saves[i + 1]
      /\ saves[1] = j
  BY <1>2, QueueTail
<1>4. \A i \in Queued(a)' : i + 1 \in Queued(a) /\ i + 1 # 1 /\ saves'[i] = saves[i + 1]
                            /\ i \in Nat
  BY <1>3 DEF Queued
<1>5. inflight' = {j} /\ Writing(a) = {}
  BY <1>2 DEF WorkerTake, Writing
<1>6. CASE j.acct = a
  <2>1. 1 \in Queued(a) /\ Writing(a)' = {j}
    BY <1>3, <1>5, <1>6 DEF Queued, Writing
  <2>2. LoneCopy(a) => Queued(a)' = {} /\ Holders(a) = {} /\ Entering(a) = {} /\ Bodies(a) = {}
    BY <1>4, <2>1 DEF LoneCopy
  <2>3. LoneCopy(a) => LoneCopy(a)'
    BY <1>1, <2>1, <2>2 DEF LoneCopy
  <2>4. LoneCopy(a) /\ NotBehind(a) => NotBehind(a)'
    BY <1>1, <1>3, <2>1, <2>2 DEF NotBehind
  <2>5. LoneCopy(a) /\ UpToDate(a) => UpToDate(a)'
    BY <1>1, <1>3, <2>1, <2>2 DEF UpToDate
  <2>6. TrueToLife(a) => TrueToLife(a)'
    BY <1>1, <1>3, <1>4, <2>1 DEF TrueToLife
  <2> QED
    BY <1>1, <2>3, <2>4, <2>5, <2>6 DEF Kept, LoadedSafely
<1>7. CASE j.acct # a
  <2>1. Writing(a)' = {}
    BY <1>5, <1>7 DEF Writing
  <2>2. Queued(a) # {} => Queued(a)' # {}
    <3> SUFFICES ASSUME NEW i \in Queued(a) PROVE Queued(a)' # {}
      OBVIOUS
    <3>1. i # 1 /\ i \in 1..Len(saves) /\ saves[i].acct = a
      BY <1>3, <1>7 DEF Queued
    <3>2. i - 1 \in DOMAIN saves' /\ saves'[i - 1] = saves[i]
      BY <1>3, <3>1
    <3>3. i - 1 \in Queued(a)'
      BY <3>1, <3>2 DEF Queued
    <3> QED
      BY <3>3
  <2>3. LoneCopy(a) => LoneCopy(a)'
    BY <1>1, <1>4, <2>1 DEF LoneCopy
  <2>4. NotBehind(a) => NotBehind(a)'
    BY <1>1, <1>4, <2>1 DEF NotBehind
  <2>5. UpToDate(a) => UpToDate(a)'
    BY <1>1, <1>4, <1>5, <2>1, <2>2 DEF UpToDate
  <2>6. TrueToLife(a) => TrueToLife(a)'
    BY <1>1, <1>4, <2>1 DEF TrueToLife
  <2> QED
    BY <1>1, <2>3, <2>4, <2>5, <2>6 DEF Kept, LoadedSafely
<1> QED
  BY <1>6, <1>7

\* The job is written, or fails.
LEMMA WriteKeeps ==
  ASSUME Typed, OneInflight, NEW a \in Accounts, Kept(a), WorkerWrite \/ WorkerFail
  PROVE  Kept(a)'
<1>1. /\ Holders(a)' = Holders(a) /\ Entering(a)' = Entering(a) /\ Bodies(a)' = Bodies(a)
      /\ UNCHANGED <<sheet, cmds, body, done, saves>>
  BY WorkerFrame DEF Worker, WorkerWrite, WorkerFail
<1>2. Queued(a)' = Queued(a) /\ Writing(a)' = {}
  BY <1>1 DEF WorkerWrite, WorkerFail, Queued, Writing
<1> PICK j \in inflight :
      \/ store' = [store EXCEPT ![j.acct] = j.sheet] /\ faults' = faults
      \/ /\ store' = store \/ store' = [store EXCEPT ![j.acct] = j.sheet]
         /\ faults' = [faults EXCEPT ![j.acct] = @ \cup {"save failed"}]
  BY DEF WorkerWrite, WorkerFail
<1>3. j \in Job /\ j.acct \in Accounts
  BY DEF Job, Typed, TypeOK
<1>4. LoneCopy(a) => LoneCopy(a)'
  BY <1>1, <1>2 DEF LoneCopy
<1>5. CASE j.acct # a
  <2>1. store'[a] = store[a] /\ faults'[a] = faults[a]
    BY <1>3, <1>5 DEF Typed, TypeOK
  <2>2. Writing(a) = {}
    BY <1>5 DEF Writing, OneInflight
  <2>3. NotBehind(a) => NotBehind(a)'
    BY <1>1, <1>2, <2>1 DEF NotBehind
  <2>4. UpToDate(a) => UpToDate(a)'
    BY <1>1, <1>2, <2>1, <2>2 DEF UpToDate
  <2>5. TrueToLife(a) => TrueToLife(a)'
    BY <1>1, <1>2, <2>1 DEF TrueToLife
  <2> QED
    BY <1>4, <2>1, <2>3, <2>4, <2>5 DEF Kept, LoadedSafely
<1>6. CASE j.acct = a
  <2>1. j \in Writing(a) /\ faults[a] \subseteq faults'[a]
    BY <1>3, <1>6 DEF Writing, Typed, TypeOK
  <2>2. LoneCopy(a) => Holders(a) = {} /\ Entering(a) = {} /\ Bodies(a) = {} /\ Queued(a) = {}
    BY <2>1 DEF LoneCopy
  <2>3. LoneCopy(a) => NotBehind(a)'
    BY <1>1, <1>2, <2>2 DEF NotBehind
  <2>4. faults'[a] = {} => store'[a] = j.sheet
    BY <1>3, <1>6 DEF Typed, TypeOK
  <2>5. LoneCopy(a) /\ UpToDate(a) /\ faults'[a] = {} => UpToDate(a)'
    BY <1>1, <1>2, <2>1, <2>2, <2>4 DEF UpToDate
  <2>6. faults'[a] = {} => faults[a] = {} /\ LoadedSafely(a)
    BY <2>1 DEF LoadedSafely
  <2>7. LoadedSafely(a)' => LoadedSafely(a)
    BY <2>1 DEF LoadedSafely
  <2>8. TrueToLife(a) => TrueToLife(a)'
    <3>1. store'[a] \in {store[a], j.sheet}
      BY <1>3, <1>6 DEF Typed, TypeOK
    <3> QED
      BY <1>1, <1>2, <2>1, <3>1 DEF TrueToLife
  <2> QED
    BY <1>4, <2>3, <2>5, <2>6, <2>7, <2>8 DEF Kept
<1> QED
  BY <1>5, <1>6

\* Nothing else moves a sheet.
LEMMA OthersKeep ==
  ASSUME NEW a \in Accounts, Kept(a), LoopCancelled \/ LoopReturn \/ Main \/ UNCHANGED vars
  PROVE  Kept(a)'
<1>1. UNCHANGED <<pc, acct, sheet, cmds, roster, body, saves, inflight, store, done, faults>>
  BY DEF LoopCancelled, LoopReturn, Main, Signal, ListenerFails, StopAccepting, ListenersReturn,
         CloseSaver, Exit, Terminated
<1>2. /\ Holders(a)' = Holders(a) /\ Entering(a)' = Entering(a) /\ Bodies(a)' = Bodies(a)
      /\ Queued(a)' = Queued(a) /\ Writing(a)' = Writing(a)
  BY <1>1 DEF Holders, Holding, Entering, Bodies, Queued, Writing
<1>3. TrueToLife(a) => TrueToLife(a)'
  BY <1>1, <1>2 DEF TrueToLife
<1>4. /\ LoneCopy(a) => LoneCopy(a)'
      /\ NotBehind(a) => NotBehind(a)'
      /\ UpToDate(a) => UpToDate(a)'
  BY <1>1, <1>2 DEF LoneCopy, NotBehind, UpToDate
<1> QED
  BY <1>1, <1>3, <1>4 DEF Kept, LoadedSafely

LEMMA SheetStep == Typed /\ Order /\ SheetInv /\ [Next]_vars => SheetInv'
<1> SUFFICES ASSUME Typed, Order, SheetInv, [Next]_vars
             PROVE  SheetInv'
  OBVIOUS
<1>1. OneInflight'
  BY DEF SheetInv, OneInflight, Next, Handler, Accept, Authenticate, LoadSheet, Fail,
     AttachRequest, AttachReply, EnterWorld, Seated, Work, Quit, Disconnect, Leave,
     DetachRequest, DetachEnd, Loop, Handle, LoopCancelled, LoopReturn, Worker, WorkerTake,
     WorkerWrite, WorkerFail, Main, Signal, ListenerFails, StopAccepting, ListenersReturn,
     CloseSaver, Exit, Terminated
<1>2. ASSUME NEW a \in Accounts PROVE Kept(a)'
  BY HandlerKeeps, HandleKeeps, TakeKeeps, WriteKeeps, OthersKeep DEF SheetInv, Next, Loop, Worker
<1> QED
  BY <1>1, <1>2 DEF SheetInv

LEMMA InitKept == Init => SheetInv
<1> SUFFICES ASSUME Init, NEW a \in Accounts PROVE Kept(a) /\ OneInflight
  BY DEF SheetInv, Init, OneInflight
<1>1. /\ Holders(a) = {} /\ Entering(a) = {} /\ Bodies(a) = {}
      /\ Queued(a) = {} /\ Writing(a) = {}
  BY NoAccountAssumption DEF Init, Holders, Holding, Entering, Bodies, Queued, Writing
<1> QED
  BY <1>1 DEF Init, Kept, LoneCopy, NotBehind, UpToDate, TrueToLife, OneInflight

LEMMA AlwaysKept == Spec => [](Typed /\ Order /\ SheetInv)
BY InitTyped, InitOrdered, InitKept, NextTyped, NextOrdered, SheetStep, PTL DEF Spec

-----------------------------------------------------------------------------
(* The theorems. *)

\* An account no fault befell has at most one sheet under way, and that sheet,
\* or the store when there is none, records all its player did: for every number
\* of connections and accounts, every queue and saver capacity, every schedule.
THEOREM NothingIsLost == Spec => []NothingLost
<1>1. Typed /\ SheetInv => NothingLost
  <2> SUFFICES ASSUME Typed, SheetInv, NEW a \in Accounts, faults[a] = {}
               PROVE  /\ OneCopy(a) /\ \A x \in Copies(a) : x[3] = done[a]
                      /\ Bodies(a) = {} /\ Queued(a) = {} /\ Writing(a) = {}
                           => store[a] = done[a]
    BY DEF NothingLost
  <2>1. LoneCopy(a) /\ UpToDate(a)
    BY DEF SheetInv, Kept, LoadedSafely
  <2>2. OneCopy(a)
    BY <2>1 DEF OneCopy, Copies, LoneCopy
  <2>3. \A x \in Copies(a) : x[3] = done[a]
    BY <2>1 DEF Copies, UpToDate
  <2> QED
    BY <2>1, <2>2, <2>3 DEF UpToDate
<1> QED
  BY <1>1, AlwaysKept, PTL

-----------------------------------------------------------------------------
(* Restarts. *)

LEMMA RestartTyped == Typed /\ Restart => Typed'
<1> SUFFICES ASSUME Typed, Restart PROVE Typed'
  OBVIOUS
<1>1. /\ cmds' \in Seq(Command) /\ Len(cmds') <= QueueCap
      /\ saves' \in Seq(Job) /\ Len(saves') <= SaverCap
  BY CapAssumption DEF Restart
<1>2. faults' \in [Accounts -> SUBSET Cause]
  BY DEF Restart, Cause, Typed, TypeOK
<1>3. /\ pc' \in [Conns -> Pc] /\ acct' \in [Conns -> Accounts \cup {NoAccount}]
      /\ roster' \in [Conns -> Accounts \cup {NoAccount}]
  BY DEF Restart, Pc
<1>4. sheet' \in [Conns -> Sheet] /\ body' \in [Conns -> Sheet]
  BY DEF Restart, Sheet
<1>5. TypeOK'
  BY <1>1, <1>2, <1>3, <1>4 DEF Restart, Typed, TypeOK
<1> QED
  BY <1>5 DEF Restart, Typed, Known

LEMMA RestartOrdered == Restart => Order'
<1> SUFFICES ASSUME Restart PROVE Order'
  OBVIOUS
<1>1. /\ \A c \in Conns : pc'[c] = "new" /\ ~OnRoster(c)' /\ ~Inside(c)'
      /\ \A c \in Conns : \A op : ~Sent(c, op)'
  BY DEF Restart, OnRoster, Inside, Sent
<1>2. NotYetIn' /\ DetachLast' /\ RosterKnown' /\ LeftBehind'
  BY <1>1 DEF NotYetIn, DetachLast, RosterKnown, LeftBehind, After
<1>3. QueueOrder' /\ EntersKnown'
  BY DEF Restart, QueueOrder, EntersKnown
<1> QED
  BY <1>2, <1>3 DEF Order

\* A restart finds no copy but the store, and blames whoever it is behind.
LEMMA RestartKeeps ==
  ASSUME Typed, NEW a \in Accounts, Kept(a), Restart
  PROVE  /\ Kept(a)'
         /\ Holders(a)' = {} /\ Entering(a)' = {} /\ Bodies(a)' = {}
         /\ Queued(a)' = {} /\ Writing(a)' = {}
<1>1. /\ Holders(a)' = {} /\ Entering(a)' = {} /\ Bodies(a)' = {}
      /\ Queued(a)' = {} /\ Writing(a)' = {}
  BY NoAccountAssumption DEF Restart, Holders, Holding, Entering, Bodies, Queued, Writing
<1>2. /\ store'[a] = store[a] /\ done'[a] = done[a]
      /\ faults'[a] = {} => store[a] = done[a]
  BY DEF Restart, Unstored
<1> QED
  BY <1>1, <1>2 DEF Kept, TrueToLife, LoneCopy, NotBehind, UpToDate

LEMMA CrashStep ==
  Typed /\ Order /\ SheetInv /\ [CrashNext]_vars => (Typed /\ Order /\ SheetInv)'
<1>1. Typed /\ SheetInv /\ Restart => SheetInv'
  BY RestartKeeps DEF SheetInv, OneInflight, Restart
<1> QED
  BY <1>1, NextTyped, NextOrdered, SheetStep, RestartTyped, RestartOrdered DEF CrashNext

LEMMA CrashKept == CrashSpec => [](Typed /\ Order /\ SheetInv)
BY CrashStep, InitTyped, InitOrdered, InitKept, PTL DEF CrashSpec

-----------------------------------------------------------------------------
(* The refinement: what one account's sheet goes through. *)

Away(a) == Copies(a) # {}

LEMMA AwayPlaces ==
  ASSUME NEW a \in Accounts
  PROVE  /\ Away(a) <=> \/ Holders(a) # {} \/ Entering(a) # {} \/ Bodies(a) # {}
                        \/ Queued(a) # {} \/ Writing(a) # {}
BY DEF Away, Copies

\* Only a sheet that is away is ever blamed.
LEMMA BlamedAway ==
  ASSUME Typed, Order, [Next]_vars, NEW a \in Accounts, faults'[a] # faults[a]
  PROVE  Away(a)
<1>1. ASSUME NEW b \in Accounts, NEW f, faults' = [faults EXCEPT ![b] = faults[b] \cup f]
      PROVE  b = a /\ f # {}
  BY <1>1 DEF Typed, TypeOK
<1>2. ASSUME NEW c \in Conns, LoadSheet(c) PROVE Away(a)
  <2>1. acct[c] \in Accounts
    BY <1>2 DEF LoadSheet, Typed, TypeOK, Known
  <2>2. acct[c] = a /\ LoadFaults(a) # {}
    BY <1>1, <1>2, <2>1 DEF LoadSheet
  <2> QED
    BY <2>2, AwayPlaces DEF LoadFaults
<1>3. ASSUME NEW c \in Conns, Leave(c) PROVE Away(a)
  <2>1. acct[c] = a /\ LeaveFaults(c) # {}
    BY <1>3 DEF Leave, SubmitLeave, Blame, Typed, TypeOK
  <2>2. CASE OnRoster(c)
    <3>1. c \in Bodies(a)
      BY <2>1, <2>2 DEF Bodies, Order, RosterKnown
    <3> QED
      BY <3>1, AwayPlaces
  <2>3. CASE Sent(c, "enter")
    <3> PICK i \in DOMAIN cmds : cmds[i].op = "enter" /\ cmds[i].conn = c
      BY <2>3 DEF Sent
    <3>1. i \in Entering(a)
      BY <2>1 DEF Entering, Order, EntersKnown
    <3> QED
      BY <3>1, AwayPlaces
  <2> QED
    BY <2>1, <2>2, <2>3 DEF LeaveFaults
<1>4. ASSUME NEW c \in Conns, HandleLeave(c) PROVE Away(a)
  <2>1. OnRoster(c) /\ roster[c] \in Accounts
    BY <1>4 DEF HandleLeave, OnRoster, Typed, TypeOK
  <2>2. roster[c] = a
    BY <1>1, <1>4, <2>1 DEF HandleLeave, SaveAsync
  <2> QED
    BY <2>2, AwayPlaces DEF Bodies
<1>5. ASSUME WorkerFail PROVE Away(a)
  <2> PICK j \in inflight : faults' = [faults EXCEPT ![j.acct] = @ \cup {"save failed"}]
    BY <1>5 DEF WorkerFail
  <2>1. j.acct = a
    BY <1>1 DEF Job, Typed, TypeOK
  <2> QED
    BY <2>1, AwayPlaces DEF Writing
<1>6. CASE Handle
  <2> PICK x \in Command : x = Head(cmds)
    BY <1>6, QueueTail DEF Handle, Typed, TypeOK
  <2>1. x.conn \in Conns
    BY CommandParts
  <2> QED
    BY <1>4, <1>6, <2>1 DEF Handle, HandleAttach, HandleEnter, HandleWork, HandleDetach
<1> QED
  BY <1>2, <1>3, <1>5, <1>6 DEF Next, Handler, Accept, Authenticate, Fail, AttachRequest,
     AttachReply, EnterWorld, Seated, Work, Quit, Disconnect, DetachRequest, DetachEnd, Loop,
     LoopCancelled, LoopReturn, Worker, WorkerTake, WorkerWrite, Main, Signal, ListenerFails,
     StopAccepting, ListenersReturn, CloseSaver, Exit, Terminated

\* What is done, and what the store has, change only for a sheet that is away; a
\* write takes nothing back from an account loaded safely.
LEMMA DoneStep ==
  ASSUME Typed, [Next]_vars, NEW a \in Accounts, done'[a] # done[a]
  PROVE  /\ Bodies(a) # {} /\ Bodies(a)' # {}
         /\ \E d \in Deed : done'[a] = done[a] \cup {d}
         /\ store'[a] = store[a] /\ faults'[a] = faults[a]
<1>1. Handle
  BY DEF Next, Handler, Accept, Authenticate, LoadSheet, Fail, AttachRequest, AttachReply,
     EnterWorld, Seated, Work, Quit, Disconnect, Leave, DetachRequest, DetachEnd, Loop,
     LoopCancelled, LoopReturn, Worker, WorkerTake, WorkerWrite, WorkerFail, Main, Signal,
     ListenerFails, StopAccepting, ListenersReturn, CloseSaver, Exit, Terminated
<1> PICK x \in Command : x = Head(cmds)
  BY <1>1, QueueTail DEF Handle, Typed, TypeOK
<1>2. x.op = "work" /\ HandleWork(x.conn, x.deed) /\ OnRoster(x.conn)
  BY <1>1 DEF Handle, HandleAttach, HandleEnter, HandleWork, HandleLeave, HandleDetach
<1>3. x.conn \in Conns /\ x.deed \in Deed
  BY <1>2, CommandParts
<1>4. roster[x.conn] = a /\ done'[a] = done[a] \cup {x.deed}
  BY <1>2, <1>3 DEF HandleWork, OnRoster, Typed, TypeOK
<1>5. UNCHANGED <<store, faults, roster>>
  BY <1>1, <1>2 DEF Handle, HandleWork
<1> QED
  BY <1>3, <1>4, <1>5 DEF Bodies

LEMMA StoreStep ==
  ASSUME Typed, SheetInv, [Next]_vars, NEW a \in Accounts, store'[a] # store[a]
  PROVE  /\ Writing(a) # {} /\ done'[a] = done[a]
         /\ LoadedSafely(a) => store[a] \subseteq store'[a] /\ ~Away(a)'
<1>1. WorkerWrite \/ WorkerFail
  BY DEF Next, Handler, Accept, Authenticate, LoadSheet, Fail, AttachRequest, AttachReply,
     EnterWorld, Seated, Work, Quit, Disconnect, Leave, DetachRequest, DetachEnd, Loop, Handle,
     LoopCancelled, LoopReturn, Worker, WorkerTake, Main, Signal, ListenerFails, StopAccepting,
     ListenersReturn, CloseSaver, Exit, Terminated
<1> PICK j \in inflight : store' = [store EXCEPT ![j.acct] = j.sheet]
  BY <1>1 DEF WorkerWrite, WorkerFail
<1>2. j \in Writing(a) /\ store'[a] = j.sheet
  BY DEF Writing, Job, Typed, TypeOK
<1>3. done' = done /\ inflight' = {} /\ saves' = saves
  BY <1>1 DEF WorkerWrite, WorkerFail
<1>4. ASSUME LoadedSafely(a) PROVE store[a] \subseteq store'[a] /\ ~Away(a)'
  <2>1. LoneCopy(a) /\ NotBehind(a)
    BY <1>4 DEF SheetInv, Kept
  <2>2. Holders(a) = {} /\ Entering(a) = {} /\ Bodies(a) = {} /\ Queued(a) = {}
    BY <1>2, <2>1 DEF LoneCopy
  <2>3. Holders(a)' = {} /\ Entering(a)' = {} /\ Bodies(a)' = {} /\ Queued(a)' = {}
    BY <1>1, <1>3, <2>2, WorkerFrame DEF Queued, Worker
  <2>4. Writing(a)' = {}
    BY <1>3 DEF Writing
  <2>5. ~Away(a)'
    BY <2>3, <2>4 DEF Away, Copies
  <2> QED
    BY <1>2, <2>1, <2>5 DEF NotBehind
<1> QED
  BY <1>2, <1>3, <1>4

Clean(a) == faults[a] = {}

\* One step of the system, for one account whose fault record it may extend.
LEMMA AccountStep ==
  ASSUME Typed, Order, SheetInv, [CrashNext]_vars, NEW a \in Accounts
  PROVE  /\ faults[a] \subseteq faults'[a]
         /\ faults'[a] = faults[a] \/ Away(a) \/ ~Clean(a)
         /\ \/ done'[a] = done[a]
            \/ /\ Away(a) /\ Away(a)' /\ \E d \in Deed : done'[a] = done[a] \cup {d}
               /\ store'[a] = store[a] /\ faults'[a] = faults[a]
         /\ \/ store'[a] = store[a]
            \/ Away(a) /\ (LoadedSafely(a) => ~Away(a)')
         /\ LoadedSafely(a) => store[a] \subseteq store'[a]
<1>1. CASE Restart
  <2>1. store'[a] = store[a] /\ done'[a] = done[a] /\ faults[a] \subseteq faults'[a]
    BY <1>1 DEF Restart
  <2>2. faults'[a] = faults[a] \/ store[a] # done[a]
    BY <1>1 DEF Restart, Unstored
  <2>3. Clean(a) /\ ~Away(a) => store[a] = done[a]
    BY AwayPlaces DEF SheetInv, Kept, UpToDate, Clean
  <2> QED
    BY <2>1, <2>2, <2>3
<1>2. CASE [Next]_vars
  <2>1. /\ faults[a] \subseteq faults'[a]
        /\ faults'[a] = faults[a] \/ Away(a)
    BY <1>2, FaultsGrow, BlamedAway
  <2>2. Away(a)' <=> \/ Holders(a)' # {} \/ Entering(a)' # {} \/ Bodies(a)' # {}
                     \/ Queued(a)' # {} \/ Writing(a)' # {}
    BY DEF Away, Copies
  <2> QED
    BY <1>2, <2>1, <2>2, DoneStep, StoreStep, AwayPlaces
<1> QED
  BY <1>1, <1>2 DEF CrashNext

\* The server keeps every account's sheet as module Sheets promises, for any
\* number of connections and accounts, any capacities, and however often the
\* process dies: a fault befalls only a sheet that is away, a write takes nothing
\* back unless the sheet was loaded too early, and the store never has what was
\* not done.
THEOREM SheetsKept == CrashSpec => KeepsSheets
<1>1. Init => Abstract!Init
  <2> SUFFICES ASSUME Init, NEW a \in Accounts PROVE Place(a) = "home"
    BY DEF Init, Abstract!Init
  <2>1. ~Away(a)
    BY NoAccountAssumption
       DEF Init, Away, Copies, Holders, Holding, Entering, Bodies, Queued, Writing
  <2> QED
    BY <2>1 DEF Init, Place, Away
<1>2. ASSUME Typed, Order, SheetInv, SheetInv', [CrashNext]_vars
      PROVE  [Abstract!Next]_(Abstract!vars)
  <2> SUFFICES ASSUME NEW a \in Accounts
               PROVE  \/ Abstract!Take(a) \/ Abstract!Do(a) \/ Abstract!Return(a)
                      \/ Abstract!Lose(a) \/ Abstract!Spoil(a) \/ Abstract!Rest(a)
    BY DEF Abstract!Next
  <2> DEFINE place == [b \in Accounts |-> Place(b)]
  <2>1. place[a] = Place(a) /\ place'[a] = Place(a)'
    OBVIOUS
  <2>2. /\ Clean(a) => LoadedSafely(a)
        /\ Clean(a)' => LoadedSafely(a)'
        /\ store'[a] \subseteq done'[a]
    BY <1>2 DEF SheetInv, Kept, TrueToLife, Clean, LoadedSafely
  <2>3. ~Away(a)' /\ Clean(a)' => store'[a] = done'[a]
    <3>1. Clean(a)' => UpToDate(a)'
      BY <1>2 DEF SheetInv, Kept, Clean
    <3>2. ~Away(a)' => Bodies(a)' = {} /\ Queued(a)' = {} /\ Writing(a)' = {}
      BY DEF Away, Copies
    <3> QED
      BY <3>1, <3>2 DEF UpToDate
  <2>4. /\ Place(a) = IF ~LoadedSafely(a) THEN "stale" ELSE IF ~Clean(a) THEN "lost"
                      ELSE IF Away(a) THEN "away" ELSE "home"
        /\ Place(a)' = IF ~LoadedSafely(a)' THEN "stale" ELSE IF ~Clean(a)' THEN "lost"
                       ELSE IF Away(a)' THEN "away" ELSE "home"
    BY <2>2 DEF Place, LoadedSafely, Clean, Away
  <2>5. Clean(a)' => Clean(a)
    BY <1>2, AccountStep DEF Clean
  <2>6. LoadedSafely(a)' => LoadedSafely(a)
    BY <1>2, AccountStep DEF LoadedSafely
  <2>7. done[a] \subseteq done'[a]
    BY <1>2, AccountStep
  <2>8. ~Clean(a)' => Place(a) # "home"
    BY <1>2, <2>2, <2>4, AccountStep DEF Clean
  <2>9. CASE ~LoadedSafely(a)'
    BY <2>1, <2>2, <2>4, <2>7, <2>8, <2>9 DEF Abstract!Spoil, Abstract!Recorded
  <2>10. CASE LoadedSafely(a)' /\ ~Clean(a)'
    <3>1. store[a] \subseteq store'[a] /\ Place(a) \in {"away", "lost"}
      BY <1>2, <2>4, <2>6, <2>8, <2>10, AccountStep
    <3> QED
      BY <2>1, <2>2, <2>4, <2>7, <2>10, <3>1 DEF Abstract!Lose, Abstract!Recorded
  <2>11. CASE Clean(a)'
    <3>1. /\ Place(a) = (IF Away(a) THEN "away" ELSE "home")
          /\ Place(a)' = (IF Away(a)' THEN "away" ELSE "home")
      BY <2>2, <2>4, <2>5, <2>11
    <3>2. CASE done'[a] # done[a]
      BY <1>2, <2>1, <3>1, <3>2, AccountStep DEF Abstract!Do
    <3>3. CASE done'[a] = done[a] /\ store'[a] # store[a]
      <4>1. Away(a) /\ ~Away(a)'
        BY <1>2, <2>2, <2>5, <2>11, <3>3, AccountStep
      <4> QED
        BY <2>1, <2>3, <2>11, <3>1, <3>3, <4>1 DEF Abstract!Return
    <3>4. CASE done'[a] = done[a] /\ store'[a] = store[a]
      BY <2>1, <2>3, <2>11, <3>1, <3>4 DEF Abstract!Take, Abstract!Return, Abstract!Rest
    <3> QED
      BY <3>2, <3>3, <3>4
  <2> QED
    BY <2>2, <2>9, <2>10, <2>11
<1> QED
  BY <1>1, <1>2, CrashStep, CrashKept, PTL DEF CrashSpec, KeepsSheets, Abstract!Spec

-----------------------------------------------------------------------------
(* Stopping: by the time the process exits everything has drained. *)

LoopBeforeSaver == main \in {"closeSaver", "exited"} => loop = "stopped"

HandlersBeforeLoop ==
  main \in {"waitLoop", "closeSaver", "exited"} => \A c \in Conns : pc[c] \in {"new", "done"}

\* Whom the stopped loop left in the world had its LeaveWorld refused or unread.
DeadRoster ==
  loop = "stopped" => \A c \in Conns : OnRoster(c) /\ pc[c] \in After =>
    faults[acct[c]] \cap {"leave refused", "loop gone"} # {}

SaverDrained == main = "exited" => saves = <<>> /\ inflight = {}

Stopping == LoopBeforeSaver /\ HandlersBeforeLoop /\ DeadRoster /\ SaverDrained

LEMMA InitStopping == Init => Stopping
BY DEF Init, Stopping, LoopBeforeSaver, HandlersBeforeLoop, DeadRoster, SaverDrained

\* A handler's steps while the loop is stopped.
LEMMA HandlerStopping ==
  ASSUME Typed, Order, Stopping, NEW c \in Conns, Handler(c), [Next]_vars
  PROVE  Stopping'
<1>1. /\ UNCHANGED <<main, loop, saves, inflight, roster>>
      /\ \A d \in Conns \ {c} : pc'[d] = pc[d] /\ acct'[d] = acct[d]
  BY DEF Handler, Accept, Authenticate, LoadSheet, Fail, AttachRequest, AttachReply, EnterWorld,
     Seated, Work, Quit, Disconnect, Leave, DetachRequest, DetachEnd, Goto, Typed, TypeOK
<1>2. main # "serve" /\ pc[c] \in {"new", "done"} => FALSE
  BY DEF Handler, Accept, Authenticate, LoadSheet, Fail, AttachRequest, AttachReply, EnterWorld,
     Seated, Work, Quit, Disconnect, Leave, DetachRequest, DetachEnd
<1>3. HandlersBeforeLoop'
  BY <1>1, <1>2 DEF Stopping, HandlersBeforeLoop
<1>4. DeadRoster'
  <2> SUFFICES ASSUME loop = "stopped", NEW d \in Conns, OnRoster(d), pc'[d] \in After
               PROVE  faults'[acct'[d]] \cap {"leave refused", "loop gone"} # {}
    BY <1>1 DEF DeadRoster, OnRoster
  <2>1. acct[d] \in Accounts
    BY InsideKnown DEF Inside
  <2>2. acct'[d] = acct[d]
    <3>1. pc[d] \notin Before
      BY DEF Order, NotYetIn
    <3> QED
      BY <1>1, <3>1 DEF Handler, Accept, Authenticate, LoadSheet, Fail, AttachRequest,
         AttachReply, EnterWorld, Seated, Work, Quit, Disconnect, Leave, DetachRequest,
         DetachEnd, Before
  <2>3. CASE pc[d] \in After
    BY <2>1, <2>2, <2>3, FaultsGrow DEF Stopping, DeadRoster
  <2>4. CASE pc[d] \notin After
    <3>1. d = c /\ Leave(c)
      BY <1>1, <2>4 DEF Handler, Accept, Authenticate, LoadSheet, Fail, AfterFailure,
         AttachRequest, AttachReply, EnterWorld, Seated, Work, Quit, Disconnect, DetachRequest,
         DetachEnd, Goto, After, Typed, TypeOK
    <3>2. "loop gone" \in LeaveFaults(c)
      BY <3>1 DEF LeaveFaults
    <3> QED
      BY <2>1, <2>2, <3>1, <3>2 DEF Leave, SubmitLeave, Blame
  <2> QED
    BY <2>3, <2>4
<1> QED
  BY <1>1, <1>3, <1>4 DEF Stopping, LoopBeforeSaver, SaverDrained

LEMMA StoppingStep ==
  ASSUME Typed, Order, Stopping, [Next]_vars
  PROVE  Stopping'
<1>1. CASE \E c \in Conns : Handler(c)
  BY <1>1, HandlerStopping
<1>2. CASE Handle
  <2>1. loop # "stopped" /\ UNCHANGED <<main, loop, pc>>
    BY <1>2 DEF Handle
  <2> QED
    BY <2>1 DEF Stopping, LoopBeforeSaver, HandlersBeforeLoop, DeadRoster, SaverDrained
<1>3. CASE LoopReturn
  <2>1. UNCHANGED <<main, pc, roster, acct, faults, saves, inflight>> /\ cmds = <<>>
    BY <1>3 DEF LoopReturn
  <2>2. \A c \in Conns : ~Sent(c, "leave")
    BY <2>1 DEF Sent
  <2>3. DeadRoster'
    BY <2>1, <2>2 DEF DeadRoster, OnRoster, Order, LeftBehind, Inside
  <2> QED
    BY <1>3, <2>1, <2>3
       DEF Stopping, LoopReturn, LoopBeforeSaver, HandlersBeforeLoop, SaverDrained
<1>4. CASE LoopCancelled \/ Worker \/ Main \/ UNCHANGED vars
  <2>1. UNCHANGED <<pc, roster, acct>>
    BY <1>4 DEF LoopCancelled, Worker, WorkerTake, WorkerWrite, WorkerFail, Main, Signal,
       ListenerFails, StopAccepting, ListenersReturn, CloseSaver, Exit, Terminated
  <2>2. loop' = "stopped" => loop = "stopped"
    BY <1>4 DEF LoopCancelled, Worker, WorkerTake, WorkerWrite, WorkerFail, Main, Signal,
       ListenerFails, StopAccepting, ListenersReturn, CloseSaver, Exit, Terminated
  <2>3. DeadRoster'
    <3> SUFFICES ASSUME loop = "stopped", NEW c \in Conns, OnRoster(c), pc[c] \in After
                 PROVE  faults'[acct[c]] \cap {"leave refused", "loop gone"} # {}
      BY <2>1, <2>2 DEF DeadRoster, OnRoster
    <3>1. acct[c] \in Accounts
      BY InsideKnown DEF Inside
    <3> QED
      BY <3>1, FaultsGrow DEF Stopping, DeadRoster
  <2>4. LoopBeforeSaver' /\ HandlersBeforeLoop' /\ SaverDrained'
    BY <1>4, <2>1 DEF Stopping, LoopBeforeSaver, HandlersBeforeLoop, SaverDrained,
       LoopCancelled, Worker, WorkerTake, WorkerWrite, WorkerFail, Main, Signal, ListenerFails,
       StopAccepting, ListenersReturn, CloseSaver, Exit, Terminated
  <2> QED
    BY <2>3, <2>4 DEF Stopping
<1> QED
  BY <1>1, <1>2, <1>3, <1>4 DEF Next, Loop

\* After an orderly exit the store holds exactly what the players did, for every
\* account no fault befell: the three waits of run() are enough.
THEOREM ExitKeepsAll == Spec => []StopKeepsAll
<1>1. Typed /\ Order /\ SheetInv /\ Stopping => StopKeepsAll
  <2> SUFFICES ASSUME Typed, Order, SheetInv, Stopping, main = "exited",
                      NEW a \in Accounts, faults[a] = {}
               PROVE  store[a] = done[a]
    BY DEF StopKeepsAll
  <2>1. Queued(a) = {} /\ Writing(a) = {}
    BY DEF Stopping, SaverDrained, Queued, Writing
  <2>2. Bodies(a) = {}
    <3> SUFFICES ASSUME NEW c \in Bodies(a) PROVE FALSE
      OBVIOUS
    <3>1. c \in Conns /\ OnRoster(c) /\ acct[c] = a
      BY NoAccountAssumption DEF Bodies, OnRoster, Order, RosterKnown
    <3>2. pc[c] = "done" /\ loop = "stopped"
      BY <3>1 DEF Stopping, HandlersBeforeLoop, LoopBeforeSaver, Order, NotYetIn, Before
    <3> QED
      BY <3>1, <3>2 DEF Stopping, DeadRoster, After
  <2> QED
    BY <2>1, <2>2 DEF SheetInv, Kept, UpToDate
<1>2. Typed /\ Order /\ Stopping /\ [Next]_vars => Stopping'
  BY StoppingStep
<1> QED
  BY <1>1, <1>2, AlwaysKept, InitStopping, PTL DEF Spec

=============================================================================
