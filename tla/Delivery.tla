------------------------------ MODULE Delivery ------------------------------
(***************************************************************************)
(* Events from the loop to the clients: internal/engine/loop.go (Attach,   *)
(* Detach, emit, enter, say, leave) and the readers in internal/net.       *)
(*                                                                         *)
(* The loop is the only sender; each connection has one reader at a time:  *)
(* its handler while it waits to be seated (Telnet), then a goroutine.     *)
(* Emit is three selects, between which a reader may run.  A room is       *)
(* whoever an event is for: any set of seated connections.                 *)
(***************************************************************************)
EXTENDS Naturals, Sequences, SequencesExt

CONSTANTS Conns,
          Telnet,     \* connections whose handler waits to be seated
          Logins,     \* bound: the ways in which the connections log in, Conns -> users
          OutCap,     \* OutboundSize
          MaxEvents   \* bound: events the loop ever emits

VARIABLES user,     \* whom each connection is logged in as, one way of Logins
          seat,     \* EnterWorld and LeaveWorld of each connection
          open,     \* its outbound channel
          out,      \* what waits in the channel
          reader,   \* who reads it
          hung,     \* connections whose handler has ended
          todo,     \* events the handler in progress still has to emit, with their targets
          step,     \* which select of emit is next
          cur,      \* the target whose channel was full, while emit is at it
          next,     \* number of the next event
          sent,     \* history: events emitted to each open channel
          got       \* history: events each reader took

loopVars   == <<user, todo, step, cur, next, sent>>
readerVars == <<user, reader, hung, got>>
vars == <<user, seat, open, out, reader, hung, todo, step, cur, next, sent, got>>

ASSUME DeliveryAssumption ==
  /\ Telnet \subseteq Conns /\ Conns # {}
  /\ OutCap \in Nat \ {0} /\ MaxEvents \in Nat

Event == [no : 1..MaxEvents, kind : {"card", "seated", "text"}, who : Conns]

TypeOK ==
  /\ user \in Logins
  /\ seat \in [Conns -> {"out", "queued", "in", "left"}]
  /\ open \in [Conns -> {"none", "open", "closed"}]
  /\ out \in [Conns -> Seq(Event)] /\ \A c \in Conns : Len(out[c]) <= OutCap
  /\ reader \in [Conns -> {"none", "await", "flush", "drain", "stopped"}]
  /\ hung \subseteq Conns
  /\ todo \in Seq([ev : Event, to : SUBSET Conns])
  /\ step \in {"send", "full", "freed"}
  /\ cur \in Conns
  /\ next \in Nat \ {0}
  /\ sent \in [Conns -> Seq(Event)] /\ got \in [Conns -> Seq(Event)]

\* cur between two overflows, when nobody looks at it.
SomeConn == CHOOSE c \in Conns : TRUE

Init ==
  /\ user \in Logins
  /\ seat = [c \in Conns |-> "out"]
  /\ open = [c \in Conns |-> "none"]
  /\ out = [c \in Conns |-> <<>>]
  /\ reader = [c \in Conns |-> "none"]
  /\ hung = {}
  /\ todo = <<>>
  /\ step = "send"
  /\ cur = SomeConn
  /\ next = 1
  /\ sent = [c \in Conns |-> <<>>]
  /\ got = [c \in Conns |-> <<>>]

-----------------------------------------------------------------------------
(* The loop handles one command at a time. *)

Idle == todo = <<>>
Seated == {c \in Conns : seat[c] = "in"}

Ev(n, kind, c) == [no |-> n, kind |-> kind, who |-> c]
For(ev, targets) == IF targets = {} THEN <<>> ELSE <<[ev |-> ev, to |-> targets]>>

HandleAttach(c) ==
  /\ Idle /\ open[c] = "none"
  /\ open' = [open EXCEPT ![c] = "open"]
  /\ UNCHANGED <<seat, out, loopVars, readerVars>>

\* Slip: the order docs/WIRE-PROTOCOL.md gives, the card after the seated line.
HandleEnterCardLast(c) ==
  /\ Idle /\ seat[c] = "queued" /\ next + 1 <= MaxEvents
  /\ seat' = [seat EXCEPT ![c] = "in"]
  /\ \E others \in SUBSET Seated :
       todo' = For(Ev(next, "seated", c), {c} \cup others) \o For(Ev(next + 1, "card", c), {c})
  /\ next' = next + 2
  /\ UNCHANGED <<open, out, step, cur, sent, readerVars>>

\* enter: the room card for the newcomer, then the seated line for the room.
HandleEnter(c) ==
  /\ Idle /\ seat[c] = "queued" /\ next + 1 <= MaxEvents
  /\ seat' = [seat EXCEPT ![c] = "in"]
  /\ \E others \in SUBSET Seated :
       todo' = For(Ev(next, "card", c), {c}) \o For(Ev(next + 1, "seated", c), {c} \cup others)
  /\ next' = next + 2
  /\ UNCHANGED <<open, out, step, cur, sent, readerVars>>

\* say, and every answer to a command: for a room or for the player alone.
HandleSay(c) ==
  /\ Idle /\ seat[c] = "in" /\ next <= MaxEvents
  /\ \E others \in SUBSET Seated : todo' = For(Ev(next, "text", c), {c} \cup others)
  /\ next' = next + 1
  /\ UNCHANGED <<seat, open, out, step, cur, sent, readerVars>>

HandleLeave(c) ==
  /\ Idle /\ seat[c] = "in" /\ c \in hung /\ open[c] = "open" /\ next <= MaxEvents
  /\ seat' = [seat EXCEPT ![c] = "left"]
  /\ \E others \in SUBSET (Seated \ {c}) : todo' = For(Ev(next, "text", c), others)
  /\ next' = next + 1
  /\ UNCHANGED <<open, out, step, cur, sent, readerVars>>

\* LeaveWorld may have been refused: the player then stays seated.
HandleDetach(c) ==
  /\ Idle /\ open[c] = "open" /\ c \in hung /\ seat[c] # "queued"
  /\ open' = [open EXCEPT ![c] = "closed"]
  /\ UNCHANGED <<seat, out, loopVars, readerVars>>

-----------------------------------------------------------------------------
(* emit *)

Current == Head(todo)

\* The current event is dealt with for c.
Served(c) ==
  todo' = IF Current.to = {c} THEN Tail(todo)
          ELSE <<[Current EXCEPT !.to = @ \ {c}]>> \o Tail(todo)

Put(c) == out' = [out EXCEPT ![c] = Append(@, Current.ev)]
Record(c) == sent' = [sent EXCEPT ![c] = Append(@, Current.ev)]

\* No channel: the event is for nobody.
EmitNowhere(c) ==
  /\ ~Idle /\ step = "send" /\ c \in Current.to
  /\ open[c] # "open"
  /\ Served(c)
  /\ UNCHANGED <<seat, open, out, step, cur, next, sent, readerVars>>

\* Slip: the capacity is not looked at.
EmitOver(c) ==
  /\ ~Idle /\ step = "send" /\ c \in Current.to
  /\ open[c] = "open"
  /\ Put(c) /\ Record(c) /\ Served(c)
  /\ UNCHANGED <<seat, open, step, cur, next, readerVars>>

EmitSend(c) ==
  /\ ~Idle /\ step = "send" /\ c \in Current.to
  /\ open[c] = "open" /\ Len(out[c]) < OutCap
  /\ Put(c) /\ Record(c) /\ Served(c)
  /\ UNCHANGED <<seat, open, step, cur, next, readerVars>>

\* Slip: the send waits for room.
EmitWait(c) == FALSE

\* Slip: the new event is the one given up.
EmitSkip(c) ==
  /\ ~Idle /\ step = "send" /\ c \in Current.to
  /\ open[c] = "open" /\ Len(out[c]) >= OutCap
  /\ step' = "freed" /\ cur' = c
  /\ Record(c)
  /\ UNCHANGED <<seat, open, out, todo, next, readerVars>>

EmitFull(c) ==
  /\ ~Idle /\ step = "send" /\ c \in Current.to
  /\ open[c] = "open" /\ Len(out[c]) >= OutCap
  /\ step' = "full" /\ cur' = c
  /\ Record(c)
  /\ UNCHANGED <<seat, open, out, todo, next, readerVars>>

\* Slip: everything that waits is thrown away.
DropAll ==
  /\ step = "full" /\ step' = "freed"
  /\ out' = [out EXCEPT ![cur] = <<>>]
  /\ UNCHANGED <<seat, open, todo, cur, next, sent, readerVars>>

\* The reader may have made room, or emptied the channel, meanwhile.
DropOldest ==
  /\ step = "full" /\ step' = "freed"
  /\ out' = [out EXCEPT ![cur] = IF @ = <<>> THEN @ ELSE Tail(@)]
  /\ UNCHANGED <<seat, open, todo, cur, next, sent, readerVars>>

EmitAgain ==
  /\ step = "freed" /\ step' = "send"
  /\ IF Len(out[cur]) < OutCap THEN Put(cur) ELSE UNCHANGED out
  /\ Served(cur)
  /\ cur' = SomeConn
  /\ UNCHANGED <<seat, open, next, sent, readerVars>>

Emit ==
  \/ \E c \in Conns : EmitNowhere(c) \/ EmitSend(c) \/ EmitFull(c)
  \/ DropOldest \/ EmitAgain

-----------------------------------------------------------------------------
(* The connection. *)

SubmitEnter(c) ==
  /\ open[c] = "open" /\ seat[c] = "out" /\ c \notin hung
  /\ seat' = [seat EXCEPT ![c] = "queued"]
  /\ reader' = [reader EXCEPT ![c] = IF c \in Telnet THEN "await" ELSE "drain"]
  /\ UNCHANGED <<open, out, hung, got, loopVars>>

\* A seated line tells the name, and one account may have several connections.
OwnSeated(c, ev) == ev.kind = "seated" /\ user[ev.who] = user[c]

\* Slip: nobody reads once the prompt is printed.
ReceiveSeating(c) ==
  /\ reader[c] \in {"await", "flush"} /\ out[c] # <<>>
  /\ got' = [got EXCEPT ![c] = Append(@, Head(out[c]))]
  /\ out' = [out EXCEPT ![c] = Tail(@)]
  /\ reader' = [reader EXCEPT ![c] = IF @ = "await" /\ OwnSeated(c, Head(out[c])) THEN "flush" ELSE @]
  /\ UNCHANGED <<seat, open, hung, loopVars>>

Receive(c) ==
  /\ reader[c] \in {"await", "flush", "drain"} /\ out[c] # <<>>
  /\ got' = [got EXCEPT ![c] = Append(@, Head(out[c]))]
  /\ out' = [out EXCEPT ![c] = Tail(@)]
  /\ reader' = [reader EXCEPT ![c] = IF @ = "await" /\ OwnSeated(c, Head(out[c])) THEN "flush" ELSE @]
  /\ UNCHANGED <<seat, open, hung, loopVars>>

\* flushNow found nothing more; the prompt is printed and the goroutine started.
Prompt(c) ==
  /\ reader[c] = "flush" /\ out[c] = <<>>
  /\ reader' = [reader EXCEPT ![c] = "drain"]
  /\ UNCHANGED <<seat, open, out, hung, got, loopVars>>

\* Five seconds passed, or the socket failed, before the prompt was out.
AwaitFails(c) ==
  /\ reader[c] \in {"await", "flush"}
  /\ reader' = [reader EXCEPT ![c] = "stopped"]
  /\ hung' = hung \cup {c}
  /\ UNCHANGED <<seat, open, out, got, loopVars>>

\* The socket failed, or the channel is closed and empty.
ReaderStops(c) ==
  /\ reader[c] = "drain"
  /\ reader' = [reader EXCEPT ![c] = "stopped"]
  /\ UNCHANGED <<seat, open, out, hung, got, loopVars>>

\* The handler ends: quit, disconnect, or EnterWorld refused.
HangUp(c) ==
  /\ open[c] = "open" /\ reader[c] \notin {"await", "flush"} /\ c \notin hung
  /\ hung' = hung \cup {c}
  /\ UNCHANGED <<seat, open, out, reader, got, loopVars>>

Next ==
  \/ Emit
  \/ \E c \in Conns :
       \/ HandleAttach(c) \/ HandleEnter(c) \/ HandleSay(c) \/ HandleLeave(c) \/ HandleDetach(c)
       \/ SubmitEnter(c) \/ Receive(c) \/ Prompt(c) \/ AwaitFails(c) \/ ReaderStops(c) \/ HangUp(c)

Spec == Init /\ [][Next]_vars

\* The loop goroutine is never starved; a reader that can take an event does.
FairSpec == Spec /\ WF_vars(Emit) /\ \A c \in Conns : WF_vars(Receive(c))
-----------------------------------------------------------------------------
(* Properties. *)

Took(c)    == ToSet(got[c])
Waiting(c) == ToSet(out[c])

\* An overflow costs the oldest event and never the new one, though the reader may
\* empty the channel between the selects: emit leaves the event it was called for
\* waiting or read.  ("Overflow drops the oldest", EVENT-BUS.md)
NewestKept ==
  \A c \in Conns :
    sent[c] # <<>> /\ (step = "send" \/ cur # c) => Last(sent[c]) \in Took(c) \cup Waiting(c)

\* A Telnet player who sees the prompt has seen the card of the room it entered,
\* unless newer events pushed it out.  (comment in Loop.enter; awaitSeated, flushNow)
PromptAfterCard ==
  \A c \in Telnet :
    reader[c] = "drain" =>
      \/ \E e \in Took(c) : e.kind = "card" /\ e.who = c
      \/ Len(sent[c]) > OutCap

Box == INSTANCE Mailboxes WITH Cap <- OutCap

\* Each client's channel keeps the promise of Mailboxes: in order, none twice,
\* and at most one missed for each event beyond the capacity.  (emit against drain)
KeepsPromise == Box!Spec

\* However slow the clients are, the loop gets its events out: nothing is assumed of
\* any reader.  ("The loop does not block on a slow client", EVENT-BUS.md)
LoopNeverWaits == ~Idle ~> Idle

\* What waits is read or pushed out, while somebody reads.
Delivered ==
  \A c \in Conns, n \in 1..MaxEvents :
    (\E e \in Waiting(c) : e.no = n)
      ~> ((\A e \in Waiting(c) : e.no # n) \/ reader[c] \in {"none", "stopped"})
=============================================================================
