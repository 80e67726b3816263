------------------------------- MODULE Lines --------------------------------
(***************************************************************************)
(* From a Telnet client's keys to the commands of its handler              *)
(* (internal/net/telnet.go: readLineInto, readFilteredByte, commands,      *)
(* limiter, and the deadlines of handle and readLine).                     *)
(*                                                                         *)
(* The client's bytes arrive in packets cut anywhere.  The handler reads a *)
(* byte at a time from its buffer, asks the network only when that is      *)
(* empty, and looks at the clock once for every line.                      *)
(***************************************************************************)
EXTENDS Integers, Sequences, SequencesExt

CONSTANTS Texts,      \* what a client types: keys, and the line they make
          CmdRate,    \* commands allowed
          CmdWindow,  \* in a window of this length
          MaxLine,    \* longest line
          MaxLines, MaxAhead,   \* bounds: lines, bytes on their way,
          MaxPacket, MaxTime    \* bytes of a packet, the clock

VARIABLES silent,    \* the client types no more
          wire,      \* bytes on their way
          buf,       \* bytes in the handler's buffer
          filt,      \* inside which Telnet sequence the handler is
          line,      \* the line so far
          over,      \* it is too long
          pc,        \* where the handler is
          times,     \* the limiter's record of commands
          now,       \* the clock when it was last asked
          deadline,  \* of reads: idle (five minutes from the line's start) or past
          stop,      \* the server's context: running, cancelled, noticed by the watcher
          typed,     \* history: lines the client typed,
          empties,   \* history: and how many empty ones
          heard,     \* history: lines the limiter was asked about
          passed,    \* history: when it let one pass
          blanks,    \* history: empty lines read
          lone,      \* history: CRs read with nothing after them
          late       \* history: lines read after the server's stop

input   == <<silent, wire, buf>>
reading == <<filt, line, over>>
server  == <<deadline, stop>>
history == <<typed, empties, heard, passed, blanks, lone, late>>
vars == <<silent, wire, buf, filt, line, over, pc, times, now, deadline, stop,
          typed, empties, heard, passed, blanks, lone, late>>

Options == {"WILL", "WONT", "DO", "DONT"}
Controls == {"NUL", "BEL"}     \* below 0x20
Endings == {<<"CR", "LF">>, <<"LF">>, <<"CR">>, <<"CR", "NUL">>}
Chars == {"a", "b"}
Bytes == Chars \cup Options \cup Controls \cup {"CR", "LF", "BS", "IAC", "SB", "SE"}

ASSUME LinesAssumption ==
  /\ Texts \subseteq [keys : Seq(Bytes), line : Seq(Chars)]
  /\ CmdRate \in Nat \ {0} /\ CmdWindow \in Nat \ {0} /\ MaxLine \in Nat
  /\ MaxLines \in Nat /\ MaxAhead \in Nat /\ MaxPacket \in Nat /\ MaxTime \in Nat

TypeOK ==
  /\ silent \in BOOLEAN
  /\ wire \in Seq(Bytes) /\ buf \in Seq(Bytes)
  /\ filt \in {"text", "iac", "option", "sub", "subIac"}
  /\ line \in Seq(Chars) /\ Len(line) <= MaxLine
  /\ over \in BOOLEAN
  /\ pc \in {"top", "arm", "read", "act", "done"}
  /\ times \in Seq(0..now)
  /\ now \in Nat
  /\ deadline \in {"idle", "past"}
  /\ stop \in {"running", "cancelled", "noticed"}
  /\ typed \in Seq(Seq(Chars)) /\ empties \in Nat
  /\ heard \in Seq(Seq(Chars)) /\ passed \in Seq(0..now)
  /\ blanks \in Nat /\ lone \in Nat /\ late \in Nat

Init ==
  /\ silent = FALSE /\ wire = <<>> /\ buf = <<>>
  /\ filt = "text" /\ line = <<>> /\ over = FALSE
  /\ pc = "top"
  /\ times = <<>> /\ now = 0
  /\ deadline = "idle" /\ stop = "running"
  /\ typed = <<>> /\ empties = 0 /\ heard = <<>> /\ passed = <<>> /\ blanks = 0 /\ lone = 0 /\ late = 0

-----------------------------------------------------------------------------
(* What a client's keys mean, apart from how they arrive. *)

\* Telnet commands are taken out of the text: IAC and one byte, IAC WILL and
\* its like and one byte more, IAC SB up to IAC SE.
Filtered(f, b) ==
  CASE f = "text"   -> IF b = "IAC" THEN "iac" ELSE "text"
    [] f = "iac"    -> IF b \in Options THEN "option" ELSE IF b = "SB" THEN "sub" ELSE "text"
    [] f = "option" -> "text"
    [] f = "sub"    -> IF b = "IAC" THEN "subIac" ELSE "sub"
    [] f = "subIac" -> IF b = "SE" THEN "text" ELSE "sub"

Fresh == [filt |-> "text", line |-> <<>>, over |-> FALSE]

\* A character is added, a deletion takes one away, from the first too many on a line
\* is lost; Telnet commands and controls are nothing.
Key(s, b) ==
  LET inText == s.filt = "text" /\ b # "IAC"
      tooLong == s.over \/ (inText /\ b \in Chars /\ Len(s.line) >= MaxLine)
  IN [filt |-> Filtered(s.filt, b),
      over |-> tooLong,
      line |-> IF inText /\ ~tooLong /\ b \in Chars THEN Append(s.line, b)
               ELSE IF inText /\ ~tooLong /\ b = "BS" /\ s.line # <<>> THEN Front(s.line)
               ELSE s.line]

\* The line after each of the keys.
Typing(keys) ==
  LET f[n \in 0..Len(keys)] == IF n = 0 THEN Fresh ELSE Key(f[n - 1], keys[n]) IN f

Plain == Chars \cup Controls \cup {"BS", "IAC"}

Finished(s) == IF s.over THEN <<>> ELSE s.line

\* The keys of a text are its line's, and leave no Telnet command open.
ASSUME TextsAssumption ==
  \A t \in Texts :
    LET s == Typing(t.keys)  n == Len(t.keys) IN
    /\ \A k \in 1..n : s[k - 1].filt = "text" => t.keys[k] \in Plain
    /\ s[n].filt = "text" /\ t.line = Finished(s[n])

-----------------------------------------------------------------------------
(* The client and the network. *)

\* When a byte was typed matters only once the handler asks the network.
Type(t, ending) ==
  /\ pc = "read" /\ buf = <<>> /\ ~silent /\ Len(typed) + empties < MaxLines
  /\ Len(wire) + Len(t.keys) + Len(ending) <= MaxAhead
  /\ silent' = (ending = <<>>)   \* it leaves a line unfinished
  /\ wire' = wire \o t.keys \o ending
  /\ IF t.line = <<>> THEN empties' = empties + 1 /\ UNCHANGED typed
     ELSE typed' = Append(typed, t.line) /\ UNCHANGED empties
  /\ UNCHANGED <<buf, reading, pc, times, now, server, heard, passed, blanks, lone, late>>

\* The reader's buffer is filled from what has arrived; a read past its
\* deadline fails even then.
Fill ==
  /\ pc = "read" /\ buf = <<>> /\ wire # <<>> /\ deadline = "idle"
  /\ \E n \in 1..MaxPacket :
       /\ n <= Len(wire)
       /\ buf' = SubSeq(wire, 1, n)
       /\ wire' = SubSeq(wire, n + 1, Len(wire))
  /\ UNCHANGED <<silent, reading, pc, times, now, server, history>>

-----------------------------------------------------------------------------
(* Reading a line. *)

Skip ==
  /\ pc = "read" /\ buf # <<>>
  /\ filt # "text" \/ Head(buf) = "IAC"
  /\ filt' = Filtered(filt, Head(buf))
  /\ buf' = Tail(buf)
  /\ UNCHANGED <<silent, wire, line, over, pc, times, now, server, history>>

Reads(b) == pc = "read" /\ filt = "text" /\ buf # <<>> /\ Head(buf) = b

\* Slip: a deletion takes the whole line.
EraseAll ==
  /\ Reads("BS")
  /\ line' = IF over THEN line ELSE <<>>
  /\ buf' = Tail(buf)
  /\ UNCHANGED <<silent, wire, filt, over, pc, times, now, server, history>>

Erase ==
  /\ Reads("BS")
  /\ line' = IF over \/ line = <<>> THEN line ELSE Front(line)
  /\ buf' = Tail(buf)
  /\ UNCHANGED <<silent, wire, filt, over, pc, times, now, server, history>>

\* Slip: no limit to a line.
KeepAll ==
  \E b \in Chars \cup Controls :
    /\ Reads(b)
    /\ line' = IF b \in Controls THEN line ELSE Append(line, b)
    /\ buf' = Tail(buf)
    /\ UNCHANGED <<silent, wire, filt, over, pc, times, now, server, history>>

\* Controls are dropped, and what makes a line too long.
Keep ==
  \E b \in Chars \cup Controls :
    /\ Reads(b)
    /\ over' = (over \/ (b \in Chars /\ Len(line) >= MaxLine))
    /\ line' = IF over' \/ b \in Controls THEN line ELSE Append(line, b)
    /\ buf' = Tail(buf)
    /\ UNCHANGED <<silent, wire, filt, pc, times, now, server, history>>

\* LF and NUL belong to the CR before them, if they are in the buffer with it.
EndsWith(b, rest) ==
  IF b = "CR" /\ rest # <<>> /\ Head(rest) \in {"LF", "NUL"} THEN Tail(rest) ELSE rest

EndLine ==
  \E b \in {"CR", "LF"} :
    /\ Reads(b)
    /\ buf' = EndsWith(b, Tail(buf))
    /\ line' = IF over THEN <<>> ELSE line
    /\ over' = FALSE
    /\ pc' = "act"
    /\ lone' = IF b = "CR" /\ Tail(buf) = <<>> THEN lone + 1 ELSE lone
    /\ UNCHANGED <<silent, wire, filt, times, now, server, typed, empties, heard, passed, blanks, late>>

-----------------------------------------------------------------------------
(* The loop of commands. *)

\* Slip: the loop does not look whether the server stops.
CheckNothing ==
  /\ pc = "top" /\ pc' = "arm"
  /\ UNCHANGED <<input, reading, times, now, server, history>>

Check ==
  /\ pc = "top"
  /\ pc' = IF stop = "running" THEN "arm" ELSE "done"
  /\ UNCHANGED <<input, reading, times, now, server, history>>

Arm ==
  /\ pc = "arm" /\ pc' = "read"
  /\ deadline' = "idle"
  /\ UNCHANGED <<input, reading, times, now, stop, history>>

\* Slip: an entry as old as the window counts.
LiveOld(ts, t) ==
  LET n == CHOOSE k \in 0..Len(ts) :
             /\ \A i \in 1..k : ts[i] < t - CmdWindow
             /\ k = Len(ts) \/ ts[k + 1] >= t - CmdWindow
  IN SubSeq(ts, n + 1, Len(ts))

\* The entries from the first that is not as old as the window.
Live(ts, t) ==
  LET n == CHOOSE k \in 0..Len(ts) :
             /\ \A i \in 1..k : ts[i] <= t - CmdWindow
             /\ k = Len(ts) \/ ts[k + 1] > t - CmdWindow
  IN SubSeq(ts, n + 1, Len(ts))

\* Slip: one more than the limit.
AllowsOneMore(ts) == Len(ts) <= CmdRate

Allows(ts) == Len(ts) < CmdRate

LineRead == line' = <<>> /\ late' = IF stop = "running" THEN late ELSE late + 1

Blank ==
  /\ pc = "act" /\ line = <<>> /\ LineRead
  /\ pc' = "top"
  /\ blanks' = blanks + 1
  /\ UNCHANGED <<input, filt, over, times, now, server, typed, empties, heard, passed, lone>>

\* The clock is read; the command is refused, or dispatched: quit ends the handler.
Ask ==
  /\ pc = "act" /\ line # <<>> /\ LineRead
  /\ heard' = Append(heard, line)
  /\ \E t \in now..MaxTime :
       /\ now' = t
       /\ \/ /\ Allows(Live(times, t))
             /\ times' = Append(Live(times, t), t)
             /\ passed' = Append(passed, t)
             /\ pc' \in {"top", "done"}
          \/ /\ ~Allows(Live(times, t))
             /\ times' = Live(times, t)
             /\ pc' = "top" /\ UNCHANGED passed
  /\ UNCHANGED <<input, filt, over, server, typed, empties, blanks, lone>>

-----------------------------------------------------------------------------
(* The end of the handler. *)

Done == pc' = "done" /\ UNCHANGED <<input, reading, times, now, server, history>>

\* The client is gone, or a write failed.
HangUp == pc \in {"read", "act"} /\ Done

\* Slip: the deadline holds for the first byte of a line only.
TimeOutAtStart == pc = "read" /\ buf = <<>> /\ (deadline = "past" \/ line = <<>>) /\ Done

\* Five minutes after the line's start, or at once when the watcher has set it.
TimeOut == pc = "read" /\ buf = <<>> /\ Done

Cancel ==
  /\ stop = "running" /\ stop' = "cancelled"
  /\ UNCHANGED <<input, reading, pc, times, now, deadline, history>>

\* The watcher goroutine sets the deadline once, whatever the handler does next.
Watch ==
  /\ stop = "cancelled" /\ pc # "done"
  /\ stop' = "noticed" /\ deadline' = "past"
  /\ UNCHANGED <<input, reading, pc, times, now, history>>

ReadByte == Skip \/ Erase \/ Keep \/ EndLine
Handler == Check \/ Arm \/ Fill \/ ReadByte \/ Blank \/ Ask

Next ==
  \/ \E t \in Texts, e \in Endings \cup {<<>>} : Type(t, e)
  \/ Handler \/ HangUp \/ TimeOut \/ Cancel \/ Watch

Spec == Init /\ [][Next]_vars

\* The handler's goroutine runs, its reads time out, the watcher runs.
FairSpec == Spec /\ WF_vars(Handler) /\ WF_vars(TimeOut) /\ WF_vars(Watch)

-----------------------------------------------------------------------------
(* Properties. *)

\* However the bytes are cut into packets and the lines end, the handler hears
\* the lines that were typed, whole, in order and once, and all of them when
\* nothing is left to read (readLineInto).  An empty line nobody typed, at the
\* password prompt a failed login, comes only of a line ending cut in two packets
\* (telnet.go:643).
LinesArriveWhole ==
  /\ IsPrefix(heard, typed)
  /\ ~silent /\ wire = <<>> /\ buf = <<>> /\ pc \in {"top", "arm", "read"} => heard = typed
  /\ blanks <= empties + lone

\* The window is full at t: as many commands as the limit passed in it.
Full(t) ==
  /\ Len(passed) >= CmdRate
  /\ passed[Len(passed) + 1 - CmdRate] > t - CmdWindow

\* The limiter is exact: a command passes when fewer than the limit passed in the
\* window before it, and is refused when as many did; refusals do not count, and
\* what is pruned was old (limiter.allow, docs/WIRE-PROTOCOL.md:204).
WindowExact ==
  [][heard' # heard => (passed' = passed <=> Full(now'))]_vars

\* When the server stops, the loop of commands takes at most the line it is waiting
\* for, although it may set its deadline ahead after the watcher has set it back.
\* (The dialogue before it, which may take a name and a password, is Accounts's.)
OneLineMore == late <= 1

\* A stopped server's handlers end, whatever their clients do.
Stops == stop # "running" ~> pc = "done"
=============================================================================
