---------------------------- MODULE LinesProofs -----------------------------
(* What a handler hears, and what the limiter and the stop guarantee, for   *)
(* every rate, window, line length, packet and client.                      *)
EXTENDS Lines, TLAPS, SequenceTheorems, WellFoundedInduction

-----------------------------------------------------------------------------
(* The limiter's record is the end of what passed; all before it is old.    *)

EndOf(ts, p) ==
  /\ Len(ts) <= Len(p)
  /\ \A i \in 1..Len(ts) : ts[i] = p[Len(p) - Len(ts) + i]

OldBefore(ts, p, t) == \A i \in 1..(Len(p) - Len(ts)) : p[i] <= t - CmdWindow

Spaced(p) == \A i \in 1..Len(p) : i + CmdRate \in 1..Len(p) => p[i + CmdRate] - p[i] >= CmdWindow

Limit ==
  /\ now \in Nat /\ times \in Seq(Nat) /\ passed \in Seq(Nat)
  /\ EndOf(times, passed) /\ OldBefore(times, passed, now)
  /\ Spaced(passed)
  /\ Len(times) <= CmdRate

\* Pruning keeps an end of the record whose first entry is live.
LEMMA LiveIs ==
  ASSUME NEW ts \in Seq(Nat), NEW t \in Nat
  PROVE  \E n \in 0..Len(ts) :
           /\ Live(ts, t) = SubSeq(ts, n + 1, Len(ts))
           /\ \A i \in 1..n : ts[i] <= t - CmdWindow
           /\ n = Len(ts) \/ ts[n + 1] > t - CmdWindow
<1> DEFINE Cut(k) == /\ \A i \in 1..k : ts[i] <= t - CmdWindow
                     /\ k = Len(ts) \/ ts[k + 1] > t - CmdWindow
<1>1. \E k \in 0..Len(ts) : Cut(k)
  <2> DEFINE Young == {i \in 1..Len(ts) : ts[i] > t - CmdWindow}
  <2>1. CASE Young = {}
    <3>1. Cut(Len(ts))
      BY <2>1, LinesAssumption
    <3> QED
      BY <3>1
  <2>2. CASE Young # {}
    <3>1. \E m \in Young : \A i \in Young : m <= i
      <4>1. Young \subseteq Nat
        OBVIOUS
      <4> HIDE DEF Young
      <4>2. PICK m \in Young : \A i \in Young : <<i, m>> \notin OpToRel(<, Nat)
        BY <2>2, <4>1, NatLessThanWellFounded, WFMin
      <4>3. \A i \in Young : ~(i < m)
        BY <4>1, <4>2 DEF OpToRel
      <4> QED
        BY <4>1, <4>3
    <3>2. PICK m \in Young : \A i \in Young : m <= i
      BY <3>1
    <3>3. m - 1 \in 0..Len(ts) /\ Cut(m - 1)
      BY <3>2, LinesAssumption
    <3> QED
      BY <3>3
  <2> QED
    BY <2>1, <2>2
<1>2. Cut(CHOOSE k \in 0..Len(ts) : Cut(k)) /\ (CHOOSE k \in 0..Len(ts) : Cut(k)) \in 0..Len(ts)
  BY <1>1
<1> QED
  BY <1>2 DEF Live

\* What is left after pruning is still the end of what passed, and all before is old.
LEMMA PruneKeeps ==
  ASSUME NEW ts \in Seq(Nat), NEW p \in Seq(Nat), NEW s \in Nat, NEW t \in Nat, s <= t,
         EndOf(ts, p), OldBefore(ts, p, s)
  PROVE  /\ Live(ts, t) \in Seq(Nat) /\ Len(Live(ts, t)) <= Len(ts)
         /\ EndOf(Live(ts, t), p) /\ OldBefore(Live(ts, t), p, t)
         /\ Len(Live(ts, t)) > 0 => Live(ts, t)[1] > t - CmdWindow
<1> DEFINE L == Live(ts, t)
<1>1. PICK n \in 0..Len(ts) :
        /\ L = SubSeq(ts, n + 1, Len(ts))
        /\ \A i \in 1..n : ts[i] <= t - CmdWindow
        /\ n = Len(ts) \/ ts[n + 1] > t - CmdWindow
  BY LiveIs
<1> HIDE DEF L
<1>2. /\ L \in Seq(Nat) /\ Len(L) = Len(ts) - n
      /\ \A i \in 1..Len(L) : L[i] = ts[n + i]
  <2>1. n \in Nat /\ Len(ts) \in Nat /\ n <= Len(ts)
    OBVIOUS
  <2>2. /\ SubSeq(ts, n + 1, Len(ts)) \in Seq(Nat)
        /\ Len(SubSeq(ts, n + 1, Len(ts))) = Len(ts) - n
    BY <2>1
  <2>3. ASSUME NEW i \in 1..(Len(ts) - n)
        PROVE  SubSeq(ts, n + 1, Len(ts))[i] = ts[n + i]
    BY <2>1
  <2> QED
    BY <1>1, <2>2, <2>3
<1>3. EndOf(L, p)
  <2>1. Len(ts) \in Nat /\ Len(p) \in Nat /\ Len(L) \in Nat /\ n \in Nat
    BY <1>2
  <2>2. Len(L) <= Len(p)
    BY <1>2, <2>1 DEF EndOf
  <2>3. ASSUME NEW i \in 1..Len(L) PROVE L[i] = p[Len(p) - Len(L) + i]
    <3>1. n + i \in 1..Len(ts) /\ Len(p) - Len(ts) + (n + i) = Len(p) - Len(L) + i
      BY <1>2, <2>1
    <3>2. ts[n + i] = p[Len(p) - Len(ts) + (n + i)]
      BY <3>1 DEF EndOf
    <3> QED
      BY <1>2, <3>1, <3>2
  <2> QED
    BY <2>2, <2>3 DEF EndOf
<1>4. ASSUME NEW i \in 1..(Len(p) - Len(L)) PROVE p[i] <= t - CmdWindow
  <2>1. CASE i <= Len(p) - Len(ts)
    <3>1. p[i] <= s - CmdWindow
      BY <2>1 DEF OldBefore
    <3>2. p[i] \in Nat
      BY <1>2, <2>1, <1>4 DEF EndOf
    <3> QED
      BY <3>1, <3>2, LinesAssumption
  <2>2. CASE i > Len(p) - Len(ts)
    <3> DEFINE k == i - (Len(p) - Len(ts))
    <3>1. k \in 1..n /\ k \in 1..Len(ts) /\ p[i] = ts[k]
      <4>1. k \in Nat /\ k >= 1 /\ k <= n /\ k <= Len(ts) /\ i = Len(p) - Len(ts) + k
        BY <1>2, <2>2
      <4> HIDE DEF k
      <4>2. k \in 1..n /\ k \in 1..Len(ts)
        BY <4>1
      <4> QED
        BY <4>1, <4>2 DEF EndOf
    <3> QED
      BY <1>1, <3>1
  <2> QED
    BY <2>1, <2>2
<1>5. Len(L) > 0 => L[1] > t - CmdWindow
  BY <1>1, <1>2
<1> QED
  BY <1>2, <1>3, <1>4, <1>5 DEF OldBefore, L

\* A command that passes is a window away from the one that passed CmdRate before.
LEMMA PassKeeps ==
  ASSUME Limit, NEW t \in Nat, now <= t, now' = t,
         Allows(Live(times, t)),
         times' = Append(Live(times, t), t), passed' = Append(passed, t)
  PROVE  Limit'
<1> DEFINE L == Live(times, t)
<1>1. /\ L \in Seq(Nat) /\ EndOf(L, passed) /\ OldBefore(L, passed, t) /\ Len(L) < CmdRate
  BY PruneKeeps DEF Limit, Allows
<1> HIDE DEF L
<1>2. times' = Append(L, t)
  BY DEF L
<1>3. passed \in Seq(Nat) /\ Spaced(passed)
  BY DEF Limit
<1>4. /\ times' \in Seq(Nat) /\ passed' \in Seq(Nat) /\ now' \in Nat
      /\ Len(times') = Len(L) + 1 /\ Len(passed') = Len(passed) + 1
      /\ \A i \in 1..Len(L) : times'[i] = L[i]
      /\ \A i \in 1..Len(passed) : passed'[i] = passed[i]
      /\ times'[Len(L) + 1] = t /\ passed'[Len(passed) + 1] = t
  BY <1>1, <1>2, <1>3
<1>5. EndOf(times', passed')
  <2>1. Len(times') <= Len(passed') /\ Len(L) <= Len(passed)
    BY <1>1, <1>3, <1>4 DEF EndOf
  <2>2. ASSUME NEW i \in 1..Len(times')
        PROVE  times'[i] = passed'[Len(passed') - Len(times') + i]
    <3>1. Len(passed') - Len(times') + i = Len(passed) - Len(L) + i
      BY <1>1, <1>3, <1>4
    <3>2. CASE i = Len(L) + 1
      BY <1>1, <1>3, <1>4, <3>1, <3>2
    <3>3. CASE i \in 1..Len(L)
      <4>1. L[i] = passed[Len(passed) - Len(L) + i]
        BY <1>1, <3>3 DEF EndOf
      <4>2. Len(passed) - Len(L) + i \in 1..Len(passed)
        BY <1>1, <1>3, <2>1, <3>3
      <4> QED
        BY <1>4, <3>1, <3>3, <4>1, <4>2
    <3>4. i = Len(L) + 1 \/ i \in 1..Len(L)
      BY <1>1, <1>4
    <3> QED
      BY <3>2, <3>3, <3>4
  <2> QED
    BY <2>1, <2>2 DEF EndOf
<1>6. OldBefore(times', passed', t)
  BY <1>1, <1>3, <1>4 DEF OldBefore, EndOf
<1>7. Spaced(passed')
  <2> SUFFICES ASSUME NEW i \in 1..Len(passed'), i + CmdRate \in 1..Len(passed')
               PROVE  passed'[i + CmdRate] - passed'[i] >= CmdWindow
    BY DEF Spaced
  <2>1. CASE i + CmdRate <= Len(passed)
    BY <1>3, <1>4, <2>1, LinesAssumption DEF Spaced
  <2>2. CASE i + CmdRate = Len(passed) + 1
    <3>1. i \in 1..(Len(passed) - Len(L)) /\ i \in 1..Len(passed)
      BY <1>1, <1>3, <2>2, LinesAssumption
    <3>2. passed[i] <= t - CmdWindow /\ passed[i] \in Nat
      BY <1>1, <1>3, <3>1 DEF OldBefore
    <3>3. passed'[i + CmdRate] = t /\ passed'[i] = passed[i]
      BY <1>4, <2>2, <3>1
    <3> QED
      BY <3>2, <3>3, LinesAssumption
  <2>3. Len(passed') = Len(passed) + 1 /\ Len(passed) \in Nat /\ i \in Int /\ CmdRate \in Nat
    BY <1>3, <1>4, LinesAssumption
  <2>4. i + CmdRate <= Len(passed) + 1
    BY <2>3
  <2> QED
    BY <2>1, <2>2, <2>3, <2>4
<1>8. Len(times') <= CmdRate
  BY <1>1, <1>4, LinesAssumption
<1> QED
  BY <1>4, <1>5, <1>6, <1>7, <1>8 DEF Limit

\* A command is refused only when CmdRate have passed in the window, and changes none of it.
LEMMA RefusalKeeps ==
  ASSUME Limit, NEW t \in Nat, now <= t, now' = t,
         ~Allows(Live(times, t)), times' = Live(times, t), passed' = passed
  PROVE  /\ Limit'
         /\ Len(passed) >= CmdRate
         /\ passed[Len(passed) + 1 - CmdRate] > t - CmdWindow
<1> DEFINE L == Live(times, t)
<1>1. /\ L \in Seq(Nat) /\ Len(L) <= Len(times) /\ EndOf(L, passed) /\ OldBefore(L, passed, t)
      /\ Len(L) > 0 => L[1] > t - CmdWindow
  BY PruneKeeps DEF Limit
<1>2. ~(Len(L) < CmdRate)
  BY DEF Allows
<1> HIDE DEF L
<1>3. Len(L) = CmdRate
  BY <1>1, <1>2, LinesAssumption DEF Limit
<1>4. L[1] = passed[Len(passed) + 1 - CmdRate] /\ L[1] > t - CmdWindow /\ Len(passed) >= CmdRate
  <2>1. 1 \in 1..Len(L)
    BY <1>3, LinesAssumption
  <2>2. L[1] = passed[Len(passed) - Len(L) + 1] /\ Len(L) <= Len(passed)
    BY <1>1, <2>1 DEF EndOf
  <2>3. Len(passed) - Len(L) + 1 = Len(passed) + 1 - CmdRate
    BY <1>3, LinesAssumption DEF Limit
  <2> QED
    BY <1>1, <1>3, <2>1, <2>2, <2>3
<1>5. times' = L
  BY DEF L
<1>6. Limit'
  BY <1>1, <1>3, <1>5 DEF Limit
<1> QED
  BY <1>4, <1>6

LEMMA LimitStart == Init => Limit
BY LinesAssumption DEF Init, Limit, EndOf, OldBefore, Spaced

LEMMA LimitStep == Limit /\ [Next]_vars => Limit'
<1> SUFFICES ASSUME Limit, [Next]_vars PROVE Limit'
  OBVIOUS
<1>1. CASE Ask
  <2>1. PICK t \in now..MaxTime :
          /\ now' = t
          /\ \/ /\ Allows(Live(times, t))
                /\ times' = Append(Live(times, t), t)
                /\ passed' = Append(passed, t)
             \/ /\ ~Allows(Live(times, t))
                /\ times' = Live(times, t)
                /\ passed' = passed
    BY <1>1 DEF Ask
  <2>2. t \in Nat /\ now <= t
    BY LinesAssumption DEF Limit
  <2> QED
    BY <2>1, <2>2, PassKeeps, RefusalKeeps
<1>2. ASSUME UNCHANGED <<now, times, passed>> PROVE Limit'
  BY <1>2 DEF Limit
<1>3. Next /\ ~Ask => UNCHANGED <<now, times, passed>>
  <2>1. ASSUME NEW t \in Texts, NEW e \in Endings \cup {<<>>}, Type(t, e)
        PROVE  UNCHANGED <<now, times, passed>>
    BY <2>1 DEF Type
  <2>2. Check \/ Arm \/ Fill \/ Blank \/ HangUp \/ TimeOut \/ Cancel \/ Watch
          => UNCHANGED <<now, times, passed>>
    BY DEF Check, Arm, Fill, Blank, HangUp, TimeOut, Cancel, Watch, Done, history
  <2>3. ReadByte => UNCHANGED <<now, times, passed>>
    BY DEF ReadByte, Skip, Erase, Keep, EndLine, history
  <2> QED
    BY <2>1, <2>2, <2>3 DEF Next, Handler
<1> QED
  BY <1>1, <1>2, <1>3 DEF vars

\* In no window do more commands pass than the limit (limiter.allow).
THEOREM Window == Spec => []Spaced(passed)
<1>1. Limit => Spaced(passed)
  BY DEF Limit
<1> QED
  BY <1>1, LimitStart, LimitStep, PTL DEF Spec

\* While fewer than CmdRate entries are left, the window is not full.
LEMMA RoomLeft ==
  ASSUME Limit, NEW t \in Nat, now <= t, Allows(Live(times, t))
  PROVE  ~Full(t)
<1> DEFINE L == Live(times, t)
<1>1. L \in Seq(Nat) /\ OldBefore(L, passed, t) /\ Len(L) < CmdRate
  BY PruneKeeps DEF Limit, Allows
<1> HIDE DEF L
<1>2. ASSUME Len(passed) >= CmdRate
      PROVE  passed[Len(passed) + 1 - CmdRate] <= t - CmdWindow
  <2>1. Len(passed) \in Nat /\ Len(L) \in Nat
    BY <1>1 DEF Limit
  <2>2. Len(passed) + 1 - CmdRate \in 1..(Len(passed) - Len(L))
    BY <1>1, <1>2, <2>1, LinesAssumption
  <2> QED
    BY <1>1, <2>2 DEF OldBefore
<1>3. SUFFICES ASSUME Full(t) PROVE FALSE
  OBVIOUS
<1>4. /\ passed[Len(passed) + 1 - CmdRate] <= t - CmdWindow
      /\ passed[Len(passed) + 1 - CmdRate] > t - CmdWindow
      /\ Len(passed) + 1 - CmdRate \in 1..Len(passed)
  BY <1>2, <1>3, LinesAssumption DEF Full, Limit
<1>5. passed[Len(passed) + 1 - CmdRate] \in Nat
  BY <1>4 DEF Limit
<1> QED
  BY <1>4, <1>5, LinesAssumption

\* A command passes when the limit has room and is refused when it has none
\* (limiter.allow, telnet.go commands).
THEOREM Exact == Spec => WindowExact
<1> DEFINE Fair == heard' # heard => (passed' = passed <=> Full(now'))
<1>1. Limit /\ [Next]_vars => [Fair]_vars
  <2> SUFFICES ASSUME Limit, Next, heard' # heard PROVE Fair
    OBVIOUS
  <2>1. Ask
    <3>1. ASSUME NEW t \in Texts, NEW e \in Endings \cup {<<>>}, Type(t, e)
          PROVE  heard' = heard
      BY <3>1 DEF Type
    <3>2. Check \/ Arm \/ Fill \/ Blank \/ HangUp \/ TimeOut \/ Cancel \/ Watch => heard' = heard
      BY DEF Check, Arm, Fill, Blank, HangUp, TimeOut, Cancel, Watch, Done, history
    <3>3. ReadByte => heard' = heard
      BY DEF ReadByte, Skip, Erase, Keep, EndLine, history
    <3> QED
      BY <3>1, <3>2, <3>3 DEF Next, Handler
  <2>2. PICK t \in now..MaxTime :
          /\ now' = t
          /\ \/ Allows(Live(times, t)) /\ passed' = Append(passed, t)
             \/ ~Allows(Live(times, t)) /\ times' = Live(times, t) /\ passed' = passed
    BY <2>1 DEF Ask
  <2>3. t \in Nat /\ now <= t
    BY LinesAssumption DEF Limit
  <2>4. CASE Allows(Live(times, t))
    <3>1. passed' = Append(passed, t) /\ passed' # passed
      BY <2>2, <2>3, <2>4 DEF Limit
    <3> QED
      BY <2>2, <2>3, <2>4, <3>1, RoomLeft
  <2>5. CASE ~Allows(Live(times, t))
    BY <2>2, <2>3, <2>5, RefusalKeeps DEF Full
  <2> QED
    BY <2>4, <2>5
<1> QED
  BY <1>1, LimitStart, LimitStep, PTL DEF Spec, WindowExact

-----------------------------------------------------------------------------
(* After the server's stop one line more is read, then the loop ends.       *)

Stopping ==
  /\ late \in {0, 1}
  /\ late = 1 => stop # "running" /\ pc \in {"top", "done"}

\* A stopping server waits for one command line of each client at most
\* (telnet.go:338, the check before each read).
THEOREM LastLine == Spec => []OneLineMore
<1>1. Init => Stopping
  BY DEF Init, Stopping
<1>2. Stopping /\ [Next]_vars => Stopping'
  <2> SUFFICES ASSUME Stopping, [Next]_vars PROVE Stopping'
    OBVIOUS
  <2>1. ASSUME NEW t \in Texts, NEW e \in Endings \cup {<<>>}, Type(t, e)
        PROVE  Stopping'
    BY <2>1 DEF Type, Stopping, server
  <2>2. CASE Check \/ Arm
    BY <2>2 DEF Check, Arm, Stopping, server, history
  <2>3. CASE Fill \/ ReadByte
    <3>1. pc = "read" /\ late' = late
      BY <2>3 DEF Fill, ReadByte, Skip, Erase, Keep, EndLine, Reads, history
    <3> QED
      BY <3>1 DEF Stopping
  <2>4. CASE Blank
    BY <2>4 DEF Blank, LineRead, Stopping, server
  <2>5. CASE Ask
    <3>1. pc = "act" /\ pc' \in {"top", "done"} /\ LineRead /\ stop' = stop
      BY <2>5 DEF Ask, server
    <3>2. late = 0
      BY <3>1 DEF Stopping
    <3>3. late' = IF stop = "running" THEN 0 ELSE 1
      BY <3>1, <3>2 DEF LineRead
    <3> QED
      BY <3>1, <3>3 DEF Stopping
  <2>6. CASE HangUp \/ TimeOut
    BY <2>6 DEF HangUp, TimeOut, Done, Stopping, server, history
  <2>7. CASE Cancel \/ Watch
    BY <2>7 DEF Cancel, Watch, Stopping, history
  <2>8. CASE UNCHANGED vars
    BY <2>8 DEF vars, Stopping
  <2> QED
    BY <2>1, <2>2, <2>3, <2>4, <2>5, <2>6, <2>7, <2>8 DEF Next, Handler
<1>3. Stopping => OneLineMore
  BY DEF Stopping, OneLineMore
<1> QED
  BY <1>1, <1>2, <1>3, PTL DEF Spec

-----------------------------------------------------------------------------
(* Types. *)

\* A record of earlier times is one of later times too.
LEMMA LaterTimes ==
  ASSUME NEW s \in Nat, NEW t \in Nat, s <= t, NEW q \in Seq(0..s)
  PROVE  q \in Seq(0..t)
<1>1. 0..s \subseteq 0..t
  OBVIOUS
<1>2. q \in [1..Len(q) -> 0..s] /\ Len(q) \in Nat
  OBVIOUS
<1>3. q \in [1..Len(q) -> 0..t]
  BY <1>1, <1>2
<1> QED BY <1>2, <1>3

LEMMA AppendTyped ==
  ASSUME NEW S, NEW q \in Seq(S), NEW x \in S
  PROVE  Append(q, x) \in Seq(S)
OBVIOUS

LEMMA LiveTyped ==
  ASSUME NEW t \in Nat, NEW q \in Seq(0..t)
  PROVE  Live(q, t) \in Seq(0..t)
<1>1. q \in Seq(Nat) /\ Len(q) \in Nat
  OBVIOUS
<1>2. PICK n \in 0..Len(q) : Live(q, t) = SubSeq(q, n + 1, Len(q))
  BY <1>1, LiveIs
<1>3. SubSeq(q, n + 1, Len(q)) \in Seq(0..t)
  BY <1>1
<1> QED BY <1>2, <1>3

\* The client's packets arrive as bytes.
LEMMA TypeTyped ==
  ASSUME TypeOK, NEW t \in Texts, NEW e \in Endings \cup {<<>>}, Type(t, e)
  PROVE  TypeOK'
<1>1. t.keys \in Seq(Bytes) /\ t.line \in Seq(Chars)
  BY LinesAssumption
<1>2. e \in Seq(Bytes)
  <2>1. {"CR", "LF", "NUL"} \subseteq Bytes
    BY DEF Bytes, Controls
  <2>2. \A x, y \in Bytes : <<x>> \in Seq(Bytes) /\ <<x, y>> \in Seq(Bytes) /\ <<>> \in Seq(Bytes)
    OBVIOUS
  <2>3. e \in {<<"CR", "LF">>, <<"LF">>, <<"CR">>, <<"CR", "NUL">>, <<>>}
    BY DEF Endings
  <2> QED BY <2>1, <2>2, <2>3
<1>3. wire' \in Seq(Bytes) /\ silent' \in BOOLEAN
  BY <1>1, <1>2 DEF Type, TypeOK
<1>4. typed' \in Seq(Seq(Chars)) /\ empties' \in Nat
  <2>1. typed \in Seq(Seq(Chars)) /\ empties \in Nat
    BY DEF TypeOK
  <2>2. \/ empties' = empties + 1 /\ typed' = typed
        \/ typed' = Append(typed, t.line) /\ empties' = empties
    BY DEF Type
  <2>3. Append(typed, t.line) \in Seq(Seq(Chars))
    BY <1>1, <2>1, AppendTyped
  <2>4. empties' \in Nat
    BY <2>1, <2>2
  <2>5. typed' \in Seq(Seq(Chars))
    BY <2>1, <2>2, <2>3, Zenon
  <2> QED BY <2>4, <2>5
<1>5. UNCHANGED <<buf, filt, line, over, pc, times, now, deadline, stop, heard, passed, blanks, lone, late>>
  BY DEF Type, reading, server
<1> QED BY <1>3, <1>4, <1>5 DEF TypeOK

LEMMA FillTyped ==
  ASSUME TypeOK, Fill
  PROVE  TypeOK'
<1>1. PICK n \in 1..MaxPacket :
        n <= Len(wire) /\ buf' = SubSeq(wire, 1, n) /\ wire' = SubSeq(wire, n + 1, Len(wire))
  BY DEF Fill
<1>2. wire \in Seq(Bytes) /\ Len(wire) \in Nat /\ n \in Nat /\ n >= 1
  BY LinesAssumption DEF TypeOK
<1>3. buf' \in Seq(Bytes) /\ wire' \in Seq(Bytes)
  BY <1>1, <1>2
<1> QED BY <1>3 DEF Fill, TypeOK, reading, server, history

\* Reading a byte keeps the line within its limit.
LEMMA ReadTyped ==
  ASSUME TypeOK, ReadByte
  PROVE  TypeOK'
<1>1. buf \in Seq(Bytes) /\ line \in Seq(Chars) /\ Len(line) \in Nat /\ Len(line) <= MaxLine /\ MaxLine \in Nat
  BY LinesAssumption DEF TypeOK
<1>2. buf # <<>> => Tail(buf) \in Seq(Bytes)
  BY <1>1
<1>3. CASE Skip
  <2>1. filt' \in {"text", "iac", "option", "sub", "subIac"}
    BY <1>3 DEF Skip, Filtered, TypeOK
  <2>2. buf' \in Seq(Bytes)
    BY <1>2, <1>3 DEF Skip
  <2> QED BY <1>3, <2>1, <2>2 DEF Skip, TypeOK, server, history
<1>4. CASE Erase
  <2>1. line # <<>> => Front(line) \in Seq(Chars) /\ Len(Front(line)) <= MaxLine
    BY <1>1 DEF Front
  <2>2. line' \in Seq(Chars) /\ Len(line') <= MaxLine
    BY <1>1, <1>4, <2>1 DEF Erase
  <2>3. buf' \in Seq(Bytes)
    BY <1>2, <1>4 DEF Erase, Reads
  <2> QED BY <1>4, <2>2, <2>3 DEF Erase, TypeOK, server, history
<1>5. CASE Keep
  <2>1. PICK b \in Chars \cup Controls :
          /\ over' = (over \/ (b \in Chars /\ Len(line) >= MaxLine))
          /\ line' = IF over' \/ b \in Controls THEN line ELSE Append(line, b)
    BY <1>5 DEF Keep
  <2>2. ~over' /\ b \notin Controls => b \in Chars /\ Len(line) < MaxLine
    <3>1. ~over' => ~(b \in Chars /\ Len(line) >= MaxLine)
      BY <2>1, Zenon
    <3>2. b \notin Controls => b \in Chars
      BY <2>1
    <3> QED BY <1>1, <3>1, <3>2
  <2>3. b \in Chars => Append(line, b) \in Seq(Chars) /\ Len(Append(line, b)) = Len(line) + 1
    BY <1>1
  <2>4. line' \in Seq(Chars) /\ Len(line') <= MaxLine
    BY <1>1, <2>1, <2>2, <2>3
  <2>5. over' \in BOOLEAN
    BY <2>1 DEF TypeOK
  <2>6. buf' \in Seq(Bytes)
    BY <1>2, <1>5 DEF Keep, Reads
  <2> QED BY <1>5, <2>4, <2>5, <2>6 DEF Keep, TypeOK, server, history
<1>6. CASE EndLine
  <2>1. PICK b \in {"CR", "LF"} :
          /\ Reads(b) /\ buf' = EndsWith(b, Tail(buf))
          /\ lone' = IF b = "CR" /\ Tail(buf) = <<>> THEN lone + 1 ELSE lone
    BY <1>6 DEF EndLine
  <2>2. buf' \in Seq(Bytes)
    <3>1. Tail(buf) \in Seq(Bytes)
      BY <1>2, <2>1 DEF Reads
    <3>2. Tail(buf) # <<>> => Tail(Tail(buf)) \in Seq(Bytes)
      BY <3>1
    <3> QED BY <2>1, <3>1, <3>2 DEF EndsWith
  <2>3. line' \in Seq(Chars) /\ Len(line') <= MaxLine
    BY <1>1, <1>6 DEF EndLine
  <2>4. lone' \in Nat
    BY <2>1 DEF TypeOK
  <2> QED BY <1>6, <2>2, <2>3, <2>4 DEF EndLine, TypeOK, server
<1> QED BY <1>3, <1>4, <1>5, <1>6 DEF ReadByte

\* Asking the limiter leaves it a record of times up to now.
LEMMA AskTyped ==
  ASSUME TypeOK, Ask
  PROVE  TypeOK'
<1>1. PICK t \in now..MaxTime :
        /\ now' = t
        /\ \/ /\ times' = Append(Live(times, t), t) /\ passed' = Append(passed, t)
              /\ pc' \in {"top", "done"}
           \/ times' = Live(times, t) /\ pc' = "top" /\ passed' = passed
  BY DEF Ask
<1>2. t \in Nat /\ now \in Nat /\ now <= t /\ t \in 0..t
  BY <1>1, LinesAssumption DEF TypeOK
<1>3. times \in Seq(0..t) /\ passed \in Seq(0..t)
  BY <1>2, LaterTimes DEF TypeOK
<1>4. Live(times, t) \in Seq(0..t)
  BY <1>2, <1>3, LiveTyped
<1> DEFINE T == 0..t
           l == Live(times, t)
<1>5. times' \in Seq(T) /\ passed' \in Seq(T)
  <2>1. l \in Seq(T) /\ passed \in Seq(T) /\ t \in T
    BY <1>2, <1>3, <1>4
  <2>2. times' = Append(l, t) \/ times' = l
    BY <1>1
  <2>3. passed' = Append(passed, t) \/ passed' = passed
    BY <1>1
  <2> HIDE DEF l, T
  <2>4. Append(l, t) \in Seq(T) /\ Append(passed, t) \in Seq(T)
    BY <2>1, AppendTyped
  <2> QED BY <2>1, <2>2, <2>3, <2>4
<1>6. times' \in Seq(0..now') /\ passed' \in Seq(0..now') /\ now' \in Nat /\ pc' \in {"top", "done"}
  BY <1>1, <1>2, <1>5
<1>7. /\ line' = <<>> /\ late' \in Nat /\ heard' \in Seq(Seq(Chars))
      /\ line' \in Seq(Chars) /\ Len(line') <= MaxLine
  BY LinesAssumption DEF Ask, LineRead, TypeOK
<1>8. UNCHANGED <<silent, wire, buf, filt, over, deadline, stop, typed, empties, blanks, lone>>
  BY DEF Ask, input, server
<1> QED BY <1>6, <1>7, <1>8 DEF TypeOK

LEMMA StepTyped ==
  ASSUME TypeOK, [Next]_vars
  PROVE  TypeOK'
<1>1. CASE \E t \in Texts, e \in Endings \cup {<<>>} : Type(t, e)
  BY <1>1, TypeTyped
<1>2. CASE Check \/ Arm
  BY <1>2 DEF Check, Arm, TypeOK, input, reading, server, history
<1>3. CASE Fill
  BY <1>3, FillTyped
<1>4. CASE ReadByte
  BY <1>4, ReadTyped
<1>5. CASE Blank
  <2>1. line' \in Seq(Chars) /\ Len(line') <= MaxLine /\ late' \in Nat /\ blanks' \in Nat
    BY <1>5, LinesAssumption DEF Blank, LineRead, TypeOK
  <2> QED BY <1>5, <2>1 DEF Blank, TypeOK, input, server
<1>6. CASE Ask
  BY <1>6, AskTyped
<1>7. CASE HangUp \/ TimeOut \/ Cancel \/ Watch
  BY <1>7 DEF HangUp, TimeOut, Cancel, Watch, Done, TypeOK, input, reading, server, history
<1>8. CASE UNCHANGED vars
  BY <1>8 DEF vars, TypeOK
<1> QED BY <1>1, <1>2, <1>3, <1>4, <1>5, <1>6, <1>7, <1>8 DEF Next, Handler

LEMMA InitTyped == Init => TypeOK
<1>1. ASSUME NEW S PROVE <<>> \in Seq(S)
  OBVIOUS
<1> SUFFICES ASSUME Init PROVE TypeOK
  OBVIOUS
<1>2. wire \in Seq(Bytes) /\ buf \in Seq(Bytes)
  BY <1>1 DEF Init
<1>3. line \in Seq(Chars) /\ Len(line) <= MaxLine
  BY LinesAssumption, <1>1 DEF Init
<1>4. times \in Seq(0..now) /\ passed \in Seq(0..now)
  BY <1>1 DEF Init
<1>5. typed \in Seq(Seq(Chars)) /\ heard \in Seq(Seq(Chars))
  BY <1>1 DEF Init
<1>6. silent \in BOOLEAN /\ over \in BOOLEAN
  BY DEF Init
<1>7. /\ filt = "text" /\ pc = "top" /\ deadline = "idle" /\ stop = "running"
      /\ now \in Nat /\ empties \in Nat /\ blanks \in Nat /\ lone \in Nat /\ late \in Nat
  BY DEF Init
<1> QED BY <1>2, <1>3, <1>4, <1>5, <1>6, <1>7 DEF TypeOK

\* Every reachable state is well typed: bytes stay bytes through packets and Telnet
\* sequences, no line passes its limit, and the limiter knows no time to come.
THEOREM TypeCorrect == Spec => []TypeOK
<1>1. TypeOK /\ [Next]_vars => TypeOK'
  BY StepTyped
<1> QED BY <1>1, InitTyped, PTL DEF Spec

-----------------------------------------------------------------------------
(* What Typing computes.                                                    *)

\* A set of numbers has a least one.
LEMMA LeastNumber ==
  ASSUME NEW S, S \subseteq Nat, S # {}
  PROVE  \E m \in S : \A i \in S : m <= i
<1>1. PICK m \in S : \A i \in S : <<i, m>> \notin OpToRel(<, Nat)
  BY NatLessThanWellFounded, WFMin
<1>2. \A i \in S : ~(i < m)
  BY <1>1 DEF OpToRel
<1> QED BY <1>2

\* The definition of Typing is one of a function: by induction there is one for each
\* part of the keys.
LEMMA TypingRuns ==
  ASSUME NEW keys \in Seq(Bytes)
  PROVE  /\ Typing(keys)[0] = Fresh
         /\ \A k \in 1..Len(keys) : Typing(keys)[k] = Key(Typing(keys)[k - 1], keys[k])
<1> DEFINE N == Len(keys)
           Runs(g, n) == g = [m \in 0..n |-> IF m = 0 THEN Fresh ELSE Key(g[m - 1], keys[m])]
           Bad == {n \in 0..N : ~\E g : Runs(g, n)}
<1>1. N \in Nat
  OBVIOUS
<1>2. \E g : Runs(g, N)
  <2>1. SUFFICES ASSUME Bad # {} PROVE FALSE
    BY <1>1
  <2>2. PICK m \in Bad : \A i \in Bad : m <= i
    <3>1. Bad \subseteq Nat
      OBVIOUS
    <3> HIDE DEF Bad
    <3> QED BY <2>1, <3>1, LeastNumber
  <2>3. CASE m = 0
    <3>1. Runs([k \in 0..0 |-> Fresh], 0)
      OBVIOUS
    <3> QED BY <2>2, <2>3, <3>1
  <2>4. CASE m # 0
    <3>1. m - 1 \in 0..N /\ m \in Nat /\ m - 1 \notin Bad
      <4>1. m \in 0..N
        BY <2>2
      <4>2. m - 1 \in 0..N /\ m \in Nat /\ ~(m <= m - 1)
        BY <1>1, <2>4, <4>1
      <4> HIDE DEF Bad
      <4> QED BY <2>2, <4>2
    <3>2. PICK g : Runs(g, m - 1)
      BY <3>1
    <3> DEFINE h == [k \in 0..m |-> IF k = m THEN Key(g[m - 1], keys[m]) ELSE g[k]]
    <3>3. \A k \in 0..(m - 1) : h[k] = g[k]
      BY <3>1
    <3>4. \A k \in 0..m : h[k] = IF k = 0 THEN Fresh ELSE Key(h[k - 1], keys[k])
      <4> SUFFICES ASSUME NEW k \in 0..m PROVE h[k] = IF k = 0 THEN Fresh ELSE Key(h[k - 1], keys[k])
        OBVIOUS
      <4>1. CASE k = m
        <5>1. h[k] = Key(g[m - 1], keys[m]) /\ h[m - 1] = g[m - 1]
          BY <3>1, <3>3, <4>1
        <5> QED BY <2>4, <4>1, <5>1
      <4>2. CASE k # m
        <5>1. k \in 0..(m - 1) /\ (k # 0 => k - 1 \in 0..(m - 1))
          BY <3>1, <4>2
        <5>2. g[k] = IF k = 0 THEN Fresh ELSE Key(g[k - 1], keys[k])
          BY <3>2, <5>1
        <5> QED BY <3>3, <5>1, <5>2
      <4> QED BY <4>1, <4>2
    <3>5. h = [k \in 0..m |-> IF k = 0 THEN Fresh ELSE Key(h[k - 1], keys[k])]
      BY <3>4
    <3>6. Runs(h, m)
      BY <3>5
    <3> QED BY <2>2, <3>6
  <2> QED BY <2>3, <2>4
<1>3. Typing(keys) = CHOOSE g : Runs(g, N)
  BY DEF Typing
<1>4. Runs(Typing(keys), N)
  BY <1>2, <1>3
<1>5. \A k \in 0..N : Typing(keys)[k] = IF k = 0 THEN Fresh ELSE Key(Typing(keys)[k - 1], keys[k])
  BY <1>4
<1> QED BY <1>1, <1>5

-----------------------------------------------------------------------------
(* Where a client's bytes lead.  A place is what the keys before it made:    *)
(* the line so far, the lines said, the empty ones, and whether the last     *)
(* byte was a CR, whose LF adds nothing.                                     *)

AllLines == Seq(Chars)

KeyStates == [filt : {"text", "iac", "option", "sub", "subIac"}, line : AllLines, over : BOOLEAN]

Places == [key : KeyStates, said : Seq(AllLines), empty : Nat, cr : BOOLEAN]

Feed(p, b) ==
  IF p.key.filt = "text" /\ b \in {"CR", "LF"}
  THEN IF b = "LF" /\ p.cr THEN [key |-> p.key, said |-> p.said, empty |-> p.empty, cr |-> FALSE]
       ELSE [key |-> Fresh,
             said |-> IF Finished(p.key) = <<>> THEN p.said ELSE Append(p.said, Finished(p.key)),
             empty |-> IF Finished(p.key) = <<>> THEN p.empty + 1 ELSE p.empty,
             cr |-> b = "CR"]
  ELSE [key |-> Key(p.key, b), said |-> p.said, empty |-> p.empty, cr |-> FALSE]

Begins(s, t) == Len(s) <= Len(t) /\ \A i \in 1..Len(s) : s[i] = t[i]

Within(p, ty, em) == Begins(p.said, ty) /\ p.empty <= em

Follows(path, bytes, ty, em) ==
  /\ path \in [0..Len(bytes) -> Places]
  /\ \A i \in 1..Len(bytes) : path[i] = Feed(path[i - 1], bytes[i])
  /\ \A i \in 0..Len(bytes) : Within(path[i], ty, em)

\* From p the bytes lead to e, never past the lines typed.
Leads(p, bytes, e, ty, em) ==
  \E path : Follows(path, bytes, ty, em) /\ path[0] = p /\ path[Len(bytes)] = e

LEMMA KeyTyped ==
  ASSUME NEW p \in Places, NEW b \in Bytes
  PROVE  Key(p.key, b) \in KeyStates
<1> DEFINE s == p.key
<1>1. s.filt \in {"text", "iac", "option", "sub", "subIac"} /\ s.line \in Seq(Chars) /\ s.over \in BOOLEAN
  BY DEF Places, KeyStates, AllLines
<1> HIDE DEF s
<1>2. Filtered(s.filt, b) \in {"text", "iac", "option", "sub", "subIac"}
  BY <1>1 DEF Filtered
<1>3. b \in Chars => Append(s.line, b) \in Seq(Chars)
  BY <1>1
<1>4. s.line # <<>> => Front(s.line) \in Seq(Chars)
  BY <1>1 DEF Front
<1>5. (s.over \/ (s.filt = "text" /\ b # "IAC" /\ b \in Chars /\ Len(s.line) >= MaxLine)) \in BOOLEAN
  OBVIOUS
<1>6. Key(s, b) \in [filt : {"text", "iac", "option", "sub", "subIac"},
                   line : Seq(Chars), over : BOOLEAN]
  BY <1>1, <1>2, <1>3, <1>4, <1>5 DEF Key
<1> QED BY <1>6 DEF s, KeyStates, AllLines

LEMMA FinishedTyped ==
  ASSUME NEW p \in Places
  PROVE  Finished(p.key) \in AllLines
<1>1. p.key.line \in Seq(Chars)
  BY DEF Places, KeyStates, AllLines
<1> QED BY <1>1 DEF Finished, AllLines

LEMMA FreshTyped == Fresh \in KeyStates
<1>1. <<>> \in AllLines
  BY DEF AllLines
<1> QED BY <1>1 DEF Fresh, KeyStates

LEMMA FeedTyped ==
  ASSUME NEW p \in Places, NEW b \in Bytes
  PROVE  Feed(p, b) \in Places
<1>1. /\ p.key \in KeyStates
      /\ p.said \in Seq(AllLines) /\ p.empty \in Nat /\ p.cr \in BOOLEAN
  BY DEF Places
<1> DEFINE f == Finished(p.key)
           said == IF f = <<>> THEN p.said ELSE Append(p.said, f)
           empty == IF f = <<>> THEN p.empty + 1 ELSE p.empty
<1>2. f \in AllLines
  BY FinishedTyped
<1> HIDE DEF f
<1>3. said \in Seq(AllLines) /\ empty \in Nat
  BY <1>1, <1>2
<1> HIDE DEF said, empty
<1>4. [key |-> Fresh, said |-> said, empty |-> empty, cr |-> b = "CR"] \in Places
  BY <1>3, FreshTyped DEF Places
<1>5. [key |-> p.key, said |-> p.said, empty |-> p.empty, cr |-> FALSE] \in Places
  BY <1>1 DEF Places
<1>6. [key |-> Key(p.key, b), said |-> p.said, empty |-> p.empty, cr |-> FALSE] \in Places
  BY <1>1, KeyTyped DEF Places
<1> QED BY <1>4, <1>5, <1>6 DEF Feed, said, empty, f

LEMMA LeadsNowhere ==
  ASSUME NEW ty, NEW em, NEW p \in Places, Within(p, ty, em)
  PROVE  Leads(p, <<>>, p, ty, em)
<1> DEFINE path == [i \in 0..0 |-> p]
<1>1. Follows(path, <<>>, ty, em) /\ path[0] = p
  BY DEF Follows
<1> QED BY <1>1 DEF Leads

LEMMA LeadsByte ==
  ASSUME NEW ty, NEW em, NEW p \in Places, NEW b \in Bytes, Within(p, ty, em), Within(Feed(p, b), ty, em)
  PROVE  Leads(p, <<b>>, Feed(p, b), ty, em)
<1> DEFINE q == Feed(p, b)
           path == [i \in 0..1 |-> IF i = 0 THEN p ELSE q]
<1>1. q \in Places
  BY FeedTyped
<1> HIDE DEF q
<1>2. Len(<<b>>) = 1 /\ <<b>>[1] = b
  OBVIOUS
<1>3. path \in [0..1 -> Places] /\ path[0] = p /\ path[1] = q
  BY <1>1
<1>4. \A i \in 1..1 : path[i] = Feed(path[i - 1], <<b>>[i])
  BY <1>2, <1>3 DEF q
<1>5. \A i \in 0..1 : Within(path[i], ty, em)
  BY <1>3 DEF q
<1> HIDE DEF path
<1>6. Follows(path, <<b>>, ty, em)
  BY <1>2, <1>3, <1>4, <1>5 DEF Follows
<1> QED BY <1>2, <1>3, <1>6 DEF Leads, q

LEMMA LeadsOn ==
  ASSUME NEW ty, NEW em, NEW p, NEW e, NEW s \in Seq(Bytes), s # <<>>, Leads(p, s, e, ty, em)
  PROVE  Leads(Feed(p, Head(s)), Tail(s), e, ty, em) /\ Feed(p, Head(s)) \in Places
         /\ Within(Feed(p, Head(s)), ty, em)
<1>1. PICK path : Follows(path, s, ty, em) /\ path[0] = p /\ path[Len(s)] = e
  BY DEF Leads
<1> DEFINE n == Len(s) - 1
           rest == [i \in 0..n |-> path[i + 1]]
<1>2. n \in Nat /\ Len(s) = n + 1 /\ Len(Tail(s)) = n /\ Head(s) = s[1] /\ \A i \in 1..n : Tail(s)[i] = s[i + 1]
  BY HeadTailProperties
<1>3. /\ path \in [0..Len(s) -> Places]
      /\ \A i \in 1..Len(s) : path[i] = Feed(path[i - 1], s[i])
      /\ \A i \in 0..Len(s) : Within(path[i], ty, em)
  BY <1>1 DEF Follows
<1> HIDE DEF n
<1>4. \A i \in 0..n : rest[i] = path[i + 1] /\ i + 1 \in 0..Len(s) /\ i + 1 \in 1..Len(s)
  BY <1>2
<1>5. rest \in [0..n -> Places]
  BY <1>3, <1>4
<1>6. \A i \in 0..n : Within(rest[i], ty, em)
  BY <1>3, <1>4
<1>7. \A i \in 1..n : rest[i] = Feed(rest[i - 1], Tail(s)[i])
  <2> SUFFICES ASSUME NEW i \in 1..n PROVE rest[i] = Feed(rest[i - 1], Tail(s)[i])
    OBVIOUS
  <2>1. rest[i] = path[i + 1] /\ rest[i - 1] = path[i] /\ i + 1 \in 1..Len(s) /\ Tail(s)[i] = s[i + 1]
    BY <1>2
  <2>2. path[i + 1] = Feed(path[(i + 1) - 1], s[i + 1])
    BY <1>3, <2>1
  <2>3. (i + 1) - 1 = i
    BY <1>2
  <2> QED BY <2>1, <2>2, <2>3
<1>8. rest[0] = Feed(p, Head(s)) /\ rest[n] = e
  <2>1. 1 \in 1..Len(s) /\ 0 \in 0..n /\ n \in 0..n
    BY <1>2
  <2>2. path[1] = Feed(path[1 - 1], s[1])
    BY <1>3, <2>1
  <2> QED BY <1>1, <1>2, <2>1, <2>2
<1> HIDE DEF rest
<1>9. 0 \in 0..n
  BY <1>2
<1>10. Feed(p, Head(s)) \in Places /\ Within(Feed(p, Head(s)), ty, em)
  BY <1>5, <1>6, <1>8, <1>9
<1>11. Follows(rest, Tail(s), ty, em)
  BY <1>2, <1>5, <1>6, <1>7 DEF Follows
<1> QED BY <1>2, <1>8, <1>10, <1>11 DEF Leads

LEMMA LeadsFurther ==
  ASSUME NEW ty, NEW em, NEW p, NEW q, NEW e, NEW s \in Seq(Bytes), NEW t \in Seq(Bytes),
         Leads(p, s, q, ty, em), Leads(q, t, e, ty, em)
  PROVE  Leads(p, s \o t, e, ty, em)
<1>1. PICK f : Follows(f, s, ty, em) /\ f[0] = p /\ f[Len(s)] = q
  BY DEF Leads
<1>2. PICK g : Follows(g, t, ty, em) /\ g[0] = q /\ g[Len(t)] = e
  BY DEF Leads
<1> DEFINE n == Len(s)
           m == Len(t)
           u == s \o t
           path == [i \in 0..(n + m) |-> IF i <= n THEN f[i] ELSE g[i - n]]
<1>3. /\ n \in Nat /\ m \in Nat /\ Len(u) = n + m
      /\ \A i \in 1..(n + m) : u[i] = IF i <= n THEN s[i] ELSE t[i - n]
  BY ConcatProperties
<1>4. /\ f \in [0..n -> Places] /\ g \in [0..m -> Places]
      /\ \A i \in 1..n : f[i] = Feed(f[i - 1], s[i])
      /\ \A i \in 1..m : g[i] = Feed(g[i - 1], t[i])
      /\ \A i \in 0..n : Within(f[i], ty, em)
      /\ \A i \in 0..m : Within(g[i], ty, em)
  BY <1>1, <1>2 DEF Follows
<1>5. f[n] = g[0] /\ f[0] = p /\ g[m] = e
  BY <1>1, <1>2
<1> HIDE DEF n, m, u
<1>6. /\ \A i \in 0..(n + m) : path[i] = IF i <= n THEN f[i] ELSE g[i - n]
      /\ \A i \in 0..(n + m) : i >= n => path[i] = g[i - n]
      /\ \A i \in 0..(n + m) : i <= n => path[i] = f[i]
  BY <1>3, <1>5
<1>7. path \in [0..(n + m) -> Places]
  BY <1>3, <1>4
<1> HIDE DEF path
<1>8. \A i \in 0..(n + m) : Within(path[i], ty, em)
  <2> SUFFICES ASSUME NEW i \in 0..(n + m) PROVE Within(path[i], ty, em)
    OBVIOUS
  <2>1. CASE i <= n
    BY <1>3, <1>4, <1>6, <2>1
  <2>2. CASE i > n
    <3>1. i - n \in 0..m
      BY <1>3, <2>2
    <3> QED BY <1>3, <1>4, <1>6, <2>2, <3>1
  <2> QED BY <1>3, <2>1, <2>2
<1>9. \A i \in 1..(n + m) : path[i] = Feed(path[i - 1], u[i])
  <2> SUFFICES ASSUME NEW i \in 1..(n + m) PROVE path[i] = Feed(path[i - 1], u[i])
    OBVIOUS
  <2>1. CASE i <= n
    <3>1. i \in 1..n /\ i - 1 \in 0..(n + m) /\ i \in 0..(n + m) /\ i - 1 <= n
      BY <1>3, <2>1
    <3>2. path[i] = f[i] /\ path[i - 1] = f[i - 1] /\ u[i] = s[i]
      BY <1>3, <1>6, <2>1, <3>1
    <3> QED BY <1>4, <3>1, <3>2
  <2>2. CASE i > n
    <3>1. i - n \in 1..m /\ i - 1 \in 0..(n + m) /\ i \in 0..(n + m) /\ i - 1 >= n /\ i >= n
          /\ (i - 1) - n = (i - n) - 1
      BY <1>3, <2>2
    <3>2. path[i] = g[i - n] /\ path[i - 1] = g[(i - n) - 1] /\ u[i] = t[i - n]
      BY <1>3, <1>6, <2>2, <3>1
    <3> QED BY <1>4, <3>1, <3>2
  <2> QED BY <1>3, <2>1, <2>2
<1>10. path[0] = p /\ path[n + m] = e
  <2>1. 0 \in 0..(n + m) /\ 0 <= n /\ n + m \in 0..(n + m) /\ n + m >= n /\ (n + m) - n = m
    BY <1>3
  <2> QED BY <1>5, <1>6, <2>1
<1>11. Follows(path, u, ty, em)
  BY <1>3, <1>7, <1>8, <1>9 DEF Follows
<1>12. Leads(p, u, e, ty, em)
  BY <1>3, <1>10, <1>11 DEF Leads
<1> QED BY <1>12 DEF u

\* What lies within the lines typed lies within more of them.
LEMMA LeadsLater ==
  ASSUME NEW p, NEW e, NEW s \in Seq(Bytes),
         NEW ty \in Seq(AllLines), NEW em \in Nat, NEW ty2 \in Seq(AllLines), NEW em2 \in Nat,
         Begins(ty, ty2), em <= em2, Leads(p, s, e, ty, em)
  PROVE  Leads(p, s, e, ty2, em2)
<1>1. PICK f : Follows(f, s, ty, em) /\ f[0] = p /\ f[Len(s)] = e
  BY DEF Leads
<1>2. \A q \in Places : Within(q, ty, em) => Within(q, ty2, em2)
  <2> SUFFICES ASSUME NEW q \in Places, Within(q, ty, em) PROVE Within(q, ty2, em2)
    OBVIOUS
  <2>1. q.said \in Seq(AllLines) /\ q.empty \in Nat
    BY DEF Places
  <2>2. Begins(q.said, ty) /\ q.empty <= em
    BY DEF Within
  <2>3. Begins(q.said, ty2)
    BY <2>1, <2>2 DEF Begins
  <2>4. q.empty <= em2
    BY <2>1, <2>2
  <2> QED BY <2>3, <2>4 DEF Within
<1>3. Follows(f, s, ty2, em2)
  <2>1. /\ f \in [0..Len(s) -> Places]
        /\ \A i \in 1..Len(s) : f[i] = Feed(f[i - 1], s[i])
        /\ \A i \in 0..Len(s) : Within(f[i], ty, em)
    BY <1>1 DEF Follows
  <2>2. \A i \in 0..Len(s) : Within(f[i], ty2, em2)
    BY <1>2, <2>1
  <2> QED BY <2>1, <2>2 DEF Follows
<1> QED BY <1>1, <1>3 DEF Leads

\* In a line's keys nothing is said: the place moves along Typing.
LEMMA LeadsKeys ==
  ASSUME NEW ty, NEW em, NEW t \in Texts, NEW p \in Places, p.key = Fresh, Within(p, ty, em)
  PROVE  LET n == Len(t.keys)  s == Typing(t.keys) IN
         /\ s[n] \in KeyStates
         /\ Leads(p, t.keys,
                  [key |-> s[n], said |-> p.said, empty |-> p.empty, cr |-> p.cr /\ n = 0], ty, em)
<1> DEFINE keys == t.keys
           n == Len(keys)
           s == Typing(keys)
           path == [i \in 0..n |-> [key |-> s[i], said |-> p.said, empty |-> p.empty, cr |-> p.cr /\ i = 0]]
<1>1. keys \in Seq(Bytes) /\ n \in Nat
  BY LinesAssumption
<1>2. s[0] = Fresh /\ \A k \in 1..n : s[k] = Key(s[k - 1], keys[k])
  BY <1>1, TypingRuns
<1>3. \A k \in 1..n : s[k - 1].filt = "text" => keys[k] \in Plain
  BY TextsAssumption
<1>4. p.said \in Seq(AllLines) /\ p.empty \in Nat /\ p.cr \in BOOLEAN
  BY DEF Places
<1> HIDE DEF s, n
<1>5. \A i \in 0..n : s[i] \in KeyStates
  <2> DEFINE Bad == {i \in 0..n : s[i] \notin KeyStates}
  <2>1. SUFFICES ASSUME Bad # {} PROVE FALSE
    OBVIOUS
  <2>2. PICK m \in Bad : \A i \in Bad : m <= i
    <3>1. Bad \subseteq Nat
      OBVIOUS
    <3> HIDE DEF Bad
    <3> QED BY <2>1, <3>1, LeastNumber
  <2>3. m \in 0..n /\ s[m] \notin KeyStates
    BY <2>2
  <2>4. m # 0
    BY <1>2, <2>3, FreshTyped
  <2>5. m - 1 \in 0..n /\ ~(m <= m - 1) /\ m \in 1..n
    BY <1>1, <2>3, <2>4
  <2>6. s[m - 1] \in KeyStates
    <3>1. m - 1 \notin Bad
      <4> HIDE DEF Bad
      <4> QED BY <2>2, <2>5
    <3> QED BY <2>5, <3>1
  <2>7. keys[m] \in Bytes
    BY <1>1, <2>5 DEF n
  <2> DEFINE q == [key |-> s[m - 1], said |-> p.said, empty |-> p.empty, cr |-> p.cr]
  <2>8. q \in Places /\ q.key = s[m - 1]
    BY <1>4, <2>6 DEF Places
  <2> HIDE DEF q
  <2>9. Key(s[m - 1], keys[m]) \in KeyStates
    BY <2>7, <2>8, KeyTyped
  <2> QED BY <1>2, <2>3, <2>5, <2>9
<1>6. path \in [0..n -> Places]
  <2> SUFFICES ASSUME NEW i \in 0..n
               PROVE [key |-> s[i], said |-> p.said, empty |-> p.empty, cr |-> p.cr /\ i = 0] \in Places
    OBVIOUS
  <2>1. (p.cr /\ i = 0) \in BOOLEAN
    OBVIOUS
  <2> QED BY <1>4, <1>5, <2>1 DEF Places
<1>7. \A i \in 0..n : Within(path[i], ty, em)
  BY DEF Within
<1>8. \A i \in 1..n : path[i] = Feed(path[i - 1], keys[i])
  <2> SUFFICES ASSUME NEW i \in 1..n PROVE path[i] = Feed(path[i - 1], keys[i])
    OBVIOUS
  <2> DEFINE q == path[i - 1]
  <2>1. i - 1 \in 0..n /\ i \in 0..n /\ i # 0
    BY <1>1
  <2>2. q.key = s[i - 1] /\ q.said = p.said /\ q.empty = p.empty
    BY <2>1
  <2>3. path[i] = [key |-> Key(s[i - 1], keys[i]), said |-> p.said, empty |-> p.empty, cr |-> FALSE]
    BY <1>2, <2>1
  <2> HIDE DEF path, q
  <2>4. ~(q.key.filt = "text" /\ keys[i] \in {"CR", "LF"})
    BY <1>3, <2>2 DEF Plain, Chars, Controls
  <2>5. Feed(q, keys[i]) = [key |-> Key(s[i - 1], keys[i]), said |-> p.said, empty |-> p.empty, cr |-> FALSE]
    BY <2>2, <2>4 DEF Feed
  <2> QED BY <2>3, <2>5 DEF q
<1>9. path[0] = p
  <2>1. path[0] = [key |-> Fresh, said |-> p.said, empty |-> p.empty, cr |-> p.cr]
    BY <1>1, <1>2, <1>4
  <2>2. p = [key |-> p.key, said |-> p.said, empty |-> p.empty, cr |-> p.cr]
    BY DEF Places
  <2> QED BY <2>1, <2>2
<1>10. path[n] = [key |-> s[n], said |-> p.said, empty |-> p.empty, cr |-> p.cr /\ n = 0]
  BY <1>1
<1> HIDE DEF path
<1>11. Follows(path, keys, ty, em)
  BY <1>6, <1>7, <1>8 DEF Follows, n
<1>12. Leads(p, keys, [key |-> s[n], said |-> p.said, empty |-> p.empty, cr |-> p.cr /\ n = 0], ty, em)
  BY <1>9, <1>10, <1>11 DEF Leads, n
<1>13. s[n] \in KeyStates
  BY <1>1, <1>5
<1> QED BY <1>12, <1>13 DEF s, n

\* A CR or an LF that is not its CR's says the line.
LEMMA FeedEnd ==
  ASSUME NEW ty, NEW em, NEW q \in Places, NEW b \in {"CR", "LF"}, q.key.filt = "text",
         q.cr => q.key = Fresh,
         Within(q, ty, em),
         IF Finished(q.key) = <<>> THEN q.empty + 1 <= em ELSE Begins(Append(q.said, Finished(q.key)), ty)
  PROVE  LET r == Feed(q, b) IN
         /\ r.key = Fresh /\ Within(r, ty, em)
         /\ r.said = IF Finished(q.key) = <<>> THEN q.said ELSE Append(q.said, Finished(q.key))
<1> DEFINE f == Finished(q.key)
           r == Feed(q, b)
<1>1. CASE b = "LF" /\ q.cr
  <2>1. r = [key |-> q.key, said |-> q.said, empty |-> q.empty, cr |-> FALSE]
    BY <1>1 DEF Feed
  <2>2. q.key = Fresh /\ f = <<>>
    BY <1>1 DEF Finished, Fresh
  <2> HIDE DEF r, f
  <2>3. Within(r, ty, em)
    BY <2>1 DEF Within
  <2> QED BY <2>1, <2>2, <2>3 DEF r, f
<1>2. CASE ~(b = "LF" /\ q.cr)
  <2>1. r = [key |-> Fresh,
             said |-> IF f = <<>> THEN q.said ELSE Append(q.said, f),
             empty |-> IF f = <<>> THEN q.empty + 1 ELSE q.empty,
             cr |-> b = "CR"]
    BY <1>2 DEF Feed
  <2>2. IF f = <<>> THEN q.empty + 1 <= em ELSE Begins(Append(q.said, f), ty)
    OBVIOUS
  <2> HIDE DEF r, f
  <2>3. CASE f = <<>>
    <3>1. r.key = Fresh /\ r.said = q.said /\ r.empty = q.empty + 1
      BY <2>1, <2>3
    <3>2. Within(r, ty, em)
      BY <2>2, <2>3, <3>1 DEF Within
    <3> QED BY <2>3, <3>1, <3>2 DEF r, f
  <2>4. CASE f # <<>>
    <3>1. r.key = Fresh /\ r.said = Append(q.said, f) /\ r.empty = q.empty
      BY <2>1, <2>4
    <3>2. Within(r, ty, em)
      BY <2>2, <2>4, <3>1 DEF Within
    <3> QED BY <2>4, <3>1, <3>2 DEF r, f
  <2> QED BY <2>3, <2>4
<1> QED BY <1>1, <1>2

\* An LF or a NUL after a CR adds nothing.
LEMMA FeedAfterCR ==
  ASSUME NEW r, r.key = Fresh, r.cr = TRUE, NEW c \in {"LF", "NUL"}
  PROVE  LET z == Feed(r, c) IN
         z.key = Fresh /\ z.said = r.said /\ z.empty = r.empty /\ z.cr = FALSE
<1> DEFINE z == Feed(r, c)
<1>1. Fresh.filt = "text" /\ Fresh.over = FALSE /\ Fresh.line = <<>>
  BY DEF Fresh
<1>2. CASE c = "LF"
  <2>1. z = [key |-> r.key, said |-> r.said, empty |-> r.empty, cr |-> FALSE]
    BY <1>1, <1>2 DEF Feed
  <2> HIDE DEF z
  <2>2. z.key = Fresh /\ z.said = r.said /\ z.empty = r.empty /\ z.cr = FALSE
    BY <2>1
  <2> QED BY <2>2 DEF z
<1>3. CASE c = "NUL"
  <2>1. Key(Fresh, "NUL") = [filt |-> "text", over |-> FALSE, line |-> <<>>]
    BY <1>1 DEF Key, Chars, Filtered
  <2>2. z = [key |-> Key(Fresh, "NUL"), said |-> r.said, empty |-> r.empty, cr |-> FALSE]
    BY <1>1, <1>3 DEF Feed
  <2> HIDE DEF z
  <2>3. z.key = Fresh /\ z.said = r.said /\ z.empty = r.empty /\ z.cr = FALSE
    BY <2>1, <2>2 DEF Fresh
  <2> QED BY <2>3 DEF z
<1> QED BY <1>2, <1>3

\* A line ending says the line once, whichever of the four it is.
LEMMA LeadsEnding ==
  ASSUME NEW ty, NEW em, NEW q \in Places, NEW e \in Endings, q.key.filt = "text",
         q.cr => q.key = Fresh,
         Within(q, ty, em),
         IF Finished(q.key) = <<>> THEN q.empty + 1 <= em ELSE Begins(Append(q.said, Finished(q.key)), ty)
  PROVE  \E r \in Places :
           /\ Leads(q, e, r, ty, em)
           /\ r.said = IF Finished(q.key) = <<>> THEN q.said ELSE Append(q.said, Finished(q.key))
           /\ r.key = Fresh
<1> DEFINE said == IF Finished(q.key) = <<>> THEN q.said ELSE Append(q.said, Finished(q.key))
<1>1. {"CR", "LF", "NUL"} \subseteq Bytes
  BY DEF Bytes, Controls
<1>2. ASSUME NEW b \in {"CR", "LF"}
      PROVE  LET r == Feed(q, b) IN
             r \in Places /\ r.key = Fresh /\ Within(r, ty, em) /\ r.said = said /\ Leads(q, <<b>>, r, ty, em)
  <2> DEFINE r == Feed(q, b)
  <2>1. b \in Bytes
    BY <1>1
  <2>2. r.key = Fresh /\ Within(r, ty, em) /\ r.said = said
    BY FeedEnd
  <2>3. r \in Places /\ Leads(q, <<b>>, r, ty, em)
    BY <2>1, <2>2, FeedTyped, LeadsByte
  <2> QED BY <2>2, <2>3
<1> HIDE DEF said
<1>3. CASE e \in {<<"LF">>, <<"CR">>}
  <2>1. PICK b \in {"CR", "LF"} : e = <<b>>
    BY <1>3
  <2> QED BY <1>2, <2>1 DEF said
<1>4. CASE e \in {<<"CR", "LF">>, <<"CR", "NUL">>}
  <2>1. PICK c \in {"LF", "NUL"} : e = <<"CR", c>>
    BY <1>4
  <2>2. c \in Bytes /\ "CR" \in Bytes
    BY <1>1
  <2>3. e = <<"CR">> \o <<c>> /\ <<"CR">> \in Seq(Bytes) /\ <<c>> \in Seq(Bytes)
    BY <2>1, <2>2
  <2> DEFINE r == Feed(q, "CR")
             z == Feed(r, c)
  <2>4. r \in Places /\ r.key = Fresh /\ Within(r, ty, em) /\ r.said = said /\ Leads(q, <<"CR">>, r, ty, em)
    BY <1>2
  <2>5. r.cr = TRUE
    BY DEF Feed
  <2> HIDE DEF r
  <2>6. z.key = Fresh /\ z.said = r.said /\ z.empty = r.empty
    BY <2>4, <2>5, FeedAfterCR
  <2>7. z \in Places
    BY <2>2, <2>4, FeedTyped
  <2> HIDE DEF z
  <2>8. Within(z, ty, em)
    BY <2>4, <2>6 DEF Within
  <2>9. Leads(r, <<c>>, z, ty, em)
    BY <2>2, <2>4, <2>8, LeadsByte DEF z
  <2>10. Leads(q, <<"CR">> \o <<c>>, z, ty, em)
    BY <2>3, <2>4, <2>9, LeadsFurther
  <2>11. Leads(q, e, z, ty, em) /\ z.said = said
    BY <2>3, <2>4, <2>6, <2>10
  <2> QED BY <2>6, <2>7, <2>11 DEF said
<1> QED BY <1>3, <1>4 DEF Endings

\* However little of a text the client ends, its line lies within what it has typed.
LEMMA LeadsText ==
  ASSUME NEW ty \in Seq(AllLines), NEW em \in Nat, NEW t \in Texts, NEW e \in Endings \cup {<<>>},
         NEW p \in Places, p.key = Fresh, p.said = ty, p.empty <= em
  PROVE  LET ty2 == IF t.line = <<>> THEN ty ELSE Append(ty, t.line)
             em2 == IF t.line = <<>> THEN em + 1 ELSE em
         IN  \E r \in Places :
               /\ Leads(p, t.keys \o e, r, ty2, em2)
               /\ e # <<>> => r.key = Fresh /\ r.said = ty2
<1> DEFINE ty2 == IF t.line = <<>> THEN ty ELSE Append(ty, t.line)
           em2 == IF t.line = <<>> THEN em + 1 ELSE em
           n == Len(t.keys)
           s == Typing(t.keys)
           q == [key |-> s[n], said |-> p.said, empty |-> p.empty, cr |-> p.cr /\ n = 0]
<1>1. t.keys \in Seq(Bytes) /\ t.line \in AllLines /\ n \in Nat
  BY LinesAssumption DEF AllLines
<1>2. s[n].filt = "text" /\ t.line = Finished(s[n])
  BY TextsAssumption
<1>3. p.said \in Seq(AllLines) /\ p.empty \in Nat /\ p.cr \in BOOLEAN
  BY DEF Places
<1>4. Begins(ty, ty2) /\ em <= em2 /\ ty2 \in Seq(AllLines) /\ em2 \in Nat
  BY <1>1 DEF Begins
<1>5. Within(p, ty2, em2)
  <2>1. Begins(p.said, ty2) /\ p.empty <= em2
    BY <1>3, <1>4
  <2> QED BY <2>1 DEF Within
<1> HIDE DEF ty2, em2
<1>6. s[n] \in KeyStates /\ Leads(p, t.keys, q, ty2, em2)
  BY <1>5, LeadsKeys
<1>7. q \in Places
  <2>1. (p.cr /\ n = 0) \in BOOLEAN
    OBVIOUS
  <2> HIDE DEF s, n
  <2> QED BY <1>3, <1>6, <2>1 DEF Places
<1>8. q.key.filt = "text" /\ Finished(q.key) = t.line /\ q.said = ty /\ q.empty = p.empty
  BY <1>2
<1>9. q.cr => q.key = Fresh
  BY <1>1, TypingRuns
<1> HIDE DEF q, s, n
<1>10. Within(q, ty2, em2)
  BY <1>5, <1>8 DEF Within
<1>11. CASE e = <<>>
  <2>1. t.keys \o e = t.keys
    BY <1>1, <1>11, ConcatEmptySeq
  <2> QED BY <1>6, <1>7, <1>11, <2>1 DEF ty2, em2
<1>12. CASE e \in Endings
  <2>1. IF Finished(q.key) = <<>> THEN q.empty + 1 <= em2 ELSE Begins(Append(q.said, Finished(q.key)), ty2)
    <3>1. CASE t.line = <<>>
      <4>1. em2 = em + 1
        BY <3>1 DEF em2
      <4> QED BY <1>3, <1>8, <3>1, <4>1
    <3>2. CASE t.line # <<>>
      <4>1. Append(q.said, Finished(q.key)) = ty2
        BY <1>8, <3>2 DEF ty2
      <4>2. Begins(ty2, ty2)
        BY <1>4 DEF Begins
      <4> QED BY <1>8, <3>2, <4>1, <4>2
    <3> QED BY <3>1, <3>2
  <2>2. PICK r \in Places :
          /\ Leads(q, e, r, ty2, em2)
          /\ r.said = IF Finished(q.key) = <<>> THEN q.said ELSE Append(q.said, Finished(q.key))
          /\ r.key = Fresh
    BY <1>7, <1>8, <1>9, <1>10, <1>12, <2>1, LeadsEnding
  <2>3. r.said = ty2
    BY <1>8, <2>2 DEF ty2
  <2>4. e \in Seq(Bytes)
    <3>1. {"CR", "LF", "NUL"} \subseteq Bytes
      BY DEF Bytes, Controls
    <3>2. \A x, y \in Bytes : <<x>> \in Seq(Bytes) /\ <<x, y>> \in Seq(Bytes)
      OBVIOUS
    <3> QED BY <1>12, <3>1, <3>2 DEF Endings
  <2>5. Leads(p, t.keys \o e, r, ty2, em2)
    BY <1>1, <1>6, <2>2, <2>4, LeadsFurther
  <2> QED BY <2>2, <2>3, <2>5 DEF ty2, em2
<1> QED BY <1>11, <1>12

-----------------------------------------------------------------------------
(* Where the handler is.                                                     *)

\* The place of what it has read: the line it holds is said but not yet heard; an
\* empty line more may come of an LF that is not in the buffer with its CR.
Here(p) ==
  LET acting == pc = "act"
      split == p.cr /\ (buf = <<>> \/ Head(buf) = "LF")
  IN /\ p.key = IF acting THEN Fresh ELSE [filt |-> filt, line |-> line, over |-> over]
     /\ p.said = IF acting /\ line # <<>> THEN Append(heard, line) ELSE heard
     /\ blanks + (IF acting /\ line = <<>> THEN 1 ELSE 0) + (IF split THEN 1 ELSE 0) <= p.empty + lone
     /\ p.cr => p.key = Fresh
     /\ acting => filt = "text" /\ over = FALSE

\* From there the bytes not yet read lead to all that was typed, never past it.
Arrives ==
  \E p \in Places, e \in Places :
    /\ Here(p)
    /\ Leads(p, buf \o wire, e, typed, empties)
    /\ ~silent => e.key = Fresh /\ e.said = typed

LEMMA LeadsStart ==
  ASSUME NEW p, NEW e, NEW s \in Seq(Bytes), NEW ty, NEW em, Leads(p, s, e, ty, em)
  PROVE  Within(p, ty, em) /\ Within(e, ty, em)
<1>1. PICK f : Follows(f, s, ty, em) /\ f[0] = p /\ f[Len(s)] = e
  BY DEF Leads
<1>2. 0 \in 0..Len(s) /\ Len(s) \in 0..Len(s)
  OBVIOUS
<1>3. \A i \in 0..Len(s) : Within(f[i], ty, em)
  BY <1>1 DEF Follows
<1> QED BY <1>1, <1>2, <1>3

LEMMA ArrivesWhole ==
  ASSUME TypeOK, Arrives
  PROVE  LinesArriveWhole
<1>1. PICK p \in Places, e \in Places :
        /\ Here(p) /\ Leads(p, buf \o wire, e, typed, empties)
        /\ ~silent => e.key = Fresh /\ e.said = typed
  BY DEF Arrives
<1>2. buf \o wire \in Seq(Bytes)
  BY ConcatProperties DEF TypeOK
<1>3. Within(p, typed, empties)
  BY <1>1, <1>2, LeadsStart
<1>4. Begins(p.said, typed) /\ p.empty <= empties
  BY <1>3 DEF Within
<1>5. /\ heard \in Seq(AllLines) /\ typed \in Seq(AllLines) /\ line \in AllLines
      /\ empties \in Nat /\ blanks \in Nat /\ lone \in Nat
      /\ p.empty \in Nat
  BY DEF TypeOK, Places, KeyStates, AllLines
<1>6. p.said = heard \/ p.said = Append(heard, line)
  BY <1>1 DEF Here
<1>7. Begins(heard, p.said) /\ p.said \in Seq(AllLines)
  <2>1. Begins(heard, heard) /\ Begins(heard, Append(heard, line)) /\ Append(heard, line) \in Seq(AllLines)
    BY <1>5 DEF Begins
  <2> QED BY <1>5, <1>6, <2>1
<1>8. Len(heard) <= Len(typed) /\ \A i \in 1..Len(heard) : heard[i] = typed[i]
  BY <1>4, <1>5, <1>7 DEF Begins
<1>9. IsPrefix(heard, typed)
  <2> DEFINE n == Len(heard)
  <2>1. n \in Nat /\ n <= Len(typed) /\ Len(typed) \in Nat
    BY <1>5, <1>8
  <2>2. SubSeq(heard, 1, n) = heard
    BY <1>5, SubSeqFull
  <2>3. SubSeq(typed, 1, n) \in Seq(AllLines) /\ Len(SubSeq(typed, 1, n)) = n
        /\ \A i \in 1..n : SubSeq(typed, 1, n)[i] = typed[i]
    BY <1>5, <2>1
  <2>4. SubSeq(typed, 1, n) = heard
    <3>1. Len(SubSeq(typed, 1, n)) = Len(heard)
      BY <2>3
    <3>2. \A i \in 1..Len(heard) : SubSeq(typed, 1, n)[i] = heard[i]
      BY <1>8, <2>3
    <3> QED BY <1>5, <2>3, <3>1, <3>2, SeqEqual
  <2> QED BY <2>1, <2>2, <2>4 DEF IsPrefix
<1>10. blanks <= p.empty + lone
  <2>1. \E a \in {0, 1}, b \in {0, 1} : blanks + a + b <= p.empty + lone
    BY <1>1 DEF Here
  <2> QED BY <1>5, <2>1
<1>11. blanks <= empties + lone
  BY <1>4, <1>5, <1>10
<1>12. ASSUME ~silent, wire = <<>>, buf = <<>>, pc \in {"top", "arm", "read"} PROVE heard = typed
  <2>1. buf \o wire = <<>> /\ Len(<<>>) = 0
    BY <1>12
  <2>2. p = e
    BY <1>1, <2>1 DEF Leads
  <2>3. p.said = heard
    BY <1>1, <1>12 DEF Here
  <2> QED BY <1>1, <1>12, <2>2, <2>3
<1> QED BY <1>9, <1>11, <1>12 DEF LinesArriveWhole


\* A packet in the buffer comes before what is on its way.
LEMMA HeadFirst ==
  ASSUME NEW s \in Seq(Bytes), NEW w \in Seq(Bytes)
  PROVE  /\ s \o w \in Seq(Bytes)
         /\ s = <<>> => s \o w = w
         /\ s # <<>> => /\ s \o w # <<>>
                       /\ Head(s \o w) = Head(s)
                       /\ Tail(s \o w) = Tail(s) \o w
                       /\ Head(s) \in Bytes /\ Tail(s) \in Seq(Bytes)
<1>1. s \in Seq(Bytes) /\ w \in Seq(Bytes)
  OBVIOUS
<1>2. s \o w \in Seq(Bytes) /\ Len(s \o w) = Len(s) + Len(w)
      /\ \A i \in 1..(Len(s) + Len(w)) : (s \o w)[i] = IF i <= Len(s) THEN s[i] ELSE w[i - Len(s)]
  BY <1>1, ConcatProperties
<1>3. ASSUME s = <<>> PROVE s \o w = w
  BY <1>1, <1>3, ConcatEmptySeq
<1>4. ASSUME s # <<>>
      PROVE  /\ s \o w # <<>>
             /\ Head(s \o w) = Head(s)
             /\ Tail(s \o w) = Tail(s) \o w
             /\ Head(s) \in Bytes /\ Tail(s) \in Seq(Bytes)
  <2> DEFINE u == s \o w
             n == Len(s)
             m == Len(w)
  <2>1. n \in Nat /\ m \in Nat /\ n >= 1 /\ Len(u) = n + m /\ u \in Seq(Bytes)
    BY <1>1, <1>2, <1>4
  <2>2. Head(s) = s[1] /\ Head(s) \in Bytes /\ Tail(s) \in Seq(Bytes) /\ Len(Tail(s)) = n - 1
        /\ \A i \in 1..(n - 1) : Tail(s)[i] = s[i + 1]
    BY <1>1, <1>4, HeadTailProperties
  <2>3. u # <<>> /\ Head(u) = u[1]
    <3> HIDE DEF u, n, m
    <3>1. Len(u) # 0
      BY <2>1
    <3> QED BY <2>1, <3>1, HeadTailProperties
  <2>4. u[1] = s[1]
    BY <1>2, <2>1
  <2>5. Len(Tail(u)) = n + m - 1 /\ Tail(u) \in Seq(Bytes) /\ \A i \in 1..(n + m - 1) : Tail(u)[i] = u[i + 1]
    <3>1. u \in Seq(Bytes) /\ u # <<>>
      BY <2>1, <2>3
    <3> HIDE DEF u
    <3> QED BY <2>1, <3>1, HeadTailProperties
  <2> DEFINE b == Tail(s)
             v == b \o w
  <2>6. v \in Seq(Bytes) /\ Len(v) = n - 1 + m
        /\ \A i \in 1..(n - 1 + m) : v[i] = IF i <= n - 1 THEN b[i] ELSE w[i - (n - 1)]
    <3>1. b \in Seq(Bytes) /\ Len(b) = n - 1
      BY <2>2
    <3> HIDE DEF b
    <3>2. v \in Seq(Bytes) /\ Len(v) = Len(b) + m
          /\ \A i \in 1..(Len(b) + m) : v[i] = IF i <= Len(b) THEN b[i] ELSE w[i - Len(b)]
      BY <1>1, <3>1, ConcatProperties
    <3> HIDE DEF v
    <3> QED BY <3>1, <3>2
  <2>7. \A i \in 1..(n - 1 + m) : Tail(u)[i] = v[i]
    <3> SUFFICES ASSUME NEW i \in 1..(n - 1 + m) PROVE Tail(u)[i] = v[i]
      OBVIOUS
    <3>1. Tail(u)[i] = u[i + 1] /\ i + 1 \in 1..(n + m)
      BY <2>1, <2>5
    <3>2. u[i + 1] = IF i + 1 <= n THEN s[i + 1] ELSE w[i + 1 - n]
      BY <1>2, <3>1
    <3>3. v[i] = IF i <= n - 1 THEN b[i] ELSE w[i - (n - 1)]
      BY <2>6
    <3>4. CASE i <= n - 1
      <4>1. i \in 1..(n - 1) /\ i + 1 <= n
        BY <2>1, <3>4
      <4> QED BY <2>2, <3>1, <3>2, <3>3, <3>4, <4>1
    <3>5. CASE ~(i <= n - 1)
      <4>1. ~(i + 1 <= n) /\ i + 1 - n = i - (n - 1)
        BY <2>1, <3>5
      <4> HIDE DEF n, u, v
      <4> QED BY <3>1, <3>2, <3>3, <3>5, <4>1
    <3> QED BY <3>4, <3>5
  <2>8. Tail(u) = v
    <3>1. Tail(u) \in Seq(Bytes) /\ v \in Seq(Bytes) /\ Len(Tail(u)) = Len(v)
      BY <2>1, <2>5, <2>6
    <3>2. \A i \in 1..Len(v) : Tail(u)[i] = v[i]
      BY <2>6, <2>7
    <3> HIDE DEF u, v
    <3> QED BY <3>1, <3>2, SeqEqual
  <2> QED BY <2>2, <2>3, <2>4, <2>8
<1> QED BY <1>2, <1>3, <1>4

LEMMA BufferThenWire ==
  ASSUME TypeOK
  PROVE  /\ buf \o wire \in Seq(Bytes)
         /\ buf = <<>> => buf \o wire = wire
         /\ buf # <<>> => /\ buf \o wire # <<>>
                          /\ Head(buf \o wire) = Head(buf)
                          /\ Tail(buf \o wire) = Tail(buf) \o wire
                          /\ Head(buf) \in Bytes /\ Tail(buf) \in Seq(Bytes)
BY HeadFirst DEF TypeOK

\* What the client types extends where its bytes lead.
LEMMA TypeArrives ==
  ASSUME TypeOK, Arrives, NEW t \in Texts, NEW x \in Endings \cup {<<>>}, Type(t, x)
  PROVE  Arrives'
<1>1. PICK p \in Places, e \in Places :
        /\ Here(p)
        /\ Leads(p, buf \o wire, e, typed, empties)
        /\ ~silent => e.key = Fresh /\ e.said = typed
  BY DEF Arrives
<1>2. /\ typed \in Seq(AllLines) /\ empties \in Nat /\ wire \in Seq(Bytes) /\ t.line \in AllLines
      /\ t.keys \in Seq(Bytes) /\ buf \o wire = wire
  BY LinesAssumption, BufferThenWire DEF TypeOK, Type, AllLines
<1>3. x \in Seq(Bytes)
  <2>1. {"CR", "LF", "NUL"} \subseteq Bytes
    BY DEF Bytes, Controls
  <2>2. \A y, z \in Bytes : <<y>> \in Seq(Bytes) /\ <<y, z>> \in Seq(Bytes) /\ <<>> \in Seq(Bytes)
    OBVIOUS
  <2>3. x \in {<<"CR", "LF">>, <<"LF">>, <<"CR">>, <<"CR", "NUL">>, <<>>}
    BY DEF Endings
  <2> QED BY <2>1, <2>2, <2>3
<1>4. e.key = Fresh /\ e.said = typed /\ Leads(p, wire, e, typed, empties)
  BY <1>1, <1>2 DEF Type
<1>5. e.empty <= empties
  BY <1>2, <1>4, LeadsStart DEF Within
<1> DEFINE ty2 == IF t.line = <<>> THEN typed ELSE Append(typed, t.line)
           em2 == IF t.line = <<>> THEN empties + 1 ELSE empties
<1>6. typed' = ty2 /\ empties' = em2
  BY DEF Type
<1>7. PICK r \in Places : Leads(e, t.keys \o x, r, ty2, em2) /\ (x # <<>> => r.key = Fresh /\ r.said = ty2)
  BY <1>2, <1>4, <1>5, LeadsText
<1>8. ty2 \in Seq(AllLines) /\ em2 \in Nat /\ Begins(typed, ty2) /\ empties <= em2
  <2>1. Append(typed, t.line) \in Seq(AllLines) /\ Begins(typed, Append(typed, t.line)) /\ Begins(typed, typed)
    BY <1>2 DEF Begins
  <2>2. ty2 = typed \/ ty2 = Append(typed, t.line)
    OBVIOUS
  <2>3. em2 \in Nat /\ empties <= em2
    BY <1>2
  <2> HIDE DEF ty2, em2
  <2>4. ty2 \in Seq(AllLines) /\ Begins(typed, ty2)
    BY <1>2, <2>1, <2>2
  <2> QED BY <2>3, <2>4
<1> HIDE DEF ty2, em2
<1>9. Leads(p, wire, e, ty2, em2)
  BY <1>2, <1>4, <1>8, LeadsLater
<1>10. t.keys \o x \in Seq(Bytes) /\ wire \o (t.keys \o x) = (wire \o t.keys) \o x
  <2> DEFINE k == t.keys
  <2>1. k \in Seq(Bytes)
    BY <1>2
  <2> HIDE DEF k
  <2>2. k \o x \in Seq(Bytes)
    BY <1>3, <2>1, ConcatProperties
  <2>3. wire \o (k \o x) = (wire \o k) \o x
    <3>1. wire \in Seq(Bytes)
      BY <1>2
    <3>2. (wire \o k) \o x = wire \o (k \o x)
      BY <1>3, <2>1, <3>1, SMT
    <3> QED BY <3>2, Zenon
  <2> QED BY <2>2, <2>3 DEF k
<1>11. Leads(p, (wire \o t.keys) \o x, r, ty2, em2)
  BY <1>2, <1>7, <1>9, <1>10, LeadsFurther
<1>12. wire' = (wire \o t.keys) \o x /\ buf' = buf /\ buf = <<>> /\ silent' = (x = <<>>)
  BY <1>10 DEF Type
<1>13. buf' \o wire' = (wire \o t.keys) \o x
  <2> DEFINE w == (wire \o t.keys) \o x
  <2>1. w \in Seq(Bytes)
    BY <1>2, <1>3, ConcatProperties
  <2> HIDE DEF w
  <2>2. <<>> \o w = w
    BY <2>1, ConcatEmptySeq
  <2> QED BY <1>12, <2>2 DEF w
<1>14. Leads(p, buf' \o wire', r, typed', empties')
  BY <1>6, <1>11, <1>13
<1>15. Here(p)'
  BY <1>1 DEF Here, Type, reading
<1>16. ~silent' => r.key = Fresh /\ r.said = typed'
  BY <1>6, <1>7, <1>12
<1> QED BY <1>7, <1>14, <1>15, <1>16 DEF Arrives

\* A packet moves from the wire to the buffer, in order.
LEMMA FillArrives ==
  ASSUME TypeOK, Arrives, Fill
  PROVE  Arrives'
<1>1. PICK p \in Places, e \in Places :
        /\ Here(p)
        /\ Leads(p, buf \o wire, e, typed, empties)
        /\ ~silent => e.key = Fresh /\ e.said = typed
  BY DEF Arrives
<1>2. PICK n \in 1..MaxPacket :
        n <= Len(wire) /\ buf' = SubSeq(wire, 1, n) /\ wire' = SubSeq(wire, n + 1, Len(wire))
  BY DEF Fill
<1>3. wire \in Seq(Bytes) /\ n \in Nat /\ n >= 1 /\ Len(wire) \in Nat /\ buf = <<>> /\ buf \o wire = wire
  BY BufferThenWire, LinesAssumption DEF TypeOK, Fill
<1>4. buf' \o wire' = wire
  <2>1. SubSeq(wire, 1, n) \o SubSeq(wire, n + 1, Len(wire)) = SubSeq(wire, 1, Len(wire))
    BY <1>2, <1>3, ConcatAdjacentSubSeq
  <2>2. SubSeq(wire, 1, Len(wire)) = wire
    BY <1>3, SubSeqFull
  <2> QED BY <1>2, <2>1, <2>2
<1>5. UNCHANGED <<silent, filt, line, over, pc, typed, empties, heard, blanks, lone>>
  BY DEF Fill, reading, history
<1>6. Here(p)'
  <2>1. /\ p.key = IF pc = "act" THEN Fresh ELSE [filt |-> filt, line |-> line, over |-> over]
        /\ p.said = IF pc = "act" /\ line # <<>> THEN Append(heard, line) ELSE heard
        /\ blanks + (IF pc = "act" /\ line = <<>> THEN 1 ELSE 0) + (IF p.cr THEN 1 ELSE 0) <= p.empty + lone
        /\ p.cr => p.key = Fresh
        /\ pc = "act" => filt = "text" /\ over = FALSE
    BY <1>1, <1>3 DEF Here
  <2>2. blanks \in Nat /\ p.empty \in Nat /\ lone \in Nat
    BY DEF TypeOK, Places
  <2>3. blanks + (IF pc = "act" /\ line = <<>> THEN 1 ELSE 0)
          + (IF p.cr /\ (buf' = <<>> \/ Head(buf') = "LF") THEN 1 ELSE 0) <= p.empty + lone
    BY <2>1, <2>2
  <2> QED BY <1>5, <2>1, <2>3 DEF Here
<1> QED BY <1>1, <1>3, <1>4, <1>5, <1>6 DEF Arrives

\* The byte the handler takes is the next of what leads to what was typed.
LEMMA ByteArrives ==
  ASSUME TypeOK, NEW p \in Places, NEW e \in Places, NEW r,
         Leads(p, buf \o wire, e, typed, empties), ~silent => e.key = Fresh /\ e.said = typed,
         buf # <<>>, buf' = Tail(buf), r = Feed(p, Head(buf)), Here(r)',
         UNCHANGED <<silent, wire, typed, empties>>
  PROVE  Arrives'
<1>1. Leads(Feed(p, Head(buf)), Tail(buf) \o wire, e, typed, empties) /\ Feed(p, Head(buf)) \in Places
  BY BufferThenWire, LeadsOn
<1>2. r \in Places /\ Leads(r, buf' \o wire', e, typed', empties')
  BY <1>1
<1> QED BY <1>2 DEF Arrives

\* Within a line the handler does with a byte what it means.
LEMMA KeyArrives ==
  ASSUME TypeOK, Arrives, pc = "read", buf # <<>>, buf' = Tail(buf),
         ~(filt = "text" /\ Head(buf) \in {"CR", "LF"}),
         UNCHANGED <<silent, wire, pc, typed, empties, heard, blanks, lone>>,
         [filt |-> filt', line |-> line', over |-> over']
           = Key([filt |-> filt, line |-> line, over |-> over], Head(buf))
  PROVE  Arrives'
<1>1. PICK p \in Places, e \in Places :
        /\ Here(p)
        /\ Leads(p, buf \o wire, e, typed, empties)
        /\ ~silent => e.key = Fresh /\ e.said = typed
  BY DEF Arrives
<1>2. /\ p.key = [filt |-> filt, line |-> line, over |-> over] /\ p.said = heard
      /\ blanks + (IF p.cr /\ (buf = <<>> \/ Head(buf) = "LF") THEN 1 ELSE 0) <= p.empty + lone
  BY <1>1 DEF Here, TypeOK
<1>3. blanks <= p.empty + lone
  BY <1>2 DEF TypeOK, Places
<1>4. PICK r : r = Feed(p, Head(buf))
  OBVIOUS
<1>5. r = [key |-> Key(p.key, Head(buf)), said |-> p.said, empty |-> p.empty, cr |-> FALSE]
  BY <1>2, <1>4 DEF Feed
<1>6. /\ r.key = [filt |-> filt', line |-> line', over |-> over'] /\ r.said = heard /\ r.empty = p.empty
      /\ r.cr = FALSE
  BY <1>2, <1>5
<1>7. blanks' + 0 + 0 <= r.empty + lone'
  BY <1>3, <1>6 DEF TypeOK, Places
<1>8. Here(r)'
  BY <1>6, <1>7 DEF Here
<1> QED BY <1>1, <1>4, <1>8, ByteArrives

LEMMA SkipArrives ==
  ASSUME TypeOK, Arrives, Skip
  PROVE  Arrives'
<1>1. /\ pc = "read" /\ buf # <<>> /\ (filt # "text" \/ Head(buf) = "IAC")
      /\ filt' = Filtered(filt, Head(buf)) /\ buf' = Tail(buf)
      /\ UNCHANGED <<silent, wire, line, over, pc, typed, empties, heard, blanks, lone>>
  BY DEF Skip, history
<1>2. over \in BOOLEAN
  BY DEF TypeOK
<1>3. [filt |-> filt', line |-> line', over |-> over']
           = Key([filt |-> filt, line |-> line, over |-> over], Head(buf))
  BY <1>1, <1>2 DEF Key
<1> QED BY <1>1, <1>3, KeyArrives

LEMMA EraseArrives ==
  ASSUME TypeOK, Arrives, Erase
  PROVE  Arrives'
<1>1. /\ pc = "read" /\ buf # <<>> /\ filt = "text" /\ Head(buf) = "BS" /\ buf' = Tail(buf)
      /\ line' = IF over \/ line = <<>> THEN line ELSE Front(line)
      /\ UNCHANGED <<silent, wire, filt, over, pc, typed, empties, heard, blanks, lone>>
  BY DEF Erase, Reads, history
<1>2. over \in BOOLEAN
  BY DEF TypeOK
<1>3. "BS" \notin Chars /\ Filtered("text", "BS") = "text"
  BY DEF Chars, Filtered
<1>4. [filt |-> filt', line |-> line', over |-> over']
           = Key([filt |-> filt, line |-> line, over |-> over], Head(buf))
  BY <1>1, <1>2, <1>3 DEF Key
<1> QED BY <1>1, <1>4, KeyArrives

LEMMA KeepArrives ==
  ASSUME TypeOK, Arrives, Keep
  PROVE  Arrives'
<1>1. PICK b \in Chars \cup Controls :
      /\ pc = "read" /\ buf # <<>> /\ filt = "text" /\ Head(buf) = b /\ buf' = Tail(buf)
      /\ over' = (over \/ (b \in Chars /\ Len(line) >= MaxLine))
      /\ line' = IF over' \/ b \in Controls THEN line ELSE Append(line, b)
      /\ UNCHANGED <<silent, wire, filt, pc, typed, empties, heard, blanks, lone>>
  BY DEF Keep, Reads, history
<1>2. /\ over \in BOOLEAN /\ b \notin {"IAC", "BS", "CR", "LF"}
      /\ b \in Chars <=> b \notin Controls
  BY DEF TypeOK, Chars, Controls
<1>3. Filtered("text", b) = "text"
  BY <1>2 DEF Filtered
<1> DEFINE tooLong == over \/ (b \in Chars /\ Len(line) >= MaxLine)
<1>4. over' = tooLong
  BY <1>1, Zenon
<1>5. Key([filt |-> filt, line |-> line, over |-> over], b)
        = [filt |-> "text", over |-> tooLong, line |-> IF ~tooLong /\ b \in Chars THEN Append(line, b) ELSE line]
  BY <1>1, <1>2, <1>3 DEF Key
<1> HIDE DEF tooLong
<1>6. line' = IF ~tooLong /\ b \in Chars THEN Append(line, b) ELSE line
  BY <1>1, <1>2, <1>4
<1>7. [filt |-> filt', line |-> line', over |-> over']
           = Key([filt |-> filt, line |-> line, over |-> over], Head(buf))
  BY <1>1, <1>4, <1>5, <1>6
<1> QED BY <1>1, <1>2, <1>7, KeyArrives

\* A line ending makes the line ready, with as many empty ones as it may be.
LEMMA EndLineArrives ==
  ASSUME TypeOK, Arrives, EndLine
  PROVE  Arrives'
<1>1. PICK p \in Places, e \in Places :
        /\ Here(p)
        /\ Leads(p, buf \o wire, e, typed, empties)
        /\ ~silent => e.key = Fresh /\ e.said = typed
  BY DEF Arrives
<1>2. PICK b \in {"CR", "LF"} :
      /\ pc = "read" /\ filt = "text" /\ buf # <<>> /\ Head(buf) = b
      /\ buf' = EndsWith(b, Tail(buf))
      /\ line' = IF over THEN <<>> ELSE line
      /\ over' = FALSE /\ pc' = "act"
      /\ lone' = IF b = "CR" /\ Tail(buf) = <<>> THEN lone + 1 ELSE lone
      /\ UNCHANGED <<silent, wire, filt, typed, empties, heard, blanks>>
  BY DEF EndLine, Reads
<1>3. /\ p.key = [filt |-> "text", line |-> line, over |-> over] /\ p.said = heard
      /\ blanks + (IF p.cr /\ b = "LF" THEN 1 ELSE 0) <= p.empty + lone
      /\ p.cr => p.key = Fresh
  BY <1>1, <1>2 DEF Here, TypeOK
<1>4. blanks \in Nat /\ p.empty \in Nat /\ lone \in Nat
  BY DEF TypeOK, Places
<1>5. Finished(p.key) = line'
  BY <1>2, <1>3 DEF Finished
<1> DEFINE empty == IF line' = <<>> THEN 1 ELSE 0
           said == IF line' = <<>> THEN heard ELSE Append(heard, line')
           split(r) == IF r.cr /\ (buf' = <<>> \/ Head(buf') = "LF") THEN 1 ELSE 0
<1>6. ASSUME NEW r, r.key = Fresh, r.said = said, blanks + empty + split(r) <= r.empty + lone'
      PROVE  Here(r)'
  <2>1. r.said = IF pc' = "act" /\ line' # <<>> THEN Append(heard', line') ELSE heard'
    BY <1>2, <1>6
  <2>2. blanks' + (IF pc' = "act" /\ line' = <<>> THEN 1 ELSE 0)
           + (IF r.cr /\ (buf' = <<>> \/ Head(buf') = "LF") THEN 1 ELSE 0) <= r.empty + lone'
    BY <1>2, <1>6
  <2> QED BY <1>2, <1>6, <2>1, <2>2 DEF Here
<1>7. PICK r : r = Feed(p, b)
  OBVIOUS
<1>8. CASE b = "LF" /\ p.cr
  <2>1. r = [key |-> p.key, said |-> p.said, empty |-> p.empty, cr |-> FALSE]
    BY <1>3, <1>7, <1>8 DEF Feed
  <2>2. line' = <<>>
    BY <1>3, <1>5, <1>8 DEF Finished, Fresh
  <2>3. r.key = Fresh /\ r.said = said /\ r.empty = p.empty /\ r.cr = FALSE
    BY <1>3, <1>8, <2>1, <2>2
  <2>4. buf' = Tail(buf) /\ lone' = lone
    BY <1>2, <1>8 DEF EndsWith
  <2>5. blanks + empty + split(r) <= r.empty + lone'
    BY <1>3, <1>4, <1>8, <2>2, <2>3, <2>4
  <2>6. Here(r)'
    BY <1>6, <2>3, <2>5
  <2> QED BY <1>1, <1>2, <1>7, <2>4, <2>6, ByteArrives
<1>9. ASSUME ~(b = "LF" /\ p.cr)
      PROVE  r.key = Fresh /\ r.said = said /\ r.empty = p.empty + empty /\ r.cr = (b = "CR")
  <2>1. r = [key |-> Fresh,
             said |-> IF line' = <<>> THEN p.said ELSE Append(p.said, line'),
             empty |-> IF line' = <<>> THEN p.empty + 1 ELSE p.empty,
             cr |-> b = "CR"]
    BY <1>3, <1>5, <1>7, <1>9 DEF Feed
  <2>2. r.key = Fresh /\ r.cr = (b = "CR")
    BY <2>1
  <2>3. r.said = said
    BY <1>3, <2>1
  <2>4. r.empty = p.empty + empty
    BY <1>4, <2>1
  <2> QED BY <2>2, <2>3, <2>4
<1>10. CASE b = "LF" /\ ~p.cr
  <2>1. r.key = Fresh /\ r.said = said /\ r.empty = p.empty + empty /\ r.cr = FALSE
    BY <1>9, <1>10
  <2>2. buf' = Tail(buf) /\ lone' = lone
    BY <1>2, <1>10 DEF EndsWith
  <2>3. blanks + empty + split(r) <= r.empty + lone'
    <3>1. split(r) = 0 /\ r.empty = p.empty + empty /\ empty \in Nat
      BY <2>1
    <3>2. blanks <= p.empty + lone
      BY <1>3, <1>4, <1>10
    <3> HIDE DEF split, empty
    <3> QED BY <1>4, <2>2, <3>1, <3>2
  <2>4. Here(r)'
    BY <1>6, <2>1, <2>3
  <2> QED BY <1>1, <1>2, <1>7, <2>2, <2>4, ByteArrives
<1>11. CASE b = "CR" /\ ~(Tail(buf) # <<>> /\ Head(Tail(buf)) \in {"LF", "NUL"})
  <2>1. r.key = Fresh /\ r.said = said /\ r.empty = p.empty + empty
    BY <1>9, <1>11
  <2>2. buf' = Tail(buf)
    BY <1>2, <1>11 DEF EndsWith
  <2>3. blanks + empty + split(r) <= r.empty + lone'
    <3>1. CASE Tail(buf) = <<>>
      <4>1. lone' = lone + 1
        BY <1>2, <1>11, <3>1
      <4> QED BY <1>3, <1>4, <1>11, <2>1, <4>1
    <3>2. CASE Tail(buf) # <<>>
      <4>1. lone' = lone /\ split(r) = 0
        BY <1>2, <1>11, <2>2, <3>2
      <4> QED BY <1>3, <1>4, <1>11, <2>1, <4>1
    <3> QED BY <3>1, <3>2
  <2>4. Here(r)'
    BY <1>6, <2>1, <2>3
  <2> QED BY <1>1, <1>2, <1>7, <2>2, <2>4, ByteArrives
<1>12. CASE b = "CR" /\ Tail(buf) # <<>> /\ Head(Tail(buf)) \in {"LF", "NUL"}
  <2>1. r.key = Fresh /\ r.said = said /\ r.empty = p.empty + empty /\ r.cr = TRUE
    BY <1>9, <1>12
  <2>2. buf' = Tail(Tail(buf)) /\ lone' = lone
    BY <1>2, <1>12 DEF EndsWith
  <2>3. PICK c \in {"LF", "NUL"} : c = Head(Tail(buf))
    BY <1>12
  <2>4. PICK z : z = Feed(r, c)
    OBVIOUS
  <2>5. z.key = Fresh /\ z.said = r.said /\ z.empty = r.empty /\ z.cr = FALSE
    BY <2>1, <2>3, <2>4, FeedAfterCR
  <2>6. blanks + empty + split(z) <= z.empty + lone'
    <3>1. split(z) = 0 /\ z.empty = p.empty + empty /\ empty \in Nat
      BY <2>1, <2>5
    <3>2. blanks <= p.empty + lone
      BY <1>3, <1>4, <1>12
    <3> HIDE DEF split, empty
    <3> QED BY <1>4, <2>2, <3>1, <3>2
  <2>7. Here(z)'
    BY <1>6, <2>1, <2>5, <2>6
  <2>8. Leads(r, Tail(buf) \o wire, e, typed, empties) /\ r \in Places
    BY <1>1, <1>2, <1>7, BufferThenWire, LeadsOn
  <2>9. /\ Tail(buf) \in Seq(Bytes) /\ wire \in Seq(Bytes)
    BY <1>2, BufferThenWire DEF TypeOK
  <2> DEFINE s == Tail(buf)
  <2>10. s \o wire \in Seq(Bytes) /\ s \o wire # <<>> /\ Head(s \o wire) = c /\ Tail(s \o wire) = Tail(s) \o wire
    <3>1. s \in Seq(Bytes) /\ s # <<>> /\ c = Head(s)
      BY <1>12, <2>3, <2>9
    <3> HIDE DEF s
    <3> QED BY <2>9, <3>1, HeadFirst
  <2>11. Leads(Feed(r, c), Tail(s) \o wire, e, typed, empties) /\ Feed(r, c) \in Places
    <3>1. Leads(r, s \o wire, e, typed, empties)
      BY <2>8
    <3> HIDE DEF s
    <3> QED BY <2>10, <3>1, LeadsOn
  <2>12. z \in Places /\ Leads(z, buf' \o wire', e, typed', empties')
    BY <1>2, <2>2, <2>4, <2>11
  <2> QED BY <1>1, <1>2, <2>7, <2>12 DEF Arrives
<1> QED BY <1>8, <1>10, <1>11, <1>12

\* The line is heard, or an empty one counted, before the next.
LEMMA BlankArrives ==
  ASSUME TypeOK, Arrives, Blank
  PROVE  Arrives'
<1>1. PICK p \in Places, e \in Places :
        /\ Here(p)
        /\ Leads(p, buf \o wire, e, typed, empties)
        /\ ~silent => e.key = Fresh /\ e.said = typed
  BY DEF Arrives
<1>2. /\ pc = "act" /\ line = <<>> /\ line' = <<>> /\ pc' = "top" /\ blanks' = blanks + 1
      /\ UNCHANGED <<silent, wire, buf, filt, over, typed, empties, heard, lone>>
  BY DEF Blank, LineRead, input
<1>3. /\ p.key = Fresh /\ p.said = heard /\ filt = "text" /\ over = FALSE
      /\ blanks + 1 + (IF p.cr /\ (buf = <<>> \/ Head(buf) = "LF") THEN 1 ELSE 0) <= p.empty + lone
  BY <1>1, <1>2 DEF Here
<1>4. p.key = [filt |-> filt', line |-> line', over |-> over']
  BY <1>2, <1>3 DEF Fresh
<1>5. Here(p)'
  BY <1>2, <1>3, <1>4 DEF Here
<1> QED BY <1>1, <1>2, <1>5 DEF Arrives

LEMMA AskArrives ==
  ASSUME TypeOK, Arrives, Ask
  PROVE  Arrives'
<1>1. PICK p \in Places, e \in Places :
        /\ Here(p)
        /\ Leads(p, buf \o wire, e, typed, empties)
        /\ ~silent => e.key = Fresh /\ e.said = typed
  BY DEF Arrives
<1>2. /\ pc = "act" /\ line # <<>> /\ line' = <<>> /\ pc' # "act" /\ heard' = Append(heard, line)
      /\ UNCHANGED <<silent, wire, buf, filt, over, typed, empties, blanks, lone>>
  BY DEF Ask, LineRead, input
<1>3. /\ p.key = Fresh /\ p.said = Append(heard, line) /\ filt = "text" /\ over = FALSE
      /\ p.cr => p.key = Fresh
      /\ blanks + 0 + (IF p.cr /\ (buf = <<>> \/ Head(buf) = "LF") THEN 1 ELSE 0) <= p.empty + lone
  BY <1>1, <1>2 DEF Here
<1>4. p.key = [filt |-> filt', line |-> line', over |-> over']
  BY <1>2, <1>3 DEF Fresh
<1>5. p.said = heard'
  BY <1>2, <1>3
<1>6. Here(p)'
  BY <1>2, <1>3, <1>4, <1>5 DEF Here
<1> QED BY <1>1, <1>2, <1>6 DEF Arrives

\* What does not read a line leaves it where it is.
LEMMA RestArrives ==
  ASSUME Arrives, pc' # "act", pc # "act",
         UNCHANGED <<silent, wire, buf, filt, line, over, typed, empties, heard, blanks, lone>>
  PROVE  Arrives'
<1>1. PICK p \in Places, e \in Places :
        /\ Here(p)
        /\ Leads(p, buf \o wire, e, typed, empties)
        /\ ~silent => e.key = Fresh /\ e.said = typed
  BY DEF Arrives
<1>2. Here(p)'
  BY <1>1 DEF Here
<1> QED BY <1>1, <1>2 DEF Arrives

LEMMA ArrivesFirst == Init => Arrives
<1> SUFFICES ASSUME Init PROVE Arrives
  OBVIOUS
<1> DEFINE p == [key |-> Fresh, said |-> <<>>, empty |-> 0, cr |-> FALSE]
<1>1. p \in Places
  <2>1. <<>> \in Seq(AllLines)
    OBVIOUS
  <2> QED BY <2>1, FreshTyped DEF Places
<1>2. Here(p)
  <2>1. p.key = Fresh /\ p.said = <<>> /\ p.empty = 0 /\ p.cr = FALSE
    OBVIOUS
  <2>2. Init => /\ pc = "top" /\ heard = <<>> /\ blanks = 0 /\ lone = 0
                /\ filt = "text" /\ line = <<>> /\ over = FALSE
    BY DEF Init
  <2> HIDE DEF p
  <2>3. blanks + 0 + 0 <= p.empty + lone
    BY <2>1, <2>2
  <2> QED BY <2>1, <2>2, <2>3 DEF Here, Fresh
<1>3. Within(p, typed, empties)
  <2>1. Len(<<>>) = 0 /\ 1..0 = {}
    OBVIOUS
  <2> QED BY <2>1 DEF Within, Begins, Init
<1> HIDE DEF p
<1>4. Leads(p, <<>>, p, typed, empties)
  BY <1>1, <1>3, LeadsNowhere
<1>5. buf \o wire = <<>>
  <2>1. <<>> \o <<>> = <<>>
    OBVIOUS
  <2> QED BY <2>1 DEF Init
<1>6. p.key = Fresh /\ p.said = typed
  BY DEF p, Init
<1> QED BY <1>1, <1>2, <1>4, <1>5, <1>6 DEF Arrives

Whole ==
  /\ TypeOK
  /\ LinesArriveWhole
  /\ pc # "done" => Arrives

LEMMA WholeStep ==
  ASSUME Whole, [Next]_vars
  PROVE  Whole'
<1>1. TypeOK /\ TypeOK'
  BY StepTyped DEF Whole
<1>2. ASSUME Arrives' PROVE LinesArriveWhole'
  BY <1>1, <1>2, ArrivesWhole, PTL
<1>3. ASSUME pc' = "done", UNCHANGED <<typed, empties, heard, blanks, lone>>
      PROVE  LinesArriveWhole'
  BY <1>3 DEF Whole, LinesArriveWhole
<1>4. CASE \E t \in Texts, x \in Endings \cup {<<>>} : Type(t, x)
  <2>1. pc # "done"
    BY <1>4 DEF Type
  <2> QED BY <1>1, <1>2, <1>4, <2>1, TypeArrives DEF Whole
<1>5. CASE Check \/ Arm
  <2>1. /\ pc # "done" /\ pc # "act" /\ pc' # "act"
        /\ UNCHANGED <<silent, wire, buf, filt, line, over, typed, empties, heard, blanks, lone>>
    BY <1>5 DEF Check, Arm, input, reading, history
  <2> QED BY <1>1, <1>2, <2>1, RestArrives DEF Whole
<1>6. CASE Fill \/ Skip \/ Erase \/ Keep \/ EndLine
  <2>1. pc # "done"
    BY <1>6 DEF Fill, Skip, Erase, Keep, EndLine, Reads
  <2> QED BY <1>1, <1>2, <1>6, <2>1, FillArrives, SkipArrives, EraseArrives, KeepArrives, EndLineArrives DEF Whole
<1>7. CASE Blank \/ Ask
  <2>1. pc # "done"
    BY <1>7 DEF Blank, Ask
  <2> QED BY <1>1, <1>2, <1>7, <2>1, BlankArrives, AskArrives DEF Whole
<1>8. CASE HangUp \/ TimeOut
  BY <1>1, <1>3, <1>8 DEF HangUp, TimeOut, Done, history, Whole
<1>9. CASE Cancel \/ Watch \/ UNCHANGED vars
  <2>1. UNCHANGED <<silent, wire, buf, filt, line, over, pc, typed, empties, heard, blanks, lone>>
    BY <1>9 DEF Cancel, Watch, vars, input, reading, history
  <2>2. ASSUME Arrives PROVE Arrives'
    BY <2>1, <2>2 DEF Arrives, Here
  <2>3. CASE pc = "done"
    BY <1>1, <1>3, <2>1, <2>3 DEF Whole
  <2>4. CASE pc # "done"
    BY <1>1, <1>2, <2>1, <2>2, <2>4 DEF Whole
  <2> QED BY <2>3, <2>4
<1> QED BY <1>4, <1>5, <1>6, <1>7, <1>8, <1>9 DEF Next, Handler, ReadByte

\* The handler hears the lines the client typed, whole, in order and once, and no empty
\* line but those typed and one for each line ending cut in two (readLineInto).
THEOREM ArriveWhole == Spec => []LinesArriveWhole
<1>1. Init => Whole
  <2>1. Init => TypeOK
    BY InitTyped
  <2> QED BY <2>1, ArrivesFirst, ArrivesWhole DEF Whole
<1>2. Whole /\ [Next]_vars => Whole'
  BY WholeStep
<1>3. Whole => LinesArriveWhole
  BY DEF Whole
<1> QED BY <1>1, <1>2, <1>3, PTL DEF Spec
=============================================================================
