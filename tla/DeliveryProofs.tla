--------------------------- MODULE DeliveryProofs ---------------------------
(* What Delivery guarantees for every number of connections and every       *)
(* capacity of their channels: the channel implements Mailboxes.            *)
EXTENDS Delivery, TLAPS, SequenceTheorems

-----------------------------------------------------------------------------
(* One channel: s was emitted to it, g was read, o waits, and p is 1 while   *)
(* the last of s is still with emit.                                         *)

Lost(s, g, o, p) == Len(s) - p - Len(o) - Len(g)

Counted(s, g, o, p) ==
  /\ Lost(s, g, o, p) >= 0
  /\ Lost(s, g, o, p) = 0 \/ Lost(s, g, o, p) + OutCap <= Len(s)

\* What waits is the end of what was emitted.
Suffix(s, o, p) == \A i \in 1..Len(o) : o[i] = s[Len(s) - p - Len(o) + i]

Increasing(s) == \A j, k \in 1..Len(s) : j < k => s[j].no < s[k].no

\* What was read is older than what waits.
ReadFirst(s, g, o, p) ==
  \A j \in 1..Len(g) : \A k \in 1..Len(s) :
    /\ k > Len(s) - p - Len(o) => g[j].no < s[k].no
    /\ g[j].no <= s[Len(s)].no

NewestRead(s, g, o, p) ==
  Len(s) > 0 /\ p = 0 /\ Len(o) = 0 => Len(g) > 0 /\ g[Len(g)] = s[Len(s)]

Channel(s, g, o, p) ==
  /\ Counted(s, g, o, p) /\ Suffix(s, o, p) /\ Increasing(s)
  /\ ReadFirst(s, g, o, p) /\ NewestRead(s, g, o, p)

\* e is newer than everything in s.
Newer(e, s) == \A k \in 1..Len(s) : s[k].no < e.no

LEMMA CapNat == OutCap \in Nat /\ OutCap > 0
BY DeliveryAssumption

LEMMA EventNumber == \A e \in Event : e.no \in Nat
BY DEF Event

LEMMA Appended ==
  ASSUME NEW q \in Seq(Event), NEW e \in Event
  PROVE  /\ Append(q, e) \in Seq(Event)
         /\ Len(q) \in Nat /\ Len(Append(q, e)) = Len(q) + 1
         /\ \A i \in 1..Len(q) : Append(q, e)[i] = q[i] /\ q[i] \in Event
         /\ Append(q, e)[Len(q) + 1] = e
OBVIOUS

LEMMA Taken ==
  ASSUME NEW q \in Seq(Event), q # <<>>
  PROVE  /\ Head(q) \in Event /\ Tail(q) \in Seq(Event)
         /\ Len(q) \in Nat \ {0} /\ Len(Tail(q)) = Len(q) - 1
         /\ Head(q) = q[1]
         /\ \A i \in 1..(Len(q) - 1) : Tail(q)[i] = q[i + 1]
OBVIOUS

LEMMA ChannelEmpty == Channel(<<>>, <<>>, <<>>, 0)
<1>1. Len(<<>>) = 0 /\ \A i \in 1..Len(<<>>) : FALSE
  OBVIOUS
<1>2. Counted(<<>>, <<>>, <<>>, 0)
  <2>1. ASSUME NEW o, Len(o) = 0 PROVE Lost(o, o, o, 0) = 0
    BY <2>1 DEF Lost
  <2>2. Lost(<<>>, <<>>, <<>>, 0) = 0
    BY <1>1, <2>1
  <2> QED BY <2>2, CapNat DEF Counted
<1>3. Suffix(<<>>, <<>>, 0) /\ Increasing(<<>>) /\ ReadFirst(<<>>, <<>>, <<>>, 0)
  <2>1. ASSUME NEW o, \A i \in 1..Len(o) : FALSE
        PROVE  Suffix(o, o, 0) /\ Increasing(o) /\ ReadFirst(o, o, o, 0)
    BY <2>1 DEF Suffix, Increasing, ReadFirst
  <2> QED BY <1>1, <2>1
<1>4. NewestRead(<<>>, <<>>, <<>>, 0)
  BY <1>1 DEF NewestRead
<1> QED BY <1>2, <1>3, <1>4 DEF Channel

\* An event sent into a channel with room.
LEMMA ChannelSend ==
  ASSUME NEW s \in Seq(Event), NEW g \in Seq(Event), NEW o \in Seq(Event), NEW e \in Event,
         Channel(s, g, o, 0), Newer(e, s)
  PROVE  Channel(Append(s, e), g, Append(o, e), 0)
<1> DEFINE t == Append(s, e)  u == Append(o, e)
<1>1. /\ Len(s) \in Nat /\ Len(o) \in Nat /\ Len(g) \in Nat
      /\ Len(t) = Len(s) + 1 /\ Len(u) = Len(o) + 1
      /\ \A i \in 1..Len(s) : t[i] = s[i] /\ s[i] \in Event
      /\ \A i \in 1..Len(o) : u[i] = o[i]
      /\ \A i \in 1..Len(g) : g[i] \in Event
      /\ t[Len(s) + 1] = e /\ u[Len(o) + 1] = e
  BY Appended
<1> HIDE DEF t, u
<1>2. /\ Counted(s, g, o, 0) /\ Suffix(s, o, 0) /\ Increasing(s)
      /\ ReadFirst(s, g, o, 0) /\ NewestRead(s, g, o, 0)
  BY DEF Channel
<1>3. Counted(t, g, u, 0)
  BY <1>1, <1>2, CapNat DEF Counted, Lost
<1>4. Suffix(t, u, 0)
  <2> SUFFICES ASSUME NEW i \in 1..Len(u) PROVE u[i] = t[Len(t) - 0 - Len(u) + i]
    BY DEF Suffix
  <2>1. CASE i <= Len(o)
    <3>1. o[i] = s[Len(s) - Len(o) + i] /\ Len(s) - Len(o) + i \in 1..Len(s)
      BY <1>1, <1>2, <2>1 DEF Suffix, Counted, Lost
    <3> QED BY <1>1, <2>1, <3>1
  <2>2. CASE i = Len(o) + 1
    BY <1>1, <2>2
  <2>3. i <= Len(o) \/ i = Len(o) + 1
    <3>1. Len(u) = Len(o) + 1 /\ Len(o) \in Nat
      BY <1>1
    <3> QED BY <3>1
  <2> QED BY <2>1, <2>2, <2>3
<1>5. Increasing(t)
  <2> SUFFICES ASSUME NEW j \in 1..Len(t), NEW k \in 1..Len(t), j < k PROVE t[j].no < t[k].no
    BY DEF Increasing
  <2>1. CASE k <= Len(s)
    BY <1>1, <1>2, <2>1 DEF Increasing
  <2>2. CASE k = Len(s) + 1
    <3>1. j \in 1..Len(s)
      <4>1. Len(s) \in Nat /\ Len(t) = Len(s) + 1
        BY <1>1
      <4> QED BY <2>2, <4>1
    <3>2. t[j] = s[j] /\ t[k] = e
      BY <1>1, <2>2, <3>1
    <3>3. s[j].no < e.no
      BY <3>1 DEF Newer
    <3> QED BY <3>2, <3>3
  <2>3. k <= Len(s) \/ k = Len(s) + 1
    <3>1. Len(t) = Len(s) + 1 /\ Len(s) \in Nat
      BY <1>1
    <3> QED BY <3>1
  <2> QED BY <2>1, <2>2, <2>3
<1>6. ReadFirst(t, g, u, 0)
  <2> SUFFICES ASSUME NEW j \in 1..Len(g), NEW k \in 1..Len(t)
               PROVE  /\ k > Len(t) - 0 - Len(u) => g[j].no < t[k].no
                      /\ g[j].no <= t[Len(t)].no
    BY DEF ReadFirst
  <2>1. Len(s) > 0
    BY <1>1, <1>2 DEF Counted, Lost
  <2>2. g[j].no <= s[Len(s)].no /\ s[Len(s)].no < e.no
    BY <1>1, <1>2, <2>1 DEF ReadFirst, Newer
  <2>3. g[j].no \in Nat /\ s[Len(s)].no \in Nat /\ e.no \in Nat
    BY <1>1, <2>1, EventNumber
  <2>4. g[j].no < e.no
    BY <2>2, <2>3
  <2>5. CASE k <= Len(s)
    <3>1. k \in 1..Len(s) /\ t[k] = s[k] /\ t[Len(t)] = e
      BY <1>1, <2>5
    <3>2. k > Len(s) - 0 - Len(o) => g[j].no < s[k].no
      BY <1>2, <3>1 DEF ReadFirst
    <3>3. Len(t) - 0 - Len(u) = Len(s) - 0 - Len(o)
      <4>1. Len(s) \in Nat /\ Len(o) \in Nat /\ Len(t) = Len(s) + 1 /\ Len(u) = Len(o) + 1
        BY <1>1
      <4> QED BY <4>1
    <3>4. g[j].no <= e.no
      BY <2>3, <2>4
    <3> QED BY <3>1, <3>2, <3>3, <3>4
  <2>6. CASE k = Len(s) + 1
    BY <1>1, <2>3, <2>4, <2>6
  <2> QED BY <1>1, <2>5, <2>6
<1>7. NewestRead(t, g, u, 0)
  BY <1>1 DEF NewestRead
<1> QED BY <1>3, <1>4, <1>5, <1>6, <1>7 DEF Channel, t, u

\* An event that finds the channel full.
LEMMA ChannelRecord ==
  ASSUME NEW s \in Seq(Event), NEW g \in Seq(Event), NEW o \in Seq(Event), NEW e \in Event,
         Channel(s, g, o, 0), Newer(e, s), Len(o) >= OutCap
  PROVE  /\ Channel(Append(s, e), g, o, 1)
         /\ Lost(Append(s, e), g, o, 1) + OutCap + 1 <= Len(Append(s, e))
<1> DEFINE t == Append(s, e)
<1>1. /\ Len(s) \in Nat /\ Len(o) \in Nat /\ Len(g) \in Nat
      /\ Len(t) = Len(s) + 1
      /\ \A i \in 1..Len(s) : t[i] = s[i] /\ s[i] \in Event
      /\ \A i \in 1..Len(g) : g[i] \in Event
      /\ t[Len(s) + 1] = e
  BY Appended
<1> HIDE DEF t
<1>2. /\ Counted(s, g, o, 0) /\ Suffix(s, o, 0) /\ Increasing(s)
      /\ ReadFirst(s, g, o, 0)
  BY DEF Channel
<1>3. Counted(t, g, o, 1) /\ Lost(t, g, o, 1) + OutCap + 1 <= Len(t)
  BY <1>1, <1>2, CapNat DEF Counted, Lost
<1>4. Suffix(t, o, 1)
  <2> SUFFICES ASSUME NEW i \in 1..Len(o) PROVE o[i] = t[Len(t) - 1 - Len(o) + i]
    BY DEF Suffix
  <2>1. o[i] = s[Len(s) - Len(o) + i] /\ Len(s) - Len(o) + i \in 1..Len(s)
    BY <1>1, <1>2 DEF Suffix, Counted, Lost
  <2> QED BY <1>1, <2>1
<1>5. Increasing(t)
  <2> SUFFICES ASSUME NEW j \in 1..Len(t), NEW k \in 1..Len(t), j < k PROVE t[j].no < t[k].no
    BY DEF Increasing
  <2>1. CASE k <= Len(s)
    BY <1>1, <1>2, <2>1 DEF Increasing
  <2>2. CASE k = Len(s) + 1
    <3>1. j \in 1..Len(s)
      <4>1. Len(s) \in Nat /\ Len(t) = Len(s) + 1
        BY <1>1
      <4> QED BY <2>2, <4>1
    <3>2. t[j] = s[j] /\ t[k] = e
      BY <1>1, <2>2, <3>1
    <3>3. s[j].no < e.no
      BY <3>1 DEF Newer
    <3> QED BY <3>2, <3>3
  <2>3. k <= Len(s) \/ k = Len(s) + 1
    <3>1. Len(t) = Len(s) + 1 /\ Len(s) \in Nat
      BY <1>1
    <3> QED BY <3>1
  <2> QED BY <2>1, <2>2, <2>3
<1>6. ReadFirst(t, g, o, 1)
  <2> SUFFICES ASSUME NEW j \in 1..Len(g), NEW k \in 1..Len(t)
               PROVE  /\ k > Len(t) - 1 - Len(o) => g[j].no < t[k].no
                      /\ g[j].no <= t[Len(t)].no
    BY DEF ReadFirst
  <2>1. Len(s) > 0
    BY <1>1, <1>2 DEF Counted, Lost
  <2>2. g[j].no <= s[Len(s)].no /\ s[Len(s)].no < e.no
    BY <1>1, <1>2, <2>1 DEF ReadFirst, Newer
  <2>3. g[j].no \in Nat /\ s[Len(s)].no \in Nat /\ e.no \in Nat
    BY <1>1, <2>1, EventNumber
  <2>4. g[j].no < e.no
    BY <2>2, <2>3
  <2>5. CASE k <= Len(s)
    BY <1>1, <1>2, <2>3, <2>4, <2>5 DEF ReadFirst
  <2>6. CASE k = Len(s) + 1
    BY <1>1, <2>3, <2>4, <2>6
  <2> QED BY <1>1, <2>5, <2>6
<1>7. NewestRead(t, g, o, 1)
  BY DEF NewestRead
<1> QED BY <1>3, <1>4, <1>5, <1>6, <1>7 DEF Channel, t

\* The oldest is dropped to make room for the event emit holds.
LEMMA ChannelDrop ==
  ASSUME NEW s \in Seq(Event), NEW g \in Seq(Event), NEW o \in Seq(Event),
         Channel(s, g, o, 1), Lost(s, g, o, 1) + OutCap + 1 <= Len(s), o # <<>>
  PROVE  Channel(s, g, Tail(o), 1)
<1> DEFINE r == Tail(o)
<1>1. /\ Len(s) \in Nat /\ Len(o) \in Nat \ {0} /\ Len(g) \in Nat
      /\ Len(r) = Len(o) - 1
      /\ \A i \in 1..Len(r) : r[i] = o[i + 1]
  BY Taken
<1> HIDE DEF r
<1>2. /\ Counted(s, g, o, 1) /\ Suffix(s, o, 1) /\ Increasing(s) /\ ReadFirst(s, g, o, 1)
  BY DEF Channel
<1>3. Counted(s, g, r, 1)
  BY <1>1, <1>2, CapNat DEF Counted, Lost
<1>4. Suffix(s, r, 1)
  <2> SUFFICES ASSUME NEW i \in 1..Len(r) PROVE r[i] = s[Len(s) - 1 - Len(r) + i]
    BY DEF Suffix
  <2>1. i + 1 \in 1..Len(o) /\ Len(s) - 1 - Len(o) + (i + 1) = Len(s) - 1 - Len(r) + i
    BY <1>1
  <2>2. o[i + 1] = s[Len(s) - 1 - Len(o) + (i + 1)]
    BY <1>2, <2>1 DEF Suffix
  <2> QED BY <1>1, <2>1, <2>2
<1>5. ReadFirst(s, g, r, 1)
  BY <1>1, <1>2 DEF ReadFirst
<1>6. NewestRead(s, g, r, 1)
  BY DEF NewestRead
<1> QED BY <1>2, <1>3, <1>4, <1>5, <1>6 DEF Channel, r

\* The event emit holds goes in.
LEMMA ChannelAgain ==
  ASSUME NEW s \in Seq(Event), NEW g \in Seq(Event), NEW o \in Seq(Event), NEW e \in Event,
         Channel(s, g, o, 1), Len(s) > 0, s[Len(s)] = e
  PROVE  Channel(s, g, Append(o, e), 0)
<1> DEFINE u == Append(o, e)
<1>1. /\ Len(s) \in Nat /\ Len(o) \in Nat /\ Len(g) \in Nat
      /\ Len(u) = Len(o) + 1
      /\ \A i \in 1..Len(o) : u[i] = o[i]
      /\ u[Len(o) + 1] = e
  BY Appended
<1> HIDE DEF u
<1>2. /\ Counted(s, g, o, 1) /\ Suffix(s, o, 1) /\ Increasing(s) /\ ReadFirst(s, g, o, 1)
  BY DEF Channel
<1>3. Counted(s, g, u, 0)
  BY <1>1, <1>2, CapNat DEF Counted, Lost
<1>4. Suffix(s, u, 0)
  <2> SUFFICES ASSUME NEW i \in 1..Len(u) PROVE u[i] = s[Len(s) - 0 - Len(u) + i]
    BY DEF Suffix
  <2>1. CASE i <= Len(o)
    <3>1. o[i] = s[Len(s) - 1 - Len(o) + i]
      BY <1>1, <1>2, <2>1 DEF Suffix
    <3> QED BY <1>1, <2>1, <3>1
  <2>2. CASE i = Len(o) + 1
    BY <1>1, <2>2
  <2> QED BY <1>1, <2>1, <2>2
<1>5. ReadFirst(s, g, u, 0)
  BY <1>1, <1>2 DEF ReadFirst
<1>6. NewestRead(s, g, u, 0)
  BY <1>1 DEF NewestRead
<1> QED BY <1>2, <1>3, <1>4, <1>5, <1>6 DEF Channel, u

\* The reader takes the oldest; that is a delivery Mailboxes allows.
LEMMA ChannelTake ==
  ASSUME NEW s \in Seq(Event), NEW g \in Seq(Event), NEW o \in Seq(Event), NEW p \in {0, 1},
         Channel(s, g, o, p), o # <<>>
  PROVE  /\ Channel(s, Append(g, Head(o)), Tail(o), p)
         /\ Lost(s, Append(g, Head(o)), Tail(o), p) = Lost(s, g, o, p)
         /\ \E k \in 1..Len(s) :
              /\ Head(o) = s[k] /\ Newer(s[k], g)
              /\ (k - 1 - Len(g) = 0) \/ (k - 1 - Len(g) + OutCap <= Len(s))
<1> DEFINE r == Tail(o)  e == Head(o)  h == Append(g, e)  k == Len(s) - p - Len(o) + 1
<1>1. /\ Len(s) \in Nat /\ Len(o) \in Nat \ {0} /\ Len(g) \in Nat
      /\ Len(r) = Len(o) - 1 /\ e = o[1] /\ e \in Event
      /\ \A i \in 1..Len(r) : r[i] = o[i + 1]
  BY Taken
<1>2. /\ Len(h) = Len(g) + 1
      /\ \A i \in 1..Len(g) : h[i] = g[i] /\ g[i] \in Event
      /\ h[Len(g) + 1] = e
      /\ \A i \in 1..Len(s) : s[i] \in Event
  BY <1>1, Appended
<1> HIDE DEF r, e, h
<1>3. /\ Counted(s, g, o, p) /\ Suffix(s, o, p) /\ Increasing(s) /\ ReadFirst(s, g, o, p)
  BY DEF Channel
<1>4. k \in 1..Len(s) /\ p \in Nat
  BY <1>1, <1>3 DEF Counted, Lost
<1>5. e = s[k]
  BY <1>1, <1>3 DEF Suffix
<1>6. Newer(s[k], g)
  BY <1>1, <1>3, <1>4 DEF Newer, ReadFirst
<1>7. (k - 1 - Len(g) = 0) \/ (k - 1 - Len(g) + OutCap <= Len(s))
  <2>1. Len(s) \in Nat /\ Len(o) \in Nat /\ Len(g) \in Nat /\ p \in Nat
    BY <1>1, <1>4
  <2>2. k - 1 - Len(g) = Lost(s, g, o, p)
    BY <2>1 DEF Lost
  <2> QED BY <1>3, <2>2 DEF Counted
<1>8. Lost(s, h, r, p) = Lost(s, g, o, p)
  BY <1>1, <1>2, <1>4 DEF Lost
<1>9. Counted(s, h, r, p)
  BY <1>3, <1>8 DEF Counted
<1>10. Suffix(s, r, p)
  <2> SUFFICES ASSUME NEW i \in 1..Len(r) PROVE r[i] = s[Len(s) - p - Len(r) + i]
    BY DEF Suffix
  <2>1. i + 1 \in 1..Len(o) /\ Len(s) - p - Len(o) + (i + 1) = Len(s) - p - Len(r) + i
    BY <1>1, <1>4
  <2>2. o[i + 1] = s[Len(s) - p - Len(o) + (i + 1)]
    BY <1>3, <2>1 DEF Suffix
  <2> QED BY <1>1, <2>1, <2>2
<1>11. ReadFirst(s, h, r, p)
  <2> SUFFICES ASSUME NEW j \in 1..Len(h), NEW l \in 1..Len(s)
               PROVE  /\ l > Len(s) - p - Len(r) => h[j].no < s[l].no
                      /\ h[j].no <= s[Len(s)].no
    BY DEF ReadFirst
  <2>1. CASE j <= Len(g)
    BY <1>1, <1>2, <1>3, <1>4, <2>1 DEF ReadFirst
  <2>2. CASE j = Len(g) + 1
    <3>1. h[j] = s[k]
      BY <1>2, <1>5, <2>2
    <3>2. l > Len(s) - p - Len(r) => s[k].no < s[l].no
      BY <1>1, <1>3, <1>4 DEF Increasing
    <3>3. s[k].no <= s[Len(s)].no
      <4>1. CASE k = Len(s)
        BY <1>2, <1>4, <4>1, EventNumber
      <4>2. CASE k < Len(s)
        <5>1. s[k].no < s[Len(s)].no
          <6>1. k \in 1..Len(s) /\ Len(s) \in 1..Len(s)
            BY <1>1, <1>4
          <6> HIDE DEF k
          <6> QED BY <1>3, <4>2, <6>1 DEF Increasing
        <5> QED BY <5>1, <1>1, <1>2, <1>4, EventNumber
      <4> QED BY <1>1, <1>4, <4>1, <4>2
    <3> QED BY <3>1, <3>2, <3>3
  <2> QED BY <1>1, <1>2, <2>1, <2>2
<1>12. NewestRead(s, h, r, p)
  <2> SUFFICES ASSUME Len(s) > 0, p = 0, Len(r) = 0 PROVE Len(h) > 0 /\ h[Len(h)] = s[Len(s)]
    BY DEF NewestRead
  <2>1. Len(o) = 1 /\ Len(s) \in Nat
    BY <1>1
  <2>2. k = Len(s)
    BY <2>1
  <2> QED BY <1>1, <1>2, <1>5, <2>2
<1> QED BY <1>3, <1>4, <1>5, <1>6, <1>7, <1>8, <1>9, <1>10, <1>11, <1>12 DEF Channel, r, e, h

-----------------------------------------------------------------------------
(* The inductive invariant. *)

Recorded(c) == step # "send" /\ cur = c
P(c) == IF Recorded(c) THEN 1 ELSE 0

Task == [ev : Event, to : SUBSET Conns]

\* Events are emitted in the order of their numbers.
Queue ==
  /\ \A i \in 1..Len(todo) : todo[i].ev.no < next
  /\ \A i, j \in 1..Len(todo) : i < j => todo[i].ev.no < todo[j].ev.no

UpTo(n, s) == \A k \in 1..Len(s) : s[k].no <= n
Below(n, s) == \A k \in 1..Len(s) : s[k].no < n

Numbers ==
  \A c \in Conns :
    Below(next, sent[c]) /\ (Len(todo) > 0 => UpTo(todo[1].ev.no, sent[c]))

\* Whoever the current event is still for has not been sent it.
Ahead == Len(todo) > 0 => \A c \in todo[1].to : ~Recorded(c) => Newer(todo[1].ev, sent[c])

\* What emit holds between its selects.
Holding ==
  step # "send" =>
    /\ Len(todo) > 0 /\ cur \in todo[1].to
    /\ Len(sent[cur]) > 0 /\ sent[cur][Len(sent[cur])] = todo[1].ev

Room ==
  /\ step = "full" => Lost(sent[cur], got[cur], out[cur], 1) + OutCap + 1 <= Len(sent[cur])
  /\ step = "freed" => Len(out[cur]) < OutCap

Channels == \A c \in Conns : Channel(sent[c], got[c], out[c], P(c))

IInv == TypeOK /\ Queue /\ Numbers /\ Ahead /\ Holding /\ Room /\ Channels

-----------------------------------------------------------------------------
(* Type correctness. *)

LEMMA TaskParts ==
  ASSUME NEW t \in Task
  PROVE  t.ev \in Event /\ t.to \subseteq Conns
BY DEF Task

LEMMA NewTask ==
  ASSUME NEW n \in 1..MaxEvents, NEW kind \in {"card", "seated", "text"}, NEW c \in Conns,
         NEW T \in SUBSET Conns
  PROVE  /\ Ev(n, kind, c) \in Event /\ Ev(n, kind, c).no = n
         /\ For(Ev(n, kind, c), T) \in Seq(Task)
         /\ T # {} => For(Ev(n, kind, c), T) = <<[ev |-> Ev(n, kind, c), to |-> T]>>
         /\ T = {} => For(Ev(n, kind, c), T) = <<>>
<1>1. Ev(n, kind, c) \in Event /\ Ev(n, kind, c).no = n
  BY DEF Ev, Event
<1>2. [ev |-> Ev(n, kind, c), to |-> T] \in Task
  BY <1>1 DEF Task
<1> QED BY <1>1, <1>2 DEF For

\* The tasks that are left when the current event is dealt with for c.
LEMMA ServedTasks ==
  ASSUME todo \in Seq(Task), todo # <<>>, NEW c \in todo[1].to, Served(c)
  PROVE  /\ todo' \in Seq(Task)
         /\ \/ /\ Len(todo') = Len(todo)
               /\ todo'[1].ev = todo[1].ev /\ todo'[1].to = todo[1].to \ {c}
               /\ \A i \in 2..Len(todo) : todo'[i] = todo[i]
            \/ /\ Len(todo') = Len(todo) - 1
               /\ \A i \in 1..Len(todo') : todo'[i] = todo[i + 1]
<1> DEFINE rest == Tail(todo)
           again == [todo[1] EXCEPT !.to = @ \ {c}]
<1>1. /\ Len(todo) \in Nat \ {0} /\ Head(todo) = todo[1] /\ todo[1] \in Task
      /\ rest \in Seq(Task) /\ Len(rest) = Len(todo) - 1
      /\ \A i \in 1..Len(rest) : rest[i] = todo[i + 1]
  OBVIOUS
<1>2. again \in Task /\ again.ev = todo[1].ev /\ again.to = todo[1].to \ {c}
  BY <1>1 DEF Task
<1> HIDE DEF rest, again
<1>3. CASE todo[1].to = {c}
  <2>1. todo' = rest
    BY <1>1, <1>3 DEF Served, Current, rest
  <2> QED BY <1>1, <2>1
<1>4. CASE todo[1].to # {c}
  <2>1. todo' = <<again>> \o rest
    BY <1>1, <1>4 DEF Served, Current, rest, again
  <2>2. /\ <<again>> \in Seq(Task) /\ Len(<<again>>) = 1 /\ <<again>>[1] = again
    BY <1>2
  <2>3. /\ todo' \in Seq(Task) /\ Len(todo') = 1 + Len(rest)
        /\ \A i \in 1..(1 + Len(rest)) : todo'[i] = IF i <= 1 THEN <<again>>[i] ELSE rest[i - 1]
    BY <1>1, <2>1, <2>2, ConcatProperties
  <2>4. todo'[1] = again
    BY <1>1, <2>2, <2>3
  <2>5. \A i \in 2..Len(todo) : todo'[i] = todo[i]
    <3> SUFFICES ASSUME NEW i \in 2..Len(todo) PROVE todo'[i] = todo[i]
      OBVIOUS
    <3>1. todo'[i] = rest[i - 1] /\ i - 1 \in 1..Len(rest) /\ (i - 1) + 1 = i
      BY <1>1, <2>3
    <3> QED BY <1>1, <3>1
  <2> QED BY <1>1, <1>2, <2>3, <2>4, <2>5
<1> QED BY <1>3, <1>4

\* Steps that leave the events alone.
QuietStep ==
  /\ UNCHANGED <<out, todo, step, cur, next, sent, got>>
  /\ \E c \in Conns :
       \/ HandleAttach(c) \/ HandleDetach(c) \/ SubmitEnter(c) \/ Prompt(c)
       \/ AwaitFails(c) \/ ReaderStops(c) \/ HangUp(c)

LEMMA QuietIsQuiet ==
  ASSUME NEW c \in Conns,
         \/ HandleAttach(c) \/ HandleDetach(c) \/ SubmitEnter(c) \/ Prompt(c)
         \/ AwaitFails(c) \/ ReaderStops(c) \/ HangUp(c)
  PROVE  QuietStep
<1>1. UNCHANGED <<out, todo, step, cur, next, sent, got>>
  BY DEF HandleAttach, HandleDetach, SubmitEnter, Prompt, AwaitFails, ReaderStops, HangUp, loopVars, readerVars
<1> QED BY <1>1 DEF QuietStep

LEMMA QuietTypes ==
  ASSUME TypeOK, QuietStep
  PROVE  TypeOK'
<1> USE DEF TypeOK
<1>1. PICK c \in Conns :
       \/ HandleAttach(c) \/ HandleDetach(c) \/ SubmitEnter(c) \/ Prompt(c)
       \/ AwaitFails(c) \/ ReaderStops(c) \/ HangUp(c)
  BY DEF QuietStep
<1>2. UNCHANGED <<out, todo, step, cur, next, sent, got>>
  BY DEF QuietStep
<1>3. /\ user' = user
      /\ seat' \in [Conns -> {"out", "queued", "in", "left"}]
      /\ open' \in [Conns -> {"none", "open", "closed"}]
      /\ reader' \in [Conns -> {"none", "await", "flush", "drain", "stopped"}]
      /\ hung' \subseteq Conns
  BY <1>1 DEF HandleAttach, HandleDetach, SubmitEnter, Prompt, AwaitFails, ReaderStops, HangUp, loopVars, readerVars
<1> QED BY <1>2, <1>3

-----------------------------------------------------------------------------
(* The invariant holds at the start and is kept. *)

LEMMA InitInv ==
  Init => IInv
<1> SUFFICES ASSUME Init PROVE IInv
  OBVIOUS
<1> USE DEF Init
<1>1. Len(<<>>) = 0
  OBVIOUS
<1>2. TypeOK
  <2>1. SomeConn \in Conns
    BY DeliveryAssumption DEF SomeConn
  <2> QED BY <1>1, <2>1, DeliveryAssumption DEF TypeOK
<1>3. Queue /\ Numbers /\ Ahead /\ Holding /\ Room
  BY <1>1 DEF Queue, Numbers, Ahead, Holding, Room, Below
<1>4. Channels
  <2> SUFFICES ASSUME NEW c \in Conns PROVE Channel(sent[c], got[c], out[c], P(c))
    BY DEF Channels
  <2>1. sent[c] = <<>> /\ got[c] = <<>> /\ out[c] = <<>> /\ P(c) = 0
    BY DEF P, Recorded
  <2> QED
    BY <2>1, ChannelEmpty
<1> QED BY <1>2, <1>3, <1>4 DEF IInv

LEMMA QuietKeeps ==
  ASSUME IInv, QuietStep
  PROVE  IInv'
<1>1. UNCHANGED <<out, todo, step, cur, next, sent, got>>
  BY DEF QuietStep
<1>2. TypeOK'
  BY QuietTypes DEF IInv
<1>3. Queue' /\ Numbers' /\ Ahead' /\ Holding' /\ Room' /\ Channels'
  BY <1>1 DEF IInv, Queue, Numbers, Ahead, Holding, Room, Channels, Recorded, P
<1> QED BY <1>2, <1>3 DEF IInv

LEMMA SameKeeps ==
  ASSUME IInv, UNCHANGED vars
  PROVE  IInv'
BY DEF vars, IInv, TypeOK, Queue, Numbers, Ahead, Holding, Room, Channels, Recorded, P

\* Events that are given to emit are newer than all before.
LEMMA StartKeeps ==
  ASSUME IInv, todo = <<>>, next' >= next, next' \in Nat, todo' \in Seq(Task),
         UNCHANGED <<out, step, cur, sent, got>>,
         \A i \in 1..Len(todo') : todo'[i].ev.no >= next /\ todo'[i].ev.no < next',
         \A i, j \in 1..Len(todo') : i < j => todo'[i].ev.no < todo'[j].ev.no
  PROVE  Queue' /\ Numbers' /\ Ahead' /\ Holding' /\ Room' /\ Channels'
<1>1. step = "send"
  BY DEF IInv, Holding
<1>2. Queue'
  BY DEF Queue
<1>3. next \in Nat /\ \A c \in Conns : sent[c] \in Seq(Event)
  BY DEF IInv, TypeOK
<1>4. \A c \in Conns : Below(next, sent[c])
  BY DEF IInv, Numbers
<1>5. Len(todo') > 0 => todo'[1] \in Task /\ todo'[1].ev.no \in Nat /\ todo'[1].ev.no >= next
  <2>1. SUFFICES ASSUME Len(todo') > 0 PROVE todo'[1] \in Task
    BY TaskParts, EventNumber, <2>1
  <2> QED BY <2>1
<1>6. Numbers'
  <2> SUFFICES ASSUME NEW c \in Conns
               PROVE  Below(next', sent[c]) /\ (Len(todo') > 0 => UpTo(todo'[1].ev.no, sent[c]))
    BY DEF Numbers, Below, UpTo
  <2>1. \A k \in 1..Len(sent[c]) : sent[c][k].no \in Nat /\ sent[c][k].no < next
    BY <1>3, <1>4, EventNumber DEF Below
  <2> QED BY <1>3, <1>5, <2>1 DEF Below, UpTo
<1>7. Ahead'
  <2> SUFFICES ASSUME Len(todo') > 0, NEW c \in todo'[1].to PROVE Newer(todo'[1].ev, sent[c])
    BY DEF Ahead, Newer
  <2>1. c \in Conns
    BY <1>5, TaskParts
  <2>2. \A k \in 1..Len(sent[c]) : sent[c][k].no \in Nat /\ sent[c][k].no < next
    BY <1>3, <1>4, <2>1, EventNumber DEF Below
  <2> QED BY <1>3, <1>5, <2>2 DEF Newer
<1>8. Holding' /\ Room'
  BY <1>1 DEF Holding, Room
<1>9. Channels'
  BY DEF IInv, Channels, P, Recorded
<1> QED BY <1>2, <1>6, <1>7, <1>8, <1>9

\* The events left when the current one is dealt with for c.
LEMMA ServedKeeps ==
  ASSUME IInv, Len(todo) > 0, NEW c \in todo[1].to, Served(c),
         next' = next, step' = "send", step = "send" \/ cur = c,
         \A d \in Conns \ {c} : sent'[d] = sent[d],
         sent'[c] \in Seq(Event),
         Below(next, sent'[c]) /\ UpTo(todo[1].ev.no, sent'[c])
  PROVE  todo' \in Seq(Task) /\ Queue' /\ Numbers' /\ Ahead'
<1> DEFINE n == todo[1].ev.no
<1>1. /\ todo \in Seq(Task) /\ next \in Nat /\ todo # <<>> /\ Len(todo) \in Nat \ {0}
      /\ \A d \in Conns : sent[d] \in Seq(Event)
  BY DEF IInv, TypeOK, Task
<1>2. todo[1] \in Task /\ n \in Nat /\ c \in Conns
  BY <1>1, TaskParts, EventNumber
<1>3. /\ todo' \in Seq(Task)
      /\ \/ /\ Len(todo') = Len(todo)
            /\ todo'[1].ev = todo[1].ev /\ todo'[1].to = todo[1].to \ {c}
            /\ \A i \in 2..Len(todo) : todo'[i] = todo[i]
         \/ /\ Len(todo') = Len(todo) - 1
            /\ \A i \in 1..Len(todo') : todo'[i] = todo[i + 1]
  BY <1>1, ServedTasks
<1>4. /\ \A i \in 1..Len(todo) : todo[i].ev.no < next
      /\ \A i, j \in 1..Len(todo) : i < j => todo[i].ev.no < todo[j].ev.no
  BY DEF IInv, Queue
<1>5. \A d \in Conns : Below(next, sent'[d]) /\ UpTo(n, sent'[d])
  <2>1. \A d \in Conns : Below(next, sent[d]) /\ UpTo(n, sent[d])
    BY DEF IInv, Numbers
  <2> QED BY <2>1
<1>6. CASE /\ Len(todo') = Len(todo)
           /\ todo'[1].ev = todo[1].ev /\ todo'[1].to = todo[1].to \ {c}
           /\ \A i \in 2..Len(todo) : todo'[i] = todo[i]
  <2>1. \A i \in 1..Len(todo) : todo'[i].ev = todo[i].ev
    BY <1>1, <1>6
  <2>2. Queue'
    BY <1>4, <1>6, <2>1 DEF Queue
  <2>3. Numbers'
    BY <1>5, <1>6 DEF Numbers, Below, UpTo
  <2>4. Ahead'
    <3> SUFFICES ASSUME NEW d \in todo[1].to, d # c PROVE Newer(todo[1].ev, sent'[d])
      BY <1>6 DEF Ahead, Newer
    <3>1. d \in Conns /\ sent'[d] = sent[d] /\ ~Recorded(d)
      BY <1>2, TaskParts DEF Recorded
    <3> QED BY <3>1 DEF IInv, Ahead, Newer
  <2> QED BY <1>3, <2>2, <2>3, <2>4
<1>7. CASE /\ Len(todo') = Len(todo) - 1
           /\ \A i \in 1..Len(todo') : todo'[i] = todo[i + 1]
  <2>1. Queue'
    <3>1. \A i \in 1..Len(todo') : i + 1 \in 1..Len(todo)
      BY <1>1, <1>7
    <3>2. \A i \in 1..Len(todo') : todo'[i].ev.no < next
      BY <1>4, <1>7, <3>1
    <3>3. \A i, j \in 1..Len(todo') : i < j => todo'[i].ev.no < todo'[j].ev.no
      <4> SUFFICES ASSUME NEW i \in 1..Len(todo'), NEW j \in 1..Len(todo'), i < j
                   PROVE  todo'[i].ev.no < todo'[j].ev.no
        OBVIOUS
      <4>1. i + 1 < j + 1 /\ todo'[i] = todo[i + 1] /\ todo'[j] = todo[j + 1]
        BY <1>1, <1>7
      <4> QED BY <1>4, <3>1, <4>1
    <3> QED BY <3>2, <3>3 DEF Queue
  <2>2. Len(todo') > 0 => todo'[1] = todo[2] /\ n < todo'[1].ev.no
    BY <1>1, <1>4, <1>7
  <2>3. Len(todo') > 0 => todo'[1] \in Task
    BY <1>3
  <2>4. Len(todo') > 0 => todo'[1].ev.no \in Nat
    BY <2>3, TaskParts, EventNumber
  <2>5. ASSUME Len(todo') > 0, NEW d \in Conns
        PROVE  UpTo(todo'[1].ev.no, sent'[d]) /\ Newer(todo'[1].ev, sent'[d])
    <3>1. sent'[d] \in Seq(Event)
      BY <1>1
    <3>2. \A k \in 1..Len(sent'[d]) : sent'[d][k].no \in Nat
      BY <3>1, EventNumber
    <3>3. \A k \in 1..Len(sent'[d]) : sent'[d][k].no <= n
      BY <1>5 DEF UpTo
    <3> DEFINE m == todo'[1].ev.no
    <3>4. m \in Nat /\ n \in Nat /\ n < m
      BY <1>2, <2>2, <2>4, <2>5
    <3> HIDE DEF m, n
    <3>5. \A k \in 1..Len(sent'[d]) : sent'[d][k].no < m /\ sent'[d][k].no <= m
      BY <3>2, <3>3, <3>4
    <3> QED BY <3>5 DEF UpTo, Newer, m
  <2>6. Numbers'
    BY <1>5, <2>5 DEF Numbers, Below, UpTo
  <2>7. Ahead'
    BY <2>3, <2>5, TaskParts DEF Ahead, Newer
  <2> QED BY <1>3, <2>1, <2>6, <2>7
<1> QED BY <1>3, <1>6, <1>7

\* The current event.
LEMMA CurrentTask ==
  ASSUME TypeOK, todo # <<>>
  PROVE  /\ todo \in Seq(Task) /\ Len(todo) > 0 /\ Current = todo[1] /\ todo[1] \in Task
         /\ Current.ev \in Event /\ Current.to \subseteq Conns
<1>1. todo \in Seq(Task)
  BY DEF TypeOK, Task
<1>2. Len(todo) > 0 /\ Head(todo) = todo[1] /\ todo[1] \in Task
  BY <1>1
<1> QED BY <1>1, <1>2, TaskParts DEF Current

LEMMA NowhereKeeps ==
  ASSUME IInv, NEW c \in Conns, EmitNowhere(c)
  PROVE  IInv'
<1>1. /\ todo # <<>> /\ step = "send" /\ c \in Current.to /\ Served(c)
      /\ UNCHANGED <<user, seat, open, out, step, cur, next, sent, reader, hung, got>>
  BY DEF EmitNowhere, Idle, readerVars
<1>2. TypeOK /\ Numbers /\ Len(todo) > 0 /\ Current = todo[1]
  BY <1>1, CurrentTask DEF IInv
<1>3. sent'[c] \in Seq(Event)
  BY <1>1, <1>2 DEF TypeOK
<1>4. Below(next, sent'[c]) /\ UpTo(todo[1].ev.no, sent'[c])
  BY <1>1, <1>2 DEF Numbers
<1>5. todo' \in Seq(Task) /\ Queue' /\ Numbers' /\ Ahead'
  BY <1>1, <1>2, <1>3, <1>4, ServedKeeps
<1>6. TypeOK'
  BY <1>1, <1>2, <1>5 DEF TypeOK, Task
<1>7. Holding' /\ Room'
  BY <1>1 DEF Holding, Room
<1>8. Channels'
  BY <1>1 DEF IInv, Channels, P, Recorded
<1> QED BY <1>5, <1>6, <1>7, <1>8 DEF IInv

\* The numbers after the current event was recorded for c.
LEMMA RecordKeeps ==
  ASSUME IInv, todo # <<>>, NEW c \in Current.to, ~Recorded(c), Record(c)
  PROVE  /\ sent' \in [Conns -> Seq(Event)]
         /\ sent'[c] = Append(sent[c], todo[1].ev)
         /\ \A d \in Conns \ {c} : sent'[d] = sent[d]
         /\ Below(next, sent'[c]) /\ UpTo(todo[1].ev.no, sent'[c])
         /\ Newer(todo[1].ev, sent[c])
<1> DEFINE e == todo[1].ev
<1>1. /\ TypeOK /\ Queue /\ Numbers /\ Ahead
      /\ Len(todo) > 0 /\ Current = todo[1] /\ c \in Conns /\ e \in Event /\ c \in todo[1].to
  BY CurrentTask DEF IInv
<1>2. sent \in [Conns -> Seq(Event)] /\ next \in Nat
  BY <1>1 DEF TypeOK
<1>3. sent' = [sent EXCEPT ![c] = Append(@, e)]
  BY <1>1 DEF Record
<1> HIDE DEF e
<1>4. /\ sent' \in [Conns -> Seq(Event)]
      /\ sent'[c] = Append(sent[c], e)
      /\ \A d \in Conns \ {c} : sent'[d] = sent[d]
  BY <1>1, <1>2, <1>3
<1>5. Newer(e, sent[c])
  BY <1>1 DEF Ahead, e
<1>6. e.no < next /\ e.no \in Nat
  <2>1. 1 \in 1..Len(todo)
    BY <1>1, CurrentTask
  <2> QED BY <1>1, <2>1, EventNumber DEF Queue, e
<1>7. /\ Len(sent'[c]) = Len(sent[c]) + 1 /\ Len(sent[c]) \in Nat
      /\ \A k \in 1..Len(sent[c]) : sent'[c][k] = sent[c][k] /\ sent[c][k] \in Event
      /\ sent'[c][Len(sent[c]) + 1] = e
  BY <1>1, <1>2, <1>4, Appended
<1>8. \A k \in 1..Len(sent'[c]) : sent'[c][k].no <= e.no
  <2> SUFFICES ASSUME NEW k \in 1..Len(sent'[c]) PROVE sent'[c][k].no <= e.no
    OBVIOUS
  <2>1. CASE k <= Len(sent[c])
    BY <1>5, <1>6, <1>7, <2>1, EventNumber DEF Newer
  <2>2. CASE k = Len(sent[c]) + 1
    BY <1>6, <1>7, <2>2
  <2> QED BY <1>7, <2>1, <2>2
<1>9. \A k \in 1..Len(sent'[c]) : sent'[c][k].no \in Nat
  <2>1. sent'[c] \in Seq(Event)
    BY <1>1, <1>4
  <2>2. \A k \in 1..Len(sent'[c]) : sent'[c][k] \in Event
    BY <2>1
  <2> QED BY <2>2, EventNumber
<1>10. Below(next, sent'[c]) /\ UpTo(e.no, sent'[c])
  BY <1>2, <1>6, <1>8, <1>9 DEF Below, UpTo
<1> QED BY <1>4, <1>5, <1>10 DEF e

LEMMA SendKeeps ==
  ASSUME IInv, NEW c \in Conns, EmitSend(c)
  PROVE  IInv'
<1> DEFINE e == todo[1].ev
<1>1. /\ todo # <<>> /\ step = "send" /\ c \in Current.to /\ Len(out[c]) < OutCap
      /\ Put(c) /\ Record(c) /\ Served(c)
      /\ UNCHANGED <<user, seat, open, step, cur, next, reader, hung, got>>
  BY DEF EmitSend, Idle, readerVars
<1>2. TypeOK /\ Channels /\ Len(todo) > 0 /\ Current = todo[1] /\ e \in Event /\ ~Recorded(c)
  BY <1>1, CurrentTask DEF IInv, Recorded
<1>3. /\ sent' \in [Conns -> Seq(Event)]
      /\ sent'[c] = Append(sent[c], e)
      /\ \A d \in Conns \ {c} : sent'[d] = sent[d]
      /\ Below(next, sent'[c]) /\ UpTo(todo[1].ev.no, sent'[c])
      /\ Newer(e, sent[c])
  BY <1>1, <1>2, RecordKeeps
<1>4. todo' \in Seq(Task) /\ Queue' /\ Numbers' /\ Ahead'
  <2>1. sent'[c] \in Seq(Event)
    BY <1>3
  <2> QED BY <1>1, <1>2, <1>3, <2>1, ServedKeeps
<1> HIDE DEF e
<1>5. out' = [out EXCEPT ![c] = Append(@, e)]
  BY <1>1, <1>2 DEF Put, e
<1>6. /\ sent \in [Conns -> Seq(Event)] /\ got \in [Conns -> Seq(Event)] /\ out \in [Conns -> Seq(Event)]
      /\ \A d \in Conns : Len(out[d]) <= OutCap
  BY <1>2 DEF TypeOK
<1>7. /\ out' \in [Conns -> Seq(Event)]
      /\ out'[c] = Append(out[c], e)
      /\ \A d \in Conns \ {c} : out'[d] = out[d]
  BY <1>2, <1>5, <1>6
<1>8. \A d \in Conns : Len(out'[d]) <= OutCap
  <2>1. Len(out'[c]) = Len(out[c]) + 1 /\ Len(out[c]) \in Nat
    BY <1>2, <1>6, <1>7, Appended
  <2>2. Len(out'[c]) <= OutCap
    BY <1>1, <2>1, CapNat
  <2> QED BY <1>6, <1>7, <2>2
<1>9. TypeOK'
  BY <1>1, <1>2, <1>3, <1>4, <1>7, <1>8 DEF TypeOK, Task
<1>10. Holding' /\ Room'
  BY <1>1 DEF Holding, Room
<1>11. Channels'
  <2> SUFFICES ASSUME NEW d \in Conns PROVE Channel(sent'[d], got'[d], out'[d], 0)
    BY <1>1 DEF Channels, P, Recorded
  <2>1. Channel(sent[d], got[d], out[d], 0)
    BY <1>1, <1>2 DEF Channels, P, Recorded
  <2>2. CASE d = c
    <3>1. sent[c] \in Seq(Event) /\ got[c] \in Seq(Event) /\ out[c] \in Seq(Event) /\ e \in Event
      BY <1>2, <1>6
    <3>2. Channel(sent[c], got[c], out[c], 0) /\ Newer(e, sent[c])
      BY <1>3, <2>1, <2>2
    <3>3. Channel(Append(sent[c], e), got[c], Append(out[c], e), 0)
      BY <3>1, <3>2, ChannelSend
    <3> QED BY <1>1, <1>3, <1>7, <2>2, <3>3
  <2>3. CASE d # c
    BY <1>1, <1>3, <1>7, <2>1, <2>3
  <2> QED BY <2>2, <2>3
<1> QED BY <1>4, <1>9, <1>10, <1>11 DEF IInv

LEMMA FullKeeps ==
  ASSUME IInv, NEW c \in Conns, EmitFull(c)
  PROVE  IInv'
<1> DEFINE e == todo[1].ev
<1>1. /\ todo # <<>> /\ step = "send" /\ c \in Current.to /\ Len(out[c]) >= OutCap
      /\ step' = "full" /\ cur' = c /\ Record(c)
      /\ UNCHANGED <<user, seat, open, out, todo, next, reader, hung, got>>
  BY DEF EmitFull, Idle, readerVars
<1>2. TypeOK /\ Queue /\ Numbers /\ Ahead /\ Channels
      /\ Len(todo) > 0 /\ Current = todo[1] /\ e \in Event /\ ~Recorded(c)
  BY <1>1, CurrentTask DEF IInv, Recorded
<1>3. /\ sent' \in [Conns -> Seq(Event)]
      /\ sent'[c] = Append(sent[c], e)
      /\ \A d \in Conns \ {c} : sent'[d] = sent[d]
      /\ Below(next, sent'[c]) /\ UpTo(e.no, sent'[c])
      /\ Newer(e, sent[c])
  BY <1>1, <1>2, RecordKeeps
<1>4. /\ sent \in [Conns -> Seq(Event)] /\ got \in [Conns -> Seq(Event)] /\ out \in [Conns -> Seq(Event)]
  BY <1>2 DEF TypeOK
<1>5. TypeOK'
  BY <1>1, <1>2, <1>3 DEF TypeOK
<1>6. Queue'
  BY <1>1, <1>2 DEF Queue
<1>7. Numbers'
  BY <1>1, <1>2, <1>3 DEF Numbers
<1>8. Ahead'
  <2> SUFFICES ASSUME NEW d \in todo[1].to, d # c PROVE Newer(todo[1].ev, sent'[d])
    BY <1>1 DEF Ahead, Recorded
  <2>1. d \in Conns
    BY <1>1, <1>2, CurrentTask
  <2>2. sent'[d] = sent[d] /\ ~Recorded(d)
    BY <1>1, <1>3, <2>1 DEF Recorded
  <2> QED BY <1>2, <2>2 DEF Ahead
<1>9. Holding'
  <2>1. Len(sent'[c]) > 0 /\ sent'[c][Len(sent'[c])] = e
    <3>1. /\ Len(sent'[c]) = Len(sent[c]) + 1 /\ Len(sent[c]) \in Nat
          /\ sent'[c][Len(sent[c]) + 1] = e
      BY <1>2, <1>3, <1>4, Appended
    <3> QED BY <3>1
  <2> QED BY <1>1, <1>2, <2>1 DEF Holding
<1>10. /\ Channel(sent'[c], got[c], out[c], 1)
       /\ Lost(sent'[c], got[c], out[c], 1) + OutCap + 1 <= Len(sent'[c])
  <2>1. Channel(sent[c], got[c], out[c], 0)
    BY <1>1, <1>2 DEF Channels, P, Recorded
  <2> QED BY <1>1, <1>2, <1>3, <1>4, <2>1, ChannelRecord
<1>11. Room'
  BY <1>1, <1>10 DEF Room
<1>12. Channels'
  <2> SUFFICES ASSUME NEW d \in Conns PROVE Channel(sent'[d], got[d], out[d], P(d)')
    BY <1>1 DEF Channels
  <2>1. CASE d = c
    BY <1>1, <1>10, <2>1 DEF P, Recorded
  <2>2. CASE d # c
    BY <1>1, <1>2, <1>3, <2>2 DEF Channels, P, Recorded
  <2> QED BY <2>1, <2>2
<1> QED BY <1>5, <1>6, <1>7, <1>8, <1>9, <1>11, <1>12 DEF IInv

LEMMA DropKeeps ==
  ASSUME IInv, DropOldest
  PROVE  IInv'
<1> DEFINE o == out[cur]
           r == IF o = <<>> THEN o ELSE Tail(o)
<1>1. /\ step = "full" /\ step' = "freed" /\ out' = [out EXCEPT ![cur] = r]
      /\ UNCHANGED <<user, seat, open, todo, cur, next, sent, reader, hung, got>>
  BY DEF DropOldest, readerVars
<1>2. TypeOK /\ Queue /\ Numbers /\ Ahead /\ Holding /\ Room /\ Channels
  BY DEF IInv
<1>3. /\ sent \in [Conns -> Seq(Event)] /\ got \in [Conns -> Seq(Event)] /\ out \in [Conns -> Seq(Event)]
      /\ \A d \in Conns : Len(out[d]) <= OutCap
      /\ cur \in Conns
  BY <1>2 DEF TypeOK
<1>4. Channel(sent[cur], got[cur], o, 1) /\ Lost(sent[cur], got[cur], o, 1) + OutCap + 1 <= Len(sent[cur])
  BY <1>1, <1>2, <1>3 DEF Channels, Room, P, Recorded
<1>5. /\ r \in Seq(Event) /\ Len(r) < OutCap
      /\ Channel(sent[cur], got[cur], r, 1)
  <2>1. CASE o = <<>>
    <3>1. Len(o) = 0
      BY <2>1
    <3> QED BY <1>3, <1>4, <2>1, <3>1, CapNat
  <2>2. CASE o # <<>>
    <3>1. o \in Seq(Event) /\ sent[cur] \in Seq(Event) /\ got[cur] \in Seq(Event) /\ Len(o) <= OutCap
      BY <1>3
    <3>2. Tail(o) \in Seq(Event) /\ Len(Tail(o)) = Len(o) - 1 /\ Len(o) \in Nat
      BY <2>2, <3>1, Taken
    <3>3. Channel(sent[cur], got[cur], Tail(o), 1)
      BY <1>4, <2>2, <3>1, ChannelDrop
    <3> QED BY <2>2, <3>1, <3>2, <3>3, CapNat
  <2> QED BY <2>1, <2>2
<1> HIDE DEF o, r
<1>6. /\ out' \in [Conns -> Seq(Event)] /\ out'[cur] = r
      /\ \A d \in Conns \ {cur} : out'[d] = out[d]
  BY <1>1, <1>3, <1>5
<1>7. \A d \in Conns : Len(out'[d]) <= OutCap
  <2>1. Len(out'[cur]) <= OutCap
    BY <1>5, <1>6, CapNat
  <2> QED BY <1>3, <1>6, <2>1
<1>8. TypeOK'
  BY <1>1, <1>2, <1>6, <1>7 DEF TypeOK
<1>9. Queue' /\ Numbers' /\ Ahead' /\ Holding'
  BY <1>1, <1>2 DEF Queue, Numbers, Ahead, Holding, Recorded
<1>10. Room'
  BY <1>1, <1>5, <1>6 DEF Room
<1>11. Channels'
  <2> SUFFICES ASSUME NEW d \in Conns PROVE Channel(sent[d], got[d], out'[d], P(d)')
    BY <1>1 DEF Channels
  <2>1. CASE d = cur
    BY <1>1, <1>5, <1>6, <2>1 DEF P, Recorded
  <2>2. CASE d # cur
    BY <1>1, <1>2, <1>6, <2>2 DEF Channels, P, Recorded
  <2> QED BY <2>1, <2>2
<1> QED BY <1>8, <1>9, <1>10, <1>11 DEF IInv

LEMMA AgainKeeps ==
  ASSUME IInv, EmitAgain
  PROVE  IInv'
<1> DEFINE e == todo[1].ev
<1>1. /\ step = "freed" /\ step' = "send" /\ Served(cur)
      /\ IF Len(out[cur]) < OutCap THEN Put(cur) ELSE UNCHANGED out
      /\ UNCHANGED <<user, seat, open, next, sent, reader, hung, got>> /\ cur' = SomeConn
  BY DEF EmitAgain, readerVars
<1>2. TypeOK /\ Numbers /\ Holding /\ Room /\ Channels
  BY DEF IInv
<1>3. Len(todo) > 0 /\ cur \in todo[1].to /\ Len(sent[cur]) > 0 /\ sent[cur][Len(sent[cur])] = e
  BY <1>1, <1>2 DEF Holding
<1>4. todo # <<>>
  BY <1>3
<1>5. Current = todo[1] /\ e \in Event
  BY <1>2, <1>4, CurrentTask
<1>6. /\ sent \in [Conns -> Seq(Event)] /\ got \in [Conns -> Seq(Event)] /\ out \in [Conns -> Seq(Event)]
      /\ \A d \in Conns : Len(out[d]) <= OutCap
      /\ cur \in Conns /\ SomeConn \in Conns
  BY <1>2, DeliveryAssumption DEF TypeOK, SomeConn
<1>7. Len(out[cur]) < OutCap
  BY <1>1, <1>2 DEF Room
<1>8. todo' \in Seq(Task) /\ Queue' /\ Numbers' /\ Ahead'
  <2>1. sent'[cur] \in Seq(Event)
    BY <1>1, <1>6
  <2>2. Below(next, sent'[cur]) /\ UpTo(e.no, sent'[cur])
    BY <1>1, <1>2, <1>3, <1>6 DEF Numbers
  <2>3. \A d \in Conns \ {cur} : sent'[d] = sent[d]
    BY <1>1
  <2> QED BY <1>1, <1>3, <2>1, <2>2, <2>3, ServedKeeps
<1> HIDE DEF e
<1>9. out' = [out EXCEPT ![cur] = Append(@, e)]
  BY <1>1, <1>5, <1>7 DEF Put, e
<1>10. /\ out' \in [Conns -> Seq(Event)] /\ out'[cur] = Append(out[cur], e)
       /\ \A d \in Conns \ {cur} : out'[d] = out[d]
  BY <1>5, <1>6, <1>9
<1>11. \A d \in Conns : Len(out'[d]) <= OutCap
  <2>1. Len(out'[cur]) = Len(out[cur]) + 1 /\ Len(out[cur]) \in Nat
    BY <1>5, <1>6, <1>10, Appended
  <2>2. Len(out'[cur]) <= OutCap
    BY <1>7, <2>1, CapNat
  <2> QED BY <1>6, <1>10, <2>2
<1>12. TypeOK'
  BY <1>1, <1>2, <1>6, <1>8, <1>10, <1>11 DEF TypeOK, Task
<1>13. Holding' /\ Room'
  BY <1>1 DEF Holding, Room
<1>14. Channels'
  <2> SUFFICES ASSUME NEW d \in Conns PROVE Channel(sent[d], got[d], out'[d], 0)
    BY <1>1 DEF Channels, P, Recorded
  <2>1. CASE d = cur
    <3>1. sent[cur] \in Seq(Event) /\ got[cur] \in Seq(Event) /\ out[cur] \in Seq(Event)
      BY <1>6
    <3>2. Channel(sent[cur], got[cur], out[cur], 1)
      BY <1>1, <1>2, <1>6 DEF Channels, P, Recorded
    <3>3. Channel(sent[cur], got[cur], Append(out[cur], e), 0)
      BY <1>3, <1>5, <3>1, <3>2, ChannelAgain DEF e
    <3> QED BY <1>10, <2>1, <3>3
  <2>2. CASE d # cur
    BY <1>1, <1>2, <1>10, <2>2 DEF Channels, P, Recorded
  <2> QED BY <2>1, <2>2
<1> QED BY <1>8, <1>12, <1>13, <1>14 DEF IInv

\* A reader takes the event e, the oldest of its channel.
Taking(c, e) ==
  /\ out[c] # <<>> /\ e = Head(out[c])
  /\ got' = [got EXCEPT ![c] = Append(@, e)]
  /\ out' = [out EXCEPT ![c] = Tail(@)]
  /\ UNCHANGED <<todo, step, cur, next, sent>>

LEMMA ReceiveTakes ==
  ASSUME NEW c \in Conns, Receive(c)
  PROVE  Taking(c, Head(out[c]))
BY DEF Receive, Taking, loopVars

LEMMA TakingChannels ==
  ASSUME IInv, NEW c \in Conns, NEW e, Taking(c, e)
  PROVE  /\ e \in Event
         /\ got' \in [Conns -> Seq(Event)] /\ out' \in [Conns -> Seq(Event)]
         /\ \A d \in Conns : Len(out'[d]) <= Len(out[d])
         /\ \A d \in Conns : Channel(sent[d], got'[d], out'[d], P(d))
         /\ \A d \in Conns : Lost(sent[d], got'[d], out'[d], P(d)) = Lost(sent[d], got[d], out[d], P(d))
         /\ \E k \in 1..Len(sent[c]) :
              /\ e = sent[c][k] /\ Newer(sent[c][k], got[c])
              /\ (k - 1 - Len(got[c]) = 0) \/ (k - 1 - Len(got[c]) + OutCap <= Len(sent[c]))
<1> DEFINE o == out[c]  g == got[c]  s == sent[c]
<1>1. /\ o # <<>> /\ e = Head(o)
      /\ got' = [got EXCEPT ![c] = Append(@, e)]
      /\ out' = [out EXCEPT ![c] = Tail(@)]
      /\ UNCHANGED <<todo, step, cur, next, sent>>
  BY DEF Taking
<1>2. /\ sent \in [Conns -> Seq(Event)] /\ got \in [Conns -> Seq(Event)] /\ out \in [Conns -> Seq(Event)]
      /\ Channels
  BY DEF IInv, TypeOK
<1>3. s \in Seq(Event) /\ g \in Seq(Event) /\ o \in Seq(Event)
  BY <1>2
<1>4. Channel(s, g, o, P(c)) /\ P(c) \in {0, 1}
  BY <1>2 DEF Channels, P
<1>5. /\ e \in Event /\ Tail(o) \in Seq(Event) /\ Append(g, e) \in Seq(Event)
      /\ Len(Tail(o)) <= Len(o)
  <2>1. /\ e \in Event /\ Tail(o) \in Seq(Event)
        /\ Len(Tail(o)) = Len(o) - 1 /\ Len(o) \in Nat
    BY <1>1, <1>3, Taken
  <2>2. Append(g, e) \in Seq(Event)
    BY <1>3, <2>1
  <2>3. Len(Tail(o)) <= Len(o)
    BY <2>1
  <2> QED BY <2>1, <2>2, <2>3
<1>6. /\ Channel(s, Append(g, e), Tail(o), P(c))
      /\ Lost(s, Append(g, e), Tail(o), P(c)) = Lost(s, g, o, P(c))
      /\ \E k \in 1..Len(s) :
           /\ e = s[k] /\ Newer(s[k], g)
           /\ (k - 1 - Len(g) = 0) \/ (k - 1 - Len(g) + OutCap <= Len(s))
  BY <1>1, <1>3, <1>4, ChannelTake
<1>7. /\ got'[c] = Append(g, e) /\ out'[c] = Tail(o)
      /\ \A d \in Conns \ {c} : got'[d] = got[d] /\ out'[d] = out[d]
  BY <1>1, <1>2
<1> HIDE DEF o, g, s
<1>8. got' \in [Conns -> Seq(Event)] /\ out' \in [Conns -> Seq(Event)]
  BY <1>1, <1>2, <1>5 DEF o, g
<1>9. \A d \in Conns : Len(out'[d]) <= Len(out[d])
  <2>1. \A d \in Conns : Len(out[d]) \in Nat
    BY <1>2
  <2> SUFFICES ASSUME NEW d \in Conns PROVE Len(out'[d]) <= Len(out[d])
    OBVIOUS
  <2>2. CASE d = c
    BY <1>5, <1>7, <2>2 DEF o
  <2>3. CASE d # c
    BY <1>7, <2>1, <2>3
  <2> QED BY <2>2, <2>3
<1>10. \A d \in Conns : Channel(sent[d], got'[d], out'[d], P(d))
  <2> SUFFICES ASSUME NEW d \in Conns PROVE Channel(sent[d], got'[d], out'[d], P(d))
    OBVIOUS
  <2>1. CASE d = c
    BY <1>6, <1>7, <2>1 DEF s
  <2>2. CASE d # c
    BY <1>2, <1>7, <2>2 DEF Channels
  <2> QED BY <2>1, <2>2
<1>11. \A d \in Conns : Lost(sent[d], got'[d], out'[d], P(d)) = Lost(sent[d], got[d], out[d], P(d))
  <2> SUFFICES ASSUME NEW d \in Conns
               PROVE  Lost(sent[d], got'[d], out'[d], P(d)) = Lost(sent[d], got[d], out[d], P(d))
    OBVIOUS
  <2>1. CASE d = c
    BY <1>6, <1>7, <2>1 DEF s, o, g
  <2>2. CASE d # c
    BY <1>7, <2>2
  <2> QED BY <2>1, <2>2
<1>12. \E k \in 1..Len(s) :
         /\ e = s[k] /\ Newer(s[k], g)
         /\ (k - 1 - Len(g) = 0) \/ (k - 1 - Len(g) + OutCap <= Len(s))
  BY <1>6
<1> QED BY <1>5, <1>8, <1>9, <1>10, <1>11, <1>12 DEF s, g

LEMMA ReceiveKeeps ==
  ASSUME IInv, NEW c \in Conns, Receive(c)
  PROVE  IInv'
<1>1. Taking(c, Head(out[c]))
  BY ReceiveTakes
<1>2. /\ got' \in [Conns -> Seq(Event)] /\ out' \in [Conns -> Seq(Event)]
      /\ \A d \in Conns : Len(out'[d]) <= Len(out[d])
      /\ \A d \in Conns : Channel(sent[d], got'[d], out'[d], P(d))
      /\ \A d \in Conns : Lost(sent[d], got'[d], out'[d], P(d)) = Lost(sent[d], got[d], out[d], P(d))
  BY <1>1, TakingChannels
<1>3. UNCHANGED <<todo, step, cur, next, sent>>
  BY <1>1 DEF Taking
<1>4. UNCHANGED <<user, seat, open, hung>>
  BY DEF Receive, loopVars
<1>5. TypeOK /\ Queue /\ Numbers /\ Ahead /\ Holding /\ Room
  BY DEF IInv
<1>6. out \in [Conns -> Seq(Event)] /\ (\A d \in Conns : Len(out[d]) <= OutCap) /\ cur \in Conns
  BY <1>5 DEF TypeOK
<1>7. \A d \in Conns : Len(out'[d]) \in Nat /\ Len(out[d]) \in Nat
  BY <1>2, <1>6
<1>8. \A d \in Conns : Len(out'[d]) <= OutCap
  BY <1>2, <1>6, <1>7, CapNat
<1>9. reader' \in [Conns -> {"none", "await", "flush", "drain", "stopped"}]
  BY <1>5 DEF Receive, TypeOK
<1>10. TypeOK'
  BY <1>2, <1>3, <1>4, <1>5, <1>8, <1>9 DEF TypeOK
<1>11. Queue' /\ Numbers' /\ Ahead' /\ Holding'
  BY <1>3, <1>5 DEF Queue, Numbers, Ahead, Holding, Recorded
<1>12. Room'
  <2>1. CASE step = "full"
    <3>1. P(cur) = 1
      BY <2>1 DEF P, Recorded
    <3> QED BY <1>2, <1>3, <1>5, <1>6, <2>1, <3>1 DEF Room
  <2>2. CASE step = "freed"
    <3>1. Len(out[cur]) < OutCap
      BY <1>5, <2>2 DEF Room
    <3>2. Len(out'[cur]) <= Len(out[cur])
      BY <1>2, <1>6
    <3>3. Len(out'[cur]) < OutCap
      BY <1>6, <1>7, <3>1, <3>2, CapNat
    <3> QED BY <1>3, <2>2, <3>3 DEF Room
  <2> QED BY <1>3, <2>1, <2>2 DEF Room
<1>13. Channels'
  BY <1>2, <1>3 DEF Channels, P, Recorded
<1> QED BY <1>10, <1>11, <1>12, <1>13 DEF IInv

LEMMA EnterKeeps ==
  ASSUME IInv, NEW c \in Conns, HandleEnter(c)
  PROVE  IInv'
<1>1. /\ todo = <<>> /\ next + 1 <= MaxEvents /\ next' = next + 2
      /\ seat' = [seat EXCEPT ![c] = "in"]
      /\ UNCHANGED <<user, open, out, step, cur, sent, reader, hung, got>>
  BY DEF HandleEnter, Idle, readerVars
<1>2. PICK others \in SUBSET Seated :
        todo' = For(Ev(next, "card", c), {c}) \o For(Ev(next + 1, "seated", c), {c} \cup others)
  BY DEF HandleEnter
<1>3. TypeOK /\ next \in Nat \ {0} /\ MaxEvents \in Nat
  BY DeliveryAssumption DEF IInv, TypeOK
<1> DEFINE A == Ev(next, "card", c)  B == Ev(next + 1, "seated", c)
           T == {c}  U == {c} \cup others
           x == [ev |-> A, to |-> T]
           y == [ev |-> B, to |-> U]
<1>4. /\ next \in 1..MaxEvents /\ next + 1 \in 1..MaxEvents /\ next' \in Nat \ {0} /\ next' >= next
  BY <1>1, <1>3
<1>5. T \in SUBSET Conns /\ T # {} /\ U \in SUBSET Conns /\ U # {}
  BY DEF Seated
<1> HIDE DEF T, U
<1>6. /\ x.ev.no = next /\ x \in Task /\ For(A, T) = <<x>>
      /\ y.ev.no = next + 1 /\ y \in Task /\ For(B, U) = <<y>>
  <2>1. A \in Event /\ A.no = next /\ For(A, T) = <<x>>
    BY <1>4, <1>5, NewTask
  <2>2. B \in Event /\ B.no = next + 1 /\ For(B, U) = <<y>>
    BY <1>4, <1>5, NewTask
  <2> HIDE DEF A, B
  <2> QED BY <1>5, <2>1, <2>2 DEF Task
<1>7. todo' = For(A, T) \o For(B, U)
  BY <1>2 DEF T, U
<1> HIDE DEF A, B, x, y
<1>8. /\ todo' \in Seq(Task) /\ Len(todo') = 2 /\ todo'[1] = x /\ todo'[2] = y
  <2>1. ASSUME NEW q \in Seq(Task), NEW r \in Seq(Task), Len(q) = 1, Len(r) = 1
        PROVE  /\ q \o r \in Seq(Task) /\ Len(q \o r) = 2
               /\ (q \o r)[1] = q[1] /\ (q \o r)[2] = r[1]
    BY <2>1, ConcatProperties
  <2>2. \A v \in Task : <<v>> \in Seq(Task) /\ Len(<<v>>) = 1 /\ <<v>>[1] = v
    OBVIOUS
  <2> QED BY <1>6, <1>7, <2>1, <2>2
<1>9. \A i \in 1..Len(todo') : i = 1 \/ i = 2
  BY <1>8
<1>10. /\ \A i \in 1..Len(todo') : todo'[i].ev.no >= next /\ todo'[i].ev.no < next'
       /\ \A i, j \in 1..Len(todo') : i < j => todo'[i].ev.no < todo'[j].ev.no
  <2>1. todo'[1].ev.no = next /\ todo'[2].ev.no = next + 1
    BY <1>6, <1>8
  <2>2. \A i \in 1..Len(todo') : todo'[i].ev.no = next - 1 + i
    <3> SUFFICES ASSUME NEW i \in 1..Len(todo') PROVE todo'[i].ev.no = next - 1 + i
      OBVIOUS
    <3>1. CASE i = 1
      BY <1>3, <2>1, <3>1
    <3>2. CASE i = 2
      BY <1>3, <2>1, <3>2
    <3> QED BY <1>9, <3>1, <3>2
  <2>3. ASSUME NEW i \in 1..Len(todo')
        PROVE  todo'[i].ev.no >= next /\ todo'[i].ev.no < next'
    BY <1>1, <1>3, <1>9, <2>2
  <2>4. ASSUME NEW i \in 1..Len(todo'), NEW j \in 1..Len(todo'), i < j
        PROVE  todo'[i].ev.no < todo'[j].ev.no
    BY <1>3, <1>9, <2>2, <2>4
  <2> QED BY <2>3, <2>4
<1>11. UNCHANGED <<out, step, cur, sent, got>>
  BY <1>1
<1>12. next' \in Nat
  BY <1>4
<1>13. Queue' /\ Numbers' /\ Ahead' /\ Holding' /\ Room' /\ Channels'
  BY <1>1, <1>4, <1>8, <1>10, <1>11, <1>12, StartKeeps
<1>14. TypeOK'
  BY <1>1, <1>3, <1>4, <1>8 DEF TypeOK, Task
<1> QED BY <1>13, <1>14 DEF IInv

\* One event for whoever is meant.
LEMMA OneKeeps ==
  ASSUME IInv, NEW c \in Conns, NEW T \in SUBSET Conns,
         todo = <<>>, next <= MaxEvents, next' = next + 1,
         todo' = For(Ev(next, "text", c), T),
         UNCHANGED <<out, step, cur, sent, got>>
  PROVE  /\ todo' \in Seq(Task) /\ next' \in Nat \ {0}
         /\ Queue' /\ Numbers' /\ Ahead' /\ Holding' /\ Room' /\ Channels'
<1> DEFINE x == [ev |-> Ev(next, "text", c), to |-> T]
<1>1. next \in Nat \ {0} /\ MaxEvents \in Nat
  BY DeliveryAssumption DEF IInv, TypeOK
<1>2. next \in 1..MaxEvents /\ next' \in Nat /\ next' # 0 /\ next' >= next
  BY <1>1
<1>3. /\ todo' \in Seq(Task) /\ x.ev.no = next
      /\ T # {} => todo' = <<x>>
      /\ T = {} => todo' = <<>>
  BY <1>2, NewTask
<1> HIDE DEF x
<1>4. Len(todo') \in {0, 1} /\ (Len(todo') = 1 => todo'[1] = x)
  BY <1>3
<1>5. \A i \in 1..Len(todo') : i = 1 /\ todo'[i] = x
  BY <1>4
<1>6. \A i \in 1..Len(todo') : todo'[i].ev.no >= next /\ todo'[i].ev.no < next'
  BY <1>1, <1>3, <1>5
<1>7. \A i, j \in 1..Len(todo') : i < j => todo'[i].ev.no < todo'[j].ev.no
  BY <1>5
<1>8. Queue' /\ Numbers' /\ Ahead' /\ Holding' /\ Room' /\ Channels'
  BY <1>2, <1>3, <1>6, <1>7, StartKeeps
<1> QED BY <1>2, <1>3, <1>8

LEMMA SayKeeps ==
  ASSUME IInv, NEW c \in Conns, HandleSay(c) \/ HandleLeave(c)
  PROVE  IInv'
<1>1. /\ todo = <<>> /\ next <= MaxEvents /\ next' = next + 1
      /\ UNCHANGED <<user, open, out, step, cur, sent, reader, hung, got>>
      /\ seat' \in {seat, [seat EXCEPT ![c] = "left"]}
  BY DEF HandleSay, HandleLeave, Idle, readerVars
<1>2. PICK T \in SUBSET Conns : todo' = For(Ev(next, "text", c), T)
  <2>1. CASE HandleSay(c)
    <3>1. PICK others \in SUBSET Seated : todo' = For(Ev(next, "text", c), {c} \cup others)
      BY <2>1 DEF HandleSay
    <3>2. ({c} \cup others) \in SUBSET Conns
      BY DEF Seated
    <3> QED BY <3>1, <3>2
  <2>2. CASE HandleLeave(c)
    <3>1. PICK others \in SUBSET (Seated \ {c}) : todo' = For(Ev(next, "text", c), others)
      BY <2>2 DEF HandleLeave
    <3>2. others \in SUBSET Conns
      BY DEF Seated
    <3> QED BY <3>1, <3>2
  <2> QED BY <2>1, <2>2
<1>3. UNCHANGED <<out, step, cur, sent, got>>
  BY <1>1
<1>4. /\ todo' \in Seq(Task) /\ next' \in Nat \ {0}
      /\ Queue' /\ Numbers' /\ Ahead' /\ Holding' /\ Room' /\ Channels'
  BY <1>1, <1>2, <1>3, OneKeeps
<1>5. TypeOK'
  BY <1>1, <1>4 DEF IInv, TypeOK, Task
<1> QED BY <1>4, <1>5 DEF IInv

LEMMA StepKeeps ==
  ASSUME IInv, [Next]_vars
  PROVE  IInv'
<1>1. ASSUME NEW c \in Conns,
             EmitNowhere(c) \/ EmitSend(c) \/ EmitFull(c)
      PROVE  IInv'
  BY <1>1, NowhereKeeps, SendKeeps, FullKeeps
<1>2. ASSUME NEW c \in Conns,
             HandleEnter(c) \/ HandleSay(c) \/ HandleLeave(c) \/ Receive(c)
      PROVE  IInv'
  BY <1>2, EnterKeeps, SayKeeps, ReceiveKeeps
<1>3. ASSUME NEW c \in Conns,
             \/ HandleAttach(c) \/ HandleDetach(c) \/ SubmitEnter(c) \/ Prompt(c)
             \/ AwaitFails(c) \/ ReaderStops(c) \/ HangUp(c)
      PROVE  IInv'
  BY <1>3, QuietIsQuiet, QuietKeeps
<1>4. CASE UNCHANGED vars
  BY <1>4, SameKeeps
<1> QED BY <1>1, <1>2, <1>3, <1>4, DropKeeps, AgainKeeps DEF Next, Emit

THEOREM Inductive == Spec => []IInv
<1>1. Init => IInv
  BY InitInv
<1>2. IInv /\ [Next]_vars => IInv'
  BY StepKeeps
<1> QED BY <1>1, <1>2, PTL DEF Spec

\* No connection ever has more waiting than its channel holds, and emit always
\* knows what it is doing, whatever the readers do.  (OutboundSize, emit)
THEOREM TypeCorrect == Spec => []TypeOK
<1>1. IInv => TypeOK
  BY DEF IInv
<1> QED BY <1>1, Inductive, PTL

\* emit never loses the event it was called for.  (the three selects of emit)
THEOREM NewestNeverLost == Spec => []NewestKept
<1>1. ASSUME IInv PROVE NewestKept
  <2> SUFFICES ASSUME NEW c \in Conns, sent[c] # <<>>, step = "send" \/ cur # c
               PROVE  Last(sent[c]) \in ToSet(got[c]) \cup ToSet(out[c])
    BY DEF NewestKept, Took, Waiting
  <2> DEFINE s == sent[c]  o == out[c]  g == got[c]
  <2>1. s \in Seq(Event) /\ o \in Seq(Event) /\ g \in Seq(Event)
    BY <1>1 DEF IInv, TypeOK
  <2>2. Channel(s, g, o, 0)
    BY <1>1 DEF IInv, Channels, P, Recorded
  <2> HIDE DEF s, o, g
  <2>3. Len(s) > 0 /\ Len(s) \in Nat /\ Len(o) \in Nat /\ Len(g) \in Nat
    BY <2>1 DEF s
  <2>4. CASE Len(o) > 0
    <3>1. Len(o) \in 1..Len(o) /\ Len(s) - 0 - Len(o) + Len(o) = Len(s)
      BY <2>3, <2>4
    <3>2. o[Len(o)] = s[Len(s)]
      BY <2>2, <3>1 DEF Channel, Suffix
    <3>3. o[Len(o)] \in ToSet(o)
      BY <3>1 DEF ToSet
    <3> QED BY <3>2, <3>3 DEF Last, s, o
  <2>5. CASE Len(o) = 0
    <3>1. Len(g) > 0 /\ g[Len(g)] = s[Len(s)]
      BY <2>2, <2>3, <2>5 DEF Channel, NewestRead
    <3>2. g[Len(g)] \in ToSet(g)
      BY <2>3, <3>1 DEF ToSet
    <3> QED BY <3>1, <3>2 DEF Last, s, g
  <2> QED BY <2>3, <2>4, <2>5
<1> QED BY <1>1, Inductive, PTL

-----------------------------------------------------------------------------
(* The room card comes before anything else. *)

\* Nothing is for a connection that is not seated, and its channel is there
\* when it is.
Unseen ==
  \A c \in Conns : seat[c] \in {"out", "queued"} =>
    /\ sent[c] = <<>> /\ (seat[c] = "queued" => open[c] = "open")
    /\ \A i \in 1..Len(todo) : c \notin todo[i].to

OwnCard(c, e) == e.kind = "card" /\ e.who = c

\* While nothing was emitted to a seated player, its card is what emit is at.
Awaited ==
  \A c \in Conns : seat[c] \in {"in", "left"} /\ sent[c] = <<>> =>
    /\ open[c] = "open" /\ Len(todo) > 0
    /\ todo[1].to = {c} /\ OwnCard(c, todo[1].ev)

CardFirst == \A c \in Conns : sent[c] # <<>> => OwnCard(c, sent[c][1])

\* The first event read is the first emitted, unless there were more than wait.
ReadInOrder ==
  \A c \in Conns : got[c] # <<>> => got[c][1] = sent[c][1] \/ Len(sent[c]) > OutCap

\* Who has stopped waiting to be seated has read something.
SeatedReads ==
  \A c \in Conns : reader[c] = "flush" \/ (c \in Telnet /\ reader[c] = "drain") => got[c] # <<>>

Opening == Unseen /\ Awaited /\ CardFirst /\ ReadInOrder /\ SeatedReads

LEMMA OpeningInit == Init => Opening
BY DEF Init, Opening, Unseen, Awaited, CardFirst, ReadInOrder, SeatedReads

\* Steps that emit and read nothing, and start nothing.
LEMMA OpeningQuiet ==
  ASSUME IInv, Opening, QuietStep
  PROVE  Opening'
<1>1. PICK c \in Conns :
       \/ HandleAttach(c) \/ HandleDetach(c) \/ SubmitEnter(c) \/ Prompt(c)
       \/ AwaitFails(c) \/ ReaderStops(c) \/ HangUp(c)
  BY DEF QuietStep
<1>2. UNCHANGED <<todo, sent, got>>
  BY DEF QuietStep
<1>3. /\ seat \in [Conns -> {"out", "queued", "in", "left"}]
      /\ open \in [Conns -> {"none", "open", "closed"}]
      /\ reader \in [Conns -> {"none", "await", "flush", "drain", "stopped"}]
  BY DEF IInv, TypeOK
<1>4. /\ \A d \in Conns : seat'[d] = seat[d] \/ (seat[d] = "out" /\ seat'[d] = "queued" /\ open'[d] = "open")
      /\ \A d \in Conns : open'[d] = open[d] \/ open[d] = "none"
                          \/ (todo = <<>> /\ seat[d] # "queued")
      /\ \A d \in Conns : reader'[d] = reader[d] \/ reader'[d] \in {"await", "stopped"}
                          \/ (d \notin Telnet /\ reader'[d] = "drain")
                          \/ (reader[d] = "flush" /\ reader'[d] = "drain")
  BY <1>1, <1>3 DEF HandleAttach, HandleDetach, SubmitEnter, Prompt, AwaitFails, ReaderStops,
                    HangUp, Idle, loopVars, readerVars
<1>5. Len(<<>>) = 0
  OBVIOUS
<1>6. Unseen' /\ Awaited'
  BY <1>2, <1>3, <1>4, <1>5 DEF Opening, Unseen, Awaited
<1>7. CardFirst' /\ ReadInOrder'
  BY <1>2 DEF Opening, CardFirst, ReadInOrder
<1>8. SeatedReads'
  BY <1>2, <1>3, <1>4 DEF Opening, SeatedReads
<1> QED BY <1>6, <1>7, <1>8 DEF Opening

\* A player comes in: its card goes ahead of all else.
LEMMA OpeningEnter ==
  ASSUME IInv, Opening, NEW c \in Conns, HandleEnter(c)
  PROVE  Opening'
<1>1. /\ todo = <<>> /\ next + 1 <= MaxEvents /\ seat[c] = "queued"
      /\ seat' = [seat EXCEPT ![c] = "in"]
      /\ UNCHANGED <<open, sent, reader, got>>
  BY DEF HandleEnter, Idle, readerVars
<1>2. PICK others \in SUBSET Seated :
        todo' = For(Ev(next, "card", c), {c}) \o For(Ev(next + 1, "seated", c), {c} \cup others)
  BY DEF HandleEnter
<1>3. seat \in [Conns -> {"out", "queued", "in", "left"}]
  BY DEF IInv, TypeOK
<1> DEFINE x == [ev |-> Ev(next, "card", c), to |-> {c}]
           y == [ev |-> Ev(next + 1, "seated", c), to |-> {c} \cup others]
<1>4. todo' = <<x>> \o <<y>>
  <2>1. {c} # {} /\ {c} \cup others # {}
    OBVIOUS
  <2>2. For(Ev(next, "card", c), {c}) = <<x>> /\ For(Ev(next + 1, "seated", c), {c} \cup others) = <<y>>
    BY <2>1 DEF For
  <2> HIDE DEF x, y
  <2> QED BY <1>2, <2>2, Zenon
<1>5. /\ x.to = {c} /\ OwnCard(c, x.ev)
      /\ y.to \subseteq {c} \cup Seated
  BY DEF OwnCard, Ev
<1> HIDE DEF x, y
<1>6. /\ Len(todo') = 2 /\ todo'[1] = x /\ todo'[2] = y
      /\ \A i \in 1..Len(todo') : i = 1 \/ i = 2
  <2> DEFINE S == {x, y}
  <2>1. /\ <<x>> \in Seq(S) /\ Len(<<x>>) = 1 /\ <<x>>[1] = x
        /\ <<y>> \in Seq(S) /\ Len(<<y>>) = 1 /\ <<y>>[1] = y
    <3>1. x \in S /\ y \in S
      OBVIOUS
    <3> HIDE DEF S
    <3>2. \A v \in S : <<v>> \in Seq(S) /\ Len(<<v>>) = 1 /\ <<v>>[1] = v
      OBVIOUS
    <3> QED BY <3>1, <3>2, Zenon
  <2> HIDE DEF S
  <2>2. ASSUME NEW q \in Seq(S), NEW r \in Seq(S), Len(q) = 1, Len(r) = 1
        PROVE  /\ Len(q \o r) = 2 /\ (q \o r)[1] = q[1] /\ (q \o r)[2] = r[1]
    <3>1. /\ Len(q \o r) = Len(q) + Len(r)
          /\ \A i \in 1..(Len(q) + Len(r)) : (q \o r)[i] = IF i <= Len(q) THEN q[i] ELSE r[i - Len(q)]
      BY ConcatProperties
    <3> QED BY <2>2, <3>1
  <2>3. Len(todo') = 2 /\ todo'[1] = x /\ todo'[2] = y
    BY <1>4, <2>1, <2>2
  <2> QED BY <2>3
<1>7. \A d \in Conns : seat[d] \in {"in", "left"} => sent[d] # <<>>
  <2>1. Len(todo) = 0
    BY <1>1
  <2> QED BY <2>1 DEF Opening, Awaited
<1>8. sent[c] = <<>> /\ open[c] = "open"
  BY <1>1 DEF Opening, Unseen
<1>9. Unseen'
  <2> SUFFICES ASSUME NEW d \in Conns, seat'[d] \in {"out", "queued"}
               PROVE  /\ sent'[d] = <<>> /\ (seat'[d] = "queued" => open'[d] = "open")
                      /\ \A i \in 1..Len(todo') : d \notin todo'[i].to
    BY DEF Unseen
  <2>1. d # c /\ seat[d] = seat'[d]
    BY <1>1, <1>3
  <2>2. d \notin x.to /\ d \notin y.to
    BY <1>5, <2>1 DEF Seated
  <2>3. sent[d] = <<>> /\ (seat[d] = "queued" => open[d] = "open")
    BY <2>1 DEF Opening, Unseen
  <2> QED BY <1>1, <1>6, <2>1, <2>2, <2>3
<1>10. Awaited'
  <2> SUFFICES ASSUME NEW d \in Conns, seat'[d] \in {"in", "left"}, sent'[d] = <<>>
               PROVE  /\ open'[d] = "open" /\ Len(todo') > 0
                      /\ todo'[1].to = {d} /\ OwnCard(d, todo'[1].ev)
    BY DEF Awaited
  <2>1. d = c
    BY <1>1, <1>3, <1>7
  <2> QED BY <1>1, <1>5, <1>6, <1>8, <2>1
<1>11. CardFirst' /\ ReadInOrder' /\ SeatedReads'
  BY <1>1 DEF Opening, CardFirst, ReadInOrder, SeatedReads
<1> QED BY <1>9, <1>10, <1>11 DEF Opening

\* What a player does is told to those who have their card.
LEMMA OpeningSay ==
  ASSUME IInv, Opening, NEW c \in Conns, HandleSay(c) \/ HandleLeave(c)
  PROVE  Opening'
<1>1. /\ todo = <<>> /\ seat[c] = "in"
      /\ UNCHANGED <<open, sent, reader, got>>
      /\ seat' \in {seat, [seat EXCEPT ![c] = "left"]}
  BY DEF HandleSay, HandleLeave, Idle, readerVars
<1>2. PICK T \in SUBSET Seated : todo' = For(Ev(next, "text", c), T)
  <2>1. CASE HandleSay(c)
    <3>1. PICK others \in SUBSET Seated : todo' = For(Ev(next, "text", c), {c} \cup others)
      BY <2>1 DEF HandleSay
    <3>2. ({c} \cup others) \in SUBSET Seated
      BY <1>1 DEF Seated
    <3> QED BY <3>1, <3>2
  <2>2. CASE HandleLeave(c)
    <3>1. PICK others \in SUBSET (Seated \ {c}) : todo' = For(Ev(next, "text", c), others)
      BY <2>2 DEF HandleLeave
    <3> QED BY <3>1
  <2> QED BY <2>1, <2>2
<1>3. seat \in [Conns -> {"out", "queued", "in", "left"}]
  BY DEF IInv, TypeOK
<1>4. \A i \in 1..Len(todo') : todo'[i].to = T
  BY <1>2 DEF For
<1>5. \A d \in Conns : seat[d] \in {"in", "left"} => sent[d] # <<>>
  <2>1. Len(todo) = 0
    BY <1>1
  <2> QED BY <2>1 DEF Opening, Awaited
<1>6. \A d \in Conns : seat'[d] = seat[d] \/ (seat[d] = "in" /\ seat'[d] = "left")
  BY <1>1, <1>3
<1>7. Unseen'
  <2> SUFFICES ASSUME NEW d \in Conns, seat'[d] \in {"out", "queued"}
               PROVE  /\ sent'[d] = <<>> /\ (seat'[d] = "queued" => open'[d] = "open")
                      /\ \A i \in 1..Len(todo') : d \notin todo'[i].to
    BY DEF Unseen
  <2>1. seat'[d] = seat[d]
    BY <1>6
  <2>2. d \notin T
    BY <2>1 DEF Seated
  <2> QED BY <1>1, <1>4, <2>1, <2>2 DEF Opening, Unseen
<1>8. Awaited'
  BY <1>1, <1>5, <1>6 DEF Awaited
<1>9. CardFirst' /\ ReadInOrder' /\ SeatedReads'
  BY <1>1 DEF Opening, CardFirst, ReadInOrder, SeatedReads
<1> QED BY <1>7, <1>8, <1>9 DEF Opening

\* Nobody is added to a task.
LEMMA ServedForNoMore ==
  ASSUME IInv, todo # <<>>, NEW c \in todo[1].to, Served(c)
  PROVE  \A i \in 1..Len(todo') : \E j \in 1..Len(todo) : todo'[i].to \subseteq todo[j].to
<1>1. todo \in Seq(Task)
  BY DEF IInv, TypeOK, Task
<1>2. /\ todo' \in Seq(Task)
      /\ \/ /\ Len(todo') = Len(todo)
            /\ todo'[1].ev = todo[1].ev /\ todo'[1].to = todo[1].to \ {c}
            /\ \A i \in 2..Len(todo) : todo'[i] = todo[i]
         \/ /\ Len(todo') = Len(todo) - 1
            /\ \A i \in 1..Len(todo') : todo'[i] = todo[i + 1]
  BY <1>1, ServedTasks
<1> SUFFICES ASSUME NEW i \in 1..Len(todo')
             PROVE  \E j \in 1..Len(todo) : todo'[i].to \subseteq todo[j].to
  OBVIOUS
<1>3. Len(todo) \in Nat /\ Len(todo) > 0
  BY <1>1
<1>4. CASE Len(todo') = Len(todo) - 1 /\ todo'[i] = todo[i + 1]
  <2>1. i + 1 \in 1..Len(todo)
    BY <1>3, <1>4
  <2> QED BY <1>4, <2>1
<1>5. CASE Len(todo') = Len(todo) /\ i = 1 /\ todo'[1].to = todo[1].to \ {c}
  BY <1>3, <1>5
<1>6. CASE Len(todo') = Len(todo) /\ todo'[i] = todo[i]
  BY <1>3, <1>6
<1>7. i = 1 \/ i \in 2..Len(todo')
  BY <1>2, <1>3
<1> QED BY <1>2, <1>4, <1>5, <1>6, <1>7

\* Serving c is none of the business of who still awaits the card.
LEMMA OpeningServed ==
  ASSUME IInv, Opening, todo # <<>>, NEW c \in todo[1].to, Served(c),
         UNCHANGED <<seat, open, reader, got>>,
         \A d \in Conns \ {c} : sent'[d] = sent[d],
         sent'[c] # <<>> \/ open[c] # "open",
         sent'[c] = sent[c] \/ sent'[c] = Append(sent[c], todo[1].ev)
  PROVE  Opening'
<1>1. /\ sent \in [Conns -> Seq(Event)] /\ got \in [Conns -> Seq(Event)] /\ todo \in Seq(Task)
      /\ seat \in [Conns -> {"out", "queued", "in", "left"}]
  BY DEF IInv, TypeOK, Task
<1>2. c \in Conns /\ todo[1].ev \in Event /\ Len(todo) > 0 /\ 1 \in 1..Len(todo)
  <2>1. Len(todo) > 0 /\ Len(todo) \in Nat /\ todo[1] \in Task
    BY <1>1
  <2> QED BY <2>1, TaskParts
<1>3. seat[c] \in {"in", "left"}
  BY <1>1, <1>2 DEF Opening, Unseen
<1>4. Unseen'
  <2> SUFFICES ASSUME NEW d \in Conns, seat[d] \in {"out", "queued"}
               PROVE  /\ sent'[d] = <<>> /\ (seat[d] = "queued" => open[d] = "open")
                      /\ \A i \in 1..Len(todo') : d \notin todo'[i].to
    BY DEF Unseen
  <2>1. d # c
    BY <1>3
  <2>2. /\ sent[d] = <<>> /\ (seat[d] = "queued" => open[d] = "open")
        /\ \A i \in 1..Len(todo) : d \notin todo[i].to
    BY DEF Opening, Unseen
  <2>3. \A i \in 1..Len(todo') : d \notin todo'[i].to
    BY <2>2, ServedForNoMore
  <2> QED BY <2>1, <2>2, <2>3
<1>5. Awaited'
  <2> SUFFICES ASSUME NEW d \in Conns, seat[d] \in {"in", "left"}, sent'[d] = <<>>
               PROVE  FALSE
    BY DEF Awaited
  <2>1. sent[d] = <<>>
    <3>1. sent[c] \in Seq(Event)
      BY <1>1, <1>2
    <3>2. Len(Append(sent[c], todo[1].ev)) = Len(sent[c]) + 1 /\ Len(sent[c]) \in Nat
      BY <1>2, <3>1, Appended
    <3>3. Append(sent[c], todo[1].ev) # <<>>
      <4> DEFINE u == Append(sent[c], todo[1].ev)
      <4>1. Len(<<>>) = 0
        OBVIOUS
      <4>2. Len(u) # 0
        BY <3>2
      <4> HIDE DEF u
      <4>3. u # <<>>
        BY <4>1, <4>2
      <4> QED BY <4>3 DEF u
    <3>4. CASE d = c
      <4>1. sent'[c] = <<>>
        BY <3>4
      <4> HIDE <3>4
      <4>2. sent'[c] = sent[c]
        BY <3>3, <4>1, Zenon
      <4> QED BY <3>4, <4>1, <4>2, Zenon
    <3>5. CASE d # c
      <4>1. sent'[d] = sent[d]
        BY <3>5
      <4> QED BY <4>1
    <3> QED BY <3>4, <3>5
  <2>2. open[d] = "open" /\ todo[1].to = {d}
    BY <2>1 DEF Opening, Awaited
  <2>3. d = c
    BY <2>2
  <2> QED BY <2>2, <2>3
<1>6. CardFirst' /\ ReadInOrder'
  <2>1. CASE sent'[c] = sent[c]
    <3>1. \A d \in Conns : sent'[d] = sent[d]
      BY <2>1
    <3> QED BY <3>1 DEF Opening, CardFirst, ReadInOrder
  <2>2. CASE sent'[c] = Append(sent[c], todo[1].ev)
    <3>1. CASE sent[c] = <<>>
      <4>1. OwnCard(c, todo[1].ev)
        BY <1>2, <1>3, <3>1 DEF Opening, Awaited
      <4>2. sent'[c][1] = todo[1].ev
        BY <2>2, <3>1
      <4>3. got[c] = <<>>
        <5>1. Len(sent[c]) = 0 /\ Len(got[c]) \in Nat /\ Len(out[c]) \in Nat
          BY <1>1, <1>2, <3>1 DEF IInv, TypeOK
        <5>2. Counted(sent[c], got[c], out[c], P(c)) /\ P(c) \in {0, 1}
          BY <1>2 DEF IInv, Channels, Channel, P
        <5>3. Len(got[c]) = 0
          BY <5>1, <5>2 DEF Counted, Lost
        <5> QED BY <1>1, <1>2, <5>3
      <4> QED BY <4>1, <4>2, <4>3 DEF Opening, CardFirst, ReadInOrder
    <3>2. CASE sent[c] # <<>>
      <4>1. sent'[c][1] = sent[c][1] /\ Len(sent'[c]) > Len(sent[c])
            /\ Len(sent[c]) \in Nat /\ Len(sent'[c]) \in Nat
        <5>1. sent[c] \in Seq(Event) /\ Len(sent[c]) > 0 /\ Len(sent[c]) \in Nat
          BY <1>1, <1>2, <3>2
        <5>2. 1 \in 1..Len(sent[c])
          BY <5>1
        <5> QED BY <1>2, <2>2, <5>1, <5>2, Appended
      <4>2. CardFirst'
        BY <3>2, <4>1 DEF Opening, CardFirst
      <4>3. Len(sent[c]) > OutCap => Len(sent'[c]) > OutCap
        BY <4>1, CapNat
      <4>4. ReadInOrder'
        BY <4>1, <4>3 DEF Opening, ReadInOrder
      <4> QED BY <4>2, <4>4
    <3> QED BY <3>1, <3>2
  <2> QED BY <2>1, <2>2
<1>7. SeatedReads'
  BY DEF Opening, SeatedReads
<1> QED BY <1>4, <1>5, <1>6, <1>7 DEF Opening

\* The event finds no channel; the card never does.
LEMMA OpeningNowhere ==
  ASSUME IInv, Opening, NEW c \in Conns, EmitNowhere(c)
  PROVE  Opening'
<1>1. /\ todo # <<>> /\ c \in Current.to /\ Served(c) /\ open[c] # "open"
      /\ UNCHANGED <<seat, open, sent, reader, got>>
  BY DEF EmitNowhere, Idle, readerVars
<1>2. Current = todo[1]
  BY <1>1, CurrentTask DEF IInv
<1> QED BY <1>1, <1>2, OpeningServed

\* The event is recorded for c.
LEMMA RecordedIs ==
  ASSUME IInv, todo # <<>>, NEW c \in Current.to, Record(c)
  PROVE  /\ c \in todo[1].to /\ c \in Conns /\ sent'[c] # <<>>
         /\ sent'[c] = Append(sent[c], todo[1].ev)
         /\ \A d \in Conns \ {c} : sent'[d] = sent[d]
<1>1. /\ Current = todo[1] /\ Current.ev \in Event /\ c \in Conns
      /\ sent \in [Conns -> Seq(Event)]
  BY CurrentTask DEF IInv, TypeOK
<1>2. sent' = [sent EXCEPT ![c] = Append(@, todo[1].ev)]
  BY <1>1 DEF Record
<1>3. sent'[c] = Append(sent[c], todo[1].ev) /\ sent[c] \in Seq(Event)
  BY <1>1, <1>2
<1>4. Len(sent'[c]) = Len(sent[c]) + 1 /\ Len(sent[c]) \in Nat
  BY <1>1, <1>3, Appended
<1>5. sent'[c] # <<>>
  <2>1. Len(<<>>) = 0
    OBVIOUS
  <2> QED BY <1>4, <2>1
<1> QED BY <1>1, <1>2, <1>3, <1>5

LEMMA OpeningSend ==
  ASSUME IInv, Opening, NEW c \in Conns, EmitSend(c)
  PROVE  Opening'
<1>1. /\ todo # <<>> /\ c \in Current.to /\ Served(c) /\ Record(c)
      /\ UNCHANGED <<seat, open, reader, got>>
  BY DEF EmitSend, Idle, readerVars
<1>2. /\ c \in todo[1].to /\ sent'[c] # <<>> /\ sent'[c] = Append(sent[c], todo[1].ev)
      /\ \A d \in Conns \ {c} : sent'[d] = sent[d]
  BY <1>1, RecordedIs
<1> QED BY <1>1, <1>2, OpeningServed

\* The channel is full, so the card is out already.
LEMMA OpeningFull ==
  ASSUME IInv, Opening, NEW c \in Conns, EmitFull(c)
  PROVE  Opening'
<1>1. /\ todo # <<>> /\ c \in Current.to /\ Record(c) /\ Len(out[c]) >= OutCap
      /\ step = "send"
      /\ UNCHANGED <<seat, open, todo, reader, got>>
  BY DEF EmitFull, Idle, readerVars
<1>2. /\ c \in todo[1].to /\ sent'[c] # <<>> /\ sent'[c] = Append(sent[c], todo[1].ev)
      /\ \A d \in Conns \ {c} : sent'[d] = sent[d]
  BY <1>1, RecordedIs
<1>3. /\ sent \in [Conns -> Seq(Event)] /\ todo \in Seq(Task) /\ todo[1].ev \in Event
      /\ seat \in [Conns -> {"out", "queued", "in", "left"}]
      /\ Len(todo) > 0 /\ 1 \in 1..Len(todo)
  <2>1. todo \in Seq(Task)
    BY DEF IInv, TypeOK, Task
  <2>2. Len(todo) > 0 /\ Len(todo) \in Nat /\ todo[1] \in Task
    BY <1>1, <2>1
  <2> QED BY <2>1, <2>2, TaskParts DEF IInv, TypeOK
<1>4. seat[c] \in {"in", "left"}
  BY <1>2, <1>3 DEF Opening, Unseen
<1>5. Len(sent[c]) > 0 /\ Len(sent[c]) \in Nat /\ sent[c] \in Seq(Event)
  <2>1. /\ sent[c] \in Seq(Event) /\ Len(sent[c]) \in Nat /\ Len(got[c]) \in Nat
        /\ Len(out[c]) \in Nat
    BY <1>3 DEF IInv, TypeOK
  <2>2. Counted(sent[c], got[c], out[c], P(c)) /\ P(c) \in {0, 1}
    BY DEF IInv, Channels, Channel, P
  <2> QED BY <1>1, <2>1, <2>2, CapNat DEF Counted, Lost
<1>6. /\ sent[c] # <<>> /\ sent'[c][1] = sent[c][1]
      /\ Len(sent'[c]) = Len(sent[c]) + 1
  <2>1. Len(<<>>) = 0
    OBVIOUS
  <2>2. 1 \in 1..Len(sent[c])
    BY <1>5
  <2> QED BY <1>2, <1>3, <1>5, <2>1, <2>2, Appended
<1>7. Unseen' /\ Awaited'
  BY <1>1, <1>2, <1>4 DEF Opening, Unseen, Awaited
<1>8. CardFirst'
  BY <1>2, <1>6 DEF Opening, CardFirst
<1>9. ReadInOrder'
  <2>1. Len(sent[c]) > OutCap => Len(sent'[c]) > OutCap
    BY <1>5, <1>6, CapNat
  <2> QED BY <1>1, <1>2, <1>6, <2>1 DEF Opening, ReadInOrder
<1>10. SeatedReads'
  BY <1>1 DEF Opening, SeatedReads
<1> QED BY <1>7, <1>8, <1>9, <1>10 DEF Opening

LEMMA OpeningAgain ==
  ASSUME IInv, Opening, EmitAgain
  PROVE  Opening'
<1>1. /\ step = "freed" /\ Served(cur)
      /\ UNCHANGED <<seat, open, sent, reader, got>>
  BY DEF EmitAgain, readerVars
<1>2. /\ Len(todo) > 0 /\ cur \in todo[1].to /\ Len(sent[cur]) > 0
  BY <1>1 DEF IInv, Holding
<1>3. todo # <<>> /\ sent'[cur] # <<>>
  <2>1. Len(<<>>) = 0
    OBVIOUS
  <2> QED BY <1>1, <1>2, <2>1
<1> QED BY <1>1, <1>2, <1>3, OpeningServed

\* The first event read is the card, unless it was pushed out.
LEMMA OpeningReceive ==
  ASSUME IInv, Opening, NEW c \in Conns, Receive(c)
  PROVE  Opening'
<1> DEFINE e == Head(out[c])
<1>1. Taking(c, e)
  BY ReceiveTakes
<1> HIDE DEF e
<1>2. e \in Event /\ \E k \in 1..Len(sent[c]) :
        /\ e = sent[c][k]
        /\ (k - 1 - Len(got[c]) = 0) \/ (k - 1 - Len(got[c]) + OutCap <= Len(sent[c]))
  BY <1>1, TakingChannels
<1>3. got' = [got EXCEPT ![c] = Append(@, e)] /\ UNCHANGED <<todo, sent>>
  BY <1>1 DEF Taking
<1>4. /\ reader' = [reader EXCEPT ![c] = reader'[c]]
      /\ reader'[c] \in {reader[c], "flush"} /\ UNCHANGED <<seat, open>>
  BY DEF Receive, IInv, TypeOK
<1>5. /\ got \in [Conns -> Seq(Event)] /\ sent \in [Conns -> Seq(Event)]
      /\ reader \in [Conns -> {"none", "await", "flush", "drain", "stopped"}]
  BY DEF IInv, TypeOK
<1>6. /\ got'[c] = Append(got[c], e) /\ got[c] \in Seq(Event)
      /\ \A d \in Conns \ {c} : got'[d] = got[d]
  BY <1>3, <1>5
<1>7. Len(got'[c]) = Len(got[c]) + 1 /\ Len(got[c]) \in Nat /\ got'[c] # <<>>
  <2>1. Len(<<>>) = 0
    OBVIOUS
  <2>2. Len(got'[c]) = Len(got[c]) + 1 /\ Len(got[c]) \in Nat
    BY <1>2, <1>6, Appended
  <2> QED BY <2>1, <2>2
<1>8. got'[c][1] = sent[c][1] \/ Len(sent[c]) > OutCap
  <2>1. CASE got[c] = <<>>
    <3>1. PICK k \in 1..Len(sent[c]) :
            /\ e = sent[c][k]
            /\ (k - 1 - Len(got[c]) = 0) \/ (k - 1 - Len(got[c]) + OutCap <= Len(sent[c]))
      BY <1>2
    <3>2. got'[c][1] = e /\ Len(got[c]) = 0
      BY <1>6, <2>1
    <3>3. Len(sent[c]) \in Nat
      BY <1>5
    <3>4. CASE k = 1
      BY <3>1, <3>2, <3>4
    <3>5. CASE k > 1
      BY <3>1, <3>2, <3>3, <3>5, CapNat
    <3> QED BY <3>3, <3>4, <3>5
  <2>2. CASE got[c] # <<>>
    <3>1. Len(got[c]) > 0
      BY <1>6, <2>2
    <3>2. 1 \in 1..Len(got[c])
      BY <1>7, <3>1
    <3>3. got'[c][1] = got[c][1]
      BY <1>2, <1>6, <3>2, Appended
    <3> QED BY <2>2, <3>3 DEF Opening, ReadInOrder
  <2> QED BY <2>1, <2>2
<1>9. Unseen' /\ Awaited' /\ CardFirst'
  BY <1>3, <1>4 DEF Opening, Unseen, Awaited, CardFirst
<1>10. ReadInOrder'
  BY <1>3, <1>6, <1>8 DEF Opening, ReadInOrder
<1>11. SeatedReads'
  BY <1>4, <1>5, <1>6, <1>7 DEF Opening, SeatedReads
<1> QED BY <1>9, <1>10, <1>11 DEF Opening

LEMMA OpeningKeeps ==
  ASSUME IInv, Opening, [Next]_vars
  PROVE  Opening'
<1>1. ASSUME NEW c \in Conns,
             EmitNowhere(c) \/ EmitSend(c) \/ EmitFull(c)
      PROVE  Opening'
  BY <1>1, OpeningNowhere, OpeningSend, OpeningFull
<1>2. ASSUME NEW c \in Conns,
             HandleEnter(c) \/ HandleSay(c) \/ HandleLeave(c) \/ Receive(c)
      PROVE  Opening'
  BY <1>2, OpeningEnter, OpeningSay, OpeningReceive
<1>3. ASSUME NEW c \in Conns,
             \/ HandleAttach(c) \/ HandleDetach(c) \/ SubmitEnter(c) \/ Prompt(c)
             \/ AwaitFails(c) \/ ReaderStops(c) \/ HangUp(c)
      PROVE  Opening'
  BY <1>3, QuietIsQuiet, OpeningQuiet
<1>4. CASE DropOldest \/ UNCHANGED vars
  <2>1. UNCHANGED <<seat, open, todo, sent, reader, got>>
    BY <1>4 DEF DropOldest, vars, readerVars
  <2> QED BY <2>1 DEF Opening, Unseen, Awaited, CardFirst, ReadInOrder, SeatedReads
<1> QED BY <1>1, <1>2, <1>3, <1>4, OpeningAgain DEF Next, Emit

\* No prompt before the room card: a Telnet player at the prompt has read the
\* card of the room it came to, unless more came for it than its channel holds,
\* whatever the others do meanwhile.  (Loop.enter, awaitSeated, flushNow)
THEOREM CardBeforePrompt == Spec => []PromptAfterCard
<1>1. Init => Opening
  BY OpeningInit
<1>2. IInv /\ Opening /\ [Next]_vars => Opening'
  BY OpeningKeeps
<1>3. ASSUME IInv, Opening PROVE PromptAfterCard
  <2> SUFFICES ASSUME NEW c \in Telnet, reader[c] = "drain", Len(sent[c]) <= OutCap
               PROVE  \E e \in ToSet(got[c]) : e.kind = "card" /\ e.who = c
    <3>1. \A c \in Telnet : Len(sent[c]) \in Nat
      BY <1>3, DeliveryAssumption DEF IInv, TypeOK
    <3> QED BY <3>1, CapNat DEF PromptAfterCard, Took
  <2>1. /\ c \in Conns /\ sent[c] \in Seq(Event) /\ got[c] \in Seq(Event)
        /\ Len(sent[c]) \in Nat /\ Len(got[c]) \in Nat /\ Len(out[c]) \in Nat
    BY <1>3, DeliveryAssumption DEF IInv, TypeOK
  <2>2. got[c] # <<>>
    BY <1>3, <2>1 DEF Opening, SeatedReads
  <2>3. ~(Len(sent[c]) > OutCap)
    BY <2>1, CapNat
  <2>4. got[c][1] = sent[c][1] /\ Len(got[c]) > 0
    BY <1>3, <2>1, <2>2, <2>3 DEF Opening, ReadInOrder
  <2>5. sent[c] # <<>>
    <3>1. Counted(sent[c], got[c], out[c], P(c)) /\ P(c) \in {0, 1}
      BY <1>3, <2>1 DEF IInv, Channels, Channel, P
    <3>2. Len(sent[c]) > 0
      BY <2>1, <2>4, <3>1 DEF Counted, Lost
    <3>3. Len(<<>>) = 0
      OBVIOUS
    <3> QED BY <3>2, <3>3
  <2>6. OwnCard(c, got[c][1])
    BY <1>3, <2>1, <2>4, <2>5 DEF Opening, CardFirst
  <2>7. got[c][1] \in ToSet(got[c])
    BY <2>1, <2>4 DEF ToSet
  <2> QED BY <2>6, <2>7 DEF OwnCard
<1> QED BY <1>1, <1>2, <1>3, Inductive, PTL DEF Spec

-----------------------------------------------------------------------------
(* Refinement. *)

\* The current event goes to c's channel, or is held for it.
LEMMA RecordPosts ==
  ASSUME IInv, NEW c \in Conns, EmitSend(c) \/ EmitFull(c)
  PROVE  Box!Next
<1> DEFINE e == todo[1].ev
<1>1. todo # <<>> /\ step = "send" /\ c \in Current.to /\ Record(c) /\ got' = got
  BY DEF EmitSend, EmitFull, Idle, readerVars
<1>2. TypeOK /\ ~Recorded(c)
  BY <1>1 DEF IInv, Recorded
<1>3. Current = todo[1] /\ e \in Event
  BY <1>1, <1>2, CurrentTask
<1>4. Newer(e, sent[c]) /\ sent[c] \in Seq(Event)
  BY <1>1, <1>2, RecordKeeps DEF TypeOK
<1>5. sent' = [sent EXCEPT ![c] = Append(@, e)]
  BY <1>1, <1>3 DEF Record
<1> HIDE DEF e
<1>6. Box!Later(e, sent[c])
  BY <1>4 DEF Box!Later, Newer
<1>7. Box!Post(c, e)
  BY <1>1, <1>5, <1>6 DEF Box!Post
<1> QED BY <1>3, <1>7 DEF Box!Next

LEMMA TakingDelivers ==
  ASSUME IInv, NEW c \in Conns, Receive(c)
  PROVE  Box!Next
<1> DEFINE e == Head(out[c])
<1>1. Taking(c, e)
  BY ReceiveTakes
<1> HIDE DEF e
<1>2. PICK k \in 1..Len(sent[c]) :
        /\ e = sent[c][k] /\ Newer(sent[c][k], got[c])
        /\ (k - 1 - Len(got[c]) = 0) \/ (k - 1 - Len(got[c]) + OutCap <= Len(sent[c]))
  BY <1>1, TakingChannels
<1>3. sent[c] \in Seq(Event) /\ got[c] \in Seq(Event)
  BY DEF IInv, TypeOK
<1>4. got' = [got EXCEPT ![c] = Append(@, e)] /\ sent' = sent
  BY <1>1 DEF Taking
<1>5. Box!Later(sent[c][k], got[c])
  BY <1>2, <1>3 DEF Box!Later, Newer
<1>6. k \in DOMAIN sent[c]
  BY <1>3
<1>7. Box!Deliver(c, k)
  BY <1>2, <1>4, <1>5, <1>6 DEF Box!Deliver, Box!Missed
<1> QED BY <1>6, <1>7 DEF Box!Next

\* Whatever the interleaving of emit's selects with the readers, a channel is a
\* mailbox: in order, no event twice, and no more missed than came beyond its
\* capacity.  (emit, Attach, drain, awaitSeated)
THEOREM Implementation == Spec => KeepsPromise
<1>1. Init => Box!Init
  BY DEF Init, Box!Init
<1>2. ASSUME IInv, [Next]_vars
      PROVE  [Box!Next]_Box!vars
  <2>1. ASSUME NEW c \in Conns, EmitSend(c) \/ EmitFull(c)
        PROVE  Box!Next
    BY <1>2, <2>1, RecordPosts
  <2>2. ASSUME NEW c \in Conns, Receive(c)
        PROVE  Box!Next
    BY <1>2, <2>2, TakingDelivers
  <2>3. ASSUME NEW c \in Conns,
               \/ EmitNowhere(c) \/ HandleEnter(c) \/ HandleSay(c) \/ HandleLeave(c)
               \/ HandleAttach(c) \/ HandleDetach(c) \/ SubmitEnter(c) \/ Prompt(c)
               \/ AwaitFails(c) \/ ReaderStops(c) \/ HangUp(c)
        PROVE  UNCHANGED <<sent, got>>
    BY <2>3 DEF EmitNowhere, HandleEnter, HandleSay, HandleLeave, HandleAttach, HandleDetach,
                SubmitEnter, Prompt, AwaitFails, ReaderStops, HangUp, loopVars, readerVars
  <2>4. CASE DropOldest \/ EmitAgain \/ UNCHANGED vars
    <3>1. UNCHANGED <<sent, got>>
      BY <2>4 DEF DropOldest, EmitAgain, vars, readerVars
    <3> QED BY <3>1 DEF Box!vars
  <2> QED BY <1>2, <2>1, <2>2, <2>3, <2>4 DEF Next, Emit, Box!vars
<1> QED BY <1>1, <1>2, Inductive, PTL DEF Spec, KeepsPromise, Box!Spec
=============================================================================
