----------------------------- MODULE Mailboxes -----------------------------
(***************************************************************************)
(* What event delivery promises a client (docs/EVENT-BUS.md, channel       *)
(* contract): events come in the order they were posted, none twice, and   *)
(* at most one is missed for every event posted beyond the capacity.       *)
(***************************************************************************)
EXTENDS Naturals, Sequences

CONSTANTS Conns, Cap, Event

VARIABLES sent,  \* events posted to each connection, oldest first
          got    \* events each client received

vars == <<sent, got>>

Init == sent = [c \in Conns |-> <<>>] /\ got = [c \in Conns |-> <<>>]

\* Events are numbered in the order of posting.
Later(e, es) == \A k \in DOMAIN es : es[k].no < e.no

Post(c, e) ==
  /\ Later(e, sent[c])
  /\ sent' = [sent EXCEPT ![c] = Append(@, e)]
  /\ UNCHANGED got

\* Number of events a client that now receives posting k has missed.
Missed(c, k) == k - 1 - Len(got[c])

\* Each posting beyond the capacity may cost one event.
Deliver(c, k) ==
  /\ k \in DOMAIN sent[c]
  /\ Later(sent[c][k], got[c])
  /\ Missed(c, k) = 0 \/ Missed(c, k) + Cap <= Len(sent[c])
  /\ got' = [got EXCEPT ![c] = Append(@, sent[c][k])]
  /\ UNCHANGED sent

Next ==
  \E c \in Conns :
    \/ \E e \in Event : Post(c, e)
    \/ \E k \in DOMAIN sent[c] : Deliver(c, k)

Spec == Init /\ [][Next]_vars
=============================================================================
