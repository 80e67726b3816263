------------------------------ MODULE Registry ------------------------------
(***************************************************************************)
(* What logging in promises (docs/WIRE-PROTOCOL.md, auth gate): a name is  *)
(* taken once and keeps its password; whoever is let in last gave the      *)
(* password of the name it plays under.                                    *)
(***************************************************************************)
CONSTANTS Conns, Keys, Passwords, Nobody

VARIABLES owner,  \* password of each taken name, Nobody of a free one
          claim,  \* name and password each connection gave, as far as it got
          plays   \* name each connection plays under

vars == <<owner, claim, plays>>

Silent == [key |-> Nobody, pass |-> Nobody]

Init ==
  /\ owner = [k \in Keys |-> Nobody]
  /\ claim = [c \in Conns |-> Silent]
  /\ plays = [c \in Conns |-> Nobody]

Claim(c, k, p) ==
  /\ plays[c] = Nobody
  /\ claim' = [claim EXCEPT ![c] = [key |-> k, pass |-> p]]
  /\ UNCHANGED <<owner, plays>>

\* The name becomes the connection's own, though the answer may be lost.
Register(c) ==
  /\ claim[c].key \in Keys /\ owner[claim[c].key] = Nobody
  /\ owner' = [owner EXCEPT ![claim[c].key] = claim[c].pass]
  /\ claim' \in {claim, [claim EXCEPT ![c] = Silent]}
  /\ UNCHANGED plays

Enter(c) ==
  /\ claim[c].key \in Keys /\ claim[c].pass \in Passwords
  /\ owner[claim[c].key] = claim[c].pass
  /\ plays' = [plays EXCEPT ![c] = claim[c].key]
  /\ claim' = [claim EXCEPT ![c] = Silent]
  /\ UNCHANGED owner

Leave(c) ==
  /\ plays' = [plays EXCEPT ![c] = Nobody]
  /\ UNCHANGED <<owner, claim>>

Next ==
  \E c \in Conns :
    \/ \E k \in Keys \cup {Nobody}, p \in Passwords \cup {Nobody} : Claim(c, k, p)
    \/ Register(c) \/ Enter(c) \/ Leave(c)

Spec == Init /\ [][Next]_vars
=============================================================================
