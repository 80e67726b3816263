------------------------------- MODULE Sheets -------------------------------
(***************************************************************************)
(* What the server promises about every account's sheet, whatever travels  *)
(* between the store, the handlers, the game loop and the saver.           *)
(*                                                                         *)
(* A sheet is at home when the store alone has it, and away while a        *)
(* session, the roster or a save has it.  Accounts are independent: in one *)
(* step each of them does one of the things below, or rests.               *)
(***************************************************************************)
CONSTANTS Accounts,
          Deeds      \* what a sheet may record

VARIABLES
  store,  \* the durable sheet of each account
  done,   \* what its players did
  place   \* "home" and "away"; "lost" once a recorded fault befell the account,
          \* "stale" once its sheet was loaded while a copy of it was away

vars == <<store, done, place>>

Init ==
  /\ store = [a \in Accounts |-> {}]
  /\ done = [a \in Accounts |-> {}]
  /\ place = [a \in Accounts |-> "home"]

\* The sheet is loaded: it leaves home as the store has it.
Take(a) ==
  /\ place[a] = "home" /\ place'[a] = "away"
  /\ store'[a] = store[a] /\ done'[a] = done[a]

\* A command changes the player.
Do(a) ==
  /\ place[a] = "away" /\ place'[a] = "away"
  /\ \E d \in Deeds : done'[a] = done[a] \cup {d}
  /\ store'[a] = store[a]

\* The sheet comes home complete: written, or given up with nothing done.
Return(a) ==
  /\ place[a] = "away" /\ place'[a] = "home"
  /\ store'[a] = done[a] /\ done'[a] = done[a]

\* The store has nothing its players did not do, and they undo nothing.
Recorded(a) == done[a] \subseteq done'[a] /\ store'[a] \subseteq done'[a]

\* A fault befalls a sheet that is away, never one at home.  From then on the
\* store may lack what was done, but a write takes nothing back.
Lose(a) ==
  /\ place[a] \in {"away", "lost"} /\ place'[a] = "lost"
  /\ store[a] \subseteq store'[a]
  /\ Recorded(a)

\* Only an account loaded while a copy was away may see a write take back what
\* the store had.
Spoil(a) ==
  /\ place[a] \in {"away", "lost", "stale"} /\ place'[a] = "stale"
  /\ Recorded(a)

Rest(a) == store'[a] = store[a] /\ done'[a] = done[a] /\ place'[a] = place[a]

Next == \A a \in Accounts :
          Take(a) \/ Do(a) \/ Return(a) \/ Lose(a) \/ Spoil(a) \/ Rest(a)

Spec == Init /\ [][Next]_vars
=============================================================================
