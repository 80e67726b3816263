------------------------------ MODULE Restart ------------------------------
(***************************************************************************)
(* Lifecycle on the Postgres store, in a process that may die at any point *)
(* and is started again.  Of all that Lifecycle keeps only the store       *)
(* outlives the process; connection ids start anew (connSeq).              *)
(***************************************************************************)
EXTENDS Lifecycle

Unstored(a) == store[a] # done[a]

\* The process is killed, panics or has exited, and run() starts over.
Restart ==
  /\ pc' = [c \in Conns |-> "new"]
  /\ acct' = [c \in Conns |-> NoAccount]
  /\ sheet' = [c \in Conns |-> {}]
  /\ attached' = {} /\ reply' = {} /\ outbound' = {}
  /\ cmds' = <<>> /\ saves' = <<>> /\ inflight' = {}
  /\ roster' = [c \in Conns |-> NoAccount]
  /\ body' = [c \in Conns |-> {}]
  /\ loop' = "run" /\ ctx' = FALSE /\ lctx' = FALSE /\ main' = "serve"
  /\ closed' = FALSE
  /\ faults' = [a \in Accounts |-> faults[a] \cup {f \in {"crash"} : Unstored(a)}]
  /\ UNCHANGED <<store, deeds, done>>

CrashNext == Next \/ Restart

CrashSpec == Init /\ [][CrashNext]_vars

-----------------------------------------------------------------------------
(* What each account's sheet goes through is module Sheets. *)

Place(a) ==
  CASE faults[a] \cap {"second copy", "save pending"} # {} -> "stale"
    [] faults[a] # {} /\ faults[a] \cap {"second copy", "save pending"} = {} -> "lost"
    [] faults[a] = {} /\ Copies(a) # {} -> "away"
    [] faults[a] = {} /\ Copies(a) = {} -> "home"

Abstract == INSTANCE Sheets WITH Deeds <- Deed, place <- [a \in Accounts |-> Place(a)]

\* The store always has the progress of an account nobody is playing; a fault,
\* a crash included, befalls only a sheet that is away; even then a write takes
\* back nothing the store had, unless the sheet was loaded while a copy of it was
\* away; and the store never has what its players did not do.
\* (LoadSheet, enter, leave, SaveAsync and the saver's worker)
KeepsSheets == Abstract!Spec
=============================================================================
