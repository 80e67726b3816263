------------------------------ MODULE Accounts ------------------------------
(***************************************************************************)
(* The auth gate: the account store (internal/persist memory.go, and       *)
(* postgres.go where it differs), the Telnet dialogue (telnet.go, auth)    *)
(* and the WebSocket frames (ws.go, handleFrame and doAuth).               *)
(*                                                                         *)
(* A store call is one step: Memory holds its mutex, Postgres runs one     *)
(* statement.  A handler makes several, and other handlers run between     *)
(* them.  A call may fail at any time; in Postgres it may have done its    *)
(* work when it fails.  Slips keep an event of the code's out of place.    *)
(***************************************************************************)
EXTENDS Naturals

CONSTANTS Conns,
          Telnet,          \* the connections on the Telnet port
          Names, Keys, Fold,  \* foldUsername: names that differ in case share a key
          Passwords,
          ValidNames, ValidPasswords,
          Ids, Tokens,     \* random and never repeated; the sets are bounds
          Nobody

VARIABLES accounts,   \* the store's records
          sessions,   \* the store's tokens
          at,         \* where each handler is
          said,       \* the name and password it has read
          acc,        \* the account the store gave it
          tok,        \* the token the store gave it
          last        \* the last command it submitted to the loop

store == <<accounts, sessions>>
vars == <<accounts, sessions, at, said, acc, tok, last>>

ASSUME AccountsAssumption ==
  /\ Telnet \subseteq Conns
  /\ Fold \in [Names -> Keys]
  /\ ValidNames \subseteq Names /\ ValidPasswords \subseteq Passwords
  /\ Nobody \notin Keys \cup Names \cup Passwords \cup Ids \cup Tokens

Account == [id : Ids, name : ValidNames, pass : ValidPasswords]
Nothing == [name |-> Nobody, pass |-> Nobody]
NoAccount == [id |-> Nobody, name |-> Nobody, pass |-> Nobody]

Prompts == {"name", "pass", "answer", "newpass"}   \* Telnet waits for a line
Calls   == {"exists", "create", "login", "issue", "enter"}

TypeOK ==
  /\ accounts \subseteq Account
  /\ sessions \subseteq [token : Tokens, id : Ids]
  /\ at \in [Conns -> Prompts \cup Calls \cup {"gate", "in", "out"}]
  /\ said \in [Conns -> [name : Names \cup {Nobody}, pass : Passwords \cup {Nobody}]]
  /\ acc \in [Conns -> Account \cup {NoAccount}]
  /\ tok \in [Conns -> Tokens \cup {Nobody}]
  /\ last \in [Conns -> {"none", "enter", "cmd", "leave"}]

Start(c) == IF c \in Telnet THEN "name" ELSE "gate"

Init ==
  /\ accounts = {} /\ sessions = {}
  /\ at = [c \in Conns |-> Start(c)]
  /\ said = [c \in Conns |-> Nothing]
  /\ acc = [c \in Conns |-> NoAccount]
  /\ tok = [c \in Conns |-> Nobody]
  /\ last = [c \in Conns |-> "none"]

-----------------------------------------------------------------------------
(* How a step of a handler ends. *)

GoTo(c, where) == at' = [at EXCEPT ![c] = where]

Forget(c) ==
  /\ said' = [said EXCEPT ![c] = Nothing]
  /\ acc' = [acc EXCEPT ![c] = NoAccount]
  /\ tok' = [tok EXCEPT ![c] = Nobody]

Submits(c, cmd) == last' = [last EXCEPT ![c] = cmd]

\* Ask again: the name of a Telnet client, the next frame of a WebSocket one.
Back(c) == GoTo(c, Start(c)) /\ Forget(c) /\ UNCHANGED last

\* The deferred LeaveWorld may meet a full queue.
End(c) == GoTo(c, "out") /\ Forget(c) /\ (Submits(c, "leave") \/ UNCHANGED last)

-----------------------------------------------------------------------------
(* The Telnet dialogue. *)

ReadName(c) ==
  /\ at[c] = "name" /\ GoTo(c, "pass")
  /\ \E n \in Names : said' = [said EXCEPT ![c].name = n]
  /\ UNCHANGED <<store, acc, tok, last>>

ReadSecret(c) ==
  /\ \/ at[c] = "pass" /\ GoTo(c, "exists")
     \/ at[c] = "newpass" /\ GoTo(c, "create")
  /\ \E p \in Passwords : said' = [said EXCEPT ![c].pass = p]
  /\ UNCHANGED <<store, acc, tok, last>>

ReadAnswer(c) ==
  /\ at[c] = "answer"
  /\ \/ GoTo(c, "newpass") /\ UNCHANGED <<said, acc, tok, last>>
     \/ Back(c)
  /\ UNCHANGED store

\* A WebSocket client says it all in one frame, auth.create or auth.login.
\* Slip: a client that is in may authenticate again.
AuthFrameAgain(c) ==
  /\ at[c] \in {"gate", "in"} /\ c \notin Telnet
  /\ \/ GoTo(c, "create") \/ GoTo(c, "login")
  /\ \E n \in Names, p \in Passwords : said' = [said EXCEPT ![c] = [name |-> n, pass |-> p]]
  /\ UNCHANGED <<store, acc, tok, last>>

AuthFrame(c) ==
  /\ at[c] = "gate"
  /\ \/ GoTo(c, "create") \/ GoTo(c, "login")
  /\ \E n \in Names, p \in Passwords : said' = [said EXCEPT ![c] = [name |-> n, pass |-> p]]
  /\ UNCHANGED <<store, acc, tok, last>>

-----------------------------------------------------------------------------
(* The store. *)

SameName(n, m) == Fold[n] = Fold[m]
\* Slip: two spellings are two names.
TakenAsSpelt(n) == \E a \in accounts : a.name = n
Taken(n) == \E a \in accounts : SameName(a.name, n)

FreshIds == Ids \ {a.id : a \in accounts}
FreshTokens == Tokens \ {s.token : s \in sessions}
NewAccount(n, p) == [id |-> CHOOSE i \in FreshIds : TRUE, name |-> n, pass |-> p]

Exists(c) ==
  /\ at[c] = "exists"
  /\ GoTo(c, IF Taken(said[c].name) THEN "login" ELSE "answer")
  /\ UNCHANGED <<store, said, acc, tok, last>>

\* Slip: the password is not validated.
CreatableUnchecked(n, p) == n \in ValidNames /\ ~Taken(n)
Creatable(n, p) == n \in ValidNames /\ p \in ValidPasswords /\ ~Taken(n)

\* Slip: creating a name that is taken logs in to it.
CreateOrFind(c) ==
  LET n == said[c].name
      p == said[c].pass
      a == IF Taken(n) THEN CHOOSE b \in accounts : SameName(b.name, n) ELSE NewAccount(n, p)
  IN /\ at[c] = "create" /\ (Taken(n) \/ (Creatable(n, p) /\ FreshIds # {}))
     /\ accounts' = accounts \cup {a} /\ UNCHANGED sessions
     /\ acc' = [acc EXCEPT ![c] = a]
     /\ GoTo(c, "issue") /\ UNCHANGED <<said, tok, last>>

Create(c) ==
  LET a == NewAccount(said[c].name, said[c].pass) IN
  /\ at[c] = "create" /\ Creatable(said[c].name, said[c].pass) /\ FreshIds # {}
  /\ accounts' = accounts \cup {a} /\ UNCHANGED sessions
  /\ \/ acc' = [acc EXCEPT ![c] = a] /\ GoTo(c, "issue") /\ UNCHANGED <<said, tok, last>>
     \/ Back(c)   \* Postgres recorded it, its answer was lost

Authenticate(c) ==
  /\ at[c] = "login"
  /\ \E a \in accounts :
       /\ SameName(a.name, said[c].name) /\ a.pass = said[c].pass
       /\ acc' = [acc EXCEPT ![c] = a]
  /\ GoTo(c, "issue") /\ UNCHANGED <<store, said, tok, last>>

\* Bad name, bad password, name taken, bad credentials.
Refuse(c) ==
  /\ \/ at[c] = "create" /\ ~Creatable(said[c].name, said[c].pass)
     \/ at[c] = "login" /\ \A a \in accounts : SameName(a.name, said[c].name) => a.pass # said[c].pass
  /\ Back(c) /\ UNCHANGED store

\* Slip: an account that has a session keeps it.
IssueSessionShared(c) ==
  LET mine == {s \in sessions : s.id = acc[c].id}
      s == IF mine # {} THEN CHOOSE t \in mine : TRUE
           ELSE [token |-> CHOOSE t \in FreshTokens : TRUE, id |-> acc[c].id]
  IN /\ at[c] = "issue" /\ (mine # {} \/ FreshTokens # {})
     /\ sessions' = sessions \cup {s} /\ UNCHANGED accounts
     /\ tok' = [tok EXCEPT ![c] = s.token]
     /\ GoTo(c, "enter") /\ UNCHANGED <<said, acc, last>>

IssueSession(c) ==
  LET s == [token |-> CHOOSE t \in FreshTokens : TRUE, id |-> acc[c].id] IN
  /\ at[c] = "issue" /\ FreshTokens # {}
  /\ \E a \in accounts : a.id = acc[c].id
  /\ sessions' = sessions \cup {s} /\ UNCHANGED accounts
  /\ \/ tok' = [tok EXCEPT ![c] = s.token] /\ GoTo(c, "enter") /\ UNCHANGED <<said, acc, last>>
     \/ IF c \in Telnet THEN End(c) ELSE Back(c)   \* the answer was lost

\* A call that failed for any other reason; a Telnet handler survives only a
\* failed creation or login.
CallFails(c) ==
  /\ at[c] \in Calls
  /\ IF c \in Telnet /\ at[c] \notin {"create", "login"} THEN End(c) ELSE Back(c)
  /\ UNCHANGED store

-----------------------------------------------------------------------------
(* Into the world and out of it. *)

\* Attach, LoadSheet and Submit; a refusal of any is CallFails.
Enter(c) ==
  /\ at[c] = "enter" /\ GoTo(c, "in") /\ Submits(c, "enter")
  /\ said' = [said EXCEPT ![c] = Nothing]
  /\ UNCHANGED <<store, acc, tok>>

Command(c) ==
  /\ at[c] = "in" /\ Submits(c, "cmd")
  /\ UNCHANGED <<store, at, said, acc, tok>>

\* quit, a closed socket, five idle minutes or the server's stop.
HangUp(c) == at[c] \in Prompts \cup {"gate", "in"} /\ End(c) /\ UNCHANGED store

\* The next connection of the same player.
Connect(c) ==
  /\ at[c] = "out" /\ GoTo(c, Start(c)) /\ Submits(c, "none")
  /\ UNCHANGED <<store, said, acc, tok>>

Next ==
  \E c \in Conns :
    \/ ReadName(c) \/ ReadSecret(c) \/ ReadAnswer(c) \/ AuthFrame(c)
    \/ Exists(c) \/ Create(c) \/ Authenticate(c) \/ Refuse(c)
    \/ IssueSession(c) \/ CallFails(c)
    \/ Enter(c) \/ Command(c) \/ HangUp(c) \/ Connect(c)

Spec == Init /\ [][Next]_vars

-----------------------------------------------------------------------------
(* Properties. *)

\* Two accounts never answer to one name, however it is spelt (memory.go:60,
\* postgres.go:33), although a handler asks and creates in two calls.
OneAccountPerName == \A a, b \in accounts : SameName(a.name, b.name) => a = b

\* A connection that is in holds a token that was issued for its own account, and to
\* no other connection (IssueSession after Create or Authenticate).  When a session
\* ends is no part of it: nothing looks one up.
SessionsTrue ==
  \A c \in Conns : at[c] \in {"enter", "in"} =>
    /\ acc[c] \in accounts /\ [token |-> tok[c], id |-> acc[c].id] \in sessions
    /\ \A d \in Conns \ {c} : tok[d] # tok[c]

\* Once in, a connection is the same account with the same token until it ends
\* (ws.go:322, a second auth frame), and what the loop hears of it is EnterWorld,
\* then commands, then LeaveWorld, through refused logins and full queues.
StaysWho ==
  [][\A c \in Conns :
       /\ at[c] = "in" =>
            \/ at'[c] = "out"
            \/ at'[c] = "in" /\ acc'[c] = acc[c] /\ tok'[c] = tok[c]
       /\ last'[c] # last[c] =>
            CASE last'[c] = "enter" -> last[c] = "none"
              [] last'[c] = "cmd"   -> last[c] = "enter"
              [] last'[c] = "none"  -> at[c] = "out"
              [] OTHER              -> TRUE]_vars

\* The store and the handlers keep what the registry of names promises.
KeyOf(n) == IF n \in Names THEN Fold[n] ELSE Nobody
OwnerOf(k) ==
  IF \E a \in accounts : Fold[a.name] = k
  THEN (CHOOSE a \in accounts : Fold[a.name] = k).pass ELSE Nobody

R == INSTANCE Registry WITH
       owner <- [k \in Keys |-> OwnerOf(k)],
       claim <- [c \in Conns |-> [key |-> KeyOf(said[c].name), pass |-> said[c].pass]],
       plays <- [c \in Conns |-> IF at[c] = "in" THEN KeyOf(acc[c].name) ELSE Nobody]
KeepsRegistry == R!Spec
=============================================================================
