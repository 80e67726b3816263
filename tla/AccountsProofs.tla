--------------------------- MODULE AccountsProofs ---------------------------
(* What the auth gate guarantees for every number of connections, names,    *)
(* passwords and accounts.                                                  *)
EXTENDS Accounts, TLAPS

-----------------------------------------------------------------------------
(* The inductive invariant. *)

\* What a handler has read where it is.
Spoken ==
  \A c \in Conns :
    /\ at[c] \in Calls \cup {"pass", "answer", "newpass"} => said[c].name \in Names
    /\ at[c] \in {"in", "out"} => said[c] = Nothing

\* An account in a handler's hands is one of the store's, and its name and
\* password were given.
Vouched ==
  \A c \in Conns :
    /\ at[c] \in {"issue", "enter", "in"} => acc[c] \in accounts
    /\ at[c] \in {"issue", "enter"} =>
         SameName(acc[c].name, said[c].name) /\ acc[c].pass = said[c].pass

\* Every token in a handler's hands is one of the store's.
TokensStored ==
  \A c \in Conns : tok[c] # Nobody => \E s \in sessions : s.token = tok[c]

IInv == TypeOK /\ OneAccountPerName /\ Spoken /\ Vouched /\ TokensStored /\ SessionsTrue

-----------------------------------------------------------------------------
LEMMA FreshId ==
  FreshIds # {} => /\ (CHOOSE i \in FreshIds : TRUE) \in Ids
                   /\ \A a \in accounts : a.id # CHOOSE i \in FreshIds : TRUE
BY DEF FreshIds

LEMMA FreshToken ==
  FreshTokens # {} => /\ (CHOOSE t \in FreshTokens : TRUE) \in Tokens
                      /\ \A s \in sessions : s.token # CHOOSE t \in FreshTokens : TRUE
BY DEF FreshTokens

LEMMA Dropped ==
  ASSUME TypeOK, NEW c \in Conns, Back(c) \/ End(c)
  PROVE  /\ at' \in [Conns -> Prompts \cup Calls \cup {"gate", "in", "out"}]
         /\ at'[c] \in {"name", "gate", "out"}
         /\ said' \in [Conns -> [name : Names \cup {Nobody}, pass : Passwords \cup {Nobody}]]
         /\ acc' \in [Conns -> Account \cup {NoAccount}]
         /\ tok' \in [Conns -> Tokens \cup {Nobody}]
         /\ last' \in [Conns -> {"none", "enter", "cmd", "leave"}]
         /\ said'[c] = Nothing /\ tok'[c] = Nobody
         /\ \A d \in Conns \ {c} : /\ at'[d] = at[d] /\ said'[d] = said[d]
                                  /\ acc'[d] = acc[d] /\ tok'[d] = tok[d]
<1> USE DEF TypeOK, GoTo, Forget, Submits, Start, Prompts, Nothing
<1>1. CASE Back(c)
  BY <1>1 DEF Back
<1>2. CASE End(c)
  BY <1>2 DEF End
<1> QED
  BY <1>1, <1>2

\* A new account has a name nobody has; its handler goes on with it, or back.
CreatesAs(c, a) ==
  /\ a.name = said[c].name /\ a.pass = said[c].pass /\ ~Taken(a.name)
  /\ accounts' = accounts \cup {a} /\ sessions' = sessions
  /\ at[c] = "create"
  /\ \/ Back(c)
     \/ acc' = [acc EXCEPT ![c] = a] /\ GoTo(c, "issue") /\ UNCHANGED <<said, tok, last>>

LEMMA Created ==
  ASSUME TypeOK, NEW c \in Conns, Create(c)
  PROVE  \E a \in Account : CreatesAs(c, a)
<1> DEFINE a == NewAccount(said[c].name, said[c].pass)
<1>1. a \in Account /\ a.name = said[c].name /\ a.pass = said[c].pass
  BY FreshId DEF Create, Creatable, NewAccount, Account
<1>2. ~Taken(a.name)
  BY <1>1 DEF Create, Creatable
<1> QED
  BY <1>1, <1>2, Zenon DEF Create, CreatesAs

\* A new token is nobody's; its handler goes on with it, back, or ends.
IssuesAs(c, t) ==
  /\ \A s \in sessions : s.token # t
  /\ acc[c].id \in Ids
  /\ sessions' = sessions \cup {[token |-> t, id |-> acc[c].id]} /\ accounts' = accounts
  /\ at[c] = "issue"
  /\ \/ Back(c) \/ End(c)
     \/ tok' = [tok EXCEPT ![c] = t] /\ GoTo(c, "enter") /\ UNCHANGED <<said, acc, last>>

LEMMA Issued ==
  ASSUME TypeOK, NEW c \in Conns, IssueSession(c)
  PROVE  \E t \in Tokens : IssuesAs(c, t)
<1> DEFINE t == CHOOSE x \in FreshTokens : TRUE
<1>1. t \in Tokens /\ \A s \in sessions : s.token # t
  BY FreshToken DEF IssueSession
<1>2. acc[c].id \in Ids
  <2>1. PICK a \in accounts : a.id = acc[c].id
    BY DEF IssueSession
  <2>2. a \in Account
    BY DEF TypeOK
  <2> QED
    BY <2>1, <2>2 DEF Account
<1> QED
  BY <1>1, <1>2, Zenon DEF IssueSession, IssuesAs

LEMMA Typed == TypeOK /\ [Next]_vars => TypeOK'
<1> SUFFICES ASSUME TypeOK, [Next]_vars PROVE TypeOK'
  OBVIOUS
<1> USE AccountsAssumption DEF TypeOK, GoTo, Submits, store
<1>1. CASE UNCHANGED vars
  BY <1>1 DEF vars
<1>2. ASSUME NEW c \in Conns, ReadName(c) PROVE TypeOK'
  BY <1>2 DEF ReadName, Prompts, Calls
<1>3. ASSUME NEW c \in Conns, ReadSecret(c) PROVE TypeOK'
  <2>1. PICK p \in Passwords : said' = [said EXCEPT ![c].pass = p]
    BY <1>3 DEF ReadSecret
  <2>2. said' \in [Conns -> [name : Names \cup {Nobody}, pass : Passwords \cup {Nobody}]]
    BY <2>1
  <2>3. at' \in [Conns -> Prompts \cup Calls \cup {"gate", "in", "out"}]
    BY <1>3 DEF ReadSecret, Calls
  <2> QED
    BY <1>3, <2>2, <2>3 DEF ReadSecret
<1>4. ASSUME NEW c \in Conns, ReadAnswer(c) PROVE TypeOK'
  BY <1>4, Dropped DEF ReadAnswer, Prompts
<1>5. ASSUME NEW c \in Conns, AuthFrame(c) PROVE TypeOK'
  BY <1>5 DEF AuthFrame, Calls, Prompts
<1>6. ASSUME NEW c \in Conns, Exists(c) PROVE TypeOK'
  BY <1>6 DEF Exists, Calls, Prompts
<1>7. ASSUME NEW c \in Conns, Create(c) PROVE TypeOK'
  <2>1. PICK a \in Account : CreatesAs(c, a)
    BY <1>7, Created
  <2> QED
    BY <2>1, Dropped DEF Calls, CreatesAs
<1>8. ASSUME NEW c \in Conns, Authenticate(c) PROVE TypeOK'
  BY <1>8 DEF Authenticate, Calls, Prompts
<1>9. ASSUME NEW c \in Conns, Refuse(c) PROVE TypeOK'
  BY <1>9, Dropped DEF Refuse
<1>10. ASSUME NEW c \in Conns, IssueSession(c) PROVE TypeOK'
  <2>1. PICK t \in Tokens : IssuesAs(c, t)
    BY <1>10, Issued
  <2>2. sessions' \subseteq [token : Tokens, id : Ids] /\ accounts' = accounts
    BY <2>1 DEF IssuesAs
  <2>3. CASE Back(c) \/ End(c)
    BY <2>2, <2>3, Dropped
  <2>4. CASE tok' = [tok EXCEPT ![c] = t] /\ GoTo(c, "enter") /\ UNCHANGED <<said, acc, last>>
    BY <2>2, <2>4 DEF Calls
  <2> QED
    BY <2>1, <2>3, <2>4 DEF IssuesAs
<1>11. ASSUME NEW c \in Conns, CallFails(c) PROVE TypeOK'
  BY <1>11, Dropped DEF CallFails
<1>12. ASSUME NEW c \in Conns, Enter(c) PROVE TypeOK'
  BY <1>12 DEF Enter, Nothing
<1>13. ASSUME NEW c \in Conns, Command(c) PROVE TypeOK'
  BY <1>13 DEF Command
<1>14. ASSUME NEW c \in Conns, HangUp(c) PROVE TypeOK'
  BY <1>14, Dropped DEF HangUp
<1>15. ASSUME NEW c \in Conns, Connect(c) PROVE TypeOK'
  BY <1>15 DEF Connect, Start, Prompts
<1> QED
  BY <1>1, <1>2, <1>3, <1>4, <1>5, <1>6, <1>7, <1>8, <1>9, <1>10, <1>11, <1>12,
     <1>13, <1>14, <1>15 DEF Next

-----------------------------------------------------------------------------
(* The invariant is inductive. *)

\* What a handler holds, in one place.
Held == Spoken /\ Vouched /\ TokensStored /\ SessionsTrue

StoreGrows == accounts \subseteq accounts' /\ sessions \subseteq sessions'

\* A handler that drops what it holds disturbs no other.
LEMMA DropKeeps ==
  ASSUME IInv, NEW c \in Conns, Back(c) \/ End(c), StoreGrows, AccountsAssumption
  PROVE  Held'
<1> USE DEF IInv, StoreGrows
<1>1. /\ at'[c] \in {"name", "gate", "out"} /\ said'[c] = Nothing /\ tok'[c] = Nobody
      /\ \A d \in Conns \ {c} : /\ at'[d] = at[d] /\ said'[d] = said[d]
                               /\ acc'[d] = acc[d] /\ tok'[d] = tok[d]
  BY Dropped
<1>2. Spoken'
  BY <1>1 DEF Spoken, Calls
<1>3. Vouched'
  BY <1>1 DEF Vouched, SameName
<1>4. TokensStored'
  BY <1>1 DEF TokensStored
<1>5. SessionsTrue'
  <2> SUFFICES ASSUME NEW d \in Conns, at'[d] \in {"enter", "in"}
               PROVE  /\ acc'[d] \in accounts' /\ [token |-> tok'[d], id |-> acc'[d].id] \in sessions'
                      /\ \A e \in Conns \ {d} : tok'[e] # tok'[d]
    BY DEF SessionsTrue
  <2>1. d # c
    BY <1>1
  <2>2. /\ acc[d] \in accounts /\ [token |-> tok[d], id |-> acc[d].id] \in sessions
        /\ \A e \in Conns \ {d} : tok[e] # tok[d]
    BY <1>1, <2>1 DEF SessionsTrue
  <2>3. tok[d] # Nobody
    BY <2>2 DEF TypeOK, AccountsAssumption
  <2> QED
    BY <1>1, <2>1, <2>2, <2>3
<1> QED
  BY <1>2, <1>3, <1>4, <1>5 DEF Held

\* A handler that moves without a new account or token disturbs none.
LEMMA MoveKeeps ==
  ASSUME IInv, NEW c \in Conns, UNCHANGED <<store, tok>>,
         \A d \in Conns \ {c} : at'[d] = at[d] /\ said'[d] = said[d] /\ acc'[d] = acc[d],
         at'[c] \in Calls \cup {"pass", "answer", "newpass"} => said'[c].name \in Names,
         at'[c] \in {"in", "out"} => said'[c] = Nothing,
         at'[c] \in {"issue", "enter", "in"} => acc'[c] \in accounts,
         at'[c] \in {"issue", "enter"} =>
           SameName(acc'[c].name, said'[c].name) /\ acc'[c].pass = said'[c].pass,
         at'[c] \in {"enter", "in"} => at[c] \in {"enter", "in"} /\ acc'[c] = acc[c]
  PROVE  Held'
<1> USE DEF IInv, store
<1>1. Spoken'
  BY DEF Spoken
<1>2. Vouched'
  BY DEF Vouched, SameName
<1>3. TokensStored'
  BY DEF TokensStored
<1>4. SessionsTrue'
  BY DEF SessionsTrue
<1> QED
  BY <1>1, <1>2, <1>3, <1>4 DEF Held

LEMMA Inductive == IInv /\ [Next]_vars => IInv'
<1> SUFFICES ASSUME IInv, [Next]_vars PROVE IInv'
  OBVIOUS
<1> USE AccountsAssumption DEF IInv
<1>0. TypeOK'
  BY Typed
<1> SUFFICES Held' /\ OneAccountPerName'
  BY <1>0 DEF Held
<1>1. CASE UNCHANGED vars
  BY <1>1 DEF vars, Held, Spoken, Vouched, SameName, TokensStored, SessionsTrue, OneAccountPerName
<1>2. ASSUME NEW c \in Conns, ReadName(c) PROVE Held' /\ OneAccountPerName'
  <2>1. at'[c] = "pass" /\ said'[c].name \in Names
    BY <1>2 DEF ReadName, GoTo, TypeOK
  <2>2. \A d \in Conns \ {c} : at'[d] = at[d] /\ said'[d] = said[d] /\ acc'[d] = acc[d]
    BY <1>2 DEF ReadName, GoTo, TypeOK
  <2> QED
    BY <1>2, <2>1, <2>2, MoveKeeps DEF ReadName, OneAccountPerName, SameName, store
<1>3. ASSUME NEW c \in Conns, ReadSecret(c) PROVE Held' /\ OneAccountPerName'
  <2>1. at'[c] \in {"exists", "create"} /\ said'[c].name = said[c].name
    BY <1>3 DEF ReadSecret, GoTo, TypeOK
  <2>2. said[c].name \in Names
    BY <1>3 DEF ReadSecret, Spoken
  <2>3. \A d \in Conns \ {c} : at'[d] = at[d] /\ said'[d] = said[d] /\ acc'[d] = acc[d]
    BY <1>3 DEF ReadSecret, GoTo, TypeOK
  <2> QED
    BY <1>3, <2>1, <2>2, <2>3, MoveKeeps DEF ReadSecret, OneAccountPerName, SameName, store
<1>4. ASSUME NEW c \in Conns, ReadAnswer(c) PROVE Held' /\ OneAccountPerName'
  <2>1. CASE Back(c)
    BY <1>4, <2>1, DropKeeps DEF ReadAnswer, StoreGrows, OneAccountPerName, SameName, store
  <2>2. CASE GoTo(c, "newpass") /\ UNCHANGED <<said, acc, tok, last>>
    BY <1>4, <2>2, MoveKeeps DEF ReadAnswer, GoTo, TypeOK, Spoken, OneAccountPerName, SameName, store
  <2> QED
    BY <1>4, <2>1, <2>2 DEF ReadAnswer
<1>5. ASSUME NEW c \in Conns, AuthFrame(c) PROVE Held' /\ OneAccountPerName'
  <2>1. at'[c] \in {"create", "login"} /\ said'[c].name \in Names
    BY <1>5 DEF AuthFrame, GoTo, TypeOK
  <2>2. \A d \in Conns \ {c} : at'[d] = at[d] /\ said'[d] = said[d] /\ acc'[d] = acc[d]
    BY <1>5 DEF AuthFrame, GoTo, TypeOK
  <2> QED
    BY <1>5, <2>1, <2>2, MoveKeeps DEF AuthFrame, OneAccountPerName, SameName, store
<1>6. ASSUME NEW c \in Conns, Exists(c) PROVE Held' /\ OneAccountPerName'
  <2>1. at'[c] \in {"login", "answer"} /\ said[c].name \in Names
    BY <1>6 DEF Exists, GoTo, TypeOK, Spoken, Calls
  <2>2. \A d \in Conns \ {c} : at'[d] = at[d]
    BY <1>6 DEF Exists, GoTo, TypeOK
  <2> QED
    BY <1>6, <2>1, <2>2, MoveKeeps DEF Exists, OneAccountPerName, SameName, store
<1>7. ASSUME NEW c \in Conns, Create(c) PROVE Held' /\ OneAccountPerName'
  <2>1. PICK a \in Account : CreatesAs(c, a)
    BY <1>7, Created
  <2>2. OneAccountPerName'
    BY <2>1 DEF CreatesAs, OneAccountPerName, Taken, SameName
  <2>3. CASE Back(c)
    BY <2>1, <2>2, <2>3, DropKeeps DEF CreatesAs, StoreGrows
  <2>4. CASE acc' = [acc EXCEPT ![c] = a] /\ GoTo(c, "issue") /\ UNCHANGED <<said, tok, last>>
    <3>1. /\ at'[c] = "issue" /\ acc'[c] = a /\ said'[c] = said[c] /\ tok' = tok
          /\ \A d \in Conns \ {c} : at'[d] = at[d] /\ said'[d] = said[d] /\ acc'[d] = acc[d]
      BY <2>4 DEF GoTo, TypeOK
    <3>2. /\ accounts' = accounts \cup {a} /\ sessions' = sessions /\ at[c] = "create"
          /\ a.name = said[c].name /\ a.pass = said[c].pass
      BY <2>1 DEF CreatesAs
    <3>3. Spoken'
      BY <3>1, <3>2 DEF Spoken, Calls
    <3>4. Vouched'
      BY <3>1, <3>2 DEF Vouched, SameName
    <3>5. TokensStored'
      BY <3>1, <3>2 DEF TokensStored
    <3>6. SessionsTrue'
      BY <3>1, <3>2 DEF SessionsTrue
    <3> QED
      BY <2>2, <3>3, <3>4, <3>5, <3>6 DEF Held
  <2> QED
    BY <2>1, <2>3, <2>4 DEF CreatesAs
<1>8. ASSUME NEW c \in Conns, Authenticate(c) PROVE Held' /\ OneAccountPerName'
  <2>1. /\ at[c] = "login" /\ at'[c] = "issue"
        /\ acc'[c] \in accounts /\ SameName(acc'[c].name, said[c].name) /\ acc'[c].pass = said[c].pass
        /\ \A d \in Conns \ {c} : at'[d] = at[d] /\ acc'[d] = acc[d]
    BY <1>8 DEF Authenticate, GoTo, TypeOK
  <2>2. said[c].name \in Names
    BY <2>1 DEF Spoken, Calls
  <2> QED
    BY <1>8, <2>1, <2>2, MoveKeeps DEF Authenticate, OneAccountPerName, SameName, store
<1>9. ASSUME NEW c \in Conns, Refuse(c) PROVE Held' /\ OneAccountPerName'
  BY <1>9, DropKeeps DEF Refuse, StoreGrows, OneAccountPerName, SameName, store
<1>10. ASSUME NEW c \in Conns, IssueSession(c) PROVE Held' /\ OneAccountPerName'
  <2>1. PICK t \in Tokens : IssuesAs(c, t)
    BY <1>10, Issued
  <2>2. OneAccountPerName'
    BY <2>1 DEF IssuesAs, OneAccountPerName, SameName
  <2>3. CASE Back(c) \/ End(c)
    BY <2>1, <2>2, <2>3, DropKeeps DEF IssuesAs, StoreGrows
  <2>4. CASE tok' = [tok EXCEPT ![c] = t] /\ GoTo(c, "enter") /\ UNCHANGED <<said, acc, last>>
    <3>1. /\ at'[c] = "enter" /\ tok'[c] = t /\ acc' = acc /\ said' = said
          /\ \A d \in Conns \ {c} : at'[d] = at[d] /\ tok'[d] = tok[d]
      BY <2>4 DEF GoTo, TypeOK
    <3>2. /\ accounts' = accounts /\ sessions' = sessions \cup {[token |-> t, id |-> acc[c].id]}
          /\ at[c] = "issue" /\ \A s \in sessions : s.token # t
      BY <2>1 DEF IssuesAs
    <3>3. Spoken'
      BY <3>1, <3>2 DEF Spoken, Calls
    <3>4. Vouched'
      BY <3>1, <3>2 DEF Vouched, SameName
    <3>5. TokensStored'
      <4>1. [token |-> t, id |-> acc[c].id] \in sessions' /\ [token |-> t, id |-> acc[c].id].token = t
        BY <3>2
      <4> QED
        BY <3>1, <3>2, <4>1 DEF TokensStored
    <3>6. \A d \in Conns \ {c} : tok[d] # t
      BY <3>2 DEF TokensStored, TypeOK, AccountsAssumption
    <3>7. acc[c] \in accounts
      BY <3>2 DEF Vouched
    <3>8. SessionsTrue'
      BY <3>1, <3>2, <3>6, <3>7 DEF SessionsTrue
    <3> QED
      BY <2>2, <3>3, <3>4, <3>5, <3>8 DEF Held
  <2> QED
    BY <2>1, <2>3, <2>4 DEF IssuesAs
<1>11. ASSUME NEW c \in Conns, CallFails(c) PROVE Held' /\ OneAccountPerName'
  BY <1>11, DropKeeps DEF CallFails, StoreGrows, OneAccountPerName, SameName, store
<1>12. ASSUME NEW c \in Conns, Enter(c) PROVE Held' /\ OneAccountPerName'
  <2>1. /\ at[c] = "enter" /\ at'[c] = "in" /\ said'[c] = Nothing
        /\ \A d \in Conns \ {c} : at'[d] = at[d] /\ said'[d] = said[d]
    BY <1>12 DEF Enter, GoTo, TypeOK
  <2>2. acc[c] \in accounts
    BY <2>1 DEF Vouched
  <2> QED
    BY <1>12, <2>1, <2>2, MoveKeeps DEF Enter, Calls, OneAccountPerName, SameName, store
<1>13. ASSUME NEW c \in Conns, Command(c) PROVE Held' /\ OneAccountPerName'
  BY <1>13 DEF Command, store, Held, Spoken, Vouched, SameName, TokensStored, SessionsTrue, OneAccountPerName
<1>14. ASSUME NEW c \in Conns, HangUp(c) PROVE Held' /\ OneAccountPerName'
  BY <1>14, DropKeeps DEF HangUp, StoreGrows, OneAccountPerName, SameName, store
<1>15. ASSUME NEW c \in Conns, Connect(c) PROVE Held' /\ OneAccountPerName'
  <2>1. /\ at[c] = "out" /\ at'[c] \in {"name", "gate"}
        /\ \A d \in Conns \ {c} : at'[d] = at[d]
    BY <1>15 DEF Connect, GoTo, Start, TypeOK
  <2> QED
    BY <1>15, <2>1, MoveKeeps DEF Connect, Calls, OneAccountPerName, SameName, store
<1> QED
  BY <1>1, <1>2, <1>3, <1>4, <1>5, <1>6, <1>7, <1>8, <1>9, <1>10, <1>11, <1>12,
     <1>13, <1>14, <1>15 DEF Next

LEMMA Initial == Init => IInv
BY AccountsAssumption DEF Init, IInv, TypeOK, Account, Nothing, NoAccount, Start, Prompts, Calls,
   OneAccountPerName, Spoken, Vouched, TokensStored, SessionsTrue

\* The inductive invariant holds in every reachable state.
THEOREM Invariance == Spec => []IInv
<1>1. Init => IInv
  BY Initial
<1>2. IInv /\ [Next]_vars => IInv'
  BY Inductive
<1> QED
  BY <1>1, <1>2, PTL DEF Spec

\* Every state is well typed: no invalid name or password is ever stored.
THEOREM TypeCorrect == Spec => []TypeOK
<1>1. IInv => TypeOK
  BY DEF IInv
<1> QED
  BY <1>1, Invariance, PTL

\* A name has one account at most, though every handler asks before it creates.
THEOREM OneName == Spec => []OneAccountPerName
<1>1. IInv => OneAccountPerName
  BY DEF IInv
<1> QED
  BY <1>1, Invariance, PTL

\* A connection that is in holds a stored token of its own account, and alone.
THEOREM TokensTrue == Spec => []SessionsTrue
<1>1. IInv => SessionsTrue
  BY DEF IInv
<1> QED
  BY <1>1, Invariance, PTL

-----------------------------------------------------------------------------
(* What the loop hears of a connection. *)

\* Before it is in, a connection has told the loop nothing of this sitting.
Heard ==
  \A c \in Conns :
    /\ at[c] \notin {"in", "out"} => last[c] = "none"
    /\ at[c] = "in" => last[c] \in {"enter", "cmd"}

\* What StaysWho asks of the step of one connection.
Keeps(c) ==
  /\ at[c] = "in" =>
       \/ at'[c] = "out"
       \/ at'[c] = "in" /\ acc'[c] = acc[c] /\ tok'[c] = tok[c]
  /\ last'[c] # last[c] =>
       CASE last'[c] = "enter" -> last[c] = "none"
         [] last'[c] = "cmd"   -> last[c] = "enter"
         [] last'[c] = "none"  -> at[c] = "out"
         [] OTHER              -> TRUE

\* A step is of one connection.
Alone(c) ==
  \A d \in Conns \ {c} : /\ at'[d] = at[d] /\ acc'[d] = acc[d]
                         /\ tok'[d] = tok[d] /\ last'[d] = last[d]

\* On its way in, a connection tells the loop nothing.
OnTheWay(c) ==
  /\ at[c] \notin {"in", "out"} /\ at'[c] \notin {"in", "out"}
  /\ last'[c] = last[c]

LEMMA EndsSo ==
  ASSUME TypeOK, NEW c \in Conns, End(c)
  PROVE  Alone(c) /\ at'[c] = "out" /\ last'[c] \in {"leave", last[c]}
BY DEF TypeOK, End, GoTo, Forget, Submits, Alone

LEMMA BacksSo ==
  ASSUME TypeOK, NEW c \in Conns, Back(c), at[c] \notin {"in", "out"}
  PROVE  Alone(c) /\ OnTheWay(c)
BY DEF TypeOK, Back, GoTo, Forget, Start, Alone, OnTheWay

\* Every step of a connection is on the way in, an end, an entry, a command or a
\* new start.
OneOfFive(c) ==
  /\ Alone(c)
  /\ \/ OnTheWay(c)
     \/ at[c] # "out" /\ at'[c] = "out" /\ last'[c] \in {"leave", last[c]}
     \/ at[c] = "enter" /\ at'[c] = "in" /\ last'[c] = "enter"
     \/ /\ at[c] = "in" /\ at'[c] = "in" /\ last'[c] = "cmd"
        /\ acc'[c] = acc[c] /\ tok'[c] = tok[c]
     \/ at[c] = "out" /\ at'[c] \in {"name", "gate"} /\ last'[c] = "none"

LEMMA StepIsOneOfFive ==
  ASSUME TypeOK, Next
  PROVE  \E c \in Conns : OneOfFive(c)
<1> USE DEF OneOfFive
<1>1. ASSUME NEW c \in Conns, ReadName(c) \/ ReadSecret(c) \/ AuthFrame(c) \/ Exists(c) \/ Authenticate(c)
      PROVE  OneOfFive(c)
  BY <1>1 DEF TypeOK, ReadName, ReadSecret, AuthFrame, Exists, Authenticate, GoTo, Alone, OnTheWay
<1>2. ASSUME NEW c \in Conns, ReadAnswer(c) PROVE OneOfFive(c)
  <2>1. at[c] = "answer"
    BY <1>2 DEF ReadAnswer
  <2>2. CASE Back(c)
    BY <2>1, <2>2, BacksSo
  <2>3. CASE GoTo(c, "newpass") /\ UNCHANGED <<said, acc, tok, last>>
    BY <2>1, <2>3 DEF TypeOK, GoTo, Alone, OnTheWay
  <2> QED
    BY <1>2, <2>2, <2>3 DEF ReadAnswer
<1>3. ASSUME NEW c \in Conns, Create(c) PROVE OneOfFive(c)
  <2>1. at[c] = "create"
    BY <1>3 DEF Create
  <2>2. CASE Back(c)
    BY <2>1, <2>2, BacksSo
  <2>3. CASE \E a : acc' = [acc EXCEPT ![c] = a] /\ GoTo(c, "issue") /\ UNCHANGED <<said, tok, last>>
    BY <2>1, <2>3 DEF TypeOK, GoTo, Alone, OnTheWay
  <2> QED
    BY <1>3, <2>2, <2>3 DEF Create
<1>4. ASSUME NEW c \in Conns, Refuse(c) PROVE OneOfFive(c)
  BY <1>4, BacksSo DEF Refuse
<1>5. ASSUME NEW c \in Conns, IssueSession(c) PROVE OneOfFive(c)
  <2>1. at[c] = "issue"
    BY <1>5 DEF IssueSession
  <2>2. CASE Back(c)
    BY <2>1, <2>2, BacksSo
  <2>3. CASE End(c)
    BY <2>1, <2>3, EndsSo
  <2>4. CASE \E t : tok' = [tok EXCEPT ![c] = t] /\ GoTo(c, "enter") /\ UNCHANGED <<said, acc, last>>
    BY <2>1, <2>4 DEF TypeOK, GoTo, Alone, OnTheWay
  <2> QED
    BY <1>5, <2>2, <2>3, <2>4 DEF IssueSession
<1>6. ASSUME NEW c \in Conns, CallFails(c) PROVE OneOfFive(c)
  <2>1. at[c] \notin {"in", "out"}
    BY <1>6 DEF CallFails, Calls
  <2>2. CASE Back(c)
    BY <2>1, <2>2, BacksSo
  <2>3. CASE End(c)
    BY <2>1, <2>3, EndsSo
  <2> QED
    BY <1>6, <2>2, <2>3 DEF CallFails
<1>7. ASSUME NEW c \in Conns, Enter(c) PROVE OneOfFive(c)
  BY <1>7 DEF TypeOK, Enter, GoTo, Submits, Alone
<1>8. ASSUME NEW c \in Conns, Command(c) PROVE OneOfFive(c)
  BY <1>8 DEF TypeOK, Command, Submits, Alone
<1>9. ASSUME NEW c \in Conns, HangUp(c) PROVE OneOfFive(c)
  BY <1>9, EndsSo DEF HangUp, Prompts
<1>10. ASSUME NEW c \in Conns, Connect(c) PROVE OneOfFive(c)
  BY <1>10 DEF TypeOK, Connect, GoTo, Submits, Start, Alone
<1> HIDE DEF OneOfFive
<1> QED
  BY <1>1, <1>2, <1>3, <1>4, <1>5, <1>6, <1>7, <1>8, <1>9, <1>10 DEF Next

LEMMA HeardInductive == TypeOK /\ Heard /\ [Next]_vars => Heard' /\ \A c \in Conns : Keeps(c)
<1> SUFFICES ASSUME TypeOK, Heard, [Next]_vars PROVE Heard' /\ \A c \in Conns : Keeps(c)
  OBVIOUS
<1>1. CASE UNCHANGED vars
  BY <1>1 DEF vars, Heard, Keeps
<1>2. CASE Next
  <2>1. PICK c \in Conns : OneOfFive(c)
    BY <1>2, StepIsOneOfFive
  <2>2. \A d \in Conns \ {c} : Keeps(d)
    BY <2>1 DEF OneOfFive, Alone, Keeps
  <2>3. Keeps(c)
    BY <2>1 DEF OneOfFive, OnTheWay, Keeps, Heard
  <2>4. Heard'
    BY <2>1 DEF OneOfFive, Heard, Alone, OnTheWay
  <2> QED
    BY <2>2, <2>3, <2>4
<1> QED
  BY <1>1, <1>2

\* Once in, a connection is the same account with the same token until it ends,
\* and the loop hears of it an EnterWorld, then commands, then a LeaveWorld at
\* most, whatever is refused and whichever calls fail.  (session.auth, doAuth)
THEOREM StaysWhoItIs == Spec => StaysWho
<1>1. Init => Heard
  BY DEF Init, Heard, Start
<1>2. TypeOK /\ Heard /\ [Next]_vars => Heard'
  BY HeardInductive
<1>3. ASSUME TypeOK, Heard, [Next]_vars
      PROVE  [\A c \in Conns :
       /\ at[c] = "in" =>
            \/ at'[c] = "out"
            \/ at'[c] = "in" /\ acc'[c] = acc[c] /\ tok'[c] = tok[c]
       /\ last'[c] # last[c] =>
            CASE last'[c] = "enter" -> last[c] = "none"
              [] last'[c] = "cmd"   -> last[c] = "enter"
              [] last'[c] = "none"  -> at[c] = "out"
              [] OTHER              -> TRUE]_vars
  BY <1>3, HeardInductive, Zenon DEF Keeps
<1> QED
  BY <1>1, <1>2, <1>3, TypeCorrect, PTL DEF Spec, StaysWho

-----------------------------------------------------------------------------
(* The gate implements Registry. *)

Owner == [k \in Keys |-> OwnerOf(k)]
Claimed == [c \in Conns |-> [key |-> KeyOf(said[c].name), pass |-> said[c].pass]]
Plays == [c \in Conns |-> IF at[c] = "in" THEN KeyOf(acc[c].name) ELSE Nobody]

\* One account answers for each name.
LEMMA OwnerIs ==
  ASSUME TypeOK, OneAccountPerName, NEW k
  PROVE  /\ \A a \in accounts : Fold[a.name] = k => OwnerOf(k) = a.pass
         /\ (\A a \in accounts : Fold[a.name] # k) => OwnerOf(k) = Nobody
<1>1. ASSUME NEW a \in accounts, Fold[a.name] = k PROVE OwnerOf(k) = a.pass
  <2> DEFINE b == CHOOSE x \in accounts : Fold[x.name] = k
  <2>1. b \in accounts /\ Fold[b.name] = k
    BY <1>1
  <2>2. b = a
    BY <1>1, <2>1 DEF OneAccountPerName, SameName
  <2> QED
    BY <1>1, <2>2 DEF OwnerOf
<1>2. ASSUME \A a \in accounts : Fold[a.name] # k PROVE OwnerOf(k) = Nobody
  BY <1>2 DEF OwnerOf
<1> QED
  BY <1>1, <1>2

LEMMA ClaimOf ==
  ASSUME NEW c \in Conns, \A d \in Conns \ {c} : said'[d] = said[d]
  PROVE  Claimed' = [Claimed EXCEPT ![c] = [key |-> KeyOf(said'[c].name), pass |-> said'[c].pass]]
BY DEF Claimed

\* The claim of a handler that drops what it holds is withdrawn.
LEMMA Withdrawn ==
  ASSUME IInv, NEW c \in Conns, Back(c) \/ End(c)
  PROVE  Claimed' = [Claimed EXCEPT ![c] = [key |-> Nobody, pass |-> Nobody]]
<1>1. said'[c] = Nothing /\ \A d \in Conns \ {c} : said'[d] = said[d]
  BY Dropped DEF IInv
<1>2. KeyOf(Nobody) = Nobody
  BY AccountsAssumption DEF KeyOf
<1> QED
  BY <1>1, <1>2, ClaimOf DEF Nothing

LEMMA SamePlays ==
  ASSUME NEW c \in Conns, at[c] # "in", at'[c] # "in",
         \A d \in Conns \ {c} : at'[d] = at[d] /\ acc'[d] = acc[d]
  PROVE  Plays' = Plays /\ Plays[c] = Nobody
BY DEF Plays

LEMMA SameOwner == ASSUME accounts' = accounts PROVE Owner' = Owner
BY DEF Owner, OwnerOf

\* A step that takes a handler from a prompt or a call to another.
Stays(c) ==
  /\ at[c] # "in" /\ at'[c] # "in" /\ accounts' = accounts
  /\ \A d \in Conns \ {c} : at'[d] = at[d] /\ acc'[d] = acc[d]

LEMMA ClaimStep ==
  ASSUME NEW c \in Conns, Stays(c),
         NEW k \in Keys \cup {Nobody}, NEW p \in Passwords \cup {Nobody},
         Claimed' = [Claimed EXCEPT ![c] = [key |-> k, pass |-> p]]
  PROVE  R!Next
<1>1. Owner' = Owner
  BY SameOwner DEF Stays
<1>2. Plays' = Plays /\ Plays[c] = Nobody
  BY SamePlays DEF Stays
<1>3. R!Claim(c, k, p)
  BY <1>1, <1>2 DEF R!Claim, Owner, Claimed, Plays
<1> QED
  BY <1>3 DEF R!Next

LEMMA DropStep ==
  ASSUME IInv, NEW c \in Conns, Back(c) \/ End(c), at[c] # "in", accounts' = accounts
  PROVE  R!Next
<1>1. Stays(c)
  BY Dropped DEF Stays, IInv
<1> QED
  BY <1>1, Withdrawn, ClaimStep

LEMMA QuietStep ==
  ASSUME NEW c \in Conns, Stays(c), UNCHANGED said
  PROVE  UNCHANGED R!vars
<1>1. Owner' = Owner /\ Claimed' = Claimed
  BY SameOwner DEF Stays, Claimed
<1>2. Plays' = Plays
  BY SamePlays DEF Stays
<1> QED
  BY <1>1, <1>2 DEF R!vars, Owner, Claimed, Plays

LEMMA Maps == IInv /\ IInv' /\ [Next]_vars => [R!Next]_(R!vars)
<1> SUFFICES ASSUME IInv, IInv', [Next]_vars PROVE R!Next \/ UNCHANGED R!vars
  OBVIOUS
<1> USE AccountsAssumption
<1>1. CASE UNCHANGED vars
  BY <1>1 DEF vars, R!vars, OwnerOf
<1>2. ASSUME NEW c \in Conns, ReadName(c) PROVE R!Next
  <2>1. PICK n \in Names : said' = [said EXCEPT ![c].name = n]
    BY <1>2 DEF ReadName
  <2>2. Claimed' = [Claimed EXCEPT ![c] = [key |-> Fold[n], pass |-> said[c].pass]]
    <3>1. /\ said'[c].name = n /\ said'[c].pass = said[c].pass
          /\ \A d \in Conns \ {c} : said'[d] = said[d]
      BY <2>1 DEF IInv, TypeOK
    <3> QED
      BY <3>1, ClaimOf DEF KeyOf
  <2>3. Fold[n] \in Keys /\ said[c].pass \in Passwords \cup {Nobody}
    BY DEF IInv, TypeOK
  <2>4. Stays(c)
    BY <1>2 DEF ReadName, Stays, GoTo, IInv, TypeOK, store
  <2> QED
    BY <2>2, <2>3, <2>4, ClaimStep
<1>3. ASSUME NEW c \in Conns, ReadSecret(c) PROVE R!Next
  <2>1. PICK p \in Passwords : said' = [said EXCEPT ![c].pass = p]
    BY <1>3 DEF ReadSecret
  <2>2. Claimed' = [Claimed EXCEPT ![c] = [key |-> KeyOf(said[c].name), pass |-> p]]
    <3>1. /\ said'[c].name = said[c].name /\ said'[c].pass = p
          /\ \A d \in Conns \ {c} : said'[d] = said[d]
      BY <2>1 DEF IInv, TypeOK
    <3> QED
      BY <3>1, ClaimOf
  <2>3. KeyOf(said[c].name) \in Keys \cup {Nobody}
    BY DEF IInv, TypeOK, KeyOf
  <2>4. Stays(c)
    BY <1>3 DEF ReadSecret, Stays, GoTo, IInv, TypeOK, store
  <2> QED
    BY <2>2, <2>3, <2>4, ClaimStep
<1>4. ASSUME NEW c \in Conns, ReadAnswer(c) PROVE R!Next \/ UNCHANGED R!vars
  <2>1. CASE Back(c)
    BY <1>4, <2>1, DropStep DEF ReadAnswer, store
  <2>2. CASE GoTo(c, "newpass") /\ UNCHANGED <<said, acc, tok, last>>
    BY <1>4, <2>2, QuietStep DEF ReadAnswer, Stays, GoTo, IInv, TypeOK, store
  <2> QED
    BY <1>4, <2>1, <2>2 DEF ReadAnswer
<1>5. ASSUME NEW c \in Conns, AuthFrame(c) PROVE R!Next
  <2>1. PICK n \in Names, p \in Passwords : said' = [said EXCEPT ![c] = [name |-> n, pass |-> p]]
    BY <1>5 DEF AuthFrame
  <2>2. Claimed' = [Claimed EXCEPT ![c] = [key |-> Fold[n], pass |-> p]]
    BY <2>1 DEF Claimed, KeyOf, IInv, TypeOK
  <2>3. Fold[n] \in Keys
    OBVIOUS
  <2>4. Stays(c)
    BY <1>5 DEF AuthFrame, Stays, GoTo, IInv, TypeOK, store
  <2> QED
    BY <2>2, <2>3, <2>4, ClaimStep
<1>6. ASSUME NEW c \in Conns, Exists(c) PROVE UNCHANGED R!vars
  BY <1>6, QuietStep DEF Exists, Stays, GoTo, IInv, TypeOK, store
<1>7. ASSUME NEW c \in Conns, Create(c) PROVE R!Next
  <2>1. PICK a \in Account : CreatesAs(c, a)
    BY <1>7, Created DEF IInv
  <2>2. /\ accounts' = accounts \cup {a} /\ a.name = said[c].name /\ a.pass = said[c].pass
        /\ at[c] = "create" /\ \A b \in accounts : Fold[b.name] # Fold[a.name]
    BY <2>1 DEF CreatesAs, Taken, SameName
  <2>3. a.name \in Names /\ a.pass \in Passwords
    BY DEF Account
  <2>4. Claimed[c] = [key |-> Fold[a.name], pass |-> a.pass] /\ Fold[a.name] \in Keys
    BY <2>2, <2>3 DEF Claimed, KeyOf
  <2>5. OwnerOf(Fold[a.name]) = Nobody
    BY <2>2, OwnerIs DEF IInv
  <2>6. Owner' = [Owner EXCEPT ![Fold[a.name]] = a.pass]
    <3>1. OwnerOf(Fold[a.name])' = a.pass
      <4>1. IInv' => TypeOK' /\ OneAccountPerName'
        BY DEF IInv
      <4>2. \A b \in accounts' : b.name # a.name \/ b = a
        BY <2>2
      <4>3. \A x \in accounts' : Fold[x.name] = Fold[a.name] => x = a
        BY <2>2
      <4>4. a \in accounts'
        BY <2>2
      <4> QED
        BY <4>3, <4>4 DEF OwnerOf
    <3>2. ASSUME NEW k \in Keys, k # Fold[a.name] PROVE OwnerOf(k)' = OwnerOf(k)
      <4>1. CASE \E b \in accounts : Fold[b.name] = k
        <5>1. PICK b \in accounts : Fold[b.name] = k
          BY <4>1
        <5>2. OwnerOf(k) = b.pass
          BY <5>1, OwnerIs DEF IInv
        <5>3. \A x \in accounts' : Fold[x.name] = k => x = b
          BY <2>2, <3>2, <5>1 DEF IInv, OneAccountPerName, SameName
        <5>4. OwnerOf(k)' = b.pass
          BY <2>2, <5>1, <5>3 DEF OwnerOf
        <5> QED
          BY <5>2, <5>4
      <4>2. CASE \A b \in accounts : Fold[b.name] # k
        <5>1. \A b \in accounts' : Fold[b.name] # k
          BY <2>2, <3>2, <4>2
        <5> QED
          BY <4>2, <5>1 DEF OwnerOf
      <4> QED
        BY <4>1, <4>2
    <3> QED
      BY <2>4, <3>1, <3>2 DEF Owner
  <2>7. Claimed' \in {Claimed, [Claimed EXCEPT ![c] = R!Silent]}
    <3>1. CASE Back(c)
      BY <3>1, Withdrawn DEF R!Silent
    <3>2. CASE UNCHANGED said
      BY <3>2 DEF Claimed
    <3> QED
      BY <2>1, <3>1, <3>2 DEF CreatesAs
  <2>8. Plays' = Plays
    <3>1. CASE Back(c)
      BY <2>2, <3>1, Dropped, SamePlays DEF IInv
    <3>2. CASE acc' = [acc EXCEPT ![c] = a] /\ GoTo(c, "issue")
      BY <2>2, <3>2, SamePlays DEF GoTo, IInv, TypeOK
    <3> QED
      BY <2>1, <3>1, <3>2 DEF CreatesAs
  <2>9. R!Register(c)
    BY <2>4, <2>5, <2>6, <2>7, <2>8 DEF R!Register, Owner, Claimed, Plays
  <2> QED
    BY <2>9 DEF R!Next
<1>8. ASSUME NEW c \in Conns, Authenticate(c) PROVE UNCHANGED R!vars
  BY <1>8, QuietStep DEF Authenticate, Stays, GoTo, IInv, TypeOK, store
<1>9. ASSUME NEW c \in Conns, Refuse(c) PROVE R!Next
  BY <1>9, DropStep DEF Refuse, store
<1>10. ASSUME NEW c \in Conns, IssueSession(c) PROVE R!Next \/ UNCHANGED R!vars
  <2>1. PICK t \in Tokens : IssuesAs(c, t)
    BY <1>10, Issued DEF IInv
  <2>2. CASE Back(c) \/ End(c)
    BY <2>1, <2>2, DropStep DEF IssuesAs
  <2>3. CASE GoTo(c, "enter") /\ UNCHANGED <<said, acc, last>>
    BY <2>1, <2>3, QuietStep DEF IssuesAs, Stays, GoTo, IInv, TypeOK
  <2> QED
    BY <2>1, <2>2, <2>3 DEF IssuesAs
<1>11. ASSUME NEW c \in Conns, CallFails(c) PROVE R!Next
  BY <1>11, DropStep DEF CallFails, Calls, store
<1>12. ASSUME NEW c \in Conns, Enter(c) PROVE R!Next
  <2>1. /\ at[c] = "enter" /\ at' = [at EXCEPT ![c] = "in"] /\ accounts' = accounts /\ acc' = acc
        /\ said' = [said EXCEPT ![c] = Nothing]
    BY <1>12 DEF Enter, GoTo, store
  <2>2. /\ acc[c] \in accounts /\ Fold[acc[c].name] = Fold[said[c].name] /\ acc[c].pass = said[c].pass
        /\ said[c].name \in Names
    BY <2>1 DEF IInv, Vouched, SameName, Spoken, Calls
  <2>3. acc[c].name \in Names /\ acc[c].pass \in Passwords
    BY <2>2 DEF IInv, TypeOK, Account
  <2>4. Claimed[c] = [key |-> Fold[acc[c].name], pass |-> acc[c].pass] /\ Fold[acc[c].name] \in Keys
    BY <2>2, <2>3 DEF Claimed, KeyOf
  <2>5. OwnerOf(Fold[acc[c].name]) = acc[c].pass
    BY <2>2, OwnerIs DEF IInv
  <2>6. Plays' = [Plays EXCEPT ![c] = Fold[acc[c].name]]
    BY <2>1, <2>3 DEF Plays, KeyOf, IInv, TypeOK
  <2>7. Claimed' = [Claimed EXCEPT ![c] = R!Silent]
    BY <2>1 DEF Claimed, KeyOf, Nothing, R!Silent, IInv, TypeOK
  <2>8. Owner' = Owner
    BY <2>1, SameOwner
  <2>9. R!Enter(c)
    BY <2>3, <2>4, <2>5, <2>6, <2>7, <2>8 DEF R!Enter, Owner, Claimed, Plays
  <2> QED
    BY <2>9 DEF R!Next
<1>13. ASSUME NEW c \in Conns, Command(c) PROVE UNCHANGED R!vars
  BY <1>13 DEF Command, store, R!vars, OwnerOf
<1>14. ASSUME NEW c \in Conns, HangUp(c) PROVE R!Next
  <2>1. CASE at[c] # "in"
    BY <1>14, <2>1, DropStep DEF HangUp, store
  <2>2. CASE at[c] = "in"
    <3>1. /\ at'[c] \in {"name", "gate", "out"} /\ said'[c] = Nothing /\ said[c] = Nothing
          /\ \A d \in Conns \ {c} : at'[d] = at[d] /\ said'[d] = said[d] /\ acc'[d] = acc[d]
      BY <1>14, <2>2, Dropped DEF HangUp, IInv, Spoken
    <3>2. Claimed' = Claimed
      BY <3>1 DEF Claimed
    <3>3. Owner' = Owner
      BY <1>14, SameOwner DEF HangUp, store
    <3>4. Plays' = [Plays EXCEPT ![c] = Nobody]
      BY <3>1 DEF Plays
    <3>5. R!Leave(c)
      BY <3>2, <3>3, <3>4 DEF R!Leave, Owner, Claimed, Plays
    <3> QED
      BY <3>5 DEF R!Next
  <2> QED
    BY <2>1, <2>2
<1>15. ASSUME NEW c \in Conns, Connect(c) PROVE UNCHANGED R!vars
  BY <1>15, QuietStep DEF Connect, Stays, Start, GoTo, IInv, TypeOK, store
<1> QED
  BY <1>1, <1>2, <1>3, <1>4, <1>5, <1>6, <1>7, <1>8, <1>9, <1>10, <1>11, <1>12,
     <1>13, <1>14, <1>15 DEF Next

LEMMA MapsInitially == Init => R!Init
<1> SUFFICES ASSUME Init PROVE R!Init
  OBVIOUS
<1>1. KeyOf(Nobody) = Nobody
  BY AccountsAssumption DEF KeyOf
<1>2. Owner = [k \in Keys |-> Nobody]
  BY DEF Init, Owner, OwnerOf
<1>3. Claimed = [c \in Conns |-> R!Silent]
  BY <1>1 DEF Init, Claimed, Nothing, R!Silent
<1>4. Plays = [c \in Conns |-> Nobody]
  BY DEF Init, Plays, Start
<1> QED
  BY <1>2, <1>3, <1>4 DEF R!Init, Owner, Claimed, Plays

\* Whoever is in gave the password of the name it plays under, and a name once
\* taken keeps its password: the gate implements Registry.
THEOREM Implementation == Spec => KeepsRegistry
<1>1. Init => R!Init
  BY MapsInitially
<1>2. IInv /\ IInv' /\ [Next]_vars => [R!Next]_(R!vars)
  BY Maps
<1> QED
  BY <1>1, <1>2, Invariance, PTL DEF Spec, R!Spec, KeepsRegistry
=============================================================================
