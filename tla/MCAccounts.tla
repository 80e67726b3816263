----------------------------- MODULE MCAccounts -----------------------------
(* Accounts with a Telnet and a WebSocket client, a name with two spellings *)
(* and a second name.                                                       *)
EXTENDS Accounts

CONSTANTS t1, w1, ann, Ann, bo, keyAnn, keyBo, right, wrong, short

Both == {t1, w1}
TelnetOnly == {t1}
AllNames == {ann, Ann, bo}
AllKeys == {keyAnn, keyBo}
Folded == [n \in AllNames |-> IF n = bo THEN keyBo ELSE keyAnn]
AllPasswords == {right, wrong, short}
LongPasswords == {right, wrong}
=============================================================================
