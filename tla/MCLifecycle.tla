---------------------------- MODULE MCLifecycle ----------------------------
(* Lifecycle, alone and with restarts, on small instances. *)
EXTENDS Restart, FiniteSets, TLC

CONSTANTS t1, t2, w1, a1, none

TelnetAndWS == {t1, w1}
TwoTelnet   == {t1, t2}
TelnetOnly  == {t1}
OneAccount  == {a1}

\* Two Telnet connections are alike.
AlikeConns == Permutations({t1, t2})

\* Bound: behaviours are followed until an account has met three kinds of fault.
FewFaults == \A a \in Accounts : Cardinality(faults[a]) <= 2
=============================================================================
