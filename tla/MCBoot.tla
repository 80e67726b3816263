------------------------------- MODULE MCBoot -------------------------------
(* Boot on the ports about the documented one: 4000 is 1, 4001 is 2, and so on. *)
EXTENDS Boot

Adjacent == [l \in Listeners |-> IF l = "telnet" THEN 1 ELSE 2]

Documented == {1, 2}
=============================================================================
