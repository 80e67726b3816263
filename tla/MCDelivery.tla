---------------------------- MODULE MCDelivery ----------------------------
(* Delivery with one Telnet and one WebSocket client, of two players or of one. *)
EXTENDS Delivery

CONSTANTS t1, w1

Both == {t1, w1}
TelnetOnly == {t1}

TwoPlayers == [c \in Both |-> c]
OnePlayer  == [c \in Both |-> t1]
EitherWay  == {TwoPlayers, OnePlayer}
=============================================================================
