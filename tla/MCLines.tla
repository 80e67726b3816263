------------------------------ MODULE MCLines -------------------------------
(* Lines with a client that types words, deletions, Telnet commands in the  *)
(* middle of a word, a line too long and nothing at all.                    *)
EXTENDS Lines

T(keys, l) == [keys |-> keys, line |-> l]

Keys ==
  { T(<<"a">>, <<"a">>),
    T(<<"IAC", "DO", "BS", "BS", "a", "b", "BS", "b">>, <<"a", "b">>),
    T(<<"a", "IAC", "SB", "LF", "IAC", "SE", "BEL", "b", "a">>, <<>>) }
=============================================================================
