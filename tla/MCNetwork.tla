------------------------------- MODULE MCNetwork -------------------------------
(* The server and a client that calls twice, so that its second call meets *)
(* what its first has left on the way, in the server and in its tables.    *)
EXTENDS Network

CONSTANT c1

OneClient == {c1}
TwoCalls == [c \in OneClient |-> 2]
===============================================================================
