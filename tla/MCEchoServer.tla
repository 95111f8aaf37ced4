---------------------------- MODULE MCEchoServer ----------------------------
(* Instances of EchoServer for TLC.                                        *)
EXTENDS EchoServer

CONSTANTS c1, c2, p1, p2

TwoClients == {c1, c2}
TwoChildren == {p1, p2}
\* c1 sends lines that fit one read of the server and lines that do not; c2
\* is one of the sockets echo_client opens and never uses
OneIdle == [c \in TwoClients |-> IF c = c1 THEN {1, ReadSize + 1} ELSE {}]
OneByte == [c \in TwoClients |-> {1}]
=============================================================================
