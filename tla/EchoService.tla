---------------------------- MODULE EchoService ----------------------------
(***************************************************************************)
(* What linux/linux-example/socket_echo_server promises to a connection:   *)
(* what is sent is given back and nothing else is, and a connection that   *)
(* something is owed to is answered or ended, never left hanging.          *)
(* Processes, descriptors and signals do not appear.                       *)
(***************************************************************************)
EXTENDS Naturals

CONSTANT Clients  \* connections

VARIABLES
    up,     \* the connections that are there
    owed,   \* bytes sent and not yet given back
    ready   \* bytes given back and not yet taken

vars == <<up, owed, ready>>

Init == /\ up = {}
        /\ owed = [c \in Clients |-> 0]
        /\ ready = [c \in Clients |-> 0]

Connect(c) == /\ c \notin up
              /\ up' = up \cup {c}
              /\ UNCHANGED <<owed, ready>>

Send(c) == /\ c \in up
           /\ owed' = [owed EXCEPT ![c] = @ + 1]
           /\ UNCHANGED <<up, ready>>

Echo(c) == /\ c \in up
           /\ \E n \in 1 .. owed[c] :
                 /\ owed' = [owed EXCEPT ![c] = @ - n]
                 /\ ready' = [ready EXCEPT ![c] = @ + n]
           /\ UNCHANGED up

Take(c) == /\ c \in up
           /\ \E n \in 1 .. ready[c] : ready' = [ready EXCEPT ![c] = @ - n]
           /\ UNCHANGED <<up, owed>>

(* A client leaves, or the server ends connections: several at once when   *)
(* the server itself goes.                                                 *)
End(cs) == /\ cs # {} /\ cs \subseteq up
           /\ up' = up \ cs
           /\ owed' = [c \in Clients |-> IF c \in cs THEN 0 ELSE owed[c]]
           /\ ready' = [c \in Clients |-> IF c \in cs THEN 0 ELSE ready[c]]

Next == \/ \E c \in Clients : Connect(c) \/ Send(c) \/ Echo(c) \/ Take(c)
        \/ \E cs \in SUBSET Clients : End(cs)

(* Owed only as long as the client takes what it is given.                 *)
Answer(c) == /\ owed[c] > 0 /\ ready[c] = 0
             /\ Echo(c) \/ \E cs \in SUBSET Clients : c \in cs /\ End(cs)

Safety == Init /\ [][Next]_vars

Spec == Safety /\ \A c \in Clients : WF_vars(Answer(c))
=============================================================================
