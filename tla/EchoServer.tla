----------------------------- MODULE EchoServer -----------------------------
(***************************************************************************)
(* linux/linux-example/socket_echo_server: echo_server.c forks a process   *)
(* for every connection and collects the dead ones in a SIGCHLD handler;   *)
(* echo_client.c sends a line, reads once, shows what it got.              *)
(*                                                                         *)
(* Processes interleave freely; the handler runs between any two steps of  *)
(* main, with SIGCHLD blocked, and signal() restarts system calls.  A      *)
(* connection is a member of Clients; bytes are counted, not distinguished.*)
(* Children are the entries of the process table: a zombie keeps its one.  *)
(* A server that exits may be started again.                               *)
(***************************************************************************)
EXTENDS Naturals, Sequences

CONSTANTS
    Clients,   \* connections of echo_client
    Children,  \* process table entries
    Server,    \* the server process
    None,      \* the descriptor -1
    Lines,     \* the lengths of the lines each client sends (1 to 4095)
    ReadSize,  \* bytes one read of str_echo takes (1024)
    MAXLINE,   \* bytes one read of the client takes (4096)
    SockBuf,   \* bytes one direction of a connection holds
    MaxFaults  \* bound: failing accepts and forks, killed children

ASSUME EchoAssumption ==
    /\ Server \notin Children /\ None \notin Clients
    /\ Lines \in [Clients -> SUBSET (Nat \ {0})]
    /\ {ReadSize, MAXLINE, SockBuf} \subseteq Nat \ {0} /\ MaxFaults \in Nat

VARIABLES
    spc, connfd,     \* where the server is, and its variable connfd
    sigchld,         \* SIGCHLD is pending for the server
    inHandler,       \* the server is in sig_child
    listeners,       \* the processes that hold the socket bound to LISTEN_PORT
    queue,           \* the connections accept has not taken
    holders,         \* the processes that hold each connection
    child,           \* each child: where it is, or its place is free
    cfd, have,       \* its sockfd, and the bytes in its buf
    orphans,         \* the children whose server is gone
    client,          \* where the client of each connection is
    left,            \* bytes of its line still to be written
    link,            \* how the connection looks to the client
    unread, back,    \* bytes that wait for the child and for the client
    faults

serverVars == <<spc, connfd, sigchld, inHandler>>
socketVars == <<listeners, queue, holders>>
childVars  == <<child, cfd, have, orphans>>
clientVars == <<client, left>>
linkVars   == <<link, unread, back>>
vars == <<serverVars, socketVars, childVars, clientVars, linkVars, faults>>

Procs == Children \cup {Server}
Running == {ch \in Children : child[ch] \in {"start", "read", "write"}}

(* The type of every variable.                                             *)
TypeOK ==
    /\ spc \in {"down", "accept", "fork", "close"}
    /\ connfd \in Clients \cup {None}
    /\ sigchld \in BOOLEAN /\ inHandler \in BOOLEAN
    /\ listeners \subseteq Procs
    /\ queue \in Seq(Clients)
    /\ holders \in [Clients -> SUBSET Procs]
    /\ child \in [Children -> {"free", "start", "read", "write", "zombie"}]
    /\ cfd \in [Children -> Clients \cup {None}]
    /\ have \in [Children -> 0 .. ReadSize]
    /\ orphans \subseteq Children
    /\ client \in [Clients -> {"off", "line", "write", "read"}]
    /\ left \in [Clients -> Nat]
    /\ link \in [Clients -> {"up", "fin", "rst", "broken"}]
    /\ unread \in [Clients -> 0 .. SockBuf]
    /\ back \in [Clients -> 0 .. SockBuf]
    /\ faults \in 0 .. MaxFaults

Init ==
    /\ spc = "down" /\ connfd = None /\ sigchld = FALSE /\ inHandler = FALSE
    /\ listeners = {} /\ queue = <<>> /\ holders = [c \in Clients |-> {}]
    /\ child = [ch \in Children |-> "free"]
    /\ cfd = [ch \in Children |-> None]
    /\ have = [ch \in Children |-> 0]
    /\ orphans = {}
    /\ client = [c \in Clients |-> "off"]
    /\ left = [c \in Clients |-> 0]
    /\ link = [c \in Clients |-> "up"]
    /\ unread = [c \in Clients |-> 0]
    /\ back = [c \in Clients |-> 0]
    /\ faults = 0

Queued(c) == \E i \in 1 .. Len(queue) : queue[i] = c
Min2(a, b) == IF a <= b THEN a ELSE b
Fault == faults < MaxFaults /\ faults' = faults + 1
-----------------------------------------------------------------------------
(* The kernel's side of sockets and processes.                             *)

(* Process p closes the connections cs, and the listening socket if lst.   *)
(* A connection ends when its last holder closes it: with unread data in a *)
(* reset, for the data is thrown away.  With the last holder of the        *)
(* listening socket the connections that wait for accept are reset.        *)
Closes(p, cs, lst) ==
    LET listening == IF lst THEN listeners \ {p} ELSE listeners
        refused == {c \in Clients : Queued(c) /\ listening = {}}
        ended == {c \in cs : holders[c] = {p}}
    IN /\ listeners' = listening
       /\ queue' = IF listening = {} THEN <<>> ELSE queue
       /\ holders' = [c \in Clients |-> IF c \in cs THEN holders[c] \ {p} ELSE holders[c]]
       /\ link' = [c \in Clients |->
                     IF client[c] = "off" \/ c \notin refused \cup ended THEN link[c]
                     ELSE IF c \in refused \/ unread[c] > 0 THEN "rst" ELSE "fin"]
       /\ unread' = [c \in Clients |-> IF c \in refused \cup ended THEN 0 ELSE unread[c]]

(* A child ends: by exit(0), or by a signal.  Its parent is told, by a     *)
(* signal that is not queued, and finds a zombie; init collects orphans.   *)
ChildEnds(ch) ==
    /\ Closes(ch, Clients, TRUE)
    /\ child' = [child EXCEPT ![ch] = IF ch \in orphans THEN "free" ELSE "zombie"]
    /\ sigchld' = (sigchld \/ ch \notin orphans)
    /\ orphans' = orphans \ {ch}
    /\ cfd' = [cfd EXCEPT ![ch] = None]
    /\ have' = [have EXCEPT ![ch] = 0]
    /\ UNCHANGED <<spc, connfd, inHandler, clientVars, back>>

(* The server ends: init takes over its children and collects the dead.    *)
ServerEnds ==
    /\ Closes(Server, Clients, TRUE)
    /\ spc' = "down" /\ connfd' = None /\ sigchld' = FALSE /\ inHandler' = FALSE
    /\ child' = [ch \in Children |-> IF child[ch] = "zombie" THEN "free" ELSE child[ch]]
    /\ orphans' = Running
    /\ UNCHANGED <<cfd, have, clientVars, back>>
-----------------------------------------------------------------------------
(* main of echo_server.c                                                   *)

(* Without SO_REUSEADDR bind fails while anything uses the port, and it    *)
(* may fail for a while after that, as long as sockets of connections that *)
(* ended are in FIN_WAIT2 or TIME_WAIT.  Its result is not looked at:      *)
(* listen then takes a port nobody knows.                                  *)
PortBusy == listeners # {} \/ \E c \in Clients : holders[c] # {}

(* socket, bind, listen, signal.                                           *)
Start ==
    /\ spc = "down"
    /\ spc' = "accept"
    /\ \/ ~PortBusy /\ listeners' = {Server}
       \/ UNCHANGED listeners
    /\ UNCHANGED <<connfd, sigchld, inHandler, queue, holders, childVars, clientVars,
                   linkVars, faults>>

Accept ==
    /\ spc = "accept" /\ ~inHandler
    /\ Server \in listeners /\ queue # <<>>
    /\ connfd' = Head(queue)
    /\ queue' = Tail(queue)
    /\ holders' = [holders EXCEPT ![Head(queue)] = {Server}]
    /\ spc' = "fork"
    /\ UNCHANGED <<sigchld, inHandler, listeners, childVars, clientVars, linkVars,
                   faults>>

(* No file, no memory, or the client already gave up: -1, and main goes on *)
(* as if there were a connection.                                          *)
AcceptFails ==
    /\ spc = "accept" /\ ~inHandler /\ Fault
    /\ connfd' = None
    /\ spc' = "fork"
    /\ UNCHANGED <<sigchld, inHandler, socketVars, childVars, clientVars, linkVars>>

(* The child has a copy of every descriptor of the server.                 *)
Fork(ch) ==
    /\ spc = "fork" /\ ~inHandler /\ child[ch] = "free"
    /\ child' = [child EXCEPT ![ch] = "start"]
    /\ cfd' = [cfd EXCEPT ![ch] = connfd]
    /\ holders' = [c \in Clients |-> IF Server \in holders[c] THEN holders[c] \cup {ch}
                                                              ELSE holders[c]]
    /\ listeners' = IF Server \in listeners THEN listeners \cup {ch} ELSE listeners
    /\ spc' = "close"
    /\ UNCHANGED <<connfd, sigchld, inHandler, queue, have, orphans, clientVars,
                   linkVars, faults>>

(* fork fails, surely so when the process table is full: exit(1).          *)
ForkFails ==
    /\ spc = "fork" /\ ~inHandler
    /\ \/ Fault
       \/ (\A ch \in Children : child[ch] # "free") /\ UNCHANGED faults
    /\ ServerEnds

(* Somebody ends the server, which has no exit of its own.                 *)
ServerKilled == spc # "down" /\ ServerEnds /\ UNCHANGED faults

CloseConnfd_Missing ==
    /\ spc = "close" /\ ~inHandler
    /\ spc' = "accept" /\ connfd' = None
    /\ UNCHANGED <<sigchld, inHandler, socketVars, childVars, clientVars, linkVars, faults>>

CloseConnfd ==
    /\ spc = "close" /\ ~inHandler
    /\ Closes(Server, {connfd} \cap Clients, FALSE)
    /\ spc' = "accept" /\ connfd' = None
    /\ UNCHANGED <<sigchld, inHandler, childVars, clientVars, back, faults>>
-----------------------------------------------------------------------------
(* sig_child                                                               *)

HandlerEnter ==
    /\ sigchld /\ ~inHandler /\ spc # "down"
    /\ sigchld' = FALSE /\ inHandler' = TRUE
    /\ UNCHANGED <<spc, connfd, socketVars, childVars, clientVars, linkVars, faults>>

GoesOn_Once == FALSE

(* while: the handler calls waitpid again after a child it has collected.  *)
GoesOn == TRUE

(* waitpid(-1, &state, WNOHANG) finds a child that ended.                  *)
Waitpid(ch) ==
    /\ inHandler /\ child[ch] = "zombie"
    /\ child' = [child EXCEPT ![ch] = "free"]
    /\ inHandler' = GoesOn
    /\ UNCHANGED <<spc, connfd, sigchld, socketVars, cfd, have, orphans, clientVars,
                   linkVars, faults>>

WaitpidNone ==
    /\ inHandler /\ \A ch \in Children : child[ch] # "zombie"
    /\ inHandler' = FALSE
    /\ UNCHANGED <<spc, connfd, sigchld, socketVars, childVars, clientVars, linkVars,
                   faults>>
-----------------------------------------------------------------------------
(* The child: close(listenfd), str_echo(connfd), exit(0).                  *)

ChildStart_KeepsListenfd(ch) ==
    /\ child[ch] = "start"
    /\ child' = [child EXCEPT ![ch] = "read"]
    /\ UNCHANGED <<serverVars, socketVars, cfd, have, orphans, clientVars, linkVars, faults>>

ChildStart(ch) ==
    /\ child[ch] = "start"
    /\ Closes(ch, {}, TRUE)
    /\ child' = [child EXCEPT ![ch] = "read"]
    /\ UNCHANGED <<serverVars, cfd, have, orphans, clientVars, back, faults>>

ReadCount_MAXLINE(c) == Min2(MAXLINE, unread[c])

(* At most what fits into buf.                                             *)
ReadCount(c) == Min2(ReadSize, unread[c])

ChildRead(ch) ==
    /\ child[ch] = "read" /\ cfd[ch] # None /\ unread[cfd[ch]] > 0
    /\ have' = [have EXCEPT ![ch] = ReadCount(cfd[ch])]
    /\ unread' = [unread EXCEPT ![cfd[ch]] = @ - ReadCount(cfd[ch])]
    /\ child' = [child EXCEPT ![ch] = "write"]
    /\ UNCHANGED <<serverVars, socketVars, cfd, orphans, clientVars, link, back, faults>>

AfterEINTR_Ends(ch) == ChildEnds(ch) /\ UNCHANGED faults

(* goto again                                                              *)
AfterEINTR(ch) == UNCHANGED vars

ChildReadEINTR(ch) ==
    /\ child[ch] = "read" /\ cfd[ch] # None /\ unread[cfd[ch]] = 0
    /\ AfterEINTR(ch)

(* End of file, a reset connection, or the descriptor -1.                  *)
ChildReadEnds(ch) ==
    /\ child[ch] = "read"
    /\ cfd[ch] \in {None} \cup {c \in Clients : client[c] = "off"}
    /\ ChildEnds(ch)
    /\ UNCHANGED faults

(* write blocks until there is room for all of it.                         *)
ChildWrite(ch) ==
    /\ child[ch] = "write" /\ client[cfd[ch]] # "off"
    /\ back[cfd[ch]] + have[ch] <= SockBuf
    /\ back' = [back EXCEPT ![cfd[ch]] = @ + have[ch]]
    /\ have' = [have EXCEPT ![ch] = 0]
    /\ child' = [child EXCEPT ![ch] = "read"]
    /\ UNCHANGED <<serverVars, socketVars, cfd, orphans, clientVars, link, unread, faults>>

(* The client is gone: what is written is lost, or SIGPIPE ends the child. *)
ChildWriteLost(ch) ==
    /\ child[ch] = "write" /\ client[cfd[ch]] = "off"
    /\ have' = [have EXCEPT ![ch] = 0]
    /\ child' = [child EXCEPT ![ch] = "read"]
    /\ UNCHANGED <<serverVars, socketVars, cfd, orphans, clientVars, linkVars, faults>>

ChildSIGPIPE(ch) ==
    /\ child[ch] = "write" /\ client[cfd[ch]] = "off"
    /\ ChildEnds(ch)
    /\ UNCHANGED faults

ChildKilled(ch) == ch \in Running /\ Fault /\ ChildEnds(ch)

Child(ch) == \/ ChildStart(ch) \/ ChildRead(ch) \/ ChildReadEnds(ch)
             \/ ChildWrite(ch) \/ ChildWriteLost(ch) \/ ChildSIGPIPE(ch)
-----------------------------------------------------------------------------
(* echo_client.c                                                           *)

Connect(c) ==
    /\ client[c] = "off" /\ holders[c] = {} /\ ~Queued(c)
    /\ listeners # {}
    /\ client' = [client EXCEPT ![c] = "line"]
    /\ queue' = Append(queue, c)
    /\ UNCHANGED <<serverVars, listeners, holders, childVars, left, linkVars,
                   faults>>

ClientGone(c) ==
    /\ client' = [client EXCEPT ![c] = "off"]
    /\ left' = [left EXCEPT ![c] = 0]
    /\ link' = [link EXCEPT ![c] = "up"]
    /\ back' = [back EXCEPT ![c] = 0]
    /\ UNCHANGED <<serverVars, socketVars, childVars, unread, faults>>

(* fgets gives a line; a write after a reset the client has seen already   *)
(* ends it by SIGPIPE.                                                     *)
Line(c, n) ==
    /\ client[c] = "line"
    /\ IF link[c] = "broken"
       THEN ClientGone(c)
       ELSE /\ client' = [client EXCEPT ![c] = "write"]
            /\ left' = [left EXCEPT ![c] = n]
            /\ UNCHANGED <<serverVars, socketVars, childVars, linkVars, faults>>

(* write puts its bytes into the socket as long as there is room.          *)
ClientWrite(c) ==
    /\ client[c] = "write" /\ link[c] = "up" /\ unread[c] < SockBuf
    /\ unread' = [unread EXCEPT ![c] = @ + 1]
    /\ left' = [left EXCEPT ![c] = @ - 1]
    /\ client' = [client EXCEPT ![c] = IF left[c] = 1 THEN "read" ELSE "write"]
    /\ UNCHANGED <<serverVars, socketVars, childVars, link, back, faults>>

(* write fails and its result is not looked at; a read now gives 0.        *)
ClientWriteFails(c) ==
    /\ client[c] = "write" /\ link[c] # "up"
    /\ client' = [client EXCEPT ![c] = "read"]
    /\ left' = [left EXCEPT ![c] = 0]
    /\ link' = [link EXCEPT ![c] = "fin"]
    /\ UNCHANGED <<serverVars, socketVars, childVars, unread, back, faults>>

(* One read, whatever is there by now, and fputs.                          *)
ClientRead(c) ==
    /\ client[c] = "read" /\ back[c] > 0
    /\ back' = [back EXCEPT ![c] = @ - Min2(MAXLINE, back[c])]
    /\ client' = [client EXCEPT ![c] = "line"]
    /\ UNCHANGED <<serverVars, socketVars, childVars, left, link, unread, faults>>

(* read returns 0: the server terminated, exit(1).                         *)
ClientEOF(c) ==
    /\ client[c] = "read" /\ back[c] = 0 /\ link[c] = "fin"
    /\ ClientGone(c)

(* read returns -1, which is not 0: fputs shows the buffer, which still    *)
(* holds the line the client has sent.                                     *)
ClientReadFails(c) ==
    /\ client[c] = "read" /\ back[c] = 0 /\ link[c] = "rst"
    /\ client' = [client EXCEPT ![c] = "line"]
    /\ link' = [link EXCEPT ![c] = "broken"]
    /\ UNCHANGED <<serverVars, socketVars, childVars, left, unread, back, faults>>

(* The end of the input, or the user ends the client.                      *)
ClientLeaves(c) == client[c] # "off" /\ ClientGone(c)

Client(c) == \/ ClientWrite(c) \/ ClientWriteFails(c)
             \/ ClientRead(c) \/ ClientEOF(c) \/ ClientReadFails(c)
-----------------------------------------------------------------------------
main == Accept \/ (\E ch \in Children : Fork(ch)) \/ ForkFails \/ CloseConnfd
sig_child == (\E ch \in Children : Waitpid(ch)) \/ WaitpidNone

Next == \/ Start \/ ServerKilled \/ main \/ AcceptFails \/ HandlerEnter \/ sig_child
        \/ \E ch \in Children : Child(ch) \/ ChildReadEINTR(ch) \/ ChildKilled(ch)
        \/ \E c \in Clients : \/ Connect(c) \/ Client(c) \/ ClientLeaves(c)
                              \/ \E n \in Lines[c] : Line(c, n)

Spec == Init /\ [][Next]_vars

(* Processes that can run do, and pending signals are delivered.  Nothing  *)
(* is assumed of users, of failures and of somebody who starts the server. *)
Fairness == /\ WF_vars(main) /\ WF_vars(HandlerEnter) /\ WF_vars(sig_child)
            /\ \A ch \in Children : WF_vars(Child(ch))
            /\ \A c \in Clients : WF_vars(Client(c))

LiveSpec == Spec /\ Fairness
-----------------------------------------------------------------------------
(* A child that ended while the server lives is going to be collected:     *)
(* however many signals were merged into one, one is pending or the        *)
(* handler has still to look.                                              *)
ZombieNoticed ==
    \A ch \in Children : child[ch] = "zombie" => sigchld \/ inHandler

(* A connection is held by the child that serves it and, only until        *)
(* close(connfd), by the server: nobody else keeps it open when that child *)
(* ends, so the client is told.                                            *)
HeldByItsChild ==
    \A c \in Clients :
        /\ \A ch \in Children : ch \in holders[c] <=> ch \in Running /\ cfd[ch] = c
        /\ Server \in holders[c] <=> connfd = c /\ spc \in {"fork", "close"}

(* str_echo, "echo everything this socket sends, until the peer closes":   *)
(* signals, other children, the end of the server and its next start never *)
(* end a child whose client is still there.                                *)
ServedToTheEnd ==
    [][\A ch \in Children :
          /\ ch \in Running /\ cfd[ch] # None /\ ch \notin Running'
          /\ faults' = faults
          => client[cfd[ch]] = "off"]_vars

(* A client that waits for an answer gets one or is told that there will   *)
(* be none: no order of the two writes and the two reads blocks both ends, *)
(* and no process that is left over keeps the connection open.             *)
AnswerOrEnd ==
    \A c \in Clients : client[c] \in {"write", "read"} ~> client[c] \in {"line", "off"}

(* The bytes of connection c in the buffer of the child that serves it.    *)
InChild(c) ==
    IF \E ch \in Running : cfd[ch] = c
    THEN have[CHOOSE ch \in Running : cfd[ch] = c] ELSE 0

(* The child of the connection is gone, the server has still to close it.  *)
Unserved(c) == holders[c] = {Server} /\ spc = "close"

Up == {c \in Clients : client[c] # "off" /\ link[c] = "up" /\ ~Unserved(c)}

(* What waits for the child or is in its buffer, and what is on its way    *)
(* back.                                                                   *)
Owed == [c \in Clients |-> IF c \in Up THEN unread[c] + InChild(c) ELSE 0]
Ready == [c \in Clients |-> IF c \in Up THEN back[c] ELSE 0]

Service == INSTANCE EchoService WITH up <- Up, owed <- Owed, ready <- Ready

(* The server and its clients implement EchoService: whatever processes,   *)
(* signals, failing calls and restarts do, bytes sent come back once, and  *)
(* a client that is owed something is answered or sees its connection end. *)
ServesEcho == Service!Spec
=============================================================================
