-------------------------- MODULE EchoServerProofs --------------------------
(***************************************************************************)
(* The safety of EchoServer for every number of clients and process table  *)
(* entries, every line, read and buffer size and every number of faults.   *)
(***************************************************************************)
EXTENDS EchoServer, TLAPS

(* A client that writes has something left, a child that writes has a      *)
(* connection.                                                             *)
WriteInv ==
    /\ \A c \in Clients : client[c] = "write" => left[c] # 0
    /\ \A ch \in Children : child[ch] = "write" => cfd[ch] # None

(* A connection waits for accept once, and then nobody holds it.           *)
QueueInv ==
    /\ \A i, j \in 1 .. Len(queue) : queue[i] = queue[j] => i = j
    /\ \A i \in 1 .. Len(queue) : holders[queue[i]] = {}

TypeInv == TypeOK /\ WriteInv
-----------------------------------------------------------------------------
(* Types                                                                   *)

(* The end of descriptors keeps the types of what it changes.              *)
LEMMA ClosesType ==
  ASSUME TypeOK, NEW p, NEW cs, NEW lst, Closes(p, cs, lst)
  PROVE  /\ listeners' \subseteq Procs
         /\ queue' \in Seq(Clients)
         /\ holders' \in [Clients -> SUBSET Procs]
         /\ link' \in [Clients -> {"up", "fin", "rst", "broken"}]
         /\ unread' \in [Clients -> 0 .. SockBuf]
<1> DEFINE listening == IF lst THEN listeners \ {p} ELSE listeners
           refused == {c \in Clients : Queued(c) /\ listening = {}}
           ended == {c \in cs : holders[c] = {p}}
<1>1. listeners' = listening /\ listening \subseteq Procs
  BY DEF Closes, TypeOK
<1>2. queue' \in Seq(Clients)
  BY DEF Closes, TypeOK
<1>3. holders' \in [Clients -> SUBSET Procs]
  BY DEF Closes, TypeOK
<1>4. link' \in [Clients -> {"up", "fin", "rst", "broken"}]
  BY DEF Closes, TypeOK
<1>5. unread' \in [Clients -> 0 .. SockBuf]
  BY EchoAssumption DEF Closes, TypeOK
<1> QED BY <1>1, <1>2, <1>3, <1>4, <1>5

LEMMA ChildEndsType ==
  ASSUME TypeInv, NEW ch \in Children, ChildEnds(ch), faults' \in 0 .. MaxFaults
  PROVE  TypeInv'
<1>1. Closes(ch, Clients, TRUE)
  BY DEF ChildEnds
<1>2. TypeOK'
  <2>1. sigchld' \in BOOLEAN
    BY DEF ChildEnds
  <2>2. 0 \in 0 .. ReadSize
    BY EchoAssumption
  <2>3. have' \in [Children -> 0 .. ReadSize]
    BY <2>2 DEF ChildEnds, TypeInv, TypeOK
  <2>4. /\ child' \in [Children -> {"free", "start", "read", "write", "zombie"}]
        /\ cfd' \in [Children -> Clients \cup {None}]
        /\ orphans' \subseteq Children
    BY DEF ChildEnds, TypeInv, TypeOK
  <2>5. UNCHANGED <<spc, connfd, inHandler, client, left, back>>
    BY DEF ChildEnds, clientVars
  <2> QED BY <1>1, <2>1, <2>3, <2>4, <2>5, ClosesType DEF TypeInv, TypeOK
<1>3. WriteInv'
  BY DEF ChildEnds, TypeInv, TypeOK, WriteInv, clientVars
<1> QED BY <1>2, <1>3 DEF TypeInv

LEMMA ServerEndsType ==
  ASSUME TypeInv, ServerEnds, faults' \in 0 .. MaxFaults
  PROVE  TypeInv'
<1>1. Closes(Server, Clients, TRUE)
  BY DEF ServerEnds
<1>2. TypeOK'
  BY <1>1, ClosesType DEF ServerEnds, TypeInv, TypeOK, clientVars, Running
<1>3. WriteInv'
  BY DEF ServerEnds, TypeInv, TypeOK, WriteInv, clientVars
<1> QED BY <1>2, <1>3 DEF TypeInv

LEMMA ClientGoneType ==
  ASSUME TypeInv, NEW c \in Clients, ClientGone(c)
  PROVE  TypeInv'
  BY EchoAssumption
     DEF ClientGone, TypeInv, TypeOK, WriteInv, serverVars, socketVars, childVars

LEMMA FaultType ==
  ASSUME TypeOK, Fault
  PROVE  faults' \in 0 .. MaxFaults /\ faults' # faults
  BY EchoAssumption DEF Fault, TypeOK

(* Every variable has its type after every step; a read fits into buf, and *)
(* what is taken out of a socket was in it.                                *)
LEMMA NextType ==
  ASSUME TypeInv, [Next]_vars
  PROVE  TypeInv'
<1> USE DEF TypeInv, serverVars, socketVars, childVars, clientVars, linkVars
<1>1. CASE Start
  BY <1>1 DEF Start, TypeOK, WriteInv, Procs
<1>2. CASE ServerKilled
  BY <1>2, ServerEndsType DEF ServerKilled, TypeOK
<1>3. CASE Accept
  <2>1. Head(queue) \in Clients /\ Tail(queue) \in Seq(Clients)
    BY <1>3 DEF Accept, TypeOK
  <2> QED BY <1>3, <2>1 DEF Accept, TypeOK, WriteInv, Procs
<1>4. CASE AcceptFails
  BY <1>4, FaultType DEF AcceptFails, TypeOK, WriteInv
<1>5. ASSUME NEW ch \in Children, Fork(ch) PROVE TypeInv'
  BY <1>5 DEF Fork, TypeOK, WriteInv, Procs
<1>6. CASE ForkFails
  <2>1. faults' \in 0 .. MaxFaults
    BY <1>6, FaultType DEF ForkFails, TypeOK
  <2> QED BY <1>6, <2>1, ServerEndsType DEF ForkFails
<1>7. CASE CloseConnfd
  <2>1. Closes(Server, {connfd} \cap Clients, FALSE)
    BY <1>7 DEF CloseConnfd
  <2> QED BY <1>7, <2>1, ClosesType DEF CloseConnfd, TypeOK, WriteInv
<1>8. CASE HandlerEnter
  BY <1>8 DEF HandlerEnter, TypeOK, WriteInv
<1>9. ASSUME NEW ch \in Children, Waitpid(ch) PROVE TypeInv'
  BY <1>9 DEF Waitpid, GoesOn, TypeOK, WriteInv
<1>10. CASE WaitpidNone
  BY <1>10 DEF WaitpidNone, TypeOK, WriteInv
<1>11. ASSUME NEW ch \in Children, ChildStart(ch) PROVE TypeInv'
  <2>1. Closes(ch, {}, TRUE)
    BY <1>11 DEF ChildStart
  <2> QED BY <1>11, <2>1, ClosesType DEF ChildStart, TypeOK, WriteInv
<1>12. ASSUME NEW ch \in Children, ChildRead(ch) PROVE TypeInv'
  <2>1. PICK c \in Clients : c = cfd[ch]
    BY <1>12 DEF ChildRead, TypeOK
  <2>2. /\ ReadCount(c) \in 0 .. ReadSize
        /\ unread[c] - ReadCount(c) \in 0 .. SockBuf
    BY EchoAssumption DEF ReadCount, Min2, TypeOK
  <2>3. TypeOK'
    BY <1>12, <2>1, <2>2 DEF ChildRead, TypeOK
  <2>4. WriteInv'
    BY <1>12 DEF ChildRead, TypeOK, WriteInv
  <2> QED BY <2>3, <2>4
<1>13. ASSUME NEW ch \in Children, ChildReadEnds(ch) \/ ChildSIGPIPE(ch) PROVE TypeInv'
  BY <1>13, ChildEndsType DEF ChildReadEnds, ChildSIGPIPE, TypeOK
<1>14. ASSUME NEW ch \in Children, ChildWrite(ch) PROVE TypeInv'
  <2>1. PICK c \in Clients : c = cfd[ch]
    BY <1>14 DEF ChildWrite, TypeOK, WriteInv
  <2>2. back[c] + have[ch] \in 0 .. SockBuf
    BY <1>14, <2>1, EchoAssumption DEF ChildWrite, TypeOK
  <2>3. TypeOK'
    <3>1. 0 \in 0 .. ReadSize
      BY EchoAssumption
    <3>2. back' \in [Clients -> 0 .. SockBuf]
      BY <1>14, <2>1, <2>2 DEF ChildWrite, TypeOK
    <3>3. have' \in [Children -> 0 .. ReadSize]
      BY <1>14, <3>1 DEF ChildWrite, TypeOK
    <3> QED BY <1>14, <3>2, <3>3 DEF ChildWrite, TypeOK
  <2>4. WriteInv'
    BY <1>14 DEF ChildWrite, TypeOK, WriteInv
  <2> QED BY <2>3, <2>4
<1>15. ASSUME NEW ch \in Children, ChildWriteLost(ch) PROVE TypeInv'
  BY <1>15, EchoAssumption DEF ChildWriteLost, TypeOK, WriteInv
<1>16. ASSUME NEW ch \in Children, ChildReadEINTR(ch) PROVE TypeInv'
  BY <1>16 DEF ChildReadEINTR, AfterEINTR, vars, TypeOK, WriteInv
<1>17. ASSUME NEW ch \in Children, ChildKilled(ch) PROVE TypeInv'
  BY <1>17, ChildEndsType, FaultType DEF ChildKilled
<1>18. ASSUME NEW c \in Clients, Connect(c) PROVE TypeInv'
  BY <1>18 DEF Connect, TypeOK, WriteInv
<1>19. ASSUME NEW c \in Clients, ClientWrite(c) PROVE TypeInv'
  <2>1. left[c] - 1 \in Nat /\ (left[c] # 1 => left[c] - 1 # 0)
    BY <1>19 DEF ClientWrite, TypeOK, WriteInv
  <2>2. unread[c] + 1 \in 0 .. SockBuf
    BY <1>19, EchoAssumption DEF ClientWrite, TypeOK
  <2>3. TypeOK'
    BY <1>19, <2>1, <2>2 DEF ClientWrite, TypeOK
  <2>4. WriteInv'
    BY <1>19, <2>1 DEF ClientWrite, TypeOK, WriteInv
  <2> QED BY <2>3, <2>4
<1>20. ASSUME NEW c \in Clients, ClientWriteFails(c) PROVE TypeInv'
  BY <1>20 DEF ClientWriteFails, TypeOK, WriteInv
<1>21. ASSUME NEW c \in Clients, ClientRead(c) PROVE TypeInv'
  <2>1. back[c] - Min2(MAXLINE, back[c]) \in 0 .. SockBuf
    BY EchoAssumption DEF Min2, TypeOK
  <2>2. TypeOK'
    BY <1>21, <2>1 DEF ClientRead, TypeOK
  <2>3. WriteInv'
    BY <1>21 DEF ClientRead, TypeOK, WriteInv
  <2> QED BY <2>2, <2>3
<1>22. ASSUME NEW c \in Clients, ClientEOF(c) \/ ClientLeaves(c) PROVE TypeInv'
  BY <1>22, ClientGoneType DEF ClientEOF, ClientLeaves
<1>23. ASSUME NEW c \in Clients, ClientReadFails(c) PROVE TypeInv'
  BY <1>23 DEF ClientReadFails, TypeOK, WriteInv
<1>24. ASSUME NEW c \in Clients, NEW n \in Lines[c], Line(c, n) PROVE TypeInv'
  <2>1. n \in Nat \ {0}
    BY EchoAssumption
  <2>2. CASE link[c] = "broken"
    BY <1>24, <2>2, ClientGoneType DEF Line
  <2>3. CASE link[c] # "broken"
    BY <1>24, <2>1, <2>3 DEF Line, TypeOK, WriteInv
  <2> QED BY <2>2, <2>3
<1>25. CASE UNCHANGED vars
  BY <1>25 DEF vars, TypeOK, WriteInv
<1> QED
  BY <1>1, <1>2, <1>3, <1>4, <1>5, <1>6, <1>7, <1>8, <1>9, <1>10, <1>11, <1>12, <1>13,
     <1>14, <1>15, <1>16, <1>17, <1>18, <1>19, <1>20, <1>21, <1>22, <1>23, <1>24, <1>25
     DEF Next, main, sig_child, Child, Client

LEMMA InitTypeInv == Init => TypeInv
<1>1. 0 \in 0 .. ReadSize /\ 0 \in 0 .. SockBuf /\ 0 \in 0 .. MaxFaults
  BY EchoAssumption
<1>2. Init => /\ spc \in {"down", "accept", "fork", "close"}
              /\ connfd \in Clients \cup {None}
              /\ listeners \subseteq Procs /\ orphans \subseteq Children
              /\ queue \in Seq(Clients)
              /\ holders \in [Clients -> SUBSET Procs]
  BY DEF Init
<1>3. Init => sigchld \in BOOLEAN /\ inHandler \in BOOLEAN
  BY DEF Init
<1>4. Init => /\ child \in [Children -> {"free", "start", "read", "write", "zombie"}]
              /\ cfd \in [Children -> Clients \cup {None}]
              /\ have \in [Children -> 0 .. ReadSize]
  BY <1>1 DEF Init
<1>5. Init => /\ client \in [Clients -> {"off", "line", "write", "read"}]
              /\ left \in [Clients -> Nat]
              /\ link \in [Clients -> {"up", "fin", "rst", "broken"}]
              /\ unread \in [Clients -> 0 .. SockBuf]
              /\ back \in [Clients -> 0 .. SockBuf]
              /\ faults \in 0 .. MaxFaults
  BY <1>1 DEF Init
<1>6. Init => WriteInv
  BY DEF Init, WriteInv
<1> QED BY <1>2, <1>3, <1>4, <1>5, <1>6 DEF TypeInv, TypeOK

LEMMA TypeInvAlways == Spec => []TypeInv
  BY InitTypeInv, NextType, PTL DEF Spec

(* Every variable keeps its type: buf is never overrun and no socket holds *)
(* more than its buffer.                                                   *)
THEOREM TypeCorrect == Spec => []TypeOK
<1>1. TypeInv => TypeOK
  BY DEF TypeInv
<1> QED BY <1>1, TypeInvAlways, PTL
-----------------------------------------------------------------------------
(* Who holds a connection                                                  *)

(* HeldByItsChild is not inductive: Accept would hand out a connection     *)
(* that another process holds.                                             *)
HeldInv == QueueInv /\ HeldByItsChild

(* Closing descriptors and connections keeps what waits for accept.        *)
LEMMA ClosesQueue ==
  ASSUME TypeOK, QueueInv, NEW p, NEW cs, NEW lst, Closes(p, cs, lst)
  PROVE  QueueInv'
<1>1. queue' = queue \/ queue' = <<>>
  BY DEF Closes
<1>2. \A c \in Clients : holders[c] = {} => holders'[c] = {}
  BY DEF Closes, TypeOK
<1>3. \A i \in 1 .. Len(queue) : queue[i] \in Clients
  BY DEF TypeOK
<1>4. CASE queue' = queue
  BY <1>2, <1>3, <1>4 DEF QueueInv
<1>5. CASE queue' = <<>>
  BY <1>5 DEF QueueInv
<1> QED BY <1>1, <1>4, <1>5

(* A step that moves no descriptor and starts or ends no child.            *)
LEMMA HeldFrame ==
  ASSUME HeldByItsChild, UNCHANGED <<spc, connfd, holders, cfd>>, Running' = Running
  PROVE  HeldByItsChild'
  BY DEF HeldByItsChild

LEMMA ChildEndsHeld ==
  ASSUME TypeInv, HeldInv, NEW ch \in Children, ChildEnds(ch)
  PROVE  HeldInv'
<1>1. Closes(ch, Clients, TRUE)
  BY DEF ChildEnds
<1>2. QueueInv'
  BY <1>1, ClosesQueue DEF TypeInv, HeldInv
<1>3. /\ holders' = [c \in Clients |-> holders[c] \ {ch}]
      /\ Running' = Running \ {ch}
      /\ \A o \in Children \ {ch} : cfd'[o] = cfd[o]
      /\ UNCHANGED <<spc, connfd>>
  BY <1>1 DEF ChildEnds, Closes, Running, TypeInv, TypeOK
<1>4. Server # ch
  BY EchoAssumption
<1>5. HeldByItsChild'
  BY <1>3, <1>4 DEF HeldInv, HeldByItsChild
<1> QED BY <1>2, <1>5 DEF HeldInv

LEMMA ServerEndsHeld ==
  ASSUME TypeInv, HeldInv, ServerEnds
  PROVE  HeldInv'
<1>1. Closes(Server, Clients, TRUE)
  BY DEF ServerEnds
<1>2. QueueInv'
  BY <1>1, ClosesQueue DEF TypeInv, HeldInv
<1>3. /\ holders' = [c \in Clients |-> holders[c] \ {Server}]
      /\ cfd' = cfd /\ connfd' = None /\ spc' = "down"
      /\ Running' = Running
  BY <1>1 DEF ServerEnds, Closes, Running, TypeInv, TypeOK
<1>4. \A ch \in Children : ch # Server
  BY EchoAssumption
<1>5. HeldByItsChild'
  BY <1>3, <1>4 DEF HeldInv, HeldByItsChild
<1> QED BY <1>2, <1>5 DEF HeldInv

(* The steps of clients and of children between their start and their end. *)
LEMMA QuietHeld ==
  ASSUME HeldInv, UNCHANGED <<spc, connfd, queue, holders, cfd>>, Running' = Running
  PROVE  HeldInv'
  BY HeldFrame DEF HeldInv, QueueInv

(* Whatever step is taken, a connection is held by the child it was forked *)
(* for and by the server until close(connfd).                              *)
LEMMA NextHeld ==
  ASSUME TypeInv, HeldInv, [Next]_vars
  PROVE  HeldInv'
<1> USE DEF serverVars, socketVars, childVars, clientVars, linkVars
<1>0. \A ch \in Children : ch # Server
  BY EchoAssumption
<1>1. CASE Start
  BY <1>1 DEF Start, HeldInv, QueueInv, HeldByItsChild, Running
<1>2. CASE ServerKilled \/ ForkFails
  BY <1>2, ServerEndsHeld DEF ServerKilled, ForkFails
<1>3. CASE Accept
  <2>1. /\ queue \in Seq(Clients) /\ Len(queue) > 0
        /\ Head(queue) = queue[1] /\ queue[1] \in Clients
    BY <1>3 DEF Accept, TypeInv, TypeOK
  <2>2. /\ Len(queue') = Len(queue) - 1
        /\ \A i \in 1 .. Len(queue') : queue'[i] = queue[i + 1] /\ i + 1 \in 2 .. Len(queue)
    BY <1>3, <2>1 DEF Accept
  <2>3. holders[queue[1]] = {}
    BY <2>1 DEF HeldInv, QueueInv
  <2>4. holders' = [holders EXCEPT ![queue[1]] = {Server}]
    BY <1>3, <2>1 DEF Accept
  <2>5. \A i \in 2 .. Len(queue) :
           queue[i] \in Clients /\ queue[i] # queue[1] /\ holders[queue[i]] = {}
    BY <2>1 DEF HeldInv, QueueInv
  <2>6. \A i, j \in 2 .. Len(queue) : queue[i] = queue[j] => i = j
    BY DEF HeldInv, QueueInv
  <2>7. \A i, j \in 1 .. Len(queue') : queue'[i] = queue'[j] => i = j
    BY <2>1, <2>2, <2>6
  <2>8. \A i \in 1 .. Len(queue') : holders'[queue'[i]] = {}
    <3> TAKE i \in 1 .. Len(queue')
    <3>1. queue'[i] = queue[i + 1] /\ i + 1 \in 2 .. Len(queue)
      BY <2>2
    <3>2. /\ queue'[i] \in Clients /\ queue'[i] # queue[1]
          /\ holders[queue'[i]] = {}
      BY <2>5, <3>1
    <3> QED BY <2>4, <3>2 DEF TypeInv, TypeOK
  <2>9. /\ connfd' = queue[1] /\ spc = "accept" /\ spc' = "fork"
        /\ cfd' = cfd /\ Running' = Running
    BY <1>3, <2>1 DEF Accept, Running
  <2>10. HeldByItsChild'
    BY <1>0, <2>1, <2>3, <2>4, <2>9 DEF HeldInv, HeldByItsChild, TypeInv, TypeOK
  <2> QED BY <2>7, <2>8, <2>10 DEF HeldInv, QueueInv
<1>4. CASE AcceptFails
  <2>1. HeldByItsChild'
    BY <1>4, EchoAssumption DEF AcceptFails, HeldInv, HeldByItsChild, Running
  <2> QED BY <1>4, <2>1 DEF AcceptFails, HeldInv, QueueInv
<1>5. ASSUME NEW ch \in Children, Fork(ch) PROVE HeldInv'
  <2>1. /\ spc = "fork" /\ spc' = "close" /\ connfd' = connfd /\ queue' = queue
        /\ holders' = [c \in Clients |-> IF Server \in holders[c] THEN holders[c] \cup {ch}
                                                                  ELSE holders[c]]
        /\ cfd' = [cfd EXCEPT ![ch] = connfd]
    BY <1>5 DEF Fork
  <2>2. ch \notin Running /\ Running' = Running \cup {ch}
    BY <1>5 DEF Fork, Running, TypeInv, TypeOK
  <2>3. \A i \in 1 .. Len(queue) : queue[i] \in Clients
    BY DEF TypeInv, TypeOK
  <2>4. QueueInv'
    BY <2>1, <2>3 DEF HeldInv, QueueInv
  <2>5. HeldByItsChild'
    BY <1>0, <2>1, <2>2 DEF HeldInv, HeldByItsChild, TypeInv, TypeOK
  <2> QED BY <2>4, <2>5 DEF HeldInv
<1>6. CASE CloseConnfd
  <2>1. Closes(Server, {connfd} \cap Clients, FALSE)
    BY <1>6 DEF CloseConnfd
  <2>2. QueueInv'
    BY <2>1, ClosesQueue DEF TypeInv, HeldInv
  <2>3. /\ holders' = [c \in Clients |-> IF c = connfd THEN holders[c] \ {Server}
                                                       ELSE holders[c]]
        /\ spc' = "accept" /\ cfd' = cfd /\ Running' = Running
    BY <1>6, <2>1 DEF CloseConnfd, Closes, Running
  <2>4. HeldByItsChild'
    BY <1>0, <2>3 DEF HeldInv, HeldByItsChild
  <2> QED BY <2>2, <2>4 DEF HeldInv
<1>7. CASE HandlerEnter \/ WaitpidNone
  BY <1>7, QuietHeld DEF HandlerEnter, WaitpidNone, Running
<1>8. ASSUME NEW ch \in Children, Waitpid(ch) PROVE HeldInv'
  <2>1. Running' = Running
    BY <1>8 DEF Waitpid, Running, TypeInv, TypeOK
  <2> QED BY <1>8, <2>1, QuietHeld DEF Waitpid
<1>9. ASSUME NEW ch \in Children, ChildStart(ch) PROVE HeldInv'
  <2>1. Closes(ch, {}, TRUE)
    BY <1>9 DEF ChildStart
  <2>2. QueueInv'
    BY <2>1, ClosesQueue DEF TypeInv, HeldInv
  <2>3. holders' = holders
    BY <2>1 DEF Closes, TypeInv, TypeOK
  <2>4. Running' = Running
    BY <1>9 DEF ChildStart, Running, TypeInv, TypeOK
  <2> QED BY <1>9, <2>2, <2>3, <2>4, HeldFrame DEF ChildStart, HeldInv
<1>10. ASSUME NEW ch \in Children, ChildRead(ch) \/ ChildWrite(ch) \/ ChildWriteLost(ch)
       PROVE  HeldInv'
  <2>1. Running' = Running
    BY <1>10 DEF ChildRead, ChildWrite, ChildWriteLost, Running, TypeInv, TypeOK
  <2> QED BY <1>10, <2>1, QuietHeld DEF ChildRead, ChildWrite, ChildWriteLost
<1>11. ASSUME NEW ch \in Children, ChildReadEnds(ch) \/ ChildSIGPIPE(ch) \/ ChildKilled(ch)
       PROVE  HeldInv'
  BY <1>11, ChildEndsHeld DEF ChildReadEnds, ChildSIGPIPE, ChildKilled
<1>12. ASSUME NEW c \in Clients, Connect(c) PROVE HeldInv'
  <2>1. /\ Len(queue') = Len(queue) + 1 /\ Len(queue) \in Nat
        /\ \A i \in 1 .. Len(queue) : queue'[i] = queue[i]
        /\ queue'[Len(queue) + 1] = c
    BY <1>12 DEF Connect, TypeInv, TypeOK
  <2>2. \A i \in 1 .. Len(queue) : queue[i] # c
    BY <1>12 DEF Connect, Queued
  <2>3. holders[c] = {} /\ holders' = holders
    BY <1>12 DEF Connect
  <2>4. \A i \in 1 .. Len(queue') : i \in 1 .. Len(queue) \/ i = Len(queue) + 1
    BY <2>1
  <2>5. QueueInv'
    <3>1. \A i \in 1 .. Len(queue') : holders'[queue'[i]] = {}
      BY <2>1, <2>3, <2>4 DEF HeldInv, QueueInv
    <3>2. ASSUME NEW i \in 1 .. Len(queue'), NEW j \in 1 .. Len(queue'),
                 queue'[i] = queue'[j]
          PROVE  i = j
      <4>1. CASE i \in 1 .. Len(queue) /\ j \in 1 .. Len(queue)
        BY <2>1, <3>2, <4>1 DEF HeldInv, QueueInv
      <4>2. CASE i \in 1 .. Len(queue) /\ j = Len(queue) + 1
        BY <2>1, <2>2, <3>2, <4>2
      <4>3. CASE i = Len(queue) + 1 /\ j \in 1 .. Len(queue)
        BY <2>1, <2>2, <3>2, <4>3
      <4> QED BY <2>4, <4>1, <4>2, <4>3
    <3> QED BY <3>1, <3>2 DEF QueueInv
  <2>6. HeldByItsChild'
    BY <1>12, HeldFrame DEF Connect, HeldInv, Running
  <2> QED BY <2>5, <2>6 DEF HeldInv
<1>13. ASSUME NEW c \in Clients, Client(c) \/ ClientLeaves(c) PROVE HeldInv'
  BY <1>13, QuietHeld DEF Client, ClientWrite, ClientWriteFails, ClientRead, ClientEOF,
     ClientReadFails, ClientLeaves, ClientGone, Running
<1>14. ASSUME NEW c \in Clients, NEW n \in Lines[c], Line(c, n) PROVE HeldInv'
  BY <1>14, QuietHeld DEF Line, ClientGone, Running
<1>15. ASSUME NEW ch \in Children, ChildReadEINTR(ch) PROVE HeldInv'
  BY <1>15, QuietHeld DEF ChildReadEINTR, AfterEINTR, vars, Running
<1>16. CASE UNCHANGED vars
  BY <1>16, QuietHeld DEF vars, Running
<1> QED
  BY <1>1, <1>2, <1>3, <1>4, <1>5, <1>6, <1>7, <1>8, <1>9, <1>10, <1>11, <1>12, <1>13,
     <1>14, <1>15, <1>16 DEF Next, main, sig_child, Child

(* A connection is held by the child that serves it and, until             *)
(* close(connfd), by the server, for every number of clients and children. *)
THEOREM HeldByItsChildAlways == Spec => []HeldByItsChild
<1>1. Init => HeldInv
  BY EchoAssumption DEF Init, HeldInv, QueueInv, HeldByItsChild, Running
<1>2. HeldInv => HeldByItsChild
  BY DEF HeldInv
<1> QED BY <1>1, <1>2, NextHeld, TypeInvAlways, PTL DEF Spec
-----------------------------------------------------------------------------
(* Children that end                                                       *)

(* However the signals of ending children are merged and wherever they     *)
(* meet the handler, no zombie is left without one to come.                *)
LEMMA NextZombie ==
  ASSUME TypeInv, ZombieNoticed, [Next]_vars
  PROVE  ZombieNoticed'
<1> USE DEF serverVars, socketVars, childVars, clientVars, linkVars
<1>1. ASSUME NEW ch \in Children, ChildEnds(ch) PROVE ZombieNoticed'
  BY <1>1 DEF ChildEnds, ZombieNoticed, TypeInv, TypeOK
<1>2. CASE ServerEnds
  BY <1>2 DEF ServerEnds, ZombieNoticed
<1>3. CASE HandlerEnter
  BY <1>3 DEF HandlerEnter, ZombieNoticed
<1>4. CASE WaitpidNone
  BY <1>4 DEF WaitpidNone, ZombieNoticed
<1>5. ASSUME NEW ch \in Children, Waitpid(ch) PROVE ZombieNoticed'
  <2>1. inHandler'
    BY <1>5 DEF Waitpid, GoesOn
  <2> QED BY <2>1 DEF ZombieNoticed
<1>6. CASE Start \/ Accept \/ AcceptFails \/ CloseConnfd
  <2>1. UNCHANGED <<child, sigchld, inHandler>>
    BY <1>6 DEF Start, Accept, AcceptFails, CloseConnfd
  <2> QED BY <2>1 DEF ZombieNoticed
<1>7. ASSUME NEW ch \in Children, Fork(ch) PROVE ZombieNoticed'
  BY <1>7 DEF Fork, ZombieNoticed, TypeInv, TypeOK
<1>8. ASSUME NEW ch \in Children,
             ChildStart(ch) \/ ChildRead(ch) \/ ChildWrite(ch) \/ ChildWriteLost(ch)
      PROVE  ZombieNoticed'
  BY <1>8 DEF ChildStart, ChildRead, ChildWrite, ChildWriteLost, ZombieNoticed, TypeInv, TypeOK
<1>9. ASSUME NEW c \in Clients, Connect(c) \/ Client(c) \/ ClientLeaves(c)
      PROVE  ZombieNoticed'
  BY <1>9 DEF Connect, Client, ClientWrite, ClientWriteFails, ClientRead, ClientEOF,
     ClientReadFails, ClientLeaves, ClientGone, ZombieNoticed
<1>10. ASSUME NEW c \in Clients, NEW n \in Lines[c], Line(c, n) PROVE ZombieNoticed'
  BY <1>10 DEF Line, ClientGone, ZombieNoticed
<1>11. CASE UNCHANGED vars
  BY <1>11 DEF vars, ZombieNoticed
<1> QED
  BY <1>1, <1>2, <1>3, <1>4, <1>5, <1>6, <1>7, <1>8, <1>9, <1>10, <1>11
     DEF Next, main, sig_child, Child, ServerKilled, ForkFails, ChildReadEnds,
         ChildSIGPIPE, ChildKilled, ChildReadEINTR, AfterEINTR

(* A child that ended while the server lives is going to be collected.     *)
THEOREM ZombieNoticedAlways == Spec => []ZombieNoticed
<1>1. Init => ZombieNoticed
  BY DEF Init, ZombieNoticed
<1> QED BY <1>1, NextZombie, TypeInvAlways, PTL DEF Spec

(* What ServedToTheEnd says of one step.                                   *)
ServedStep ==
    \A ch \in Children :
        /\ ch \in Running /\ cfd[ch] # None /\ ch \notin Running'
        /\ faults' = faults
        => client[cfd[ch]] = "off"

(* Only the end of its connection, or a signal from outside, ends a child. *)
LEMMA NextServed ==
  ASSUME TypeInv, [Next]_vars
  PROVE  ServedStep
<1> USE DEF serverVars, socketVars, childVars, clientVars, linkVars
<1>1. ASSUME NEW ch \in Children, ChildReadEnds(ch) \/ ChildSIGPIPE(ch) PROVE ServedStep
  <2>1. Running \ {ch} \subseteq Running'
    BY <1>1 DEF ChildReadEnds, ChildSIGPIPE, ChildEnds, Running, TypeInv, TypeOK
  <2>2. cfd[ch] = None \/ client[cfd[ch]] = "off"
    BY <1>1 DEF ChildReadEnds, ChildSIGPIPE
  <2> QED BY <2>1, <2>2 DEF ServedStep
<1>2. ASSUME NEW ch \in Children, ChildKilled(ch) PROVE ServedStep
  BY <1>2, FaultType DEF ChildKilled, ServedStep, TypeInv
<1>3. CASE ServerEnds
  <2>1. Running' = Running
    BY <1>3 DEF ServerEnds, Running, TypeInv, TypeOK
  <2> QED BY <2>1 DEF ServedStep
<1>4. ASSUME NEW ch \in Children, Fork(ch) \/ Waitpid(ch) \/ ChildStart(ch) \/ ChildRead(ch)
                                  \/ ChildWrite(ch) \/ ChildWriteLost(ch)
      PROVE  ServedStep
  <2>1. Running \subseteq Running'
    BY <1>4 DEF Fork, Waitpid, ChildStart, ChildRead, ChildWrite, ChildWriteLost, Running,
       TypeInv, TypeOK
  <2> QED BY <2>1 DEF ServedStep
<1>5. CASE child' = child
  BY <1>5 DEF ServedStep, Running
<1>6. ASSUME NEW c \in Clients, Connect(c) \/ Client(c) \/ ClientLeaves(c)
      PROVE  child' = child
  BY <1>6 DEF Connect, Client, ClientWrite, ClientWriteFails, ClientRead, ClientEOF,
     ClientReadFails, ClientLeaves, ClientGone
<1>7. ASSUME NEW c \in Clients, NEW n \in Lines[c], Line(c, n) PROVE child' = child
  BY <1>7 DEF Line, ClientGone
<1>8. CASE Start \/ Accept \/ AcceptFails \/ CloseConnfd \/ HandlerEnter \/ WaitpidNone
           \/ UNCHANGED vars
  BY <1>8, <1>5 DEF Start, Accept, AcceptFails, CloseConnfd, HandlerEnter, WaitpidNone, vars
<1> QED
  BY <1>1, <1>2, <1>3, <1>4, <1>5, <1>6, <1>7, <1>8
     DEF Next, main, sig_child, Child, ServerKilled, ForkFails, ChildReadEINTR, AfterEINTR

(* Signals, other children, the end of the server and its next start never *)
(* end a child whose client is still there.                                *)
THEOREM ServedToTheEndAlways == Spec => ServedToTheEnd
<1>1. TypeInv /\ [Next]_vars => [ServedStep]_vars
  BY NextServed
<1> QED BY <1>1, TypeInvAlways, PTL DEF Spec, ServedToTheEnd, ServedStep
=============================================================================
