-------------------------- MODULE EchoServiceProofs --------------------------
(***************************************************************************)
(* EchoServer implements the safety of EchoService: what every connection  *)
(* is promised, for every number of clients, children and faults.          *)
(***************************************************************************)
EXTENDS EchoServerProofs

(* One child serves a connection, it has bytes exactly while it writes,    *)
(* and until fork only the server holds what accept gave it.               *)
ServeInv ==
    /\ \A ch \in Children : child[ch] = "write" <=> have[ch] > 0
    /\ \A a, b \in Running : cfd[a] = cfd[b] /\ cfd[a] # None => a = b
    /\ spc = "fork" /\ connfd # None => holders[connfd] = {Server}

(* The connection waits for accept or a process holds it.                  *)
Alive(c) == Queued(c) \/ holders[c] # {}

(* A client that is not there leaves nothing behind, and a connection that *)
(* is not alive has nothing to read and the client knows.                  *)
LinkInv ==
    \A c \in Clients :
        /\ client[c] = "off" => link[c] = "up" /\ back[c] = 0
        /\ Alive(c) \/ (unread[c] = 0 /\ (client[c] = "off" \/ link[c] # "up"))

EchoInv == TypeInv /\ HeldInv /\ ServeInv /\ LinkInv
-----------------------------------------------------------------------------
(* Connections and their children                                          *)

(* What the end of descriptors does to the connections.                    *)
LEMMA ClosesLinks ==
  ASSUME TypeOK, NEW p, NEW cs, NEW lst, Closes(p, cs, lst), UNCHANGED client
  PROVE  \A c \in Clients :
            \/ /\ link'[c] = link[c] /\ unread'[c] = unread[c]
               /\ Alive(c) => Alive(c)'
            \/ /\ unread'[c] = 0 /\ (client[c] = "off" => link'[c] = link[c])
               /\ client[c] # "off" => link'[c] # "up"
<1> DEFINE listening == IF lst THEN listeners \ {p} ELSE listeners
           refused == {c \in Clients : Queued(c) /\ listening = {}}
           ended == {c \in cs : holders[c] = {p}}
<1> SUFFICES ASSUME NEW c \in Clients
             PROVE  \/ /\ link'[c] = link[c] /\ unread'[c] = unread[c]
                       /\ Alive(c) => Alive(c)'
                    \/ /\ unread'[c] = 0 /\ (client[c] = "off" => link'[c] = link[c])
                       /\ client[c] # "off" => link'[c] # "up"
  OBVIOUS
<1>1. /\ link'[c] = IF client[c] = "off" \/ c \notin refused \cup ended THEN link[c]
                    ELSE IF c \in refused \/ unread[c] > 0 THEN "rst" ELSE "fin"
      /\ unread'[c] = IF c \in refused \cup ended THEN 0 ELSE unread[c]
      /\ holders'[c] = IF c \in cs THEN holders[c] \ {p} ELSE holders[c]
      /\ queue' = IF listening = {} THEN <<>> ELSE queue
  BY DEF Closes
<1>2. CASE c \in refused \cup ended
  BY <1>1, <1>2
<1>3. CASE c \notin refused \cup ended
  <2>1. ASSUME Queued(c) PROVE Alive(c)'
    <3>1. queue' = queue
      BY <1>1, <1>3, <2>1
    <3> QED BY <2>1, <3>1 DEF Queued, Alive
  <2>2. ASSUME holders[c] # {} PROVE Alive(c)'
    BY <1>1, <1>3, <2>2 DEF Alive
  <2> QED BY <1>1, <1>3, <2>1, <2>2 DEF Alive
<1> QED BY <1>2, <1>3

(* A step that only closes descriptors keeps LinkInv.                      *)
LEMMA ClosesLinkInv ==
  ASSUME TypeOK, LinkInv, NEW p, NEW cs, NEW lst, Closes(p, cs, lst),
         UNCHANGED <<client, back>>
  PROVE  LinkInv'
<1> SUFFICES ASSUME NEW c \in Clients
             PROVE  /\ client[c] = "off" => link'[c] = "up" /\ back[c] = 0
                    /\ \/ Alive(c)'
                       \/ unread'[c] = 0 /\ (client[c] = "off" \/ link'[c] # "up")
  BY DEF LinkInv
<1>1. /\ client[c] = "off" => link[c] = "up" /\ back[c] = 0
      /\ Alive(c) \/ (unread[c] = 0 /\ (client[c] = "off" \/ link[c] # "up"))
  BY DEF LinkInv
<1> QED BY <1>1, ClosesLinks

(* A step that ends no connection keeps LinkInv.                           *)
LEMMA LinkFrame ==
  ASSUME LinkInv, UNCHANGED <<client, link, unread, back>>,
         \A c \in Clients : Alive(c) => Alive(c)'
  PROVE  LinkInv'
  BY DEF LinkInv

LEMMA SameAlive ==
  ASSUME UNCHANGED <<queue, holders>>, NEW c
  PROVE  Alive(c)' = Alive(c)
  BY DEF Alive, Queued

LEMMA NextLink ==
  ASSUME TypeInv, HeldInv, LinkInv, [Next]_vars
  PROVE  LinkInv'
<1> USE DEF TypeInv, serverVars, socketVars, childVars, clientVars, linkVars
<1>1. CASE Start \/ AcceptFails \/ HandlerEnter \/ WaitpidNone \/ UNCHANGED vars
  <2>1. UNCHANGED <<queue, holders, client, link, unread, back>>
    BY <1>1 DEF Start, AcceptFails, HandlerEnter, WaitpidNone, vars
  <2> QED BY <2>1, SameAlive, LinkFrame
<1>2. ASSUME NEW ch \in Children, Waitpid(ch) \/ ChildReadEINTR(ch) \/ ChildWriteLost(ch)
      PROVE  LinkInv'
  <2>1. UNCHANGED <<queue, holders, client, link, unread, back>>
    BY <1>2 DEF Waitpid, ChildReadEINTR, AfterEINTR, ChildWriteLost, vars
  <2> QED BY <2>1, SameAlive, LinkFrame
<1>3. CASE ServerKilled \/ ForkFails
  BY <1>3, ClosesLinkInv DEF ServerKilled, ForkFails, ServerEnds
<1>4. CASE CloseConnfd
  BY <1>4, ClosesLinkInv DEF CloseConnfd
<1>5. ASSUME NEW ch \in Children, ChildStart(ch) PROVE LinkInv'
  BY <1>5, ClosesLinkInv DEF ChildStart
<1>6. ASSUME NEW ch \in Children, ChildReadEnds(ch) \/ ChildSIGPIPE(ch) \/ ChildKilled(ch)
      PROVE  LinkInv'
  BY <1>6, ClosesLinkInv DEF ChildReadEnds, ChildSIGPIPE, ChildKilled, ChildEnds
<1>7. CASE Accept
  <2>1. /\ queue \in Seq(Clients) /\ Len(queue) \in Nat /\ Len(queue) > 0
        /\ Head(queue) = queue[1] /\ queue[1] \in Clients
    BY <1>7 DEF Accept, TypeOK
  <2>2. /\ Len(queue') = Len(queue) - 1
        /\ \A i \in 1 .. Len(queue') : queue'[i] = queue[i + 1]
    BY <1>7, <2>1 DEF Accept
  <2>3. holders' = [holders EXCEPT ![queue[1]] = {Server}]
    BY <1>7, <2>1 DEF Accept
  <2>4. ASSUME NEW c \in Clients, Alive(c) PROVE Alive(c)'
    <3>1. CASE c = queue[1]
      <4>1. holders'[c] = {Server}
        BY <2>1, <2>3, <3>1 DEF TypeOK
      <4> QED BY <4>1 DEF Alive
    <3>2. CASE c # queue[1]
      <4>1. holders'[c] = holders[c]
        BY <2>3, <3>2 DEF TypeOK
      <4>2. ASSUME NEW i \in 1 .. Len(queue), queue[i] = c
            PROVE  i - 1 \in 1 .. Len(queue') /\ queue'[i - 1] = c
        <5>1. i - 1 \in 1 .. Len(queue') /\ (i - 1) + 1 = i
          BY <2>1, <2>2, <3>2, <4>2
        <5> QED BY <2>2, <4>2, <5>1
      <4> QED BY <2>4, <4>1, <4>2 DEF Alive, Queued
    <3> QED BY <3>1, <3>2
  <2> QED BY <1>7, <2>4, LinkFrame DEF Accept
<1>8. ASSUME NEW ch \in Children, Fork(ch) PROVE LinkInv'
  <2>1. ASSUME NEW c \in Clients, Alive(c) PROVE Alive(c)'
    <3>1. queue' = queue /\ (holders[c] # {} => holders'[c] # {})
      BY <1>8 DEF Fork
    <3> QED BY <2>1, <3>1 DEF Alive, Queued
  <2> QED BY <1>8, <2>1, LinkFrame DEF Fork
<1>9. ASSUME NEW ch \in Children, ChildRead(ch) PROVE LinkInv'
  <2>1. UNCHANGED <<queue, holders, client, link, back>>
    BY <1>9 DEF ChildRead
  <2>2. \A c \in Clients : Alive(c)' = Alive(c)
    BY <2>1, SameAlive
  <2>3. cfd[ch] \in Clients /\ unread[cfd[ch]] > 0
    BY <1>9 DEF ChildRead, TypeOK
  <2>4. \A c \in Clients \ {cfd[ch]} : unread'[c] = unread[c]
    BY <1>9 DEF ChildRead, TypeOK
  <2>5. Alive(cfd[ch])
    BY <2>3 DEF LinkInv
  <2> QED BY <2>1, <2>2, <2>4, <2>5 DEF LinkInv
<1>10. ASSUME NEW ch \in Children, ChildWrite(ch) PROVE LinkInv'
  <2>1. UNCHANGED <<queue, holders, client, link, unread>> /\ client[cfd[ch]] # "off"
    BY <1>10 DEF ChildWrite
  <2>2. \A c \in Clients : Alive(c)' = Alive(c)
    BY <2>1, SameAlive
  <2>3. \A c \in Clients \ {cfd[ch]} : back'[c] = back[c]
    BY <1>10 DEF ChildWrite, TypeOK
  <2> QED BY <2>1, <2>2, <2>3 DEF LinkInv
<1>11. ASSUME NEW c \in Clients, Connect(c) PROVE LinkInv'
  <2>1. /\ Len(queue') = Len(queue) + 1 /\ Len(queue) \in Nat
        /\ \A i \in 1 .. Len(queue) : queue'[i] = queue[i]
        /\ queue'[Len(queue) + 1] = c
    BY <1>11 DEF Connect, TypeOK
  <2>2. UNCHANGED <<holders, link, unread, back>> /\ client' = [client EXCEPT ![c] = "line"]
    BY <1>11 DEF Connect
  <2>3. Alive(c)'
    <3>1. Len(queue) + 1 \in 1 .. Len(queue')
      BY <2>1
    <3> QED BY <2>1, <3>1 DEF Alive, Queued
  <2>4. \A d \in Clients : Alive(d) => Alive(d)'
    <3>1. \A i \in 1 .. Len(queue) : i \in 1 .. Len(queue')
      BY <2>1
    <3> QED BY <2>1, <2>2, <3>1 DEF Alive, Queued
  <2>5. client'[c] = "line" /\ \A d \in Clients \ {c} : client'[d] = client[d]
    BY <2>2 DEF TypeOK
  <2> QED BY <2>2, <2>3, <2>4, <2>5 DEF LinkInv
<1>12. ASSUME NEW c \in Clients, ClientGone(c) PROVE LinkInv'
  <2>1. UNCHANGED <<queue, holders, unread>>
    BY <1>12 DEF ClientGone
  <2>2. \A d \in Clients : Alive(d)' = Alive(d)
    BY <2>1, SameAlive
  <2>3. /\ client'[c] = "off" /\ link'[c] = "up" /\ back'[c] = 0
        /\ \A d \in Clients \ {c} :
              client'[d] = client[d] /\ link'[d] = link[d] /\ back'[d] = back[d]
    BY <1>12 DEF ClientGone, TypeOK
  <2> QED BY <2>1, <2>2, <2>3 DEF LinkInv
<1>13. ASSUME NEW c \in Clients, ClientWrite(c) PROVE LinkInv'
  <2>1. UNCHANGED <<queue, holders, link, back>> /\ client[c] # "off" /\ link[c] = "up"
    BY <1>13 DEF ClientWrite
  <2>2. \A d \in Clients : Alive(d)' = Alive(d)
    BY <2>1, SameAlive
  <2>3. /\ client'[c] # "off"
        /\ \A d \in Clients \ {c} : client'[d] = client[d] /\ unread'[d] = unread[d]
    BY <1>13 DEF ClientWrite, TypeOK
  <2>4. Alive(c)
    BY <2>1 DEF LinkInv
  <2> QED BY <2>1, <2>2, <2>3, <2>4 DEF LinkInv
<1>14. ASSUME NEW c \in Clients,
              \/ ClientWriteFails(c) \/ ClientRead(c) \/ ClientReadFails(c)
              \/ \E n \in Lines[c] : Line(c, n) /\ link[c] # "broken"
       PROVE  LinkInv'
  <2>1. UNCHANGED <<queue, holders, unread>>
    BY <1>14 DEF ClientWriteFails, ClientRead, ClientReadFails, Line
  <2>2. \A d \in Clients : Alive(d)' = Alive(d)
    BY <2>1, SameAlive
  <2>3. /\ client[c] # "off" /\ client'[c] # "off"
        /\ link'[c] = "up" => link[c] = "up"
        /\ \A d \in Clients \ {c} :
              client'[d] = client[d] /\ link'[d] = link[d] /\ back'[d] = back[d]
    BY <1>14 DEF ClientWriteFails, ClientRead, ClientReadFails, Line, TypeOK
  <2> QED BY <2>1, <2>2, <2>3 DEF LinkInv
<1>15. ASSUME NEW c \in Clients, Client(c) \/ ClientLeaves(c) PROVE LinkInv'
  BY <1>12, <1>13, <1>14, <1>15 DEF Client, ClientLeaves, ClientEOF
<1>16. ASSUME NEW c \in Clients, NEW n \in Lines[c], Line(c, n) PROVE LinkInv'
  <2>1. CASE link[c] = "broken"
    BY <1>12, <1>16, <2>1 DEF Line
  <2>2. CASE link[c] # "broken"
    BY <1>14, <1>16, <2>2
  <2> QED BY <2>1, <2>2
<1> QED
  BY <1>1, <1>2, <1>3, <1>4, <1>5, <1>6, <1>7, <1>8, <1>9, <1>10, <1>11, <1>15, <1>16
     DEF Next, main, sig_child, Child

(* A step that starts no child and does not reach fork keeps ServeInv.     *)
LEMMA ServeFrame ==
  ASSUME ServeInv, Running' \subseteq Running, \A ch \in Running' : cfd'[ch] = cfd[ch],
         \A ch \in Children : child'[ch] = "write" <=> have'[ch] > 0,
         spc' = "fork" => spc = "fork" /\ connfd' = connfd,
         spc' = "fork" /\ connfd # None => holders'[connfd] = holders[connfd]
  PROVE  ServeInv'
<1>1. \A a, b \in Running' : cfd'[a] = cfd'[b] /\ cfd'[a] # None => a = b
  BY DEF ServeInv
<1>2. spc' = "fork" /\ connfd' # None => holders'[connfd'] = {Server}
  BY DEF ServeInv
<1> QED BY <1>1, <1>2 DEF ServeInv

LEMMA ChildEndsServe ==
  ASSUME TypeInv, HeldInv, ServeInv, NEW ch \in Children, ChildEnds(ch)
  PROVE  ServeInv'
<1>1. Running' = Running \ {ch} /\ \A o \in Running' : cfd'[o] = cfd[o]
  BY DEF ChildEnds, Running, TypeInv, TypeOK
<1>2. \A o \in Children : child'[o] = "write" <=> have'[o] > 0
  <2>1. /\ child'[ch] # "write" /\ have'[ch] = 0
        /\ \A o \in Children \ {ch} : child'[o] = child[o] /\ have'[o] = have[o]
    BY DEF ChildEnds, TypeInv, TypeOK
  <2> QED BY <2>1 DEF ServeInv
<1>3. spc = "fork" /\ connfd # None => holders'[connfd] = {Server} /\ holders[connfd] = {Server}
  <2>1. Server # ch /\ holders' = [c \in Clients |-> holders[c] \ {ch}]
    BY EchoAssumption DEF ChildEnds, Closes
  <2> QED BY <2>1 DEF ServeInv, TypeInv, TypeOK
<1>4. UNCHANGED <<spc, connfd>>
  BY DEF ChildEnds
<1> QED BY <1>1, <1>2, <1>3, <1>4, ServeFrame

LEMMA NextServe ==
  ASSUME TypeInv, HeldInv, ServeInv, [Next]_vars
  PROVE  ServeInv'
<1> USE DEF TypeInv, serverVars, socketVars, childVars, clientVars, linkVars
<1>0. /\ \A ch \in Children : ch # Server /\ (child[ch] = "write" <=> have[ch] > 0)
      /\ None \notin Clients
  BY EchoAssumption DEF ServeInv
<1>1. CASE Start \/ HandlerEnter \/ WaitpidNone \/ UNCHANGED vars
  <2>1. UNCHANGED <<connfd, holders, child, cfd, have>> /\ (spc' = "fork" => spc = "fork")
    BY <1>1 DEF Start, HandlerEnter, WaitpidNone, vars
  <2>2. Running' = Running
    BY <2>1 DEF Running
  <2> QED BY <1>0, <2>1, <2>2, ServeFrame
<1>2. CASE ServerKilled \/ ForkFails
  <2>1. /\ UNCHANGED <<cfd, have>> /\ spc' = "down"
        /\ child' = [ch \in Children |-> IF child[ch] = "zombie" THEN "free" ELSE child[ch]]
    BY <1>2 DEF ServerKilled, ForkFails, ServerEnds
  <2>2. Running' = Running
    BY <2>1 DEF Running
  <2>3. \A ch \in Children : child'[ch] = "write" <=> child[ch] = "write"
    BY <2>1
  <2> QED BY <1>0, <2>1, <2>2, <2>3, ServeFrame
<1>3. CASE Accept
  <2>1. /\ queue # <<>> /\ Head(queue) \in Clients
    BY <1>3 DEF Accept, TypeOK
  <2>2. connfd' = Head(queue) /\ holders'[Head(queue)] = {Server}
    BY <1>3, <2>1 DEF Accept, TypeOK
  <2>3. UNCHANGED <<child, cfd, have>>
    BY <1>3 DEF Accept
  <2>4. Running' = Running
    BY <2>3 DEF Running
  <2> QED BY <2>2, <2>3, <2>4 DEF ServeInv
<1>4. CASE AcceptFails
  <2>1. UNCHANGED <<child, cfd, have>> /\ connfd' = None
    BY <1>4 DEF AcceptFails
  <2>2. Running' = Running
    BY <2>1 DEF Running
  <2> QED BY <2>1, <2>2 DEF ServeInv
<1>5. ASSUME NEW ch \in Children, Fork(ch) PROVE ServeInv'
  <2>1. /\ spc = "fork" /\ spc' = "close" /\ have' = have /\ child[ch] = "free"
        /\ cfd' = [cfd EXCEPT ![ch] = connfd] /\ child' = [child EXCEPT ![ch] = "start"]
    BY <1>5 DEF Fork
  <2>2. ch \notin Running /\ Running' = Running \cup {ch}
    BY <2>1 DEF Running, TypeOK
  <2>3. cfd'[ch] = connfd /\ \A o \in Running : cfd'[o] = cfd[o] /\ o \in Children
    BY <2>1, <2>2 DEF Running, TypeOK
  <2>4. \A o \in Running : cfd[o] = connfd => connfd = None
    <3> SUFFICES ASSUME NEW o \in Running, cfd[o] = connfd, connfd # None PROVE FALSE
      OBVIOUS
    <3>1. connfd \in Clients /\ o \in Children
      BY <2>3 DEF TypeOK
    <3>2. o \in holders[connfd]
      BY <3>1 DEF HeldInv, HeldByItsChild
    <3> QED BY <1>0, <2>1, <3>1, <3>2 DEF ServeInv
  <2>5. \A a, b \in Running' : cfd'[a] = cfd'[b] /\ cfd'[a] # None => a = b
    BY <2>2, <2>3, <2>4 DEF ServeInv
  <2>6. \A o \in Children : child'[o] = "write" <=> have'[o] > 0
    BY <1>0, <2>1 DEF TypeOK
  <2> QED BY <2>1, <2>5, <2>6 DEF ServeInv
<1>6. CASE CloseConnfd
  <2>1. UNCHANGED <<child, cfd, have>> /\ spc' = "accept"
    BY <1>6 DEF CloseConnfd
  <2>2. Running' = Running
    BY <2>1 DEF Running
  <2> QED BY <2>1, <2>2 DEF ServeInv
<1>7. ASSUME NEW ch \in Children, Waitpid(ch) PROVE ServeInv'
  <2>1. UNCHANGED <<spc, connfd, holders, cfd, have>> /\ child[ch] = "zombie"
        /\ child' = [child EXCEPT ![ch] = "free"]
    BY <1>7 DEF Waitpid
  <2>2. Running' = Running /\ \A o \in Children : child'[o] = "write" <=> child[o] = "write"
    BY <2>1 DEF Running, TypeOK
  <2> QED BY <1>0, <2>1, <2>2, ServeFrame
<1>8. ASSUME NEW ch \in Children, ChildStart(ch) PROVE ServeInv'
  <2>1. UNCHANGED <<spc, connfd, cfd, have>> /\ child[ch] = "start"
        /\ child' = [child EXCEPT ![ch] = "read"] /\ Closes(ch, {}, TRUE)
    BY <1>8 DEF ChildStart
  <2>2. holders' = holders
    BY <2>1 DEF Closes, TypeOK
  <2>3. Running' = Running /\ \A o \in Children : child'[o] = "write" <=> child[o] = "write"
    BY <2>1 DEF Running, TypeOK
  <2> QED BY <1>0, <2>1, <2>2, <2>3, ServeFrame
<1>9. ASSUME NEW ch \in Children, ChildRead(ch) \/ ChildWrite(ch) \/ ChildWriteLost(ch)
      PROVE  ServeInv'
  <2>1. UNCHANGED <<spc, connfd, holders, cfd>>
    BY <1>9 DEF ChildRead, ChildWrite, ChildWriteLost
  <2>2. Running' = Running
    BY <1>9 DEF ChildRead, ChildWrite, ChildWriteLost, Running, TypeOK
  <2>3. \A o \in Children \ {ch} : child'[o] = child[o] /\ have'[o] = have[o]
    BY <1>9 DEF ChildRead, ChildWrite, ChildWriteLost, TypeOK
  <2>4. child'[ch] = "write" <=> have'[ch] > 0
    <3>1. CASE ChildRead(ch)
      <4>1. /\ child'[ch] = "write" /\ have'[ch] = ReadCount(cfd[ch])
            /\ unread[cfd[ch]] > 0 /\ unread[cfd[ch]] \in Nat
        BY <3>1, EchoAssumption DEF ChildRead, TypeOK
      <4> QED BY <4>1, EchoAssumption DEF ReadCount, Min2
    <3>2. CASE ChildWrite(ch) \/ ChildWriteLost(ch)
      <4>1. child'[ch] = "read" /\ have'[ch] = 0
        BY <3>2 DEF ChildWrite, ChildWriteLost, TypeOK
      <4> QED BY <4>1
    <3> QED BY <1>9, <3>1, <3>2
  <2>5. \A o \in Children : child'[o] = "write" <=> have'[o] > 0
    BY <1>0, <2>3, <2>4
  <2> QED BY <2>1, <2>2, <2>5, ServeFrame
<1>10. ASSUME NEW ch \in Children, ChildReadEnds(ch) \/ ChildSIGPIPE(ch) \/ ChildKilled(ch)
       PROVE  ServeInv'
  BY <1>10, ChildEndsServe DEF ChildReadEnds, ChildSIGPIPE, ChildKilled
<1>11. ASSUME UNCHANGED <<spc, connfd, holders, child, cfd, have>> PROVE ServeInv'
  <2>1. Running' = Running
    BY <1>11 DEF Running
  <2> QED BY <1>0, <1>11, <2>1, ServeFrame
<1>12. ASSUME NEW ch \in Children, ChildReadEINTR(ch) PROVE ServeInv'
  BY <1>11, <1>12 DEF ChildReadEINTR, AfterEINTR, vars
<1>13. ASSUME NEW c \in Clients, Connect(c) \/ Client(c) \/ ClientLeaves(c) PROVE ServeInv'
  BY <1>11, <1>13 DEF Connect, Client, ClientWrite, ClientWriteFails, ClientRead, ClientEOF,
     ClientReadFails, ClientLeaves, ClientGone
<1>14. ASSUME NEW c \in Clients, NEW n \in Lines[c], Line(c, n) PROVE ServeInv'
  BY <1>11, <1>14 DEF Line, ClientGone
<1> QED
  BY <1>1, <1>2, <1>3, <1>4, <1>5, <1>6, <1>7, <1>8, <1>9, <1>10, <1>12, <1>13, <1>14
     DEF Next, main, sig_child, Child

LEMMA EchoInvAlways == Spec => []EchoInv
<1>1. Init => TypeInv /\ HeldInv /\ ServeInv /\ LinkInv
  <2> SUFFICES ASSUME Init PROVE TypeInv /\ HeldInv /\ ServeInv /\ LinkInv
    OBVIOUS
  <2>1. TypeInv
    BY InitTypeInv
  <2>2. HeldInv
    BY EchoAssumption DEF Init, HeldInv, QueueInv, HeldByItsChild, Running
  <2>3. ServeInv /\ LinkInv
    BY DEF Init, ServeInv, Running, LinkInv
  <2> QED BY <2>1, <2>2, <2>3
<1>2. TypeInv /\ HeldInv /\ ServeInv /\ LinkInv /\ [Next]_vars
        => HeldInv' /\ ServeInv' /\ LinkInv'
  BY NextHeld, NextServe, NextLink
<1> QED BY <1>1, <1>2, TypeInvAlways, PTL DEF Spec, EchoInv
-----------------------------------------------------------------------------
(* The refinement                                                          *)

(* A step of EchoServer is one of EchoService, or none.                    *)
ServiceStep == Service!Next \/ UNCHANGED <<Up, Owed, Ready>>

(* What the child of a connection has, in the functions that say it.       *)
InBuf(R, F, H, c) == IF \E ch \in R : F[ch] = c THEN H[CHOOSE ch \in R : F[ch] = c] ELSE 0

LEMMA InBufIs ==
  ASSUME NEW R, NEW F, NEW H, NEW c, \A a, b \in R : F[a] = c /\ F[b] = c => a = b
  PROVE  /\ \A ch \in R : F[ch] = c => InBuf(R, F, H, c) = H[ch]
         /\ (\A ch \in R : F[ch] # c) => InBuf(R, F, H, c) = 0
<1>1. ASSUME NEW ch \in R, F[ch] = c PROVE InBuf(R, F, H, c) = H[ch]
  <2> DEFINE w == CHOOSE x \in R : F[x] = c
  <2>1. w \in R /\ F[w] = c
    BY <1>1
  <2>2. w = ch
    BY <1>1, <2>1
  <2> QED BY <1>1, <2>2 DEF InBuf
<1>2. ASSUME \A ch \in R : F[ch] # c PROVE InBuf(R, F, H, c) = 0
  BY <1>2 DEF InBuf
<1> QED BY <1>1, <1>2

LEMMA InChildIs ==
  ASSUME TypeOK, ServeInv, NEW c \in Clients
  PROVE  /\ \A ch \in Running : cfd[ch] = c => InChild(c) = have[ch]
         /\ (\A ch \in Running : cfd[ch] # c) => InChild(c) = 0
         /\ InChild(c) \in Nat
<1>1. InChild(c) = InBuf(Running, cfd, have, c)
  BY DEF InChild, InBuf
<1>2. \A a, b \in Running : cfd[a] = c /\ cfd[b] = c => a = b
  BY EchoAssumption DEF ServeInv
<1>3. /\ \A ch \in Running : cfd[ch] = c => InChild(c) = have[ch]
      /\ (\A ch \in Running : cfd[ch] # c) => InChild(c) = 0
  BY <1>1, <1>2, InBufIs
<1>4. \A ch \in Running : have[ch] \in Nat
  BY EchoAssumption DEF TypeOK, Running
<1> QED BY <1>3, <1>4

(* The same after a step.                                                  *)
LEMMA InChildIsNext ==
  ASSUME ServeInv', NEW c \in Clients
  PROVE  /\ \A ch \in Running' : cfd'[ch] = c => InChild(c)' = have'[ch]
         /\ (\A ch \in Running' : cfd'[ch] # c) => InChild(c)' = 0
<1>1. InChild(c)' = InBuf(Running', cfd', have', c)
  BY DEF InChild, InBuf
<1>2. \A a, b \in Running' : cfd'[a] = c /\ cfd'[b] = c => a = b
  BY EchoAssumption DEF ServeInv
<1> QED BY <1>1, <1>2, InBufIs

LEMMA InChildSame ==
  ASSUME TypeOK, ServeInv, ServeInv', NEW c \in Clients,
         \A ch : (ch \in Running /\ cfd[ch] = c) <=> (ch \in Running' /\ cfd'[ch] = c),
         \A ch \in Running : cfd[ch] = c => have'[ch] = have[ch]
  PROVE  InChild(c)' = InChild(c)
<1>1. CASE \E ch \in Running : cfd[ch] = c
  <2>1. PICK ch \in Running : cfd[ch] = c
    BY <1>1
  <2>2. InChild(c) = have[ch] /\ InChild(c)' = have'[ch]
    BY <2>1, InChildIs, InChildIsNext
  <2> QED BY <2>1, <2>2
<1>2. CASE \A ch \in Running : cfd[ch] # c
  BY <1>2, InChildIs, InChildIsNext
<1> QED BY <1>1, <1>2

(* A step that changes nothing for a connection that stays is the end of   *)
(* those that do not.                                                      *)
LEMMA EndsOrStays ==
  ASSUME Up' \subseteq Up,
         \A c \in Up' : unread'[c] = unread[c] /\ InChild(c)' = InChild(c) /\ back'[c] = back[c]
  PROVE  ServiceStep
<1> DEFINE cs == Up \ Up'
<1>0. Up \subseteq Clients /\ cs \in SUBSET Clients
  BY DEF Up
<1>1. Owed' = [c \in Clients |-> IF c \in cs THEN 0 ELSE Owed[c]]
  BY <1>0 DEF Owed
<1>2. Ready' = [c \in Clients |-> IF c \in cs THEN 0 ELSE Ready[c]]
  BY <1>0 DEF Ready
<1>3. CASE cs = {}
  <2>1. Up' = Up
    BY <1>3
  <2>2. Owed' = Owed /\ Ready' = Ready
    BY <1>1, <1>2, <1>3 DEF Owed, Ready
  <2> QED BY <2>1, <2>2 DEF ServiceStep
<1>4. CASE cs # {}
  <2>1. Up' = Up \ cs
    OBVIOUS
  <2>2. Service!End(cs)
    BY <1>1, <1>2, <1>4, <2>1 DEF Service!End
  <2> QED BY <1>0, <2>2 DEF Service!Next, ServiceStep
<1> QED BY <1>3, <1>4

(* A step that closes descriptors ends the connections that lose their     *)
(* last holder and those that wait for accept in vain.                     *)
LEMMA ClosesStep ==
  ASSUME TypeOK, NEW p, NEW cs, NEW lst, Closes(p, cs, lst), UNCHANGED <<client, back>>,
         \A c \in Up' : ~Unserved(c) /\ InChild(c)' = InChild(c)
  PROVE  ServiceStep
<1>1. ASSUME NEW c \in Up' PROVE c \in Up /\ unread'[c] = unread[c]
  <2>1. c \in Clients /\ client[c] # "off" /\ link'[c] = "up" /\ ~Unserved(c)
    BY <1>1 DEF Up
  <2>2. link'[c] = link[c] /\ unread'[c] = unread[c]
    BY <2>1, ClosesLinks
  <2> QED BY <2>1, <2>2 DEF Up
<1> QED BY <1>1, EndsOrStays

(* A step that touches no bytes and closes no connection.                  *)
LEMMA QuietStep ==
  ASSUME UNCHANGED <<unread, back>>, Up' = Up,
         \A c \in Up : InChild(c)' = InChild(c)
  PROVE  ServiceStep
  BY EndsOrStays

(* main and sig_child: connections end, or nothing is seen.                *)
LEMMA ServerService ==
  ASSUME EchoInv, EchoInv', \/ Start \/ ServerKilled \/ main \/ AcceptFails \/ HandlerEnter
                            \/ sig_child
  PROVE  ServiceStep
<1> USE DEF serverVars, socketVars, childVars, clientVars, linkVars
<1>0. /\ TypeOK /\ ServeInv /\ ServeInv' /\ None \notin Clients
      /\ \A ch \in Children : ch # Server
      /\ \A c \in Clients : Server \in holders[c] <=> connfd = c /\ spc \in {"fork", "close"}
  BY EchoAssumption DEF EchoInv, TypeInv, HeldInv, HeldByItsChild
<1>1. ASSUME UNCHANGED <<cfd, have>>, Running' = Running
      PROVE  \A c \in Clients : InChild(c)' = InChild(c)
  BY <1>0, <1>1, InChildSame
<1>2. CASE Start \/ AcceptFails
  <2>1. /\ spc # "close" /\ spc' # "close"
        /\ UNCHANGED <<client, link, unread, back, child, cfd, have>>
    BY <1>2 DEF Start, AcceptFails
  <2>2. Up' = Up
    BY <2>1 DEF Up, Unserved
  <2>3. Running' = Running
    BY <2>1 DEF Running
  <2> QED BY <1>1, <2>1, <2>2, <2>3, QuietStep DEF Up
<1>3. CASE Accept
  <2>1. /\ spc = "accept" /\ spc' = "fork"
        /\ UNCHANGED <<client, link, unread, back, child, cfd, have>>
    BY <1>3 DEF Accept
  <2>2. Up' = Up
    BY <2>1 DEF Up, Unserved
  <2>3. Running' = Running
    BY <2>1 DEF Running
  <2> QED BY <1>1, <2>1, <2>2, <2>3, QuietStep DEF Up
<1>4. CASE HandlerEnter \/ sig_child
  <2>1. UNCHANGED <<spc, holders, client, link, unread, back, cfd, have>>
    BY <1>4 DEF HandlerEnter, sig_child, Waitpid, WaitpidNone
  <2>2. Up' = Up
    BY <2>1 DEF Up, Unserved
  <2>3. Running' = Running
    BY <1>0, <1>4 DEF HandlerEnter, sig_child, Waitpid, WaitpidNone, Running, TypeOK
  <2> QED BY <1>1, <2>1, <2>2, <2>3, QuietStep DEF Up
<1>5. ASSUME NEW ch \in Children, Fork(ch) PROVE ServiceStep
  <2>1. /\ spc = "fork" /\ spc' = "close" /\ child[ch] = "free"
        /\ UNCHANGED <<client, link, unread, back, have>>
        /\ cfd' = [cfd EXCEPT ![ch] = connfd] /\ child' = [child EXCEPT ![ch] = "start"]
        /\ holders' = [c \in Clients |-> IF Server \in holders[c] THEN holders[c] \cup {ch}
                                                                  ELSE holders[c]]
    BY <1>5 DEF Fork
  <2>2. \A c \in Clients : ~Unserved(c) /\ ~Unserved(c)'
    <3>1. \A c \in Clients : holders'[c] # {Server}
      BY <1>0, <2>1
    <3> QED BY <2>1, <3>1 DEF Unserved
  <2>3. Up' = Up
    BY <2>1, <2>2 DEF Up
  <2>4. ch \notin Running /\ Running' = Running \cup {ch}
    BY <1>0, <2>1 DEF Running, TypeOK
  <2>5. cfd'[ch] = connfd /\ \A o \in Running : cfd'[o] = cfd[o] /\ o \in Children
    BY <1>0, <2>1, <2>4 DEF Running, TypeOK
  <2>6. ASSUME NEW c \in Clients PROVE InChild(c)' = InChild(c)
    <3>1. CASE c = connfd
      <4>1. InChild(c)' = have[ch]
        BY <1>0, <2>1, <2>4, <2>5, <3>1, InChildIsNext
      <4>2. have[ch] = 0
        BY <1>0, <2>1, EchoAssumption DEF ServeInv, TypeOK
      <4>3. \A o \in Running : cfd[o] # c
        <5>1. holders[c] = {Server}
          BY <1>0, <2>1, <3>1 DEF ServeInv
        <5> QED BY <1>0, <2>5, <5>1 DEF EchoInv, HeldInv, HeldByItsChild
      <4>4. InChild(c) = 0
        BY <1>0, <4>3, InChildIs
      <4> QED BY <4>1, <4>2, <4>4
    <3>2. CASE c # connfd
      <4>1. \A o : (o \in Running /\ cfd[o] = c) <=> (o \in Running' /\ cfd'[o] = c)
        BY <2>4, <2>5, <3>2
      <4> QED BY <1>0, <2>1, <4>1, InChildSame
    <3> QED BY <3>1, <3>2
  <2> QED BY <2>1, <2>3, <2>6, QuietStep DEF Up
<1>6. CASE ServerKilled \/ ForkFails
  <2>1. /\ Closes(Server, Clients, TRUE) /\ UNCHANGED <<client, back, cfd, have>>
        /\ child' = [ch \in Children |-> IF child[ch] = "zombie" THEN "free" ELSE child[ch]]
    BY <1>6 DEF ServerKilled, ForkFails, ServerEnds
  <2>2. Running' = Running
    BY <2>1 DEF Running
  <2>3. ASSUME NEW c \in Up' PROVE ~Unserved(c)
    <3>1. c \in Clients /\ client[c] # "off" /\ link'[c] = "up"
      BY <2>1, <2>3 DEF Up
    <3>2. holders[c] # {Server}
      BY <2>1, <3>1 DEF Closes
    <3> QED BY <3>2 DEF Unserved
  <2> QED BY <1>0, <1>1, <2>1, <2>2, <2>3, ClosesStep DEF Up
<1>7. CASE CloseConnfd
  <2>1. /\ Closes(Server, {connfd} \cap Clients, FALSE)
        /\ UNCHANGED <<client, back, child, cfd, have>>
    BY <1>7 DEF CloseConnfd
  <2>2. Running' = Running
    BY <2>1 DEF Running
  <2>3. ASSUME NEW c \in Up' PROVE ~Unserved(c)
    <3>1. c \in Clients /\ client[c] # "off" /\ link'[c] = "up"
      BY <2>1, <2>3 DEF Up
    <3>2. c = connfd => holders[c] # {Server}
      BY <2>1, <3>1 DEF Closes
    <3>3. holders[c] = {Server} => c = connfd
      BY <1>0, <3>1
    <3> QED BY <3>2, <3>3 DEF Unserved
  <2> QED BY <1>0, <1>1, <2>1, <2>2, <2>3, ClosesStep DEF Up
<1> QED BY <1>2, <1>3, <1>4, <1>5, <1>6, <1>7 DEF main

(* A child that ends takes its connection with it: nobody but the server   *)
(* still holds it, and only to close it.                                   *)
LEMMA ChildEndsService ==
  ASSUME EchoInv, EchoInv', NEW ch \in Children, ChildEnds(ch)
  PROVE  ServiceStep
<1>0. /\ TypeOK /\ ServeInv /\ ServeInv' /\ None \notin Clients /\ ch # Server
      /\ \A c \in Clients : \A o \in Children : o \in holders[c] <=> o \in Running /\ cfd[o] = c
      /\ \A c \in Clients : Server \in holders[c] <=> connfd = c /\ spc \in {"fork", "close"}
  BY EchoAssumption DEF EchoInv, TypeInv, HeldInv, HeldByItsChild
<1>1. /\ Closes(ch, Clients, TRUE) /\ UNCHANGED <<spc, connfd, client, back>>
      /\ Running' = Running \ {ch}
      /\ \A o \in Running' : cfd'[o] = cfd[o] /\ have'[o] = have[o]
      /\ holders' = [c \in Clients |-> holders[c] \ {ch}]
  BY <1>0 DEF ChildEnds, Closes, Running, TypeOK, clientVars
<1>2. ASSUME NEW c \in Clients, ch \in Running, cfd[ch] = c PROVE c \notin Up'
  <2>1. holders[c] \subseteq {ch, Server} /\ ch \in holders[c]
    <3>1. \A o \in holders[c] : o \in Children \/ o = Server
      BY <1>0 DEF TypeOK, Procs
    <3>2. \A o \in Children : o \in holders[c] => o = ch
      BY <1>0, <1>2 DEF ServeInv
    <3> QED BY <1>0, <1>2, <3>1, <3>2
  <2>2. CASE holders[c] = {ch}
    <3>1. client[c] = "off" \/ link'[c] # "up"
      BY <1>1, <2>2 DEF Closes
    <3> QED BY <1>1, <3>1 DEF Up
  <2>3. CASE Server \in holders[c]
    <3>1. connfd = c /\ spc = "close"
      BY <1>0, <1>2, <2>1, <2>3 DEF ServeInv
    <3>2. holders'[c] = {Server}
      BY <1>0, <1>1, <2>1, <2>3
    <3>3. Unserved(c)'
      BY <1>1, <3>1, <3>2 DEF Unserved
    <3> QED BY <3>3 DEF Up
  <2> QED BY <2>1, <2>2, <2>3
<1>3. ASSUME NEW c \in Up' PROVE ~Unserved(c) /\ InChild(c)' = InChild(c)
  <2>1. c \in Clients /\ ~Unserved(c)'
    BY <1>3 DEF Up
  <2>2. ~Unserved(c)
    BY <1>0, <1>1, <2>1 DEF Unserved
  <2>3. \A o : (o \in Running /\ cfd[o] = c) <=> (o \in Running' /\ cfd'[o] = c)
    BY <1>1, <1>2, <1>3, <2>1
  <2>4. \A o \in Running : cfd[o] = c => have'[o] = have[o]
    BY <1>1, <1>2, <1>3, <2>1
  <2> QED BY <1>0, <2>1, <2>2, <2>3, <2>4, InChildSame
<1> QED BY <1>0, <1>1, <1>3, ClosesStep

(* str_echo: what is read is still owed, what is written is echoed.        *)
LEMMA ChildService ==
  ASSUME EchoInv, EchoInv', NEW ch \in Children,
         Child(ch) \/ ChildReadEINTR(ch) \/ ChildKilled(ch)
  PROVE  ServiceStep
<1> USE DEF serverVars, socketVars, childVars, clientVars, linkVars
<1>0. TypeOK /\ WriteInv /\ ServeInv /\ ServeInv' /\ None \notin Clients
  BY EchoAssumption DEF EchoInv, TypeInv
<1>1. CASE ChildReadEINTR(ch)
  <2>1. UNCHANGED vars
    BY <1>1 DEF ChildReadEINTR, AfterEINTR
  <2>2. UNCHANGED <<unread, back, Up>> /\ \A c \in Up : InChild(c)' = InChild(c)
    BY <2>1 DEF vars, Up, Unserved, InChild, Running
  <2> QED BY <2>2, QuietStep
<1>2. CASE ChildReadEnds(ch) \/ ChildSIGPIPE(ch) \/ ChildKilled(ch)
  BY <1>2, ChildEndsService DEF ChildReadEnds, ChildSIGPIPE, ChildKilled
<1>3. CASE ChildStart(ch)
  <2>1. /\ Closes(ch, {}, TRUE) /\ UNCHANGED <<spc, cfd, have, client, back>>
        /\ child[ch] = "start" /\ child' = [child EXCEPT ![ch] = "read"]
    BY <1>3 DEF ChildStart
  <2>2. Running' = Running /\ holders' = holders
    BY <1>0, <2>1 DEF Running, Closes, TypeOK
  <2>3. ASSUME NEW c \in Up' PROVE ~Unserved(c) /\ InChild(c)' = InChild(c)
    <3>1. c \in Clients /\ ~Unserved(c)
      BY <2>1, <2>2, <2>3 DEF Up, Unserved
    <3> QED BY <1>0, <2>1, <2>2, <3>1, InChildSame
  <2> QED BY <1>0, <2>1, <2>3, ClosesStep
<1>4. ASSUME ChildRead(ch) \/ ChildWrite(ch) \/ ChildWriteLost(ch)
      PROVE  /\ Up' = Up /\ ch \in Running /\ Running' = Running /\ cfd' = cfd
             /\ cfd[ch] \in Clients
             /\ \A c \in Clients \ {cfd[ch]} :
                   unread'[c] = unread[c] /\ back'[c] = back[c] /\ InChild(c)' = InChild(c)
             /\ \A c \in Clients :
                   c = cfd[ch] => InChild(c) = have[ch] /\ InChild(c)' = have'[ch]
  <2>1. UNCHANGED <<spc, holders, cfd, client, link>>
    BY <1>4 DEF ChildRead, ChildWrite, ChildWriteLost
  <2>2. Up' = Up
    BY <2>1 DEF Up, Unserved
  <2>3. ch \in Running /\ Running' = Running
    BY <1>0, <1>4 DEF ChildRead, ChildWrite, ChildWriteLost, Running, TypeOK
  <2>4. cfd[ch] \in Clients
    BY <1>0, <1>4 DEF ChildRead, ChildWrite, ChildWriteLost, TypeOK, WriteInv
  <2>5. /\ \A o \in Children \ {ch} : have'[o] = have[o]
        /\ \A c \in Clients \ {cfd[ch]} : unread'[c] = unread[c] /\ back'[c] = back[c]
    BY <1>0, <1>4 DEF ChildRead, ChildWrite, ChildWriteLost, TypeOK
  <2>6. ASSUME NEW c \in Clients \ {cfd[ch]} PROVE InChild(c)' = InChild(c)
    <3>1. \A o \in Running : cfd[o] = c => have'[o] = have[o]
      BY <2>5, <2>6 DEF Running
    <3> QED BY <1>0, <2>1, <2>3, <3>1, InChildSame
  <2>7. ASSUME NEW c \in Clients, c = cfd[ch]
        PROVE  InChild(c) = have[ch] /\ InChild(c)' = have'[ch]
    <3>1. InChild(c) = have[ch]
      BY <1>0, <2>3, <2>7, InChildIs
    <3>2. cfd'[ch] = c /\ ch \in Running'
      BY <2>1, <2>3, <2>7
    <3> QED BY <1>0, <3>1, <3>2, InChildIsNext
  <2> QED BY <2>1, <2>2, <2>3, <2>4, <2>5, <2>6, <2>7
<1>5. CASE ChildRead(ch) \/ ChildWrite(ch) \/ ChildWriteLost(ch)
  <2>1. PICK c \in Clients : c = cfd[ch]
    BY <1>4, <1>5
  <2>2. /\ InChild(c) = have[ch] /\ InChild(c)' = have'[ch] /\ Up' = Up
        /\ \A d \in Clients \ {c} :
              unread'[d] = unread[d] /\ back'[d] = back[d] /\ InChild(d)' = InChild(d)
    BY <1>4, <1>5, <2>1
  <2>3. /\ unread[c] \in Nat /\ back[c] \in Nat /\ have[ch] \in Nat
        /\ child[ch] = "write" <=> have[ch] > 0
    BY <1>0, EchoAssumption DEF TypeOK, ServeInv
  <2>4. \A d \in Clients \ {c} : Owed'[d] = Owed[d] /\ Ready'[d] = Ready[d]
    BY <2>2 DEF Owed, Ready
  <2>5. /\ Owed[c] = IF c \in Up THEN unread[c] + have[ch] ELSE 0
        /\ Owed'[c] = IF c \in Up THEN unread'[c] + have'[ch] ELSE 0
        /\ Ready[c] = IF c \in Up THEN back[c] ELSE 0
        /\ Ready'[c] = IF c \in Up THEN back'[c] ELSE 0
    BY <2>2 DEF Owed, Ready
  <2>6. ASSUME Owed'[c] = Owed[c], Ready'[c] = Ready[c] PROVE ServiceStep
    <3>1. Owed' = Owed /\ Ready' = Ready
      <4>1. \A d \in Clients : Owed'[d] = Owed[d] /\ Ready'[d] = Ready[d]
        BY <2>4, <2>6
      <4> QED BY <4>1 DEF Owed, Ready
    <3> QED BY <2>2, <3>1 DEF ServiceStep
  <2>7. CASE ChildRead(ch)
    <3>1. ReadCount(c) \in Nat
      BY <2>3, EchoAssumption DEF ReadCount, Min2
    <3>2. /\ have'[ch] = ReadCount(c) /\ unread'[c] = unread[c] - ReadCount(c)
          /\ back' = back /\ have[ch] = 0
      BY <1>0, <2>1, <2>3, <2>7 DEF ChildRead, TypeOK
    <3>3. unread'[c] + have'[ch] = unread[c] + have[ch]
      BY <2>3, <3>1, <3>2
    <3> QED BY <2>5, <2>6, <3>2, <3>3
  <2>8. CASE ChildWriteLost(ch)
    <3>1. c \notin Up
      BY <2>1, <2>8 DEF ChildWriteLost, Up
    <3> QED BY <2>5, <2>6, <3>1
  <2>9. CASE ChildWrite(ch)
    <3>1. /\ have'[ch] = 0 /\ unread' = unread /\ back'[c] = back[c] + have[ch] /\ have[ch] > 0
      BY <1>0, <2>1, <2>3, <2>9 DEF ChildWrite, TypeOK
    <3>2. CASE c \notin Up
      BY <2>5, <2>6, <3>2
    <3>3. CASE c \in Up
      <4>1. /\ have[ch] \in 1 .. Owed[c]
            /\ Owed'[c] = Owed[c] - have[ch] /\ Ready'[c] = Ready[c] + have[ch]
        BY <2>3, <2>5, <3>1, <3>3
      <4>2. Owed' = [Owed EXCEPT ![c] = @ - have[ch]]
        <5>1. \A d \in Clients : Owed'[d] = [Owed EXCEPT ![c] = @ - have[ch]][d]
          BY <2>4, <4>1 DEF Owed
        <5> QED BY <5>1 DEF Owed
      <4>3. Ready' = [Ready EXCEPT ![c] = @ + have[ch]]
        <5>1. \A d \in Clients : Ready'[d] = [Ready EXCEPT ![c] = @ + have[ch]][d]
          BY <2>4, <4>1 DEF Ready
        <5> QED BY <5>1 DEF Ready
      <4>4. Service!Echo(c)
        BY <2>2, <3>3, <4>1, <4>2, <4>3 DEF Service!Echo
      <4> QED BY <4>4 DEF Service!Next, ServiceStep
    <3> QED BY <3>2, <3>3
  <2> QED BY <1>5, <2>7, <2>8, <2>9
<1> QED BY <1>1, <1>2, <1>3, <1>5 DEF Child

(* echo_client.c: a client connects, sends a byte, takes what is there, or *)
(* leaves.                                                                 *)
LEMMA ClientService ==
  ASSUME EchoInv, NEW c \in Clients,
         \/ Connect(c) \/ Client(c) \/ ClientLeaves(c) \/ \E n \in Lines[c] : Line(c, n)
  PROVE  ServiceStep
<1> USE DEF serverVars, socketVars, childVars, clientVars, linkVars
<1>0. TypeOK /\ ServeInv /\ LinkInv
  BY DEF EchoInv, TypeInv
<1>1. UNCHANGED <<spc, holders, child, cfd, have>>
  BY DEF Connect, Client, ClientWrite, ClientWriteFails, ClientRead, ClientEOF,
     ClientReadFails, ClientLeaves, ClientGone, Line
<1>2. \A d \in Clients : InChild(d)' = InChild(d) /\ Unserved(d)' = Unserved(d)
  BY <1>1 DEF InChild, Running, Unserved
<1>3. \A d \in Clients : InChild(d) \in Nat /\ unread[d] \in Nat /\ back[d] \in Nat
  BY <1>0, InChildIs, EchoAssumption DEF TypeOK
<1>4. CASE Connect(c)
  <2>1. /\ client[c] = "off" /\ holders[c] = {} /\ ~Queued(c)
        /\ client' = [client EXCEPT ![c] = "line"] /\ UNCHANGED <<link, unread, back>>
    BY <1>4 DEF Connect
  <2>2. link[c] = "up" /\ back[c] = 0 /\ unread[c] = 0
    BY <1>0, <2>1 DEF LinkInv, Alive
  <2>3. InChild(c) = 0
    <3>1. \A ch \in Running : cfd[ch] # c
      BY <2>1 DEF EchoInv, HeldInv, HeldByItsChild, Running
    <3> QED BY <1>0, <3>1, InChildIs
  <2>4. c \notin Up /\ ~Unserved(c)
    BY <2>1 DEF Up, Unserved
  <2>5. Up' = Up \cup {c}
    BY <1>0, <1>2, <2>1, <2>2, <2>4 DEF Up, TypeOK
  <2>6. Owed' = Owed /\ Ready' = Ready
    <3>1. \A d \in Clients : /\ (IF d \in Up' THEN unread'[d] + InChild(d)' ELSE 0)
                                = (IF d \in Up THEN unread[d] + InChild(d) ELSE 0)
                             /\ (IF d \in Up' THEN back'[d] ELSE 0)
                                = (IF d \in Up THEN back[d] ELSE 0)
      BY <1>2, <2>1, <2>2, <2>3, <2>4, <2>5
    <3> QED BY <3>1 DEF Owed, Ready
  <2>7. Service!Connect(c)
    BY <2>4, <2>5, <2>6 DEF Service!Connect
  <2> QED BY <2>7 DEF Service!Next, ServiceStep
<1>5. ASSUME ClientGone(c) PROVE ServiceStep
  <2>1. /\ client'[c] = "off" /\ unread' = unread
        /\ \A d \in Clients \ {c} :
              client'[d] = client[d] /\ link'[d] = link[d] /\ back'[d] = back[d]
    BY <1>0, <1>5 DEF ClientGone, TypeOK
  <2>2. Up' \subseteq Up /\ c \notin Up'
    BY <1>2, <2>1 DEF Up
  <2> QED BY <1>2, <2>1, <2>2, EndsOrStays DEF Up
<1>6. ASSUME UNCHANGED <<unread, back>>,
             \A d \in Clients : client[d] # "off" /\ link[d] = "up"
                                <=> client'[d] # "off" /\ link'[d] = "up"
      PROVE  ServiceStep
  <2>1. Up' = Up
    BY <1>2, <1>6 DEF Up
  <2> QED BY <1>2, <1>6, <2>1, QuietStep DEF Up
<1>7. CASE ClientWriteFails(c) \/ ClientReadFails(c)
  <2>1. \A d \in Clients : client[d] # "off" /\ link[d] = "up"
                           <=> client'[d] # "off" /\ link'[d] = "up"
    BY <1>0, <1>7 DEF ClientWriteFails, ClientReadFails, TypeOK
  <2> QED BY <1>6, <1>7, <2>1 DEF ClientWriteFails, ClientReadFails
<1>8. CASE \E n \in Lines[c] : Line(c, n)
  <2>1. PICK n \in Lines[c] : Line(c, n)
    BY <1>8
  <2>2. CASE link[c] = "broken"
    BY <1>5, <2>1, <2>2 DEF Line
  <2>3. CASE link[c] # "broken"
    <3>1. /\ client[c] = "line" /\ client' = [client EXCEPT ![c] = "write"]
          /\ UNCHANGED <<link, unread, back>>
      BY <2>1, <2>3 DEF Line
    <3>2. \A d \in Clients : client[d] # "off" <=> client'[d] # "off"
      BY <1>0, <3>1 DEF TypeOK
    <3> QED BY <1>6, <3>1, <3>2
  <2> QED BY <2>2, <2>3
<1>9. CASE ClientWrite(c) \/ ClientRead(c)
  <2>1. /\ client[c] # "off" /\ client'[c] # "off" /\ link' = link
        /\ \A d \in Clients \ {c} :
              client'[d] = client[d] /\ unread'[d] = unread[d] /\ back'[d] = back[d]
    BY <1>0, <1>9 DEF ClientWrite, ClientRead, TypeOK
  <2>2. Up' = Up
    BY <1>2, <2>1 DEF Up
  <2>3. \A d \in Clients \ {c} : Owed'[d] = Owed[d] /\ Ready'[d] = Ready[d]
    BY <1>2, <2>1, <2>2 DEF Owed, Ready
  <2>4. /\ Owed[c] = IF c \in Up THEN unread[c] + InChild(c) ELSE 0
        /\ Owed'[c] = IF c \in Up THEN unread'[c] + InChild(c) ELSE 0
        /\ Ready[c] = IF c \in Up THEN back[c] ELSE 0
        /\ Ready'[c] = IF c \in Up THEN back'[c] ELSE 0
    BY <1>2, <2>2 DEF Owed, Ready
  <2>5. CASE c \notin Up
    <3>1. \A d \in Clients : Owed'[d] = Owed[d] /\ Ready'[d] = Ready[d]
      BY <2>3, <2>4, <2>5
    <3>2. Owed' = Owed /\ Ready' = Ready
      BY <3>1 DEF Owed, Ready
    <3> QED BY <2>2, <3>2 DEF ServiceStep
  <2>6. CASE ClientWrite(c) /\ c \in Up
    <3>1. unread'[c] = unread[c] + 1 /\ back' = back
      BY <1>0, <2>6 DEF ClientWrite, TypeOK
    <3>2. Owed'[c] = Owed[c] + 1 /\ Ready'[c] = Ready[c]
      BY <1>3, <2>4, <2>6, <3>1
    <3>3. Owed' = [Owed EXCEPT ![c] = @ + 1]
      <4>1. \A d \in Clients : Owed'[d] = [Owed EXCEPT ![c] = @ + 1][d]
        BY <2>3, <3>2 DEF Owed
      <4> QED BY <4>1 DEF Owed
    <3>4. Ready' = Ready
      <4>1. \A d \in Clients : Ready'[d] = Ready[d]
        BY <2>3, <3>2
      <4> QED BY <4>1 DEF Ready
    <3>5. Service!Send(c)
      BY <2>2, <2>6, <3>3, <3>4 DEF Service!Send
    <3> QED BY <3>5 DEF Service!Next, ServiceStep
  <2>7. CASE ClientRead(c) /\ c \in Up
    <3> DEFINE n == Min2(MAXLINE, back[c])
    <3>1. n \in 1 .. back[c]
      BY <1>3, <2>7, EchoAssumption DEF ClientRead, Min2
    <3> HIDE DEF n
    <3>2. back'[c] = back[c] - n /\ unread' = unread
      BY <1>0, <2>7 DEF ClientRead, TypeOK, n
    <3>3. Owed'[c] = Owed[c] /\ Ready'[c] = Ready[c] - n /\ n \in 1 .. Ready[c]
      BY <2>4, <2>7, <3>1, <3>2
    <3>4. Ready' = [Ready EXCEPT ![c] = @ - n]
      <4>1. \A d \in Clients : Ready'[d] = [Ready EXCEPT ![c] = @ - n][d]
        BY <2>3, <3>3 DEF Ready
      <4> QED BY <4>1 DEF Ready
    <3>5. Owed' = Owed
      <4>1. \A d \in Clients : Owed'[d] = Owed[d]
        BY <2>3, <3>3
      <4> QED BY <4>1 DEF Owed
    <3>6. Service!Take(c)
      BY <2>2, <2>7, <3>3, <3>4, <3>5 DEF Service!Take
    <3> QED BY <3>6 DEF Service!Next, ServiceStep
  <2> QED BY <1>9, <2>5, <2>6, <2>7
<1>10. CASE ClientEOF(c) \/ ClientLeaves(c)
  BY <1>5, <1>10 DEF ClientEOF, ClientLeaves
<1> QED BY <1>4, <1>7, <1>8, <1>9, <1>10 DEF Client

(* The server and its clients keep the promise of EchoService: whatever    *)
(* processes, merged signals, failing accepts and forks, kills and         *)
(* restarts do, what is given back on a connection was sent on it and not  *)
(* given back before, and a connection that has ended takes and gives      *)
(* nothing until the client connects again.                                *)
THEOREM ServesEchoSafely == Spec => Service!Safety
<1>1. Init => Service!Init
  <2> SUFFICES ASSUME Init PROVE Service!Init
    OBVIOUS
  <2>1. Up = {}
    BY DEF Init, Up
  <2>2. Owed = [c \in Clients |-> 0] /\ Ready = [c \in Clients |-> 0]
    BY <2>1 DEF Owed, Ready
  <2> QED BY <2>1, <2>2 DEF Service!Init
<1>2. EchoInv /\ EchoInv' /\ [Next]_vars => [Service!Next]_(Service!vars)
  <2> SUFFICES ASSUME EchoInv, EchoInv', [Next]_vars PROVE ServiceStep
    BY DEF Service!vars, ServiceStep
  <2>1. CASE UNCHANGED vars
    <3>1. UNCHANGED <<unread, back, Up>> /\ \A c \in Up : InChild(c)' = InChild(c)
      BY <2>1 DEF vars, serverVars, socketVars, childVars, clientVars, linkVars, Up,
         Unserved, InChild, Running
    <3> QED BY <3>1, QuietStep
  <2>2. CASE Next
    BY <2>2, ServerService, ChildService, ClientService DEF Next
  <2> QED BY <2>1, <2>2
<1> QED
  BY <1>1, <1>2, EchoInvAlways, PTL DEF Spec, Service!Safety
=============================================================================
