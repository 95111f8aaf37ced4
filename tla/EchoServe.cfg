CONSTANTS
    Clients <- TwoClients
    Children <- TwoChildren
    Server = Server
    None = None
    Lines <- OneIdle
    ReadSize = 1
    MAXLINE = 3
    SockBuf = 2
    MaxFaults = 1
    c1 = c1
    c2 = c2
    p1 = p1
    p2 = p2
SPECIFICATION LiveSpec
INVARIANTS TypeOK ZombieNoticed HeldByItsChild
PROPERTIES ServedToTheEnd AnswerOrEnd ServesEcho
