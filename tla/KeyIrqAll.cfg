CONSTANTS
    K = 2
    MsgLen = 2
    HelloLen = 1
    TxDepth = 2
    RxDepth = 2
    MaxChars = 2
    MaxPress = 3
    MaxTick = 2
SPECIFICATION LiveSpec
INVARIANTS TypeOK MessagesWhole EchoOrder OnlyWindowUndone EchoKept
PROPERTIES ClearedWereServed EchoHappens InterruptsTaken
