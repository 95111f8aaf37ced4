CONSTANTS
    K = 2
    MsgLen = 2
    HelloLen = 3
    TxDepth = 5
    RxDepth = 1
    MaxChars = 1
    MaxPress = 2
    MaxTick = 0
SPECIFICATION Spec
INVARIANTS PutCharKeeps
