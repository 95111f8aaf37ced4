CONSTANTS
    NAND_PAGE_SIZE = 2
    Pages = 8
    RowBase = 2
    Bits = {0, 1}
    Buffer = 4
    Contents <- UsedEnds
    Calls <- SomeCalls
    Fills <- TwoFills
    MaxCalls = 3
    MaxFails = 1
SPECIFICATION LiveSpec
INVARIANTS TypeOK PagesHold ReadIsRight FailuresReported ReadyWhenAddressed
PROPERTIES CallReturns
