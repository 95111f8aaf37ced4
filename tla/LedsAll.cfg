CONSTANTS
    Threads <- TwoThreads
    None = None
    OtherOut <- SomePins
    OtherHigh <- OtherPins
    MaxIoctl = 3
    t1 = t1
    t2 = t2
SPECIFICATION Spec
SYMMETRY ThreadSymmetry
INVARIANTS TypeOK LedsAsTold AnswerWasTold
