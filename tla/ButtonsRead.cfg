CONSTANTS
    N = 2
    Skip <- NoSkip
    Files <- OneFile
    Readers <- TwoReaders
    Counts <- ShortAndLong
    None = None
    f1 = f1
    f2 = f2
    r1 = r1
    r2 = r2
SPECIFICATION Spec
SYMMETRY ReaderSymmetry
INVARIANTS TypeOK NoLostEvent NoLostWakeup ReadHasCause NoPhantomPress
