CONSTANTS
    N = 1
    Skip <- NoSkip
    Files <- OneFile
    Readers <- TwoReaders
    Counts <- WholeTable
    None = None
    f1 = f1
    f2 = f2
    r1 = r1
    r2 = r2
SPECIFICATION LiveSpec
PROPERTIES InterruptServesReader
