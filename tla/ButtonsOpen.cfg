CONSTANTS
    N = 3
    Skip <- SkipMiddle
    Files <- TwoFiles
    Readers <- OneReader
    Counts <- WholeTable
    None = None
    f1 = f1
    f2 = f2
    r1 = r1
    r2 = r2
SPECIFICATION Spec
SYMMETRY FileSymmetry
INVARIANTS IrqsExact
PROPERTIES UndisturbedWhileOpen ImplementsDevice
