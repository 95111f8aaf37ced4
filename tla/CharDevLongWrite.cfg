CONSTANTS
    BUFFER_SIZE = 4
    DefaultLen = 2
    Files <- MCFiles
    Threads <- TwoThreads
    Tags <- MCTags
    Sizes <- MCSizes
    Default = Default
    Zero = Zero
    Unset = Unset
    None = None
    f1 = f1
    f2 = f2
    t1 = t1
    t2 = t2
    a = a
    b = b
SPECIFICATION Spec
INVARIANTS LongWriteKeepsPrefix
