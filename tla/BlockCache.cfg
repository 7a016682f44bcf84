SPECIFICATION CacheSpec
CONSTANTS
    Threads = {t1, t2}
    t1 = t1
    t2 = t2
    BlockCount = 4
    MaxGen = 2
    WriteBack = TRUE
    LocalMax = 4
    LocalLow = 2
    WideStore = TRUE
SYMMETRY MCSymmetry
INVARIANTS BlocksKept GenZeroMeansEmpty
PROPERTIES OutOfMemoryMeansTaken
CHECK_DEADLOCK FALSE
