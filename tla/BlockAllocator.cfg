SPECIFICATION LiveSpec
CONSTANTS
    Threads = {t1, t2, t3}
    t1 = t1
    t2 = t2
    t3 = t3
    BlockCount = 2
    MaxGen = 2
    WriteBack = TRUE
INVARIANTS NoDoubleAllocation NoLostBlock OutOfMemoryMeansAllHeld
PROPERTIES Refines CallsReturn
CHECK_DEADLOCK FALSE
