SPECIFICATION LiveSpec
CONSTANTS
    m = m
    s1 = s1
    s2 = s2
    Slaves = {s1, s2}
    Master = m
    QueueSize = 1
    MaxSplit = 2
    MaxBatches = 2
    MaxFrames = 2
INVARIANTS RanOnce MemoryHeld CallsSound
PROPERTIES CallsEnd
CHECK_DEADLOCK FALSE
