SPECIFICATION LiveSpec
CONSTANTS
    Threads = {t1, t2, t3}
    t1 = t1
    t2 = t2
    t3 = t3
    NoThread = NoThread
    Main = t1
    N = 2
    Wrap = 4
    Empty <- EmptyMessages
    MaxCalls = 1
    MaxFailures = 1
INVARIANTS SlotsExclusive AssertionsHold NothingLost
PROPERTIES Refines CallsReturn
CHECK_DEADLOCK FALSE
