SPECIFICATION LiveSpec
CONSTANTS
    Consumers = {w1, w2, w3}
    w1 = w1
    w2 = w2
    w3 = w3
    N = 4
    Wrap = 8
    MaxPush = 9
    NoItem = NoItem
INVARIANTS AbleEntriesValid PushableKept
PROPERTIES Refines QueueMoves
CHECK_DEADLOCK FALSE
