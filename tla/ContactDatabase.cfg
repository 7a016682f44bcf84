SPECIFICATION Spec
CONSTANTS
    Bodies = {0, 1, 2, 3}
    Keys <- MCKeys
    Size = 2
INVARIANTS
    NetSound
    UsageExact
PROPERTIES
    ImplementsSet
