\* Three priorities, two ids, arrays of two cells that grow to eight.
CONSTANTS
    NumQueues = 3
    Threads = {t1, t2}
    NoThread = NoThread
    MaxLength <- MCMaxLength
    InitialCapacity = 2
SYMMETRY ThreadSymmetry
SPECIFICATION Spec
INVARIANTS TypeOK RoomAtBothEnds ChainSorted
PROPERTY ImplementsReadyQueue
