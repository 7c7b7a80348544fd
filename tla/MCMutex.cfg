CONSTANTS
    a = a
    b = b
    c = c
    mutex1 = mutex1
    Threads = {a, b, c}
    Idle = idle
    NoThread = NoThread
    Objects = {mutex1}
    Priorities = {1, 2}
    IdlePriority = 3
    Root = a
    InitialPriority <- MCInitialPriority
    MaxEvents = 0
    MaxWakeups = 0
    MaxPending = 0
    Misuse = {}
    Creations <- MCCreations
    Counts = {1}
    MaxLevel = 2
    MaxLockEvents = 1
SYMMETRY MCSymmetry
SPECIFICATION MCSpec
INVARIANTS MutexTypeOK LocksAgree LockWaiterListed TimedLockEnds
PROPERTIES FirstIsNext ImplementsMutex
