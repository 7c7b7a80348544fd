CONSTANTS
    a = a
    b = b
    sem = sem
    Threads = {a, b}
    Idle = idle
    NoThread = NoThread
    Objects = {sem}
    Priorities = {1}
    IdlePriority = 2
    Root = a
    InitialPriority <- MCInitialPriority
    MaxEvents = 0
    MaxWakeups = 0
    MaxPending = 0
    Misuse = {}
    Creations <- MCCreations
    Wanted = {1, 2}
    Signals = {2}
    MaxSemaEvents = 1
SPECIFICATION SemaSpec
PROPERTY ErrorTakesNothing
