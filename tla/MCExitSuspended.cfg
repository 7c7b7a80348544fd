CONSTANTS
    a = a
    b = b
    Threads = {a, b}
    Idle = idle
    NoThread = NoThread
    Objects = {}
    Priorities = {1, 2}
    IdlePriority = 3
    Root = a
    InitialPriority <- MCInitialPriority
    MaxEvents = 0
    MaxWakeups = 0
    MaxPending = 0
    Misuse = {"exit"}
SPECIFICATION Spec
INVARIANTS CurrentThreadExists
