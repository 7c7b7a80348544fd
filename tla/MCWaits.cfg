CONSTANTS
    a = a
    b = b
    Threads = {a, b}
    Idle = idle
    NoThread = NoThread
    Objects = {}
    Priorities = {1}
    IdlePriority = 2
    Root = a
    InitialPriority <- MCEqualPriority
    MaxEvents = 2
    MaxWakeups = 1
    MaxPending = 0
    Misuse = {}
SYMMETRY MCSymmetry
SPECIFICATION Spec
INVARIANTS TypeOK EndWaitersRegistered DelayedHasTimer NoSleepWithWakeup
PROPERTIES SuspendedOnlyResumed
