CONSTANTS
    a = a
    b = b
    Threads = {a, b}
    Idle = idle
    NoThread = NoThread
    Objects = {}
    Priorities = {1, 2}
    IdlePriority = 3
    Root = a
    InitialPriority <- MCInitialPriority
    MaxEvents = 0
    MaxWakeups = 1
    MaxPending = 2
    Misuse = {}
SPECIFICATION Spec
INVARIANTS
    ReadyIsQueued OneRunning AlwaysSomeoneToRun ExecutesRunnable
    SuspendedDispatchKeepsThread PendingIsServed
PROPERTIES HandlerKeepsIdle BestThreadRuns OnlyReadyThreadsRun
