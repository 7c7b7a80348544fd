CONSTANTS
    timer = timer
    post = post
    Timers = {timer}
    Posts = {post}
    NoEvent = NoEvent
    Delays <- MCDelays
    Skews <- MCSkews
    VblankCycles = 1
    FrameCycles = 3
    MaxSlice = 2
    Grace = 4
    IntLimit = 4
    MaxBlock = 2
    MaxEvents = 2
    MaxHeld = 2
    MaxNested = 1
SPECIFICATION SavedSpec
INVARIANTS FlagCoversPosted
CHECK_DEADLOCK FALSE
