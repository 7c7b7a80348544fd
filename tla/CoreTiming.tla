------------------------------ MODULE CoreTiming ------------------------------
(***************************************************************************)
(* The event scheduler, Core/CoreTiming.cpp: the sorted list of events of  *)
(* the emulated CPU, the slice of cycles the CPU may execute before it     *)
(* looks at the list again, and the list into which other host threads     *)
(* (the GPU thread) post events.                                           *)
(*                                                                         *)
(* Two host threads take part.  The CPU thread executes the program, which *)
(* schedules events by its system calls, and runs Advance(); a callback of *)
(* an event may reschedule, which runs another Advance() inside the first. *)
(* The other thread posts events under a lock.  It reads the clock without *)
(* one, while the CPU thread changes its parts: the time it sees is off by *)
(* any of Skews.                                                           *)
(*                                                                         *)
(* Times are kept relative to globalTimer, so "globalTimer += executed" is *)
(* a subtraction from every time; the display events of sceDisplay.cpp,    *)
(* which schedule each other for ever, are part of the model.              *)
(***************************************************************************)
EXTENDS Integers, Sequences, SequencesExt, FiniteSetsExt

CONSTANTS
    Timers,         \* events that system calls schedule, on the CPU thread
    Posts,          \* events that another host thread posts
    NoEvent,
    Delays,         \* the cycles into the future that they are scheduled for
    Skews,          \* how far off another thread can read the time
    VblankCycles,   \* from the start of the vblank to its end
    FrameCycles,    \* from its end to the next start
    MaxSlice,       \* MAX_SLICE_LENGTH
    Grace,          \* the 10000 cycles Advance() adds when no event is left
    IntLimit,       \* an int holds -IntLimit .. IntLimit - 1
    MaxBlock,       \* bound: cycles executed between two looks at downcount
    MaxEvents,      \* bound: Timers and Posts that are scheduled at a time
    MaxHeld,        \* bound: how late an event gets while its poster has the lock
    MaxNested       \* bound: Advance() inside the callbacks of Advance()

ASSUME TimingAssumption ==
    /\ Delays \subseteq Nat \ {0} /\ Skews \subseteq Int
    /\ VblankCycles \in Nat \ {0} /\ FrameCycles \in Nat \ {0}
    /\ MaxSlice \in Nat \ {0} /\ Grace \in Nat /\ IntLimit \in Nat \ {0}
    /\ MaxBlock \in Nat \ {0} /\ MaxEvents \in Nat /\ MaxHeld \in Nat /\ MaxNested \in Nat

VARIABLES
    queue,          \* first: [id, due] records in the order they will run
    posted,         \* tsFirst ... tsLast
    hasTsEvents,
    posting,        \* another thread holds externalEventSection, to post
    slicelength, downcount,
    pc,             \* what the CPU thread is about to do
    called,         \* the event whose callback is about to be called
    callbacks       \* for each callback that has begun and not ended, innermost first:
                    \* whether it may flip, and how late it was called then

listVars == <<queue, posted>>
lockVars == <<hasTsEvents, posting>>
sliceVars == <<slicelength, downcount>>
callVars == <<pc, called, callbacks>>
vars == <<listVars, lockVars, sliceVars, callVars>>

EnterVblank == "EnterVBlank"
LeaveVblank == "LeaveVBlank"
AfterFlip == "AfterFlip"
Display == {EnterVblank, LeaveVblank, AfterFlip}
Ids == Timers \union Posts \union Display

\* The event types are different.
ASSUME EventsAssumption ==
    /\ (Timers \union Posts) \intersect Display = {}
    /\ NoEvent \notin [id : Ids, due : Int]

\* A frame, and the cycles a block of code takes, fit into an int.
ASSUME IntAssumption ==
    VblankCycles < IntLimit /\ FrameCycles < IntLimit /\ MaxBlock < IntLimit

\* A 64-bit value cut to an int.
ToInt(n) == ((n + IntLimit) % (2 * IntLimit)) - IntLimit

\* GetTicks(), relative to globalTimer: what was executed of the slice.
Ticks == slicelength - downcount

\* Mutant of Place: a new event overtakes those of the same time.
PlaceFirst(q, due) ==
    CHOOSE i \in 1 .. Len(q) + 1 :
        /\ \A j \in 1 .. i - 1 : q[j].due < due
        /\ i <= Len(q) => q[i].due >= due

\* The first place at which there is no event or a later one.
Place(q, due) ==
    CHOOSE i \in 1 .. Len(q) + 1 :
        /\ \A j \in 1 .. i - 1 : q[j].due <= due
        /\ i <= Len(q) => q[i].due > due

AddEventToQueue(q, e) == InsertAt(q, Place(q, e.due), e)

\* Mutant of Rebased: globalTimer stays where it is.
RebasedNever(q) == q

Rebased(q) == [i \in DOMAIN q |-> [q[i] EXCEPT !.due = @ - Ticks]]

\* What the functions that remove events leave, in the order it had.
Without(q, ids) ==
    LET kept == {i \in DOMAIN q : q[i].id \notin ids}
    IN  [k \in 1 .. Cardinality(kept) |->
            q[CHOOSE i \in kept : Cardinality({j \in kept : j <= i}) = k]]

MayAdd == Cardinality({i \in DOMAIN queue : queue[i].id \notin Display}) + Len(posted) < MaxEvents

\* __DisplayInit() schedules the first vblank.
Init ==
    /\ queue = <<[id |-> EnterVblank, due |-> FrameCycles]>>
    /\ posted = <<>>
    /\ hasTsEvents = FALSE /\ posting = FALSE
    /\ slicelength = MaxSlice /\ downcount = MaxSlice
    /\ pc = "begin" /\ called = NoEvent /\ callbacks = <<>>
-----------------------------------------------------------------------------
(* The program: every system call and every block of code costs c cycles.  *)

Runs ==
    /\ pc = "run" /\ downcount >= 0
    /\ posting => Last(posted).due - Ticks >= -MaxHeld

Execute(c) ==
    /\ Runs
    /\ downcount' = downcount - c
    /\ UNCHANGED <<listVars, lockVars, slicelength, callVars>>

\* The slice goes on: a nearer event does not shorten it.
ScheduleEvent(id, d, c) ==
    /\ Runs /\ MayAdd
    /\ queue' = AddEventToQueue(queue, [id |-> id, due |-> Ticks + d])
    /\ downcount' = downcount - c
    /\ UNCHANGED <<posted, lockVars, slicelength, callVars>>

UnscheduleEvent(id, c) ==
    /\ Runs
    /\ queue' = Without(queue, {id})
    /\ downcount' = downcount - c
    /\ UNCHANGED <<posted, lockVars, slicelength, callVars>>

\* RemoveThreadsafeEvent(), which takes the lock, and RemoveEvent().
RemoveAllEvents(type, c) ==
    /\ Runs /\ ~posting
    /\ queue' = Without(queue, type) /\ posted' = Without(posted, type)
    /\ downcount' = downcount - c
    /\ UNCHANGED <<lockVars, slicelength, callVars>>

\* The cycles executed so far are accounted for, and the slice ends here.
ForceCheck(c) ==
    /\ Runs
    /\ queue' = Rebased(queue) /\ posted' = Rebased(posted)
    /\ slicelength' = 0 /\ downcount' = -c
    /\ UNCHANGED <<lockVars, callVars>>

\* Any system call may reschedule.
ReSchedule(c) ==
    /\ Runs
    /\ downcount' = downcount - c
    /\ pc' = "begin"
    /\ UNCHANGED <<listVars, lockVars, slicelength, called, callbacks>>

\* How far Idle() goes: to the end of the slice, but not past the next event.
IdleCycles ==
    LET untilEvent == ToInt(queue[1].due) - Ticks
    IN  IF queue # <<>> /\ downcount > 0 /\ untilEvent < downcount
        THEN (IF untilEvent < 0 THEN 0 ELSE untilEvent) ELSE downcount

\* __KernelIdle(): Idle(), then a reschedule.
KernelIdle ==
    /\ Runs
    /\ downcount' = IF downcount = IdleCycles THEN -1 ELSE downcount - IdleCycles
    /\ pc' = "begin"
    /\ UNCHANGED <<listVars, lockVars, slicelength, called, callbacks>>
-----------------------------------------------------------------------------
(* Advance() and what it calls *)

\* The time is brought up to date and the flag is read.
Advance ==
    /\ pc = "begin" \/ (pc = "run" /\ downcount < 0)
    /\ queue' = Rebased(queue) /\ posted' = Rebased(posted)
    /\ downcount' = slicelength
    /\ pc' = IF hasTsEvents THEN "clear" ELSE "process"
    /\ UNCHANGED <<lockVars, slicelength, called, callbacks>>

\* MoveEvents() clears the flag before it waits for the lock.
ClearFlag ==
    /\ pc = "clear"
    /\ hasTsEvents' = FALSE
    /\ pc' = "move"
    /\ UNCHANGED <<listVars, posting, sliceVars, called, callbacks>>

MoveEvents ==
    /\ pc = "move" /\ ~posting
    /\ queue' = FoldLeft(AddEventToQueue, queue, posted)
    /\ posted' = <<>>
    /\ pc' = "process"
    /\ UNCHANGED <<lockVars, sliceVars, called, callbacks>>

\* Mutant of ProcessFifoWaitEvents: the flag is cleared after the move, when the
\* lock is free again.
ProcessAfterLateClear ==
    /\ pc = "process"
    /\ IF queue # <<>> /\ queue[1].due <= Ticks
       THEN /\ queue' = Tail(queue) /\ called' = queue[1] /\ pc' = "callback"
       ELSE /\ pc' = "slice" /\ UNCHANGED <<queue, called>>
    /\ hasTsEvents' = FALSE
    /\ UNCHANGED <<posted, posting, sliceVars, callbacks>>

\* ProcessFifoWaitEvents() takes the first event, if it is due.
ProcessFifoWaitEvents ==
    /\ pc = "process"
    /\ IF queue # <<>> /\ queue[1].due <= Ticks
       THEN /\ queue' = Tail(queue) /\ called' = queue[1] /\ pc' = "callback"
       ELSE /\ pc' = "slice" /\ UNCHANGED <<queue, called>>
    /\ UNCHANGED <<posted, lockVars, sliceVars, callbacks>>

\* The cyclesLate that the callback is called with.
Late == ToInt(Ticks - called.due)

\* ScheduleEvent(cycles - cyclesLate, ...) in a callback
Period(id, cycles, late) == [id |-> id, due |-> Ticks + cycles - late]

\* Mutant of NextDisplay: the end of the vblank starts no new frame.
NextDisplayOnce ==
    IF called.id = EnterVblank THEN <<Period(LeaveVblank, VblankCycles, Late)>> ELSE <<>>

\* How hleEnterVblank() and hleLeaveVblank() carry the display on.
NextDisplay ==
    CASE called.id = EnterVblank -> <<Period(LeaveVblank, VblankCycles, Late)>>
      [] called.id = LeaveVblank -> <<Period(EnterVblank, FrameCycles, Late)>>
      [] OTHER -> <<>>

\* What a callback keeps for its rest: hleEnterVblank() uses its cyclesLate twice.
Begun ==
    IF called.id = EnterVblank THEN [flips |-> TRUE, late |-> Late]
    ELSE [flips |-> FALSE, late |-> 0]

\* A callback up to the point at which it may reschedule.  It carries the display on,
\* or may come again after a time that is counted from when it was due.
Callback ==
    /\ pc = "callback"
    /\ \/ queue' = FoldLeft(AddEventToQueue, queue, NextDisplay)
       \/ called.id \in Timers /\ MayAdd
          /\ \E d \in Delays : queue' = AddEventToQueue(queue, Period(called.id, d, Late))
    /\ callbacks' = Cons(Begun, callbacks)
    /\ called' = NoEvent
    /\ pc' = "return" \/ (Len(callbacks) < MaxNested /\ pc' = "begin")
    /\ UNCHANGED <<posted, lockVars, sliceVars>>

\* What the rest of a callback may schedule.  hleEnterVblank() flips only now: if it
\* has rescheduled the inner Advance() is over, and has chosen a slice already.
AfterCallback ==
    IF callbacks[1].flips THEN {Period(AfterFlip, 0, callbacks[1].late)}
    ELSE IF MayAdd THEN {Period(id, d, 0) : id \in Timers, d \in Delays}
    ELSE {}

\* Mutant of CallbackReturns: Advance() runs one event only.
CallbackReturnsToSlice ==
    /\ pc = "return"
    /\ \/ UNCHANGED queue
       \/ \E e \in AfterCallback : queue' = AddEventToQueue(queue, e)
    /\ callbacks' = Tail(callbacks)
    /\ pc' = "slice"
    /\ UNCHANGED <<posted, lockVars, sliceVars, called>>

\* The rest of a callback, after which the first event is looked at again.
CallbackReturns ==
    /\ pc = "return"
    /\ \/ UNCHANGED queue
       \/ \E e \in AfterCallback : queue' = AddEventToQueue(queue, e)
    /\ callbacks' = Tail(callbacks)
    /\ pc' = "process"
    /\ UNCHANGED <<posted, lockVars, sliceVars, called>>

\* Mutant of Target: no limit.
TargetUncapped == ToInt(queue[1].due)

Target == LET t == ToInt(queue[1].due) IN IF t > MaxSlice THEN MaxSlice ELSE t

\* The end of Advance(): the next slice, which ends at the next event.
SetSlice ==
    /\ pc = "slice"
    /\ IF queue # <<>>
       THEN /\ slicelength' = Target
            /\ downcount' = downcount + Target - slicelength
       ELSE IF slicelength < Grace
       THEN /\ slicelength' = slicelength + Grace
            /\ downcount' = downcount + slicelength'
       ELSE UNCHANGED sliceVars
    /\ pc' = IF callbacks # <<>> THEN "return" ELSE "run"
    /\ UNCHANGED <<listVars, lockVars, called, callbacks>>
-----------------------------------------------------------------------------
(* Another host thread: ScheduleEvent_Threadsafe() takes the lock, appends *)
(* the event, sets the flag and lets go of the lock.                       *)

ScheduleEvent_Threadsafe(id, d, skew) ==
    /\ ~posting /\ MayAdd
    /\ posting' = TRUE
    /\ posted' = Append(posted, [id |-> id, due |-> Ticks + d + skew])
    /\ UNCHANGED <<queue, hasTsEvents, sliceVars, callVars>>

SetFlag ==
    /\ posting
    /\ hasTsEvents' = TRUE /\ posting' = FALSE
    /\ UNCHANGED <<listVars, sliceVars, callVars>>

UnscheduleThreadsafeEvent(id) ==
    /\ ~posting
    /\ posted' = Without(posted, {id})
    /\ UNCHANGED <<queue, lockVars, sliceVars, callVars>>

Program ==
    \/ KernelIdle
    \/ \E c \in 1 .. MaxBlock :
        \/ Execute(c) \/ ForceCheck(c) \/ ReSchedule(c)
        \/ \E id \in Timers : UnscheduleEvent(id, c) \/ \E d \in Delays : ScheduleEvent(id, d, c)
        \/ \E type \in {Timers, Posts} : RemoveAllEvents(type, c)

Advancing ==
    \/ Advance \/ ClearFlag \/ MoveEvents \/ ProcessFifoWaitEvents
    \/ Callback \/ CallbackReturns \/ SetSlice

OtherThread ==
    \/ SetFlag
    \/ \E id \in Posts : UnscheduleThreadsafeEvent(id)
                         \/ \E d \in Delays, skew \in Skews : ScheduleEvent_Threadsafe(id, d, skew)

Next == Program \/ Advancing \/ OtherThread

\* The CPU thread never stops and whoever has the lock lets go of it.  A thread
\* that wants the lock gets it if it is free again and again: the GPU thread posts
\* only for the display lists the CPU thread has given it, so it cannot take the
\* lock for ever while the CPU thread waits.  Whether anything is scheduled or
\* posted at all is left open.
Fairness ==
    /\ WF_vars(Program \/ Advancing)
    /\ WF_vars(SetFlag)
    /\ SF_vars(MoveEvents)

Spec == Init /\ [][Next]_vars /\ Fairness
-----------------------------------------------------------------------------
(* Properties *)

\* The list is sorted by time, the counters stay within a slice, a callback is
\* only pending in its step, the program runs in no callback, and the flag and the
\* lock are truth values.
TypeOK ==
    /\ \A l \in {queue, posted} : \A i \in DOMAIN l : l[i].id \in Ids /\ l[i].due \in Int
    /\ \A i, j \in DOMAIN queue : i < j => queue[i].due <= queue[j].due
    /\ hasTsEvents \in BOOLEAN /\ posting \in BOOLEAN
    /\ slicelength \in 0 .. MaxSlice /\ downcount \in -MaxBlock .. MaxSlice
    /\ pc \in {"run", "begin", "clear", "move", "process", "callback", "return", "slice"}
    /\ (called # NoEvent) <=> (pc = "callback")
    /\ Len(callbacks) \in 0 .. MaxNested + 1
    /\ \A i \in DOMAIN callbacks : callbacks[i].flips \in BOOLEAN /\ callbacks[i].late \in Int
    /\ pc = "run" => callbacks = <<>>

\* Whenever Advance() may skip MoveEvents() (CoreTiming.cpp:77 "Optimization to
\* skip MoveEvents when possible"), nothing is waiting to be moved.
FlagCoversPosted == posted # <<>> => hasTsEvents \/ posting \/ pc = "move"

\* A display event is called at its time, at most one block of code late,
\* whatever the program and the other thread schedule, remove or wait for, and
\* wherever Advance() runs inside a callback: a flip is scheduled when it is due
\* already, behind an inner Advance() that has chosen the slice without it.
DisplayOnTime == pc = "callback" /\ called.id \in Display => Ticks - called.due <= MaxBlock

\* Advance() never finds the list empty ("This should never happen in PPSSPP"):
\* there is always exactly one event that carries the display on.
DisplayGoesOn ==
    Cardinality({i \in DOMAIN queue : queue[i].id \in {EnterVblank, LeaveVblank}})
      + (IF pc = "callback" /\ called.id \in {EnterVblank, LeaveVblank} THEN 1 ELSE 0) = 1

\* Every event that is scheduled or posted is called or removed in the end.
EveryEventEnds ==
    \A id \in Timers \union Posts :
        (\E i \in DOMAIN (queue \o posted) : (queue \o posted)[i].id = id)
          ~> ((pc = "callback" /\ called.id = id)
              \/ \A i \in DOMAIN (queue \o posted) : (queue \o posted)[i].id # id)

\* Advance() always comes to an end and gives the program cycles to execute.
ProgramRunsAgain == []<>Runs
-----------------------------------------------------------------------------
(* The refinement *)

\* A list with its times relative to now.
FromNow(list) == [i \in DOMAIN list |-> [list[i] EXCEPT !.due = @ - Ticks]]

\* The agenda that the list, the posted events and the clock stand for.
Abstract == INSTANCE Agenda WITH
    Events <- Ids,
    Initially <- <<[id |-> EnterVblank, due |-> FrameCycles]>>,
    MaxElapse <- MaxSlice + MaxBlock,
    agenda <- FromNow(queue),
    posted <- FromNow(posted)

\* The lists, the lock, the moves and the clock of CoreTiming.cpp implement the
\* agenda: no event is lost, run twice, early or out of order, and time only goes
\* forward, in whatever pieces the slices account for it.
ImplementsAgenda == Abstract!Spec
=============================================================================
