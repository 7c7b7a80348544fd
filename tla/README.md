# A formal model of the PPSSPP kernel emulation

PPSSPP runs PSP programs on a high-level emulation ("HLE") of the PSP's operating
system. This directory holds TLA+ models of the core of that kernel, the TLC runs
that model-check them on small instances, and TLAPS proofs for every instance.
File names below are relative to `Core/HLE/` unless they say otherwise.

## The system

| component | state it keeps | operations | hard behaviours | what makes it correct |
|---|---|---|---|---|
| **Ready queue** (`struct ThreadQueueList`, sceKernelThread.cpp) | per priority a `realloc`ed array with ids in the middle; a chain of the queues ever used | prepare, push_front/back, pop_first, pop_first_better, remove, rotate, clear, DoState | ids drift to an end of the array; priorities first used in any order | it is one FIFO per priority; writes stay in the array |
| **Scheduler and thread manager** (sceKernelThread.cpp) | `currentThread`, status bits, priorities, waits, wake-up counts, lists of end waiters, `dispatchEnabled` | create, start, exit, terminate, delete, sleep, wake, delay, wait for an end, suspend, resume, release, change priority, rotate; reschedule, switch | two places put the running thread back; events run inside a reschedule; calls while no switch is possible | nobody ready is lost or run twice; the best thread runs; waits can end |
| **Interrupt manager** (sceKernelInterrupt.cpp) | `interruptsEnabled`, `inInterrupt`, `pendingInterrupts`, `threadBeforeInterrupt`, sub-interrupts | enable, disable, trigger, run one, return, register and release handlers | triggers while disabled or in a handler; handlers that act on the interrupted thread | none is left behind; a handler keeps the idle thread's context; the CPU comes back to a thread that can run |
| **System call dispatch** (HLE.cpp) | `hleAfterSyscall` | refuse by flags, call, then reschedule, run interrupts or callbacks | calls run atomically, what they ask for runs after them | the flags exclude states in which a wait could not be performed |
| **Wait helpers** (KernelWaitHelpers.h) | paused waits of each object | verify, resume, time out, pause, end a callback's pause | a timer, a release and an object race for one wait | one end per wait |
| **Semaphores** (sceKernelSemaphore.cpp) | count, maximum, waiting threads | create, delete, wait, poll, signal, cancel, refer, time-out | stale waiters in the list; two wake-up orders | no wake-up lost; count is conserved |
| **Mutexes** (sceKernelMutex.cpp) | lock level, owner, waiting threads; `mutexHeldLocks` of every thread | create, delete, lock, try, unlock, cancel, refer, time-out, end of a thread | stale waiters; the owner ends; the map changes while it is walked | one owner, noted everywhere alike; the first who waits is the next |
| **Event flags, message pipes, mailboxes** (sceKernelEventFlag.cpp, sceKernelMsgPipe.cpp, sceKernelMbx.cpp) | value or buffer, waiting threads | as above | as above | as above |
| **Event scheduling** (Core/CoreTiming.cpp) | ordered event list, list of events of other host threads with a flag and a lock, slice length, `downcount` | schedule, unschedule, remove, advance, idle, force a check, DoState | events that schedule events or advance again; the list shared with a host thread; cycle counts cut to 32 bits | each event runs once, not early, in order, and in the end |
| **Callbacks and MIPS calls** (sceKernelThread.cpp) | notify counts, `readyCallbacksCount`, call stack of each thread | notify, check, run, return, delete | a callback interrupts a wait that changes meanwhile | each notified callback runs; the wait is resumed, finished or timed out |
| **Alarms, virtual timers** (sceKernelAlarm.cpp, sceKernelVTimer.cpp) | a scheduled event and a handler each | set, cancel, fire, reschedule by result | cancel or delete from the handler | fires once per request |
| **Object pool** (sceKernel.cpp) | 4096 slots | create, get, destroy | ids are reused only after the pool wraps | an id names one object |
| **Memory pools, block allocator** (sceKernelMemory.cpp, Core/Util/BlockAllocator.cpp) | block list; waiting threads | allocate, free, wait | neighbours merge and split | blocks tile the memory |
| **GE display lists** (GPU/GPUCommon.cpp, sceGe.cpp) | list queue, states | enqueue, signal, pause, finish | interrupts between list and program | lists run in order, once |

The components meet in one place: a system call runs atomically on the host thread
that emulates the CPU, and may mark threads ready, wait, schedule events or ask for a
reschedule. Only after the call does HLE.cpp run `__KernelReSchedule()`, which first
executes the timer events that are due (`CoreTiming::Advance()`). Those events may
resume threads, ask for another reschedule, or start an interrupt handler on the idle
thread. `PROJECT.json` lists every component, also those that are not modelled, and,
as hazards, the places at which this is hard to test.

## The modules

| module | models |
|---|---|
| `ReadyQueue.tla` | what the scheduler is promised: a sequence per priority |
| `ThreadQueueList.tla` | the arrays and the chain that implement it |
| `Scheduler.tla` | statuses, waits, the ready queue and the switch between threads, as operators on a record `sched` |
| `KernelThread.tla` | the system calls of the thread manager, their timer events, dispatching, interrupts and the reschedule, as actions |
| `Semaphore.tla` | what semaphores promise: requests, and units handed out once |
| `WaitLists.tla` | the lists of waiting threads that kernel objects keep |
| `KernelSema.tla` | the system calls and time-outs of semaphores, composed with `KernelThread` |
| `Mutex.tla` | what mutexes promise: one owner, and nobody overtaken |
| `KernelMutex.tla` | the system calls and time-outs of mutexes and the end of their owners, composed with `KernelThread` |
| `Agenda.tla` | what the event scheduler promises: a list of events with times |
| `CoreTiming.tla` | the event list, the slices, and the list of another host thread, step by step |
| `SavedTiming.tla` | `CoreTiming` with save states |
| `MC*.tla`, `*.cfg` | the instances TLC checks |
| `SequenceLemmas.tla` | facts on the sequence operators used |
| `SchedulerProofs.tla` | facts on the operators of `Scheduler` |
| `ThreadQueueListProofs.tla` | the inductive invariant of the ready queue, and that it implements `ReadyQueue` |
| `KernelThreadProofs.tla` | the inductive invariant of the thread manager and its theorems |
| `KernelWaitProofs.tla` | that the calls on kernel objects keep that invariant, and what waits for objects they leave |
| `CoreTimingProofs.tla` | the inductive invariant of the event scheduler and its theorems, and that it implements `Agenda` |
| `KernelSemaProofs.tla` | the inductive invariant of the semaphores and their theorems, and that they implement `Semaphore` |
| `KernelMutexProofs.tla` | the inductive invariant of the mutexes and their theorems, and that they implement `Mutex` |

### ThreadQueueList and ReadyQueue

`queues[p]` is the struct `Queue` of priority `p`, with `first` and `end` as indices.
`data` is a function on the live cells `first .. end-1` only, so that an operation
that reads another cell is an error for TLC, and growing or recentring is what
`rebalance()` does. `next` is a priority instead of a pointer; `Invalid` and `Null` are
`invalid()` and the null pointer. A pop is a loop in the code and a sequence of steps
in the model (`StartPop`, `WalkOn`, then `FinishPop` or `FailPop`), so that the
refinement has something to hide. `LoadState` is `DoState()` in read mode. `realloc()`
is taken to succeed.

### Scheduler

`status[t]` is the set of status bits; the empty set means that no such thread exists.
`queue` is the abstract ready queue, whose implementation the run `ready_queue`
checks. `MakeReady` and `Unqueue` are the two directions of
`__KernelChangeReadyState()`. `NextThread` joins `__KernelNextThread()` with the
switch that always follows it, and `ResumeAll` is the loop over waiting threads that
every kernel object has. Of the two idle threads the model has one. The second could
run only if the first were neither running nor ready, and the theorem
`IdleThreadRemains` says that it always is.

### KernelThread

One action is one system call with everything it does before the CPU runs other
code, one timer event, or one interrupt. `phase = "resched"` is the moment between a
call that asked for a reschedule and the end of that reschedule: events may happen,
the program may not run. Every call that only reports an error is left out, since it
changes nothing. Guards are the refusals of the code: for example `MayWait` is
`HLE_NOT_DISPATCH_SUSPENDED | HLE_NOT_IN_INTERRUPT`.

`timers[kind][t]` counts the scheduled events of one kind for a thread. Time is
abstract, so an event may fire at any moment: whatever is proved holds for all
timings. Events that a released wait left behind stay in the count, as they stay in
CoreTiming's list. `before` is `threadBeforeInterrupt`, and `suspender` is a history
variable: the thread that last cleared `dispatchEnabled`.

A handler's own system calls are the same actions, under `HandlerRuns`. Three kinds
of trigger exist: `TriggerInterrupt` (a handler runs or is queued), `TriggerIgnored`
(the handler declines) and `TriggerResched` (`PSP_INTR_ALWAYS_RESCHED`). Several
sub-interrupts queued at once are successive `TriggerInterrupt`s.
`sceKernelCpuResumeIntr(0)` is `CpuSuspendIntr`. The mode `PSP_INTR_HLE` has no user.

A new thread gets any free id at once, where the object pool reuses an id only after
it wrapped around: the model is the harsher one for stale ids.

Three calls that the kernel accepts without a check break its own rules. The
constant `Misuse` names them, and the passing runs and the theorems exclude them:

- `"rotate"`: a thread that is READY already, because it gave up the CPU while no
  switch was possible, calls `sceKernelRotateThreadReadyQueue()`;
- `"handler"`: an interrupt handler calls `sceKernelChangeThreadPriority(0, p)`;
- `"exit"`: a thread ends while dispatching is suspended.

The calls to end a thread from a handler are left out in the same way.

### KernelSema and Semaphore

`KernelSema` extends `KernelThread`: its steps are those of the thread manager
(`ThreadStep`) and those of sceKernelSemaphore.cpp, so a waiter can be suspended,
released, terminated, deleted and created again between any two calls. `semas[s]`
is the object with its list `waiting`; `asks[t]` joins the count a thread waits for
(`waitValue`), whether it gave a time-out, and what it was told last (the return
value that `__KernelResumeThreadFromWait()` sets). An ask is forgotten when the
thread's wait type is, since only `waitInfo` of a semaphore wait is read; it is the
one piece of `waitInfo` that is normalised. `semaTimers[t]` counts the scheduled
time-out events. Two facts of the code shape the module:

- *The list is cleaned lazily.* A thread that was released or timed out stays in
  `waiting`, and passes `VerifyWait()` until it gets the CPU. A signal walks the list
  entry by entry; in `SignalSema` the function `left` says what is left of the count
  after each entry (`LeftAfter`), and `Granted`, who got its units. The code starts
  over after each grant, which changes nothing: who was passed over asks for more
  than was left then, and even less is left later.
- *A time-out is not atomic.* `WaitExecTimeout()` resumes the thread and calls
  `__KernelReSchedule()`, which executes further events and may start a handler or
  time out another thread, before the rest of `__KernelSemaTimeout()` looks at the
  list. `timedOut` is the stack of the calls that are in this middle: `SemaTimeout`
  pushes, `SemaTimeoutEnds` switches threads, walks the list and pops. No system call
  runs meanwhile, so `phase` stays `"resched"`.

`Sorted` and `CleanedUp` are sets with one member, which states what
`std::stable_sort()` and the swapping loop of `CleanupWaitingThreads()` leave behind
rather than how. Counts are natural numbers: a signal of zero or less, and a count
beyond 32 bits, are left out. An id is used again at once. Waits that process
callbacks come with the callbacks.

`Semaphore` is the promise: a thread is told success exactly when its request is
served, with exactly its units; a cancelled or deleted request is over with an error;
a poll overtakes no request; units come from a signal only, and after a signal no
request that could be served is left over. A request is mapped to an entry of
`waiting` whose thread still counts as waiting for the semaphore.

### KernelMutex and Mutex

`KernelMutex` is composed with `KernelThread` like `KernelSema`, and keeps the same
pieces: `mutexes[m]`, `lockAsks[t]` and `lockTimers[t]` correspond to `semas`, `asks`
and `semaTimers`. `heldLocks[t][m]` says how often `mutexHeldLocks` has the pair: it
is a multimap, and that each pair is in it at most once is a property and not a type.

`__KernelMutexThreadEnd()` gives up several locks in one step, and each may wake a
thread. It is a listener of `__KernelStopThread()`, so the end of a thread is one
action, `EndThread`, here, and `ThreadStep` is every other step of `KernelThread`. No
loop is spelled out: `NextOwners` says who gets a mutex, the first in the order of
`ComesBefore` that still counts as waiting; `StillListed`, who was not taken from the
list, as everybody before the new owner was; and `UnlockMutex`, what
`__KernelUnlockMutex()` for each of the mutexes given up makes of the mutexes, of
`mutexHeldLocks` and of what the new owners are told (`Answer`, for
`__KernelUnlockMutexForThread()`). That the mutexes can be given up at once is so
because each thread waits for one of them; the threads are made ready in the order in
which `mutexHeldLocks` has the mutexes, which is any order. Threads without a
priority, being deleted, come first, as `__KernelGetThreadPrio()` returns 0 for them.

`MaxLevel` stands for the largest int: a lock beyond it is refused. A count of zero
or less is refused and left out, except for `sceKernelCancelMutex()`, where it frees
the mutex. After a time-out event has fired the thread goes on with an error even if
it was given the mutex a moment before, through an event that an earlier, released
wait left behind: the thread owns the mutex and was told that it does not. This is the
semaphore's finding `sema_stale_timeout` in the same helper, `WaitExecTimeout()`, and
the promise of `Mutex` allows it.

`Mutex` is the promise: a free mutex is taken only if nobody asks for it; the mutex
of an owner that unlocks it or ends goes to one of those who ask, with the levels
asked for, and is free only if there is none; who is told success is the owner; a
cancelled or deleted request is over with an error. All mutexes of a thread are given
up in one step.

### CoreTiming, Agenda and SavedTiming

`queue` is the linked list `first`, `posted` is `tsFirst ... tsLast`. Times are
relative to `globalTimer`, so that advancing it is `Rebased`. Calls of the program are
atomic, as the CPU thread executes them between two looks at `downcount`, and each
costs cycles. `Advance()` is a sequence of steps (`Advance`, `ClearFlag`,
`MoveEvents`, `ProcessFifoWaitEvents`, `Callback`, `CallbackReturns`, `SetSlice`), because another host
thread posts events in between: `ScheduleEvent_Threadsafe` takes the lock and
appends, `SetFlag` sets `hasTsEvents` and lets go of the lock. The flag is read and
cleared without it. That thread also reads the clock without a lock; what it may see
is any time off by `Skews`.

A callback may reschedule, which runs another `Advance()` inside the first, so it has two
steps. `Callback` is what it does before: `hleEnterVblank()` schedules the end of the vblank,
`hleLeaveVblank()` the next frame, a periodic timer (pads, sound, file access) itself,
all of them `cyclesLate` cycles sooner. `CallbackReturns` is the rest: `hleEnterVblank()` may
schedule the flip for the time at which it was called itself (`0 - cyclesLate`,
sceDisplay.cpp:658), and any other callback a timer that is counted from now, as
`__GeCheckCycles()` does after its `Advance()`. A flip may so be due before it is scheduled, at a
point where an inner `Advance()` has chosen a slice without it. `callbacks` is the call stack
between the two steps: for each callback that has begun, whether it may flip, and its `cyclesLate`.

The display events are part of the model: the vblank is what keeps the list from
being empty. `ToInt` is the cut to an `int`, which holds the numbers from
`-IntLimit` to `IntLimit - 1`. `Place` is the loop of `AddEventToQueue()`: the first place at
which the list ends or a later event follows.

`Agenda` hides the lists, the lock, the slices and the pieces in which time is
counted: events join, are withdrawn, and run in order, not before their time. `ByTime`
says what a move of posted events leaves: all of them, by time, those of one instant in
the order in which they came. `CoreTiming` ends with the mapping: the agenda is `queue`
with its times relative to now (`FromNow`) instead of relative to `globalTimer`.
`SavedTiming` adds `DoState()`: both lists and the counters are restored and
`hasTsEvents` is not, which is a finding.

## What the runs check

| run | instance | checks | states |
|---|---|---|---|
| `ready_queue` | 3 priorities, 2 ids, arrays of 2 cells, up to 3 entries in one queue | `TypeOK`, `RoomAtBothEnds`, `ChainSorted`, refinement `ImplementsReadyQueue` | 225,802 |
| `interrupts` | 2 threads, 2 priorities, 2 pending interrupts, no timers | ready queue, running thread, who gets the CPU, pending interrupts, handlers | about 324,000 |
| `waits` | 2 threads of one priority, 2 events of each kind per thread, 1 counted wake-up, no handlers; up to symmetry | waits and what ends them, suspension | 895,289 |
| `semaphores` | 2 threads of one priority, 1 semaphore of either order, waits for 1 or 2 units, signals of 2, one time-out event per thread, no other timers, no handlers; up to symmetry | waiters are listed, time-outs end waits, nobody is granted twice or left behind, refinement `ImplementsSemaphore` | 578,696 |
| `mutexes` | 3 threads, one more urgent than the others, 1 mutex that is recursive and by priority or plain and FIFO, up to 2 levels, one time-out event per thread | locks agree, waiters are listed, time-outs end waits, the first is next, refinement `ImplementsMutex` | 196,913 |
| `core_timing` | one timer, one event of another thread, at most two such events, delays shorter and longer than a slice, a frame of 4 cycles, slices of 2, ints from -4 to 3, one nested `Advance()` | the flag covers the posted events, display on time and for ever, refinement `ImplementsAgenda`, liveness | 390,349 |
| `rotate_ready` | as `interrupts`, `Misuse = {"rotate"}` | refutes `ListsOnlyReady` | finding |
| `handler_priority` | as `interrupts`, `Misuse = {"handler"}` | refutes `AlwaysSomeoneToRun` | finding |
| `exit_suspended` | as `interrupts`, `Misuse = {"exit"}` | refutes `CurrentThreadExists` | finding |
| `sema_timeout` | as `semaphores` | refutes `FirstMustWait` | finding |
| `sema_stale_timeout` | as `semaphores` | refutes `ErrorTakesNothing` | finding |
| `timing_reload` | as `core_timing`, and a save state | refutes `FlagCoversPosted` | finding |

Why the bounds are enough to be interesting: an array of two cells must move after
one push and grow after two, in both directions, and three priorities are the least
for a link between two others. Two threads and the idle thread give every relation of
priorities (better, equal, worse) because `ChangeThreadPriority` moves them. With one
thread waiting for another, both suspended, ended and recreated, every pair of calls
of the thread manager is interleaved. Two pending interrupts are the least for a
handler that is followed by another one. Two events per thread are the least for an
event that outlives its wait and meets the next one. The split into two runs keeps
each exhaustive: timers and pending handlers multiply. For semaphores, two units and
waits for one or two are the least for a waiter that must wait while the one behind it
need not, and one event per thread is enough for it to outlive its wait and meet the
next one, which the run `sema_stale_timeout` exhibits. For
mutexes, an owner and two waiters are the least for an order among waiters, and two
priorities the least for one that is not the order of the list. The threads of this
run wait for mutexes only, keep their priorities, suspend nobody and never disable
dispatching or interrupts (`MCNext`), since three threads with all their other calls
are out of TLC's reach; the calls left out change no mutex, and how they change
threads and waits is what `waits` checks. With `MaxLevel = 2` a second level is the
last that fits. For `CoreTiming`, a slice of 2 and delays of 1 and 4 put an event
inside the slice and two slices ahead; a block of 2 cycles may overrun the slice, so that a
vblank is called up to 2 cycles late, and with one inner `Advance()` in its callback the
flip is 2 cycles overdue when it is scheduled;
with `IntLimit = 4` an int reaches from -4 to 3, which would cut the longer delay if it were
ever the next event, and `MaxHeld`
bounds how late an event gets while its poster has the lock, which is what keeps the
times finite. The instance leaves out save states: `FlagCoversPosted` holds without them, and
`timing_reload` shows that it does not hold with them. Where the threads have equal
priorities only `Init` tells them apart, so they are permuted (`MCSymmetry`).

What the runs show, in the words of the code:

- *Ready queue*: whatever mix of operations, no write falls outside the array,
  the chain of priorities stays sorted and complete, and each operation is the one on
  sequences that `Scheduler` uses. Loading a state is a stutter of that view.
- *Who runs*: a thread is queued once, at its current priority, exactly when it is
  ready; a reschedule leaves no better thread ready; the CPU never executes a thread
  that waits, is suspended, ended or deleted, even if a reschedule was refused; while
  dispatching is suspended only its owner and handlers run.
- *Interrupts*: none stays pending while interrupts are enabled and no handler runs;
  a handler keeps the idle thread's context from its start to its end; the thread
  that gets the CPU afterwards was ready for it.
- *Waits*: a delayed thread has an event left to wake it, whatever was released or
  terminated in between; nobody sleeps on a counted wake-up; whoever waits for an end
  is registered with a thread that has not ended; only `sceKernelResumeThread()` lets
  a suspended thread run.
- *Semaphores*: units go once, to those who asked, as many as they asked for; a
  signal leaves nobody waiting who could be served; a waiting thread is in the list of
  a semaphore that exists, and has a time-out event left if it asked for one. The
  two findings are about time-outs: one does not wake the next thread in FIFO order,
  as its comment says, if the thread that timed out is still listed; and an event
  left over from a released wait overwrites the success of a later wait by an error.

- *Mutexes*: the owner, the level and `mutexHeldLocks` agree in every state, so a
  thread that ends gives up all its locks, each once; a waiting thread is in the list
  of a mutex that another thread owns, so nobody waits for a free mutex or for
  itself; whoever is given the mutex was the first in the order of its attribute.
- *Events*: no event is lost, run twice, early or out of order, whatever the two
  threads do in between; a display event is at most one block of code late, also a flip
  that is scheduled after an inner `Advance()`, when it is due already; there is
  always exactly one event that continues the display, so the list is never empty.
  The finding is about save states: an event that was posted but not moved when the
  state was saved is restored without its flag, and waits for the next one.

### Fairness

`CoreTiming` is the one specification with fairness; the others state safety only.
`WF_vars(Program \/ Advancing)`: the CPU thread never stops. Which system call it
makes, and whether it makes one, is left open. `WF_vars(SetFlag)`: the other thread
lets go of a lock it has; nothing but an assignment is between the two.
`SF_vars(MoveEvents)`: a thread that waits for the lock gets it if the lock is free
again and again. The mutex of the host does not promise this by itself, but the GPU
thread posts only for display lists that the CPU thread has given to it, so it cannot
take the lock for ever while the CPU thread waits. Nothing is assumed about posting
or scheduling. Under this, `EveryEventEnds` and `ProgramRunsAgain` hold: an event is
called or removed in the end, and no chain of events that are due keeps `Advance()`
from coming back.

## What is proved

`KernelThreadProofs.tla` proves, for every set of threads and priorities and all
bounds, under the assumptions `SchedulerAssumption` and `ThreadAssumption` and with
`Misuse = {}`:

`Invariance`, `TypeCorrect`, `ReadyIsAlwaysQueued`, `OneThreadRuns`,
`IdleThreadRemains`, `CpuExecutesRunnable`, `EndWaitersAlwaysRegistered`,
`DelayAlwaysEnds`, `WakeupNeverLost`, `SuspendedDispatchHolds`,
`PendingAlwaysServed`, `HandlerAlwaysOnIdle`, and the action properties
`OnlyReadyThreadsEverRun`, `BestThreadAlwaysRuns` and `OnlyResumedAfterSuspend`.

The properties are not inductive one by one. The inductive invariant `Inv` is
`ThreadInv /\ CpuInv`:

- `ThreadInv`: `Consistent(sched)` (types, legal combinations of status bits, the
  ready queue holds exactly the ready threads, only the current thread is marked as
  running, the idle thread can run), lists of end waiters without duplicates, every
  wait registered or timed. Lists without duplicates are what makes one resume per
  list entry enough.
- `CpuInv`: a handler runs on the idle thread and is still pending; pending
  interrupts are served; a suspended dispatch has its owner as the current thread or,
  during a handler, as `before`; and the current thread is runnable, or a reschedule
  that will take place is under way. The last part carries `ExecutesRunnable` across
  the phase: a call that takes the CPU from its thread must ask for a reschedule
  that cannot be refused, which is why waiting is refused while dispatching is
  suspended.

Most actions change `sched` in one of four ways, and the proofs are organised by
them: `Quiet` (no switch, the current thread stays runnable), `Switched` (the CPU moves to a ready
thread), `Ended` (a thread stops) and waiting. Each operator of `Scheduler` has a lemma in
`SchedulerProofs` that says which it is; each action then has one lemma for the
invariant, and `NextInv` combines them.

### Mutexes

`KernelMutexProofs.tla` proves of `MutexSpec`, under `MutexAssumption` as well,
`MutexInvariant`, `MutexTypeCorrect`, `LocksAlwaysAgree`, `LockWaitersAlwaysListed`,
`TimedLocksAlwaysEnd`, the action property `FirstIsAlwaysNext` and the refinement
`MutexImplements`.

`KernelWaitProofs.tla` is the part that every kernel object needs: a call that makes a
thread wait for an object, or ends its waits, keeps `Inv`, and no step of the thread
manager begins a wait for an object (`StepKeepsObjectWaits`) or is missed by the list that
the object keeps. Both refinements also need from it that a thread which
ends does not go on waiting (`StepSparesWaiters`), and that the thread which executes has
forgotten what it waited for (`StepCurForgets`). The invariant `MutexInv` is `Inv` with the types, the three
properties, and two facts they need: a mutex that does not exist is blank, so that its
list cannot hand anything out when its id is used again; and whoever counts as waiting
for a mutex is alive and has asked for at least one level, so that a thread which
is given the mutex is an owner that the end of threads finds. `HandsOver` says what
`sceKernelUnlockMutex()` and the end of a thread have in common: both are
`UnlockMutex` for one or several mutexes with their `NextOwners`. Since a
thread waits for one mutex only, the new owners of several mutexes are different
threads, each counted once in `mutexHeldLocks`. That `FirstIsNext` holds rests on
`ComesBefore` being a strict order on a list without duplicates.

`MutexImplements` maps a mutex to its owner and level, and a request to the levels that a
listed thread asks for while it counts as waiting. Beside `MutexInv` it needs
`RequestInv`: the thread that executes has forgotten what it waited for (else a call of
its own would end a request nobody withdrew), a thread without a wait for a mutex
remembers no request, and nobody asks for a mutex that is free or was told "granted"
while still asking. Each action then has a lemma that names its step of `Mutex`:
`sceKernelUnlockMutex()` without a level left and the end of a thread are `GiveUp`
(`HandsOverRefines`), creation, deletion and cancellation are `Reset`, a lock or a wait
for one is `Lock` or `Ask`, an unlock that leaves a level is `Unlock`, and a time-out or a
step of the thread manager only ends requests or stutters.

### Semaphores

`KernelSemaProofs.tla` proves of `SemaSpec`, under `SemaAssumption` as well,
`SemaInvariant`, `SemaTypeCorrect`, `SemaWaitersAlwaysListed`, `TimedWaitsAlwaysEnd`,
`AlwaysGrantedOnce`, the action property `NobodyEverLeftBehind` and the refinement
`SemaImplements`.

The invariant `SemaInv` is `Inv` with the types, the properties, and what they need to
be inductive. `TimeoutsNested`: of the time-outs that are in their middle only the
outermost can have begun outside of a reschedule, so that the phase which the end of
one restores is that of the one around it. `GrantedGone`: `GrantedOnce` also of a
thread that was deleted, since the thread may be created again with the wait it had.
A signal and the end of a time-out share `ServedFacts`: some listed threads that count
are resumed, the rest of the list is kept, and every thread that still waits is in one
of the two parts. `NobodyLeftBehind` rests on `LeftShrinks`: what is left of the
count never grows along the list, which is shown by the least entry at which it would;
who was passed over wanted more than was left when it was looked at, so it wants more
than is left in the end.

`SemaImplements` maps a semaphore to its count, and a request to the units that a listed
thread asks for while it counts as waiting. Its `RequestInv` is that of the mutexes without the
part on owners: the current thread has forgotten what it waited for, what is noted of a wait
is there as long as the wait is, and nobody is listed for a semaphore that does not exist.
A signal is a `Serve` with what it supplies, the end of a time-out a `Serve` without, and
`ServedRefines` is the proof they share; creation, deletion and cancellation are `Reset`, a
poll or a wait that is satisfied at once is `Take`, a wait that is not is `Ask`, and a step of the
thread manager, or the begin of a time-out, only withdraws requests or stutters.

What `Serve` adds to `GrantedOnce` and `NobodyLeftBehind` is the balance: the units that leave
the count are those that the granted threads asked for. They are a sum over a set of threads,
which the community modules define by a `CHOOSE` of the function that adds one member
after the other. `SumsExist` shows that there is such a function and `SumsFacts` that the
order does not matter, by the least size of a set for which it would not be so. `ServedSum`
then goes along the list: after each entry, what is missing from the count is the sum of
those served so far, each of whom is in the list once.

### Ready queue

`ThreadQueueListProofs.tla` proves of `ThreadQueueList`, for every number of priorities
and under its four assumptions, `QueueInvariance`, `QueueTypeCorrect`,
`RoomAlwaysAtBothEnds`, `ChainAlwaysSorted` and the refinement
`QueueImplementsReadyQueue`.

For each operation on one queue a lemma (`PushFrontFacts` to `RotateFacts`) says that it
leaves the queue `Roomy` and does to `QueuedIds` what `ReadyQueue` does to its sequence;
`RebalanceFacts` is where the room comes from: at most half of what is left goes to the
front, and something is left because the array grew when fewer than three cells
were. `LinkFacts` and `LoadStateFacts` are about the chain. The invariant `QueueInv` adds
`WalkInv` to the properties: every queue that is better than the cursor of a pop is
empty, because a queue that the chain skips was never linked. This is what makes the
queue a pop stops at the best one, and an empty answer true (`FinishPopStep`,
`FailPopStep`).

### Event scheduling

`CoreTimingProofs.tla` proves of `CoreTiming`, for all delays, frames, slices and bounds,
`FlagAlwaysCoversPosted`, `TimingInvariant`, `TimingTypeCorrect`, `DisplayAlwaysOnTime`,
`DisplayAlwaysGoesOn` and the refinement `TimingImplementsAgenda`. It assumes of the
constants, beside their types (`TimingAssumption`), what the code provides:
`EventsAssumption`, that display events are of other types than those of the program and of
other threads (each `RegisterEvent()` returns a new type), and `IntAssumption`, that a vblank, a
frame and a block of code take fewer cycles than an `int` holds (a frame is 3.7 million
cycles at 222 MHz). Delays are not bounded: a timer further ahead than an `int` holds is never the
next event, because a display event is always before it.

`FlagCoversPosted` is inductive as it stands; the proof goes by who takes the step, because
it is the order of the steps in `ScheduleEvent_Threadsafe()` (append, then the flag, then
unlock) and in `MoveEvents()` (the flag, then the lock) that keeps it. Saved states break
it: see the run `timing_reload`.

The other properties need each other, in `TimingInv`:

- `QueueInv`: the list is sorted; while the program runs no display event is due before
  the slice ends, and at any other time none was due more than one block of code ago
  (`Earliest`); exactly one event carries the display on, in the list or as the event
  whose callback is about to be called; before the next slice is chosen the first event
  is still ahead.
- `SliceInv`: the slice and `downcount` are within their limits, and all cycles are
  accounted for once `Advance()` has begun.
- `CalledInv`: an event that was taken from the list was due, one of the display not long ago.
- `CallbacksInv`: a callback on the call stack that may flip was called at most one block
  of code late, no program runs inside a callback, and the depth is bounded.

That `SetSlice` leaves a slice from 1 to `MaxSlice` needs the carrier, as it is at most one frame
ahead, so that the cut to an `int` changes nothing (`NextSlice`); that no display event is due
within a slice needs the slice to end at the first event, and that a display event is
late by one block at most needs both. A flip that is scheduled after an inner `Advance()` is due
at most one block ago because no cycle is executed inside a callback (`AfterCallbackIs`); it
does not wait for the slice that the inner one chose, because the outer `Advance()` looks at the
first event again after every callback and chooses the slice anew. TLC found `TimingInv` to hold on the instance of the
run before it was proved.

The refinement has one lemma for each kind of step. Every step of the program is a step of
`Agenda` in which time passes: by the cycles of a block, or, for an idle CPU, by what was
left of the slice. `Advance()` moves cycles from the slice to the clock and is a stutter
(`ShiftTwice`), as is the choice of the next slice. Callbacks and posts change a list at a time
that stands still. A move of `n` posted events is a fold over `posted`. Induction over data
is not available, so `IterationExists` shows that the intermediate lists exist, and
`MovesByTime` takes the least number of moves after which the list would not be what
`ByTime` says; `MergeOne` is the step from one to the next.

### What rests on the theorems alone

Some instances are smaller than the case that a property is about; there the theorem is the
evidence, and the run only a check of the definitions:

- `semaphores` has two threads and one time-out event for each. Several waiters that one
  signal serves, and several left-over events of one thread, are covered by
  `NobodyEverLeftBehind`, `SemaImplements` and `TimedWaitsAlwaysEnd`.
- `mutexes` has one mutex, one time-out event per thread and suspends nobody. The walk over
  several locks of a thread that ends is covered by `LocksAlwaysAgree` and `MutexImplements`, a
  left-over event beside a new one by `TimedLocksAlwaysEnd`, and suspended waiters by
  `FirstIsAlwaysNext`.
- `BestThreadRuns` compares priorities with `<=`: that no thread of equal priority preempts
  the running one is a property of the ready queue, `ImplementsReadyQueue`.

### Only model-checked

Every invariant, action property and refinement that a passing run checks is stated by a
theorem. Liveness under fairness (`EveryEventEnds`, `ProgramRunsAgain`) and `ENABLED` are beyond
TLAPS as used here and stay with TLC, as do the findings, which are counterexamples on an
instance. No module has a recursive operator; where a proof needs an induction it is by the least
number, entry or size for which the claim would fail.

## Plan

Scheduler, interrupts, semaphores, mutexes and event scheduling are done; in this
order, next:

1. `KernelCallback`: notification, execution on a thread, paused waits
   (KernelWaitHelpers.h), on `Scheduler`, and the paused waits of semaphores and
   mutexes. To be looked at: a thread with a notified callback that is switched to
   while another callback runs goes on after its wait (sceKernelThread.cpp:3338,
   with a TODO at 3455); a callback that ends its thread leaves the count of running
   callbacks; a thread that is deleted with notified callbacks counts them down
   again when they are deleted (1862, 2901).
2. `SubInterrupt`: registration and release of handlers, and the queue of pending
   interrupts by handler.
3. Lightweight mutexes (their state is in the program's memory, and ends of threads
   do not give them up), event flags, message pipes, mailboxes, memory pools: each on
   `Scheduler` and `WaitLists`, with the promise of each stated abstractly.
4. `BlockAllocator`, object pool, alarms and virtual timers, GE list queue.
5. Liveness of the kernel, by TLC: with weak fairness of `ReSchedule` and of the
   events, a delay and a wait with a time-out end; a suspended dispatch whose owner
   was terminated by a handler.

## Not modelled

Rendering, audio and media decoding, instruction semantics and recompilers, file
systems and module loading, the host front ends: their difficulty is in data, numbers
or host interfaces and not in control state that TLC can explore. In the thread
manager: stacks, status queries, thread event handlers and the thread-local storage.

## Running

```
tlc -workers 2 -config MCWaits.cfg MCKernelThread.tla
tlapm ThreadQueueListProofs.tla
tlapm KernelThreadProofs.tla
tlapm KernelSemaProofs.tla
tlapm KernelMutexProofs.tla
tlapm CoreTimingProofs.tla
```
