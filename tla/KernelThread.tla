---------------------------- MODULE KernelThread ----------------------------
(***************************************************************************)
(* The thread manager of the HLE kernel: the system calls of               *)
(* Core/HLE/sceKernelThread.cpp, the timer events they schedule, the       *)
(* interrupts of Core/HLE/sceKernelInterrupt.cpp and the reschedule that   *)
(* Core/HLE/HLE.cpp performs after a call.                                 *)
(*                                                                         *)
(* The emulator executes one thread of the emulated CPU; a system call is  *)
(* atomic.  hleReSchedule() only sets a flag: hleFinishSyscall() then runs *)
(* __KernelReSchedule(), which first lets CoreTiming::Advance() execute the*)
(* events that are due, each of which may reschedule itself or start an    *)
(* interrupt handler.  phase = "resched" is that moment: nothing of the    *)
(* program runs, events may, and ReSchedule ends it.                       *)
(*                                                                         *)
(* Time is abstract: a scheduled event may be due at any moment.           *)
(***************************************************************************)
EXTENDS Scheduler

CONSTANTS
    Root,           \* the thread that __KernelSetupRootThread() starts
    InitialPriority,\* the priority each thread is created with
    MaxEvents,      \* bound: events of one kind scheduled for one thread
    MaxWakeups,     \* bound: wakeupCount
    MaxPending,     \* bound: length of pendingInterrupts
    Misuse          \* calls that the kernel accepts unchecked, see below

\* "rotate": sceKernelRotateThreadReadyQueue() by a thread that is ready already,
\* because it gave up the CPU while a reschedule was not possible.
\* "handler": an interrupt handler that calls sceKernelChangeThreadPriority(0).
\* "exit": a thread that ends while dispatching is suspended.
ASSUME ThreadAssumption ==
    /\ Root \in Threads
    /\ InitialPriority \in [Threads -> Priorities]
    /\ MaxEvents \in Nat /\ MaxWakeups \in Nat /\ MaxPending \in Nat
    /\ Misuse \subseteq {"rotate", "handler", "exit"}

VARIABLES
    sched,          \* see Scheduler.tla
    wakeupCount,    \* wake-ups that a thread has not slept for yet
    endWaiters,     \* waitingThreads of each thread, for its end
    timers,         \* how many events of each kind are scheduled per thread
    dispatch,       \* dispatchEnabled
    suspender,      \* history: the thread that suspended the dispatch
    intrEnabled,    \* interruptsEnabled
    inIntr,         \* inInterrupt
    pending,        \* how many interrupts are in pendingInterrupts
    before,         \* threadBeforeInterrupt
    phase           \* "run", or "resched" when a reschedule is under way

intrVars == <<intrEnabled, inIntr, pending, before>>
vars == <<sched, wakeupCount, endWaiters, timers, dispatch, suspender, intrVars, phase>>

TimerKinds == {"wakeup", "endTimeout"}

cur == sched.cur

\* __KernelIsDispatchEnabled()
DispatchEnabled == dispatch /\ intrEnabled

\* Who can make a system call: the current thread, or an interrupt handler.
ThreadRuns == phase = "run" /\ ~inIntr /\ cur \in Threads
HandlerRuns == phase = "run" /\ inIntr
SomeoneRuns == ThreadRuns \/ HandlerRuns

\* Mutant of MayWait: a thread may wait while dispatching is suspended.
MayWaitAlways == ThreadRuns

\* HLE_NOT_DISPATCH_SUSPENDED | HLE_NOT_IN_INTERRUPT: otherwise an error code.
MayWait == ThreadRuns /\ DispatchEnabled

\* Ending a thread is not refused while dispatching is suspended.
MayExit == ThreadRuns /\ ("exit" \in Misuse \/ DispatchEnabled)

\* The threads a call can name that must not be the current one.
Others == {t \in Threads \ {cur} : Exists(sched, t)}
-----------------------------------------------------------------------------
(* __KernelThreadingInit(), __KernelStartIdleThreads(),                    *)
(* __KernelSetupRootThread()                                               *)
Init ==
    /\ sched = [status |-> [t \in AllThreads |-> IF t = Root THEN {"RUNNING"}
                                                 ELSE IF t = Idle THEN {"READY"} ELSE {}],
                prio   |-> [t \in AllThreads |-> IF t = Idle THEN IdlePriority
                                                 ELSE InitialPriority[t]],
                queue  |-> [p \in AllPriorities |-> IF p = IdlePriority THEN <<Idle>> ELSE <<>>],
                cur    |-> Root,
                wait   |-> [t \in AllThreads |-> NoWait]]
    /\ wakeupCount = [t \in Threads |-> 0]
    /\ endWaiters = [t \in Threads |-> <<>>]
    /\ timers = [k \in TimerKinds |-> [t \in Threads |-> 0]]
    /\ dispatch = TRUE
    /\ suspender = NoThread
    /\ intrEnabled = TRUE
    /\ inIntr = FALSE
    /\ pending = 0
    /\ before = NoThread
    /\ phase = "run"
-----------------------------------------------------------------------------
(* Creating, starting, ending and deleting threads *)

CreateThread(t) ==
    /\ ThreadRuns
    /\ t \in Threads /\ ~Exists(sched, t)
    /\ sched' = [sched EXCEPT !.status[t] = {"DORMANT"}, !.prio[t] = InitialPriority[t],
                              !.wait[t] = NoWait]
    /\ wakeupCount' = [wakeupCount EXCEPT ![t] = 0]
    /\ endWaiters' = [endWaiters EXCEPT ![t] = <<>>]
    /\ dispatch' = TRUE /\ suspender' = NoThread
    /\ phase' = "resched"
    /\ UNCHANGED <<timers, intrVars>>

\* __KernelResetThread(): the initial priority comes back only when the thread
\* was better than the one that starts it.
ResetPriority(t) ==
    IF sched.prio[t] < sched.prio[cur] THEN InitialPriority[t] ELSE sched.prio[t]

StartThread(t) ==
    LET reset == [sched EXCEPT !.prio[t] = ResetPriority(t), !.wait[t] = NoWait]
        preempts == reset.prio[cur] > reset.prio[t]
    IN  /\ ThreadRuns
        /\ t \in Others /\ sched.status[t] = {"DORMANT"}
        /\ sched' = MakeReady(IF preempts THEN MakeReady(reset, cur) ELSE reset, t)
        /\ dispatch' = TRUE /\ suspender' = NoThread
        /\ phase' = IF preempts THEN "resched" ELSE "run"
        /\ UNCHANGED <<wakeupCount, endWaiters, timers, intrVars>>

\* Mutant of StoppedSched: whoever waits for the end of t is forgotten.
StoppedSchedWakesNobody(t) ==
    [Unqueue(sched, t) EXCEPT !.status[t] = {"DORMANT"}, !.wait[t] = NoWait]

\* __KernelStopThread(), when the listeners of its end have made s of sched: the
\* waiters for the end of t are resumed before the wait of t itself is forgotten.
StoppedFrom(s, t) ==
    [ResumeAll([Unqueue(s, t) EXCEPT !.status[t] = {"DORMANT"}],
               endWaiters[t], "THREADEND", t) EXCEPT !.wait[t] = NoWait]

StoppedSched(t) == StoppedFrom(sched, t)

\* The listeners __KernelCancelWakeup() and __KernelCancelThreadEndTimeout(),
\* and the timeouts of the waiters that are resumed.
StoppedTimers(t) ==
    LET resumed == {w \in ToSet(endWaiters[t]) : VerifyWait(sched, w, "THREADEND", t)}
    IN  [k \in TimerKinds |->
            [w \in Threads |-> IF w = t \/ (k = "endTimeout" /\ w \in resumed) THEN 0
                               ELSE timers[k][w]]]

\* What stopping t does, when its sched then becomes after.
Stop(t, after) ==
    /\ sched' = after
    /\ timers' = StoppedTimers(t)
    /\ endWaiters' = [endWaiters EXCEPT ![t] = <<>>]
    /\ UNCHANGED <<wakeupCount, dispatch, suspender, intrVars>>

\* __KernelDeleteThread(): after __KernelStopThread() the id is removed from the
\* ready queue once more, and the object is destroyed.
Deleted(stopped, t) ==
    [stopped EXCEPT !.queue[stopped.prio[t]] = RemoveFirst(@, t),
                    !.status[t] = {},
                    !.cur = IF @ = t THEN NoThread ELSE @]

DeletedSched(t) == Deleted(StoppedSched(t), t)

\* sceKernelExitThread() and the return from the thread's entry function.
ExitThread ==
    /\ MayExit
    /\ Stop(cur, StoppedSched(cur))
    /\ phase' = "resched"

ExitDeleteThread ==
    /\ MayExit
    /\ Stop(cur, DeletedSched(cur))
    /\ phase' = "resched"

TerminateThread(t) ==
    /\ SomeoneRuns
    /\ t \in Others /\ ~Has(sched, t, "DORMANT")
    /\ Stop(t, [StoppedSched(t) EXCEPT !.prio[t] = InitialPriority[t]])
    /\ UNCHANGED phase

\* sceKernelTerminateDeleteThread(), and sceKernelDeleteThread() for a dormant one.
TerminateDeleteThread(t) ==
    /\ SomeoneRuns
    /\ t \in Others
    /\ Stop(t, DeletedSched(t))
    /\ UNCHANGED phase
-----------------------------------------------------------------------------
(* Dispatching and interrupts *)

SuspendDispatchThread ==
    /\ ThreadRuns /\ intrEnabled
    /\ dispatch' = FALSE
    /\ suspender' = cur
    /\ UNCHANGED <<sched, wakeupCount, endWaiters, timers, intrVars, phase>>

ResumeDispatchThread(enabled) ==
    /\ ThreadRuns /\ intrEnabled
    /\ dispatch' = enabled
    /\ suspender' = IF enabled THEN NoThread ELSE cur
    /\ phase' = "resched"
    /\ UNCHANGED <<sched, wakeupCount, endWaiters, timers, intrVars>>

CpuSuspendIntr ==
    /\ SomeoneRuns
    /\ intrEnabled' = FALSE
    /\ UNCHANGED <<sched, wakeupCount, endWaiters, timers, dispatch, suspender,
                   inIntr, pending, before, phase>>

\* __RunOnePendingInterrupt(), when a handler does run: it runs on the idle
\* thread, so that it cannot disturb the registers of a thread.
EnterHandler ==
    /\ sched' = SwitchOffThread(sched)
    /\ before' = IF cur = Idle THEN before ELSE cur
    /\ inIntr' = TRUE

\* Mutant of CpuResumeIntr: the interrupts that came in meanwhile are not run.
CpuResumeIntrRunsNothing ==
    /\ SomeoneRuns
    /\ intrEnabled' = TRUE
    /\ phase' = "resched"
    /\ UNCHANGED <<sched, wakeupCount, endWaiters, timers, dispatch, suspender,
                   inIntr, pending, before>>

\* sceKernelCpuResumeIntr(1): hleRunInterrupts() and hleReSchedule().
CpuResumeIntr ==
    /\ SomeoneRuns
    /\ intrEnabled' = TRUE
    /\ IF pending > 0 /\ ~inIntr THEN EnterHandler ELSE UNCHANGED <<sched, before, inIntr>>
    /\ phase' = "resched"
    /\ UNCHANGED <<wakeupCount, endWaiters, timers, dispatch, suspender, pending>>

\* __TriggerInterrupt() from an event: queued, and run at once if possible.
TriggerInterrupt ==
    /\ pending < MaxPending
    /\ pending' = pending + 1
    /\ IF intrEnabled /\ ~inIntr THEN EnterHandler ELSE UNCHANGED <<sched, before, inIntr>>
    /\ UNCHANGED <<wakeupCount, endWaiters, timers, dispatch, suspender, intrEnabled, phase>>

\* PSP_INTR_ALWAYS_RESCHED when no handler runs: the idle thread takes over and
\* reschedules.
TriggerResched ==
    /\ intrEnabled /\ ~inIntr /\ dispatch
    /\ pending = 0
    /\ cur # Idle
    /\ sched' = SwitchOffThread(sched)
    /\ before' = cur
    /\ UNCHANGED <<wakeupCount, endWaiters, timers, dispatch, suspender, intrEnabled,
                   inIntr, pending, phase>>

\* __RunOnePendingInterrupt() when the handler turns the interrupt down: the idle
\* thread takes over, and gives the CPU back if the thread can still run.
TriggerIgnored ==
    /\ intrEnabled /\ ~inIntr
    /\ pending = 0
    /\ cur # Idle
    /\ before' = cur
    /\ LET off == SwitchOffThread(sched) IN
       IF CanSwitchTo(off, cur)
       THEN sched' = SwitchContext(off, cur) /\ UNCHANGED phase
       ELSE sched' = off /\ phase' = "resched"
    /\ UNCHANGED <<wakeupCount, endWaiters, timers, dispatch, suspender, intrEnabled,
                   inIntr, pending>>

\* __KernelReturnFromInterrupt(): the next handler if there is one; otherwise a
\* reschedule, or straight back to the thread that suspended the dispatch.
ReturnFromInterrupt ==
    /\ HandlerRuns
    /\ pending' = pending - 1
    /\ IF pending' > 0 /\ intrEnabled
       THEN UNCHANGED <<sched, inIntr, phase>>
       ELSE /\ inIntr' = FALSE
            /\ IF ~DispatchEnabled /\ CanSwitchTo(sched, before)
               THEN sched' = SwitchContext(sched, before) /\ UNCHANGED phase
               ELSE phase' = "resched" /\ UNCHANGED sched
    /\ UNCHANGED <<wakeupCount, endWaiters, timers, dispatch, suspender, intrEnabled, before>>

\* Mutant of ReSchedule: it does not look whether an interrupt handler runs.
ReScheduleInInterrupt ==
    /\ phase = "resched"
    /\ sched' = IF DispatchEnabled THEN NextThread(sched) ELSE sched
    /\ phase' = "run"
    /\ UNCHANGED <<wakeupCount, endWaiters, timers, dispatch, suspender, intrVars>>

\* Mutant of ReSchedule: it does not look whether dispatching is suspended.
ReScheduleWhenSuspended ==
    /\ phase = "resched"
    /\ sched' = IF inIntr THEN sched ELSE NextThread(sched)
    /\ phase' = "run"
    /\ UNCHANGED <<wakeupCount, endWaiters, timers, dispatch, suspender, intrVars>>

\* __KernelReSchedule(), after CoreTiming::Advance().
ReSchedule ==
    /\ phase = "resched"
    /\ sched' = IF inIntr \/ ~DispatchEnabled THEN sched ELSE NextThread(sched)
    /\ phase' = "run"
    /\ UNCHANGED <<wakeupCount, endWaiters, timers, dispatch, suspender, intrVars>>

\* __KernelIdle(), the code of the idle thread.
KernelIdle ==
    /\ phase = "run" /\ ~inIntr /\ cur = Idle
    /\ phase' = "resched"
    /\ UNCHANGED <<sched, wakeupCount, endWaiters, timers, dispatch, suspender, intrVars>>
-----------------------------------------------------------------------------
(* Priorities and the ready queue *)

\* sceKernelRotateThreadReadyQueue(p); a thread of priority p yields itself.
RotatedSched(p) ==
    IF sched.queue[p] = <<>> THEN sched
    ELSE IF sched.prio[cur] = p
    THEN [sched EXCEPT !.queue[p] = Append(@, cur),
                       !.status[cur] = (@ \ {"RUNNING"}) \union {"READY"}]
    ELSE IF Len(sched.queue[p]) > 1
    THEN [sched EXCEPT !.queue[p] = Append(Tail(@), Head(@))]
    ELSE sched

RotateThreadReadyQueue(p) ==
    /\ SomeoneRuns
    /\ "rotate" \in Misuse \/ sched.prio[cur] # p \/ Has(sched, cur, "RUNNING")
    /\ sched' = RotatedSched(p)
    /\ phase' = "resched"
    /\ UNCHANGED <<wakeupCount, endWaiters, timers, dispatch, suspender, intrVars>>

\* Mutant of ChangedPrioritySched: a ready thread stays in its old queue.
ChangedPriorityKeepsQueue(t, p) == [sched EXCEPT !.prio[t] = p]

\* sceKernelChangeThreadPriority(t, p): a running thread gives up the CPU.
ChangedPrioritySched(t, p) ==
    LET isReady == Has(sched, t, "READY") \/ Has(sched, t, "RUNNING")
        removed == [sched EXCEPT !.queue[sched.prio[t]] = RemoveFirst(@, t), !.prio[t] = p]
    IN  IF isReady
        THEN [removed EXCEPT !.status[t] = {"READY"}, !.queue[p] = Append(@, t)]
        ELSE removed

ChangeThreadPriority(t, p) ==
    /\ SomeoneRuns
    /\ t \in Threads \/ (t = Idle /\ HandlerRuns /\ "handler" \in Misuse)
    /\ Exists(sched, t) /\ ~Has(sched, t, "DORMANT")
    /\ sched' = ChangedPrioritySched(t, p)
    /\ phase' = "resched"
    /\ UNCHANGED <<wakeupCount, endWaiters, timers, dispatch, suspender, intrVars>>
-----------------------------------------------------------------------------
(* Waiting *)

\* Mutant of DelayThread: the wake-up is cancelled instead of scheduled.
DelayThreadUnscheduled ==
    /\ MayWait
    /\ timers' = [timers EXCEPT !["wakeup"][cur] = 0]
    /\ sched' = WaitCurThread(sched, "DELAY", cur)
    /\ phase' = "resched"
    /\ UNCHANGED <<wakeupCount, endWaiters, dispatch, suspender, intrVars>>

\* sceKernelDelayThread() and sceKernelDelaySysClockThread()
DelayThread ==
    /\ MayWait
    /\ timers["wakeup"][cur] < MaxEvents
    /\ timers' = [timers EXCEPT !["wakeup"][cur] = @ + 1]
    /\ sched' = WaitCurThread(sched, "DELAY", cur)
    /\ phase' = "resched"
    /\ UNCHANGED <<wakeupCount, endWaiters, dispatch, suspender, intrVars>>

\* The same with a delay of 0, which only reschedules.
DelayThreadZero ==
    /\ MayWait
    /\ phase' = "resched"
    /\ UNCHANGED <<sched, wakeupCount, endWaiters, timers, dispatch, suspender, intrVars>>

\* hleScheduledWakeup(): an event may be left over from a delay that
\* sceKernelReleaseWaitThread() ended; the wait it finds is not checked further.
ScheduledWakeup(t) ==
    /\ timers["wakeup"][t] > 0
    /\ timers' = [timers EXCEPT !["wakeup"][t] = @ - 1]
    /\ IF VerifyWait(sched, t, "DELAY", t)
       THEN sched' = ResumeFromWait(sched, t) /\ phase' = "resched"
       ELSE UNCHANGED <<sched, phase>>
    /\ UNCHANGED <<wakeupCount, endWaiters, dispatch, suspender, intrVars>>

SleepThread ==
    /\ MayWait
    /\ IF wakeupCount[cur] > 0
       THEN /\ wakeupCount' = [wakeupCount EXCEPT ![cur] = @ - 1]
            /\ UNCHANGED <<sched, phase>>
       ELSE /\ sched' = WaitCurThread(sched, "SLEEP", NoThread)
            /\ phase' = "resched"
            /\ UNCHANGED wakeupCount
    /\ UNCHANGED <<endWaiters, timers, dispatch, suspender, intrVars>>

\* Mutant of WakeupThread: a sleeper that is suspended too is not seen to sleep.
WakeupThreadIgnoringSuspended(t) ==
    /\ SomeoneRuns
    /\ t \in Others
    /\ IF sched.status[t] = {"WAIT"} /\ sched.wait[t].type = "SLEEP"
       THEN /\ sched' = ResumeFromWait(sched, t)
            /\ phase' = "resched"
            /\ UNCHANGED wakeupCount
       ELSE /\ wakeupCount[t] < MaxWakeups
            /\ wakeupCount' = [wakeupCount EXCEPT ![t] = @ + 1]
            /\ UNCHANGED <<sched, phase>>
    /\ UNCHANGED <<endWaiters, timers, dispatch, suspender, intrVars>>

WakeupThread(t) ==
    /\ SomeoneRuns
    /\ t \in Others
    /\ IF IsWaitingFor(sched, t, "SLEEP", NoThread)
       THEN /\ sched' = ResumeFromWait(sched, t)
            /\ phase' = "resched"
            /\ UNCHANGED wakeupCount
       ELSE /\ wakeupCount[t] < MaxWakeups
            /\ wakeupCount' = [wakeupCount EXCEPT ![t] = @ + 1]
            /\ UNCHANGED <<sched, phase>>
    /\ UNCHANGED <<endWaiters, timers, dispatch, suspender, intrVars>>

CancelWakeupThread(t) ==
    /\ SomeoneRuns
    /\ Exists(sched, t)
    /\ wakeupCount' = [wakeupCount EXCEPT ![t] = 0]
    /\ UNCHANGED <<sched, endWaiters, timers, dispatch, suspender, intrVars, phase>>

WaitThreadEnd(t, timeout) ==
    /\ MayWait
    /\ t \in Others /\ sched.status[t] # {"DORMANT"}
    /\ IF timeout
       THEN /\ timers["endTimeout"][cur] < MaxEvents
            /\ timers' = [timers EXCEPT !["endTimeout"][cur] = @ + 1]
       ELSE UNCHANGED timers
    /\ endWaiters' = [endWaiters EXCEPT
                        ![t] = IF Contains(@, cur) THEN @ ELSE Append(@, cur)]
    /\ sched' = WaitCurThread(sched, "THREADEND", t)
    /\ phase' = "resched"
    /\ UNCHANGED <<wakeupCount, dispatch, suspender, intrVars>>

\* hleThreadEndTimeout(): WaitExecTimeout() resumes the thread, which stays in
\* waitingThreads and keeps its waitType until it runs.
ThreadEndTimeout(t) ==
    /\ timers["endTimeout"][t] > 0
    /\ timers' = [timers EXCEPT !["endTimeout"][t] = @ - 1]
    /\ IF /\ Exists(sched, t)
          /\ sched.wait[t].type = "THREADEND"
          /\ Exists(sched, sched.wait[t].id)
       THEN sched' = ResumeFromWait(sched, t) /\ phase' = "resched"
       ELSE UNCHANGED <<sched, phase>>
    /\ UNCHANGED <<wakeupCount, endWaiters, dispatch, suspender, intrVars>>

ReleaseWaitThread(t) ==
    /\ SomeoneRuns
    /\ t \in Others /\ Has(sched, t, "WAIT")
    /\ sched' = ResumeFromWait(sched, t)
    /\ phase' = "resched"
    /\ UNCHANGED <<wakeupCount, endWaiters, timers, dispatch, suspender, intrVars>>

\* Mutant of SuspendThread: a dormant thread can be suspended.
SuspendThreadDormant(t) ==
    /\ SomeoneRuns
    /\ t \in Others /\ ~Has(sched, t, "SUSPEND")
    /\ sched' = [Unqueue(sched, t) EXCEPT !.status[t] = (@ \ {"READY"}) \union {"SUSPEND"}]
    /\ UNCHANGED <<wakeupCount, endWaiters, timers, dispatch, suspender, intrVars, phase>>

SuspendThread(t) ==
    /\ SomeoneRuns
    /\ t \in Others /\ ~Has(sched, t, "DORMANT") /\ ~Has(sched, t, "SUSPEND")
    /\ sched' = [Unqueue(sched, t) EXCEPT !.status[t] = (@ \ {"READY"}) \union {"SUSPEND"}]
    /\ UNCHANGED <<wakeupCount, endWaiters, timers, dispatch, suspender, intrVars, phase>>

ResumedSched(t) ==
    LET resumed == [sched EXCEPT !.status[t] = @ \ {"SUSPEND"}]
    IN  IF resumed.status[t] = {} THEN MakeReady(resumed, t) ELSE resumed

ResumeThread(t) ==
    /\ SomeoneRuns
    /\ t \in Others /\ Has(sched, t, "SUSPEND")
    /\ sched' = ResumedSched(t)
    /\ UNCHANGED <<wakeupCount, endWaiters, timers, dispatch, suspender, intrVars, phase>>
-----------------------------------------------------------------------------
Next ==
    \/ \E t \in Threads :
        \/ CreateThread(t) \/ StartThread(t)
        \/ TerminateThread(t) \/ TerminateDeleteThread(t)
        \/ WakeupThread(t) \/ CancelWakeupThread(t)
        \/ ReleaseWaitThread(t) \/ SuspendThread(t) \/ ResumeThread(t)
        \/ ScheduledWakeup(t) \/ ThreadEndTimeout(t)
    \/ \E t \in Threads, timeout \in BOOLEAN : WaitThreadEnd(t, timeout)
    \/ \E t \in AllThreads, p \in Priorities : ChangeThreadPriority(t, p)
    \/ \E p \in Priorities : RotateThreadReadyQueue(p)
    \/ \E enabled \in BOOLEAN : ResumeDispatchThread(enabled)
    \/ ExitThread \/ ExitDeleteThread
    \/ SuspendDispatchThread
    \/ CpuSuspendIntr \/ CpuResumeIntr
    \/ TriggerInterrupt \/ TriggerResched \/ TriggerIgnored
    \/ ReturnFromInterrupt
    \/ ReSchedule \/ KernelIdle
    \/ DelayThread \/ DelayThreadZero \/ SleepThread

Spec == Init /\ [][Next]_vars
-----------------------------------------------------------------------------
(* Properties *)

\* The variables have the types of the C++ state.
TypeOK ==
    /\ sched \in SchedType
    /\ \A t \in AllThreads : sched.status[t] \in LegalStatus
    /\ wakeupCount \in [Threads -> 0 .. MaxWakeups]
    /\ endWaiters \in [Threads -> Seq(Threads)]
    /\ timers \in [TimerKinds -> [Threads -> 0 .. MaxEvents]]
    /\ dispatch \in BOOLEAN /\ intrEnabled \in BOOLEAN /\ inIntr \in BOOLEAN
    /\ suspender \in Threads \union {NoThread}
    /\ pending \in 0 .. MaxPending
    /\ before \in AllThreads \union {NoThread}
    /\ phase \in {"run", "resched"}

\* A thread is in the ready queue, once, exactly when it is ready.
ReadyIsQueued == ReadyQueued(sched)

\* At most one thread is running, and the CPU is executing it.
OneRunning == RunningIsCurrent(sched)

\* The scheduler always finds a thread to run.
AlwaysSomeoneToRun == IdleCanRun(sched)

\* Whatever executes is able to: the CPU is never left to a thread that waits, was
\* suspended, ended or deleted, even when a reschedule could not take place.
ExecutesRunnable ==
    phase = "run" => /\ cur # NoThread
                     /\ sched.status[cur] \in {{"RUNNING"}, {"READY"}}

\* No thread waits forever for the end of a thread that has ended: whoever
\* waits is in waitingThreads of a thread that did not stop and was not deleted.
EndWaitersRegistered ==
    \A t, w \in Threads :
        IsWaitingFor(sched, w, "THREADEND", t) =>
            /\ Exists(sched, t) /\ ~Has(sched, t, "DORMANT")
            /\ Contains(endWaiters[t], w)

\* A delayed thread has an event that will wake it, whatever was released,
\* terminated or started again in between.
DelayedHasTimer ==
    \A t \in Threads : IsWaitingFor(sched, t, "DELAY", t) => timers["wakeup"][t] > 0

\* No wake-up is lost: nobody sleeps while a wake-up is counted for it.
NoSleepWithWakeup ==
    \A t \in Threads : IsWaitingFor(sched, t, "SLEEP", NoThread) => wakeupCount[t] = 0

\* While dispatching is suspended no thread runs but the one that suspended it:
\* interrupts, timers and wake-ups in between do not hand the CPU to another.
SuspendedDispatchKeepsThread == ~dispatch => cur \in {suspender, Idle}

\* No interrupt is left behind: one that is pending while interrupts are enabled
\* is being handled, whoever disabled and enabled them in between.
PendingIsServed == pending > 0 => inIntr \/ ~intrEnabled

\* "Lists only ready thread ids." is what the comment on threadReadyQueue says.
ListsOnlyReady ==
    \A p \in AllPriorities : \A t \in ToSet(sched.queue[p]) : Has(sched, t, "READY")

\* "Returned from a NULL thread." is the assertion that whatever runs has a thread.
CurrentThreadExists == phase = "run" => cur # NoThread

\* A suspended thread does not run before sceKernelResumeThread(): the end of its
\* wait, a timer or a released wait leaves it suspended.
SuspendedOnlyResumed ==
    [][\A t \in Threads :
          Has(sched, t, "SUSPEND") /\ Has(sched', t, "READY") => sched' = ResumedSched(t)]_vars

\* An interrupt handler runs on the idle thread from its start to its end, so
\* that the context saved at its start is the one restored at its end.
HandlerKeepsIdle ==
    [][inIntr => cur = Idle /\ (inIntr' => cur' = Idle)]_vars

\* A reschedule leaves the CPU to the best thread: when dispatching is possible,
\* the thread that runs afterwards has no better one ready.
BestThreadRuns ==
    [][phase = "resched" /\ phase' = "run" /\ DispatchEnabled /\ ~inIntr =>
        /\ Has(sched', cur', "RUNNING")
        /\ \A t \in AllThreads :
              Has(sched', t, "READY") => sched'.prio[cur'] <= sched'.prio[t]]_vars

\* The CPU only goes to a thread that was ready for it.
OnlyReadyThreadsRun ==
    [][cur' \notin {cur, NoThread} => Has(sched, cur', "READY")]_vars
=============================================================================
