------------------------------ MODULE Scheduler ------------------------------
(***************************************************************************)
(* The scheduler of the HLE kernel (Core/HLE/sceKernelThread.cpp) as       *)
(* operators on one record, sched, that every kernel module shares:        *)
(*                                                                         *)
(*   status   the status bits of each thread; no bits: no such thread      *)
(*   prio     its current priority, smaller is better                      *)
(*   queue    threadReadyQueue, seen as ReadyQueue.tla specifies it        *)
(*   cur      currentThread, or NoThread after the current one was deleted *)
(*   wait     waitType and waitID of each thread                           *)
(*                                                                         *)
(* Of the two idle threads only idle0 is here: it goes back to the front   *)
(* of its queue, before idle1, whenever it is preempted.                   *)
(***************************************************************************)
EXTENDS Integers, FiniteSets, SequencesExt

CONSTANTS
    Threads,        \* ids of the threads that programs create
    Idle,           \* threadIdleID[0]
    NoThread,       \* the id 0
    Objects,        \* ids of the other kernel objects a thread can wait on
    Priorities,     \* the priorities programs may use: 0x08 .. 0x77
    IdlePriority    \* 0x7f

ASSUME SchedulerAssumption ==
    /\ Idle \notin Threads /\ NoThread \notin Threads /\ Idle # NoThread
    /\ Priorities \subseteq Nat /\ IdlePriority \in Nat
    /\ \A p \in Priorities : p < IdlePriority

AllThreads == Threads \union {Idle}
AllPriorities == Priorities \union {IdlePriority}

StatusBits == {"RUNNING", "READY", "WAIT", "SUSPEND", "DORMANT"}
WaitTypes == {"NONE", "SLEEP", "DELAY", "THREADEND", "SEMA", "MUTEX"}
Waits == [type : WaitTypes, id : AllThreads \union Objects \union {NoThread}]
NoWait == [type |-> "NONE", id |-> NoThread]

SchedType ==
    [status : [AllThreads -> SUBSET StatusBits],
     prio   : [AllThreads -> AllPriorities],
     queue  : [AllPriorities -> Seq(AllThreads)],
     cur    : AllThreads \union {NoThread},
     wait   : [AllThreads -> Waits]]

Exists(s, t) == t \in AllThreads /\ s.status[t] # {}
Has(s, t, bit) == bit \in s.status[t]
CurIsRunning(s) == s.cur # NoThread /\ Has(s, s.cur, "RUNNING")

\* VerifyWait(): the WAIT bit does not matter, so a thread that was resumed but
\* did not run yet still counts as waiting.
VerifyWait(s, t, type, id) == Exists(s, t) /\ s.wait[t] = [type |-> type, id |-> id]

\* Thread::isWaitingFor(): here it does.
IsWaitingFor(s, t, type, id) == Has(s, t, "WAIT") /\ VerifyWait(s, t, type, id)
-----------------------------------------------------------------------------
\* __KernelChangeReadyState(t, true)
MakeReady(s, t) ==
    IF Has(s, t, "READY") THEN s
    ELSE [s EXCEPT
            !.queue[s.prio[t]] = IF Has(s, t, "RUNNING") THEN <<t>> \o @ ELSE Append(@, t),
            !.status[t] = {"READY"}]

\* __KernelChangeReadyState(t, false): the status is left to the caller.
Unqueue(s, t) ==
    IF Has(s, t, "READY")
    THEN [s EXCEPT !.queue[s.prio[t]] = RemoveFirst(@, t)]
    ELSE s

\* Mutant of ResumeFromWait: a suspended thread becomes ready as well.
ResumeFromWaitIgnoringSuspend(s, t) == MakeReady([s EXCEPT !.status[t] = @ \ {"WAIT"}], t)

\* Thread::resumeFromWait(): waitType and waitID stay until the thread runs.
ResumeFromWait(s, t) ==
    LET woken == [s EXCEPT !.status[t] = @ \ {"WAIT"}]
    IN  IF woken.status[t] \intersect {"SUSPEND", "DORMANT"} = {}
        THEN MakeReady(woken, t)
        ELSE woken

\* The members of the sequence w that are in the set v, in their order in w.
InOrder(w, v) ==
    LET at == {i \in 1 .. Len(w) : w[i] \in v}
    IN  [k \in 1 .. Cardinality(at) |->
            w[CHOOSE i \in at : Cardinality({j \in at : j <= i}) = k]]

\* ResumeFromWait() of every thread of w that is in the set valid, one after the
\* other.  None of them is running, so each one that becomes ready is pushed to the
\* back.
ResumeEach(s, w, valid) ==
    LET woken == {t \in valid : s.status[t] = {"WAIT"}}
    IN  [s EXCEPT
            !.status = [t \in AllThreads |-> IF t \in woken THEN {"READY"}
                                             ELSE IF t \in valid THEN @[t] \ {"WAIT"}
                                             ELSE @[t]],
            !.queue = [p \in AllPriorities |->
                          @[p] \o InOrder(w, {t \in woken : s.prio[t] = p})]]

\* The loop over a waiting list: those that still wait for <<type, id>> are resumed.
ResumeAll(s, w, type, id) == ResumeEach(s, w, {t \in ToSet(w) : VerifyWait(s, t, type, id)})

\* __KernelWaitCurThread(), after its early return for a suspended dispatch,
\* with __KernelChangeThreadState().
WaitCurThread(s, type, id) ==
    LET t == s.cur
        waiting == [Unqueue(s, t) EXCEPT !.wait[t] = [type |-> type, id |-> id]]
    IN  [waiting EXCEPT !.status[t] = {"WAIT"} \union (@ \intersect {"SUSPEND"})]

\* Mutant of SwitchContext: the old thread is left as it was.
SwitchContextForgetsOld(s, t) ==
    LET entered == Unqueue([s EXCEPT !.cur = t], t)
    IN  [entered EXCEPT !.status[t] = (@ \union {"RUNNING"}) \ {"READY"},
                        !.wait[t] = NoWait]

\* Mutant of SwitchContext: the new thread still counts as ready.
SwitchContextKeepsReady(s, t) ==
    LET left == IF CurIsRunning(s) THEN MakeReady(s, s.cur) ELSE s
        entered == Unqueue([left EXCEPT !.cur = t], t)
    IN  [entered EXCEPT !.status[t] = @ \union {"RUNNING"}, !.wait[t] = NoWait]

\* __KernelSwitchContext(): the old thread, if still running, goes to the front
\* of its queue; the new one forgets what it waited for.
SwitchContext(s, t) ==
    LET left == IF CurIsRunning(s) THEN MakeReady(s, s.cur) ELSE s
        entered == Unqueue([left EXCEPT !.cur = t], t)
    IN  [entered EXCEPT !.status[t] = (@ \union {"RUNNING"}) \ {"READY"},
                        !.wait[t] = NoWait]

\* The priorities that __KernelNextThread() may pop from: any when the current
\* thread is not running, else only the better ones.
Candidates(s) ==
    {p \in AllPriorities : /\ s.queue[p] # <<>>
                           /\ CurIsRunning(s) => p < s.prio[s.cur]}

\* Mutant of NextThread: a thread that runs is never preempted.
NextThreadKeepsRunning(s) ==
    IF CurIsRunning(s) \/ Candidates(s) = {} THEN s
    ELSE LET best == Min(Candidates(s)) IN
         SwitchContext([s EXCEPT !.queue[best] = Tail(@)], Head(s.queue[best]))

\* __KernelNextThread() and the switch to its result.  It pops the thread and
\* then makes the current one ready, which is the first thing SwitchContext does.
NextThread(s) ==
    IF Candidates(s) = {} THEN s
    ELSE LET best == Min(Candidates(s)) IN
         SwitchContext([s EXCEPT !.queue[best] = Tail(@)], Head(s.queue[best]))

\* __KernelSwitchOffThread(): to the idle thread, unless it already runs.
SwitchOffThread(s) == IF s.cur = Idle THEN s ELSE SwitchContext(s, Idle)

\* Mutant of CanSwitchTo: any thread that exists is entered.
CanSwitchToExisting(s, t) == s.cur = Idle /\ t # Idle /\ Exists(s, t)

\* __KernelSwitchToThread(t) from the idle thread: it takes place when t can
\* run; otherwise the caller asks for a reschedule.
CanSwitchTo(s, t) ==
    /\ s.cur = Idle
    /\ t # Idle
    /\ Exists(s, t)
    /\ Has(s, t, "READY") \/ Has(s, t, "RUNNING")
-----------------------------------------------------------------------------
(* Properties of a sched record *)

\* The statuses a thread can be in between two kernel calls.
LegalStatus ==
    {{}, {"RUNNING"}, {"READY"}, {"WAIT"}, {"SUSPEND"}, {"WAIT", "SUSPEND"}, {"DORMANT"}}

\* threadReadyQueue "Lists only ready thread ids", and all of them, each once and
\* at its current priority: no ready thread is lost and no other one can be run.
ReadyQueued(s) ==
    \A p \in AllPriorities :
        /\ IsInjective(s.queue[p])
        /\ \A t \in AllThreads :
              Contains(s.queue[p], t) <=> Has(s, t, "READY") /\ s.prio[t] = p

\* Only the current thread is marked as running.
RunningIsCurrent(s) == \A t \in AllThreads : Has(s, t, "RUNNING") => t = s.cur

\* The idle thread is always there to run: __KernelNextThread() can never find
\* the queue empty ("ThreadQueueList should not be empty.").
IdleCanRun(s) ==
    /\ s.status[Idle] \in {{"RUNNING"}, {"READY"}}
    /\ s.prio[Idle] = IdlePriority
=============================================================================
