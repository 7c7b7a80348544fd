----------------------------- MODULE KernelSema -----------------------------
(***************************************************************************)
(* Semaphores, Core/HLE/sceKernelSemaphore.cpp, on the thread manager.     *)
(*                                                                         *)
(* waitingThreads is cleaned lazily: a thread whose wait timed out or was  *)
(* released stays in it, and until it gets the CPU it still counts as      *)
(* waiting (VerifyWait), so that a signal, a cancellation or a deletion    *)
(* can change what it is told.                                             *)
(*                                                                         *)
(* A time-out runs __KernelReSchedule() before it looks at the other       *)
(* waiting threads, and that executes further events: timedOut holds the   *)
(* time-outs that are in this middle, the innermost first.                 *)
(***************************************************************************)
EXTENDS KernelThread, WaitLists

CONSTANTS
    Creations,      \* the arguments of sceKernelCreateSema() that programs use
    Wanted,         \* the counts that programs wait for
    Signals,        \* the counts that programs signal
    MaxSemaEvents   \* bound: time-out events scheduled for one thread

ASSUME SemaAssumption ==
    /\ Creations \subseteq [fifo : BOOLEAN, init : Nat, max : Nat]
    /\ Wanted \subseteq Nat \ {0}
    /\ Signals \subseteq Nat \ {0}
    /\ MaxSemaEvents \in Nat

VARIABLES
    semas,          \* the semaphores: fields of Semaphore and its ns
    asks,           \* waitValue, timeoutPtr # 0 and what a semaphore told the thread
    semaTimers,     \* how many time-out events are scheduled per thread
    timedOut        \* __KernelSemaTimeout() calls in their nested reschedule

semaVars == <<semas, asks, semaTimers, timedOut>>
allVars == <<vars, semaVars>>

NoSema == [exists |-> FALSE, fifo |-> TRUE, init |-> 0, max |-> 0, count |-> 0, waiting |-> <<>>]

Told == {"nothing", "granted", "error"}
NoAsk == [want |-> 0, timed |-> FALSE, told |-> "nothing"]

SemaExists(s) == semas[s].exists

\* The threads that still count as waiting for s.
Asking(sd, s) == {t \in Threads : VerifyWait(sd, t, "SEMA", s)}

\* waitInfo is read only while the wait is one for a semaphore.
CurrentAsks(sd) == [t \in Threads |-> IF sd.wait[t].type = "SEMA" THEN asks[t] ELSE NoAsk]

SemaInit ==
    /\ Init
    /\ semas = [s \in Objects |-> NoSema]
    /\ asks = [t \in Threads |-> NoAsk]
    /\ semaTimers = [t \in Threads |-> 0]
    /\ timedOut = <<>>
-----------------------------------------------------------------------------
(* __KernelUnlockSemaForThread() *)

\* Mutant of Takes: the last units are never handed out.
TakesLess(left, t, asking) == t \in asking /\ asks[t].want < left

\* Whether t, when it is looked at, gets its units of those that are left.
Takes(left, t, asking) == t \in asking /\ asks[t].want <= left

\* Mutant of LeftAfter: whatever a thread asked for, it takes one unit.
LeftAfterOneEach(count, w, asking) ==
    {left \in [0 .. Len(w) -> 0 .. count] :
        /\ left[0] = count
        /\ \A i \in DOMAIN w :
              left[i] = left[i - 1] - (IF Takes(left[i - 1], w[i], asking) THEN 1 ELSE 0)}

\* left[i] is what is left of count after i threads of w, looked at in turn.  The only
\* member of the set.
LeftAfter(count, w, asking) ==
    {left \in [0 .. Len(w) -> 0 .. count] :
        /\ left[0] = count
        /\ \A i \in DOMAIN w :
              left[i] = left[i - 1] - (IF Takes(left[i - 1], w[i], asking) THEN asks[w[i]].want ELSE 0)}

\* The threads of w that got their units.
Granted(left, w, asking) == {w[i] : i \in {j \in DOMAIN w : Takes(left[j - 1], w[j], asking)}}

\* Mutant of Answer: the time-outs of all threads are cancelled.
AnswerCancelsAll(sd, s, w, told) ==
    /\ sched' = ResumeAll(sd, w, "SEMA", s)
    /\ asks' = [t \in Threads |-> IF t \in ToSet(w) THEN [asks[t] EXCEPT !.told = told]
                                  ELSE CurrentAsks(sd)[t]]
    /\ semaTimers' = [t \in Threads |-> 0]
    /\ UNCHANGED <<wakeupCount, endWaiters, timers, dispatch, suspender, intrVars>>

\* Resumes the threads of the sequence w with the result told, and cancels their
\* time-outs.
Answer(sd, s, w, told) ==
    /\ sched' = ResumeAll(sd, w, "SEMA", s)
    /\ asks' = [t \in Threads |-> IF t \in ToSet(w) THEN [asks[t] EXCEPT !.told = told]
                                  ELSE CurrentAsks(sd)[t]]
    /\ semaTimers' = [t \in Threads |-> IF t \in ToSet(w) /\ asks[t].timed THEN 0
                                        ELSE semaTimers[t]]
    /\ UNCHANGED <<wakeupCount, endWaiters, timers, dispatch, suspender, intrVars>>
-----------------------------------------------------------------------------
(* The system calls *)

CreateSema(s, arguments) ==
    /\ SomeoneRuns
    /\ ~SemaExists(s)
    /\ semas' = [semas EXCEPT ![s] = [exists |-> TRUE, fifo |-> arguments.fifo,
                                      init |-> arguments.init, max |-> arguments.max,
                                      count |-> arguments.init, waiting |-> <<>>]]
    /\ UNCHANGED <<vars, asks, semaTimers, timedOut>>

\* __KernelClearSemaThreads(): every waiting thread gets an error, and no units.
ClearSemaThreads(s) ==
    LET woken == InOrder(semas[s].waiting, Asking(sched, s)) IN
    /\ Answer(sched, s, woken, "error")
    /\ phase' = IF woken = <<>> THEN phase ELSE "resched"
    /\ UNCHANGED timedOut

DeleteSema(s) ==
    /\ SomeoneRuns
    /\ SemaExists(s)
    /\ ClearSemaThreads(s)
    /\ semas' = [semas EXCEPT ![s] = NoSema]

\* A negative count stands for the initial one.
CancelSema(s, count) ==
    /\ SomeoneRuns
    /\ SemaExists(s)
    /\ count = semas[s].init \/ count <= semas[s].max
    /\ ClearSemaThreads(s)
    /\ semas' = [semas EXCEPT ![s].count = count, ![s].waiting = <<>>]

\* std::stable_sort() by __KernelThreadSortPriority(), for which a thread that was
\* deleted has priority 0: the only member of the set.
Sorted(w) ==
    LET prio(t) == IF Exists(sched, t) THEN sched.prio[t] ELSE 0
        precedes(t, u) == prio(t) < prio(u) \/ (prio(t) = prio(u) /\ t \in Ahead(w, u))
    IN  {v \in [DOMAIN w -> ToSet(w)] :
            /\ ToSet(v) = ToSet(w)
            /\ \A i, j \in DOMAIN v : i < j => precedes(v[i], v[j])}

\* Mutant of StillListed: a thread that was granted its units is not erased.
StillListedWithGranted(w, asking, granted) == InOrder(w, asking)

\* What a signal leaves of the list w: an entry that does not count any more is
\* erased like one that was granted its units.
StillListed(w, asking, granted) == InOrder(w, asking \ granted)

\* Each waiting thread in turn gets its units if they are there; the ones behind
\* it are still looked at if they are not.
SignalSema(s, signal) ==
    LET sema == semas[s]
        asking == Asking(sched, s)
        total == sema.count + signal
    IN  /\ SomeoneRuns
        /\ SemaExists(s)
        /\ total - Len(sema.waiting) <= sema.max
        /\ \E w \in IF sema.fifo THEN {sema.waiting} ELSE Sorted(sema.waiting) :
           \E left \in LeftAfter(total, w, asking) :
              LET granted == Granted(left, w, asking) IN
              /\ semas' = [semas EXCEPT ![s].count = left[Len(w)],
                                        ![s].waiting = StillListed(w, asking, granted)]
              /\ Answer(sched, s, InOrder(w, granted), "granted")
              /\ phase' = IF granted = {} THEN phase ELSE "resched"
        /\ UNCHANGED timedOut

\* sceKernelPollSema(), and sceKernelWaitSema() when it need not wait.
TakeUnits(s, wanted) ==
    /\ SemaExists(s)
    /\ semas[s].count >= wanted /\ semas[s].waiting = <<>>
    /\ semas' = [semas EXCEPT ![s].count = @ - wanted]
    /\ UNCHANGED <<vars, asks, semaTimers, timedOut>>

PollSema(s, wanted) == SomeoneRuns /\ TakeUnits(s, wanted)

\* sceKernelWaitSema() when it waits.  The thread keeps its place if an earlier
\* wait left it in the list.
WaitSema(s, wanted, timeout) ==
    LET sema == semas[s] IN
    /\ MayWait
    /\ SemaExists(s)
    /\ wanted <= sema.max
    /\ sema.count < wanted \/ sema.waiting # <<>>
    /\ semas' = [semas EXCEPT ![s].waiting = Listed(@, cur)]
    /\ IF timeout
       THEN /\ semaTimers[cur] < MaxSemaEvents
            /\ semaTimers' = [semaTimers EXCEPT ![cur] = @ + 1]
       ELSE UNCHANGED semaTimers
    /\ sched' = WaitCurThread(sched, "SEMA", s)
    /\ asks' = [asks EXCEPT ![cur] = [want |-> wanted, timed |-> timeout, told |-> "nothing"]]
    /\ phase' = "resched"
    /\ UNCHANGED <<wakeupCount, endWaiters, timers, dispatch, suspender, intrVars, timedOut>>

ReferSemaStatus(s) ==
    /\ SomeoneRuns
    /\ SemaExists(s)
    /\ \E w \in CleanedUp(semas[s].waiting, Asking(sched, s)) :
          semas' = [semas EXCEPT ![s].waiting = w]
    /\ UNCHANGED <<vars, asks, semaTimers, timedOut>>
-----------------------------------------------------------------------------
(* Time-outs *)

\* __KernelSemaTimeout() up to the nested reschedule in WaitExecTimeout().  The
\* event may be left over from a wait that was released: only the type of the
\* wait is looked at.
SemaTimeout(t) ==
    LET s == sched.wait[t].id IN
    /\ semaTimers[t] > 0
    /\ semaTimers' = [semaTimers EXCEPT ![t] = @ - 1]
    /\ IF Exists(sched, t) /\ sched.wait[t].type = "SEMA" /\ SemaExists(s)
       THEN /\ sched' = ResumeFromWait(sched, t)
            /\ asks' = [asks EXCEPT ![t].told = "error"]
            /\ timedOut' = <<[sema |-> s, phase |-> phase]>> \o timedOut
            /\ phase' = "resched"
       ELSE UNCHANGED <<sched, asks, timedOut, phase>>
    /\ UNCHANGED <<semas, wakeupCount, endWaiters, timers, dispatch, suspender, intrVars>>

\* The rest of it: the nested reschedule picks a thread; then, in FIFO order, every
\* waiting thread is unlocked "until the first that must still wait".
SemaTimeoutEnds ==
    LET s == timedOut[1].sema
        sema == semas[s]
        w == sema.waiting
        sd == IF inIntr \/ ~DispatchEnabled THEN sched ELSE NextThread(sched)
        asking == Asking(sd, s)
    IN  /\ timedOut # <<>>
        /\ \E left \in LeftAfter(sema.count, w, asking), n \in 0 .. IF sema.fifo THEN Len(w) ELSE 0 :
              LET mustWait(i) == w[i] \in asking /\ ~Takes(left[i - 1], w[i], asking)
                  tried == SubSeq(w, 1, n)
              IN  /\ \A i \in 1 .. n : ~mustWait(i)
                  /\ sema.fifo /\ n < Len(w) => mustWait(n + 1)
                  /\ semas' = [semas EXCEPT ![s].count = left[n],
                                            ![s].waiting = SubSeq(w, n + 1, Len(w))]
                  /\ Answer(sd, s, InOrder(tried, asking), "granted")
        /\ timedOut' = Tail(timedOut)
        /\ phase' = timedOut[1].phase
-----------------------------------------------------------------------------
(* What the thread manager does, with no system call between the halves of a *)
(* time-out.                                                                 *)
ThreadStep ==
    /\ Next
    /\ timedOut # <<>> => phase' = "resched"
    /\ asks' = CurrentAsks(sched')
    /\ UNCHANGED <<semas, semaTimers, timedOut>>

SemaNext ==
    \/ ThreadStep
    \/ \E s \in Objects :
        \/ \E arguments \in Creations : CreateSema(s, arguments)
        \/ DeleteSema(s)
        \/ \E count \in 0 .. semas[s].max \union {semas[s].init} : CancelSema(s, count)
        \/ \E signal \in Signals : SignalSema(s, signal)
        \/ \E wanted \in Wanted : PollSema(s, wanted)
        \/ \E wanted \in Wanted, timeout \in BOOLEAN : WaitSema(s, wanted, timeout)
        \/ ReferSemaStatus(s)
    \/ \E t \in Threads : SemaTimeout(t)
    \/ SemaTimeoutEnds

SemaSpec == SemaInit /\ [][SemaNext]_allVars
-----------------------------------------------------------------------------
(* Properties *)

\* The variables have the types of the C++ state, no thread is twice in a list of
\* waiting threads, and no system call runs in the middle of a time-out.
SemaTypeOK ==
    /\ semas \in [Objects -> [exists : BOOLEAN, fifo : BOOLEAN, init : Nat, max : Nat,
                             count : Nat, waiting : Seq(Threads)]]
    /\ \A s \in Objects : IsInjective(semas[s].waiting)
    /\ asks \in [Threads -> [want : Wanted \union {0}, timed : BOOLEAN, told : Told]]
    /\ semaTimers \in [Threads -> 0 .. MaxSemaEvents]
    /\ timedOut \in Seq([sema : Objects, phase : {"run", "resched"}])
    /\ timedOut # <<>> => phase = "resched"

\* Whoever waits for a semaphore is in the list of one that exists: no signal,
\* cancellation or deletion can miss it.
SemaWaiterListed ==
    \A s \in Objects, t \in Threads :
        IsWaitingFor(sched, t, "SEMA", s) => SemaExists(s) /\ Contains(semas[s].waiting, t)

\* A wait with a time-out has an event that will end it, whatever other waits of
\* the thread were released, timed out or granted before.
TimedWaitEnds ==
    \A s \in Objects, t \in Threads :
        IsWaitingFor(sched, t, "SEMA", s) /\ asks[t].timed => semaTimers[t] > 0

\* A thread that was granted its units, and did not run since, is not in the list
\* any more: it cannot be granted them twice for one wait.
GrantedOnce ==
    \A s \in Objects, t \in Threads :
        VerifyWait(sched, t, "SEMA", s) /\ asks[t].told = "granted" =>
            ~Contains(semas[s].waiting, t)

\* No wake-up is lost: when the count of a semaphore grows, nobody is left waiting
\* who could have it.
NobodyLeftBehind ==
    [][\A s \in Objects :
          semas[s].exists /\ semas'[s].count > semas[s].count =>
              \A t \in Threads :
                  IsWaitingFor(sched', t, "SEMA", s) => asks'[t].want > semas'[s].count]_allVars

\* "Unlock every waiting thread until the first that must still wait." is what the
\* time-out of a thread does for the ones behind it in FIFO order.
FirstMustWait ==
    [][SemaTimeoutEnds =>
        LET s == timedOut[1].sema
            waiting == {t \in Threads : IsWaitingFor(sched', t, "SEMA", s)}
            first == InOrder(semas'[s].waiting, waiting)
        IN  semas[s].fifo /\ first # <<>> => asks'[first[1]].want > semas'[s].count]_allVars

\* "If result is an error code, we're just letting it go." says of a thread that
\* is told an error that it has taken no units.
ErrorTakesNothing ==
    [][\A t \in Threads : asks[t].told = "granted" => asks'[t].told # "error"]_allVars
-----------------------------------------------------------------------------
(* The refinement: a request is an entry of the list that still counts. *)

Abstract == INSTANCE Semaphore WITH
    Semas <- Objects,
    count <- [s \in Objects |-> semas[s].count],
    request <- [s \in Objects |-> [t \in Threads |->
                   IF Contains(semas[s].waiting, t) /\ VerifyWait(sched, t, "SEMA", s)
                   THEN asks[t].want ELSE 0]],
    told <- [t \in Threads |-> asks[t].told]

\* Units are handed out at most once, to those who asked, as many as they asked for.
ImplementsSemaphore == Abstract!Spec
=============================================================================
