----------------------------- MODULE KernelMutex -----------------------------
(***************************************************************************)
(* Mutexes, Core/HLE/sceKernelMutex.cpp, on the thread manager.            *)
(*                                                                         *)
(* The owner of a mutex is noted twice: in the mutex (lockThread) and in   *)
(* the multimap mutexHeldLocks, from which the locks of a thread that ends *)
(* are given up.  Like the semaphores, waitingThreads keeps threads whose  *)
(* wait timed out or was released; until such a thread runs it still       *)
(* counts as waiting, and may be given the mutex.                          *)
(***************************************************************************)
EXTENDS KernelThread, WaitLists

CONSTANTS
    Creations,      \* the arguments of sceKernelCreateMutex() that programs use
    Counts,         \* the counts that programs lock and unlock with
    MaxLevel,       \* the largest int: lockLevel overflows beyond it
    MaxLockEvents   \* bound: time-out events scheduled for one thread

ASSUME MutexAssumption ==
    /\ IsFiniteSet(Objects)
    /\ MaxLevel \in Nat \ {0}
    /\ Counts \subseteq 1 .. MaxLevel
    /\ Creations \subseteq [fifo : BOOLEAN, recursive : BOOLEAN, init : 0 .. MaxLevel]
    /\ \A c \in Creations : c.init > 1 => c.recursive
    /\ MaxLockEvents \in Nat

VARIABLES
    mutexes,        \* the mutexes: fields of Mutex and its nm; no lockThread: NoThread
    heldLocks,      \* mutexHeldLocks: how often it has the pair of thread and mutex
    lockAsks,       \* waitValue, timeoutPtr # 0 and what a mutex told the thread
    lockTimers      \* how many time-out events are scheduled per thread

mutexVars == <<mutexes, heldLocks, lockAsks, lockTimers>>
allVars == <<vars, mutexVars>>

NoMutex == [exists |-> FALSE, fifo |-> TRUE, recursive |-> FALSE, level |-> 0,
            owner |-> NoThread, waiting |-> <<>>]

Told == {"nothing", "granted", "error"}
NoAsk == [want |-> 0, timed |-> FALSE, told |-> "nothing"]

MutexExists(m) == mutexes[m].exists

\* The threads that still count as waiting for m.
Asking(s, m) == {t \in Threads : VerifyWait(s, t, "MUTEX", m)}

\* waitInfo is read only while the wait is one for a mutex.
CurrentAsks(s) == [t \in Threads |-> IF s.wait[t].type = "MUTEX" THEN lockAsks[t] ELSE NoAsk]

MutexInit ==
    /\ Init
    /\ mutexes = [m \in Objects |-> NoMutex]
    /\ heldLocks = [t \in AllThreads |-> [m \in Objects |-> 0]]
    /\ lockAsks = [t \in Threads |-> NoAsk]
    /\ lockTimers = [t \in Threads |-> 0]
-----------------------------------------------------------------------------
(* Locks *)

\* __KernelMutexAcquireLock(): the mutex, and mutexHeldLocks.
Acquired(mutex, count, t) == [mutex EXCEPT !.level = count, !.owner = t]
AcquireLock(held, m, t) == [held EXCEPT ![t][m] = @ + 1]

\* Mutant of EraseLock: mutexHeldLocks keeps the lock.
EraseLockForgetsHeld(held, m) == held

\* __KernelMutexEraseLock(): what is left of mutexHeldLocks.
EraseLock(held, m) ==
    LET owner == mutexes[m].owner
    IN  IF owner = NoThread \/ held[owner][m] = 0 THEN held
        ELSE [held EXCEPT ![owner][m] = @ - 1]

\* Mutant of Answer: the time-outs of all threads are cancelled.
AnswerCancelsAll(threads, told) ==
    /\ lockAsks' = [t \in Threads |-> IF t \in threads THEN [lockAsks[t] EXCEPT !.told = told]
                                      ELSE CurrentAsks(sched')[t]]
    /\ lockTimers' = [t \in Threads |-> 0]

\* __KernelUnlockMutexForThread(): what the threads that it resumes are told, and
\* the end of their time-outs.
Answer(threads, told) ==
    /\ lockAsks' = [t \in Threads |-> IF t \in threads THEN [lockAsks[t] EXCEPT !.told = told]
                                      ELSE CurrentAsks(sched')[t]]
    /\ lockTimers' = [t \in Threads |-> IF t \in threads /\ lockAsks[t].timed THEN 0
                                        ELSE lockTimers[t]]

\* The order in which UnlockMutex() takes threads from the list w: as they are, or by
\* priority, where a thread that was deleted has priority 0.
ComesBefore(m, w, t, u) ==
    LET prio(v) == IF Exists(sched, v) THEN sched.prio[v] ELSE 0
    IN  IF mutexes[m].fifo THEN t \in Ahead(w, u)
        ELSE prio(t) < prio(u) \/ (prio(t) = prio(u) /\ t \in Ahead(w, u))

\* Mutant of NextOwners: whoever is at the front of the list gets the mutex, even if
\* it does not wait any more.
NextOwnersFront(m, w) == IF w = <<>> THEN {NoThread} ELSE {w[1]}

\* Mutant of NextOwners: the order of the list counts also when it should be the
\* priorities.
NextOwnersInOrder(m, w) ==
    LET asking == ToSet(w) \intersect Asking(sched, m)
    IN  IF asking = {} THEN {NoThread} ELSE {t \in asking : Ahead(w, t) \intersect asking = {}}

\* Who gets the mutex m when it is unlocked, w being its list: the only member of the
\* set.  Threads are taken from the list until one still counts as waiting.
NextOwners(m, w) ==
    LET asking == ToSet(w) \intersect Asking(sched, m)
    IN  IF asking = {} THEN {NoThread}
        ELSE {t \in asking : \A u \in asking \ {t} : ComesBefore(m, w, t, u)}

\* Mutant of StillListed: the list is cleared when somebody got the mutex.
StillListedNobody(m, w, next) == <<>>

\* Those that were not taken from the list.
StillListed(m, w, next) ==
    IF next = NoThread THEN <<>>
    ELSE InOrder(w, {u \in Threads : ComesBefore(m, w, next, u)})

\* The owners that the mutexes of the set given can have next, when their lists are
\* lists[m].
Heirs(given, lists) ==
    {next \in [given -> Threads \union {NoThread}] :
        \A m \in given : next[m] \in NextOwners(m, lists[m])}

\* The new owners among next, in the order in which they get their mutexes.
Woken(next, order) == InOrder([i \in DOMAIN order |-> next[order[i]]], Threads)

\* __KernelUnlockMutex() for each mutex of DOMAIN next, at the level 0.
UnlockMutex(next, lists) ==
    /\ mutexes' = [m \in Objects |->
            LET mutex == [mutexes[m] EXCEPT !.waiting = lists[m]]
            IN  IF m \notin DOMAIN next THEN mutex
                ELSE [Acquired(mutex, IF next[m] = NoThread THEN 0 ELSE lockAsks[next[m]].want,
                               next[m]) EXCEPT !.waiting = StillListed(m, lists[m], next[m])]]
    /\ heldLocks' = [t \in AllThreads |-> [m \in Objects |->
            LET left == EraseLock(heldLocks, m)
            IN  IF m \notin DOMAIN next THEN heldLocks[t][m]
                ELSE IF next[m] = t THEN left[t][m] + 1 ELSE left[t][m]]]
    /\ Answer({next[m] : m \in DOMAIN next}, "granted")

Waiting == [m \in Objects |-> mutexes[m].waiting]

\* What the thread manager keeps in a call that changes sched and phase only.
ThreadsKept == UNCHANGED <<wakeupCount, endWaiters, timers, dispatch, suspender, intrVars>>

\* Every waiting thread of the list w is told an error.
Dismiss(m, w) ==
    LET woken == ToSet(w) \intersect Asking(sched, m) IN
    /\ sched' = ResumeAll(sched, w, "MUTEX", m)
    /\ Answer(woken, "error")
    /\ phase' = IF woken = {} THEN phase ELSE "resched"
    /\ ThreadsKept
-----------------------------------------------------------------------------
(* The system calls *)

CreateMutex(m, arguments) ==
    LET mutex == [exists |-> TRUE, fifo |-> arguments.fifo, recursive |-> arguments.recursive,
                  level |-> 0, owner |-> NoThread, waiting |-> <<>>]
    IN  /\ SomeoneRuns
        /\ ~MutexExists(m)
        /\ IF arguments.init = 0
           THEN mutexes' = [mutexes EXCEPT ![m] = mutex] /\ UNCHANGED heldLocks
           ELSE /\ mutexes' = [mutexes EXCEPT ![m] = Acquired(mutex, arguments.init, cur)]
                /\ heldLocks' = AcquireLock(heldLocks, m, cur)
        /\ UNCHANGED <<vars, lockAsks, lockTimers>>

DeleteMutex(m) ==
    /\ SomeoneRuns
    /\ MutexExists(m)
    /\ Dismiss(m, mutexes[m].waiting)
    /\ mutexes' = [mutexes EXCEPT ![m] = NoMutex]
    /\ heldLocks' = EraseLock(heldLocks, m)

LegalCount(m, count) == count = 1 \/ mutexes[m].recursive

\* __KernelLockMutexCheck(): the count does not overflow, and then whether the lock
\* is to be had, or else the thread must wait.
Fits(m, count) == mutexes[m].level + count <= MaxLevel

Lockable(m) ==
    IF mutexes[m].owner = cur THEN mutexes[m].recursive ELSE mutexes[m].level = 0

\* __KernelLockMutex() when it need not wait.
TakeLock(m, count) ==
    /\ MutexExists(m) /\ LegalCount(m, count) /\ Fits(m, count)
    /\ Lockable(m)
    /\ IF mutexes[m].level = 0
       THEN /\ mutexes' = [mutexes EXCEPT ![m] = Acquired(@, count, cur)]
            /\ heldLocks' = AcquireLock(heldLocks, m, cur)
       ELSE mutexes' = [mutexes EXCEPT ![m].level = @ + count] /\ UNCHANGED heldLocks
    /\ UNCHANGED <<vars, lockAsks, lockTimers>>

TryLockMutex(m, count) == SomeoneRuns /\ TakeLock(m, count)

\* sceKernelLockMutex() when it waits.
LockMutex(m, count, timeout) ==
    /\ MayWait
    /\ MutexExists(m) /\ LegalCount(m, count) /\ Fits(m, count)
    /\ ~Lockable(m) /\ mutexes[m].owner # cur
    /\ mutexes' = [mutexes EXCEPT ![m].waiting = Listed(@, cur)]
    /\ IF timeout
       THEN /\ lockTimers[cur] < MaxLockEvents
            /\ lockTimers' = [lockTimers EXCEPT ![cur] = @ + 1]
       ELSE UNCHANGED lockTimers
    /\ sched' = WaitCurThread(sched, "MUTEX", m)
    /\ lockAsks' = [lockAsks EXCEPT ![cur] =
                        [want |-> count, timed |-> timeout, told |-> "nothing"]]
    /\ phase' = "resched"
    /\ ThreadsKept /\ UNCHANGED heldLocks

MayUnlock(m, count) ==
    /\ MutexExists(m) /\ LegalCount(m, count)
    /\ mutexes[m].owner = cur
    /\ mutexes[m].level >= count

\* sceKernelUnlockMutex(): a level is left, or the mutex is passed on.
UnlockSome(m, count) ==
    /\ SomeoneRuns
    /\ MayUnlock(m, count) /\ mutexes[m].level > count
    /\ mutexes' = [mutexes EXCEPT ![m].level = @ - count]
    /\ UNCHANGED <<vars, heldLocks, lockAsks, lockTimers>>

UnlockAll(m) ==
    /\ SomeoneRuns
    /\ MayUnlock(m, mutexes[m].level)
    /\ \E next \in Heirs({m}, Waiting) :
          /\ sched' = ResumeAll(sched, Woken(next, <<m>>), "MUTEX", m)
          /\ UnlockMutex(next, Waiting)
          /\ phase' = IF next[m] = NoThread THEN phase ELSE "resched"
    /\ ThreadsKept

\* A count of 0 or less frees the mutex, another one locks it for the caller.  One
\* that would overflow, or relock a mutex that is not recursive, is accepted.
CancelMutex(m, count) ==
    /\ SomeoneRuns
    /\ MutexExists(m) /\ (count = 0 \/ LegalCount(m, count))
    /\ \E w \in CleanedUp(mutexes[m].waiting, Asking(sched, m)) : Dismiss(m, w)
    /\ LET mutex == [mutexes[m] EXCEPT !.waiting = <<>>]
           held == EraseLock(heldLocks, m)
       IN  IF count = 0
           THEN /\ mutexes' = [mutexes EXCEPT ![m] = Acquired(mutex, 0, NoThread)]
                /\ heldLocks' = held
           ELSE /\ mutexes' = [mutexes EXCEPT ![m] = Acquired(mutex, count, cur)]
                /\ heldLocks' = AcquireLock(held, m, cur)

ReferMutexStatus(m) ==
    /\ SomeoneRuns
    /\ MutexExists(m)
    /\ \E w \in CleanedUp(mutexes[m].waiting, Asking(sched, m)) :
          mutexes' = [mutexes EXCEPT ![m].waiting = w]
    /\ UNCHANGED <<vars, heldLocks, lockAsks, lockTimers>>

\* __KernelMutexTimeout(): only the type of the wait is looked at, so the event may be
\* left over from a wait that was released.
MutexTimeout(t) ==
    /\ lockTimers[t] > 0
    /\ lockTimers' = [lockTimers EXCEPT ![t] = @ - 1]
    /\ IF Exists(sched, t) /\ sched.wait[t].type = "MUTEX" /\ MutexExists(sched.wait[t].id)
       THEN /\ sched' = ResumeFromWait(sched, t)
            /\ lockAsks' = [lockAsks EXCEPT ![t].told = "error"]
            /\ phase' = "resched"
       ELSE UNCHANGED <<sched, lockAsks, phase>>
    /\ ThreadsKept /\ UNCHANGED <<mutexes, heldLocks>>
-----------------------------------------------------------------------------
(* The end of a thread *)

\* __KernelMutexThreadEnd(): t waits no more.
WaitingWithout(t) ==
    [m \in Objects |-> IF sched.wait[t] = [type |-> "MUTEX", id |-> m] /\ MutexExists(m)
                       THEN InOrder(mutexes[m].waiting, Threads \ {t})
                       ELSE mutexes[m].waiting]

\* The calls that end t, when its listeners have made s of sched.
Ends(t, s) ==
    LET stopped == StoppedFrom(s, t) IN
    \/ /\ MayExit /\ t = cur
       /\ Stop(t, stopped) \/ Stop(t, Deleted(stopped, t))
       /\ phase' = "resched"
    \/ /\ SomeoneRuns /\ t \in Others /\ ~Has(sched, t, "DORMANT")
       /\ \/ Stop(t, [stopped EXCEPT !.prio[t] = InitialPriority[t]])
          \/ Stop(t, Deleted(stopped, t))
       /\ UNCHANGED phase

\* It also gives up its locks, in the order that mutexHeldLocks has them.
EndThread(t) ==
    LET held == {m \in Objects : heldLocks[t][m] > 0} IN
    \E order \in SetToSeqs(held), next \in Heirs(held, WaitingWithout(t)) :
        LET woken == Woken(next, order) IN
        /\ Ends(t, ResumeEach(sched, woken, ToSet(woken)))
        /\ UnlockMutex(next, WaitingWithout(t))

\* Every other step of the thread manager.
ThreadStep ==
    /\ Next
    /\ \A t \in Threads : sched.status[t] \notin {{}, {"DORMANT"}} =>
                             sched'.status[t] \notin {{}, {"DORMANT"}}
    /\ lockAsks' = CurrentAsks(sched')
    /\ UNCHANGED <<mutexes, heldLocks, lockTimers>>

MutexNext ==
    \/ ThreadStep
    \/ \E t \in Threads : EndThread(t) \/ MutexTimeout(t)
    \/ \E m \in Objects :
        \/ \E arguments \in Creations : CreateMutex(m, arguments)
        \/ DeleteMutex(m) \/ UnlockAll(m) \/ ReferMutexStatus(m)
        \/ \E count \in Counts \union {0} : CancelMutex(m, count)
        \/ \E count \in Counts : TryLockMutex(m, count) \/ UnlockSome(m, count)
        \/ \E count \in Counts, timeout \in BOOLEAN : LockMutex(m, count, timeout)

MutexSpec == MutexInit /\ [][MutexNext]_allVars
-----------------------------------------------------------------------------
(* Properties *)

\* The variables have the types of the C++ state, and no thread is twice in a list.
MutexTypeOK ==
    /\ mutexes \in [Objects -> [exists : BOOLEAN, fifo : BOOLEAN, recursive : BOOLEAN,
                               level : 0 .. MaxLevel, owner : AllThreads \union {NoThread},
                               waiting : Seq(Threads)]]
    /\ \A m \in Objects : IsInjective(mutexes[m].waiting)
    /\ heldLocks \in [AllThreads -> [Objects -> Nat]]
    /\ lockAsks \in [Threads -> [want : Counts \union {0}, timed : BOOLEAN, told : Told]]
    /\ lockTimers \in [Threads -> 0 .. MaxLockEvents]

\* The locks are noted alike everywhere: a mutex is locked exactly when it has an
\* owner, mutexHeldLocks has it once and for this owner ("wasn't removed from
\* mutexHeldLocks properly"), and the owner has not ended.
LocksAgree ==
    \A m \in Objects :
        /\ mutexes[m].level > 0 <=> mutexes[m].owner # NoThread
        /\ \A t \in AllThreads : heldLocks[t][m] = IF mutexes[m].owner = t THEN 1 ELSE 0
        /\ mutexes[m].owner \in Threads =>
              sched.status[mutexes[m].owner] \notin {{}, {"DORMANT"}}

\* Whoever waits for a mutex is in the list of one that exists, and that another
\* thread has locked: no unlock, end, cancellation or deletion misses it.
LockWaiterListed ==
    \A m \in Objects, t \in Threads :
        IsWaitingFor(sched, t, "MUTEX", m) =>
            /\ MutexExists(m) /\ Contains(mutexes[m].waiting, t)
            /\ mutexes[m].owner \notin {NoThread, t}

\* A wait with a time-out has an event that will end it, whatever other waits of
\* the thread were released, timed out or granted before.
TimedLockEnds ==
    \A m \in Objects, t \in Threads :
        IsWaitingFor(sched, t, "MUTEX", m) /\ lockAsks[t].timed => lockTimers[t] > 0

\* A thread that is given a mutex is the first of those who wait for it, in the order
\* of the list or by priority, whoever else was released, suspended or timed out.
FirstIsNext ==
    [][\A m \in Objects, t \in Threads :
          lockAsks'[t].told = "granted" /\ lockAsks[t].told # "granted"
            /\ VerifyWait(sched, t, "MUTEX", m) =>
              ~\E u \in Threads : /\ IsWaitingFor(sched', u, "MUTEX", m)
                                  /\ ComesBefore(m, mutexes[m].waiting, u, t)]_allVars
-----------------------------------------------------------------------------
(* The refinement: a request is an entry of the list that still counts. *)

Abstract == INSTANCE Mutex WITH
    Mutexes <- Objects,
    Owners <- AllThreads,
    Nobody <- NoThread,
    owner <- [m \in Objects |-> mutexes[m].owner],
    level <- [m \in Objects |-> mutexes[m].level],
    request <- [m \in Objects |-> [t \in Threads |->
                   IF Contains(mutexes[m].waiting, t) /\ VerifyWait(sched, t, "MUTEX", m)
                   THEN lockAsks[t].want ELSE 0]],
    told <- [t \in Threads |-> lockAsks[t].told]

\* A mutex has one owner, goes to those who asked for it, and is never left free
\* while somebody asks.
ImplementsMutex == Abstract!Spec
=============================================================================
