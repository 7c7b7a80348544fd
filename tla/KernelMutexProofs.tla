-------------------------- MODULE KernelMutexProofs --------------------------
(* The mutexes, for every set of threads and mutexes: the locks are noted    *)
(* alike everywhere, and no waiting thread is missed by an unlock, the end   *)
(* of an owner, a cancellation or a deletion, or waits beyond its time-out.  *)
(* Last, that they implement the mutexes of Mutex.tla.                       *)
EXTENDS KernelMutex, KernelWaitProofs

\* What is noted of a mutex.
MutexRecords == [exists : BOOLEAN, fifo : BOOLEAN, recursive : BOOLEAN, level : 0 .. MaxLevel,
                 owner : AllThreads \union {NoThread}, waiting : Seq(Threads)]

\* A mutex that does not exist is blank.
BlankUnlessExists == \A m \in Objects : ~MutexExists(m) => mutexes[m] = NoMutex

\* A thread that counts as waiting for a mutex has asked for a level and is alive.
WaitersAsk ==
    \A t \in Threads : sched.wait[t].type = "MUTEX" => lockAsks[t].want > 0 /\ Alive(sched, t)

\* The inductive invariant: the properties, the invariant of the thread manager, and
\* what makes a thread that is given a mutex a sound owner.
MutexInv ==
    /\ Inv
    /\ MutexTypeOK
    /\ BlankUnlessExists
    /\ LocksAgree
    /\ LockWaiterListed
    /\ TimedLockEnds
    /\ WaitersAsk

\* The invariant holds at first: no mutex exists and nobody waits.
LEMMA InitMutexInv == MutexInit => MutexInv
<1> SUFFICES ASSUME MutexInit PROVE MutexInv
  OBVIOUS
<1>1. Inv
  BY InitInv DEF MutexInit
<1>2. /\ mutexes = [m \in Objects |-> NoMutex]
      /\ heldLocks = [t \in AllThreads |-> [m \in Objects |-> 0]]
      /\ lockAsks = [t \in Threads |-> NoAsk]
      /\ lockTimers = [t \in Threads |-> 0]
      /\ sched.wait = [t \in AllThreads |-> NoWait]
  BY DEF MutexInit, Init
<1>3. \A t \in Threads : t \in AllThreads /\ sched.wait[t].type = "NONE"
  BY <1>2 DEF AllThreads, NoWait
<1>4. \A m \in Objects, t \in Threads : ~IsWaitingFor(sched, t, "MUTEX", m)
  BY <1>3 DEF IsWaitingFor, VerifyWait
<1>5. IsInjective(<<>>) /\ <<>> \in Seq(Threads)
  BY DEF IsInjective
<1>6. MutexTypeOK
  <2>1. \A m \in Objects : mutexes[m] = NoMutex
    BY <1>2
  <2>2. \A m \in Objects : IsInjective(mutexes[m].waiting)
    BY <1>5, <2>1 DEF NoMutex
  <2>3. NoMutex \in [exists : BOOLEAN, fifo : BOOLEAN, recursive : BOOLEAN,
                     level : 0 .. MaxLevel, owner : AllThreads \union {NoThread},
                     waiting : Seq(Threads)]
    BY <1>5, MutexAssumption DEF NoMutex
  <2>4. NoAsk \in [want : Counts \union {0}, timed : BOOLEAN, told : Told]
    BY DEF NoAsk, Told
  <2> QED
    BY <1>2, <2>2, <2>3, <2>4, MutexAssumption DEF MutexTypeOK
<1>7. LocksAgree
  BY <1>2, SchedulerAssumption DEF LocksAgree, NoMutex, AllThreads
<1>8. BlankUnlessExists /\ WaitersAsk
  BY <1>2, <1>3 DEF BlankUnlessExists, WaitersAsk
<1>9. LockWaiterListed /\ TimedLockEnds
  BY <1>4 DEF LockWaiterListed, TimedLockEnds
<1> QED
  BY <1>1, <1>6, <1>7, <1>8, <1>9 DEF MutexInv
-----------------------------------------------------------------------------
(* The waits *)

\* Whoever waits for a mutex after a step waited for it before.
LEMMA WaitedBefore ==
    ASSUME KeepsObjectWaits(sched, sched'), NEW t \in Threads, NEW m,
           IsWaitingFor(sched', t, "MUTEX", m)
    PROVE  IsWaitingFor(sched, t, "MUTEX", m)
<1>1. "MUTEX" \in ObjectWaits
  BY DEF ObjectWaits
<1> QED
  BY <1>1, ObjectWaitedBefore

\* What the threads have asked for is remembered as long as their waits count.
AsksKept ==
    \A t \in Threads : sched'.wait[t].type = "MUTEX" =>
        lockAsks'[t].want = lockAsks[t].want /\ lockAsks'[t].timed = lockAsks[t].timed

\* Nobody who goes on waiting loses an event.
TimersKept ==
    \A m \in Objects, t \in Threads :
        IsWaitingFor(sched', t, "MUTEX", m) => lockTimers'[t] = lockTimers[t]

\* A step that starts no wait for a mutex keeps what is said about the waits.
LEMMA WaitsStay ==
    ASSUME MutexInv, KeepsObjectWaits(sched, sched'), AsksKept, TimersKept, DeathForgets
    PROVE  TimedLockEnds' /\ WaitersAsk'
<1>1. TimedLockEnds'
  <2> SUFFICES ASSUME NEW m \in Objects, NEW t \in Threads,
                      IsWaitingFor(sched', t, "MUTEX", m), lockAsks'[t].timed
               PROVE  lockTimers'[t] > 0
    BY DEF TimedLockEnds
  <2>1. IsWaitingFor(sched, t, "MUTEX", m)
    BY WaitedBefore
  <2>2. sched'.wait[t].type = "MUTEX"
    BY DEF IsWaitingFor, VerifyWait
  <2>3. lockTimers'[t] = lockTimers[t] /\ lockAsks[t].timed
    BY <2>2 DEF AsksKept, TimersKept
  <2> QED
    BY <2>1, <2>3 DEF MutexInv, TimedLockEnds
<1>2. WaitersAsk'
  <2> SUFFICES ASSUME NEW t \in Threads, sched'.wait[t].type = "MUTEX"
               PROVE  lockAsks'[t].want > 0 /\ Alive(sched', t)
    BY DEF WaitersAsk, Alive
  <2>1. sched.wait[t].type = "MUTEX"
    BY DEF KeepsObjectWaits, ObjectWaits
  <2>2. lockAsks[t].want > 0 /\ Alive(sched, t)
    BY <2>1 DEF MutexInv, WaitersAsk
  <2>3. sched'.wait[t] # NoWait
    BY DEF NoWait
  <2> QED
    BY <2>2, <2>3 DEF AsksKept, DeathForgets
<1> QED
  BY <1>1, <1>2

\* When no mutex changes, whoever waited is still listed; nor did an owner end.
LEMMA MutexesStay ==
    ASSUME MutexInv, KeepsObjectWaits(sched, sched'), UNCHANGED <<mutexes, heldLocks>>,
           \A t \in Threads : Alive(sched, t) => Alive(sched', t)
    PROVE  BlankUnlessExists' /\ LocksAgree' /\ LockWaiterListed'
<1>1. BlankUnlessExists'
  BY DEF MutexInv, BlankUnlessExists, MutexExists
<1>2. LocksAgree'
  BY DEF MutexInv, LocksAgree, Alive
<1>3. LockWaiterListed'
  BY WaitedBefore DEF MutexInv, LockWaiterListed, MutexExists
<1> QED
  BY <1>1, <1>2, <1>3
-----------------------------------------------------------------------------
(* Steps that leave the mutexes alone *)

\* The types of what waits are remembered by.
LEMMA AsksTyped ==
    ASSUME MutexInv
    PROVE  /\ CurrentAsks(sched') \in [Threads -> [want : Counts \union {0}, timed : BOOLEAN, told : Told]]
           /\ lockAsks' = CurrentAsks(sched') /\ KeepsObjectWaits(sched, sched') => AsksKept
<1>1. NoAsk \in [want : Counts \union {0}, timed : BOOLEAN, told : Told]
  BY DEF NoAsk, Told
<1> QED
  BY <1>1 DEF CurrentAsks, AsksKept, MutexInv, MutexTypeOK

\* A step of the thread manager.
LEMMA ThreadStepMutexInv ==
    ASSUME Misuse = {}, MutexInv, ThreadStep
    PROVE  MutexInv'
<1>1. /\ Inv /\ Next /\ lockAsks' = CurrentAsks(sched')
      /\ UNCHANGED <<mutexes, heldLocks, lockTimers>>
      /\ \A t \in Threads : Alive(sched, t) => Alive(sched', t)
  BY DEF MutexInv, ThreadStep, Alive
<1>2. Inv' /\ KeepsObjectWaits(sched, sched')
  BY <1>1, NextInv, StepKeepsObjectWaits
<1>3. MutexTypeOK'
  BY <1>1, AsksTyped DEF MutexInv, MutexTypeOK
<1>4. AsksKept /\ TimersKept
  BY <1>1, <1>2, AsksTyped DEF TimersKept
<1>5. TimedLockEnds' /\ WaitersAsk'
  <2>1. DeathForgets \/ \E t \in Threads : Alive(sched, t) /\ ~Alive(sched', t)
    BY DEF DeathForgets
  <2> QED
    BY <1>1, <1>2, <1>4, <2>1, WaitsStay
<1> QED
  BY <1>1, <1>2, <1>3, <1>5, MutexesStay DEF MutexInv

\* A call that changes mutexes only.
LEMMA CallKeepsWaits ==
    ASSUME MutexInv, UNCHANGED <<vars, lockAsks, lockTimers>>
    PROVE  Inv' /\ TimedLockEnds' /\ WaitersAsk'
<1>1. Inv'
  BY QuietSelf, QuietStep DEF vars, MutexInv, Inv, ThreadInv
<1> QED
  BY <1>1 DEF vars, MutexInv, TimedLockEnds, WaitersAsk, Alive

\* sceKernelReferMutexStatus() cleans the list up.
LEMMA ReferMutexStatusInv ==
    ASSUME MutexInv, NEW m \in Objects, ReferMutexStatus(m)
    PROVE  MutexInv'
<1> DEFINE w == mutexes[m].waiting
<1>1. UNCHANGED <<vars, heldLocks, lockAsks, lockTimers>>
  BY DEF ReferMutexStatus
<1>2. PICK v \in CleanedUp(w, Asking(sched, m)) : mutexes' = [mutexes EXCEPT ![m].waiting = v]
  BY DEF ReferMutexStatus
<1>3. /\ v \in Seq(Threads) /\ IsInjective(v)
      /\ \A x : Contains(v, x) <=> Contains(w, x) /\ x \in Asking(sched, m)
  BY <1>2, CleanedUpFacts DEF MutexInv, MutexTypeOK
<1>4. MutexTypeOK'
  <2>1. mutexes \in [Objects -> MutexRecords] /\ \A n \in Objects : IsInjective(mutexes[n].waiting)
    BY DEF MutexInv, MutexTypeOK, MutexRecords
  <2>2. [mutexes[m] EXCEPT !.waiting = v] \in MutexRecords
    BY <1>3, <2>1 DEF MutexRecords
  <2>3. mutexes' \in [Objects -> MutexRecords]
    BY <1>2, <2>1, <2>2
  <2>4. \A n \in Objects : IsInjective(mutexes'[n].waiting)
    BY <1>2, <1>3, <2>1 DEF MutexRecords
  <2> QED
    BY <1>1, <2>3, <2>4 DEF MutexInv, MutexTypeOK, MutexRecords
<1>5. \A n \in Objects :
         /\ mutexes'[n].exists = mutexes[n].exists /\ mutexes'[n].owner = mutexes[n].owner
         /\ mutexes'[n].level = mutexes[n].level
         /\ mutexes'[n].waiting = IF n = m THEN v ELSE mutexes[n].waiting
         /\ n # m => mutexes'[n] = mutexes[n]
  BY <1>2 DEF MutexInv, MutexTypeOK
<1>6. MutexExists(m)
  BY DEF ReferMutexStatus
<1>7. BlankUnlessExists'
  BY <1>5, <1>6 DEF MutexInv, BlankUnlessExists, MutexExists
<1>8. LocksAgree'
  BY <1>1, <1>5 DEF MutexInv, LocksAgree, vars
<1>9. LockWaiterListed'
  <2> SUFFICES ASSUME NEW n \in Objects, NEW t \in Threads, IsWaitingFor(sched, t, "MUTEX", n)
               PROVE  /\ mutexes'[n].exists /\ Contains(mutexes'[n].waiting, t)
                      /\ mutexes'[n].owner \notin {NoThread, t}
    BY <1>1 DEF LockWaiterListed, MutexExists, vars
  <2>1. /\ mutexes[n].exists /\ Contains(mutexes[n].waiting, t)
        /\ mutexes[n].owner \notin {NoThread, t}
    BY DEF MutexInv, LockWaiterListed, MutexExists
  <2>2. n = m => t \in Asking(sched, m)
    BY DEF Asking, IsWaitingFor
  <2> QED
    BY <1>3, <1>5, <2>1, <2>2
<1> QED
  BY <1>1, <1>4, <1>7, <1>8, <1>9, CallKeepsWaits DEF MutexInv
-----------------------------------------------------------------------------
(* Locks *)

\* Erasing the lock of a mutex leaves none for it, and the others.
LEMMA EraseLockFacts ==
    ASSUME MutexInv, NEW m \in Objects
    PROVE  LET left == EraseLock(heldLocks, m) IN
           /\ left \in [AllThreads -> [Objects -> Nat]]
           /\ \A t \in AllThreads, n \in Objects : left[t][n] = IF n = m THEN 0 ELSE heldLocks[t][n]
<1> DEFINE owner == mutexes[m].owner
           left == EraseLock(heldLocks, m)
<1>1. /\ owner \in AllThreads \union {NoThread}
      /\ heldLocks \in [AllThreads -> [Objects -> Nat]]
      /\ \A t \in AllThreads : heldLocks[t][m] = IF owner = t THEN 1 ELSE 0
      /\ NoThread \notin AllThreads
  BY SchedulerAssumption DEF MutexInv, MutexTypeOK, LocksAgree, AllThreads
<1>2. left = IF owner = NoThread \/ heldLocks[owner][m] = 0 THEN heldLocks
             ELSE [heldLocks EXCEPT ![owner][m] = @ - 1]
  BY DEF EraseLock
<1> HIDE DEF owner, left
<1>3. CASE owner = NoThread
  BY <1>1, <1>2, <1>3 DEF left
<1>4. CASE owner # NoThread
  <2>1. owner \in AllThreads /\ heldLocks[owner][m] = 1
    BY <1>1, <1>4
  <2>2. left = [heldLocks EXCEPT ![owner][m] = 0]
    BY <1>1, <1>2, <1>4, <2>1
  <2> QED
    BY <1>1, <2>1, <2>2 DEF left
<1> QED
  BY <1>3, <1>4

\* One lock more.
LEMMA AcquireLockFacts ==
    ASSUME NEW held \in [AllThreads -> [Objects -> Nat]], NEW m \in Objects, NEW o \in AllThreads
    PROVE  LET more == AcquireLock(held, m, o) IN
           /\ more \in [AllThreads -> [Objects -> Nat]]
           /\ \A t \in AllThreads, n \in Objects :
                 more[t][n] = IF t = o /\ n = m THEN held[t][n] + 1 ELSE held[t][n]
BY DEF AcquireLock

\* Who makes a system call is alive.
LEMMA CallerAlive ==
    ASSUME Inv, SomeoneRuns
    PROVE  cur \in AllThreads /\ cur # NoThread /\ Alive(sched, cur)
<1>1. Runnable(sched) /\ cur \in AllThreads
  BY CallerRuns
<1> QED
  BY <1>1 DEF Runnable, Alive, cur

\* The part of the types that is about the mutexes.
MutexesTyped ==
    /\ mutexes \in [Objects -> MutexRecords]
    /\ \A m \in Objects : IsInjective(mutexes[m].waiting)
    /\ heldLocks \in [AllThreads -> [Objects -> Nat]]

\* The part about the asks.
AsksAreTyped ==
    /\ lockAsks \in [Threads -> [want : Counts \union {0}, timed : BOOLEAN, told : Told]]
    /\ lockTimers \in [Threads -> 0 .. MaxLockEvents]

\* A step that changes one mutex, to one that is noted alike everywhere and whose
\* waiting threads are listed.
LEMMA OneMutex ==
    ASSUME MutexInv, NEW m \in Objects, NEW mutex \in MutexRecords, IsInjective(mutex.waiting),
           mutexes' = [mutexes EXCEPT ![m] = mutex],
           heldLocks' \in [AllThreads -> [Objects -> Nat]],
           \A t \in AllThreads, n \in Objects :
               heldLocks'[t][n] = IF n = m THEN IF mutex.owner = t THEN 1 ELSE 0
                                  ELSE heldLocks[t][n],
           ~mutex.exists => mutex = NoMutex,
           mutex.level > 0 <=> mutex.owner # NoThread,
           mutex.owner \in Threads => Alive(sched', mutex.owner),
           \A t \in Threads : Alive(sched, t) => Alive(sched', t),
           \A t \in Threads : IsWaitingFor(sched', t, "MUTEX", m) =>
               mutex.exists /\ Contains(mutex.waiting, t) /\ mutex.owner \notin {NoThread, t},
           \A t \in Threads, n \in Objects \ {m} :
               IsWaitingFor(sched', t, "MUTEX", n) => IsWaitingFor(sched, t, "MUTEX", n)
    PROVE  MutexesTyped' /\ BlankUnlessExists' /\ LocksAgree' /\ LockWaiterListed'
<1>1. mutexes \in [Objects -> MutexRecords] /\ \A n \in Objects : IsInjective(mutexes[n].waiting)
  BY DEF MutexInv, MutexTypeOK, MutexRecords
<1>2. mutexes' \in [Objects -> MutexRecords] /\ \A n \in Objects : mutexes'[n] = IF n = m THEN mutex ELSE mutexes[n]
  BY <1>1
<1>3. MutexesTyped'
  BY <1>1, <1>2 DEF MutexesTyped
<1>4. BlankUnlessExists'
  BY <1>2 DEF MutexInv, BlankUnlessExists, MutexExists
<1>5. LocksAgree'
  <2> SUFFICES ASSUME NEW n \in Objects
               PROVE  /\ mutexes'[n].level > 0 <=> mutexes'[n].owner # NoThread
                      /\ \A t \in AllThreads : heldLocks'[t][n] = IF mutexes'[n].owner = t THEN 1 ELSE 0
                      /\ mutexes'[n].owner \in Threads => Alive(sched', mutexes'[n].owner)
    BY DEF LocksAgree, Alive
  <2>1. CASE n = m
    BY <1>2, <2>1
  <2>2. CASE n # m
    BY <1>2, <2>2 DEF MutexInv, LocksAgree, Alive
  <2> QED
    BY <2>1, <2>2
<1>6. LockWaiterListed'
  <2> SUFFICES ASSUME NEW n \in Objects, NEW t \in Threads, IsWaitingFor(sched', t, "MUTEX", n)
               PROVE  /\ mutexes'[n].exists /\ Contains(mutexes'[n].waiting, t)
                      /\ mutexes'[n].owner \notin {NoThread, t}
    BY DEF LockWaiterListed, MutexExists
  <2>1. CASE n = m
    BY <1>2, <2>1
  <2>2. CASE n # m
    BY <1>2, <2>2 DEF MutexInv, LockWaiterListed, MutexExists
  <2> QED
    BY <2>1, <2>2
<1> QED
  BY <1>3, <1>4, <1>5, <1>6

\* A mutex that was not locked is in mutexHeldLocks for nobody.
LEMMA FreeMutex ==
    ASSUME MutexInv, NEW m \in Objects
    PROVE  /\ mutexes[m].level = 0 <=> mutexes[m].owner = NoThread
           /\ mutexes[m].owner = NoThread =>
                /\ \A t \in AllThreads : heldLocks[t][m] = 0
                /\ \A t \in Threads : ~IsWaitingFor(sched, t, "MUTEX", m)
           /\ ~MutexExists(m) => mutexes[m].owner = NoThread
<1>1. mutexes[m].level \in Nat /\ NoThread \notin AllThreads
  BY MutexAssumption, SchedulerAssumption DEF MutexInv, MutexTypeOK, AllThreads
<1> QED
  BY <1>1 DEF MutexInv, LocksAgree, LockWaiterListed, BlankUnlessExists, NoMutex

\* sceKernelCreateMutex()
LEMMA CreateMutexInv ==
    ASSUME MutexInv, NEW m \in Objects, NEW arguments \in Creations, CreateMutex(m, arguments)
    PROVE  MutexInv'
<1> DEFINE mutex == [exists |-> TRUE, fifo |-> arguments.fifo, recursive |-> arguments.recursive,
                     level |-> 0, owner |-> NoThread, waiting |-> <<>>]
           locked == Acquired(mutex, arguments.init, cur)
<1>1. /\ SomeoneRuns /\ ~MutexExists(m) /\ UNCHANGED <<vars, lockAsks, lockTimers>>
      /\ IF arguments.init = 0
         THEN mutexes' = [mutexes EXCEPT ![m] = mutex] /\ heldLocks' = heldLocks
         ELSE /\ mutexes' = [mutexes EXCEPT ![m] = locked]
              /\ heldLocks' = AcquireLock(heldLocks, m, cur)
  BY DEF CreateMutex
<1>2. Inv' /\ TimedLockEnds' /\ WaitersAsk' /\ sched' = sched
  BY <1>1, CallKeepsWaits DEF vars
<1>3. /\ arguments.fifo \in BOOLEAN /\ arguments.recursive \in BOOLEAN
      /\ arguments.init \in 0 .. MaxLevel
  BY MutexAssumption
<1>4. cur \in AllThreads /\ cur # NoThread /\ Alive(sched, cur)
  BY <1>1, CallerAlive DEF MutexInv
<1>5. IsInjective(<<>>) /\ <<>> \in Seq(Threads)
  BY DEF IsInjective
<1>6. /\ mutex \in MutexRecords /\ mutex.exists /\ mutex.owner = NoThread /\ mutex.level = 0
      /\ mutex.waiting = <<>>
      /\ locked \in MutexRecords /\ locked.exists /\ locked.owner = cur /\ locked.level = arguments.init
      /\ locked.waiting = <<>>
  <2>1. 0 \in 0 .. MaxLevel
    BY MutexAssumption
  <2>2. mutex \in MutexRecords /\ mutex.exists /\ mutex.owner = NoThread /\ mutex.level = 0
        /\ mutex.waiting = <<>>
    BY <1>3, <1>5, <2>1 DEF MutexRecords
  <2> HIDE DEF mutex
  <2>3. locked = [mutex EXCEPT !.level = arguments.init, !.owner = cur]
    BY DEF Acquired
  <2> QED
    BY <1>3, <1>4, <2>2, <2>3 DEF MutexRecords
<1>7. /\ mutexes[m].owner = NoThread /\ heldLocks \in [AllThreads -> [Objects -> Nat]]
      /\ \A t \in AllThreads : heldLocks[t][m] = 0
      /\ \A t \in Threads : ~IsWaitingFor(sched, t, "MUTEX", m)
      /\ NoThread \notin AllThreads
  BY <1>1, FreeMutex, SchedulerAssumption DEF MutexInv, MutexTypeOK, AllThreads
<1> HIDE DEF mutex, locked
<1>8. MutexesTyped' /\ BlankUnlessExists' /\ LocksAgree' /\ LockWaiterListed'
  <2>1. CASE arguments.init = 0
    <3>1. mutexes' = [mutexes EXCEPT ![m] = mutex] /\ heldLocks' = heldLocks
      BY <1>1, <2>1
    <3>2. \A t \in AllThreads, n \in Objects :
             heldLocks'[t][n] = IF n = m THEN IF mutex.owner = t THEN 1 ELSE 0 ELSE heldLocks[t][n]
      BY <1>6, <1>7, <3>1
    <3>3. ~(mutex.level > 0) /\ IsInjective(mutex.waiting) /\ mutex.owner \notin Threads
      BY <1>5, <1>6, <1>7 DEF AllThreads
    <3>4. mutex.level > 0 <=> mutex.owner # NoThread
      BY <1>6, <3>3
    <3>5. /\ ~mutex.exists => mutex = NoMutex
          /\ mutex.owner \in Threads => Alive(sched', mutex.owner)
          /\ \A t \in Threads : Alive(sched, t) => Alive(sched', t)
      BY <1>2, <1>6, <3>3
    <3>6. /\ \A t \in Threads : IsWaitingFor(sched', t, "MUTEX", m) =>
                mutex.exists /\ Contains(mutex.waiting, t) /\ mutex.owner \notin {NoThread, t}
          /\ \A t \in Threads, n \in Objects \ {m} :
                IsWaitingFor(sched', t, "MUTEX", n) => IsWaitingFor(sched, t, "MUTEX", n)
      BY <1>2, <1>7
    <3>7. /\ mutex \in MutexRecords /\ IsInjective(mutex.waiting)
          /\ heldLocks' \in [AllThreads -> [Objects -> Nat]]
          /\ mutexes' = [mutexes EXCEPT ![m] = mutex]
      BY <1>6, <1>7, <3>1, <3>3
    <3> QED
      BY <3>2, <3>4, <3>5, <3>6, <3>7, OneMutex
  <2>2. CASE arguments.init # 0
    <3>1. /\ heldLocks' \in [AllThreads -> [Objects -> Nat]]
          /\ \A t \in AllThreads, n \in Objects :
                heldLocks'[t][n] = IF t = cur /\ n = m THEN heldLocks[t][n] + 1 ELSE heldLocks[t][n]
      BY <1>1, <1>4, <1>7, <2>2, AcquireLockFacts
    <3>2. \A t \in AllThreads, n \in Objects :
             heldLocks'[t][n] = IF n = m THEN IF locked.owner = t THEN 1 ELSE 0 ELSE heldLocks[t][n]
      BY <1>6, <1>7, <3>1
    <3>3. locked.level > 0
      BY <1>3, <1>6, <2>2, MutexAssumption
    <3>4. locked.level > 0 <=> locked.owner # NoThread
      BY <1>4, <1>6, <3>3
    <3>5. /\ ~locked.exists => locked = NoMutex
          /\ locked.owner \in Threads => Alive(sched', locked.owner)
          /\ \A t \in Threads : Alive(sched, t) => Alive(sched', t)
      BY <1>2, <1>4, <1>6
    <3>6. /\ \A t \in Threads : IsWaitingFor(sched', t, "MUTEX", m) =>
                locked.exists /\ Contains(locked.waiting, t) /\ locked.owner \notin {NoThread, t}
          /\ \A t \in Threads, n \in Objects \ {m} :
                IsWaitingFor(sched', t, "MUTEX", n) => IsWaitingFor(sched, t, "MUTEX", n)
      BY <1>2, <1>7
    <3>7. /\ locked \in MutexRecords /\ IsInjective(locked.waiting)
          /\ heldLocks' \in [AllThreads -> [Objects -> Nat]]
          /\ mutexes' = [mutexes EXCEPT ![m] = locked]
      BY <1>1, <1>5, <1>6, <2>2, <3>1
    <3> QED
      BY <3>2, <3>4, <3>5, <3>6, <3>7, OneMutex
  <2> QED
    BY <2>1, <2>2
<1>9. AsksAreTyped'
  BY <1>1 DEF AsksAreTyped, MutexInv, MutexTypeOK
<1>10. MutexTypeOK'
  BY <1>8, <1>9 DEF MutexTypeOK, MutexesTyped, AsksAreTyped, MutexRecords
<1> QED
  BY <1>2, <1>8, <1>10 DEF MutexInv

\* The conclusion of the calls that change one mutex and no thread.
LEMMA CallMutexInv ==
    ASSUME MutexInv, UNCHANGED <<vars, lockAsks, lockTimers>>,
           MutexesTyped', BlankUnlessExists', LocksAgree', LockWaiterListed'
    PROVE  MutexInv'
<1>1. MutexTypeOK'
  BY DEF MutexInv, MutexTypeOK, MutexesTyped, MutexRecords
<1> QED
  BY <1>1, CallKeepsWaits DEF MutexInv

\* sceKernelTryLockMutex(), and sceKernelLockMutex() when it need not wait.
LEMMA TakeLockInv ==
    ASSUME MutexInv, NEW m \in Objects, NEW count \in Counts, SomeoneRuns, TakeLock(m, count)
    PROVE  MutexInv'
<1> DEFINE old == mutexes[m]
           mutex == IF old.level = 0 THEN Acquired(old, count, cur)
                    ELSE [old EXCEPT !.level = @ + count]
<1>1. /\ old \in MutexRecords /\ IsInjective(old.waiting)
      /\ heldLocks \in [AllThreads -> [Objects -> Nat]]
      /\ mutexes \in [Objects -> MutexRecords]
  BY DEF MutexInv, MutexTypeOK, MutexRecords
<1>2. cur \in AllThreads /\ cur # NoThread /\ Alive(sched, cur)
  BY CallerAlive DEF MutexInv
<1>3. /\ old.exists /\ Fits(m, count) /\ Lockable(m) /\ sched' = sched
      /\ UNCHANGED <<vars, lockAsks, lockTimers>>
  BY DEF TakeLock, MutexExists, vars
<1>4. count \in Nat /\ count > 0 /\ MaxLevel \in Nat /\ old.level \in Nat
      /\ old.level + count \in 0 .. MaxLevel
  <2>1. count \in 1 .. MaxLevel /\ MaxLevel \in Nat
    BY MutexAssumption
  <2>2. old.level \in 0 .. MaxLevel
    BY <1>1 DEF MutexRecords
  <2> QED
    BY <1>3, <2>1, <2>2 DEF Fits
<1>5. /\ mutex \in MutexRecords /\ mutex.waiting = old.waiting /\ mutex.exists
      /\ mutex.owner = IF old.level = 0 THEN cur ELSE old.owner
      /\ mutex.level > 0
  <2>1. CASE old.level = 0
    <3>1. mutex = [old EXCEPT !.level = count, !.owner = cur]
      BY <2>1 DEF Acquired
    <3>2. count \in 0 .. MaxLevel
      BY <1>4, <2>1
    <3> HIDE DEF mutex, old
    <3> QED
      BY <1>1, <1>2, <1>3, <1>4, <2>1, <3>1, <3>2 DEF MutexRecords
  <2>2. CASE old.level # 0
    <3>1. mutex = [old EXCEPT !.level = old.level + count]
      BY <1>1, <2>2 DEF MutexRecords
    <3>2. old.level + count > 0
      BY <1>4
    <3> HIDE DEF mutex, old
    <3> QED
      BY <1>1, <1>3, <1>4, <2>2, <3>1, <3>2 DEF MutexRecords
  <2> QED
    BY <2>1, <2>2
<1>6. mutexes' = [mutexes EXCEPT ![m] = mutex]
  BY <1>1 DEF TakeLock
<1>7. heldLocks' = IF old.level = 0 THEN AcquireLock(heldLocks, m, cur) ELSE heldLocks
  BY DEF TakeLock
<1>8. /\ old.level = 0 <=> old.owner = NoThread
      /\ old.owner = NoThread =>
           /\ \A t \in AllThreads : heldLocks[t][m] = 0
           /\ \A t \in Threads : ~IsWaitingFor(sched, t, "MUTEX", m)
  BY FreeMutex
<1>9. NoThread \notin AllThreads /\ \A t \in Threads : t \in AllThreads
  BY SchedulerAssumption DEF AllThreads
<1> HIDE DEF mutex
<1>10. /\ heldLocks' \in [AllThreads -> [Objects -> Nat]]
       /\ \A t \in AllThreads, n \in Objects :
             heldLocks'[t][n] = IF n = m THEN IF mutex.owner = t THEN 1 ELSE 0 ELSE heldLocks[t][n]
  <2>1. CASE old.level = 0
    <3>1. /\ heldLocks' \in [AllThreads -> [Objects -> Nat]]
          /\ \A t \in AllThreads, n \in Objects :
                heldLocks'[t][n] = IF t = cur /\ n = m THEN heldLocks[t][n] + 1 ELSE heldLocks[t][n]
      BY <1>1, <1>2, <1>7, <2>1, AcquireLockFacts
    <3> QED
      BY <1>5, <1>8, <2>1, <3>1
  <2>2. CASE old.level # 0
    <3>1. \A t \in AllThreads : heldLocks[t][m] = IF old.owner = t THEN 1 ELSE 0
      BY DEF MutexInv, LocksAgree
    <3> QED
      BY <1>1, <1>5, <1>7, <2>2, <3>1
  <2> QED
    BY <2>1, <2>2
<1>11. mutex.owner # NoThread /\ (mutex.owner \in Threads => Alive(sched, mutex.owner))
  BY <1>2, <1>5, <1>8 DEF MutexInv, LocksAgree, Alive
<1>12. \A t \in Threads : IsWaitingFor(sched, t, "MUTEX", m) =>
           Contains(mutex.waiting, t) /\ mutex.owner # t
  <2> SUFFICES ASSUME NEW t \in Threads, IsWaitingFor(sched, t, "MUTEX", m)
               PROVE  Contains(mutex.waiting, t) /\ mutex.owner # t
    OBVIOUS
  <2>1. Contains(old.waiting, t) /\ old.owner \notin {NoThread, t}
    BY DEF MutexInv, LockWaiterListed
  <2> QED
    BY <1>5, <1>8, <2>1
<1>13. MutexesTyped' /\ BlankUnlessExists' /\ LocksAgree' /\ LockWaiterListed'
  BY <1>1, <1>3, <1>5, <1>6, <1>10, <1>11, <1>12, OneMutex
<1> QED
  BY <1>3, <1>13, CallMutexInv

\* sceKernelUnlockMutex() when a level is left.
LEMMA UnlockSomeInv ==
    ASSUME MutexInv, NEW m \in Objects, NEW count \in Counts, UnlockSome(m, count)
    PROVE  MutexInv'
<1> DEFINE old == mutexes[m]
           mutex == [old EXCEPT !.level = @ - count]
<1>1. /\ old \in MutexRecords /\ IsInjective(old.waiting)
      /\ mutexes \in [Objects -> MutexRecords]
      /\ heldLocks \in [AllThreads -> [Objects -> Nat]]
  BY DEF MutexInv, MutexTypeOK, MutexRecords
<1>2. /\ UNCHANGED <<vars, heldLocks, lockAsks, lockTimers>> /\ sched' = sched
      /\ mutexes' = [mutexes EXCEPT ![m] = mutex]
      /\ old.exists /\ old.level > count
  BY <1>1 DEF UnlockSome, MayUnlock, MutexExists, vars
<1>3. old.level - count \in 0 .. MaxLevel /\ old.level - count > 0 /\ old.level > 0
  <2>1. count \in 1 .. MaxLevel /\ MaxLevel \in Nat /\ old.level \in 0 .. MaxLevel
    BY <1>1, MutexAssumption DEF MutexRecords
  <2> QED
    BY <1>2, <2>1
<1>4. /\ mutex \in MutexRecords /\ mutex.waiting = old.waiting /\ mutex.exists
      /\ mutex.owner = old.owner /\ mutex.level > 0
  <2> HIDE DEF old
  <2> QED
    BY <1>1, <1>2, <1>3 DEF MutexRecords
<1> HIDE DEF mutex
<1>5. /\ old.owner # NoThread /\ (old.owner \in Threads => Alive(sched, old.owner))
      /\ \A t \in AllThreads : heldLocks[t][m] = IF old.owner = t THEN 1 ELSE 0
  BY <1>3 DEF MutexInv, LocksAgree, Alive
<1>6. \A t \in AllThreads, n \in Objects :
         heldLocks'[t][n] = IF n = m THEN IF mutex.owner = t THEN 1 ELSE 0 ELSE heldLocks[t][n]
  BY <1>2, <1>4, <1>5
<1>7. \A t \in Threads : IsWaitingFor(sched, t, "MUTEX", m) =>
         Contains(mutex.waiting, t) /\ mutex.owner \notin {NoThread, t}
  BY <1>4 DEF MutexInv, LockWaiterListed
<1>8. MutexesTyped' /\ BlankUnlessExists' /\ LocksAgree' /\ LockWaiterListed'
  BY <1>1, <1>2, <1>4, <1>5, <1>6, <1>7, OneMutex
<1> QED
  BY <1>2, <1>8, CallMutexInv
-----------------------------------------------------------------------------
(* Waits *)

\* The invariant, put together.
LEMMA MutexInvParts ==
    ASSUME Inv', MutexesTyped', AsksAreTyped', BlankUnlessExists', LocksAgree',
           LockWaiterListed', TimedLockEnds', WaitersAsk'
    PROVE  MutexInv'
BY DEF MutexInv, MutexTypeOK, MutexesTyped, AsksAreTyped, MutexRecords

\* sceKernelLockMutex() when it waits.
LEMMA LockMutexInv ==
    ASSUME MutexInv, NEW m \in Objects, NEW count \in Counts, NEW timeout \in BOOLEAN,
           LockMutex(m, count, timeout)
    PROVE  MutexInv'
<1> DEFINE old == mutexes[m]
           mutex == [old EXCEPT !.waiting = Listed(@, cur)]
<1>1. /\ MayWait /\ old.exists /\ old.owner # cur /\ old.level # 0
      /\ sched' = WaitCurThread(sched, "MUTEX", m)
      /\ phase' = "resched" /\ ThreadsKept /\ heldLocks' = heldLocks
  BY DEF LockMutex, Lockable, MutexExists
<1>2. /\ Inv' /\ sched'.status[cur] = {"WAIT"} /\ cur \in Threads
      /\ \A x \in AllThreads : x # cur => sched'.status[x] = sched.status[x]
      /\ sched'.wait = [sched.wait EXCEPT ![cur] = [type |-> "MUTEX", id |-> m]]
  BY <1>1, ObjectWaitInv DEF MutexInv, ObjectWaits, ThreadsKept
<1>3. /\ sched.wait \in [AllThreads -> Waits] /\ \A t \in Threads : t \in AllThreads
      /\ NoThread \notin AllThreads
  BY SchedTypes, SchedulerAssumption
  DEF MutexInv, Inv, ThreadInv, Consistent, QueueOK, AllThreads
<1>4. \A t \in Threads : t # cur =>
         /\ sched'.status[t] = sched.status[t] /\ sched'.wait[t] = sched.wait[t]
         /\ Alive(sched', t) <=> Alive(sched, t)
         /\ \A n : IsWaitingFor(sched', t, "MUTEX", n) <=> IsWaitingFor(sched, t, "MUTEX", n)
  BY <1>2, <1>3 DEF Alive, IsWaitingFor, VerifyWait, Exists, Has
<1>5. /\ sched'.wait[cur] = [type |-> "MUTEX", id |-> m] /\ Alive(sched', cur)
      /\ \A n : IsWaitingFor(sched', cur, "MUTEX", n) => n = m
  BY <1>2, <1>3 DEF Alive, IsWaitingFor, VerifyWait
<1>6. /\ old \in MutexRecords /\ IsInjective(old.waiting)
      /\ mutexes \in [Objects -> MutexRecords]
      /\ heldLocks \in [AllThreads -> [Objects -> Nat]]
      /\ lockAsks \in [Threads -> [want : Counts \union {0}, timed : BOOLEAN, told : Told]]
      /\ lockTimers \in [Threads -> 0 .. MaxLockEvents]
  BY DEF MutexInv, MutexTypeOK, MutexRecords
<1>7. old.waiting \in Seq(Threads)
  BY <1>6 DEF MutexRecords
<1>8. /\ Listed(old.waiting, cur) \in Seq(Threads) /\ IsInjective(Listed(old.waiting, cur))
      /\ \A x : Contains(Listed(old.waiting, cur), x) <=> Contains(old.waiting, x) \/ x = cur
  BY <1>2, <1>6, <1>7, ListedFacts
<1>9. /\ mutex \in MutexRecords /\ mutex.exists /\ mutex.owner = old.owner /\ mutex.level = old.level
      /\ mutex.waiting = Listed(old.waiting, cur)
  <2> HIDE DEF old
  <2> QED
    BY <1>1, <1>6, <1>8 DEF MutexRecords
<1>10. mutexes' = [mutexes EXCEPT ![m] = mutex]
  BY <1>6 DEF LockMutex
<1> HIDE DEF mutex
<1>11. /\ old.level > 0 /\ old.owner # NoThread
       /\ old.owner \in Threads => Alive(sched, old.owner)
       /\ \A t \in AllThreads : heldLocks[t][m] = IF old.owner = t THEN 1 ELSE 0
  BY <1>1, FreeMutex DEF MutexInv, LocksAgree, Alive
<1>12. MutexesTyped' /\ BlankUnlessExists' /\ LocksAgree' /\ LockWaiterListed'
  <2>1. \A t \in Threads : IsWaitingFor(sched', t, "MUTEX", m) =>
           Contains(mutex.waiting, t) /\ mutex.owner \notin {NoThread, t}
    BY <1>1, <1>4, <1>8, <1>9, <1>11 DEF MutexInv, LockWaiterListed
  <2>2. \A t \in Threads, n \in Objects \ {m} :
           IsWaitingFor(sched', t, "MUTEX", n) => IsWaitingFor(sched, t, "MUTEX", n)
    BY <1>4, <1>5
  <2>3. /\ \A t \in Threads : Alive(sched, t) => Alive(sched', t)
        /\ mutex.owner \in Threads => Alive(sched', mutex.owner)
    BY <1>4, <1>5, <1>9, <1>11
  <2>4. \A t \in AllThreads, n \in Objects :
           heldLocks'[t][n] = IF n = m THEN IF mutex.owner = t THEN 1 ELSE 0 ELSE heldLocks[t][n]
    BY <1>1, <1>9, <1>11
  <2>5. /\ IsInjective(mutex.waiting) /\ mutex.level > 0 /\ mutex.owner # NoThread
        /\ heldLocks' \in [AllThreads -> [Objects -> Nat]]
    BY <1>1, <1>6, <1>8, <1>9, <1>11
  <2> HIDE DEF old
  <2> QED
    BY <1>9, <1>10, <2>1, <2>2, <2>3, <2>4, <2>5, OneMutex
<1>13. /\ lockAsks' = [lockAsks EXCEPT ![cur] =
                           [want |-> count, timed |-> timeout, told |-> "nothing"]]
       /\ lockTimers' = IF timeout THEN [lockTimers EXCEPT ![cur] = @ + 1] ELSE lockTimers
       /\ timeout => lockTimers[cur] < MaxLockEvents
  BY DEF LockMutex
<1>14. AsksAreTyped'
  BY <1>2, <1>6, <1>13, MutexAssumption DEF AsksAreTyped, Told
<1>15. /\ lockAsks'[cur].want = count /\ lockAsks'[cur].timed = timeout
       /\ \A t \in Threads : t # cur => lockAsks'[t] = lockAsks[t] /\ lockTimers'[t] = lockTimers[t]
       /\ timeout => lockTimers'[cur] > 0
       /\ count > 0
  BY <1>2, <1>6, <1>13, MutexAssumption
<1>16. TimedLockEnds'
  BY <1>4, <1>15 DEF MutexInv, TimedLockEnds
<1>17. WaitersAsk'
  BY <1>4, <1>5, <1>15 DEF MutexInv, WaitersAsk, Alive
<1> QED
  BY <1>2, <1>12, <1>14, <1>16, <1>17, MutexInvParts

\* __KernelMutexTimeout()
LEMMA MutexTimeoutInv ==
    ASSUME MutexInv, NEW t \in Threads, MutexTimeout(t)
    PROVE  MutexInv'
<1>1. /\ lockTimers[t] > 0 /\ lockTimers' = [lockTimers EXCEPT ![t] = @ - 1]
      /\ ThreadsKept /\ UNCHANGED <<mutexes, heldLocks>>
  BY DEF MutexTimeout
<1>2. /\ lockAsks \in [Threads -> [want : Counts \union {0}, timed : BOOLEAN, told : Told]]
      /\ lockTimers \in [Threads -> 0 .. MaxLockEvents]
      /\ Inv /\ Consistent(sched) /\ QueueOK(sched) /\ t \in AllThreads /\ MaxLockEvents \in Nat
  BY MutexAssumption DEF MutexInv, MutexTypeOK, Inv, ThreadInv, Consistent, AllThreads
<1>3. \/ /\ sched' = ResumeFromWait(sched, t) /\ phase' = "resched"
         /\ lockAsks' = [lockAsks EXCEPT ![t].told = "error"]
      \/ /\ UNCHANGED <<sched, lockAsks, phase>>
         /\ \A m \in Objects : ~IsWaitingFor(sched, t, "MUTEX", m)
  BY DEF MutexTimeout, IsWaitingFor, VerifyWait, MutexInv, LockWaiterListed
<1>4. /\ Quiet(sched, sched') /\ sched'.wait = sched.wait
      /\ phase' \in {phase, "resched"}
      /\ \A m \in Objects : ~IsWaitingFor(sched', t, "MUTEX", m)
  <2>1. CASE sched' = ResumeFromWait(sched, t)
    BY <1>2, <1>3, <2>1, ResumeFromWaitFacts, ResumeFromWaitQuiet, ResumedNotWaiting DEF IsWaitingFor
  <2>2. CASE sched' = sched
    BY <1>2, <1>3, <2>1, <2>2, QuietSelf
  <2> QED
    BY <1>3, <2>1, <2>2
<1>5. Inv'
  BY <1>1, <1>2, <1>4, QuietStep DEF ThreadsKept
<1>6. AsksAreTyped'
  <2>1. lockAsks' \in [Threads -> [want : Counts \union {0}, timed : BOOLEAN, told : Told]]
    BY <1>2, <1>3 DEF Told
  <2>2. lockTimers' \in [Threads -> 0 .. MaxLockEvents]
    BY <1>1, <1>2
  <2> QED
    BY <2>1, <2>2 DEF AsksAreTyped
<1>7. AsksKept
  BY <1>2, <1>3 DEF AsksKept
<1>8. TimersKept
  BY <1>1, <1>2, <1>4 DEF TimersKept
<1>9. MutexesTyped'
  BY <1>1 DEF MutexInv, MutexTypeOK, MutexesTyped, MutexRecords
<1> QED
  BY <1>1, <1>2, <1>4, <1>5, <1>6, <1>7, <1>8, <1>9, QuietWaitsKept, WaitsStay, MutexesStay,
     MutexInvParts
-----------------------------------------------------------------------------
(* The calls that end waits *)

\* Threads that do not wait any more are told something.
LEMMA AnswerFacts ==
    ASSUME MutexInv, KeepsObjectWaits(sched, sched'), NEW threads, NEW told \in Told,
           Answer(threads, told),
           \A t \in Threads, n \in Objects : t \in threads => ~IsWaitingFor(sched', t, "MUTEX", n)
    PROVE  AsksAreTyped' /\ AsksKept /\ TimersKept
<1>1. /\ lockAsks \in [Threads -> [want : Counts \union {0}, timed : BOOLEAN, told : Told]]
      /\ lockTimers \in [Threads -> 0 .. MaxLockEvents] /\ MaxLockEvents \in Nat
      /\ CurrentAsks(sched') \in [Threads -> [want : Counts \union {0}, timed : BOOLEAN, told : Told]]
  BY AsksTyped, MutexAssumption DEF MutexInv, MutexTypeOK
<1>2. /\ lockAsks' = [t \in Threads |-> IF t \in threads THEN [lockAsks[t] EXCEPT !.told = told]
                                         ELSE CurrentAsks(sched')[t]]
      /\ lockTimers' = [t \in Threads |-> IF t \in threads /\ lockAsks[t].timed THEN 0
                                           ELSE lockTimers[t]]
  BY DEF Answer
<1>3. AsksAreTyped'
  <2>1. lockAsks' \in [Threads -> [want : Counts \union {0}, timed : BOOLEAN, told : Told]]
    BY <1>1, <1>2
  <2>2. lockTimers' \in [Threads -> 0 .. MaxLockEvents]
    BY <1>1, <1>2
  <2> QED
    BY <2>1, <2>2 DEF AsksAreTyped
<1>4. AsksKept
  BY <1>1, <1>2 DEF AsksKept, CurrentAsks
<1>5. TimersKept
  BY <1>2 DEF TimersKept
<1> QED
  BY <1>3, <1>4, <1>5

\* All who wait for m are dismissed: they are in the list w.
LEMMA DismissFacts ==
    ASSUME MutexInv, NEW m \in Objects, NEW w \in Seq(Threads), IsInjective(w), Dismiss(m, w),
           \A t \in Threads : IsWaitingFor(sched, t, "MUTEX", m) => Contains(w, t)
    PROVE  /\ Inv' /\ AsksAreTyped' /\ TimedLockEnds' /\ WaitersAsk'
           /\ sched'.wait = sched.wait /\ cur' = cur /\ KeepsObjectWaits(sched, sched')
           /\ \A t \in Threads : Alive(sched, t) => Alive(sched', t)
           /\ \A t \in Threads : ~IsWaitingFor(sched', t, "MUTEX", m)
           /\ \A t \in Threads, n \in Objects :
                 IsWaitingFor(sched', t, "MUTEX", n) => IsWaitingFor(sched, t, "MUTEX", n)
<1> DEFINE woken == ToSet(w) \intersect Asking(sched, m)
<1>1. /\ sched' = ResumeAll(sched, w, "MUTEX", m) /\ Answer(woken, "error")
      /\ phase' \in {phase, "resched"} /\ ThreadsKept
  BY DEF Dismiss
<1>2. /\ Inv /\ Consistent(sched) /\ QueueOK(sched) /\ w \in Seq(AllThreads)
      /\ \A t \in Threads : t \in AllThreads
  <2>1. w \in Seq(AllThreads)
    BY SeqMonotonic DEF AllThreads
  <2> QED
    BY <2>1 DEF MutexInv, Inv, ThreadInv, Consistent, AllThreads
<1>3. /\ Quiet(sched, sched') /\ sched'.wait = sched.wait
      /\ \A t \in AllThreads : sched'.status[t] = ResumedStatus(sched, w, "MUTEX", m, t)
  BY <1>1, <1>2, ResumeAllFacts, ResumeAllQuiet
<1>4. Inv'
  BY <1>1, <1>2, <1>3, QuietStep DEF ThreadsKept
<1>5. /\ KeepsObjectWaits(sched, sched') /\ DeathForgets
      /\ \A t \in Threads : Alive(sched, t) => Alive(sched', t)
  BY <1>2, <1>3, QuietWaitsKept
<1>6. \A t \in Threads : \A n : IsWaitingFor(sched', t, "MUTEX", n) => IsWaitingFor(sched, t, "MUTEX", n)
  BY <1>5, WaitedBefore
<1>7. \A t \in Threads : VerifyWait(sched, t, "MUTEX", m) /\ Contains(w, t) => ~Has(sched', t, "WAIT")
  BY <1>2, <1>3 DEF ResumedStatus, EndedWaitStatus, Has, Contains, ToSet
<1>8. \A t \in Threads : ~IsWaitingFor(sched', t, "MUTEX", m)
  BY <1>6, <1>7 DEF IsWaitingFor
<1>9. \A t \in woken : VerifyWait(sched, t, "MUTEX", m) /\ Contains(w, t)
  BY DEF Asking, Contains, ToSet
<1>10. \A t \in Threads, n \in Objects : t \in woken => ~IsWaitingFor(sched', t, "MUTEX", n)
  BY <1>7, <1>9 DEF IsWaitingFor
<1> HIDE DEF woken
<1>11. AsksAreTyped' /\ AsksKept /\ TimersKept
  BY <1>1, <1>5, <1>10, AnswerFacts DEF Told
<1>12. cur' = cur
  BY <1>3 DEF Quiet, cur
<1> QED
  BY <1>3, <1>4, <1>5, <1>6, <1>8, <1>11, <1>12, WaitsStay

\* sceKernelDeleteMutex()
LEMMA DeleteMutexInv ==
    ASSUME MutexInv, NEW m \in Objects, DeleteMutex(m)
    PROVE  MutexInv'
<1> DEFINE w == mutexes[m].waiting
<1>1. /\ Dismiss(m, w) /\ mutexes' = [mutexes EXCEPT ![m] = NoMutex]
      /\ heldLocks' = EraseLock(heldLocks, m)
  BY DEF DeleteMutex
<1>2. w \in Seq(Threads) /\ IsInjective(w)
  BY DEF MutexInv, MutexTypeOK
<1>3. /\ Inv' /\ AsksAreTyped' /\ TimedLockEnds' /\ WaitersAsk'
      /\ \A t \in Threads : Alive(sched, t) => Alive(sched', t)
      /\ \A t \in Threads : ~IsWaitingFor(sched', t, "MUTEX", m)
      /\ \A t \in Threads, n \in Objects :
            IsWaitingFor(sched', t, "MUTEX", n) => IsWaitingFor(sched, t, "MUTEX", n)
  BY <1>1, <1>2, DismissFacts DEF MutexInv, LockWaiterListed
<1>4. /\ NoMutex \in MutexRecords /\ IsInjective(NoMutex.waiting) /\ NoMutex.owner = NoThread
      /\ NoMutex.level = 0 /\ NoThread \notin AllThreads
  <2>1. <<>> \in Seq(Threads) /\ IsInjective(<<>>) /\ 0 \in 0 .. MaxLevel
    BY MutexAssumption DEF IsInjective
  <2> QED
    BY <2>1, SchedulerAssumption DEF NoMutex, MutexRecords, AllThreads
<1>5. /\ heldLocks' \in [AllThreads -> [Objects -> Nat]]
      /\ \A t \in AllThreads, n \in Objects : heldLocks'[t][n] = IF n = m THEN 0 ELSE heldLocks[t][n]
  BY <1>1, EraseLockFacts
<1>6. \A t \in AllThreads : NoMutex.owner # t
  BY <1>4
<1>7. MutexesTyped' /\ BlankUnlessExists' /\ LocksAgree' /\ LockWaiterListed'
  <2>1. NoMutex.owner \notin Threads /\ (NoMutex.level > 0 <=> NoMutex.owner # NoThread)
    BY <1>4 DEF AllThreads
  <2>2. \A t \in AllThreads, n \in Objects :
           heldLocks'[t][n] = IF n = m THEN IF NoMutex.owner = t THEN 1 ELSE 0 ELSE heldLocks[t][n]
    BY <1>5, <1>6
  <2> QED
    BY <1>1, <1>3, <1>4, <1>5, <2>1, <2>2, OneMutex
<1> QED
  BY <1>3, <1>7, MutexInvParts

\* sceKernelCancelMutex()
LEMMA CancelMutexInv ==
    ASSUME MutexInv, NEW m \in Objects, NEW count \in Counts \union {0}, CancelMutex(m, count)
    PROVE  MutexInv'
<1> DEFINE old == mutexes[m]
           owner == IF count = 0 THEN NoThread ELSE cur
           mutex == Acquired([old EXCEPT !.waiting = <<>>], count, owner)
           left == EraseLock(heldLocks, m)
<1>1. PICK w \in CleanedUp(old.waiting, Asking(sched, m)) : Dismiss(m, w)
  BY DEF CancelMutex
<1>2. /\ SomeoneRuns /\ old.exists /\ mutexes' = [mutexes EXCEPT ![m] = mutex]
      /\ heldLocks' = IF count = 0 THEN left ELSE AcquireLock(left, m, cur)
  BY DEF CancelMutex, MutexExists
<1>3. old \in MutexRecords /\ old.waiting \in Seq(Threads) /\ IsInjective(old.waiting)
  BY DEF MutexInv, MutexTypeOK, MutexRecords
<1>4. /\ w \in Seq(Threads) /\ IsInjective(w)
      /\ \A x : Contains(w, x) <=> Contains(old.waiting, x) /\ x \in Asking(sched, m)
  BY <1>1, <1>3, CleanedUpFacts
<1>5. \A t \in Threads : IsWaitingFor(sched, t, "MUTEX", m) => Contains(w, t)
  BY <1>4 DEF MutexInv, LockWaiterListed, IsWaitingFor, Asking
<1>6. /\ Inv' /\ AsksAreTyped' /\ TimedLockEnds' /\ WaitersAsk'
      /\ \A t \in Threads : Alive(sched, t) => Alive(sched', t)
      /\ \A t \in Threads : ~IsWaitingFor(sched', t, "MUTEX", m)
      /\ \A t \in Threads, n \in Objects :
            IsWaitingFor(sched', t, "MUTEX", n) => IsWaitingFor(sched, t, "MUTEX", n)
  BY <1>1, <1>4, <1>5, DismissFacts
<1>7. cur \in AllThreads /\ cur # NoThread /\ Alive(sched, cur)
  BY <1>2, CallerAlive DEF MutexInv
<1>8. count \in 0 .. MaxLevel /\ (count > 0 <=> count # 0) /\ NoThread \notin AllThreads
  BY MutexAssumption, SchedulerAssumption DEF AllThreads
<1>9. /\ mutex \in MutexRecords /\ mutex.exists /\ mutex.owner = owner /\ mutex.level = count
      /\ IsInjective(mutex.waiting)
  <2>1. <<>> \in Seq(Threads) /\ IsInjective(<<>>)
    BY DEF IsInjective
  <2>2. owner \in AllThreads \union {NoThread}
    BY <1>7
  <2>3. mutex = [[old EXCEPT !.waiting = <<>>] EXCEPT !.level = count, !.owner = owner]
    BY DEF Acquired
  <2> HIDE DEF mutex, owner, old
  <2> QED
    BY <1>2, <1>3, <1>8, <2>1, <2>2, <2>3 DEF MutexRecords
<1>10. /\ left \in [AllThreads -> [Objects -> Nat]]
       /\ \A t \in AllThreads, n \in Objects : left[t][n] = IF n = m THEN 0 ELSE heldLocks[t][n]
  BY EraseLockFacts
<1> HIDE DEF mutex, left
<1>11. /\ heldLocks' \in [AllThreads -> [Objects -> Nat]]
       /\ \A t \in AllThreads, n \in Objects :
             heldLocks'[t][n] = IF n = m THEN IF mutex.owner = t THEN 1 ELSE 0 ELSE heldLocks[t][n]
  <2>1. CASE count = 0
    BY <1>2, <1>8, <1>9, <1>10, <2>1
  <2>2. CASE count # 0
    <3>1. /\ heldLocks' \in [AllThreads -> [Objects -> Nat]]
          /\ \A t \in AllThreads, n \in Objects :
                heldLocks'[t][n] = IF t = cur /\ n = m THEN left[t][n] + 1 ELSE left[t][n]
      BY <1>2, <1>7, <1>10, <2>2, AcquireLockFacts
    <3> QED
      BY <1>9, <1>10, <2>2, <3>1
  <2> QED
    BY <2>1, <2>2
<1>12. /\ mutex.level > 0 <=> mutex.owner # NoThread
       /\ mutex.owner \in Threads => Alive(sched', mutex.owner)
  BY <1>6, <1>7, <1>8, <1>9 DEF AllThreads
<1>13. MutexesTyped' /\ BlankUnlessExists' /\ LocksAgree' /\ LockWaiterListed'
  BY <1>2, <1>6, <1>9, <1>11, <1>12, OneMutex
<1> QED
  BY <1>6, <1>13, MutexInvParts
-----------------------------------------------------------------------------
(* Unlocking *)

\* A thread asks for a level that a mutex can have.
LEMMA CountsAreLevels ==
    ASSUME NEW count \in Counts \union {0}
    PROVE  count \in 0 .. MaxLevel
BY MutexAssumption

\* Who gets a mutex: nobody when nobody asks, or one who asks, before all others.
LEMMA NextOwnersFacts ==
    ASSUME NEW m, NEW w, NEW next \in NextOwners(m, w)
    PROVE  /\ next = NoThread \/ (Contains(w, next) /\ VerifyWait(sched, next, "MUTEX", m) /\ next \in Threads)
           /\ \A u \in Threads : Contains(w, u) /\ VerifyWait(sched, u, "MUTEX", m) /\ u # next =>
                 ComesBefore(m, w, next, u) /\ next \in Threads
<1> DEFINE asking == ToSet(w) \intersect Asking(sched, m)
<1>1. \A u : u \in asking <=> Contains(w, u) /\ u \in Threads /\ VerifyWait(sched, u, "MUTEX", m)
  BY DEF Asking, ToSet, Contains
<1>2. next \in IF asking = {} THEN {NoThread}
                ELSE {t \in asking : \A u \in asking \ {t} : ComesBefore(m, w, t, u)}
  BY DEF NextOwners
<1> HIDE DEF asking
<1> QED
  BY <1>1, <1>2

\* The mutexes that are given up go to those who asked for them, or become free: they
\* are noted alike everywhere, and who is left waiting is still in the lists.
LEMMA UnlockMutexFacts ==
    ASSUME MutexInv, NEW given \in SUBSET Objects, \A m \in given : MutexExists(m),
           NEW lists \in [Objects -> Seq(Threads)],
           \A m \in Objects : IsInjective(lists[m]),
           \A m \in Objects : ~MutexExists(m) => lists[m] = mutexes[m].waiting,
           NEW next \in Heirs(given, lists), UnlockMutex(next, lists),
           KeepsObjectWaits(sched, sched'),
           \A m \in Objects, t \in Threads : IsWaitingFor(sched', t, "MUTEX", m) => Contains(lists[m], t),
           \A m \in given : next[m] \in Threads =>
               Alive(sched', next[m]) /\ ~Has(sched', next[m], "WAIT"),
           \A m \in Objects \ given : mutexes[m].owner \in Threads => Alive(sched', mutexes[m].owner)
    PROVE  /\ MutexesTyped' /\ AsksAreTyped' /\ BlankUnlessExists' /\ LocksAgree'
           /\ LockWaiterListed' /\ AsksKept /\ TimersKept
<1> DEFINE want(m) == IF next[m] = NoThread THEN 0 ELSE lockAsks[next[m]].want
           passed(m) == [[[mutexes[m] EXCEPT !.waiting = lists[m]] EXCEPT
                            !.level = want(m), !.owner = next[m]] EXCEPT
                            !.waiting = StillListed(m, lists[m], next[m])]
<1>1. /\ next \in [given -> Threads \union {NoThread}] /\ DOMAIN next = given
      /\ \A m \in given : next[m] \in NextOwners(m, lists[m])
  BY DEF Heirs
<1>2. /\ mutexes' = [m \in Objects |-> IF m \notin given THEN [mutexes[m] EXCEPT !.waiting = lists[m]]
                                        ELSE passed(m)]
      /\ heldLocks' = [t \in AllThreads |-> [m \in Objects |->
                          LET left == EraseLock(heldLocks, m)
                          IN  IF m \notin given THEN heldLocks[t][m]
                              ELSE IF next[m] = t THEN left[t][m] + 1 ELSE left[t][m]]]
      /\ Answer({next[m] : m \in given}, "granted")
  BY <1>1, Zenon DEF UnlockMutex, Acquired
<1>3. /\ mutexes \in [Objects -> MutexRecords]
      /\ heldLocks \in [AllThreads -> [Objects -> Nat]]
      /\ lockAsks \in [Threads -> [want : Counts \union {0}, timed : BOOLEAN, told : Told]]
  BY DEF MutexInv, MutexTypeOK, MutexRecords
<1>4. ASSUME NEW m \in given
      PROVE  /\ m \in Objects /\ next[m] \in Threads \union {NoThread}
             /\ next[m] \in Threads =>
                   /\ VerifyWait(sched, next[m], "MUTEX", m)
                   /\ Contains(lists[m], next[m])
             /\ \A u \in Threads : Contains(lists[m], u) /\ VerifyWait(sched, u, "MUTEX", m) /\ u # next[m] =>
                   ComesBefore(m, lists[m], next[m], u) /\ next[m] \in Threads
  <2>1. NoThread \notin Threads
    BY SchedulerAssumption
  <2> QED
    BY <1>1, <2>1, NextOwnersFacts
<1>5. ASSUME NEW m \in given
      PROVE  /\ want(m) \in 0 .. MaxLevel
             /\ want(m) > 0 <=> next[m] # NoThread
  <2>1. CASE next[m] = NoThread
    BY <2>1, MutexAssumption
  <2>2. CASE next[m] # NoThread
    <3>1. next[m] \in Threads /\ VerifyWait(sched, next[m], "MUTEX", m)
      BY <1>4, <2>2
    <3>2. lockAsks[next[m]].want > 0 /\ lockAsks[next[m]].want \in Counts \union {0}
      BY <1>3, <3>1 DEF VerifyWait, MutexInv, WaitersAsk
    <3>3. want(m) = lockAsks[next[m]].want
      BY <2>2
    <3> HIDE DEF want
    <3>4. want(m) \in Counts \union {0} /\ want(m) > 0
      BY <3>2, <3>3
    <3>5. want(m) \in 0 .. MaxLevel
      <4> HIDE DEF want
      <4> QED
        BY <3>4, CountsAreLevels
    <3> QED
      BY <2>2, <3>4, <3>5
  <2> QED
    BY <2>1, <2>2
<1>6. ASSUME NEW m \in Objects
      PROVE  StillListed(m, lists[m], next[m]) \in Seq(Threads) /\ IsInjective(StillListed(m, lists[m], next[m]))
  <2>1. <<>> \in Seq(Threads) /\ IsInjective(<<>>)
    BY DEF IsInjective
  <2>2. lists[m] \in Seq(Threads)
    OBVIOUS
  <2>3. IsInjective(lists[m])
    OBVIOUS
  <2> QED
    BY <2>1, <2>2, <2>3, InOrderFacts DEF StillListed
<1> HIDE DEF want
<1>7. ASSUME NEW m \in given
      PROVE  /\ mutexes'[m] \in MutexRecords /\ IsInjective(mutexes'[m].waiting)
             /\ mutexes'[m].exists /\ mutexes'[m].owner = next[m] /\ mutexes'[m].level = want(m)
             /\ mutexes'[m].waiting = StillListed(m, lists[m], next[m])
  <2>1. mutexes'[m] = passed(m) /\ mutexes[m] \in MutexRecords /\ mutexes[m].exists
    BY <1>2, <1>3, <1>4 DEF MutexExists
  <2>2. next[m] \in AllThreads \union {NoThread}
    BY <1>4 DEF AllThreads
  <2>3. /\ passed(m) \in MutexRecords /\ passed(m).exists /\ passed(m).owner = next[m]
        /\ passed(m).level = want(m) /\ passed(m).waiting = StillListed(m, lists[m], next[m])
    BY <1>4, <1>5, <1>6, <2>1, <2>2 DEF MutexRecords
  <2> QED
    BY <1>4, <1>6, <2>1, <2>3
<1>8. ASSUME NEW m \in Objects \ given
      PROVE  /\ mutexes'[m] \in MutexRecords /\ IsInjective(mutexes'[m].waiting)
             /\ mutexes'[m] = [mutexes[m] EXCEPT !.waiting = lists[m]]
             /\ mutexes'[m].exists = mutexes[m].exists /\ mutexes'[m].owner = mutexes[m].owner
             /\ mutexes'[m].level = mutexes[m].level /\ mutexes'[m].waiting = lists[m]
  <2>1. mutexes'[m] = [mutexes[m] EXCEPT !.waiting = lists[m]] /\ mutexes[m] \in MutexRecords
    BY <1>2, <1>3
  <2>2. lists[m] \in Seq(Threads)
    OBVIOUS
  <2>3. IsInjective(lists[m])
    OBVIOUS
  <2> QED
    BY <2>1, <2>2, <2>3 DEF MutexRecords
<1> HIDE DEF passed
<1>9. ASSUME NEW t \in AllThreads, NEW m \in Objects
      PROVE  /\ heldLocks'[t][m] \in Nat
             /\ heldLocks'[t][m] = IF m \notin given THEN heldLocks[t][m]
                                   ELSE IF next[m] = t THEN 1 ELSE 0
  <2>1. EraseLock(heldLocks, m)[t][m] = 0
    BY EraseLockFacts
  <2> QED
    BY <1>2, <1>3, <2>1
<1>10. MutexesTyped'
  <2>1. mutexes' \in [Objects -> MutexRecords]
    <3>1. \A m \in Objects : mutexes'[m] \in MutexRecords
      BY <1>7, <1>8
    <3>2. mutexes' = [m \in Objects |-> mutexes'[m]]
      BY <1>2
    <3> QED
      BY <3>1, <3>2
  <2>2. heldLocks' \in [AllThreads -> [Objects -> Nat]]
    <3>1. heldLocks' = [t \in AllThreads |-> [m \in Objects |-> heldLocks'[t][m]]]
      BY <1>2
    <3> QED
      BY <1>9, <3>1
  <2> QED
    BY <1>7, <1>8, <2>1, <2>2 DEF MutexesTyped
<1>11. BlankUnlessExists'
  <2> SUFFICES ASSUME NEW m \in Objects, ~mutexes'[m].exists PROVE mutexes'[m] = NoMutex
    BY DEF BlankUnlessExists, MutexExists
  <2>1. m \notin given /\ ~mutexes[m].exists
    BY <1>7, <1>8
  <2>2. mutexes[m] = NoMutex /\ lists[m] = mutexes[m].waiting
    <3>1. BlankUnlessExists
      BY DEF MutexInv
    <3> QED
      BY <2>1, <3>1 DEF BlankUnlessExists, MutexExists
  <2> QED
    BY <1>8, <2>1, <2>2 DEF NoMutex
<1>12. LocksAgree'
  <2> SUFFICES ASSUME NEW m \in Objects
               PROVE  /\ mutexes'[m].level > 0 <=> mutexes'[m].owner # NoThread
                      /\ \A t \in AllThreads : heldLocks'[t][m] = IF mutexes'[m].owner = t THEN 1 ELSE 0
                      /\ mutexes'[m].owner \in Threads => Alive(sched', mutexes'[m].owner)
    BY DEF LocksAgree, Alive
  <2>1. CASE m \in given
    <3>1. mutexes'[m].owner = next[m] /\ mutexes'[m].level = want(m)
      BY <1>7, <2>1
    <3>2. next[m] \in Threads => Alive(sched', next[m])
      BY <2>1
    <3> QED
      BY <1>5, <1>9, <2>1, <3>1, <3>2
  <2>2. CASE m \notin given
    <3>1. mutexes'[m].owner = mutexes[m].owner /\ mutexes'[m].level = mutexes[m].level
      BY <1>8, <2>2
    <3>2. mutexes[m].owner \in Threads => Alive(sched', mutexes[m].owner)
      BY <2>2
    <3> QED
      BY <1>9, <2>2, <3>1, <3>2 DEF MutexInv, LocksAgree
  <2> QED
    BY <2>1, <2>2
<1>13. LockWaiterListed'
  <2> SUFFICES ASSUME NEW m \in Objects, NEW t \in Threads, IsWaitingFor(sched', t, "MUTEX", m)
               PROVE  /\ mutexes'[m].exists /\ Contains(mutexes'[m].waiting, t)
                      /\ mutexes'[m].owner \notin {NoThread, t}
    BY DEF LockWaiterListed, MutexExists
  <2>1. /\ IsWaitingFor(sched, t, "MUTEX", m) /\ Has(sched', t, "WAIT")
        /\ VerifyWait(sched, t, "MUTEX", m) /\ Contains(lists[m], t)
    BY WaitedBefore DEF IsWaitingFor
  <2>2. mutexes[m].exists /\ mutexes[m].owner \notin {NoThread, t}
    BY <2>1 DEF MutexInv, LockWaiterListed, MutexExists
  <2>3. CASE m \in given
    <3>1. t # next[m]
      BY <2>1, <2>3
    <3>2. ComesBefore(m, lists[m], next[m], t) /\ next[m] \in Threads
      BY <1>4, <2>1, <2>3, <3>1
    <3>3. next[m] # NoThread
      BY <3>2, SchedulerAssumption
    <3>4. StillListed(m, lists[m], next[m]) = InOrder(lists[m], {u \in Threads : ComesBefore(m, lists[m], next[m], u)})
      BY <3>3 DEF StillListed
    <3>5. Contains(StillListed(m, lists[m], next[m]), t)
      <4>1. lists[m] \in Seq(Threads)
        OBVIOUS
      <4>2. IsInjective(lists[m])
        OBVIOUS
      <4>3. t \in {u \in Threads : ComesBefore(m, lists[m], next[m], u)}
        BY <3>2
      <4> QED
        BY <2>1, <3>4, <4>1, <4>2, <4>3, InOrderFacts
    <3> QED
      BY <1>7, <2>3, <3>1, <3>3, <3>5
  <2>4. CASE m \notin given
    BY <1>8, <2>1, <2>2, <2>4
  <2> QED
    BY <2>3, <2>4
<1>14. AsksAreTyped' /\ AsksKept /\ TimersKept
  <2> DEFINE threads == {next[m] : m \in given}
  <2>1. \A t \in Threads, n \in Objects : t \in threads => ~IsWaitingFor(sched', t, "MUTEX", n)
    BY DEF IsWaitingFor
  <2> HIDE DEF threads
  <2> QED
    BY <1>2, <2>1, AnswerFacts DEF Told, threads
<1> QED
  BY <1>10, <1>11, <1>12, <1>13, <1>14

\* A step that passes mutexes on: the lists that it looks at have everybody who goes on
\* waiting, in the order of waitingThreads, and the new owners do not wait any more.
HandsOver(given, lists, next) ==
    /\ given \in SUBSET Objects /\ \A m \in given : MutexExists(m)
    /\ lists \in [Objects -> Seq(Threads)]
    /\ \A m \in Objects : IsInjective(lists[m])
    /\ \A m \in Objects : ~MutexExists(m) => lists[m] = mutexes[m].waiting
    /\ \A m \in Objects, x, y \in Threads : x \in Ahead(lists[m], y) => x \in Ahead(mutexes[m].waiting, y)
    /\ next \in Heirs(given, lists)
    /\ UnlockMutex(next, lists)
    /\ KeepsObjectWaits(sched, sched')
    /\ \A m \in Objects, t \in Threads : IsWaitingFor(sched', t, "MUTEX", m) => Contains(lists[m], t)
    /\ \A m \in given : next[m] \in Threads =>
          Alive(sched', next[m]) /\ ~Has(sched', next[m], "WAIT")
    /\ \A m \in Objects \ given : mutexes[m].owner \in Threads => Alive(sched', mutexes[m].owner)

\* Such a step keeps the invariant, when the threads do.
LEMMA HandsOverInv ==
    ASSUME MutexInv, NEW given, NEW lists, NEW next, HandsOver(given, lists, next),
           Inv', DeathForgets
    PROVE  MutexInv'
<1>1. KeepsObjectWaits(sched, sched')
  BY DEF HandsOver
<1>2. /\ MutexesTyped' /\ AsksAreTyped' /\ BlankUnlessExists' /\ LocksAgree'
      /\ LockWaiterListed' /\ AsksKept /\ TimersKept
  BY UnlockMutexFacts DEF HandsOver
<1> QED
  BY <1>1, <1>2, WaitsStay, MutexInvParts

\* The new owners are resumed once each: nobody waits for two mutexes.
LEMMA WokenFacts ==
    ASSUME NEW given \in SUBSET Objects, NEW lists, NEW next \in Heirs(given, lists),
           NEW order \in Seq(given), IsInjective(order)
    PROVE  /\ Woken(next, order) \in Seq(Threads)
           /\ IsInjective(Woken(next, order))
           /\ \A x : Contains(Woken(next, order), x) <=>
                 x \in Threads /\ \E i \in DOMAIN order : next[order[i]] = x
<1> DEFINE w == [i \in DOMAIN order |-> next[order[i]]]
<1>1. /\ next \in [given -> Threads \union {NoThread}]
      /\ \A m \in given : next[m] \in NextOwners(m, lists[m])
  BY DEF Heirs
<1>2. \A i \in DOMAIN order : order[i] \in given
  OBVIOUS
<1>3. /\ w \in Seq(Threads \union {NoThread}) /\ DOMAIN w = DOMAIN order
      /\ \A i \in DOMAIN order : w[i] = next[order[i]]
  BY <1>1, <1>2
<1>4. NoThread \notin Threads
  BY SchedulerAssumption
<1>5. ASSUME NEW i \in DOMAIN order, NEW j \in DOMAIN order, w[i] = w[j], w[i] \in Threads
      PROVE  i = j
  <2>1. VerifyWait(sched, w[i], "MUTEX", order[i]) /\ VerifyWait(sched, w[i], "MUTEX", order[j])
    BY <1>1, <1>2, <1>3, <1>4, <1>5, NextOwnersFacts
  <2>2. order[i] = order[j]
    BY <2>1 DEF VerifyWait
  <2> QED
    BY <2>2 DEF IsInjective
<1> HIDE DEF w
<1>6. /\ InOrder(w, Threads) \in Seq((Threads \union {NoThread}) \intersect Threads)
      /\ IsInjective(InOrder(w, Threads))
      /\ \A x : Contains(InOrder(w, Threads), x) <=> Contains(w, x) /\ x \in Threads
  BY <1>3, <1>5, InOrderMembers
<1>7. (Threads \union {NoThread}) \intersect Threads = Threads
  OBVIOUS
<1>8. Woken(next, order) = InOrder(w, Threads)
  BY DEF Woken, w
<1>9. \A x : Contains(w, x) <=> \E i \in DOMAIN order : next[order[i]] = x
  BY <1>3 DEF Contains
<1> QED
  BY <1>6, <1>7, <1>8, <1>9

\* Who was resumed does not wait.
LEMMA EndedWait ==
    ASSUME NEW s, NEW r, NEW t, r.status[t] = EndedWaitStatus(s, t)
    PROVE  ~Has(r, t, "WAIT")
BY DEF EndedWaitStatus, Has

\* sceKernelUnlockMutex() when no level is left.
LEMMA UnlockAllFacts ==
    ASSUME MutexInv, NEW m \in Objects, UnlockAll(m)
    PROVE  /\ Inv' /\ DeathForgets /\ sched'.wait = sched.wait /\ cur' = cur
           /\ \E next : HandsOver({m}, Waiting, next)
<1>1. PICK next \in Heirs({m}, Waiting) :
          /\ sched' = ResumeAll(sched, Woken(next, <<m>>), "MUTEX", m)
          /\ UnlockMutex(next, Waiting)
          /\ phase' = IF next[m] = NoThread THEN phase ELSE "resched"
  BY DEF UnlockAll
<1>2. MutexExists(m) /\ ThreadsKept
  BY DEF UnlockAll, MayUnlock
<1>3. /\ Woken(next, <<m>>) \in Seq(Threads) /\ IsInjective(Woken(next, <<m>>))
      /\ \A x : Contains(Woken(next, <<m>>), x) <=> x \in Threads /\ next[m] = x
  <2>1. <<m>> \in Seq({m}) /\ IsInjective(<<m>>) /\ DOMAIN <<m>> = {1} /\ <<m>>[1] = m
    BY DEF IsInjective
  <2>2. {m} \in SUBSET Objects
    OBVIOUS
  <2> DEFINE order == <<m>>
  <2>3. \A x : (\E i \in DOMAIN order : next[order[i]] = x) <=> next[m] = x
    BY <2>1
  <2>4. order \in Seq({m}) /\ IsInjective(order)
    BY <2>1
  <2> HIDE DEF order
  <2>5. /\ Woken(next, order) \in Seq(Threads) /\ IsInjective(Woken(next, order))
        /\ \A x : Contains(Woken(next, order), x) <=>
              x \in Threads /\ \E i \in DOMAIN order : next[order[i]] = x
    BY <2>2, <2>4, WokenFacts
  <2>6. /\ Woken(next, order) \in Seq(Threads) /\ IsInjective(Woken(next, order))
        /\ \A x : Contains(Woken(next, order), x) <=> x \in Threads /\ next[m] = x
    BY <2>3, <2>5
  <2> QED
    BY <2>6 DEF order
<1> DEFINE w == Woken(next, <<m>>)
<1>4. /\ Inv /\ Consistent(sched) /\ QueueOK(sched) /\ w \in Seq(AllThreads)
      /\ \A t \in Threads : t \in AllThreads
  <2>1. w \in Seq(AllThreads)
    BY <1>3, SeqMonotonic DEF AllThreads
  <2> QED
    BY <2>1 DEF MutexInv, Inv, ThreadInv, Consistent, AllThreads
<1>5. /\ Quiet(sched, sched') /\ sched'.wait = sched.wait
      /\ \A t \in AllThreads : sched'.status[t] = ResumedStatus(sched, w, "MUTEX", m, t)
  BY <1>1, <1>3, <1>4, ResumeAllFacts, ResumeAllQuiet
<1> HIDE DEF w
<1>6. Inv'
  BY <1>1, <1>2, <1>4, <1>5, QuietStep DEF ThreadsKept
<1>7. /\ KeepsObjectWaits(sched, sched') /\ DeathForgets
      /\ \A t \in Threads : Alive(sched, t) => Alive(sched', t)
  BY <1>4, <1>5, QuietWaitsKept
<1>8. ASSUME next[m] \in Threads
      PROVE  Alive(sched', next[m]) /\ ~Has(sched', next[m], "WAIT")
  <2>1. VerifyWait(sched, next[m], "MUTEX", m)
    <3>1. next[m] \in NextOwners(m, Waiting[m])
      BY DEF Heirs
    <3>2. next[m] # NoThread
      BY <1>8, SchedulerAssumption
    <3> QED
      BY <3>1, <3>2, NextOwnersFacts
  <2>2. Contains(w, next[m])
    BY <1>3, <1>8 DEF w
  <2>3. ~Has(sched', next[m], "WAIT")
    BY <1>4, <1>5, <1>8, <2>1, <2>2, EndedWait DEF ResumedStatus
  <2>4. Alive(sched, next[m])
    BY <1>8, <2>1 DEF VerifyWait, MutexInv, WaitersAsk
  <2> QED
    BY <1>7, <1>8, <2>3, <2>4
<1>9. /\ Waiting \in [Objects -> Seq(Threads)]
      /\ \A n \in Objects : IsInjective(Waiting[n])
      /\ \A n \in Objects : Waiting[n] = mutexes[n].waiting
  BY DEF Waiting, MutexInv, MutexTypeOK
<1>10. \A n \in Objects, t \in Threads : IsWaitingFor(sched', t, "MUTEX", n) => Contains(Waiting[n], t)
  BY <1>7, <1>9, WaitedBefore DEF MutexInv, LockWaiterListed
<1>11. \A n \in Objects \ {m} : mutexes[n].owner \in Threads => Alive(sched', mutexes[n].owner)
  BY <1>7 DEF MutexInv, LocksAgree, Alive
<1>12. HandsOver({m}, Waiting, next)
  <2>1. {m} \in SUBSET Objects /\ \A n \in {m} : MutexExists(n)
    BY <1>2
  <2>2. \A n \in {m} : next[n] \in Threads => Alive(sched', next[n]) /\ ~Has(sched', next[n], "WAIT")
    BY <1>8
  <2> QED
    BY <1>1, <1>7, <1>9, <1>10, <1>11, <2>1, <2>2 DEF HandsOver
<1>13. cur' = cur
  BY <1>5 DEF Quiet, cur
<1> QED
  BY <1>5, <1>6, <1>7, <1>12, <1>13

\* The end of a thread, which gives up its locks.
LEMMA EndThreadFacts ==
    ASSUME Misuse = {}, MutexInv, NEW t \in Threads, EndThread(t)
    PROVE  /\ Inv' /\ DeathForgets /\ sched'.wait = [sched.wait EXCEPT ![t] = NoWait]
           /\ cur' \in {cur, NoThread}
           /\ \E next : HandsOver({m \in Objects : mutexes[m].owner = t}, WaitingWithout(t), next)
<1> DEFINE held == {m \in Objects : heldLocks[t][m] > 0}
           lists == WaitingWithout(t)
<1>1. PICK order \in SetToSeqs(held), next \in Heirs(held, lists) :
          /\ Ends(t, ResumeEach(sched, Woken(next, order), ToSet(Woken(next, order))))
          /\ UnlockMutex(next, lists)
  BY DEF EndThread
<1> DEFINE woken == Woken(next, order)
           s == ResumeEach(sched, woken, ToSet(woken))
<1>2. /\ Inv /\ Consistent(sched) /\ QueueOK(sched) /\ \A x \in Threads : x \in AllThreads
      /\ sched.wait \in [AllThreads -> Waits]
  BY SchedTypes DEF MutexInv, Inv, ThreadInv, Consistent, QueueOK, AllThreads
<1>3. held \in SUBSET Objects /\ IsFiniteSet(held)
  BY MutexAssumption, FS_Subset
<1>4. \A m \in held : MutexExists(m) /\ mutexes[m].owner = t
  <2> SUFFICES ASSUME NEW m \in held PROVE MutexExists(m) /\ mutexes[m].owner = t
    OBVIOUS
  <2>1. mutexes[m].owner = t
    BY <1>2 DEF MutexInv, LocksAgree
  <2>2. t # NoThread
    BY SchedulerAssumption
  <2> QED
    BY <2>1, <2>2, FreeMutex
<1>5. \A m \in Objects \ held : mutexes[m].owner # t
  BY <1>2 DEF MutexInv, LocksAgree
<1> HIDE DEF held
<1>6. order \in Seq(held) /\ IsInjective(order) /\ \A m \in held : \E i \in DOMAIN order : order[i] = m
  BY <1>3, OrderFacts
<1>7. /\ woken \in Seq(Threads) /\ IsInjective(woken)
      /\ \A x : Contains(woken, x) <=> x \in Threads /\ \E i \in DOMAIN order : next[order[i]] = x
  BY <1>3, <1>6, WokenFacts
<1>8. woken \in Seq(AllThreads) /\ \A x \in ToSet(woken) : x \in AllThreads /\ Contains(woken, x)
  <2>1. woken \in Seq(AllThreads)
    BY <1>7, SeqMonotonic DEF AllThreads
  <2>2. \A x \in ToSet(woken) : Contains(woken, x)
    BY DEF ToSet, Contains
  <2> QED
    BY <1>2, <1>7, <2>1, <2>2
<1>9. /\ Quiet(sched, s) /\ s.wait = sched.wait
      /\ \A x \in AllThreads : x \in ToSet(woken) => s.status[x] = EndedWaitStatus(sched, x)
  BY <1>2, <1>7, <1>8, ResumeEachFacts, ResumeEachQuiet
<1>10. Ends(t, s)
  BY <1>1
<1> HIDE DEF s, woken
<1>11. /\ EndedFrom(s, sched', t) /\ Ended(sched', t) /\ timers' = StoppedTimers(t)
       /\ endWaiters' = [endWaiters EXCEPT ![t] = <<>>]
       /\ UNCHANGED <<wakeupCount, dispatch, suspender, intrVars>>
  <2> DEFINE stopped == StoppedFrom(s, t)
  <2>1. \A r \in {stopped, [stopped EXCEPT !.prio[t] = InitialPriority[t]], Deleted(stopped, t)} :
           EndedFrom(s, r, t) /\ Ended(r, t)
    BY <1>2, <1>9, EndsAfterQuiet
  <2>2. \/ Stop(t, stopped) \/ Stop(t, Deleted(stopped, t))
        \/ Stop(t, [stopped EXCEPT !.prio[t] = InitialPriority[t]])
    BY <1>10 DEF Ends
  <2> HIDE DEF stopped
  <2> QED
    BY <2>1, <2>2 DEF Stop
<1>12. \/ t # cur /\ phase' = phase
       \/ MayWait /\ phase' = "resched"
  BY <1>10 DEF Ends, MayExit, MayWait, Others
<1>13. Inv'
  BY <1>2, <1>11, <1>12, EndStep
<1>14. /\ \A x \in Threads : x # t /\ Alive(sched, x) => Alive(sched', x)
       /\ sched'.wait[t] = NoWait /\ ~Has(sched', t, "WAIT")
  <2>1. Consistent(sched') /\ sched'.wait = [sched.wait EXCEPT ![t] = NoWait]
    BY <1>11 DEF Ended, EndedFrom
  <2>2. \A x \in Threads : x # t /\ Alive(sched, x) => Alive(sched', x)
    BY <1>2, <1>11, <2>1, AliveMeans DEF Ended, EndedFrom
  <2>3. ~Has(sched', t, "WAIT")
    BY <1>11 DEF Ended, EndedFrom
  <2> QED
    BY <1>2, <2>1, <2>2, <2>3
<1>15. DeathForgets
  BY <1>14 DEF DeathForgets
<1>16. KeepsObjectWaits(sched, sched')
  BY <1>2, <1>11, EndKeeps DEF Ended
<1>17. /\ lists \in [Objects -> Seq(Threads)]
       /\ \A m \in Objects : IsInjective(lists[m])
       /\ \A m \in Objects : ~MutexExists(m) => lists[m] = mutexes[m].waiting
       /\ \A m \in Objects, x \in Threads : Contains(mutexes[m].waiting, x) /\ x # t => Contains(lists[m], x)
       /\ \A m \in Objects : MutexExists(m) /\ VerifyWait(sched, t, "MUTEX", m) => ~Contains(lists[m], t)
  <2> DEFINE gone(m) == sched.wait[t] = [type |-> "MUTEX", id |-> m] /\ MutexExists(m)
             left(m) == InOrder(mutexes[m].waiting, Threads \ {t})
  <2>1. \A m \in Objects : mutexes[m].waiting \in Seq(Threads) /\ IsInjective(mutexes[m].waiting)
    BY DEF MutexInv, MutexTypeOK
  <2>2. \A m \in Objects : /\ left(m) \in Seq(Threads) /\ IsInjective(left(m))
                           /\ \A x : Contains(left(m), x) <=> Contains(mutexes[m].waiting, x) /\ x \in Threads \ {t}
    BY <2>1, InOrderFacts
  <2>3. lists = [m \in Objects |-> IF gone(m) THEN left(m) ELSE mutexes[m].waiting]
    BY DEF WaitingWithout
  <2> HIDE DEF left, lists
  <2>4. lists \in [Objects -> Seq(Threads)] /\ \A m \in Objects : IsInjective(lists[m])
    BY <2>1, <2>2, <2>3
  <2>5. \A m \in Objects : ~MutexExists(m) => lists[m] = mutexes[m].waiting
    BY <2>3
  <2>6. \A m \in Objects, x \in Threads : Contains(mutexes[m].waiting, x) /\ x # t => Contains(lists[m], x)
    BY <2>2, <2>3
  <2>7. \A m \in Objects : MutexExists(m) /\ VerifyWait(sched, t, "MUTEX", m) => ~Contains(lists[m], t)
    BY <2>2, <2>3 DEF VerifyWait
  <2> QED
    BY <2>4, <2>5, <2>6, <2>7
<1> HIDE DEF lists
<1>18. ASSUME NEW m \in Objects, NEW x \in Threads, IsWaitingFor(sched', x, "MUTEX", m)
       PROVE  Contains(lists[m], x)
  <2>1. IsWaitingFor(sched, x, "MUTEX", m) /\ Has(sched', x, "WAIT")
    BY <1>16, <1>18, WaitedBefore DEF IsWaitingFor
  <2>2. Contains(mutexes[m].waiting, x)
    BY <2>1 DEF MutexInv, LockWaiterListed
  <2> QED
    BY <1>14, <1>17, <2>1, <2>2
<1>19. ASSUME NEW m \in held, next[m] \in Threads
       PROVE  Alive(sched', next[m]) /\ ~Has(sched', next[m], "WAIT")
  <2>1. VerifyWait(sched, next[m], "MUTEX", m) /\ Contains(lists[m], next[m])
    <3>1. next[m] \in NextOwners(m, lists[m])
      BY DEF Heirs
    <3>2. next[m] # NoThread
      BY <1>19, SchedulerAssumption
    <3> QED
      BY <3>1, <3>2, NextOwnersFacts
  <2>2. next[m] # t
    BY <1>3, <1>4, <1>17, <2>1
  <2>3. Alive(sched, next[m])
    BY <1>19, <2>1 DEF VerifyWait, MutexInv, WaitersAsk
  <2>4. Contains(woken, next[m])
    BY <1>6, <1>7, <1>19
  <2>5. ~Has(s, next[m], "WAIT")
    <3>1. next[m] \in ToSet(woken)
      BY <2>4 DEF ToSet, Contains
    <3> QED
      BY <1>2, <1>9, <1>19, <3>1, EndedWait
  <2>6. ~Has(sched', next[m], "WAIT")
    BY <1>11, <1>19, <2>5 DEF EndedFrom
  <2> QED
    BY <1>14, <1>19, <2>2, <2>3, <2>6
<1>20. \A m \in Objects \ held : mutexes[m].owner \in Threads => Alive(sched', mutexes[m].owner)
  BY <1>5, <1>14 DEF MutexInv, LocksAgree, Alive
<1>21. \A m \in Objects, x, y \in Threads : x \in Ahead(lists[m], y) => x \in Ahead(mutexes[m].waiting, y)
  <2> SUFFICES ASSUME NEW m \in Objects, NEW x \in Threads, NEW y \in Threads, x \in Ahead(lists[m], y)
               PROVE  x \in Ahead(mutexes[m].waiting, y)
    OBVIOUS
  <2> DEFINE w == mutexes[m].waiting
             left == InOrder(w, Threads \ {t})
  <2>1. lists[m] = w \/ lists[m] = left
    BY DEF lists, WaitingWithout
  <2>2. w \in Seq(Threads) /\ IsInjective(w)
    BY DEF MutexInv, MutexTypeOK
  <2> HIDE DEF w
  <2>3. \A k, l \in DOMAIN left : k < l => \E i, j \in DOMAIN w : i < j /\ w[i] = left[k] /\ w[j] = left[l]
    <3>1. \A i, j \in DOMAIN w : w[i] = w[j] /\ w[i] \in Threads \ {t} => i = j
      BY <2>2 DEF IsInjective
    <3> QED
      BY <2>2, <3>1, InOrderMembers
  <2> HIDE DEF left
  <2>4. x \in Ahead(w, y)
    BY <2>1, <2>3 DEF Ahead, ToSet
  <2> QED
    BY <2>4 DEF w
<1>22. held = {m \in Objects : mutexes[m].owner = t}
  BY <1>3, <1>4, <1>5
<1>23. HandsOver(held, lists, next)
  BY <1>1, <1>3, <1>4, <1>16, <1>17, <1>18, <1>19, <1>20, <1>21 DEF HandsOver, lists
<1>24. cur' \in {cur, NoThread} /\ sched'.wait = [sched.wait EXCEPT ![t] = NoWait]
  BY <1>11 DEF Ended, EndedFrom, cur
<1> QED
  BY <1>13, <1>15, <1>22, <1>23, <1>24 DEF lists
-----------------------------------------------------------------------------
(* The specification *)

\* Every step keeps the invariant.
LEMMA NextMutexInv ==
    ASSUME Misuse = {}, MutexInv, [MutexNext]_allVars
    PROVE  MutexInv'
<1>1. CASE UNCHANGED allVars
  <2>1. UNCHANGED <<vars, lockAsks, lockTimers>> /\ UNCHANGED <<mutexes, heldLocks, sched>>
    BY <1>1 DEF allVars, mutexVars, vars
  <2>2. MutexesTyped' /\ BlankUnlessExists' /\ LocksAgree' /\ LockWaiterListed'
    BY <2>1 DEF MutexInv, MutexTypeOK, MutexesTyped, MutexRecords, BlankUnlessExists, MutexExists,
                LocksAgree, LockWaiterListed
  <2> QED
    BY <2>1, <2>2, CallMutexInv
<1>2. CASE ThreadStep
  BY <1>2, ThreadStepMutexInv
<1>3. ASSUME NEW t \in Threads, EndThread(t) \/ MutexTimeout(t)
      PROVE  MutexInv'
  BY <1>3, EndThreadFacts, HandsOverInv, MutexTimeoutInv
<1>4. ASSUME NEW m \in Objects,
             \/ \E arguments \in Creations : CreateMutex(m, arguments)
             \/ DeleteMutex(m) \/ UnlockAll(m) \/ ReferMutexStatus(m)
             \/ \E count \in Counts \union {0} : CancelMutex(m, count)
      PROVE  MutexInv'
  BY <1>4, CreateMutexInv, DeleteMutexInv, UnlockAllFacts, HandsOverInv, ReferMutexStatusInv,
     CancelMutexInv
<1>5. ASSUME NEW m \in Objects, NEW count \in Counts,
             TryLockMutex(m, count) \/ UnlockSome(m, count)
      PROVE  MutexInv'
  BY <1>5, TakeLockInv, UnlockSomeInv DEF TryLockMutex
<1>6. ASSUME NEW m \in Objects, NEW count \in Counts, NEW timeout \in BOOLEAN,
             LockMutex(m, count, timeout)
      PROVE  MutexInv'
  BY <1>6, LockMutexInv
<1> QED
  BY <1>1, <1>2, <1>3, <1>4, <1>5, <1>6 DEF MutexNext

\* The invariant holds in every state, when no program makes one of the calls that
\* the kernel should refuse.
THEOREM MutexInvariant ==
    ASSUME Misuse = {}
    PROVE  MutexSpec => []MutexInv
<1>1. MutexInv /\ [MutexNext]_allVars => MutexInv'
  BY NextMutexInv
<1> QED
  BY InitMutexInv, <1>1, PTL DEF MutexSpec

\* The variables of the mutexes keep their types, and no list has a thread twice.
THEOREM MutexTypeCorrect ==
    ASSUME Misuse = {}
    PROVE  MutexSpec => []MutexTypeOK
<1>1. MutexInv => MutexTypeOK
  BY DEF MutexInv
<1> QED
  BY MutexInvariant, <1>1, PTL

\* A mutex is locked exactly when it has an owner, mutexHeldLocks has it once, for
\* this owner, and the owner has not ended.
THEOREM LocksAlwaysAgree ==
    ASSUME Misuse = {}
    PROVE  MutexSpec => []LocksAgree
<1>1. MutexInv => LocksAgree
  BY DEF MutexInv
<1> QED
  BY MutexInvariant, <1>1, PTL

\* No thread waits for a mutex that does not exist, that it owns, that nobody owns, or
\* that does not list it.
THEOREM LockWaitersAlwaysListed ==
    ASSUME Misuse = {}
    PROVE  MutexSpec => []LockWaiterListed
<1>1. MutexInv => LockWaiterListed
  BY DEF MutexInv
<1> QED
  BY MutexInvariant, <1>1, PTL

\* A wait for a mutex that has a time-out has an event to end it.
THEOREM TimedLocksAlwaysEnd ==
    ASSUME Misuse = {}
    PROVE  MutexSpec => []TimedLockEnds
<1>1. MutexInv => TimedLockEnds
  BY DEF MutexInv
<1> QED
  BY MutexInvariant, <1>1, PTL
-----------------------------------------------------------------------------
(* The order in which mutexes are passed on *)

\* No two members of a list are ahead of each other.
LEMMA AheadAsymmetric ==
    ASSUME NEW w \in Seq(Threads), IsInjective(w), NEW t, NEW u, t \in Ahead(w, u)
    PROVE  u \notin Ahead(w, t)
<1> SUFFICES ASSUME u \in Ahead(w, t) PROVE FALSE
  OBVIOUS
<1>1. PICK i, j \in DOMAIN w : i < j /\ w[i] = t /\ w[j] = u
  BY DEF Ahead
<1>2. PICK k, l \in DOMAIN w : k < l /\ w[k] = u /\ w[l] = t
  BY DEF Ahead
<1>3. i = l /\ j = k
  BY <1>1, <1>2 DEF IsInjective
<1> QED
  BY <1>1, <1>2, <1>3

\* Who comes before another in a part of a list does not come behind it in the list.
LEMMA ComesBeforeAsymmetric ==
    ASSUME MutexInv, NEW m \in Objects, NEW v, NEW w \in Seq(Threads), IsInjective(w),
           \A x, y \in Threads : x \in Ahead(v, y) => x \in Ahead(w, y),
           NEW t \in Threads, NEW u \in Threads, ComesBefore(m, v, t, u)
    PROVE  ~ComesBefore(m, w, u, t)
<1> DEFINE prio(x) == IF Exists(sched, x) THEN sched.prio[x] ELSE 0
<1>1. prio(t) \in Nat /\ prio(u) \in Nat
  <2>1. sched.prio \in [AllThreads -> AllPriorities]
    BY SchedTypes DEF MutexInv, Inv, ThreadInv, Consistent, QueueOK
  <2>2. AllPriorities \subseteq Nat
    BY SchedulerAssumption DEF AllPriorities
  <2>3. t \in AllThreads /\ u \in AllThreads
    BY DEF AllThreads
  <2> QED
    BY <2>1, <2>2, <2>3
<1>2. t \in Ahead(v, u) => u \notin Ahead(w, t)
  BY AheadAsymmetric
<1>3. /\ ComesBefore(m, v, t, u) <=> IF mutexes[m].fifo THEN t \in Ahead(v, u)
                                    ELSE prio(t) < prio(u) \/ (prio(t) = prio(u) /\ t \in Ahead(v, u))
      /\ ComesBefore(m, w, u, t) <=> IF mutexes[m].fifo THEN u \in Ahead(w, t)
                                    ELSE prio(u) < prio(t) \/ (prio(u) = prio(t) /\ u \in Ahead(w, t))
  BY DEF ComesBefore
<1> HIDE DEF prio
<1> QED
  BY <1>1, <1>2, <1>3

\* What is true of each newly granted lock.
GrantedFirst(m, t) ==
    lockAsks'[t].told = "granted" /\ lockAsks[t].told # "granted" /\ VerifyWait(sched, t, "MUTEX", m) =>
        ~\E u \in Threads : /\ IsWaitingFor(sched', u, "MUTEX", m)
                           /\ ComesBefore(m, mutexes[m].waiting, u, t)

\* When mutexes are passed on, each goes to the first.
LEMMA HandsOverFirst ==
    ASSUME MutexInv, NEW given, NEW lists, NEW next, HandsOver(given, lists, next),
           NEW m \in Objects, NEW t \in Threads
    PROVE  GrantedFirst(m, t)
<1> SUFFICES ASSUME lockAsks'[t].told = "granted", lockAsks[t].told # "granted",
                    VerifyWait(sched, t, "MUTEX", m),
                    NEW u \in Threads, IsWaitingFor(sched', u, "MUTEX", m),
                    ComesBefore(m, mutexes[m].waiting, u, t)
             PROVE  FALSE
  BY DEF GrantedFirst
<1>1. next \in Heirs(given, lists) /\ UnlockMutex(next, lists) /\ KeepsObjectWaits(sched, sched')
  BY DEF HandsOver
<1>2. /\ DOMAIN next = given /\ \A n \in given : next[n] \in NextOwners(n, lists[n])
      /\ given \subseteq Objects
  BY <1>1 DEF Heirs, HandsOver
<1>3. lockAsks'[t] = IF t \in {next[n] : n \in given} THEN [lockAsks[t] EXCEPT !.told = "granted"]
                    ELSE CurrentAsks(sched')[t]
  BY <1>1, <1>2 DEF UnlockMutex, Answer
<1>4. CurrentAsks(sched')[t].told # "granted"
  BY DEF CurrentAsks, NoAsk
<1>5. PICK n \in given : t = next[n]
  BY <1>3, <1>4
<1>6. t # NoThread
  BY SchedulerAssumption
<1>7. VerifyWait(sched, t, "MUTEX", n)
  BY <1>2, <1>5, <1>6, NextOwnersFacts
<1>8. n = m
  BY <1>7 DEF VerifyWait
<1>9. VerifyWait(sched, u, "MUTEX", m) /\ Has(sched', u, "WAIT")
  BY <1>1, WaitedBefore DEF IsWaitingFor
<1>10. u # t /\ Contains(lists[m], u)
  BY <1>5, <1>8, <1>9 DEF HandsOver
<1>11. ComesBefore(m, lists[m], t, u)
  BY <1>2, <1>5, <1>8, <1>9, <1>10, NextOwnersFacts
<1>12. /\ mutexes[m].waiting \in Seq(Threads) /\ IsInjective(mutexes[m].waiting)
       /\ \A x, y \in Threads : x \in Ahead(lists[m], y) => x \in Ahead(mutexes[m].waiting, y)
  BY DEF MutexInv, MutexTypeOK, HandsOver
<1> QED
  BY <1>11, <1>12, ComesBeforeAsymmetric

\* Other steps grant nothing.
LEMMA NothingGranted ==
    ASSUME NEW t \in Threads, lockAsks'[t].told = "granted" => lockAsks[t].told = "granted"
    PROVE  \A m \in Objects : GrantedFirst(m, t)
BY DEF GrantedFirst

\* An error is no grant.
LEMMA DismissGrantsNothing ==
    ASSUME NEW m, NEW w, Dismiss(m, w), NEW t \in Threads
    PROVE  lockAsks'[t].told = "granted" => lockAsks[t].told = "granted"
<1>1. \/ lockAsks'[t] = [lockAsks[t] EXCEPT !.told = "error"]
      \/ lockAsks'[t] \in {lockAsks[t], NoAsk}
  BY DEF Dismiss, Answer, CurrentAsks
<1>2. lockAsks'[t] = [lockAsks[t] EXCEPT !.told = "error"] => lockAsks'[t].told # "granted"
  OBVIOUS
<1> QED
  BY <1>1, <1>2 DEF NoAsk

\* Every step grants a mutex to the first who waits for it.
LEMMA NextGrantsFirst ==
    ASSUME Misuse = {}, MutexInv, [MutexNext]_allVars, NEW m \in Objects, NEW t \in Threads
    PROVE  GrantedFirst(m, t)
<1> DEFINE nothing == lockAsks'[t].told = "granted" => lockAsks[t].told = "granted"
<1>1. CASE UNCHANGED lockAsks
  BY <1>1, NothingGranted
<1>2. CASE ThreadStep
  BY <1>2, NothingGranted DEF ThreadStep, CurrentAsks, NoAsk
<1>3. ASSUME NEW x \in Threads, EndThread(x)
      PROVE  GrantedFirst(m, t)
  BY <1>3, EndThreadFacts, HandsOverFirst
<1>4. ASSUME NEW n \in Objects, UnlockAll(n)
      PROVE  GrantedFirst(m, t)
  BY <1>4, UnlockAllFacts, HandsOverFirst
<1>5. ASSUME NEW n \in Objects,
             DeleteMutex(n) \/ \E count \in Counts \union {0} : CancelMutex(n, count)
      PROVE  GrantedFirst(m, t)
  <2>1. \E w : Dismiss(n, w)
    BY <1>5 DEF DeleteMutex, CancelMutex
  <2> QED
    BY <2>1, DismissGrantsNothing, NothingGranted
<1>6. ASSUME NEW x \in Threads, MutexTimeout(x)
      PROVE  GrantedFirst(m, t)
  <2>1. lockAsks' = lockAsks \/ lockAsks' = [lockAsks EXCEPT ![x].told = "error"]
    BY <1>6 DEF MutexTimeout
  <2>2. lockAsks \in [Threads -> [want : Counts \union {0}, timed : BOOLEAN, told : Told]]
    BY DEF MutexInv, MutexTypeOK
  <2>3. nothing
    BY <2>1, <2>2
  <2> QED
    BY <2>3, NothingGranted
<1>7. ASSUME NEW n \in Objects, NEW count \in Counts, NEW timeout \in BOOLEAN,
             LockMutex(n, count, timeout)
      PROVE  GrantedFirst(m, t)
  <2>1. lockAsks' = [lockAsks EXCEPT ![cur] = [want |-> count, timed |-> timeout, told |-> "nothing"]]
    BY <1>7 DEF LockMutex
  <2>2. lockAsks \in [Threads -> [want : Counts \union {0}, timed : BOOLEAN, told : Told]]
    BY DEF MutexInv, MutexTypeOK
  <2>3. nothing
    BY <2>1, <2>2
  <2> QED
    BY <2>3, NothingGranted
<1>8. ASSUME NEW n \in Objects,
             \/ ReferMutexStatus(n)
             \/ \E arguments \in Creations : CreateMutex(n, arguments)
             \/ \E count \in Counts : TryLockMutex(n, count) \/ UnlockSome(n, count)
      PROVE  GrantedFirst(m, t)
  BY <1>1, <1>8 DEF ReferMutexStatus, CreateMutex, TryLockMutex, TakeLock, UnlockSome
<1> QED
  BY <1>1, <1>2, <1>3, <1>4, <1>5, <1>6, <1>7, <1>8 DEF MutexNext, allVars, mutexVars

\* A thread that is given a mutex is the first of those who wait for it, in the order
\* of the list or by priority.
THEOREM FirstIsAlwaysNext ==
    ASSUME Misuse = {}
    PROVE  MutexSpec => FirstIsNext
<1>1. MutexInv /\ [MutexNext]_allVars =>
          [\A m \in Objects, t \in Threads :
              lockAsks'[t].told = "granted" /\ lockAsks[t].told # "granted"
                /\ VerifyWait(sched, t, "MUTEX", m) =>
                  ~\E u \in Threads : /\ IsWaitingFor(sched', u, "MUTEX", m)
                                      /\ ComesBefore(m, mutexes[m].waiting, u, t)]_allVars
  BY NextGrantsFirst DEF GrantedFirst
<1> QED
  BY <1>1, MutexInvariant, PTL DEF MutexSpec, FirstIsNext
-----------------------------------------------------------------------------
(* The refinement *)

\* Who has asked for m and has neither got it nor given up.
Asks(m, t) ==
    Contains(mutexes[m].waiting, t) /\ sched.wait[t] = [type |-> "MUTEX", id |-> m]

\* What the refinement needs beyond MutexInv.
RequestInv ==
    /\ CurForgets
    /\ \A t \in Threads : sched.wait[t].type # "MUTEX" => lockAsks[t] = NoAsk
    /\ \A m \in Objects, t \in Threads : Asks(m, t) =>
          mutexes[m].owner # NoThread /\ lockAsks[t].told # "granted"

\* Nobody asks for anything at first.
LEMMA InitRequestInv == MutexInit => RequestInv
<1> SUFFICES ASSUME MutexInit PROVE RequestInv
  OBVIOUS
<1>1. /\ sched.wait = [t \in AllThreads |-> NoWait] /\ \A t \in Threads : t \in AllThreads
      /\ sched.cur = Root /\ Root \in Threads
  BY SchedulerAssumption, ThreadAssumption DEF MutexInit, Init, AllThreads
<1>2. \A t \in Threads : sched.wait[t] = NoWait
  BY <1>1
<1>3. NoWait.type \notin ObjectWaits /\ NoWait.type # "MUTEX"
  BY DEF NoWait, ObjectWaits
<1>4. CurForgets
  BY <1>2, <1>3 DEF CurForgets
<1>5. \A t \in Threads : lockAsks[t] = NoAsk
  BY DEF MutexInit
<1>6. \A m \in Objects, t \in Threads : ~Asks(m, t)
  BY <1>2, <1>3 DEF Asks
<1> QED
  BY <1>4, <1>5, <1>6 DEF RequestInv

\* Only who is alive waits for a mutex.
LEMMA CountsAsWaiting ==
    ASSUME NEW s, NEW t \in Threads, s.wait[t].type = "MUTEX" => Alive(s, t), NEW m
    PROVE  VerifyWait(s, t, "MUTEX", m) <=> s.wait[t] = [type |-> "MUTEX", id |-> m]
<1>1. s.wait[t] = [type |-> "MUTEX", id |-> m] => s.wait[t].type = "MUTEX"
  OBVIOUS
<1> QED
  BY <1>1 DEF VerifyWait, Alive, Exists, AllThreads

\* The variables of the abstract specification.
OwnerMap == [m \in Objects |-> mutexes[m].owner]
LevelMap == [m \in Objects |-> mutexes[m].level]
RequestMap ==
    [m \in Objects |-> [t \in Threads |->
        IF Contains(mutexes[m].waiting, t) /\ VerifyWait(sched, t, "MUTEX", m)
        THEN lockAsks[t].want ELSE 0]]
ToldMap == [t \in Threads |-> lockAsks[t].told]

\* What keeps the image of the state is a stutter of the abstract specification.
LEMMA AbstractStutters ==
    ASSUME OwnerMap' = OwnerMap, LevelMap' = LevelMap, RequestMap' = RequestMap, ToldMap' = ToldMap
    PROVE  UNCHANGED Abstract!vars
BY DEF Abstract!vars, OwnerMap, LevelMap, RequestMap, ToldMap

\* What a thread asks of a mutex, before and after a step.
LEMMA RequestsBefore ==
    ASSUME MutexInv
    PROVE  /\ RequestMap = [m \in Objects |-> [t \in Threads |-> IF Asks(m, t) THEN lockAsks[t].want ELSE 0]]
           /\ \A m \in Objects, t \in Threads : Asks(m, t) => lockAsks[t].want \in Nat \ {0}
           /\ \A m \in Objects : Abstract!Requesters(m) = {t \in Threads : Asks(m, t)}
<1>1. \A t \in Threads, m \in Objects :
         VerifyWait(sched, t, "MUTEX", m) <=> sched.wait[t] = [type |-> "MUTEX", id |-> m]
  BY CountsAsWaiting DEF MutexInv, WaitersAsk
<1>2. RequestMap = [m \in Objects |-> [t \in Threads |-> IF Asks(m, t) THEN lockAsks[t].want ELSE 0]]
  BY <1>1 DEF RequestMap, Asks
<1>3. ASSUME NEW m \in Objects, NEW t \in Threads, Asks(m, t)
      PROVE  lockAsks[t].want \in Nat \ {0}
  <2>1. sched.wait[t].type = "MUTEX"
    BY <1>3 DEF Asks
  <2>2. lockAsks[t].want > 0 /\ lockAsks[t].want \in Counts \union {0}
    BY <2>1 DEF MutexInv, WaitersAsk, MutexTypeOK
  <2> DEFINE want == lockAsks[t].want
  <2>3. want > 0 /\ want \in Counts \union {0}
    BY <2>2
  <2> HIDE DEF want
  <2>4. want \in Nat \ {0}
    BY <2>3, MutexAssumption
  <2> QED
    BY <2>4 DEF want
<1>4. \A m \in Objects : Abstract!Requesters(m) = {t \in Threads : RequestMap[m][t] > 0}
  BY DEF Abstract!Requesters, RequestMap
<1>5. \A m \in Objects : Abstract!Requesters(m) = {t \in Threads : Asks(m, t)}
  BY <1>2, <1>3, <1>4
<1> QED
  BY <1>2, <1>3, <1>5

\* The requests after a step, in the same words.
LEMMA RequestsAfter ==
    ASSUME MutexInv'
    PROVE  RequestMap' = [m \in Objects |-> [t \in Threads |-> IF Asks(m, t)' THEN lockAsks'[t].want ELSE 0]]
<1>1. \A t \in Threads, m \in Objects :
         VerifyWait(sched', t, "MUTEX", m) <=> sched'.wait[t] = [type |-> "MUTEX", id |-> m]
  BY CountsAsWaiting DEF MutexInv, WaitersAsk, Alive
<1> QED
  BY <1>1 DEF RequestMap, Asks

\* Nobody is told of a grant, by calls that remember what still waits.
Ungranted == \A t \in Threads : lockAsks'[t].told = "granted" => lockAsks[t].told = "granted"

\* What was asked is forgotten with the wait.
LEMMA AsksForgotten ==
    ASSUME MutexInv, RequestInv, KeepsObjectWaits(sched, sched')
    PROVE  /\ CurrentAsks(sched') \in [Threads -> [want : Counts \union {0}, timed : BOOLEAN, told : Told]]
           /\ \A t \in Threads : CurrentAsks(sched')[t] =
                 IF sched'.wait[t].type = "MUTEX" THEN lockAsks[t] ELSE NoAsk
           /\ sched'.wait = sched.wait => CurrentAsks(sched') = lockAsks
<1>1. lockAsks \in [Threads -> [want : Counts \union {0}, timed : BOOLEAN, told : Told]]
  BY DEF MutexInv, MutexTypeOK
<1>2. \A t \in Threads : CurrentAsks(sched')[t] =
                 IF sched'.wait[t].type = "MUTEX" THEN lockAsks[t] ELSE NoAsk
  BY DEF CurrentAsks
<1>3. ASSUME sched'.wait = sched.wait PROVE CurrentAsks(sched') = lockAsks
  <2>1. \A t \in Threads : CurrentAsks(sched')[t] = lockAsks[t]
    BY <1>2, <1>3 DEF RequestInv
  <2> QED
    BY <1>1, <2>1 DEF CurrentAsks
<1> QED
  BY <1>2, <1>3, AsksTyped

\* How the variables of the abstract specification change when mutexes are given up.
GivesUp(given, withdrawn, next) ==
    /\ next \in [given -> Threads \union {NoThread}]
    /\ \A m \in given : IF Abstract!Requesters(m) \subseteq withdrawn THEN next[m] = NoThread
                        ELSE next[m] \in Abstract!Requesters(m) \ withdrawn
    /\ Abstract!NewlyGranted = Abstract!Range(next) \ {NoThread}
    /\ OwnerMap' = [m \in Objects |-> IF m \in given THEN next[m] ELSE OwnerMap[m]]
    /\ LevelMap' = [m \in Objects |-> IF m \notin given THEN LevelMap[m]
                                      ELSE IF next[m] = NoThread THEN 0 ELSE RequestMap[m][next[m]]]
    /\ RequestMap' = [m \in Objects |-> [t \in Threads |->
                         IF t \in withdrawn \/ (m \in given /\ next[m] = t) THEN 0
                         ELSE RequestMap[m][t]]]

\* Such a step is one of Mutex.tla.
LEMMA GivenUp ==
    ASSUME NEW given, NEW withdrawn, NEW next, GivesUp(given, withdrawn, next)
    PROVE  Abstract!GiveUp(given, withdrawn)
BY Zenon DEF GivesUp, Abstract!GiveUp, OwnerMap, LevelMap, RequestMap

\* Steps that pass no mutex on but may end requests.
LEMMA WithdrawStep ==
    ASSUME MutexInv, RequestInv, MutexInv', UNCHANGED mutexes, KeepsObjectWaits(sched, sched'),
           AsksKept, Ungranted
    PROVE  \E withdrawn \in SUBSET Threads : Abstract!GiveUp({}, withdrawn)
<1>0. PICK gone \in SUBSET Threads : gone = {t \in Threads : sched'.wait[t].type # "MUTEX"}
  OBVIOUS
<1>1. \A m \in Objects, t \in Threads : Asks(m, t)' <=> Asks(m, t) /\ t \notin gone
  <2> SUFFICES ASSUME NEW m \in Objects, NEW t \in Threads
               PROVE  Asks(m, t)' <=> Asks(m, t) /\ t \notin gone
    OBVIOUS
  <2>1. t \notin gone => sched'.wait[t] = sched.wait[t]
    BY <1>0 DEF KeepsObjectWaits, ObjectWaits
  <2>2. t \in gone => sched'.wait[t] # [type |-> "MUTEX", id |-> m]
    BY <1>0
  <2> QED
    BY <2>1, <2>2 DEF Asks
<1>2. \A t \in Threads : t \notin gone => lockAsks'[t].want = lockAsks[t].want
  BY <1>0 DEF AsksKept
<1> DEFINE none == {} \intersect Objects
           next == [m \in none |-> NoThread]
<1>3. none = {}
  OBVIOUS
<1>4. /\ none \in SUBSET Objects /\ next \in [none -> Threads \union {NoThread}]
      /\ Abstract!Range(next) = {}
  BY <1>3 DEF Abstract!Range
<1> HIDE DEF next, none
<1>5. /\ OwnerMap' = [m \in Objects |-> IF m \in none THEN next[m] ELSE OwnerMap[m]]
      /\ LevelMap' = [m \in Objects |-> IF m \notin none THEN LevelMap[m]
                                        ELSE IF next[m] = NoThread THEN 0 ELSE RequestMap[m][next[m]]]
  BY <1>3 DEF OwnerMap, LevelMap
<1>6. RequestMap' = [m \in Objects |-> [t \in Threads |->
                        IF t \in gone \/ (m \in none /\ next[m] = t) THEN 0 ELSE RequestMap[m][t]]]
  BY <1>1, <1>2, <1>3, RequestsBefore, RequestsAfter
<1>7. Abstract!NewlyGranted = Abstract!Range(next) \ {NoThread}
  BY <1>4 DEF Ungranted, Abstract!NewlyGranted
<1>8. \A m \in none : IF Abstract!Requesters(m) \subseteq gone THEN next[m] = NoThread
                      ELSE next[m] \in Abstract!Requesters(m) \ gone
  BY <1>3
<1>9. GivesUp(none, gone, next)
  BY <1>4, <1>5, <1>6, <1>7, <1>8 DEF GivesUp
<1>10. Abstract!GiveUp(none, gone)
  BY <1>9, GivenUp
<1> QED
  BY <1>3, <1>10

\* The mutexes and what the threads were told, after UnlockMutex().
PassedOnTo(given, lists, next) ==
    /\ given \in SUBSET Objects /\ next \in [given -> Threads \union {NoThread}]
    /\ Answer({next[m] : m \in given}, "granted")
    /\ \A m \in given :
          /\ next[m] \in NextOwners(m, lists[m])
          /\ mutexes'[m].owner = next[m]
          /\ mutexes'[m].level = IF next[m] = NoThread THEN 0 ELSE lockAsks[next[m]].want
          /\ mutexes'[m].waiting = StillListed(m, lists[m], next[m])
    /\ \A m \in Objects \ given :
          /\ mutexes'[m].owner = mutexes[m].owner /\ mutexes'[m].level = mutexes[m].level
          /\ mutexes'[m].waiting = lists[m]

\* Passing mutexes on does this to each of them.
LEMMA PassedOn ==
    ASSUME MutexInv, NEW given, NEW lists, NEW next, HandsOver(given, lists, next)
    PROVE  PassedOnTo(given, lists, next)
<1> DEFINE want(m) == IF next[m] = NoThread THEN 0 ELSE lockAsks[next[m]].want
           passed(m) == [[[mutexes[m] EXCEPT !.waiting = lists[m]] EXCEPT
                            !.level = want(m), !.owner = next[m]] EXCEPT
                            !.waiting = StillListed(m, lists[m], next[m])]
<1>1. /\ next \in [given -> Threads \union {NoThread}] /\ DOMAIN next = given
      /\ \A m \in given : next[m] \in NextOwners(m, lists[m])
      /\ given \in SUBSET Objects /\ UnlockMutex(next, lists)
  BY DEF Heirs, HandsOver
<1>2. /\ mutexes' = [m \in Objects |-> IF m \notin given THEN [mutexes[m] EXCEPT !.waiting = lists[m]]
                                        ELSE passed(m)]
      /\ Answer({next[m] : m \in given}, "granted")
  BY <1>1, Zenon DEF UnlockMutex, Acquired
<1>3. mutexes \in [Objects -> MutexRecords]
  BY DEF MutexInv, MutexTypeOK, MutexRecords
<1> HIDE DEF want
<1>4. ASSUME NEW m \in given
      PROVE  /\ mutexes'[m].owner = next[m] /\ mutexes'[m].level = want(m)
             /\ mutexes'[m].waiting = StillListed(m, lists[m], next[m])
  <2>1. mutexes'[m] = passed(m) /\ mutexes[m] \in MutexRecords
    BY <1>1, <1>2, <1>3
  <2> QED
    BY <2>1 DEF MutexRecords
<1>5. ASSUME NEW m \in Objects \ given
      PROVE  /\ mutexes'[m].owner = mutexes[m].owner /\ mutexes'[m].level = mutexes[m].level
             /\ mutexes'[m].waiting = lists[m]
  <2>1. mutexes'[m] = [mutexes[m] EXCEPT !.waiting = lists[m]] /\ mutexes[m] \in MutexRecords
    BY <1>2, <1>3
  <2> QED
    BY <2>1 DEF MutexRecords
<1> QED
  BY <1>1, <1>2, <1>4, <1>5 DEF want, PassedOnTo

\* Passing mutexes on, when the waits of some threads end and the lists have exactly
\* the others who ask.
HandsOverWithout(given, lists, next, withdrawn) ==
    /\ HandsOver(given, lists, next)
    /\ withdrawn \in SUBSET Threads
    /\ \A t \in Threads : sched'.wait[t] = IF t \in withdrawn THEN NoWait ELSE sched.wait[t]
    /\ \A m \in Objects, t \in Threads : sched.wait[t] = [type |-> "MUTEX", id |-> m] =>
          (Contains(lists[m], t) <=> Contains(mutexes[m].waiting, t) /\ t \notin withdrawn)

\* Each mutex goes to somebody who asks for it, and is free only when nobody does.
LEMMA HeirsAsk ==
    ASSUME MutexInv, NEW given, NEW lists, NEW next, NEW withdrawn,
           HandsOverWithout(given, lists, next, withdrawn), NEW m \in given
    PROVE  /\ next[m] \in Threads \union {NoThread}
           /\ next[m] # NoThread => next[m] \in Threads \ withdrawn /\ Asks(m, next[m])
           /\ \A t \in Threads \ withdrawn : Asks(m, t) /\ t # next[m] =>
                 next[m] \in Threads /\ ComesBefore(m, lists[m], next[m], t)
<1>1. /\ HandsOver(given, lists, next) /\ NoThread \notin Threads
      /\ \A t \in Threads : VerifyWait(sched, t, "MUTEX", m) <=> sched.wait[t] = [type |-> "MUTEX", id |-> m]
  BY CountsAsWaiting, SchedulerAssumption DEF HandsOverWithout, MutexInv, WaitersAsk
<1>2. /\ m \in Objects /\ next[m] \in NextOwners(m, lists[m]) /\ next[m] \in Threads \union {NoThread}
  <2>1. PassedOnTo(given, lists, next)
    BY <1>1, PassedOn
  <2> QED
    BY <2>1 DEF PassedOnTo
<1>3. /\ next[m] = NoThread \/ (Contains(lists[m], next[m]) /\ VerifyWait(sched, next[m], "MUTEX", m) /\ next[m] \in Threads)
      /\ \A u \in Threads : Contains(lists[m], u) /\ VerifyWait(sched, u, "MUTEX", m) /\ u # next[m] =>
            ComesBefore(m, lists[m], next[m], u) /\ next[m] \in Threads
  BY <1>2, NextOwnersFacts
<1>4. \A t \in Threads : VerifyWait(sched, t, "MUTEX", m) =>
         (Contains(lists[m], t) <=> Contains(mutexes[m].waiting, t) /\ t \notin withdrawn)
  <2>1. \A t \in Threads : sched.wait[t] = [type |-> "MUTEX", id |-> m] =>
           (Contains(lists[m], t) <=> Contains(mutexes[m].waiting, t) /\ t \notin withdrawn)
    BY <1>2, Zenon DEF HandsOverWithout
  <2> QED
    BY <1>1, <2>1
<1>5. \A t \in Threads : Asks(m, t) <=> Contains(mutexes[m].waiting, t) /\ VerifyWait(sched, t, "MUTEX", m)
  BY <1>1 DEF Asks
<1>6. next[m] # NoThread => next[m] \in Threads \ withdrawn /\ Asks(m, next[m])
  BY <1>2, <1>3, <1>4, <1>5
<1>7. ASSUME NEW t \in Threads \ withdrawn, Asks(m, t), t # next[m]
      PROVE  next[m] \in Threads /\ ComesBefore(m, lists[m], next[m], t)
  <2>1. Contains(lists[m], t) /\ VerifyWait(sched, t, "MUTEX", m)
    BY <1>4, <1>5, <1>7
  <2> QED
    BY <1>3, <1>7, <2>1
<1> QED
  BY <1>2, <1>6, <1>7

\* Who asks for a mutex after it was passed on: who did before, without the withdrawn
\* and the new owner.
LEMMA AsksAfter ==
    ASSUME MutexInv, NEW given, NEW lists, NEW next, NEW withdrawn,
           HandsOverWithout(given, lists, next, withdrawn), NEW m \in Objects, NEW t \in Threads
    PROVE  Asks(m, t)' <=> Asks(m, t) /\ t \notin withdrawn /\ ~(m \in given /\ next[m] = t)
<1> DEFINE waits == sched.wait[t] = [type |-> "MUTEX", id |-> m]
           waits2 == sched'.wait[t] = [type |-> "MUTEX", id |-> m]
<1>1. /\ m \in given => mutexes'[m].waiting = StillListed(m, lists[m], next[m])
      /\ m \notin given => mutexes'[m].waiting = lists[m]
      /\ HandsOver(given, lists, next)
  <2>1. HandsOver(given, lists, next)
    BY DEF HandsOverWithout
  <2>2. PassedOnTo(given, lists, next)
    BY <2>1, PassedOn
  <2> QED
    BY <2>1, <2>2 DEF PassedOnTo
<1>2. waits2 <=> waits /\ t \notin withdrawn
  <2>1. NoWait # [type |-> "MUTEX", id |-> m]
    BY DEF NoWait
  <2> QED
    BY <2>1 DEF HandsOverWithout
<1>3. waits => (Contains(lists[m], t) <=> Contains(mutexes[m].waiting, t) /\ t \notin withdrawn)
  BY DEF HandsOverWithout
<1>4. Asks(m, t) <=> Contains(mutexes[m].waiting, t) /\ waits
  BY DEF Asks
<1>5. Asks(m, t)' <=> Contains(mutexes'[m].waiting, t) /\ waits2
  BY DEF Asks
<1> HIDE DEF waits, waits2
<1>6. CASE m \notin given
  <2>1. mutexes'[m].waiting = lists[m]
    BY <1>1, <1>6
  <2> QED
    BY <1>2, <1>3, <1>4, <1>5, <1>6, <2>1
<1>7. CASE m \in given
  <2>1. mutexes'[m].waiting = StillListed(m, lists[m], next[m])
    BY <1>1, <1>7
  <2>2. /\ next[m] \in Threads \union {NoThread}
        /\ t \notin withdrawn /\ Asks(m, t) /\ t # next[m] =>
              next[m] \in Threads /\ ComesBefore(m, lists[m], next[m], t)
    BY <1>7, HeirsAsk
  <2>3. CASE next[m] = NoThread
    <3>1. ~Contains(<<>>, t)
      BY DEF Contains
    <3>2. mutexes'[m].waiting = <<>>
      BY <2>1, <2>3 DEF StillListed
    <3> QED
      BY <1>5, <1>7, <2>2, <2>3, <3>1, <3>2, SchedulerAssumption
  <2>4. CASE next[m] # NoThread
    <3>1. lists[m] \in Seq(Threads) /\ IsInjective(lists[m]) /\ next[m] \in Threads
      BY <1>1, <2>2, <2>4 DEF HandsOver
    <3>2. ~ComesBefore(m, lists[m], next[m], next[m])
      BY <3>1, ComesBeforeAsymmetric
    <3>3. mutexes'[m].waiting = InOrder(lists[m], {u \in Threads : ComesBefore(m, lists[m], next[m], u)})
      BY <2>1, <2>4 DEF StillListed
    <3>4. Contains(mutexes'[m].waiting, t) <=> Contains(lists[m], t) /\ ComesBefore(m, lists[m], next[m], t)
      BY <3>1, <3>3, InOrderFacts
    <3> QED
      BY <1>2, <1>3, <1>4, <1>5, <1>7, <2>2, <3>2, <3>4
  <2> QED
    BY <2>3, <2>4
<1> QED
  BY <1>6, <1>7

\* What the threads are told when mutexes are passed on, and what they remember.
LEMMA ToldAfter ==
    ASSUME MutexInv, RequestInv, NEW given, NEW lists, NEW next, NEW withdrawn,
           HandsOverWithout(given, lists, next, withdrawn), NEW t \in Threads
    PROVE  /\ lockAsks'[t].told = "granted" =>
                 (\E m \in given : next[m] = t) \/ lockAsks[t].told = "granted"
           /\ \A m \in given : next[m] = t => lockAsks'[t].told = "granted" /\ lockAsks[t].told # "granted"
           /\ sched'.wait[t].type = "MUTEX" => lockAsks'[t].want = lockAsks[t].want
           /\ sched'.wait[t].type # "MUTEX" => lockAsks'[t] = NoAsk
<1>1. HandsOver(given, lists, next)
  BY DEF HandsOverWithout
<1>2. PassedOnTo(given, lists, next)
  BY <1>1, PassedOn
<1> DEFINE got == \E m \in given : next[m] = t
<1>3. /\ got => lockAsks'[t] = [lockAsks[t] EXCEPT !.told = "granted"]
      /\ ~got => lockAsks'[t] = CurrentAsks(sched')[t]
  BY <1>2 DEF PassedOnTo, Answer
<1>4. CurrentAsks(sched')[t] = IF sched'.wait[t].type = "MUTEX" THEN lockAsks[t] ELSE NoAsk
  BY DEF CurrentAsks
<1>5. lockAsks[t] \in [want : Counts \union {0}, timed : BOOLEAN, told : Told]
  BY DEF MutexInv, MutexTypeOK
<1>6. ASSUME NEW m \in given, next[m] = t
      PROVE  lockAsks[t].told # "granted" /\ sched'.wait[t].type = "MUTEX"
  <2>1. Asks(m, t) /\ t \notin withdrawn /\ m \in Objects
    BY <1>2, <1>6, HeirsAsk, SchedulerAssumption DEF PassedOnTo
  <2>2. sched.wait[t] = [type |-> "MUTEX", id |-> m] /\ sched'.wait[t] = sched.wait[t]
    BY <2>1 DEF Asks, HandsOverWithout
  <2> QED
    BY <2>1, <2>2 DEF RequestInv
<1>7. CASE got
  <2>1. lockAsks'[t].told = "granted" /\ lockAsks'[t].want = lockAsks[t].want
    BY <1>3, <1>5, <1>7
  <2> QED
    BY <1>6, <1>7, <2>1
<1>8. CASE ~got
  BY <1>3, <1>4, <1>8 DEF NoAsk
<1> QED
  BY <1>7, <1>8

\* Passing mutexes on is giving them up.
LEMMA HandsOverRefines ==
    ASSUME MutexInv, RequestInv, MutexInv', CurForgets', NEW given, NEW lists, NEW next, NEW withdrawn,
           HandsOverWithout(given, lists, next, withdrawn)
    PROVE  Abstract!GiveUp(given, withdrawn) /\ RequestInv'
<1>1. PassedOnTo(given, lists, next) /\ withdrawn \in SUBSET Threads
  BY PassedOn DEF HandsOverWithout
<1>2. /\ RequestMap = [m \in Objects |-> [t \in Threads |-> IF Asks(m, t) THEN lockAsks[t].want ELSE 0]]
      /\ \A m \in Objects : Abstract!Requesters(m) = {t \in Threads : Asks(m, t)}
  BY RequestsBefore
<1>3. \A m \in given :
         /\ m \in Objects /\ next[m] \in Threads \union {NoThread}
         /\ next[m] # NoThread => next[m] \in Threads \ withdrawn /\ Asks(m, next[m])
         /\ \A t \in Threads \ withdrawn : Asks(m, t) /\ t # next[m] => next[m] \in Threads
  BY <1>1, HeirsAsk DEF PassedOnTo
<1>4. NoThread \notin Threads
  BY SchedulerAssumption
<1>5. \A m \in given : IF Abstract!Requesters(m) \subseteq withdrawn THEN next[m] = NoThread
                       ELSE next[m] \in Abstract!Requesters(m) \ withdrawn
  <2> SUFFICES ASSUME NEW m \in given
               PROVE  IF Abstract!Requesters(m) \subseteq withdrawn THEN next[m] = NoThread
                      ELSE next[m] \in Abstract!Requesters(m) \ withdrawn
    OBVIOUS
  <2>1. Abstract!Requesters(m) = {t \in Threads : Asks(m, t)}
    BY <1>2, <1>3
  <2> QED
    BY <1>3, <1>4, <2>1
<1>6. Abstract!NewlyGranted = Abstract!Range(next) \ {NoThread}
  <2>1. Abstract!NewlyGranted = {t \in Threads : lockAsks'[t].told = "granted" /\ lockAsks[t].told # "granted"}
    BY DEF Abstract!NewlyGranted
  <2>2. Abstract!Range(next) = {next[m] : m \in given}
    BY <1>1 DEF Abstract!Range, PassedOnTo
  <2>3. \A t \in Threads : lockAsks'[t].told = "granted" /\ lockAsks[t].told # "granted"
                              <=> \E m \in given : next[m] = t
    BY ToldAfter
  <2> QED
    BY <1>3, <1>4, <2>1, <2>2, <2>3
<1>7. OwnerMap' = [m \in Objects |-> IF m \in given THEN next[m] ELSE OwnerMap[m]]
  BY <1>1 DEF OwnerMap, PassedOnTo
<1>8. LevelMap' = [m \in Objects |-> IF m \notin given THEN LevelMap[m]
                                     ELSE IF next[m] = NoThread THEN 0 ELSE RequestMap[m][next[m]]]
  <2> SUFFICES ASSUME NEW m \in Objects
               PROVE  mutexes'[m].level = IF m \notin given THEN mutexes[m].level
                                          ELSE IF next[m] = NoThread THEN 0 ELSE RequestMap[m][next[m]]
    BY DEF LevelMap
  <2>1. m \in given /\ next[m] # NoThread => RequestMap[m][next[m]] = lockAsks[next[m]].want
    BY <1>2, <1>3
  <2> QED
    BY <1>1, <2>1 DEF PassedOnTo
<1>9. RequestMap' = [m \in Objects |-> [t \in Threads |->
                        IF t \in withdrawn \/ (m \in given /\ next[m] = t) THEN 0
                        ELSE RequestMap[m][t]]]
  <2>1. ASSUME NEW m \in Objects, NEW t \in Threads
        PROVE  /\ Asks(m, t)' <=> Asks(m, t) /\ t \notin withdrawn /\ ~(m \in given /\ next[m] = t)
               /\ Asks(m, t)' => lockAsks'[t].want = lockAsks[t].want
    <3>1. Asks(m, t)' <=> Asks(m, t) /\ t \notin withdrawn /\ ~(m \in given /\ next[m] = t)
      BY AsksAfter
    <3>2. Asks(m, t)' => sched'.wait[t].type = "MUTEX"
      BY DEF Asks
    <3> QED
      BY <3>1, <3>2, ToldAfter
  <2>2. RequestMap' = [m \in Objects |-> [t \in Threads |-> IF Asks(m, t)' THEN lockAsks'[t].want ELSE 0]]
    BY RequestsAfter
  <2> QED
    BY <1>2, <2>1, <2>2
<1>10. Abstract!GiveUp(given, withdrawn)
  <2>1. GivesUp(given, withdrawn, next)
    BY <1>1, <1>5, <1>6, <1>7, <1>8, <1>9 DEF GivesUp, PassedOnTo
  <2> QED
    BY <2>1, GivenUp
<1>11. ASSUME NEW m \in Objects, NEW t \in Threads, Asks(m, t)'
       PROVE  mutexes'[m].owner # NoThread /\ lockAsks'[t].told # "granted"
  <2>1. Asks(m, t) /\ t \notin withdrawn /\ ~(m \in given /\ next[m] = t)
    BY <1>11, AsksAfter
  <2>2. mutexes[m].owner # NoThread /\ lockAsks[t].told # "granted"
    BY <2>1 DEF RequestInv
  <2>3. mutexes'[m].owner # NoThread
    BY <1>1, <1>3, <1>4, <2>1, <2>2 DEF PassedOnTo
  <2>4. \A n \in given : next[n] # t
    <3> SUFFICES ASSUME NEW n \in given, next[n] = t PROVE FALSE
      OBVIOUS
    <3>1. Asks(n, t)
      BY <1>3, <1>4
    <3>2. n = m
      BY <2>1, <3>1 DEF Asks
    <3> QED
      BY <2>1, <3>2
  <2> QED
    BY <2>2, <2>3, <2>4, ToldAfter
<1>12. \A t \in Threads : sched'.wait[t].type # "MUTEX" => lockAsks'[t] = NoAsk
  BY ToldAfter
<1>13. RequestInv'
  BY <1>11, <1>12 DEF RequestInv
<1> QED
  BY <1>10, <1>13

\* A step of the abstract specification that gives mutexes up.
LEMMA GiveUpIsNext ==
    ASSUME NEW o \in AllThreads, NEW withdrawn \in SUBSET Threads, NEW given \in SUBSET Objects,
           Abstract!GiveUp(given, withdrawn),
           \/ given = {} \/ given = {m \in Objects : mutexes[m].owner = o}
           \/ \E m \in Objects : given = {m} /\ mutexes[m].owner = o
    PROVE  Abstract!Next
<1>1. Abstract!OwnedBy(o) = {m \in Objects : mutexes[m].owner = o}
  BY DEF Abstract!OwnedBy
<1>2. given \in {{}, Abstract!OwnedBy(o)} \union {{m} : m \in Abstract!OwnedBy(o)}
  BY <1>1
<1> QED
  BY <1>2 DEF Abstract!Next

\* sceKernelUnlockMutex() when no level is left.
LEMMA UnlockAllRefines ==
    ASSUME MutexInv, RequestInv, MutexInv', NEW m \in Objects, UnlockAll(m)
    PROVE  Abstract!Next /\ RequestInv'
<1>1. PICK next : HandsOver({m}, Waiting, next)
  BY UnlockAllFacts
<1>2. sched'.wait = sched.wait /\ cur' = cur /\ SomeoneRuns /\ mutexes[m].owner = cur
  BY UnlockAllFacts DEF UnlockAll, MayUnlock
<1>3. CurForgets'
  BY <1>1, <1>2, CallCurForgets DEF HandsOver, MutexInv, RequestInv
<1>4. PICK lists : lists = Waiting
  OBVIOUS
<1>5. PICK given : given = {m}
  OBVIOUS
<1>6. HandsOverWithout(given, lists, next, {})
  <2>1. \A n \in Objects : lists[n] = mutexes[n].waiting
    BY <1>4 DEF Waiting
  <2> QED
    BY <1>1, <1>2, <1>4, <1>5, <2>1 DEF HandsOverWithout
<1>7. Abstract!GiveUp(given, {}) /\ RequestInv'
  BY <1>3, <1>6, HandsOverRefines
<1>8. PICK o \in AllThreads : o = cur
  BY <1>2, CallerAlive DEF MutexInv
<1>9. Abstract!Next
  BY <1>2, <1>5, <1>7, <1>8, GiveUpIsNext
<1> QED
  BY <1>7, <1>9

\* The lists without a thread that ends.
LEMMA WaitingWithoutFacts ==
    ASSUME MutexInv, NEW t \in Threads, NEW m \in Objects, NEW x \in Threads,
           sched.wait[x] = [type |-> "MUTEX", id |-> m]
    PROVE  Contains(WaitingWithout(t)[m], x) <=> Contains(mutexes[m].waiting, x) /\ x # t
<1> DEFINE w == mutexes[m].waiting
           left == InOrder(w, Threads \ {t})
<1>1. w \in Seq(Threads) /\ IsInjective(w)
  BY DEF MutexInv, MutexTypeOK
<1>2. Contains(left, x) <=> Contains(w, x) /\ x # t
  BY <1>1, InOrderFacts
<1>3. WaitingWithout(t)[m] = IF sched.wait[t] = [type |-> "MUTEX", id |-> m] /\ MutexExists(m)
                             THEN left ELSE w
  BY DEF WaitingWithout
<1>4. ~MutexExists(m) => ~Contains(w, x)
  BY DEF MutexInv, BlankUnlessExists, NoMutex, Contains
<1> HIDE DEF left, w
<1>5. CASE x = t
  BY <1>2, <1>3, <1>4, <1>5 DEF w
<1>6. CASE x # t
  BY <1>2, <1>3, <1>6 DEF w
<1> QED
  BY <1>5, <1>6

\* The end of a thread.
LEMMA EndThreadRefines ==
    ASSUME Misuse = {}, MutexInv, RequestInv, MutexInv', NEW t \in Threads, EndThread(t)
    PROVE  Abstract!Next /\ RequestInv'
<1>1. PICK given, lists, next :
          /\ given = {m \in Objects : mutexes[m].owner = t} /\ lists = WaitingWithout(t)
          /\ HandsOver(given, lists, next)
  BY EndThreadFacts
<1>2. sched'.wait = [sched.wait EXCEPT ![t] = NoWait] /\ cur' \in {cur, NoThread}
  BY EndThreadFacts
<1>3. sched.wait \in [AllThreads -> Waits] /\ \A x \in Threads : x \in AllThreads
  BY SchedTypes DEF MutexInv, Inv, ThreadInv, Consistent, QueueOK, AllThreads
<1>4. SomeoneRuns
  BY DEF EndThread, Ends, MayExit, SomeoneRuns
<1>5. CurForgets'
  BY <1>1, <1>2, <1>4, CallCurForgets DEF HandsOver, MutexInv, RequestInv
<1>6. HandsOverWithout(given, lists, next, {t})
  BY <1>1, <1>2, <1>3, WaitingWithoutFacts DEF HandsOverWithout
<1>7. Abstract!GiveUp(given, {t}) /\ RequestInv'
  BY <1>1, <1>5, <1>6, HandsOverRefines
<1>8. Abstract!Next
  BY <1>1, <1>3, <1>7, GiveUpIsNext
<1> QED
  BY <1>7, <1>8

\* How the variables of the abstract specification change when a mutex is created,
\* cancelled or deleted.
Resets(m) ==
    /\ OwnerMap'[m] \in AllThreads \union {NoThread}
    /\ OwnerMap' = [OwnerMap EXCEPT ![m] = OwnerMap'[m]]
    /\ LevelMap'[m] \in Nat /\ (LevelMap'[m] = 0 <=> OwnerMap'[m] = NoThread)
    /\ LevelMap' = [LevelMap EXCEPT ![m] = LevelMap'[m]]
    /\ RequestMap' = [RequestMap EXCEPT ![m] = [t \in Threads |-> 0]]
    /\ ToldMap' = [t \in Threads |-> IF t \in Abstract!Requesters(m) THEN "error" ELSE ToldMap[t]]

\* Such a step is one of Mutex.tla.
LEMMA ResetIsNext ==
    ASSUME NEW m \in Objects, Resets(m)
    PROVE  Abstract!Next
<1>1. Abstract!Reset(m)
  BY Zenon DEF Resets, Abstract!Reset, OwnerMap, LevelMap, RequestMap, ToldMap
<1> QED
  BY <1>1 DEF Abstract!Next

\* A call after which nobody asks for m, and those who did were told an error.
LEMMA ResetRefines ==
    ASSUME MutexInv, RequestInv, MutexInv', CurForgets', NEW m \in Objects,
           \A n \in Objects \ {m} : mutexes'[n] = mutexes[n],
           mutexes'[m].waiting = <<>>, sched'.wait = sched.wait,
           \A t \in Threads : lockAsks'[t] = IF Asks(m, t) THEN [lockAsks[t] EXCEPT !.told = "error"]
                                             ELSE lockAsks[t]
    PROVE  Abstract!Next /\ RequestInv'
<1>1. /\ RequestMap = [n \in Objects |-> [t \in Threads |-> IF Asks(n, t) THEN lockAsks[t].want ELSE 0]]
      /\ Abstract!Requesters(m) = {t \in Threads : Asks(m, t)}
  BY RequestsBefore
<1>2. RequestMap' = [n \in Objects |-> [t \in Threads |-> IF Asks(n, t)' THEN lockAsks'[t].want ELSE 0]]
  BY RequestsAfter
<1>3. \A t \in Threads : ~Asks(m, t)'
  BY DEF Asks, Contains
<1>4. \A n \in Objects \ {m}, t \in Threads : Asks(n, t)' <=> Asks(n, t)
  BY DEF Asks
<1>5. \A t \in Threads :
         /\ lockAsks'[t].want = lockAsks[t].want
         /\ lockAsks'[t].told = IF Asks(m, t) THEN "error" ELSE lockAsks[t].told
  BY DEF MutexInv, MutexTypeOK
<1>6. /\ mutexes'[m].owner \in AllThreads \union {NoThread} /\ mutexes'[m].level \in Nat
      /\ mutexes'[m].level = 0 <=> mutexes'[m].owner = NoThread
  <2>1. mutexes'[m] \in MutexRecords /\ (mutexes'[m].level > 0 <=> mutexes'[m].owner # NoThread)
    BY DEF MutexInv, MutexTypeOK, LocksAgree, MutexRecords
  <2> QED
    BY <2>1, MutexAssumption DEF MutexRecords
<1>7. /\ OwnerMap'[m] \in AllThreads \union {NoThread}
      /\ OwnerMap' = [OwnerMap EXCEPT ![m] = OwnerMap'[m]]
      /\ LevelMap'[m] \in Nat /\ (LevelMap'[m] = 0 <=> OwnerMap'[m] = NoThread)
      /\ LevelMap' = [LevelMap EXCEPT ![m] = LevelMap'[m]]
  BY <1>6 DEF OwnerMap, LevelMap
<1>8. RequestMap' = [RequestMap EXCEPT ![m] = [t \in Threads |-> 0]]
  <2>1. \A n \in Objects, t \in Threads :
           (IF Asks(n, t)' THEN lockAsks'[t].want ELSE 0) = IF n = m THEN 0 ELSE RequestMap[n][t]
    BY <1>1, <1>3, <1>4, <1>5
  <2>2. \A n \in Objects : RequestMap[n] = [t \in Threads |-> RequestMap[n][t]]
    BY <1>1
  <2>3. RequestMap' = [n \in Objects |-> IF n = m THEN [t \in Threads |-> 0] ELSE RequestMap[n]]
    BY <1>2, <2>1, <2>2
  <2>4. RequestMap = [n \in Objects |-> RequestMap[n]]
    BY <1>1
  <2> QED
    BY <2>3, <2>4
<1>9. ToldMap' = [t \in Threads |-> IF t \in Abstract!Requesters(m) THEN "error" ELSE ToldMap[t]]
  BY <1>1, <1>5 DEF ToldMap
<1>10. Abstract!Next
  <2>1. Resets(m)
    BY <1>7, <1>8, <1>9 DEF Resets
  <2> QED
    BY <2>1, ResetIsNext
<1>11. ASSUME NEW t \in Threads, sched'.wait[t].type # "MUTEX"
       PROVE  lockAsks'[t] = NoAsk
  <2>1. ~Asks(m, t) /\ lockAsks[t] = NoAsk
    BY <1>11 DEF Asks, RequestInv
  <2> QED
    BY <2>1
<1>12. ASSUME NEW n \in Objects, NEW t \in Threads, Asks(n, t)'
       PROVE  mutexes'[n].owner # NoThread /\ lockAsks'[t].told # "granted"
  <2>1. n # m /\ Asks(n, t)
    BY <1>3, <1>4, <1>12
  <2> QED
    BY <1>5, <2>1 DEF RequestInv
<1> QED
  BY <1>10, <1>11, <1>12 DEF RequestInv

\* Who is told an error by Dismiss(), and that the others remember what they asked for.
LEMMA DismissedAsk ==
    ASSUME MutexInv, RequestInv, NEW m \in Objects, NEW w \in Seq(Threads), IsInjective(w), Dismiss(m, w),
           \A t \in Threads : Asks(m, t) => Contains(w, t),
           \A t \in Threads : Contains(w, t) => Contains(mutexes[m].waiting, t),
           SomeoneRuns
    PROVE  /\ sched'.wait = sched.wait /\ CurForgets'
           /\ \A t \in Threads : lockAsks'[t] = IF Asks(m, t) THEN [lockAsks[t] EXCEPT !.told = "error"]
                                                ELSE lockAsks[t]
<1>1. \A t \in Threads : Contains(w, t) /\ t \in Asking(sched, m) <=> Asks(m, t)
  BY CountsAsWaiting DEF Asking, Asks, MutexInv, WaitersAsk
<1>2. \A t \in Threads : IsWaitingFor(sched, t, "MUTEX", m) => Contains(w, t)
  BY CountsAsWaiting DEF IsWaitingFor, MutexInv, WaitersAsk, LockWaiterListed, Asks
<1>3. sched'.wait = sched.wait /\ cur' = cur
  BY <1>2, DismissFacts
<1>4. KeepsObjectWaits(sched, sched')
  BY <1>2, DismissFacts
<1>5. CurForgets'
  BY <1>3, <1>4, CallCurForgets DEF MutexInv, RequestInv
<1>6. CurrentAsks(sched') = lockAsks
  BY <1>3, <1>4, AsksForgotten
<1>7. \A t \in Threads : t \in ToSet(w) \intersect Asking(sched, m) <=> Asks(m, t)
  BY <1>1 DEF ToSet, Contains
<1>8. \A t \in Threads : lockAsks'[t] = IF Asks(m, t) THEN [lockAsks[t] EXCEPT !.told = "error"]
                                        ELSE lockAsks[t]
  BY <1>6, <1>7 DEF Dismiss, Answer
<1> QED
  BY <1>3, <1>5, <1>8

\* Nobody asks for a mutex that does not exist.
LEMMA BlankUnasked ==
    ASSUME MutexInv, NEW m \in Objects, ~MutexExists(m), NEW t \in Threads
    PROVE  ~Asks(m, t)
BY DEF MutexInv, BlankUnlessExists, NoMutex, Asks, Contains

\* The calls that create, delete and cancel a mutex.
LEMMA ResetCallsRefine ==
    ASSUME MutexInv, RequestInv, MutexInv', NEW m \in Objects,
           \/ \E arguments \in Creations : CreateMutex(m, arguments)
           \/ DeleteMutex(m)
           \/ \E count \in Counts \union {0} : CancelMutex(m, count)
    PROVE  Abstract!Next /\ RequestInv'
<1>1. /\ mutexes \in [Objects -> MutexRecords]
      /\ mutexes[m].waiting \in Seq(Threads) /\ IsInjective(mutexes[m].waiting)
  BY DEF MutexInv, MutexTypeOK, MutexRecords
<1>2. ASSUME NEW arguments \in Creations, CreateMutex(m, arguments)
      PROVE  Abstract!Next /\ RequestInv'
  <2>1. UNCHANGED <<vars, lockAsks>> /\ ~MutexExists(m)
    BY <1>2 DEF CreateMutex
  <2> DEFINE mutex == [exists |-> TRUE, fifo |-> arguments.fifo, recursive |-> arguments.recursive,
                       level |-> 0, owner |-> NoThread, waiting |-> <<>>]
  <2>3. \/ mutexes' = [mutexes EXCEPT ![m] = mutex]
        \/ mutexes' = [mutexes EXCEPT ![m] = Acquired(mutex, arguments.init, cur)]
    BY <1>2 DEF CreateMutex
  <2>4. mutex.waiting = <<>> /\ Acquired(mutex, arguments.init, cur).waiting = <<>>
    BY DEF Acquired
  <2> HIDE DEF mutex
  <2>5. mutexes'[m].waiting = <<>> /\ \A n \in Objects \ {m} : mutexes'[n] = mutexes[n]
    BY <1>1, <2>3, <2>4
  <2>2. CurForgets'
    BY <2>1 DEF RequestInv, CurForgets, vars, intrVars, DispatchEnabled, cur
  <2> QED
    BY <2>1, <2>2, <2>5, BlankUnasked, ResetRefines DEF vars
<1>3. CASE DeleteMutex(m)
  <2>1. /\ SomeoneRuns /\ Dismiss(m, mutexes[m].waiting) /\ mutexes' = [mutexes EXCEPT ![m] = NoMutex]
    BY <1>3 DEF DeleteMutex
  <2>2. mutexes'[m].waiting = <<>> /\ \A n \in Objects \ {m} : mutexes'[n] = mutexes[n]
    BY <1>1, <2>1 DEF NoMutex
  <2>3. \A t \in Threads : Asks(m, t) => Contains(mutexes[m].waiting, t)
    BY DEF Asks
  <2>4. /\ sched'.wait = sched.wait /\ CurForgets'
        /\ \A t \in Threads : lockAsks'[t] = IF Asks(m, t) THEN [lockAsks[t] EXCEPT !.told = "error"]
                                             ELSE lockAsks[t]
    BY <1>1, <2>1, <2>3, DismissedAsk
  <2> QED
    BY <2>2, <2>4, ResetRefines
<1>4. ASSUME NEW count \in Counts \union {0}, CancelMutex(m, count)
      PROVE  Abstract!Next /\ RequestInv'
  <2>1. PICK w \in CleanedUp(mutexes[m].waiting, Asking(sched, m)) : Dismiss(m, w)
    BY <1>4 DEF CancelMutex
  <2>2. /\ w \in Seq(Threads) /\ IsInjective(w)
        /\ \A x : Contains(w, x) <=> Contains(mutexes[m].waiting, x) /\ x \in Asking(sched, m)
    BY <1>1, <2>1, CleanedUpFacts
  <2>3. \A t \in Threads : Asks(m, t) => Contains(w, t)
    BY <2>2, CountsAsWaiting DEF Asks, Asking, MutexInv, WaitersAsk
  <2>4. SomeoneRuns
    BY <1>4 DEF CancelMutex
  <2>5. /\ sched'.wait = sched.wait /\ CurForgets'
        /\ \A t \in Threads : lockAsks'[t] = IF Asks(m, t) THEN [lockAsks[t] EXCEPT !.told = "error"]
                                             ELSE lockAsks[t]
    BY <2>1, <2>2, <2>3, <2>4, DismissedAsk
  <2>6. \E level, owner :
           mutexes' = [mutexes EXCEPT ![m] = Acquired([mutexes[m] EXCEPT !.waiting = <<>>], level, owner)]
    BY <1>4 DEF CancelMutex
  <2>7. mutexes'[m].waiting = <<>> /\ \A n \in Objects \ {m} : mutexes'[n] = mutexes[n]
    BY <1>1, <2>6 DEF Acquired, MutexRecords
  <2> QED
    BY <2>5, <2>7, ResetRefines
<1> QED
  BY <1>2, <1>3, <1>4

\* Calls that change mutexes only, and nobody's place in a list: nobody asks for more
\* or less than before.
LEMMA SameRequests ==
    ASSUME MutexInv, RequestInv, MutexInv', UNCHANGED <<vars, lockAsks>>,
           \A n \in Objects, t \in Threads : sched.wait[t] = [type |-> "MUTEX", id |-> n] =>
               (Contains(mutexes'[n].waiting, t) <=> Contains(mutexes[n].waiting, t)),
           \A n \in Objects : mutexes[n].owner # NoThread => mutexes'[n].owner # NoThread
    PROVE  RequestMap' = RequestMap /\ ToldMap' = ToldMap /\ RequestInv'
<1>1. \A n \in Objects, t \in Threads : Asks(n, t)' <=> Asks(n, t)
  BY DEF Asks, vars
<1>2. RequestMap' = RequestMap
  BY <1>1, RequestsBefore, RequestsAfter
<1>3. ToldMap' = ToldMap
  BY DEF ToldMap
<1>4. CurForgets'
  BY DEF RequestInv, CurForgets, vars, intrVars, DispatchEnabled, cur
<1>5. RequestInv'
  BY <1>1, <1>4 DEF RequestInv, vars
<1> QED
  BY <1>2, <1>3, <1>5

\* Calls that change one mutex.
LEMMA OneChanged ==
    ASSUME NEW m \in Objects, \A n \in Objects \ {m} : mutexes'[n] = mutexes[n]
    PROVE  /\ OwnerMap[m] = mutexes[m].owner /\ OwnerMap'[m] = mutexes'[m].owner
           /\ LevelMap[m] = mutexes[m].level /\ LevelMap'[m] = mutexes'[m].level
           /\ OwnerMap' = [OwnerMap EXCEPT ![m] = OwnerMap'[m]]
           /\ LevelMap' = [LevelMap EXCEPT ![m] = LevelMap'[m]]
           /\ OwnerMap'[m] = OwnerMap[m] => OwnerMap' = OwnerMap
           /\ LevelMap'[m] = LevelMap[m] => LevelMap' = LevelMap
<1>1. /\ OwnerMap[m] = mutexes[m].owner /\ OwnerMap'[m] = mutexes'[m].owner
      /\ LevelMap[m] = mutexes[m].level /\ LevelMap'[m] = mutexes'[m].level
  BY DEF OwnerMap, LevelMap
<1>2. /\ \A n \in Objects \ {m} : OwnerMap'[n] = OwnerMap[n] /\ LevelMap'[n] = LevelMap[n]
      /\ OwnerMap = [n \in Objects |-> OwnerMap[n]] /\ OwnerMap' = [n \in Objects |-> OwnerMap'[n]]
      /\ LevelMap = [n \in Objects |-> LevelMap[n]] /\ LevelMap' = [n \in Objects |-> LevelMap'[n]]
  BY DEF OwnerMap, LevelMap
<1>3. /\ OwnerMap' = [OwnerMap EXCEPT ![m] = OwnerMap'[m]]
      /\ OwnerMap'[m] = OwnerMap[m] => OwnerMap' = OwnerMap
  BY <1>2
<1>4. /\ LevelMap' = [LevelMap EXCEPT ![m] = LevelMap'[m]]
      /\ LevelMap'[m] = LevelMap[m] => LevelMap' = LevelMap
  BY <1>2
<1> QED
  BY <1>1, <1>3, <1>4

\* sceKernelTryLockMutex(), and sceKernelLockMutex() when it need not wait.
LEMMA TakeLockRefines ==
    ASSUME MutexInv, RequestInv, MutexInv', NEW m \in Objects, NEW count \in Counts,
           SomeoneRuns, TakeLock(m, count)
    PROVE  Abstract!Next /\ RequestInv'
<1>1. PICK o \in AllThreads : o = cur /\ o # NoThread
  BY CallerAlive DEF MutexInv
<1>2. mutexes \in [Objects -> MutexRecords] /\ count \in Nat \ {0}
  BY MutexAssumption DEF MutexInv, MutexTypeOK, MutexRecords
<1>3. /\ UNCHANGED <<vars, lockAsks>> /\ Lockable(m)
      /\ mutexes[m].level = 0 => mutexes' = [mutexes EXCEPT ![m] = Acquired(@, count, o)]
      /\ mutexes[m].level # 0 => mutexes' = [mutexes EXCEPT ![m].level = @ + count]
  BY <1>1 DEF TakeLock
<1>4. /\ mutexes[m].level \in Nat /\ (mutexes[m].level = 0 <=> mutexes[m].owner = NoThread)
  BY <1>2, FreeMutex, MutexAssumption DEF MutexRecords
<1>5. /\ mutexes[m].owner = o \/ mutexes[m].owner = NoThread
      /\ mutexes'[m].owner = o /\ mutexes'[m].level = mutexes[m].level + count
      /\ mutexes'[m].waiting = mutexes[m].waiting
      /\ \A n \in Objects \ {m} : mutexes'[n] = mutexes[n]
  <2>1. CASE mutexes[m].level = 0
    <3>1. mutexes' = [mutexes EXCEPT ![m] = [mutexes[m] EXCEPT !.level = count, !.owner = o]]
      BY <1>2, <1>3, <2>1 DEF Acquired
    <3> QED
      BY <1>2, <1>4, <2>1, <3>1 DEF MutexRecords
  <2>2. CASE mutexes[m].level # 0
    BY <1>1, <1>2, <1>3, <1>4, <2>2 DEF Lockable, MutexRecords
  <2> QED
    BY <2>1, <2>2
<1>6. RequestMap' = RequestMap /\ ToldMap' = ToldMap /\ RequestInv'
  BY <1>1, <1>3, <1>5, SameRequests
<1>7. mutexes[m].owner = NoThread => Abstract!Requesters(m) = {}
  BY RequestsBefore DEF RequestInv
<1>8. /\ OwnerMap[m] = o \/ (OwnerMap[m] = NoThread /\ Abstract!Requesters(m) = {})
      /\ OwnerMap' = [OwnerMap EXCEPT ![m] = o]
      /\ LevelMap'[m] > LevelMap[m]
      /\ LevelMap' = [LevelMap EXCEPT ![m] = LevelMap'[m]]
  <2>1. mutexes'[m].level > mutexes[m].level
    BY <1>2, <1>4, <1>5
  <2> QED
    BY <1>5, <1>7, <2>1, OneChanged
<1>9. Abstract!Lock(m, o)
  BY <1>6, <1>8 DEF Abstract!Lock, OwnerMap, LevelMap, RequestMap, ToldMap
<1> QED
  BY <1>6, <1>9 DEF Abstract!Next

\* sceKernelUnlockMutex() when a level is left.
LEMMA UnlockSomeRefines ==
    ASSUME MutexInv, RequestInv, MutexInv', NEW m \in Objects, NEW count \in Counts, UnlockSome(m, count)
    PROVE  Abstract!Next /\ RequestInv'
<1>1. mutexes \in [Objects -> MutexRecords] /\ count \in Nat \ {0}
  BY MutexAssumption DEF MutexInv, MutexTypeOK, MutexRecords
<1>2. /\ UNCHANGED <<vars, lockAsks>> /\ mutexes[m].level > count
      /\ mutexes' = [mutexes EXCEPT ![m].level = @ - count]
  BY DEF UnlockSome
<1>3. mutexes[m].level \in Nat
  BY <1>1, MutexAssumption DEF MutexRecords
<1>4. /\ mutexes'[m].owner = mutexes[m].owner /\ mutexes'[m].level = mutexes[m].level - count
      /\ mutexes'[m].waiting = mutexes[m].waiting
      /\ \A n \in Objects \ {m} : mutexes'[n] = mutexes[n]
  BY <1>1, <1>2 DEF MutexRecords
<1>5. RequestMap' = RequestMap /\ ToldMap' = ToldMap /\ RequestInv'
  BY <1>2, <1>4, SameRequests
<1>6. /\ LevelMap'[m] \in 1 .. LevelMap[m] - 1
      /\ LevelMap' = [LevelMap EXCEPT ![m] = LevelMap'[m]]
      /\ OwnerMap' = OwnerMap
  <2>1. mutexes'[m].level \in 1 .. mutexes[m].level - 1
    BY <1>1, <1>2, <1>3, <1>4
  <2> QED
    BY <1>4, <2>1, OneChanged
<1>7. Abstract!Unlock(m)
  BY <1>5, <1>6 DEF Abstract!Unlock, OwnerMap, LevelMap, RequestMap, ToldMap
<1> QED
  BY <1>5, <1>7 DEF Abstract!Next

\* sceKernelReferMutexStatus() changes no request.
LEMMA ReferMutexStatusRefines ==
    ASSUME MutexInv, RequestInv, MutexInv', NEW m \in Objects, ReferMutexStatus(m)
    PROVE  UNCHANGED Abstract!vars /\ RequestInv'
<1>1. /\ mutexes \in [Objects -> MutexRecords]
      /\ mutexes[m].waiting \in Seq(Threads) /\ IsInjective(mutexes[m].waiting)
  BY DEF MutexInv, MutexTypeOK, MutexRecords
<1>2. UNCHANGED <<vars, lockAsks>>
  BY DEF ReferMutexStatus
<1>3. PICK w \in CleanedUp(mutexes[m].waiting, Asking(sched, m)) : mutexes' = [mutexes EXCEPT ![m].waiting = w]
  BY DEF ReferMutexStatus
<1>4. \A x : Contains(w, x) <=> Contains(mutexes[m].waiting, x) /\ x \in Asking(sched, m)
  BY <1>1, <1>3, CleanedUpFacts
<1>5. /\ mutexes'[m].owner = mutexes[m].owner /\ mutexes'[m].level = mutexes[m].level
      /\ mutexes'[m].waiting = w
      /\ \A n \in Objects \ {m} : mutexes'[n] = mutexes[n]
  BY <1>1, <1>3 DEF MutexRecords
<1>6. \A t \in Threads : sched.wait[t] = [type |-> "MUTEX", id |-> m] => t \in Asking(sched, m)
  BY CountsAsWaiting DEF Asking, MutexInv, WaitersAsk
<1>7. RequestMap' = RequestMap /\ ToldMap' = ToldMap /\ RequestInv'
  BY <1>2, <1>4, <1>5, <1>6, SameRequests
<1>8. OwnerMap' = OwnerMap /\ LevelMap' = LevelMap
  BY <1>5, OneChanged
<1> QED
  BY <1>7, <1>8, AbstractStutters

\* sceKernelLockMutex() when it waits.
LEMMA LockMutexRefines ==
    ASSUME MutexInv, RequestInv, MutexInv', NEW m \in Objects, NEW count \in Counts,
           NEW timeout \in BOOLEAN, LockMutex(m, count, timeout)
    PROVE  Abstract!Next /\ RequestInv'
<1>1. /\ MayWait /\ ~Lockable(m) /\ mutexes[m].owner # cur
      /\ mutexes' = [mutexes EXCEPT ![m].waiting = Listed(@, cur)]
      /\ sched' = WaitCurThread(sched, "MUTEX", m)
      /\ lockAsks' = [lockAsks EXCEPT ![cur] =
                          [want |-> count, timed |-> timeout, told |-> "nothing"]]
      /\ phase' = "resched" /\ ThreadsKept
  BY DEF LockMutex
<1>2. /\ sched'.status[cur] = {"WAIT"} /\ cur \in Threads /\ cur' = cur
      /\ sched'.wait = [sched.wait EXCEPT ![cur] = [type |-> "MUTEX", id |-> m]]
  BY <1>1, ObjectWaitInv DEF MutexInv, ObjectWaits, ThreadsKept
<1>3. /\ sched.wait \in [AllThreads -> Waits] /\ \A t \in Threads : t \in AllThreads
      /\ mutexes \in [Objects -> MutexRecords] /\ count \in Nat \ {0}
      /\ lockAsks \in [Threads -> [want : Counts \union {0}, timed : BOOLEAN, told : Told]]
  <2>1. sched.wait \in [AllThreads -> Waits]
    BY SchedTypes DEF MutexInv, Inv, ThreadInv, Consistent, QueueOK
  <2>2. count \in Nat \ {0}
    BY MutexAssumption
  <2> QED
    BY <2>1, <2>2 DEF MutexInv, AllThreads, MutexTypeOK, MutexRecords
<1>4. PICK c \in Threads : c = cur
  BY <1>2
<1>5. /\ mutexes'[m].owner = mutexes[m].owner /\ mutexes'[m].level = mutexes[m].level
      /\ mutexes'[m].waiting = Listed(mutexes[m].waiting, c)
      /\ \A n \in Objects \ {m} : mutexes'[n] = mutexes[n]
  <2>1. mutexes' = [mutexes EXCEPT ![m] = [mutexes[m] EXCEPT !.waiting = Listed(mutexes[m].waiting, c)]]
    BY <1>1, <1>3, <1>4
  <2> QED
    BY <1>3, <2>1 DEF MutexRecords
<1>6. /\ mutexes[m].waiting \in Seq(Threads) /\ IsInjective(mutexes[m].waiting)
  BY DEF MutexInv, MutexTypeOK
<1>7. \A x : Contains(mutexes'[m].waiting, x) <=> Contains(mutexes[m].waiting, x) \/ x = c
  BY <1>5, <1>6, ListedFacts
<1>8. mutexes[m].owner \notin {NoThread, c}
  BY <1>1, <1>4, FreeMutex DEF Lockable
<1>9. \A n \in Objects : ~Asks(n, c)
  <2> SUFFICES ASSUME NEW n \in Objects, Asks(n, c) PROVE FALSE
    OBVIOUS
  <2>1. sched.wait[cur].type \in ObjectWaits
    BY <1>4 DEF Asks, ObjectWaits
  <2>2. phase = "run"
    BY <1>1 DEF MayWait, ThreadRuns
  <2> QED
    BY <1>2, <2>1, <2>2 DEF RequestInv, CurForgets
<1>10. /\ \A t \in Threads : sched'.wait[t] = IF t = c THEN [type |-> "MUTEX", id |-> m] ELSE sched.wait[t]
       /\ \A t \in Threads : lockAsks'[t] = IF t = c THEN [want |-> count, timed |-> timeout, told |-> "nothing"]
                                            ELSE lockAsks[t]
  BY <1>1, <1>2, <1>3, <1>4
<1>11. \A n \in Objects, t \in Threads : Asks(n, t)' <=> IF t = c THEN n = m ELSE Asks(n, t)
  <2> SUFFICES ASSUME NEW n \in Objects, NEW t \in Threads
               PROVE  Asks(n, t)' <=> IF t = c THEN n = m ELSE Asks(n, t)
    OBVIOUS
  <2>1. Asks(n, t)' <=> Contains(mutexes'[n].waiting, t) /\ sched'.wait[t] = [type |-> "MUTEX", id |-> n]
    BY DEF Asks
  <2>2. CASE t = c
    BY <1>7, <1>10, <2>1, <2>2
  <2>3. CASE t # c
    BY <1>5, <1>7, <1>10, <2>1, <2>3 DEF Asks
  <2> QED
    BY <2>2, <2>3
<1>12. RequestMap[m][c] = 0 /\ RequestMap'[m][c] = count /\ RequestMap' = [RequestMap EXCEPT ![m][c] = count]
  <2>1. /\ RequestMap = [n \in Objects |-> [t \in Threads |-> IF Asks(n, t) THEN lockAsks[t].want ELSE 0]]
        /\ RequestMap' = [n \in Objects |-> [t \in Threads |-> IF Asks(n, t)' THEN lockAsks'[t].want ELSE 0]]
    BY RequestsBefore, RequestsAfter
  <2>2. \A n \in Objects, t \in Threads :
           (IF Asks(n, t)' THEN lockAsks'[t].want ELSE 0) =
               IF n = m /\ t = c THEN count ELSE RequestMap[n][t]
    BY <1>9, <1>10, <1>11, <2>1
  <2>3. RequestMap' = [n \in Objects |-> [t \in Threads |-> IF n = m /\ t = c THEN count ELSE RequestMap[n][t]]]
    BY <2>1, <2>2
  <2>4. /\ RequestMap[m][c] = 0 /\ DOMAIN RequestMap = Objects
        /\ \A n \in Objects : RequestMap[n] = [t \in Threads |-> RequestMap[n][t]]
    BY <1>9, <2>1
  <2>5. [RequestMap[m] EXCEPT ![c] = count] = [t \in Threads |-> IF t = c THEN count ELSE RequestMap[m][t]]
    BY <2>4
  <2>6. RequestMap' = [RequestMap EXCEPT ![m] = [RequestMap[m] EXCEPT ![c] = count]]
    <3>1. \A n \in Objects : [t \in Threads |-> IF n = m /\ t = c THEN count ELSE RequestMap[n][t]] =
                             IF n = m THEN [RequestMap[m] EXCEPT ![c] = count] ELSE RequestMap[n]
      BY <2>4, <2>5
    <3>2. RequestMap = [n \in Objects |-> RequestMap[n]]
      BY <2>1
    <3> QED
      BY <2>3, <3>1, <3>2
  <2>7. RequestMap'[m][c] = count
    BY <2>3
  <2> QED
    BY <2>4, <2>6, <2>7
<1>13. ToldMap' = [ToldMap EXCEPT ![c] = "nothing"]
  <2>1. \A t \in Threads : lockAsks'[t].told = IF t = c THEN "nothing" ELSE lockAsks[t].told
    BY <1>10
  <2>2. ToldMap' = [t \in Threads |-> IF t = c THEN "nothing" ELSE lockAsks[t].told]
    BY <2>1 DEF ToldMap
  <2> QED
    BY <2>2 DEF ToldMap
<1>14. OwnerMap' = OwnerMap /\ LevelMap' = LevelMap /\ OwnerMap[m] \notin {NoThread, c}
  BY <1>5, <1>8, OneChanged
<1>15. Abstract!Ask(m, c)
  <2>1. RequestMap'[m][c] \in Nat \ {0} /\ RequestMap' = [RequestMap EXCEPT ![m][c] = RequestMap'[m][c]]
    BY <1>3, <1>12
  <2> QED
    BY <1>12, <1>13, <1>14, <2>1 DEF Abstract!Ask, OwnerMap, LevelMap, RequestMap, ToldMap
<1>16. CurForgets'
  <2>1. DispatchEnabled'
    BY <1>1 DEF MayWait, ThreadsKept, intrVars, DispatchEnabled
  <2>2. ~Has(sched', cur', "RUNNING")
    BY <1>2 DEF Has
  <2> QED
    BY <1>1, <2>1, <2>2 DEF CurForgets
<1>17. ASSUME NEW t \in Threads, sched'.wait[t].type # "MUTEX"
       PROVE  lockAsks'[t] = NoAsk
  BY <1>10, <1>17 DEF RequestInv
<1>18. ASSUME NEW n \in Objects, NEW t \in Threads, Asks(n, t)'
       PROVE  mutexes'[n].owner # NoThread /\ lockAsks'[t].told # "granted"
  <2>1. CASE t = c
    BY <1>5, <1>8, <1>10, <1>11, <1>18, <2>1
  <2>2. CASE t # c
    BY <1>5, <1>10, <1>11, <1>18, <2>2 DEF RequestInv
  <2> QED
    BY <2>1, <2>2
<1> QED
  BY <1>4, <1>15, <1>16, <1>17, <1>18 DEF RequestInv, Abstract!Next

\* Every step of the threads, and a time-out, only ends requests.
LEMMA WithdrawRefines ==
    ASSUME MutexInv, RequestInv, MutexInv', UNCHANGED mutexes, KeepsObjectWaits(sched, sched'),
           AsksKept, Ungranted, CurForgets',
           \A t \in Threads : sched'.wait[t].type # "MUTEX" => lockAsks'[t] = NoAsk
    PROVE  Abstract!Next /\ RequestInv'
<1>1. PICK withdrawn \in SUBSET Threads : Abstract!GiveUp({}, withdrawn)
  BY WithdrawStep
<1>2. Root \in AllThreads /\ {} \in SUBSET Objects
  BY SchedulerAssumption, ThreadAssumption DEF AllThreads
<1>3. Abstract!Next
  BY <1>1, <1>2, GiveUpIsNext
<1>4. ASSUME NEW m \in Objects, NEW t \in Threads, Asks(m, t)'
      PROVE  mutexes'[m].owner # NoThread /\ lockAsks'[t].told # "granted"
  <2>1. Asks(m, t)
    BY <1>4 DEF Asks, KeepsObjectWaits, ObjectWaits
  <2> QED
    BY <2>1 DEF RequestInv, Ungranted
<1> QED
  BY <1>3, <1>4 DEF RequestInv

\* A step of the thread manager.
LEMMA ThreadStepRefines ==
    ASSUME Misuse = {}, MutexInv, RequestInv, MutexInv', ThreadStep
    PROVE  Abstract!Next /\ RequestInv'
<1>1. Inv /\ [Next]_vars /\ lockAsks' = CurrentAsks(sched') /\ UNCHANGED mutexes
  BY DEF MutexInv, ThreadStep
<1>2. KeepsObjectWaits(sched, sched') /\ CurForgets'
  BY <1>1, StepKeepsObjectWaits, StepCurForgets DEF RequestInv
<1>3. AsksKept
  BY <1>1, <1>2, AsksTyped
<1>4. \A t \in Threads : lockAsks'[t] = IF sched'.wait[t].type = "MUTEX" THEN lockAsks[t] ELSE NoAsk
  BY <1>1 DEF CurrentAsks
<1>5. Ungranted
  BY <1>4 DEF Ungranted, NoAsk
<1> QED
  BY <1>1, <1>2, <1>3, <1>4, <1>5, WithdrawRefines

\* __KernelMutexTimeout()
LEMMA MutexTimeoutRefines ==
    ASSUME MutexInv, RequestInv, MutexInv', NEW t \in Threads, MutexTimeout(t)
    PROVE  Abstract!Next /\ RequestInv'
<1>1. /\ Inv /\ Consistent(sched) /\ QueueOK(sched) /\ t \in AllThreads
      /\ lockAsks \in [Threads -> [want : Counts \union {0}, timed : BOOLEAN, told : Told]]
  BY DEF MutexInv, MutexTypeOK, Inv, ThreadInv, Consistent, AllThreads
<1>2. /\ ThreadsKept /\ UNCHANGED mutexes
      /\ \/ /\ sched' = ResumeFromWait(sched, t) /\ phase' = "resched"
            /\ sched.wait[t].type = "MUTEX"
            /\ lockAsks' = [lockAsks EXCEPT ![t].told = "error"]
         \/ UNCHANGED <<sched, lockAsks, phase>>
  BY DEF MutexTimeout
<1>3. /\ Quiet(sched, sched') /\ sched'.wait = sched.wait
      /\ phase' \in {phase, "resched"}
  <2>1. CASE sched' = ResumeFromWait(sched, t)
    BY <1>1, <1>2, <2>1, ResumeFromWaitFacts, ResumeFromWaitQuiet
  <2>2. CASE sched' = sched
    BY <1>1, <1>2, <2>2, QuietSelf
  <2> QED
    BY <1>2, <2>1, <2>2
<1>4. KeepsObjectWaits(sched, sched') /\ cur' = cur
  BY <1>1, <1>3, QuietWaitsKept DEF Quiet, cur
<1>5. \A x \in Threads : /\ lockAsks'[x].want = lockAsks[x].want /\ lockAsks'[x].timed = lockAsks[x].timed
                         /\ lockAsks'[x] = lockAsks[x] \/ (x = t /\ lockAsks'[x].told = "error")
                         /\ lockAsks'[x] # lockAsks[x] => sched.wait[x].type = "MUTEX"
  BY <1>1, <1>2
<1>6. AsksKept /\ Ungranted
  BY <1>5 DEF AsksKept, Ungranted
<1>7. \A x \in Threads : sched'.wait[x].type # "MUTEX" => lockAsks'[x] = NoAsk
  BY <1>3, <1>5 DEF RequestInv
<1>8. CurForgets'
  BY <1>1, <1>2, ResumeCurForgets DEF RequestInv, ThreadsKept
<1> QED
  BY <1>2, <1>4, <1>6, <1>7, <1>8, WithdrawRefines

\* Every step maps to a step of the abstract specification or to a stutter.
LEMMA MutexStepRefines ==
    ASSUME Misuse = {}, MutexInv, RequestInv, [MutexNext]_allVars
    PROVE  [Abstract!Next]_(Abstract!vars) /\ RequestInv'
<1>1. MutexInv'
  BY NextMutexInv
<1>2. CASE UNCHANGED allVars
  <2>1. UNCHANGED <<vars, lockAsks>> /\ UNCHANGED mutexes
    BY <1>2 DEF allVars, mutexVars
  <2>2. OwnerMap' = OwnerMap /\ LevelMap' = LevelMap
    BY <2>1 DEF OwnerMap, LevelMap
  <2> QED
    BY <1>1, <2>1, <2>2, SameRequests, AbstractStutters
<1>3. CASE ThreadStep
  BY <1>1, <1>3, ThreadStepRefines
<1>4. ASSUME NEW t \in Threads, EndThread(t) \/ MutexTimeout(t)
      PROVE  Abstract!Next /\ RequestInv'
  BY <1>1, <1>4, EndThreadRefines, MutexTimeoutRefines
<1>5. ASSUME NEW m \in Objects,
             \/ \E arguments \in Creations : CreateMutex(m, arguments)
             \/ DeleteMutex(m) \/ UnlockAll(m)
             \/ \E count \in Counts \union {0} : CancelMutex(m, count)
      PROVE  Abstract!Next /\ RequestInv'
  BY <1>1, <1>5, ResetCallsRefine, UnlockAllRefines
<1>6. ASSUME NEW m \in Objects, ReferMutexStatus(m)
      PROVE  UNCHANGED Abstract!vars /\ RequestInv'
  BY <1>1, <1>6, ReferMutexStatusRefines
<1>7. ASSUME NEW m \in Objects, NEW count \in Counts,
             TryLockMutex(m, count) \/ UnlockSome(m, count)
      PROVE  Abstract!Next /\ RequestInv'
  BY <1>1, <1>7, TakeLockRefines, UnlockSomeRefines DEF TryLockMutex
<1>8. ASSUME NEW m \in Objects, NEW count \in Counts, NEW timeout \in BOOLEAN,
             LockMutex(m, count, timeout)
      PROVE  Abstract!Next /\ RequestInv'
  BY <1>1, <1>8, LockMutexRefines
<1> QED
  BY <1>2, <1>3, <1>4, <1>5, <1>6, <1>7, <1>8 DEF MutexNext

\* Nothing is locked or asked for at first.
LEMMA MutexInitRefines == MutexInit => Abstract!Init
<1> SUFFICES ASSUME MutexInit PROVE Abstract!Init
  OBVIOUS
<1>1. /\ mutexes = [m \in Objects |-> NoMutex] /\ lockAsks = [t \in Threads |-> NoAsk]
  BY DEF MutexInit
<1>2. \A t : ~Contains(<<>>, t)
  BY DEF Contains
<1> QED
  BY <1>1, <1>2 DEF Abstract!Init, NoMutex, NoAsk

\* A mutex has one owner, goes to those who asked for it in the number they asked for,
\* and is never left free while somebody asks: the mutexes implement Mutex.tla.
THEOREM MutexImplements ==
    ASSUME Misuse = {}
    PROVE  MutexSpec => ImplementsMutex
<1>1. MutexInv /\ RequestInv /\ [MutexNext]_allVars => [Abstract!Next]_(Abstract!vars) /\ RequestInv'
  BY MutexStepRefines
<1> QED
  BY <1>1, MutexInvariant, InitRequestInv, MutexInitRefines, PTL
  DEF MutexSpec, ImplementsMutex, Abstract!Spec
=============================================================================
