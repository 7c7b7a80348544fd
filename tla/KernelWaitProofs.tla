--------------------------- MODULE KernelWaitProofs ---------------------------
(* What the thread manager does to waits for the objects of other modules,  *)
(* and the helpers of KernelWaitHelpers.h: the ground for the proofs about  *)
(* semaphores and mutexes.                                                  *)
EXTENDS KernelThreadProofs, WaitLists

\* The types of waits that other modules start.
ObjectWaits == {"SEMA", "MUTEX"}

\* From s to r no wait for an object begins, or begins to count again.
KeepsObjectWaits(s, r) ==
    \A x \in Threads : r.wait[x].type \in ObjectWaits =>
        r.wait[x] = s.wait[x] /\ (Has(r, x, "WAIT") => Has(s, x, "WAIT"))

\* Whoever waits for an object after such a step waited for it before.
LEMMA ObjectWaitedBefore ==
    ASSUME NEW s, NEW r, KeepsObjectWaits(s, r), NEW t \in Threads, NEW type \in ObjectWaits, NEW id,
           IsWaitingFor(r, t, type, id)
    PROVE  IsWaitingFor(s, t, type, id)
<1>1. /\ Has(r, t, "WAIT") /\ r.wait[t] = [type |-> type, id |-> id] /\ r.wait[t].type = type
      /\ t \in AllThreads
  BY DEF IsWaitingFor, VerifyWait, AllThreads
<1>2. r.wait[t] = s.wait[t] /\ Has(s, t, "WAIT")
  BY <1>1 DEF KeepsObjectWaits
<1> QED
  BY <1>1, <1>2 DEF IsWaitingFor, VerifyWait, Exists, Has

\* From s to r waits are only forgotten, or begun for something else.
ForgetsWaits(s, r) ==
    \A x \in Threads : r.wait[x] = s.wait[x] \/ r.wait[x].type \notin ObjectWaits

\* The wait is one field of a record: making a thread ready leaves it.
LEMMA MakeReadyWait ==
    ASSUME NEW s, "wait" \in DOMAIN s, NEW t
    PROVE  MakeReady(s, t).wait = s.wait /\ "wait" \in DOMAIN MakeReady(s, t)
BY DEF MakeReady

\* Leaving the ready queue leaves it, too.
LEMMA UnqueueWait ==
    ASSUME NEW s, "wait" \in DOMAIN s, NEW t
    PROVE  Unqueue(s, t).wait = s.wait /\ "wait" \in DOMAIN Unqueue(s, t)
BY DEF Unqueue

\* What is left of a wait that is forgotten.
LEMMA ForgottenWait ==
    ASSUME NEW s, Consistent(s), NEW r, NEW t,
           r.wait = s.wait \/ r.wait = [s.wait EXCEPT ![t] = NoWait]
    PROVE  ForgetsWaits(s, r)
<1>1. s.wait \in [AllThreads -> Waits] /\ \A x \in Threads : x \in AllThreads
  BY SchedTypes DEF Consistent, QueueOK, AllThreads
<1>2. NoWait.type \notin ObjectWaits
  BY DEF NoWait, ObjectWaits
<1> QED
  BY <1>1, <1>2 DEF ForgetsWaits

\* A switch makes only the new thread forget its wait.
LEMMA SwitchForgets ==
    ASSUME NEW s, Consistent(s), NEW t \in AllThreads, Has(s, t, "READY")
    PROVE  ForgetsWaits(s, SwitchContext(s, t))
<1>1. SwitchContext(s, t).wait = [s.wait EXCEPT ![t] = NoWait]
  BY SwitchContextFacts DEF Consistent
<1> QED
  BY <1>1, ForgottenWait

\* So does a reschedule.
LEMMA NextThreadForgets ==
    ASSUME NEW s, Consistent(s)
    PROVE  ForgetsWaits(s, NextThread(s))
<1>1. CASE Candidates(s) = {}
  BY <1>1 DEF NextThread, ForgetsWaits
<1>2. CASE Candidates(s) # {}
  BY <1>2, NextThreadIsSwitch, SwitchForgets
<1> QED
  BY <1>1, <1>2

\* And the switch to the idle thread.
LEMMA SwitchOffForgets ==
    ASSUME NEW s, Consistent(s)
    PROVE  ForgetsWaits(s, SwitchOffThread(s))
<1>1. CASE s.cur = Idle
  BY <1>1 DEF SwitchOffThread, ForgetsWaits
<1>2. CASE s.cur # Idle
  <2>1. Idle \in AllThreads /\ Has(s, Idle, "READY")
    BY <1>2 DEF Consistent, RunningIsCurrent, IdleCanRun, Has, AllThreads
  <2> QED
    BY <1>2, <2>1, SwitchForgets DEF SwitchOffThread
<1> QED
  BY <1>1, <1>2

\* Forgetting waits composes.
LEMMA ForgetsTrans ==
    ASSUME NEW s, NEW r, NEW u, ForgetsWaits(s, r), ForgetsWaits(r, u)
    PROVE  ForgetsWaits(s, u)
BY DEF ForgetsWaits

\* A change that keeps the waits that still hold, and only forgets others.
LEMMA ForgettingKeeps ==
    ASSUME NEW s, NEW r, KeepsWaits(s, r), ForgetsWaits(s, r)
    PROVE  KeepsObjectWaits(s, r)
BY DEF KeepsWaits, ForgetsWaits, KeepsObjectWaits

\* The same for the end of a thread.
LEMMA EndKeeps ==
    ASSUME NEW s, Consistent(s), NEW t \in Threads, NEW r, EndedFrom(s, r, t)
    PROVE  KeepsObjectWaits(s, r)
<1>1. ForgetsWaits(s, r)
  BY ForgottenWait DEF EndedFrom
<1> QED
  BY <1>1 DEF EndedFrom, ForgetsWaits, KeepsObjectWaits

\* A call that changes one thread without a wait of its own.
LEMMA QuietKeeps ==
    ASSUME Consistent(sched), Quiet(sched, sched'), NEW t,
           sched'.wait = sched.wait \/ sched'.wait = [sched.wait EXCEPT ![t] = NoWait]
    PROVE  KeepsObjectWaits(sched, sched')
BY ForgottenWait, ForgettingKeeps DEF Quiet

\* A switch that happens in an event or in a reschedule.
LEMMA SwitchKeeps ==
    ASSUME NEW s, Switched(sched, s), ForgetsWaits(sched, s)
    PROVE  KeepsObjectWaits(sched, s)
BY ForgettingKeeps DEF Switched

\* Only other modules begin waits for objects: no step of the thread manager does, and
\* none makes a thread that was resumed wait again for what it waited for.
LEMMA StepKeepsObjectWaits ==
    ASSUME Misuse = {}, Inv, [Next]_vars
    PROVE  KeepsObjectWaits(sched, sched')
<1>1. /\ Consistent(sched) /\ \A t \in Threads : t \in AllThreads
      /\ QueueOK(sched) /\ sched \in SchedType /\ "wait" \in DOMAIN sched
  BY DEF Inv, ThreadInv, AllThreads, Consistent, QueueOK, SchedType
<1>2. CASE sched' = sched
  BY <1>2 DEF KeepsObjectWaits
<1>3. ASSUME NEW t \in Threads, CreateThread(t) \/ StartThread(t)
      PROVE  KeepsObjectWaits(sched, sched')
  <2>1. Quiet(sched, sched')
    BY <1>1, <1>3, CreatedQuiet, StartedQuiet DEF CreateThread, StartThread, ThreadRuns
  <2>2. CASE CreateThread(t)
    <3>1. sched'.wait = [sched.wait EXCEPT ![t] = NoWait]
      BY <1>1, <2>2 DEF CreateThread
    <3> QED
      BY <1>1, <2>1, <3>1, QuietKeeps
  <2>3. CASE StartThread(t)
    <3> DEFINE reset == [sched EXCEPT !.prio[t] = ResetPriority(t), !.wait[t] = NoWait]
    <3>1. reset.wait = [sched.wait EXCEPT ![t] = NoWait] /\ "wait" \in DOMAIN reset
      BY <1>1
    <3>2. \/ sched' = MakeReady(MakeReady(reset, cur), t)
          \/ sched' = MakeReady(reset, t)
      BY <2>3 DEF StartThread
    <3> HIDE DEF reset
    <3>3. sched'.wait = reset.wait
      BY <3>1, <3>2, MakeReadyWait
    <3> QED
      BY <1>1, <2>1, <3>1, <3>3, QuietKeeps
  <2> QED
    BY <1>3, <2>2, <2>3
<1>4. ASSUME NEW t \in Threads, SuspendThread(t) \/ ResumeThread(t)
      PROVE  KeepsObjectWaits(sched, sched')
  <2>1. Quiet(sched, sched')
    BY <1>1, <1>4, SuspendedQuiet, ResumedQuiet DEF SuspendThread, ResumeThread
  <2>2. CASE SuspendThread(t)
    <3>1. sched'.wait = Unqueue(sched, t).wait
      BY <1>1, <2>2, UnqueueWait DEF SuspendThread
    <3> QED
      BY <1>1, <2>1, <3>1, UnqueueWait, QuietKeeps
  <2>3. CASE ResumeThread(t)
    <3> DEFINE resumed == [sched EXCEPT !.status[t] = @ \ {"SUSPEND"}]
    <3>1. resumed.wait = sched.wait /\ "wait" \in DOMAIN resumed
      BY <1>1
    <3>2. sched' = resumed \/ sched' = MakeReady(resumed, t)
      BY <2>3 DEF ResumeThread, ResumedSched
    <3> HIDE DEF resumed
    <3> QED
      BY <1>1, <2>1, <3>1, <3>2, MakeReadyWait, QuietKeeps
  <2> QED
    BY <1>4, <2>2, <2>3
<1>5. ASSUME NEW t \in Threads,
             \/ WakeupThread(t) \/ CancelWakeupThread(t) \/ ReleaseWaitThread(t)
             \/ ScheduledWakeup(t) \/ ThreadEndTimeout(t)
      PROVE  KeepsObjectWaits(sched, sched')
  <2>1. sched' = sched \/ sched' = ResumeFromWait(sched, t)
    BY <1>5
    DEF WakeupThread, CancelWakeupThread, ReleaseWaitThread, ScheduledWakeup, ThreadEndTimeout
  <2>2. CASE sched' = ResumeFromWait(sched, t)
    BY <1>1, <2>2, ResumeFromWaitFacts, ResumeFromWaitQuiet, QuietKeeps
  <2> QED
    BY <1>2, <2>1, <2>2
<1>6. ASSUME NEW t \in AllThreads, NEW p \in Priorities, ChangeThreadPriority(t, p)
      PROVE  KeepsObjectWaits(sched, sched')
  <2>1. Quiet(sched, sched') /\ sched' = ChangedPrioritySched(t, p)
    BY <1>1, <1>6, ChangedPriorityQuiet DEF ChangeThreadPriority
  <2>2. sched'.wait = sched.wait
    BY <1>1, <2>1 DEF ChangedPrioritySched
  <2> QED
    BY <1>1, <2>1, <2>2, QuietKeeps
<1>7. ASSUME NEW p \in Priorities, RotateThreadReadyQueue(p)
      PROVE  KeepsObjectWaits(sched, sched')
  <2>1. Quiet(sched, sched') /\ sched' = RotatedSched(p)
    BY <1>1, <1>7, CallerRuns, RotatedQuiet DEF RotateThreadReadyQueue
  <2>2. sched'.wait = sched.wait
    BY <1>1, <2>1 DEF RotatedSched
  <2> QED
    BY <1>1, <2>1, <2>2, QuietKeeps
<1>8. ASSUME NEW t \in Threads, Ended(sched', t)
      PROVE  KeepsObjectWaits(sched, sched')
  BY <1>1, <1>8, EndKeeps DEF Ended
<1>9. ASSUME NEW t \in Threads, TerminateThread(t) \/ TerminateDeleteThread(t)
      PROVE  KeepsObjectWaits(sched, sched')
  <2>1. endWaiters[t] \in Seq(Threads) /\ IsInjective(endWaiters[t]) /\ EndWaitersRegistered
    BY DEF Inv, ThreadInv
  <2>2. Ended(sched', t)
    BY <1>1, <1>9, <2>1, EndsFacts DEF TerminateThread, TerminateDeleteThread, Stop
  <2> QED
    BY <1>8, <2>2
<1>10. CASE ExitThread \/ ExitDeleteThread
  <2>1. /\ cur \in Threads /\ endWaiters[cur] \in Seq(Threads) /\ IsInjective(endWaiters[cur])
        /\ EndWaitersRegistered
    BY <1>10 DEF ExitThread, ExitDeleteThread, MayExit, ThreadRuns, Inv, ThreadInv
  <2>2. Ended(sched', cur)
    BY <1>1, <1>10, <2>1, EndsFacts DEF ExitThread, ExitDeleteThread, Stop
  <2> QED
    BY <1>8, <2>1, <2>2
<1>11. CASE UNCHANGED vars \/ SuspendDispatchThread \/ CpuSuspendIntr \/ KernelIdle
            \/ DelayThreadZero
            \/ \E enabled \in BOOLEAN : ResumeDispatchThread(enabled)
  BY <1>2, <1>11 DEF vars, SuspendDispatchThread, CpuSuspendIntr, KernelIdle, DelayThreadZero,
                        ResumeDispatchThread
<1>12. CASE CpuResumeIntr \/ TriggerInterrupt \/ TriggerResched
  <2>1. sched' = sched \/ sched' = SwitchOffThread(sched)
    BY <1>12 DEF CpuResumeIntr, TriggerInterrupt, TriggerResched, EnterHandler
  <2> QED
    BY <1>1, <1>2, <2>1, SwitchOffSwitched, SwitchOffForgets, SwitchKeeps
<1>13. CASE TriggerIgnored
  <2> DEFINE off == SwitchOffThread(sched)
  <2>1. Switched(sched, off) /\ Consistent(off) /\ ForgetsWaits(sched, off)
    BY <1>1, SwitchOffSwitched, SwitchOffForgets DEF Switched
  <2>2. KeepsObjectWaits(sched, off)
    BY <2>1, SwitchKeeps
  <2>3. CASE CanSwitchTo(off, cur) /\ sched' = SwitchContext(off, cur)
    <3>1. Switched(off, sched') /\ ForgetsWaits(off, sched')
      BY <2>1, <2>3, CanSwitchToReady, SwitchContextSwitched, SwitchForgets
    <3>2. KeepsObjectWaits(off, sched')
      BY <3>1, ForgettingKeeps DEF Switched
    <3> QED
      BY <2>2, <3>2 DEF KeepsObjectWaits
  <2> HIDE DEF off
  <2>4. CASE sched' = off
    BY <2>2, <2>4
  <2> QED
    BY <1>13, <2>3, <2>4 DEF TriggerIgnored, off
<1>14. CASE ReturnFromInterrupt
  <2>1. CASE CanSwitchTo(sched, before) /\ sched' = SwitchContext(sched, before)
    BY <1>1, <2>1, CanSwitchToReady, SwitchContextSwitched, SwitchForgets, SwitchKeeps
  <2> QED
    BY <1>2, <1>14, <2>1 DEF ReturnFromInterrupt
<1>15. CASE ReSchedule
  <2>1. sched' = sched \/ sched' = NextThread(sched)
    BY <1>15 DEF ReSchedule
  <2> QED
    BY <1>1, <1>2, <2>1, NextThreadSwitched, NextThreadForgets, SwitchKeeps
<1>16. CASE DelayThread \/ SleepThread \/ \E t \in Threads, timeout \in BOOLEAN : WaitThreadEnd(t, timeout)
  <2>1. MayWait /\ cur \in AllThreads
    BY <1>1, <1>16 DEF DelayThread, SleepThread, WaitThreadEnd, MayWait, ThreadRuns
  <2>2. \/ sched' = sched
        \/ \E type \in WaitTypes \ ObjectWaits, id \in AllThreads \union Objects \union {NoThread} :
              sched' = WaitCurThread(sched, type, id)
    BY <1>1, <1>16, <2>1 DEF DelayThread, SleepThread, WaitThreadEnd, WaitTypes, ObjectWaits
  <2>3. ASSUME NEW type \in WaitTypes \ ObjectWaits, NEW id \in AllThreads \union Objects \union {NoThread},
               sched' = WaitCurThread(sched, type, id)
        PROVE  KeepsObjectWaits(sched, sched')
    <3>1. /\ sched'.status = [sched.status EXCEPT ![cur] = {"WAIT"} \union (@ \intersect {"SUSPEND"})]
          /\ sched'.wait = [sched.wait EXCEPT ![cur] = [type |-> type, id |-> id]]
      BY <1>1, <2>1, <2>3, WaitCurThreadFacts DEF cur
    <3>2. /\ sched.status \in [AllThreads -> SUBSET StatusBits]
          /\ sched.wait \in [AllThreads -> Waits]
      BY <1>1, SchedTypes
    <3> QED
      BY <1>1, <3>1, <3>2 DEF KeepsObjectWaits, Has
  <2> QED
    BY <1>2, <2>2, <2>3
<1> QED
  BY <1>3, <1>4, <1>5, <1>6, <1>7, <1>9, <1>10, <1>11, <1>12, <1>13, <1>14, <1>15, <1>16 DEF Next
-----------------------------------------------------------------------------
(* The lists of waiting threads *)

\* A thread that starts to wait is in the list, once.
LEMMA ListedFacts ==
    ASSUME NEW S, NEW w \in Seq(S), IsInjective(w), NEW t \in S
    PROVE  /\ Listed(w, t) \in Seq(S)
           /\ IsInjective(Listed(w, t))
           /\ \A x : Contains(Listed(w, t), x) <=> Contains(w, x) \/ x = t
<1>1. CASE Contains(w, t)
  BY <1>1 DEF Listed
<1>2. CASE ~Contains(w, t)
  BY <1>2, AppendNew DEF Listed
<1> QED
  BY <1>1, <1>2

\* A list has finitely many members.
LEMMA ListFinite ==
    ASSUME NEW S, NEW w \in Seq(S)
    PROVE  IsFiniteSet(ToSet(w))
<1>1. w \in Surjection(1 .. Len(w), ToSet(w))
  BY DEF Surjection, ToSet
<1>2. IsFiniteSet(1 .. Len(w))
  BY FS_Interval
<1> QED
  BY <1>1, <1>2, FS_Surjection

\* CleanupWaitingThreads() loses nobody who still waits, and lists nobody twice.
LEMMA CleanedUpFacts ==
    ASSUME NEW S, NEW w \in Seq(S), NEW valid, NEW v \in CleanedUp(w, valid)
    PROVE  /\ v \in Seq(S)
           /\ IsInjective(v)
           /\ \A x : Contains(v, x) <=> Contains(w, x) /\ x \in valid
<1> DEFINE kept == ToSet(w) \intersect valid
           size == Cardinality(kept)
<1>1. v \in [1 .. size -> kept] /\ ToSet(v) = kept
  BY DEF CleanedUp
<1>2. IsFiniteSet(kept) /\ size \in Nat
  BY ListFinite, FS_Subset, FS_CardinalityType
<1>3. kept \subseteq S
  BY DEF ToSet
<1>4. \A x : x \in kept <=> Contains(w, x) /\ x \in valid
  BY DEF ToSet, Contains
<1>5. Cardinality(1 .. size) = Cardinality(kept) /\ IsFiniteSet(1 .. size)
  BY <1>2, FS_Interval
<1> HIDE DEF kept, size
<1>6. v \in Seq(S) /\ DOMAIN v = 1 .. size /\ Len(v) = size
  BY <1>1, <1>2, <1>3
<1>7. v \in Surjection(1 .. size, kept)
  BY <1>1, <1>6 DEF Surjection, ToSet
<1>8. v \in Injection(1 .. size, kept)
  BY <1>5, <1>7, FS_SurjSameCardinalityImpliesInj
<1>9. IsInjective(v)
  BY <1>6, <1>8 DEF Injection, IsInjective
<1>10. \A x : Contains(v, x) <=> x \in kept
  BY <1>1, <1>6 DEF Contains, ToSet
<1> QED
  BY <1>4, <1>6, <1>9, <1>10

\* An order of a finite set has every member of it once.
LEMMA OrderFacts ==
    ASSUME NEW S, IsFiniteSet(S), NEW order \in SetToSeqs(S)
    PROVE  /\ order \in Seq(S)
           /\ IsInjective(order)
           /\ \A x \in S : \E i \in DOMAIN order : order[i] = x
<1> DEFINE n == Cardinality(S)
<1>1. order \in [1 .. n -> S] /\ \A i, j \in 1 .. n : i # j => order[i] # order[j]
  BY DEF SetToSeqs
<1>2. n \in Nat /\ IsFiniteSet(1 .. n) /\ Cardinality(1 .. n) = n
  BY FS_CardinalityType, FS_Interval
<1> HIDE DEF n
<1>3. order \in Injection(1 .. n, S)
  BY <1>1 DEF Injection, IsInjective
<1>4. order \in Surjection(1 .. n, S)
  BY <1>2, <1>3, FS_Injection DEF n
<1>5. order \in Seq(S) /\ DOMAIN order = 1 .. n
  BY <1>1, <1>2
<1> QED
  BY <1>1, <1>4, <1>5 DEF Surjection, IsInjective
-----------------------------------------------------------------------------
(* The calls of other modules that wait, wake and end threads *)

\* A wait for an object starts as every wait does.
LEMMA ObjectWaitInv ==
    ASSUME Inv, MayWait, NEW type \in ObjectWaits,
           NEW id \in AllThreads \union Objects \union {NoThread},
           sched' = WaitCurThread(sched, type, id), phase' = "resched",
           UNCHANGED <<wakeupCount, endWaiters, timers, dispatch, suspender, intrVars>>
    PROVE  /\ Inv'
           /\ sched'.status[cur] = {"WAIT"} /\ cur \in Threads /\ cur' = cur
           /\ \A x \in AllThreads : x # cur => sched'.status[x] = sched.status[x]
           /\ sched'.wait = [sched.wait EXCEPT ![cur] = [type |-> type, id |-> id]]
<1>1. type \in WaitTypes /\ type \notin {"SLEEP", "DELAY", "THREADEND"}
  BY DEF WaitTypes, ObjectWaits
<1>2. /\ Consistent(sched') /\ cur' = cur /\ cur \in Threads
      /\ \A x \in AllThreads : x # cur => sched'.status[x] = sched.status[x]
      /\ sched'.status[cur] = {"WAIT"}
      /\ \A w \in Threads : \A what, of : IsWaitingFor(sched, w, what, of)' =>
            \/ w = cur /\ what = type /\ of = id
            \/ w # cur /\ IsWaitingFor(sched, w, what, of)
  BY <1>1, WaitingFacts
<1>3. NoSleepWithWakeup'
  BY <1>1, <1>2 DEF Inv, ThreadInv, NoSleepWithWakeup
<1>4. DelayedHasTimer'
  BY <1>1, <1>2 DEF Inv, ThreadInv, DelayedHasTimer
<1>5. EndWaitersRegistered'
  <2> SUFFICES ASSUME NEW t \in Threads, NEW w \in Threads, IsWaitingFor(sched, w, "THREADEND", t)'
               PROVE  /\ Exists(sched', t) /\ ~Has(sched', t, "DORMANT")
                      /\ Contains(endWaiters'[t], w)
    BY DEF EndWaitersRegistered
  <2>1. IsWaitingFor(sched, w, "THREADEND", t)
    BY <1>1, <1>2
  <2>2. Exists(sched, t) /\ ~Has(sched, t, "DORMANT") /\ Contains(endWaiters[t], w)
    BY <2>1 DEF Inv, ThreadInv, EndWaitersRegistered
  <2> QED
    BY <1>2, <2>2 DEF Exists, Has
<1>6. ThreadInv'
  BY <1>2, <1>3, <1>4, <1>5 DEF Inv, ThreadInv
<1>7. sched'.wait = [sched.wait EXCEPT ![cur] = [type |-> type, id |-> id]]
  <2>1. /\ QueueOK(sched) /\ sched.cur \in AllThreads
        /\ sched.wait \in [AllThreads -> Waits]
    BY <1>2, SchedTypes DEF Inv, ThreadInv, Consistent, QueueOK, AllThreads, cur
  <2>2. type \in WaitTypes /\ id \in AllThreads \union Objects \union {NoThread}
    BY <1>1
  <2> DEFINE r == WaitCurThread(sched, type, id)
  <2>3. /\ QueueOK(r)
        /\ r.status = [sched.status EXCEPT ![sched.cur] = {"WAIT"} \union (@ \intersect {"SUSPEND"})]
        /\ r.wait = [sched.wait EXCEPT ![sched.cur] = [type |-> type, id |-> id]]
    BY <2>1, <2>2, WaitCurThreadFacts
  <2> QED
    BY <2>3 DEF cur
<1> QED
  BY <1>2, <1>6, <1>7, WaitKeepsCpuInv DEF Inv

\* When the listeners of the end of t resumed other threads before, the end does what
\* it does otherwise.
LEMMA EndAfterQuiet ==
    ASSUME NEW s, Quiet(sched, s), NEW r, NEW t, EndedFrom(s, r, t), s.wait = sched.wait
    PROVE  Ended(r, t)
BY DEF Quiet, KeepsWaits, EndedFrom, Ended

\* The three ways to end a thread, then.
LEMMA EndsAfterQuiet ==
    ASSUME Inv, NEW s, Quiet(sched, s), s.wait = sched.wait, NEW t \in Threads
    PROVE  LET stopped == StoppedFrom(s, t) IN
           \A r \in {stopped, [stopped EXCEPT !.prio[t] = InitialPriority[t]], Deleted(stopped, t)} :
               EndedFrom(s, r, t) /\ Ended(r, t)
<1>1. Consistent(s) /\ endWaiters[t] \in Seq(Threads) /\ IsInjective(endWaiters[t])
  BY DEF Inv, ThreadInv, Quiet
<1>2. Registered(s, t)
  <2> SUFFICES ASSUME NEW w \in Threads, IsWaitingFor(s, w, "THREADEND", t)
               PROVE  Contains(endWaiters[t], w)
    BY DEF Registered
  <2>1. IsWaitingFor(sched, w, "THREADEND", t)
    BY DEF IsWaitingFor, VerifyWait, Quiet, KeepsWaits, Exists, Has
  <2> QED
    BY <2>1 DEF Inv, ThreadInv, EndWaitersRegistered
<1>3. LET stopped == StoppedFrom(s, t) IN
      /\ EndedFrom(s, stopped, t)
      /\ EndedFrom(s, [stopped EXCEPT !.prio[t] = InitialPriority[t]], t)
      /\ EndedFrom(s, Deleted(stopped, t), t)
  BY <1>1, <1>2, StoppedFromFacts, TerminatedFromFacts, DeletedFromFacts
<1> QED
  BY <1>3, EndAfterQuiet
-----------------------------------------------------------------------------
(* Waits end with the thread, and with the switch to it *)

\* t has started and has not ended.
Alive(s, t) == s.status[t] \notin {{}, {"DORMANT"}}

\* Being alive, in the words of the thread manager.
LEMMA AliveMeans ==
    ASSUME NEW s, Consistent(s), NEW t \in AllThreads
    PROVE  Alive(s, t) <=> Exists(s, t) /\ ~Has(s, t, "DORMANT")
<1>1. s.status[t] \in LegalStatus
  BY DEF Consistent, QueueOK
<1> QED
  BY <1>1 DEF Alive, Exists, Has, LegalStatus

\* Who dies forgets the wait.
DeathForgets ==
    \A t \in Threads : Alive(sched', t) \/ ~Alive(sched, t) \/ sched'.wait[t] = NoWait

\* A quiet change of the threads ends none.
LEMMA QuietAlive ==
    ASSUME Consistent(sched), Quiet(sched, sched')
    PROVE  \A t \in Threads : Alive(sched, t) => Alive(sched', t)
<1> SUFFICES ASSUME NEW t \in Threads, Alive(sched, t) PROVE Alive(sched', t)
  OBVIOUS
<1>1. t \in AllThreads
  BY DEF AllThreads
<1> QED
  BY <1>1, AliveMeans DEF Quiet, KeepsWaits

\* A change of the threads that is quiet and keeps what they wait for.
LEMMA QuietWaitsKept ==
    ASSUME Inv, Quiet(sched, sched'), sched'.wait = sched.wait
    PROVE  /\ KeepsObjectWaits(sched, sched') /\ DeathForgets
           /\ \A t \in Threads : Alive(sched, t) => Alive(sched', t)
<1>1. Consistent(sched)
  BY DEF Inv, ThreadInv
<1>2. \A t \in Threads : Alive(sched, t) => Alive(sched', t)
  BY <1>1, QuietAlive
<1>3. KeepsObjectWaits(sched, sched')
  BY <1>1, QuietKeeps
<1> QED
  BY <1>2, <1>3 DEF DeathForgets

\* No step of the thread manager ends a thread that goes on waiting.
LEMMA StepSparesWaiters ==
    ASSUME Misuse = {}, Inv, [Next]_vars
    PROVE  DeathForgets
<1>1. Consistent(sched) /\ Consistent(sched') /\ \A t \in Threads : t \in AllThreads
  BY NextInv DEF Inv, ThreadInv, AllThreads
<1>2. ASSUME KeepsWaits(sched, sched') PROVE DeathForgets
  BY <1>1, <1>2, AliveMeans DEF KeepsWaits, DeathForgets
<1>3. CASE Quiet(sched, sched')
  BY <1>2, <1>3 DEF Quiet
<1>4. CASE Switches(sched, sched')
  BY <1>2, <1>4 DEF Switches, Switched, KeepsWaits
<1>5. ASSUME NEW t \in Threads, Ended(sched', t) PROVE DeathForgets
  <2>1. sched.wait \in [AllThreads -> Waits]
    BY <1>1, SchedTypes DEF Consistent, QueueOK
  <2>2. sched'.wait[t] = NoWait
    BY <1>1, <1>5, <2>1 DEF Ended, EndedFrom
  <2>3. \A x \in Threads : x # t /\ Alive(sched, x) => Alive(sched', x)
    BY <1>1, <1>5, AliveMeans DEF Ended, EndedFrom
  <2> QED
    BY <2>2, <2>3 DEF DeathForgets
<1>6. ASSUME MayWait, NEW type \in WaitTypes, NEW id \in AllThreads \union Objects \union {NoThread},
             sched' = WaitCurThread(sched, type, id)
      PROVE  DeathForgets
  <2>1. \A x \in Threads : sched'.status[x] = sched.status[x] \/ sched'.status[x] = {"WAIT"}
    BY <1>1, <1>6, WaitingFacts
  <2> QED
    BY <2>1 DEF DeathForgets, Alive
<1> QED
  BY <1>3, <1>4, <1>5, <1>6, StepKinds

\* The thread that executes has forgotten what it waited for.
CurForgets ==
    cur \in Threads /\ sched.wait[cur].type \in ObjectWaits =>
        phase = "resched" /\ DispatchEnabled /\ ~Has(sched, cur, "RUNNING")

\* Nobody runs because a wait ends.
LEMMA ResumedNotRunning ==
    ASSUME Consistent(sched), NEW t \in Threads, NEW x \in Threads, ~Has(sched, x, "RUNNING")
    PROVE  ~Has(ResumeFromWait(sched, t), x, "RUNNING")
<1> DEFINE r == ResumeFromWait(sched, t)
           bits == sched.status[t] \ {"WAIT"}
<1>1. /\ t \in AllThreads /\ x \in AllThreads /\ QueueOK(sched)
      /\ sched.status \in [AllThreads -> SUBSET StatusBits]
  BY SchedTypes DEF AllThreads, Consistent, QueueOK
<1>2. r.status = [sched.status EXCEPT ![t] =
                     IF bits \intersect {"SUSPEND", "DORMANT"} = {} THEN {"READY"} ELSE bits]
  BY <1>1, ResumeFromWaitFacts
<1> HIDE DEF r
<1>3. \/ x # t /\ r.status[x] = sched.status[x]
      \/ x = t /\ r.status[x] = {"READY"}
      \/ x = t /\ r.status[x] = bits
  BY <1>1, <1>2
<1>4. "RUNNING" \notin r.status[x]
  BY <1>3 DEF Has
<1> QED
  BY <1>4 DEF Has, r

\* A wait for an object does not outlive the switch to the thread.
LEMMA StepCurForgets ==
    ASSUME Misuse = {}, Inv, CurForgets, [Next]_vars
    PROVE  CurForgets'
<1> SUFFICES ASSUME cur' \in Threads, sched'.wait[cur'].type \in ObjectWaits
             PROVE  phase' = "resched" /\ DispatchEnabled' /\ ~Has(sched', cur', "RUNNING")
  BY DEF CurForgets
<1>1. /\ Consistent(sched) /\ QueueOK(sched) /\ NoWait.type \notin ObjectWaits
      /\ \A t \in Threads : t \in AllThreads
      /\ Idle \notin Threads /\ NoThread \notin Threads
  BY SchedulerAssumption DEF Inv, ThreadInv, Consistent, NoWait, ObjectWaits, AllThreads
<1>2. cur' = cur /\ cur \in Threads
  BY <1>1, CurMoves
<1>3. sched'.wait[cur] = sched.wait[cur]
  BY <1>2, StepKeepsObjectWaits DEF KeepsObjectWaits
<1>4. phase = "resched" /\ DispatchEnabled /\ ~Has(sched, cur, "RUNNING")
  BY <1>2, <1>3 DEF CurForgets
<1>5. CASE UNCHANGED vars
  BY <1>2, <1>4, <1>5 DEF vars, intrVars, DispatchEnabled, cur
<1>6. ASSUME NEW t \in Threads, ScheduledWakeup(t) \/ ThreadEndTimeout(t)
      PROVE  phase' = "resched" /\ DispatchEnabled' /\ ~Has(sched', cur', "RUNNING")
  <2>1. /\ DispatchEnabled' /\ phase' = "resched"
        /\ sched' = sched \/ sched' = ResumeFromWait(sched, t)
    BY <1>4, <1>6 DEF ScheduledWakeup, ThreadEndTimeout, intrVars, DispatchEnabled
  <2>2. CASE sched' = ResumeFromWait(sched, t)
    BY <1>1, <1>2, <1>4, <2>1, <2>2, ResumedNotRunning
  <2> QED
    BY <1>2, <1>4, <2>1, <2>2
<1>7. CASE TriggerInterrupt \/ TriggerResched \/ TriggerIgnored
  <2>1. ~inIntr /\ intrEnabled /\ cur # Idle
    BY <1>1, <1>2, <1>4 DEF Inv, CpuInv, DispatchEnabled
  <2>2. SwitchOffThread(sched).cur = Idle
    BY <1>1, SwitchOffSwitched
  <2>3. CASE sched' = SwitchOffThread(sched)
    BY <1>1, <1>2, <2>2, <2>3 DEF cur
  <2>4. CASE TriggerIgnored /\ sched' # SwitchOffThread(sched)
    <3> DEFINE off == SwitchOffThread(sched)
    <3>1. CanSwitchTo(off, cur) /\ sched' = SwitchContext(off, cur)
      BY <2>4 DEF TriggerIgnored
    <3>2. Consistent(off)
      BY <1>1, SwitchOffSwitched DEF Switched
    <3>3. cur \in AllThreads /\ Has(off, cur, "READY") /\ QueueOK(off) /\ RunningIsCurrent(off)
      BY <3>1, <3>2, CanSwitchToReady DEF Consistent
    <3> HIDE DEF off
    <3>4. off.wait \in [AllThreads -> Waits]
      BY <3>3, SchedTypes DEF QueueOK
    <3>5. sched'.wait = [off.wait EXCEPT ![cur] = NoWait]
      BY <3>1, <3>3, SwitchContextFacts
    <3>6. sched'.wait[cur] = NoWait
      BY <3>3, <3>4, <3>5
    <3> QED
      BY <1>1, <1>2, <3>6
  <2> QED
    BY <1>7, <2>1, <2>3, <2>4 DEF TriggerInterrupt, TriggerResched, EnterHandler
<1>8. CASE ReSchedule
  <2>1. ~inIntr
    BY <1>1, <1>2 DEF Inv, CpuInv
  <2>2. sched' = NextThread(sched)
    BY <1>4, <1>8, <2>1 DEF ReSchedule
  <2>3. /\ Has(sched', cur', "RUNNING")
        /\ sched' = sched \/ sched'.wait = [sched.wait EXCEPT ![cur'] = NoWait]
    BY <1>1, <2>2, NextThreadFacts DEF cur
  <2>4. sched.wait \in [AllThreads -> Waits]
    BY <1>1, SchedTypes DEF QueueOK
  <2>5. CASE sched' = sched
    BY <1>2, <1>4, <2>3, <2>5
  <2>6. CASE sched'.wait = [sched.wait EXCEPT ![cur'] = NoWait]
    BY <1>1, <2>4, <2>6
  <2> QED
    BY <2>3, <2>5, <2>6
<1> QED
  BY <1>4, <1>5, <1>6, <1>7, <1>8, BeforeReschedule

\* A call after which nobody else is the current thread, and that starts no wait.
LEMMA CallCurForgets ==
    ASSUME Inv, CurForgets, SomeoneRuns, KeepsObjectWaits(sched, sched'), cur' \in {cur, NoThread}
    PROVE  CurForgets'
<1> SUFFICES ASSUME cur' \in Threads, sched'.wait[cur'].type \in ObjectWaits PROVE FALSE
  BY DEF CurForgets
<1>1. cur' = cur /\ cur \in Threads
  BY SchedulerAssumption
<1>2. sched.wait[cur].type \in ObjectWaits
  BY <1>1 DEF KeepsObjectWaits
<1>3. phase = "run"
  BY DEF SomeoneRuns, ThreadRuns, HandlerRuns
<1> QED
  BY <1>1, <1>2, <1>3 DEF CurForgets

\* The end of a wait does not let the current thread go on, either.
LEMMA ResumeCurForgets ==
    ASSUME Inv, CurForgets, NEW t \in Threads,
           \/ sched' = ResumeFromWait(sched, t) /\ phase' = "resched"
           \/ sched' = sched /\ phase' = phase,
           UNCHANGED <<dispatch, intrVars>>
    PROVE  CurForgets'
<1> SUFFICES ASSUME cur' \in Threads, sched'.wait[cur'].type \in ObjectWaits
             PROVE  phase' = "resched" /\ DispatchEnabled' /\ ~Has(sched', cur', "RUNNING")
  BY DEF CurForgets
<1>1. Consistent(sched) /\ QueueOK(sched) /\ t \in AllThreads
  BY DEF Inv, ThreadInv, Consistent, AllThreads
<1>2. sched'.wait = sched.wait /\ cur' = cur
  BY <1>1, ResumeFromWaitFacts DEF cur
<1>3. phase = "resched" /\ DispatchEnabled /\ ~Has(sched, cur, "RUNNING") /\ cur \in Threads
  BY <1>2 DEF CurForgets
<1>4. phase' = "resched" /\ DispatchEnabled'
  BY <1>3 DEF intrVars, DispatchEnabled
<1>5. ~Has(sched', cur', "RUNNING")
  BY <1>1, <1>2, <1>3, ResumedNotRunning
<1> QED
  BY <1>4, <1>5
=============================================================================
