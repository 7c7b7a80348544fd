-------------------------- MODULE KernelThreadProofs --------------------------
(* The theorems about KernelThread.tla, for any number of threads, priorities *)
(* and events, as long as programs do not make the calls of Misuse.           *)
EXTENDS KernelThread, SchedulerProofs

-----------------------------------------------------------------------------
(* What the operators of KernelThread.tla do to a consistent sched record *)

\* sceKernelRotateThreadReadyQueue() is quiet, when the thread that calls it is
\* marked as running.
LEMMA RotatedQuiet ==
    ASSUME Consistent(sched), cur \in AllThreads, NEW p \in Priorities,
           sched.prio[cur] # p \/ Has(sched, cur, "RUNNING")
    PROVE  Quiet(sched, RotatedSched(p))
<1> DEFINE q == sched.queue[p]
<1>1. /\ sched \in SchedType /\ sched.status \in [AllThreads -> SUBSET StatusBits]
      /\ sched.queue \in [AllPriorities -> Seq(AllThreads)] /\ p \in AllPriorities
      /\ QueueOK(sched)
  BY SchedTypes DEF Consistent, QueueOK, AllPriorities
<1>2. q \in Seq(AllThreads) /\ IsInjective(q)
  BY <1>1 DEF QueueOK, ReadyQueued
<1>3. CASE sched.queue[p] = <<>>
  BY <1>3, QuietSelf DEF RotatedSched
<1>4. CASE sched.queue[p] # <<>> /\ sched.prio[cur] = p
  <2> DEFINE t == cur
             n == Append(q, t)
             r == [sched EXCEPT !.queue[p] = n, !.status[t] = {"READY"}]
  <2>1. sched.status[t] = {"RUNNING"} /\ t \in AllThreads
    <3>1. Has(sched, t, "RUNNING") /\ sched.status[t] \in LegalStatus /\ t \in AllThreads
      BY <1>1, <1>4 DEF QueueOK
    <3> QED
      BY <3>1 DEF LegalStatus, Has
  <2>2. RotatedSched(p) = r
    <3>1. ({"RUNNING"} \ {"RUNNING"}) \union {"READY"} = {"READY"}
      OBVIOUS
    <3> QED
      BY <1>1, <1>4, <2>1, <3>1 DEF RotatedSched
  <2>3. ~Contains(q, t)
    BY <1>1, <2>1 DEF QueueOK, ReadyQueued, Has
  <2>4. /\ n \in Seq(AllThreads) /\ IsInjective(n)
        /\ \A x : Contains(n, x) <=> Contains(q, x) \/ x = t
    BY <1>2, <2>1, <2>3, AppendNew
  <2>5. {"READY"} \in SUBSET StatusBits
    BY DEF StatusBits
  <2> HIDE DEF n, t
  <2>6. /\ r \in SchedType /\ r.queue = [sched.queue EXCEPT ![p] = n]
        /\ r.status = [sched.status EXCEPT ![t] = {"READY"}]
        /\ r.prio = sched.prio /\ r.cur = sched.cur /\ r.wait = sched.wait
    BY <1>1, <2>1, <2>4, <2>5 DEF SchedType
  <2> HIDE DEF r
  <2>7. \A x \in AllThreads : r.status[x] = IF x = t THEN {"READY"} ELSE sched.status[x]
    BY <1>1, <2>6
  <2>8. sched.prio[t] = p
    BY <1>4 DEF t
  <2>9. QueueOK(r)
    <3>1. \A x \in AllThreads : r.status[x] \in LegalStatus
      BY <1>1, <2>7 DEF QueueOK, LegalStatus
    <3>2. ReadyQueued(r)
      BY <1>1, <2>1, <2>4, <2>6, <2>7, <2>8 DEF QueueOK, ReadyQueued, Has
    <3> QED
      BY <2>6, <3>1, <3>2 DEF QueueOK
  <2>10. Quiet(sched, r)
    BY <2>1, <2>6, <2>7, <2>9, QuietStatus DEF Has, Exists
  <2> QED
    BY <2>2, <2>10
<1>5. CASE sched.queue[p] # <<>> /\ sched.prio[cur] # p /\ Len(sched.queue[p]) > 1
  <2> DEFINE n == Append(Tail(q), Head(q))
             r == [sched EXCEPT !.queue[p] = n]
  <2>1. /\ n \in Seq(AllThreads) /\ IsInjective(n)
        /\ \A x : Contains(n, x) <=> Contains(q, x)
    BY <1>2, <1>5, RotateDistinct
  <2>2. RotatedSched(p) = r
    BY <1>5 DEF RotatedSched
  <2> HIDE DEF n
  <2>3. /\ r \in SchedType /\ r.queue = [sched.queue EXCEPT ![p] = n]
        /\ r.status = sched.status
        /\ r.prio = sched.prio /\ r.cur = sched.cur /\ r.wait = sched.wait
    <3>1. sched \in SchedType /\ p \in AllPriorities
      BY <1>1
    <3> QED
      BY <2>1, <3>1, QueueFields
  <2> HIDE DEF r
  <2>4. QueueOK(r)
    <3>1. ReadyQueued(r)
      BY <1>1, <2>1, <2>3 DEF QueueOK, ReadyQueued, Has
    <3> QED
      BY <1>1, <2>3, <3>1 DEF QueueOK
  <2>5. Quiet(sched, r)
    BY <2>3, <2>4 DEF Quiet, KeepsWaits, Consistent, RunningIsCurrent, IdleCanRun, Runnable,
                      Has, Exists
  <2> QED
    BY <2>2, <2>5
<1>6. CASE sched.queue[p] # <<>> /\ sched.prio[cur] # p /\ ~(Len(sched.queue[p]) > 1)
  BY <1>6, QuietSelf DEF RotatedSched
<1> QED
  BY <1>3, <1>4, <1>5, <1>6

\* sceKernelChangeThreadPriority() moves a ready or running thread to its new queue.
LEMMA ChangedPriorityQuiet ==
    ASSUME Consistent(sched), NEW t \in Threads, NEW p \in Priorities
    PROVE  Quiet(sched, ChangedPrioritySched(t, p))
<1> DEFINE u == [sched EXCEPT !.queue[sched.prio[t]] = RemoveFirst(@, t)]
           v == [u EXCEPT !.prio[t] = p]
           q == v.queue[p]
           w == [v EXCEPT !.status[t] = {"READY"}, !.queue[p] = Append(@, t)]
           isReady == Has(sched, t, "READY") \/ Has(sched, t, "RUNNING")
<1>1. /\ sched \in SchedType /\ sched.status \in [AllThreads -> SUBSET StatusBits]
      /\ sched.prio \in [AllThreads -> AllPriorities]
      /\ p \in AllPriorities /\ t \in AllThreads /\ QueueOK(sched)
  BY SchedTypes DEF Consistent, QueueOK, AllPriorities, AllThreads
<1>2. Idle # t
  BY SchedulerAssumption
<1>3. ChangedPrioritySched(t, p) = IF isReady THEN w ELSE v
  BY DEF ChangedPrioritySched
<1>4. /\ u \in SchedType
      /\ u.status = sched.status /\ u.prio = sched.prio
      /\ u.cur = sched.cur /\ u.wait = sched.wait
      /\ \A o \in AllPriorities :
            /\ IsInjective(u.queue[o])
            /\ \A x \in AllThreads :
                  Contains(u.queue[o], x) <=> Contains(sched.queue[o], x) /\ x # t
  BY <1>1, RemovedFacts
<1> HIDE DEF u
<1>5. /\ v \in SchedType /\ v.queue = u.queue /\ v.status = sched.status
      /\ v.prio = [sched.prio EXCEPT ![t] = p] /\ v.cur = sched.cur /\ v.wait = sched.wait
  BY <1>1, <1>4 DEF SchedType
<1> HIDE DEF v
<1>6. q \in Seq(AllThreads)
  BY <1>1, <1>5, SchedTypes
<1>7. CASE isReady
  <2> DEFINE n == Append(q, t)
  <2>1. IsInjective(q) /\ ~Contains(q, t)
    BY <1>1, <1>4, <1>5
  <2>2. /\ n \in Seq(AllThreads) /\ IsInjective(n)
        /\ \A x : Contains(n, x) <=> Contains(q, x) \/ x = t
    BY <1>1, <1>6, <2>1, AppendNew
  <2>3. {"READY"} \in SUBSET StatusBits
    BY DEF StatusBits
  <2>4. w = [v EXCEPT !.status[t] = {"READY"}, !.queue[p] = n]
    OBVIOUS
  <2> HIDE DEF n, w
  <2>5. /\ w \in SchedType /\ w.queue = [v.queue EXCEPT ![p] = n]
        /\ w.status = [v.status EXCEPT ![t] = {"READY"}]
        /\ w.prio = v.prio /\ w.cur = v.cur /\ w.wait = v.wait
    BY <1>1, <1>5, <2>2, <2>3, <2>4 DEF SchedType
  <2>6. /\ \A x \in AllThreads : w.status[x] = IF x = t THEN {"READY"} ELSE sched.status[x]
        /\ \A x \in AllThreads : w.prio[x] = IF x = t THEN p ELSE sched.prio[x]
    BY <1>1, <1>5, <2>5
  <2>7. ReadyQueued(w)
    <3> SUFFICES ASSUME NEW o \in AllPriorities
                 PROVE  /\ IsInjective(w.queue[o])
                        /\ \A x \in AllThreads :
                              Contains(w.queue[o], x) <=> Has(w, x, "READY") /\ w.prio[x] = o
      BY DEF ReadyQueued
    <3>1. w.queue[o] = IF o = p THEN n ELSE u.queue[o]
      BY <1>4, <1>5, <2>5, SchedTypes
    <3>2. \A x \in AllThreads :
             Contains(u.queue[o], x) <=> Has(sched, x, "READY") /\ sched.prio[x] = o /\ x # t
      BY <1>1, <1>4 DEF QueueOK, ReadyQueued
    <3>3. \A x \in AllThreads :
             Contains(w.queue[o], x) <=> Contains(u.queue[o], x) \/ (x = t /\ o = p)
      BY <1>4, <1>5, <2>2, <3>1
    <3>4. \A x \in AllThreads : Contains(w.queue[o], x) <=> Has(w, x, "READY") /\ w.prio[x] = o
      BY <2>6, <3>2, <3>3 DEF Has
    <3> QED
      BY <1>4, <2>2, <3>1, <3>4
  <2>8. QueueOK(w)
    BY <1>1, <2>5, <2>6, <2>7 DEF QueueOK, LegalStatus
  <2>9. Quiet(sched, w)
    <3>1. Exists(sched, t) /\ ~Has(w, t, "RUNNING") /\ ~Has(w, t, "WAIT") /\ ~Has(w, t, "DORMANT")
      BY <1>1, <1>7, <2>6 DEF Exists, Has
    <3>2. w.prio[Idle] = sched.prio[Idle]
      BY <1>2, <2>6 DEF AllThreads
    <3>3. w.status = [sched.status EXCEPT ![t] = w.status[t]] /\ w.status[t] = {"READY"}
      BY <1>1, <1>5, <2>5, <2>6
    <3>4. /\ Exists(w, t) /\ w.status[t] \in {{"RUNNING"}, {"READY"}}
          /\ w.cur = sched.cur /\ w.wait = sched.wait
      BY <1>1, <1>5, <2>5, <3>3 DEF Exists
    <3> QED
      BY <1>1, <2>8, <3>1, <3>2, <3>3, <3>4, QuietStatus
  <2> QED
    BY <1>3, <1>7, <2>9
<1>8. CASE ~isReady
  <2>1. \A x \in AllThreads : v.prio[x] = IF x = t THEN p ELSE sched.prio[x]
    BY <1>1, <1>5
  <2>2. ReadyQueued(v)
    BY <1>1, <1>4, <1>5, <1>8, <2>1 DEF QueueOK, ReadyQueued, Has
  <2>3. QueueOK(v)
    BY <1>1, <1>5, <2>2 DEF QueueOK
  <2>4. v.prio[Idle] = sched.prio[Idle]
    BY <1>2, <2>1 DEF AllThreads
  <2>5. Quiet(sched, v)
    BY <1>5, <2>3, <2>4 DEF Quiet, KeepsWaits, Consistent, RunningIsCurrent, IdleCanRun, Runnable,
                            Has, Exists
  <2> QED
    BY <1>3, <1>8, <2>5
<1> QED
  BY <1>7, <1>8

\* sceKernelSuspendThread() puts aside a thread that is ready or waits.
LEMMA SuspendedQuiet ==
    ASSUME Consistent(sched), NEW t \in Others,
           ~Has(sched, t, "DORMANT"), ~Has(sched, t, "SUSPEND")
    PROVE  Quiet(sched, [Unqueue(sched, t) EXCEPT !.status[t] = (@ \ {"READY"}) \union {"SUSPEND"}])
<1> DEFINE bits == (sched.status[t] \ {"READY"}) \union {"SUSPEND"}
           r == [Unqueue(sched, t) EXCEPT !.status[t] = bits]
<1>1. /\ t \in Threads /\ t \in AllThreads /\ t # cur /\ Exists(sched, t) /\ Idle # t
      /\ sched.status \in [AllThreads -> SUBSET StatusBits] /\ QueueOK(sched)
  BY SchedTypes, SchedulerAssumption DEF Others, AllThreads, Consistent, QueueOK
<1>2. sched.status[t] \in {{"READY"}, {"WAIT"}}
  <2>1. sched.status[t] \in LegalStatus /\ sched.status[t] # {} /\ ~Has(sched, t, "RUNNING")
    BY <1>1 DEF QueueOK, Exists, Consistent, RunningIsCurrent, cur
  <2> QED
    BY <2>1 DEF LegalStatus, Has
<1>3. /\ bits \in {{"SUSPEND"}, {"WAIT", "SUSPEND"}}
      /\ "WAIT" \in bits => Has(sched, t, "WAIT")
  BY <1>2 DEF Has
<1>4. bits \in LegalStatus /\ "READY" \notin bits /\ "RUNNING" \notin bits
  BY <1>3 DEF LegalStatus
<1>5. Unqueue(sched, t).status = sched.status
  BY <1>1, UnqueueFacts
<1>6. [Unqueue(sched, t) EXCEPT !.status[t] = (@ \ {"READY"}) \union {"SUSPEND"}] = r
  BY <1>5
<1> HIDE DEF bits
<1>7. /\ Consistent(r) /\ r.status = [sched.status EXCEPT ![t] = bits]
      /\ r.prio = sched.prio /\ r.cur = sched.cur /\ r.wait = sched.wait
  BY <1>1, <1>4, PutAsideFacts
<1> HIDE DEF r
<1>8. r.status[t] = bits
  BY <1>1, <1>7
<1>9. Quiet(sched, r)
  <2>1. /\ ~Has(r, t, "RUNNING") /\ (Has(r, t, "WAIT") => Has(sched, t, "WAIT"))
        /\ Exists(r, t) /\ ~Has(r, t, "DORMANT")
    BY <1>1, <1>3, <1>8 DEF Has, Exists
  <2> QED
    BY <1>1, <1>7, <1>8, <2>1, QuietStatus DEF Consistent, cur
<1> QED
  BY <1>6, <1>9

\* sceKernelResumeThread() makes the thread ready again unless it still waits.
LEMMA ResumedQuiet ==
    ASSUME Consistent(sched), NEW t \in Others, Has(sched, t, "SUSPEND")
    PROVE  Quiet(sched, ResumedSched(t))
<1> DEFINE bits == sched.status[t] \ {"SUSPEND"}
           u == [sched EXCEPT !.status[t] = bits]
           m == MakeReady(u, t)
<1>1. /\ t \in Threads /\ t \in AllThreads /\ t # cur /\ Exists(sched, t) /\ Idle # t
      /\ sched \in SchedType /\ sched.status \in [AllThreads -> SUBSET StatusBits]
      /\ QueueOK(sched)
  BY SchedTypes, SchedulerAssumption DEF Others, AllThreads, Consistent, QueueOK
<1>2. sched.status[t] \in {{"SUSPEND"}, {"WAIT", "SUSPEND"}}
  <2>1. sched.status[t] \in LegalStatus
    BY <1>1 DEF QueueOK
  <2> QED
    BY <2>1 DEF LegalStatus, Has
<1>3. bits \in {{}, {"WAIT"}} /\ (bits = {"WAIT"} => Has(sched, t, "WAIT")) /\ ~Has(sched, t, "READY")
  BY <1>2 DEF Has
<1>4. bits \in LegalStatus /\ bits \in SUBSET StatusBits
  BY <1>3 DEF LegalStatus, StatusBits
<1>5. ResumedSched(t) = IF u.status[t] = {} THEN m ELSE u
  BY <1>1 DEF ResumedSched
<1> HIDE DEF bits
<1>6. /\ u \in SchedType /\ u.status = [sched.status EXCEPT ![t] = bits]
      /\ u.queue = sched.queue /\ u.prio = sched.prio
      /\ u.cur = sched.cur /\ u.wait = sched.wait
  BY <1>1, <1>4 DEF SchedType
<1> HIDE DEF u
<1>7. \A x \in AllThreads : u.status[x] = IF x = t THEN bits ELSE sched.status[x]
  BY <1>1, <1>6
<1>8. QueueOK(u)
  <2>1. \A x \in AllThreads : /\ u.status[x] \in LegalStatus
                              /\ Has(u, x, "READY") <=> Has(sched, x, "READY")
    BY <1>1, <1>3, <1>4, <1>7 DEF QueueOK, Has
  <2> QED
    BY <1>1, <1>6, <2>1, SameReady
<1>9. CASE bits = {}
  <2>1. /\ QueueOK(m) /\ m.status = [u.status EXCEPT ![t] = {"READY"}]
        /\ m.prio = sched.prio /\ m.cur = sched.cur /\ m.wait = sched.wait
    BY <1>1, <1>6, <1>8, MakeReadyFacts
  <2> HIDE DEF m
  <2>2. m.status = [sched.status EXCEPT ![t] = m.status[t]] /\ m.status[t] = {"READY"}
    BY <1>1, <1>6, <2>1
  <2>3. Quiet(sched, m)
    <3>1. /\ ~Has(m, t, "RUNNING") /\ ~Has(m, t, "WAIT")
          /\ Exists(m, t) /\ ~Has(m, t, "DORMANT") /\ m.status[t] \in {{"RUNNING"}, {"READY"}}
      BY <1>1, <2>2 DEF Has, Exists
    <3> QED
      BY <1>1, <2>1, <2>2, <3>1, QuietStatus
  <2> QED
    BY <1>1, <1>5, <1>7, <1>9, <2>3
<1>10. CASE bits = {"WAIT"}
  <2>1. Quiet(sched, u)
    <3>1. u.status[t] = {"WAIT"} /\ u.status = [sched.status EXCEPT ![t] = u.status[t]]
      BY <1>1, <1>6, <1>7, <1>10
    <3>2. /\ ~Has(u, t, "RUNNING") /\ Has(sched, t, "WAIT")
          /\ Exists(u, t) /\ ~Has(u, t, "DORMANT")
      BY <1>1, <1>3, <1>10, <3>1 DEF Has, Exists
    <3> QED
      BY <1>1, <1>6, <1>8, <3>1, <3>2, QuietStatus DEF cur
  <2> QED
    BY <1>1, <1>5, <1>7, <1>10, <2>1
<1> QED
  BY <1>3, <1>9, <1>10

\* sceKernelCreateThread() uses an id that nothing knows any more.
LEMMA CreatedQuiet ==
    ASSUME Consistent(sched), NEW t \in Threads, ~Exists(sched, t)
    PROVE  Quiet(sched, [sched EXCEPT !.status[t] = {"DORMANT"}, !.prio[t] = InitialPriority[t],
                                      !.wait[t] = NoWait])
<1> DEFINE r == [sched EXCEPT !.status[t] = {"DORMANT"}, !.prio[t] = InitialPriority[t],
                              !.wait[t] = NoWait]
<1>1. /\ t \in AllThreads /\ Idle # t
      /\ sched \in SchedType /\ sched.status \in [AllThreads -> SUBSET StatusBits]
      /\ sched.prio \in [AllThreads -> AllPriorities] /\ sched.wait \in [AllThreads -> Waits]
      /\ QueueOK(sched) /\ sched.status[t] = {}
  BY SchedTypes, SchedulerAssumption DEF AllThreads, Consistent, QueueOK, Exists
<1>2. /\ {"DORMANT"} \in SUBSET StatusBits /\ NoWait \in Waits
      /\ InitialPriority[t] \in AllPriorities
  BY ThreadAssumption DEF StatusBits, NoWait, Waits, WaitTypes, AllPriorities
<1>3. /\ r \in SchedType /\ r.status = [sched.status EXCEPT ![t] = {"DORMANT"}]
      /\ r.queue = sched.queue /\ r.prio = [sched.prio EXCEPT ![t] = InitialPriority[t]]
      /\ r.cur = sched.cur /\ r.wait = [sched.wait EXCEPT ![t] = NoWait]
  BY <1>1, <1>2 DEF SchedType
<1> HIDE DEF r
<1>4. /\ \A x \in AllThreads : r.status[x] = IF x = t THEN {"DORMANT"} ELSE sched.status[x]
      /\ \A x \in AllThreads : x # t => r.prio[x] = sched.prio[x] /\ r.wait[x] = sched.wait[x]
  BY <1>1, <1>3
<1>5. QueueOK(r)
  <2>1. \A x \in AllThreads : /\ r.status[x] \in LegalStatus
                              /\ Has(r, x, "READY") <=> Has(sched, x, "READY")
                              /\ Has(sched, x, "READY") => r.prio[x] = sched.prio[x]
    BY <1>1, <1>4 DEF QueueOK, Has, LegalStatus
  <2> QED
    BY <1>1, <1>3, <2>1, SameReady
<1>6. Quiet(sched, r)
  <2>1. r.status[t] = {"DORMANT"} /\ r.status = [sched.status EXCEPT ![t] = r.status[t]]
    BY <1>1, <1>3, <1>4
  <2>2. /\ Has(r, t, "RUNNING") => Has(sched, t, "RUNNING")
        /\ Has(r, t, "WAIT") => Has(sched, t, "WAIT")
    BY <2>1 DEF Has
  <2>3. t = Idle \/ (t = sched.cur /\ Runnable(sched)) => r.status[t] \in {{"RUNNING"}, {"READY"}}
    BY <1>1 DEF Runnable
  <2>4. r.prio[Idle] = sched.prio[Idle]
    BY <1>1, <1>4 DEF AllThreads
  <2>5. \A x \in AllThreads : Has(r, x, "WAIT") => r.wait[x] = sched.wait[x]
    BY <1>4, <2>1 DEF Has
  <2>6. r.cur = sched.cur
    BY <1>3
  <2> QED
    BY <1>1, <1>5, <2>1, <2>2, <2>3, <2>4, <2>5, <2>6, QuietStatus
<1> QED
  BY <1>6 DEF r

\* sceKernelStartThread() makes the thread ready, and the caller if it is preempted.
LEMMA StartedQuiet ==
    ASSUME Consistent(sched), cur \in Threads, NEW t \in Others, sched.status[t] = {"DORMANT"}
    PROVE  LET reset == [sched EXCEPT !.prio[t] = ResetPriority(t), !.wait[t] = NoWait]
               preempts == reset.prio[cur] > reset.prio[t]
           IN  Quiet(sched, MakeReady(IF preempts THEN MakeReady(reset, cur) ELSE reset, t))
<1> DEFINE r == [sched EXCEPT !.prio[t] = ResetPriority(t), !.wait[t] = NoWait]
           preempts == r.prio[cur] > r.prio[t]
           m == IF preempts THEN MakeReady(r, cur) ELSE r
<1>1. /\ t \in AllThreads /\ Idle # t /\ t \in Threads /\ cur \in AllThreads /\ t # cur
      /\ sched \in SchedType /\ sched.status \in [AllThreads -> SUBSET StatusBits]
      /\ sched.prio \in [AllThreads -> AllPriorities] /\ sched.wait \in [AllThreads -> Waits]
      /\ QueueOK(sched)
  BY SchedTypes, SchedulerAssumption DEF AllThreads, Consistent, QueueOK, Others
<1>2. NoWait \in Waits /\ ResetPriority(t) \in AllPriorities
  BY <1>1, ThreadAssumption DEF NoWait, Waits, WaitTypes, AllPriorities, ResetPriority
<1>3. /\ r \in SchedType /\ r.status = sched.status
      /\ r.queue = sched.queue /\ r.prio = [sched.prio EXCEPT ![t] = ResetPriority(t)]
      /\ r.cur = sched.cur /\ r.wait = [sched.wait EXCEPT ![t] = NoWait]
  BY <1>1, <1>2 DEF SchedType
<1> HIDE DEF r
<1>4. \A x \in AllThreads : x # t => r.prio[x] = sched.prio[x] /\ r.wait[x] = sched.wait[x]
  BY <1>1, <1>3
<1>5. QueueOK(r)
  <2>1. \A x \in AllThreads : /\ r.status[x] \in LegalStatus
                              /\ Has(r, x, "READY") <=> Has(sched, x, "READY")
                              /\ Has(sched, x, "READY") => r.prio[x] = sched.prio[x]
    BY <1>1, <1>3, <1>4 DEF QueueOK, Has
  <2> QED
    BY <1>1, <1>3, <2>1, SameReady
<1>6. Quiet(sched, r)
  <2>1. /\ ~Has(r, t, "RUNNING") /\ ~Has(r, t, "WAIT") /\ Has(sched, t, "DORMANT")
        /\ r.status = [sched.status EXCEPT ![t] = r.status[t]]
        /\ t # sched.cur
        /\ r.prio[Idle] = sched.prio[Idle]
        /\ \A x \in AllThreads : Has(r, x, "WAIT") => r.wait[x] = sched.wait[x]
    BY <1>1, <1>3, <1>4 DEF Has, AllThreads, cur
  <2>2. /\ Exists(sched, t) /\ ~Has(sched, t, "DORMANT") => Exists(r, t) /\ ~Has(r, t, "DORMANT")
        /\ t = Idle \/ (t = sched.cur /\ Runnable(sched)) => r.status[t] \in {{"RUNNING"}, {"READY"}}
    BY <1>1, <2>1
  <2>3. r.cur = sched.cur /\ t \in AllThreads
    BY <1>1, <1>3
  <2> QED
    BY <1>5, <2>1, <2>2, <2>3, QuietStatus
<1>7. Quiet(sched, m)
  <2>1. Consistent(r)
    BY <1>6 DEF Quiet
  <2>2. Quiet(r, MakeReady(r, cur))
    BY <1>1, <2>1, MakeReadyQuiet
  <2>3. Quiet(sched, MakeReady(r, cur))
    BY <1>6, <2>2, QuietTrans
  <2> QED
    BY <1>6, <2>3
<1> HIDE DEF m
<1>8. Quiet(m, MakeReady(m, t))
  BY <1>1, <1>7, MakeReadyQuiet DEF Quiet
<1>9. Quiet(sched, MakeReady(m, t))
  BY <1>7, <1>8, QuietTrans
<1> QED
  BY <1>9 DEF m, r

\* What the end of t may make of s: nobody waits for t, and no other wait and no life
\* of another thread changes.
EndedFrom(s, r, t) ==
    /\ Consistent(r)
    /\ \A x \in Threads :
          /\ Has(r, x, "WAIT") =>
                /\ Has(s, x, "WAIT") /\ r.wait[x] = s.wait[x] /\ x # t
                /\ s.wait[x] # [type |-> "THREADEND", id |-> t]
          /\ x # t /\ Exists(s, x) /\ ~Has(s, x, "DORMANT") =>
                Exists(r, x) /\ ~Has(r, x, "DORMANT")
    /\ t # s.cur => r.cur = s.cur /\ (Runnable(s) => Runnable(r))
    /\ r.cur \in {s.cur, NoThread}
    /\ r.wait = [s.wait EXCEPT ![t] = NoWait]

Ended(r, t) == EndedFrom(sched, r, t)

\* Whoever waits for the end of t is in its list.
Registered(s, t) == \A w \in Threads : IsWaitingFor(s, w, "THREADEND", t) => Contains(endWaiters[t], w)

\* __KernelStopThread()
LEMMA StoppedFromFacts ==
    ASSUME NEW s, Consistent(s), NEW t \in Threads, Registered(s, t),
           endWaiters[t] \in Seq(Threads), IsInjective(endWaiters[t])
    PROVE  LET r == StoppedFrom(s, t) IN
           /\ EndedFrom(s, r, t)
           /\ r.status[t] = {"DORMANT"} /\ r.prio = s.prio /\ r.cur = s.cur
<1> DEFINE id == [type |-> "THREADEND", id |-> t]
           w == endWaiters[t]
           a == [Unqueue(s, t) EXCEPT !.status[t] = {"DORMANT"}]
           b == ResumeAll(a, w, "THREADEND", t)
           r == [b EXCEPT !.wait[t] = NoWait]
<1>1. /\ t \in AllThreads /\ Idle # t /\ w \in Seq(AllThreads)
      /\ s.status \in [AllThreads -> SUBSET StatusBits]
      /\ \A x \in Threads : x \in AllThreads
  <2>1. w \in Seq(AllThreads)
    BY SeqMonotonic DEF AllThreads
  <2> QED
    BY <2>1, SchedTypes, SchedulerAssumption DEF AllThreads, Consistent, QueueOK
<1>2. /\ Consistent(a) /\ a.status = [s.status EXCEPT ![t] = {"DORMANT"}]
      /\ a.prio = s.prio /\ a.cur = s.cur /\ a.wait = s.wait
  BY PutAsideFacts DEF LegalStatus
<1> HIDE DEF a
<1>3. \A x \in AllThreads : a.status[x] = IF x = t THEN {"DORMANT"} ELSE s.status[x]
  BY <1>1, <1>2
<1>4. QueueOK(a)
  BY <1>2 DEF Consistent
<1>5. /\ QueueOK(b) /\ b.prio = a.prio /\ b.cur = a.cur /\ b.wait = a.wait
      /\ \A x \in AllThreads : b.status[x] = ResumedStatus(a, w, "THREADEND", t, x)
  BY <1>1, <1>4, ResumeAllFacts
<1>6. Consistent(b)
  BY <1>1, <1>2, ResumeAllQuiet DEF Quiet
<1> HIDE DEF b
<1>7. /\ r \in SchedType /\ r.status = b.status /\ r.queue = b.queue /\ r.prio = b.prio
      /\ r.cur = b.cur /\ r.wait = [b.wait EXCEPT ![t] = NoWait]
  <2>1. b \in SchedType /\ NoWait \in Waits
    BY <1>5 DEF QueueOK, NoWait, Waits, WaitTypes
  <2> QED
    BY <1>1, <2>1 DEF SchedType
<1> HIDE DEF r
<1>8. Consistent(r)
  <2>1. QueueOK(r)
    BY <1>5, <1>7, SameReady DEF QueueOK, Has
  <2> QED
    BY <1>6, <1>7, <2>1 DEF Consistent, RunningIsCurrent, IdleCanRun, Has
<1>9. r.status[t] = {"DORMANT"}
  BY <1>1, <1>3, <1>5, <1>7 DEF ResumedStatus, EndedWaitStatus
<1>10. ASSUME NEW x \in Threads, x # t
       PROVE  /\ r.status[x] = IF Contains(w, x) /\ Exists(s, x) /\ s.wait[x] = id
                               THEN IF s.status[x] = {"WAIT"} THEN {"READY"}
                                    ELSE s.status[x] \ {"WAIT"}
                               ELSE s.status[x]
              /\ r.wait[x] = s.wait[x]
  <2>1. r.status[x] = ResumedStatus(a, w, "THREADEND", t, x) /\ a.status[x] = s.status[x]
    BY <1>1, <1>3, <1>5, <1>7, <1>10
  <2>2. r.wait[x] = s.wait[x]
    BY <1>1, <1>2, <1>5, <1>7, <1>10, SchedTypes DEF QueueOK
  <2> QED
    BY <1>1, <1>2, <2>1, <2>2 DEF ResumedStatus, EndedWaitStatus, VerifyWait, Exists
<1>11. ASSUME NEW x \in Threads, Has(r, x, "WAIT")
       PROVE  /\ Has(s, x, "WAIT") /\ r.wait[x] = s.wait[x] /\ x # t
              /\ s.wait[x] # id
  <2>1. x # t
    BY <1>9, <1>11 DEF Has
  <2>2. Has(s, x, "WAIT")
    BY <1>10, <1>11, <2>1 DEF Has
  <2>3. ~(Contains(w, x) /\ Exists(s, x) /\ s.wait[x] = id)
    BY <1>10, <1>11, <2>1 DEF Has
  <2>4. s.wait[x] = id => Contains(w, x) /\ Exists(s, x)
    BY <1>1, <2>2 DEF Registered, IsWaitingFor, VerifyWait, Exists, Has
  <2> QED
    BY <1>10, <2>1, <2>2, <2>3, <2>4
<1>12. ASSUME NEW x \in Threads, x # t, Exists(s, x), ~Has(s, x, "DORMANT")
       PROVE  Exists(r, x) /\ ~Has(r, x, "DORMANT")
  <2>1. x \in AllThreads /\ s.status[x] \in LegalStatus
    BY <1>1 DEF Consistent, QueueOK
  <2>2. \/ r.status[x] = s.status[x]
        \/ s.status[x] = {"WAIT"} /\ r.status[x] = {"READY"}
        \/ s.status[x] # {"WAIT"} /\ r.status[x] = s.status[x] \ {"WAIT"}
    BY <1>10, <1>12
  <2>3. r.status[x] # {} /\ "DORMANT" \notin r.status[x]
    BY <1>12, <2>1, <2>2 DEF Exists, Has, LegalStatus
  <2> QED
    BY <2>1, <2>3 DEF Exists, Has
<1>13. t # s.cur => r.cur = s.cur /\ (Runnable(s) => Runnable(r))
  <2>1. r.cur = s.cur
    BY <1>2, <1>5, <1>7
  <2>2. ASSUME t # s.cur, Runnable(s) PROVE Runnable(r)
    <3>1. s.cur \in AllThreads /\ s.cur # t
      BY <2>2, SchedTypes DEF Consistent, QueueOK, Runnable
    <3>2. CASE s.cur = Idle
      BY <1>8, <2>1, <2>2, <3>2 DEF Consistent, IdleCanRun, Runnable
    <3>3. CASE s.cur # Idle
      <4>1. s.cur \in Threads
        BY <3>1, <3>3 DEF AllThreads
      <4>2. \/ r.status[s.cur] = s.status[s.cur]
            \/ s.status[s.cur] = {"WAIT"}
            \/ r.status[s.cur] = s.status[s.cur] \ {"WAIT"}
        BY <1>10, <3>1, <4>1
      <4> QED
        BY <2>1, <2>2, <4>2 DEF Runnable
    <3> QED
      BY <3>2, <3>3
  <2> QED
    BY <2>1, <2>2 DEF cur
<1>14. EndedFrom(s, r, t)
  BY <1>2, <1>5, <1>7, <1>8, <1>11, <1>12, <1>13 DEF EndedFrom
<1>15. StoppedFrom(s, t) = r
  BY DEF StoppedFrom, a, b, r
<1> QED
  BY <1>2, <1>5, <1>7, <1>9, <1>14, <1>15

\* sceKernelTerminateThread() gives it its initial priority back, too.
LEMMA TerminatedFromFacts ==
    ASSUME NEW s, Consistent(s), NEW t \in Threads, Registered(s, t),
           endWaiters[t] \in Seq(Threads), IsInjective(endWaiters[t])
    PROVE  EndedFrom(s, [StoppedFrom(s, t) EXCEPT !.prio[t] = InitialPriority[t]], t)
<1> DEFINE b == StoppedFrom(s, t)
           r == [b EXCEPT !.prio[t] = InitialPriority[t]]
<1>1. /\ EndedFrom(s, b, t) /\ b.status[t] = {"DORMANT"}
  BY StoppedFromFacts
<1>2. /\ QueueOK(b) /\ b \in SchedType /\ t \in AllThreads /\ Idle # t /\ Idle \in AllThreads
      /\ b.prio \in [AllThreads -> AllPriorities]
  BY <1>1, SchedTypes, SchedulerAssumption DEF EndedFrom, Consistent, QueueOK, AllThreads
<1>3. InitialPriority[t] \in AllPriorities
  BY ThreadAssumption DEF AllPriorities
<1> HIDE DEF b
<1>4. /\ r \in SchedType /\ r.status = b.status /\ r.queue = b.queue
      /\ r.prio = [b.prio EXCEPT ![t] = InitialPriority[t]]
      /\ r.cur = b.cur /\ r.wait = b.wait
  BY <1>2, <1>3 DEF SchedType
<1> HIDE DEF r
<1>5. \A x \in AllThreads : x # t => r.prio[x] = b.prio[x]
  BY <1>2, <1>4
<1>6. \A x \in AllThreads : Has(b, x, "READY") => r.prio[x] = b.prio[x]
  BY <1>1, <1>5 DEF Has
<1>7. QueueOK(r)
  BY <1>2, <1>4, <1>6, SameReady DEF QueueOK, Has
<1>8. Consistent(r)
  BY <1>1, <1>2, <1>4, <1>5, <1>7
  DEF EndedFrom, Consistent, RunningIsCurrent, IdleCanRun, Has
<1>9. EndedFrom(s, r, t)
  BY <1>1, <1>4, <1>8 DEF EndedFrom, Has, Exists, Runnable
<1> QED
  BY <1>9 DEF r, b

\* __KernelDeleteThread()
LEMMA DeletedFromFacts ==
    ASSUME NEW s, Consistent(s), NEW t \in Threads, Registered(s, t),
           endWaiters[t] \in Seq(Threads), IsInjective(endWaiters[t])
    PROVE  EndedFrom(s, Deleted(StoppedFrom(s, t), t), t)
<1> DEFINE b == StoppedFrom(s, t)
           u == [b EXCEPT !.queue[b.prio[t]] = RemoveFirst(@, t)]
           next == IF b.cur = t THEN NoThread ELSE b.cur
           r == [u EXCEPT !.status[t] = {}, !.cur = next]
<1>1. EndedFrom(s, b, t) /\ b.status[t] = {"DORMANT"} /\ b.cur = s.cur
  BY StoppedFromFacts
<1>2. /\ QueueOK(b) /\ b \in SchedType /\ t \in AllThreads /\ Idle # t /\ Idle \in AllThreads
      /\ b.cur \in AllThreads \union {NoThread}
  BY <1>1, SchedTypes, SchedulerAssumption DEF EndedFrom, Consistent, QueueOK, AllThreads
<1>3. Deleted(StoppedFrom(s, t), t) = [u EXCEPT !.status[t] = {}, !.cur = IF @ = t THEN NoThread ELSE @]
  BY DEF Deleted
<1> HIDE DEF b
<1>4. /\ u \in SchedType
      /\ u.status = b.status /\ u.prio = b.prio /\ u.cur = b.cur /\ u.wait = b.wait
      /\ \A p \in AllPriorities :
            /\ IsInjective(u.queue[p])
            /\ \A x \in AllThreads :
                  Contains(u.queue[p], x) <=> Contains(b.queue[p], x) /\ x # t
  BY <1>2, RemovedFacts
<1> HIDE DEF u
<1>5. Deleted(StoppedFrom(s, t), t) = r
  BY <1>3, <1>4
<1>6. /\ r \in SchedType /\ r.status = [b.status EXCEPT ![t] = {}] /\ r.queue = u.queue
      /\ r.prio = b.prio /\ r.cur = next /\ r.wait = b.wait
  BY <1>2, <1>4 DEF SchedType
<1> HIDE DEF r
<1>7. \A x \in AllThreads : r.status[x] = IF x = t THEN {} ELSE b.status[x]
  BY <1>2, <1>6, SchedTypes
<1>8. QueueOK(r)
  <2>1. \A x \in AllThreads : r.status[x] \in LegalStatus
    BY <1>2, <1>7 DEF QueueOK, LegalStatus
  <2>2. ReadyQueued(r)
    BY <1>2, <1>4, <1>6, <1>7 DEF QueueOK, ReadyQueued, Has
  <2> QED
    BY <1>6, <2>1, <2>2 DEF QueueOK
<1>9. Consistent(r)
  <2>1. RunningIsCurrent(r)
    BY <1>1, <1>6, <1>7 DEF EndedFrom, Consistent, RunningIsCurrent, Has
  <2>2. IdleCanRun(r)
    BY <1>1, <1>2, <1>6, <1>7 DEF EndedFrom, Consistent, IdleCanRun
  <2> QED
    BY <1>8, <2>1, <2>2 DEF Consistent
<1>10. \A x \in Threads : x \in AllThreads
  BY DEF AllThreads
<1>11. t # s.cur => r.cur = s.cur /\ (Runnable(s) => Runnable(r))
  BY <1>1, <1>2, <1>6, <1>7 DEF EndedFrom, Runnable
<1>12. EndedFrom(s, r, t)
  <2> SUFFICES ASSUME NEW x \in Threads
               PROVE  /\ Has(r, x, "WAIT") =>
                           /\ Has(s, x, "WAIT") /\ r.wait[x] = s.wait[x] /\ x # t
                           /\ s.wait[x] # [type |-> "THREADEND", id |-> t]
                      /\ x # t /\ Exists(s, x) /\ ~Has(s, x, "DORMANT") =>
                           Exists(r, x) /\ ~Has(r, x, "DORMANT")
    BY <1>1, <1>6, <1>9, <1>11 DEF EndedFrom
  <2>1. CASE x = t
    BY <1>7, <1>10, <2>1 DEF Has
  <2>2. CASE x # t
    BY <1>1, <1>6, <1>7, <1>10, <2>2 DEF EndedFrom, Has, Exists
  <2> QED
    BY <2>1, <2>2
<1> QED
  BY <1>5, <1>12

\* The three ways to end a thread when the listeners of its end change nothing else.
LEMMA EndsFacts ==
    ASSUME Consistent(sched), EndWaitersRegistered, NEW t \in Threads,
           endWaiters[t] \in Seq(Threads), IsInjective(endWaiters[t])
    PROVE  /\ Ended(StoppedSched(t), t)
           /\ Ended([StoppedSched(t) EXCEPT !.prio[t] = InitialPriority[t]], t)
           /\ Ended(DeletedSched(t), t)
<1>1. Registered(sched, t)
  BY DEF Registered, EndWaitersRegistered
<1> QED
  BY <1>1, StoppedFromFacts, TerminatedFromFacts, DeletedFromFacts
  DEF Ended, StoppedSched, DeletedSched
-----------------------------------------------------------------------------
(* The inductive invariant *)

\* The part about the threads.  It is inductive because a wait starts only with
\* its timer or registration, and the end of a thread releases all its waiters.
ThreadInv ==
    /\ Consistent(sched)
    /\ wakeupCount \in [Threads -> 0 .. MaxWakeups]
    /\ endWaiters \in [Threads -> Seq(Threads)]
    /\ \A t \in Threads : IsInjective(endWaiters[t])
    /\ timers \in [TimerKinds -> [Threads -> 0 .. MaxEvents]]
    /\ EndWaitersRegistered
    /\ DelayedHasTimer
    /\ NoSleepWithWakeup

\* The part about who executes.  What the CPU executes can run, except while a
\* reschedule is under way that is going to take place; and a thread that
\* suspended the dispatch either executes or is where the handler returns to.
CpuInv ==
    /\ dispatch \in BOOLEAN /\ intrEnabled \in BOOLEAN /\ inIntr \in BOOLEAN
    /\ suspender \in Threads \union {NoThread}
    /\ pending \in 0 .. MaxPending
    /\ before \in AllThreads \union {NoThread}
    /\ phase \in {"run", "resched"}
    /\ inIntr => cur = Idle /\ pending > 0
    /\ PendingIsServed
    /\ ~dispatch => cur = suspender \/ (cur = Idle /\ before = suspender)
    /\ Runnable(sched) \/ (phase = "resched" /\ DispatchEnabled)

Inv == ThreadInv /\ CpuInv

\* The invariant holds of the state that __KernelThreadingInit() and
\* __KernelSetupRootThread() leave behind.
LEMMA InitInv == Init => Inv
<1> SUFFICES ASSUME Init PROVE Inv
  OBVIOUS
<1> DEFINE status == [t \in AllThreads |-> IF t = Root THEN {"RUNNING"}
                                           ELSE IF t = Idle THEN {"READY"} ELSE {}]
           prio == [t \in AllThreads |-> IF t = Idle THEN IdlePriority ELSE InitialPriority[t]]
           queue == [p \in AllPriorities |-> IF p = IdlePriority THEN <<Idle>> ELSE <<>>]
           wait == [t \in AllThreads |-> NoWait]
<1>1. /\ Root \in Threads /\ Root \in AllThreads /\ Idle \in AllThreads /\ Root # Idle
      /\ Root # NoThread /\ IdlePriority \in AllPriorities
      /\ \A p \in Priorities : p \in AllPriorities /\ p # IdlePriority
  BY SchedulerAssumption, ThreadAssumption DEF AllThreads, AllPriorities
<1>2. /\ status \in [AllThreads -> SUBSET StatusBits]
      /\ prio \in [AllThreads -> AllPriorities]
      /\ queue \in [AllPriorities -> Seq(AllThreads)]
      /\ wait \in [AllThreads -> Waits]
  <2>1. NoWait \in Waits
    BY DEF NoWait, Waits, WaitTypes
  <2>2. prio \in [AllThreads -> AllPriorities]
    BY <1>1, ThreadAssumption DEF AllThreads
  <2> QED
    BY <1>1, <2>1, <2>2 DEF StatusBits
<1> HIDE DEF status, prio, queue, wait
<1>3. sched = [status |-> status, prio |-> prio, queue |-> queue, cur |-> Root, wait |-> wait]
  BY DEF Init, status, prio, queue, wait
<1>4. /\ sched \in SchedType /\ sched.status = status /\ sched.prio = prio
      /\ sched.queue = queue /\ sched.cur = Root /\ sched.wait = wait
  BY <1>1, <1>2, <1>3 DEF SchedType
<1>5. \A t \in AllThreads : /\ status[t] = IF t = Root THEN {"RUNNING"}
                                           ELSE IF t = Idle THEN {"READY"} ELSE {}
                            /\ prio[t] = IF t = Idle THEN IdlePriority ELSE InitialPriority[t]
  BY DEF status, prio
<1>6. ReadyQueued(sched)
  <2>1. \A p \in AllPriorities :
           /\ IsInjective(queue[p])
           /\ \A t \in AllThreads : Contains(queue[p], t) <=> t = Idle /\ p = IdlePriority
    BY DEF queue, IsInjective, Contains
  <2>2. \A t \in AllThreads : Has(sched, t, "READY") <=> t = Idle
    BY <1>1, <1>4, <1>5 DEF Has
  <2>3. sched.prio[Idle] = IdlePriority
    BY <1>1, <1>4, <1>5
  <2> QED
    BY <1>4, <2>1, <2>2, <2>3 DEF ReadyQueued
<1>7. Consistent(sched)
  <2>1. QueueOK(sched)
    BY <1>4, <1>5, <1>6 DEF QueueOK, LegalStatus
  <2>2. RunningIsCurrent(sched)
    BY <1>4, <1>5 DEF RunningIsCurrent, Has
  <2>3. IdleCanRun(sched)
    BY <1>1, <1>4, <1>5 DEF IdleCanRun
  <2> QED
    BY <2>1, <2>2, <2>3 DEF Consistent
<1>8. \A t \in Threads : ~Has(sched, t, "WAIT")
  BY <1>4, <1>5 DEF Has, AllThreads
<1>9. ThreadInv
  <2>1. EndWaitersRegistered /\ DelayedHasTimer /\ NoSleepWithWakeup
    BY <1>8 DEF EndWaitersRegistered, DelayedHasTimer, NoSleepWithWakeup, IsWaitingFor
  <2>2. \A t \in Threads : endWaiters[t] = <<>>
    BY DEF Init
  <2>3. \A t \in Threads : IsInjective(endWaiters[t])
    BY <2>2 DEF IsInjective
  <2> QED
    BY <1>7, <2>1, <2>3, ThreadAssumption DEF ThreadInv, Init
<1>10. Runnable(sched)
  BY <1>1, <1>4, <1>5 DEF Runnable
<1>11. /\ dispatch \in BOOLEAN /\ intrEnabled \in BOOLEAN /\ inIntr \in BOOLEAN
       /\ dispatch /\ ~inIntr
  BY DEF Init
<1>12. /\ suspender \in Threads \union {NoThread} /\ before \in AllThreads \union {NoThread}
       /\ pending \in 0 .. MaxPending /\ pending = 0 /\ phase \in {"run", "resched"}
  BY ThreadAssumption DEF Init
<1>13. CpuInv
  BY <1>10, <1>11, <1>12 DEF CpuInv, PendingIsServed
<1> QED
  BY <1>9, <1>13 DEF Inv

\* A change that neither starts a wait nor ends a thread keeps the first part.
LEMMA KeepsThreadInv ==
    ASSUME ThreadInv, Consistent(sched'), KeepsWaits(sched, sched'),
           UNCHANGED <<wakeupCount, endWaiters, timers>>
    PROVE  ThreadInv'
<1>1. ASSUME NEW w \in Threads, NEW type, NEW id, IsWaitingFor(sched, w, type, id)'
      PROVE  IsWaitingFor(sched, w, type, id)
  <2>1. w \in AllThreads
    BY DEF AllThreads
  <2> QED
    BY <1>1, <2>1 DEF IsWaitingFor, VerifyWait, KeepsWaits, Exists, Has
<1>2. EndWaitersRegistered'
  BY <1>1 DEF ThreadInv, EndWaitersRegistered, KeepsWaits
<1>3. DelayedHasTimer'
  BY <1>1 DEF ThreadInv, DelayedHasTimer
<1>4. NoSleepWithWakeup'
  BY <1>1 DEF ThreadInv, NoSleepWithWakeup
<1> QED
  BY <1>2, <1>3, <1>4 DEF ThreadInv

\* One that leaves the CPU to whom it was executing keeps the second.
LEMMA KeepsCpuInv ==
    ASSUME CpuInv, cur' = cur, Runnable(sched) => Runnable(sched'), phase' \in {phase, "resched"},
           UNCHANGED <<dispatch, suspender, intrVars>>
    PROVE  CpuInv'
BY DEF CpuInv, PendingIsServed, DispatchEnabled, intrVars

\* So a quiet change keeps both.
LEMMA QuietStep ==
    ASSUME Inv, Quiet(sched, sched'), phase' \in {phase, "resched"},
           UNCHANGED <<wakeupCount, endWaiters, timers, dispatch, suspender, intrVars>>
    PROVE  Inv'
BY KeepsThreadInv, KeepsCpuInv DEF Inv, Quiet, cur, ThreadInv
-----------------------------------------------------------------------------
(* Every action keeps the invariant.  First the quiet ones. *)

\* Who makes a system call can execute.
LEMMA CallerRuns ==
    ASSUME Inv, SomeoneRuns
    PROVE  Runnable(sched) /\ cur \in AllThreads
BY SchedTypes DEF Inv, CpuInv, ThreadInv, Consistent, QueueOK, SomeoneRuns, ThreadRuns, HandlerRuns,
                  Runnable, cur

\* sceKernelCreateThread() enables the dispatch again.
LEMMA CreateThreadInv ==
    ASSUME Inv, NEW t \in Threads, CreateThread(t)
    PROVE  Inv'
<1>1. Quiet(sched, sched') /\ ~Exists(sched, t) /\ ThreadRuns
  BY CreatedQuiet DEF CreateThread, Inv, ThreadInv
<1>2. ASSUME NEW w \in Threads, NEW type, NEW id, IsWaitingFor(sched, w, type, id)'
      PROVE  IsWaitingFor(sched, w, type, id) /\ w # t /\ ~(type = "THREADEND" /\ id = t)
  <2>1. w \in AllThreads
    BY DEF AllThreads
  <2>2. IsWaitingFor(sched, w, type, id)
    BY <1>1, <1>2, <2>1 DEF IsWaitingFor, VerifyWait, Quiet, KeepsWaits, Exists, Has
  <2> QED
    BY <1>1, <2>2 DEF Inv, ThreadInv, EndWaitersRegistered, IsWaitingFor, VerifyWait
<1>3. /\ wakeupCount' = [wakeupCount EXCEPT ![t] = 0]
      /\ endWaiters' = [endWaiters EXCEPT ![t] = <<>>]
      /\ timers' = timers
  BY DEF CreateThread
<1>4. ThreadInv'
  <2>1. EndWaitersRegistered'
    BY <1>1, <1>2, <1>3 DEF Inv, ThreadInv, EndWaitersRegistered, Quiet, KeepsWaits
  <2>2. DelayedHasTimer'
    BY <1>2, <1>3 DEF Inv, ThreadInv, DelayedHasTimer
  <2>3. NoSleepWithWakeup'
    BY <1>2, <1>3 DEF Inv, ThreadInv, NoSleepWithWakeup
  <2>4. /\ wakeupCount' \in [Threads -> 0 .. MaxWakeups] /\ endWaiters' \in [Threads -> Seq(Threads)]
        /\ \A x \in Threads : IsInjective(endWaiters[x])'
    BY <1>3, ThreadAssumption DEF Inv, ThreadInv, IsInjective
  <2> QED
    BY <1>1, <1>3, <2>1, <2>2, <2>3, <2>4 DEF Inv, ThreadInv, Quiet
<1>5. CpuInv'
  <2>1. Runnable(sched') /\ cur' = cur
    BY <1>1, CallerRuns DEF Quiet, SomeoneRuns, cur
  <2>2. /\ dispatch' = TRUE /\ suspender' = NoThread /\ phase' = "resched"
        /\ UNCHANGED <<intrEnabled, inIntr, pending, before>>
    BY DEF CreateThread, intrVars
  <2> QED
    BY <2>1, <2>2 DEF Inv, CpuInv, PendingIsServed
<1> QED
  BY <1>4, <1>5 DEF Inv

\* So does sceKernelStartThread().
LEMMA StartThreadInv ==
    ASSUME Inv, NEW t \in Threads, StartThread(t)
    PROVE  Inv'
<1>1. ThreadRuns /\ Quiet(sched, sched')
  BY StartedQuiet DEF StartThread, Inv, ThreadInv, ThreadRuns
<1>2. ThreadInv'
  BY <1>1, KeepsThreadInv DEF StartThread, Inv, Quiet
<1>3. Runnable(sched') /\ cur' = cur
  BY <1>1, CallerRuns DEF Quiet, SomeoneRuns, cur
<1>4. /\ dispatch' = TRUE /\ suspender' = NoThread /\ phase' \in {"run", "resched"}
      /\ UNCHANGED <<intrEnabled, inIntr, pending, before>>
  BY DEF StartThread, intrVars
<1>5. CpuInv'
  BY <1>3, <1>4 DEF Inv, CpuInv, PendingIsServed
<1> QED
  BY <1>2, <1>5 DEF Inv

\* sceKernelRotateThreadReadyQueue(), called by a thread marked as running.
LEMMA RotateThreadReadyQueueInv ==
    ASSUME Inv, Misuse = {}, NEW p \in Priorities, RotateThreadReadyQueue(p)
    PROVE  Inv'
BY CallerRuns, RotatedQuiet, QuietStep DEF RotateThreadReadyQueue, Inv, ThreadInv

\* The idle thread keeps its priority unless a handler asks for the change.
LEMMA ChangeThreadPriorityInv ==
    ASSUME Inv, Misuse = {}, NEW t \in AllThreads, NEW p \in Priorities, ChangeThreadPriority(t, p)
    PROVE  Inv'
BY ChangedPriorityQuiet, QuietStep DEF ChangeThreadPriority, Inv, ThreadInv

\* sceKernelSuspendThread()
LEMMA SuspendThreadInv ==
    ASSUME Inv, NEW t \in Threads, SuspendThread(t)
    PROVE  Inv'
BY SuspendedQuiet, QuietStep DEF SuspendThread, Inv, ThreadInv

\* sceKernelResumeThread()
LEMMA ResumeThreadInv ==
    ASSUME Inv, NEW t \in Threads, ResumeThread(t)
    PROVE  Inv'
BY ResumedQuiet, QuietStep DEF ResumeThread, Inv, ThreadInv

\* sceKernelReleaseWaitThread()
LEMMA ReleaseWaitThreadInv ==
    ASSUME Inv, NEW t \in Threads, ReleaseWaitThread(t)
    PROVE  Inv'
<1>1. t \in AllThreads
  BY DEF AllThreads
<1> QED
  BY <1>1, ResumeFromWaitQuiet, QuietStep DEF ReleaseWaitThread, Inv, ThreadInv

\* The code of the idle thread.
LEMMA KernelIdleInv ==
    ASSUME Inv, KernelIdle
    PROVE  Inv'
BY QuietSelf, QuietStep DEF KernelIdle, Inv, ThreadInv

\* sceKernelDelayThread(0)
LEMMA DelayThreadZeroInv ==
    ASSUME Inv, DelayThreadZero
    PROVE  Inv'
BY QuietSelf, QuietStep DEF DelayThreadZero, Inv, ThreadInv

\* Nobody starts to wait for anything in a quiet change.
LEMMA QuietWaits ==
    ASSUME Quiet(sched, sched'), NEW w \in Threads, NEW type, NEW id,
           IsWaitingFor(sched, w, type, id)'
    PROVE  IsWaitingFor(sched, w, type, id)
<1>1. w \in AllThreads
  BY DEF AllThreads
<1> QED
  BY <1>1 DEF IsWaitingFor, VerifyWait, Quiet, KeepsWaits, Exists, Has

\* After the end of its wait a thread does not wait.
LEMMA ResumedNotWaiting ==
    ASSUME Consistent(sched), NEW t \in Threads
    PROVE  ~Has(ResumeFromWait(sched, t), t, "WAIT")
<1> DEFINE r == ResumeFromWait(sched, t)
           bits == sched.status[t] \ {"WAIT"}
<1>1. t \in AllThreads /\ sched.status \in [AllThreads -> SUBSET StatusBits] /\ QueueOK(sched)
  BY SchedTypes DEF AllThreads, Consistent, QueueOK
<1>2. r.status = [sched.status EXCEPT ![t] =
                     IF bits \intersect {"SUSPEND", "DORMANT"} = {} THEN {"READY"} ELSE bits]
  BY <1>1, ResumeFromWaitFacts
<1> HIDE DEF r
<1>3. r.status[t] = IF bits \intersect {"SUSPEND", "DORMANT"} = {} THEN {"READY"} ELSE bits
  BY <1>1, <1>2
<1>4. "WAIT" \notin r.status[t]
  BY <1>3
<1> QED
  BY <1>4 DEF Has, r

\* The wake-up event of a delay: whoever still waits for a delay has another one.
LEMMA ScheduledWakeupInv ==
    ASSUME Inv, NEW t \in Threads, ScheduledWakeup(t)
    PROVE  Inv'
<1>1. t \in AllThreads /\ Consistent(sched)
  BY DEF AllThreads, Inv, ThreadInv
<1>2. /\ timers' = [timers EXCEPT !["wakeup"][t] = @ - 1] /\ timers["wakeup"][t] > 0
      /\ UNCHANGED <<wakeupCount, endWaiters, dispatch, suspender, intrVars>>
      /\ phase' \in {phase, "resched"}
  BY DEF ScheduledWakeup
<1>3. Quiet(sched, sched')
  BY <1>1, ResumeFromWaitQuiet, QuietSelf DEF ScheduledWakeup
<1>4. ~IsWaitingFor(sched', t, "DELAY", t)
  <2>1. CASE VerifyWait(sched, t, "DELAY", t)
    BY <1>1, <2>1, ResumedNotWaiting DEF ScheduledWakeup, IsWaitingFor
  <2>2. CASE ~VerifyWait(sched, t, "DELAY", t)
    BY <2>2 DEF ScheduledWakeup, IsWaitingFor
  <2> QED
    BY <2>1, <2>2
<1>5. timers' \in [TimerKinds -> [Threads -> 0 .. MaxEvents]]
  <2>1. "wakeup" \in TimerKinds /\ timers["wakeup"] \in [Threads -> 0 .. MaxEvents]
    BY DEF TimerKinds, Inv, ThreadInv
  <2>2. timers["wakeup"][t] - 1 \in 0 .. MaxEvents
    BY <1>2, <2>1, ThreadAssumption
  <2> QED
    BY <1>2, <2>1, <2>2 DEF Inv, ThreadInv
<1>6. DelayedHasTimer'
  <2> SUFFICES ASSUME NEW x \in Threads, IsWaitingFor(sched, x, "DELAY", x)'
               PROVE  timers'["wakeup"][x] > 0
    BY DEF DelayedHasTimer
  <2>1. x # t /\ timers["wakeup"][x] > 0
    BY <1>3, <1>4, QuietWaits DEF Inv, ThreadInv, DelayedHasTimer, IsWaitingFor, VerifyWait, Has, Exists
  <2>2. timers'["wakeup"][x] = timers["wakeup"][x]
    BY <1>2, <2>1 DEF Inv, ThreadInv, TimerKinds
  <2> QED
    BY <2>1, <2>2
<1>7. EndWaitersRegistered'
  BY <1>2, <1>3, QuietWaits DEF Inv, ThreadInv, EndWaitersRegistered, Quiet, KeepsWaits
<1>8. NoSleepWithWakeup'
  BY <1>2, <1>3, QuietWaits DEF Inv, ThreadInv, NoSleepWithWakeup
<1>9. ThreadInv'
  BY <1>2, <1>3, <1>5, <1>6, <1>7, <1>8 DEF Inv, ThreadInv, Quiet
<1> QED
  BY <1>2, <1>3, <1>9, KeepsCpuInv DEF Inv, Quiet, cur

\* The timeout of sceKernelWaitThreadEnd(), even one left over from an earlier wait.
LEMMA ThreadEndTimeoutInv ==
    ASSUME Inv, NEW t \in Threads, ThreadEndTimeout(t)
    PROVE  Inv'
<1>1. t \in AllThreads /\ Consistent(sched)
  BY DEF AllThreads, Inv, ThreadInv
<1>2. /\ timers' = [timers EXCEPT !["endTimeout"][t] = @ - 1] /\ timers["endTimeout"][t] > 0
      /\ UNCHANGED <<wakeupCount, endWaiters, dispatch, suspender, intrVars>>
      /\ phase' \in {phase, "resched"}
  BY DEF ThreadEndTimeout
<1>3. Quiet(sched, sched')
  BY <1>1, ResumeFromWaitQuiet, QuietSelf DEF ThreadEndTimeout
<1>4. /\ timers' \in [TimerKinds -> [Threads -> 0 .. MaxEvents]]
      /\ timers'["wakeup"] = timers["wakeup"]
  <2>1. /\ "endTimeout" \in TimerKinds /\ "wakeup" \in TimerKinds
        /\ timers["endTimeout"] \in [Threads -> 0 .. MaxEvents]
    BY DEF TimerKinds, Inv, ThreadInv
  <2>2. timers["endTimeout"][t] - 1 \in 0 .. MaxEvents
    BY <1>2, <2>1, ThreadAssumption
  <2> QED
    BY <1>2, <2>1, <2>2 DEF Inv, ThreadInv
<1>5. DelayedHasTimer'
  BY <1>3, <1>4, QuietWaits DEF Inv, ThreadInv, DelayedHasTimer
<1>6. EndWaitersRegistered'
  BY <1>2, <1>3, QuietWaits DEF Inv, ThreadInv, EndWaitersRegistered, Quiet, KeepsWaits
<1>7. NoSleepWithWakeup'
  BY <1>2, <1>3, QuietWaits DEF Inv, ThreadInv, NoSleepWithWakeup
<1>8. ThreadInv'
  BY <1>2, <1>3, <1>4, <1>5, <1>6, <1>7 DEF Inv, ThreadInv, Quiet
<1> QED
  BY <1>2, <1>3, <1>8, KeepsCpuInv DEF Inv, Quiet, cur

\* A change of the wake-up counts with a quiet change of the threads.
LEMMA WakeupStep ==
    ASSUME Inv, Quiet(sched, sched'), wakeupCount' \in [Threads -> 0 .. MaxWakeups],
           NoSleepWithWakeup', phase' \in {phase, "resched"},
           UNCHANGED <<endWaiters, timers, dispatch, suspender, intrVars>>
    PROVE  Inv'
<1>1. DelayedHasTimer'
  BY QuietWaits DEF Inv, ThreadInv, DelayedHasTimer
<1>2. EndWaitersRegistered'
  BY QuietWaits DEF Inv, ThreadInv, EndWaitersRegistered, Quiet, KeepsWaits
<1>3. ThreadInv'
  BY <1>1, <1>2 DEF Inv, ThreadInv, Quiet
<1> QED
  BY <1>3, KeepsCpuInv DEF Inv, Quiet, cur

\* sceKernelWakeupThread() counts a wake-up only when the thread does not sleep.
LEMMA WakeupThreadInv ==
    ASSUME Inv, NEW t \in Threads, WakeupThread(t)
    PROVE  Inv'
<1>1. CASE IsWaitingFor(sched, t, "SLEEP", NoThread)
  <2>1. /\ sched' = ResumeFromWait(sched, t) /\ phase' = "resched"
        /\ UNCHANGED <<wakeupCount, endWaiters, timers, dispatch, suspender, intrVars>>
    BY <1>1 DEF WakeupThread
  <2>2. t \in AllThreads
    BY DEF AllThreads
  <2> QED
    BY <2>1, <2>2, ResumeFromWaitQuiet, QuietStep DEF Inv, ThreadInv
<1>2. CASE ~IsWaitingFor(sched, t, "SLEEP", NoThread)
  <2>1. /\ sched' = sched /\ phase' = phase /\ wakeupCount[t] < MaxWakeups
        /\ wakeupCount' = [wakeupCount EXCEPT ![t] = @ + 1]
        /\ UNCHANGED <<endWaiters, timers, dispatch, suspender, intrVars>>
    BY <1>2 DEF WakeupThread
  <2>2. wakeupCount' \in [Threads -> 0 .. MaxWakeups]
    BY <2>1, ThreadAssumption DEF Inv, ThreadInv
  <2>3. NoSleepWithWakeup'
    BY <1>2, <2>1 DEF Inv, ThreadInv, NoSleepWithWakeup
  <2> QED
    BY <2>1, <2>2, <2>3, QuietSelf, WakeupStep DEF Inv, ThreadInv
<1> QED
  BY <1>1, <1>2

\* sceKernelCancelWakeupThread()
LEMMA CancelWakeupThreadInv ==
    ASSUME Inv, NEW t \in Threads, CancelWakeupThread(t)
    PROVE  Inv'
<1>1. /\ sched' = sched /\ phase' = phase
      /\ wakeupCount' = [wakeupCount EXCEPT ![t] = 0]
      /\ UNCHANGED <<endWaiters, timers, dispatch, suspender, intrVars>>
  BY DEF CancelWakeupThread
<1>2. wakeupCount' \in [Threads -> 0 .. MaxWakeups]
  BY <1>1, ThreadAssumption DEF Inv, ThreadInv
<1>3. NoSleepWithWakeup'
  BY <1>1 DEF Inv, ThreadInv, NoSleepWithWakeup
<1> QED
  BY <1>1, <1>2, <1>3, QuietSelf, WakeupStep DEF Inv, ThreadInv
-----------------------------------------------------------------------------
(* The calls that wait *)

\* Only the current thread starts to wait, and only for what it asked for.
LEMMA WaitingFacts ==
    ASSUME Inv, MayWait, NEW type \in WaitTypes, NEW id \in AllThreads \union Objects \union {NoThread},
           sched' = WaitCurThread(sched, type, id)
    PROVE  /\ Consistent(sched') /\ cur' = cur /\ cur \in Threads
           /\ \A x \in AllThreads : x # cur => sched'.status[x] = sched.status[x]
           /\ sched'.status[cur] = {"WAIT"}
           /\ \A w \in Threads : \A what, of : IsWaitingFor(sched, w, what, of)' =>
                 \/ w = cur /\ what = type /\ of = id
                 \/ w # cur /\ IsWaitingFor(sched, w, what, of)
<1>1. /\ cur \in Threads /\ cur \in AllThreads /\ cur = sched.cur /\ Idle # cur
      /\ Consistent(sched) /\ QueueOK(sched) /\ Runnable(sched)
      /\ sched.status \in [AllThreads -> SUBSET StatusBits]
      /\ sched.wait \in [AllThreads -> Waits]
      /\ \A x \in Threads : x \in AllThreads
  <2>1. Consistent(sched) /\ QueueOK(sched) /\ ThreadRuns
    BY DEF Inv, ThreadInv, Consistent, MayWait
  <2> QED
    BY <2>1, SchedTypes, SchedulerAssumption, CallerRuns
    DEF QueueOK, AllThreads, ThreadRuns, SomeoneRuns, cur
<1>2. /\ QueueOK(sched')
      /\ sched'.status = [sched.status EXCEPT ![sched.cur] = {"WAIT"} \union (@ \intersect {"SUSPEND"})]
      /\ sched'.wait = [sched.wait EXCEPT ![sched.cur] = [type |-> type, id |-> id]]
      /\ sched'.prio = sched.prio /\ sched'.cur = sched.cur
  BY <1>1, WaitCurThreadFacts
<1>3. sched.status[cur] \intersect {"SUSPEND"} = {}
  BY <1>1 DEF Runnable
<1>4. /\ sched'.status[cur] = {"WAIT"}
      /\ sched'.wait[cur] = [type |-> type, id |-> id]
      /\ \A x \in AllThreads : x # cur =>
            sched'.status[x] = sched.status[x] /\ sched'.wait[x] = sched.wait[x]
  <2>1. {"WAIT"} \union (sched.status[cur] \intersect {"SUSPEND"}) = {"WAIT"}
    BY <1>3
  <2> QED
    BY <1>1, <1>2, <2>1
<1>5. Consistent(sched')
  <2>1. RunningIsCurrent(sched')
    BY <1>1, <1>2, <1>4 DEF Consistent, RunningIsCurrent, Has
  <2>2. IdleCanRun(sched')
    BY <1>1, <1>2, <1>4 DEF Consistent, IdleCanRun, AllThreads
  <2> QED
    BY <1>2, <2>1, <2>2 DEF Consistent
<1>6. ASSUME NEW w \in Threads, NEW what, NEW of, IsWaitingFor(sched, w, what, of)'
      PROVE  \/ w = cur /\ what = type /\ of = id
             \/ w # cur /\ IsWaitingFor(sched, w, what, of)
  <2>1. sched'.wait[w] = [type |-> what, id |-> of] /\ Has(sched', w, "WAIT")
    BY <1>6 DEF IsWaitingFor, VerifyWait, Has
  <2>2. CASE w = cur
    BY <1>4, <2>1, <2>2
  <2>3. CASE w # cur
    BY <1>1, <1>4, <2>1, <2>3 DEF IsWaitingFor, VerifyWait, Has, Exists
  <2> QED
    BY <2>2, <2>3
<1> QED
  BY <1>1, <1>2, <1>4, <1>5, <1>6 DEF cur

\* What a wait keeps of the second part: the reschedule is going to take place.
LEMMA WaitKeepsCpuInv ==
    ASSUME Inv, MayWait, cur' = cur, phase' = "resched", UNCHANGED <<dispatch, suspender, intrVars>>
    PROVE  CpuInv'
BY DEF Inv, CpuInv, MayWait, DispatchEnabled, PendingIsServed, intrVars

\* sceKernelDelayThread()
LEMMA DelayThreadInv ==
    ASSUME Inv, DelayThread
    PROVE  Inv'
<1>1. /\ MayWait /\ sched' = WaitCurThread(sched, "DELAY", cur) /\ phase' = "resched"
      /\ timers["wakeup"][cur] < MaxEvents
      /\ timers' = [timers EXCEPT !["wakeup"][cur] = @ + 1]
      /\ UNCHANGED <<wakeupCount, endWaiters, dispatch, suspender, intrVars>>
  BY DEF DelayThread
<1>2. "DELAY" \in WaitTypes /\ cur \in AllThreads /\ "wakeup" \in TimerKinds
  BY <1>1 DEF WaitTypes, TimerKinds, AllThreads, MayWait, ThreadRuns
<1>3. /\ Consistent(sched') /\ cur' = cur /\ cur \in Threads
      /\ \A x \in AllThreads : x # cur => sched'.status[x] = sched.status[x]
      /\ sched'.status[cur] = {"WAIT"}
      /\ \A w \in Threads : \A what, of : IsWaitingFor(sched, w, what, of)' =>
            \/ w = cur /\ what = "DELAY" /\ of = cur
            \/ w # cur /\ IsWaitingFor(sched, w, what, of)
  BY <1>1, <1>2, WaitingFacts
<1>4. /\ timers' \in [TimerKinds -> [Threads -> 0 .. MaxEvents]]
      /\ timers'["wakeup"][cur] > 0
      /\ \A x \in Threads : x # cur => timers'["wakeup"][x] = timers["wakeup"][x]
  <2>1. timers["wakeup"] \in [Threads -> 0 .. MaxEvents]
    BY <1>2 DEF Inv, ThreadInv
  <2>2. timers["wakeup"][cur] + 1 \in 0 .. MaxEvents /\ timers["wakeup"][cur] + 1 > 0
    BY <1>1, <1>3, <2>1, ThreadAssumption
  <2> QED
    BY <1>1, <1>2, <1>3, <2>1, <2>2 DEF Inv, ThreadInv
<1>5. DelayedHasTimer'
  BY <1>3, <1>4 DEF Inv, ThreadInv, DelayedHasTimer
<1>6. EndWaitersRegistered'
  <2> SUFFICES ASSUME NEW t \in Threads, NEW w \in Threads, IsWaitingFor(sched, w, "THREADEND", t)'
               PROVE  /\ Exists(sched', t) /\ ~Has(sched', t, "DORMANT")
                      /\ Contains(endWaiters'[t], w)
    BY DEF EndWaitersRegistered
  <2>1. IsWaitingFor(sched, w, "THREADEND", t)
    BY <1>3
  <2>2. Exists(sched, t) /\ ~Has(sched, t, "DORMANT") /\ Contains(endWaiters[t], w)
    BY <2>1 DEF Inv, ThreadInv, EndWaitersRegistered
  <2> QED
    BY <1>1, <1>3, <2>2 DEF Exists, Has
<1>7. NoSleepWithWakeup'
  BY <1>1, <1>3 DEF Inv, ThreadInv, NoSleepWithWakeup
<1>8. ThreadInv'
  BY <1>1, <1>3, <1>4, <1>5, <1>6, <1>7 DEF Inv, ThreadInv
<1> QED
  BY <1>1, <1>3, <1>8, WaitKeepsCpuInv DEF Inv

\* sceKernelSleepThread() waits only when no wake-up is counted.
LEMMA SleepThreadInv ==
    ASSUME Inv, SleepThread
    PROVE  Inv'
<1>1. cur \in Threads /\ MayWait /\ UNCHANGED <<endWaiters, timers, dispatch, suspender, intrVars>>
  BY DEF SleepThread, MayWait, ThreadRuns
<1>2. CASE wakeupCount[cur] > 0
  <2>1. /\ wakeupCount' = [wakeupCount EXCEPT ![cur] = @ - 1]
        /\ sched' = sched /\ phase' = phase
    BY <1>2 DEF SleepThread
  <2>2. wakeupCount' \in [Threads -> 0 .. MaxWakeups]
    BY <1>1, <1>2, <2>1, ThreadAssumption DEF Inv, ThreadInv
  <2>3. NoSleepWithWakeup'
    BY <1>1, <1>2, <2>1 DEF Inv, ThreadInv, NoSleepWithWakeup
  <2> QED
    BY <1>1, <2>1, <2>2, <2>3, QuietSelf, WakeupStep DEF Inv, ThreadInv
<1>3. CASE ~(wakeupCount[cur] > 0)
  <2>1. /\ sched' = WaitCurThread(sched, "SLEEP", NoThread) /\ phase' = "resched"
        /\ wakeupCount' = wakeupCount
    BY <1>3 DEF SleepThread
  <2>2. wakeupCount[cur] = 0
    BY <1>1, <1>3, ThreadAssumption DEF Inv, ThreadInv
  <2>3. /\ Consistent(sched') /\ cur' = cur
        /\ \A x \in AllThreads : x # cur => sched'.status[x] = sched.status[x]
        /\ sched'.status[cur] = {"WAIT"}
        /\ \A w \in Threads : \A what, of : IsWaitingFor(sched, w, what, of)' =>
              \/ w = cur /\ what = "SLEEP" /\ of = NoThread
              \/ w # cur /\ IsWaitingFor(sched, w, what, of)
    <3>1. "SLEEP" \in WaitTypes
      BY DEF WaitTypes
    <3> QED
      BY <1>1, <2>1, <3>1, WaitingFacts
  <2>4. NoSleepWithWakeup'
    BY <2>1, <2>2, <2>3 DEF Inv, ThreadInv, NoSleepWithWakeup
  <2>5. DelayedHasTimer'
    BY <1>1, <2>3 DEF Inv, ThreadInv, DelayedHasTimer
  <2>6. EndWaitersRegistered'
    <3> SUFFICES ASSUME NEW t \in Threads, NEW w \in Threads, IsWaitingFor(sched, w, "THREADEND", t)'
                 PROVE  /\ Exists(sched', t) /\ ~Has(sched', t, "DORMANT")
                        /\ Contains(endWaiters'[t], w)
      BY DEF EndWaitersRegistered
    <3>1. IsWaitingFor(sched, w, "THREADEND", t)
      BY <2>3
    <3>2. Exists(sched, t) /\ ~Has(sched, t, "DORMANT") /\ Contains(endWaiters[t], w)
      BY <3>1 DEF Inv, ThreadInv, EndWaitersRegistered
    <3> QED
      BY <1>1, <2>3, <3>2 DEF Exists, Has
  <2>7. ThreadInv'
    BY <1>1, <2>1, <2>3, <2>4, <2>5, <2>6 DEF Inv, ThreadInv
  <2> QED
    BY <1>1, <2>1, <2>3, <2>7, WaitKeepsCpuInv DEF Inv
<1> QED
  BY <1>2, <1>3

\* sceKernelWaitThreadEnd() registers the thread with the one it waits for.
LEMMA WaitThreadEndInv ==
    ASSUME Inv, NEW t \in Threads, NEW timeout \in BOOLEAN, WaitThreadEnd(t, timeout)
    PROVE  Inv'
<1> DEFINE w0 == endWaiters[t]
           w1 == IF Contains(w0, cur) THEN w0 ELSE Append(w0, cur)
<1>1. /\ cur \in Threads /\ cur \in AllThreads /\ MayWait
      /\ t \in Others /\ sched.status[t] # {"DORMANT"}
      /\ endWaiters' = [endWaiters EXCEPT ![t] = w1]
      /\ sched' = WaitCurThread(sched, "THREADEND", t) /\ phase' = "resched"
      /\ UNCHANGED <<wakeupCount, dispatch, suspender, intrVars>>
  BY DEF WaitThreadEnd, MayWait, ThreadRuns, AllThreads
<1>2. t # cur /\ Exists(sched, t) /\ t \in AllThreads
  BY <1>1 DEF Others, Exists
<1>3. ~Has(sched, t, "DORMANT")
  <2>1. sched.status[t] \in LegalStatus
    BY <1>2 DEF Inv, ThreadInv, Consistent, QueueOK
  <2> QED
    BY <1>1, <2>1 DEF LegalStatus, Has
<1>4. /\ Consistent(sched') /\ cur' = cur
      /\ \A x \in AllThreads : x # cur => sched'.status[x] = sched.status[x]
      /\ sched'.status[cur] = {"WAIT"}
      /\ \A w \in Threads : \A what, of : IsWaitingFor(sched, w, what, of)' =>
            \/ w = cur /\ what = "THREADEND" /\ of = t
            \/ w # cur /\ IsWaitingFor(sched, w, what, of)
  <2>1. "THREADEND" \in WaitTypes
    BY DEF WaitTypes
  <2> QED
    BY <1>1, <1>2, <2>1, WaitingFacts
<1>5. w0 \in Seq(Threads) /\ IsInjective(w0)
  BY DEF Inv, ThreadInv
<1>6. /\ w1 \in Seq(Threads) /\ IsInjective(w1)
      /\ \A x : Contains(w1, x) <=> Contains(w0, x) \/ x = cur
  BY <1>1, <1>5, AppendNew
<1> HIDE DEF w0, w1
<1>7. /\ endWaiters' \in [Threads -> Seq(Threads)]
      /\ \A x \in Threads : endWaiters'[x] = IF x = t THEN w1 ELSE endWaiters[x]
  BY <1>1, <1>6 DEF Inv, ThreadInv
<1>8. \A x \in Threads : IsInjective(endWaiters'[x])
  BY <1>6, <1>7 DEF Inv, ThreadInv
<1>9. /\ timers' \in [TimerKinds -> [Threads -> 0 .. MaxEvents]]
      /\ timers'["wakeup"] = timers["wakeup"]
  <2>1. /\ "endTimeout" \in TimerKinds /\ "wakeup" \in TimerKinds
        /\ timers["endTimeout"] \in [Threads -> 0 .. MaxEvents]
    BY DEF TimerKinds, Inv, ThreadInv
  <2>2. CASE timeout
    <3>1. /\ timers["endTimeout"][cur] < MaxEvents
          /\ timers' = [timers EXCEPT !["endTimeout"][cur] = @ + 1]
      BY <2>2 DEF WaitThreadEnd
    <3>2. timers["endTimeout"][cur] + 1 \in 0 .. MaxEvents
      BY <1>1, <2>1, <3>1, ThreadAssumption
    <3> QED
      BY <1>1, <2>1, <3>1, <3>2 DEF Inv, ThreadInv
  <2>3. CASE ~timeout
    BY <2>3 DEF WaitThreadEnd, Inv, ThreadInv
  <2> QED
    BY <2>2, <2>3
<1>10. DelayedHasTimer'
  BY <1>4, <1>9 DEF Inv, ThreadInv, DelayedHasTimer
<1>11. NoSleepWithWakeup'
  BY <1>1, <1>4 DEF Inv, ThreadInv, NoSleepWithWakeup
<1>12. EndWaitersRegistered'
  <2> SUFFICES ASSUME NEW o \in Threads, NEW w \in Threads, IsWaitingFor(sched, w, "THREADEND", o)'
               PROVE  /\ Exists(sched', o) /\ ~Has(sched', o, "DORMANT")
                      /\ Contains(endWaiters'[o], w)
    BY DEF EndWaitersRegistered
  <2>1. \/ w = cur /\ o = t
        \/ IsWaitingFor(sched, w, "THREADEND", o)
    BY <1>4
  <2>2. CASE w = cur /\ o = t
    BY <1>2, <1>3, <1>4, <1>6, <1>7, <2>2 DEF Exists, Has
  <2>3. CASE IsWaitingFor(sched, w, "THREADEND", o)
    <3>1. Exists(sched, o) /\ ~Has(sched, o, "DORMANT") /\ Contains(endWaiters[o], w)
      BY <2>3 DEF Inv, ThreadInv, EndWaitersRegistered
    <3>2. Contains(endWaiters'[o], w)
      BY <1>6, <1>7, <3>1 DEF w0
    <3> QED
      BY <1>4, <3>1, <3>2 DEF Exists, Has
  <2> QED
    BY <2>1, <2>2, <2>3
<1>13. ThreadInv'
  BY <1>1, <1>4, <1>7, <1>8, <1>9, <1>10, <1>11, <1>12 DEF Inv, ThreadInv
<1> QED
  BY <1>1, <1>4, <1>13, WaitKeepsCpuInv DEF Inv
-----------------------------------------------------------------------------
(* The ends of threads *)

\* The end of t leaves no one waiting for it and takes no event but those of
\* threads that do not wait any more.
LEMMA EndStep ==
    ASSUME Inv, NEW t \in Threads, Ended(sched', t), timers' = StoppedTimers(t),
           endWaiters' = [endWaiters EXCEPT ![t] = <<>>],
           UNCHANGED <<wakeupCount, dispatch, suspender, intrVars>>,
           \/ t # cur /\ phase' = phase
           \/ MayWait /\ phase' = "resched"
    PROVE  Inv'
<1>1. ASSUME NEW w \in Threads, NEW type, NEW id, IsWaitingFor(sched, w, type, id)'
      PROVE  IsWaitingFor(sched, w, type, id) /\ w # t /\ ~(type = "THREADEND" /\ id = t)
  <2>1. w \in AllThreads
    BY DEF AllThreads
  <2>2. /\ Has(sched', w, "WAIT") /\ sched'.wait[w] = [type |-> type, id |-> id]
        /\ Has(sched, w, "WAIT") /\ sched'.wait[w] = sched.wait[w] /\ w # t
        /\ sched.wait[w] # [type |-> "THREADEND", id |-> t]
    BY <1>1 DEF IsWaitingFor, VerifyWait, Ended, EndedFrom, Has
  <2> QED
    BY <2>1, <2>2 DEF IsWaitingFor, VerifyWait, Exists, Has
<1>2. /\ timers' \in [TimerKinds -> [Threads -> 0 .. MaxEvents]]
      /\ \A x \in Threads : x # t => timers'["wakeup"][x] = timers["wakeup"][x]
  <2>1. \A k \in TimerKinds, x \in Threads :
           timers'[k][x] = 0 \/ timers'[k][x] = timers[k][x]
    BY DEF StoppedTimers
  <2>2. timers' \in [TimerKinds -> [Threads -> 0 .. MaxEvents]]
    BY <2>1, ThreadAssumption DEF StoppedTimers, Inv, ThreadInv
  <2>3. "wakeup" \in TimerKinds
    BY DEF TimerKinds
  <2> QED
    BY <2>2, <2>3 DEF StoppedTimers
<1>3. DelayedHasTimer'
  BY <1>1, <1>2 DEF Inv, ThreadInv, DelayedHasTimer
<1>4. NoSleepWithWakeup'
  BY <1>1 DEF Inv, ThreadInv, NoSleepWithWakeup
<1>5. EndWaitersRegistered'
  <2> SUFFICES ASSUME NEW o \in Threads, NEW w \in Threads, IsWaitingFor(sched, w, "THREADEND", o)'
               PROVE  /\ Exists(sched', o) /\ ~Has(sched', o, "DORMANT")
                      /\ Contains(endWaiters'[o], w)
    BY DEF EndWaitersRegistered
  <2>1. IsWaitingFor(sched, w, "THREADEND", o) /\ o # t
    BY <1>1
  <2>2. Exists(sched, o) /\ ~Has(sched, o, "DORMANT") /\ Contains(endWaiters[o], w)
    BY <2>1 DEF Inv, ThreadInv, EndWaitersRegistered
  <2> QED
    BY <2>1, <2>2 DEF Ended, EndedFrom
<1>6. /\ endWaiters' \in [Threads -> Seq(Threads)]
      /\ \A x \in Threads : IsInjective(endWaiters'[x])
  BY DEF Inv, ThreadInv, IsInjective
<1>7. ThreadInv'
  BY <1>2, <1>3, <1>4, <1>5, <1>6 DEF Inv, ThreadInv, Ended, EndedFrom
<1>8. CASE t # cur /\ phase' = phase
  <2>1. CpuInv'
    BY <1>8, KeepsCpuInv DEF Ended, EndedFrom, Inv, cur
  <2> QED
    BY <1>7, <2>1 DEF Inv
<1>9. CASE MayWait /\ phase' = "resched"
  <2>1. CpuInv'
    BY <1>9 DEF Inv, CpuInv, MayWait, ThreadRuns, DispatchEnabled, PendingIsServed, intrVars
  <2> QED
    BY <1>7, <2>1 DEF Inv
<1> QED
  BY <1>8, <1>9

\* sceKernelExitThread()
LEMMA ExitThreadInv ==
    ASSUME Misuse = {}, Inv, ExitThread
    PROVE  Inv'
<1>1. MayWait
  BY DEF ExitThread, MayExit, MayWait
<1>2. cur \in Threads /\ endWaiters[cur] \in Seq(Threads) /\ IsInjective(endWaiters[cur])
  BY <1>1 DEF MayWait, ThreadRuns, Inv, ThreadInv
<1>3. Ended(sched', cur)
  BY <1>2, EndsFacts DEF ExitThread, Stop, Inv, ThreadInv
<1> QED
  BY <1>1, <1>2, <1>3, EndStep DEF ExitThread, Stop

\* sceKernelExitDeleteThread()
LEMMA ExitDeleteThreadInv ==
    ASSUME Misuse = {}, Inv, ExitDeleteThread
    PROVE  Inv'
<1>1. MayWait
  BY DEF ExitDeleteThread, MayExit, MayWait
<1>2. cur \in Threads /\ endWaiters[cur] \in Seq(Threads) /\ IsInjective(endWaiters[cur])
  BY <1>1 DEF MayWait, ThreadRuns, Inv, ThreadInv
<1>3. Ended(sched', cur)
  BY <1>2, EndsFacts DEF ExitDeleteThread, Stop, Inv, ThreadInv
<1> QED
  BY <1>1, <1>2, <1>3, EndStep DEF ExitDeleteThread, Stop

\* sceKernelTerminateThread()
LEMMA TerminateThreadInv ==
    ASSUME Inv, NEW t \in Threads, TerminateThread(t)
    PROVE  Inv'
<1>1. t # cur /\ endWaiters[t] \in Seq(Threads) /\ IsInjective(endWaiters[t])
  BY DEF TerminateThread, Others, Inv, ThreadInv
<1>2. Ended(sched', t)
  BY <1>1, EndsFacts DEF TerminateThread, Stop, Inv, ThreadInv
<1> QED
  BY <1>1, <1>2, EndStep DEF TerminateThread, Stop

\* sceKernelTerminateDeleteThread() and sceKernelDeleteThread()
LEMMA TerminateDeleteThreadInv ==
    ASSUME Inv, NEW t \in Threads, TerminateDeleteThread(t)
    PROVE  Inv'
<1>1. t # cur /\ endWaiters[t] \in Seq(Threads) /\ IsInjective(endWaiters[t])
  BY DEF TerminateDeleteThread, Others, Inv, ThreadInv
<1>2. Ended(sched', t)
  BY <1>1, EndsFacts DEF TerminateDeleteThread, Stop, Inv, ThreadInv
<1> QED
  BY <1>1, <1>2, EndStep DEF TerminateDeleteThread, Stop
-----------------------------------------------------------------------------
(* Dispatching and interrupts *)

\* A switch keeps the first part of the invariant.
LEMMA SwitchStep ==
    ASSUME Inv, Switched(sched, sched'), UNCHANGED <<wakeupCount, endWaiters, timers>>
    PROVE  ThreadInv'
BY KeepsThreadInv DEF Inv, Switched

\* No change of the threads keeps it as well.
LEMMA IdleStep ==
    ASSUME Inv, sched' = sched, UNCHANGED <<wakeupCount, endWaiters, timers>>
    PROVE  ThreadInv'
BY KeepsThreadInv DEF Inv, ThreadInv, KeepsWaits

\* Reschedules
LEMMA ReScheduleInv ==
    ASSUME Inv, ReSchedule
    PROVE  Inv'
<1>1. /\ phase = "resched" /\ phase' = "run"
      /\ UNCHANGED <<wakeupCount, endWaiters, timers, dispatch, suspender, intrVars>>
  BY DEF ReSchedule
<1>2. CASE inIntr \/ ~DispatchEnabled
  <2>1. sched' = sched
    BY <1>2 DEF ReSchedule
  <2>2. Runnable(sched)
    <3>1. CASE inIntr
      BY <3>1, SchedulerAssumption DEF Inv, CpuInv, ThreadInv, Consistent, IdleCanRun, Runnable, cur
    <3>2. CASE ~DispatchEnabled
      BY <3>2 DEF Inv, CpuInv
    <3> QED
      BY <1>2, <3>1, <3>2
  <2>3. CpuInv'
    BY <1>1, <2>1, <2>2 DEF Inv, CpuInv, PendingIsServed, intrVars, cur
  <2> QED
    BY <1>1, <2>1, <2>3, IdleStep DEF Inv
<1>3. CASE ~inIntr /\ DispatchEnabled
  <2>1. sched' = NextThread(sched)
    BY <1>3 DEF ReSchedule
  <2>2. Switched(sched, sched')
    BY <2>1, NextThreadSwitched DEF Inv, ThreadInv
  <2>3. CpuInv'
    BY <1>1, <1>3, <2>2 DEF Inv, CpuInv, PendingIsServed, intrVars, cur, Switched, DispatchEnabled
  <2> QED
    BY <1>1, <2>2, <2>3, SwitchStep DEF Inv
<1> QED
  BY <1>2, <1>3

\* sceKernelSuspendDispatchThread()
LEMMA SuspendDispatchThreadInv ==
    ASSUME Inv, SuspendDispatchThread
    PROVE  Inv'
<1>1. /\ ThreadRuns /\ dispatch' = FALSE /\ suspender' = cur /\ sched' = sched /\ phase' = phase
      /\ UNCHANGED <<wakeupCount, endWaiters, timers, intrEnabled, inIntr, pending, before>>
  BY DEF SuspendDispatchThread, intrVars
<1>2. Runnable(sched) /\ cur \in Threads
  BY <1>1, CallerRuns DEF SomeoneRuns, ThreadRuns
<1>3. CpuInv'
  BY <1>1, <1>2 DEF Inv, CpuInv, PendingIsServed, cur
<1> QED
  BY <1>1, <1>3, IdleStep DEF Inv

\* sceKernelResumeDispatchThread()
LEMMA ResumeDispatchThreadInv ==
    ASSUME Inv, NEW enabled \in BOOLEAN, ResumeDispatchThread(enabled)
    PROVE  Inv'
<1>1. /\ ThreadRuns /\ sched' = sched /\ phase' = "resched"
      /\ UNCHANGED <<wakeupCount, endWaiters, timers, intrEnabled, inIntr, pending, before>>
      /\ dispatch' \in BOOLEAN /\ suspender' \in {NoThread, cur} /\ (~dispatch' => suspender' = cur)
  BY DEF ResumeDispatchThread, intrVars
<1>2. Runnable(sched) /\ cur \in Threads
  BY <1>1, CallerRuns DEF SomeoneRuns, ThreadRuns
<1>3. CpuInv'
  BY <1>1, <1>2 DEF Inv, CpuInv, PendingIsServed, cur
<1> QED
  BY <1>1, <1>3, IdleStep DEF Inv

\* sceKernelCpuSuspendIntr()
LEMMA CpuSuspendIntrInv ==
    ASSUME Inv, CpuSuspendIntr
    PROVE  Inv'
<1>1. /\ SomeoneRuns /\ sched' = sched /\ phase' = phase /\ intrEnabled' = FALSE
      /\ UNCHANGED <<wakeupCount, endWaiters, timers, dispatch, suspender, inIntr, pending, before>>
  BY DEF CpuSuspendIntr
<1>2. Runnable(sched)
  BY <1>1, CallerRuns
<1>3. CpuInv'
  BY <1>1, <1>2 DEF Inv, CpuInv, PendingIsServed, cur
<1> QED
  BY <1>1, <1>3, IdleStep DEF Inv

\* The start of a handler takes the CPU from the thread it returns to.
LEMMA EnterHandlerFacts ==
    ASSUME Inv, EnterHandler
    PROVE  /\ Switched(sched, sched') /\ cur' = Idle /\ inIntr' = TRUE
           /\ before' \in AllThreads \union {NoThread}
           /\ ~dispatch => before' = suspender
<1>1. Switched(sched, sched') /\ cur' = Idle
  BY SwitchOffSwitched DEF EnterHandler, Inv, ThreadInv, cur
<1>2. before' = (IF cur = Idle THEN before ELSE cur) /\ inIntr' = TRUE
  BY DEF EnterHandler
<1>3. cur \in AllThreads \union {NoThread}
  BY SchedTypes DEF Inv, ThreadInv, Consistent, QueueOK, cur
<1>4. suspender # Idle
  BY SchedulerAssumption DEF Inv, CpuInv
<1> QED
  BY <1>1, <1>2, <1>3, <1>4 DEF Inv, CpuInv

\* sceKernelCpuResumeIntr() starts the handlers of the interrupts that came in
\* while they were disabled.
LEMMA CpuResumeIntrInv ==
    ASSUME Inv, CpuResumeIntr
    PROVE  Inv'
<1>1. /\ SomeoneRuns /\ phase' = "resched" /\ intrEnabled' = TRUE
      /\ UNCHANGED <<wakeupCount, endWaiters, timers, dispatch, suspender, pending>>
  BY DEF CpuResumeIntr
<1>2. CASE pending > 0 /\ ~inIntr
  <2>1. EnterHandler
    BY <1>2 DEF CpuResumeIntr
  <2>2. /\ Switched(sched, sched') /\ cur' = Idle /\ inIntr' = TRUE
        /\ before' \in AllThreads \union {NoThread}
        /\ ~dispatch => before' = suspender
    BY <2>1, EnterHandlerFacts
  <2>3. CpuInv'
    BY <1>1, <1>2, <2>2 DEF Inv, CpuInv, PendingIsServed, Switched
  <2> QED
    BY <1>1, <2>2, <2>3, SwitchStep DEF Inv
<1>3. CASE ~(pending > 0 /\ ~inIntr)
  <2>1. UNCHANGED <<sched, before, inIntr>>
    BY <1>3 DEF CpuResumeIntr
  <2>2. Runnable(sched)
    BY <1>1, CallerRuns
  <2>3. CpuInv'
    BY <1>1, <1>3, <2>1, <2>2 DEF Inv, CpuInv, PendingIsServed, cur
  <2> QED
    BY <1>1, <2>1, <2>3, IdleStep DEF Inv
<1> QED
  BY <1>2, <1>3

\* __TriggerInterrupt()
LEMMA TriggerInterruptInv ==
    ASSUME Inv, TriggerInterrupt
    PROVE  Inv'
<1>1. /\ pending < MaxPending /\ pending' = pending + 1
      /\ UNCHANGED <<wakeupCount, endWaiters, timers, dispatch, suspender, intrEnabled, phase>>
  BY DEF TriggerInterrupt
<1>2. pending' \in 0 .. MaxPending /\ pending' > 0
  BY <1>1, ThreadAssumption DEF Inv, CpuInv
<1>3. CASE intrEnabled /\ ~inIntr
  <2>1. EnterHandler
    BY <1>3 DEF TriggerInterrupt
  <2>2. /\ Switched(sched, sched') /\ cur' = Idle /\ inIntr' = TRUE
        /\ before' \in AllThreads \union {NoThread}
        /\ ~dispatch => before' = suspender
    BY <2>1, EnterHandlerFacts
  <2>3. CpuInv'
    BY <1>1, <1>2, <1>3, <2>2 DEF Inv, CpuInv, PendingIsServed, Switched
  <2> QED
    BY <1>1, <2>2, <2>3, SwitchStep DEF Inv
<1>4. CASE ~(intrEnabled /\ ~inIntr)
  <2>1. UNCHANGED <<sched, before, inIntr>>
    BY <1>4 DEF TriggerInterrupt
  <2>2. CpuInv'
    BY <1>1, <1>2, <1>4, <2>1 DEF Inv, CpuInv, PendingIsServed, cur, DispatchEnabled
  <2> QED
    BY <1>1, <2>1, <2>2, IdleStep DEF Inv
<1> QED
  BY <1>3, <1>4

\* __TriggerInterrupt() with PSP_INTR_ALWAYS_RESCHED
LEMMA TriggerReschedInv ==
    ASSUME Inv, TriggerResched
    PROVE  Inv'
<1>1. /\ ~inIntr /\ dispatch /\ before' = cur /\ sched' = SwitchOffThread(sched)
      /\ UNCHANGED <<wakeupCount, endWaiters, timers, dispatch, suspender, intrEnabled,
                     inIntr, pending, phase>>
  BY DEF TriggerResched
<1>2. Switched(sched, sched') /\ cur' = Idle
  BY <1>1, SwitchOffSwitched DEF Inv, ThreadInv, cur
<1>3. cur \in AllThreads \union {NoThread}
  BY SchedTypes DEF Inv, ThreadInv, Consistent, QueueOK, cur
<1>4. CpuInv'
  BY <1>1, <1>2, <1>3 DEF Inv, CpuInv, PendingIsServed, Switched
<1> QED
  BY <1>1, <1>2, <1>4, SwitchStep DEF Inv

\* An interrupt that is turned down: the CPU goes to the idle thread and back, or
\* there is a reschedule.
LEMMA TriggerIgnoredInv ==
    ASSUME Inv, TriggerIgnored
    PROVE  Inv'
<1> DEFINE off == SwitchOffThread(sched)
<1>1. /\ ~inIntr /\ cur # Idle /\ before' = cur
      /\ sched' = (IF CanSwitchTo(off, cur) THEN SwitchContext(off, cur) ELSE off)
      /\ phase' = (IF CanSwitchTo(off, cur) THEN phase ELSE "resched")
      /\ UNCHANGED <<wakeupCount, endWaiters, timers, dispatch, suspender, intrEnabled,
                     inIntr, pending>>
  BY DEF TriggerIgnored
<1>2. Switched(sched, off) /\ off.cur = Idle /\ Consistent(off)
  BY SwitchOffSwitched DEF Inv, ThreadInv, Switched
<1>3. cur \in AllThreads \union {NoThread} /\ (~dispatch => cur = suspender)
  BY <1>1, SchedTypes DEF Inv, CpuInv, ThreadInv, Consistent, QueueOK, cur
<1> HIDE DEF off
<1>4. CASE CanSwitchTo(off, cur)
  <2>1. cur \in AllThreads /\ Has(off, cur, "READY")
    BY <1>2, <1>4, CanSwitchToReady
  <2>2. Switched(off, sched') /\ sched'.cur = cur
    BY <1>1, <1>2, <1>4, <2>1, SwitchContextSwitched
  <2>3. Consistent(sched') /\ Runnable(sched') /\ KeepsWaits(sched, sched')
    BY <1>2, <2>2 DEF Switched, KeepsWaits
  <2>4. ThreadInv'
    BY <1>1, <2>3, KeepsThreadInv DEF Inv
  <2>5. cur' = cur
    BY <2>2 DEF cur
  <2>6. CpuInv'
    BY <1>1, <1>3, <1>4, <2>3, <2>5 DEF Inv, CpuInv, PendingIsServed
  <2> QED
    BY <2>4, <2>6 DEF Inv
<1>5. CASE ~CanSwitchTo(off, cur)
  <2>1. Switched(sched, sched') /\ cur' = Idle
    BY <1>1, <1>2, <1>5 DEF cur
  <2>2. CpuInv'
    BY <1>1, <1>3, <1>5, <2>1 DEF Inv, CpuInv, PendingIsServed, Switched
  <2> QED
    BY <1>1, <2>1, <2>2, SwitchStep DEF Inv
<1> QED
  BY <1>4, <1>5

\* __KernelReturnFromInterrupt()
LEMMA ReturnFromInterruptInv ==
    ASSUME Inv, ReturnFromInterrupt
    PROVE  Inv'
<1>1. /\ phase = "run" /\ inIntr /\ pending' = pending - 1
      /\ UNCHANGED <<wakeupCount, endWaiters, timers, dispatch, suspender, intrEnabled, before>>
  BY DEF ReturnFromInterrupt, HandlerRuns
<1>2. cur = Idle /\ pending' \in 0 .. MaxPending /\ Runnable(sched)
  BY <1>1, ThreadAssumption DEF Inv, CpuInv
<1>3. CASE pending' > 0 /\ intrEnabled
  <2>1. UNCHANGED <<sched, inIntr, phase>>
    BY <1>3 DEF ReturnFromInterrupt
  <2>2. CpuInv'
    BY <1>1, <1>2, <1>3, <2>1 DEF Inv, CpuInv, PendingIsServed, cur
  <2> QED
    BY <1>1, <2>1, <2>2, IdleStep DEF Inv
<1>4. CASE ~(pending' > 0 /\ intrEnabled) /\ ~DispatchEnabled /\ CanSwitchTo(sched, before)
  <2>1. inIntr' = FALSE /\ sched' = SwitchContext(sched, before) /\ phase' = phase
    BY <1>4 DEF ReturnFromInterrupt
  <2>2. before \in AllThreads /\ Has(sched, before, "READY")
    BY <1>4, CanSwitchToReady DEF Inv, ThreadInv
  <2>3. Switched(sched, sched') /\ cur' = before
    BY <2>1, <2>2, SwitchContextSwitched DEF Inv, ThreadInv, cur
  <2>4. ~dispatch => before = suspender
    BY <1>2, SchedulerAssumption DEF Inv, CpuInv
  <2>5. CpuInv'
    BY <1>1, <1>2, <1>4, <2>1, <2>3, <2>4 DEF Inv, CpuInv, PendingIsServed, Switched
  <2> QED
    BY <1>1, <2>3, <2>5, SwitchStep DEF Inv
<1>5. CASE ~(pending' > 0 /\ intrEnabled) /\ ~(~DispatchEnabled /\ CanSwitchTo(sched, before))
  <2>1. inIntr' = FALSE /\ sched' = sched /\ phase' = "resched"
    BY <1>5 DEF ReturnFromInterrupt
  <2>2. CpuInv'
    BY <1>1, <1>2, <1>5, <2>1 DEF Inv, CpuInv, PendingIsServed, cur
  <2> QED
    BY <1>1, <2>1, <2>2, IdleStep DEF Inv
<1> QED
  BY <1>3, <1>4, <1>5
-----------------------------------------------------------------------------
(* The theorems *)

\* No step of the thread manager leaves the invariant.
LEMMA NextInv ==
    ASSUME Misuse = {}, Inv, [Next]_vars
    PROVE  Inv'
<1>1. CASE UNCHANGED vars
  BY <1>1, QuietSelf, QuietStep DEF vars, Inv, ThreadInv
<1>2. ASSUME NEW t \in Threads,
             \/ CreateThread(t) \/ StartThread(t)
             \/ TerminateThread(t) \/ TerminateDeleteThread(t)
             \/ WakeupThread(t) \/ CancelWakeupThread(t)
             \/ ReleaseWaitThread(t) \/ SuspendThread(t) \/ ResumeThread(t)
             \/ ScheduledWakeup(t) \/ ThreadEndTimeout(t)
      PROVE  Inv'
  BY <1>2, CreateThreadInv, StartThreadInv, TerminateThreadInv, TerminateDeleteThreadInv,
     WakeupThreadInv, CancelWakeupThreadInv, ReleaseWaitThreadInv, SuspendThreadInv,
     ResumeThreadInv, ScheduledWakeupInv, ThreadEndTimeoutInv
<1>3. ASSUME NEW t \in Threads, NEW timeout \in BOOLEAN, WaitThreadEnd(t, timeout)
      PROVE  Inv'
  BY <1>3, WaitThreadEndInv
<1>4. ASSUME NEW t \in AllThreads, NEW p \in Priorities, ChangeThreadPriority(t, p)
      PROVE  Inv'
  BY <1>4, ChangeThreadPriorityInv
<1>5. ASSUME NEW p \in Priorities, RotateThreadReadyQueue(p)
      PROVE  Inv'
  BY <1>5, RotateThreadReadyQueueInv
<1>6. ASSUME NEW enabled \in BOOLEAN, ResumeDispatchThread(enabled)
      PROVE  Inv'
  BY <1>6, ResumeDispatchThreadInv
<1>7. CASE ExitThread \/ ExitDeleteThread \/ SuspendDispatchThread \/ CpuSuspendIntr \/ CpuResumeIntr
  BY <1>7, ExitThreadInv, ExitDeleteThreadInv, SuspendDispatchThreadInv, CpuSuspendIntrInv,
     CpuResumeIntrInv
<1>8. CASE TriggerInterrupt \/ TriggerResched \/ TriggerIgnored \/ ReturnFromInterrupt
  BY <1>8, TriggerInterruptInv, TriggerReschedInv, TriggerIgnoredInv, ReturnFromInterruptInv
<1>9. CASE ReSchedule \/ KernelIdle \/ DelayThread \/ DelayThreadZero \/ SleepThread
  BY <1>9, ReScheduleInv, KernelIdleInv, DelayThreadInv, DelayThreadZeroInv, SleepThreadInv
<1> QED
  BY <1>1, <1>2, <1>3, <1>4, <1>5, <1>6, <1>7, <1>8, <1>9 DEF Next

\* The invariant holds in every reachable state.
THEOREM Invariance ==
    ASSUME Misuse = {}
    PROVE  Spec => []Inv
<1>1. Inv /\ [Next]_vars => Inv'
  BY NextInv
<1> QED
  BY InitInv, <1>1, PTL DEF Spec

\* The variables keep their types, and every thread one of the legal statuses.
THEOREM TypeCorrect ==
    ASSUME Misuse = {}
    PROVE  Spec => []TypeOK
<1>1. Inv => TypeOK
  BY DEF Inv, ThreadInv, CpuInv, Consistent, QueueOK, TypeOK
<1> QED
  BY <1>1, Invariance, PTL

\* threadReadyQueue lists the ready threads and no others, each once.
THEOREM ReadyIsAlwaysQueued ==
    ASSUME Misuse = {}
    PROVE  Spec => []ReadyIsQueued
<1>1. Inv => ReadyIsQueued
  BY DEF Inv, ThreadInv, Consistent, QueueOK, ReadyIsQueued
<1> QED
  BY <1>1, Invariance, PTL

\* Only the current thread is marked as running.
THEOREM OneThreadRuns ==
    ASSUME Misuse = {}
    PROVE  Spec => []OneRunning
<1>1. Inv => OneRunning
  BY DEF Inv, ThreadInv, Consistent, OneRunning
<1> QED
  BY <1>1, Invariance, PTL

\* The idle thread can always run, at its own priority.
THEOREM IdleThreadRemains ==
    ASSUME Misuse = {}
    PROVE  Spec => []AlwaysSomeoneToRun
<1>1. Inv => AlwaysSomeoneToRun
  BY DEF Inv, ThreadInv, Consistent, AlwaysSomeoneToRun
<1> QED
  BY <1>1, Invariance, PTL

\* The CPU executes only threads that can execute.
THEOREM CpuExecutesRunnable ==
    ASSUME Misuse = {}
    PROVE  Spec => []ExecutesRunnable
<1>1. Inv => ExecutesRunnable
  BY DEF Inv, CpuInv, ExecutesRunnable, Runnable, cur
<1> QED
  BY <1>1, Invariance, PTL

\* Nobody is left waiting for the end of a thread that has ended.
THEOREM EndWaitersAlwaysRegistered ==
    ASSUME Misuse = {}
    PROVE  Spec => []EndWaitersRegistered
<1>1. Inv => EndWaitersRegistered
  BY DEF Inv, ThreadInv
<1> QED
  BY <1>1, Invariance, PTL

\* A delayed thread always has an event that wakes it up.
THEOREM DelayAlwaysEnds ==
    ASSUME Misuse = {}
    PROVE  Spec => []DelayedHasTimer
<1>1. Inv => DelayedHasTimer
  BY DEF Inv, ThreadInv
<1> QED
  BY <1>1, Invariance, PTL

\* No wake-up is lost on a sleeping thread.
THEOREM WakeupNeverLost ==
    ASSUME Misuse = {}
    PROVE  Spec => []NoSleepWithWakeup
<1>1. Inv => NoSleepWithWakeup
  BY DEF Inv, ThreadInv
<1> QED
  BY <1>1, Invariance, PTL

\* While the dispatch is suspended the CPU stays with the thread that suspended it.
THEOREM SuspendedDispatchHolds ==
    ASSUME Misuse = {}
    PROVE  Spec => []SuspendedDispatchKeepsThread
<1>1. Inv => SuspendedDispatchKeepsThread
  BY DEF Inv, CpuInv, SuspendedDispatchKeepsThread
<1> QED
  BY <1>1, Invariance, PTL

\* A pending interrupt is being handled, or interrupts are disabled.
THEOREM PendingAlwaysServed ==
    ASSUME Misuse = {}
    PROVE  Spec => []PendingIsServed
<1>1. Inv => PendingIsServed
  BY DEF Inv, CpuInv
<1> QED
  BY <1>1, Invariance, PTL

\* An interrupt handler stays on the idle thread.
THEOREM HandlerAlwaysOnIdle ==
    ASSUME Misuse = {}
    PROVE  Spec => HandlerKeepsIdle
<1>1. Inv /\ Inv' => (inIntr => cur = Idle /\ (inIntr' => cur' = Idle))
  BY DEF Inv, CpuInv
<1> QED
  BY <1>1, Invariance, PTL DEF HandlerKeepsIdle

\* A step gives the CPU to somebody, directly or over the idle thread.
Switches(s, r) ==
    Switched(s, r) \/ \E off : Switched(s, off) /\ Switched(off, r) /\ r.cur = s.cur

\* All that a step can do to the threads.
LEMMA StepKinds ==
    ASSUME Misuse = {}, Inv, [Next]_vars
    PROVE  \/ Quiet(sched, sched') \/ Switches(sched, sched')
           \/ \E t \in Threads : Ended(sched', t)
           \/ MayWait /\ \E type \in WaitTypes, id \in AllThreads \union Objects \union {NoThread} :
                            sched' = WaitCurThread(sched, type, id)
<1> DEFINE Goal == \/ Quiet(sched, sched') \/ Switches(sched, sched')
                   \/ \E t \in Threads : Ended(sched', t)
                   \/ MayWait /\ \E type \in WaitTypes, id \in AllThreads \union Objects \union {NoThread} :
                                    sched' = WaitCurThread(sched, type, id)
<1> USE DEF cur
<1>1. Consistent(sched) /\ \A t \in Threads : t \in AllThreads
  BY DEF Inv, ThreadInv, AllThreads
<1>2. ASSUME sched' = sched \/ Quiet(sched, sched') \/ Switched(sched, sched')
      PROVE  Goal
  BY <1>1, <1>2, QuietSelf DEF Switches
<1>4. ASSUME NEW t \in Threads,
             \/ CreateThread(t) \/ StartThread(t)
             \/ WakeupThread(t) \/ CancelWakeupThread(t)
             \/ ReleaseWaitThread(t) \/ SuspendThread(t) \/ ResumeThread(t)
             \/ ScheduledWakeup(t) \/ ThreadEndTimeout(t)
      PROVE  sched' = sched \/ Quiet(sched, sched')
  <2>1. CASE CreateThread(t) \/ StartThread(t)
    BY <1>1, <2>1, CreatedQuiet, StartedQuiet DEF CreateThread, StartThread, ThreadRuns
  <2>2. CASE SuspendThread(t) \/ ResumeThread(t)
    BY <1>1, <2>2, SuspendedQuiet, ResumedQuiet DEF SuspendThread, ResumeThread
  <2>3. CASE \/ WakeupThread(t) \/ CancelWakeupThread(t) \/ ReleaseWaitThread(t)
             \/ ScheduledWakeup(t) \/ ThreadEndTimeout(t)
    BY <1>1, <2>3, ResumeFromWaitQuiet
    DEF WakeupThread, CancelWakeupThread, ReleaseWaitThread, ScheduledWakeup, ThreadEndTimeout
  <2> QED
    BY <1>4, <2>1, <2>2, <2>3
<1>5. ASSUME NEW t \in Threads, TerminateThread(t) \/ TerminateDeleteThread(t)
      PROVE  Goal
  <2>1. endWaiters[t] \in Seq(Threads) /\ IsInjective(endWaiters[t]) /\ EndWaitersRegistered
    BY DEF Inv, ThreadInv
  <2>2. Ended(sched', t)
    BY <1>1, <1>5, <2>1, EndsFacts
    DEF TerminateThread, TerminateDeleteThread, Stop
  <2> QED
    BY <2>2
<1>6. CASE ExitThread \/ ExitDeleteThread
  <2>1. /\ cur \in Threads /\ endWaiters[cur] \in Seq(Threads) /\ IsInjective(endWaiters[cur])
        /\ EndWaitersRegistered
    BY <1>6 DEF ExitThread, ExitDeleteThread, MayExit, ThreadRuns, Inv, ThreadInv
  <2>2. Ended(sched', cur)
    BY <1>1, <1>6, <2>1, EndsFacts DEF ExitThread, ExitDeleteThread, Stop
  <2> QED
    BY <2>1, <2>2
<1>7. ASSUME NEW t \in AllThreads, NEW p \in Priorities, ChangeThreadPriority(t, p)
      PROVE  Quiet(sched, sched')
  BY <1>1, <1>7, ChangedPriorityQuiet DEF ChangeThreadPriority
<1>8. ASSUME NEW p \in Priorities, RotateThreadReadyQueue(p)
      PROVE  Quiet(sched, sched')
  BY <1>1, <1>8, CallerRuns, RotatedQuiet DEF RotateThreadReadyQueue
<1>9. CASE UNCHANGED vars \/ SuspendDispatchThread \/ CpuSuspendIntr \/ KernelIdle
           \/ DelayThreadZero
           \/ \E enabled \in BOOLEAN : ResumeDispatchThread(enabled)
  BY <1>2, <1>9 DEF vars, SuspendDispatchThread, CpuSuspendIntr, KernelIdle, DelayThreadZero,
                       ResumeDispatchThread
<1>10. CASE CpuResumeIntr \/ TriggerInterrupt \/ TriggerResched
  BY <1>1, <1>2, <1>10, SwitchOffSwitched
  DEF CpuResumeIntr, TriggerInterrupt, TriggerResched, EnterHandler
<1>11. CASE TriggerIgnored
  <2> DEFINE off == SwitchOffThread(sched)
  <2>1. Switched(sched, off) /\ Consistent(off)
    BY <1>1, SwitchOffSwitched DEF Switched
  <2>2. CASE CanSwitchTo(off, cur)
    <3>1. Switched(off, SwitchContext(off, cur)) /\ SwitchContext(off, cur).cur = cur
      BY <2>1, <2>2, CanSwitchToReady, SwitchContextSwitched
    <3>2. sched' = SwitchContext(off, cur)
      BY <1>11, <2>2 DEF TriggerIgnored
    <3> HIDE DEF off
    <3> QED
      BY <2>1, <3>1, <3>2 DEF Switches
  <2>3. CASE ~CanSwitchTo(off, cur)
    BY <1>2, <1>11, <2>1, <2>3 DEF TriggerIgnored
  <2> QED
    BY <2>2, <2>3
<1>12. CASE ReturnFromInterrupt
  <2>1. CASE sched' = sched
    BY <1>2, <2>1
  <2>2. CASE CanSwitchTo(sched, before) /\ sched' = SwitchContext(sched, before)
    BY <1>1, <1>2, <2>2, CanSwitchToReady, SwitchContextSwitched
  <2> QED
    BY <1>12, <2>1, <2>2 DEF ReturnFromInterrupt
<1>13. CASE ReSchedule
  BY <1>1, <1>2, <1>13, NextThreadSwitched DEF ReSchedule
<1>14. CASE DelayThread \/ SleepThread \/ \E t \in Threads, timeout \in BOOLEAN : WaitThreadEnd(t, timeout)
  <2>1. MayWait
    BY <1>14 DEF DelayThread, SleepThread, WaitThreadEnd
  <2>2. cur \in AllThreads /\ \A t \in Threads : t \in AllThreads
    BY <1>1, <2>1 DEF MayWait, ThreadRuns
  <2>3. \/ sched' = sched
        \/ \E type \in WaitTypes, id \in AllThreads \union Objects \union {NoThread} :
              sched' = WaitCurThread(sched, type, id)
    BY <1>14, <2>2 DEF DelayThread, SleepThread, WaitThreadEnd, WaitTypes
  <2> QED
    BY <1>2, <2>1, <2>3
<1> QED
  BY <1>2, <1>4, <1>5, <1>6, <1>7, <1>8, <1>9, <1>10, <1>11, <1>12, <1>13, <1>14 DEF Next

\* Where the CPU goes in one step: to a ready thread, which forgets what it waited for.
LEMMA CurMoves ==
    ASSUME Misuse = {}, Inv, [Next]_vars, cur' \notin {cur, NoThread}
    PROVE  Has(sched, cur', "READY") /\ sched'.wait[cur'] = NoWait
<1>1. CASE Quiet(sched, sched') \/ Switches(sched, sched')
  BY <1>1 DEF Quiet, Switches, Switched, cur
<1>2. CASE \E t \in Threads : Ended(sched', t)
  BY <1>2 DEF Ended, EndedFrom, cur
<1>3. CASE MayWait /\ \E type \in WaitTypes, id \in AllThreads \union Objects \union {NoThread} :
                         sched' = WaitCurThread(sched, type, id)
  <2>1. cur' = cur
    BY <1>3, WaitingFacts DEF Inv, ThreadInv
  <2> QED
    BY <2>1
<1> QED
  BY <1>1, <1>2, <1>3, StepKinds

\* The CPU never goes to a thread that was not ready.
THEOREM OnlyReadyThreadsEverRun ==
    ASSUME Misuse = {}
    PROVE  Spec => OnlyReadyThreadsRun
<1>1. Inv /\ [Next]_vars => (cur' \notin {cur, NoThread} => Has(sched, cur', "READY"))
  BY CurMoves
<1> QED
  BY <1>1, Invariance, PTL DEF Spec, OnlyReadyThreadsRun

\* What can happen before a reschedule that is asked for.
LEMMA BeforeReschedule ==
    ASSUME phase = "resched", Next
    PROVE  \/ \E t \in Threads : ScheduledWakeup(t) \/ ThreadEndTimeout(t)
           \/ TriggerInterrupt \/ TriggerResched \/ TriggerIgnored \/ ReSchedule
<1>1. ~SomeoneRuns /\ ~ThreadRuns /\ ~HandlerRuns /\ ~MayWait /\ ~MayExit
  BY DEF SomeoneRuns, ThreadRuns, HandlerRuns, MayWait, MayExit
<1>2. \A t \in Threads :
         /\ ~CreateThread(t) /\ ~StartThread(t)
         /\ ~TerminateThread(t) /\ ~TerminateDeleteThread(t)
         /\ ~WakeupThread(t) /\ ~CancelWakeupThread(t)
         /\ ~ReleaseWaitThread(t) /\ ~SuspendThread(t) /\ ~ResumeThread(t)
  BY <1>1 DEF CreateThread, StartThread, TerminateThread, TerminateDeleteThread, WakeupThread,
              CancelWakeupThread, ReleaseWaitThread, SuspendThread, ResumeThread
<1>3. /\ \A t \in Threads, timeout \in BOOLEAN : ~WaitThreadEnd(t, timeout)
      /\ \A t \in AllThreads, p \in Priorities : ~ChangeThreadPriority(t, p)
      /\ \A p \in Priorities : ~RotateThreadReadyQueue(p)
      /\ \A enabled \in BOOLEAN : ~ResumeDispatchThread(enabled)
  BY <1>1 DEF WaitThreadEnd, ChangeThreadPriority, RotateThreadReadyQueue, ResumeDispatchThread
<1>4. /\ ~ExitThread /\ ~ExitDeleteThread /\ ~SuspendDispatchThread /\ ~CpuSuspendIntr /\ ~KernelIdle
      /\ ~CpuResumeIntr /\ ~ReturnFromInterrupt /\ ~DelayThread /\ ~DelayThreadZero
      /\ ~SleepThread
  BY <1>1 DEF ExitThread, ExitDeleteThread, SuspendDispatchThread, CpuSuspendIntr, KernelIdle,
              CpuResumeIntr, ReturnFromInterrupt, DelayThread, DelayThreadZero, SleepThread
<1> QED
  BY <1>1, <1>2, <1>3, <1>4 DEF Next

\* A reschedule that takes place leaves no better thread ready.
THEOREM BestThreadAlwaysRuns ==
    ASSUME Misuse = {}
    PROVE  Spec => BestThreadRuns
<1> DEFINE Best == phase = "resched" /\ phase' = "run" /\ DispatchEnabled /\ ~inIntr =>
                     /\ Has(sched', cur', "RUNNING")
                     /\ \A t \in AllThreads :
                           Has(sched', t, "READY") => sched'.prio[cur'] <= sched'.prio[t]
<1>1. ASSUME Inv, Next PROVE Best
  <2> SUFFICES ASSUME phase = "resched", phase' = "run", DispatchEnabled, ~inIntr
               PROVE  /\ Has(sched', cur', "RUNNING")
                      /\ \A t \in AllThreads :
                            Has(sched', t, "READY") => sched'.prio[cur'] <= sched'.prio[t]
    OBVIOUS
  <2>1. /\ ~TriggerInterrupt /\ ~TriggerResched /\ ~TriggerIgnored
        /\ \A t \in Threads : ~ScheduledWakeup(t) /\ ~ThreadEndTimeout(t)
    BY DEF TriggerInterrupt, TriggerResched, TriggerIgnored, ScheduledWakeup, ThreadEndTimeout
  <2>2. ReSchedule
    BY <1>1, <2>1, BeforeReschedule
  <2>3. sched' = NextThread(sched)
    BY <2>2 DEF ReSchedule
  <2> QED
    BY <1>1, <2>3, NextThreadFacts DEF Inv, ThreadInv, cur
<1>2. Inv /\ [Next]_vars => Best \/ UNCHANGED vars
  BY <1>1
<1> QED
  BY <1>2, Invariance, PTL DEF Spec, BestThreadRuns
-----------------------------------------------------------------------------
(* Suspended threads *)

\* The threads that are suspended are not ready in r.
StaysAside(r) == \A x \in Threads : Has(sched, x, "SUSPEND") => ~Has(r, x, "READY")

LEMMA SuspendedStatus ==
    ASSUME NEW s, Consistent(s), NEW x \in AllThreads, Has(s, x, "SUSPEND")
    PROVE  s.status[x] \in {{"SUSPEND"}, {"WAIT", "SUSPEND"}}
BY DEF Consistent, QueueOK, LegalStatus, Has

\* A switch of the CPU leaves them alone.
LEMMA SwitchKeepsSuspended ==
    ASSUME NEW s, Consistent(s), NEW t \in AllThreads, Has(s, t, "READY"),
           NEW x \in AllThreads, Has(s, x, "SUSPEND")
    PROVE  SwitchContext(s, t).status[x] = s.status[x]
<1>1. x # t /\ ~Has(s, x, "RUNNING")
  BY SuspendedStatus DEF Has
<1>2. QueueOK(s) /\ RunningIsCurrent(s)
  BY DEF Consistent
<1>3. \A y \in AllThreads : SwitchContext(s, t).status[y] =
        IF y = t THEN {"RUNNING"} ELSE IF Has(s, y, "RUNNING") THEN {"READY"} ELSE s.status[y]
  BY <1>2, SwitchContextFacts, ZenonT(30)
<1> QED
  BY <1>1, <1>3, Zenon

LEMMA SwitchOffKeepsSuspended ==
    ASSUME NEW s, Consistent(s), NEW x \in AllThreads, Has(s, x, "SUSPEND")
    PROVE  SwitchOffThread(s).status[x] = s.status[x]
<1>1. CASE s.cur = Idle
  BY <1>1 DEF SwitchOffThread
<1>2. CASE s.cur # Idle
  <2>1. Idle \in AllThreads /\ Has(s, Idle, "READY")
    BY <1>2 DEF Consistent, RunningIsCurrent, IdleCanRun, Has, AllThreads
  <2> QED
    BY <1>2, <2>1, SwitchKeepsSuspended DEF SwitchOffThread
<1> QED
  BY <1>1, <1>2

LEMMA NextThreadKeepsSuspended ==
    ASSUME NEW s, Consistent(s), NEW x \in AllThreads, Has(s, x, "SUSPEND")
    PROVE  NextThread(s).status[x] = s.status[x]
<1>1. CASE Candidates(s) = {}
  BY <1>1 DEF NextThread
<1>2. CASE Candidates(s) # {}
  <2> DEFINE t == Head(s.queue[Min(Candidates(s))])
  <2>1. t \in AllThreads /\ Has(s, t, "READY") /\ NextThread(s) = SwitchContext(s, t)
    BY <1>2, NextThreadIsSwitch
  <2> HIDE DEF t
  <2> QED
    BY <2>1, SwitchKeepsSuspended
<1> QED
  BY <1>1, <1>2

\* The end of a wait leaves a suspended thread suspended, whoever ends it.
LEMMA ResumeFromWaitAside ==
    ASSUME Consistent(sched), NEW t \in AllThreads
    PROVE  StaysAside(ResumeFromWait(sched, t))
<1> SUFFICES ASSUME NEW x \in Threads, Has(sched, x, "SUSPEND")
             PROVE  ~Has(ResumeFromWait(sched, t), x, "READY")
  BY DEF StaysAside
<1>1. x \in AllThreads /\ QueueOK(sched) /\ sched.status \in [AllThreads -> SUBSET StatusBits]
  BY SchedTypes DEF AllThreads, Consistent, QueueOK
<1>2. sched.status[x] \in {{"SUSPEND"}, {"WAIT", "SUSPEND"}}
  BY <1>1, SuspendedStatus
<1>3. ResumeFromWait(sched, t).status =
        [sched.status EXCEPT ![t] = IF (sched.status[t] \ {"WAIT"}) \intersect {"SUSPEND", "DORMANT"} = {}
                                    THEN {"READY"} ELSE sched.status[t] \ {"WAIT"}]
  BY <1>1, ResumeFromWaitFacts
<1>4. CASE x = t
  <2>1. "SUSPEND" \in (sched.status[t] \ {"WAIT"}) \intersect {"SUSPEND", "DORMANT"}
    BY <1>2, <1>4
  <2>2. ResumeFromWait(sched, t).status[x] = sched.status[t] \ {"WAIT"}
    BY <1>1, <1>3, <1>4, <2>1
  <2> QED
    BY <1>2, <1>4, <2>2 DEF Has
<1>5. CASE x # t
  BY <1>1, <1>2, <1>3, <1>5 DEF Has
<1> QED
  BY <1>4, <1>5

LEMMA ResumeAllAside ==
    ASSUME NEW s \in SchedType, NEW w, NEW type, NEW id, NEW x \in AllThreads,
           "READY" \notin s.status[x], s.status[x] # {"WAIT"}
    PROVE  "READY" \notin ResumeAll(s, w, type, id).status[x]
<1> DEFINE valid == {t \in ToSet(w) : VerifyWait(s, t, type, id)}
           woken == {t \in valid : s.status[t] = {"WAIT"}}
<1>1. ResumeAll(s, w, type, id).status =
        [t \in AllThreads |-> IF t \in woken THEN {"READY"}
                              ELSE IF t \in valid THEN s.status[t] \ {"WAIT"} ELSE s.status[t]]
  <2>1. DOMAIN s = {"status", "prio", "queue", "cur", "wait"}
    BY DEF SchedType
  <2> HIDE DEF valid
  <2> QED
    BY <2>1 DEF ResumeAll, ResumeEach, valid
<1> QED
  BY <1>1

\* So does the end of a thread it waits for; and the thread that ends is not ready.
LEMMA EndAside ==
    ASSUME Consistent(sched), NEW t \in Threads
    PROVE  /\ StaysAside(StoppedSched(t))
           /\ StaysAside([StoppedSched(t) EXCEPT !.prio[t] = InitialPriority[t]])
           /\ StaysAside(DeletedSched(t))
<1> DEFINE u == Unqueue(sched, t)
           d == [u EXCEPT !.status[t] = {"DORMANT"}]
           a == ResumeAll(d, endWaiters[t], "THREADEND", t)
           r == StoppedSched(t)
<1>1. /\ t \in AllThreads /\ QueueOK(sched) /\ \A x \in Threads : x \in AllThreads
  BY DEF AllThreads, Consistent
<1>2. u \in SchedType /\ u.status = sched.status
  BY <1>1, UnqueueFacts
<1> HIDE DEF u
<1>3. d \in SchedType /\ d.status = [sched.status EXCEPT ![t] = {"DORMANT"}]
  BY <1>1, <1>2 DEF SchedType, StatusBits
<1> HIDE DEF d
<1>4. \A x \in Threads : Has(sched, x, "SUSPEND") => "READY" \notin a.status[x]
  <2> SUFFICES ASSUME NEW x \in Threads, Has(sched, x, "SUSPEND") PROVE "READY" \notin a.status[x]
    OBVIOUS
  <2>1. sched.status[x] \in {{"SUSPEND"}, {"WAIT", "SUSPEND"}} /\ x \in AllThreads
    BY <1>1, SuspendedStatus
  <2>2. sched.status \in [AllThreads -> SUBSET StatusBits]
    BY <1>1, SchedTypes DEF QueueOK
  <2>3. d.status[x] \in {{"DORMANT"}, {"SUSPEND"}, {"WAIT", "SUSPEND"}}
    BY <1>1, <1>3, <2>1, <2>2
  <2>4. "READY" \notin d.status[x] /\ d.status[x] # {"WAIT"}
    BY <2>3
  <2> QED
    BY <1>3, <2>1, <2>4, ResumeAllAside
<1>5. DOMAIN a = {"status", "prio", "queue", "cur", "wait"}
  BY <1>3 DEF SchedType, ResumeAll, ResumeEach
<1>6. r = [a EXCEPT !.wait[t] = NoWait]
  BY DEF StoppedSched, StoppedFrom, a, d, u
<1> HIDE DEF a, r
<1>7. r.status = a.status /\ DOMAIN r = {"status", "prio", "queue", "cur", "wait"}
  BY <1>5, <1>6
<1>8. StaysAside(r)
  BY <1>4, <1>7 DEF StaysAside, Has
<1>9. [r EXCEPT !.prio[t] = InitialPriority[t]].status = r.status
  BY <1>7
<1>10. \A x \in Threads : DeletedSched(t).status[x] \in {r.status[x], {}}
  BY <1>5, <1>7 DEF DeletedSched, Deleted, r
<1> QED
  BY <1>8, <1>9, <1>10 DEF StaysAside, Has, r

\* The changes that a call makes to one thread which it names.
LEMMA OneThreadAside ==
    ASSUME Consistent(sched), NEW t \in Threads
    PROVE  /\ StaysAside([sched EXCEPT !.status[t] = {"DORMANT"}, !.prio[t] = InitialPriority[t],
                                       !.wait[t] = NoWait])
           /\ StaysAside([Unqueue(sched, t) EXCEPT
                            !.status[t] = (@ \ {"READY"}) \union {"SUSPEND"}])
           /\ \A p : StaysAside(ChangedPrioritySched(t, p))
           /\ \A x \in Threads : x # t => ResumedSched(t).status[x] = sched.status[x]
<1>1. /\ t \in AllThreads /\ QueueOK(sched) /\ \A x \in Threads : x \in AllThreads
      /\ sched \in SchedType /\ sched.status \in [AllThreads -> SUBSET StatusBits]
      /\ DOMAIN sched = {"status", "prio", "queue", "cur", "wait"}
  BY SchedTypes DEF AllThreads, Consistent, QueueOK, SchedType
<1>2. \A x \in Threads : Has(sched, x, "SUSPEND") =>
         sched.status[x] \in {{"SUSPEND"}, {"WAIT", "SUSPEND"}}
  BY <1>1, SuspendedStatus
<1>3. StaysAside([sched EXCEPT !.status[t] = {"DORMANT"}, !.prio[t] = InitialPriority[t],
                               !.wait[t] = NoWait])
  <2> DEFINE r == [sched EXCEPT !.status[t] = {"DORMANT"}, !.prio[t] = InitialPriority[t],
                                !.wait[t] = NoWait]
  <2>1. r.status = [sched.status EXCEPT ![t] = {"DORMANT"}]
    BY <1>1
  <2> HIDE DEF r
  <2>2. \A x \in Threads : r.status[x] = IF x = t THEN {"DORMANT"} ELSE sched.status[x]
    BY <1>1, <2>1
  <2> QED
    BY <1>2, <2>2 DEF StaysAside, Has, r
<1>4. StaysAside([Unqueue(sched, t) EXCEPT !.status[t] = (@ \ {"READY"}) \union {"SUSPEND"}])
  <2> DEFINE u == Unqueue(sched, t)
             r == [u EXCEPT !.status[t] = (@ \ {"READY"}) \union {"SUSPEND"}]
  <2>1. u.status = sched.status /\ DOMAIN u = {"status", "prio", "queue", "cur", "wait"}
    BY <1>1, UnqueueFacts DEF SchedType
  <2> HIDE DEF u
  <2>2. r.status = [sched.status EXCEPT ![t] = (sched.status[t] \ {"READY"}) \union {"SUSPEND"}]
    BY <1>1, <2>1
  <2> HIDE DEF r
  <2>3. \A x \in Threads : r.status[x] = IF x = t THEN (sched.status[t] \ {"READY"}) \union {"SUSPEND"}
                                         ELSE sched.status[x]
    BY <1>1, <2>2
  <2> QED
    BY <1>2, <2>3 DEF StaysAside, Has, r, u
<1>5. ASSUME NEW p PROVE StaysAside(ChangedPrioritySched(t, p))
  <2> DEFINE removed == [sched EXCEPT !.queue[sched.prio[t]] = RemoveFirst(@, t), !.prio[t] = p]
             r == ChangedPrioritySched(t, p)
  <2>1. removed.status = sched.status /\ DOMAIN removed = {"status", "prio", "queue", "cur", "wait"}
    BY <1>1
  <2>2. r = IF Has(sched, t, "READY") \/ Has(sched, t, "RUNNING")
            THEN [removed EXCEPT !.status[t] = {"READY"}, !.queue[p] = Append(@, t)]
            ELSE removed
    BY DEF ChangedPrioritySched
  <2> HIDE DEF removed, r
  <2>3. \A x \in Threads :
           r.status[x] = IF x = t /\ (Has(sched, t, "READY") \/ Has(sched, t, "RUNNING"))
                         THEN {"READY"} ELSE sched.status[x]
    BY <1>1, <2>1, <2>2
  <2> QED
    BY <1>2, <2>3 DEF StaysAside, Has, r
<1>6. ASSUME NEW x \in Threads, x # t PROVE ResumedSched(t).status[x] = sched.status[x]
  <2> DEFINE resumed == [sched EXCEPT !.status[t] = @ \ {"SUSPEND"}]
  <2>1. /\ resumed.status = [sched.status EXCEPT ![t] = @ \ {"SUSPEND"}]
        /\ DOMAIN resumed = {"status", "prio", "queue", "cur", "wait"}
        /\ resumed.status \in [AllThreads -> SUBSET StatusBits]
    BY <1>1
  <2>2. ResumedSched(t) = IF resumed.status[t] = {} THEN MakeReady(resumed, t) ELSE resumed
    BY DEF ResumedSched
  <2> HIDE DEF resumed
  <2>3. MakeReady(resumed, t).status[x] = resumed.status[x]
    BY <1>1, <1>6, <2>1 DEF MakeReady
  <2> QED
    BY <1>1, <1>6, <2>1, <2>2, <2>3
<1> QED
  BY <1>3, <1>4, <1>5, <1>6

\* The calls that make their own thread, or one they start, ready.
LEMMA CallerAside ==
    ASSUME Inv, SomeoneRuns
    PROVE  /\ \A p \in Priorities : StaysAside(RotatedSched(p))
           /\ \A t \in Threads : StartThread(t) => StaysAside(sched')
<1>1. /\ sched.status[cur] \in {{"RUNNING"}, {"READY"}} /\ cur \in AllThreads
      /\ Consistent(sched) /\ \A x \in Threads : x \in AllThreads
  BY CallerRuns DEF Runnable, cur, Inv, ThreadInv, AllThreads
<1>2. /\ QueueOK(sched) /\ sched \in SchedType /\ sched.status \in [AllThreads -> SUBSET StatusBits]
      /\ DOMAIN sched = {"status", "prio", "queue", "cur", "wait"}
  BY <1>1, SchedTypes DEF Consistent, QueueOK, SchedType
<1>3. \A x \in Threads : Has(sched, x, "SUSPEND") =>
         x # cur /\ sched.status[x] \in {{"SUSPEND"}, {"WAIT", "SUSPEND"}}
  BY <1>1, SuspendedStatus
<1>4. ASSUME NEW p \in Priorities PROVE StaysAside(RotatedSched(p))
  <2>1. \A x \in Threads : x # cur => RotatedSched(p).status[x] = sched.status[x]
    BY <1>1, <1>2 DEF RotatedSched
  <2> QED
    BY <1>3, <2>1 DEF StaysAside, Has
<1>5. ASSUME NEW t \in Threads, StartThread(t) PROVE StaysAside(sched')
  <2> DEFINE r == [sched EXCEPT !.prio[t] = ResetPriority(t), !.wait[t] = NoWait]
             preempts == r.prio[cur] > r.prio[t]
             m == IF preempts THEN MakeReady(r, cur) ELSE r
  <2>1. sched' = MakeReady(m, t) /\ sched.status[t] = {"DORMANT"}
    BY <1>5 DEF StartThread
  <2>2. r.status = sched.status /\ DOMAIN r = {"status", "prio", "queue", "cur", "wait"}
    BY <1>2
  <2> HIDE DEF r
  <2>3. /\ DOMAIN MakeReady(r, cur) = {"status", "prio", "queue", "cur", "wait"}
        /\ MakeReady(r, cur).status \in {sched.status, [sched.status EXCEPT ![cur] = {"READY"}]}
    BY <1>2, <2>2 DEF MakeReady
  <2>4. /\ DOMAIN m = {"status", "prio", "queue", "cur", "wait"}
        /\ m.status \in {sched.status, [sched.status EXCEPT ![cur] = {"READY"}]}
    BY <2>2, <2>3
  <2> HIDE DEF m
  <2>5. MakeReady(m, t).status \in {m.status, [m.status EXCEPT ![t] = {"READY"}]}
    BY <2>4 DEF MakeReady
  <2>6. \A x \in Threads : x # cur /\ x # t => sched'.status[x] = sched.status[x]
    BY <1>1, <1>2, <2>1, <2>4, <2>5
  <2> QED
    BY <1>3, <2>1, <2>6 DEF StaysAside, Has
<1> QED
  BY <1>4, <1>5

\* What one step may do to the suspended threads.
Aside(t) == Has(sched, t, "SUSPEND") /\ Has(sched', t, "READY") => sched' = ResumedSched(t)

LEMMA StepAside ==
    ASSUME Misuse = {}, Inv, [Next]_vars
    PROVE  \A t \in Threads : Aside(t)
<1> USE DEF cur
<1>1. Consistent(sched) /\ \A t \in Threads : t \in AllThreads
  BY DEF Inv, ThreadInv, AllThreads
<1>2. ASSUME StaysAside(sched') PROVE \A t \in Threads : Aside(t)
  BY <1>2 DEF StaysAside, Aside
<1>3. ASSUME \A x \in Threads : Has(sched, x, "SUSPEND") => sched'.status[x] = sched.status[x]
      PROVE  StaysAside(sched')
  <2> SUFFICES ASSUME NEW x \in Threads, Has(sched, x, "SUSPEND") PROVE ~Has(sched', x, "READY")
    BY DEF StaysAside
  <2>1. sched.status[x] \in {{"SUSPEND"}, {"WAIT", "SUSPEND"}} /\ sched'.status[x] = sched.status[x]
    BY <1>1, <1>3, SuspendedStatus
  <2> QED
    BY <2>1 DEF Has
<1>4. ASSUME NEW t \in Threads,
             \/ CreateThread(t) \/ StartThread(t) \/ TerminateThread(t) \/ TerminateDeleteThread(t)
             \/ WakeupThread(t) \/ CancelWakeupThread(t) \/ ReleaseWaitThread(t)
             \/ SuspendThread(t) \/ ScheduledWakeup(t) \/ ThreadEndTimeout(t)
      PROVE  StaysAside(sched')
  <2>1. CASE CreateThread(t) \/ SuspendThread(t)
    BY <1>1, <2>1, OneThreadAside DEF CreateThread, SuspendThread
  <2>2. CASE StartThread(t)
    BY <2>2, CallerAside DEF StartThread, SomeoneRuns
  <2>3. CASE TerminateThread(t) \/ TerminateDeleteThread(t)
    BY <1>1, <2>3, EndAside DEF TerminateThread, TerminateDeleteThread, Stop
  <2>4. CASE \/ WakeupThread(t) \/ CancelWakeupThread(t) \/ ReleaseWaitThread(t)
             \/ ScheduledWakeup(t) \/ ThreadEndTimeout(t)
    <3>1. sched' = sched \/ sched' = ResumeFromWait(sched, t)
      BY <2>4
      DEF WakeupThread, CancelWakeupThread, ReleaseWaitThread, ScheduledWakeup, ThreadEndTimeout
    <3>2. StaysAside(ResumeFromWait(sched, t))
      BY <1>1, ResumeFromWaitAside
    <3> QED
      BY <1>3, <3>1, <3>2
  <2> QED
    BY <1>4, <2>1, <2>2, <2>3, <2>4
<1>5. ASSUME NEW t \in Threads, ResumeThread(t)
      PROVE  \A x \in Threads : Aside(x)
  <2> SUFFICES ASSUME NEW x \in Threads, x # t, Has(sched, x, "SUSPEND") PROVE ~Has(sched', x, "READY")
    BY <1>5 DEF ResumeThread, Aside
  <2>1. sched'.status[x] = sched.status[x] /\ sched.status[x] \in {{"SUSPEND"}, {"WAIT", "SUSPEND"}}
    BY <1>1, <1>5, OneThreadAside, SuspendedStatus DEF ResumeThread
  <2> QED
    BY <2>1 DEF Has
<1>6. CASE ExitThread \/ ExitDeleteThread
  <2>1. cur \in Threads
    BY <1>6 DEF ExitThread, ExitDeleteThread, MayExit, ThreadRuns
  <2> QED
    BY <1>1, <1>2, <1>6, <2>1, EndAside DEF ExitThread, ExitDeleteThread, Stop
<1>7. ASSUME NEW t \in AllThreads, NEW p \in Priorities, ChangeThreadPriority(t, p)
      PROVE  StaysAside(sched')
  BY <1>1, <1>7, OneThreadAside DEF ChangeThreadPriority
<1>8. ASSUME NEW p \in Priorities, RotateThreadReadyQueue(p)
      PROVE  StaysAside(sched')
  BY <1>8, CallerAside DEF RotateThreadReadyQueue
<1>9. CASE UNCHANGED vars \/ SuspendDispatchThread \/ CpuSuspendIntr \/ KernelIdle
           \/ DelayThreadZero
           \/ \E enabled \in BOOLEAN : ResumeDispatchThread(enabled)
  BY <1>2, <1>3, <1>9 DEF vars, SuspendDispatchThread, CpuSuspendIntr, KernelIdle, DelayThreadZero,
                            ResumeDispatchThread
<1>10. CASE CpuResumeIntr \/ TriggerInterrupt \/ TriggerResched
  <2>1. sched' \in {sched, SwitchOffThread(sched)}
    BY <1>10 DEF CpuResumeIntr, TriggerInterrupt, TriggerResched, EnterHandler
  <2> QED
    BY <1>1, <1>2, <1>3, <2>1, SwitchOffKeepsSuspended
<1>11. CASE TriggerIgnored
  <2> DEFINE off == SwitchOffThread(sched)
  <2>1. Consistent(off)
    BY <1>1, SwitchOffSwitched DEF Switched
  <2>2. \A x \in Threads : Has(sched, x, "SUSPEND") => off.status[x] = sched.status[x]
    BY <1>1, SwitchOffKeepsSuspended
  <2> HIDE DEF off
  <2>3. CASE CanSwitchTo(off, cur) /\ sched' = SwitchContext(off, cur)
    <3>1. cur \in AllThreads /\ Has(off, cur, "READY")
      BY <2>1, <2>3, CanSwitchToReady
    <3>2. \A x \in Threads : Has(sched, x, "SUSPEND") => sched'.status[x] = off.status[x]
      BY <1>1, <2>1, <2>2, <2>3, <3>1, SwitchKeepsSuspended DEF Has
    <3> QED
      BY <1>2, <1>3, <2>2, <3>2
  <2>4. CASE sched' = off
    BY <1>2, <1>3, <2>2, <2>4
  <2> QED
    BY <1>11, <2>3, <2>4 DEF TriggerIgnored, off
<1>12. CASE ReturnFromInterrupt
  <2>1. CASE sched' = sched
    BY <1>2, <1>3, <2>1
  <2>2. CASE CanSwitchTo(sched, before) /\ sched' = SwitchContext(sched, before)
    <3>1. before \in AllThreads /\ Has(sched, before, "READY")
      BY <1>1, <2>2, CanSwitchToReady
    <3> QED
      BY <1>1, <1>2, <1>3, <2>2, <3>1, SwitchKeepsSuspended
  <2> QED
    BY <1>12, <2>1, <2>2 DEF ReturnFromInterrupt
<1>13. CASE ReSchedule
  <2>1. sched' \in {sched, NextThread(sched)}
    BY <1>13 DEF ReSchedule
  <2> QED
    BY <1>1, <1>2, <1>3, <2>1, NextThreadKeepsSuspended
<1>14. CASE DelayThread \/ SleepThread \/ \E t \in Threads, timeout \in BOOLEAN : WaitThreadEnd(t, timeout)
  <2>1. MayWait
    BY <1>14 DEF DelayThread, SleepThread, WaitThreadEnd
  <2>2. cur \in AllThreads /\ \A t \in Threads : t \in AllThreads
    BY <1>1, <2>1 DEF MayWait, ThreadRuns
  <2>3. CASE sched' = sched
    BY <1>2, <1>3, <2>3
  <2>4. ASSUME NEW type \in WaitTypes, NEW id \in AllThreads \union Objects \union {NoThread},
               sched' = WaitCurThread(sched, type, id)
        PROVE  StaysAside(sched')
    <3>1. /\ sched'.status[cur] = {"WAIT"}
          /\ \A x \in AllThreads : x # cur => sched'.status[x] = sched.status[x]
      BY <2>1, <2>4, WaitingFacts
    <3>2. sched.status[cur] \in {{"RUNNING"}, {"READY"}}
      BY <2>1, CallerRuns DEF MayWait, SomeoneRuns, Runnable
    <3> QED
      BY <1>1, <1>3, <3>1, <3>2 DEF Has
  <2>5. \/ sched' = sched
        \/ \E type \in WaitTypes, id \in AllThreads \union Objects \union {NoThread} :
              sched' = WaitCurThread(sched, type, id)
    BY <1>14, <2>2 DEF DelayThread, SleepThread, WaitThreadEnd, WaitTypes
  <2> QED
    BY <1>2, <2>3, <2>4, <2>5
<1> QED
  BY <1>2, <1>4, <1>5, <1>6, <1>7, <1>8, <1>9, <1>10, <1>11, <1>12, <1>13, <1>14 DEF Next

\* Nothing but sceKernelResumeThread() makes a suspended thread ready: no end of a
\* wait, timer, interrupt, end of another thread or change of priority does.
THEOREM OnlyResumedAfterSuspend ==
    ASSUME Misuse = {}
    PROVE  Spec => SuspendedOnlyResumed
<1> DEFINE Step == \A t \in Threads :
                      Has(sched, t, "SUSPEND") /\ Has(sched', t, "READY") => sched' = ResumedSched(t)
<1>1. Inv /\ [Next]_vars => Step
  BY StepAside DEF Aside
<1> QED
  BY <1>1, Invariance, PTL DEF Spec, SuspendedOnlyResumed
=============================================================================
