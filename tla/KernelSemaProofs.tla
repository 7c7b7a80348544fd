--------------------------- MODULE KernelSemaProofs ---------------------------
(* The semaphores, for every set of threads and semaphores and all counts:  *)
(* no waiting thread is missed, none gets its units twice or waits beyond   *)
(* its time-out, and a signal leaves nobody behind who could be served.     *)
(* Last, that they implement the semaphores of Semaphore.tla.               *)
EXTENDS KernelSema, KernelWaitProofs, WellFoundedInduction

\* What is noted of a semaphore, and of a wait for one.
SemaRecords == [exists : BOOLEAN, fifo : BOOLEAN, init : Nat, max : Nat,
                count : Nat, waiting : Seq(Threads)]

AskRecords == [want : Wanted \union {0}, timed : BOOLEAN, told : Told]

SemasTyped ==
    /\ semas \in [Objects -> SemaRecords]
    /\ \A s \in Objects : IsInjective(semas[s].waiting)

AsksAreTyped ==
    /\ asks \in [Threads -> AskRecords]
    /\ semaTimers \in [Threads -> 0 .. MaxSemaEvents]

\* Only the time-out that began first can have begun outside of a reschedule.
TimeoutsNested ==
    /\ timedOut \in Seq([sema : Objects, phase : {"run", "resched"}])
    /\ timedOut # <<>> => phase = "resched"
    /\ \A i \in DOMAIN timedOut : i < Len(timedOut) => timedOut[i].phase = "resched"

\* t was given a wait for s and did not run since, or still waits.
Awaits(sd, t, s) == sd.wait[t] = [type |-> "SEMA", id |-> s]

WaitsForSemas == \A t \in Threads : sched.wait[t].type = "SEMA" => sched.wait[t].id \in Objects

\* GrantedOnce, also for a thread that is deleted.
GrantedGone ==
    \A s \in Objects, t \in Threads :
        Awaits(sched, t, s) /\ asks[t].told = "granted" => ~Contains(semas[s].waiting, t)

\* The inductive invariant.
SemaInv ==
    /\ Inv
    /\ SemasTyped
    /\ AsksAreTyped
    /\ TimeoutsNested
    /\ WaitsForSemas
    /\ SemaWaiterListed
    /\ TimedWaitEnds
    /\ GrantedGone

\* It implies the properties.
LEMMA SemaInvMeans ==
    ASSUME SemaInv
    PROVE  SemaTypeOK /\ SemaWaiterListed /\ TimedWaitEnds /\ GrantedOnce
<1>1. SemaTypeOK
  BY DEF SemaInv, SemaTypeOK, SemasTyped, AsksAreTyped, TimeoutsNested, SemaRecords, AskRecords
<1>2. GrantedOnce
  BY DEF SemaInv, GrantedOnce, GrantedGone, Awaits, VerifyWait
<1> QED
  BY <1>1, <1>2 DEF SemaInv

\* At the start there is no semaphore and no wait.
LEMMA InitSemaInv == SemaInit => SemaInv
<1> SUFFICES ASSUME SemaInit PROVE SemaInv
  OBVIOUS
<1>1. Inv
  BY InitInv DEF SemaInit
<1>2. /\ semas = [s \in Objects |-> NoSema] /\ asks = [t \in Threads |-> NoAsk]
      /\ semaTimers = [t \in Threads |-> 0] /\ timedOut = <<>>
      /\ sched.wait = [t \in AllThreads |-> NoWait]
  BY DEF SemaInit, Init
<1>3. \A t \in Threads : t \in AllThreads /\ sched.wait[t].type = "NONE"
  BY <1>2 DEF AllThreads, NoWait
<1>4. \A s, t : t \in Threads => ~Awaits(sched, t, s) /\ ~IsWaitingFor(sched, t, "SEMA", s)
  BY <1>3 DEF Awaits, IsWaitingFor, VerifyWait
<1>5. NoSema \in SemaRecords /\ IsInjective(NoSema.waiting)
  BY DEF NoSema, SemaRecords, IsInjective
<1>6. NoAsk \in AskRecords
  BY DEF NoAsk, AskRecords, Told
<1>7. SemasTyped
  BY <1>2, <1>5 DEF SemasTyped
<1>8. AsksAreTyped
  BY <1>2, <1>6, SemaAssumption DEF AsksAreTyped
<1>9. TimeoutsNested
  BY <1>2 DEF TimeoutsNested
<1>10. WaitsForSemas
  BY <1>3 DEF WaitsForSemas
<1>11. SemaWaiterListed /\ TimedWaitEnds /\ GrantedGone
  BY <1>4 DEF SemaWaiterListed, TimedWaitEnds, GrantedGone
<1> QED
  BY <1>1, <1>7, <1>8, <1>9, <1>10, <1>11 DEF SemaInv
-----------------------------------------------------------------------------
(* Waits *)

\* Who waits, or was told something, did so before.
LEMMA AwaitedBefore ==
    ASSUME NEW sd, NEW r, KeepsObjectWaits(sd, r), NEW t \in Threads, NEW s
    PROVE  /\ Awaits(r, t, s) => Awaits(sd, t, s)
           /\ IsWaitingFor(r, t, "SEMA", s) => IsWaitingFor(sd, t, "SEMA", s)
<1>1. "SEMA" \in ObjectWaits
  BY DEF ObjectWaits
<1>2. Awaits(r, t, s) => Awaits(sd, t, s)
  BY <1>1 DEF Awaits, KeepsObjectWaits
<1> QED
  BY <1>1, <1>2, ObjectWaitedBefore

\* What is asked for is remembered as long as the wait is, and the others keep it.
AsksKept ==
    \A t \in Threads : sched'.wait[t].type = "SEMA" =>
        asks'[t].want = asks[t].want /\ asks'[t].timed = asks[t].timed

\* Nobody who goes on waiting loses an event.
TimersKept ==
    \A s \in Objects, t \in Threads :
        IsWaitingFor(sched', t, "SEMA", s) => semaTimers'[t] = semaTimers[t]

\* A step that starts no wait for a semaphore keeps what is said about the waits.
LEMMA WaitsStay ==
    ASSUME SemaInv, KeepsObjectWaits(sched, sched'), AsksKept, TimersKept
    PROVE  WaitsForSemas' /\ TimedWaitEnds'
<1>1. WaitsForSemas'
  BY DEF SemaInv, WaitsForSemas, KeepsObjectWaits, ObjectWaits
<1>2. TimedWaitEnds'
  <2> SUFFICES ASSUME NEW s \in Objects, NEW t \in Threads,
                      IsWaitingFor(sched', t, "SEMA", s), asks'[t].timed
               PROVE  semaTimers'[t] > 0
    BY DEF TimedWaitEnds
  <2>1. IsWaitingFor(sched, t, "SEMA", s)
    BY AwaitedBefore
  <2>2. sched'.wait[t].type = "SEMA"
    BY DEF IsWaitingFor, VerifyWait
  <2>3. semaTimers'[t] = semaTimers[t] /\ asks[t].timed
    BY <2>2 DEF AsksKept, TimersKept
  <2> QED
    BY <2>1, <2>3 DEF SemaInv, TimedWaitEnds
<1> QED
  BY <1>1, <1>2

\* The asks that are kept have the types of those before.
LEMMA CurrentAsksFacts ==
    ASSUME SemaInv, NEW sd
    PROVE  /\ CurrentAsks(sd) \in [Threads -> AskRecords]
           /\ \A t \in Threads : sd.wait[t].type = "SEMA" => CurrentAsks(sd)[t] = asks[t]
<1>1. NoAsk \in AskRecords
  BY DEF NoAsk, AskRecords, Told
<1> QED
  BY <1>1 DEF CurrentAsks, SemaInv, AsksAreTyped

\* When no semaphore changes, the lists stay right.
LEMMA SemasStay ==
    ASSUME SemaInv, semas' = semas,
           \A t \in Threads, s \in Objects :
               /\ IsWaitingFor(sched', t, "SEMA", s) => IsWaitingFor(sched, t, "SEMA", s)
               /\ Awaits(sched', t, s) /\ asks'[t].told = "granted" =>
                      Awaits(sched, t, s) /\ asks[t].told = "granted"
    PROVE  SemasTyped' /\ SemaWaiterListed' /\ GrantedGone'
<1>1. SemasTyped'
  BY DEF SemaInv, SemasTyped
<1>2. SemaWaiterListed'
  BY DEF SemaInv, SemaWaiterListed, SemaExists
<1>3. GrantedGone'
  BY DEF SemaInv, GrantedGone
<1> QED
  BY <1>1, <1>2, <1>3

\* When one does, only its list has to be looked at.
LEMMA OneSema ==
    ASSUME SemaInv, NEW s \in Objects, NEW sema \in SemaRecords, IsInjective(sema.waiting),
           semas' = [semas EXCEPT ![s] = sema],
           \A t \in Threads : IsWaitingFor(sched', t, "SEMA", s) => sema.exists /\ Contains(sema.waiting, t),
           \A t \in Threads : Awaits(sched', t, s) /\ asks'[t].told = "granted" => ~Contains(sema.waiting, t),
           \A t \in Threads, r \in Objects \ {s} :
               /\ IsWaitingFor(sched', t, "SEMA", r) => IsWaitingFor(sched, t, "SEMA", r)
               /\ Awaits(sched', t, r) /\ asks'[t].told = "granted" =>
                      Awaits(sched, t, r) /\ asks[t].told = "granted"
    PROVE  SemasTyped' /\ SemaWaiterListed' /\ GrantedGone'
<1>1. semas \in [Objects -> SemaRecords] /\ \A r \in Objects : IsInjective(semas[r].waiting)
  BY DEF SemaInv, SemasTyped
<1>2. semas' \in [Objects -> SemaRecords] /\ \A r \in Objects : semas'[r] = IF r = s THEN sema ELSE semas[r]
  BY <1>1
<1>3. SemasTyped'
  BY <1>1, <1>2 DEF SemasTyped
<1>4. SemaWaiterListed'
  <2> SUFFICES ASSUME NEW r \in Objects, NEW t \in Threads, IsWaitingFor(sched', t, "SEMA", r)
               PROVE  semas'[r].exists /\ Contains(semas'[r].waiting, t)
    BY DEF SemaWaiterListed, SemaExists
  <2>1. CASE r = s
    BY <1>2, <2>1
  <2>2. CASE r # s
    <3>1. IsWaitingFor(sched, t, "SEMA", r)
      BY <2>2
    <3> QED
      BY <1>2, <2>2, <3>1 DEF SemaInv, SemaWaiterListed, SemaExists
  <2> QED
    BY <2>1, <2>2
<1>5. GrantedGone'
  <2> SUFFICES ASSUME NEW r \in Objects, NEW t \in Threads,
                      Awaits(sched', t, r), asks'[t].told = "granted"
               PROVE  ~Contains(semas'[r].waiting, t)
    BY DEF GrantedGone, Awaits
  <2>1. CASE r = s
    BY <1>2, <2>1
  <2>2. CASE r # s
    <3>1. Awaits(sched, t, r) /\ asks[t].told = "granted"
      BY <2>2
    <3> QED
      BY <1>2, <2>2, <3>1 DEF SemaInv, GrantedGone
  <2> QED
    BY <2>1, <2>2
<1> QED
  BY <1>3, <1>4, <1>5

\* A semaphore with another count and another list.
SemaWith(old, count, w) == [old EXCEPT !.count = count, !.waiting = w]

LEMMA SemaWithFacts ==
    ASSUME NEW old \in SemaRecords, NEW count \in Nat, NEW w \in Seq(Threads)
    PROVE  /\ SemaWith(old, count, w) \in SemaRecords
           /\ SemaWith(old, count, w).exists = old.exists
           /\ SemaWith(old, count, w).count = count
           /\ SemaWith(old, count, w).waiting = w
<1> DEFINE counted == [old EXCEPT !.count = count]
<1>1. counted \in SemaRecords /\ counted.exists = old.exists /\ counted.count = count
  BY DEF SemaRecords
<1>2. SemaWith(old, count, w) = [counted EXCEPT !.waiting = w]
  BY DEF SemaWith
<1> HIDE DEF counted
<1> QED
  BY <1>1, <1>2 DEF SemaRecords

\* The time-outs in progress stay so.
LEMMA TimeoutsStay ==
    ASSUME SemaInv, timedOut' = timedOut, phase' = "resched" \/ (phase' = phase)
    PROVE  TimeoutsNested'
BY DEF SemaInv, TimeoutsNested
-----------------------------------------------------------------------------
(* Steps that resume no waiting thread *)

\* A step of the thread manager.
LEMMA ThreadStepSemaInv ==
    ASSUME Misuse = {}, SemaInv, ThreadStep
    PROVE  SemaInv'
<1>1. /\ Inv /\ Next /\ asks' = CurrentAsks(sched')
      /\ semas' = semas /\ semaTimers' = semaTimers /\ timedOut' = timedOut
      /\ timedOut # <<>> => phase' = "resched"
  BY DEF SemaInv, ThreadStep
<1>2. Inv' /\ KeepsObjectWaits(sched, sched')
  BY <1>1, NextInv, StepKeepsObjectWaits
<1>3. /\ asks' \in [Threads -> AskRecords]
      /\ \A t \in Threads : sched'.wait[t].type = "SEMA" => asks'[t] = asks[t]
  BY <1>1, CurrentAsksFacts
<1>4. AsksAreTyped'
  BY <1>1, <1>3 DEF SemaInv, AsksAreTyped
<1>5. TimeoutsNested'
  BY <1>1 DEF SemaInv, TimeoutsNested
<1>6. AsksKept /\ TimersKept
  BY <1>1, <1>3 DEF AsksKept, TimersKept
<1>7. WaitsForSemas' /\ TimedWaitEnds'
  BY <1>2, <1>6, WaitsStay
<1>8. SemasTyped' /\ SemaWaiterListed' /\ GrantedGone'
  <2>1. \A t \in Threads, s \in Objects : Awaits(sched', t, s) => asks'[t] = asks[t]
    BY <1>3 DEF Awaits
  <2> QED
    BY <1>1, <1>2, <2>1, AwaitedBefore, SemasStay
<1> QED
  BY <1>2, <1>4, <1>5, <1>7, <1>8 DEF SemaInv

\* A call that changes one semaphore and no thread.
LEMMA CallSemaInv ==
    ASSUME SemaInv, UNCHANGED <<vars, asks, semaTimers, timedOut>>,
           NEW s \in Objects, NEW sema \in SemaRecords, IsInjective(sema.waiting),
           semas' = [semas EXCEPT ![s] = sema],
           \A t \in Threads : IsWaitingFor(sched, t, "SEMA", s) => sema.exists /\ Contains(sema.waiting, t),
           \A t \in Threads : Awaits(sched, t, s) /\ asks[t].told = "granted" => ~Contains(sema.waiting, t)
    PROVE  SemaInv'
<1>1. Inv' /\ sched' = sched /\ asks' = asks
  BY QuietSelf, QuietStep DEF vars, SemaInv, Inv, ThreadInv
<1>2. AsksAreTyped' /\ WaitsForSemas' /\ TimedWaitEnds'
  BY DEF vars, SemaInv, AsksAreTyped, WaitsForSemas, TimedWaitEnds
<1>3. TimeoutsNested'
  BY DEF vars, SemaInv, TimeoutsNested
<1>4. SemasTyped' /\ SemaWaiterListed' /\ GrantedGone'
  BY <1>1, OneSema
<1> QED
  BY <1>1, <1>2, <1>3, <1>4 DEF SemaInv

\* sceKernelCreateSema()
LEMMA CreateSemaInv ==
    ASSUME SemaInv, NEW s \in Objects, NEW arguments \in Creations, CreateSema(s, arguments)
    PROVE  SemaInv'
<1> DEFINE sema == [exists |-> TRUE, fifo |-> arguments.fifo, init |-> arguments.init,
                    max |-> arguments.max, count |-> arguments.init, waiting |-> <<>>]
<1>1. arguments \in [fifo : BOOLEAN, init : Nat, max : Nat]
  BY SemaAssumption
<1>2. <<>> \in Seq(Threads) /\ IsInjective(<<>>) /\ \A t : ~Contains(<<>>, t)
  BY DEF IsInjective, Contains
<1>3. sema \in SemaRecords /\ sema.waiting = <<>>
  BY <1>1, <1>2 DEF SemaRecords
<1>4. /\ ~SemaExists(s) /\ semas' = [semas EXCEPT ![s] = sema]
      /\ UNCHANGED <<vars, asks, semaTimers, timedOut>>
  BY DEF CreateSema
<1> HIDE DEF sema
<1>5. \A t \in Threads : ~IsWaitingFor(sched, t, "SEMA", s)
  BY <1>4 DEF SemaInv, SemaWaiterListed
<1> QED
  BY <1>2, <1>3, <1>4, <1>5, CallSemaInv

\* sceKernelPollSema(), and sceKernelWaitSema() when it need not wait.
LEMMA TakeUnitsInv ==
    ASSUME SemaInv, NEW s \in Objects, NEW wanted \in Wanted, TakeUnits(s, wanted)
    PROVE  SemaInv'
<1> DEFINE old == semas[s]
           sema == [old EXCEPT !.count = old.count - wanted]
<1>1. /\ old \in SemaRecords /\ IsInjective(old.waiting) /\ wanted \in Nat
      /\ semas \in [Objects -> SemaRecords]
  BY SemaAssumption DEF SemaInv, SemasTyped
<1>2. /\ old.exists /\ old.count >= wanted /\ semas' = [semas EXCEPT ![s] = sema]
      /\ UNCHANGED <<vars, asks, semaTimers, timedOut>>
  BY <1>1 DEF TakeUnits, SemaExists
<1>3. old.count \in Nat /\ old.count - wanted \in Nat
  BY <1>1, <1>2 DEF SemaRecords
<1>4. sema \in SemaRecords /\ sema.waiting = old.waiting /\ sema.exists
  <2> HIDE DEF old
  <2> QED
    BY <1>1, <1>2, <1>3 DEF SemaRecords
<1> HIDE DEF sema
<1>5. \A t \in Threads : IsWaitingFor(sched, t, "SEMA", s) => Contains(sema.waiting, t)
  BY <1>4 DEF SemaInv, SemaWaiterListed
<1>6. \A t \in Threads : Awaits(sched, t, s) /\ asks[t].told = "granted" => ~Contains(sema.waiting, t)
  BY <1>4 DEF SemaInv, GrantedGone
<1> QED
  BY <1>1, <1>2, <1>4, <1>5, <1>6, CallSemaInv

\* sceKernelReferSemaStatus() cleans the list up.
LEMMA ReferSemaStatusInv ==
    ASSUME SemaInv, NEW s \in Objects, ReferSemaStatus(s)
    PROVE  SemaInv'
<1> DEFINE old == semas[s]
<1>1. /\ old \in SemaRecords /\ IsInjective(old.waiting) /\ old.waiting \in Seq(Threads)
      /\ semas \in [Objects -> SemaRecords]
  BY DEF SemaInv, SemasTyped, SemaRecords
<1>2. PICK w \in CleanedUp(old.waiting, Asking(sched, s)) : semas' = [semas EXCEPT ![s].waiting = w]
  BY DEF ReferSemaStatus
<1>3. old.exists /\ UNCHANGED <<vars, asks, semaTimers, timedOut>>
  BY DEF ReferSemaStatus, SemaExists
<1>4. /\ w \in Seq(Threads) /\ IsInjective(w)
      /\ \A x : Contains(w, x) <=> Contains(old.waiting, x) /\ x \in Asking(sched, s)
  BY <1>1, <1>2, CleanedUpFacts
<1> DEFINE sema == [old EXCEPT !.waiting = w]
<1>5. semas' = [semas EXCEPT ![s] = sema]
  BY <1>1, <1>2
<1>6. sema \in SemaRecords /\ sema.waiting = w /\ sema.exists
  <2> HIDE DEF old
  <2> QED
    BY <1>1, <1>3, <1>4 DEF SemaRecords
<1> HIDE DEF sema
<1>7. \A t \in Threads : IsWaitingFor(sched, t, "SEMA", s) => Contains(w, t)
  BY <1>4 DEF SemaInv, SemaWaiterListed, Asking, IsWaitingFor
<1>8. \A t \in Threads : Awaits(sched, t, s) /\ asks[t].told = "granted" => ~Contains(w, t)
  BY <1>4 DEF SemaInv, GrantedGone
<1> QED
  BY <1>3, <1>4, <1>5, <1>6, <1>7, <1>8, CallSemaInv
-----------------------------------------------------------------------------
(* Answers: threads that count as waiting for s, and are listed in w, are resumed. *)

\* After an answer none of them waits, and who is not among them is as before.
LEMMA AnswerFacts ==
    ASSUME SemaInv, NEW sd, Consistent(sd), KeepsObjectWaits(sched, sd), NEW s \in Objects,
           NEW w \in Seq(Threads), IsInjective(w), \A t : Contains(w, t) => VerifyWait(sd, t, "SEMA", s),
           NEW told \in Told, Answer(sd, s, w, told)
    PROVE  /\ Quiet(sd, sched') /\ KeepsObjectWaits(sched, sched') /\ KeepsObjectWaits(sd, sched')
           /\ AsksAreTyped' /\ WaitsForSemas' /\ TimedWaitEnds'
           /\ \A t \in Threads : Contains(w, t) => ~Has(sched', t, "WAIT")
           /\ \A t \in Threads : sched'.wait[t].type = "SEMA" =>
                 asks'[t] = IF Contains(w, t) THEN [asks[t] EXCEPT !.told = told] ELSE asks[t]
           /\ \A t \in Threads, r \in Objects : Awaits(sched', t, r) /\ Contains(w, t) => r = s
           /\ UNCHANGED <<wakeupCount, endWaiters, timers, dispatch, suspender, intrVars>>
<1>1. /\ sched' = ResumeAll(sd, w, "SEMA", s)
      /\ asks' = [t \in Threads |-> IF t \in ToSet(w) THEN [asks[t] EXCEPT !.told = told]
                                    ELSE CurrentAsks(sd)[t]]
      /\ semaTimers' = [t \in Threads |-> IF t \in ToSet(w) /\ asks[t].timed THEN 0 ELSE semaTimers[t]]
      /\ UNCHANGED <<wakeupCount, endWaiters, timers, dispatch, suspender, intrVars>>
  BY DEF Answer
<1>2. /\ w \in Seq(AllThreads) /\ QueueOK(sd) /\ \A t \in Threads : t \in AllThreads
  BY SeqMonotonic DEF AllThreads, Consistent
<1>3. /\ Quiet(sd, sched') /\ sched'.wait = sd.wait
      /\ \A t \in AllThreads : sched'.status[t] = ResumedStatus(sd, w, "SEMA", s, t)
  BY <1>1, <1>2, ResumeAllFacts, ResumeAllQuiet
<1>4. KeepsObjectWaits(sched, sched') /\ KeepsObjectWaits(sd, sched')
  BY <1>3 DEF KeepsObjectWaits, Quiet, KeepsWaits
<1>5. \A t \in Threads : Contains(w, t) => ~Has(sched', t, "WAIT")
  BY <1>2, <1>3 DEF ResumedStatus, EndedWaitStatus, Has
<1>6. \A t : t \in ToSet(w) <=> Contains(w, t)
  BY DEF ToSet, Contains
<1>7. \A t \in Threads : sched'.wait[t].type = "SEMA" =>
         asks'[t] = IF Contains(w, t) THEN [asks[t] EXCEPT !.told = told] ELSE asks[t]
  BY <1>1, <1>3, <1>6, CurrentAsksFacts
<1>8. /\ asks \in [Threads -> AskRecords] /\ semaTimers \in [Threads -> 0 .. MaxSemaEvents]
      /\ MaxSemaEvents \in Nat
  BY SemaAssumption DEF SemaInv, AsksAreTyped
<1>9. AsksAreTyped'
  <2>1. \A t \in Threads : [asks[t] EXCEPT !.told = told] \in AskRecords
    BY <1>8 DEF AskRecords
  <2>2. asks' \in [Threads -> AskRecords]
    BY <1>1, <2>1, CurrentAsksFacts
  <2>3. semaTimers' \in [Threads -> 0 .. MaxSemaEvents]
    BY <1>1, <1>8
  <2> QED
    BY <2>2, <2>3 DEF AsksAreTyped
<1>10. AsksKept
  BY <1>7, <1>8 DEF AsksKept, AskRecords
<1>11. TimersKept
  BY <1>1, <1>5, <1>6 DEF TimersKept, IsWaitingFor
<1>12. WaitsForSemas' /\ TimedWaitEnds'
  BY <1>4, <1>10, <1>11, WaitsStay
<1>13. \A t \in Threads, r \in Objects : Awaits(sched', t, r) /\ Contains(w, t) => r = s
  BY <1>3 DEF Awaits, VerifyWait
<1> QED
  BY <1>1, <1>3, <1>4, <1>5, <1>7, <1>9, <1>12, <1>13

\* What an answer means for the semaphores other than s.
LEMMA AnswerElsewhere ==
    ASSUME KeepsObjectWaits(sched, sched'), NEW s \in Objects, NEW w, NEW told,
           \A t \in Threads : sched'.wait[t].type = "SEMA" =>
               asks'[t] = IF Contains(w, t) THEN [asks[t] EXCEPT !.told = told] ELSE asks[t],
           \A t \in Threads, r \in Objects : Awaits(sched', t, r) /\ Contains(w, t) => r = s
    PROVE  \A t \in Threads, r \in Objects \ {s} :
               /\ IsWaitingFor(sched', t, "SEMA", r) => IsWaitingFor(sched, t, "SEMA", r)
               /\ Awaits(sched', t, r) /\ asks'[t].told = "granted" =>
                      Awaits(sched, t, r) /\ asks[t].told = "granted"
<1>1. \A t \in Threads, r \in Objects \ {s} : Awaits(sched', t, r) => asks'[t] = asks[t]
  <2> SUFFICES ASSUME NEW t \in Threads, NEW r \in Objects \ {s}, Awaits(sched', t, r)
               PROVE  asks'[t] = asks[t]
    OBVIOUS
  <2>1. ~Contains(w, t)
    OBVIOUS
  <2>2. sched'.wait[t].type = "SEMA"
    BY DEF Awaits
  <2> QED
    BY <2>1, <2>2
<1> QED
  BY <1>1, AwaitedBefore

\* __KernelClearSemaThreads() leaves nobody waiting for s.
LEMMA ClearSemaThreadsFacts ==
    ASSUME SemaInv, NEW s \in Objects, ClearSemaThreads(s)
    PROVE  /\ Inv' /\ AsksAreTyped' /\ TimeoutsNested' /\ WaitsForSemas' /\ TimedWaitEnds'
           /\ \A t \in Threads : ~IsWaitingFor(sched', t, "SEMA", s)
           /\ \A t \in Threads, r \in Objects \ {s} :
               /\ IsWaitingFor(sched', t, "SEMA", r) => IsWaitingFor(sched, t, "SEMA", r)
               /\ Awaits(sched', t, r) /\ asks'[t].told = "granted" =>
                      Awaits(sched, t, r) /\ asks[t].told = "granted"
<1> DEFINE woken == InOrder(semas[s].waiting, Asking(sched, s))
<1>1. /\ Answer(sched, s, woken, "error") /\ phase' \in {phase, "resched"} /\ timedOut' = timedOut
  BY DEF ClearSemaThreads
<1>2. semas[s].waiting \in Seq(Threads) /\ IsInjective(semas[s].waiting)
  BY DEF SemaInv, SemasTyped, SemaRecords
<1>3. /\ woken \in Seq(Threads) /\ IsInjective(woken)
      /\ \A t : Contains(woken, t) <=> Contains(semas[s].waiting, t) /\ t \in Asking(sched, s)
  BY <1>2, InOrderFacts
<1>4. \A t : Contains(woken, t) => VerifyWait(sched, t, "SEMA", s)
  BY <1>3 DEF Asking
<1>5. Consistent(sched) /\ KeepsObjectWaits(sched, sched) /\ "error" \in Told
  BY DEF SemaInv, Inv, ThreadInv, KeepsObjectWaits, Told
<1> HIDE DEF woken
<1>6. /\ Quiet(sched, sched') /\ KeepsObjectWaits(sched, sched')
      /\ AsksAreTyped' /\ WaitsForSemas' /\ TimedWaitEnds'
      /\ \A t \in Threads : Contains(woken, t) => ~Has(sched', t, "WAIT")
      /\ \A t \in Threads : sched'.wait[t].type = "SEMA" =>
            asks'[t] = IF Contains(woken, t) THEN [asks[t] EXCEPT !.told = "error"] ELSE asks[t]
      /\ \A t \in Threads, r \in Objects : Awaits(sched', t, r) /\ Contains(woken, t) => r = s
      /\ UNCHANGED <<wakeupCount, endWaiters, timers, dispatch, suspender, intrVars>>
  BY <1>1, <1>3, <1>4, <1>5, AnswerFacts
<1>7. Inv'
  BY <1>1, <1>6, QuietStep DEF SemaInv
<1>8. \A t \in Threads : ~IsWaitingFor(sched', t, "SEMA", s)
  <2> SUFFICES ASSUME NEW t \in Threads, IsWaitingFor(sched', t, "SEMA", s) PROVE FALSE
    OBVIOUS
  <2>1. IsWaitingFor(sched, t, "SEMA", s)
    BY <1>6, AwaitedBefore
  <2>2. Contains(woken, t)
    BY <1>3, <2>1 DEF SemaInv, SemaWaiterListed, Asking, IsWaitingFor
  <2> QED
    BY <1>6, <2>2 DEF IsWaitingFor
<1>9. TimeoutsNested'
  BY <1>1, TimeoutsStay
<1>10. \A t \in Threads, r \in Objects \ {s} :
          /\ IsWaitingFor(sched', t, "SEMA", r) => IsWaitingFor(sched, t, "SEMA", r)
          /\ Awaits(sched', t, r) /\ asks'[t].told = "granted" =>
                 Awaits(sched, t, r) /\ asks[t].told = "granted"
  BY <1>6, AnswerElsewhere
<1> QED
  BY <1>6, <1>7, <1>8, <1>9, <1>10

\* sceKernelDeleteSema() and sceKernelCancelSema() empty the list.
LEMMA ClearedSemaInv ==
    ASSUME SemaInv, NEW s \in Objects, ClearSemaThreads(s), NEW sema \in SemaRecords,
           sema.waiting = <<>>, semas' = [semas EXCEPT ![s] = sema]
    PROVE  SemaInv'
<1>1. IsInjective(<<>>) /\ \A t : ~Contains(<<>>, t)
  BY DEF IsInjective, Contains
<1>2. SemasTyped' /\ SemaWaiterListed' /\ GrantedGone'
  BY <1>1, ClearSemaThreadsFacts, OneSema
<1> QED
  BY <1>2, ClearSemaThreadsFacts DEF SemaInv

LEMMA DeleteSemaInv ==
    ASSUME SemaInv, NEW s \in Objects, DeleteSema(s)
    PROVE  SemaInv'
<1>1. NoSema \in SemaRecords /\ NoSema.waiting = <<>>
  BY DEF NoSema, SemaRecords
<1> QED
  BY <1>1, ClearedSemaInv DEF DeleteSema

LEMMA CancelSemaInv ==
    ASSUME SemaInv, NEW s \in Objects, NEW count \in 0 .. semas[s].max \union {semas[s].init},
           CancelSema(s, count)
    PROVE  SemaInv'
<1> DEFINE nobody == <<>>
           sema == SemaWith(semas[s], count, nobody)
<1>1. semas \in [Objects -> SemaRecords] /\ semas[s] \in SemaRecords
  BY DEF SemaInv, SemasTyped
<1>2. ClearSemaThreads(s) /\ semas' = [semas EXCEPT ![s] = sema]
  BY <1>1 DEF CancelSema, SemaWith
<1>3. count \in Nat /\ nobody \in Seq(Threads)
  BY <1>1 DEF SemaRecords
<1>4. sema \in SemaRecords /\ sema.waiting = nobody
  <2> HIDE DEF nobody
  <2>1. semas[s] \in SemaRecords
    BY <1>1
  <2> QED
    BY <1>3, <2>1, SemaWithFacts
<1> HIDE DEF sema
<1> QED
  BY <1>2, <1>4, ClearedSemaInv
-----------------------------------------------------------------------------
(* Units for waiting threads *)

\* What is asked for is a number.
LEMMA AsksAreNumbers ==
    ASSUME AsksAreTyped, NEW t \in Threads
    PROVE  asks[t].want \in Nat
<1>1. asks[t].want \in Wanted \union {0}
  BY DEF AsksAreTyped, AskRecords
<1>2. CASE asks[t].want \in Wanted
  BY <1>2, SemaAssumption
<1>3. CASE asks[t].want = 0
  BY <1>3
<1> QED
  BY <1>1, <1>2, <1>3

\* Looking at one more thread never leaves more.
LEMMA LeftShrinks ==
    ASSUME AsksAreTyped, NEW w \in Seq(Threads), NEW count \in Nat, NEW asking,
           NEW left \in LeftAfter(count, w, asking)
    PROVE  /\ left \in [0 .. Len(w) -> Nat] /\ left[0] = count
           /\ \A i, j \in 0 .. Len(w) : i <= j => left[j] <= left[i]
<1>1. /\ left \in [0 .. Len(w) -> 0 .. count] /\ left[0] = count
      /\ \A i \in DOMAIN w :
            left[i] = left[i - 1] - (IF Takes(left[i - 1], w[i], asking) THEN asks[w[i]].want ELSE 0)
  BY Zenon DEF LeftAfter
<1>2. left \in [0 .. Len(w) -> Nat] /\ Len(w) \in Nat
  BY <1>1
<1>3. \A i \in 1 .. Len(w) : left[i] <= left[i - 1]
  <2> SUFFICES ASSUME NEW i \in 1 .. Len(w) PROVE left[i] <= left[i - 1]
    OBVIOUS
  <2>1. left[i] \in Nat /\ left[i - 1] \in Nat
    BY <1>2
  <2>2. i \in DOMAIN w /\ w[i] \in Threads
    OBVIOUS
  <2>3. asks[w[i]].want \in Nat
    BY <2>2, AsksAreNumbers
  <2>4. \/ left[i] = left[i - 1] - asks[w[i]].want
        \/ left[i] = left[i - 1] - 0
    BY <1>1, <2>2
  <2> QED
    BY <2>1, <2>3, <2>4
<1>4. ASSUME NEW i \in 0 .. Len(w), \E j \in i .. Len(w) : left[j] > left[i]
      PROVE  FALSE
  <2> DEFINE larger == {j \in i .. Len(w) : left[j] > left[i]}
  <2>1. larger \in SUBSET Nat /\ larger # {}
    BY <1>2, <1>4
  <2> HIDE DEF larger
  <2>2. Min(larger) \in larger /\ \A j \in larger : Min(larger) <= j
    BY <2>1, MinOfNaturals
  <2>3. PICK m \in larger : \A j \in larger : m <= j
    BY <2>2
  <2>4. m \in i .. Len(w) /\ left[m] > left[i]
    BY <2>3 DEF larger
  <2>5. left[m] \in Nat /\ left[i] \in Nat
    BY <1>2, <2>4
  <2>6. m # i
    BY <2>4, <2>5
  <2>7. m - 1 \in i .. Len(w) /\ m \in 1 .. Len(w) /\ left[m - 1] \in Nat
    BY <1>2, <2>4, <2>6
  <2>8. left[m - 1] > left[i]
    BY <1>3, <2>4, <2>5, <2>7
  <2>9. m - 1 \in larger
    BY <2>7, <2>8 DEF larger
  <2> QED
    BY <2>3, <2>7, <2>9
<1>5. \A i, j \in 0 .. Len(w) : i <= j => left[j] <= left[i]
  <2> SUFFICES ASSUME NEW i \in 0 .. Len(w), NEW j \in 0 .. Len(w), i <= j
               PROVE  left[j] <= left[i]
    OBVIOUS
  <2>1. left[i] \in Nat /\ left[j] \in Nat /\ j \in i .. Len(w)
    BY <1>2
  <2> QED
    BY <1>4, <2>1
<1> QED
  BY <1>1, <1>2, <1>5

\* Sorting by priority moves entries.
LEMMA SortedFacts ==
    ASSUME SemaInv, NEW w \in Seq(Threads), IsInjective(w), NEW v \in Sorted(w)
    PROVE  /\ v \in Seq(Threads) /\ IsInjective(v)
           /\ \A x : Contains(v, x) <=> Contains(w, x)
<1> DEFINE prio(t) == IF Exists(sched, t) THEN sched.prio[t] ELSE 0
           precedes(t, u) == prio(t) < prio(u) \/ (prio(t) = prio(u) /\ t \in Ahead(w, u))
<1>1. /\ v \in [1 .. Len(w) -> ToSet(w)] /\ ToSet(v) = ToSet(w)
      /\ \A i, j \in 1 .. Len(w) : i < j => precedes(v[i], v[j])
  BY DEF Sorted
<1>2. \A t \in Threads : ~precedes(t, t)
  <2> SUFFICES ASSUME NEW t \in Threads PROVE ~precedes(t, t)
    OBVIOUS
  <2>1. t \notin Ahead(w, t)
    BY DEF Ahead, IsInjective
  <2>2. sched.prio \in [AllThreads -> AllPriorities]
    BY SchedTypes DEF SemaInv, Inv, ThreadInv, Consistent, QueueOK
  <2>3. AllPriorities \subseteq Nat /\ t \in AllThreads
    BY SchedulerAssumption DEF AllPriorities, AllThreads
  <2>4. prio(t) \in Nat
    BY <2>2, <2>3
  <2> QED
    BY <2>1, <2>4
<1> HIDE DEF precedes
<1>3. ToSet(w) \subseteq Threads
  BY DEF ToSet
<1>4. v \in Seq(Threads) /\ Len(v) = Len(w)
  BY <1>1, <1>3
<1>5. IsInjective(v)
  <2> SUFFICES ASSUME NEW i \in 1 .. Len(w), NEW j \in 1 .. Len(w), v[i] = v[j], i < j PROVE FALSE
    BY <1>4 DEF IsInjective
  <2> QED
    BY <1>1, <1>2, <1>3
<1>6. \A x : Contains(v, x) <=> Contains(w, x)
  <2>1. \A x : /\ Contains(v, x) <=> x \in ToSet(v)
               /\ Contains(w, x) <=> x \in ToSet(w)
    BY <1>4 DEF ToSet, Contains
  <2> QED
    BY <1>1, <2>1
<1> QED
  BY <1>4, <1>5, <1>6

\* A list without repetitions falls into two parts that have nothing in common.
LEMMA SplitFacts ==
    ASSUME NEW S, NEW w \in Seq(S), IsInjective(w), NEW n \in 0 .. Len(w)
    PROVE  LET front == SubSeq(w, 1, n)
               back == SubSeq(w, n + 1, Len(w))
           IN  /\ front \in Seq(S) /\ IsInjective(front)
               /\ back \in Seq(S) /\ IsInjective(back)
               /\ \A x : Contains(w, x) <=> Contains(front, x) \/ Contains(back, x)
               /\ \A x : ~(Contains(front, x) /\ Contains(back, x))
<1> DEFINE front == SubSeq(w, 1, n)
           back == SubSeq(w, n + 1, Len(w))
<1>1. /\ front \in Seq(S) /\ Len(front) = n
      /\ \A i \in 1 .. n : front[i] = w[i]
  OBVIOUS
<1>2. /\ back \in Seq(S) /\ Len(back) = Len(w) - n
      /\ \A i \in 1 .. Len(w) - n : back[i] = w[n + i]
  OBVIOUS
<1> HIDE DEF front, back
<1>3. Len(w) \in Nat /\ n \in Nat /\ \A i, j \in 1 .. Len(w) : w[i] = w[j] => i = j
  BY DEF IsInjective
<1>4. \A i \in 1 .. Len(w) - n : n + i \in 1 .. Len(w)
  BY <1>3
<1>5. IsInjective(front)
  <2> SUFFICES ASSUME NEW i \in 1 .. n, NEW j \in 1 .. n, front[i] = front[j] PROVE i = j
    BY <1>1 DEF IsInjective
  <2> QED
    BY <1>1, <1>3
<1>6. IsInjective(back)
  <2> SUFFICES ASSUME NEW i \in 1 .. Len(w) - n, NEW j \in 1 .. Len(w) - n, back[i] = back[j]
               PROVE  i = j
    BY <1>2 DEF IsInjective
  <2>1. w[n + i] = w[n + j] /\ n + i \in 1 .. Len(w) /\ n + j \in 1 .. Len(w)
    BY <1>2, <1>4
  <2>2. n + i = n + j
    BY <1>3, <2>1
  <2> QED
    BY <1>3, <2>2
<1>7. \A x : /\ Contains(w, x) <=> \E i \in 1 .. Len(w) : w[i] = x
             /\ Contains(front, x) <=> \E i \in 1 .. n : w[i] = x
             /\ Contains(back, x) <=> \E i \in 1 .. Len(w) - n : w[n + i] = x
  BY <1>1, <1>2 DEF Contains
<1>8. \A x : Contains(w, x) => Contains(front, x) \/ Contains(back, x)
  <2> SUFFICES ASSUME NEW i \in 1 .. Len(w) PROVE Contains(front, w[i]) \/ Contains(back, w[i])
    BY <1>7
  <2>1. CASE i <= n
    BY <1>7, <2>1
  <2>2. CASE i > n
    <3>1. i - n \in 1 .. Len(w) - n /\ n + (i - n) = i
      BY <1>3, <2>2
    <3> QED
      BY <1>7, <3>1
  <2> QED
    BY <1>3, <2>1, <2>2
<1>9. \A x : Contains(front, x) \/ Contains(back, x) => Contains(w, x)
  BY <1>3, <1>4, <1>7
<1>10. \A x : ~(Contains(front, x) /\ Contains(back, x))
  <2> SUFFICES ASSUME NEW i \in 1 .. n, NEW j \in 1 .. Len(w) - n, w[i] = w[n + j] PROVE FALSE
    BY <1>7
  <2>1. i \in 1 .. Len(w) /\ n + j \in 1 .. Len(w) /\ i # n + j
    BY <1>3
  <2> QED
    BY <1>3, <2>1
<1> QED
  BY <1>1, <1>2, <1>5, <1>6, <1>8, <1>9, <1>10 DEF front, back

\* Units are given to the threads of woken, and kept is what is left of the list: every
\* entry that counts is in one of the two, and none in both.
LEMMA ServedFacts ==
    ASSUME SemaInv, NEW sd, Consistent(sd), KeepsObjectWaits(sched, sd), NEW s \in Objects,
           NEW woken \in Seq(Threads), IsInjective(woken),
           NEW kept \in Seq(Threads), IsInjective(kept), NEW count \in Nat,
           semas' = [semas EXCEPT ![s].count = count, ![s].waiting = kept],
           Answer(sd, s, woken, "granted"),
           \A t : Contains(woken, t) => VerifyWait(sd, t, "SEMA", s),
           \A t : Contains(kept, t) => Contains(semas[s].waiting, t) /\ ~Contains(woken, t),
           \A t \in Threads : Contains(semas[s].waiting, t) /\ VerifyWait(sd, t, "SEMA", s) =>
                              Contains(kept, t) \/ Contains(woken, t)
    PROVE  /\ Quiet(sd, sched') /\ KeepsObjectWaits(sched, sched')
           /\ AsksAreTyped' /\ WaitsForSemas' /\ TimedWaitEnds'
           /\ SemasTyped' /\ SemaWaiterListed' /\ GrantedGone'
           /\ \A t \in Threads : Contains(woken, t) => ~Has(sched', t, "WAIT")
           /\ \A t \in Threads : sched'.wait[t].type = "SEMA" => asks'[t].want = asks[t].want
           /\ UNCHANGED <<wakeupCount, endWaiters, timers, dispatch, suspender, intrVars>>
<1> DEFINE sema == SemaWith(semas[s], count, kept)
<1>1. /\ semas \in [Objects -> SemaRecords] /\ semas[s] \in SemaRecords
      /\ asks \in [Threads -> AskRecords]
  BY DEF SemaInv, SemasTyped, AsksAreTyped
<1>2. semas' = [semas EXCEPT ![s] = sema]
  BY <1>1 DEF SemaWith
<1>3. sema \in SemaRecords /\ sema.exists = semas[s].exists /\ sema.waiting = kept
  <2>1. semas[s] \in SemaRecords
    BY <1>1
  <2> QED
    BY <2>1, SemaWithFacts
<1> HIDE DEF sema
<1>4. /\ Quiet(sd, sched') /\ KeepsObjectWaits(sched, sched') /\ KeepsObjectWaits(sd, sched')
      /\ AsksAreTyped' /\ WaitsForSemas' /\ TimedWaitEnds'
      /\ \A t \in Threads : Contains(woken, t) => ~Has(sched', t, "WAIT")
      /\ \A t \in Threads : sched'.wait[t].type = "SEMA" =>
            asks'[t] = IF Contains(woken, t) THEN [asks[t] EXCEPT !.told = "granted"] ELSE asks[t]
      /\ \A t \in Threads, r \in Objects : Awaits(sched', t, r) /\ Contains(woken, t) => r = s
      /\ UNCHANGED <<wakeupCount, endWaiters, timers, dispatch, suspender, intrVars>>
  <2>1. "granted" \in Told
    BY DEF Told
  <2> QED
    BY <2>1, AnswerFacts
<1>5. \A t \in Threads : IsWaitingFor(sched', t, "SEMA", s) => sema.exists /\ Contains(sema.waiting, t)
  <2> SUFFICES ASSUME NEW t \in Threads, IsWaitingFor(sched', t, "SEMA", s)
               PROVE  sema.exists /\ Contains(sema.waiting, t)
    OBVIOUS
  <2>1. IsWaitingFor(sched, t, "SEMA", s) /\ IsWaitingFor(sd, t, "SEMA", s)
    BY <1>4, AwaitedBefore
  <2>2. semas[s].exists /\ Contains(semas[s].waiting, t)
    BY <2>1 DEF SemaInv, SemaWaiterListed, SemaExists
  <2>3. VerifyWait(sd, t, "SEMA", s) /\ ~Contains(woken, t)
    BY <1>4, <2>1 DEF IsWaitingFor
  <2> QED
    BY <1>3, <2>2, <2>3
<1>6. \A t \in Threads : Awaits(sched', t, s) /\ asks'[t].told = "granted" => ~Contains(sema.waiting, t)
  <2> SUFFICES ASSUME NEW t \in Threads, Awaits(sched', t, s), asks'[t].told = "granted",
                      Contains(kept, t)
               PROVE  FALSE
    BY <1>3
  <2>1. Contains(semas[s].waiting, t) /\ ~Contains(woken, t)
    OBVIOUS
  <2>2. sched'.wait[t].type = "SEMA"
    BY DEF Awaits
  <2>3. asks[t].told = "granted" /\ Awaits(sched, t, s)
    BY <1>4, <2>1, <2>2, AwaitedBefore
  <2> QED
    BY <2>1, <2>3 DEF SemaInv, GrantedGone
<1>7. \A t \in Threads, r \in Objects \ {s} :
          /\ IsWaitingFor(sched', t, "SEMA", r) => IsWaitingFor(sched, t, "SEMA", r)
          /\ Awaits(sched', t, r) /\ asks'[t].told = "granted" =>
                 Awaits(sched, t, r) /\ asks[t].told = "granted"
  BY <1>4, AnswerElsewhere
<1>8. SemasTyped' /\ SemaWaiterListed' /\ GrantedGone'
  BY <1>2, <1>3, <1>5, <1>6, <1>7, OneSema
<1>9. \A t \in Threads : sched'.wait[t].type = "SEMA" => asks'[t].want = asks[t].want
  BY <1>1, <1>4 DEF AskRecords
<1> QED
  BY <1>4, <1>8, <1>9

\* sceKernelSignalSema()
LEMMA SignalSemaFacts ==
    ASSUME SemaInv, NEW s \in Objects, NEW signal \in Signals, SignalSema(s, signal)
    PROVE  /\ SemaInv'
           /\ \A t \in Threads : IsWaitingFor(sched', t, "SEMA", s) => asks'[t].want > semas'[s].count
           /\ \A r \in Objects : r # s => semas'[r] = semas[r]
<1> DEFINE old == semas[s]
           asking == Asking(sched, s)
           total == old.count + signal
<1>1. /\ old.waiting \in Seq(Threads) /\ IsInjective(old.waiting) /\ old.count \in Nat
      /\ semas \in [Objects -> SemaRecords]
  BY DEF SemaInv, SemasTyped, SemaRecords
<1>2. total \in Nat
  BY <1>1, SemaAssumption
<1> HIDE DEF asking, total
<1>3. PICK w \in IF old.fifo THEN {old.waiting} ELSE Sorted(old.waiting) :
         \E left \in LeftAfter(total, w, asking) :
            LET granted == Granted(left, w, asking) IN
            /\ semas' = [semas EXCEPT ![s].count = left[Len(w)],
                                      ![s].waiting = StillListed(w, asking, granted)]
            /\ Answer(sched, s, InOrder(w, granted), "granted")
            /\ phase' = IF granted = {} THEN phase ELSE "resched"
  BY DEF SignalSema, asking, total
<1>4. PICK left \in LeftAfter(total, w, asking) :
         LET granted == Granted(left, w, asking) IN
         /\ semas' = [semas EXCEPT ![s].count = left[Len(w)],
                                   ![s].waiting = StillListed(w, asking, granted)]
         /\ Answer(sched, s, InOrder(w, granted), "granted")
         /\ phase' = IF granted = {} THEN phase ELSE "resched"
  BY <1>3
<1> DEFINE granted == Granted(left, w, asking)
           woken == InOrder(w, granted)
           kept == InOrder(w, asking \ granted)
<1>5. /\ semas' = [semas EXCEPT ![s].count = left[Len(w)], ![s].waiting = kept]
      /\ Answer(sched, s, woken, "granted") /\ phase' \in {phase, "resched"} /\ timedOut' = timedOut
  BY <1>4 DEF StillListed, SignalSema
<1>6. w \in Seq(Threads) /\ IsInjective(w) /\ \A x : Contains(w, x) <=> Contains(old.waiting, x)
  BY <1>1, <1>3, SortedFacts
<1>7. /\ left \in [0 .. Len(w) -> Nat] /\ left[0] = total
      /\ \A i, j \in 0 .. Len(w) : i <= j => left[j] <= left[i]
  BY <1>2, <1>6, LeftShrinks DEF SemaInv
<1>8. \A t : t \in granted <=> \E j \in 1 .. Len(w) : t = w[j] /\ Takes(left[j - 1], w[j], asking)
  BY <1>6 DEF Granted
<1> HIDE DEF granted
<1>9. \A t : t \in granted => t \in asking
  BY <1>8 DEF Takes
<1>10. /\ woken \in Seq(Threads) /\ IsInjective(woken)
       /\ \A x : Contains(woken, x) <=> Contains(w, x) /\ x \in granted
       /\ kept \in Seq(Threads) /\ IsInjective(kept)
       /\ \A x : Contains(kept, x) <=> Contains(w, x) /\ x \in asking \ granted
  BY <1>6, InOrderFacts
<1> HIDE DEF woken, kept
<1>11. \A t : t \in asking <=> t \in Threads /\ VerifyWait(sched, t, "SEMA", s)
  BY DEF asking, Asking
<1>12. /\ \A t : Contains(woken, t) => VerifyWait(sched, t, "SEMA", s)
       /\ \A t : Contains(kept, t) => Contains(old.waiting, t) /\ ~Contains(woken, t)
       /\ \A t \in Threads : Contains(old.waiting, t) /\ VerifyWait(sched, t, "SEMA", s) =>
                              Contains(kept, t) \/ Contains(woken, t)
  BY <1>6, <1>9, <1>10, <1>11
<1>13. Consistent(sched) /\ KeepsObjectWaits(sched, sched) /\ left[Len(w)] \in Nat
  BY <1>6, <1>7 DEF SemaInv, Inv, ThreadInv, KeepsObjectWaits
<1>14. /\ Quiet(sched, sched') /\ KeepsObjectWaits(sched, sched')
       /\ AsksAreTyped' /\ WaitsForSemas' /\ TimedWaitEnds'
       /\ SemasTyped' /\ SemaWaiterListed' /\ GrantedGone'
       /\ \A t \in Threads : Contains(woken, t) => ~Has(sched', t, "WAIT")
       /\ \A t \in Threads : sched'.wait[t].type = "SEMA" => asks'[t].want = asks[t].want
       /\ UNCHANGED <<wakeupCount, endWaiters, timers, dispatch, suspender, intrVars>>
  <2> HIDE DEF old
  <2> QED
    BY <1>5, <1>10, <1>12, <1>13, ServedFacts DEF old
<1>15. Inv' /\ TimeoutsNested'
  BY <1>5, <1>14, QuietStep, TimeoutsStay DEF SemaInv
<1>16. SemaInv'
  BY <1>14, <1>15 DEF SemaInv
<1>17. semas'[s].count = left[Len(w)] /\ \A r \in Objects : r # s => semas'[r] = semas[r]
  BY <1>1, <1>5 DEF SemaRecords
<1>18. ASSUME NEW t \in Threads, IsWaitingFor(sched', t, "SEMA", s)
       PROVE  asks'[t].want > semas'[s].count
  <2>1. IsWaitingFor(sched, t, "SEMA", s)
    BY <1>14, <1>18, AwaitedBefore
  <2>2. Contains(w, t)
    BY <1>6, <2>1 DEF SemaInv, SemaWaiterListed
  <2>3. ~Contains(woken, t)
    BY <1>14, <1>18 DEF IsWaitingFor
  <2>4. PICK i \in 1 .. Len(w) : w[i] = t
    BY <1>6, <2>2 DEF Contains
  <2>5. t \in asking /\ ~Takes(left[i - 1], t, asking)
    BY <1>8, <1>10, <1>11, <2>1, <2>2, <2>3, <2>4 DEF IsWaitingFor
  <2>6. ~(asks[t].want <= left[i - 1])
    BY <2>5 DEF Takes
  <2>7. left[Len(w)] <= left[i - 1] /\ left[i - 1] \in Nat /\ left[Len(w)] \in Nat
    BY <1>6, <1>7
  <2>8. asks[t].want \in Nat
    BY AsksAreNumbers DEF SemaInv
  <2>9. asks'[t].want = asks[t].want
    BY <1>14, <1>18 DEF IsWaitingFor, VerifyWait
  <2> QED
    BY <1>17, <2>6, <2>7, <2>8, <2>9
<1> QED
  BY <1>16, <1>17, <1>18

\* sceKernelWaitSema() when it waits.
LEMMA WaitSemaInv ==
    ASSUME SemaInv, NEW s \in Objects, NEW wanted \in Wanted, NEW timeout \in BOOLEAN,
           WaitSema(s, wanted, timeout)
    PROVE  SemaInv'
<1> DEFINE ask == [want |-> wanted, timed |-> timeout, told |-> "nothing"]
<1>1. /\ MayWait /\ SemaExists(s) /\ sched' = WaitCurThread(sched, "SEMA", s) /\ phase' = "resched"
      /\ semas' = [semas EXCEPT ![s].waiting = Listed(semas[s].waiting, cur)]
      /\ IF timeout THEN semaTimers[cur] < MaxSemaEvents
                          /\ semaTimers' = [semaTimers EXCEPT ![cur] = semaTimers[cur] + 1]
                    ELSE semaTimers' = semaTimers
      /\ asks' = [asks EXCEPT ![cur] = ask]
      /\ UNCHANGED <<wakeupCount, endWaiters, timers, dispatch, suspender, intrVars, timedOut>>
  BY DEF WaitSema
<1>2. "SEMA" \in ObjectWaits /\ s \in AllThreads \union Objects \union {NoThread}
  BY DEF ObjectWaits
<1>3. /\ Inv' /\ sched'.status[cur] = {"WAIT"} /\ cur \in Threads
      /\ \A x \in AllThreads : x # cur => sched'.status[x] = sched.status[x]
      /\ sched'.wait = [sched.wait EXCEPT ![cur] = [type |-> "SEMA", id |-> s]]
  BY <1>1, <1>2, ObjectWaitInv DEF SemaInv
<1>4. sched.wait \in [AllThreads -> Waits] /\ \A t \in Threads : t \in AllThreads
  BY SchedTypes DEF SemaInv, Inv, ThreadInv, Consistent, QueueOK, AllThreads
<1>5. \A t \in Threads : sched'.wait[t] = IF t = cur THEN [type |-> "SEMA", id |-> s] ELSE sched.wait[t]
  BY <1>3, <1>4
<1>6. \A t \in Threads : \A r : t # cur =>
         /\ IsWaitingFor(sched', t, "SEMA", r) => IsWaitingFor(sched, t, "SEMA", r)
         /\ Awaits(sched', t, r) => Awaits(sched, t, r)
  BY <1>3, <1>4, <1>5 DEF IsWaitingFor, VerifyWait, Awaits, Exists, Has
<1>7. \A r : Awaits(sched', cur, r) \/ IsWaitingFor(sched', cur, "SEMA", r) => r = s
  BY <1>3, <1>5 DEF IsWaitingFor, VerifyWait, Awaits
<1>8. /\ asks \in [Threads -> AskRecords] /\ semaTimers \in [Threads -> 0 .. MaxSemaEvents]
      /\ MaxSemaEvents \in Nat /\ ask \in AskRecords
  BY SemaAssumption DEF SemaInv, AsksAreTyped, AskRecords, Told
<1> HIDE DEF ask
<1>9. \A t \in Threads : asks'[t] = IF t = cur THEN ask ELSE asks[t]
  BY <1>1, <1>8
<1>10. AsksAreTyped'
  BY <1>1, <1>3, <1>8 DEF AsksAreTyped
<1>11. TimeoutsNested'
  BY <1>1 DEF SemaInv, TimeoutsNested
<1>12. WaitsForSemas'
  BY <1>5 DEF SemaInv, WaitsForSemas
<1>13. TimedWaitEnds'
  <2> SUFFICES ASSUME NEW r \in Objects, NEW t \in Threads,
                      IsWaitingFor(sched', t, "SEMA", r), asks'[t].timed
               PROVE  semaTimers'[t] > 0
    BY DEF TimedWaitEnds
  <2>1. CASE t = cur
    <3>1. timeout
      BY <1>9, <2>1 DEF ask
    <3> QED
      BY <1>1, <1>3, <1>8, <2>1, <3>1
  <2>2. CASE t # cur
    <3>1. semaTimers[t] > 0
      BY <1>6, <1>9, <2>2 DEF SemaInv, TimedWaitEnds
    <3> QED
      BY <1>1, <1>3, <1>8, <2>2, <3>1
  <2> QED
    BY <2>1, <2>2
<1>14. /\ semas \in [Objects -> SemaRecords]
       /\ semas[s].waiting \in Seq(Threads) /\ IsInjective(semas[s].waiting)
  BY DEF SemaInv, SemasTyped, SemaRecords
<1> DEFINE list == Listed(semas[s].waiting, cur)
           sema == [semas[s] EXCEPT !.waiting = list]
<1>15. /\ list \in Seq(Threads) /\ IsInjective(list)
       /\ \A x : Contains(list, x) <=> Contains(semas[s].waiting, x) \/ x = cur
  BY <1>3, <1>14, ListedFacts
<1>16. semas' = [semas EXCEPT ![s] = sema]
  BY <1>1, <1>14
<1> HIDE DEF list
<1>17. sema \in SemaRecords /\ sema.exists /\ sema.waiting = list
  BY <1>1, <1>14, <1>15 DEF SemaRecords, SemaExists
<1> HIDE DEF sema
<1>18. \A t \in Threads : IsWaitingFor(sched', t, "SEMA", s) => sema.exists /\ Contains(sema.waiting, t)
  BY <1>6, <1>15, <1>17 DEF SemaInv, SemaWaiterListed
<1>19. asks'[cur].told # "granted"
  BY <1>3, <1>9 DEF ask
<1>20. \A t \in Threads : Awaits(sched', t, s) /\ asks'[t].told = "granted" => ~Contains(sema.waiting, t)
  BY <1>6, <1>9, <1>15, <1>17, <1>19 DEF SemaInv, GrantedGone
<1>21. \A t \in Threads, r \in Objects \ {s} :
          /\ IsWaitingFor(sched', t, "SEMA", r) => IsWaitingFor(sched, t, "SEMA", r)
          /\ Awaits(sched', t, r) /\ asks'[t].told = "granted" =>
                 Awaits(sched, t, r) /\ asks[t].told = "granted"
  BY <1>6, <1>7, <1>9
<1>22. SemasTyped' /\ SemaWaiterListed' /\ GrantedGone'
  BY <1>15, <1>16, <1>17, <1>18, <1>20, <1>21, OneSema
<1> QED
  BY <1>3, <1>10, <1>11, <1>12, <1>13, <1>22 DEF SemaInv
-----------------------------------------------------------------------------
(* Time-outs *)

\* __KernelSemaTimeout() of a thread that still has a wait for a semaphore.
LEMMA TimesOutInv ==
    ASSUME SemaInv, NEW t \in Threads, NEW s \in Objects, SemaTimeout(t), sched.wait[t].id = s,
           Exists(sched, t), sched.wait[t].type = "SEMA", SemaExists(s)
    PROVE  SemaInv'
<1>1. /\ semaTimers[t] > 0 /\ semaTimers' = [semaTimers EXCEPT ![t] = semaTimers[t] - 1]
      /\ sched' = ResumeFromWait(sched, t) /\ asks' = [asks EXCEPT ![t].told = "error"]
      /\ timedOut' = <<[sema |-> s, phase |-> phase]>> \o timedOut /\ phase' = "resched"
      /\ UNCHANGED <<semas, wakeupCount, endWaiters, timers, dispatch, suspender, intrVars>>
  BY DEF SemaTimeout
<1>2. Consistent(sched) /\ QueueOK(sched) /\ t \in AllThreads
  BY DEF SemaInv, Inv, ThreadInv, Consistent, AllThreads
<1>3. Quiet(sched, sched') /\ sched'.wait = sched.wait
  BY <1>1, <1>2, ResumeFromWaitQuiet, ResumeFromWaitFacts
<1>4. ~Has(sched', t, "WAIT")
  <2> DEFINE bits == sched.status[t] \ {"WAIT"}
  <2>1. sched'.status = [sched.status EXCEPT ![t] =
                            IF bits \intersect {"SUSPEND", "DORMANT"} = {} THEN {"READY"} ELSE bits]
    BY <1>1, <1>2, ResumeFromWaitFacts
  <2>2. sched.status \in [AllThreads -> SUBSET StatusBits]
    BY <1>2, SchedTypes DEF QueueOK
  <2> QED
    BY <1>2, <2>1, <2>2 DEF Has
<1>5. Inv' /\ KeepsObjectWaits(sched, sched')
  BY <1>1, <1>3, QuietStep DEF SemaInv, KeepsObjectWaits, Quiet, KeepsWaits
<1>6. /\ asks \in [Threads -> AskRecords] /\ semaTimers \in [Threads -> 0 .. MaxSemaEvents]
      /\ MaxSemaEvents \in Nat
  BY SemaAssumption DEF SemaInv, AsksAreTyped
<1> DEFINE ask == [asks[t] EXCEPT !.told = "error"]
<1>7. /\ ask \in AskRecords /\ ask.told = "error"
      /\ ask.want = asks[t].want /\ ask.timed = asks[t].timed
  BY <1>6 DEF AskRecords, Told
<1>8. asks' = [asks EXCEPT ![t] = ask]
  BY <1>1
<1> HIDE DEF ask
<1>9. AsksAreTyped'
  <2>1. asks' \in [Threads -> AskRecords]
    BY <1>6, <1>7, <1>8
  <2>2. semaTimers[t] - 1 \in 0 .. MaxSemaEvents
    BY <1>1, <1>6
  <2>3. semaTimers' \in [Threads -> 0 .. MaxSemaEvents]
    BY <1>1, <1>6, <2>2
  <2> QED
    BY <2>1, <2>3 DEF AsksAreTyped
<1>10. AsksKept
  BY <1>6, <1>7, <1>8 DEF AsksKept
<1>11. TimersKept
  BY <1>1, <1>4, <1>6 DEF TimersKept, IsWaitingFor
<1>12. WaitsForSemas' /\ TimedWaitEnds'
  BY <1>5, <1>10, <1>11, WaitsStay
<1>13. TimeoutsNested'
  <2> DEFINE Entries == [sema : Objects, phase : {"run", "resched"}]
             entry == [sema |-> s, phase |-> phase]
  <2>1. /\ timedOut \in Seq(Entries) /\ phase \in {"run", "resched"}
        /\ timedOut # <<>> => phase = "resched"
        /\ \A i \in DOMAIN timedOut : i < Len(timedOut) => timedOut[i].phase = "resched"
    BY DEF SemaInv, TimeoutsNested, Inv, CpuInv
  <2>2. entry \in Entries /\ entry.phase = phase
    BY <2>1
  <2> HIDE DEF Entries, entry
  <2>3. /\ timedOut' \in Seq(Entries) /\ Len(timedOut') = Len(timedOut) + 1
        /\ timedOut'[1] = entry
        /\ \A i \in 2 .. Len(timedOut) + 1 : timedOut'[i] = timedOut[i - 1]
    BY <1>1, <2>1, <2>2 DEF entry
  <2>4. ASSUME NEW i \in DOMAIN timedOut', i < Len(timedOut')
        PROVE  timedOut'[i].phase = "resched"
    <3>1. CASE i = 1
      <4>1. timedOut # <<>>
        BY <2>1, <2>3, <2>4, <3>1
      <4> QED
        BY <2>1, <2>2, <2>3, <3>1, <4>1
    <3>2. CASE i # 1
      <4>1. i \in 2 .. Len(timedOut) + 1 /\ i - 1 \in DOMAIN timedOut /\ i - 1 < Len(timedOut)
        BY <2>1, <2>3, <2>4, <3>2
      <4> QED
        BY <2>1, <2>3, <4>1
    <3> QED
      BY <3>1, <3>2
  <2> QED
    BY <1>1, <2>3, <2>4 DEF TimeoutsNested, Entries
<1>14. \A x \in Threads, r \in Objects :
          /\ IsWaitingFor(sched', x, "SEMA", r) => IsWaitingFor(sched, x, "SEMA", r)
          /\ Awaits(sched', x, r) /\ asks'[x].told = "granted" =>
                 Awaits(sched, x, r) /\ asks[x].told = "granted"
  <2>1. \A x \in Threads : asks'[x].told = "granted" => asks[x].told = "granted"
    BY <1>6, <1>7, <1>8
  <2> QED
    BY <1>5, <2>1, AwaitedBefore
<1>15. SemasTyped' /\ SemaWaiterListed' /\ GrantedGone'
  BY <1>1, <1>14, SemasStay
<1> QED
  BY <1>5, <1>9, <1>12, <1>13, <1>15 DEF SemaInv

\* An event that is left over from an earlier wait does nothing.
LEMMA LeftOverTimeoutInv ==
    ASSUME SemaInv, NEW t \in Threads, SemaTimeout(t),
           ~(Exists(sched, t) /\ sched.wait[t].type = "SEMA" /\ SemaExists(sched.wait[t].id))
    PROVE  SemaInv'
<1>1. /\ semaTimers[t] > 0 /\ semaTimers' = [semaTimers EXCEPT ![t] = semaTimers[t] - 1]
      /\ sched' = sched /\ asks' = asks /\ timedOut' = timedOut /\ phase' = phase
      /\ UNCHANGED <<semas, wakeupCount, endWaiters, timers, dispatch, suspender, intrVars>>
  BY DEF SemaTimeout
<1>2. Consistent(sched) /\ KeepsObjectWaits(sched, sched')
  BY <1>1 DEF SemaInv, Inv, ThreadInv, KeepsObjectWaits
<1>3. Inv'
  BY <1>1, <1>2, QuietSelf, QuietStep DEF SemaInv
<1>4. /\ asks \in [Threads -> AskRecords] /\ semaTimers \in [Threads -> 0 .. MaxSemaEvents]
      /\ MaxSemaEvents \in Nat
  BY SemaAssumption DEF SemaInv, AsksAreTyped
<1>5. AsksAreTyped'
  BY <1>1, <1>4 DEF AsksAreTyped
<1>6. \A s \in Objects : ~IsWaitingFor(sched, t, "SEMA", s)
  BY DEF SemaInv, SemaWaiterListed, IsWaitingFor, VerifyWait
<1>7. AsksKept /\ TimersKept
  BY <1>1, <1>4, <1>6 DEF AsksKept, TimersKept
<1>8. WaitsForSemas' /\ TimedWaitEnds'
  BY <1>2, <1>7, WaitsStay
<1>9. SemasTyped' /\ SemaWaiterListed' /\ GrantedGone'
  BY <1>1, SemasStay
<1>10. TimeoutsNested'
  BY <1>1, TimeoutsStay
<1> QED
  BY <1>3, <1>5, <1>8, <1>9, <1>10 DEF SemaInv

LEMMA SemaTimeoutInv ==
    ASSUME SemaInv, NEW t \in Threads, SemaTimeout(t)
    PROVE  SemaInv'
<1>1. sched.wait[t].type = "SEMA" => sched.wait[t].id \in Objects
  BY DEF SemaInv, WaitsForSemas
<1> QED
  BY <1>1, TimesOutInv, LeftOverTimeoutInv

\* In the nested reschedule either nothing happens, because the current thread goes on,
\* or another thread gets the CPU.
LEMMA NestedReSchedule ==
    ASSUME SemaInv, timedOut # <<>>
    PROVE  LET sd == IF inIntr \/ ~DispatchEnabled THEN sched ELSE NextThread(sched) IN
           /\ Consistent(sd) /\ KeepsObjectWaits(sched, sd) /\ KeepsWaits(sched, sd) /\ Runnable(sd)
           /\ sd.cur \in AllThreads
           /\ sd.cur # sched.cur => ~inIntr /\ DispatchEnabled
<1>1. /\ Consistent(sched) /\ CpuInv /\ ThreadInv /\ sched.wait \in [AllThreads -> Waits]
      /\ sched.cur \in AllThreads \union {NoThread}
  BY SchedTypes DEF SemaInv, Inv, ThreadInv, Consistent, QueueOK
<1>2. CASE inIntr \/ ~DispatchEnabled
  <2>1. Runnable(sched)
    <3>1. CASE inIntr
      BY <1>1, <3>1, SchedulerAssumption DEF CpuInv, Consistent, IdleCanRun, Runnable, cur
    <3>2. CASE ~DispatchEnabled
      BY <1>1, <3>2 DEF CpuInv
    <3> QED
      BY <1>2, <3>1, <3>2
  <2>2. sched.cur \in AllThreads
    BY <1>1, <2>1 DEF Runnable
  <2>3. KeepsObjectWaits(sched, sched) /\ KeepsWaits(sched, sched)
    BY DEF KeepsObjectWaits, KeepsWaits
  <2> QED
    BY <1>1, <1>2, <2>1, <2>2, <2>3
<1>3. CASE ~inIntr /\ DispatchEnabled
  <2> DEFINE sd == NextThread(sched)
  <2>1. Switched(sched, sd) /\ ForgetsWaits(sched, sd)
    BY <1>1, NextThreadSwitched, NextThreadForgets
  <2> HIDE DEF sd
  <2>2. KeepsObjectWaits(sched, sd)
    BY <2>1, SwitchKeeps
  <2> QED
    BY <1>3, <2>1, <2>2 DEF Switched, sd
<1> QED
  BY <1>2, <1>3

\* The rest of __KernelSemaTimeout()
LEMMA SemaTimeoutEndsFacts ==
    ASSUME SemaInv, SemaTimeoutEnds
    PROVE  /\ SemaInv'
           /\ \A r \in Objects : semas'[r].count <= semas[r].count
<1> DEFINE s == timedOut[1].sema
           old == semas[s]
           w == old.waiting
           sd == IF inIntr \/ ~DispatchEnabled THEN sched ELSE NextThread(sched)
           asking == Asking(sd, s)
<1>1. PICK left \in LeftAfter(old.count, w, asking), n \in 0 .. IF old.fifo THEN Len(w) ELSE 0 :
         LET tried == SubSeq(w, 1, n) IN
         /\ semas' = [semas EXCEPT ![s].count = left[n], ![s].waiting = SubSeq(w, n + 1, Len(w))]
         /\ Answer(sd, s, InOrder(tried, asking), "granted")
  BY DEF SemaTimeoutEnds
<1>2. timedOut # <<>> /\ timedOut' = Tail(timedOut) /\ phase' = timedOut[1].phase
  BY DEF SemaTimeoutEnds
<1>3. /\ timedOut \in Seq([sema : Objects, phase : {"run", "resched"}]) /\ 1 \in DOMAIN timedOut
      /\ s \in Objects /\ timedOut[1].phase \in {"run", "resched"}
      /\ \A i \in DOMAIN timedOut : i < Len(timedOut) => timedOut[i].phase = "resched"
  <2> DEFINE Entries == [sema : Objects, phase : {"run", "resched"}]
  <2>1. /\ timedOut \in Seq(Entries)
        /\ \A i \in DOMAIN timedOut : i < Len(timedOut) => timedOut[i].phase = "resched"
    BY DEF SemaInv, TimeoutsNested
  <2>2. 1 \in DOMAIN timedOut /\ timedOut[1] \in Entries
    <3> HIDE DEF Entries
    <3> QED
      BY <1>2, <2>1
  <2> QED
    BY <2>1, <2>2
<1>4. /\ Consistent(sd) /\ KeepsObjectWaits(sched, sd) /\ KeepsWaits(sched, sd) /\ Runnable(sd)
      /\ sd.cur \in AllThreads /\ (sd.cur # sched.cur => ~inIntr /\ DispatchEnabled)
  BY <1>2, NestedReSchedule
<1> HIDE DEF sd, s
<1>5. /\ w \in Seq(Threads) /\ IsInjective(w) /\ old.count \in Nat
      /\ semas \in [Objects -> SemaRecords] /\ n \in 0 .. Len(w)
  <2>1. /\ semas \in [Objects -> SemaRecords] /\ old \in SemaRecords /\ IsInjective(w)
    BY <1>3 DEF SemaInv, SemasTyped
  <2>2. w \in Seq(Threads) /\ old.count \in Nat
    BY <2>1 DEF SemaRecords
  <2>3. n \in 0 .. Len(w)
    <3> HIDE DEF w
    <3> QED
      BY <1>1, <2>2
  <2> QED
    BY <2>1, <2>2, <2>3
<1>6. /\ left \in [0 .. Len(w) -> Nat] /\ left[0] = old.count
      /\ \A i, j \in 0 .. Len(w) : i <= j => left[j] <= left[i]
  BY <1>1, <1>5, LeftShrinks DEF SemaInv
<1>7. left[n] \in Nat /\ left[n] <= old.count
  BY <1>5, <1>6
<1> DEFINE tried == SubSeq(w, 1, n)
           kept == SubSeq(w, n + 1, Len(w))
           woken == InOrder(tried, asking)
<1>8. /\ semas' = [semas EXCEPT ![s].count = left[n], ![s].waiting = kept]
      /\ Answer(sd, s, woken, "granted")
  BY <1>1
<1>9. /\ tried \in Seq(Threads) /\ IsInjective(tried)
      /\ kept \in Seq(Threads) /\ IsInjective(kept)
      /\ \A x : Contains(w, x) <=> Contains(tried, x) \/ Contains(kept, x)
      /\ \A x : ~(Contains(tried, x) /\ Contains(kept, x))
  BY <1>5, SplitFacts
<1>10. /\ woken \in Seq(Threads) /\ IsInjective(woken)
       /\ \A x : Contains(woken, x) <=> Contains(tried, x) /\ x \in asking
  <2> HIDE DEF tried, asking
  <2> QED
    BY <1>9, InOrderFacts
<1>11. \A t : t \in asking <=> t \in Threads /\ VerifyWait(sd, t, "SEMA", s)
  BY DEF Asking
<1> HIDE DEF woken, kept, tried, asking
<1>12. /\ \A t : Contains(woken, t) => VerifyWait(sd, t, "SEMA", s)
       /\ \A t : Contains(kept, t) => Contains(w, t) /\ ~Contains(woken, t)
       /\ \A t \in Threads : Contains(w, t) /\ VerifyWait(sd, t, "SEMA", s) =>
                              Contains(kept, t) \/ Contains(woken, t)
  BY <1>9, <1>10, <1>11
<1>13. /\ Quiet(sd, sched')
       /\ AsksAreTyped' /\ WaitsForSemas' /\ TimedWaitEnds'
       /\ SemasTyped' /\ SemaWaiterListed' /\ GrantedGone'
       /\ UNCHANGED <<wakeupCount, endWaiters, timers, dispatch, suspender, intrVars>>
  <2> HIDE DEF w, old
  <2> QED
    BY <1>3, <1>4, <1>7, <1>8, <1>9, <1>10, <1>12, ServedFacts DEF w, old
<1>14. KeepsWaits(sched, sched') /\ Consistent(sched') /\ Runnable(sched') /\ sched'.cur = sd.cur
  BY <1>4, <1>13 DEF Quiet, KeepsWaits
<1>15. ThreadInv'
  BY <1>13, <1>14, KeepsThreadInv DEF SemaInv, Inv
<1>16. CpuInv'
  BY <1>2, <1>3, <1>4, <1>13, <1>14 DEF SemaInv, Inv, CpuInv, PendingIsServed, intrVars, cur, DispatchEnabled
<1>17. TimeoutsNested'
  <2> DEFINE Entries == [sema : Objects, phase : {"run", "resched"}]
  <2>1. timedOut \in Seq(Entries) /\ timedOut # <<>>
    BY <1>2, <1>3
  <2> HIDE DEF Entries
  <2>2. /\ timedOut' \in Seq(Entries) /\ Len(timedOut') = Len(timedOut) - 1
        /\ \A i \in DOMAIN timedOut' : timedOut'[i] = timedOut[i + 1] /\ i + 1 \in DOMAIN timedOut
    BY <1>2, <2>1
  <2>3. timedOut' # <<>> => phase' = "resched"
    BY <1>2, <1>3, <2>1, <2>2
  <2>4. \A i \in DOMAIN timedOut' : i < Len(timedOut') => timedOut'[i].phase = "resched"
    BY <1>3, <2>1, <2>2
  <2> QED
    BY <2>2, <2>3, <2>4 DEF TimeoutsNested, Entries
<1>18. SemaInv'
  BY <1>13, <1>15, <1>16, <1>17 DEF SemaInv, Inv
<1>19. \A r \in Objects : semas'[r].count <= semas[r].count
  <2>1. \A r \in Objects : semas[r] \in SemaRecords /\ semas[r].count \in Nat
    BY <1>5 DEF SemaRecords
  <2>2. \A r \in Objects : semas'[r].count = IF r = s THEN left[n] ELSE semas[r].count
    BY <1>5, <1>8, <2>1 DEF SemaRecords
  <2> QED
    BY <1>7, <2>1, <2>2
<1> QED
  BY <1>18, <1>19, SMTT(30)
-----------------------------------------------------------------------------
(* The invariant *)

\* When nothing changes, it still holds.
LEMMA StutterSemaInv ==
    ASSUME SemaInv, UNCHANGED allVars
    PROVE  SemaInv'
<1>1. /\ UNCHANGED <<vars, asks, semaTimers, timedOut>> /\ semas' = semas /\ sched' = sched
      /\ asks' = asks
  BY DEF allVars, semaVars, vars
<1>2. Inv'
  BY <1>1, QuietSelf, QuietStep DEF vars, SemaInv, Inv, ThreadInv
<1>3. AsksAreTyped' /\ WaitsForSemas' /\ TimedWaitEnds' /\ TimeoutsNested'
  BY <1>1 DEF vars, SemaInv, AsksAreTyped, WaitsForSemas, TimedWaitEnds, TimeoutsNested
<1>4. SemasTyped' /\ SemaWaiterListed' /\ GrantedGone'
  BY <1>1, SemasStay
<1> QED
  BY <1>2, <1>3, <1>4 DEF SemaInv

\* Every step keeps it.
LEMMA NextSemaInv ==
    ASSUME Misuse = {}, SemaInv, [SemaNext]_allVars
    PROVE  SemaInv'
<1>1. CASE UNCHANGED allVars
  BY <1>1, StutterSemaInv
<1>2. CASE ThreadStep
  BY <1>2, ThreadStepSemaInv
<1>3. ASSUME NEW s \in Objects,
             \/ \E arguments \in Creations : CreateSema(s, arguments)
             \/ DeleteSema(s) \/ ReferSemaStatus(s)
             \/ \E count \in 0 .. semas[s].max \union {semas[s].init} : CancelSema(s, count)
      PROVE  SemaInv'
  BY <1>3, CreateSemaInv, DeleteSemaInv, ReferSemaStatusInv, CancelSemaInv
<1>4. ASSUME NEW s \in Objects,
             \/ \E signal \in Signals : SignalSema(s, signal)
             \/ \E wanted \in Wanted : PollSema(s, wanted)
             \/ \E wanted \in Wanted, timeout \in BOOLEAN : WaitSema(s, wanted, timeout)
      PROVE  SemaInv'
  BY <1>4, SignalSemaFacts, TakeUnitsInv, WaitSemaInv DEF PollSema
<1>5. ASSUME NEW t \in Threads, SemaTimeout(t)
      PROVE  SemaInv'
  BY <1>5, SemaTimeoutInv
<1>6. CASE SemaTimeoutEnds
  BY <1>6, SemaTimeoutEndsFacts
<1> QED
  BY <1>1, <1>2, <1>3, <1>4, <1>5, <1>6 DEF SemaNext

\* The invariant holds in every state, when no program makes one of the calls that
\* the kernel should refuse.
THEOREM SemaInvariant ==
    ASSUME Misuse = {}
    PROVE  SemaSpec => []SemaInv
<1>1. SemaInv /\ [SemaNext]_allVars => SemaInv'
  BY NextSemaInv
<1> QED
  BY InitSemaInv, <1>1, PTL DEF SemaSpec

\* The variables of the semaphores keep their types, no list has a thread twice, and no
\* system call runs in the middle of a time-out.
THEOREM SemaTypeCorrect ==
    ASSUME Misuse = {}
    PROVE  SemaSpec => []SemaTypeOK
<1>1. SemaInv => SemaTypeOK
  BY SemaInvMeans
<1> QED
  BY SemaInvariant, <1>1, PTL

\* No signal, cancellation or deletion of a semaphore can miss a thread that waits.
THEOREM SemaWaitersAlwaysListed ==
    ASSUME Misuse = {}
    PROVE  SemaSpec => []SemaWaiterListed
<1>1. SemaInv => SemaWaiterListed
  BY SemaInvMeans
<1> QED
  BY SemaInvariant, <1>1, PTL

\* A wait for a semaphore that has a time-out has an event to end it.
THEOREM TimedWaitsAlwaysEnd ==
    ASSUME Misuse = {}
    PROVE  SemaSpec => []TimedWaitEnds
<1>1. SemaInv => TimedWaitEnds
  BY SemaInvMeans
<1> QED
  BY SemaInvariant, <1>1, PTL

\* A thread that was granted its units cannot be granted them again for the same wait.
THEOREM AlwaysGrantedOnce ==
    ASSUME Misuse = {}
    PROVE  SemaSpec => []GrantedOnce
<1>1. SemaInv => GrantedOnce
  BY SemaInvMeans
<1> QED
  BY SemaInvariant, <1>1, PTL
-----------------------------------------------------------------------------
(* No lost wake-up *)

\* What holds of a step for the semaphore s.
ServesAll(s) ==
    semas[s].exists /\ semas'[s].count > semas[s].count =>
        \A t \in Threads : IsWaitingFor(sched', t, "SEMA", s) => asks'[t].want > semas'[s].count

\* Where no count grows nobody can be left behind.
LEMMA NoMoreUnits ==
    ASSUME SemaInv, NEW s \in Objects, semas'[s].count <= semas[s].count, semas'[s].count \in Nat
    PROVE  ServesAll(s)
<1>1. semas[s].count \in Nat
  BY DEF SemaInv, SemasTyped, SemaRecords
<1> QED
  BY <1>1 DEF ServesAll

\* After a step that makes the count of s grow, every thread that waits for it asks for
\* more than there is.
LEMMA NextServesAll ==
    ASSUME Misuse = {}, SemaInv, [SemaNext]_allVars, NEW s \in Objects
    PROVE  ServesAll(s)
<1>1. /\ semas \in [Objects -> SemaRecords] /\ semas[s] \in SemaRecords /\ semas[s].count \in Nat
      /\ SemasTyped'
  BY NextSemaInv DEF SemaInv, SemasTyped, SemaRecords
<1>2. semas'[s].count \in Nat
  BY <1>1 DEF SemasTyped, SemaRecords
<1>3. ASSUME semas'[s] = semas[s] PROVE ServesAll(s)
  BY <1>1, <1>2, <1>3, NoMoreUnits
<1>4. CASE UNCHANGED semas
  BY <1>3, <1>4
<1>5. ASSUME NEW r \in Objects, NEW arguments \in Creations, CreateSema(r, arguments)
      PROVE  ServesAll(s)
  <2>1. CASE r = s
    BY <1>5, <2>1 DEF CreateSema, SemaExists, ServesAll
  <2>2. CASE r # s
    BY <1>1, <1>3, <1>5, <2>2 DEF CreateSema
  <2> QED
    BY <2>1, <2>2
<1>6. ASSUME NEW r \in Objects, NEW signal \in Signals, SignalSema(r, signal)
      PROVE  ServesAll(s)
  BY <1>3, <1>6, SignalSemaFacts DEF ServesAll
<1>7. ASSUME NEW r \in Objects, ClearSemaThreads(r), r # s => semas'[s] = semas[s]
      PROVE  ServesAll(s)
  BY <1>3, <1>7, ClearSemaThreadsFacts DEF ServesAll
<1>8. ASSUME NEW r \in Objects, DeleteSema(r)
      PROVE  ServesAll(s)
  BY <1>1, <1>7, <1>8 DEF DeleteSema
<1>9. ASSUME NEW r \in Objects, NEW count \in 0 .. semas[r].max \union {semas[r].init},
             CancelSema(r, count)
      PROVE  ServesAll(s)
  BY <1>1, <1>7, <1>9 DEF CancelSema
<1>10. ASSUME NEW r \in Objects, NEW wanted \in Wanted, TakeUnits(r, wanted)
       PROVE  ServesAll(s)
  <2>1. semas' = [semas EXCEPT ![r].count = semas[r].count - wanted] /\ wanted \in Nat
    BY <1>10, SemaAssumption DEF TakeUnits
  <2>2. CASE r = s
    <3>1. semas'[s].count = semas[s].count - wanted
      BY <1>1, <2>1, <2>2 DEF SemaRecords
    <3> QED
      BY <1>1, <1>2, <2>1, <3>1, NoMoreUnits
  <2>3. CASE r # s
    BY <1>1, <1>3, <2>1, <2>3
  <2> QED
    BY <2>2, <2>3
<1>11. ASSUME NEW r \in Objects,
              ReferSemaStatus(r) \/ \E wanted \in Wanted, timeout \in BOOLEAN : WaitSema(r, wanted, timeout)
       PROVE  ServesAll(s)
  <2>1. PICK list : semas' = [semas EXCEPT ![r].waiting = list]
    BY <1>11 DEF ReferSemaStatus, WaitSema
  <2>2. semas'[s].count = semas[s].count
    BY <1>1, <2>1 DEF SemaRecords
  <2> QED
    BY <1>1, <2>2, NoMoreUnits
<1>12. CASE SemaTimeoutEnds
  BY <1>2, <1>12, SemaTimeoutEndsFacts, NoMoreUnits
<1>13. CASE UNCHANGED allVars \/ ThreadStep \/ \E t \in Threads : SemaTimeout(t)
  BY <1>4, <1>13 DEF allVars, semaVars, ThreadStep, SemaTimeout
<1> QED
  BY <1>5, <1>6, <1>8, <1>9, <1>10, <1>11, <1>12, <1>13 DEF SemaNext, PollSema

\* No wake-up is lost: when the count of a semaphore grows, whoever still waits for it
\* asks for more than there is.
THEOREM NobodyEverLeftBehind ==
    ASSUME Misuse = {}
    PROVE  SemaSpec => NobodyLeftBehind
<1>1. SemaInv /\ [SemaNext]_allVars =>
          [\A s \in Objects :
              semas[s].exists /\ semas'[s].count > semas[s].count =>
                  \A t \in Threads :
                      IsWaitingFor(sched', t, "SEMA", s) => asks'[t].want > semas'[s].count]_allVars
  BY NextServesAll DEF ServesAll
<1> QED
  BY <1>1, SemaInvariant, PTL DEF SemaSpec, NobodyLeftBehind
-----------------------------------------------------------------------------
(* Sums over sets of threads *)

\* How a sum over a set is computed: one member after the other.
AnyOf(s) == CHOOSE x \in s : TRUE

Iterates(f, g, domain) ==
    g = [s \in domain |-> IF s = {} THEN 0 ELSE f[AnyOf(s)] + g[s \ {AnyOf(s)}]]

Sums(f, S) == CHOOSE g : Iterates(f, g, SUBSET S)

\* What a member less means for the size of a finite set.
LEMMA OneLess ==
    ASSUME NEW S, IsFiniteSet(S), NEW s \in SUBSET S, NEW x \in s
    PROVE  /\ Cardinality(s) \in Nat \ {0} /\ Cardinality(s \ {x}) = Cardinality(s) - 1
           /\ s \ {x} \in SUBSET S
<1>1. IsFiniteSet(s) /\ s # {}
  BY FS_Subset
<1> QED
  BY <1>1, FS_RemoveElement, FS_EmptySet, FS_CardinalityType

\* The equation of Iterates() has a solution.
LEMMA SumsExist ==
    ASSUME NEW S, IsFiniteSet(S), NEW f
    PROVE  Iterates(f, Sums(f, S), SUBSET S)
<1> DEFINE Level(n) == {s \in SUBSET S : Cardinality(s) <= n}
           wrong == {n \in Nat : ~\E g : Iterates(f, g, Level(n))}
<1>1. \A s \in SUBSET S : Cardinality(s) \in Nat
  BY FS_Subset, FS_CardinalityType
<1>2. ASSUME wrong # {} PROVE FALSE
  <2>1. wrong \in SUBSET Nat
    OBVIOUS
  <2> HIDE DEF wrong
  <2>2. PICK m \in wrong : \A n \in wrong : m <= n
    BY <1>2, <2>1, MinOfNaturals
  <2>3. m \in Nat /\ ~\E g : Iterates(f, g, Level(m))
    BY <2>2 DEF wrong
  <2>4. CASE m = 0
    <3> DEFINE g == [s \in Level(0) |-> 0]
    <3>1. ASSUME NEW s \in Level(0), s # {} PROVE FALSE
      <4>1. PICK x \in s : TRUE
        BY <3>1
      <4>2. Cardinality(s) \in Nat \ {0} /\ Cardinality(s) <= 0
        BY <4>1, OneLess
      <4> QED
        BY <4>2
    <3>2. \A s \in Level(0) : g[s] = IF s = {} THEN 0 ELSE f[AnyOf(s)] + g[s \ {AnyOf(s)}]
      BY <3>1
    <3>3. Iterates(f, g, Level(0))
      BY <3>2, Zenon DEF Iterates
    <3> QED
      BY <2>3, <2>4, <3>3
  <2>5. CASE m # 0
    <3>1. m - 1 \in Nat /\ m - 1 \notin wrong
      BY <2>1, <2>2, <2>3, <2>5
    <3>2. PICK g : Iterates(f, g, Level(m - 1))
      BY <3>1 DEF wrong
    <3> DEFINE h == [s \in Level(m) |-> IF s = {} THEN 0 ELSE f[AnyOf(s)] + g[s \ {AnyOf(s)}]]
    <3>3. ASSUME NEW s \in Level(m), s # {}
          PROVE  s \ {AnyOf(s)} \in Level(m - 1)
      <4>1. AnyOf(s) \in s
        BY <3>3 DEF AnyOf
      <4> QED
        BY <1>1, <2>3, <4>1, OneLess
    <3>4. \A u \in Level(m - 1) : u \in Level(m) /\ g[u] = h[u]
      <4>1. \A u \in Level(m - 1) : u \in Level(m)
        BY <1>1, <2>3
      <4>2. \A u \in Level(m - 1) : g[u] = IF u = {} THEN 0 ELSE f[AnyOf(u)] + g[u \ {AnyOf(u)}]
        BY <3>2 DEF Iterates
      <4> QED
        BY <4>1, <4>2
    <3>5. \A s \in Level(m) : h[s] = IF s = {} THEN 0 ELSE f[AnyOf(s)] + h[s \ {AnyOf(s)}]
      BY <3>3, <3>4
    <3>6. Iterates(f, h, Level(m))
      BY <3>5, Zenon DEF Iterates
    <3> QED
      BY <2>3, <3>6
  <2> QED
    BY <2>4, <2>5
<1>3. Cardinality(S) \in Nat /\ SUBSET S = Level(Cardinality(S))
  BY FS_CardinalityType, FS_Subset
<1>4. \E g : Iterates(f, g, SUBSET S)
  BY <1>2, <1>3
<1> QED
  BY <1>4 DEF Sums

\* It is a number, and does not depend on the order in which the members are added.
LEMMA SumsFacts ==
    ASSUME NEW S, IsFiniteSet(S), NEW f, \A x \in S : f[x] \in Nat
    PROVE  LET g == Sums(f, S) IN
           /\ g[{}] = 0
           /\ \A u \in SUBSET S : g[u] \in Nat
           /\ \A u \in SUBSET S, x \in S : x \notin u => g[u \union {x}] = f[x] + g[u]
<1> DEFINE g == Sums(f, S)
           untyped == {n \in Nat : \E u \in SUBSET S : Cardinality(u) = n /\ g[u] \notin Nat}
           wrong == {n \in Nat : \E u \in SUBSET S, x \in S :
                                    x \notin u /\ Cardinality(u) = n /\ g[u \union {x}] # f[x] + g[u]}
<1>0. Iterates(f, g, SUBSET S)
  BY SumsExist
<1> HIDE DEF g
<1>1. \A u \in SUBSET S : g[u] = IF u = {} THEN 0 ELSE f[AnyOf(u)] + g[u \ {AnyOf(u)}]
  BY <1>0 DEF Iterates
<1>2. \A u \in SUBSET S : /\ Cardinality(u) \in Nat
                          /\ u # {} => AnyOf(u) \in u
  BY FS_Subset, FS_CardinalityType DEF AnyOf
<1>3. \A u \in SUBSET S : g[u] \in Nat
  <2> SUFFICES ASSUME untyped # {} PROVE FALSE
    BY <1>2
  <2>1. untyped \in SUBSET Nat
    OBVIOUS
  <2> HIDE DEF untyped
  <2>2. PICK m \in untyped : \A n \in untyped : m <= n
    BY <2>1, MinOfNaturals
  <2>3. PICK u \in SUBSET S : Cardinality(u) = m /\ g[u] \notin Nat
    BY <2>2 DEF untyped
  <2>4. u # {} /\ AnyOf(u) \in u
    BY <1>1, <1>2, <2>3
  <2> DEFINE v == u \ {AnyOf(u)}
  <2>5. v \in SUBSET S /\ Cardinality(v) = m - 1 /\ m \in Nat \ {0}
    BY <2>3, <2>4, OneLess
  <2> HIDE DEF v
  <2>6. g[v] \in Nat
    BY <2>2, <2>5 DEF untyped
  <2>7. g[u] = f[AnyOf(u)] + g[v] /\ f[AnyOf(u)] \in Nat
    BY <1>1, <2>4 DEF v
  <2> QED
    BY <2>3, <2>6, <2>7
<1>4. ASSUME wrong # {} PROVE FALSE
  <2>1. wrong \in SUBSET Nat
    OBVIOUS
  <2> HIDE DEF wrong
  <2>2. PICK m \in wrong : \A n \in wrong : m <= n
    BY <1>4, <2>1, MinOfNaturals
  <2>3. PICK u \in SUBSET S, x \in S : x \notin u /\ Cardinality(u) = m /\ g[u \union {x}] # f[x] + g[u]
    BY <2>2 DEF wrong
  <2> DEFINE T == u \union {x}
             p == AnyOf(T)
  <2>4. /\ T \in SUBSET S /\ p \in T /\ g[T] = f[p] + g[T \ {p}]
        /\ f[p] \in Nat /\ f[x] \in Nat
    BY <1>1, <1>2
  <2> HIDE DEF p
  <2>5. CASE p = x
    <3>1. T \ {p} = u
      BY <2>3, <2>5
    <3> QED
      BY <2>3, <2>4, <2>5, <3>1
  <2>6. CASE p # x
    <3> DEFINE v == u \ {p}
    <3>1. p \in u /\ v \in SUBSET S /\ Cardinality(v) = m - 1 /\ m \in Nat \ {0}
      BY <2>3, <2>4, <2>6, OneLess
    <3>2. m - 1 \notin wrong /\ m - 1 \in Nat
      BY <2>1, <2>2, <3>1
    <3>3. \A y \in S : y \notin v => g[v \union {y}] = f[y] + g[v]
      BY <3>1, <3>2 DEF wrong
    <3>4. T \ {p} = v \union {x} /\ v \union {p} = u /\ x \notin v /\ p \notin v /\ p \in S
      BY <2>3, <2>6, <3>1
    <3>5. g[T \ {p}] = f[x] + g[v] /\ g[u] = f[p] + g[v]
      BY <3>3, <3>4
    <3>6. g[v] \in Nat
      BY <1>3, <3>1
    <3> HIDE DEF v, T
    <3>7. f[p] + (f[x] + g[v]) = f[x] + (f[p] + g[v])
      BY <2>4, <3>6
    <3>8. g[T] = f[x] + g[u]
      BY <2>4, <3>5, <3>7
    <3> QED
      BY <2>3, <3>8 DEF T
  <2> QED
    BY <2>5, <2>6
<1>5. \A u \in SUBSET S, x \in S : x \notin u => g[u \union {x}] = f[x] + g[u]
  BY <1>2, <1>4
<1>6. g[{}] = 0
  BY <1>1
<1> QED
  BY <1>3, <1>5, <1>6 DEF g

\* The threads among the first n of w that get their units.
Served(left, w, asking, n) == {w[j] : j \in {i \in 1 .. n : Takes(left[i - 1], w[i], asking)}}

\* They get what is missing after them.
LEMMA ServedSum ==
    ASSUME AsksAreTyped, NEW w \in Seq(Threads), IsInjective(w), NEW count \in Nat, NEW asking,
           NEW left \in LeftAfter(count, w, asking), NEW n \in 0 .. Len(w), NEW f,
           \A x \in Served(left, w, asking, n) : f[x] = asks[x].want
    PROVE  LET S == Served(left, w, asking, n) IN
           Sums(f, S)[S] = count - left[n]
<1> DEFINE S == Served(left, w, asking, n)
           g == Sums(f, S)
           G(i) == Served(left, w, asking, i)
           wrong == {i \in 0 .. n : g[G(i)] # count - left[i]}
<1>1. /\ left \in [0 .. Len(w) -> Nat] /\ left[0] = count
      /\ \A i \in 1 .. Len(w) :
            left[i] = left[i - 1] - (IF Takes(left[i - 1], w[i], asking) THEN asks[w[i]].want ELSE 0)
  <2>1. /\ left[0] = count
        /\ \A i \in DOMAIN w :
              left[i] = left[i - 1] - (IF Takes(left[i - 1], w[i], asking) THEN asks[w[i]].want ELSE 0)
    BY Zenon DEF LeftAfter
  <2>2. left \in [0 .. Len(w) -> Nat] /\ DOMAIN w = 1 .. Len(w)
    BY LeftShrinks
  <2> QED
    BY <2>1, <2>2
<1>2. Len(w) \in Nat /\ n \in Nat /\ n <= Len(w) /\ \A i \in 1 .. n : i \in 1 .. Len(w) /\ w[i] \in Threads
  OBVIOUS
<1>3. S \subseteq Threads /\ IsFiniteSet(S)
  <2>1. S \subseteq ToSet(w) /\ S \subseteq Threads
    BY <1>2 DEF Served, ToSet
  <2> QED
    BY <2>1, ListFinite, FS_Subset
<1>4. \A x \in S : f[x] \in Nat
  BY <1>3, AsksAreNumbers
<1>5. \A i \in 0 .. n : G(i) \in SUBSET S
  BY <1>2 DEF Served
<1> HIDE DEF S
<1>6. /\ g[{}] = 0
      /\ \A u \in SUBSET S : g[u] \in Nat
      /\ \A u \in SUBSET S, x \in S : x \notin u => g[u \union {x}] = f[x] + g[u]
  BY <1>3, <1>4, SumsFacts
<1> HIDE DEF g, G
<1>7. ASSUME wrong # {} PROVE FALSE
  <2>1. wrong \in SUBSET Nat
    OBVIOUS
  <2> HIDE DEF wrong
  <2>2. PICK m \in wrong : \A i \in wrong : m <= i
    BY <1>7, <2>1, MinOfNaturals
  <2>3. m \in 0 .. n /\ g[G(m)] # count - left[m]
    BY <2>2 DEF wrong
  <2>4. ASSUME m = 0 PROVE FALSE
    <3>1. G(0) = {}
      BY DEF G, Served
    <3>2. count - left[0] = 0
      BY <1>1
    <3> QED
      BY <1>6, <2>3, <2>4, <3>1, <3>2
  <2>5. /\ m \in 1 .. n /\ m \in 1 .. Len(w) /\ m - 1 \in 0 .. n /\ m - 1 \notin wrong
        /\ m - 1 \in 0 .. Len(w) /\ m \in 0 .. Len(w)
    BY <1>2, <2>2, <2>3, <2>4
  <2>6. g[G(m - 1)] = count - left[m - 1]
    BY <2>5 DEF wrong
  <2>7. left[m] \in Nat /\ left[m - 1] \in Nat
    BY <1>1, <2>5
  <2>8. G(m - 1) \in SUBSET S
    BY <1>5, <2>5
  <2>9. CASE Takes(left[m - 1], w[m], asking)
    <3>1. G(m) = G(m - 1) \union {w[m]}
      BY <2>5, <2>9 DEF G, Served
    <3>2. w[m] \notin G(m - 1)
      BY <1>2, <2>5 DEF G, Served, IsInjective
    <3>3. w[m] \in S
      BY <2>5, <2>9 DEF S, Served
    <3>4. f[w[m]] = asks[w[m]].want /\ f[w[m]] \in Nat
      BY <1>4, <3>3 DEF S
    <3>5. g[G(m)] = f[w[m]] + g[G(m - 1)]
      BY <1>6, <2>8, <3>1, <3>2, <3>3
    <3>6. left[m] = left[m - 1] - f[w[m]]
      BY <1>1, <2>5, <2>9, <3>4
    <3> QED
      BY <2>3, <2>6, <2>7, <3>4, <3>5, <3>6
  <2>10. CASE ~Takes(left[m - 1], w[m], asking)
    <3>1. G(m) = G(m - 1)
      BY <2>5, <2>10 DEF G, Served
    <3>2. left[m] = left[m - 1]
      BY <1>1, <2>5, <2>7, <2>10
    <3> QED
      BY <2>3, <2>6, <3>1, <3>2
  <2> QED
    BY <2>9, <2>10
<1>8. g[G(n)] = count - left[n]
  BY <1>2, <1>7
<1> QED
  BY <1>8 DEF g, G, S
-----------------------------------------------------------------------------
(* The refinement *)

\* Who has asked for units of s and has neither got them nor given up.
Asks(s, t) == Contains(semas[s].waiting, t) /\ VerifyWait(sched, t, "SEMA", s)

\* What is noted of a wait is there as long as the wait is.
AsksNoted ==
    \A t \in Threads :
        /\ sched.wait[t].type # "SEMA" => asks[t] = NoAsk
        /\ sched.wait[t].type = "SEMA" => asks[t].want \in Wanted /\ Alive(sched, t)

\* Nobody is listed for a semaphore that does not exist.
NobodyListed == \A s \in Objects : ~SemaExists(s) => \A t : ~Contains(semas[s].waiting, t)

\* What the refinement needs beyond SemaInv.
RequestInv == CurForgets /\ AsksNoted /\ NobodyListed

\* Nobody asks for anything at first.
LEMMA InitRequestInv == SemaInit => RequestInv
<1> SUFFICES ASSUME SemaInit PROVE RequestInv
  OBVIOUS
<1>1. /\ sched.wait = [t \in AllThreads |-> NoWait] /\ \A t \in Threads : t \in AllThreads
      /\ semas = [s \in Objects |-> NoSema] /\ asks = [t \in Threads |-> NoAsk]
  BY DEF SemaInit, Init, AllThreads
<1>2. \A t \in Threads : sched.wait[t] = NoWait
  BY <1>1
<1>3. NoWait.type \notin ObjectWaits /\ NoWait.type # "SEMA"
  BY DEF NoWait, ObjectWaits
<1>4. CurForgets
  BY <1>2, <1>3 DEF CurForgets
<1>5. AsksNoted
  BY <1>1, <1>2, <1>3 DEF AsksNoted
<1>6. NobodyListed
  BY <1>1 DEF NobodyListed, NoSema, Contains
<1> QED
  BY <1>4, <1>5, <1>6 DEF RequestInv

\* The variables of the abstract specification.
CountMap == [s \in Objects |-> semas[s].count]
RequestMap == [s \in Objects |-> [t \in Threads |-> IF Asks(s, t) THEN asks[t].want ELSE 0]]
ToldMap == [t \in Threads |-> asks[t].told]

\* What keeps the image of the state is a stutter of the abstract specification.
LEMMA AbstractStutters ==
    ASSUME CountMap' = CountMap, RequestMap' = RequestMap, ToldMap' = ToldMap
    PROVE  UNCHANGED Abstract!vars
BY DEF Abstract!vars, CountMap, RequestMap, ToldMap, Asks

\* Its operators, in words of the state.
LEMMA AbstractMeans ==
    ASSUME SemaInv, RequestInv, NEW s \in Objects
    PROVE  /\ \A t \in Threads : Asks(s, t) => asks[t].want \in Nat \ {0}
           /\ Abstract!Requesters(s) = {t \in Threads : Asks(s, t)}
           /\ \A S : Abstract!Units(s, S) = Sums(RequestMap[s], S)[S]
           /\ Abstract!NewlyGranted =
                  {t \in Threads : asks'[t].told = "granted" /\ asks[t].told # "granted"}
<1>1. ASSUME NEW t \in Threads, Asks(s, t) PROVE asks[t].want \in Nat \ {0}
  <2>1. sched.wait[t].type = "SEMA"
    BY <1>1 DEF Asks, VerifyWait
  <2>2. asks[t].want \in Wanted
    BY <2>1 DEF RequestInv, AsksNoted
  <2> QED
    BY <2>2, SemaAssumption
<1>2. Abstract!Requesters(s) = {t \in Threads : RequestMap[s][t] > 0}
  BY DEF Abstract!Requesters, RequestMap, Asks
<1>3. \A t \in Threads : RequestMap[s][t] = IF Asks(s, t) THEN asks[t].want ELSE 0
  BY DEF RequestMap
<1>4. Abstract!Requesters(s) = {t \in Threads : Asks(s, t)}
  BY <1>1, <1>2, <1>3
<1>5. \A S : Abstract!Units(s, S) = Sums(RequestMap[s], S)[S]
  BY DEF Abstract!Units, Abstract!MapThenSumSet, Abstract!MapThenFoldSet, Sums, Iterates, AnyOf,
         RequestMap, Asks
<1>6. Abstract!NewlyGranted = {t \in Threads : asks'[t].told = "granted" /\ asks[t].told # "granted"}
  BY DEF Abstract!NewlyGranted
<1> QED
  BY <1>1, <1>4, <1>5, <1>6

\* The sum over nobody is zero.
LEMMA NoUnits == \A f : Sums(f, {})[{}] = 0
<1> SUFFICES ASSUME NEW f PROVE Sums(f, {})[{}] = 0
  OBVIOUS
<1>1. \A x \in {} : f[x] \in Nat
  OBVIOUS
<1> QED
  BY <1>1, SumsFacts, FS_EmptySet

\* Requests are served and withdrawn in this way.
LEMMA ServeStep ==
    ASSUME SemaInv, RequestInv, NEW s \in Objects, NEW served \in SUBSET Threads,
           \A t \in served : Asks(s, t),
           \A r \in Objects, t \in Threads : Asks(r, t)' =>
               Asks(r, t) /\ t \notin served /\ asks'[t].want = asks[t].want,
           \A t \in Threads : asks'[t].told = "granted" /\ asks[t].told # "granted" <=> t \in served,
           NEW count \in Nat, CountMap' = [CountMap EXCEPT ![s] = count],
           NEW supplied \in Signals \union {0},
           count - semas[s].count + Sums(RequestMap[s], served)[served] = supplied,
           supplied > 0 => \A t \in Threads : Asks(s, t)' => asks'[t].want > count
    PROVE  Abstract!Serve(s)
<1> DEFINE gone == {t \in Threads : \A r \in Objects : ~Asks(r, t)'}
           units == Sums(RequestMap[s], served)[served]
<1>1. ASSUME NEW r \in Objects, NEW t \in Threads
      PROVE  RequestMap'[r][t] = IF t \in gone \/ (r = s /\ t \in served) THEN 0 ELSE RequestMap[r][t]
  <2>1. /\ RequestMap[r][t] = IF Asks(r, t) THEN asks[t].want ELSE 0
        /\ RequestMap'[r][t] = IF Asks(r, t)' THEN asks'[t].want ELSE 0
    BY DEF RequestMap
  <2>2. CASE Asks(r, t)'
    BY <2>1, <2>2
  <2>3. CASE ~Asks(r, t)' /\ t \notin gone
    <3>1. PICK q \in Objects : Asks(q, t)'
      BY <2>3
    <3>2. Asks(q, t) /\ q # r
      BY <2>3, <3>1
    <3>3. ~Asks(r, t)
      BY <3>2 DEF Asks, VerifyWait
    <3> QED
      BY <2>1, <2>3, <3>3
  <2>4. CASE t \in gone
    BY <2>1, <2>4
  <2> QED
    BY <2>2, <2>3, <2>4
<1>2. RequestMap' = [r \in Objects |-> [t \in Threads |->
                        IF t \in gone \/ (r = s /\ t \in served) THEN 0 ELSE RequestMap[r][t]]]
  BY <1>1 DEF RequestMap
<1>3. CountMap'[s] = count /\ CountMap[s] = semas[s].count
  BY DEF CountMap
<1>4. /\ served \in SUBSET Abstract!Requesters(s) /\ Abstract!NewlyGranted = served
      /\ Abstract!Units(s, served) = units
  BY AbstractMeans
<1>5. supplied > 0 => \A t \in Threads : RequestMap'[s][t] = 0 \/ RequestMap'[s][t] > CountMap'[s]
  BY <1>3 DEF RequestMap
<1>6. gone \in SUBSET Threads
  OBVIOUS
<1> HIDE DEF gone, units
<1>7. CountMap'[s] - CountMap[s] + Abstract!Units(s, served) = supplied
  BY <1>3, <1>4 DEF units
<1>8. CountMap' = [CountMap EXCEPT ![s] = CountMap'[s]] /\ CountMap'[s] \in Nat
  BY <1>3
<1>9. /\ Abstract!NewlyGranted = served /\ served \in SUBSET Abstract!Requesters(s)
      /\ RequestMap' = [r \in Objects |-> [t \in Threads |->
                           IF t \in gone \/ (r = s /\ t \in served) THEN 0 ELSE RequestMap[r][t]]]
      /\ CountMap'[s] - CountMap[s] + Abstract!Units(s, served) \in Signals \union {0}
      /\ CountMap'[s] - CountMap[s] + Abstract!Units(s, served) > 0 =>
             \A t \in Threads : RequestMap'[s][t] = 0 \/ RequestMap'[s][t] > CountMap'[s]
  BY <1>2, <1>4, <1>5, <1>7
<1> QED
  BY <1>6, <1>8, <1>9, Zenon DEF Abstract!Serve, CountMap, RequestMap, Asks

\* A semaphore is created, deleted or cancelled.
LEMMA ResetStep ==
    ASSUME SemaInv, RequestInv, NEW s \in Objects, NEW count \in Nat,
           CountMap' = [CountMap EXCEPT ![s] = count],
           \A t \in Threads : ~Asks(s, t)',
           \A r \in Objects \ {s}, t \in Threads :
               /\ Asks(r, t)' <=> Asks(r, t)
               /\ Asks(r, t) => asks'[t].want = asks[t].want,
           \A t \in Threads : asks'[t].told = IF Asks(s, t) THEN "error" ELSE asks[t].told
    PROVE  Abstract!Reset(s)
<1>1. CountMap' = [CountMap EXCEPT ![s] = CountMap'[s]] /\ CountMap'[s] \in Nat
  BY DEF CountMap
<1>2. \A r \in Objects, t \in Threads : RequestMap'[r][t] = IF r = s THEN 0 ELSE RequestMap[r][t]
  BY DEF RequestMap
<1>3. RequestMap' = [RequestMap EXCEPT ![s] = [t \in Threads |-> 0]]
  BY <1>2 DEF RequestMap
<1>4. ToldMap' = [t \in Threads |-> IF t \in Abstract!Requesters(s) THEN "error" ELSE ToldMap[t]]
  BY AbstractMeans DEF ToldMap
<1> QED
  BY <1>1, <1>3, <1>4, Zenon DEF Abstract!Reset, CountMap, RequestMap, ToldMap, Asks

\* Serving, taking, asking and resetting are the steps of the abstract specification.
LEMMA AbstractSteps ==
    ASSUME NEW s \in Objects,
           \/ Abstract!Reset(s) \/ Abstract!Take(s) \/ Abstract!Serve(s)
           \/ \E t \in Threads : Abstract!Ask(s, t)
    PROVE  Abstract!Next
BY Zenon DEF Abstract!Next

\* As long as a wait is there it counts: in s, too, that threads reached from here.
LEMMA WaitCounts ==
    ASSUME SemaInv, RequestInv, NEW s, Consistent(s), KeepsObjectWaits(sched, s), KeepsWaits(sched, s),
           NEW t \in Threads
    PROVE  /\ s.wait[t].type = "SEMA" => s.wait[t] = sched.wait[t] /\ Alive(s, t)
           /\ \A r : VerifyWait(s, t, "SEMA", r) <=> Awaits(s, t, r)
<1>1. Consistent(sched) /\ t \in AllThreads
  BY DEF SemaInv, Inv, ThreadInv, AllThreads
<1>2. ASSUME s.wait[t].type = "SEMA" PROVE s.wait[t] = sched.wait[t] /\ Alive(s, t)
  <2>1. s.wait[t] = sched.wait[t]
    BY <1>2 DEF KeepsObjectWaits, ObjectWaits
  <2>2. Alive(sched, t)
    BY <1>2, <2>1 DEF RequestInv, AsksNoted
  <2> QED
    BY <1>1, <2>1, <2>2, AliveMeans DEF KeepsWaits
<1>3. ASSUME NEW r, Awaits(s, t, r) PROVE VerifyWait(s, t, "SEMA", r)
  <2>1. s.wait[t].type = "SEMA"
    BY <1>3 DEF Awaits
  <2> QED
    BY <1>1, <1>2, <1>3, <2>1, AliveMeans DEF VerifyWait, Awaits
<1> QED
  BY <1>2, <1>3 DEF VerifyWait, Awaits

\* The same before the step.
LEMMA WaitCountsNow ==
    ASSUME SemaInv, RequestInv, NEW t \in Threads
    PROVE  \A r : VerifyWait(sched, t, "SEMA", r) <=> Awaits(sched, t, r)
<1>1. Consistent(sched) /\ KeepsObjectWaits(sched, sched) /\ KeepsWaits(sched, sched)
  BY DEF SemaInv, Inv, ThreadInv, KeepsObjectWaits, KeepsWaits
<1> QED
  BY <1>1, WaitCounts

\* Where no wait begins, none begins to count.
LEMMA AskedBefore ==
    ASSUME SemaInv, RequestInv, KeepsObjectWaits(sched, sched'), NEW t \in Threads, NEW r,
           VerifyWait(sched', t, "SEMA", r)
    PROVE  VerifyWait(sched, t, "SEMA", r)
<1>1. Awaits(sched', t, r)
  BY DEF VerifyWait, Awaits
<1> QED
  BY <1>1, AwaitedBefore, WaitCountsNow

\* What is noted stays noted when nobody who waits dies.
LEMMA AsksStayNoted ==
    ASSUME RequestInv, KeepsObjectWaits(sched, sched'), DeathForgets, AsksKept,
           \A t \in Threads : sched'.wait[t].type # "SEMA" => asks'[t] = NoAsk
    PROVE  AsksNoted'
<1> SUFFICES ASSUME NEW t \in Threads, sched'.wait[t].type = "SEMA"
             PROVE  asks'[t].want \in Wanted /\ Alive(sched', t)
  BY DEF AsksNoted
<1>1. sched.wait[t].type = "SEMA" /\ sched'.wait[t] # NoWait
  BY DEF KeepsObjectWaits, ObjectWaits, NoWait
<1>2. asks[t].want \in Wanted /\ Alive(sched, t)
  BY <1>1 DEF RequestInv, AsksNoted
<1> QED
  BY <1>1, <1>2 DEF DeathForgets, AsksKept

\* What it means that one semaphore changes.
LEMMA SemaChanged ==
    ASSUME SemaInv, NEW s \in Objects, NEW sema, semas' = [semas EXCEPT ![s] = sema]
    PROVE  /\ semas'[s] = sema /\ \A r \in Objects \ {s} : semas'[r] = semas[r]
           /\ CountMap' = [CountMap EXCEPT ![s] = sema.count]
           /\ NobodyListed /\ (sema.exists \/ \A t : ~Contains(sema.waiting, t)) => NobodyListed'
<1>1. semas \in [Objects -> SemaRecords]
  BY DEF SemaInv, SemasTyped
<1>2. semas'[s] = sema /\ \A r \in Objects \ {s} : semas'[r] = semas[r]
  BY <1>1
<1>3. \A r \in Objects : semas'[r].count = IF r = s THEN sema.count ELSE semas[r].count
  BY <1>2
<1>4. CountMap' = [r \in Objects |-> IF r = s THEN sema.count ELSE semas[r].count]
  BY <1>3 DEF CountMap
<1>5. CountMap' = [CountMap EXCEPT ![s] = sema.count]
  BY <1>4 DEF CountMap
<1>6. NobodyListed /\ (sema.exists \/ \A t : ~Contains(sema.waiting, t)) => NobodyListed'
  BY <1>2 DEF NobodyListed, SemaExists
<1> QED
  BY <1>2, <1>5, <1>6

\* A call that changes one semaphore, and no thread: whoever asks is listed as before.
LEMMA SameRequests ==
    ASSUME SemaInv, RequestInv, UNCHANGED <<vars, asks>>, NEW s \in Objects, NEW sema,
           semas' = [semas EXCEPT ![s] = sema], sema.exists,
           \A t \in Threads : VerifyWait(sched, t, "SEMA", s) =>
               (Contains(sema.waiting, t) <=> Contains(semas[s].waiting, t))
    PROVE  /\ RequestMap' = RequestMap /\ ToldMap' = ToldMap
           /\ \A r \in Objects, t \in Threads : Asks(r, t)' <=> Asks(r, t)
           /\ RequestInv'
<1>1. sched' = sched /\ asks' = asks /\ phase' = phase /\ UNCHANGED <<dispatch, intrVars>>
  BY DEF vars
<1>2. semas'[s] = sema /\ (\A r \in Objects \ {s} : semas'[r] = semas[r]) /\ NobodyListed'
  BY SemaChanged DEF RequestInv
<1>3. \A r \in Objects, t \in Threads : Asks(r, t)' <=> Asks(r, t)
  BY <1>1, <1>2 DEF Asks
<1>4. RequestMap' = RequestMap /\ ToldMap' = ToldMap
  BY <1>1, <1>3 DEF RequestMap, ToldMap
<1>5. AsksNoted' /\ CurForgets'
  BY <1>1 DEF RequestInv, AsksNoted, CurForgets, DispatchEnabled, intrVars, cur
<1> QED
  BY <1>2, <1>3, <1>4, <1>5 DEF RequestInv

\* Every step of the threads, and a time-out, only ends requests.
LEMMA WithdrawRefines ==
    ASSUME SemaInv, RequestInv, SemaInv', UNCHANGED semas, KeepsObjectWaits(sched, sched'), DeathForgets,
           AsksKept, \A t \in Threads : asks'[t].told = "granted" => asks[t].told = "granted",
           CurForgets', \A t \in Threads : sched'.wait[t].type # "SEMA" => asks'[t] = NoAsk
    PROVE  [Abstract!Next]_(Abstract!vars) /\ RequestInv'
<1>1. AsksNoted' /\ NobodyListed'
  BY AsksStayNoted DEF RequestInv, NobodyListed, SemaExists
<1>2. ASSUME Objects = {} PROVE UNCHANGED Abstract!vars
  <2>1. \A t \in Threads : sched.wait[t].type # "SEMA" /\ sched'.wait[t].type # "SEMA"
    BY <1>2 DEF SemaInv, WaitsForSemas
  <2>2. \A t \in Threads : asks[t] = NoAsk /\ asks'[t] = NoAsk
    BY <2>1 DEF RequestInv, AsksNoted
  <2>3. CountMap' = CountMap /\ RequestMap' = RequestMap /\ ToldMap' = ToldMap
    BY <1>2, <2>2 DEF CountMap, RequestMap, ToldMap
  <2> QED
    BY <2>3, AbstractStutters
<1>3. ASSUME NEW s \in Objects PROVE Abstract!Next
  <2> DEFINE served == {}
             count == semas[s].count
  <2>1. count \in Nat /\ served \in SUBSET Threads
    BY DEF SemaInv, SemasTyped, SemaRecords
  <2>2. CountMap' = [CountMap EXCEPT ![s] = count]
    BY DEF CountMap
  <2>3. count - semas[s].count + Sums(RequestMap[s], served)[served] = 0
    BY <2>1, NoUnits
  <2>4. ASSUME NEW r \in Objects, NEW t \in Threads, Asks(r, t)'
        PROVE  Asks(r, t) /\ asks'[t].want = asks[t].want
    <3>1. Contains(semas[r].waiting, t) /\ VerifyWait(sched', t, "SEMA", r)
      BY <2>4 DEF Asks
    <3>2. sched'.wait[t].type = "SEMA"
      BY <3>1 DEF VerifyWait
    <3> QED
      BY <3>1, <3>2, AskedBefore DEF Asks, AsksKept
  <2>5. 0 \in Signals \union {0} /\ ~(0 > 0)
    OBVIOUS
  <2>6. /\ \A t \in served : Asks(s, t)
        /\ \A r \in Objects, t \in Threads : Asks(r, t)' =>
               Asks(r, t) /\ t \notin served /\ asks'[t].want = asks[t].want
        /\ \A t \in Threads : asks'[t].told = "granted" /\ asks[t].told # "granted" <=> t \in served
    BY <2>4
  <2> HIDE DEF served, count
  <2>7. Abstract!Serve(s)
    BY <2>1, <2>2, <2>3, <2>5, <2>6, ServeStep
  <2> QED
    BY <2>7, AbstractSteps
<1> QED
  BY <1>1, <1>2, <1>3 DEF RequestInv

\* A step of the thread manager.
LEMMA ThreadStepRefines ==
    ASSUME Misuse = {}, SemaInv, RequestInv, SemaInv', ThreadStep
    PROVE  [Abstract!Next]_(Abstract!vars) /\ RequestInv'
<1>1. Inv /\ [Next]_vars /\ asks' = CurrentAsks(sched') /\ UNCHANGED semas
  BY DEF SemaInv, ThreadStep
<1>2. KeepsObjectWaits(sched, sched') /\ CurForgets' /\ DeathForgets
  BY <1>1, StepKeepsObjectWaits, StepCurForgets, StepSparesWaiters DEF RequestInv
<1>3. \A t \in Threads : asks'[t] = IF sched'.wait[t].type = "SEMA" THEN asks[t] ELSE NoAsk
  BY <1>1 DEF CurrentAsks
<1>4. AsksKept /\ \A t \in Threads : asks'[t].told = "granted" => asks[t].told = "granted"
  BY <1>3 DEF AsksKept, NoAsk
<1> QED
  BY <1>1, <1>2, <1>3, <1>4, WithdrawRefines

\* __KernelSemaTimeout() up to the nested reschedule.
LEMMA SemaTimeoutRefines ==
    ASSUME SemaInv, RequestInv, SemaInv', NEW t \in Threads, SemaTimeout(t)
    PROVE  [Abstract!Next]_(Abstract!vars) /\ RequestInv'
<1>1. /\ Inv /\ Consistent(sched) /\ QueueOK(sched) /\ t \in AllThreads
      /\ asks \in [Threads -> AskRecords]
  BY DEF SemaInv, AsksAreTyped, Inv, ThreadInv, Consistent, AllThreads
<1>2. /\ UNCHANGED <<semas, dispatch, intrVars>>
      /\ \/ /\ sched' = ResumeFromWait(sched, t) /\ phase' = "resched"
            /\ sched.wait[t].type = "SEMA"
            /\ asks' = [asks EXCEPT ![t].told = "error"]
         \/ sched' = sched /\ asks' = asks /\ phase' = phase
  BY DEF SemaTimeout
<1>3. Quiet(sched, sched') /\ sched'.wait = sched.wait
  <2>1. CASE sched' = ResumeFromWait(sched, t)
    BY <1>1, <2>1, ResumeFromWaitFacts, ResumeFromWaitQuiet
  <2>2. CASE sched' = sched
    BY <1>1, <2>2, QuietSelf
  <2> QED
    BY <1>2, <2>1, <2>2
<1>4. KeepsObjectWaits(sched, sched') /\ DeathForgets /\ CurForgets'
  BY <1>1, <1>2, <1>3, QuietWaitsKept, ResumeCurForgets DEF RequestInv
<1>5. \A x \in Threads : /\ asks'[x].want = asks[x].want /\ asks'[x].timed = asks[x].timed
                         /\ asks'[x] = asks[x] \/ (asks'[x].told = "error" /\ sched.wait[x].type = "SEMA")
  BY <1>1, <1>2 DEF AskRecords
<1>6. AsksKept /\ \A x \in Threads : asks'[x].told = "granted" => asks[x].told = "granted"
  BY <1>5 DEF AsksKept
<1>7. \A x \in Threads : sched'.wait[x].type # "SEMA" => asks'[x] = NoAsk
  BY <1>3, <1>5 DEF RequestInv, AsksNoted
<1> QED
  BY <1>2, <1>4, <1>6, <1>7, WithdrawRefines

\* sceKernelCreateSema()
LEMMA CreateSemaRefines ==
    ASSUME SemaInv, RequestInv, NEW s \in Objects, NEW arguments \in Creations, CreateSema(s, arguments)
    PROVE  Abstract!Next /\ RequestInv'
<1> DEFINE sema == [exists |-> TRUE, fifo |-> arguments.fifo, init |-> arguments.init,
                    max |-> arguments.max, count |-> arguments.init, waiting |-> <<>>]
<1>1. arguments.init \in Nat
  BY SemaAssumption
<1>2. /\ ~SemaExists(s) /\ semas' = [semas EXCEPT ![s] = sema]
      /\ UNCHANGED <<vars, asks>>
  BY DEF CreateSema
<1>3. sema.exists /\ sema.count = arguments.init /\ \A t : ~Contains(sema.waiting, t)
  BY DEF Contains
<1> HIDE DEF sema
<1>4. \A t : ~Contains(semas[s].waiting, t)
  BY <1>2 DEF RequestInv, NobodyListed
<1>5. /\ RequestInv' /\ \A r \in Objects, t \in Threads : Asks(r, t)' <=> Asks(r, t)
      /\ CountMap' = [CountMap EXCEPT ![s] = arguments.init]
  <2>1. RequestInv' /\ \A r \in Objects, t \in Threads : Asks(r, t)' <=> Asks(r, t)
    BY <1>2, <1>3, <1>4, SameRequests
  <2>2. CountMap' = [CountMap EXCEPT ![s] = arguments.init]
    BY <1>2, <1>3, SemaChanged
  <2> QED
    BY <2>1, <2>2
<1>6. \A t \in Threads : ~Asks(s, t) /\ ~Asks(s, t)'
  BY <1>4, <1>5 DEF Asks
<1>7. asks' = asks
  BY <1>2
<1>8. Abstract!Reset(s)
  BY <1>1, <1>5, <1>6, <1>7, ResetStep
<1> QED
  BY <1>5, <1>8, AbstractSteps

\* sceKernelPollSema(), and sceKernelWaitSema() when it need not wait.
LEMMA TakeUnitsRefines ==
    ASSUME SemaInv, RequestInv, NEW s \in Objects, NEW wanted \in Wanted, TakeUnits(s, wanted)
    PROVE  Abstract!Next /\ RequestInv'
<1> DEFINE sema == SemaWith(semas[s], semas[s].count - wanted, semas[s].waiting)
<1>1. /\ semas \in [Objects -> SemaRecords] /\ semas[s] \in SemaRecords /\ wanted \in Nat \ {0}
      /\ semas[s].count \in Nat /\ semas[s].waiting \in Seq(Threads)
  BY SemaAssumption DEF SemaInv, SemasTyped, SemaRecords
<1>2. /\ semas[s].exists /\ semas[s].count >= wanted /\ semas[s].waiting = <<>>
      /\ semas' = [semas EXCEPT ![s].count = semas[s].count - wanted]
      /\ UNCHANGED <<vars, asks>>
  BY DEF TakeUnits, SemaExists
<1>3. semas[s].count - wanted \in Nat /\ semas[s].count - wanted \in 0 .. semas[s].count - 1
  BY <1>1, <1>2
<1>4. /\ sema.exists /\ sema.count = semas[s].count - wanted /\ sema.waiting = semas[s].waiting
  BY <1>1, <1>2, <1>3, SemaWithFacts
<1>5. semas' = [semas EXCEPT ![s] = sema]
  BY <1>1, <1>2 DEF SemaWith, SemaRecords
<1> HIDE DEF sema
<1>6. /\ RequestMap' = RequestMap /\ ToldMap' = ToldMap /\ RequestInv'
      /\ CountMap' = [CountMap EXCEPT ![s] = semas[s].count - wanted]
  <2>1. RequestMap' = RequestMap /\ ToldMap' = ToldMap /\ RequestInv'
    BY <1>2, <1>4, <1>5, SameRequests
  <2>2. CountMap' = [CountMap EXCEPT ![s] = semas[s].count - wanted]
    BY <1>4, <1>5, SemaChanged
  <2> QED
    BY <2>1, <2>2
<1>7. Abstract!Requesters(s) = {}
  <2>1. \A t \in Threads : ~Asks(s, t)
    BY <1>2 DEF Asks, Contains
  <2> QED
    BY <2>1, AbstractMeans
<1>8. /\ CountMap[s] = semas[s].count /\ CountMap'[s] = semas[s].count - wanted
      /\ CountMap' = [CountMap EXCEPT ![s] = CountMap'[s]]
  BY <1>6 DEF CountMap
<1>9. Abstract!Take(s)
  BY <1>3, <1>6, <1>7, <1>8, Zenon DEF Abstract!Take, CountMap, RequestMap, ToldMap, Asks
<1> QED
  BY <1>6, <1>9, AbstractSteps

\* sceKernelReferSemaStatus() changes no request.
LEMMA ReferSemaStatusRefines ==
    ASSUME SemaInv, RequestInv, NEW s \in Objects, ReferSemaStatus(s)
    PROVE  UNCHANGED Abstract!vars /\ RequestInv'
<1>1. /\ semas \in [Objects -> SemaRecords] /\ semas[s] \in SemaRecords /\ semas[s].count \in Nat
      /\ semas[s].waiting \in Seq(Threads) /\ IsInjective(semas[s].waiting)
  BY DEF SemaInv, SemasTyped, SemaRecords
<1>2. semas[s].exists /\ UNCHANGED <<vars, asks>>
  BY DEF ReferSemaStatus, SemaExists
<1>3. PICK w \in CleanedUp(semas[s].waiting, Asking(sched, s)) : semas' = [semas EXCEPT ![s].waiting = w]
  BY DEF ReferSemaStatus
<1>4. w \in Seq(Threads) /\ \A x : Contains(w, x) <=> Contains(semas[s].waiting, x) /\ x \in Asking(sched, s)
  BY <1>1, <1>3, CleanedUpFacts
<1> DEFINE sema == SemaWith(semas[s], semas[s].count, w)
<1>5. sema.exists /\ sema.count = semas[s].count /\ sema.waiting = w
  BY <1>1, <1>2, <1>4, SemaWithFacts
<1>6. semas' = [semas EXCEPT ![s] = sema]
  BY <1>1, <1>3 DEF SemaWith, SemaRecords
<1> HIDE DEF sema
<1>7. \A t \in Threads : VerifyWait(sched, t, "SEMA", s) => t \in Asking(sched, s)
  BY DEF Asking
<1>8. RequestMap' = RequestMap /\ ToldMap' = ToldMap /\ RequestInv'
  BY <1>2, <1>4, <1>5, <1>6, <1>7, SameRequests
<1>9. CountMap' = CountMap
  BY <1>5, <1>6, SemaChanged DEF CountMap
<1> QED
  BY <1>8, <1>9, AbstractStutters

\* sceKernelWaitSema() when it waits.
LEMMA WaitSemaRefines ==
    ASSUME SemaInv, RequestInv, NEW s \in Objects, NEW wanted \in Wanted, NEW timeout \in BOOLEAN,
           WaitSema(s, wanted, timeout)
    PROVE  Abstract!Next /\ RequestInv'
<1> DEFINE ask == [want |-> wanted, timed |-> timeout, told |-> "nothing"]
<1>1. /\ MayWait /\ SemaExists(s) /\ sched' = WaitCurThread(sched, "SEMA", s) /\ phase' = "resched"
      /\ semas' = [semas EXCEPT ![s].waiting = Listed(semas[s].waiting, cur)]
      /\ asks' = [asks EXCEPT ![cur] = ask]
      /\ UNCHANGED <<wakeupCount, endWaiters, timers, dispatch, suspender, intrVars, timedOut>>
  BY DEF WaitSema
<1>2. /\ sched'.status[cur] = {"WAIT"} /\ cur \in Threads /\ cur' = cur
      /\ \A x \in AllThreads : x # cur => sched'.status[x] = sched.status[x]
      /\ sched'.wait = [sched.wait EXCEPT ![cur] = [type |-> "SEMA", id |-> s]]
  BY <1>1, ObjectWaitInv DEF SemaInv, ObjectWaits
<1>3. PICK c \in Threads : c = cur
  BY <1>2
<1>4. /\ sched.wait \in [AllThreads -> Waits] /\ \A t \in Threads : t \in AllThreads
      /\ semas \in [Objects -> SemaRecords] /\ semas[s] \in SemaRecords /\ semas[s].count \in Nat
      /\ semas[s].waiting \in Seq(Threads) /\ IsInjective(semas[s].waiting)
      /\ asks \in [Threads -> AskRecords] /\ wanted \in Nat \ {0}
  <2>1. sched.wait \in [AllThreads -> Waits]
    BY SchedTypes DEF SemaInv, Inv, ThreadInv, Consistent, QueueOK
  <2>2. /\ semas \in [Objects -> SemaRecords] /\ semas[s] \in SemaRecords /\ semas[s].count \in Nat
        /\ semas[s].waiting \in Seq(Threads) /\ IsInjective(semas[s].waiting)
    BY DEF SemaInv, SemasTyped, SemaRecords
  <2> QED
    BY <2>1, <2>2, SemaAssumption DEF SemaInv, AsksAreTyped, AllThreads
<1> DEFINE list == Listed(semas[s].waiting, c)
           sema == SemaWith(semas[s], semas[s].count, list)
<1>5. list \in Seq(Threads) /\ \A x : Contains(list, x) <=> Contains(semas[s].waiting, x) \/ x = c
  BY <1>4, ListedFacts
<1> HIDE DEF list
<1>6. sema.exists /\ sema.count = semas[s].count /\ sema.waiting = list
  BY <1>1, <1>4, <1>5, SemaWithFacts DEF SemaExists
<1>7. semas' = [semas EXCEPT ![s] = sema]
  BY <1>1, <1>3, <1>4 DEF SemaWith, SemaRecords, list
<1> HIDE DEF sema, ask
<1>8. /\ semas'[s] = sema /\ (\A r \in Objects \ {s} : semas'[r] = semas[r]) /\ NobodyListed'
      /\ CountMap' = [CountMap EXCEPT ![s] = semas[s].count]
  BY <1>6, <1>7, SemaChanged DEF RequestInv
<1>9. \A t \in Threads : /\ sched'.wait[t] = IF t = c THEN [type |-> "SEMA", id |-> s] ELSE sched.wait[t]
                         /\ asks'[t] = IF t = c THEN ask ELSE asks[t]
  BY <1>1, <1>2, <1>3, <1>4
<1>10. sched.wait[c].type # "SEMA"
  <2>1. phase = "run"
    BY <1>1 DEF MayWait, ThreadRuns
  <2> QED
    BY <1>3, <2>1 DEF RequestInv, CurForgets, ObjectWaits
<1>11. \A r \in Objects : ~Asks(r, c) /\ (Asks(r, c)' <=> r = s)
  <2>1. VerifyWait(sched', c, "SEMA", s) /\ \A r : VerifyWait(sched', c, "SEMA", r) => r = s
    <3>1. Exists(sched', c)
      BY <1>2, <1>3, <1>4 DEF Exists
    <3>2. sched'.wait[c] = [type |-> "SEMA", id |-> s]
      BY <1>9
    <3> QED
      BY <3>1, <3>2 DEF VerifyWait
  <2>2. \A r : ~VerifyWait(sched, c, "SEMA", r)
    BY <1>10 DEF VerifyWait
  <2> QED
    BY <1>5, <1>6, <1>8, <2>1, <2>2 DEF Asks
<1>12. \A r \in Objects, t \in Threads : t # c => (Asks(r, t)' <=> Asks(r, t))
  <2>1. \A t \in Threads : \A r : t # c => (VerifyWait(sched', t, "SEMA", r) <=> VerifyWait(sched, t, "SEMA", r))
    BY <1>2, <1>3, <1>4, <1>9 DEF VerifyWait, Exists
  <2>2. \A r \in Objects, t \in Threads : t # c => (Contains(semas'[r].waiting, t) <=> Contains(semas[r].waiting, t))
    BY <1>5, <1>6, <1>8
  <2> QED
    BY <2>1, <2>2 DEF Asks
<1>13. ask.want = wanted /\ ask.told = "nothing"
  BY DEF ask
<1>14. RequestMap[s][c] = 0 /\ RequestMap'[s][c] = wanted
  BY <1>9, <1>11, <1>13 DEF RequestMap
<1>15. RequestMap' = [RequestMap EXCEPT ![s][c] = RequestMap'[s][c]]
  <2>1. \A r \in Objects, t \in Threads :
           (IF Asks(r, t)' THEN asks'[t].want ELSE 0) =
               IF r = s /\ t = c THEN wanted ELSE IF Asks(r, t) THEN asks[t].want ELSE 0
    BY <1>9, <1>11, <1>12, <1>13
  <2>2. /\ RequestMap = [r \in Objects |-> [t \in Threads |-> IF Asks(r, t) THEN asks[t].want ELSE 0]]
        /\ RequestMap' = [r \in Objects |-> [t \in Threads |->
                             IF r = s /\ t = c THEN wanted ELSE IF Asks(r, t) THEN asks[t].want ELSE 0]]
    BY <2>1 DEF RequestMap
  <2> HIDE DEF RequestMap
  <2>3. [RequestMap[s] EXCEPT ![c] = wanted] =
            [t \in Threads |-> IF t = c THEN wanted ELSE IF Asks(s, t) THEN asks[t].want ELSE 0]
    BY <2>2
  <2>4. RequestMap' = [RequestMap EXCEPT ![s] = [RequestMap[s] EXCEPT ![c] = wanted]]
    <3>1. \A r \in Objects :
             [t \in Threads |-> IF r = s /\ t = c THEN wanted ELSE IF Asks(r, t) THEN asks[t].want ELSE 0] =
                 IF r = s THEN [RequestMap[s] EXCEPT ![c] = wanted] ELSE RequestMap[r]
      BY <2>2, <2>3
    <3>2. RequestMap = [r \in Objects |-> RequestMap[r]]
      BY <2>2
    <3> QED
      BY <2>2, <3>1, <3>2
  <2> QED
    BY <1>14, <2>4
<1>16. ToldMap' = [ToldMap EXCEPT ![c] = "nothing"]
  <2>1. \A t \in Threads : asks'[t].told = IF t = c THEN "nothing" ELSE asks[t].told
    BY <1>9, <1>13
  <2>2. ToldMap' = [t \in Threads |-> IF t = c THEN "nothing" ELSE asks[t].told]
    BY <2>1 DEF ToldMap
  <2> QED
    BY <2>2 DEF ToldMap
<1>17. CountMap' = CountMap
  BY <1>8 DEF CountMap
<1>18. Abstract!Ask(s, c)
  <2>1. RequestMap'[s][c] \in Nat \ {0}
    BY <1>4, <1>14
  <2> QED
    BY <1>14, <1>15, <1>16, <1>17, <2>1, Zenon DEF Abstract!Ask, CountMap, RequestMap, ToldMap, Asks
<1>19. CurForgets'
  <2>1. DispatchEnabled' /\ ~Has(sched', cur', "RUNNING")
    BY <1>1, <1>2 DEF MayWait, intrVars, DispatchEnabled, Has
  <2> QED
    BY <1>1, <2>1 DEF CurForgets
<1>20. AsksNoted'
  <2>1. Alive(sched', c) /\ \A t \in Threads : t # c /\ Alive(sched, t) => Alive(sched', t)
    BY <1>2, <1>3, <1>4 DEF Alive
  <2> QED
    BY <1>9, <1>13, <2>1 DEF RequestInv, AsksNoted
<1> QED
  BY <1>8, <1>18, <1>19, <1>20, AbstractSteps DEF RequestInv

\* What the threads are told by an answer, and what becomes of the waits.
LEMMA AnswerAsks ==
    ASSUME SemaInv, RequestInv, NEW sd, Consistent(sd), KeepsObjectWaits(sched, sd), KeepsWaits(sched, sd),
           NEW s \in Objects,
           NEW w \in Seq(Threads), IsInjective(w), \A t : Contains(w, t) => VerifyWait(sd, t, "SEMA", s),
           NEW told \in Told, Answer(sd, s, w, told)
    PROVE  /\ sched'.wait = sd.wait /\ AsksNoted'
           /\ \A t \in Threads : \A r :
                 /\ VerifyWait(sched', t, "SEMA", r) <=> VerifyWait(sd, t, "SEMA", r)
                 /\ VerifyWait(sd, t, "SEMA", r) => VerifyWait(sched, t, "SEMA", r)
           /\ \A t \in Threads : sd.wait[t].type = "SEMA" => asks'[t].want = asks[t].want
           /\ \A t \in Threads : asks'[t].told = IF Contains(w, t) THEN told
                                                 ELSE IF sd.wait[t].type = "SEMA" THEN asks[t].told
                                                 ELSE "nothing"
<1>1. /\ sched' = ResumeAll(sd, w, "SEMA", s) /\ asks \in [Threads -> AskRecords]
      /\ asks' = [t \in Threads |-> IF t \in ToSet(w) THEN [asks[t] EXCEPT !.told = told]
                                    ELSE CurrentAsks(sd)[t]]
  BY DEF Answer, SemaInv, AsksAreTyped
<1>2. /\ w \in Seq(AllThreads) /\ QueueOK(sd) /\ Consistent(sched)
  BY SeqMonotonic DEF AllThreads, Consistent, SemaInv, Inv, ThreadInv
<1>3. sched'.wait = sd.wait
  BY <1>1, <1>2, ResumeAllFacts
<1>4. Quiet(sd, sched') /\ KeepsObjectWaits(sched, sched')
  BY AnswerFacts
<1>5. Consistent(sched') /\ KeepsWaits(sched, sched')
  BY <1>4 DEF Quiet, KeepsWaits
<1>6. \A t : t \in ToSet(w) <=> Contains(w, t)
  BY DEF ToSet, Contains
<1>7. \A t : Contains(w, t) => sd.wait[t].type = "SEMA"
  BY DEF VerifyWait
<1>8. \A t \in Threads : asks'[t] = IF Contains(w, t) THEN [asks[t] EXCEPT !.told = told]
                                    ELSE IF sd.wait[t].type = "SEMA" THEN asks[t] ELSE NoAsk
  BY <1>1, <1>6 DEF CurrentAsks
<1>9. \A t \in Threads : sd.wait[t].type = "SEMA" => asks'[t].want = asks[t].want
  BY <1>1, <1>8 DEF AskRecords
<1>10. \A t \in Threads : asks'[t].told = IF Contains(w, t) THEN told
                                          ELSE IF sd.wait[t].type = "SEMA" THEN asks[t].told
                                          ELSE "nothing"
  <2>1. (\A t \in Threads : [asks[t] EXCEPT !.told = told].told = told) /\ NoAsk.told = "nothing"
    BY <1>1 DEF AskRecords, NoAsk
  <2> QED
    BY <1>8, <2>1
<1>11. \A t \in Threads :
          /\ sched'.wait[t].type = "SEMA" => sched'.wait[t] = sched.wait[t] /\ Alive(sched', t)
          /\ \A r : /\ VerifyWait(sched', t, "SEMA", r) <=> Awaits(sched', t, r)
                    /\ VerifyWait(sd, t, "SEMA", r) <=> Awaits(sd, t, r)
                    /\ VerifyWait(sched, t, "SEMA", r) <=> Awaits(sched, t, r)
  BY <1>4, <1>5, WaitCounts, WaitCountsNow
<1>12. \A t \in Threads : \A r : /\ Awaits(sched', t, r) <=> Awaits(sd, t, r)
                                 /\ Awaits(sd, t, r) => Awaits(sched, t, r)
  <2>1. \A t \in Threads : \A r : Awaits(sched', t, r) <=> Awaits(sd, t, r)
    BY <1>3 DEF Awaits
  <2> QED
    BY <2>1, AwaitedBefore
<1>13. AsksNoted'
  <2> SUFFICES ASSUME NEW t \in Threads
               PROVE  /\ sched'.wait[t].type # "SEMA" => asks'[t] = NoAsk
                      /\ sched'.wait[t].type = "SEMA" => asks'[t].want \in Wanted /\ Alive(sched', t)
    BY DEF AsksNoted
  <2>1. CASE sched'.wait[t].type = "SEMA"
    <3>1. asks[t].want \in Wanted
      BY <1>11, <2>1 DEF RequestInv, AsksNoted
    <3> QED
      BY <1>3, <1>9, <1>11, <2>1, <3>1
  <2>2. CASE sched'.wait[t].type # "SEMA"
    BY <1>3, <1>7, <1>8, <2>2
  <2> QED
    BY <2>1, <2>2
<1> QED
  BY <1>3, <1>9, <1>10, <1>11, <1>12, <1>13

\* sceKernelDeleteSema() and sceKernelCancelSema() withdraw every request.
LEMMA ClearedRefines ==
    ASSUME SemaInv, RequestInv, NEW s \in Objects, SomeoneRuns, ClearSemaThreads(s), NEW sema,
           sema.waiting = <<>>, sema.count \in Nat, semas' = [semas EXCEPT ![s] = sema]
    PROVE  Abstract!Next /\ RequestInv'
<1> DEFINE woken == InOrder(semas[s].waiting, Asking(sched, s))
<1>1. Answer(sched, s, woken, "error")
  BY DEF ClearSemaThreads
<1>2. semas[s].waiting \in Seq(Threads) /\ IsInjective(semas[s].waiting)
  BY DEF SemaInv, SemasTyped, SemaRecords
<1>3. /\ woken \in Seq(Threads) /\ IsInjective(woken)
      /\ \A t : Contains(woken, t) <=> Contains(semas[s].waiting, t) /\ t \in Asking(sched, s)
  BY <1>2, InOrderFacts
<1>4. /\ \A t : Contains(woken, t) => VerifyWait(sched, t, "SEMA", s)
      /\ \A t \in Threads : Contains(woken, t) <=> Asks(s, t)
  BY <1>3 DEF Asking, Asks
<1>5. /\ Consistent(sched) /\ KeepsObjectWaits(sched, sched) /\ KeepsWaits(sched, sched) /\ "error" \in Told
      /\ Inv
  BY DEF SemaInv, Inv, ThreadInv, KeepsObjectWaits, KeepsWaits, Told
<1> HIDE DEF woken
<1>6. /\ sched'.wait = sched.wait /\ AsksNoted'
      /\ \A t \in Threads : \A r : VerifyWait(sched', t, "SEMA", r) <=> VerifyWait(sched, t, "SEMA", r)
      /\ \A t \in Threads : sched.wait[t].type = "SEMA" => asks'[t].want = asks[t].want
      /\ \A t \in Threads : asks'[t].told = IF Contains(woken, t) THEN "error"
                                            ELSE IF sched.wait[t].type = "SEMA" THEN asks[t].told
                                            ELSE "nothing"
  BY <1>1, <1>3, <1>4, <1>5, AnswerAsks
<1>7. Quiet(sched, sched') /\ KeepsObjectWaits(sched, sched')
  BY <1>1, <1>3, <1>4, <1>5, AnswerFacts
<1>8. \A t : ~Contains(sema.waiting, t)
  BY DEF Contains
<1>9. /\ semas'[s] = sema /\ \A r \in Objects \ {s} : semas'[r] = semas[r]
      /\ CountMap' = [CountMap EXCEPT ![s] = sema.count] /\ NobodyListed'
  BY <1>8, SemaChanged DEF RequestInv
<1>10. /\ \A t \in Threads : ~Asks(s, t)'
       /\ \A r \in Objects \ {s}, t \in Threads : Asks(r, t)' <=> Asks(r, t)
  BY <1>6, <1>8, <1>9 DEF Asks
<1>11. \A r \in Objects \ {s}, t \in Threads : Asks(r, t) => asks'[t].want = asks[t].want
  BY <1>6 DEF Asks, VerifyWait
<1>12. \A t \in Threads : asks'[t].told = IF Asks(s, t) THEN "error" ELSE asks[t].told
  BY <1>4, <1>6 DEF RequestInv, AsksNoted, NoAsk
<1>13. Abstract!Reset(s)
  BY <1>9, <1>10, <1>11, <1>12, ResetStep
<1>14. CurForgets'
  BY <1>5, <1>7, CallCurForgets DEF RequestInv, Quiet, cur
<1> QED
  BY <1>6, <1>9, <1>13, <1>14, AbstractSteps DEF RequestInv

LEMMA ClearCallsRefine ==
    ASSUME SemaInv, RequestInv, NEW s \in Objects,
           DeleteSema(s) \/ \E count \in 0 .. semas[s].max \union {semas[s].init} : CancelSema(s, count)
    PROVE  Abstract!Next /\ RequestInv'
<1>1. CASE DeleteSema(s)
  <2>1. NoSema.waiting = <<>> /\ NoSema.count \in Nat
    BY DEF NoSema
  <2> QED
    BY <1>1, <2>1, ClearedRefines DEF DeleteSema
<1>2. ASSUME NEW count \in 0 .. semas[s].max \union {semas[s].init}, CancelSema(s, count)
      PROVE  Abstract!Next /\ RequestInv'
  <2> DEFINE nobody == <<>>
             sema == SemaWith(semas[s], count, nobody)
  <2>1. semas \in [Objects -> SemaRecords] /\ semas[s] \in SemaRecords
    BY DEF SemaInv, SemasTyped
  <2>2. count \in Nat /\ nobody \in Seq(Threads)
    BY <2>1 DEF SemaRecords
  <2>3. semas' = [semas EXCEPT ![s] = sema] /\ ClearSemaThreads(s) /\ SomeoneRuns
    BY <1>2, <2>1 DEF CancelSema, SemaWith
  <2>4. sema.count \in Nat /\ sema.waiting = nobody
    <3> HIDE DEF nobody
    <3> QED
      BY <2>1, <2>2, SemaWithFacts
  <2> HIDE DEF sema
  <2> QED
    BY <2>3, <2>4, ClearedRefines
<1> QED
  BY <1>1, <1>2

\* A semaphore gets another count, and some entries of its list are erased.
LEMMA ListShrinks ==
    ASSUME SemaInv, RequestInv, NEW s \in Objects, NEW count \in Nat, NEW kept \in Seq(Threads),
           \A t : Contains(kept, t) => Contains(semas[s].waiting, t),
           semas' = [semas EXCEPT ![s].count = count, ![s].waiting = kept]
    PROVE  /\ semas'[s].waiting = kept /\ \A r \in Objects \ {s} : semas'[r] = semas[r]
           /\ CountMap' = [CountMap EXCEPT ![s] = count] /\ NobodyListed'
<1> DEFINE sema == SemaWith(semas[s], count, kept)
<1>1. semas \in [Objects -> SemaRecords] /\ semas[s] \in SemaRecords
  BY DEF SemaInv, SemasTyped
<1>2. semas' = [semas EXCEPT ![s] = sema]
  BY <1>1 DEF SemaWith
<1>3. sema.exists = semas[s].exists /\ sema.count = count /\ sema.waiting = kept
  BY <1>1, SemaWithFacts
<1> HIDE DEF sema
<1>4. sema.exists \/ \A t : ~Contains(sema.waiting, t)
  BY <1>3 DEF RequestInv, NobodyListed, SemaExists
<1> QED
  BY <1>2, <1>3, <1>4, SemaChanged DEF RequestInv

\* Of the threads listed in w, none that counts as waiting for s asks for count or less.
NoneServable(sd, s, w, count) ==
    \A t \in Threads : Contains(w, t) /\ VerifyWait(sd, t, "SEMA", s) => asks[t].want > count

\* Units are given to the first n threads of w that can have them.
LEMMA ServedRefines ==
    ASSUME SemaInv, RequestInv, NEW sd, Consistent(sd), KeepsObjectWaits(sched, sd), KeepsWaits(sched, sd),
           NEW s \in Objects, NEW total \in Nat, total - semas[s].count \in Signals \union {0},
           NEW w \in Seq(Threads), IsInjective(w), \A t : Contains(w, t) => Contains(semas[s].waiting, t),
           NEW left \in LeftAfter(total, w, Asking(sd, s)), NEW n \in 0 .. Len(w),
           NEW woken \in Seq(Threads), IsInjective(woken),
           \A t : Contains(woken, t) <=> t \in Served(left, w, Asking(sd, s), n),
           NEW kept \in Seq(Threads),
           \A t : Contains(kept, t) => Contains(semas[s].waiting, t) /\ ~Contains(woken, t),
           semas' = [semas EXCEPT ![s].count = left[n], ![s].waiting = kept],
           Answer(sd, s, woken, "granted"),
           total > semas[s].count => NoneServable(sd, s, kept, left[n])
    PROVE  Abstract!Next /\ AsksNoted' /\ NobodyListed'
<1> DEFINE asking == Asking(sd, s)
           served == Served(left, w, asking, n)
           supplied == total - semas[s].count
<1>1. /\ semas \in [Objects -> SemaRecords] /\ semas[s] \in SemaRecords /\ semas[s].count \in Nat
  BY DEF SemaInv, SemasTyped, SemaRecords
<1>2. left[n] \in Nat
  BY LeftShrinks DEF SemaInv
<1>3. /\ semas'[s].waiting = kept /\ \A r \in Objects \ {s} : semas'[r] = semas[r]
      /\ CountMap' = [CountMap EXCEPT ![s] = left[n]] /\ NobodyListed'
  BY <1>2, ListShrinks
<1>4. \A t : t \in served <=> \E i \in 1 .. n : t = w[i] /\ Takes(left[i - 1], t, asking)
  BY DEF Served
<1>5. \A t : t \in asking <=> t \in Threads /\ VerifyWait(sd, t, "SEMA", s)
  BY DEF Asking
<1> HIDE DEF served, asking, supplied
<1>6. \A t \in served : t \in Threads /\ Contains(semas[s].waiting, t) /\ VerifyWait(sd, t, "SEMA", s)
  <2> SUFFICES ASSUME NEW i \in 1 .. n, Takes(left[i - 1], w[i], asking)
               PROVE  w[i] \in Threads /\ Contains(semas[s].waiting, w[i]) /\ VerifyWait(sd, w[i], "SEMA", s)
    BY <1>4
  <2>1. i \in DOMAIN w /\ w[i] \in asking
    BY DEF Takes
  <2>2. Contains(w, w[i])
    BY <2>1 DEF Contains
  <2> QED
    BY <1>5, <2>1, <2>2
<1>7. \A t : Contains(woken, t) <=> t \in served
  BY DEF served, asking
<1>8. \A t : Contains(woken, t) => VerifyWait(sd, t, "SEMA", s)
  BY <1>6, <1>7
<1>9. /\ AsksNoted'
      /\ \A t \in Threads : \A r :
            /\ VerifyWait(sched', t, "SEMA", r) <=> VerifyWait(sd, t, "SEMA", r)
            /\ VerifyWait(sd, t, "SEMA", r) => VerifyWait(sched, t, "SEMA", r)
      /\ \A t \in Threads : sd.wait[t].type = "SEMA" => asks'[t].want = asks[t].want
      /\ \A t \in Threads : asks'[t].told = IF Contains(woken, t) THEN "granted"
                                            ELSE IF sd.wait[t].type = "SEMA" THEN asks[t].told
                                            ELSE "nothing"
  <2>1. "granted" \in Told
    BY DEF Told
  <2> QED
    BY <1>8, <2>1, AnswerAsks
<1>10. \A t \in served : Asks(s, t) /\ asks[t].told # "granted"
  <2> SUFFICES ASSUME NEW t \in served PROVE Asks(s, t) /\ asks[t].told # "granted"
    OBVIOUS
  <2>1. t \in Threads /\ Contains(semas[s].waiting, t) /\ VerifyWait(sched, t, "SEMA", s)
    BY <1>6, <1>9
  <2> QED
    BY <2>1 DEF SemaInv, GrantedGone, Asks, Awaits, VerifyWait
<1>11. ASSUME NEW r \in Objects, NEW t \in Threads, Asks(r, t)'
       PROVE  Asks(r, t) /\ t \notin served /\ asks'[t].want = asks[t].want
  <2>1. Contains(semas'[r].waiting, t) /\ VerifyWait(sched', t, "SEMA", r)
    BY <1>11 DEF Asks
  <2>2. VerifyWait(sd, t, "SEMA", r) /\ VerifyWait(sched, t, "SEMA", r)
    BY <1>9, <2>1
  <2>3. asks'[t].want = asks[t].want
    BY <1>9, <2>2 DEF VerifyWait
  <2>4. CASE r = s
    BY <1>3, <1>7, <2>1, <2>2, <2>3, <2>4 DEF Asks
  <2>5. CASE r # s
    <3>1. Asks(r, t)
      BY <1>3, <2>1, <2>2, <2>5 DEF Asks
    <3>2. t \notin served
      BY <1>10, <2>2, <2>5 DEF Asks, VerifyWait
    <3> QED
      BY <2>3, <3>1, <3>2
  <2> QED
    BY <2>4, <2>5
<1>12. \A t \in Threads : asks'[t].told = "granted" /\ asks[t].told # "granted" <=> t \in served
  BY <1>7, <1>9, <1>10
<1>13. left[n] - semas[s].count + Sums(RequestMap[s], served)[served] = supplied
  <2>1. \A x \in served : RequestMap[s][x] = asks[x].want
    BY <1>6, <1>10 DEF RequestMap
  <2>2. Sums(RequestMap[s], served)[served] = total - left[n]
    <3>1. \A x \in Served(left, w, Asking(sd, s), n) : RequestMap[s][x] = asks[x].want
      BY <2>1 DEF served, asking
    <3> QED
      BY <3>1, ServedSum DEF SemaInv, served, asking
  <2> QED
    BY <1>1, <1>2, <2>2 DEF supplied
<1>14. supplied > 0 => \A t \in Threads : Asks(s, t)' => asks'[t].want > left[n]
  <2> SUFFICES ASSUME supplied > 0, NEW t \in Threads, Asks(s, t)' PROVE asks'[t].want > left[n]
    OBVIOUS
  <2>1. Contains(kept, t) /\ VerifyWait(sd, t, "SEMA", s)
    BY <1>3, <1>9 DEF Asks
  <2>2. total > semas[s].count
    BY <1>1 DEF supplied
  <2>3. asks[t].want > left[n] /\ asks'[t].want = asks[t].want
    BY <1>11, <2>1, <2>2 DEF NoneServable
  <2> QED
    BY <2>3
<1>15. served \in SUBSET Threads /\ supplied \in Signals \union {0}
  BY <1>6 DEF supplied
<1>16. Abstract!Serve(s)
  BY <1>2, <1>3, <1>10, <1>11, <1>12, <1>13, <1>14, <1>15, ServeStep
<1> QED
  BY <1>3, <1>9, <1>16, AbstractSteps

\* sceKernelSignalSema()
LEMMA SignalSemaRefines ==
    ASSUME SemaInv, RequestInv, NEW s \in Objects, NEW signal \in Signals, SignalSema(s, signal)
    PROVE  Abstract!Next /\ RequestInv'
<1> DEFINE asking == Asking(sched, s)
           total == semas[s].count + signal
<1>1. /\ semas[s].waiting \in Seq(Threads) /\ IsInjective(semas[s].waiting) /\ semas[s].count \in Nat
      /\ signal \in Nat \ {0} /\ SomeoneRuns
  BY SemaAssumption DEF SemaInv, SemasTyped, SemaRecords, SignalSema
<1>2. total \in Nat /\ total - semas[s].count \in Signals \union {0}
  BY <1>1
<1> HIDE DEF asking, total
<1>3. PICK w \in IF semas[s].fifo THEN {semas[s].waiting} ELSE Sorted(semas[s].waiting) :
         \E left \in LeftAfter(total, w, asking) :
            LET granted == Granted(left, w, asking) IN
            /\ semas' = [semas EXCEPT ![s].count = left[Len(w)],
                                      ![s].waiting = StillListed(w, asking, granted)]
            /\ Answer(sched, s, InOrder(w, granted), "granted")
  BY DEF SignalSema, asking, total
<1>4. PICK left \in LeftAfter(total, w, asking) :
         LET granted == Granted(left, w, asking) IN
         /\ semas' = [semas EXCEPT ![s].count = left[Len(w)],
                                   ![s].waiting = StillListed(w, asking, granted)]
         /\ Answer(sched, s, InOrder(w, granted), "granted")
  BY <1>3
<1> DEFINE granted == Granted(left, w, asking)
           woken == InOrder(w, granted)
           kept == InOrder(w, asking \ granted)
           n == Len(w)
<1>5. /\ semas' = [semas EXCEPT ![s].count = left[n], ![s].waiting = kept]
      /\ Answer(sched, s, woken, "granted")
  BY <1>4 DEF StillListed
<1>6. w \in Seq(Threads) /\ IsInjective(w) /\ \A x : Contains(w, x) <=> Contains(semas[s].waiting, x)
  BY <1>1, <1>3, SortedFacts
<1>7. \A t : t \in granted <=> \E j \in 1 .. n : t = w[j] /\ Takes(left[j - 1], w[j], asking)
  BY <1>6 DEF Granted
<1>8. \A t : t \in granted <=> t \in Served(left, w, asking, n)
  BY <1>7 DEF Served
<1> HIDE DEF granted
<1>9. /\ woken \in Seq(Threads) /\ IsInjective(woken)
      /\ \A x : Contains(woken, x) <=> Contains(w, x) /\ x \in granted
      /\ kept \in Seq(Threads) /\ \A x : Contains(kept, x) <=> Contains(w, x) /\ x \in asking \ granted
  BY <1>6, InOrderFacts
<1>10. \A x : x \in granted => Contains(w, x)
  BY <1>6, <1>7 DEF Contains
<1> HIDE DEF woken, kept
<1>11. /\ \A t : Contains(woken, t) <=> t \in Served(left, w, asking, n)
       /\ \A t : Contains(kept, t) => Contains(semas[s].waiting, t) /\ ~Contains(woken, t)
       /\ n \in 0 .. Len(w)
  BY <1>6, <1>8, <1>9, <1>10
<1>12. ASSUME NEW t \in Threads, Contains(kept, t) PROVE asks[t].want > left[n]
  <2>1. PICK i \in 1 .. n : w[i] = t
    BY <1>6, <1>9, <1>12 DEF Contains
  <2>2. ~Takes(left[i - 1], t, asking) /\ t \in asking
    BY <1>7, <1>9, <1>12, <2>1
  <2>3. /\ left \in [0 .. Len(w) -> Nat]
        /\ \A j, k \in 0 .. Len(w) : j <= k => left[k] <= left[j]
    BY <1>2, <1>6, LeftShrinks DEF SemaInv
  <2>4. left[n] <= left[i - 1] /\ left[i - 1] \in Nat /\ left[n] \in Nat
    BY <1>6, <2>1, <2>3
  <2>5. asks[t].want \in Nat
    BY AsksAreNumbers DEF SemaInv
  <2> QED
    BY <2>2, <2>4, <2>5 DEF Takes
<1>13. Consistent(sched) /\ KeepsObjectWaits(sched, sched) /\ KeepsWaits(sched, sched) /\ Inv
  BY DEF SemaInv, Inv, ThreadInv, KeepsObjectWaits, KeepsWaits
<1> HIDE DEF n
<1>14. Abstract!Next /\ AsksNoted' /\ NobodyListed'
  <2>1. left \in LeftAfter(total, w, Asking(sched, s))
    BY DEF asking
  <2>2. \A t : Contains(woken, t) <=> t \in Served(left, w, Asking(sched, s), n)
    BY <1>11 DEF asking
  <2>3. \A t : Contains(w, t) => Contains(semas[s].waiting, t)
    BY <1>6
  <2>4. NoneServable(sched, s, kept, left[n])
    BY <1>12 DEF NoneServable
  <2>5. /\ woken \in Seq(Threads) /\ IsInjective(woken) /\ kept \in Seq(Threads)
        /\ \A t : Contains(kept, t) => Contains(semas[s].waiting, t) /\ ~Contains(woken, t)
        /\ n \in 0 .. Len(w)
    BY <1>9, <1>11
  <2> QED
    BY <1>2, <1>5, <1>6, <1>13, <2>1, <2>2, <2>3, <2>4, <2>5, ServedRefines
<1>15. CurForgets'
  <2>1. \A t : Contains(woken, t) => VerifyWait(sched, t, "SEMA", s)
    BY <1>7, <1>9 DEF Takes, asking, Asking
  <2>2. Quiet(sched, sched') /\ KeepsObjectWaits(sched, sched')
    BY <1>5, <1>9, <1>13, <2>1, AnswerFacts DEF Told
  <2> QED
    BY <1>1, <1>13, <2>2, CallCurForgets DEF RequestInv, Quiet, cur
<1> QED
  BY <1>14, <1>15 DEF RequestInv

\* The rest of __KernelSemaTimeout()
LEMMA SemaTimeoutEndsRefines ==
    ASSUME SemaInv, RequestInv, SemaTimeoutEnds
    PROVE  Abstract!Next /\ RequestInv'
<1> DEFINE s == timedOut[1].sema
           w == semas[s].waiting
           sd == IF inIntr \/ ~DispatchEnabled THEN sched ELSE NextThread(sched)
           asking == Asking(sd, s)
<1>1. PICK left \in LeftAfter(semas[s].count, w, asking), n \in 0 .. IF semas[s].fifo THEN Len(w) ELSE 0 :
         LET tried == SubSeq(w, 1, n) IN
         /\ semas' = [semas EXCEPT ![s].count = left[n], ![s].waiting = SubSeq(w, n + 1, Len(w))]
         /\ Answer(sd, s, InOrder(tried, asking), "granted")
         /\ \A i \in 1 .. n : ~(w[i] \in asking /\ ~Takes(left[i - 1], w[i], asking))
  BY DEF SemaTimeoutEnds
<1>2. timedOut # <<>>
  BY DEF SemaTimeoutEnds
<1>3. s \in Objects
  <2> DEFINE Entries == [sema : Objects, phase : {"run", "resched"}]
  <2>1. timedOut \in Seq(Entries)
    BY DEF SemaInv, TimeoutsNested
  <2>2. timedOut[1] \in Entries
    <3> HIDE DEF Entries
    <3> QED
      BY <1>2, <2>1
  <2> QED
    BY <2>2
<1>4. Consistent(sd) /\ KeepsObjectWaits(sched, sd) /\ KeepsWaits(sched, sd)
  BY <1>2, NestedReSchedule
<1> HIDE DEF sd, s
<1>5. semas[s] \in SemaRecords /\ IsInjective(w) /\ w \in Seq(Threads) /\ semas[s].count \in Nat
  BY <1>3 DEF SemaInv, SemasTyped, SemaRecords
<1>6. n \in 0 .. Len(w)
  <2> HIDE DEF w
  <2> QED
    BY <1>1, <1>5
<1> DEFINE tried == SubSeq(w, 1, n)
           kept == SubSeq(w, n + 1, Len(w))
           woken == InOrder(tried, asking)
<1>7. /\ semas' = [semas EXCEPT ![s].count = left[n], ![s].waiting = kept]
      /\ Answer(sd, s, woken, "granted")
      /\ \A i \in 1 .. n : w[i] \in asking => Takes(left[i - 1], w[i], asking)
  BY <1>1
<1>8. /\ tried \in Seq(Threads) /\ IsInjective(tried) /\ kept \in Seq(Threads)
      /\ \A x : Contains(w, x) <=> Contains(tried, x) \/ Contains(kept, x)
      /\ \A x : ~(Contains(tried, x) /\ Contains(kept, x))
  BY <1>5, <1>6, SplitFacts
<1>9. \A x : Contains(tried, x) <=> \E i \in 1 .. n : w[i] = x
  <2>1. Len(tried) = n /\ DOMAIN tried = 1 .. n /\ \A i \in 1 .. n : tried[i] = w[i]
    <3> HIDE DEF w
    <3> QED
      BY <1>5, <1>6
  <2> HIDE DEF tried
  <2> QED
    BY <2>1 DEF Contains
<1>10. /\ woken \in Seq(Threads) /\ IsInjective(woken)
       /\ \A x : Contains(woken, x) <=> Contains(tried, x) /\ x \in asking
  <2> HIDE DEF tried, asking
  <2> QED
    BY <1>8, InOrderFacts
<1> HIDE DEF woken, kept, tried, asking, w
<1>11. \A t : Contains(woken, t) <=> t \in Served(left, w, asking, n)
  <2>1. \A t : t \in Served(left, w, asking, n) <=> \E i \in 1 .. n : w[i] = t /\ Takes(left[i - 1], t, asking)
    BY DEF Served
  <2>2. \A t : \A i : Takes(left[i], t, asking) => t \in asking
    BY DEF Takes
  <2> QED
    BY <1>7, <1>9, <1>10, <2>1, <2>2
<1>12. /\ \A t : Contains(kept, t) => Contains(w, t) /\ ~Contains(woken, t)
       /\ semas[s].count - semas[s].count \in Signals \union {0}
       /\ ~(semas[s].count > semas[s].count)
  BY <1>5, <1>8, <1>10
<1>13. left \in LeftAfter(semas[s].count, w, asking)
  BY <1>1 DEF w
<1>14. Abstract!Next /\ AsksNoted' /\ NobodyListed'
  BY <1>3, <1>4, <1>5, <1>6, <1>7, <1>8, <1>10, <1>11, <1>12, <1>13, ServedRefines DEF w, asking
<1>15. sched'.wait = sd.wait /\ cur' = sd.cur
  <2>1. \A t : Contains(woken, t) => VerifyWait(sd, t, "SEMA", s)
    BY <1>10 DEF asking, Asking
  <2> QED
    BY <1>3, <1>4, <1>7, <1>10, <2>1, AnswerFacts, AnswerAsks DEF Told, Quiet, cur
<1>16. CurForgets'
  <2> SUFFICES ASSUME cur' \in Threads, sched'.wait[cur'].type \in ObjectWaits PROVE FALSE
    BY DEF CurForgets
  <2>1. Consistent(sched) /\ CpuInv /\ Idle \notin Threads /\ NoWait.type \notin ObjectWaits
    BY SchedulerAssumption DEF SemaInv, Inv, ThreadInv, NoWait, ObjectWaits
  <2>2. CASE sd = sched
    <3>1. DispatchEnabled /\ cur \in Threads /\ ~Has(sched, cur, "RUNNING")
      BY <1>15, <2>2 DEF RequestInv, CurForgets, cur
    <3>2. ~inIntr
      BY <2>1, <3>1 DEF CpuInv
    <3>3. sd = NextThread(sched)
      BY <3>1, <3>2 DEF sd
    <3>4. Has(sd, sd.cur, "RUNNING")
      BY <2>1, <3>3, NextThreadFacts
    <3> QED
      BY <2>2, <3>1, <3>4 DEF cur
  <2>3. CASE sd # sched
    <3>1. sd = NextThread(sched)
      BY <2>3 DEF sd
    <3>2. sd.wait = [sched.wait EXCEPT ![sd.cur] = NoWait] /\ sd.cur \in AllThreads
      BY <2>1, <2>3, <3>1, NextThreadFacts
    <3>3. sched.wait \in [AllThreads -> Waits]
      BY <2>1, SchedTypes DEF Consistent, QueueOK
    <3> QED
      BY <1>15, <2>1, <3>2, <3>3
  <2> QED
    BY <2>2, <2>3
<1> QED
  BY <1>14, <1>16 DEF RequestInv

\* Every step maps to a step of the abstract specification or to a stutter.
LEMMA SemaStepRefines ==
    ASSUME Misuse = {}, SemaInv, RequestInv, [SemaNext]_allVars
    PROVE  [Abstract!Next]_(Abstract!vars) /\ RequestInv'
<1>1. SemaInv'
  BY NextSemaInv
<1>2. CASE UNCHANGED allVars
  <2>1. UNCHANGED <<vars, asks>> /\ semas' = semas /\ sched' = sched /\ asks' = asks /\ phase' = phase
    BY <1>2 DEF allVars, semaVars, vars
  <2>2. CountMap' = CountMap /\ RequestMap' = RequestMap /\ ToldMap' = ToldMap
    BY <2>1 DEF CountMap, RequestMap, ToldMap, Asks
  <2>3. RequestInv'
    BY <2>1 DEF vars, RequestInv, AsksNoted, NobodyListed, SemaExists, CurForgets, DispatchEnabled,
                intrVars, cur
  <2> QED
    BY <2>2, <2>3, AbstractStutters
<1>3. CASE ThreadStep
  BY <1>1, <1>3, ThreadStepRefines
<1>4. ASSUME NEW t \in Threads, SemaTimeout(t)
      PROVE  [Abstract!Next]_(Abstract!vars) /\ RequestInv'
  BY <1>1, <1>4, SemaTimeoutRefines
<1>5. CASE SemaTimeoutEnds
  BY <1>5, SemaTimeoutEndsRefines
<1>6. ASSUME NEW s \in Objects,
             \/ \E arguments \in Creations : CreateSema(s, arguments)
             \/ DeleteSema(s)
             \/ \E count \in 0 .. semas[s].max \union {semas[s].init} : CancelSema(s, count)
      PROVE  Abstract!Next /\ RequestInv'
  BY <1>6, CreateSemaRefines, ClearCallsRefine
<1>7. ASSUME NEW s \in Objects,
             \/ \E signal \in Signals : SignalSema(s, signal)
             \/ \E wanted \in Wanted : PollSema(s, wanted)
             \/ \E wanted \in Wanted, timeout \in BOOLEAN : WaitSema(s, wanted, timeout)
      PROVE  Abstract!Next /\ RequestInv'
  BY <1>7, SignalSemaRefines, TakeUnitsRefines, WaitSemaRefines DEF PollSema
<1>8. ASSUME NEW s \in Objects, ReferSemaStatus(s)
      PROVE  UNCHANGED Abstract!vars /\ RequestInv'
  BY <1>8, ReferSemaStatusRefines
<1> QED
  BY <1>2, <1>3, <1>4, <1>5, <1>6, <1>7, <1>8 DEF SemaNext

\* No semaphore has units, and nobody asks for any, at first.
LEMMA SemaInitRefines == SemaInit => Abstract!Init
<1> SUFFICES ASSUME SemaInit PROVE Abstract!Init
  OBVIOUS
<1>1. semas = [s \in Objects |-> NoSema] /\ asks = [t \in Threads |-> NoAsk]
  BY DEF SemaInit
<1>2. \A t : ~Contains(<<>>, t)
  BY DEF Contains
<1> QED
  BY <1>1, <1>2 DEF Abstract!Init, NoSema, NoAsk

\* Units are handed out at most once, to threads that asked for them, as many as they
\* asked for; a poll overtakes no request; and what a signal supplies leaves no request
\* that could be served: the semaphores implement Semaphore.tla.
THEOREM SemaImplements ==
    ASSUME Misuse = {}
    PROVE  SemaSpec => ImplementsSemaphore
<1>1. SemaInv /\ RequestInv /\ [SemaNext]_allVars => [Abstract!Next]_(Abstract!vars) /\ RequestInv'
  BY SemaStepRefines
<1> QED
  BY <1>1, SemaInvariant, InitRequestInv, SemaInitRefines, PTL
  DEF SemaSpec, ImplementsSemaphore, Abstract!Spec
=============================================================================
