---------------------------- MODULE KernelProofs ----------------------------
(***************************************************************************)
(* Proofs about Kernel, for any sets of threads, semaphores, locks and     *)
(* conditions.                                                             *)
(***************************************************************************)
EXTENDS Kernel, SequenceTheorems, FiniteSetTheorems, TLAPS

(***************************************************************************)
(* Lemmas about the queues: what Append, \o, First and Rest do to the set  *)
(* of threads in a queue and to the absence of repetitions.                *)
(***************************************************************************)
LEMMA QueueMembers ==
  ASSUME NEW S, NEW q \in Seq(S)
  PROVE  Range(q) \subseteq S
BY LenProperties DEF Range

LEMMA AppendQueue ==
  ASSUME NEW S, NEW q \in Seq(S), NEW e \in S
  PROVE  /\ Append(q, e) \in Seq(S)
         /\ Append(q, e) # <<>>
         /\ Range(Append(q, e)) = Range(q) \cup {e}
         /\ IsInjective(q) /\ e \notin Range(q) => IsInjective(Append(q, e))
<1>. DEFINE a == Append(q, e)
<1>1. /\ a \in Seq(S) /\ a # <<>>
      /\ Len(q) \in Nat /\ Len(a) = Len(q) + 1
      /\ DOMAIN q = 1 .. Len(q) /\ DOMAIN a = 1 .. (Len(q) + 1)
      /\ \A i \in 1 .. Len(q) : a[i] = q[i]
      /\ a[Len(q) + 1] = e
  BY AppendProperties, LenProperties
<1>. HIDE DEF a
<1>2. \A i \in DOMAIN a : i \in DOMAIN q \/ i = Len(q) + 1
  BY <1>1
<1>3. \A i \in DOMAIN q : i \in DOMAIN a
  BY <1>1
<1>4. Len(q) + 1 \in DOMAIN a /\ Len(q) + 1 \notin DOMAIN q
  BY <1>1
<1>5. Range(a) = Range(q) \cup {e}
  BY <1>1, <1>2, <1>3, <1>4 DEF Range
<1>6. IsInjective(q) /\ e \notin Range(q) => IsInjective(a)
  BY <1>1, <1>2, <1>4 DEF Range, IsInjective
<1>. QED  BY <1>1, <1>5, <1>6 DEF a

LEMMA ConcatQueue ==
  ASSUME NEW S, NEW p \in Seq(S), NEW q \in Seq(S)
  PROVE  /\ p \o q \in Seq(S)
         /\ Range(p \o q) = Range(p) \cup Range(q)
         /\ IsInjective(p) /\ IsInjective(q) /\ Range(p) \cap Range(q) = {}
              => IsInjective(p \o q)
<1>. DEFINE c == p \o q
<1>1. /\ c \in Seq(S)
      /\ Len(p) \in Nat /\ Len(q) \in Nat /\ Len(c) = Len(p) + Len(q)
      /\ DOMAIN p = 1 .. Len(p) /\ DOMAIN q = 1 .. Len(q)
      /\ DOMAIN c = 1 .. (Len(p) + Len(q))
  BY ConcatProperties, LenProperties
<1>2. \A i \in 1 .. (Len(p) + Len(q)) :
         c[i] = IF i <= Len(p) THEN p[i] ELSE q[i - Len(p)]
  BY ConcatProperties
<1>. HIDE DEF c
<1>3. \A i \in DOMAIN p : i \in DOMAIN c /\ c[i] = p[i]
  BY <1>1, <1>2
<1>4. \A i \in DOMAIN q : Len(p) + i \in DOMAIN c /\ c[Len(p) + i] = q[i]
  BY <1>1, <1>2
<1>5. \A i \in DOMAIN c :
         \/ i \in DOMAIN p /\ c[i] = p[i]
         \/ i - Len(p) \in DOMAIN q /\ c[i] = q[i - Len(p)] /\ i \notin DOMAIN p
  BY <1>1, <1>2
<1>6. Range(c) = Range(p) \cup Range(q)
  BY <1>3, <1>4, <1>5 DEF Range
<1>7. ASSUME IsInjective(p), IsInjective(q), Range(p) \cap Range(q) = {}
      PROVE  IsInjective(c)
  <2>. SUFFICES ASSUME NEW i \in DOMAIN c, NEW j \in DOMAIN c, c[i] = c[j]
                PROVE  i = j
    BY DEF IsInjective
  <2>1. i \in Int /\ j \in Int /\ Len(p) \in Int
    BY <1>1
  <2>2. CASE i \in DOMAIN p /\ j \in DOMAIN p
    BY <2>2, <1>3, <1>7 DEF IsInjective
  <2>3. CASE i \notin DOMAIN p /\ j \notin DOMAIN p
    <3>1. i - Len(p) = j - Len(p)
      BY <2>3, <1>5, <1>7 DEF IsInjective
    <3>. QED  BY <3>1, <2>1
  <2>4. CASE i \in DOMAIN p /\ j \notin DOMAIN p
    BY <2>4, <1>3, <1>5, <1>7 DEF Range
  <2>5. CASE i \notin DOMAIN p /\ j \in DOMAIN p
    BY <2>5, <1>3, <1>5, <1>7 DEF Range
  <2>. QED  BY <2>2, <2>3, <2>4, <2>5
<1>. QED  BY <1>1, <1>6, <1>7 DEF c

LEMMA TailQueue ==
  ASSUME NEW S, NEW q \in Seq(S), q # <<>>
  PROVE  /\ Head(q) \in Range(q)
         /\ Head(q) \in S
         /\ Tail(q) \in Seq(S)
         /\ Range(q) = Range(Tail(q)) \cup {Head(q)}
         /\ IsInjective(q) => IsInjective(Tail(q)) /\ Head(q) \notin Range(Tail(q))
<1>. DEFINE t == Tail(q)
<1>1. /\ t \in Seq(S) /\ Head(q) \in S
      /\ Len(q) \in Nat \ {0} /\ Len(t) = Len(q) - 1
      /\ DOMAIN q = 1 .. Len(q) /\ DOMAIN t = 1 .. (Len(q) - 1)
      /\ \A i \in 1 .. (Len(q) - 1) : t[i] = q[i + 1]
  BY HeadTailProperties, LenProperties, EmptySeq
<1>2. Head(q) = q[1]
  BY <1>1
<1>. HIDE DEF t
<1>3. 1 \in DOMAIN q /\ \A i \in DOMAIN t : i + 1 \in DOMAIN q /\ t[i] = q[i + 1] /\ i + 1 # 1
  BY <1>1
<1>4. \A i \in DOMAIN q : i = 1 \/ (i - 1 \in DOMAIN t /\ q[i] = t[i - 1])
  BY <1>1
<1>5. Range(q) = Range(t) \cup {Head(q)}
  BY <1>2, <1>3, <1>4 DEF Range
<1>6. ASSUME IsInjective(q)
      PROVE  IsInjective(t) /\ Head(q) \notin Range(t)
  <2>1. ASSUME NEW i \in DOMAIN t, NEW j \in DOMAIN t, t[i] = t[j]
        PROVE  i = j
    <3>1. i + 1 = j + 1
      BY <1>3, <1>6, <2>1 DEF IsInjective
    <3>. QED  BY <3>1, <1>1
  <2>2. Head(q) \notin Range(t)
    BY <1>2, <1>3, <1>6 DEF IsInjective, Range
  <2>. QED  BY <2>1, <2>2 DEF IsInjective
<1>. QED  BY <1>1, <1>2, <1>3, <1>5, <1>6 DEF t, Range

LEMMA FirstRest ==
  ASSUME NEW S, NEW q \in Seq(S)
  PROVE  /\ First(q) \in Seq(S) /\ Rest(q) \in Seq(S)
         /\ IsInjective(First(q))
         /\ Range(q) = Range(First(q)) \cup Range(Rest(q))
         /\ IsInjective(q) => /\ IsInjective(Rest(q))
                              /\ Range(Rest(q)) = Range(q) \ Range(First(q))
         /\ q # <<>> => First(q) # <<>> /\ Range(First(q)) = {Head(q)}
         /\ q = <<>> => First(q) = <<>> /\ Range(First(q)) = {}
<1>1. CASE q = <<>>
  BY <1>1 DEF First, Rest, Range, IsInjective
<1>2. CASE q # <<>>
  <2>1. First(q) = <<Head(q)>> /\ Rest(q) = Tail(q)
    BY <1>2 DEF First, Rest
  <2>2. Range(First(q)) = {Head(q)} /\ IsInjective(First(q)) /\ First(q) # <<>>
    BY <2>1 DEF Range, IsInjective
  <2>. QED  BY <1>2, <2>1, <2>2, TailQueue
<1>. QED  BY <1>1, <1>2

-----------------------------------------------------------------------------
(***************************************************************************)
(* The inductive invariant.  The five parts need each other: the lock      *)
(* properties need to know who can run, who can run is read off the        *)
(* queues, and the queues stay right because a finished thread sleeps for  *)
(* ever.                                                                   *)
(***************************************************************************)
IInv == /\ TypeOK
        /\ EachThreadInOnePlace
        /\ CarcassIsSafe
        /\ HolderIsRight
        /\ FreeLockHasATaker

(***************************************************************************)
(* Thread::Sleep and Scheduler::Run, once for every action that calls      *)
(* them.  "woken" are sleepers just taken out of a queue.                  *)
(***************************************************************************)
ReadyQueue  == IsInjective(readyList) /\ Range(readyList) = {t \in Threads : status[t] = "READY"}
OneRunning  == \A t \in Threads : status[t] = "RUNNING" => t = currentThread

\* The statuses and the ready list after the running thread went to sleep
\* and the threads of "woken" were made ready.
SleepsAndWakes(woken) ==
  /\ currentThread' \in Threads
  /\ status' \in [Threads -> {"JUST_CREATED", "RUNNING", "READY", "BLOCKED"}]
  /\ readyList' \in Seq(Threads)
  /\ ReadyQueue'
  /\ OneRunning'
  /\ \A t \in Threads : status'[t] = "BLOCKED" <=>
       \/ t = currentThread
       \/ status[t] = "BLOCKED" /\ t \notin Range(woken)
  /\ \A t \in Threads : status'[t] = "JUST_CREATED" <=> status[t] = "JUST_CREATED"

\* What becomes of the carcass "dead", and who is on the CPU then.
Reaps(dead) ==
  /\ \/ threadToBeDestroyed' = dead /\ destroyed' = destroyed
     \/ threadToBeDestroyed' = NoThread /\ destroyed' = destroyed \cup ({dead} \ {NoThread})
        /\ status'[currentThread'] = "RUNNING"
  /\ currentThread' = currentThread \/ status'[currentThread'] = "RUNNING"

LEMMA SleepLemma ==
  ASSUME TypeOK, ReadyQueue, OneRunning,
         status[currentThread] = "RUNNING",
         NEW woken \in Seq(Threads), IsInjective(woken),
         \A t \in Range(woken) : status[t] = "BLOCKED",
         NEW place, NEW dead \in Threads \cup {NoThread},
         Sleep(place, woken, dead)
  PROVE  /\ SleepsAndWakes(woken)
         /\ Reaps(dead)
<1>. DEFINE queue  == readyList \o woken
            asleep == [MadeReady(woken) EXCEPT ![currentThread] = "BLOCKED"]
<1>1. Range(readyList) \cap Range(woken) = {} /\ currentThread \notin Range(woken)
  BY DEF ReadyQueue
<1>2. /\ queue \in Seq(Threads) /\ IsInjective(queue)
      /\ Range(queue) = Range(readyList) \cup Range(woken)
  BY <1>1, ConcatQueue DEF TypeOK, ReadyQueue
<1>3. /\ asleep \in [Threads -> {"JUST_CREATED", "RUNNING", "READY", "BLOCKED"}]
      /\ asleep[currentThread] = "BLOCKED"
      /\ \A t \in Threads \ {currentThread} :
            asleep[t] = IF t \in Range(woken) THEN "READY" ELSE status[t]
  BY DEF MadeReady, TypeOK
<1>. HIDE DEF queue, asleep
<1>4. Range(queue) = {t \in Threads : asleep[t] = "READY"}
  <2>1. Range(woken) \subseteq Threads
    BY QueueMembers
  <2>. QED  BY <1>1, <1>2, <1>3, <2>1 DEF ReadyQueue, TypeOK
<1>5. \A t \in Threads : asleep[t] # "RUNNING"
  BY <1>1, <1>3 DEF OneRunning
<1>6. /\ \A t \in Threads : asleep[t] = "BLOCKED" <=>
           t = currentThread \/ (status[t] = "BLOCKED" /\ t \notin Range(woken))
      /\ \A t \in Threads : asleep[t] = "JUST_CREATED" <=> status[t] = "JUST_CREATED"
  BY <1>1, <1>3
<1>7. CASE queue = <<>>
  <2>1. /\ status' = asleep /\ readyList' = queue /\ threadToBeDestroyed' = dead
        /\ currentThread' = currentThread /\ destroyed' = destroyed
    BY <1>7 DEF Sleep, queue, asleep
  <2>. QED  BY <2>1, <1>2, <1>3, <1>4, <1>5, <1>6
            DEF SleepsAndWakes, Reaps, ReadyQueue, OneRunning, TypeOK
<1>8. CASE queue # <<>>
  <2>. DEFINE next == Head(queue)
  <2>1. /\ readyList' = Tail(queue)
        /\ Run(next, asleep, dead)
    BY <1>8 DEF Sleep, queue, asleep
  <2>2. /\ next \in Threads /\ next \in Range(queue)
        /\ Tail(queue) \in Seq(Threads) /\ IsInjective(Tail(queue))
        /\ Range(Tail(queue)) = Range(queue) \ {next}
    BY <1>2, <1>8, TailQueue
  <2>3. asleep[next] = "READY" /\ next # currentThread
    BY <1>3, <1>4, <2>2
  <2>. HIDE DEF next
  <2>4. /\ currentThread' = next
        /\ status' = [asleep EXCEPT ![next] = "RUNNING"]
    BY <2>1 DEF Run
  <2>5. /\ ReadyQueue'
        /\ OneRunning'
    BY <2>1, <2>2, <2>3, <2>4, <1>3, <1>4, <1>5 DEF ReadyQueue, OneRunning
  <2>6. SleepsAndWakes(woken)
    BY <2>1, <2>2, <2>3, <2>4, <2>5, <1>3, <1>6 DEF SleepsAndWakes
  <2>7. status'[currentThread'] = "RUNNING"
    BY <2>2, <2>4, <1>3
  <2>8. Reaps(dead)
    BY <2>1, <2>7 DEF Reaps, Run
  <2>. QED  BY <2>6, <2>8
<1>. QED  BY <1>7, <1>8

(***************************************************************************)
(* Scheduler::ReadyToRun by a thread that keeps the CPU.                   *)
(***************************************************************************)
Wakes(woken) ==
  /\ status' \in [Threads -> {"JUST_CREATED", "RUNNING", "READY", "BLOCKED"}]
  /\ readyList' \in Seq(Threads)
  /\ ReadyQueue'
  /\ OneRunning'
  /\ \A t \in Threads :
       status'[t] = IF t \in Range(woken) THEN "READY" ELSE status[t]

LEMMA WakeLemma ==
  ASSUME TypeOK, ReadyQueue, OneRunning,
         NEW woken \in Seq(Threads), IsInjective(woken),
         \A t \in Range(woken) : status[t] = "BLOCKED",
         currentThread' = currentThread,
         ReadyToRun(woken)
  PROVE  Wakes(woken)
<1>1. /\ Range(readyList) \cap Range(woken) = {}
      /\ Range(woken) \subseteq Threads
  BY QueueMembers DEF ReadyQueue
<1>2. /\ readyList' \in Seq(Threads) /\ IsInjective(readyList')
      /\ Range(readyList') = Range(readyList) \cup Range(woken)
  BY <1>1, ConcatQueue DEF TypeOK, ReadyQueue, ReadyToRun
<1>3. /\ status' \in [Threads -> {"JUST_CREATED", "RUNNING", "READY", "BLOCKED"}]
      /\ \A t \in Threads :
           status'[t] = IF t \in Range(woken) THEN "READY" ELSE status[t]
  BY DEF ReadyToRun, MadeReady, TypeOK
<1>4. ReadyQueue'
  BY <1>1, <1>2, <1>3 DEF ReadyQueue
<1>5. OneRunning'
  BY <1>3 DEF OneRunning
<1>. QED  BY <1>2, <1>3, <1>4, <1>5 DEF Wakes

-----------------------------------------------------------------------------
(***************************************************************************)
(* Which thread is running decides what an action may disturb.             *)
(***************************************************************************)
LEMMA PlaceFacts ==
  /\ User # New /\ User # Root /\ User # Yields /\ User # Ends
  /\ New # Root /\ New # Yields /\ New # Ends /\ Root # Ends /\ Yields # Ends
  /\ \A p \in {"P", "Acquire", "Wait"} : \A x :
       At(p, x) # User /\ At(p, x) # New /\ At(p, x) # Root /\ At(p, x) # Yields /\ At(p, x) # Ends
  /\ \A p, q, x, y : At(p, x) = At(q, y) => p = q /\ x = y
  /\ {User, New, Root, Yields, Ends} \subseteq Places
  /\ \A s \in Semaphores : At("P", s) \in Places
  /\ \A l \in Locks : At("Acquire", l) \in Places
  /\ \A c \in Conditions : At("Wait", c) \in Places
BY DEF At, User, New, Root, Yields, Ends, Places

\* The running thread is not in a queue, and a thread in a queue sleeps.
LEMMA RunningIsInNoQueue ==
  ASSUME TypeOK, EachThreadInOnePlace, Busy
  PROVE  /\ ReadyQueue /\ OneRunning
         /\ status[currentThread] = "RUNNING"
         /\ currentThread \notin Range(readyList)
         /\ \A s \in Semaphores : currentThread \notin Range(semQueue[s])
         /\ \A l \in Locks : currentThread \notin Range(lockQueue[l])
         /\ \A c \in Conditions : currentThread \notin Range(condQueue[c])
BY DEF EachThreadInOnePlace, ReadyQueue, OneRunning, Busy, Asleep, TypeOK

-----------------------------------------------------------------------------
(***************************************************************************)
(* The queues, kind by kind.                                               *)
(***************************************************************************)
SemQueues  == \A s \in Semaphores : IsInjective(semQueue[s]) /\ Range(semQueue[s]) = Asleep("P", s)
LockQueues == \A l \in Locks : IsInjective(lockQueue[l]) /\ Range(lockQueue[l]) = Asleep("Acquire", l)
CondQueues == \A c \in Conditions : IsInjective(condQueue[c]) /\ Range(condQueue[c]) = Asleep("Wait", c)
NewThreads == \A t \in Threads : status[t] = "JUST_CREATED" <=> continuation[t] = New

LEMMA OnePlaceParts ==
  /\ EachThreadInOnePlace <=>
       ReadyQueue /\ SemQueues /\ LockQueues /\ CondQueues /\ OneRunning /\ NewThreads
  /\ EachThreadInOnePlace' <=>
       ReadyQueue' /\ SemQueues' /\ LockQueues' /\ CondQueues' /\ OneRunning' /\ NewThreads'
BY DEF EachThreadInOnePlace, ReadyQueue, SemQueues, LockQueues, CondQueues, OneRunning, NewThreads

(***************************************************************************)
(* The parts of the invariant that do not depend on why a thread sleeps or *)
(* is woken.                                                               *)
(***************************************************************************)
SchedulerType ==
  /\ currentThread \in Threads
  /\ status \in [Threads -> {"JUST_CREATED", "RUNNING", "READY", "BLOCKED"}]
  /\ readyList \in Seq(Threads)
  /\ continuation \in [Threads -> Places]
  /\ threadToBeDestroyed \in Threads \cup {NoThread}
  /\ destroyed \subseteq Threads
  /\ level \in Levels

SchedulerOK ==
  SchedulerType /\ ReadyQueue /\ OneRunning /\ NewThreads /\ CarcassIsSafe

LEMMA SchedulerPart ==
  /\ IInv => SchedulerOK /\ SemQueues /\ LockQueues /\ CondQueues
  /\ TypeOK => SchedulerType
BY OnePlaceParts DEF IInv, SchedulerOK, SchedulerType, TypeOK

LEMMA SleepKeepsScheduler ==
  ASSUME IInv, Busy,
         NEW woken \in Seq(Threads), IsInjective(woken),
         \A t \in Range(woken) : status[t] = "BLOCKED" /\ continuation[t] # Ends,
         NEW place \in Places \ {New}, NEW dead,
         \/ place # Ends /\ dead = threadToBeDestroyed
         \/ place = Ends /\ dead = currentThread,
         Sleep(place, woken, dead)
  PROVE  /\ SchedulerOK'
         /\ \A t \in Threads : status'[t] = "BLOCKED" <=>
              \/ t = currentThread
              \/ status[t] = "BLOCKED" /\ t \notin Range(woken)
         /\ \A t \in Threads :
              continuation'[t] = IF t = currentThread THEN place ELSE continuation[t]
<1>1. SchedulerOK /\ status[currentThread] = "RUNNING" /\ TypeOK
  BY SchedulerPart DEF Busy, IInv
<1>2. dead \in Threads \cup {NoThread}
  BY <1>1 DEF SchedulerOK, SchedulerType
<1>3. SleepsAndWakes(woken) /\ Reaps(dead)
  BY <1>1, <1>2, SleepLemma DEF SchedulerOK
<1>4. /\ continuation' = [continuation EXCEPT ![currentThread] = place]
      /\ level' = "IntOff"
  BY DEF Sleep
<1>5. \A t \in Threads :
         continuation'[t] = IF t = currentThread THEN place ELSE continuation[t]
  BY <1>1, <1>4 DEF SchedulerOK, SchedulerType
<1>6. SchedulerType'
  BY <1>1, <1>2, <1>3, <1>4 DEF SchedulerOK, SchedulerType, SleepsAndWakes, Reaps, Levels
<1>7. ReadyQueue' /\ OneRunning'
  BY <1>3 DEF SleepsAndWakes
<1>8. NewThreads'
  <2>1. Ends' = Ends /\ New' = New
    BY DEF Ends, New, At
  <2>. QED  BY <1>1, <1>3, <1>5, <2>1 DEF SchedulerOK, SchedulerType, NewThreads, SleepsAndWakes
<1>9. CarcassIsSafe'
  <2>1. \A t \in Threads : continuation'[t] = Ends => status'[t] = "BLOCKED"
    BY <1>1, <1>3, <1>5 DEF SchedulerOK, SchedulerType, CarcassIsSafe, SleepsAndWakes
  <2>2. dead # NoThread => continuation'[dead] = Ends /\ dead \notin destroyed
    BY <1>1, <1>2, <1>5 DEF SchedulerOK, SchedulerType, CarcassIsSafe
  <2>3. \A t \in destroyed : continuation'[t] = Ends
    BY <1>1, <1>5 DEF SchedulerOK, SchedulerType, CarcassIsSafe
  <2>4. \A t \in destroyed' : continuation'[t] = Ends
    BY <1>3, <2>2, <2>3 DEF Reaps
  <2>5. \A t \in destroyed' : t # currentThread'
    <3>1. CASE status'[currentThread'] = "RUNNING"
      BY <3>1, <2>1, <2>4, <1>6 DEF SchedulerType
    <3>2. CASE status'[currentThread'] # "RUNNING"
      BY <3>2, <1>1, <1>3 DEF Reaps, SchedulerOK, CarcassIsSafe
    <3>. QED  BY <3>1, <3>2
  <2>6. threadToBeDestroyed' # NoThread =>
          continuation'[threadToBeDestroyed'] = Ends /\ threadToBeDestroyed' \notin destroyed'
    BY <1>3, <2>2 DEF Reaps
  <2>. QED  BY <2>1, <2>4, <2>5, <2>6 DEF CarcassIsSafe, Ends, At
<1>. QED  BY <1>3, <1>5, <1>6, <1>7, <1>8, <1>9 DEF SchedulerOK, SleepsAndWakes

LEMMA WakeKeepsScheduler ==
  ASSUME IInv,
         NEW woken \in Seq(Threads), IsInjective(woken),
         \A t \in Range(woken) : status[t] = "BLOCKED" /\ continuation[t] # Ends,
         ReadyToRun(woken),
         UNCHANGED <<currentThread, continuation, threadToBeDestroyed, destroyed, level>>
  PROVE  /\ SchedulerOK'
         /\ \A t \in Threads :
              status'[t] = IF t \in Range(woken) THEN "READY" ELSE status[t]
<1>1. SchedulerOK /\ TypeOK
  BY SchedulerPart DEF IInv
<1>2. Wakes(woken)
  BY <1>1, WakeLemma DEF SchedulerOK
<1>3. SchedulerType'
  BY <1>1, <1>2 DEF SchedulerOK, SchedulerType, Wakes
<1>4. Ends' = Ends /\ New' = New
  BY DEF Ends, New, At
<1>5. NewThreads'
  BY <1>1, <1>2, <1>4 DEF SchedulerOK, NewThreads, Wakes
<1>6. CarcassIsSafe'
  BY <1>1, <1>2, <1>4 DEF SchedulerOK, SchedulerType, CarcassIsSafe, Wakes
<1>. QED  BY <1>2, <1>3, <1>5, <1>6 DEF SchedulerOK, Wakes

LEMMA ReturnKeepsScheduler ==
  ASSUME IInv, Busy, NEW was \in Levels, Return(was),
         UNCHANGED <<currentThread, status, readyList, threadToBeDestroyed, destroyed>>
  PROVE  /\ SchedulerOK'
         /\ \A t \in Threads :
              continuation'[t] = IF t = currentThread THEN User ELSE continuation[t]
<1>1. SchedulerOK /\ status[currentThread] = "RUNNING"
  BY SchedulerPart DEF IInv, Busy
<1>2. \A t \in Threads :
         continuation'[t] = IF t = currentThread THEN User ELSE continuation[t]
  BY <1>1 DEF Return, SchedulerOK, SchedulerType
<1>3. SchedulerType'
  BY <1>1, PlaceFacts DEF SchedulerOK, SchedulerType, Return
<1>4. Ends' = Ends /\ New' = New /\ User # Ends /\ User # New
  BY PlaceFacts DEF Ends, New, At
<1>5. ReadyQueue' /\ OneRunning'
  BY <1>1 DEF SchedulerOK, ReadyQueue, OneRunning
<1>6. NewThreads'
  BY <1>1, <1>2, <1>4 DEF SchedulerOK, SchedulerType, NewThreads
<1>7. CarcassIsSafe'
  BY <1>1, <1>2, <1>4 DEF SchedulerOK, SchedulerType, CarcassIsSafe
<1>. QED  BY <1>2, <1>3, <1>5, <1>6, <1>7 DEF SchedulerOK

\* A free lock keeps its taker when nobody on the way to it is stopped and
\* the lock itself is left alone.
LEMMA TakerStays ==
  ASSUME FreeLockHasATaker, UNCHANGED <<isHeldBySome, lockQueue>>,
         \A l \in Locks, t \in Threads :
           status[t] # "BLOCKED" /\ continuation[t] = At("Acquire", l) =>
             status'[t] # "BLOCKED" /\ continuation'[t] = At("Acquire", l)
  PROVE  FreeLockHasATaker'
<1>. SUFFICES ASSUME NEW l \in Locks, lockQueue'[l] # <<>>, ~isHeldBySome'[l]
              PROVE  Retrying("Acquire", l)' # {}
  BY DEF FreeLockHasATaker
<1>1. PICK t \in Threads : status[t] # "BLOCKED" /\ continuation[t] = At("Acquire", l)
  BY DEF FreeLockHasATaker, Retrying
<1>. QED  BY <1>1 DEF Retrying, At

(***************************************************************************)
(* P sleeps.                                                               *)
(***************************************************************************)
LEMMA PSleepsInvariant ==
  ASSUME IInv, NEW s \in Semaphores, PSleeps(s)
  PROVE  IInv'
<1>1. /\ Busy /\ status[currentThread] = "RUNNING"
      /\ SchedulerOK /\ SemQueues /\ LockQueues /\ CondQueues /\ TypeOK
      /\ currentThread \in Threads
      /\ continuation[currentThread] \in {User, At("P", s)}
  BY SchedulerPart DEF PSleeps, Tests, InProgram, BackIn, Busy, IInv, SchedulerOK, SchedulerType
<1>2. <<>> \in Seq(Threads) /\ IsInjective(<<>>) /\ Range(<<>>) = {}
  BY DEF IsInjective, Range
<1>3. At("P", s) \in Places \ {New} /\ At("P", s) # Ends
  BY PlaceFacts
<1>4. /\ SchedulerOK'
      /\ \A t \in Threads : status'[t] = "BLOCKED" <=> t = currentThread \/ status[t] = "BLOCKED"
      /\ \A t \in Threads :
           continuation'[t] = IF t = currentThread THEN At("P", s) ELSE continuation[t]
  BY <1>1, <1>2, <1>3, SleepKeepsScheduler DEF PSleeps
<1>5. /\ semQueue' = [semQueue EXCEPT ![s] = Append(@, currentThread)]
      /\ semQueue \in [Semaphores -> Seq(Threads)]
      /\ currentThread \notin Range(semQueue[s])
  BY <1>1, RunningIsInNoQueue DEF PSleeps, IInv, TypeOK
<1>6. /\ Append(semQueue[s], currentThread) \in Seq(Threads)
      /\ Range(Append(semQueue[s], currentThread)) = Range(semQueue[s]) \cup {currentThread}
      /\ IsInjective(Append(semQueue[s], currentThread))
  BY <1>1, <1>5, AppendQueue DEF SemQueues
<1>7. TypeOK'
  BY <1>1, <1>4, <1>5, <1>6
     DEF PSleeps, TypeOK, SchedulerOK, SchedulerType, EntryLevel, lockVars, deviceVars
<1>8. SemQueues'
  <2>. SUFFICES ASSUME NEW u \in Semaphores
                PROVE  /\ IsInjective(semQueue'[u])
                       /\ Range(semQueue'[u]) =
                            {t \in Threads : status'[t] = "BLOCKED" /\ continuation'[t] = At("P", u)}
    BY DEF SemQueues, Asleep, At
  <2>1. CASE u = s
    BY <2>1, <1>1, <1>4, <1>5, <1>6 DEF SemQueues, Asleep
  <2>2. CASE u # s
    BY <2>2, <1>1, <1>4, <1>5, PlaceFacts DEF SemQueues, Asleep
  <2>. QED  BY <2>1, <2>2
<1>9. LockQueues' /\ CondQueues'
  BY <1>1, <1>4, PlaceFacts DEF LockQueues, CondQueues, Asleep, PSleeps, lockVars
<1>10. HolderIsRight'
  BY DEF IInv, HolderIsRight, PSleeps, lockVars
<1>11. FreeLockHasATaker'
  BY <1>1, <1>4, TakerStays, PlaceFacts DEF IInv, PSleeps, lockVars
<1>. QED  BY <1>4, <1>7, <1>8, <1>9, <1>10, <1>11, OnePlaceParts DEF IInv, SchedulerOK

(***************************************************************************)
(* The actions that end an operation and return to the program.            *)
(***************************************************************************)
LEMMA NoWokenThreads == <<>> \in Seq(Threads) /\ IsInjective(<<>>) /\ Range(<<>>) = {}
BY DEF IsInjective, Range

\* Queues that are left alone stay right when no thread falls asleep or wakes.
LEMMA QueuesStay ==
  ASSUME SemQueues, LockQueues, CondQueues,
         UNCHANGED <<semQueue, lockQueue, condQueue>>,
         \A t \in Threads : status'[t] = "BLOCKED" <=> status[t] = "BLOCKED",
         \A t \in Threads : status[t] = "BLOCKED" => continuation'[t] = continuation[t]
  PROVE  SemQueues' /\ LockQueues' /\ CondQueues'
BY DEF SemQueues, LockQueues, CondQueues, Asleep, At

LEMMA ReturnInvariant ==
  ASSUME IInv, ThreadRoot \/ YieldReturns \/ \E s \in Semaphores : PTakes(s)
  PROVE  IInv'
<1>1. /\ Busy /\ status[currentThread] = "RUNNING"
      /\ SchedulerOK /\ SemQueues /\ LockQueues /\ CondQueues /\ TypeOK
      /\ currentThread \in Threads
      /\ \A l \in Locks : continuation[currentThread] # At("Acquire", l)
  BY SchedulerPart, PlaceFacts
     DEF ThreadRoot, YieldReturns, PTakes, Tests, InProgram, BackIn, Busy, IInv,
         SchedulerOK, SchedulerType
<1>2. PICK was \in Levels : Return(was)
  BY <1>1 DEF ThreadRoot, YieldReturns, PTakes, EntryLevel, TypeOK, Levels
<1>3. UNCHANGED <<currentThread, status, readyList, threadToBeDestroyed, destroyed,
                  oldLevel, semQueue, lockVars, condQueue, deviceVars, holding>>
  BY DEF ThreadRoot, YieldReturns, PTakes, semVars
<1>4. /\ SchedulerOK'
      /\ \A t \in Threads :
           continuation'[t] = IF t = currentThread THEN User ELSE continuation[t]
  BY <1>1, <1>2, <1>3, ReturnKeepsScheduler
<1>5. value' \in [Semaphores -> Nat]
  BY <1>1 DEF ThreadRoot, YieldReturns, PTakes, semVars, TypeOK
<1>6. TypeOK'
  BY <1>1, <1>3, <1>4, <1>5 DEF TypeOK, SchedulerOK, SchedulerType, lockVars, deviceVars
<1>7. SemQueues' /\ LockQueues' /\ CondQueues'
  BY <1>1, <1>3, <1>4, QueuesStay DEF lockVars
<1>8. HolderIsRight'
  BY <1>3 DEF IInv, HolderIsRight, lockVars
<1>9. FreeLockHasATaker'
  BY <1>1, <1>3, <1>4, TakerStays DEF IInv, lockVars
<1>. QED  BY <1>4, <1>6, <1>7, <1>8, <1>9, OnePlaceParts DEF IInv, SchedulerOK

LEMMA AcquireTakesInvariant ==
  ASSUME IInv, NEW l \in Locks, AcquireTakes(l)
  PROVE  IInv'
<1>1. /\ Busy /\ status[currentThread] = "RUNNING"
      /\ SchedulerOK /\ SemQueues /\ LockQueues /\ CondQueues /\ TypeOK
      /\ currentThread \in Threads
      /\ \A m \in Locks \ {l} : continuation[currentThread] # At("Acquire", m)
  BY SchedulerPart, PlaceFacts
     DEF AcquireTakes, TestsLock, Tests, InProgram, BackIn, Busy, IInv,
         SchedulerOK, SchedulerType
<1>2. EntryLevel \in Levels
  BY <1>1 DEF EntryLevel, TypeOK
<1>3. /\ SchedulerOK'
      /\ \A t \in Threads :
           continuation'[t] = IF t = currentThread THEN User ELSE continuation[t]
  BY <1>1, <1>2, ReturnKeepsScheduler DEF AcquireTakes
<1>4. TypeOK'
  BY <1>1, <1>3 DEF TypeOK, SchedulerOK, SchedulerType, AcquireTakes, semVars, deviceVars
<1>5. SemQueues' /\ LockQueues' /\ CondQueues'
  BY <1>1, <1>3, QueuesStay DEF AcquireTakes, semVars
<1>6. HolderIsRight'
  BY <1>1, KernelAssumption DEF IInv, HolderIsRight, AcquireTakes, TypeOK
<1>7. FreeLockHasATaker'
  <2>. SUFFICES ASSUME NEW m \in Locks, lockQueue'[m] # <<>>, ~isHeldBySome'[m]
                PROVE  \E t \in Threads : status'[t] # "BLOCKED" /\ continuation'[t] = At("Acquire", m)
    BY DEF FreeLockHasATaker, Retrying, At
  <2>1. m # l /\ ~isHeldBySome[m] /\ lockQueue[m] # <<>>
    BY <1>1 DEF AcquireTakes, TypeOK
  <2>2. PICK t \in Threads : status[t] # "BLOCKED" /\ continuation[t] = At("Acquire", m)
    BY <2>1 DEF IInv, FreeLockHasATaker, Retrying
  <2>. QED  BY <1>1, <1>3, <2>1, <2>2 DEF AcquireTakes
<1>. QED  BY <1>3, <1>4, <1>5, <1>6, <1>7, OnePlaceParts DEF IInv, SchedulerOK

(***************************************************************************)
(* The other actions that put the running thread to sleep.                 *)
(***************************************************************************)
LEMMA FinishInvariant ==
  ASSUME IInv, Finish
  PROVE  IInv'
<1>1. /\ Busy /\ status[currentThread] = "RUNNING"
      /\ SchedulerOK /\ SemQueues /\ LockQueues /\ CondQueues /\ TypeOK
      /\ currentThread \in Threads
      /\ continuation[currentThread] = User
  BY SchedulerPart DEF Finish, InProgram, Busy, IInv, SchedulerOK, SchedulerType
<1>2. Ends \in Places \ {New}
  BY PlaceFacts
<1>3. /\ SchedulerOK'
      /\ \A t \in Threads : status'[t] = "BLOCKED" <=> t = currentThread \/ status[t] = "BLOCKED"
      /\ \A t \in Threads :
           continuation'[t] = IF t = currentThread THEN Ends ELSE continuation[t]
  BY <1>1, <1>2, NoWokenThreads, SleepKeepsScheduler DEF Finish
<1>4. TypeOK'
  BY <1>1, <1>3 DEF Finish, TypeOK, SchedulerOK, SchedulerType, semVars, lockVars, deviceVars
<1>5. SemQueues' /\ LockQueues' /\ CondQueues'
  BY <1>1, <1>3, PlaceFacts DEF SemQueues, LockQueues, CondQueues, Asleep, Finish, semVars, lockVars
<1>6. HolderIsRight'
  BY DEF IInv, HolderIsRight, Finish, lockVars
<1>7. FreeLockHasATaker'
  BY <1>1, <1>3, TakerStays, PlaceFacts DEF IInv, Finish, lockVars
<1>. QED  BY <1>3, <1>4, <1>5, <1>6, <1>7, OnePlaceParts DEF IInv, SchedulerOK

LEMMA AcquireSleepsInvariant ==
  ASSUME IInv, NEW l \in Locks, AcquireSleeps(l)
  PROVE  IInv'
<1>1. /\ Busy /\ status[currentThread] = "RUNNING"
      /\ SchedulerOK /\ SemQueues /\ LockQueues /\ CondQueues /\ TypeOK
      /\ currentThread \in Threads
      /\ \A m \in Locks \ {l} : continuation[currentThread] # At("Acquire", m)
  BY SchedulerPart, PlaceFacts
     DEF AcquireSleeps, TestsLock, Tests, InProgram, BackIn, Busy, IInv,
         SchedulerOK, SchedulerType
<1>2. At("Acquire", l) \in Places \ {New} /\ At("Acquire", l) # Ends
  BY PlaceFacts
<1>3. /\ SchedulerOK'
      /\ \A t \in Threads : status'[t] = "BLOCKED" <=> t = currentThread \/ status[t] = "BLOCKED"
      /\ \A t \in Threads :
           continuation'[t] = IF t = currentThread THEN At("Acquire", l) ELSE continuation[t]
  BY <1>1, <1>2, NoWokenThreads, SleepKeepsScheduler DEF AcquireSleeps
<1>4. /\ lockQueue' = [lockQueue EXCEPT ![l] = Append(@, currentThread)]
      /\ lockQueue \in [Locks -> Seq(Threads)]
      /\ currentThread \notin Range(lockQueue[l])
  BY <1>1, RunningIsInNoQueue DEF AcquireSleeps, IInv, TypeOK
<1>5. /\ Append(lockQueue[l], currentThread) \in Seq(Threads)
      /\ Range(Append(lockQueue[l], currentThread)) = Range(lockQueue[l]) \cup {currentThread}
      /\ IsInjective(Append(lockQueue[l], currentThread))
  BY <1>1, <1>4, AppendQueue DEF LockQueues
<1>6. TypeOK'
  BY <1>1, <1>3, <1>4, <1>5
     DEF AcquireSleeps, TypeOK, SchedulerOK, SchedulerType, EntryLevel, semVars, deviceVars
<1>7. LockQueues'
  <2>. SUFFICES ASSUME NEW u \in Locks
                PROVE  /\ IsInjective(lockQueue'[u])
                       /\ Range(lockQueue'[u]) =
                            {t \in Threads : status'[t] = "BLOCKED" /\ continuation'[t] = At("Acquire", u)}
    BY DEF LockQueues, Asleep, At
  <2>1. CASE u = l
    BY <2>1, <1>1, <1>3, <1>4, <1>5 DEF LockQueues, Asleep
  <2>2. CASE u # l
    BY <2>2, <1>1, <1>3, <1>4, PlaceFacts DEF LockQueues, Asleep
  <2>. QED  BY <2>1, <2>2
<1>8. SemQueues' /\ CondQueues'
  BY <1>1, <1>3, PlaceFacts DEF SemQueues, CondQueues, Asleep, AcquireSleeps, semVars
<1>9. HolderIsRight'
  BY DEF IInv, HolderIsRight, AcquireSleeps
<1>10. FreeLockHasATaker'
  <2>. SUFFICES ASSUME NEW m \in Locks, lockQueue'[m] # <<>>, ~isHeldBySome'[m]
                PROVE  \E t \in Threads : status'[t] # "BLOCKED" /\ continuation'[t] = At("Acquire", m)
    BY DEF FreeLockHasATaker, Retrying, At
  <2>1. m # l /\ ~isHeldBySome[m] /\ lockQueue[m] # <<>>
    BY <1>4 DEF AcquireSleeps
  <2>2. PICK t \in Threads : status[t] # "BLOCKED" /\ continuation[t] = At("Acquire", m)
    BY <2>1 DEF IInv, FreeLockHasATaker, Retrying
  <2>. QED  BY <1>1, <1>3, <2>1, <2>2
<1>. QED  BY <1>3, <1>6, <1>7, <1>8, <1>9, <1>10, OnePlaceParts DEF IInv, SchedulerOK

(***************************************************************************)
(* The actions that wake threads and keep the CPU.                         *)
(***************************************************************************)
LEMMA DoVInvariant ==
  ASSUME IInv, NEW s \in Semaphores, DoV(s), pending' \in [Semaphores -> Nat]
  PROVE  IInv'
<1>. DEFINE woken == First(semQueue[s])
<1>1. /\ SchedulerOK /\ SemQueues /\ LockQueues /\ CondQueues /\ TypeOK
      /\ semQueue[s] \in Seq(Threads)
  BY SchedulerPart DEF IInv, TypeOK
<1>2. /\ woken \in Seq(Threads) /\ Rest(semQueue[s]) \in Seq(Threads)
      /\ IsInjective(woken) /\ IsInjective(Rest(semQueue[s]))
      /\ Range(Rest(semQueue[s])) = Range(semQueue[s]) \ Range(woken)
      /\ Range(woken) \subseteq Asleep("P", s)
  BY <1>1, FirstRest DEF SemQueues
<1>. HIDE DEF woken
<1>3. \A t \in Range(woken) : status[t] = "BLOCKED" /\ continuation[t] = At("P", s)
  BY <1>2 DEF Asleep
<1>4. /\ SchedulerOK'
      /\ \A t \in Threads :
           status'[t] = IF t \in Range(woken) THEN "READY" ELSE status[t]
  BY <1>2, <1>3, PlaceFacts, WakeKeepsScheduler DEF DoV, woken
<1>5. UNCHANGED <<continuation, lockQueue, condQueue, isHeldBySome, currentHolder, holding>>
  BY DEF DoV, lockVars
<1>6. semQueue' = [semQueue EXCEPT ![s] = Rest(@)]
  BY DEF DoV
<1>7. TypeOK'
  BY <1>1, <1>2, <1>4 DEF DoV, TypeOK, SchedulerOK, SchedulerType, lockVars
<1>8. SemQueues'
  <2>. SUFFICES ASSUME NEW u \in Semaphores
                PROVE  /\ IsInjective(semQueue'[u])
                       /\ Range(semQueue'[u]) =
                            {t \in Threads : status'[t] = "BLOCKED" /\ continuation'[t] = At("P", u)}
    BY DEF SemQueues, Asleep, At
  <2>1. CASE u = s
    <3>1. semQueue'[u] = Rest(semQueue[s])
      BY <2>1, <1>1, <1>6 DEF TypeOK
    <3>. QED  BY <2>1, <3>1, <1>1, <1>2, <1>4, <1>5 DEF SemQueues, Asleep
  <2>2. CASE u # s
    BY <2>2, <1>1, <1>3, <1>4, <1>5, <1>6, PlaceFacts DEF SemQueues, Asleep, TypeOK
  <2>. QED  BY <2>1, <2>2
<1>9. LockQueues' /\ CondQueues'
  BY <1>1, <1>3, <1>4, <1>5, PlaceFacts DEF LockQueues, CondQueues, Asleep
<1>10. HolderIsRight'
  BY <1>5 DEF IInv, HolderIsRight
<1>11. FreeLockHasATaker'
  BY <1>4, <1>5, TakerStays DEF IInv
<1>. QED  BY <1>4, <1>7, <1>8, <1>9, <1>10, <1>11, OnePlaceParts DEF IInv, SchedulerOK

LEMMA ReleaseInvariant ==
  ASSUME IInv, NEW l \in Locks, Release(l)
  PROVE  IInv'
<1>. DEFINE woken == First(lockQueue[l])
<1>1. /\ SchedulerOK /\ SemQueues /\ LockQueues /\ CondQueues /\ TypeOK
      /\ lockQueue[l] \in Seq(Threads) /\ currentThread \in Threads
  BY SchedulerPart DEF IInv, TypeOK
<1>2. /\ woken \in Seq(Threads) /\ Rest(lockQueue[l]) \in Seq(Threads)
      /\ IsInjective(woken) /\ IsInjective(Rest(lockQueue[l]))
      /\ Range(Rest(lockQueue[l])) = Range(lockQueue[l]) \ Range(woken)
      /\ Range(woken) \subseteq Asleep("Acquire", l)
      /\ lockQueue[l] # <<>> => Range(woken) = {Head(lockQueue[l])}
  BY <1>1, FirstRest DEF LockQueues
<1>. HIDE DEF woken
<1>3. \A t \in Range(woken) : status[t] = "BLOCKED" /\ continuation[t] = At("Acquire", l)
  BY <1>2 DEF Asleep
<1>4. /\ SchedulerOK'
      /\ \A t \in Threads :
           status'[t] = IF t \in Range(woken) THEN "READY" ELSE status[t]
  BY <1>2, <1>3, PlaceFacts, WakeKeepsScheduler DEF Release, woken
<1>5. UNCHANGED <<continuation, semQueue, condQueue>>
  BY DEF Release, semVars
<1>6. /\ lockQueue' = [lockQueue EXCEPT ![l] = Rest(@)]
      /\ isHeldBySome' = [isHeldBySome EXCEPT ![l] = FALSE]
      /\ currentHolder' = [currentHolder EXCEPT ![l] = NoThread]
      /\ holding' = [holding EXCEPT ![currentThread] = @ \ {l}]
      /\ l \in holding[currentThread]
  BY DEF Release, FreeLock
<1>7. TypeOK'
  BY <1>1, <1>2, <1>4, <1>6 DEF Release, TypeOK, SchedulerOK, SchedulerType, semVars, deviceVars
<1>8. LockQueues'
  <2>. SUFFICES ASSUME NEW u \in Locks
                PROVE  /\ IsInjective(lockQueue'[u])
                       /\ Range(lockQueue'[u]) =
                            {t \in Threads : status'[t] = "BLOCKED" /\ continuation'[t] = At("Acquire", u)}
    BY DEF LockQueues, Asleep, At
  <2>1. CASE u = l
    <3>1. lockQueue'[u] = Rest(lockQueue[l])
      BY <2>1, <1>1, <1>6 DEF TypeOK
    <3>. QED  BY <2>1, <3>1, <1>1, <1>2, <1>4, <1>5 DEF LockQueues, Asleep
  <2>2. CASE u # l
    BY <2>2, <1>1, <1>3, <1>4, <1>5, <1>6, PlaceFacts DEF LockQueues, Asleep, TypeOK
  <2>. QED  BY <2>1, <2>2
<1>9. SemQueues' /\ CondQueues'
  BY <1>1, <1>3, <1>4, <1>5, PlaceFacts DEF SemQueues, CondQueues, Asleep
<1>10. HolderIsRight'
  BY <1>1, <1>6, KernelAssumption DEF IInv, HolderIsRight, TypeOK
<1>11. FreeLockHasATaker'
  <2>. SUFFICES ASSUME NEW m \in Locks, lockQueue'[m] # <<>>, ~isHeldBySome'[m]
                PROVE  \E t \in Threads : status'[t] # "BLOCKED" /\ continuation'[t] = At("Acquire", m)
    BY DEF FreeLockHasATaker, Retrying, At
  <2>1. CASE m = l
    <3>1. lockQueue[l] # <<>>
      BY <2>1, <1>1, <1>6 DEF TypeOK, Rest
    <3>2. Head(lockQueue[l]) \in Range(woken) /\ Head(lockQueue[l]) \in Threads
      BY <3>1, <1>2, QueueMembers
    <3>. QED  BY <2>1, <3>2, <1>3, <1>4, <1>5
  <2>2. CASE m # l
    <3>1. lockQueue[m] # <<>> /\ ~isHeldBySome[m]
      BY <2>2, <1>1, <1>6 DEF TypeOK
    <3>2. PICK t \in Threads : status[t] # "BLOCKED" /\ continuation[t] = At("Acquire", m)
      BY <3>1 DEF IInv, FreeLockHasATaker, Retrying
    <3>. QED  BY <3>2, <1>4, <1>5
  <2>. QED  BY <2>1, <2>2
<1>. QED  BY <1>4, <1>7, <1>8, <1>9, <1>10, <1>11, OnePlaceParts DEF IInv, SchedulerOK

\* Signal wakes the first waiter and Broadcast all of them.
LEMMA SignalInvariant ==
  ASSUME IInv, NEW c \in Conditions, Signal(c) \/ Broadcast(c)
  PROVE  IInv'
<1>1. /\ SchedulerOK /\ SemQueues /\ LockQueues /\ CondQueues /\ TypeOK
      /\ condQueue[c] \in Seq(Threads)
  BY SchedulerPart DEF IInv, TypeOK
<1>2. PICK woken \in Seq(Threads), left \in Seq(Threads) :
         /\ IsInjective(woken) /\ IsInjective(left)
         /\ Range(left) = Range(condQueue[c]) \ Range(woken)
         /\ Range(woken) \subseteq Asleep("Wait", c)
         /\ ReadyToRun(woken)
         /\ condQueue' = [condQueue EXCEPT ![c] = left]
  <2>1. CASE Signal(c)
    <3>1. First(condQueue[c]) \in Seq(Threads) /\ Rest(condQueue[c]) \in Seq(Threads)
      BY <1>1, FirstRest
    <3>. USE <3>1
    <3>. WITNESS First(condQueue[c]) \in Seq(Threads), Rest(condQueue[c]) \in Seq(Threads)
    <3>. QED  BY <2>1, <1>1, FirstRest DEF Signal, CondQueues
  <2>2. CASE Broadcast(c)
    <3>. USE <1>1, NoWokenThreads
    <3>. WITNESS condQueue[c] \in Seq(Threads), <<>> \in Seq(Threads)
    <3>. QED  BY <2>2, <1>1, NoWokenThreads DEF Broadcast, CondQueues
  <2>. QED  BY <2>1, <2>2
<1>3. \A t \in Range(woken) : status[t] = "BLOCKED" /\ continuation[t] = At("Wait", c)
  BY <1>2 DEF Asleep
<1>4. UNCHANGED <<currentThread, continuation, threadToBeDestroyed, destroyed, level, oldLevel,
                  semVars, lockVars, deviceVars, holding>>
  BY DEF Signal, Broadcast
<1>5. /\ SchedulerOK'
      /\ \A t \in Threads :
           status'[t] = IF t \in Range(woken) THEN "READY" ELSE status[t]
  BY <1>2, <1>3, <1>4, PlaceFacts, WakeKeepsScheduler
<1>6. TypeOK'
  BY <1>1, <1>2, <1>4, <1>5 DEF TypeOK, SchedulerOK, SchedulerType, semVars, lockVars, deviceVars
<1>7. CondQueues'
  <2>. SUFFICES ASSUME NEW u \in Conditions
                PROVE  /\ IsInjective(condQueue'[u])
                       /\ Range(condQueue'[u]) =
                            {t \in Threads : status'[t] = "BLOCKED" /\ continuation'[t] = At("Wait", u)}
    BY DEF CondQueues, Asleep, At
  <2>1. CASE u = c
    <3>1. condQueue'[u] = left
      BY <2>1, <1>1, <1>2 DEF TypeOK
    <3>. QED  BY <2>1, <3>1, <1>1, <1>2, <1>4, <1>5 DEF CondQueues, Asleep
  <2>2. CASE u # c
    BY <2>2, <1>1, <1>2, <1>3, <1>4, <1>5, PlaceFacts DEF CondQueues, Asleep, TypeOK
  <2>. QED  BY <2>1, <2>2
<1>8. SemQueues' /\ LockQueues'
  BY <1>1, <1>3, <1>4, <1>5, PlaceFacts DEF SemQueues, LockQueues, Asleep, semVars, lockVars
<1>9. HolderIsRight'
  BY <1>4 DEF IInv, HolderIsRight, lockVars
<1>10. FreeLockHasATaker'
  BY <1>4, <1>5, TakerStays DEF IInv, lockVars
<1>. QED  BY <1>5, <1>6, <1>7, <1>8, <1>9, <1>10, OnePlaceParts DEF IInv, SchedulerOK

(***************************************************************************)
(* Condition::Wait gives the lock to a sleeper of Acquire, queues the      *)
(* thread on the condition and puts it to sleep, in one step.              *)
(***************************************************************************)
LEMMA WaitInvariant ==
  ASSUME IInv, NEW c \in Conditions, Wait(c)
  PROVE  IInv'
<1>. DEFINE l     == ConditionLock[c]
            woken == First(lockQueue[l])
<1>1. /\ Busy /\ status[currentThread] = "RUNNING"
      /\ SchedulerOK /\ SemQueues /\ LockQueues /\ CondQueues /\ TypeOK
      /\ currentThread \in Threads /\ continuation[currentThread] = User
      /\ l \in Locks /\ lockQueue[l] \in Seq(Threads)
  BY SchedulerPart, KernelAssumption
     DEF Wait, CallsWithLock, InProgram, Busy, IInv, SchedulerOK, SchedulerType, TypeOK
<1>2. /\ woken \in Seq(Threads) /\ Rest(lockQueue[l]) \in Seq(Threads)
      /\ IsInjective(woken) /\ IsInjective(Rest(lockQueue[l]))
      /\ Range(Rest(lockQueue[l])) = Range(lockQueue[l]) \ Range(woken)
      /\ Range(woken) \subseteq Asleep("Acquire", l)
      /\ lockQueue[l] # <<>> => Range(woken) = {Head(lockQueue[l])}
  BY <1>1, FirstRest DEF LockQueues
<1>3. /\ condQueue' = [condQueue EXCEPT ![c] = Append(@, currentThread)]
      /\ oldLevel' = [oldLevel EXCEPT ![currentThread] = level]
      /\ lockQueue' = [lockQueue EXCEPT ![l] = Rest(@)]
      /\ isHeldBySome' = [isHeldBySome EXCEPT ![l] = FALSE]
      /\ currentHolder' = [currentHolder EXCEPT ![l] = NoThread]
      /\ holding' = [holding EXCEPT ![currentThread] = @ \ {l}]
      /\ l \in holding[currentThread]
      /\ Sleep(At("Wait", c), woken, threadToBeDestroyed)
      /\ UNCHANGED <<value, semQueue, pending, halted>>
  BY DEF Wait, FreeLock, CallsWithLock, semVars, deviceVars
<1>. HIDE DEF woken, l
<1>4. \A t \in Range(woken) : status[t] = "BLOCKED" /\ continuation[t] = At("Acquire", l)
  BY <1>2 DEF Asleep
<1>5. At("Wait", c) \in Places \ {New} /\ At("Wait", c) # Ends
  BY PlaceFacts
<1>6. /\ SchedulerOK'
      /\ \A t \in Threads : status'[t] = "BLOCKED" <=>
           t = currentThread \/ (status[t] = "BLOCKED" /\ t \notin Range(woken))
      /\ \A t \in Threads :
           continuation'[t] = IF t = currentThread THEN At("Wait", c) ELSE continuation[t]
  BY <1>1, <1>2, <1>3, <1>4, <1>5, PlaceFacts, SleepKeepsScheduler
<1>7. /\ condQueue[c] \in Seq(Threads) /\ currentThread \notin Range(condQueue[c])
      /\ condQueue \in [Conditions -> Seq(Threads)]
  BY <1>1, RunningIsInNoQueue DEF IInv, TypeOK
<1>8. /\ Append(condQueue[c], currentThread) \in Seq(Threads)
      /\ Range(Append(condQueue[c], currentThread)) = Range(condQueue[c]) \cup {currentThread}
      /\ IsInjective(Append(condQueue[c], currentThread))
  BY <1>1, <1>7, AppendQueue DEF CondQueues
<1>9. TypeOK'
  BY <1>1, <1>2, <1>3, <1>6, <1>7, <1>8 DEF TypeOK, SchedulerOK, SchedulerType
<1>10. LockQueues'
  <2>. SUFFICES ASSUME NEW u \in Locks
                PROVE  /\ IsInjective(lockQueue'[u])
                       /\ Range(lockQueue'[u]) =
                            {t \in Threads : status'[t] = "BLOCKED" /\ continuation'[t] = At("Acquire", u)}
    BY DEF LockQueues, Asleep, At
  <2>1. CASE u = l
    <3>1. lockQueue'[u] = Rest(lockQueue[l])
      BY <2>1, <1>1, <1>3 DEF TypeOK
    <3>. QED  BY <2>1, <3>1, <1>1, <1>2, <1>6, PlaceFacts DEF LockQueues, Asleep
  <2>2. CASE u # l
    <3>1. lockQueue'[u] = lockQueue[u]
      BY <2>2, <1>1, <1>3 DEF TypeOK
    <3>. QED  BY <2>2, <3>1, <1>1, <1>4, <1>6, PlaceFacts DEF LockQueues, Asleep
  <2>. QED  BY <2>1, <2>2
<1>11. CondQueues'
  <2>. SUFFICES ASSUME NEW u \in Conditions
                PROVE  /\ IsInjective(condQueue'[u])
                       /\ Range(condQueue'[u]) =
                            {t \in Threads : status'[t] = "BLOCKED" /\ continuation'[t] = At("Wait", u)}
    BY DEF CondQueues, Asleep, At
  <2>0. \A t \in Range(woken) : continuation[t] # At("Wait", u)
    BY <1>4, PlaceFacts
  <2>1. CASE u = c
    <3>1. condQueue'[u] = Append(condQueue[c], currentThread)
      BY <2>1, <1>3, <1>7
    <3>2. Range(condQueue[c]) =
            {t \in Threads : status[t] = "BLOCKED" /\ continuation[t] = At("Wait", c)}
      BY <1>1 DEF CondQueues, Asleep
    <3>. QED  BY <2>0, <2>1, <3>1, <3>2, <1>1, <1>6, <1>8
  <2>2. CASE u # c
    <3>1. condQueue'[u] = condQueue[u]
      BY <2>2, <1>3, <1>7
    <3>2. /\ IsInjective(condQueue[u])
          /\ Range(condQueue[u]) =
               {t \in Threads : status[t] = "BLOCKED" /\ continuation[t] = At("Wait", u)}
      BY <1>1 DEF CondQueues, Asleep
    <3>3. At("Wait", c) # At("Wait", u)
      BY <2>2 DEF At
    <3>. QED  BY <2>0, <3>1, <3>2, <3>3, <1>1, <1>6, PlaceFacts
  <2>. QED  BY <2>1, <2>2
<1>12. SemQueues'
  BY <1>1, <1>3, <1>4, <1>6, PlaceFacts DEF SemQueues, Asleep
<1>13. HolderIsRight'
  BY <1>1, <1>3, KernelAssumption DEF IInv, HolderIsRight, TypeOK
<1>14. FreeLockHasATaker'
  <2>. SUFFICES ASSUME NEW m \in Locks, lockQueue'[m] # <<>>, ~isHeldBySome'[m]
                PROVE  \E t \in Threads : status'[t] # "BLOCKED" /\ continuation'[t] = At("Acquire", m)
    BY DEF FreeLockHasATaker, Retrying, At
  <2>1. CASE m = l
    <3>1. lockQueue[l] # <<>>
      BY <2>1, <1>1, <1>3 DEF TypeOK, Rest
    <3>2. Head(lockQueue[l]) \in Range(woken) /\ Head(lockQueue[l]) \in Threads
      BY <3>1, <1>2, QueueMembers
    <3>3. Head(lockQueue[l]) # currentThread
      BY <3>2, <1>1, <1>4
    <3>. QED  BY <2>1, <3>2, <3>3, <1>4, <1>6
  <2>2. CASE m # l
    <3>1. lockQueue[m] # <<>> /\ ~isHeldBySome[m]
      BY <2>2, <1>1, <1>3 DEF TypeOK
    <3>2. PICK t \in Threads : status[t] # "BLOCKED" /\ continuation[t] = At("Acquire", m)
      BY <3>1 DEF IInv, FreeLockHasATaker, Retrying
    <3>. QED  BY <3>2, <1>1, <1>6, PlaceFacts
  <2>. QED  BY <2>1, <2>2
<1>. QED  BY <1>6, <1>9, <1>10, <1>11, <1>12, <1>13, <1>14, OnePlaceParts DEF IInv, SchedulerOK

(***************************************************************************)
(* Fork, Yield and the end of the idle loop.                               *)
(***************************************************************************)
LEMMA ForkInvariant ==
  ASSUME IInv, NEW t \in Threads, Fork(t)
  PROVE  IInv'
<1>1. /\ SchedulerOK /\ SemQueues /\ LockQueues /\ CondQueues /\ TypeOK
      /\ status[t] = "JUST_CREATED" /\ continuation[t] = New
      /\ t \notin Range(readyList)
  BY SchedulerPart DEF IInv, Fork, SchedulerOK, NewThreads, ReadyQueue
<1>2. /\ \A u \in Threads : status'[u] = IF u = t THEN "READY" ELSE status[u]
      /\ \A u \in Threads : continuation'[u] = IF u = t THEN Root ELSE continuation[u]
      /\ UNCHANGED <<currentThread, threadToBeDestroyed, destroyed, level, oldLevel,
                     semVars, lockVars, condQueue, deviceVars, holding>>
  BY <1>1 DEF Fork, TypeOK
<1>3. /\ readyList' \in Seq(Threads) /\ IsInjective(readyList')
      /\ Range(readyList') = Range(readyList) \cup {t}
  BY <1>1, AppendQueue DEF Fork, TypeOK, SchedulerOK, ReadyQueue
<1>4. TypeOK'
  BY <1>1, <1>2, <1>3, PlaceFacts DEF Fork, TypeOK, semVars, lockVars, deviceVars
<1>5. Ends' = Ends /\ New' = New /\ Root # New /\ Root # Ends /\ New # Ends
  BY PlaceFacts DEF Ends, New, At
<1>6. ReadyQueue' /\ OneRunning' /\ NewThreads'
  BY <1>1, <1>2, <1>3, <1>5 DEF SchedulerOK, ReadyQueue, OneRunning, NewThreads
<1>7. CarcassIsSafe'
  BY <1>1, <1>2, <1>5 DEF SchedulerOK, SchedulerType, CarcassIsSafe
<1>8. SemQueues' /\ LockQueues' /\ CondQueues'
  BY <1>1, <1>2, QueuesStay DEF semVars, lockVars
<1>9. HolderIsRight'
  BY <1>2 DEF IInv, HolderIsRight, lockVars
<1>10. FreeLockHasATaker'
  BY <1>1, <1>2, TakerStays, PlaceFacts DEF IInv, lockVars
<1>. QED  BY <1>4, <1>6, <1>7, <1>8, <1>9, <1>10, OnePlaceParts DEF IInv

\* Scheduler::Run of the first ready thread, when the others' statuses "st"
\* and the rest of the queue agree and nobody is left running.
LEMMA RunLemma ==
  ASSUME TypeOK, CarcassIsSafe,
         NEW queue \in Seq(Threads), queue # <<>>, IsInjective(queue),
         NEW st \in [Threads -> {"JUST_CREATED", "RUNNING", "READY", "BLOCKED"}],
         Range(queue) = {t \in Threads : st[t] = "READY"},
         \A t \in Threads : st[t] # "RUNNING",
         \A t \in Threads : continuation[t] = Ends => st[t] = "BLOCKED",
         \A t \in Threads : continuation'[t] = Ends <=> continuation[t] = Ends,
         readyList' = Tail(queue),
         Run(Head(queue), st, threadToBeDestroyed)
  PROVE  /\ currentThread' \in Threads
         /\ status' \in [Threads -> {"JUST_CREATED", "RUNNING", "READY", "BLOCKED"}]
         /\ readyList' \in Seq(Threads)
         /\ threadToBeDestroyed' \in Threads \cup {NoThread} /\ destroyed' \subseteq Threads
         /\ ReadyQueue' /\ OneRunning' /\ CarcassIsSafe'
         /\ \A t \in Threads : status'[t] = "BLOCKED" <=> st[t] = "BLOCKED"
         /\ \A t \in Threads : status'[t] = "JUST_CREATED" <=> st[t] = "JUST_CREATED"
<1>. DEFINE next == Head(queue)
<1>1. /\ next \in Threads /\ next \in Range(queue)
      /\ Tail(queue) \in Seq(Threads) /\ IsInjective(Tail(queue))
      /\ Range(Tail(queue)) = Range(queue) \ {next}
  BY TailQueue
<1>2. st[next] = "READY"
  BY <1>1
<1>. HIDE DEF next
<1>3. /\ currentThread' = next
      /\ \A t \in Threads : status'[t] = IF t = next THEN "RUNNING" ELSE st[t]
      /\ status' \in [Threads -> {"JUST_CREATED", "RUNNING", "READY", "BLOCKED"}]
  BY <1>1 DEF Run, next
<1>4. \/ threadToBeDestroyed' = threadToBeDestroyed /\ destroyed' = destroyed
      \/ /\ threadToBeDestroyed' = NoThread
         /\ destroyed' = destroyed \cup ({threadToBeDestroyed} \ {NoThread})
  BY DEF Run, next
<1>5. ReadyQueue' /\ OneRunning'
  BY <1>1, <1>2, <1>3 DEF ReadyQueue, OneRunning
<1>6. threadToBeDestroyed' \in Threads \cup {NoThread} /\ destroyed' \subseteq Threads
  BY <1>4 DEF TypeOK
<1>7. CarcassIsSafe'
  <2>1. \A t \in Threads : continuation'[t] = Ends => status'[t] = "BLOCKED"
    BY <1>2, <1>3
  <2>2. \A t \in destroyed' : continuation'[t] = Ends
    BY <1>4 DEF CarcassIsSafe, TypeOK
  <2>3. \A t \in destroyed' : t # currentThread'
    BY <1>1, <1>3, <1>6, <2>1, <2>2
  <2>4. threadToBeDestroyed' # NoThread =>
          continuation'[threadToBeDestroyed'] = Ends /\ threadToBeDestroyed' \notin destroyed'
    BY <1>4 DEF CarcassIsSafe, TypeOK
  <2>. QED  BY <2>1, <2>2, <2>3, <2>4 DEF CarcassIsSafe, Ends, At
<1>. QED  BY <1>1, <1>2, <1>3, <1>5, <1>6, <1>7

LEMMA YieldInvariant ==
  ASSUME IInv, Yield
  PROVE  IInv'
<1>. DEFINE queue == Append(readyList, currentThread)
            st    == [status EXCEPT ![currentThread] = "READY"]
<1>1. /\ status[currentThread] = "RUNNING" /\ currentThread \in Threads
      /\ SchedulerOK /\ SemQueues /\ LockQueues /\ CondQueues /\ TypeOK
      /\ currentThread \notin Range(readyList)
      /\ readyList # <<>> /\ readyList \in Seq(Threads)
      /\ continuation[currentThread] = User
  BY SchedulerPart DEF IInv, Yield, InProgram, Busy, SchedulerOK, SchedulerType, ReadyQueue
<1>2. /\ queue \in Seq(Threads) /\ queue # <<>> /\ IsInjective(queue)
      /\ Range(queue) = Range(readyList) \cup {currentThread}
      /\ Head(queue) = Head(readyList)
      /\ Tail(queue) = Append(Tail(readyList), currentThread)
  BY <1>1, AppendQueue, HeadTailAppend DEF SchedulerOK, ReadyQueue
<1>3. /\ st \in [Threads -> {"JUST_CREATED", "RUNNING", "READY", "BLOCKED"}]
      /\ \A t \in Threads : st[t] = IF t = currentThread THEN "READY" ELSE status[t]
  BY <1>1 DEF TypeOK
<1>4. /\ readyList' = Tail(queue)
      /\ Run(Head(queue), st, threadToBeDestroyed)
  BY <1>2 DEF Yield
<1>5. /\ \A t \in Threads :
           continuation'[t] = IF t = currentThread THEN Yields ELSE continuation[t]
      /\ continuation' \in [Threads -> Places]
  BY <1>1, PlaceFacts DEF Yield, TypeOK
<1>. HIDE DEF queue, st
<1>6. /\ Range(queue) = {t \in Threads : st[t] = "READY"}
      /\ \A t \in Threads : st[t] # "RUNNING"
      /\ \A t \in Threads : continuation[t] = Ends => st[t] = "BLOCKED"
      /\ \A t \in Threads : continuation'[t] = Ends <=> continuation[t] = Ends
  BY <1>1, <1>2, <1>3, <1>5, PlaceFacts DEF SchedulerOK, ReadyQueue, OneRunning, CarcassIsSafe
<1>7. /\ currentThread' \in Threads
      /\ status' \in [Threads -> {"JUST_CREATED", "RUNNING", "READY", "BLOCKED"}]
      /\ readyList' \in Seq(Threads)
      /\ threadToBeDestroyed' \in Threads \cup {NoThread} /\ destroyed' \subseteq Threads
      /\ ReadyQueue' /\ OneRunning' /\ CarcassIsSafe'
      /\ \A t \in Threads : status'[t] = "BLOCKED" <=> st[t] = "BLOCKED"
      /\ \A t \in Threads : status'[t] = "JUST_CREATED" <=> st[t] = "JUST_CREATED"
  BY <1>1, <1>2, <1>3, <1>4, <1>6, RunLemma DEF SchedulerOK
<1>8. TypeOK'
  BY <1>1, <1>5, <1>7 DEF Yield, TypeOK, semVars, lockVars, deviceVars, Levels
<1>9. NewThreads'
  <2>1. New' = New
    BY DEF New, At
  <2>. QED  BY <1>1, <1>3, <1>5, <1>7, <2>1, PlaceFacts DEF SchedulerOK, NewThreads
<1>10. SemQueues' /\ LockQueues' /\ CondQueues'
  BY <1>1, <1>3, <1>5, <1>7, QueuesStay DEF Yield, semVars, lockVars
<1>11. HolderIsRight'
  BY DEF IInv, HolderIsRight, Yield, lockVars
<1>12. FreeLockHasATaker'
  BY <1>1, <1>3, <1>5, <1>7, TakerStays, PlaceFacts DEF IInv, Yield, lockVars
<1>. QED  BY <1>7, <1>8, <1>9, <1>10, <1>11, <1>12, OnePlaceParts DEF IInv

LEMMA WakeFromIdleInvariant ==
  ASSUME IInv, WakeFromIdle
  PROVE  IInv'
<1>1. /\ status[currentThread] # "RUNNING"
      /\ SchedulerOK /\ SemQueues /\ LockQueues /\ CondQueues /\ TypeOK
      /\ readyList # <<>> /\ readyList \in Seq(Threads)
      /\ UNCHANGED <<continuation, level, oldLevel, semVars, lockVars, condQueue,
                     deviceVars, holding>>
  BY SchedulerPart DEF IInv, WakeFromIdle, Idle, SchedulerOK, SchedulerType
<1>2. /\ IsInjective(readyList)
      /\ Range(readyList) = {t \in Threads : status[t] = "READY"}
      /\ \A t \in Threads : status[t] # "RUNNING"
      /\ \A t \in Threads : continuation[t] = Ends => status[t] = "BLOCKED"
      /\ \A t \in Threads : continuation'[t] = Ends <=> continuation[t] = Ends
      /\ status \in [Threads -> {"JUST_CREATED", "RUNNING", "READY", "BLOCKED"}]
  BY <1>1 DEF SchedulerOK, SchedulerType, ReadyQueue, OneRunning, CarcassIsSafe
<1>3. /\ currentThread' \in Threads
      /\ status' \in [Threads -> {"JUST_CREATED", "RUNNING", "READY", "BLOCKED"}]
      /\ readyList' \in Seq(Threads)
      /\ threadToBeDestroyed' \in Threads \cup {NoThread} /\ destroyed' \subseteq Threads
      /\ ReadyQueue' /\ OneRunning' /\ CarcassIsSafe'
      /\ \A t \in Threads : status'[t] = "BLOCKED" <=> status[t] = "BLOCKED"
      /\ \A t \in Threads : status'[t] = "JUST_CREATED" <=> status[t] = "JUST_CREATED"
  BY <1>1, <1>2, RunLemma DEF WakeFromIdle, SchedulerOK
<1>4. TypeOK'
  BY <1>1, <1>3 DEF TypeOK, semVars, lockVars, deviceVars
<1>5. NewThreads'
  BY <1>1, <1>3 DEF SchedulerOK, NewThreads, New, At
<1>6. SemQueues' /\ LockQueues' /\ CondQueues'
  BY <1>1, <1>3, QueuesStay DEF semVars, lockVars
<1>7. HolderIsRight'
  BY <1>1 DEF IInv, HolderIsRight, lockVars
<1>8. FreeLockHasATaker'
  BY <1>1, <1>3, TakerStays DEF IInv, lockVars
<1>. QED  BY <1>3, <1>4, <1>5, <1>6, <1>7, <1>8, OnePlaceParts DEF IInv

(***************************************************************************)
(* The steps that leave the threads and the synchronization objects alone. *)
(***************************************************************************)
LEMMA FrameInvariant ==
  ASSUME IInv,
         UNCHANGED <<threadVars, oldLevel, semVars, lockVars, condQueue, holding>>,
         level' \in Levels, pending' \in [Semaphores -> Nat], halted' \in BOOLEAN
  PROVE  IInv'
<1>1. TypeOK'
  BY DEF IInv, TypeOK, threadVars, semVars, lockVars
<1>2. EachThreadInOnePlace'
  BY DEF IInv, EachThreadInOnePlace, Asleep, At, New, threadVars, semVars, lockVars
<1>3. CarcassIsSafe'
  BY DEF IInv, CarcassIsSafe, Ends, At, threadVars
<1>4. HolderIsRight'
  BY DEF IInv, HolderIsRight, lockVars
<1>5. FreeLockHasATaker'
  BY TakerStays DEF IInv, threadVars, lockVars
<1>. QED  BY <1>1, <1>2, <1>3, <1>4, <1>5 DEF IInv

LEMMA InitInvariant == Init => IInv
<1>. SUFFICES ASSUME Init PROVE IInv
  OBVIOUS
<1>1. TypeOK
  <2>1. /\ currentThread \in Threads
        /\ status \in [Threads -> {"JUST_CREATED", "RUNNING", "READY", "BLOCKED"}]
        /\ readyList \in Seq(Threads)
        /\ continuation \in [Threads -> Places]
    BY KernelAssumption, PlaceFacts DEF Init
  <2>2. /\ threadToBeDestroyed \in Threads \cup {NoThread}
        /\ destroyed \subseteq Threads
        /\ level \in Levels
        /\ oldLevel \in [Threads -> Levels]
    BY DEF Init, Levels
  <2>3. /\ value \in [Semaphores -> Nat]
        /\ pending \in [Semaphores -> Nat]
        /\ halted \in BOOLEAN
        /\ isHeldBySome \in [Locks -> BOOLEAN]
        /\ currentHolder \in [Locks -> Threads \cup {NoThread}]
        /\ holding \in [Threads -> SUBSET Locks]
    BY KernelAssumption DEF Init
  <2>4. /\ semQueue \in [Semaphores -> Seq(Threads)]
        /\ lockQueue \in [Locks -> Seq(Threads)]
        /\ condQueue \in [Conditions -> Seq(Threads)]
    BY DEF Init
  <2>. QED  BY <2>1, <2>2, <2>3, <2>4 DEF TypeOK
<1>2. EachThreadInOnePlace
  <2>1. \A t \in Threads : status[t] \in {"RUNNING", "JUST_CREATED"}
    BY DEF Init
  <2>2. /\ IsInjective(readyList) /\ Range(readyList) = {}
        /\ \A s \in Semaphores : IsInjective(semQueue[s]) /\ Range(semQueue[s]) = {}
        /\ \A l \in Locks : IsInjective(lockQueue[l]) /\ Range(lockQueue[l]) = {}
        /\ \A c \in Conditions : IsInjective(condQueue[c]) /\ Range(condQueue[c]) = {}
    BY NoWokenThreads DEF Init
  <2>3. /\ \A t \in Threads : status[t] = "RUNNING" => t = currentThread
        /\ \A t \in Threads : status[t] = "JUST_CREATED" <=> continuation[t] = New
    BY PlaceFacts DEF Init
  <2>. QED  BY <2>1, <2>2, <2>3 DEF EachThreadInOnePlace, Asleep
<1>3. CarcassIsSafe
  BY PlaceFacts DEF Init, CarcassIsSafe
<1>4. HolderIsRight
  BY KernelAssumption DEF Init, HolderIsRight
<1>5. FreeLockHasATaker
  BY DEF Init, FreeLockHasATaker
<1>. QED  BY <1>1, <1>2, <1>3, <1>4, <1>5 DEF IInv

(***************************************************************************)
(* Every step preserves the invariant: one case for each action.           *)
(***************************************************************************)
LEMMA NextInvariant == IInv /\ [Next]_vars => IInv'
<1>. SUFFICES ASSUME IInv, [Next]_vars
              PROVE  IInv'
  OBVIOUS
<1>. USE DEF ThreadStep, SemaphoreStep, LockStep, ConditionStep, DeviceStep
<1>1. /\ level \in Levels /\ pending \in [Semaphores -> Nat] /\ halted \in BOOLEAN
  BY DEF IInv, TypeOK
<1>2. ASSUME NEW t \in Threads, Fork(t) PROVE IInv'
  BY <1>2, ForkInvariant
<1>3. ASSUME ThreadRoot \/ YieldReturns \/ \E s \in Semaphores : PTakes(s)
      PROVE  IInv'
  BY <1>3, ReturnInvariant
<1>4. CASE Yield
  BY <1>4, YieldInvariant
<1>5. CASE Finish
  BY <1>5, FinishInvariant
<1>6. ASSUME NEW now \in Levels, SetLevel(now) PROVE IInv'
  BY <1>1, <1>6, FrameInvariant DEF SetLevel, deviceVars
<1>7. ASSUME NEW s \in Semaphores, PSleeps(s) PROVE IInv'
  BY <1>7, PSleepsInvariant
<1>8. ASSUME NEW s \in Semaphores, V(s) PROVE IInv'
  BY <1>1, <1>8, DoVInvariant DEF V
<1>9. ASSUME NEW l \in Locks, AcquireTakes(l) PROVE IInv'
  BY <1>9, AcquireTakesInvariant
<1>10. ASSUME NEW l \in Locks, AcquireSleeps(l) PROVE IInv'
  BY <1>10, AcquireSleepsInvariant
<1>11. ASSUME NEW l \in Locks, Release(l) PROVE IInv'
  BY <1>11, ReleaseInvariant
<1>12. ASSUME NEW c \in Conditions, Wait(c) PROVE IInv'
  BY <1>12, WaitInvariant
<1>13. ASSUME NEW c \in Conditions, Signal(c) \/ Broadcast(c) PROVE IInv'
  BY <1>13, SignalInvariant
<1>14. ASSUME NEW s \in Semaphores, Schedule(s) PROVE IInv'
  BY <1>1, <1>14, FrameInvariant DEF Schedule
<1>15. ASSUME NEW s \in Semaphores, CheckIfDue(s) PROVE IInv'
  <2>1. pending[s] \in Nat /\ pending[s] > 0
    BY <1>1, <1>15 DEF CheckIfDue
  <2>2. pending' \in [Semaphores -> Nat]
    BY <1>1, <1>15, <2>1 DEF CheckIfDue
  <2>. QED  BY <1>15, <2>2, DoVInvariant DEF CheckIfDue
<1>16. CASE WakeFromIdle
  BY <1>16, WakeFromIdleInvariant
<1>17. CASE Halt
  BY <1>1, <1>17, FrameInvariant DEF Halt
<1>18. CASE UNCHANGED vars
  BY <1>1, <1>18, FrameInvariant DEF vars, deviceVars
<1>19. CASE ThreadStep
  BY <1>19, <1>2, <1>3, <1>4, <1>5, <1>6
<1>20. CASE SemaphoreStep
  BY <1>20, <1>3, <1>7, <1>8
<1>21. CASE LockStep
  BY <1>21, <1>9, <1>10, <1>11
<1>22. CASE ConditionStep
  BY <1>22, <1>12, <1>13
<1>23. CASE DeviceStep
  BY <1>23, <1>14, <1>15, <1>16, <1>17
<1>. QED  BY <1>18, <1>19, <1>20, <1>21, <1>22, <1>23 DEF Next

LEMMA Invariance == Spec => []IInv
<1>1. Init => IInv
  BY InitInvariant
<1>2. IInv /\ [Next]_vars => IInv'
  BY NextInvariant
<1>. QED  BY <1>1, <1>2, PTL DEF Spec

-----------------------------------------------------------------------------
(***************************************************************************)
(* What holds in every reachable state of the kernel.                      *)
(***************************************************************************)

\* Every variable of the kernel keeps its type, whatever the programs call.
THEOREM TypeCorrect == Spec => []TypeOK
<1>1. IInv => TypeOK
  BY DEF IInv
<1>. QED  BY <1>1, Invariance, PTL

\* Scheduler and synchronization queues never lose a thread or hold it twice:
\* what Sleep, ReadyToRun, Run and the queues of synch.cc do to status and to
\* the lists always agrees.
THEOREM ThreadsAreInOnePlace == Spec => []EachThreadInOnePlace
<1>1. IInv => EachThreadInOnePlace
  BY DEF IInv
<1>. QED  BY <1>1, Invariance, PTL

\* Lock gives mutual exclusion, and the ASSERTs of Release, Wait, Signal and
\* Broadcast never fail for a program that counts on the locks it was given.
THEOREM HoldersAreRight == Spec => []HolderIsRight
<1>1. IInv => HolderIsRight
  BY DEF IInv
<1>. QED  BY <1>1, Invariance, PTL

\* Lock::Release never loses a wake-up: a free lock with sleepers in Acquire
\* has a woken thread that will take it.
THEOREM FreeLocksAreTaken == Spec => []FreeLockHasATaker
<1>1. IInv => FreeLockHasATaker
  BY DEF IInv
<1>. QED  BY <1>1, Invariance, PTL

\* Scheduler::Run never deletes a thread that could still run, nor one twice.
THEOREM CarcassesAreSafe == Spec => []CarcassIsSafe
<1>1. IInv => CarcassIsSafe
  BY DEF IInv
<1>. QED  BY <1>1, Invariance, PTL

-----------------------------------------------------------------------------
(***************************************************************************)
(* No V is lost.  The threads that come for the units of a semaphore are   *)
(* those in P that are not in its queue; they are finitely many because    *)
(* each step starts one thread at most.                                    *)
(***************************************************************************)
InP(s)    == {t \in Threads : continuation[t] = At("P", s)}
Coming(s) == InP(s) \ Range(semQueue[s])
Started   == {t \in Threads : continuation[t] # New}

UnitsInv == IInv /\ IsFiniteSet(Started) /\ EveryUnitHasATaker

LEMMA ComingIsRetrying ==
  /\ IInv => \A s \in Semaphores : Retrying("P", s) = Coming(s)
  /\ IInv' => \A s \in Semaphores : Retrying("P", s)' = Coming(s)'
<1> USE DEF Retrying, Coming, InP, Asleep
<1>1. ASSUME IInv, NEW s \in Semaphores PROVE Retrying("P", s) = Coming(s)
  BY <1>1 DEF IInv, EachThreadInOnePlace
<1>2. ASSUME IInv', NEW s \in Semaphores PROVE Retrying("P", s)' = Coming(s)'
  BY <1>2 DEF IInv, EachThreadInOnePlace
<1>. QED  BY <1>1, <1>2

LEMMA ComingIsFinite ==
  ASSUME IsFiniteSet(Started), NEW s \in Semaphores
  PROVE  IsFiniteSet(Coming(s)) /\ Cardinality(Coming(s)) \in Nat
<1>1. Coming(s) \subseteq Started
  BY PlaceFacts DEF Coming, InP, Started
<1>. QED  BY <1>1, FS_Subset, FS_CardinalityType

\* What a step does to the threads in P, to the queue and to the value of a
\* semaphore that it does not operate on.
LeavesAlone(s) ==
  /\ value'[s] = value[s] /\ semQueue'[s] = semQueue[s]
  /\ \A t \in InP(s) : continuation'[t] = continuation[t]

LEMMA SemaphoreSteps ==
  ASSUME IInv, [Next]_vars, NEW s \in Semaphores
  PROVE  PTakes(s) \/ PSleeps(s) \/ DoV(s) \/ LeavesAlone(s)
<1> USE DEF LeavesAlone, InP, IInv, TypeOK
<1>1. ASSUME UNCHANGED semVars,
             \/ UNCHANGED continuation
             \/ \E place : continuation' = [continuation EXCEPT ![currentThread] = place]
                           /\ continuation[currentThread] # At("P", s)
      PROVE  LeavesAlone(s)
  BY <1>1 DEF semVars
<1>2. CASE ThreadStep
  <2>1. ASSUME NEW t \in Threads, Fork(t) PROVE LeavesAlone(s)
    BY <2>1, PlaceFacts DEF Fork, semVars
  <2>2. CASE ThreadRoot \/ YieldReturns
    BY <1>1, <2>2, PlaceFacts DEF ThreadRoot, YieldReturns, BackIn, Return
  <2>3. CASE Yield \/ Finish
    BY <1>1, <2>3, PlaceFacts DEF Yield, Finish, InProgram, Sleep
  <2>4. ASSUME NEW now \in Levels, SetLevel(now) PROVE LeavesAlone(s)
    BY <1>1, <2>4 DEF SetLevel, threadVars
  <2>. QED  BY <1>2, <2>1, <2>2, <2>3, <2>4 DEF ThreadStep
<1>3. ASSUME NEW r \in Semaphores, r # s, PTakes(r) \/ PSleeps(r) \/ DoV(r)
      PROVE  LeavesAlone(s)
  <2>1. value'[s] = value[s] /\ semQueue'[s] = semQueue[s]
    BY <1>3 DEF PTakes, PSleeps, DoV
  <2>2. continuation[currentThread] # At("P", s) \/ UNCHANGED continuation
    BY <1>3, PlaceFacts DEF PTakes, PSleeps, DoV, Tests, InProgram, BackIn
  <2>3. \/ UNCHANGED continuation
        \/ \E place : continuation' = [continuation EXCEPT ![currentThread] = place]
    BY <1>3 DEF PTakes, PSleeps, DoV, Return, Sleep
  <2>. QED  BY <2>1, <2>2, <2>3
<1>4. CASE SemaphoreStep
  BY <1>3, <1>4 DEF SemaphoreStep, V
<1>5. CASE LockStep
  <2>1. PICK l \in Locks : AcquireTakes(l) \/ AcquireSleeps(l) \/ Release(l)
    BY <1>5 DEF LockStep
  <2>2. TestsLock(l) => continuation[currentThread] # At("P", s)
    BY PlaceFacts DEF TestsLock, Tests, InProgram, BackIn
  <2>. QED  BY <1>1, <2>1, <2>2 DEF AcquireTakes, AcquireSleeps, Release, Return, Sleep
<1>6. CASE ConditionStep
  BY <1>1, <1>6, PlaceFacts
     DEF ConditionStep, Wait, Signal, Broadcast, CallsWithLock, InProgram, Sleep
<1>7. CASE DeviceStep
  <2>1. ASSUME NEW r \in Semaphores, CheckIfDue(r) PROVE DoV(s) \/ LeavesAlone(s)
    BY <1>3, <2>1 DEF CheckIfDue
  <2>2. ASSUME NEW r \in Semaphores, Schedule(r) PROVE LeavesAlone(s)
    BY <1>1, <2>2 DEF Schedule, threadVars
  <2>3. CASE WakeFromIdle \/ Halt
    BY <1>1, <2>3 DEF WakeFromIdle, Halt, threadVars
  <2>. QED  BY <1>7, <2>1, <2>2, <2>3 DEF DeviceStep
<1>8. CASE UNCHANGED vars
  BY <1>1, <1>8 DEF vars, threadVars
<1>. QED  BY <1>2, <1>4, <1>5, <1>6, <1>7, <1>8 DEF Next

\* A step moves one thread at most.
LEMMA OneMoves ==
  ASSUME IInv, [Next]_vars
  PROVE  \E t \in Threads : \A u \in Threads \ {t} : continuation'[u] = continuation[u]
<1> USE DEF IInv, TypeOK
<1>1. ASSUME NEW t \in Threads, Fork(t)
      PROVE  \A u \in Threads \ {t} : continuation'[u] = continuation[u]
  BY <1>1 DEF Fork
<1>2. ASSUME ~ \E t \in Threads : Fork(t)
      PROVE  \A u \in Threads \ {currentThread} : continuation'[u] = continuation[u]
  <2>1. CASE ThreadStep
    BY <1>2, <2>1 DEF ThreadStep, ThreadRoot, Yield, YieldReturns, Finish, SetLevel, Return, Sleep,
                      threadVars
  <2>2. CASE SemaphoreStep
    BY <2>2 DEF SemaphoreStep, PTakes, PSleeps, V, DoV, Return, Sleep
  <2>3. CASE LockStep
    BY <2>3 DEF LockStep, AcquireTakes, AcquireSleeps, Release, Return, Sleep
  <2>4. CASE ConditionStep
    BY <2>4 DEF ConditionStep, Wait, Signal, Broadcast, Sleep
  <2>5. CASE DeviceStep
    BY <2>5 DEF DeviceStep, Schedule, CheckIfDue, DoV, WakeFromIdle, Halt, threadVars
  <2>6. CASE UNCHANGED vars
    BY <2>6 DEF vars, threadVars
  <2>. QED  BY <2>1, <2>2, <2>3, <2>4, <2>5, <2>6 DEF Next
<1>. QED  BY <1>1, <1>2

LEMMA UnitsInvStep == UnitsInv /\ [Next]_vars => UnitsInv'
<1>. SUFFICES ASSUME UnitsInv, [Next]_vars
              PROVE  UnitsInv'
  OBVIOUS
<1>1. IInv /\ IInv' /\ TypeOK /\ EachThreadInOnePlace
  BY NextInvariant DEF UnitsInv, IInv
<1>2. IsFiniteSet(Started')
  <2>1. PICK t \in Threads : \A u \in Threads \ {t} : continuation'[u] = continuation[u]
    BY <1>1, OneMoves
  <2>2. Started' \subseteq Started \cup {t}
    BY <2>1 DEF Started, New, At
  <2>3. IsFiniteSet(Started \cup {t})
    BY FS_AddElement DEF UnitsInv
  <2>. QED  BY <2>2, <2>3, FS_Subset
<1>3. EveryUnitHasATaker'
  <2>. SUFFICES ASSUME NEW s \in Semaphores, semQueue'[s] # <<>>
                PROVE  value'[s] <= Cardinality(Coming(s)')
    BY <1>1, ComingIsRetrying DEF EveryUnitHasATaker
  <2>. DEFINE now == Coming(s)  then == Coming(s)'
  <2>1. /\ IsFiniteSet(now) /\ Cardinality(now) \in Nat
        /\ semQueue[s] # <<>> => value[s] <= Cardinality(now)
        /\ value[s] \in Nat /\ value'[s] \in Nat
    BY <1>1, ComingIsFinite, ComingIsRetrying DEF UnitsInv, EveryUnitHasATaker, IInv, TypeOK
  <2>2. IsFiniteSet(then) /\ Cardinality(then) \in Nat
    <3>1. Coming(s)' \subseteq Started'
      BY PlaceFacts DEF Coming, InP, Started, At, New
    <3>. QED  BY <1>2, <3>1, FS_Subset, FS_CardinalityType
  <2>3. ASSUME value'[s] <= value[s], semQueue[s] # <<>>, now \subseteq then
        PROVE  value'[s] <= Cardinality(then)
    <3>1. Cardinality(now) <= Cardinality(then)
      BY <2>2, <2>3, FS_Subset
    <3>. QED  BY <2>1, <2>2, <2>3, <3>1
  <2>4. CASE PTakes(s)
    <3>1. /\ value'[s] = value[s] - 1 /\ semQueue' = semQueue
          /\ continuation' = [continuation EXCEPT ![currentThread] = User]
          /\ InProgram \/ BackIn("P", s)
      BY <1>1, <2>4 DEF PTakes, Return, Tests, TypeOK
    <3>2. CASE InProgram
      <4>1. now \subseteq then
        BY <1>1, <3>1, <3>2, PlaceFacts DEF Coming, InP, InProgram, TypeOK, At
      <4>. QED  BY <2>1, <2>3, <3>1, <4>1
    <3>3. CASE BackIn("P", s)
      <4>1. currentThread \in now
        BY <1>1, <3>3, RunningIsInNoQueue DEF Coming, InP, BackIn, TypeOK
      <4>2. then = now \ {currentThread}
        BY <1>1, <3>1, PlaceFacts DEF Coming, InP, TypeOK, At
      <4>3. Cardinality(then) = Cardinality(now) - 1
        BY <2>1, <4>1, <4>2, FS_RemoveElement
      <4>. QED  BY <2>1, <2>2, <3>1, <4>3
    <3>. QED  BY <3>1, <3>2, <3>3
  <2>5. CASE PSleeps(s)
    BY <2>2, <2>5 DEF PSleeps
  <2>6. CASE DoV(s)
    <3>1. /\ value'[s] = value[s] + 1 /\ semQueue'[s] = Rest(semQueue[s])
          /\ continuation' = continuation
          /\ semQueue[s] \in Seq(Threads) /\ IsInjective(semQueue[s])
          /\ Range(semQueue[s]) = Asleep("P", s)
      BY <1>1, <2>6 DEF DoV, TypeOK, EachThreadInOnePlace
    <3>2. semQueue[s] # <<>>
      BY <3>1 DEF Rest
    <3>3. /\ Head(semQueue[s]) \in Range(semQueue[s])
          /\ Range(Rest(semQueue[s])) = Range(semQueue[s]) \ {Head(semQueue[s])}
      BY <3>1, <3>2, FirstRest, TailQueue
    <3>4. Head(semQueue[s]) \in InP(s) /\ Head(semQueue[s]) \notin now
      BY <3>1, <3>3 DEF Asleep, InP, Coming
    <3>5. then = now \cup {Head(semQueue[s])}
      BY <3>1, <3>3, <3>4 DEF Coming, InP, At
    <3>6. Cardinality(then) = Cardinality(now) + 1
      BY <2>1, <3>4, <3>5, FS_AddElement
    <3>. QED  BY <2>1, <2>2, <3>1, <3>2, <3>6
  <2>7. CASE LeavesAlone(s)
    <3>1. now \subseteq then
      BY <2>7 DEF LeavesAlone, Coming, InP, At
    <3>. QED  BY <2>1, <2>3, <2>7, <3>1 DEF LeavesAlone
  <2>. QED  BY <1>1, <2>4, <2>5, <2>6, <2>7, SemaphoreSteps
<1>. QED  BY <1>1, <1>2, <1>3 DEF UnitsInv

\* Semaphore::V never loses a wake-up: while threads sleep in P, every unit of
\* the value has a woken thread that comes for it.
THEOREM UnitsAreTaken == Spec => []EveryUnitHasATaker
<1>1. Init => UnitsInv
  <2>. SUFFICES ASSUME Init PROVE UnitsInv
    OBVIOUS
  <2>1. Started = {Main}
    BY KernelAssumption, PlaceFacts DEF Init, Started
  <2>2. EveryUnitHasATaker
    BY DEF Init, EveryUnitHasATaker
  <2>. QED  BY <2>1, <2>2, InitInvariant, FS_Singleton DEF UnitsInv
<1>2. UnitsInv => EveryUnitHasATaker
  BY DEF UnitsInv
<1>. QED  BY <1>1, <1>2, UnitsInvStep, PTL DEF Spec

-----------------------------------------------------------------------------
(***************************************************************************)
(* The kernel implements the monitor.  The queue of a condition stands for *)
(* the set of its waiters; the monitor does not know in which order they   *)
(* are signalled, where a thread waits in the meantime, nor who runs.      *)
(***************************************************************************)
LEMMA MonitorIsSeen ==
  ASSUME IInv
  PROVE  /\ currentThread \in Threads
         /\ Busy => ~Abstract!Waiting(currentThread)
         /\ \A l \in Locks : ~isHeldBySome[l] => Abstract!Free(l)
<1>1. currentThread \in Threads
  BY DEF IInv, TypeOK
<1>2. ASSUME Busy PROVE ~Abstract!Waiting(currentThread)
  BY <1>2, RunningIsInNoQueue DEF Abstract!Waiting, IInv
<1>3. ASSUME NEW l \in Locks, ~isHeldBySome[l] PROVE Abstract!Free(l)
  BY <1>3 DEF IInv, HolderIsRight, Abstract!Free
<1>. QED  BY <1>1, <1>2, <1>3

\* Condition::Signal and the conditions of Wait and Broadcast, each seen as
\* the set of waiters.
LEMMA WaitersAfter ==
  ASSUME IInv, NEW c \in Conditions
  PROVE  /\ condQueue' = [condQueue EXCEPT ![c] = Append(@, currentThread)]
              => \A d \in Conditions : Range(condQueue[d])' =
                   IF d = c THEN Range(condQueue[d]) \cup {currentThread} ELSE Range(condQueue[d])
         /\ condQueue' = [condQueue EXCEPT ![c] = <<>>]
              => \A d \in Conditions : Range(condQueue[d])' =
                   IF d = c THEN {} ELSE Range(condQueue[d])
         /\ condQueue' = [condQueue EXCEPT ![c] = Rest(@)] /\ condQueue[c] # <<>>
              => /\ Head(condQueue[c]) \in Range(condQueue[c])
                 /\ \A d \in Conditions : Range(condQueue[d])' =
                   IF d = c THEN Range(condQueue[d]) \ {Head(condQueue[c])} ELSE Range(condQueue[d])
<1>1. /\ condQueue[c] \in Seq(Threads) /\ currentThread \in Threads
      /\ IsInjective(condQueue[c]) /\ DOMAIN condQueue = Conditions
  BY DEF IInv, TypeOK, EachThreadInOnePlace
<1>2. Range(Append(condQueue[c], currentThread)) = Range(condQueue[c]) \cup {currentThread}
  BY <1>1, AppendQueue
<1>3. Range(<<>>) = {}
  BY NoWokenThreads
<1>4. condQueue[c] # <<>> => /\ Head(condQueue[c]) \in Range(condQueue[c])
                            /\ Range(Rest(condQueue[c])) = Range(condQueue[c]) \ {Head(condQueue[c])}
  BY <1>1, FirstRest, TailQueue
<1>5. ASSUME NEW q, condQueue' = [condQueue EXCEPT ![c] = q], NEW d \in Conditions
      PROVE  Range(condQueue[d])' = IF d = c THEN Range(q) ELSE Range(condQueue[d])
  BY <1>1, <1>5
<1>. QED  BY <1>1, <1>2, <1>3, <1>4, <1>5

LEMMA MonitorStep ==
  ASSUME IInv, [Next]_vars
  PROVE  [Abstract!Next]_(Abstract!vars)
<1> DEFINE w == [c \in Conditions |-> Range(condQueue[c])]
<1> USE MonitorIsSeen DEF Abstract!vars, Abstract!Next
<1>1. CASE ThreadStep \/ UNCHANGED vars
  BY <1>1 DEF ThreadStep, Fork, ThreadRoot, Yield, YieldReturns, Finish, SetLevel, Return, Sleep,
              vars, threadVars, semVars
<1>2. ASSUME NEW s \in Semaphores, PTakes(s) PROVE Abstract!Take(s)
  BY <1>2 DEF PTakes, Abstract!Take
<1>3. ASSUME NEW s \in Semaphores, PSleeps(s) PROVE UNCHANGED Abstract!vars
  BY <1>3 DEF PSleeps, Sleep
<1>4. ASSUME NEW s \in Semaphores, DoV(s) PROVE Abstract!Give(s)
  BY <1>4 DEF DoV, Abstract!Give
<1>5. CASE SemaphoreStep
  BY <1>2, <1>3, <1>4, <1>5 DEF SemaphoreStep, V
<1>6. ASSUME NEW l \in Locks, AcquireTakes(l) PROVE Abstract!Enter(currentThread, l)
  <2>1. Busy
    BY <1>6 DEF AcquireTakes, TestsLock, Tests, InProgram, BackIn
  <2>. QED  BY <1>6, <2>1 DEF AcquireTakes, Abstract!Enter, semVars
<1>7. ASSUME NEW l \in Locks, Release(l) PROVE Abstract!Leave(currentThread, l)
  <2>1. Busy
    BY <1>7 DEF Release, InProgram
  <2>. QED  BY <1>7, <2>1 DEF Release, FreeLock, Abstract!Leave, semVars
<1>8. CASE LockStep
  <2>1. ASSUME NEW l \in Locks, AcquireSleeps(l) PROVE UNCHANGED Abstract!vars
    BY <2>1 DEF AcquireSleeps, Sleep, semVars
  <2>. QED  BY <1>6, <1>7, <1>8, <2>1 DEF LockStep
<1>9. ASSUME NEW c \in Conditions, Wait(c) PROVE Abstract!Wait(currentThread, c)
  <2>1. Busy /\ ConditionLock[c] \in holding[currentThread]
    BY <1>9 DEF Wait, CallsWithLock, InProgram
  <2>2. /\ holding' = [holding EXCEPT ![currentThread] = @ \ {ConditionLock[c]}]
        /\ value' = value
        /\ condQueue' = [condQueue EXCEPT ![c] = Append(@, currentThread)]
    BY <1>9 DEF Wait, FreeLock, semVars
  <2>3. w' = [w EXCEPT ![c] = @ \cup {currentThread}]
    BY <2>2, WaitersAfter
  <2>. QED  BY <2>1, <2>2, <2>3 DEF Abstract!Wait
<1>10. ASSUME NEW c \in Conditions, Signal(c)
       PROVE  Abstract!Signal(c) \/ UNCHANGED Abstract!vars
  <2>1. /\ Busy /\ ConditionLock[c] \in holding[currentThread]
        /\ condQueue' = [condQueue EXCEPT ![c] = Rest(@)]
        /\ value' = value /\ holding' = holding
    BY <1>10 DEF Signal, CallsWithLock, InProgram, semVars
  <2>2. CASE condQueue[c] = <<>>
    BY <2>1, <2>2 DEF IInv, TypeOK, Rest
  <2>3. CASE condQueue[c] # <<>>
    <3>1. /\ Head(condQueue[c]) \in w[c]
          /\ w' = [w EXCEPT ![c] = @ \ {Head(condQueue[c])}]
      BY <2>1, <2>3, WaitersAfter
    <3>. QED  BY <2>1, <3>1 DEF Abstract!Signal, Abstract!Wake
  <2>. QED  BY <2>2, <2>3
<1>11. ASSUME NEW c \in Conditions, Broadcast(c)
       PROVE  Abstract!Broadcast(c) \/ UNCHANGED Abstract!vars
  <2>1. /\ Busy /\ ConditionLock[c] \in holding[currentThread]
        /\ condQueue' = [condQueue EXCEPT ![c] = <<>>]
        /\ value' = value /\ holding' = holding
    BY <1>11 DEF Broadcast, CallsWithLock, InProgram, semVars
  <2>2. w' = [w EXCEPT ![c] = {}]
    BY <2>1, WaitersAfter
  <2>3. CASE w[c] = {}
    BY <2>1, <2>2, <2>3
  <2>4. CASE w[c] # {}
    <3>1. w' = [w EXCEPT ![c] = @ \ w[c]]
      BY <2>2
    <3>. QED  BY <2>1, <2>4, <3>1 DEF Abstract!Broadcast, Abstract!Wake
  <2>. QED  BY <2>3, <2>4
<1>12. CASE ConditionStep
  BY <1>9, <1>10, <1>11, <1>12 DEF ConditionStep
<1>13. CASE DeviceStep
  <2>1. ASSUME NEW s \in Semaphores, Schedule(s) PROVE UNCHANGED Abstract!vars
    BY <2>1 DEF Schedule, semVars
  <2>2. CASE WakeFromIdle \/ Halt
    BY <2>2 DEF WakeFromIdle, Halt, semVars
  <2>. QED  BY <1>4, <1>13, <2>1, <2>2 DEF DeviceStep, CheckIfDue
<1>. QED  BY <1>1, <1>5, <1>8, <1>12, <1>13 DEF Next

\* synch.cc keeps its promise: P, V, Acquire, Release, Wait, Signal and
\* Broadcast have the effect the monitor gives them, and the scheduler, the
\* queues and the interrupts never show.
THEOREM KernelImplementsMonitor == Spec => ImplementsMonitor
<1>1. Init => Abstract!Init
  <2> SUFFICES ASSUME Init PROVE Abstract!Init
    OBVIOUS
  <2>1. \A c \in Conditions : Range(condQueue[c]) = {}
    BY NoWokenThreads DEF Init
  <2>. QED  BY <2>1 DEF Init, Abstract!Init
<1>2. IInv /\ [Next]_vars => [Abstract!Next]_(Abstract!vars)
  BY MonitorStep
<1>. QED  BY <1>1, <1>2, Invariance, PTL DEF Spec, ImplementsMonitor, Abstract!Spec

-----------------------------------------------------------------------------
(***************************************************************************)
(* A thread in its program has the CPU, and a thread sleeps only where an  *)
(* operation put it to sleep.                                              *)
(***************************************************************************)
PlacesFit ==
  \A t \in Threads :
    /\ continuation[t] = User => status[t] = "RUNNING"
    /\ status[t] = "BLOCKED" => continuation[t] \notin {Root, User, Yields}

\* Sleep and Yield: the running thread leaves its program.
LEMMA LeavingFits ==
  ASSUME TypeOK, OneRunning, PlacesFit,
         NEW place \in Places \ {User},
         continuation' = [continuation EXCEPT ![currentThread] = place],
         \A t \in Threads : status'[t] = "BLOCKED" =>
           \/ t # currentThread /\ status[t] = "BLOCKED"
           \/ t = currentThread /\ place \notin {Root, User, Yields}
  PROVE  PlacesFit'
<1>1. \A t \in Threads :
        continuation'[t] = IF t = currentThread THEN place ELSE continuation[t]
  BY DEF TypeOK
<1>2. User' = User /\ Root' = Root /\ Yields' = Yields
  BY DEF User, Root, Yields, At
<1>. QED  BY <1>1, <1>2 DEF PlacesFit, OneRunning

LEMMA SleepFits ==
  ASSUME TypeOK, OneRunning, PlacesFit, NEW woken, NEW dead,
         NEW place \in Places \ {Root, User, Yields}, Sleep(place, woken, dead)
  PROVE  PlacesFit'
<1> DEFINE asleep == [MadeReady(woken) EXCEPT ![currentThread] = "BLOCKED"]
           queue  == readyList \o woken
<1>1. /\ DOMAIN asleep = Threads
      /\ \A t \in Threads : asleep[t] = "BLOCKED" => t = currentThread \/ status[t] = "BLOCKED"
  BY DEF MadeReady
<1>2. \/ status' = asleep
      \/ \E next : status' = [asleep EXCEPT ![next] = "RUNNING"]
  BY DEF Sleep, Run
<1>3. \A t \in Threads : status'[t] = "BLOCKED" => asleep[t] = "BLOCKED"
  <2> HIDE DEF asleep
  <2>. QED  BY <1>1, <1>2
<1>4. continuation' = [continuation EXCEPT ![currentThread] = place]
  BY DEF Sleep
<1>. QED  BY <1>1, <1>3, <1>4, LeavingFits

\* Return, and the operations that keep the CPU and wake sleepers.
LEMMA StayingFits ==
  ASSUME TypeOK, PlacesFit,
         \/ continuation' = continuation
         \/ /\ continuation' = [continuation EXCEPT ![currentThread] = User]
            /\ status[currentThread] = "RUNNING",
         \A t \in Threads : status'[t] = status[t] \/ (status[t] = "BLOCKED" /\ status'[t] = "READY")
  PROVE  PlacesFit'
<1>1. User' = User /\ Root' = Root /\ Yields' = Yields
  BY DEF User, Root, Yields, At
<1>2. CASE continuation' = continuation
  BY <1>1, <1>2 DEF PlacesFit
<1>3. CASE /\ continuation' = [continuation EXCEPT ![currentThread] = User]
           /\ status[currentThread] = "RUNNING"
  <2>1. \A t \in Threads :
          continuation'[t] = IF t = currentThread THEN User ELSE continuation[t]
    BY <1>3 DEF TypeOK
  <2>. QED  BY <1>1, <1>3, <2>1 DEF PlacesFit
<1>. QED  BY <1>2, <1>3

LEMMA WakingFits ==
  ASSUME TypeOK, PlacesFit, NEW woken, \A t \in Range(woken) : status[t] = "BLOCKED",
         ReadyToRun(woken), continuation' = continuation
  PROVE  PlacesFit'
BY StayingFits DEF ReadyToRun, MadeReady, TypeOK

LEMMA PlacesFitStep ==
  ASSUME IInv, PlacesFit, [Next]_vars
  PROVE  PlacesFit'
<1>1. /\ TypeOK /\ EachThreadInOnePlace /\ OneRunning /\ SemQueues /\ LockQueues /\ CondQueues
      /\ currentThread \in Threads /\ DOMAIN status = Threads
      /\ New # User
  BY OnePlaceParts, PlaceFacts DEF IInv, TypeOK
<1>2. /\ \A p \in {"P", "Acquire", "Wait"} : \A x : At(p, x) \notin {Root, User, Yields}
      /\ Ends \notin {Root, User, Yields}
      /\ Ends \in Places /\ Yields \in Places \ {User}
      /\ \A s \in Semaphores : At("P", s) \in Places
      /\ \A l \in Locks : At("Acquire", l) \in Places
      /\ \A c \in Conditions : At("Wait", c) \in Places
  BY PlaceFacts
\* Whoever is first in a queue sleeps.
<1>3. ASSUME NEW q \in Seq(Threads), \A t \in Range(q) : status[t] = "BLOCKED"
      PROVE  \A t \in Range(First(q)) : status[t] = "BLOCKED"
  BY <1>3, FirstRest
<1>4. /\ \A s \in Semaphores : \A t \in Range(First(semQueue[s])) : status[t] = "BLOCKED"
      /\ \A l \in Locks : \A t \in Range(First(lockQueue[l])) : status[t] = "BLOCKED"
      /\ \A c \in Conditions : /\ \A t \in Range(First(condQueue[c])) : status[t] = "BLOCKED"
                              /\ \A t \in Range(condQueue[c]) : status[t] = "BLOCKED"
  BY <1>1, <1>3 DEF SemQueues, LockQueues, CondQueues, Asleep, TypeOK
<1>5. CASE ThreadStep
  <2>1. ASSUME NEW t \in Threads, Fork(t) PROVE PlacesFit'
    <3>1. /\ \A u \in Threads : continuation'[u] = IF u = t THEN Root ELSE continuation[u]
          /\ \A u \in Threads : status'[u] = IF u = t THEN "READY" ELSE status[u]
      BY <2>1 DEF Fork, IInv, TypeOK
    <3>2. User' = User /\ Root' = Root /\ Yields' = Yields /\ Root # User
      BY PlaceFacts DEF User, Root, Yields, At
    <3>. QED  BY <3>1, <3>2 DEF PlacesFit
  <2>2. CASE ThreadRoot \/ YieldReturns
    BY <1>1, <2>2, StayingFits DEF ThreadRoot, YieldReturns, Return, BackIn, Busy
  <2>3. CASE Yield
    <3>1. \A t \in Threads : status'[t] = "BLOCKED" => t # currentThread /\ status[t] = "BLOCKED"
      BY <1>1, <2>3 DEF Yield, Run
    <3>. QED  BY <1>1, <1>2, <2>3, <3>1, LeavingFits DEF Yield
  <2>4. CASE Finish
    BY <1>1, <1>2, <2>4, SleepFits DEF Finish
  <2>5. ASSUME NEW now \in Levels, SetLevel(now) PROVE PlacesFit'
    BY <1>1, <2>5, StayingFits DEF SetLevel, threadVars
  <2>. QED  BY <1>5, <2>1, <2>2, <2>3, <2>4, <2>5 DEF ThreadStep
<1>6. ASSUME NEW s \in Semaphores, PTakes(s) \/ PSleeps(s) \/ DoV(s) PROVE PlacesFit'
  <2>1. CASE PTakes(s)
    BY <1>1, <2>1, StayingFits DEF PTakes, Tests, InProgram, BackIn, Busy, Return
  <2>2. CASE PSleeps(s)
    BY <1>1, <1>2, <2>2, SleepFits DEF PSleeps
  <2>3. CASE DoV(s)
    BY <1>1, <1>4, <2>3, WakingFits DEF DoV
  <2>. QED  BY <1>6, <2>1, <2>2, <2>3
<1>7. CASE SemaphoreStep
  BY <1>6, <1>7 DEF SemaphoreStep, V
<1>8. ASSUME NEW l \in Locks, AcquireTakes(l) \/ AcquireSleeps(l) \/ Release(l)
      PROVE  PlacesFit'
  <2>1. CASE AcquireTakes(l)
    BY <1>1, <2>1, StayingFits DEF AcquireTakes, TestsLock, Tests, InProgram, BackIn, Busy, Return
  <2>2. CASE AcquireSleeps(l)
    BY <1>1, <1>2, <2>2, SleepFits DEF AcquireSleeps
  <2>3. CASE Release(l)
    BY <1>1, <1>4, <2>3, WakingFits DEF Release
  <2>. QED  BY <1>8, <2>1, <2>2, <2>3
<1>9. ASSUME NEW c \in Conditions, Wait(c) \/ Signal(c) \/ Broadcast(c)
      PROVE  PlacesFit'
  <2>1. CASE Wait(c)
    BY <1>1, <1>2, <2>1, SleepFits DEF Wait
  <2>2. CASE Signal(c)
    BY <1>1, <1>4, <2>2, WakingFits DEF Signal
  <2>3. CASE Broadcast(c)
    BY <1>1, <1>4, <2>3, WakingFits DEF Broadcast
  <2>. QED  BY <1>9, <2>1, <2>2, <2>3
<1>10. CASE DeviceStep
  <2>1. ASSUME NEW s \in Semaphores, Schedule(s) PROVE PlacesFit'
    BY <1>1, <2>1, StayingFits DEF Schedule, threadVars
  <2>2. CASE WakeFromIdle
    <3>1. /\ \A t \in Threads : status'[t] = "RUNNING" \/ status'[t] = status[t]
          /\ continuation' = continuation
      BY <1>1, <2>2 DEF WakeFromIdle, Run
    <3>. QED  BY <3>1 DEF PlacesFit, User, Root, Yields, At
  <2>3. CASE Halt
    BY <1>1, <2>3, StayingFits DEF Halt, threadVars
  <2>. QED  BY <1>6, <1>10, <2>1, <2>2, <2>3 DEF DeviceStep, CheckIfDue
<1>11. CASE UNCHANGED vars
  BY <1>1, <1>11, StayingFits DEF vars, threadVars
<1>. QED  BY <1>5, <1>7, <1>8, <1>9, <1>10, <1>11 DEF Next, LockStep, ConditionStep

LEMMA PlacesFitStarts == Init => PlacesFit
BY PlaceFacts DEF Init, PlacesFit

-----------------------------------------------------------------------------
(***************************************************************************)
(* What each operation does to the variables that the drivers on top of    *)
(* the kernel count on: the values of semaphores, the interrupts that are  *)
(* pending and the holders of locks.  The proofs about Console, SynchDisk  *)
(* and PostOffice use these lemmas.                                        *)
(***************************************************************************)

\* What they need of the kernel's variables.
KernelTypes ==
  /\ currentThread \in Threads
  /\ readyList \in Seq(Threads)
  /\ semQueue \in [Semaphores -> Seq(Threads)]
  /\ lockQueue \in [Locks -> Seq(Threads)]
  /\ condQueue \in [Conditions -> Seq(Threads)]
  /\ value \in [Semaphores -> Nat]
  /\ pending \in [Semaphores -> Nat]
  /\ isHeldBySome \in [Locks -> BOOLEAN]
  /\ currentHolder \in [Locks -> Threads \cup {NoThread}]

\* What the drivers of a device share through the kernel.
Shared == <<value, pending, isHeldBySome, currentHolder>>

\* Interrupt::Halt, called by a program.
ProgramHalts ==
  /\ halted' = TRUE
  /\ UNCHANGED <<threadVars, level, oldLevel, semVars, lockVars, condQueue, pending, holding>>

-----------------------------------------------------------------------------
LEMMA KernelStarts == Init => KernelTypes
BY KernelAssumption DEF Init, KernelTypes

LEMMA SleepTypes ==
  ASSUME KernelTypes, NEW place, NEW woken \in Seq(Threads), NEW dead, Sleep(place, woken, dead)
  PROVE  currentThread' \in Threads /\ readyList' \in Seq(Threads)
<1> DEFINE queue == readyList \o woken
<1>1. queue \in Seq(Threads)
  BY DEF KernelTypes
<1>2. CASE queue = <<>>
  BY <1>1, <1>2 DEF Sleep, KernelTypes
<1>3. CASE queue # <<>>
  <2>1. readyList' = Tail(queue) /\ currentThread' = Head(queue)
    BY <1>3 DEF Sleep, Run
  <2>. QED  BY <2>1, <1>1, <1>3
<1>. QED  BY <1>2, <1>3

\* The operations that touch neither values nor holders.
LEMMA QuietSteps ==
  ASSUME KernelTypes,
         \/ ThreadRoot \/ YieldReturns \/ WakeFromIdle \/ Yield \/ Finish \/ ProgramHalts \/ Halt
         \/ \E t \in Threads : Fork(t)
         \/ \E s \in Semaphores : PSleeps(s)
         \/ \E l \in Locks : AcquireSleeps(l)
         \/ \E c \in Conditions : Signal(c)
  PROVE  KernelTypes' /\ UNCHANGED Shared
<1> USE DEF KernelTypes, Shared, semVars, lockVars, deviceVars, threadVars
<1>1. CASE ThreadRoot \/ YieldReturns
  BY <1>1 DEF ThreadRoot, YieldReturns, Return
<1>2. CASE WakeFromIdle \/ Yield
  <2>1. readyList # <<>> /\ Head(readyList) \in Threads /\ Tail(readyList) \in Seq(Threads)
    BY <1>2 DEF WakeFromIdle, Yield
  <2>2. currentThread' = Head(readyList)
    BY <1>2 DEF WakeFromIdle, Yield, Run
  <2>3. readyList' \in Seq(Threads)
    <3>1. Append(Tail(readyList), currentThread) \in Seq(Threads)
      BY <2>1
    <3>. QED  BY <1>2, <2>1, <3>1 DEF WakeFromIdle, Yield
  <2>4. UNCHANGED <<value, pending, isHeldBySome, currentHolder, semQueue, lockQueue, condQueue>>
    BY <1>2 DEF WakeFromIdle, Yield
  <2>. QED  BY <2>1, <2>2, <2>3, <2>4
<1>3. CASE Finish
  <2>1. <<>> \in Seq(Threads)
    OBVIOUS
  <2>. QED  BY <1>3, <2>1, SleepTypes DEF Finish
<1>4. CASE ProgramHalts \/ Halt
  BY <1>4 DEF ProgramHalts, Halt
<1>5. CASE \E t \in Threads : Fork(t)
  BY <1>5 DEF Fork
<1>6. ASSUME NEW s \in Semaphores, PSleeps(s)  PROVE KernelTypes' /\ UNCHANGED Shared
  <2>1. <<>> \in Seq(Threads)
    OBVIOUS
  <2>2. currentThread' \in Threads /\ readyList' \in Seq(Threads)
    BY <1>6, <2>1, SleepTypes DEF PSleeps
  <2>. QED  BY <1>6, <2>2 DEF PSleeps
<1>7. ASSUME NEW l \in Locks, AcquireSleeps(l)  PROVE KernelTypes' /\ UNCHANGED Shared
  <2>1. <<>> \in Seq(Threads)
    OBVIOUS
  <2>2. currentThread' \in Threads /\ readyList' \in Seq(Threads)
    BY <1>7, <2>1, SleepTypes DEF AcquireSleeps
  <2>. QED  BY <1>7, <2>2 DEF AcquireSleeps
<1>8. ASSUME NEW c \in Conditions, Signal(c)  PROVE KernelTypes' /\ UNCHANGED Shared
  <2>1. First(condQueue[c]) \in Seq(Threads) /\ Rest(condQueue[c]) \in Seq(Threads)
    BY DEF First, Rest
  <2>2. readyList' \in Seq(Threads)
    BY <1>8, <2>1 DEF Signal, ReadyToRun
  <2>. QED  BY <1>8, <2>1, <2>2 DEF Signal
<1>. QED  BY <1>1, <1>2, <1>3, <1>4, <1>5, <1>6, <1>7, <1>8

\* V, as the handlers of the devices do it.
LEMMA VStep ==
  ASSUME KernelTypes, NEW s \in Semaphores, DoV(s), pending' \in [Semaphores -> Nat]
  PROVE  /\ KernelTypes'
         /\ value' = [value EXCEPT ![s] = @ + 1]
         /\ UNCHANGED <<isHeldBySome, currentHolder>>
<1>1. First(semQueue[s]) \in Seq(Threads) /\ Rest(semQueue[s]) \in Seq(Threads)
  BY DEF First, Rest, KernelTypes
<1>2. readyList' \in Seq(Threads)
  BY <1>1 DEF DoV, ReadyToRun, KernelTypes
<1>3. currentThread' = currentThread /\ UNCHANGED <<lockVars, condQueue>>
  BY DEF DoV
<1>4. /\ semQueue' \in [Semaphores -> Seq(Threads)]
      /\ value' = [value EXCEPT ![s] = @ + 1] /\ value' \in [Semaphores -> Nat]
  BY <1>1 DEF DoV, KernelTypes
<1>. QED  BY <1>2, <1>3, <1>4 DEF KernelTypes, lockVars

LEMMA CheckIfDueStep ==
  ASSUME KernelTypes, NEW s \in Semaphores, CheckIfDue(s)
  PROVE  /\ KernelTypes'
         /\ pending[s] > 0 /\ pending' = [pending EXCEPT ![s] = @ - 1]
         /\ value' = [value EXCEPT ![s] = @ + 1]
         /\ UNCHANGED <<isHeldBySome, currentHolder>>
<1>1. pending[s] > 0 /\ pending' = [pending EXCEPT ![s] = @ - 1] /\ DoV(s)
  BY DEF CheckIfDue
<1>2. pending[s] - 1 \in Nat
  BY <1>1 DEF KernelTypes
<1>3. pending' \in [Semaphores -> Nat]
  BY <1>1, <1>2 DEF KernelTypes
<1>. QED  BY <1>1, <1>3, VStep

LEMMA PTakesStep ==
  ASSUME KernelTypes, NEW s \in Semaphores, PTakes(s)
  PROVE  /\ KernelTypes'
         /\ value[s] > 0 /\ value' = [value EXCEPT ![s] = @ - 1]
         /\ UNCHANGED <<pending, isHeldBySome, currentHolder>>
BY DEF PTakes, KernelTypes, lockVars, deviceVars

LEMMA AcquireTakesStep ==
  ASSUME KernelTypes, NEW l \in Locks, AcquireTakes(l)
  PROVE  /\ KernelTypes'
         /\ ~isHeldBySome[l]
         /\ isHeldBySome' = [isHeldBySome EXCEPT ![l] = TRUE]
         /\ currentHolder' = [currentHolder EXCEPT ![l] = currentThread]
         /\ UNCHANGED <<value, pending>>
BY DEF AcquireTakes, KernelTypes, semVars, deviceVars

\* What Release and Wait do to the lock.
Freed(l) ==
  /\ isHeldBySome' = [isHeldBySome EXCEPT ![l] = FALSE]
  /\ currentHolder' = [currentHolder EXCEPT ![l] = NoThread]
  /\ UNCHANGED <<value, pending>>

LEMMA ReleaseStep ==
  ASSUME KernelTypes, NEW l \in Locks, Release(l)
  PROVE  KernelTypes' /\ Freed(l)
<1>1. First(lockQueue[l]) \in Seq(Threads) /\ Rest(lockQueue[l]) \in Seq(Threads)
  BY DEF First, Rest, KernelTypes
<1>2. readyList' \in Seq(Threads)
  BY <1>1 DEF Release, ReadyToRun, KernelTypes
<1>3. Freed(l)
  BY DEF Release, FreeLock, semVars, deviceVars, Freed
<1>. QED  BY <1>1, <1>2, <1>3 DEF Release, FreeLock, KernelTypes, semVars, deviceVars

LEMMA WaitStep ==
  ASSUME KernelTypes, NEW c \in Conditions, Wait(c)
  PROVE  KernelTypes' /\ Freed(ConditionLock[c])
<1> DEFINE l == ConditionLock[c]
<1>1. l \in Locks
  BY KernelAssumption
<1>2. First(lockQueue[l]) \in Seq(Threads) /\ Rest(lockQueue[l]) \in Seq(Threads)
  BY <1>1 DEF First, Rest, KernelTypes
<1>3. currentThread' \in Threads /\ readyList' \in Seq(Threads)
  BY <1>2, SleepTypes DEF Wait
<1>4. Freed(l)
  BY DEF Wait, FreeLock, semVars, deviceVars, Freed
<1>5. condQueue' \in [Conditions -> Seq(Threads)]
  <2>1. Append(condQueue[c], currentThread) \in Seq(Threads)
    BY DEF KernelTypes
  <2>. QED  BY <2>1 DEF Wait, KernelTypes
<1>6. lockQueue' \in [Locks -> Seq(Threads)]
  <2>1. lockQueue' = [lockQueue EXCEPT ![l] = Rest(lockQueue[l])]
    BY DEF Wait, FreeLock
  <2>. HIDE DEF l
  <2>. QED  BY <2>1, <1>2 DEF KernelTypes
<1>7. semQueue' = semQueue
  BY DEF Wait, semVars
<1>. QED  BY <1>1, <1>3, <1>4, <1>5, <1>6, <1>7 DEF KernelTypes, Freed

LEMMA KernelStutters ==
  ASSUME KernelTypes, UNCHANGED vars
  PROVE  KernelTypes' /\ UNCHANGED Shared
BY DEF KernelTypes, Shared, vars, threadVars, semVars, lockVars, deviceVars
=============================================================================
