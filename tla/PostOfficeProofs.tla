--------------------------- MODULE PostOfficeProofs ---------------------------
(***************************************************************************)
(* PostOffice for any number of threads and boxes: sends do not overlap,   *)
(* the one packet buffer of the device and its semaphore agree, every mail *)
(* in a box has a thread coming for it, and the mails come out in order.   *)
(***************************************************************************)
EXTENDS PostOffice, KernelProofs

Stages == {"boot", "user"} \cup SendStages \cup ReceiveStages \cup WorkerStages

\* The stages in which a thread has sendLock, and those in which it has a box.
OwnerStages == {"send", "await", "sendEnd"}
BoxStages   == SendStages \cup ReceiveStages \cup {"putLock", "append", "putEnd"}

\* The postal worker does the deliveries, and nobody else.
CallTypes ==
  /\ stage \in [Threads -> Stages]
  /\ box \in [Threads -> Boxes \cup {NoBox}]
  /\ \A t \in Threads : stage[t] \in WorkerStages <=> t = Worker
  /\ \A t \in Threads : stage[t] \in BoxStages => box[t] \in Boxes

MailTypes ==
  /\ sent \in Nat
  /\ wire \in Seq(Mails)
  /\ inbox \in Mails \cup {NoMail}
  /\ parcel \in Mails \cup {NoMail}
  /\ stage[Worker] \in {"putLock", "append"} => parcel \in Mails
  /\ messages \in [Boxes -> Seq(Mails)]
  /\ got \in [Boxes -> 0 .. MaxMail]

\* Every sender has a number for its mail.
RoomForMail == sent + Cardinality(Senders) <= MaxMail

SendersHaveTheLock ==
  \A t \in Threads :
    stage[t] \in OwnerStages => isHeldBySome[sendLock] /\ currentHolder[sendLock] = t

\* A send is an interrupt to come, or a unit to take, of the thread that waits.
SendIsAwaited ==
  pending[messageSent] + value[messageSent] =
    IF \E t \in Threads : stage[t] = "await" THEN 1 ELSE 0

SendInv == SendersHaveTheLock /\ SendIsAwaited

PostInv ==
  KernelTypes /\ CallTypes /\ MailTypes /\ RoomForMail /\ SendInv /\ PacketIsAnnounced

LEMMA PostConstants ==
  /\ Worker \in Threads /\ Main \in Threads /\ Worker # Main
  /\ messageSent \in Semaphores /\ messageAvailable \in Semaphores
  /\ messageSent # messageAvailable
  /\ sendLock \in Locks
  /\ MaxMail \in Nat
  /\ NoMail \notin Mails
  /\ \A b \in Boxes : /\ BoxLock[b] \in Locks /\ BoxLock[b] # sendLock
                      /\ NotEmpty[b] \in Conditions /\ ConditionLock[NotEmpty[b]] = BoxLock[b]
<1>1. MaxMail \in Nat /\ NoMail \notin [id : Nat, to : Boxes]
  BY PostOfficeAssumption
<1>2. Mails \subseteq [id : Nat, to : Boxes]
  BY <1>1 DEF Mails
<1>3. \A b \in Boxes : /\ BoxLock[b] \in Locks /\ BoxLock[b] # sendLock
                       /\ NotEmpty[b] \in Conditions /\ ConditionLock[NotEmpty[b]] = BoxLock[b]
  BY PostOfficeAssumption
<1>. QED  BY <1>1, <1>2, <1>3, PostOfficeAssumption, KernelAssumption

-----------------------------------------------------------------------------
(***************************************************************************)
(* What a step of thread p to the stage "there" leaves as it is.           *)
(***************************************************************************)
LEMMA SameCalls ==
  ASSUME CallTypes, NEW p \in Threads, NEW there \in Stages, NEW b \in Boxes \cup {NoBox},
         stage' = [stage EXCEPT ![p] = there],
         box' = [box EXCEPT ![p] = b] \/ (box' = box /\ b = box[p]),
         there \in WorkerStages <=> p = Worker,
         there \in BoxStages => b \in Boxes
  PROVE  CallTypes'
BY DEF CallTypes

LEMMA SameSends ==
  ASSUME CallTypes, SendInv, NEW p \in Threads, NEW there,
         stage' = [stage EXCEPT ![p] = there],
         there = "await" <=> stage[p] = "await",
         there \in OwnerStages => stage[p] \in OwnerStages,
         isHeldBySome'[sendLock] = isHeldBySome[sendLock],
         currentHolder'[sendLock] = currentHolder[sendLock],
         pending'[messageSent] = pending[messageSent],
         value'[messageSent] = value[messageSent]
  PROVE  SendInv'
<1>1. \A t \in Threads : stage'[t] = "await" <=> stage[t] = "await"
  BY DEF CallTypes
<1>2. SendIsAwaited'
  BY <1>1 DEF SendIsAwaited, SendInv
<1>3. SendersHaveTheLock'
  BY DEF SendersHaveTheLock, SendInv, CallTypes
<1>. QED  BY <1>2, <1>3 DEF SendInv

LEMMA FewerSenders ==
  ASSUME RoomForMail, sent \in Nat, NEW S, S \subseteq Senders
  PROVE  /\ IsFiniteSet(S) /\ Cardinality(S) \in Nat
         /\ Cardinality(S) <= Cardinality(Senders)
         /\ sent + Cardinality(S) <= MaxMail
<1>1. IsFiniteSet(Senders)
  BY PostOfficeAssumption, FS_Subset DEF Senders
<1>2. /\ IsFiniteSet(S) /\ Cardinality(S) \in Nat /\ Cardinality(Senders) \in Nat
      /\ Cardinality(S) <= Cardinality(Senders)
  BY <1>1, FS_Subset, FS_CardinalityType
<1>. QED  BY <1>2, PostConstants DEF RoomForMail

LEMMA SameRoom ==
  ASSUME CallTypes, RoomForMail, sent \in Nat, sent' = sent,
         NEW p \in Threads, NEW there, stage' = [stage EXCEPT ![p] = there],
         there \in {"sendLock", "send"} => stage[p] \in {"sendLock", "send"}
  PROVE  RoomForMail'
<1>1. Senders' \subseteq Senders
  BY DEF Senders, CallTypes
<1>. QED  BY <1>1, FewerSenders DEF RoomForMail

LEMMA SamePacket ==
  ASSUME CallTypes, PacketIsAnnounced, inbox' = inbox,
         value'[messageAvailable] = value[messageAvailable],
         NEW p \in Threads, NEW there, stage' = [stage EXCEPT ![p] = there],
         there = "receive" <=> stage[p] = "receive"
  PROVE  PacketIsAnnounced'
<1>1. stage'[Worker] = "receive" <=> stage[Worker] = "receive"
  BY PostConstants DEF CallTypes
<1>. QED  BY <1>1 DEF PacketIsAnnounced

\* All of it, for the steps that have nothing to do with sendLock, the device and
\* its semaphores.
LEMMA AwayFromDevice ==
  ASSUME PostInv, KernelTypes', MailTypes',
         NEW p \in Threads, NEW there \in Stages, NEW b \in Boxes \cup {NoBox},
         stage' = [stage EXCEPT ![p] = there],
         box' = [box EXCEPT ![p] = b] \/ (box' = box /\ b = box[p]),
         there \in WorkerStages <=> p = Worker,
         there \in BoxStages => b \in Boxes,
         there \notin OwnerStages \cup {"sendLock", "receive"},
         stage[p] \notin {"await", "receive"},
         isHeldBySome'[sendLock] = isHeldBySome[sendLock],
         currentHolder'[sendLock] = currentHolder[sendLock],
         pending' = pending, value' = value, inbox' = inbox, sent' = sent
  PROVE  PostInv'
<1>1. CallTypes'
  BY SameCalls DEF PostInv
<1>2. SendInv'
  BY SameSends DEF PostInv, OwnerStages
<1>3. RoomForMail'
  BY SameRoom DEF PostInv, MailTypes, OwnerStages
<1>4. PacketIsAnnounced'
  BY SamePacket DEF PostInv
<1>. QED  BY <1>1, <1>2, <1>3, <1>4 DEF PostInv

LEMMA OutsideStep ==
  ASSUME PostInv, KernelTypes', UNCHANGED <<Shared, callVars, mailVars>>
  PROVE  PostInv'
<1> USE DEF PostInv, Shared, callVars, mailVars
<1>1. CallTypes' /\ MailTypes'
  BY DEF CallTypes, MailTypes
<1>2. RoomForMail'
  BY DEF RoomForMail, Senders
<1>3. SendInv' /\ PacketIsAnnounced'
  BY DEF SendInv, SendersHaveTheLock, SendIsAwaited, PacketIsAnnounced
<1>. QED  BY <1>1, <1>2, <1>3

\* The lock of another object than the sender's.
LEMMA OtherLock ==
  ASSUME KernelTypes, NEW l \in Locks, l # sendLock,
         \/ Freed(l)
         \/ /\ isHeldBySome' = [isHeldBySome EXCEPT ![l] = TRUE]
            /\ currentHolder' = [currentHolder EXCEPT ![l] = currentThread]
  PROVE  /\ isHeldBySome'[sendLock] = isHeldBySome[sendLock]
         /\ currentHolder'[sendLock] = currentHolder[sendLock]
BY PostConstants DEF Freed, KernelTypes

LEMMA MyLocks ==
  ASSUME PostInv, stage[currentThread] \in BoxStages
  PROVE  /\ currentThread \in Threads /\ box[currentThread] \in Boxes
         /\ MyLock \in Locks /\ MyLock # sendLock
         /\ MyArrival \in Conditions /\ ConditionLock[MyArrival] = MyLock
BY PostConstants DEF PostInv, KernelTypes, CallTypes, MyLock, MyArrival

-----------------------------------------------------------------------------
LEMMA PostStarts == PostInit => PostInv
<1> SUFFICES ASSUME PostInit PROVE PostInv
  OBVIOUS
<1> USE PostConstants DEF PostInit
<1>1. KernelTypes
  BY KernelStarts
<1>2. CallTypes
  BY DEF CallTypes, Stages, BoxStages, SendStages, ReceiveStages, WorkerStages
<1>3. MailTypes
  BY DEF MailTypes
<1>4. RoomForMail
  <2>1. Senders = {}
    BY DEF Senders
  <2>. QED  BY <2>1, FS_EmptySet DEF RoomForMail
<1>5. SendInv
  BY PostOfficeAssumption DEF SendInv, SendersHaveTheLock, OwnerStages, SendIsAwaited, Init
<1>6. PacketIsAnnounced
  BY PostOfficeAssumption DEF PacketIsAnnounced, Init
<1>. QED  BY <1>1, <1>2, <1>3, <1>4, <1>5, <1>6 DEF PostInv

-----------------------------------------------------------------------------
(***************************************************************************)
(* Send                                                                    *)
(***************************************************************************)
LEMMA CallInv ==
  ASSUME PostInv, Call  PROVE PostInv'
<1> DEFINE p == currentThread
<1>1. PICK b \in Boxes, there \in {"sendLock", "boxLock"} :
        /\ there = "sendLock" => sent + Cardinality(Senders) < MaxMail
        /\ stage' = [stage EXCEPT ![p] = there] /\ box' = [box EXCEPT ![p] = b]
  BY DEF Call, Begins
<1>2. /\ p \in Threads /\ stage[p] = "user" /\ UNCHANGED vars /\ UNCHANGED mailVars
      /\ CallTypes /\ MailTypes
  BY DEF Call, Is, PostInv, KernelTypes
<1>3. p # Worker
  BY <1>2, PostConstants DEF CallTypes, WorkerStages
<1>4. KernelTypes' /\ UNCHANGED Shared
  BY <1>2, KernelStutters DEF PostInv
<1>5. CallTypes'
  BY <1>1, <1>2, <1>3, SameCalls DEF Stages, BoxStages, SendStages, ReceiveStages, WorkerStages
<1>6. MailTypes'
  BY <1>1, <1>2, <1>3, PostConstants DEF MailTypes, mailVars, CallTypes
<1>7. SendInv'
  BY <1>1, <1>2, <1>4, SameSends DEF PostInv, OwnerStages, Shared
<1>8. RoomForMail'
  <2>1. CASE there = "boxLock"
    BY <1>1, <1>2, <2>1, SameRoom DEF PostInv, MailTypes, mailVars
  <2>2. CASE there = "sendLock"
    <3>1. Senders' = Senders \cup {p} /\ sent' = sent
      BY <1>1, <1>2, <2>2 DEF Senders, CallTypes, mailVars
    <3>2. IsFiniteSet(Senders) /\ Cardinality(Senders) \in Nat
      BY FewerSenders DEF PostInv, MailTypes
    <3>3. p \notin Senders
      BY <1>2 DEF Senders
    <3>4. Cardinality(Senders') = Cardinality(Senders) + 1
      BY <3>1, <3>2, <3>3, FS_AddElement
    <3>. QED  BY <1>1, <1>2, <2>2, <3>1, <3>2, <3>4, PostConstants DEF RoomForMail, MailTypes
  <2>. QED  BY <2>1, <2>2
<1>9. PacketIsAnnounced'
  BY <1>1, <1>2, <1>4, SamePacket DEF PostInv, mailVars, Shared
<1>. QED  BY <1>4, <1>5, <1>6, <1>7, <1>8, <1>9 DEF PostInv

\* A thread that stays asleep at its stage.
LEMMA StaysThere ==
  ASSUME PostInv, KernelTypes', UNCHANGED Shared, UNCHANGED mailVars,
         NEW there, Is(there), GoesTo(there)
  PROVE  PostInv'
<1>1. UNCHANGED callVars
  BY DEF Is, GoesTo, callVars, PostInv, CallTypes, KernelTypes
<1>. QED  BY <1>1, OutsideStep

LEMMA GetSendLockInv ==
  ASSUME PostInv, GetSendLock  PROVE PostInv'
<1> DEFINE p == currentThread
<1> USE PostConstants
<1>0. /\ p \in Threads /\ stage[p] = "sendLock" /\ UNCHANGED mailVars
      /\ CallTypes /\ MailTypes /\ KernelTypes
  BY DEF GetSendLock, Is, PostInv, KernelTypes
<1>1. CASE AcquireTakes(sendLock) /\ GoesTo("send")
  <2>1. /\ KernelTypes' /\ ~isHeldBySome[sendLock] /\ UNCHANGED <<value, pending>>
        /\ isHeldBySome' = [isHeldBySome EXCEPT ![sendLock] = TRUE]
        /\ currentHolder' = [currentHolder EXCEPT ![sendLock] = p]
    BY <1>0, <1>1, AcquireTakesStep
  <2>2. stage' = [stage EXCEPT ![p] = "send"] /\ box' = box
    BY <1>1 DEF GoesTo
  <2>3. p # Worker /\ box[p] \in Boxes
    BY <1>0 DEF CallTypes, WorkerStages, BoxStages, SendStages
  <2>4. CallTypes'
    BY <1>0, <2>2, <2>3, SameCalls DEF Stages, BoxStages, SendStages, WorkerStages
  <2>5. MailTypes'
    BY <1>0, <2>2, <2>3 DEF MailTypes, mailVars, CallTypes
  <2>6. RoomForMail'
    BY <1>0, <2>2, SameRoom DEF PostInv, MailTypes, mailVars
  <2>7. PacketIsAnnounced'
    BY <1>0, <2>1, <2>2, SamePacket DEF PostInv, mailVars
  <2>8. SendersHaveTheLock'
    <3>1. \A t \in Threads : stage[t] \notin OwnerStages
      BY <2>1 DEF PostInv, SendInv, SendersHaveTheLock
    <3>2. isHeldBySome'[sendLock] /\ currentHolder'[sendLock] = p
      BY <1>0, <2>1 DEF KernelTypes
    <3>. QED  BY <1>0, <2>2, <3>1, <3>2 DEF SendersHaveTheLock, CallTypes
  <2>9. SendIsAwaited'
    <3>1. \A t \in Threads : stage'[t] = "await" <=> stage[t] = "await"
      BY <1>0, <2>2 DEF CallTypes
    <3>. QED  BY <2>1, <3>1 DEF PostInv, SendInv, SendIsAwaited
  <2>. QED  BY <2>1, <2>4, <2>5, <2>6, <2>7, <2>8, <2>9 DEF PostInv, SendInv
<1>2. CASE AcquireSleeps(sendLock) /\ GoesTo("sendLock")
  <2>1. KernelTypes' /\ UNCHANGED Shared
    BY <1>0, <1>2, QuietSteps
  <2>. QED  BY <1>0, <1>2, <2>1, StaysThere DEF Is
<1>. QED  BY <1>1, <1>2 DEF GetSendLock

LEMMA SendStepInv ==
  ASSUME PostInv, Send  PROVE PostInv'
<1> DEFINE p == currentThread
           mail == [id |-> sent + 1, to |-> box[p]]
<1> USE PostConstants
<1>0. /\ p \in Threads /\ stage[p] = "send" /\ CallTypes /\ MailTypes /\ KernelTypes
      /\ UNCHANGED <<currentThread, readyList, semQueue, lockQueue, condQueue, value,
                     isHeldBySome, currentHolder, inbox, parcel, messages, got>>
  BY DEF Send, Is, PostInv, KernelTypes, threadVars, semVars, lockVars
<1>1. /\ stage' = [stage EXCEPT ![p] = "await"] /\ box' = box /\ sent' = sent + 1
      /\ wire' \in {wire, Append(wire, mail)}
      /\ pending' = [pending EXCEPT ![messageSent] = @ + 1]
  BY DEF Send, GoesTo
<1>2. p # Worker /\ box[p] \in Boxes
  BY <1>0 DEF CallTypes, WorkerStages, BoxStages, SendStages
<1>3. KernelTypes'
  BY <1>0, <1>1 DEF KernelTypes
<1>4. CallTypes'
  BY <1>0, <1>1, <1>2, SameCalls DEF Stages, BoxStages, SendStages, WorkerStages
<1>5. /\ IsFiniteSet(Senders) /\ Cardinality(Senders) \in Nat
      /\ sent + Cardinality(Senders) <= MaxMail
  BY <1>0, FewerSenders DEF PostInv, MailTypes
<1>6. Cardinality(Senders \ {p}) = Cardinality(Senders) - 1
  <2>1. p \in Senders
    BY <1>0 DEF Senders
  <2>. QED  BY <1>5, <2>1, FS_RemoveElement
<1>7. IsFiniteSet(Senders \ {p}) /\ Cardinality(Senders \ {p}) \in Nat
  BY <1>5, FS_RemoveElement, FS_CardinalityType
<1>8. sent + 1 <= MaxMail
  BY <1>0, <1>5, <1>6, <1>7 DEF MailTypes
<1>9. RoomForMail'
  <2>1. Senders' = Senders \ {p}
    BY <1>0, <1>1 DEF Senders, CallTypes
  <2>. QED  BY <1>0, <1>1, <1>5, <1>6, <2>1 DEF RoomForMail, MailTypes
<1>10. MailTypes'
  <2>1. mail \in Mails
    BY <1>0, <1>2, <1>8 DEF Mails, MailTypes
  <2>2. wire' \in Seq(Mails)
    <3>1. wire \in Seq(Mails)
      BY <1>0 DEF MailTypes
    <3>2. wire' = wire \/ wire' = Append(wire, mail)
      BY <1>1
    <3>. HIDE DEF mail
    <3>. QED  BY <2>1, <3>1, <3>2
  <2>. QED  BY <1>0, <1>1, <1>2, <2>2 DEF MailTypes, CallTypes
<1>11. PacketIsAnnounced'
  BY <1>0, <1>1, SamePacket DEF PostInv
<1>12. SendersHaveTheLock'
  BY <1>0, <1>1 DEF PostInv, SendInv, SendersHaveTheLock, OwnerStages, CallTypes
<1>13. SendIsAwaited'
  <2>1. ~ \E t \in Threads : stage[t] = "await"
    BY <1>0 DEF PostInv, SendInv, SendersHaveTheLock, OwnerStages
  <2>2. pending[messageSent] = 0 /\ value[messageSent] = 0
    BY <1>0, <2>1 DEF PostInv, SendInv, SendIsAwaited, KernelTypes
  <2>3. pending'[messageSent] = 1 /\ value'[messageSent] = 0
    BY <1>0, <1>1, <2>2 DEF KernelTypes
  <2>4. stage'[p] = "await"
    BY <1>0, <1>1 DEF CallTypes
  <2>. QED  BY <1>0, <2>3, <2>4 DEF SendIsAwaited
<1>. QED  BY <1>3, <1>4, <1>9, <1>10, <1>11, <1>12, <1>13 DEF PostInv, SendInv

LEMMA AwaitSentInv ==
  ASSUME PostInv, AwaitSent  PROVE PostInv'
<1> DEFINE p == currentThread
<1> USE PostConstants
<1>0. /\ p \in Threads /\ stage[p] = "await" /\ UNCHANGED mailVars
      /\ CallTypes /\ MailTypes /\ KernelTypes
  BY DEF AwaitSent, Is, PostInv, KernelTypes
<1>1. CASE PTakes(messageSent) /\ GoesTo("sendEnd")
  <2>1. /\ KernelTypes' /\ UNCHANGED <<pending, isHeldBySome, currentHolder>>
        /\ value[messageSent] > 0 /\ value' = [value EXCEPT ![messageSent] = @ - 1]
    BY <1>0, <1>1, PTakesStep
  <2>2. stage' = [stage EXCEPT ![p] = "sendEnd"] /\ box' = box
    BY <1>1 DEF GoesTo
  <2>3. p # Worker /\ box[p] \in Boxes
    BY <1>0 DEF CallTypes, WorkerStages, BoxStages, SendStages
  <2>4. CallTypes'
    BY <1>0, <2>2, <2>3, SameCalls DEF Stages, BoxStages, SendStages, WorkerStages
  <2>5. MailTypes'
    BY <1>0, <2>2, <2>3 DEF MailTypes, mailVars, CallTypes
  <2>6. RoomForMail'
    BY <1>0, <2>2, SameRoom DEF PostInv, MailTypes, mailVars
  <2>7. PacketIsAnnounced'
    <3>1. value'[messageAvailable] = value[messageAvailable]
      BY <1>0, <2>1 DEF KernelTypes
    <3>. QED  BY <1>0, <2>2, <3>1, SamePacket DEF PostInv, mailVars
  <2>8. SendersHaveTheLock'
    BY <1>0, <2>1, <2>2 DEF PostInv, SendInv, SendersHaveTheLock, OwnerStages, CallTypes
  <2>9. SendIsAwaited'
    <3>1. pending[messageSent] = 0 /\ value[messageSent] = 1
      BY <1>0, <2>1 DEF PostInv, SendInv, SendIsAwaited, KernelTypes
    <3>2. \A t \in Threads : stage'[t] # "await"
      BY <1>0, <2>2 DEF PostInv, SendInv, SendersHaveTheLock, OwnerStages, CallTypes
    <3>3. pending'[messageSent] = 0 /\ value'[messageSent] = 0
      BY <1>0, <2>1, <3>1 DEF KernelTypes
    <3>. QED  BY <3>2, <3>3 DEF SendIsAwaited
  <2>. QED  BY <2>1, <2>4, <2>5, <2>6, <2>7, <2>8, <2>9 DEF PostInv, SendInv
<1>2. CASE PSleeps(messageSent) /\ GoesTo("await")
  <2>1. KernelTypes' /\ UNCHANGED Shared
    BY <1>0, <1>2, QuietSteps
  <2>. QED  BY <1>0, <1>2, <2>1, StaysThere DEF Is
<1>. QED  BY <1>1, <1>2 DEF AwaitSent

LEMMA EndSendInv ==
  ASSUME PostInv, EndSend  PROVE PostInv'
<1> DEFINE p == currentThread
<1> USE PostConstants
<1>0. /\ p \in Threads /\ stage[p] = "sendEnd" /\ UNCHANGED mailVars
      /\ CallTypes /\ MailTypes /\ KernelTypes
      /\ stage' = [stage EXCEPT ![p] = "user"] /\ box' = [box EXCEPT ![p] = NoBox]
  BY DEF EndSend, Is, PostInv, KernelTypes, Begins
<1>1. KernelTypes' /\ Freed(sendLock)
  BY <1>0, ReleaseStep DEF EndSend
<1>2. p # Worker
  BY <1>0 DEF CallTypes, WorkerStages
<1>3. CallTypes'
  BY <1>0, <1>2, SameCalls DEF Stages, BoxStages, SendStages, ReceiveStages, WorkerStages
<1>4. MailTypes'
  BY <1>0, <1>2 DEF MailTypes, mailVars, CallTypes
<1>5. RoomForMail'
  BY <1>0, SameRoom DEF PostInv, MailTypes, mailVars
<1>6. PacketIsAnnounced'
  BY <1>0, <1>1, SamePacket DEF PostInv, mailVars, Freed
<1>7. SendersHaveTheLock'
  <2>1. \A t \in Threads : stage'[t] \notin OwnerStages
    BY <1>0 DEF PostInv, SendInv, SendersHaveTheLock, OwnerStages, CallTypes
  <2>. QED  BY <2>1 DEF SendersHaveTheLock
<1>8. SendIsAwaited'
  <2>1. \A t \in Threads : stage'[t] = "await" <=> stage[t] = "await"
    BY <1>0 DEF CallTypes
  <2>. QED  BY <1>1, <2>1 DEF PostInv, SendInv, SendIsAwaited, Freed
<1>. QED  BY <1>1, <1>3, <1>4, <1>5, <1>6, <1>7, <1>8 DEF PostInv, SendInv

-----------------------------------------------------------------------------
(***************************************************************************)
(* Receive, and what the worker does with a box                            *)
(***************************************************************************)

\* A step at a box that takes or frees its lock, or leaves locks alone.
LEMMA BoxStep ==
  ASSUME PostInv, KernelTypes', stage[currentThread] \in BoxStages \ SendStages,
         NEW there \in {"look", "boxEnd", "user", "append", "putEnd", "available"},
         NEW b \in Boxes \cup {NoBox},
         stage' = [stage EXCEPT ![currentThread] = there],
         box' = [box EXCEPT ![currentThread] = b] \/ (box' = box /\ b = box[currentThread]),
         there \in WorkerStages <=> currentThread = Worker,
         there \in BoxStages => b \in Boxes,
         there = "append" => parcel' \in Mails,
         UNCHANGED <<value, pending, inbox, sent, wire>>,
         parcel' \in Mails \cup {NoMail},
         messages' \in [Boxes -> Seq(Mails)], got' \in [Boxes -> 0 .. MaxMail],
         \/ UNCHANGED <<isHeldBySome, currentHolder>>
         \/ Freed(MyLock)
         \/ /\ isHeldBySome' = [isHeldBySome EXCEPT ![MyLock] = TRUE]
            /\ currentHolder' = [currentHolder EXCEPT ![MyLock] = currentThread],
         currentThread # Worker => parcel' = parcel
  PROVE  PostInv'
<1>1. currentThread \in Threads /\ MyLock \in Locks /\ MyLock # sendLock
  BY MyLocks
<1>2. /\ isHeldBySome'[sendLock] = isHeldBySome[sendLock]
      /\ currentHolder'[sendLock] = currentHolder[sendLock]
  BY <1>1, OtherLock DEF PostInv
<1>3. MailTypes'
  <2>1. stage'[Worker] \in {"putLock", "append"} => parcel' \in Mails
    BY <1>1, PostConstants DEF PostInv, MailTypes, CallTypes
  <2>. QED  BY <2>1 DEF PostInv, MailTypes
<1>4. /\ there \in Stages /\ there \notin OwnerStages \cup {"sendLock", "receive"}
      /\ stage[currentThread] \notin {"await", "receive"}
  BY DEF Stages, OwnerStages, BoxStages, SendStages, ReceiveStages, WorkerStages
<1>. QED  BY <1>1, <1>2, <1>3, <1>4, AwayFromDevice

LEMMA GetBoxInv ==
  ASSUME PostInv, GetBox \/ WaitEnds \/ GetBoxToPut  PROVE PostInv'
<1> DEFINE p == currentThread
<1> USE PostConstants
<1>0. PICK here \in {"boxLock", "look", "putLock"},
           there \in {"look", "append"} :
        /\ stage[p] = here /\ (there = "append" <=> here = "putLock")
        /\ \/ AcquireTakes(MyLock) /\ GoesTo(there)
           \/ AcquireSleeps(MyLock) /\ GoesTo(here)
        /\ UNCHANGED mailVars
  BY DEF GetBox, WaitEnds, GetBoxToPut, Is
<1>1. /\ stage[p] \in BoxStages \ SendStages /\ CallTypes /\ MailTypes /\ KernelTypes
      /\ p \in Threads /\ box[p] \in Boxes /\ MyLock \in Locks
  BY <1>0, MyLocks DEF PostInv, BoxStages, SendStages, ReceiveStages
<1>2. CASE AcquireTakes(MyLock) /\ GoesTo(there)
  <2>1. /\ KernelTypes' /\ UNCHANGED <<value, pending>>
        /\ isHeldBySome' = [isHeldBySome EXCEPT ![MyLock] = TRUE]
        /\ currentHolder' = [currentHolder EXCEPT ![MyLock] = p]
    BY <1>1, <1>2, AcquireTakesStep
  <2>2. stage' = [stage EXCEPT ![p] = there] /\ box' = box
    BY <1>2 DEF GoesTo
  <2>3. there \in WorkerStages <=> p = Worker
    BY <1>0, <1>1 DEF CallTypes, WorkerStages
  <2>4. there = "append" => parcel' \in Mails
    BY <1>0, <1>1 DEF MailTypes, CallTypes, WorkerStages, mailVars
  <2>. QED  BY <1>0, <1>1, <2>1, <2>2, <2>3, <2>4, BoxStep DEF mailVars, MailTypes
<1>3. CASE AcquireSleeps(MyLock) /\ GoesTo(here)
  <2>1. KernelTypes' /\ UNCHANGED Shared
    BY <1>1, <1>3, QuietSteps
  <2>. QED  BY <1>0, <1>3, <2>1, StaysThere DEF Is
<1>. QED  BY <1>0, <1>2, <1>3

LEMMA AwaitMailInv ==
  ASSUME PostInv, AwaitMail  PROVE PostInv'
<1> DEFINE p == currentThread
<1>0. stage[p] = "look" /\ Wait(MyArrival) /\ GoesTo("look") /\ UNCHANGED mailVars
  BY DEF AwaitMail, Is
<1>1. /\ stage[p] \in BoxStages \ SendStages /\ CallTypes /\ MailTypes /\ KernelTypes
      /\ p \in Threads /\ box[p] \in Boxes
      /\ MyArrival \in Conditions /\ ConditionLock[MyArrival] = MyLock
  BY <1>0, MyLocks DEF PostInv, BoxStages, SendStages, ReceiveStages
<1>2. KernelTypes' /\ Freed(MyLock)
  BY <1>0, <1>1, WaitStep
<1>3. stage' = [stage EXCEPT ![p] = "look"] /\ box' = box
  BY <1>0 DEF GoesTo
<1>4. p # Worker
  BY <1>0, <1>1, PostConstants DEF CallTypes, WorkerStages
<1>. QED  BY <1>0, <1>1, <1>2, <1>3, <1>4, BoxStep DEF mailVars, MailTypes, Freed, WorkerStages

LEMMA TakeMailInv ==
  ASSUME PostInv, TakeMail  PROVE PostInv'
<1> DEFINE p == currentThread
           b == box[p]
<1>0. /\ stage[p] = "look" /\ messages[b] # <<>> /\ UNCHANGED vars
      /\ UNCHANGED <<sent, wire, inbox, parcel>>
      /\ got' = [got EXCEPT ![b] = Head(messages[b]).id]
      /\ messages' = [messages EXCEPT ![b] = Tail(@)]
      /\ stage' = [stage EXCEPT ![p] = "boxEnd"] /\ box' = box
  BY DEF TakeMail, Is, BoxIsEmpty, GoesTo
<1>1. /\ stage[p] \in BoxStages \ SendStages /\ CallTypes /\ MailTypes /\ KernelTypes
      /\ p \in Threads /\ b \in Boxes
  BY <1>0, MyLocks DEF PostInv, BoxStages, SendStages, ReceiveStages
<1>2. KernelTypes' /\ UNCHANGED Shared
  BY <1>0, <1>1, KernelStutters
<1>3. p # Worker
  BY <1>0, <1>1, PostConstants DEF CallTypes, WorkerStages
<1>4. messages[b] \in Seq(Mails) /\ Head(messages[b]) \in Mails /\ Tail(messages[b]) \in Seq(Mails)
  BY <1>0, <1>1 DEF MailTypes
<1>5. Head(messages[b]).id \in 0 .. MaxMail
  BY <1>4, PostConstants DEF Mails
<1>6. messages' \in [Boxes -> Seq(Mails)] /\ got' \in [Boxes -> 0 .. MaxMail]
  BY <1>0, <1>1, <1>4, <1>5 DEF MailTypes
<1>. QED
  BY <1>0, <1>1, <1>2, <1>3, <1>6, BoxStep DEF MailTypes, Shared, WorkerStages

LEMMA EndBoxInv ==
  ASSUME PostInv, EndReceive \/ EndPut  PROVE PostInv'
<1> DEFINE p == currentThread
<1>0. PICK there \in {"user", "available"} :
        /\ stage[p] = (IF there = "user" THEN "boxEnd" ELSE "putEnd")
        /\ Release(MyLock) /\ UNCHANGED mailVars
        /\ stage' = [stage EXCEPT ![p] = there] /\ box' = [box EXCEPT ![p] = NoBox]
  BY DEF EndReceive, EndPut, Is, Begins
<1>1. /\ stage[p] \in BoxStages \ SendStages /\ CallTypes /\ MailTypes /\ KernelTypes
      /\ p \in Threads /\ MyLock \in Locks
  BY <1>0, MyLocks DEF PostInv, BoxStages, SendStages, ReceiveStages
<1>2. KernelTypes' /\ Freed(MyLock)
  BY <1>0, <1>1, ReleaseStep
<1>3. there \in WorkerStages <=> p = Worker
  BY <1>0, <1>1, PostConstants DEF CallTypes, WorkerStages
<1>4. there \notin BoxStages
  BY DEF BoxStages, SendStages, ReceiveStages
<1>. QED  BY <1>0, <1>1, <1>2, <1>3, <1>4, BoxStep DEF mailVars, MailTypes, Freed

LEMMA AppendMailInv ==
  ASSUME PostInv, AppendMail  PROVE PostInv'
<1> DEFINE p == currentThread
           b == box[p]
<1>0. /\ stage[p] = "append" /\ Signal(MyArrival) /\ UNCHANGED <<sent, wire, inbox, got>>
      /\ messages' = [messages EXCEPT ![b] = Append(@, parcel)] /\ parcel' = NoMail
      /\ stage' = [stage EXCEPT ![p] = "putEnd"] /\ box' = box
  BY DEF AppendMail, Is, GoesTo
<1>1. /\ stage[p] \in BoxStages \ SendStages /\ CallTypes /\ MailTypes /\ KernelTypes
      /\ p \in Threads /\ b \in Boxes /\ MyArrival \in Conditions
  BY <1>0, MyLocks DEF PostInv, BoxStages, SendStages, ReceiveStages
<1>2. KernelTypes' /\ UNCHANGED Shared
  BY <1>0, <1>1, QuietSteps
<1>3. p = Worker
  BY <1>0, <1>1 DEF CallTypes, WorkerStages
<1>4. parcel \in Mails /\ messages[b] \in Seq(Mails)
  BY <1>0, <1>1, <1>3 DEF MailTypes
<1>5. messages' \in [Boxes -> Seq(Mails)]
  <2>1. Append(messages[b], parcel) \in Seq(Mails)
    BY <1>4
  <2>. QED  BY <1>0, <1>1, <2>1 DEF MailTypes
<1>. QED
  BY <1>0, <1>1, <1>2, <1>3, <1>5, BoxStep DEF MailTypes, Shared, WorkerStages

-----------------------------------------------------------------------------
(***************************************************************************)
(* The worker and the device                                               *)
(***************************************************************************)
LEMMA AwaitPacketInv ==
  ASSUME PostInv, AwaitPacket  PROVE PostInv'
<1> DEFINE p == currentThread
<1> USE PostConstants
<1>0. /\ p \in Threads /\ stage[p] = "available" /\ UNCHANGED mailVars
      /\ CallTypes /\ MailTypes /\ KernelTypes
  BY DEF AwaitPacket, Is, PostInv, KernelTypes
<1>1. CASE PTakes(messageAvailable) /\ GoesTo("receive")
  <2>1. /\ KernelTypes' /\ UNCHANGED <<pending, isHeldBySome, currentHolder>>
        /\ value[messageAvailable] > 0
        /\ value' = [value EXCEPT ![messageAvailable] = @ - 1]
    BY <1>0, <1>1, PTakesStep
  <2>2. stage' = [stage EXCEPT ![p] = "receive"] /\ box' = box
    BY <1>1 DEF GoesTo
  <2>3. p = Worker
    BY <1>0 DEF CallTypes, WorkerStages
  <2>4. CallTypes'
    BY <1>0, <2>2, <2>3 DEF CallTypes, Stages, BoxStages, SendStages, ReceiveStages, WorkerStages
  <2>5. MailTypes'
    BY <1>0, <2>2, <2>3 DEF MailTypes, mailVars, CallTypes
  <2>6. RoomForMail'
    BY <1>0, <2>2, SameRoom DEF PostInv, MailTypes, mailVars
  <2>7. SendInv'
    <3>1. value'[messageSent] = value[messageSent]
      BY <1>0, <2>1 DEF KernelTypes
    <3>. QED  BY <1>0, <2>1, <2>2, <3>1, SameSends DEF PostInv, OwnerStages
  <2>8. PacketIsAnnounced'
    <3>1. inbox # NoMail /\ value[messageAvailable] = 1
      BY <1>0, <2>1, <2>3 DEF PostInv, PacketIsAnnounced
    <3>2. value'[messageAvailable] = 0 /\ stage'[Worker] = "receive" /\ inbox' = inbox
      BY <1>0, <2>1, <2>2, <2>3, <3>1 DEF KernelTypes, CallTypes, mailVars
    <3>. QED  BY <3>1, <3>2 DEF PacketIsAnnounced
  <2>. QED  BY <2>1, <2>4, <2>5, <2>6, <2>7, <2>8 DEF PostInv
<1>2. CASE PSleeps(messageAvailable) /\ GoesTo("available")
  <2>1. KernelTypes' /\ UNCHANGED Shared
    BY <1>0, <1>2, QuietSteps
  <2>. QED  BY <1>0, <1>2, <2>1, StaysThere DEF Is
<1>. QED  BY <1>1, <1>2 DEF AwaitPacket

LEMMA ReceivePacketInv ==
  ASSUME PostInv, ReceivePacket  PROVE PostInv'
<1> DEFINE p == currentThread
<1> USE PostConstants
<1>0. /\ p \in Threads /\ stage[p] = "receive" /\ UNCHANGED vars
      /\ UNCHANGED <<sent, wire, messages, got>>
      /\ CallTypes /\ MailTypes /\ KernelTypes
      /\ inbox # NoMail /\ parcel' = inbox /\ inbox' = NoMail
      /\ stage' = [stage EXCEPT ![p] = "putLock"] /\ box' = [box EXCEPT ![p] = inbox.to]
  BY DEF ReceivePacket, Is, PostInv, KernelTypes, Begins
<1>1. KernelTypes' /\ UNCHANGED Shared
  BY <1>0, KernelStutters
<1>2. p = Worker
  BY <1>0 DEF CallTypes, WorkerStages
<1>3. inbox \in Mails /\ inbox.to \in Boxes
  BY <1>0 DEF MailTypes, Mails
<1>4. CallTypes'
  BY <1>0, <1>2, <1>3 DEF CallTypes, Stages, BoxStages, SendStages, ReceiveStages, WorkerStages
<1>5. MailTypes'
  BY <1>0, <1>3 DEF MailTypes
<1>6. RoomForMail'
  BY <1>0, SameRoom DEF PostInv, MailTypes
<1>7. SendInv'
  BY <1>0, <1>1, SameSends DEF PostInv, OwnerStages, Shared
<1>8. PacketIsAnnounced'
  <2>1. value[messageAvailable] = 0
    BY <1>0, <1>2 DEF PostInv, PacketIsAnnounced
  <2>2. value'[messageAvailable] = 0 /\ stage'[Worker] = "putLock"
    BY <1>0, <1>1, <1>2, <2>1 DEF Shared, CallTypes
  <2>. QED  BY <1>0, <2>2 DEF PacketIsAnnounced
<1>. QED  BY <1>1, <1>4, <1>5, <1>6, <1>7, <1>8 DEF PostInv

LEMMA CheckPktAvailInv ==
  ASSUME PostInv, CheckPktAvail  PROVE PostInv'
<1> USE PostConstants
<1>0. /\ inbox = NoMail /\ wire # <<>> /\ inbox' = Head(wire) /\ wire' = Tail(wire)
      /\ DoV(messageAvailable) /\ UNCHANGED <<pending, callVars, sent, parcel, messages, got>>
      /\ CallTypes /\ MailTypes /\ KernelTypes
  BY DEF CheckPktAvail, PostInv
<1>1. /\ KernelTypes' /\ value' = [value EXCEPT ![messageAvailable] = @ + 1]
      /\ UNCHANGED <<isHeldBySome, currentHolder>>
  BY <1>0, VStep DEF KernelTypes
<1>2. Head(wire) \in Mails /\ Tail(wire) \in Seq(Mails)
  BY <1>0 DEF MailTypes
<1>3. CallTypes' /\ MailTypes'
  BY <1>0, <1>2 DEF CallTypes, MailTypes, callVars
<1>4. RoomForMail'
  BY <1>0 DEF PostInv, RoomForMail, Senders, callVars
<1>5. SendInv'
  <2>1. value'[messageSent] = value[messageSent]
    BY <1>0, <1>1 DEF KernelTypes
  <2>. QED
    BY <1>0, <1>1, <2>1 DEF PostInv, SendInv, SendersHaveTheLock, SendIsAwaited, callVars
<1>6. PacketIsAnnounced'
  <2>1. value[messageAvailable] = 0 /\ stage[Worker] # "receive"
    BY <1>0 DEF PostInv, PacketIsAnnounced
  <2>2. value'[messageAvailable] = 1 /\ stage'[Worker] # "receive" /\ inbox' # NoMail
    BY <1>0, <1>1, <1>2, <2>1 DEF KernelTypes, callVars
  <2>. QED  BY <2>2 DEF PacketIsAnnounced
<1>. QED  BY <1>1, <1>3, <1>4, <1>5, <1>6 DEF PostInv

LEMMA SendDoneInv ==
  ASSUME PostInv, SendDone  PROVE PostInv'
<1> USE PostConstants
<1>0. UNCHANGED <<callVars, mailVars>> /\ CallTypes /\ MailTypes /\ KernelTypes
  BY DEF SendDone, PostInv
<1>1. /\ KernelTypes' /\ pending[messageSent] > 0
      /\ pending' = [pending EXCEPT ![messageSent] = @ - 1]
      /\ value' = [value EXCEPT ![messageSent] = @ + 1]
      /\ UNCHANGED <<isHeldBySome, currentHolder>>
  BY <1>0, CheckIfDueStep DEF SendDone
<1>2. CallTypes' /\ MailTypes'
  BY <1>0 DEF CallTypes, MailTypes, callVars, mailVars
<1>3. RoomForMail'
  BY <1>0 DEF PostInv, RoomForMail, Senders, callVars, mailVars
<1>4. SendInv'
  <2>1. pending'[messageSent] + value'[messageSent] = pending[messageSent] + value[messageSent]
    BY <1>0, <1>1 DEF KernelTypes
  <2>. QED
    BY <1>0, <1>1, <2>1 DEF PostInv, SendInv, SendersHaveTheLock, SendIsAwaited, callVars
<1>5. PacketIsAnnounced'
  <2>1. value'[messageAvailable] = value[messageAvailable]
    BY <1>0, <1>1 DEF KernelTypes
  <2>. QED  BY <1>0, <2>1 DEF PostInv, PacketIsAnnounced, callVars, mailVars
<1>. QED  BY <1>1, <1>2, <1>3, <1>4, <1>5 DEF PostInv

-----------------------------------------------------------------------------
LEMMA StartWorkerInv ==
  ASSUME PostInv, StartWorker  PROVE PostInv'
<1> DEFINE p == currentThread
<1>0. /\ p \in Threads /\ stage[p] = "boot" /\ UNCHANGED mailVars /\ Fork(Worker)
      /\ stage' = [stage EXCEPT ![p] = "user"] /\ box' = box
      /\ CallTypes /\ MailTypes /\ KernelTypes
  BY DEF StartWorker, Is, GoesTo, PostInv, KernelTypes
<1>1. KernelTypes' /\ UNCHANGED Shared
  BY <1>0, QuietSteps, PostConstants
<1>2. p # Worker
  BY <1>0, PostConstants DEF CallTypes, WorkerStages
<1>3. MailTypes'
  BY <1>0, <1>2, PostConstants DEF MailTypes, mailVars, CallTypes
<1>4. "user" \in Stages /\ "user" \notin OwnerStages \cup BoxStages \cup WorkerStages
  BY DEF Stages, OwnerStages, BoxStages, SendStages, ReceiveStages, WorkerStages
<1>5. box[p] \in Boxes \cup {NoBox}
  BY <1>0 DEF CallTypes
<1>. QED  BY <1>0, <1>1, <1>2, <1>3, <1>4, <1>5, AwayFromDevice DEF Shared, mailVars

LEMMA PostInvStep ==
  ASSUME PostInv, [PostNext]_postVars  PROVE PostInv'
<1>1. CASE UNCHANGED postVars
  <2>1. KernelTypes' /\ UNCHANGED Shared
    BY <1>1, KernelStutters DEF PostInv, postVars
  <2>. QED  BY <1>1, <2>1, OutsideStep DEF postVars
<1>2. CASE ForkFinishOrHalt \/ KernelStep \/ Preempt
  <2>1. KernelTypes' /\ UNCHANGED Shared
    BY <1>2, QuietSteps DEF PostInv, ForkFinishOrHalt, KernelStep, Preempt, ProgramHalts
  <2>2. UNCHANGED <<callVars, mailVars>>
    BY <1>2 DEF ForkFinishOrHalt, KernelStep, Preempt
  <2>. QED  BY <2>1, <2>2, OutsideStep
<1>3. CASE SendStep
  BY <1>3, GetSendLockInv, SendStepInv, AwaitSentInv, EndSendInv DEF SendStep
<1>4. CASE ReceiveStep
  BY <1>4, GetBoxInv, AwaitMailInv, TakeMailInv, EndBoxInv DEF ReceiveStep
<1>5. CASE WorkerStep
  BY <1>5, AwaitPacketInv, ReceivePacketInv, GetBoxInv, AppendMailInv, EndBoxInv DEF WorkerStep
<1>. QED
  BY <1>1, <1>2, <1>3, <1>4, <1>5, CallInv, StartWorkerInv, CheckPktAvailInv, SendDoneInv
     DEF PostNext, PostStep

LEMMA PostInvSuffices == PostInv => MailTypeOK /\ SendsOneAtATime
<1> SUFFICES ASSUME PostInv PROVE MailTypeOK /\ SendsOneAtATime
  OBVIOUS
<1>1. MailTypeOK
  <2>1. sent \in 0 .. MaxMail
    <3>1. Cardinality({}) = 0 /\ sent + Cardinality({}) <= MaxMail
      BY FewerSenders, FS_EmptySet DEF PostInv, MailTypes
    <3>. QED  BY <3>1, PostConstants DEF PostInv, MailTypes
  <2>. QED  BY <2>1 DEF MailTypeOK, PostInv, CallTypes, MailTypes, Stages
<1>2. ASSUME NEW t \in Threads, stage[t] = "send"
      PROVE  pending[messageSent] = 0 /\ value[messageSent] = 0
  <2>1. ~ \E u \in Threads : stage[u] = "await"
    BY <1>2 DEF PostInv, SendInv, SendersHaveTheLock, OwnerStages
  <2>. QED  BY <2>1, PostConstants DEF PostInv, SendInv, SendIsAwaited, KernelTypes
<1>. QED  BY <1>1, <1>2 DEF SendsOneAtATime

\* Every variable of the post office keeps its type, and no more mails are sent
\* than there are numbers for.
THEOREM MailTypesCorrect == PostSpec => []MailTypeOK
BY PostStarts, PostInvStep, PostInvSuffices, PTL DEF PostSpec

\* Whoever calls Network::Send finds the network at rest, for any number of
\* threads that send at the same time: what the ASSERT on sendBusy means.
THEOREM SendsDoNotOverlap == PostSpec => []SendsOneAtATime
BY PostStarts, PostInvStep, PostInvSuffices, PTL DEF PostSpec

\* The packet in the device's buffer is announced exactly once, whatever is lost
\* and whenever the device polls.
THEOREM PacketsAreAnnounced == PostSpec => []PacketIsAnnounced
<1>1. PostInv => PacketIsAnnounced
  BY DEF PostInv
<1>. QED  BY <1>1, PostStarts, PostInvStep, PTL DEF PostSpec

-----------------------------------------------------------------------------
(***************************************************************************)
(* The post office keeps the kernel's invariant: it calls the operations   *)
(* of Kernel, and its devices do V as an interrupt handler does.           *)
(***************************************************************************)
LEMMA PostKeepsKernel ==
  ASSUME IInv, PostInv, [PostNext]_postVars
  PROVE  IInv'
<1> USE PostConstants
<1>1. CASE Call \/ TakeMail \/ ReceivePacket \/ UNCHANGED postVars
  BY <1>1, NextInvariant DEF Call, TakeMail, ReceivePacket, postVars
<1>2. CASE GetSendLock \/ AwaitSent \/ EndSend \/ AwaitPacket
  BY <1>2, NextInvariant
     DEF GetSendLock, AwaitSent, EndSend, AwaitPacket, Next, SemaphoreStep, LockStep
<1>3. CASE GetBox \/ WaitEnds \/ EndReceive \/ GetBoxToPut \/ EndPut
  <2>1. MyLock \in Locks
    BY <1>3, MyLocks
       DEF GetBox, WaitEnds, EndReceive, GetBoxToPut, EndPut, Is, BoxStages, ReceiveStages
  <2>2. LockStep
    BY <1>3, <2>1 DEF GetBox, WaitEnds, EndReceive, GetBoxToPut, EndPut, LockStep
  <2>. QED  BY <2>2, NextInvariant DEF Next
<1>4. CASE AwaitMail \/ AppendMail
  <2>1. MyArrival \in Conditions
    BY <1>4, MyLocks DEF AwaitMail, AppendMail, Is, BoxStages, ReceiveStages
  <2>. QED  BY <1>4, <2>1, NextInvariant DEF AwaitMail, AppendMail, Next, ConditionStep
<1>5. CASE Send
  <2>1. /\ UNCHANGED <<threadVars, level, oldLevel, semVars, lockVars, condQueue, halted, holding>>
        /\ pending' = [pending EXCEPT ![messageSent] = @ + 1]
    BY <1>5 DEF Send
  <2>2. level \in Levels /\ halted \in BOOLEAN /\ pending \in [Semaphores -> Nat]
    BY DEF IInv, TypeOK
  <2>3. pending' \in [Semaphores -> Nat]
    BY <2>1, <2>2
  <2>. QED  BY <2>1, <2>2, <2>3, FrameInvariant
<1>6. CASE CheckPktAvail
  BY <1>6, DoVInvariant DEF CheckPktAvail, IInv, TypeOK
<1>7. CASE SendDone
  BY <1>7, NextInvariant DEF SendDone, Next, DeviceStep
<1>8. CASE StartWorker
  BY <1>8, NextInvariant DEF StartWorker, Next, ThreadStep
<1>9. CASE ForkFinishOrHalt
  <2>1. CASE Finish \/ \E t \in Threads \ {Worker} : Fork(t)
    BY <2>1, NextInvariant DEF Next, ThreadStep
  <2>2. CASE ProgramHalts
    <3>1. level \in Levels /\ pending \in [Semaphores -> Nat]
      BY DEF IInv, TypeOK
    <3>. QED  BY <2>2, <3>1, FrameInvariant DEF ProgramHalts
  <2>. QED  BY <1>9, <2>1, <2>2 DEF ForkFinishOrHalt, ProgramHalts
<1>10. CASE KernelStep \/ Preempt
  BY <1>10, NextInvariant DEF KernelStep, Preempt, Next, ThreadStep, DeviceStep
<1>. QED  BY <1>1, <1>2, <1>3, <1>4, <1>5, <1>6, <1>7, <1>8, <1>9, <1>10
          DEF PostNext, PostStep, SendStep, ReceiveStep, WorkerStep

-----------------------------------------------------------------------------
(***************************************************************************)
(* No arrival is lost.  Whoever sleeps at a box looks for mail in it, and  *)
(* the threads that look without sleeping are enough for the mails.        *)
(***************************************************************************)
Sleepers(b) == Range(condQueue[NotEmpty[b]])
Looking(b)  == {t \in Threads : stage[t] = "look" /\ box[t] = b}

SleepersLook == \A b \in Boxes : Sleepers(b) \subseteq Looking(b)

MailsAreTaken ==
  \A b \in Boxes :
    condQueue[NotEmpty[b]] # <<>> => Len(messages[b]) <= Cardinality(Looking(b) \ Sleepers(b))

TakersInv == SleepersLook /\ MailsAreTaken

LEMMA TakersSuffice == TakersInv => EveryMailHasATaker
<1>. SUFFICES ASSUME TakersInv, NEW b \in Boxes, condQueue[NotEmpty[b]] # <<>>
              PROVE  LET asleep == condQueue[NotEmpty[b]]
                         coming == {t \in Threads : /\ stage[t] = "look" /\ box[t] = b
                                                    /\ \A i \in DOMAIN asleep : asleep[i] # t} IN
                     Len(messages[b]) <= Cardinality(coming)
  BY DEF EveryMailHasATaker
<1>1. Looking(b) \ Sleepers(b)
        = {t \in Threads : /\ stage[t] = "look" /\ box[t] = b
                           /\ \A i \in DOMAIN condQueue[NotEmpty[b]] : condQueue[NotEmpty[b]][i] # t}
  BY DEF Looking, Sleepers, Range
<1>. QED  BY <1>1 DEF TakersInv, MailsAreTaken

LEMMA LookersAreFinite ==
  ASSUME NEW S, S \subseteq Threads
  PROVE  IsFiniteSet(S) /\ Cardinality(S) \in Nat
BY PostOfficeAssumption, FS_Subset, FS_CardinalityType

\* The steps that nobody stops looking by.
LEMMA NobodyStopsLooking ==
  ASSUME TakersInv, MailTypes, UNCHANGED <<condQueue, messages>>,
         \A t \in Threads : stage[t] = "look" => stage'[t] = "look" /\ box'[t] = box[t]
  PROVE  TakersInv'
<1>1. \A b \in Boxes : Looking(b) \subseteq Looking(b)' /\ Sleepers(b)' = Sleepers(b)
  BY DEF Looking, Sleepers
<1>2. SleepersLook'
  BY <1>1 DEF TakersInv, SleepersLook
<1>3. MailsAreTaken'
  <2>. SUFFICES ASSUME NEW b \in Boxes, condQueue[NotEmpty[b]] # <<>>
                PROVE  Len(messages[b]) <= Cardinality(Looking(b)' \ Sleepers(b)')
    BY DEF MailsAreTaken
  <2>1. Len(messages[b]) <= Cardinality(Looking(b) \ Sleepers(b)) /\ Len(messages[b]) \in Nat
    BY LenProperties DEF TakersInv, MailsAreTaken, MailTypes
  <2>2. Looking(b) \ Sleepers(b) \subseteq Looking(b)' \ Sleepers(b)'
    BY <1>1
  <2>3. Looking(b)' \ Sleepers(b)' \subseteq Threads
    BY DEF Looking
  <2>4. /\ IsFiniteSet(Looking(b)' \ Sleepers(b)')
        /\ Cardinality(Looking(b)' \ Sleepers(b)') \in Nat
        /\ Cardinality(Looking(b) \ Sleepers(b)) \in Nat
    BY <2>2, <2>3, LookersAreFinite
  <2>5. Cardinality(Looking(b) \ Sleepers(b)) <= Cardinality(Looking(b)' \ Sleepers(b)')
    BY <2>2, <2>4, FS_Subset
  <2>. QED  BY <2>1, <2>4, <2>5
<1>. QED  BY <1>2, <1>3 DEF TakersInv

LEMMA TakersInvStep ==
  ASSUME IInv, PostInv, TakersInv, [PostNext]_postVars
  PROVE  TakersInv'
<1>0. /\ currentThread \in Threads /\ CallTypes /\ MailTypes /\ KernelTypes
      /\ \A b \in Boxes : NotEmpty[b] \in Conditions
      /\ \A b, d \in Boxes : NotEmpty[b] = NotEmpty[d] => b = d
      /\ NotEmpty \in [Boxes -> Conditions]
  BY PostConstants, PostOfficeAssumption DEF PostInv, KernelTypes, IsInjective
<1>1. PICK p \in Threads : p = currentThread
  BY <1>0
<1>2. ASSUME UNCHANGED <<condQueue, messages>>, NEW there, GoesTo(there),
             stage[p] = "look" => there = "look"
      PROVE  TakersInv'
  BY <1>0, <1>1, <1>2, NobodyStopsLooking DEF GoesTo, CallTypes
<1>3. ASSUME UNCHANGED <<condQueue, messages>>, NEW there, NEW b, Begins(there, b),
             stage[p] # "look"
      PROVE  TakersInv'
  BY <1>0, <1>1, <1>3, NobodyStopsLooking DEF Begins, CallTypes
<1>4. CASE AwaitMail
  <2>1. /\ p \in Looking(box[p]) /\ messages[box[p]] = <<>> /\ Wait(NotEmpty[box[p]])
        /\ UNCHANGED messages /\ box[p] \in Boxes
        /\ stage' = [stage EXCEPT ![p] = "look"] /\ box' = box
    BY <1>0, <1>1, <1>4
       DEF AwaitMail, Is, BoxIsEmpty, MyArrival, GoesTo, mailVars, Looking, CallTypes, BoxStages, ReceiveStages
  <2>2. PICK b \in Boxes : b = box[p]
    BY <2>1
  <2>3. condQueue' = [condQueue EXCEPT ![NotEmpty[b]] = Append(@, p)]
    BY <1>1, <2>1, <2>2 DEF Wait
  <2>4. \A d \in Boxes : Looking(d)' = Looking(d)
    BY <1>0, <2>1 DEF Looking, CallTypes
  <2>5. /\ Range(Append(condQueue[NotEmpty[b]], p)) = Sleepers(b) \cup {p}
        /\ condQueue'[NotEmpty[b]] = Append(condQueue[NotEmpty[b]], p)
        /\ \A d \in Boxes \ {b} : condQueue'[NotEmpty[d]] = condQueue[NotEmpty[d]]
    BY <1>0, <2>2, <2>3, AppendQueue DEF KernelTypes, Sleepers
  <2>6. SleepersLook'
    BY <2>1, <2>2, <2>4, <2>5 DEF TakersInv, SleepersLook, Sleepers
  <2>7. Cardinality(Looking(b) \ (Sleepers(b) \cup {p})) \in Nat /\ Len(messages[b]) = 0
    <3>1. Looking(b) \ (Sleepers(b) \cup {p}) \subseteq Threads
      BY DEF Looking
    <3>. QED  BY <2>1, <2>2, <3>1, LookersAreFinite
  <2>8. MailsAreTaken'
    <3>. SUFFICES ASSUME NEW d \in Boxes, condQueue'[NotEmpty[d]] # <<>>
                  PROVE  Len(messages[d]) <= Cardinality(Looking(d) \ Range(condQueue'[NotEmpty[d]]))
      BY <2>1, <2>4 DEF MailsAreTaken, Sleepers
    <3>1. CASE d = b
      <4>1. Looking(d) \ Range(condQueue'[NotEmpty[d]]) = Looking(b) \ (Sleepers(b) \cup {p})
        BY <3>1, <2>5
      <4>2. Len(messages[d]) = 0
        BY <3>1, <2>7
      <4>3. Cardinality(Looking(d) \ Range(condQueue'[NotEmpty[d]])) \in Nat
        BY <4>1, <2>7
      <4>. QED  BY <4>2, <4>3
    <3>2. CASE d # b
      BY <3>2, <2>5 DEF TakersInv, MailsAreTaken, Sleepers
    <3>. QED  BY <3>1, <3>2
  <2>. QED  BY <2>6, <2>8 DEF TakersInv
<1>5. CASE AppendMail
  <2>1. /\ p = Worker /\ stage[p] = "append" /\ Signal(NotEmpty[box[p]]) /\ box[p] \in Boxes
        /\ messages' = [messages EXCEPT ![box[p]] = Append(@, parcel)]
        /\ stage' = [stage EXCEPT ![p] = "putEnd"] /\ box' = box /\ parcel \in Mails
    BY <1>0, <1>1, <1>5
       DEF AppendMail, Is, MyArrival, GoesTo, CallTypes, BoxStages, WorkerStages, MailTypes
  <2>2. PICK b \in Boxes : b = box[p]
    BY <2>1
  <2>3. PICK q \in Seq(Threads) : q = condQueue[NotEmpty[b]]
    BY <1>0 DEF KernelTypes
  <2>4. condQueue' = [condQueue EXCEPT ![NotEmpty[b]] = Rest(q)]
    BY <2>1, <2>2, <2>3 DEF Signal
  <2>5. \A d \in Boxes : Looking(d)' = Looking(d)
    BY <1>0, <2>1 DEF Looking, CallTypes
  <2>6. /\ condQueue'[NotEmpty[b]] = Rest(q)
        /\ \A d \in Boxes \ {b} : condQueue'[NotEmpty[d]] = condQueue[NotEmpty[d]]
        /\ messages[b] \in Seq(Mails) /\ messages'[b] = Append(messages[b], parcel)
        /\ \A d \in Boxes \ {b} : messages'[d] = messages[d]
    BY <1>0, <2>1, <2>2, <2>4 DEF KernelTypes, MailTypes
  <2>7. Len(messages'[b]) = Len(messages[b]) + 1 /\ Len(messages[b]) \in Nat
    BY <2>1, <2>6, AppendProperties, LenProperties
  <2>8. IsInjective(q) /\ Sleepers(b) = Range(q)
    BY <1>0, <2>3 DEF IInv, EachThreadInOnePlace, Sleepers
  <2>9. Range(Rest(q)) \subseteq Sleepers(b)
    BY <2>8, FirstRest
  <2>10. SleepersLook'
    BY <2>5, <2>6, <2>9 DEF TakersInv, SleepersLook, Sleepers
  <2>11. ASSUME Rest(q) # <<>>
         PROVE  Len(messages'[b]) <= Cardinality(Looking(b) \ Range(Rest(q)))
    <3>1. q # <<>> /\ Rest(q) = Tail(q)
      BY <2>11 DEF Rest
    <3>2. Head(q) \in Range(q) /\ Range(Tail(q)) = Range(q) \ {Head(q)}
      BY <2>8, <3>1, TailQueue
    <3>3. /\ Head(q) \in Looking(b) /\ Head(q) \notin Looking(b) \ Sleepers(b)
          /\ Looking(b) \ Range(Rest(q)) = (Looking(b) \ Sleepers(b)) \cup {Head(q)}
      BY <2>8, <3>1, <3>2 DEF TakersInv, SleepersLook
    <3>4. IsFiniteSet(Looking(b) \ Sleepers(b)) /\ Cardinality(Looking(b) \ Sleepers(b)) \in Nat
      <4>1. Looking(b) \ Sleepers(b) \subseteq Threads
        BY DEF Looking
      <4>. QED  BY <4>1, LookersAreFinite
    <3>5. Cardinality(Looking(b) \ Range(Rest(q))) = Cardinality(Looking(b) \ Sleepers(b)) + 1
      BY <3>3, <3>4, FS_AddElement
    <3>6. Len(messages[b]) <= Cardinality(Looking(b) \ Sleepers(b))
      BY <2>3, <3>1 DEF TakersInv, MailsAreTaken
    <3>. QED  BY <2>7, <3>4, <3>5, <3>6
  <2>12. MailsAreTaken'
    BY <2>5, <2>6, <2>11 DEF TakersInv, MailsAreTaken, Sleepers
  <2>. QED  BY <2>10, <2>12 DEF TakersInv
<1>6. CASE TakeMail
  <2>1. /\ stage[p] = "look" /\ InProgram /\ messages[box[p]] # <<>> /\ box[p] \in Boxes
        /\ messages' = [messages EXCEPT ![box[p]] = Tail(@)]
        /\ condQueue' = condQueue
        /\ stage' = [stage EXCEPT ![p] = "boxEnd"] /\ box' = box
    BY <1>0, <1>1, <1>6
       DEF TakeMail, Is, BoxIsEmpty, GoesTo, vars, CallTypes, BoxStages, ReceiveStages
  <2>2. PICK b \in Boxes : b = box[p]
    BY <2>1
  <2>3. /\ Looking(b)' = Looking(b) \ {p} /\ p \in Looking(b)
        /\ \A d \in Boxes \ {b} : Looking(d)' = Looking(d)
    BY <1>0, <2>1, <2>2 DEF Looking, CallTypes
  <2>4. \A d \in Boxes : p \notin Sleepers(d) /\ Sleepers(d)' = Sleepers(d)
    BY <1>0, <1>1, <2>1, RunningIsInNoQueue DEF IInv, InProgram, Sleepers
  <2>5. /\ messages[b] \in Seq(Mails) /\ messages[b] # <<>>
        /\ messages'[b] = Tail(messages[b])
        /\ \A d \in Boxes \ {b} : messages'[d] = messages[d]
    BY <1>0, <2>1, <2>2 DEF MailTypes
  <2>6. Len(messages'[b]) = Len(messages[b]) - 1 /\ Len(messages[b]) \in Nat
    BY <2>5, HeadTailProperties, LenProperties
  <2>7. SleepersLook'
    BY <2>3, <2>4 DEF TakersInv, SleepersLook
  <2>8. Cardinality(Looking(b)' \ Sleepers(b)') = Cardinality(Looking(b) \ Sleepers(b)) - 1
        /\ Cardinality(Looking(b) \ Sleepers(b)) \in Nat
    <3>1. Looking(b) \ Sleepers(b) \subseteq Threads
      BY DEF Looking
    <3>2. /\ p \in Looking(b) \ Sleepers(b)
          /\ Looking(b)' \ Sleepers(b)' = (Looking(b) \ Sleepers(b)) \ {p}
      BY <2>3, <2>4
    <3>. QED  BY <3>1, <3>2, LookersAreFinite, FS_RemoveElement
  <2>9. MailsAreTaken'
    <3>. SUFFICES ASSUME NEW d \in Boxes, condQueue[NotEmpty[d]] # <<>>
                  PROVE  Len(messages'[d]) <= Cardinality(Looking(d)' \ Sleepers(d)')
      BY <2>1 DEF MailsAreTaken
    <3>1. Len(messages[d]) <= Cardinality(Looking(d) \ Sleepers(d))
      BY DEF TakersInv, MailsAreTaken
    <3>2. CASE d = b
      <4>1. Len(messages[b]) <= Cardinality(Looking(b) \ Sleepers(b))
        BY <3>1, <3>2
      <4>2. Len(messages'[b]) <= Cardinality(Looking(b)' \ Sleepers(b)')
        BY <4>1, <2>6, <2>8
      <4>. QED  BY <3>2, <4>2
    <3>3. CASE d # b
      <4>1. Looking(d)' = Looking(d) /\ Sleepers(d)' = Sleepers(d) /\ messages'[d] = messages[d]
        BY <2>3, <2>4, <2>5, <3>3
      <4>. QED  BY <3>1, <4>1
    <3>. QED  BY <3>2, <3>3
  <2>. QED  BY <2>7, <2>9 DEF TakersInv
<1>7. CASE Call \/ ReceivePacket
  <2>1. /\ UNCHANGED <<condQueue, messages>> /\ stage[p] # "look"
        /\ \E there, b : Begins(there, b)
    BY <1>1, <1>7 DEF Call, ReceivePacket, Is, vars, mailVars
  <2>. QED  BY <1>3, <2>1
<1>8. CASE EndSend \/ EndReceive \/ EndPut
  <2>1. /\ UNCHANGED <<condQueue, messages>> /\ stage[p] # "look"
        /\ \E there, b : Begins(there, b)
    BY <1>1, <1>8 DEF EndSend, EndReceive, EndPut, Is, Release, mailVars
  <2>. QED  BY <1>3, <2>1
<1>9. CASE GetSendLock \/ GetBox \/ WaitEnds \/ GetBoxToPut
  <2>1. /\ UNCHANGED <<condQueue, messages>>
        /\ \E there : GoesTo(there) /\ (stage[p] = "look" => there = "look")
    BY <1>1, <1>9 DEF GetSendLock, GetBox, WaitEnds, GetBoxToPut, Is, AcquireTakes, AcquireSleeps, mailVars
  <2>. QED  BY <1>2, <2>1
<1>10. CASE Send \/ AwaitSent \/ AwaitPacket \/ StartWorker
  <2>1. /\ UNCHANGED <<condQueue, messages>> /\ stage[p] # "look"
        /\ \E there : GoesTo(there)
    BY <1>1, <1>10 DEF Send, AwaitSent, AwaitPacket, StartWorker, Is, PTakes, PSleeps, Fork, mailVars
  <2>. QED  BY <1>2, <2>1
<1>11. CASE CheckPktAvail \/ SendDone \/ ForkFinishOrHalt \/ KernelStep \/ Preempt
            \/ UNCHANGED postVars
  <2>1. UNCHANGED <<condQueue, messages, stage, box>>
    BY <1>11 DEF CheckPktAvail, SendDone, CheckIfDue, DoV, ForkFinishOrHalt, Finish, Fork, KernelStep,
                 ThreadRoot, YieldReturns, WakeFromIdle, Preempt, Yield, postVars, vars, callVars, mailVars
  <2>. QED  BY <1>0, <2>1, NobodyStopsLooking
<1>. QED  BY <1>4, <1>5, <1>6, <1>7, <1>8, <1>9, <1>10, <1>11
          DEF PostNext, PostStep, SendStep, ReceiveStep, WorkerStep

\* SynchList loses no wake-up: as long as threads sleep at a box, every mail in
\* it has a thread coming for it, for any number of threads and boxes.
THEOREM MailsHaveTakers == PostSpec => []EveryMailHasATaker
<1>1. PostInit => IInv /\ PostInv /\ TakersInv
  <2>. SUFFICES ASSUME PostInit PROVE IInv /\ PostInv /\ TakersInv
    OBVIOUS
  <2>1. IInv /\ PostInv
    BY InitInvariant, PostStarts DEF PostInit
  <2>2. \A b \in Boxes : condQueue[NotEmpty[b]] = <<>>
    BY PostConstants DEF PostInit, Init
  <2>. QED  BY <2>1, <2>2, NoWokenThreads DEF TakersInv, SleepersLook, MailsAreTaken, Sleepers
<1>2. IInv /\ PostInv /\ TakersInv /\ [PostNext]_postVars => (IInv /\ PostInv /\ TakersInv)'
  BY PostKeepsKernel, PostInvStep, TakersInvStep
<1>. QED  BY <1>1, <1>2, TakersSuffice, PTL DEF PostSpec

-----------------------------------------------------------------------------
(***************************************************************************)
(* The mails are in the order in which they were sent: those in a box      *)
(* before the one in the worker's hands, that before the one in the        *)
(* device, and that before those on the wire.                              *)
(***************************************************************************)
Ordered(q)   == \A i, j \in DOMAIN q : i < j => q[i].id < q[j].id
Before(S, T) == \A m \in S, n \in T : m.id < n.id
Hands(x)     == {x} \ {NoMail}

MailsInOrder ==
  /\ Ordered(wire)
  /\ Before(Hands(inbox), Range(wire))
  /\ Before(Hands(parcel), Hands(inbox) \cup Range(wire))
  /\ \A b \in Boxes : /\ Ordered(messages[b])
                      /\ Before(Range(messages[b]), Hands(parcel) \cup Hands(inbox) \cup Range(wire))

MailsAreNumbered ==
  /\ \A m \in Hands(parcel) \cup Hands(inbox) \cup Range(wire) : m.id <= sent
  /\ \A b \in Boxes : \A m \in Range(messages[b]) : m.id <= sent /\ m.to = b

\* The worker has a mail in its hands only on the way to its box.
WorkerBringsMail ==
  parcel # NoMail => stage[Worker] \in {"putLock", "append"} /\ box[Worker] = parcel.to

OrderInv == MailsInOrder /\ MailsAreNumbered /\ WorkerBringsMail

LEMMA RangeOfMails ==
  ASSUME MailTypes
  PROVE  /\ Range(wire) \subseteq Mails
         /\ Hands(inbox) \subseteq Mails /\ Hands(parcel) \subseteq Mails
         /\ \A b \in Boxes : Range(messages[b]) \subseteq Mails
BY DEF MailTypes, Range, Hands

LEMMA OrderedTail ==
  ASSUME NEW q \in Seq(Mails), q # <<>>, Ordered(q)
  PROVE  Ordered(Tail(q)) /\ Before({Head(q)}, Range(Tail(q)))
<1>1. /\ Len(q) \in Nat /\ Len(q) > 0 /\ DOMAIN q = 1 .. Len(q)
      /\ DOMAIN Tail(q) = 1 .. Len(q) - 1
      /\ Head(q) = q[1]
      /\ \A i \in 1 .. Len(q) - 1 : Tail(q)[i] = q[i + 1]
  BY HeadTailProperties, EmptySeq, LenProperties
<1>2. Ordered(Tail(q))
  BY <1>1 DEF Ordered
<1>3. Before({Head(q)}, Range(Tail(q)))
  <2>. SUFFICES ASSUME NEW i \in 1 .. Len(q) - 1 PROVE q[1].id < q[i + 1].id
    BY <1>1 DEF Before, Range
  <2>. QED  BY <1>1 DEF Ordered
<1>. QED  BY <1>2, <1>3

LEMMA OrderedAppend ==
  ASSUME NEW q \in Seq(Mails), NEW m \in Mails, Ordered(q), Before(Range(q), {m})
  PROVE  Ordered(Append(q, m))
<1>1. /\ Len(q) \in Nat /\ DOMAIN q = 1 .. Len(q)
      /\ DOMAIN Append(q, m) = 1 .. Len(q) + 1
      /\ Append(q, m)[Len(q) + 1] = m
      /\ \A i \in 1 .. Len(q) : Append(q, m)[i] = q[i]
  BY AppendProperties, LenProperties
<1>2. \A i \in 1 .. Len(q) : q[i].id < m.id
  BY <1>1 DEF Before, Range
<1>. QED  BY <1>1, <1>2 DEF Ordered

LEMMA NoHands == Hands(NoMail) = {}
BY DEF Hands

\* What the worker's mail needs of a step that leaves the mails alone.
LEMMA MailsStay ==
  ASSUME OrderInv, UNCHANGED mailVars,
         stage[Worker] \in {"putLock", "append"} =>
           stage'[Worker] \in {"putLock", "append"} /\ box'[Worker] = box[Worker]
  PROVE  OrderInv'
<1>1. UNCHANGED <<sent, wire, inbox, parcel, messages>>
  BY DEF mailVars
<1>. QED
  BY <1>1 DEF OrderInv, MailsInOrder, MailsAreNumbered, WorkerBringsMail

\* The mails for box b that are somewhere between Send and Receive.
MailsFor(b) ==
  {m \in Range(messages[b]) \cup Hands(parcel) \cup Hands(inbox) \cup Range(wire) : m.to = b}

LEMMA InTransitIs ==
  ASSUME NEW b \in Boxes
  PROVE  InTransit(b) = {m.id : m \in MailsFor(b)} /\ InTransit(b)' = {m.id : m \in MailsFor(b)'}
BY DEF InTransit, MailsFor, Hands

\* A mail that only moves on is in transit as before.
LEMMA MailMovesOn ==
  ASSUME UNCHANGED <<sent, got>>, \A b \in Boxes : MailsFor(b)' = MailsFor(b)
  PROVE  UNCHANGED Service!serviceVars
<1>1. \A b \in Boxes : InTransit(b)' = InTransit(b)
  BY InTransitIs
<1>. QED  BY <1>1 DEF Service!serviceVars

LEMMA PacketMovesOn ==
  ASSUME MailTypes, OrderInv, CheckPktAvail
  PROVE  OrderInv' /\ UNCHANGED Service!serviceVars
<1> USE NoHands
<1>1. /\ inbox = NoMail /\ wire # <<>> /\ inbox' = Head(wire) /\ wire' = Tail(wire)
      /\ UNCHANGED <<callVars, sent, parcel, messages, got>>
  BY DEF CheckPktAvail
<1>2. PICK m : m = Head(wire)
  OBVIOUS
<1>3. wire \in Seq(Mails) /\ m \in Mails /\ m # NoMail /\ Range(wire) = Range(wire') \cup {m}
  BY <1>1, <1>2, TailQueue, PostConstants DEF MailTypes
<1>4. Hands(inbox') = {m} /\ Hands(inbox) = {} /\ Hands(inbox)' = {m}
  BY <1>1, <1>2, <1>3 DEF Hands
<1>5. Ordered(wire') /\ Before({m}, Range(wire'))
  BY <1>1, <1>2, <1>3, OrderedTail DEF OrderInv, MailsInOrder
<1>6. Hands(inbox') \cup Range(wire') = Hands(inbox) \cup Range(wire) /\ Hands(parcel') = Hands(parcel)
  BY <1>1, <1>3, <1>4
<1>7. MailsInOrder'
  <2>1. \A b \in Boxes : /\ Ordered(messages'[b])
                         /\ Before(Range(messages'[b]), Hands(parcel') \cup Hands(inbox') \cup Range(wire'))
    BY <1>1, <1>6 DEF OrderInv, MailsInOrder, Before
  <2>2. Before(Hands(parcel'), Hands(inbox') \cup Range(wire'))
    BY <1>1, <1>6 DEF OrderInv, MailsInOrder
  <2>3. Before(Hands(inbox'), Range(wire'))
    BY <1>4, <1>5
  <2>. QED  BY <1>5, <2>1, <2>2, <2>3 DEF MailsInOrder, Hands
<1>8. MailsAreNumbered'
  BY <1>1, <1>3, <1>4 DEF OrderInv, MailsAreNumbered, Hands
<1>9. WorkerBringsMail'
  BY <1>1 DEF OrderInv, WorkerBringsMail, callVars
<1>10. \A b \in Boxes : MailsFor(b)' = MailsFor(b)
  BY <1>1, <1>3, <1>4 DEF MailsFor, Hands
<1>. QED  BY <1>1, <1>7, <1>8, <1>9, <1>10, MailMovesOn DEF OrderInv

LEMMA ParcelMovesOn ==
  ASSUME PostInv, OrderInv, ReceivePacket
  PROVE  OrderInv' /\ UNCHANGED Service!serviceVars
<1> USE NoHands
<1>0. PICK p \in Threads : p = currentThread
  BY DEF PostInv, KernelTypes
<1>1. /\ stage[p] = "receive" /\ inbox # NoMail /\ parcel' = inbox /\ inbox' = NoMail
      /\ UNCHANGED <<sent, wire, messages, got>> /\ CallTypes /\ MailTypes
      /\ stage' = [stage EXCEPT ![p] = "putLock"] /\ box' = [box EXCEPT ![p] = inbox.to]
  BY <1>0 DEF ReceivePacket, Is, Begins, PostInv
<1>2. p = Worker
  BY <1>1 DEF CallTypes, WorkerStages
<1>3. parcel = NoMail
  BY <1>1, <1>2 DEF OrderInv, WorkerBringsMail
<1>4. /\ Hands(parcel) = {} /\ Hands(parcel)' = Hands(inbox) /\ Hands(inbox)' = {}
      /\ Hands(parcel') = Hands(inbox) /\ Hands(inbox') = {}
  BY <1>1, <1>3 DEF Hands
<1>5. MailsInOrder'
  BY <1>1, <1>4 DEF OrderInv, MailsInOrder, Before
<1>6. MailsAreNumbered'
  BY <1>1, <1>4 DEF OrderInv, MailsAreNumbered
<1>7. WorkerBringsMail'
  BY <1>1, <1>2 DEF WorkerBringsMail, CallTypes
<1>8. \A b \in Boxes : MailsFor(b)' = MailsFor(b)
  BY <1>1, <1>4 DEF MailsFor
<1>. QED  BY <1>1, <1>5, <1>6, <1>7, <1>8, MailMovesOn DEF OrderInv

LEMMA MailGetsIntoBox ==
  ASSUME PostInv, OrderInv, AppendMail
  PROVE  OrderInv' /\ UNCHANGED Service!serviceVars
<1> USE NoHands
<1>0. PICK p \in Threads : p = currentThread
  BY DEF PostInv, KernelTypes
<1>1. /\ stage[p] = "append" /\ parcel' = NoMail
      /\ UNCHANGED <<sent, wire, inbox, got>> /\ CallTypes /\ MailTypes
      /\ messages' = [messages EXCEPT ![box[p]] = Append(@, parcel)]
  BY <1>0 DEF AppendMail, Is, GoesTo, PostInv
<1>2. p = Worker
  BY <1>1 DEF CallTypes, WorkerStages
<1>3. PICK m \in Mails : m = parcel
  BY <1>1, <1>2 DEF MailTypes
<1>4. /\ Hands(parcel) = {m} /\ Hands(parcel)' = {} /\ Hands(parcel') = {} /\ m.to = box[p]
      /\ m.to \in Boxes
  BY <1>1, <1>2, <1>3, PostConstants DEF Hands, OrderInv, WorkerBringsMail, Mails
<1>5. PICK c \in Boxes : c = m.to
  BY <1>4
<1>6. /\ messages'[c] = Append(messages[c], m) /\ messages[c] \in Seq(Mails)
      /\ \A b \in Boxes \ {c} : messages'[b] = messages[b]
  BY <1>1, <1>3, <1>4, <1>5 DEF MailTypes
<1>7. Range(messages'[c]) = Range(messages[c]) \cup {m}
  BY <1>6, AppendQueue
<1>8. Ordered(messages'[c])
  <2>1. Ordered(messages[c]) /\ Before(Range(messages[c]), {m})
    BY <1>4 DEF OrderInv, MailsInOrder, Before
  <2>. QED  BY <1>6, <2>1, OrderedAppend
<1>9. MailsInOrder'
  <2>1. Before({m}, Hands(inbox) \cup Range(wire))
    BY <1>4 DEF OrderInv, MailsInOrder
  <2>2. ASSUME NEW b \in Boxes
        PROVE  Before(Range(messages'[b]), Hands(inbox) \cup Range(wire))
    BY <1>6, <1>7, <2>1 DEF OrderInv, MailsInOrder, Before
  <2>3. \A b \in Boxes : Ordered(messages'[b])
    BY <1>6, <1>8 DEF OrderInv, MailsInOrder
  <2>. QED  BY <1>1, <1>4, <2>2, <2>3 DEF OrderInv, MailsInOrder, Before
<1>10. MailsAreNumbered'
  <2>1. m.id <= sent
    BY <1>4 DEF OrderInv, MailsAreNumbered
  <2>. QED  BY <1>1, <1>4, <1>5, <1>6, <1>7, <2>1 DEF OrderInv, MailsAreNumbered
<1>11. WorkerBringsMail'
  BY <1>1 DEF WorkerBringsMail
<1>12. \A b \in Boxes : MailsFor(b)' = MailsFor(b)
  BY <1>1, <1>4, <1>5, <1>6, <1>7 DEF MailsFor
<1>. QED  BY <1>1, <1>9, <1>10, <1>11, <1>12, MailMovesOn DEF OrderInv

LEMMA SendPosts ==
  ASSUME PostInv, OrderInv, Send
  PROVE  OrderInv' /\ [Service!Next]_(Service!serviceVars)
<1> DEFINE n == sent + 1
<1>0. PICK p \in Threads : p = currentThread
  BY DEF PostInv, KernelTypes
<1>1. PICK m : m = [id |-> n, to |-> box[p]]
  OBVIOUS
<1>2. /\ stage[p] = "send" /\ sent' = n /\ CallTypes /\ MailTypes
      /\ wire' \in {wire, Append(wire, m)}
      /\ UNCHANGED <<inbox, parcel, messages, got>>
      /\ stage' = [stage EXCEPT ![p] = "await"] /\ box' = box
  BY <1>0, <1>1 DEF Send, Is, GoesTo, PostInv
<1>3. p # Worker /\ box[p] \in Boxes /\ sent \in Nat
  BY <1>2, PostConstants DEF CallTypes, MailTypes, WorkerStages, BoxStages, SendStages
<1>4. sent < MaxMail
  <2>1. PostInv'
    BY SendStepInv
  <2>2. PostInv' => MailTypeOK'
    BY PostInvSuffices, PTL
  <2>3. n \in 0 .. MaxMail
    BY <1>2, <2>1, <2>2 DEF MailTypeOK
  <2>. QED  BY <1>3, <2>3, PostConstants
<1>5. PICK c \in Boxes : c = box[p]
  BY <1>3
<1>6. m \in Mails /\ m.id = n /\ m.to = c
  BY <1>1, <1>3, <1>4, <1>5, PostConstants DEF Mails
<1>7. WorkerBringsMail'
  BY <1>2, <1>3 DEF OrderInv, WorkerBringsMail, CallTypes
<1>8. \A S \in SUBSET Mails : (\A x \in S : x.id <= sent) => Before(S, {m}) /\ \A x \in S : x.id <= n
  BY <1>3, <1>6, PostConstants DEF Before, Mails
<1>9. CASE wire' = wire
  <2>1. MailsInOrder'
    BY <1>2, <1>9 DEF OrderInv, MailsInOrder
  <2>2. MailsAreNumbered'
    BY <1>2, <1>8, <1>9, RangeOfMails DEF OrderInv, MailsAreNumbered
  <2>3. \A b \in Boxes : MailsFor(b)' = MailsFor(b)
    BY <1>2, <1>9 DEF MailsFor
  <2>4. Service!Lose
    BY <1>2, <2>3, InTransitIs DEF Service!Lose
  <2>. QED  BY <1>4, <1>7, <2>1, <2>2, <2>4 DEF OrderInv, Service!Next
<1>10. CASE wire' = Append(wire, m)
  <2>1. Range(wire') = Range(wire) \cup {m} /\ wire \in Seq(Mails)
    BY <1>2, <1>6, <1>10, AppendQueue DEF MailTypes
  <2>2. /\ Before(Range(wire), {m}) /\ Before(Hands(inbox), {m}) /\ Before(Hands(parcel), {m})
        /\ \A b \in Boxes : Before(Range(messages[b]), {m})
    BY <1>2, <1>8, RangeOfMails DEF OrderInv, MailsAreNumbered
  <2>3. Ordered(wire')
    BY <1>6, <1>10, <2>1, <2>2, OrderedAppend DEF OrderInv, MailsInOrder
  <2>4. MailsInOrder'
    BY <1>2, <2>1, <2>2, <2>3 DEF OrderInv, MailsInOrder, Before
  <2>5. MailsAreNumbered'
    <3>1. \A x \in Hands(parcel) \cup Hands(inbox) \cup Range(wire') : x.id <= n
      <4> DEFINE S == Hands(parcel) \cup Hands(inbox) \cup Range(wire)
      <4>1. S \subseteq Mails /\ \A x \in S : x.id <= sent
        BY <1>2, RangeOfMails DEF OrderInv, MailsAreNumbered
      <4>2. (\A x \in S : x.id <= n) /\ n <= n
        BY <1>3, <1>8, <4>1
      <4>. QED  BY <1>6, <2>1, <4>2
    <3>2. \A b \in Boxes : \A x \in Range(messages[b]) : x.id <= n /\ x.to = b
      BY <1>2, <1>8, RangeOfMails DEF OrderInv, MailsAreNumbered
    <3>. QED  BY <1>2, <3>1, <3>2 DEF MailsAreNumbered
  <2>6. MailsFor(c)' = MailsFor(c) \cup {m} /\ \A b \in Boxes \ {c} : MailsFor(b)' = MailsFor(b)
    BY <1>2, <1>6, <2>1 DEF MailsFor
  <2>7. InTransit(c)' = InTransit(c) \cup {n} /\ \A b \in Boxes \ {c} : InTransit(b)' = InTransit(b)
    BY <1>6, <2>6, InTransitIs
  <2>8. Service!Post(c)
    BY <1>2, <2>7 DEF Service!Post
  <2>. QED  BY <1>4, <1>7, <2>4, <2>5, <2>8 DEF OrderInv, Service!Next
<1>. QED  BY <1>2, <1>9, <1>10

LEMMA TakeTakesTheOldest ==
  ASSUME PostInv, OrderInv, TakeMail
  PROVE  OrderInv' /\ [Service!Next]_(Service!serviceVars)
<1>0. PICK p \in Threads : p = currentThread
  BY DEF PostInv, KernelTypes
<1>1. /\ stage[p] = "look" /\ messages[box[p]] # <<>> /\ CallTypes /\ MailTypes
      /\ UNCHANGED <<sent, wire, inbox, parcel>>
      /\ got' = [got EXCEPT ![box[p]] = Head(messages[box[p]]).id]
      /\ messages' = [messages EXCEPT ![box[p]] = Tail(@)]
      /\ stage' = [stage EXCEPT ![p] = "boxEnd"] /\ box' = box
  BY <1>0 DEF TakeMail, Is, GoesTo, BoxIsEmpty, PostInv
<1>2. p # Worker /\ box[p] \in Boxes
  BY <1>1 DEF CallTypes, WorkerStages, BoxStages, ReceiveStages
<1>3. PICK c \in Boxes : c = box[p]
  BY <1>2
<1>4. PICK m : m = Head(messages[c])
  OBVIOUS
<1>5. /\ messages[c] \in Seq(Mails) /\ messages[c] # <<>> /\ messages'[c] = Tail(messages[c])
      /\ \A b \in Boxes \ {c} : messages'[b] = messages[b]
      /\ got' = [got EXCEPT ![c] = m.id]
  BY <1>1, <1>3, <1>4 DEF MailTypes
<1>6. m \in Mails /\ Range(messages[c]) = Range(messages'[c]) \cup {m} /\ m.to = c
  BY <1>3, <1>4, <1>5, TailQueue DEF OrderInv, MailsAreNumbered
<1>7. Ordered(messages'[c]) /\ Before({m}, Range(messages'[c]))
  BY <1>4, <1>5, OrderedTail DEF OrderInv, MailsInOrder
<1>8. MailsInOrder'
  BY <1>1, <1>5, <1>6, <1>7 DEF OrderInv, MailsInOrder, Before
<1>9. MailsAreNumbered'
  BY <1>1, <1>5, <1>6 DEF OrderInv, MailsAreNumbered
<1>10. WorkerBringsMail'
  BY <1>1, <1>2 DEF OrderInv, WorkerBringsMail, CallTypes
<1>11. \A x \in MailsFor(c)' : x \in Mails /\ m.id < x.id
  BY <1>1, <1>6, <1>7, RangeOfMails DEF MailsFor, OrderInv, MailsInOrder, Before
<1>12. /\ MailsFor(c) = MailsFor(c)' \cup {m}
       /\ \A b \in Boxes \ {c} : MailsFor(b)' = MailsFor(b)
  BY <1>1, <1>5, <1>6 DEF MailsFor
<1>13. m.id \in Nat /\ \A x \in MailsFor(c)' : x.id \in Nat
  BY <1>6, <1>11, PostConstants DEF Mails
<1>14. /\ InTransit(c)' = InTransit(c) \ {m.id} /\ m.id \in InTransit(c)
       /\ \A other \in InTransit(c) : m.id <= other
  <2>1. /\ InTransit(c) = {x.id : x \in MailsFor(c)' \cup {m}}
        /\ InTransit(c)' = {x.id : x \in MailsFor(c)'}
    BY <1>12, InTransitIs
  <2>2. \A x \in MailsFor(c)' : x.id \in Nat /\ m.id < x.id
    BY <1>11, <1>13
  <2>. QED  BY <1>13, <2>1, <2>2
<1>15. \A b \in Boxes \ {c} : InTransit(b)' = InTransit(b)
  BY <1>12, InTransitIs
<1>16. Service!Take(c)
  <2> DEFINE transit == [b \in Boxes |-> InTransit(b)]
  <2>1. transit' = [transit EXCEPT ![c] = @ \ {m.id}]
    BY <1>14, <1>15
  <2>. QED  BY <1>1, <1>5, <1>14, <2>1 DEF Service!Take
<1>. QED  BY <1>8, <1>9, <1>10, <1>16 DEF OrderInv, Service!Next

LEMMA MailsStep ==
  ASSUME PostInv, OrderInv, [PostNext]_postVars
  PROVE  OrderInv' /\ [Service!Next]_(Service!serviceVars)
<1>0. /\ currentThread \in Threads /\ CallTypes /\ MailTypes
  BY DEF PostInv, KernelTypes
<1>1. PICK p \in Threads : p = currentThread
  BY <1>0
<1>2. CASE CheckPktAvail \/ ReceivePacket \/ AppendMail \/ Send \/ TakeMail
  BY <1>0, <1>2, PacketMovesOn, ParcelMovesOn, MailGetsIntoBox, SendPosts, TakeTakesTheOldest
\* The other steps leave the mails alone.
<1>3. ASSUME UNCHANGED mailVars,
             stage[Worker] \in {"putLock", "append"} =>
               stage'[Worker] \in {"putLock", "append"} /\ box'[Worker] = box[Worker]
      PROVE  OrderInv' /\ [Service!Next]_(Service!serviceVars)
  <2>1. \A b \in Boxes : MailsFor(b)' = MailsFor(b)
    BY <1>3 DEF mailVars, MailsFor
  <2>. QED  BY <1>3, <2>1, MailsStay, MailMovesOn DEF mailVars
<1>4. ASSUME UNCHANGED mailVars, NEW there, GoesTo(there),
             stage[p] \in {"putLock", "append"} => there \in {"putLock", "append"}
      PROVE  OrderInv' /\ [Service!Next]_(Service!serviceVars)
  BY <1>0, <1>1, <1>3, <1>4, PostConstants DEF GoesTo, CallTypes
<1>5. ASSUME UNCHANGED mailVars, NEW there, NEW b, Begins(there, b),
             stage[p] \notin {"putLock", "append"}
      PROVE  OrderInv' /\ [Service!Next]_(Service!serviceVars)
  BY <1>0, <1>1, <1>3, <1>5, PostConstants DEF Begins, CallTypes
<1>6. CASE Call \/ EndSend \/ EndReceive \/ EndPut
  <2>1. /\ UNCHANGED mailVars /\ stage[p] \notin {"putLock", "append"}
        /\ \E there, b : Begins(there, b)
    BY <1>1, <1>6 DEF Call, EndSend, EndReceive, EndPut, Is
  <2>. QED  BY <1>5, <2>1
<1>7. CASE GetSendLock \/ AwaitSent \/ GetBox \/ WaitEnds \/ AwaitMail \/ AwaitPacket \/ StartWorker
  <2>1. UNCHANGED mailVars /\ stage[p] \notin {"putLock", "append"} /\ \E there : GoesTo(there)
    BY <1>1, <1>7 DEF GetSendLock, AwaitSent, GetBox, WaitEnds, AwaitMail, AwaitPacket, StartWorker, Is
  <2>. QED  BY <1>4, <2>1
<1>8. CASE GetBoxToPut
  <2>1. UNCHANGED mailVars /\ \E there \in {"putLock", "append"} : GoesTo(there)
    BY <1>8 DEF GetBoxToPut
  <2>. QED  BY <1>4, <2>1
<1>9. CASE SendDone \/ ForkFinishOrHalt \/ KernelStep \/ Preempt \/ UNCHANGED postVars
  <2>1. UNCHANGED <<callVars, mailVars>>
    BY <1>9 DEF SendDone, ForkFinishOrHalt, KernelStep, Preempt, postVars
  <2>. QED  BY <1>3, <2>1 DEF callVars
<1>. QED  BY <1>2, <1>6, <1>7, <1>8, <1>9
          DEF PostNext, PostStep, SendStep, ReceiveStep, WorkerStep

\* The threads see what MailService promises, for any number of mails, boxes and
\* threads: a mail that is not lost on the wire comes out of its own box once,
\* and the mails of a box come out in the order in which they were sent.
THEOREM PostOfficeImplementsMailService == PostSpec => ImplementsMailService
<1>1. PostInit => PostInv /\ OrderInv /\ Service!Init
  <2>. SUFFICES ASSUME PostInit PROVE PostInv /\ OrderInv /\ Service!Init
    OBVIOUS
  <2>1. /\ wire = <<>> /\ sent = 0 /\ inbox = NoMail /\ parcel = NoMail
        /\ messages = [b \in Boxes |-> <<>>] /\ got = [b \in Boxes |-> 0]
    BY DEF PostInit
  <2>2. Range(wire) = {} /\ \A b \in Boxes : Range(messages[b]) = {}
    BY <2>1 DEF Range
  <2>3. OrderInv
    BY <2>1, <2>2, NoHands
       DEF OrderInv, MailsInOrder, MailsAreNumbered, WorkerBringsMail, Ordered, Before
  <2>4. \A b \in Boxes : InTransit(b) = {}
    BY <2>1, <2>2, NoHands, InTransitIs DEF MailsFor
  <2>. QED  BY <2>1, <2>3, <2>4, PostStarts DEF Service!Init
<1>2. PostInv /\ OrderInv /\ [PostNext]_postVars
        => PostInv' /\ OrderInv' /\ [Service!Next]_(Service!serviceVars)
  BY PostInvStep, MailsStep
<1>. QED  BY <1>1, <1>2, PTL DEF PostSpec, ImplementsMailService, Service!Spec
=============================================================================
