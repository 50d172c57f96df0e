----------------------------- MODULE PostOffice -----------------------------
(***************************************************************************)
(* The post office of one machine (network/post.cc), its mail boxes        *)
(* (threads/synchlist.h) and the network device below it                   *)
(* (machine/network.cc): threads send and receive mail, the postal worker  *)
(* moves what arrives from the device's one buffer into the boxes.  It     *)
(* runs on Kernel.  The machine sends to itself, so that every packet can  *)
(* be followed from Send to Receive; a packet may be lost on its way.      *)
(***************************************************************************)
EXTENDS Kernel

CONSTANTS Worker,     \* the postal worker
          sendLock, messageSent, messageAvailable,
          Boxes,
          BoxLock, NotEmpty,  \* SynchList::lock and SynchList::listEmpty of a box
          NoBox,      \* the box of a thread that is in no call
          NoMail,     \* no packet in a buffer
          MaxMail,    \* bound: mails sent
          Preemptive  \* nachos -rs: a thread may be made to yield

ASSUME PostOfficeAssumption ==
  /\ IsFiniteSet(Threads)
  /\ Worker \in Threads \ {Main}
  /\ {messageSent, messageAvailable} \subseteq Semaphores
  /\ messageSent # messageAvailable
  /\ InitialValue[messageSent] = 0 /\ InitialValue[messageAvailable] = 0
  /\ sendLock \in Locks
  /\ BoxLock \in [Boxes -> Locks \ {sendLock}] /\ IsInjective(BoxLock)
  /\ NotEmpty \in [Boxes -> Conditions] /\ IsInjective(NotEmpty)
  /\ \A b \in Boxes : ConditionLock[NotEmpty[b]] = BoxLock[b]
  /\ MaxMail \in Nat
  /\ NoBox \notin Boxes
  /\ NoMail \notin [id : Nat, to : Boxes]
  /\ Preemptive \in BOOLEAN

VARIABLES
  stage,    \* where a thread is in Send, Receive or PostalDelivery
  box,      \* the box of its call
  sent,     \* how many mails Network::Send has seen; it numbers them
  wire,     \* the socket: what has been sent and not read from it
  inbox,    \* Network::inHdr and inbox: one packet, or NoMail
  parcel,   \* what the postal worker has in its hands
  messages, \* MailBox::messages
  got       \* history: the mail last taken out of a box

callVars == <<stage, box>>
mailVars == <<sent, wire, inbox, parcel, messages, got>>
postVars == <<vars, callVars, mailVars>>

Mails == [id : 1 .. MaxMail, to : Boxes]

SendStages    == {"sendLock", "send", "await", "sendEnd"}
ReceiveStages == {"boxLock", "look", "boxEnd"}
WorkerStages  == {"available", "receive", "putLock", "append", "putEnd"}

PostInit ==
  /\ Init
  /\ stage = [t \in Threads |-> CASE t = Main   -> "boot"
                                  [] t = Worker -> "available"
                                  [] OTHER      -> "user"]
  /\ box = [t \in Threads |-> NoBox]
  /\ sent = 0
  /\ wire = <<>>
  /\ inbox = NoMail
  /\ parcel = NoMail
  /\ messages = [b \in Boxes |-> <<>>]
  /\ got = [b \in Boxes |-> 0]

-----------------------------------------------------------------------------
\* The running thread is at "here" and goes on to "there".
Is(here) == stage[currentThread] = here

GoesTo(there) ==
  /\ stage' = [stage EXCEPT ![currentThread] = there]
  /\ UNCHANGED box

\* It begins with box b, or is done with its box.
Begins(there, b) ==
  /\ stage' = [stage EXCEPT ![currentThread] = there]
  /\ box' = [box EXCEPT ![currentThread] = b]

\* The lock of the box the running thread is at, and what it may wait for.
MyLock   == BoxLock[box[currentThread]]
MyArrival == NotEmpty[box[currentThread]]

-----------------------------------------------------------------------------
(***************************************************************************)
(* The network device                                                      *)
(***************************************************************************)

\* An interrupt comes from OneTick or from Idle.
Interrupts == Idle \/ (InProgram /\ level = "IntOn")

\* Mutant of CheckPktAvail: it reads a packet over the one in the buffer.
CheckPktAvailBlindly ==
  /\ Interrupts
  /\ wire # <<>>
  /\ inbox' = Head(wire)
  /\ wire' = Tail(wire)
  /\ DoV(messageAvailable)
  /\ UNCHANGED <<pending, callVars, sent, parcel, messages, got>>

\* Network::CheckPktAvail, which polls the socket forever: it reads a packet
\* into the free buffer, and IncomingPacket does messageAvailable->V().
CheckPktAvail ==
  /\ Interrupts
  /\ inbox = NoMail
  /\ wire # <<>>
  /\ inbox' = Head(wire)
  /\ wire' = Tail(wire)
  /\ DoV(messageAvailable)
  /\ UNCHANGED <<pending, callVars, sent, parcel, messages, got>>

\* Network::SendDone: PacketSent does messageSent->V().
SendDone ==
  /\ CheckIfDue(messageSent)
  /\ UNCHANGED <<callVars, mailVars>>

-----------------------------------------------------------------------------
(***************************************************************************)
(* PostOffice::Send                                                        *)
(***************************************************************************)

\* The threads whose mail has still to get its number.
Senders == {t \in Threads : stage[t] \in {"sendLock", "send"}}

\* A thread calls Send or Receive for a box.
Call ==
  /\ InProgram
  /\ Is("user")
  /\ \E b \in Boxes, there \in {"sendLock", "boxLock"} :
       /\ there = "sendLock" => sent + Cardinality(Senders) < MaxMail
       /\ Begins(there, b)
  /\ UNCHANGED <<vars, mailVars>>

\* sendLock->Acquire().
GetSendLock ==
  /\ Is("sendLock")
  /\ \/ AcquireTakes(sendLock) /\ GoesTo("send")
     \/ AcquireSleeps(sendLock) /\ GoesTo("sendLock")
  /\ UNCHANGED mailVars

\* Network::Send: the interrupt of the end is scheduled whether the packet is
\* lost or not.
Send ==
  LET mail == [id |-> sent + 1, to |-> box[currentThread]] IN
  /\ Is("send") /\ InProgram
  /\ sent' = sent + 1
  /\ wire' \in {wire, Append(wire, mail)}
  /\ pending' = [pending EXCEPT ![messageSent] = @ + 1]
  /\ GoesTo("await")
  /\ UNCHANGED <<threadVars, level, oldLevel, semVars, lockVars, condQueue, halted, holding,
                 inbox, parcel, messages, got>>

\* Mutant of AwaitSent: Send does not wait for its interrupt.
DoesNotAwait ==
  /\ Is("await") /\ InProgram
  /\ GoesTo("sendEnd")
  /\ UNCHANGED <<vars, mailVars>>

\* messageSent->P().
AwaitSent ==
  /\ Is("await")
  /\ \/ PTakes(messageSent) /\ GoesTo("sendEnd")
     \/ PSleeps(messageSent) /\ GoesTo("await")
  /\ UNCHANGED mailVars

\* sendLock->Release().
EndSend ==
  /\ Is("sendEnd")
  /\ Release(sendLock)
  /\ Begins("user", NoBox)
  /\ UNCHANGED mailVars

-----------------------------------------------------------------------------
(***************************************************************************)
(* PostOffice::Receive, MailBox::Get, SynchList::Remove                    *)
(***************************************************************************)

\* lock->Acquire().
GetBox ==
  /\ Is("boxLock")
  /\ \/ AcquireTakes(MyLock) /\ GoesTo("look")
     \/ AcquireSleeps(MyLock) /\ GoesTo("boxLock")
  /\ UNCHANGED mailVars

BoxIsEmpty == messages[box[currentThread]] = <<>>

\* A thread that Wait let go asks for the lock again, at the end of Wait.
WaitEnds ==
  /\ Is("look")
  /\ BackIn("Wait", MyArrival) \/ BackIn("Acquire", MyLock)
  /\ AcquireTakes(MyLock) \/ AcquireSleeps(MyLock)
  /\ GoesTo("look")
  /\ UNCHANGED mailVars

\* while (list->IsEmpty()) listEmpty->Wait(lock).
AwaitMail ==
  /\ Is("look")
  /\ BoxIsEmpty
  /\ Wait(MyArrival)
  /\ GoesTo("look")
  /\ UNCHANGED mailVars

\* list->Remove().
TakeMail ==
  LET b == box[currentThread] IN
  /\ Is("look") /\ InProgram
  /\ ~BoxIsEmpty
  /\ got' = [got EXCEPT ![b] = Head(messages[b]).id]
  /\ messages' = [messages EXCEPT ![b] = Tail(@)]
  /\ GoesTo("boxEnd")
  /\ UNCHANGED <<vars, sent, wire, inbox, parcel>>

\* lock->Release(), and the return with the mail.
EndReceive ==
  /\ Is("boxEnd")
  /\ Release(MyLock)
  /\ Begins("user", NoBox)
  /\ UNCHANGED mailVars

-----------------------------------------------------------------------------
(***************************************************************************)
(* PostOffice::PostalDelivery, MailBox::Put, SynchList::Append             *)
(***************************************************************************)

\* messageAvailable->P().
AwaitPacket ==
  /\ Is("available")
  /\ \/ PTakes(messageAvailable) /\ GoesTo("receive")
     \/ PSleeps(messageAvailable) /\ GoesTo("available")
  /\ UNCHANGED mailVars

\* Mutant of ReceivePacket: Network::Receive leaves inHdr.length as it is.
ReceivePacketLeavesIt ==
  /\ Is("receive") /\ InProgram
  /\ parcel' = inbox
  /\ Begins("putLock", inbox.to)
  /\ UNCHANGED <<vars, sent, wire, inbox, messages, got>>

\* Network::Receive empties the buffer.  The ASSERT that the box exists is that
\* inbox is a mail.
ReceivePacket ==
  /\ Is("receive") /\ InProgram
  /\ inbox # NoMail
  /\ parcel' = inbox
  /\ inbox' = NoMail
  /\ Begins("putLock", inbox.to)
  /\ UNCHANGED <<vars, sent, wire, messages, got>>

\* lock->Acquire().
GetBoxToPut ==
  /\ Is("putLock")
  /\ \/ AcquireTakes(MyLock) /\ GoesTo("append")
     \/ AcquireSleeps(MyLock) /\ GoesTo("putLock")
  /\ UNCHANGED mailVars

\* Mutant of AppendMail: a waiter is woken only when the list was empty.
AppendMailWakesAtEmpty ==
  LET b == box[currentThread] IN
  /\ Is("append") /\ InProgram
  /\ IF messages[b] = <<>> THEN Signal(MyArrival) ELSE UNCHANGED vars
  /\ messages' = [messages EXCEPT ![b] = Append(@, parcel)]
  /\ parcel' = NoMail
  /\ GoesTo("putEnd")
  /\ UNCHANGED <<sent, wire, inbox, got>>

\* list->Append(item) and listEmpty->Signal(lock).
AppendMail ==
  LET b == box[currentThread] IN
  /\ Is("append")
  /\ Signal(MyArrival)
  /\ messages' = [messages EXCEPT ![b] = Append(@, parcel)]
  /\ parcel' = NoMail
  /\ GoesTo("putEnd")
  /\ UNCHANGED <<sent, wire, inbox, got>>

\* lock->Release().
EndPut ==
  /\ Is("putEnd")
  /\ Release(MyLock)
  /\ Begins("available", NoBox)
  /\ UNCHANGED mailVars

-----------------------------------------------------------------------------
\* The constructor of PostOffice ends by forking the postal worker.
StartWorker ==
  /\ Is("boot")
  /\ Fork(Worker)
  /\ GoesTo("user")
  /\ UNCHANGED mailVars

\* What a thread does outside the post office; MailTest ends in Halt.
ForkFinishOrHalt ==
  /\ Is("user")
  /\ \/ Finish
     \/ \E t \in Threads \ {Worker} : Fork(t)
     \/ /\ InProgram
        /\ halted' = TRUE
        /\ UNCHANGED <<threadVars, level, oldLevel, semVars, lockVars, condQueue,
                       pending, holding>>
  /\ UNCHANGED <<callVars, mailVars>>

\* The time slice.
Preempt ==
  /\ Preemptive /\ level = "IntOn"
  /\ Yield
  /\ UNCHANGED <<callVars, mailVars>>

\* What the kernel does by itself.
KernelStep ==
  /\ ThreadRoot \/ YieldReturns \/ WakeFromIdle
  /\ UNCHANGED <<callVars, mailVars>>

SendStep    == GetSendLock \/ Send \/ AwaitSent \/ EndSend
ReceiveStep == GetBox \/ WaitEnds \/ AwaitMail \/ TakeMail \/ EndReceive
WorkerStep  == AwaitPacket \/ ReceivePacket \/ GetBoxToPut \/ AppendMail \/ EndPut

PostStep == SendStep \/ ReceiveStep \/ WorkerStep

\* Idle never ends in Interrupt::Halt here: the next poll is always pending.
PostNext ==
  \/ StartWorker \/ Call \/ PostStep \/ ForkFinishOrHalt \/ KernelStep \/ Preempt
  \/ CheckPktAvail \/ SendDone

PostSpec == PostInit /\ [][PostNext]_postVars

-----------------------------------------------------------------------------
(***************************************************************************)
(* Properties                                                              *)
(***************************************************************************)
MailTypeOK ==
  /\ stage \in [Threads -> {"boot", "user"} \cup SendStages \cup ReceiveStages
                             \cup WorkerStages]
  /\ box \in [Threads -> Boxes \cup {NoBox}]
  /\ sent \in 0 .. MaxMail
  /\ wire \in Seq(Mails)
  /\ inbox \in Mails \cup {NoMail}
  /\ parcel \in Mails \cup {NoMail}
  /\ messages \in [Boxes -> Seq(Mails)]
  /\ got \in [Boxes -> 0 .. MaxMail]

\* "only one message can be sent to the network at any one time" (post.cc): who
\* is about to call Network::Send finds no interrupt of an earlier send pending,
\* and no unit of messageSent left over that would let it go too soon.  (The
\* ASSERT of Network::Send cannot check that: nothing sets sendBusy.)
SendsOneAtATime ==
  \A t \in Threads :
    stage[t] = "send" => pending[messageSent] = 0 /\ value[messageSent] = 0

\* The one buffer of the device and its semaphore agree: a packet in it is
\* announced once, by a unit of messageAvailable or to the worker that has just
\* taken that unit, so the worker never reads an empty buffer and the device
\* never fills a full one, however the polls fall.
PacketIsAnnounced ==
  IF inbox = NoMail
    THEN value[messageAvailable] = 0 /\ stage[Worker] # "receive"
    ELSE value[messageAvailable] = (IF stage[Worker] = "receive" THEN 0 ELSE 1)

\* No arrival is lost: while threads sleep at a box, each mail in it has a
\* thread coming for it that is awake, even when threads that never slept take
\* mails from under the ones that were woken (SynchList::Remove).
EveryMailHasATaker ==
  \A b \in Boxes :
    LET asleep == condQueue[NotEmpty[b]]
        coming == {t \in Threads : /\ stage[t] = "look" /\ box[t] = b
                                   /\ \A i \in DOMAIN asleep : asleep[i] # t} IN
    asleep # <<>> => Len(messages[b]) <= Cardinality(coming)

\* The numbers of the mails for box b that are somewhere between Send and
\* Receive: in a box, in the worker's hands, in the device, or on the wire.
InTransit(b) ==
  LET held == Range(messages[b]) \cup ({parcel, inbox} \ {NoMail}) \cup Range(wire) IN
  {mail.id : mail \in {m \in held : m.to = b}}

Service == INSTANCE MailService WITH
  transit <- [b \in Boxes |-> InTransit(b)],
  taken   <- got

\* Whatever was not lost on the wire comes out of its box, once, in the order in
\* which it was sent (one packet buffer, one worker, FIFO lists).
ImplementsMailService == Service!Spec
=============================================================================
