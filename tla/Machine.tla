------------------------------ MODULE Machine -------------------------------
(***************************************************************************)
(* Simulated time: the clock and the list of pending interrupts            *)
(* (machine/interrupt.cc, threads/list.h), the devices that keep the list  *)
(* filled -- timer (machine/timer.cc), a polling console or network, disk  *)
(* (machine/disk.cc) -- and the part of the kernel that time drives: the   *)
(* context switch at the end of OneTick, with the machine status it saves, *)
(* and the idle loop of Thread::Sleep.  A program is left open: in user    *)
(* mode it executes instructions and traps, in the kernel it turns         *)
(* interrupts on and off, uses the disk and finishes.                      *)
(***************************************************************************)
EXTENDS DiskLatency, Sequences, SequencesExt, FiniteSetsExt

CONSTANTS Threads, Main, NoThread,
          SystemTick, UserTick, TimerTicks,
          PollTime,      \* ConsoleTime and NetworkTime: the period of a poll
          MaxTicks       \* bound: no tick begins later

ASSUME MachineAssumption ==
  /\ Main \in Threads /\ NoThread \notin Threads /\ IsFiniteSet(Threads)
  /\ {SystemTick, UserTick, TimerTicks, PollTime} \subseteq Nat \ {0}
  /\ MaxTicks \in Nat

VARIABLES
  totalTicks,     \* stats->totalTicks
  status,         \* Interrupt::status
  pending,        \* Interrupt::pending, a list sorted by time
  yieldOnReturn,
  phase,          \* where the kernel is; interrupts are on in "program"
  currentThread, readyList,
  mode,           \* of each thread: where it goes on when it has the CPU
  resume,         \* the local "old" of the outermost OneTick a thread is in
  active, lastSector, bufferInit,  \* Disk
  attached,       \* the devices the command line asked for
  request         \* history: the last disk request

clockVars  == <<totalTicks, status, pending, yieldOnReturn, phase>>
threadVars == <<currentThread, readyList, mode, resume>>
diskVars   == <<active, lastSector, bufferInit, request>>
vars == <<clockVars, threadVars, diskVars, attached>>

SystemMode == "SystemMode"
UserMode   == "UserMode"
IdleMode   == "IdleMode"
NotSaved   == "none"

Interrupt(type, when) == [type |-> type, when |-> when]

-----------------------------------------------------------------------------
\* Mutant of SortedInsert: the new element goes to the end.
AppendsUnsorted(item, list) == Append(list, item)

\* List::SortedInsert: before the first element with a later time, so behind
\* those with the same time.
SortedInsert(item, list) ==
  LET later == {i \in DOMAIN list : item.when < list[i].when} IN
  InsertAt(list, IF later = {} THEN Len(list) + 1 ELSE Min(later), item)

\* Timer::TimeOfNextInterrupt, with and without doRandom (nachos -rs is random).
TimeOfNextInterrupt(doRandom) == IF doRandom THEN 1 .. (2 * TimerTicks) ELSE {TimerTicks}

\* Initialize(): the devices schedule their first interrupts, and Enable()
\* lets the clock tick for the first time.
Init ==
  /\ attached \in SUBSET {"TimerInt", "PollInt"}
  /\ totalTicks = 0
  /\ status = SystemMode
  /\ \E delay \in TimeOfNextInterrupt(TRUE) :
       pending =
         LET timer == IF "TimerInt" \in attached THEN <<Interrupt("TimerInt", delay)>> ELSE <<>>
         IN IF "PollInt" \in attached
              THEN SortedInsert(Interrupt("PollInt", PollTime), timer) ELSE timer
  /\ yieldOnReturn = FALSE
  /\ phase = "enable"
  /\ currentThread = Main
  /\ readyList \in SetToSeqs(Threads \ {Main})
  /\ mode = [t \in Threads |-> "system"]
  /\ resume = [t \in Threads |-> NotSaved]
  /\ active = FALSE /\ lastSector = 0 /\ bufferInit = 0
  /\ request = [sector |-> 0, writing |-> FALSE, issued |-> 0, arrived |-> 0,
                onTrack |-> 0, by |-> NoThread]

-----------------------------------------------------------------------------
(***************************************************************************)
(* The clock                                                               *)
(***************************************************************************)

\* OneTick, up to its loop: a user instruction, or the kernel enabling
\* interrupts -- also at the end of ThreadRoot, of Yield and of P.
OneTick ==
  /\ phase \in {"program", "enable"}
  /\ totalTicks < MaxTicks
  /\ totalTicks' = totalTicks + (IF status = SystemMode THEN SystemTick ELSE UserTick)
  /\ phase' = "tick"
  /\ UNCHANGED <<status, pending, yieldOnReturn, threadVars, diskVars, attached>>

\* Mutant of OnlyTheTimer: the rest of the list is not looked at.
HeadIsTheTimer == pending # <<>> /\ pending[1].type = "TimerInt"

\* Mutant of OnlyTheTimer: IsEmpty is asked before the timer is taken from the list.
TimerStillListed == pending # <<>> /\ pending[1].type = "TimerInt" /\ pending = <<>>

\* The interrupt is the time-slice daemon's, and no other is pending.
OnlyTheTimer == Len(pending) = 1 /\ pending[1].type = "TimerInt"

\* The handler of the interrupt at the head of the list, and what it schedules.
Handle(now) ==
  LET type == Head(pending).type
      rest == Tail(pending) IN
  /\ CASE type = "TimerInt" ->
            \* Timer::TimerExpired and TimerInterruptHandler
            /\ \E delay \in TimeOfNextInterrupt(TRUE) :
                 pending' = SortedInsert(Interrupt("TimerInt", now + delay), rest)
            /\ yieldOnReturn' = TRUE
            /\ UNCHANGED <<readyList, mode, active>>
       [] type = "PollInt" ->
            /\ pending' = SortedInsert(Interrupt("PollInt", now + PollTime), rest)
            /\ UNCHANGED <<yieldOnReturn, readyList, mode, active>>
       [] type = "DiskInt" ->
            \* Disk::HandleInterrupt and SynchDisk::RequestDone
            /\ pending' = rest
            /\ active' = FALSE
            /\ readyList' = Append(readyList, request.by)
            /\ mode' = [mode EXCEPT ![request.by] = "system"]
            /\ UNCHANGED yieldOnReturn
  /\ UNCHANGED <<currentThread, resume, lastSector, bufferInit, request, attached>>

\* What CheckIfDue(false) tests.
HeadIsDue ==
  /\ pending # <<>> /\ Head(pending).when <= totalTicks
  /\ ~(status = IdleMode /\ OnlyTheTimer)

\* CheckIfDue(false) fires an interrupt, in the loop of OneTick or of Idle.
FireDue ==
  /\ phase \in {"tick", "idling"}
  /\ HeadIsDue
  /\ Handle(totalTicks)
  /\ UNCHANGED <<totalTicks, status, phase>>

\* CheckIfDue(false) fires nothing: it puts back what it took from the list.
NothingFires ==
  /\ ~HeadIsDue
  /\ pending' = IF pending = <<>> THEN pending ELSE SortedInsert(Head(pending), Tail(pending))

\* Mutant of EndTick: "old" is not restored after the Yield.
EndTickInSystem ==
  /\ phase = "tick"
  /\ NothingFires
  /\ yieldOnReturn' = FALSE
  /\ status' = SystemMode
  /\ IF yieldOnReturn
       THEN /\ phase' = "enable"
            /\ IF readyList = <<>> THEN UNCHANGED <<currentThread, readyList>>
               ELSE /\ currentThread' = Head(readyList)
                    /\ readyList' = Append(Tail(readyList), currentThread)
       ELSE /\ phase' = "program"
            /\ UNCHANGED <<currentThread, readyList>>
  /\ UNCHANGED <<totalTicks, mode, resume, diskVars, attached>>

\* The end of OneTick.  After a timer interrupt the thread yields in SystemMode,
\* whether or not another one is ready, and the SetLevel at the end of Yield
\* ticks again, inside this OneTick; otherwise the thread returns through every
\* OneTick it is in and gets its status back from the outermost.
EndTick ==
  /\ phase = "tick"
  /\ NothingFires
  /\ IF yieldOnReturn
       THEN /\ yieldOnReturn' = FALSE
            /\ status' = SystemMode
            /\ resume' = [resume EXCEPT ![currentThread] = IF @ = NotSaved THEN status ELSE @]
            /\ phase' = "enable"
            /\ IF readyList = <<>> THEN UNCHANGED <<currentThread, readyList>>
               ELSE /\ currentThread' = Head(readyList)
                    /\ readyList' = Append(Tail(readyList), currentThread)
       ELSE /\ phase' = "program"
            /\ status' = IF resume[currentThread] = NotSaved THEN status ELSE resume[currentThread]
            /\ resume' = [resume EXCEPT ![currentThread] = NotSaved]
            /\ UNCHANGED <<yieldOnReturn, currentThread, readyList>>
  /\ UNCHANGED <<totalTicks, mode, diskVars, attached>>

-----------------------------------------------------------------------------
(***************************************************************************)
(* The idle machine                                                        *)
(***************************************************************************)

\* Idle, whose CheckIfDue(true) moves the clock to the next interrupt.
Idle ==
  /\ phase = "idle"
  /\ pending # <<>> /\ ~OnlyTheTimer /\ totalTicks < MaxTicks + SystemTick
  /\ totalTicks' = Max({totalTicks, Head(pending).when})
  /\ status' = IdleMode
  /\ phase' = "idling"
  /\ Handle(totalTicks')

\* Idle finds nothing more to do, and halts the machine.
Halt ==
  /\ phase = "idle"
  /\ pending = <<>> \/ OnlyTheTimer
  /\ totalTicks' = IF pending = <<>> THEN totalTicks ELSE Max({totalTicks, Head(pending).when})
  /\ status' = IdleMode
  /\ phase' = "halted"
  /\ UNCHANGED <<pending, yieldOnReturn, threadVars, diskVars, attached>>

\* Thread::Sleep: the next ready thread runs, or the machine idles.
Dispatch ==
  IF readyList = <<>>
    THEN phase' = "idle" /\ UNCHANGED <<currentThread, readyList>>
    ELSE /\ phase' = "enable"
         /\ currentThread' = Head(readyList)
         /\ readyList' = Tail(readyList)

\* The end of Idle, and once more round the loop of Thread::Sleep.
EndIdle ==
  /\ phase = "idling"
  /\ NothingFires
  /\ yieldOnReturn' = FALSE
  /\ status' = SystemMode
  /\ Dispatch
  /\ UNCHANGED <<totalTicks, mode, resume, diskVars, attached>>

-----------------------------------------------------------------------------
(***************************************************************************)
(* The program of the current thread                                       *)
(***************************************************************************)
Runs(here) == phase = "program" /\ mode[currentThread] = here

\* Machine::RaiseException, and the return from it; the first entry to user
\* mode is Machine::Run.
Trap ==
  \/ /\ Runs("user")
     /\ mode' = [mode EXCEPT ![currentThread] = "system"]
     /\ status' = SystemMode
  \/ /\ Runs("system")
     /\ mode' = [mode EXCEPT ![currentThread] = "user"]
     /\ status' = UserMode

ChangeMode ==
  /\ Trap
  /\ UNCHANGED <<totalTicks, pending, yieldOnReturn, phase, currentThread, readyList,
                 resume, diskVars, attached>>

\* Disk::ReadRequest and WriteRequest, and the P that waits for the interrupt.
\* The caller holds SynchDisk's lock, so that no request is active.
Request(sector, writing) ==
  LET seek == Seek(sector, lastSector) IN
  /\ Runs("system")
  /\ ~active
  /\ active' = TRUE
  /\ lastSector' = sector
  /\ bufferInit' = BufferInit(sector, totalTicks, lastSector, bufferInit)
  /\ pending' = SortedInsert(
       Interrupt("DiskInt", totalTicks
         + ComputeLatency(sector, writing, totalTicks, lastSector, bufferInit)), pending)
  /\ request' = [sector |-> sector, writing |-> writing, issued |-> totalTicks,
                 arrived |-> totalTicks + seek,
                 onTrack |-> IF seek = 0 THEN request.onTrack ELSE totalTicks + seek,
                 by |-> currentThread]
  /\ mode' = [mode EXCEPT ![currentThread] = "disk"]
  /\ Dispatch
  /\ UNCHANGED <<totalTicks, status, yieldOnReturn, resume, attached>>

\* Thread::Finish.
Finish ==
  /\ Runs("system")
  /\ mode' = [mode EXCEPT ![currentThread] = "ended"]
  /\ Dispatch
  /\ UNCHANGED <<totalTicks, status, pending, yieldOnReturn, resume, diskVars, attached>>

Next ==
  \/ OneTick \/ FireDue \/ EndTick \/ Idle \/ Halt \/ EndIdle \/ ChangeMode \/ Finish
  \/ \E sector \in Sectors, writing \in BOOLEAN : Request(sector, writing)

MachineSpec == Init /\ [][Next]_vars /\ WF_vars(Next)

-----------------------------------------------------------------------------
(***************************************************************************)
(* Properties                                                              *)
(***************************************************************************)
MachineTypeOK ==
  /\ totalTicks \in Nat
  /\ status \in {SystemMode, UserMode, IdleMode}
  /\ \A i \in DOMAIN pending : pending[i].type \in {"TimerInt", "PollInt", "DiskInt"}
  /\ yieldOnReturn \in BOOLEAN
  /\ phase \in {"program", "enable", "tick", "idle", "idling", "halted"}
  /\ currentThread \in Threads
  /\ readyList \in Seq(Threads)
  /\ mode \in [Threads -> {"user", "system", "disk", "ended"}]
  /\ resume \in [Threads -> {NotSaved, SystemMode, UserMode}]
  /\ active \in BOOLEAN /\ lastSector \in Sectors /\ bufferInit \in Nat
  /\ request.sector \in Sectors /\ request.by \in Threads \cup {NoThread}

\* The interrupts of one kind that are pending.
Scheduled(type) == {i \in DOMAIN pending : pending[i].type = type}

\* Every device keeps itself alive: timer and poll have exactly one interrupt
\* pending whatever is fired, put back or scheduled again, the disk has one
\* exactly while it is active, and the thread that waits for it is the one that
\* sleeps (Timer::TimerExpired, CheckIfDue, Disk::HandleInterrupt).
DevicesStayScheduled ==
  /\ \A type \in {"TimerInt", "PollInt"} :
       Cardinality(Scheduled(type)) = IF type \in attached THEN 1 ELSE 0
  /\ Cardinality(Scheduled("DiskInt")) = IF active THEN 1 ELSE 0
  /\ {t \in Threads : mode[t] = "disk"} = IF active THEN {request.by} ELSE {}

\* No interrupt is late: the list stays sorted, so that a head that is not due
\* hides no interrupt that is, and outside the two loops over CheckIfDue none
\* is, except the lone timer of an idle machine.
NothingOverdue ==
  /\ \A i, j \in DOMAIN pending : i < j => pending[i].when <= pending[j].when
  /\ phase \in {"program", "enable", "idle"} =>
       OnlyTheTimer \/ \A i \in DOMAIN pending : pending[i].when > totalTicks

\* Nothing is lost, doubled or late among the pending interrupts, in whatever
\* order they fire, are put back and are scheduled again.
PendingIsRight == MachineTypeOK /\ DevicesStayScheduled /\ NothingOverdue

\* The status accounts time to what runs: through nested OneTicks, context
\* switches in the middle of a user instruction and idling, a thread that gets
\* the CPU back runs with the status of its own mode (Interrupt::OneTick).
StatusIsRight ==
  phase = "program" => status = (IF mode[currentThread] = "user" THEN UserMode ELSE SystemMode)

\* The latency is the disk's geometry: the whole sector has passed under the
\* head, after the head came to its track and for a write after the request,
\* and the request is not kept for another turn (Disk::ComputeLatency).
SectorPassesUnderHead ==
  \A i \in Scheduled("DiskInt") :
    LET done == pending[i].when IN
    /\ Passes(request.sector, IF request.writing THEN request.arrived ELSE request.onTrack,
              done - RotationTime) # {}
    /\ done >= request.issued + RotationTime
    /\ Passes(request.sector, request.arrived, done - RotationTime - 1) = {}

\* "It is time to stop" (Interrupt::Idle): the machine halts by itself only
\* after every thread has ended, and never while a device polls.
HaltsOnlyWhenDone ==
  phase = "halted" => "PollInt" \notin attached /\ \A t \in Threads : mode[t] = "ended"

\* And then it does: the time-slice daemon alone does not keep it running.
MachineStops ==
  (\A t \in Threads : mode[t] = "ended") /\ "PollInt" \notin attached ~> phase = "halted"
=============================================================================
