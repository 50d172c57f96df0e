---------------------------- MODULE MachineProofs -----------------------------
(***************************************************************************)
(* Machine for any number of threads, any ticks and any disk: the status   *)
(* accounts time to what runs, the machine halts only when nothing can     *)
(* happen any more, no pending interrupt is lost, doubled or late, and the *)
(* disk is done when the sector has passed under its head.                 *)
(***************************************************************************)
EXTENDS Machine, SequenceTheorems, FiniteSetTheorems, WellFoundedInduction, TLAPS

Interrupts == [type : {"TimerInt", "PollInt", "DiskInt"}, when : Nat]

TypesOf(list) == {list[i].type : i \in DOMAIN list}

\* No device has two interrupts in the list.
OneOfEach(list) == \A i, j \in DOMAIN list : list[i].type = list[j].type => i = j

InOrder(list) == \A i, j \in DOMAIN list : i < j => list[i].when <= list[j].when

-----------------------------------------------------------------------------
(***************************************************************************)
(* The list of pending interrupts.                                         *)
(***************************************************************************)
LEMMA MinIsIn ==
  ASSUME NEW S, S \subseteq Nat, S # {}
  PROVE  Min(S) \in S /\ \A x \in S : Min(S) <= x
<1>1. PICK least \in S : \A y \in S : ~ (<<y, least>> \in OpToRel(<, Nat))
  BY NatLessThanWellFounded, WFMin
<1>2. ASSUME NEW y \in S, y < least  PROVE FALSE
  <2>1. <<y, least>> \in Nat \X Nat /\ <<y, least>>[1] < <<y, least>>[2]
    BY <1>2
  <2>2. <<y, least>> \in OpToRel(<, Nat)
    BY <2>1 DEF OpToRel
  <2>. QED  BY <1>1, <2>2
<1>3. \A y \in S : least <= y
  BY <1>2
<1>. QED  BY <1>3 DEF Min

\* The list is new by the item, which is at the place for its time, and the
\* others are where they were.
HasInserted(new, item, list, at) ==
  /\ at \in 1 .. (Len(list) + 1)
  /\ new[at] = item
  /\ \A i \in 1 .. (at - 1) : new[i] = list[i]
  /\ \A i \in (at + 1) .. (Len(list) + 1) : new[i] = list[i - 1]
  /\ \A i \in 1 .. (at - 1) : ~ (item.when < list[i].when)
  /\ at <= Len(list) => item.when < list[at].when

LEMMA SortedInsertShifts ==
  ASSUME NEW T, NEW list \in Seq(T), NEW item \in T
  PROVE  /\ SortedInsert(item, list) \in Seq(T)
         /\ Len(SortedInsert(item, list)) = Len(list) + 1
         /\ \E at : HasInserted(SortedInsert(item, list), item, list, at)
<1> DEFINE later == {i \in DOMAIN list : item.when < list[i].when}
           at    == IF later = {} THEN Len(list) + 1 ELSE Min(later)
<1>1. /\ at \in 1 .. (Len(list) + 1)
      /\ \A i \in 1 .. (at - 1) : ~ (item.when < list[i].when)
      /\ at <= Len(list) => item.when < list[at].when
  <2>1. later \subseteq 1 .. Len(list) /\ later \subseteq Nat
    OBVIOUS
  <2>2. CASE later = {}
    BY <2>2
  <2>3. CASE later # {}
    <3>1. Min(later) \in later /\ \A i \in later : Min(later) <= i
      <4> HIDE DEF later
      <4>. QED  BY <2>1, <2>3, MinIsIn
    <3>2. at = Min(later) /\ at \in 1 .. Len(list) /\ item.when < list[at].when
      BY <2>1, <2>3, <3>1
    <3>3. ASSUME NEW i \in 1 .. (at - 1), item.when < list[i].when  PROVE FALSE
      <4>1. i \in later /\ i < at /\ at = Min(later) /\ at \in Nat /\ i \in Nat
        BY <2>1, <3>2, <3>3
      <4> HIDE DEF later, at
      <4>. QED  BY <3>1, <4>1
    <3>. QED  BY <3>2, <3>3
  <2>. QED  BY <2>2, <2>3
<1>0. at \in 1 .. (Len(list) + 1)
  BY <1>1
<1>2. SortedInsert(item, list) = SubSeq(list, 1, at - 1) \o <<item>> \o SubSeq(list, at, Len(list))
  BY DEF SortedInsert, InsertAt
<1> HIDE DEF at, later
<1> DEFINE front == SubSeq(list, 1, at - 1)
           back  == SubSeq(list, at, Len(list))
<1>3. /\ front \in Seq(T) /\ Len(front) = at - 1
      /\ \A i \in 1 .. (at - 1) : front[i] = list[i]
  BY <1>0, SubSeqProperties
<1>4. /\ back \in Seq(T) /\ Len(back) = Len(list) - at + 1
      /\ \A i \in 1 .. (Len(list) - at + 1) : back[i] = list[at + i - 1]
  BY <1>0, SubSeqProperties
<1> HIDE DEF front, back
<1>5. <<item>> \in Seq(T) /\ Len(<<item>>) = 1 /\ <<item>>[1] = item
  OBVIOUS
<1> DEFINE begin == front \o <<item>>
           all   == begin \o back
<1>6. /\ begin \in Seq(T) /\ Len(begin) = at
      /\ begin[at] = item
      /\ \A i \in 1 .. (at - 1) : begin[i] = list[i]
  BY <1>0, <1>3, <1>5, ConcatProperties
<1> HIDE DEF begin
<1>7. /\ all \in Seq(T) /\ Len(all) = Len(list) + 1
      /\ \A i \in 1 .. (Len(list) + 1) : all[i] = IF i <= at THEN begin[i] ELSE back[i - at]
  BY <1>0, <1>4, <1>6, ConcatProperties
<1>8. SortedInsert(item, list) = all
  BY <1>2 DEF begin, front, back
<1> HIDE DEF all
<1>9. /\ all[at] = item
      /\ \A i \in 1 .. (at - 1) : all[i] = list[i]
  BY <1>0, <1>6, <1>7
<1>10. \A i \in (at + 1) .. (Len(list) + 1) : all[i] = list[i - 1]
  BY <1>0, <1>4, <1>7
<1>11. HasInserted(all, item, list, at)
  BY <1>1, <1>9, <1>10 DEF HasInserted
<1>. QED  BY <1>7, <1>8, <1>11

LEMMA SortedInsertAdds ==
  ASSUME NEW T, NEW list \in Seq(T), NEW item \in T
  PROVE  /\ SortedInsert(item, list) \in Seq(T)
         /\ Range(SortedInsert(item, list)) = Range(list) \cup {item}
         /\ TypesOf(SortedInsert(item, list)) = TypesOf(list) \cup {item.type}
         /\ OneOfEach(list) /\ item.type \notin TypesOf(list) => OneOfEach(SortedInsert(item, list))
<1> DEFINE new == SortedInsert(item, list)
<1>0. new \in Seq(T) /\ Len(new) = Len(list) + 1
  BY SortedInsertShifts
<1> HIDE DEF new
<1>1. PICK at : HasInserted(new, item, list, at)
  BY SortedInsertShifts DEF new
<1> USE DEF HasInserted
<1>2. /\ DOMAIN new = 1 .. (Len(list) + 1) /\ DOMAIN list = 1 .. Len(list)
      /\ at \in 1 .. (Len(list) + 1) /\ Len(list) \in Nat
  BY <1>0, <1>1
<1>3. \A i \in DOMAIN new : i # at =>
        \E k \in DOMAIN list : new[i] = list[k] /\ k = IF i < at THEN i ELSE i - 1
  BY <1>1, <1>2
<1>4. \A k \in DOMAIN list : \E i \in DOMAIN new : new[i] = list[k]
  <2>1. ASSUME NEW k \in DOMAIN list  PROVE \E i \in DOMAIN new : new[i] = list[k]
    <3>1. CASE k < at
      BY <1>1, <1>2, <3>1
    <3>2. CASE k >= at
      <4>1. k + 1 \in (at + 1) .. (Len(list) + 1) /\ (k + 1) - 1 = k
        BY <1>2, <3>2
      <4>2. new[k + 1] = list[k]
        BY <1>1, <4>1
      <4>. QED  BY <1>2, <4>1, <4>2
    <3>. QED  BY <1>2, <3>1, <3>2
  <2>. QED  BY <2>1
<1>7. Range(new) = Range(list) \cup {item}
  <2>1. Range(new) \subseteq Range(list) \cup {item}
    BY <1>1, <1>3 DEF Range
  <2>2. Range(list) \subseteq Range(new)
    BY <1>4 DEF Range
  <2>3. item \in Range(new)
    BY <1>1, <1>2 DEF Range
  <2>. QED  BY <2>1, <2>2, <2>3
<1>5. TypesOf(new) = TypesOf(list) \cup {item.type}
  <2>1. \A i \in DOMAIN new : new[i].type \in TypesOf(list) \cup {item.type}
    BY <1>1, <1>3 DEF TypesOf
  <2>2. \A k \in DOMAIN list : list[k].type \in TypesOf(new)
    BY <1>4 DEF TypesOf
  <2>3. item.type \in TypesOf(new)
    BY <1>1, <1>2 DEF TypesOf
  <2>4. TypesOf(new) \subseteq TypesOf(list) \cup {item.type}
    BY <2>1 DEF TypesOf
  <2>5. TypesOf(list) \subseteq TypesOf(new)
    BY <2>2 DEF TypesOf
  <2>. QED  BY <2>3, <2>4, <2>5
<1>6. ASSUME OneOfEach(list), item.type \notin TypesOf(list)
      PROVE  OneOfEach(new)
  <2>1. ASSUME NEW i \in DOMAIN new, NEW j \in DOMAIN new, new[i].type = new[j].type
        PROVE  i = j
    <3>1. CASE i = at \/ j = at
      BY <1>1, <1>3, <1>6, <2>1, <3>1 DEF TypesOf
    <3>2. CASE i # at /\ j # at
      <4>1. PICK k \in DOMAIN list : new[i] = list[k] /\ k = IF i < at THEN i ELSE i - 1
        BY <1>3, <3>2
      <4>2. PICK m \in DOMAIN list : new[j] = list[m] /\ m = IF j < at THEN j ELSE j - 1
        BY <1>3, <3>2
      <4>3. k = m
        BY <1>6, <2>1, <4>1, <4>2 DEF OneOfEach
      <4>. QED  BY <1>2, <3>2, <4>1, <4>2, <4>3
    <3>. QED  BY <3>1, <3>2
  <2>. QED  BY <2>1 DEF OneOfEach
<1>. QED  BY <1>0, <1>5, <1>6, <1>7 DEF new

LEMMA SortedInsertSorts ==
  ASSUME NEW list \in Seq(Interrupts), NEW item \in Interrupts, InOrder(list)
  PROVE  InOrder(SortedInsert(item, list))
<1> DEFINE new == SortedInsert(item, list)
<1>1. /\ DOMAIN new = 1 .. (Len(list) + 1) /\ Len(list) \in Nat
      /\ \A i \in 1 .. Len(list) : list[i].when \in Nat
      /\ \A i, j \in 1 .. Len(list) : i <= j => list[i].when <= list[j].when
      /\ item.when \in Nat
  <2>1. new \in Seq(Interrupts) /\ Len(new) = Len(list) + 1
    BY SortedInsertShifts
  <2> HIDE DEF new
  <2>2. \A i \in 1 .. Len(list) : list[i] \in Interrupts
    OBVIOUS
  <2>3. item.when \in Nat /\ \A i \in 1 .. Len(list) : list[i].when \in Nat
    BY <2>2 DEF Interrupts
  <2>4. \A i, j \in 1 .. Len(list) : i <= j => list[i].when <= list[j].when
    <3>1. \A i, j \in 1 .. Len(list) : i < j => list[i].when <= list[j].when
      BY DEF InOrder
    <3>. QED  BY <2>3, <3>1
  <2>. QED  BY <2>1, <2>3, <2>4
<1>2. PICK at : HasInserted(new, item, list, at)
  BY SortedInsertShifts
<1> HIDE DEF new
<1>3. /\ at \in 1 .. (Len(list) + 1) /\ new[at] = item
      /\ \A i \in 1 .. (at - 1) : new[i] = list[i] /\ list[i].when <= item.when
      /\ \A i \in (at + 1) .. (Len(list) + 1) : new[i] = list[i - 1] /\ item.when <= list[i - 1].when
  <2>1. /\ at \in 1 .. (Len(list) + 1) /\ new[at] = item
        /\ \A i \in 1 .. (at - 1) : new[i] = list[i] /\ ~ (item.when < list[i].when)
        /\ \A i \in (at + 1) .. (Len(list) + 1) : new[i] = list[i - 1]
        /\ at <= Len(list) => item.when < list[at].when
    BY <1>2 DEF HasInserted
  <2>2. ASSUME NEW i \in 1 .. (at - 1)  PROVE list[i].when <= item.when
    <3>1. i \in 1 .. Len(list)
      BY <1>1, <2>1
    <3>. QED  BY <1>1, <2>1, <3>1
  <2>3. ASSUME NEW i \in (at + 1) .. (Len(list) + 1)  PROVE item.when <= list[i - 1].when
    <3>1. i - 1 \in 1 .. Len(list) /\ at \in 1 .. Len(list) /\ at <= i - 1
      BY <1>1, <2>1
    <3>2. item.when < list[at].when /\ list[at].when <= list[i - 1].when
      BY <1>1, <2>1, <3>1
    <3>. QED  BY <1>1, <3>1, <3>2
  <2>. QED  BY <2>1, <2>2, <2>3
<1>4. ASSUME NEW i \in DOMAIN new, NEW j \in DOMAIN new, i < j
      PROVE  new[i].when <= new[j].when
  <2>1. CASE j <= at
    <3>1. i \in 1 .. (at - 1) /\ i \in 1 .. Len(list) /\ (j = at \/ (j \in 1 .. (at - 1) /\ j \in 1 .. Len(list)))
      BY <1>1, <1>3, <1>4, <2>1
    <3>. QED  BY <1>1, <1>3, <1>4, <3>1
  <2>2. CASE i >= at
    <3>1. j \in (at + 1) .. (Len(list) + 1) /\ j - 1 \in 1 .. Len(list)
      BY <1>1, <1>3, <1>4, <2>2
    <3>2. CASE i = at
      BY <1>3, <3>1, <3>2
    <3>3. CASE i # at
      <4>1. i \in (at + 1) .. (Len(list) + 1) /\ i - 1 \in 1 .. Len(list) /\ i - 1 <= j - 1
        BY <1>1, <1>3, <1>4, <2>2, <3>3
      <4>. QED  BY <1>1, <1>3, <3>1, <4>1
    <3>. QED  BY <3>2, <3>3
  <2>3. CASE i < at /\ at < j
    <3>1. /\ i \in 1 .. (at - 1) /\ i \in 1 .. Len(list)
          /\ j \in (at + 1) .. (Len(list) + 1) /\ j - 1 \in 1 .. Len(list)
      BY <1>1, <1>3, <1>4, <2>3
    <3>. QED  BY <1>1, <1>3, <3>1
  <2>. QED  BY <1>1, <1>3, <2>1, <2>2, <2>3
<1>. QED  BY <1>4 DEF InOrder, new

LEMMA TailKeeps ==
  ASSUME NEW T, NEW list \in Seq(T), list # <<>>
  PROVE  /\ Head(list) \in T /\ Tail(list) \in Seq(T)
         /\ Range(list) = Range(Tail(list)) \cup {Head(list)}
         /\ TypesOf(list) = TypesOf(Tail(list)) \cup {Head(list).type}
         /\ OneOfEach(list) => OneOfEach(Tail(list)) /\ Head(list).type \notin TypesOf(Tail(list))
         /\ InOrder(list) => InOrder(Tail(list))
<1>1. /\ Tail(list) \in Seq(T) /\ Len(Tail(list)) = Len(list) - 1
      /\ \A i \in 1 .. (Len(list) - 1) : Tail(list)[i] = list[i + 1]
      /\ Head(list) = list[1] /\ Len(list) > 0
  OBVIOUS
<1>2. DOMAIN list = 1 .. Len(list) /\ DOMAIN Tail(list) = 1 .. (Len(list) - 1)
  BY <1>1
<1>3. \A i \in DOMAIN list : i # 1 => i - 1 \in DOMAIN Tail(list) /\ list[i] = Tail(list)[i - 1]
  BY <1>1, <1>2
<1>4. \A i \in DOMAIN Tail(list) : i + 1 \in DOMAIN list /\ list[i + 1] = Tail(list)[i]
  BY <1>1, <1>2
<1>5. TypesOf(list) = TypesOf(Tail(list)) \cup {Head(list).type}
  <2>1. 1 \in DOMAIN list
    BY <1>1, <1>2
  <2>2. \A i \in DOMAIN list : list[i].type \in TypesOf(Tail(list)) \cup {Head(list).type}
    BY <1>1, <1>3 DEF TypesOf
  <2>3. \A i \in DOMAIN Tail(list) : Tail(list)[i].type \in TypesOf(list)
    BY <1>4 DEF TypesOf
  <2>4. Head(list).type \in TypesOf(list)
    BY <1>1, <2>1 DEF TypesOf
  <2>5. TypesOf(list) \subseteq TypesOf(Tail(list)) \cup {Head(list).type}
    BY <2>2 DEF TypesOf
  <2>6. TypesOf(Tail(list)) \subseteq TypesOf(list)
    BY <2>3 DEF TypesOf
  <2>. QED  BY <2>4, <2>5, <2>6
<1>6. ASSUME OneOfEach(list)
      PROVE  OneOfEach(Tail(list)) /\ Head(list).type \notin TypesOf(Tail(list))
  <2>1. OneOfEach(Tail(list))
    BY <1>2, <1>4, <1>6 DEF OneOfEach
  <2>2. ASSUME NEW i \in DOMAIN Tail(list), Tail(list)[i].type = Head(list).type
        PROVE  FALSE
    <3>1. 1 \in DOMAIN list /\ i + 1 \in DOMAIN list /\ i + 1 # 1
      BY <1>1, <1>2, <1>4
    <3>. QED  BY <1>1, <1>4, <1>6, <2>2, <3>1 DEF OneOfEach
  <2>. QED  BY <2>1, <2>2 DEF TypesOf
<1>7. Range(list) = Range(Tail(list)) \cup {Head(list)}
  <2>1. 1 \in DOMAIN list
    BY <1>1, <1>2
  <2>2. Range(list) \subseteq Range(Tail(list)) \cup {Head(list)}
    BY <1>1, <1>3 DEF Range
  <2>3. Range(Tail(list)) \subseteq Range(list)
    BY <1>4 DEF Range
  <2>. QED  BY <1>1, <2>1, <2>2, <2>3 DEF Range
<1>8. ASSUME InOrder(list)  PROVE InOrder(Tail(list))
  <2>. SUFFICES ASSUME NEW i \in DOMAIN Tail(list), NEW j \in DOMAIN Tail(list), i < j
                PROVE  Tail(list)[i].when <= Tail(list)[j].when
    BY DEF InOrder
  <2>1. i + 1 < j + 1
    BY <1>2
  <2>. QED  BY <1>4, <1>8, <2>1 DEF InOrder
<1>. QED  BY <1>1, <1>5, <1>6, <1>7, <1>8

-----------------------------------------------------------------------------
(***************************************************************************)
(* The disk takes some time for a request.                                 *)
(***************************************************************************)
LEMMA Remainder == ASSUME NEW a \in Int, NEW b \in Nat \ {0}  PROVE a % b \in Nat /\ a \div b \in Int
OBVIOUS

LEMMA Product == ASSUME NEW a \in Nat, NEW b \in Nat  PROVE a * b \in Nat
OBVIOUS

LEMMA LatencyIsPositive ==
  ASSUME NEW new \in Sectors, NEW last \in Sectors, NEW writing \in BOOLEAN,
         NEW now \in Nat, NEW init
  PROVE  ComputeLatency(new, writing, now, last, init) \in Nat \ {0}
<1> DEFINE seek == Seek(new, last)
           rotation == RoundUp(now + seek)
           timeAfter == now + seek + rotation
           turn == ModuloDiff(new, timeAfter \div RotationTime)
<1>0. {RotationTime, SeekTime, SectorsPerTrack} \subseteq Nat \ {0}
  BY DiskAssumption
<1>1. new \in Int /\ last \in Int
  BY DEF Sectors
<1>2. seek \in Nat
  <2>1. TrackOf(new) \in Int /\ TrackOf(last) \in Int
    BY <1>0, <1>1, Remainder DEF TrackOf
  <2>2. Distance(TrackOf(new), TrackOf(last)) \in Nat
    BY <2>1 DEF Distance
  <2>. QED  BY <1>0, <2>2, Product DEF Seek
<1> HIDE DEF seek
<1>3. rotation \in Nat
  BY <1>0, <1>2, Remainder DEF RoundUp
<1> HIDE DEF rotation
<1>4. timeAfter \div RotationTime \in Int
  BY <1>0, <1>2, <1>3, Remainder
<1> HIDE DEF timeAfter
<1>5. turn \in Nat
  <2> DEFINE to == timeAfter \div RotationTime
  <2>1. new % SectorsPerTrack \in Nat /\ to % SectorsPerTrack \in Nat
    BY <1>0, <1>1, <1>4, Remainder
  <2> HIDE DEF to
  <2>2. (new % SectorsPerTrack) - (to % SectorsPerTrack) + SectorsPerTrack \in Int
    BY <1>0, <2>1
  <2>3. ModuloDiff(new, to) \in Nat
    BY <1>0, <2>2, Remainder DEF ModuloDiff
  <2>. QED  BY <2>3 DEF to
<1> HIDE DEF turn
<1>6. seek + rotation + RotationTime + turn * RotationTime \in Nat \ {0}
  <2>1. turn * RotationTime \in Nat
    BY <1>0, <1>5, Product
  <2>. QED  BY <1>0, <1>2, <1>3, <2>1
<1>. QED  BY <1>0, <1>6 DEF ComputeLatency, seek, rotation, timeAfter, turn

-----------------------------------------------------------------------------
(***************************************************************************)
(* The inductive invariant                                                 *)
(***************************************************************************)
MachineTypes ==
  /\ totalTicks \in Nat
  /\ pending \in Seq(Interrupts)
  /\ currentThread \in Threads
  /\ readyList \in Seq(Threads)
  /\ mode \in [Threads -> {"user", "system", "disk", "ended"}]
  /\ resume \in [Threads -> {NotSaved, SystemMode, UserMode}]
  /\ lastSector \in Sectors
  /\ request.by \in Threads \cup {NoThread}

\* Timer and poll schedule themselves; the disk has one interrupt while a thread
\* waits, and it is that thread's.
DevicesLive ==
  /\ attached \subseteq {"TimerInt", "PollInt"}
  /\ OneOfEach(pending)
  /\ \A type \in {"TimerInt", "PollInt"} : type \in attached <=> type \in TypesOf(pending)
  /\ active \in BOOLEAN
  /\ active <=> "DiskInt" \in TypesOf(pending)
  /\ active => request.by \in Threads /\ mode[request.by] = "disk"
  /\ \A t \in Threads : mode[t] = "disk" => active /\ t = request.by

\* The status that accounts for what t executes.
StatusOf(t) == IF mode[t] = "user" THEN UserMode ELSE SystemMode

Working == phase \in {"program", "enable", "tick"}

\* A thread that is preempted in user mode has its status in "resume", and the
\* one that has the CPU either does or has it in "status".
StatusIsKept ==
  /\ \A t \in Threads : resume[t] # NotSaved => resume[t] = StatusOf(t)
  /\ \A t \in Threads :
       t # currentThread \/ ~Working => resume[t] # NotSaved \/ mode[t] # "user"
  /\ Working /\ resume[currentThread] = NotSaved => status = StatusOf(currentThread)
  /\ phase = "program" => resume[currentThread] = NotSaved

\* Every thread that has not ended has the CPU, is ready or waits for the disk.
NobodyIsLost ==
  /\ \A t \in Threads :
       \/ mode[t] \in {"disk", "ended"} \/ (t = currentThread /\ Working)
       \/ \E i \in DOMAIN readyList : readyList[i] = t
  /\ phase = "idle" => readyList = <<>>

MachineInv ==
  MachineTypes /\ DevicesLive /\ StatusIsKept /\ NobodyIsLost /\ HaltsOnlyWhenDone

LEMMA Starts == Init => MachineInv
<1> SUFFICES ASSUME Init PROVE MachineInv
  OBVIOUS
<1>1. PICK delay \in 1 .. (2 * TimerTicks) :
        pending =
          LET timer == IF "TimerInt" \in attached THEN <<Interrupt("TimerInt", delay)>> ELSE <<>>
          IN IF "PollInt" \in attached
               THEN SortedInsert(Interrupt("PollInt", PollTime), timer) ELSE timer
  BY DEF Init, TimeOfNextInterrupt
<1> DEFINE timer == IF "TimerInt" \in attached THEN <<Interrupt("TimerInt", delay)>> ELSE <<>>
           poll  == Interrupt("PollInt", PollTime)
<1>2. Interrupt("TimerInt", delay) \in Interrupts /\ poll \in Interrupts /\ poll.type = "PollInt"
  BY MachineAssumption DEF Interrupt, Interrupts
<1>3. /\ timer \in Seq(Interrupts) /\ OneOfEach(timer)
      /\ TypesOf(timer) = IF "TimerInt" \in attached THEN {"TimerInt"} ELSE {}
  <2>1. CASE "TimerInt" \in attached
    <3>1. timer = <<Interrupt("TimerInt", delay)>>
      BY <2>1
    <3> HIDE DEF timer
    <3>2. /\ timer \in Seq(Interrupts) /\ DOMAIN timer = {1}
          /\ timer[1].type = "TimerInt"
      BY <1>2, <3>1 DEF Interrupt
    <3>3. TypesOf(timer) = {"TimerInt"} /\ OneOfEach(timer)
      BY <3>2 DEF TypesOf, OneOfEach
    <3>. QED  BY <2>1, <3>2, <3>3
  <2>2. CASE "TimerInt" \notin attached
    <3>1. timer = <<>>
      BY <2>2
    <3> HIDE DEF timer
    <3>2. timer \in Seq(Interrupts) /\ DOMAIN timer = {}
      BY <3>1
    <3>3. TypesOf(timer) = {} /\ OneOfEach(timer)
      BY <3>2 DEF TypesOf, OneOfEach
    <3>. QED  BY <2>2, <3>2, <3>3
  <2>. QED  BY <2>1, <2>2
<1>4. pending = IF "PollInt" \in attached THEN SortedInsert(poll, timer) ELSE timer
  BY <1>1
<1> HIDE DEF timer, poll
<1>5. /\ pending \in Seq(Interrupts) /\ OneOfEach(pending)
      /\ "DiskInt" \notin TypesOf(pending)
      /\ "PollInt" \in attached <=> "PollInt" \in TypesOf(pending)
      /\ "TimerInt" \in attached <=> "TimerInt" \in TypesOf(pending)
  <2>1. CASE "PollInt" \in attached
    <3>1. pending = SortedInsert(poll, timer)
      BY <1>4, <2>1
    <3>2. /\ pending \in Seq(Interrupts)
          /\ TypesOf(pending) = TypesOf(timer) \cup {"PollInt"}
          /\ OneOfEach(pending)
      <4>1. /\ SortedInsert(poll, timer) \in Seq(Interrupts)
            /\ Range(SortedInsert(poll, timer)) = Range(timer) \cup {poll}
            /\ TypesOf(SortedInsert(poll, timer)) = TypesOf(timer) \cup {poll.type}
            /\ OneOfEach(timer) /\ poll.type \notin TypesOf(timer)
                 => OneOfEach(SortedInsert(poll, timer))
        BY <1>2, <1>3, SortedInsertAdds
      <4>. QED  BY <1>2, <1>3, <3>1, <4>1
    <3>. QED  BY <1>3, <2>1, <3>2
  <2>2. CASE "PollInt" \notin attached
    BY <1>3, <1>4, <2>2
  <2>. QED  BY <2>1, <2>2
<1>6. readyList \in Seq(Threads) /\ Range(readyList) = Threads \ {Main}
  <2> DEFINE S == Threads \ {Main}
             D == 1 .. Cardinality(S)
  <2>1. IsFiniteSet(S) /\ Cardinality(S) \in Nat
    BY MachineAssumption, FS_RemoveElement, FS_CardinalityType
  <2>2. readyList \in [D -> S] /\ \A i, j \in D : i # j => readyList[i] # readyList[j]
    BY DEF Init, SetToSeqs
  <2> HIDE DEF S
  <2>3. readyList \in Injection(D, S)
    BY <2>2 DEF Injection, IsInjective
  <2>4. IsFiniteSet(D) /\ Cardinality(D) = Cardinality(S)
    BY <2>1, FS_Interval
  <2>5. readyList \in Surjection(D, S)
    BY <2>1, <2>3, <2>4, FS_Injection
  <2>6. readyList \in Seq(S)
    BY <2>1, <2>2
  <2>7. Range(readyList) = S
    BY <2>2, <2>5 DEF Surjection, Range
  <2>. QED  BY <2>6, <2>7 DEF S
<1>7. MachineTypes
  <2>1. 0 \in Sectors
    BY DiskAssumption DEF Sectors
  <2>. QED  BY <1>5, <1>6, <2>1, MachineAssumption DEF Init, MachineTypes
<1>8. DevicesLive
  <2>1. \A type \in {"TimerInt", "PollInt"} : type \in attached <=> type \in TypesOf(pending)
    BY <1>5
  <2>. QED  BY <1>5, <2>1, MachineAssumption DEF Init, DevicesLive
<1>9. StatusIsKept
  BY MachineAssumption DEF Init, StatusIsKept, StatusOf, Working
<1>10. NobodyIsLost
  BY <1>6 DEF Init, NobodyIsLost, Working, Range
<1>11. HaltsOnlyWhenDone
  BY DEF Init, HaltsOnlyWhenDone
<1>. QED  BY <1>7, <1>8, <1>9, <1>10, <1>11 DEF MachineInv

-----------------------------------------------------------------------------
(***************************************************************************)
(* The steps                                                               *)
(***************************************************************************)

\* What the handlers leave alone, and what they keep right.
LEMMA HandleKeeps ==
  ASSUME MachineTypes, DevicesLive, NobodyIsLost, pending # <<>>,
         NEW now \in Nat, Handle(now), totalTicks' \in Nat
  PROVE  /\ MachineTypes' /\ DevicesLive'
         /\ UNCHANGED <<currentThread, resume, attached>>
         /\ \A t \in Threads : StatusOf(t)' = StatusOf(t) /\ (mode'[t] = "user" <=> mode[t] = "user")
         /\ \A t \in Threads : mode[t] = "ended" => mode'[t] = "ended"
         /\ \A t \in Threads :
              ((\E i \in DOMAIN readyList : readyList[i] = t) \/ (mode[t] = "disk" /\ mode'[t] # "disk"))
                => \E i \in DOMAIN readyList' : readyList'[i] = t
<1> DEFINE rest == Tail(pending)
           type == Head(pending).type
<1>1. /\ Head(pending) \in Interrupts /\ rest \in Seq(Interrupts)
      /\ TypesOf(pending) = TypesOf(rest) \cup {type}
      /\ OneOfEach(rest) /\ type \notin TypesOf(rest)
  BY TailKeeps DEF MachineTypes, DevicesLive
<1>2. UNCHANGED <<currentThread, resume, lastSector, request, attached>>
  BY DEF Handle
<1>3. type \in {"TimerInt", "PollInt", "DiskInt"}
  BY <1>1 DEF Interrupts
<1> HIDE DEF rest, type
<1>4. CASE type \in {"TimerInt", "PollInt"}
  <2>1. UNCHANGED <<readyList, mode, active>>
    BY <1>4 DEF Handle, type
  <2>2. PICK again \in Interrupts : again.type = type /\ pending' = SortedInsert(again, rest)
    <3>1. CASE type = "TimerInt"
      <4>1. PICK delay \in 1 .. (2 * TimerTicks) :
              pending' = SortedInsert(Interrupt("TimerInt", now + delay), rest)
        BY <3>1 DEF Handle, type, rest, TimeOfNextInterrupt
      <4>2. Interrupt("TimerInt", now + delay) \in Interrupts
        BY MachineAssumption DEF Interrupt, Interrupts
      <4>. QED  BY <3>1, <4>1, <4>2 DEF Interrupt
    <3>2. CASE type = "PollInt"
      <4>1. pending' = SortedInsert(Interrupt("PollInt", now + PollTime), rest)
        BY <3>2 DEF Handle, type, rest
      <4>2. Interrupt("PollInt", now + PollTime) \in Interrupts
        BY MachineAssumption DEF Interrupt, Interrupts
      <4>. QED  BY <3>2, <4>1, <4>2 DEF Interrupt
    <3>. QED  BY <1>4, <3>1, <3>2
  <2>3. /\ SortedInsert(again, rest) \in Seq(Interrupts)
        /\ Range(SortedInsert(again, rest)) = Range(rest) \cup {again}
        /\ TypesOf(SortedInsert(again, rest)) = TypesOf(rest) \cup {again.type}
        /\ OneOfEach(rest) /\ again.type \notin TypesOf(rest)
             => OneOfEach(SortedInsert(again, rest))
    BY <1>1, SortedInsertAdds
  <2>4. pending' \in Seq(Interrupts) /\ TypesOf(pending') = TypesOf(pending) /\ OneOfEach(pending')
    BY <1>1, <1>4, <2>2, <2>3
  <2>5. MachineTypes'
    BY <1>2, <2>1, <2>4 DEF MachineTypes
  <2>6. DevicesLive'
    BY <1>2, <2>1, <2>4 DEF DevicesLive
  <2>. QED  BY <1>2, <2>1, <2>5, <2>6 DEF StatusOf
<1>5. CASE type = "DiskInt"
  <2>1. /\ pending' = rest /\ readyList' = Append(readyList, request.by)
        /\ mode' = [mode EXCEPT ![request.by] = "system"]
    BY <1>5 DEF Handle, type, rest
  <2>2. request.by \in Threads /\ mode[request.by] = "disk"
    BY <1>1, <1>5 DEF DevicesLive
  <2>3. MachineTypes'
    BY <1>1, <1>2, <2>1, <2>2 DEF MachineTypes
  <2>4. DevicesLive'
    <3>1. TypesOf(pending') = TypesOf(rest) /\ OneOfEach(pending') /\ "DiskInt" \notin TypesOf(rest)
      BY <1>1, <1>5, <2>1
    <3>2. active' = FALSE /\ \A t \in Threads : mode'[t] # "disk"
      BY <1>5, <2>1, <2>2 DEF DevicesLive, MachineTypes, Handle, type
    <3>3. \A kind \in {"TimerInt", "PollInt"} : kind \in attached' <=> kind \in TypesOf(pending')
      BY <1>1, <1>2, <1>5, <3>1 DEF DevicesLive
    <3>. QED  BY <1>2, <3>1, <3>2, <3>3 DEF DevicesLive
  <2>5. \A t \in Threads :
          /\ mode'[t] = "user" <=> mode[t] = "user"
          /\ mode[t] = "ended" => mode'[t] = "ended"
          /\ mode[t] = "disk" => t = request.by
    BY <2>1, <2>2 DEF MachineTypes, DevicesLive
  <2>6. /\ \A i \in DOMAIN readyList : i \in DOMAIN readyList' /\ readyList'[i] = readyList[i]
        /\ Len(readyList) + 1 \in DOMAIN readyList' /\ readyList'[Len(readyList) + 1] = request.by
    BY <2>1, <2>2 DEF MachineTypes
  <2>. QED  BY <1>2, <2>3, <2>4, <2>5, <2>6 DEF StatusOf
<1>. QED  BY <1>3, <1>4, <1>5

\* CheckIfDue that fires nothing puts back what it took.
LEMMA NothingFiresKeeps ==
  ASSUME MachineTypes, DevicesLive, NothingFires
  PROVE  /\ pending' \in Seq(Interrupts)
         /\ TypesOf(pending') = TypesOf(pending) /\ OneOfEach(pending')
<1>1. CASE pending = <<>>
  BY <1>1 DEF NothingFires, MachineTypes, DevicesLive
<1>2. CASE pending # <<>>
  <2> DEFINE rest == Tail(pending)
             head == Head(pending)
  <2>1. /\ head \in Interrupts /\ rest \in Seq(Interrupts)
        /\ TypesOf(pending) = TypesOf(rest) \cup {head.type}
        /\ OneOfEach(rest) /\ head.type \notin TypesOf(rest)
    BY <1>2, TailKeeps DEF MachineTypes, DevicesLive
  <2>2. pending' = SortedInsert(head, rest)
    BY <1>2 DEF NothingFires
  <2> HIDE DEF rest, head
  <2>3. /\ SortedInsert(head, rest) \in Seq(Interrupts)
        /\ Range(SortedInsert(head, rest)) = Range(rest) \cup {head}
        /\ TypesOf(SortedInsert(head, rest)) = TypesOf(rest) \cup {head.type}
        /\ OneOfEach(rest) /\ head.type \notin TypesOf(rest)
             => OneOfEach(SortedInsert(head, rest))
    BY <2>1, SortedInsertAdds
  <2>. QED  BY <2>1, <2>2, <2>3
<1>. QED  BY <1>1, <1>2

\* The types and the devices, when only the list may have changed its order.
LEMMA DevicesStayLive ==
  ASSUME MachineTypes, DevicesLive,
         pending' \in Seq(Interrupts), TypesOf(pending') = TypesOf(pending), OneOfEach(pending'),
         UNCHANGED <<active, request, attached>>,
         mode' \in [Threads -> {"user", "system", "disk", "ended"}],
         \A t \in Threads : mode'[t] = "disk" <=> mode[t] = "disk"
  PROVE  DevicesLive'
BY DEF DevicesLive, MachineTypes

LEMMA FireDueInv == ASSUME MachineInv, FireDue  PROVE MachineInv'
<1> USE DEF MachineInv
<1>1. pending # <<>> /\ phase \in {"tick", "idling"} /\ UNCHANGED <<totalTicks, status, phase>>
  BY DEF FireDue, HeadIsDue
<1>2. Handle(totalTicks) /\ totalTicks \in Nat /\ totalTicks' \in Nat
  BY DEF FireDue, MachineTypes
<1>3. /\ MachineTypes' /\ DevicesLive'
      /\ UNCHANGED <<currentThread, resume, attached>>
      /\ \A t \in Threads : StatusOf(t)' = StatusOf(t) /\ (mode'[t] = "user" <=> mode[t] = "user")
      /\ \A t \in Threads : mode[t] = "ended" => mode'[t] = "ended"
      /\ \A t \in Threads :
           ((\E i \in DOMAIN readyList : readyList[i] = t) \/ (mode[t] = "disk" /\ mode'[t] # "disk"))
             => \E i \in DOMAIN readyList' : readyList'[i] = t
  BY <1>1, <1>2, HandleKeeps
<1>4. StatusIsKept'
  BY <1>1, <1>3 DEF StatusIsKept, StatusOf, Working, MachineTypes
<1>5. NobodyIsLost'
  BY <1>1, <1>3 DEF NobodyIsLost, Working
<1>6. HaltsOnlyWhenDone'
  BY <1>1 DEF HaltsOnlyWhenDone
<1>. QED  BY <1>3, <1>4, <1>5, <1>6

LEMMA OneTickInv == ASSUME MachineInv, OneTick  PROVE MachineInv'
<1> USE DEF MachineInv
<1>1. /\ phase \in {"program", "enable"} /\ phase' = "tick"
      /\ UNCHANGED <<status, pending, currentThread, readyList, mode, resume, active,
                     lastSector, request, attached>>
  BY DEF OneTick, threadVars, diskVars
<1>2. totalTicks' \in Nat
  BY MachineAssumption DEF OneTick, MachineTypes
<1>3. MachineTypes' /\ DevicesLive'
  BY <1>1, <1>2 DEF MachineTypes, DevicesLive
<1>4. StatusIsKept'
  BY <1>1 DEF StatusIsKept, StatusOf, Working, MachineTypes
<1>5. NobodyIsLost' /\ HaltsOnlyWhenDone'
  BY <1>1 DEF NobodyIsLost, Working, HaltsOnlyWhenDone
<1>. QED  BY <1>3, <1>4, <1>5

LEMMA EndTickInv == ASSUME MachineInv, EndTick  PROVE MachineInv'
<1> DEFINE p == currentThread
<1> USE DEF MachineInv
<1>1. /\ phase = "tick" /\ p \in Threads
      /\ UNCHANGED <<totalTicks, mode, active, lastSector, request, attached>>
  BY DEF EndTick, diskVars, MachineTypes
<1>2. pending' \in Seq(Interrupts) /\ TypesOf(pending') = TypesOf(pending) /\ OneOfEach(pending')
  BY NothingFiresKeeps DEF EndTick
<1>3. DevicesLive'
  BY <1>1, <1>2, DevicesStayLive DEF MachineTypes
<1>4. \A t \in Threads : StatusOf(t)' = StatusOf(t)
  BY <1>1 DEF StatusOf
<1>5. StatusOf(p) \in {SystemMode, UserMode} /\ StatusOf(p) # NotSaved
  BY DEF StatusOf, SystemMode, UserMode, NotSaved
<1>6. CASE yieldOnReturn
  <2>1. /\ status' = SystemMode /\ phase' = "enable"
        /\ resume' = [resume EXCEPT ![p] = IF @ = NotSaved THEN status ELSE @]
    BY <1>6 DEF EndTick
  <2>2. /\ resume' \in [Threads -> {NotSaved, SystemMode, UserMode}]
        /\ \A t \in Threads : t # p => resume'[t] = resume[t]
        /\ resume'[p] = StatusOf(p)
    BY <1>1, <1>5, <2>1 DEF MachineTypes, StatusIsKept, Working
  <2>3. /\ currentThread' \in Threads /\ readyList' \in Seq(Threads)
        /\ \A t \in Threads :
             ((\E i \in DOMAIN readyList : readyList[i] = t) \/ t = p)
               => t = currentThread' \/ \E i \in DOMAIN readyList' : readyList'[i] = t
    <3>1. CASE readyList = <<>>
      BY <1>1, <1>6, <3>1 DEF EndTick, MachineTypes
    <3>2. CASE readyList # <<>>
      <4>1. currentThread' = Head(readyList) /\ readyList' = Append(Tail(readyList), p)
        BY <1>6, <3>2 DEF EndTick
      <4>2. /\ Head(readyList) \in Threads /\ Tail(readyList) \in Seq(Threads)
            /\ Len(Tail(readyList)) = Len(readyList) - 1
            /\ \A i \in 1 .. (Len(readyList) - 1) : Tail(readyList)[i] = readyList[i + 1]
            /\ Head(readyList) = readyList[1]
        BY <3>2 DEF MachineTypes
      <4>3. /\ readyList' \in Seq(Threads) /\ DOMAIN readyList' = 1 .. Len(readyList)
            /\ readyList'[Len(readyList)] = p
            /\ \A i \in 1 .. (Len(readyList) - 1) : readyList'[i] = readyList[i + 1]
        BY <1>1, <4>1, <4>2
      <4>4. ASSUME NEW t \in Threads, NEW i \in DOMAIN readyList, readyList[i] = t
            PROVE  t = currentThread' \/ \E k \in DOMAIN readyList' : readyList'[k] = t
        <5>1. CASE i = 1
          BY <4>1, <4>2, <4>4, <5>1
        <5>2. CASE i # 1
          <6>1. i - 1 \in 1 .. (Len(readyList) - 1) /\ i - 1 \in 1 .. Len(readyList)
            BY <5>2 DEF MachineTypes
          <6>2. readyList'[i - 1] = t
            BY <4>3, <4>4, <6>1
          <6>. QED  BY <4>3, <6>1, <6>2
        <5>. QED  BY <5>1, <5>2
      <4>5. Len(readyList) \in DOMAIN readyList'
        BY <3>2, <4>3 DEF MachineTypes
      <4>. QED  BY <4>1, <4>2, <4>3, <4>4, <4>5
    <3>. QED  BY <3>1, <3>2
  <2>4. MachineTypes'
    BY <1>1, <1>2, <2>2, <2>3 DEF MachineTypes
  <2>5. StatusIsKept'
    <3>1. \A t \in Threads : resume'[t] # NotSaved => resume'[t] = StatusOf(t)'
      BY <1>4, <2>2 DEF StatusIsKept
    <3>2. \A t \in Threads : resume'[t] # NotSaved \/ mode'[t] # "user"
      BY <1>1, <1>5, <2>2 DEF StatusIsKept
    <3>3. resume'[currentThread'] = NotSaved => status' = StatusOf(currentThread)'
      BY <2>1, <2>3, <3>2 DEF StatusOf
    <3>. QED  BY <2>1, <3>1, <3>2, <3>3 DEF StatusIsKept
  <2>6. NobodyIsLost' /\ HaltsOnlyWhenDone'
    BY <1>1, <2>1, <2>3 DEF NobodyIsLost, Working, HaltsOnlyWhenDone
  <2>. QED  BY <1>3, <2>4, <2>5, <2>6
<1>7. CASE ~yieldOnReturn
  <2>1. /\ phase' = "program" /\ UNCHANGED <<currentThread, readyList>>
        /\ status' = IF resume[p] = NotSaved THEN status ELSE resume[p]
        /\ resume' = [resume EXCEPT ![p] = NotSaved]
    BY <1>7 DEF EndTick
  <2>2. status' = StatusOf(p)
    BY <1>1, <2>1 DEF StatusIsKept, Working
  <2>3. MachineTypes'
    BY <1>1, <1>2, <2>1 DEF MachineTypes
  <2>4. StatusIsKept'
    BY <1>1, <1>4, <2>1, <2>2 DEF StatusIsKept, Working, MachineTypes
  <2>5. NobodyIsLost' /\ HaltsOnlyWhenDone'
    BY <1>1, <2>1 DEF NobodyIsLost, Working, HaltsOnlyWhenDone
  <2>. QED  BY <1>3, <2>3, <2>4, <2>5
<1>. QED  BY <1>6, <1>7

\* Idle's interrupt comes at its time, or at once.
LEMMA IdleInv == ASSUME MachineInv, Idle  PROVE MachineInv'
<1> USE DEF MachineInv
<1>1. pending # <<>> /\ phase = "idle" /\ phase' = "idling" /\ Handle(totalTicks')
  BY DEF Idle
<1>2. totalTicks' \in Nat
  <2>1. Head(pending).when \in Nat
    <3>1. Head(pending) \in Interrupts
      BY <1>1, TailKeeps DEF MachineTypes
    <3>. QED  BY <3>1 DEF Interrupts
  <2> DEFINE S == {totalTicks, Head(pending).when}
  <2>2. Max(S) \in S
    <3>1. \E x \in S : \A y \in S : x >= y
      BY <2>1 DEF MachineTypes
    <3>. QED  BY <3>1 DEF Max
  <2>3. totalTicks' = Max(S)
    BY DEF Idle
  <2>. QED  BY <2>1, <2>2, <2>3 DEF MachineTypes
<1>3. /\ MachineTypes' /\ DevicesLive'
      /\ UNCHANGED <<currentThread, resume, attached>>
      /\ \A t \in Threads : StatusOf(t)' = StatusOf(t) /\ (mode'[t] = "user" <=> mode[t] = "user")
      /\ \A t \in Threads : mode[t] = "ended" => mode'[t] = "ended"
      /\ \A t \in Threads :
           ((\E i \in DOMAIN readyList : readyList[i] = t) \/ (mode[t] = "disk" /\ mode'[t] # "disk"))
             => \E i \in DOMAIN readyList' : readyList'[i] = t
  BY <1>1, <1>2, HandleKeeps
<1>4. StatusIsKept'
  BY <1>1, <1>3 DEF StatusIsKept, StatusOf, Working, MachineTypes
<1>5. NobodyIsLost' /\ HaltsOnlyWhenDone'
  BY <1>1, <1>3 DEF NobodyIsLost, Working, HaltsOnlyWhenDone
<1>. QED  BY <1>3, <1>4, <1>5

\* Nobody is ready, nobody waits for the disk and nothing polls.
LEMMA HaltInv == ASSUME MachineInv, Halt  PROVE MachineInv'
<1> USE DEF MachineInv
<1>1. /\ phase = "idle" /\ phase' = "halted"
      /\ UNCHANGED <<pending, currentThread, readyList, mode, resume, active, lastSector,
                     request, attached>>
  BY DEF Halt, threadVars, diskVars
<1>2. totalTicks' \in Nat
  <2>1. CASE pending = <<>>
    BY <2>1 DEF Halt, MachineTypes
  <2>2. CASE pending # <<>>
    <3>1. Head(pending).when \in Nat
      <4>1. Head(pending) \in Interrupts
        BY <2>2, TailKeeps DEF MachineTypes
      <4>. QED  BY <4>1 DEF Interrupts
    <3> DEFINE S == {totalTicks, Head(pending).when}
    <3>2. Max(S) \in S
      <4>1. \E x \in S : \A y \in S : x >= y
        BY <3>1 DEF MachineTypes
      <4>. QED  BY <4>1 DEF Max
    <3>3. totalTicks' = Max(S)
      BY <2>2 DEF Halt
    <3>. QED  BY <3>1, <3>2, <3>3 DEF MachineTypes
  <2>. QED  BY <2>1, <2>2
<1>3. TypesOf(pending) \subseteq {"TimerInt"}
  BY DEF Halt, OnlyTheTimer, TypesOf, MachineTypes
<1>4. HaltsOnlyWhenDone'
  <2>1. "PollInt" \notin attached
    BY <1>3 DEF DevicesLive
  <2>2. \A t \in Threads : mode[t] # "disk"
    BY <1>3 DEF DevicesLive
  <2>3. \A t \in Threads : mode[t] = "ended"
    BY <1>1, <2>2 DEF NobodyIsLost, Working
  <2>. QED  BY <1>1, <2>1, <2>3 DEF HaltsOnlyWhenDone
<1>5. MachineTypes' /\ DevicesLive'
  BY <1>1, <1>2 DEF MachineTypes, DevicesLive
<1>6. StatusIsKept'
  BY <1>1 DEF StatusIsKept, StatusOf, Working, MachineTypes
<1>7. NobodyIsLost'
  BY <1>1 DEF NobodyIsLost, Working
<1>. QED  BY <1>4, <1>5, <1>6, <1>7

\* The CPU goes to the next ready thread: whoever was ready before has it or is
\* still ready, and all but the thread that gives it up are as they were.
LEMMA DispatchKeeps ==
  ASSUME MachineTypes, Dispatch
  PROVE  /\ phase' \in {"idle", "enable"}
         /\ currentThread' \in Threads /\ readyList' \in Seq(Threads)
         /\ phase' = "idle" => readyList' = <<>> /\ readyList = <<>>
         /\ \A t \in Threads :
              (\E i \in DOMAIN readyList : readyList[i] = t)
                => \/ t = currentThread' /\ phase' = "enable"
                   \/ \E i \in DOMAIN readyList' : readyList'[i] = t
<1>1. CASE readyList = <<>>
  BY <1>1 DEF Dispatch, MachineTypes
<1>2. CASE readyList # <<>>
  <2>1. phase' = "enable" /\ currentThread' = Head(readyList) /\ readyList' = Tail(readyList)
    BY <1>2 DEF Dispatch
  <2>2. /\ Head(readyList) \in Threads /\ Tail(readyList) \in Seq(Threads)
        /\ DOMAIN Tail(readyList) = 1 .. (Len(readyList) - 1)
        /\ \A i \in 1 .. (Len(readyList) - 1) : Tail(readyList)[i] = readyList[i + 1]
        /\ Head(readyList) = readyList[1]
    BY <1>2 DEF MachineTypes
  <2>3. ASSUME NEW t \in Threads, NEW i \in DOMAIN readyList, readyList[i] = t
        PROVE  t = currentThread' \/ \E k \in DOMAIN readyList' : readyList'[k] = t
    <3>1. CASE i = 1
      BY <2>1, <2>2, <2>3, <3>1
    <3>2. CASE i # 1
      <4>1. i - 1 \in 1 .. (Len(readyList) - 1) /\ (i - 1) + 1 = i
        BY <3>2 DEF MachineTypes
      <4>2. Tail(readyList)[i - 1] = readyList[i]
        BY <2>2, <4>1
      <4>. QED  BY <2>1, <2>2, <2>3, <4>1, <4>2
    <3>. QED  BY <3>1, <3>2
  <2>. QED  BY <2>1, <2>2, <2>3
<1>. QED  BY <1>1, <1>2

LEMMA EndIdleInv == ASSUME MachineInv, EndIdle  PROVE MachineInv'
<1> USE DEF MachineInv
<1>1. /\ phase = "idling" /\ status' = SystemMode /\ Dispatch
      /\ UNCHANGED <<totalTicks, mode, resume, active, lastSector, request, attached>>
  BY DEF EndIdle, diskVars
<1>2. pending' \in Seq(Interrupts) /\ TypesOf(pending') = TypesOf(pending) /\ OneOfEach(pending')
  BY NothingFiresKeeps DEF EndIdle
<1>3. DevicesLive'
  BY <1>1, <1>2, DevicesStayLive DEF MachineTypes
<1>4. /\ phase' \in {"idle", "enable"}
      /\ currentThread' \in Threads /\ readyList' \in Seq(Threads)
      /\ phase' = "idle" => readyList' = <<>> /\ readyList = <<>>
      /\ \A t \in Threads :
           (\E i \in DOMAIN readyList : readyList[i] = t)
             => \/ t = currentThread' /\ phase' = "enable"
                \/ \E i \in DOMAIN readyList' : readyList'[i] = t
  BY <1>1, DispatchKeeps
<1>5. MachineTypes'
  BY <1>1, <1>2, <1>4 DEF MachineTypes
<1>6. StatusIsKept'
  BY <1>1, <1>4 DEF StatusIsKept, StatusOf, Working
<1>7. NobodyIsLost' /\ HaltsOnlyWhenDone'
  BY <1>1, <1>4 DEF NobodyIsLost, Working, HaltsOnlyWhenDone
<1>. QED  BY <1>3, <1>5, <1>6, <1>7

LEMMA ChangeModeInv == ASSUME MachineInv, ChangeMode  PROVE MachineInv'
<1> DEFINE p == currentThread
<1> USE DEF MachineInv
<1>1. /\ phase = "program" /\ p \in Threads
      /\ UNCHANGED <<totalTicks, pending, phase, currentThread, readyList, resume, active,
                     lastSector, request, attached>>
  BY DEF ChangeMode, Trap, Runs, diskVars, MachineTypes
<1>2. /\ mode[p] \in {"user", "system"}
      /\ \/ mode' = [mode EXCEPT ![p] = "system"] /\ status' = SystemMode
         \/ mode' = [mode EXCEPT ![p] = "user"] /\ status' = UserMode
  BY DEF ChangeMode, Trap, Runs
<1>3. MachineTypes'
  BY <1>1, <1>2 DEF MachineTypes
<1>4. DevicesLive'
  <2>1. \A t \in Threads : mode'[t] = "disk" <=> mode[t] = "disk"
    BY <1>1, <1>2 DEF MachineTypes
  <2>. QED  BY <1>1, <1>3, <2>1, DevicesStayLive DEF MachineTypes, DevicesLive
<1>5. StatusIsKept'
  BY <1>1, <1>2 DEF StatusIsKept, StatusOf, Working, MachineTypes
<1>6. NobodyIsLost' /\ HaltsOnlyWhenDone'
  BY <1>1, <1>2 DEF NobodyIsLost, Working, HaltsOnlyWhenDone, MachineTypes
<1>. QED  BY <1>3, <1>4, <1>5, <1>6

\* A thread that gives up the CPU in the kernel, to wait for the disk or for good.
LEMMA GivesUp ==
  ASSUME MachineInv, Runs("system"), Dispatch, UNCHANGED <<status, resume>>,
         NEW there \in {"disk", "ended"}, mode' = [mode EXCEPT ![currentThread] = there]
  PROVE  StatusIsKept' /\ NobodyIsLost' /\ HaltsOnlyWhenDone'
<1> DEFINE p == currentThread
<1> USE DEF MachineInv
<1>1. phase = "program" /\ mode[p] = "system" /\ p \in Threads /\ resume[p] = NotSaved
  BY DEF Runs, MachineTypes, StatusIsKept
<1>2. /\ phase' \in {"idle", "enable"}
      /\ currentThread' \in Threads /\ readyList' \in Seq(Threads)
      /\ phase' = "idle" => readyList' = <<>> /\ readyList = <<>>
      /\ \A t \in Threads :
           (\E i \in DOMAIN readyList : readyList[i] = t)
             => \/ t = currentThread' /\ phase' = "enable"
                \/ \E i \in DOMAIN readyList' : readyList'[i] = t
  BY DispatchKeeps
<1>3. /\ mode'[p] = there /\ \A t \in Threads : t # p => mode'[t] = mode[t]
      /\ \A t \in Threads : resume'[t] # NotSaved \/ mode'[t] # "user"
  BY <1>1 DEF MachineTypes, StatusIsKept
<1>4. status' = SystemMode
  BY <1>1 DEF StatusIsKept, StatusOf, Working
<1>5. StatusIsKept'
  BY <1>1, <1>2, <1>3, <1>4 DEF StatusIsKept, StatusOf, Working
<1>6. NobodyIsLost' /\ HaltsOnlyWhenDone'
  BY <1>1, <1>2, <1>3 DEF NobodyIsLost, Working, HaltsOnlyWhenDone
<1>. QED  BY <1>5, <1>6

LEMMA FinishInv == ASSUME MachineInv, Finish  PROVE MachineInv'
<1> DEFINE p == currentThread
<1> USE DEF MachineInv
<1>1. /\ Runs("system") /\ Dispatch /\ mode' = [mode EXCEPT ![p] = "ended"]
      /\ UNCHANGED <<totalTicks, status, pending, resume, active, lastSector, request, attached>>
  BY DEF Finish, diskVars
<1>2. StatusIsKept' /\ NobodyIsLost' /\ HaltsOnlyWhenDone'
  BY <1>1, GivesUp
<1>3. MachineTypes'
  <2>1. currentThread' \in Threads /\ readyList' \in Seq(Threads)
    BY <1>1, DispatchKeeps
  <2>. QED  BY <1>1, <2>1 DEF MachineTypes
<1>4. DevicesLive'
  <2>1. \A t \in Threads : mode'[t] = "disk" <=> mode[t] = "disk"
    BY <1>1 DEF MachineTypes, Runs
  <2>. QED  BY <1>1, <1>3, <2>1, DevicesStayLive DEF MachineTypes, DevicesLive
<1>. QED  BY <1>2, <1>3, <1>4

LEMMA RequestInv ==
  ASSUME MachineInv, NEW sector \in Sectors, NEW writing \in BOOLEAN, Request(sector, writing)
  PROVE  MachineInv'
<1> DEFINE p == currentThread
           item == Interrupt("DiskInt", totalTicks
                     + ComputeLatency(sector, writing, totalTicks, lastSector, bufferInit))
<1> USE DEF MachineInv
<1>1. /\ Runs("system") /\ Dispatch /\ mode' = [mode EXCEPT ![p] = "disk"]
      /\ ~active /\ active' = TRUE /\ lastSector' = sector /\ request'.by = p
      /\ UNCHANGED <<totalTicks, status, resume, attached>>
  BY DEF Request
<1>2. StatusIsKept' /\ NobodyIsLost' /\ HaltsOnlyWhenDone'
  BY <1>1, GivesUp
<1>3. item \in Interrupts /\ item.type = "DiskInt" /\ pending' = SortedInsert(item, pending)
  <2>1. ComputeLatency(sector, writing, totalTicks, lastSector, bufferInit) \in Nat
    BY LatencyIsPositive DEF MachineTypes
  <2>. QED  BY <2>1 DEF Request, MachineTypes, Interrupt, Interrupts
<1> HIDE DEF item
<1>4. /\ SortedInsert(item, pending) \in Seq(Interrupts)
      /\ Range(SortedInsert(item, pending)) = Range(pending) \cup {item}
      /\ TypesOf(SortedInsert(item, pending)) = TypesOf(pending) \cup {item.type}
      /\ OneOfEach(pending) /\ item.type \notin TypesOf(pending)
           => OneOfEach(SortedInsert(item, pending))
  BY <1>3, SortedInsertAdds DEF MachineTypes
<1>5. "DiskInt" \notin TypesOf(pending)
  BY <1>1 DEF DevicesLive
<1>6. MachineTypes'
  <2>1. currentThread' \in Threads /\ readyList' \in Seq(Threads)
    BY <1>1, DispatchKeeps
  <2>. QED  BY <1>1, <1>3, <1>4, <2>1 DEF MachineTypes
<1>7. DevicesLive'
  <2>1. /\ TypesOf(pending') = TypesOf(pending) \cup {"DiskInt"} /\ OneOfEach(pending')
    BY <1>3, <1>4, <1>5 DEF DevicesLive
  <2>2. p \in Threads /\ mode'[p] = "disk" /\ \A t \in Threads : t # p => mode'[t] # "disk"
    BY <1>1, <1>5 DEF MachineTypes, DevicesLive
  <2>. QED  BY <1>1, <2>1, <2>2 DEF DevicesLive
<1>. QED  BY <1>2, <1>6, <1>7

LEMMA MachineInvStep == ASSUME MachineInv, [Next]_vars  PROVE MachineInv'
<1>1. CASE UNCHANGED vars
  BY <1>1 DEF vars, clockVars, threadVars, diskVars, MachineInv, MachineTypes, DevicesLive,
              StatusIsKept, StatusOf, Working, NobodyIsLost, HaltsOnlyWhenDone
<1>. QED  BY <1>1, OneTickInv, FireDueInv, EndTickInv, IdleInv, HaltInv, EndIdleInv,
             ChangeModeInv, FinishInv, RequestInv DEF Next

\* OneTick accounts each tick to what the thread that gets the CPU executes, for
\* any number of threads, devices and lengths of a tick.
THEOREM StatusAccountsForThread == MachineSpec => []StatusIsRight
<1>1. MachineInv => StatusIsRight
  BY DEF MachineInv, StatusIsKept, StatusOf, Working, StatusIsRight
<1>. QED  BY <1>1, Starts, MachineInvStep, PTL DEF MachineSpec

\* Interrupt::Idle halts the machine only after every thread has ended.
THEOREM HaltsWhenAllHaveEnded == MachineSpec => []HaltsOnlyWhenDone
<1>1. MachineInv => HaltsOnlyWhenDone
  BY DEF MachineInv
<1>. QED  BY <1>1, Starts, MachineInvStep, PTL DEF MachineSpec

-----------------------------------------------------------------------------
(***************************************************************************)
(* The disk's geometry: when a sector passes under the head.               *)
(***************************************************************************)
LEMMA Divides ==
  ASSUME NEW a \in Int, NEW n \in Nat \ {0}
  PROVE  /\ a \div n \in Int /\ a % n \in 0 .. (n - 1)
         /\ a = n * (a \div n) + (a % n)
OBVIOUS

LEMMA QuotientIs ==
  ASSUME NEW n \in Nat \ {0}, NEW q \in Int, NEW r \in 0 .. (n - 1)
  PROVE  (n * q + r) \div n = q /\ (n * q + r) % n = r
OBVIOUS

\* Times within less than a whole turn of each other have different remainders.
LEMMA SameRemainder ==
  ASSUME NEW n \in Nat \ {0}, NEW a \in Int, NEW b \in Int, a % n = b % n, a < b, b < a + n
  PROVE  FALSE
<1>1. a = n * (a \div n) + (a % n) /\ b = n * (b \div n) + (b % n) /\ a \div n \in Int /\ b \div n \in Int
  BY Divides
<1>2. PICK p \in Int, q \in Int : p = a \div n /\ q = b \div n
  BY <1>1
<1>3. b - a = n * (q - p)
  BY <1>1, <1>2
<1>4. PICK d \in Int : d = q - p
  <2>1. q - p \in Int
    OBVIOUS
  <2>. QED  BY <2>1
<1>5. n * d > 0 /\ n * d < n
  BY <1>3, <1>4
<1>6. d > 0
  BY <1>5
<1>7. d < 1
  BY <1>5
<1>. QED  BY <1>6, <1>7

LEMMA DiskConstants ==
  RotationTime \in Nat \ {0} /\ SeekTime \in Nat \ {0} /\ SectorsPerTrack \in Nat \ {0}
BY DiskAssumption

LEMMA RoundsUp ==
  ASSUME NEW x \in Int
  PROVE  /\ RoundUp(x) \in 0 .. (RotationTime - 1)
         /\ (x + RoundUp(x)) % RotationTime = 0
<1>1. PICK n \in Nat \ {0} : n = RotationTime
  BY DiskConstants
<1>2. PICK q \in Int, r \in 0 .. (n - 1) : r = (-x) % n /\ -x = n * q + r
  <2>1. PICK y \in Int : y = -x
    OBVIOUS
  <2>. QED  BY <2>1, Divides
<1>3. x + r = n * (-q) + 0
  BY <1>2
<1>4. (x + r) % n = 0
  BY <1>2, <1>3, QuotientIs
<1>. QED  BY <1>1, <1>2, <1>4 DEF RoundUp

LEMMA TurnsTo ==
  ASSUME NEW to \in Int, NEW from \in Int
  PROVE  /\ ModuloDiff(to, from) \in 0 .. (SectorsPerTrack - 1)
         /\ (from + ModuloDiff(to, from)) % SectorsPerTrack = to % SectorsPerTrack
         /\ \A k \in 0 .. (ModuloDiff(to, from) - 1) :
              (from + k) % SectorsPerTrack # to % SectorsPerTrack
<1>1. PICK n \in Nat \ {0} : n = SectorsPerTrack
  BY DiskConstants
<1>2. PICK p \in Int, r \in 0 .. (n - 1) : r = from % n /\ from = n * p + r
  BY Divides
<1>3. PICK s \in 0 .. (n - 1) : s = to % n
  BY Divides
<1>4. PICK m \in Int : m = ModuloDiff(to, from)
  <2>1. PICK y \in Int : y = s - r + n
    OBVIOUS
  <2>2. ModuloDiff(to, from) = y % n
    BY <1>1, <1>2, <1>3, <2>1 DEF ModuloDiff
  <2>. QED  BY <2>2
<1>5. m = (s - r + n) % n
  BY <1>1, <1>2, <1>3, <1>4 DEF ModuloDiff
<1>6. m = IF s >= r THEN s - r ELSE s - r + n
  <2>1. CASE s >= r
    <3>1. s - r + n = n * 1 + (s - r) /\ s - r \in 0 .. (n - 1)
      BY <2>1
    <3>. QED  BY <1>5, <2>1, <3>1, QuotientIs
  <2>2. CASE ~(s >= r)
    <3>1. s - r + n = n * 0 + (s - r + n) /\ s - r + n \in 0 .. (n - 1)
      BY <2>2
    <3>. QED  BY <1>5, <2>2, <3>1, QuotientIs
  <2>. QED  BY <2>1, <2>2
<1>7. m \in 0 .. (n - 1)
  BY <1>6
<1>8. (from + m) % n = s
  <2>1. \E q \in Int : from + m = n * q + s
    <3>0. p + 1 \in Int
      OBVIOUS
    <3>1. n * (p + 1) = n * p + n
      OBVIOUS
    <3>2. from + m = n * p + s \/ from + m = n * (p + 1) + s
      BY <1>2, <1>6, <3>1
    <3>. QED  BY <3>0, <3>2
  <2>2. PICK q \in Int : from + m = n * q + s
    BY <2>1
  <2>. QED  BY <2>2, QuotientIs
<1>9. ASSUME NEW k \in 0 .. (m - 1)  PROVE (from + k) % n # s
  <2>1. from + k \in Int /\ from + m \in Int /\ from + k < from + m /\ from + m < from + k + n
    BY <1>7
  <2>. QED  BY <1>8, <2>1, SameRemainder
<1>. QED  BY <1>1, <1>3, <1>4, <1>7, <1>8, <1>9

LEMMA Seeks ==
  ASSUME NEW new \in Sectors, NEW last \in Sectors
  PROVE  Seek(new, last) \in Nat
<1>1. new \in Int /\ last \in Int
  BY DEF Sectors
<1>2. TrackOf(new) \in Int /\ TrackOf(last) \in Int
  BY <1>1, DiskConstants, Remainder DEF TrackOf
<1>3. Distance(TrackOf(new), TrackOf(last)) \in Nat
  BY <1>2 DEF Distance
<1>. QED  BY <1>3, DiskConstants, Product DEF Seek

\* After a boundary between sectors it takes ModuloDiff sectors until the sector
\* begins, and it begins at no time before that.
LEMMA FirstPass ==
  ASSUME NEW sector \in Int, NEW boundary \in Int, boundary % RotationTime = 0
  PROVE  LET turn == ModuloDiff(sector, boundary \div RotationTime)
             begin == boundary + turn * RotationTime IN
         /\ turn \in Nat /\ begin \in Int /\ begin >= boundary
         /\ begin % RotationTime = 0
         /\ (begin \div RotationTime) % SectorsPerTrack = sector % SectorsPerTrack
         /\ \A time \in boundary .. (begin - 1) :
              ~ (/\ time % RotationTime = 0
                 /\ (time \div RotationTime) % SectorsPerTrack = sector % SectorsPerTrack)
<1>1. PICK n \in Nat \ {0} : n = RotationTime
  BY DiskConstants
<1>2. PICK q \in Int : q = boundary \div n /\ boundary = n * q
  BY <1>1, Divides
<1>3. PICK turn \in Nat :
        /\ turn = ModuloDiff(sector, q)
        /\ (q + turn) % SectorsPerTrack = sector % SectorsPerTrack
        /\ \A k \in 0 .. (turn - 1) : (q + k) % SectorsPerTrack # sector % SectorsPerTrack
  <2>1. ModuloDiff(sector, q) \in Nat
    BY TurnsTo, DiskConstants
  <2>. QED  BY <2>1, TurnsTo
<1>4. PICK begin \in Int : begin = boundary + turn * n
  <2>1. turn * n \in Nat
    BY Product
  <2>. QED  BY <2>1
<1>5. begin = n * (q + turn) + 0 /\ q + turn \in Int
  BY <1>2, <1>4
<1>6. begin \div n = q + turn /\ begin % n = 0
  BY <1>5, QuotientIs
<1>7. begin >= boundary
  BY <1>4, Product
<1>8. ASSUME NEW time \in boundary .. (begin - 1), time % n = 0,
             (time \div n) % SectorsPerTrack = sector % SectorsPerTrack
      PROVE  FALSE
  <2>1. PICK p \in Int : p = time \div n /\ time = n * p
    <3>1. time \in Int /\ n \in Nat \ {0}
      OBVIOUS
    <3>2. time \div n \in Int /\ time = n * (time \div n) + (time % n)
      BY <3>1, Divides
    <3>. QED  BY <1>8, <3>2
  <2>2. n * p >= n * q /\ n * p < n * (q + turn)
    BY <1>2, <1>5, <2>1
  <2>3. p >= q /\ p < q + turn
    BY <2>2
  <2>4. PICK k \in 0 .. (turn - 1) : p = q + k
    <3>1. p - q \in 0 .. (turn - 1) /\ p = q + (p - q)
      BY <2>3
    <3>. QED  BY <3>1
  <2>. QED  BY <1>3, <1>8, <2>1, <2>4
<1>. QED  BY <1>1, <1>2, <1>3, <1>4, <1>6, <1>7, <1>8

\* What ComputeLatency promises of the time at which the request is done.
OnTime(sector, writing, issued, arrived, onTrack, done) ==
  /\ Passes(sector, IF writing THEN arrived ELSE onTrack, done - RotationTime) # {}
  /\ done >= issued + RotationTime
  /\ Passes(sector, arrived, done - RotationTime - 1) = {}

LEMMA LatencyIsRight ==
  ASSUME NEW sector \in Sectors, NEW last \in Sectors, NEW writing \in BOOLEAN,
         NEW now \in Nat, NEW init \in Nat, NEW onTrack \in Nat,
         init % RotationTime = 0, onTrack <= init, onTrack <= now
  PROVE  LET seek    == Seek(sector, last)
             arrived == now + seek
             since   == IF seek = 0 THEN onTrack ELSE arrived
             done    == now + ComputeLatency(sector, writing, now, last, init) IN
         /\ done \in Nat /\ since \in Nat /\ since <= done
         /\ OnTime(sector, writing, now, arrived, since, done)
<1> DEFINE latency == ComputeLatency(sector, writing, now, last, init)
<1>1. PICK seek \in Nat : seek = Seek(sector, last)
  BY Seeks
<1>2. PICK R \in Nat \ {0} : R = RotationTime
  BY DiskConstants
<1>3. PICK arrived \in Nat : arrived = now + seek
  OBVIOUS
<1>4. PICK rotation \in 0 .. (R - 1) :
        rotation = RoundUp(arrived) /\ (arrived + rotation) % R = 0
  <2>1. arrived \in Int
    OBVIOUS
  <2>. QED  BY <1>2, <2>1, RoundsUp
<1>5. PICK timeAfter \in Nat : timeAfter = arrived + rotation
  OBVIOUS
<1>6. PICK since \in Nat : since = IF seek = 0 THEN onTrack ELSE arrived
  OBVIOUS
<1>7. sector \in Int
  BY DEF Sectors
<1>8. CASE ~writing /\ seek = 0 /\ InTrackBuffer(sector, timeAfter, init)
  <2>1. latency = R
    BY <1>1, <1>2, <1>3, <1>4, <1>5, <1>8 DEF ComputeLatency
  <2>2. PICK begin \in Int, turn \in Nat :
          /\ turn = ModuloDiff(sector, init \div R)
          /\ begin = init + turn * R /\ begin >= init
          /\ begin % R = 0
          /\ (begin \div R) % SectorsPerTrack = sector % SectorsPerTrack
    <3>1. init \in Int
      OBVIOUS
    <3>. QED  BY <1>2, <1>7, <3>1, FirstPass
  <2>3. begin <= now
    <3>1. PICK passed \in Int : passed = timeAfter - init
      OBVIOUS
    <3>2. passed \div R > turn /\ R * (passed \div R) <= passed /\ passed \div R \in Int
      <4>1. passed = R * (passed \div R) + (passed % R) /\ passed % R \in 0 .. (R - 1)
            /\ passed \div R \in Int
        BY Divides
      <4>2. R * (passed \div R) \in Int
        BY <4>1
      <4>. QED  BY <1>2, <1>8, <2>2, <3>1, <4>1, <4>2 DEF InTrackBuffer
    <3>3. PICK d \in Int : d = passed \div R
      BY <3>2
    <3>4. d >= turn + 1 /\ R * d <= passed
      BY <3>2, <3>3
    <3>5. R * d >= R * (turn + 1)
      BY <3>4
    <3>6. R * (turn + 1) = turn * R + R
      OBVIOUS
    <3>7. passed >= turn * R + R
      BY <3>4, <3>5, <3>6
    <3>8. PICK w \in Nat : w = turn * R
      BY Product
    <3>9. timeAfter < now + R
      BY <1>3, <1>4, <1>5, <1>8
    <3>10. timeAfter - init >= w + R /\ begin = init + w
      BY <2>2, <3>1, <3>7, <3>8
    <3>. QED  BY <3>9, <3>10
  <2>4. begin \in Passes(sector, since, (now + R) - RotationTime)
    BY <1>2, <1>6, <1>8, <2>2, <2>3 DEF Passes
  <2>5. Passes(sector, arrived, (now + R) - RotationTime - 1) = {}
    BY <1>2, <1>3, <1>8 DEF Passes
  <2>6. OnTime(sector, writing, now, arrived, since, now + R)
    BY <1>2, <1>8, <2>4, <2>5 DEF OnTime
  <2>7. since <= now + R
    BY <1>3, <1>6, <1>8
  <2>. QED  BY <1>1, <1>2, <1>3, <1>6, <2>1, <2>6, <2>7
<1>9. CASE ~(~writing /\ seek = 0 /\ InTrackBuffer(sector, timeAfter, init))
  <2>1. PICK begin \in Int, turn \in Nat :
          /\ turn = ModuloDiff(sector, timeAfter \div R)
          /\ begin = timeAfter + turn * R /\ begin >= timeAfter
          /\ begin % R = 0
          /\ (begin \div R) % SectorsPerTrack = sector % SectorsPerTrack
          /\ \A time \in timeAfter .. (begin - 1) :
               ~ (time % R = 0 /\ (time \div R) % SectorsPerTrack = sector % SectorsPerTrack)
    <3>1. timeAfter \in Int
      OBVIOUS
    <3>2. timeAfter % RotationTime = 0
      BY <1>2, <1>4, <1>5
    <3>3. PICK turn \in Nat : turn = ModuloDiff(sector, timeAfter \div RotationTime)
      BY <1>7, <3>1, <3>2, FirstPass
    <3>4. PICK begin \in Int : begin = timeAfter + turn * RotationTime
      BY <1>7, <3>1, <3>2, <3>3, FirstPass
    <3>5. /\ begin >= timeAfter
          /\ begin % RotationTime = 0
          /\ (begin \div RotationTime) % SectorsPerTrack = sector % SectorsPerTrack
          /\ \A time \in timeAfter .. (begin - 1) :
               ~ (/\ time % RotationTime = 0
                  /\ (time \div RotationTime) % SectorsPerTrack = sector % SectorsPerTrack)
      BY <1>7, <3>1, <3>2, <3>3, <3>4, FirstPass
    <3>. QED  BY <1>2, <3>3, <3>4, <3>5
  <2>2. latency = seek + rotation + R + turn * R
    BY <1>1, <1>2, <1>3, <1>4, <1>5, <1>9, <2>1 DEF ComputeLatency
  <2>3. now + latency = begin + R
    <3>1. PICK w \in Nat : w = turn * R
      BY Product
    <3>2. begin = now + seek + rotation + w /\ latency = seek + rotation + R + w
      BY <1>3, <1>5, <2>1, <2>2, <3>1
    <3>. QED  BY <3>2
  <2>4. since <= begin /\ arrived <= begin /\ now <= begin
    <3>1. arrived <= timeAfter /\ timeAfter <= begin
      BY <1>5, <2>1
    <3>2. now <= arrived /\ since <= arrived
      BY <1>3, <1>6
    <3>. QED  BY <3>1, <3>2
  <2>5. begin \in Passes(sector, IF writing THEN arrived ELSE since, (begin + R) - RotationTime)
    BY <1>2, <2>1, <2>4 DEF Passes
  <2>6. Passes(sector, arrived, (begin + R) - RotationTime - 1) = {}
    <3>. SUFFICES ASSUME NEW time \in arrived .. (begin - 1), time % R = 0,
                         (time \div R) % SectorsPerTrack = sector % SectorsPerTrack
                  PROVE  FALSE
      BY <1>2 DEF Passes
    <3>1. time < timeAfter
      BY <1>5, <2>1
    <3>2. timeAfter - R < time
      BY <1>4, <1>5
    <3>3. time \in Int /\ timeAfter \in Int /\ timeAfter < time + R
      BY <3>2
    <3>4. time % R = timeAfter % R
      BY <1>4, <1>5
    <3>. QED  BY <3>1, <3>3, <3>4, SameRemainder
  <2>7. OnTime(sector, writing, now, arrived, since, begin + R)
    <3>1. begin + R >= now + RotationTime
      BY <1>2, <2>4
    <3>. QED  BY <2>5, <2>6, <3>1 DEF OnTime
  <2>. QED  BY <1>1, <1>2, <1>3, <1>6, <2>1, <2>3, <2>4, <2>7
<1>. QED  BY <1>8, <1>9

-----------------------------------------------------------------------------
(***************************************************************************)
(* The times of the pending interrupts.  The list is in order, and when a  *)
(* program runs nothing in it is due: CheckIfDue has looked at the head.   *)
(* Only the lone timer of an idle machine may be late, until the tick that *)
(* turns interrupts on again.                                              *)
(***************************************************************************)
AllLater == \A e \in Range(pending) : e.when > totalTicks

ClockTypes ==
  /\ status \in {SystemMode, UserMode, IdleMode}
  /\ Working => status # IdleMode
  /\ yieldOnReturn \in BOOLEAN
  /\ phase \in {"program", "enable", "tick", "idle", "idling", "halted"}
  /\ bufferInit \in Nat
  /\ request.sector \in Sectors

DueInv ==
  /\ InOrder(pending)
  /\ phase = "program" => AllLater
  /\ phase \in {"enable", "idle"} => OnlyTheTimer \/ AllLater

\* The head came to its track before the request was done, so before the next
\* one is made; the track buffer is filled from the first boundary after that.
DiskInv ==
  /\ bufferInit % RotationTime = 0 /\ request.onTrack \in Nat /\ request.onTrack <= bufferInit
  /\ ~active => request.onTrack <= totalTicks
  /\ \A e \in Range(pending) : e.type = "DiskInt" =>
       /\ OnTime(request.sector, request.writing, request.issued, request.arrived,
                 request.onTrack, e.when)
       /\ request.onTrack <= e.when

PendingInv == ClockTypes /\ DueInv /\ DiskInv

LEMMA PendingTimes ==
  ASSUME MachineTypes
  PROVE  /\ Range(pending) \subseteq Interrupts
         /\ \A e \in Range(pending) : e.when \in Nat
         /\ pending # <<>> => /\ Head(pending) \in Range(pending)
                              /\ InOrder(pending) =>
                                   \A e \in Range(pending) : Head(pending).when <= e.when
<1>1. Range(pending) \subseteq Interrupts
  BY DEF MachineTypes, Range
<1>2. \A e \in Range(pending) : e.when \in Nat
  BY <1>1 DEF Interrupts
<1>3. ASSUME pending # <<>>
      PROVE  /\ Head(pending) \in Range(pending)
             /\ InOrder(pending) => \A e \in Range(pending) : Head(pending).when <= e.when
  <2>1. 1 \in DOMAIN pending /\ Head(pending) = pending[1] /\ DOMAIN pending = 1 .. Len(pending)
    BY <1>3 DEF MachineTypes
  <2>2. Head(pending) \in Range(pending)
    BY <2>1 DEF Range
  <2>3. ASSUME InOrder(pending), NEW i \in DOMAIN pending  PROVE pending[1].when <= pending[i].when
    <3>1. CASE i = 1
      BY <1>2, <2>1, <2>2, <3>1
    <3>2. CASE i # 1
      BY <2>1, <2>3, <3>2 DEF InOrder
    <3>. QED  BY <3>1, <3>2
  <2>. QED  BY <2>1, <2>2, <2>3 DEF Range
<1>. QED  BY <1>1, <1>2, <1>3

\* What a handler leaves in the list.
LEMMA HandleOrders ==
  ASSUME MachineTypes, DevicesLive, InOrder(pending), pending # <<>>, NEW now \in Nat, Handle(now)
  PROVE  /\ InOrder(pending')
         /\ yieldOnReturn' \in {TRUE, yieldOnReturn}
         /\ UNCHANGED <<bufferInit, request>>
         /\ \A e \in Range(pending') : e.type = "DiskInt" => e \in Range(pending)
         /\ active' = active \/ Head(pending).type = "DiskInt"
<1> DEFINE rest == Tail(pending)
           type == Head(pending).type
<1>1. /\ Head(pending) \in Interrupts /\ rest \in Seq(Interrupts)
      /\ Range(pending) = Range(rest) \cup {Head(pending)}
      /\ InOrder(rest)
  BY TailKeeps DEF MachineTypes
<1>2. UNCHANGED <<bufferInit, request>>
  BY DEF Handle
<1>3. type \in {"TimerInt", "PollInt", "DiskInt"}
  BY <1>1 DEF Interrupts
<1> HIDE DEF rest, type
<1>4. CASE type \in {"TimerInt", "PollInt"}
  <2>1. active' = active /\ yieldOnReturn' \in {TRUE, yieldOnReturn}
    BY <1>4 DEF Handle, type
  <2>2. PICK again \in Interrupts : again.type = type /\ pending' = SortedInsert(again, rest)
    <3>1. CASE type = "TimerInt"
      <4>1. PICK delay \in 1 .. (2 * TimerTicks) :
              pending' = SortedInsert(Interrupt("TimerInt", now + delay), rest)
        BY <3>1 DEF Handle, type, rest, TimeOfNextInterrupt
      <4>2. Interrupt("TimerInt", now + delay) \in Interrupts
        BY MachineAssumption DEF Interrupt, Interrupts
      <4>. QED  BY <3>1, <4>1, <4>2 DEF Interrupt
    <3>2. CASE type = "PollInt"
      <4>1. pending' = SortedInsert(Interrupt("PollInt", now + PollTime), rest)
        BY <3>2 DEF Handle, type, rest
      <4>2. Interrupt("PollInt", now + PollTime) \in Interrupts
        BY MachineAssumption DEF Interrupt, Interrupts
      <4>. QED  BY <3>2, <4>1, <4>2 DEF Interrupt
    <3>. QED  BY <1>4, <3>1, <3>2
  <2>3. /\ SortedInsert(again, rest) \in Seq(Interrupts)
        /\ Range(SortedInsert(again, rest)) = Range(rest) \cup {again}
        /\ TypesOf(SortedInsert(again, rest)) = TypesOf(rest) \cup {again.type}
        /\ OneOfEach(rest) /\ again.type \notin TypesOf(rest)
             => OneOfEach(SortedInsert(again, rest))
    BY <1>1, SortedInsertAdds
  <2>4. InOrder(pending')
    BY <1>1, <2>2, SortedInsertSorts
  <2>. QED  BY <1>1, <1>2, <1>4, <2>1, <2>2, <2>3, <2>4
<1>5. CASE type = "DiskInt"
  <2>1. pending' = rest /\ yieldOnReturn' = yieldOnReturn
    BY <1>5 DEF Handle, type, rest
  <2>. QED  BY <1>1, <1>2, <1>5, <2>1 DEF type
<1>. QED  BY <1>3, <1>4, <1>5

LEMMA NothingFiresOrders ==
  ASSUME MachineTypes, DevicesLive, InOrder(pending), NothingFires
  PROVE  /\ InOrder(pending') /\ Range(pending') = Range(pending)
         /\ OnlyTheTimer' \/ AllLater
         /\ status # IdleMode => AllLater
<1>1. CASE pending = <<>>
  <2>1. pending' = pending
    BY <1>1 DEF NothingFires
  <2>2. Range(pending) = {}
    BY <1>1 DEF Range
  <2>. QED  BY <2>1, <2>2 DEF AllLater
<1>2. CASE pending # <<>>
  <2> DEFINE rest == Tail(pending)
             head == Head(pending)
  <2>1. /\ head \in Interrupts /\ rest \in Seq(Interrupts)
        /\ Range(pending) = Range(rest) \cup {head}
        /\ InOrder(rest)
    BY <1>2, TailKeeps DEF MachineTypes
  <2>2. pending' = SortedInsert(head, rest)
    BY <1>2 DEF NothingFires
  <2>3. Len(rest) = Len(pending) - 1 /\ Len(pending) \in Nat /\ head = pending[1]
    BY <1>2 DEF MachineTypes
  <2>4. ~(head.when <= totalTicks) \/ (status = IdleMode /\ OnlyTheTimer)
    BY <1>2 DEF NothingFires, HeadIsDue
  <2>5. \A e \in Range(pending) : e.when \in Nat /\ head.when <= e.when
    BY <1>2, PendingTimes
  <2> HIDE DEF rest, head
  <2>6. /\ SortedInsert(head, rest) \in Seq(Interrupts)
        /\ Range(SortedInsert(head, rest)) = Range(rest) \cup {head}
        /\ TypesOf(SortedInsert(head, rest)) = TypesOf(rest) \cup {head.type}
        /\ OneOfEach(rest) /\ head.type \notin TypesOf(rest)
             => OneOfEach(SortedInsert(head, rest))
    BY <2>1, SortedInsertAdds
  <2>7. Len(SortedInsert(head, rest)) = Len(rest) + 1
    BY <2>1, SortedInsertShifts
  <2>8. InOrder(pending') /\ Range(pending') = Range(pending)
    BY <2>1, <2>2, <2>6, SortedInsertSorts
  <2>9. ASSUME OnlyTheTimer  PROVE OnlyTheTimer'
    <3>1. Len(pending') = 1 /\ pending' \in Seq(Interrupts)
      BY <2>2, <2>3, <2>6, <2>7, <2>9 DEF OnlyTheTimer
    <3>2. pending'[1] \in Range(pending)
      <4>1. 1 \in DOMAIN pending'
        BY <3>1
      <4>. QED  BY <2>8, <4>1 DEF Range
    <3>3. Range(pending) = {pending[1]}
      <4>1. DOMAIN pending = {1}
        BY <2>9 DEF OnlyTheTimer, MachineTypes
      <4>. QED  BY <4>1 DEF Range
    <3>. QED  BY <2>9, <3>1, <3>2, <3>3 DEF OnlyTheTimer
  <2>10. ~(head.when <= totalTicks) => AllLater
    <3>1. head \in Range(pending) /\ totalTicks \in Nat
      BY <2>1 DEF MachineTypes
    <3>. QED  BY <2>5, <3>1 DEF AllLater
  <2>. QED  BY <2>4, <2>8, <2>9, <2>10
<1>. QED  BY <1>1, <1>2

\* The disk's part, when its interrupt stays where it is.
LEMMA DiskStays ==
  ASSUME MachineTypes, DiskInv, UNCHANGED <<active, bufferInit, request>>,
         totalTicks' \in Nat, totalTicks <= totalTicks',
         \A e \in Range(pending') : e.type = "DiskInt" => e \in Range(pending)
  PROVE  DiskInv'
BY DEF DiskInv, MachineTypes

LEMMA OneTickOrders == ASSUME MachineInv, PendingInv, OneTick  PROVE PendingInv'
<1>1. /\ phase' = "tick" /\ phase \in {"program", "enable"}
      /\ UNCHANGED <<status, pending, yieldOnReturn, active, bufferInit, request>>
  BY DEF OneTick, diskVars
<1>2. totalTicks' \in Nat /\ totalTicks <= totalTicks'
  BY MachineAssumption DEF OneTick, MachineInv, MachineTypes
<1>3. DiskInv'
  BY <1>1, <1>2, DiskStays DEF MachineInv, PendingInv
<1>4. ClockTypes' /\ DueInv'
  BY <1>1 DEF PendingInv, ClockTypes, DueInv, Working
<1>. QED  BY <1>3, <1>4 DEF PendingInv

\* A handler has run, and the clock shows at least the time of its interrupt.
LEMMA FiringOrders ==
  ASSUME MachineInv, PendingInv, pending # <<>>, NEW now \in Nat, Handle(now),
         totalTicks' \in Nat, totalTicks <= totalTicks', Head(pending).when <= totalTicks',
         phase' \in {"tick", "idling"}, status' \in {SystemMode, UserMode, IdleMode},
         phase' = "tick" => status' # IdleMode
  PROVE  PendingInv'
<1>1. /\ InOrder(pending')
      /\ yieldOnReturn' \in {TRUE, yieldOnReturn}
      /\ UNCHANGED <<bufferInit, request>>
      /\ \A e \in Range(pending') : e.type = "DiskInt" => e \in Range(pending)
      /\ active' = active \/ Head(pending).type = "DiskInt"
  BY HandleOrders DEF MachineInv, PendingInv, DueInv
<1>2. ClockTypes' /\ DueInv'
  BY <1>1 DEF PendingInv, ClockTypes, DueInv, Working
<1>3. ~active' => request.onTrack <= totalTicks'
  <2>1. CASE active' = active
    BY <2>1 DEF PendingInv, DiskInv, MachineInv, MachineTypes
  <2>2. CASE Head(pending).type = "DiskInt"
    <3>1. Head(pending) \in Range(pending) /\ Head(pending).when \in Nat
      BY PendingTimes DEF MachineInv
    <3>2. request.onTrack <= Head(pending).when
      BY <2>2, <3>1 DEF PendingInv, DiskInv
    <3>. QED  BY <3>1, <3>2 DEF PendingInv, DiskInv
  <2>. QED  BY <1>1, <2>1, <2>2
<1>4. DiskInv'
  BY <1>1, <1>3 DEF PendingInv, DiskInv
<1>. QED  BY <1>2, <1>4 DEF PendingInv

LEMMA FireDueOrders == ASSUME MachineInv, PendingInv, FireDue  PROVE PendingInv'
<1>1. /\ pending # <<>> /\ Head(pending).when <= totalTicks /\ Handle(totalTicks)
      /\ phase \in {"tick", "idling"} /\ UNCHANGED <<totalTicks, status, phase>>
  BY DEF FireDue, HeadIsDue
<1>2. totalTicks \in Nat /\ totalTicks <= totalTicks
  BY DEF MachineInv, MachineTypes
<1>3. /\ status \in {SystemMode, UserMode, IdleMode}
      /\ phase = "tick" => status # IdleMode
  BY DEF PendingInv, ClockTypes, Working
<1>. QED  BY <1>1, <1>2, <1>3, FiringOrders

LEMMA IdleOrders == ASSUME MachineInv, PendingInv, Idle  PROVE PendingInv'
<1>1. /\ pending # <<>> /\ status' = IdleMode /\ phase' = "idling" /\ Handle(totalTicks')
      /\ totalTicks' = Max({totalTicks, Head(pending).when})
  BY DEF Idle
<1>2. Head(pending).when \in Nat /\ totalTicks \in Nat
  BY <1>1, PendingTimes DEF MachineInv, MachineTypes
<1> DEFINE S == {totalTicks, Head(pending).when}
<1>3. Max(S) \in S /\ \A x \in S : Max(S) >= x
  <2>1. \E x \in S : \A y \in S : x >= y
    BY <1>2
  <2>. QED  BY <2>1 DEF Max
<1>4. totalTicks' \in Nat /\ totalTicks <= totalTicks' /\ Head(pending).when <= totalTicks'
  BY <1>1, <1>2, <1>3
<1>. QED  BY <1>1, <1>4, FiringOrders

LEMMA HaltOrders == ASSUME MachineInv, PendingInv, Halt  PROVE PendingInv'
<1>1. /\ status' = IdleMode /\ phase' = "halted"
      /\ UNCHANGED <<pending, yieldOnReturn, active, bufferInit, request>>
  BY DEF Halt, diskVars
<1>2. totalTicks' \in Nat /\ totalTicks <= totalTicks'
  <2>1. CASE pending = <<>>
    BY <2>1 DEF Halt, MachineInv, MachineTypes
  <2>2. CASE pending # <<>>
    <3>1. Head(pending).when \in Nat /\ totalTicks \in Nat
      BY <2>2, PendingTimes DEF MachineInv, MachineTypes
    <3> DEFINE S == {totalTicks, Head(pending).when}
    <3>2. Max(S) \in S /\ \A x \in S : Max(S) >= x
      <4>1. \E x \in S : \A y \in S : x >= y
        BY <3>1
      <4>. QED  BY <4>1 DEF Max
    <3>3. totalTicks' = Max(S)
      BY <2>2 DEF Halt
    <3>. QED  BY <3>1, <3>2, <3>3
  <2>. QED  BY <2>1, <2>2
<1>3. DiskInv'
  BY <1>1, <1>2, DiskStays DEF MachineInv, PendingInv
<1>4. ClockTypes' /\ DueInv'
  BY <1>1 DEF PendingInv, ClockTypes, DueInv, Working
<1>. QED  BY <1>3, <1>4 DEF PendingInv

\* CheckIfDue has fired nothing, in OneTick or in Idle.
LEMMA QuietOrders ==
  ASSUME MachineInv, PendingInv, EndTick \/ EndIdle  PROVE PendingInv'
<1>1. /\ NothingFires /\ UNCHANGED <<totalTicks, active, bufferInit, request>>
      /\ totalTicks \in Nat /\ totalTicks <= totalTicks
  BY DEF EndTick, EndIdle, diskVars, MachineInv, MachineTypes
<1>2. /\ InOrder(pending') /\ Range(pending') = Range(pending)
      /\ OnlyTheTimer' \/ AllLater
      /\ status # IdleMode => AllLater
  BY <1>1, NothingFiresOrders DEF MachineInv, PendingInv, DueInv
<1>3. DiskInv'
  BY <1>1, <1>2, DiskStays DEF MachineInv, PendingInv
<1>4. AllLater' <=> AllLater
  BY <1>1, <1>2 DEF AllLater
<1>5. CASE EndTick
  <2>1. /\ phase = "tick" /\ phase' \in {"enable", "program"}
        /\ \/ status' = SystemMode
           \/ status' = IF resume[currentThread] = NotSaved THEN status ELSE resume[currentThread]
    BY <1>5 DEF EndTick
  <2>0. yieldOnReturn' \in BOOLEAN
    BY <1>5 DEF EndTick, PendingInv, ClockTypes
  <2>2. status # IdleMode /\ status \in {SystemMode, UserMode, IdleMode}
    BY <2>1 DEF PendingInv, ClockTypes, Working
  <2>3. status' \in {SystemMode, UserMode}
    <3>1. resume[currentThread] \in {NotSaved, SystemMode, UserMode}
      BY DEF MachineInv, MachineTypes
    <3>. QED  BY <2>1, <2>2, <3>1
  <2>4. status' # IdleMode
    BY <2>3 DEF SystemMode, UserMode, IdleMode
  <2>5. ClockTypes'
    BY <1>1, <2>0, <2>1, <2>3, <2>4 DEF PendingInv, ClockTypes
  <2>6. DueInv'
    BY <1>2, <1>4, <2>2 DEF DueInv
  <2>. QED  BY <1>3, <2>5, <2>6 DEF PendingInv
<1>6. CASE EndIdle
  <2>1. yieldOnReturn' = FALSE /\ status' = SystemMode /\ phase' \in {"enable", "idle"}
    BY <1>6, DispatchKeeps DEF EndIdle, MachineInv
  <2>2. ClockTypes'
    BY <1>1, <2>1 DEF PendingInv, ClockTypes, SystemMode, IdleMode
  <2>3. DueInv'
    BY <1>2, <1>4, <2>1 DEF DueInv
  <2>. QED  BY <1>3, <2>2, <2>3 DEF PendingInv
<1>. QED  BY <1>5, <1>6

LEMMA ProgramOrders ==
  ASSUME MachineInv, PendingInv, ChangeMode \/ Finish  PROVE PendingInv'
<1>1. /\ phase = "program" /\ phase' \in {"program", "enable", "idle"}
      /\ status' \in {SystemMode, UserMode, status}
      /\ UNCHANGED <<totalTicks, pending, yieldOnReturn, active, bufferInit, request>>
  <2>1. CASE ChangeMode
    BY <2>1 DEF ChangeMode, Trap, Runs, diskVars
  <2>2. CASE Finish
    BY <2>2, DispatchKeeps DEF Finish, Runs, diskVars, MachineInv
  <2>. QED  BY <2>1, <2>2
<1>2. ClockTypes'
  BY <1>1 DEF PendingInv, ClockTypes, Working, SystemMode, UserMode, IdleMode
<1>3. DueInv'
  BY <1>1 DEF PendingInv, DueInv, AllLater
<1>4. DiskInv'
  BY <1>1 DEF PendingInv, DiskInv
<1>. QED  BY <1>2, <1>3, <1>4 DEF PendingInv

LEMMA RequestOrders ==
  ASSUME MachineInv, PendingInv, NEW sector \in Sectors, NEW writing \in BOOLEAN,
         Request(sector, writing)
  PROVE  PendingInv'
<1> DEFINE latency == ComputeLatency(sector, writing, totalTicks, lastSector, bufferInit)
           item == Interrupt("DiskInt", totalTicks + latency)
<1>1. PICK seek \in Nat : seek = Seek(sector, lastSector)
  BY Seeks DEF MachineInv, MachineTypes
<1>2. PICK arrived \in Nat : arrived = totalTicks + seek
  BY DEF MachineInv, MachineTypes
<1>3. PICK since : since = IF seek = 0 THEN request.onTrack ELSE arrived
  OBVIOUS
<1>4. PICK done : done = totalTicks + latency
  OBVIOUS
<1>5. /\ Runs("system") /\ ~active /\ active' = TRUE /\ Dispatch
      /\ bufferInit' = BufferInit(sector, totalTicks, lastSector, bufferInit)
      /\ pending' = SortedInsert(item, pending)
      /\ request'.sector = sector /\ request'.writing = writing /\ request'.issued = totalTicks
      /\ request'.arrived = arrived /\ request'.onTrack = since
      /\ UNCHANGED <<totalTicks, status, yieldOnReturn>>
  BY <1>1, <1>2, <1>3 DEF Request
<1>6. /\ done \in Nat /\ since \in Nat /\ since <= done
      /\ OnTime(sector, writing, totalTicks, arrived, since, done)
  <2>1. /\ lastSector \in Sectors /\ totalTicks \in Nat /\ bufferInit \in Nat
        /\ request.onTrack \in Nat /\ bufferInit % RotationTime = 0
        /\ request.onTrack <= bufferInit /\ request.onTrack <= totalTicks
    BY <1>5 DEF MachineInv, MachineTypes, PendingInv, ClockTypes, DiskInv
  <2>. QED  BY <1>1, <1>2, <1>3, <1>4, <2>1, LatencyIsRight
<1>7. /\ bufferInit' \in Nat /\ bufferInit' % RotationTime = 0 /\ since <= bufferInit'
  <2>1. CASE seek = 0
    BY <1>1, <1>3, <1>5, <2>1 DEF BufferInit, PendingInv, ClockTypes, DiskInv
  <2>2. CASE seek # 0
    <3>1. bufferInit' = arrived + RoundUp(arrived)
      BY <1>1, <1>2, <1>5, <2>2 DEF BufferInit
    <3>2. arrived \in Int
      OBVIOUS
    <3>3. RoundUp(arrived) \in Nat /\ (arrived + RoundUp(arrived)) % RotationTime = 0
      BY <3>2, RoundsUp, DiskConstants
    <3>. QED  BY <1>3, <2>2, <3>1, <3>3
  <2>. QED  BY <2>1, <2>2
<1>8. item \in Interrupts /\ item.type = "DiskInt" /\ item.when = done
  BY <1>4, <1>6 DEF Interrupt, Interrupts
<1> HIDE DEF item, latency
<1>9. /\ SortedInsert(item, pending) \in Seq(Interrupts)
      /\ Range(SortedInsert(item, pending)) = Range(pending) \cup {item}
      /\ TypesOf(SortedInsert(item, pending)) = TypesOf(pending) \cup {item.type}
      /\ OneOfEach(pending) /\ item.type \notin TypesOf(pending)
           => OneOfEach(SortedInsert(item, pending))
  BY <1>8, SortedInsertAdds DEF MachineInv, MachineTypes
<1>10. Range(pending') = Range(pending) \cup {item} /\ InOrder(pending')
  BY <1>5, <1>8, <1>9, SortedInsertSorts DEF MachineInv, MachineTypes, PendingInv, DueInv
<1>11. ClockTypes'
  <2>1. phase' \in {"idle", "enable"}
    BY <1>5, DispatchKeeps DEF MachineInv
  <2>. QED  BY <1>5, <1>7, <2>1 DEF PendingInv, ClockTypes, Working, Runs
<1>12. DueInv'
  <2>1. done > totalTicks
    <3>1. done >= totalTicks + RotationTime
      BY <1>6 DEF OnTime
    <3>. QED  BY <1>6, <3>1, DiskConstants DEF MachineInv, MachineTypes
  <2>2. AllLater'
    BY <1>5, <1>8, <1>10, <2>1 DEF PendingInv, DueInv, AllLater, Runs
  <2>. QED  BY <1>10, <2>2 DEF DueInv
<1>13. DiskInv'
  <2>1. \A e \in Range(pending) : e.type # "DiskInt"
    BY <1>5 DEF MachineInv, DevicesLive, TypesOf, Range
  <2>. QED  BY <1>5, <1>6, <1>7, <1>8, <1>10, <2>1 DEF DiskInv
<1>. QED  BY <1>11, <1>12, <1>13 DEF PendingInv

LEMMA PendingInvStep == ASSUME MachineInv, PendingInv, [Next]_vars  PROVE PendingInv'
<1>1. CASE UNCHANGED vars
  BY <1>1 DEF vars, clockVars, diskVars, PendingInv, ClockTypes, Working, DueInv, AllLater,
              OnlyTheTimer, DiskInv
<1>. QED  BY <1>1, OneTickOrders, FireDueOrders, QuietOrders, IdleOrders, HaltOrders,
             ProgramOrders, RequestOrders DEF Next

LEMMA PendingStarts == Init => PendingInv
<1> SUFFICES ASSUME Init PROVE PendingInv
  OBVIOUS
<1>0. MachineInv
  BY Starts
<1>1. PICK delay \in 1 .. (2 * TimerTicks) :
        pending =
          LET timer == IF "TimerInt" \in attached THEN <<Interrupt("TimerInt", delay)>> ELSE <<>>
          IN IF "PollInt" \in attached
               THEN SortedInsert(Interrupt("PollInt", PollTime), timer) ELSE timer
  BY DEF Init, TimeOfNextInterrupt
<1> DEFINE timer == IF "TimerInt" \in attached THEN <<Interrupt("TimerInt", delay)>> ELSE <<>>
           poll  == Interrupt("PollInt", PollTime)
<1>2. Interrupt("TimerInt", delay) \in Interrupts /\ poll \in Interrupts /\ poll.when > 0
  BY MachineAssumption DEF Interrupt, Interrupts
<1>3. timer \in Seq(Interrupts) /\ InOrder(timer) /\ \A e \in Range(timer) : e.when > 0
  <2>1. CASE "TimerInt" \in attached
    <3>1. timer = <<Interrupt("TimerInt", delay)>>
      BY <2>1
    <3> HIDE DEF timer
    <3>2. timer \in Seq(Interrupts) /\ DOMAIN timer = {1} /\ timer[1].when > 0
      BY <1>2, <3>1 DEF Interrupt
    <3>. QED  BY <3>2 DEF InOrder, Range
  <2>2. CASE "TimerInt" \notin attached
    <3>1. timer = <<>>
      BY <2>2
    <3> HIDE DEF timer
    <3>2. timer \in Seq(Interrupts) /\ DOMAIN timer = {}
      BY <3>1
    <3>. QED  BY <3>2 DEF InOrder, Range
  <2>. QED  BY <2>1, <2>2
<1>4. pending = IF "PollInt" \in attached THEN SortedInsert(poll, timer) ELSE timer
  BY <1>1
<1> HIDE DEF timer, poll
<1>5. InOrder(pending)
  BY <1>2, <1>3, <1>4, SortedInsertSorts
<1>6. ClockTypes
  <2>1. 0 \in Sectors
    BY DiskAssumption DEF Sectors
  <2>. QED  BY <2>1 DEF Init, ClockTypes, Working, SystemMode, UserMode, IdleMode
<1>7. DueInv
  <2>1. \A e \in Range(pending) : e.when > 0
    <3>1. CASE "PollInt" \in attached
      <4>1. /\ SortedInsert(poll, timer) \in Seq(Interrupts)
            /\ Range(SortedInsert(poll, timer)) = Range(timer) \cup {poll}
            /\ TypesOf(SortedInsert(poll, timer)) = TypesOf(timer) \cup {poll.type}
            /\ OneOfEach(timer) /\ poll.type \notin TypesOf(timer)
                 => OneOfEach(SortedInsert(poll, timer))
        BY <1>2, <1>3, SortedInsertAdds
      <4>. QED  BY <1>2, <1>3, <1>4, <3>1, <4>1
    <3>2. CASE "PollInt" \notin attached
      BY <1>3, <1>4, <3>2
    <3>. QED  BY <3>1, <3>2
  <2>. QED  BY <1>5, <2>1 DEF Init, DueInv, AllLater
<1>8. DiskInv
  <2>1. \A e \in Range(pending) : e.type # "DiskInt"
    BY <1>0 DEF Init, MachineInv, DevicesLive, TypesOf, Range
  <2>2. 0 % RotationTime = 0
    <3>1. PICK n \in Nat \ {0} : n = RotationTime
      BY DiskConstants
    <3>2. (n * 0 + 0) % n = 0 /\ n * 0 + 0 = 0
      BY QuotientIs
    <3>. QED  BY <3>1, <3>2
  <2>3. bufferInit = 0 /\ totalTicks = 0 /\ request.onTrack = 0
    BY DEF Init
  <2>. QED  BY <2>1, <2>2, <2>3 DEF DiskInv
<1>. QED  BY <1>6, <1>7, <1>8 DEF PendingInv

\* With at most one interrupt of a kind, those of a kind are counted.
LEMMA OneIsScheduled ==
  ASSUME MachineInv, NEW type
  PROVE  Cardinality(Scheduled(type)) = IF type \in TypesOf(pending) THEN 1 ELSE 0
<1>1. CASE type \in TypesOf(pending)
  <2>1. PICK i \in DOMAIN pending : pending[i].type = type
    BY <1>1 DEF TypesOf
  <2>2. Scheduled(type) = {i}
    BY <2>1 DEF Scheduled, MachineInv, DevicesLive, OneOfEach
  <2>. QED  BY <1>1, <2>2, FS_Singleton
<1>2. CASE type \notin TypesOf(pending)
  <2>1. Scheduled(type) = {}
    BY <1>2 DEF Scheduled, TypesOf
  <2>. QED  BY <1>2, <2>1, FS_EmptySet
<1>. QED  BY <1>1, <1>2

LEMMA PendingInvSuffices ==
  ASSUME MachineInv, PendingInv  PROVE PendingIsRight /\ SectorPassesUnderHead
<1>1. MachineTypeOK
  <2>1. \A i \in DOMAIN pending : pending[i].type \in {"TimerInt", "PollInt", "DiskInt"}
    <3>1. \A i \in DOMAIN pending : pending[i] \in Interrupts
      BY DEF MachineInv, MachineTypes
    <3>. QED  BY <3>1 DEF Interrupts
  <2>. QED  BY <2>1 DEF MachineTypeOK, MachineInv, MachineTypes, DevicesLive, PendingInv, ClockTypes
<1>2. DevicesStayScheduled
  <2>1. \A type \in {"TimerInt", "PollInt"} :
           Cardinality(Scheduled(type)) = IF type \in attached THEN 1 ELSE 0
    BY OneIsScheduled DEF MachineInv, DevicesLive
  <2>2. Cardinality(Scheduled("DiskInt")) = IF active THEN 1 ELSE 0
    BY OneIsScheduled DEF MachineInv, DevicesLive
  <2>3. {t \in Threads : mode[t] = "disk"} = IF active THEN {request.by} ELSE {}
    <3>1. CASE active
      BY <3>1 DEF MachineInv, DevicesLive
    <3>2. CASE ~active
      BY <3>2 DEF MachineInv, DevicesLive
    <3>. QED  BY <3>1, <3>2
  <2>. QED  BY <2>1, <2>2, <2>3 DEF DevicesStayScheduled
<1>3. NothingOverdue
  <2>1. \A i \in DOMAIN pending : pending[i] \in Range(pending)
    BY DEF Range
  <2>2. \A i, j \in DOMAIN pending : i < j => pending[i].when <= pending[j].when
    BY DEF PendingInv, DueInv, InOrder
  <2>3. phase \in {"program", "enable", "idle"} =>
          OnlyTheTimer \/ \A i \in DOMAIN pending : pending[i].when > totalTicks
    BY <2>1 DEF PendingInv, DueInv, AllLater
  <2>. QED  BY <2>2, <2>3 DEF NothingOverdue
<1>4. SectorPassesUnderHead
  <2>. SUFFICES ASSUME NEW i \in Scheduled("DiskInt")
                PROVE  OnTime(request.sector, request.writing, request.issued, request.arrived,
                              request.onTrack, pending[i].when)
    BY DEF SectorPassesUnderHead, OnTime
  <2>1. pending[i] \in Range(pending) /\ pending[i].type = "DiskInt"
    BY DEF Scheduled, Range
  <2>. QED  BY <2>1 DEF PendingInv, DiskInv
<1>. QED  BY <1>1, <1>2, <1>3, <1>4 DEF PendingIsRight

\* Nothing is lost, doubled or late among the pending interrupts, for any
\* devices, periods and threads: however they fire, are put back by CheckIfDue
\* and scheduled again, each device has its one interrupt and the list its order.
THEOREM PendingStaysRight == MachineSpec => []PendingIsRight
<1>1. MachineInv /\ PendingInv /\ [Next]_vars => (MachineInv /\ PendingInv)'
  BY MachineInvStep, PendingInvStep
<1>2. MachineInv /\ PendingInv => PendingIsRight
  BY PendingInvSuffices
<1>. QED  BY <1>1, <1>2, Starts, PendingStarts, PTL DEF MachineSpec

\* Disk::ComputeLatency with its track buffer is right for a disk of any
\* geometry and requests at any time: the whole sector has passed under the head
\* when the interrupt comes, and the disk did not wait for another turn.
THEOREM LatencyIsGeometry == MachineSpec => []SectorPassesUnderHead
<1>1. MachineInv /\ PendingInv /\ [Next]_vars => (MachineInv /\ PendingInv)'
  BY MachineInvStep, PendingInvStep
<1>2. MachineInv /\ PendingInv => SectorPassesUnderHead
  BY PendingInvSuffices
<1>. QED  BY <1>1, <1>2, Starts, PendingStarts, PTL DEF MachineSpec
=============================================================================
