---------------------------- MODULE DiskLatency -----------------------------
(***************************************************************************)
(* How long the simulated disk takes for a request (machine/disk.cc).  The *)
(* head is at a sector boundary whenever the clock is a multiple of        *)
(* RotationTime; "now" is stats->totalTicks.                               *)
(***************************************************************************)
EXTENDS Integers

CONSTANTS RotationTime,     \* ticks for one sector to pass under the head
          SeekTime,         \* ticks for the head to move past one track
          SectorsPerTrack, NumTracks

ASSUME DiskAssumption ==
  {RotationTime, SeekTime, SectorsPerTrack, NumTracks} \subseteq Nat \ {0}

Sectors == 0 .. (SectorsPerTrack * NumTracks - 1)

TrackOf(sector) == sector \div SectorsPerTrack

Distance(a, b) == IF a < b THEN b - a ELSE a - b

\* Disk::TimeToSeek: what it returns ...
Seek(new, last) == Distance(TrackOf(new), TrackOf(last)) * SeekTime

\* ... and its *rotation, the rest of the sector that passes by then.
RoundUp(time) == (-time) % RotationTime

ModuloDiff(to, from) ==
  ((to % SectorsPerTrack) - (from % SectorsPerTrack) + SectorsPerTrack) % SectorsPerTrack

\* Mutant of InTrackBuffer: a sector that is passing by counts as buffered.
InTrackBufferEarly(new, timeAfter, init) ==
  (timeAfter - init) \div RotationTime >= ModuloDiff(new, init \div RotationTime)

\* The track buffer, filled since the boundary "init", has all of the sector.
InTrackBuffer(new, timeAfter, init) ==
  (timeAfter - init) \div RotationTime > ModuloDiff(new, init \div RotationTime)

\* Disk::ComputeLatency, with lastSector and bufferInit as parameters.
ComputeLatency(new, writing, now, last, init) ==
  LET seek      == Seek(new, last)
      rotation  == RoundUp(now + seek)
      timeAfter == now + seek + rotation IN
  IF ~writing /\ seek = 0 /\ InTrackBuffer(new, timeAfter, init)
    THEN RotationTime
    ELSE seek + rotation + RotationTime
           + ModuloDiff(new, timeAfter \div RotationTime) * RotationTime

\* Disk::UpdateLast: when the track buffer began to be loaded.
BufferInit(new, now, last, init) ==
  LET seek == Seek(new, last) IN
  IF seek # 0 THEN now + seek + RoundUp(now + seek) ELSE init

-----------------------------------------------------------------------------
\* The times at which the sector begins to pass under the head.
Passes(sector, from, to) ==
  {time \in from .. to : /\ time % RotationTime = 0
                         /\ (time \div RotationTime) % SectorsPerTrack
                              = sector % SectorsPerTrack}
=============================================================================
