----------------------------- MODULE FileAccess -----------------------------
(***************************************************************************)
(* The byte arithmetic of OpenFile::ReadAt and OpenFile::WriteAt           *)
(* (filesys/openfile.cc): requests in bytes become whole sectors.  A file  *)
(* is its length and its sectors, each a sequence of "size" bytes; bytes   *)
(* are numbered from 0.                                                    *)
(***************************************************************************)
EXTENDS Integers, Sequences, FiniteSetsExt

CONSTANTS SectorSizes, ByteCounts   \* bounds: of sectors, and of files and requests

ASSUME FileAccessAssumption == SectorSizes \subseteq Nat \ {0} /\ ByteCounts \subseteq Nat

\* Both functions cut a request off at the end of the file.
Cut(numBytes, position, length) ==
  IF position + numBytes > length THEN length - position ELSE numBytes

\* The first and the last sector of bytes at a position, numbered from 0.
FirstSector(position, size)          == position \div size
LastSector(numBytes, position, size) == (position + numBytes - 1) \div size

\* bcopy of n bytes out of the buffer, and of "bytes" into it.
Bytes(buf, at, n) == [i \in 1 .. n |-> buf[at + i]]

Copy(bytes, buf, at) ==
  [i \in DOMAIN buf |-> IF i - at \in DOMAIN bytes THEN bytes[i - at] ELSE buf[i]]

\* Sector i is read into the buffer at (i - first) * size.
ReadAt(sectors, length, numBytes, position, size) ==
  LET n     == Cut(numBytes, position, length)
      first == FirstSector(position, size)
      last  == LastSector(n, position, size)
      buf   == [b \in 1 .. (1 + last - first) * size |->
                 sectors[1 + first + ((b - 1) \div size)][1 + ((b - 1) % size)]] IN
  IF numBytes <= 0 \/ position >= length THEN <<>>
  ELSE Bytes(buf, position - first * size, n)

\* Mutant of ReadsLast: the last sector is not read when the first one is.
ReadsLastAlone(first, last, firstAligned, lastAligned) == ~lastAligned /\ firstAligned

\* WriteAt has to read the last sector: it is written in part, and it is not
\* the first one, which has been read.
ReadsLast(first, last, firstAligned, lastAligned) ==
  ~lastAligned /\ (first # last \/ firstAligned)

\* The sectors after WriteAt; a new buffer holds bytes that are not set.
WriteAt(sectors, length, from, position, size, unset) ==
  LET n            == Cut(Len(from), position, length)
      first        == FirstSector(position, size)
      last         == LastSector(n, position, size)
      firstAligned == position = first * size
      lastAligned  == position + n = (last + 1) * size
      SectorOf(i)  == ReadAt(sectors, length, size, i * size, size)
      new   == [i \in 1 .. (1 + last - first) * size |-> unset]
      buf1  == IF firstAligned THEN new ELSE Copy(SectorOf(first), new, 0)
      buf2  == IF ReadsLast(first, last, firstAligned, lastAligned)
                 THEN Copy(SectorOf(last), buf1, (last - first) * size) ELSE buf1
      buf   == Copy(Bytes(from, 0, n), buf2, position - first * size) IN
  IF Len(from) <= 0 \/ position >= length THEN sectors
  ELSE [i \in DOMAIN sectors |->
         IF i - 1 \in first .. last
           THEN Bytes(buf, (i - 1 - first) * size, size)
           ELSE sectors[i]]

-----------------------------------------------------------------------------
\* The file whose byte number i is OldByte(i), on the sectors it needs.
OldByte(i) == <<"old", i>>
NewByte(i) == <<"new", i>>

FileOf(length, size) ==
  [s \in 1 .. ((length + size - 1) \div size) |-> [b \in 1 .. size |-> OldByte((s - 1) * size + b - 1)]]

\* ReadAt returns the bytes it was asked for as far as the file has them, over
\* any number of sectors and wherever the position falls in one.
ReadsExactly(size, length, position, n) ==
  LET got == ReadAt(FileOf(length, size), length, n, position, size) IN
  /\ Len(got) = Max({0, Min({n, length - position})})
  /\ \A i \in DOMAIN got : got[i] = OldByte(position + i - 1)

\* WriteAt changes the bytes it was asked to, as far as the file has them, and
\* no other byte of the file: whole sectors are written, and the parts of them
\* that were not asked for are what the disk had, never the unset buffer.
WritesExactly(size, length, position, n) ==
  LET after == WriteAt(FileOf(length, size), length, [i \in 1 .. n |-> NewByte(i)], position,
                       size, <<"unset", 0>>)
      Byte(i) == after[1 + (i \div size)][1 + (i % size)] IN
  \A i \in 0 .. (length - 1) :
    Byte(i) = IF i \in position .. (position + n - 1) THEN NewByte(i - position + 1) ELSE OldByte(i)

EveryAccessIsExact ==
  \A size \in SectorSizes, length, position, n \in ByteCounts :
    ReadsExactly(size, length, position, n) /\ WritesExactly(size, length, position, n)
=============================================================================
