----------------------------- MODULE FileSystem -----------------------------
(***************************************************************************)
(* The file system: Create, Open and Remove (filesys/filesys.cc), the      *)
(* directory (directory.cc), file headers (filehdr.cc), the bit map of     *)
(* free sectors (userprog/bitmap.cc) and the sectors of open files         *)
(* (openfile.cc).  It runs on SynchDisk: each operation is the sequence of *)
(* ReadSector and WriteSector calls it makes.  Main does the operations,   *)
(* one after the other, since "there is no synchronization for concurrent  *)
(* accesses"; other threads read files that are open.                      *)
(*                                                                         *)
(* A machine that dies loses everything but the disk, so that what a crash *)
(* leaves behind is the variable disk of any reachable state.  Nachos may  *)
(* then be started again on it, without -f.                                *)
(***************************************************************************)
EXTENDS SynchDisk, SequencesExt, FileAccess

CONSTANTS Names, NumDirEntries,
          FreeMapSector, DirectorySector,    \* their headers
          MapBlock, DirBlocks,               \* and their blocks
          FlagsAt, NamesAt,  \* the block with inUse and sector, or the name, of an entry
          Blank,             \* what a free sector holds at first
          NotOpen,
          MaxSize            \* bound: blocks of a file

Entries == 1 .. NumDirEntries

Header(blocks) == [dataSectors |-> blocks]

System  == {FreeMapSector, DirectorySector, MapBlock} \cup Range(DirBlocks)

ASSUME FileSystemAssumption ==
  /\ System \subseteq Sectors /\ Sectors \subseteq Nat /\ IsFiniteSet(Sectors)
  /\ DirBlocks \in Sectors \X Sectors
  /\ IsInjective(<<FreeMapSector, DirectorySector, MapBlock, DirBlocks[1], DirBlocks[2]>>)
  /\ NumDirEntries \in Nat /\ MaxSize \in Nat
  /\ FlagsAt \in [Entries -> Range(DirBlocks)] /\ NamesAt \in [Entries -> Range(DirBlocks)]
  /\ Blank \notin Contents
  /\ \A blocks \in SeqOf(Sectors, MaxSize) : Header(blocks) \notin Contents \cup {Blank}
  /\ NotOpen \notin SeqOf(Contents \cup {Blank} \cup {Header(blocks) : blocks \in SeqOf(Sectors, MaxSize)},
                          MaxSize)

VARIABLES
  operation,  \* what Main is doing
  phase,      \* how far it is: the blocks it wanted are read, or are written
  todo,       \* the sectors it is still to read or write
  handle      \* the OpenFile of each name: the header it keeps, as its blocks

operationVars == <<operation, phase, todo>>
fileVars      == <<synchVars, operationVars, handle>>

None == [kind |-> "none", name |-> NotOpen, size |-> 0]

-----------------------------------------------------------------------------
(***************************************************************************)
(* What sectors hold: bit maps as the set of sectors in use, headers as    *)
(* their dataSectors, and the directory, which takes two blocks, so that   *)
(* an entry may have its name in the second one.                           *)
(***************************************************************************)
EmptyEntry == [inUse |-> FALSE, sector |-> FreeMapSector, name |-> NotOpen]

\* The block of the directory, as Directory::WriteBack writes it.
DirectoryBlock(dir, block) ==
  [flags |-> [e \in {e \in Entries : FlagsAt[e] = block} |-> [use |-> dir[e].inUse, at |-> dir[e].sector]],
   names |-> [e \in {e \in Entries : NamesAt[e] = block} |-> dir[e].name]]

\* Directory::FetchFrom.
Directory ==
  [e \in Entries |->
    [inUse  |-> disk[FlagsAt[e]].flags[e].use,
     sector |-> disk[FlagsAt[e]].flags[e].at,
     name   |-> disk[NamesAt[e]].names[e]]]

InUse == {e \in Entries : Directory[e].inUse}

BlocksOf(e)  == disk[Directory[e].sector].dataSectors
SectorsOf(e) == {Directory[e].sector} \cup Range(BlocksOf(e))

\* The files that a crash at this moment would harm: they have names, but the map
\* has their sectors free, for the next Create to take.
Harmed == {e \in InUse : Directory[e].sector \notin disk[MapBlock]}

\* Directory::FindIndex, as the set of indices with the name.
FindIndex(name) == {e \in Entries : Directory[e].inUse /\ Directory[e].name = name}

\* Directory::Find.
Find(name) == Directory[Min(FindIndex(name))].sector

\* The sectors that successive calls of BitMap::Find return: each time the first
\* that is free.
FreeSectors ==
  LET free == Sectors \ disk[MapBlock] IN
  [n \in 1 .. Cardinality(free) |->
    CHOOSE s \in free : Cardinality({r \in free : r < s}) = n - 1]

WritesDirectory(dir) ==
  <<Reads(DirBlocks[2]), Writes(DirBlocks[1], DirectoryBlock(dir, DirBlocks[1])),
    Writes(DirBlocks[2], DirectoryBlock(dir, DirBlocks[2]))>>

ReadsDirectory == <<Reads(DirBlocks[1]), Reads(DirBlocks[2])>>

-----------------------------------------------------------------------------
\* FileSystem(format = true).
Formatted ==
  [s \in Sectors |->
    CASE s = FreeMapSector   -> Header(<<MapBlock>>)
      [] s = DirectorySector -> Header(DirBlocks)
      [] s = MapBlock        -> System
      [] s \in Range(DirBlocks) -> DirectoryBlock([e \in Entries |-> EmptyEntry], s)
      [] OTHER               -> Blank]

FileSystemInit ==
  /\ SynchDiskInit
  /\ disk = Formatted
  /\ operation = None /\ phase = "idle" /\ todo = <<>>
  /\ handle = [name \in Names |-> NotOpen]

-----------------------------------------------------------------------------
(***************************************************************************)
(* The operations of Main                                                  *)
(***************************************************************************)
MainRuns == InProgram /\ currentThread = Main /\ Is("user")

\* Nobody is reading the file.
NotInUse(name) ==
  \A t \in Threads \ {Main} :
    stage[t] # "user" => call[t].sector \notin Range(handle[name])

\* An operation begins, with the sectors it reads or writes first.
Begins(kind, name, size, calls, next) ==
  /\ operation' = [kind |-> kind, name |-> name, size |-> size]
  /\ todo' = calls
  /\ phase' = next
  /\ UNCHANGED <<synchVars, handle>>

\* Create, Open and Remove all fetch the directory; programs close a file
\* before they remove it (fstest.cc).  OpenFile::WriteAt of one block.
BeginOperation ==
  /\ MainRuns /\ operation = None
  /\ \E name \in Names :
       \/ \E size \in 0 .. MaxSize : Begins("create", name, size, ReadsDirectory, "find")
       \/ handle[name] = NotOpen /\ Begins("open", name, 0, ReadsDirectory, "find")
       \/ handle[name] = NotOpen /\ Begins("remove", name, 0, ReadsDirectory, "find")
       \/ /\ handle[name] # NotOpen
          /\ \E i \in DOMAIN handle[name], block \in Contents :
               Begins("write", name, 0, <<Writes(handle[name][i], block)>>, "flush")

\* delete openFile.
Close ==
  /\ MainRuns /\ operation = None
  /\ \E name \in Names :
       /\ handle[name] # NotOpen /\ NotInUse(name)
       /\ handle' = [handle EXCEPT ![name] = NotOpen]
  /\ UNCHANGED <<synchVars, operationVars>>

\* The next ReadSector or WriteSector of the operation.
NextSector ==
  /\ currentThread = Main /\ todo # <<>>
  /\ CallSector(Head(todo))
  /\ todo' = Tail(todo)
  /\ UNCHANGED <<operation, phase, handle>>

\* Main has the sectors it asked for; only Main writes, so that they are still
\* what the disk holds.
Has(kind, here) ==
  /\ MainRuns /\ todo = <<>>
  /\ operation.kind = kind /\ phase = here

GoesOn(calls, next) ==
  /\ todo' = calls
  /\ phase' = next
  /\ UNCHANGED <<synchVars, operation, handle>>

Ended ==
  /\ operation' = None /\ phase' = "idle"
  /\ UNCHANGED <<synchVars, todo>>

\* The name is looked up: Create wants it to be new, Open and Remove to be there.
LookUp ==
  LET name == operation.name IN
  \/ /\ Has("create", "find")
     /\ IF FindIndex(name) = {} THEN GoesOn(<<Reads(MapBlock)>>, "decide")
        ELSE Ended /\ UNCHANGED handle
  \/ /\ Has("open", "find")
     /\ IF FindIndex(name) # {} THEN GoesOn(<<Reads(Find(name))>>, "decide")
        ELSE Ended /\ UNCHANGED handle
  \/ /\ Has("remove", "find")
     /\ IF FindIndex(name) # {} THEN GoesOn(<<Reads(Find(name)), Reads(MapBlock)>>, "decide")
        ELSE Ended /\ UNCHANGED handle

\* Mutant of DecideCreate: the map is flushed before the directory.
CreatesMapEarly ==
  LET free  == FreeSectors
      entry == {e \in Entries : ~Directory[e].inUse} IN
  /\ Has("create", "decide")
  /\ IF free = <<>> \/ entry = {} \/ Len(free) - 1 < operation.size
       THEN Ended /\ UNCHANGED handle
       ELSE LET sector == Head(free)
                blocks == SubSeq(free, 2, operation.size + 1)
                new    == [inUse |-> TRUE, sector |-> sector, name |-> operation.name] IN
            GoesOn(<<Writes(sector, Header(blocks)),
                     Writes(MapBlock, disk[MapBlock] \cup {sector} \cup Range(blocks))>>
                     \o WritesDirectory([Directory EXCEPT ![Min(entry)] = new]),
                   "flush")

\* Create, with the directory and the bit map in memory: a sector for the
\* header, an entry, the blocks (FileHeader::Allocate); then the header, the
\* directory and the map are written.  When one of them is not to be had the
\* copies in memory are thrown away.
DecideCreate ==
  LET free  == FreeSectors
      entry == {e \in Entries : ~Directory[e].inUse} IN
  /\ Has("create", "decide")
  /\ IF free = <<>> \/ entry = {} \/ Len(free) - 1 < operation.size
       THEN Ended /\ UNCHANGED handle
       ELSE LET sector == Head(free)
                blocks == SubSeq(free, 2, operation.size + 1)
                new    == [inUse |-> TRUE, sector |-> sector, name |-> operation.name] IN
            GoesOn(<<Writes(sector, Header(blocks))>>
                     \o WritesDirectory([Directory EXCEPT ![Min(entry)] = new])
                     \o <<Writes(MapBlock, disk[MapBlock] \cup {sector} \cup Range(blocks))>>,
                   "flush")

\* Open: the OpenFile keeps the header.
DecideOpen ==
  /\ Has("open", "decide")
  /\ handle' = [handle EXCEPT ![operation.name] = disk[Find(operation.name)].dataSectors]
  /\ Ended

\* Mutant of DecideRemove: Directory::Remove clears the last entry in use.
RemovesLastEntry ==
  LET name   == operation.name
      blocks == disk[Find(name)].dataSectors
      index  == Max({e \in Entries : Directory[e].inUse}) IN
  /\ Has("remove", "decide")
  /\ GoesOn(<<Writes(MapBlock, disk[MapBlock] \ (Range(blocks) \cup {Find(name)}))>>
              \o WritesDirectory([Directory EXCEPT ![index].inUse = FALSE]),
            "flush")

\* Remove, with the header and the bit map in memory (FileHeader::Deallocate,
\* BitMap::Clear, Directory::Remove): the map is written before the directory.
DecideRemove ==
  LET name   == operation.name
      blocks == disk[Find(name)].dataSectors
      index  == Min(FindIndex(name)) IN
  /\ Has("remove", "decide")
  /\ GoesOn(<<Writes(MapBlock, disk[MapBlock] \ (Range(blocks) \cup {Find(name)}))>>
              \o WritesDirectory([Directory EXCEPT ![index].inUse = FALSE]),
            "flush")

\* All is written.
Flushed ==
  /\ \E kind \in {"create", "remove", "write"} : Has(kind, "flush")
  /\ Ended
  /\ UNCHANGED handle

MainStep ==
  \/ BeginOperation \/ Close \/ NextSector \/ LookUp
  \/ DecideCreate \/ DecideOpen \/ DecideRemove \/ Flushed

\* OpenFile::ReadAt of one block, by another thread.
ReadBlock ==
  /\ currentThread # Main
  /\ \E name \in Names :
       /\ handle[name] # NotOpen
       /\ \E i \in DOMAIN handle[name] : CallSector(Reads(handle[name][i]))
  /\ UNCHANGED <<operationVars, handle>>

\* Main forks the readers.
ForkReader ==
  /\ MainRuns /\ operation = None
  /\ \E t \in Threads : Fork(t)
  /\ UNCHANGED <<callVars, diskVars, operationVars, handle>>

\* FileSystem(format = false), on the disk that a dead machine has left.  Disks
\* with a harmed file are left out: on those the code hands its sectors out
\* again, as it says itself ("it may corrupt the disk").
Reboot ==
  /\ Harmed = {}
  /\ Restart
  /\ operation' = None /\ phase' = "idle" /\ todo' = <<>>
  /\ handle' = [name \in Names |-> NotOpen]

FileSystemNext ==
  \/ MainStep \/ ReadBlock \/ ForkReader \/ Reboot
  \/ DriverNext /\ UNCHANGED <<operationVars, handle>>

FileSystemSpec == FileSystemInit /\ [][FileSystemNext]_fileVars

-----------------------------------------------------------------------------
(***************************************************************************)
(* Properties                                                              *)
(***************************************************************************)
FileTypeOK ==
  /\ stage \in [Threads -> {"user", "lock"} \cup OwnerStages]
  /\ active \in BOOLEAN /\ requester \in Threads \cup {NoThread}
  /\ operation.kind \in {"none", "create", "open", "remove", "write"}
  /\ phase \in {"idle", "find", "decide", "flush"}
  /\ \A i \in DOMAIN todo : todo[i].sector \in Sectors
  /\ disk[MapBlock] \subseteq Sectors
  /\ \A name \in Names : handle[name] # NotOpen => Range(handle[name]) \subseteq Sectors \ System

\* Whenever the machine dies, the files it leaves can be read: every entry of
\* the directory names a header, and no two files share a sector, with each
\* other or with the file system's own (the order of the writes in Create).
CrashLeavesFiles ==
  /\ \A e \in InUse :
       /\ disk[Directory[e].sector] \notin Contents \cup {Blank}
       /\ SectorsOf(e) \cap System = {}
  /\ \A e, f \in InUse : e # f => SectorsOf(e) \cap SectorsOf(f) = {}

\* What "it may corrupt the disk" (filesys.cc) comes to.  A crash in the middle of
\* Create or Remove harms one file at most, the one that is being created or
\* removed, and that one wholly: the map has all its sectors free.  (Its name may
\* still be the old one of its entry, when it lies in the block that is written
\* later.)  All other files have their names, each its own, and the map has their
\* sectors and the file system's and no others, so that nothing is lost either.
CrashHarmsOneFile ==
  LET whole == InUse \ Harmed IN
  /\ \A e, f \in Harmed : e = f
  /\ \A e \in Harmed :
       /\ operation.kind \in {"create", "remove"} /\ phase = "flush"
       /\ operation.kind = "remove" => Directory[e].name = operation.name
       /\ SectorsOf(e) \cap disk[MapBlock] = {}
  /\ \A e \in whole : Directory[e].name \in Names
  /\ \A e, f \in whole : Directory[e].name = Directory[f].name => e = f
  /\ disk[MapBlock] = System \cup UNION {SectorsOf(e) : e \in whole}

\* Between two operations a crash harms nobody, whatever failed before, crashes
\* included: the disk is an exact file system.
NobodyIsHarmedAtRest == operation = None => Harmed = {}

\* What a crash leaves at any moment: files that can be read and do not overlap,
\* all of them whole but the one that is being created or removed.
CrashesAreContained ==
  FileTypeOK /\ CrashLeavesFiles /\ CrashHarmsOneFile /\ NobodyIsHarmedAtRest

\* Whoever has a file open reads and writes exactly the bytes it asks for, for
\* every alignment of a request with the sectors and with the end of the file
\* (OpenFile::ReadAt and WriteAt).
AccessIsExact ==
  (\E name \in Names : handle[name] # NotOpen) => EveryAccessIsExact

\* The name of an entry; that of a file being created, whose sectors the map does
\* not have yet, may be on its way to the second block of the directory.
NameOf(e) ==
  IF operation.kind = "create" /\ Directory[e].sector \notin disk[MapBlock]
    THEN operation.name ELSE Directory[e].name

\* What its blocks hold.
DataOf(e) == [i \in DOMAIN BlocksOf(e) |-> disk[BlocksOf(e)[i]]]

NamedFiles ==
  [name \in Names |->
    LET found == {e \in InUse : NameOf(e) = name} IN
    IF found = {} THEN NotOpen ELSE DataOf(Min(found))]

AbstractFiles == INSTANCE Files WITH
  Absent <- NotOpen, files <- NamedFiles, doing <- <<operation.kind, operation.name>>

\* Create, Remove and WriteAt change one file at a time, and nothing else the
\* programs do changes any, wherever the disk is between two of their sectors.
ImplementsFiles == AbstractFiles!Spec
=============================================================================
