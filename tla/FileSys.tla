------------------------------- MODULE FileSys -------------------------------
(***************************************************************************)
(* The file system on the simulated disk: FileSystem, Directory,           *)
(* FileHeader and OpenFile of the FILESYS build.  An operation reads the   *)
(* sectors it needs, computes, and then writes sectors back one after the  *)
(* other.  `log' holds the writes still to come: each is a separate step,  *)
(* so every state between two of them is one the disk can be left in when  *)
(* the machine stops.  One operation runs at a time ("there is no          *)
(* synchronization for concurrent accesses", filesys.cc).                  *)
(*                                                                         *)
(* A sector holds one kind of thing.  The map and the directory fit in a   *)
(* sector each, as they do with the sizes of the code.                     *)
(*                                                                         *)
(* A header has room for NumDirect sectors, and FileHeader::Allocate does  *)
(* not ask whether a file needs more: it writes on past its dataSectors.   *)
(* That sets `overrun', and nothing that follows is defined.               *)
(***************************************************************************)
EXTENDS BitMap, Sequences, Functions

CONSTANTS
  FileNames,        \* the names programs use
  NumSectors,       \* 1024 in disk.h
  SectorSize,       \* bytes in a sector
  NumDirect,        \* the entries of dataSectors, 126 in filehdr.h
  NumDirEntries,    \* 10 in filesys.cc
  NumSlots,         \* 15: the slots of openf
  Sizes,            \* the sizes programs give to Create
  Texts,            \* the bytes programs give to Write
  Offsets,          \* the positions programs give to Seek
  MaxIndex          \* bound: the largest value of FileSystem::index

ASSUME FileSysAssumption ==
  /\ NumSectors \in Nat /\ NumSectors >= 6 /\ MaxIndex \in Nat
  /\ NumSlots \in Nat /\ NumSlots > 3 /\ Sizes \subseteq Nat
  /\ SectorSize \in Nat \ {0} /\ NumDirect \in Nat \ {0}
  /\ Texts \subseteq Seq(Nat) /\ Offsets \subseteq Nat
  /\ NumDirEntries \in Nat /\ NumDirEntries >= 2
  /\ {"stdin", "stdout"} \cap FileNames = {}

VARIABLES
  disk,      \* what each sector holds
  log,       \* sector writes of the running operation, in order
  working,   \* the name the running operation is about
  openf,     \* the open files
  index,     \* FileSystem::index
  overrun,   \* Allocate has written past the end of a header
  written    \* history: the bytes written to each file since its creation

vars == <<disk, log, working, openf, index, overrun, written>>

FreeMapSector   == 0
DirectorySector == 1

divRoundUp(n, s) == n \div s + (IF n % s > 0 THEN 1 ELSE 0)

Blank == [i \in 1..SectorSize |-> 0]
(* An OpenFile: the header read when it was opened, its seek position, and *)
(* the name it was opened by; its type matters to the system calls only.   *)
NoFile == [hdr |-> <<>>, name |-> "", pos |-> 0]

-----------------------------------------------------------------------------
(* FileHeader: <<numBytes, dataSectors>>.                                  *)

CanAllocate(bm, size) ==
  NumClear(bm, NumSectors) >= divRoundUp(size, SectorSize)

(* The loop of Allocate stays within dataSectors.                          *)
FitsHeader(size) == divRoundUp(size, SectorSize) <= NumDirect

(* FileHeader::Allocate, when it succeeds: the map and the header.         *)
Allocate(bm, size) ==
  LET sectors == FindBits(bm, NumSectors, divRoundUp(size, SectorSize))
  IN  [map |-> bm \cup Range(sectors), hdr |-> <<size, sectors>>]

(* FileHeader::Deallocate asserts that the sectors are marked, which       *)
(* FreeMapExact implies.                                                   *)
Deallocate(bm, hdr) == bm \ Range(hdr[2])

ByteToSector(hdr, offset) == hdr[2][1 + offset \div SectorSize]

-----------------------------------------------------------------------------
(* OpenFile::ReadAt and WriteAt.                                           *)

Clip(hdr, n, position) ==
  IF position >= hdr[1] THEN 0
  ELSE IF position + n > hdr[1] THEN hdr[1] - position ELSE n

(* The bytes of a sector; a file may be given one that once held a header, *)
(* whose bytes nothing here tells from others.                             *)
Contents(block) == IF block.kind = "data" THEN block.data ELSE Blank

ReadAt(d, hdr, n, position) ==
  [i \in 1..Clip(hdr, n, position) |->
     LET at == position + i - 1
     IN  Contents(d[ByteToSector(hdr, at)])[1 + (at % SectorSize)]]

(* Mutant of SectorAfter: a sector that is partly written is not read in   *)
(* first.                                                                  *)
SectorUnread(d, hdr, bytes, position, first) ==
  [i \in 1..SectorSize |->
     LET at == first + i - 1
     IN  IF at \in position..(position + Len(bytes) - 1)
         THEN bytes[1 + at - position] ELSE 0]

(* The sector that starts at offset `first', after the write: what is not  *)
(* written is read in, up to the end of the file.                          *)
SectorAfter(d, hdr, bytes, position, first) ==
  LET old == ReadAt(d, hdr, SectorSize, first)
  IN  [i \in 1..SectorSize |->
         LET at == first + i - 1
         IN  IF at \in position..(position + Len(bytes) - 1)
             THEN bytes[1 + at - position]
             ELSE IF i <= Len(old) THEN old[i] ELSE 0]

WriteAt(d, hdr, bytes, position) ==
  LET n == Clip(hdr, Len(bytes), position)
      firstSector == position \div SectorSize
      lastSector == (position + n - 1) \div SectorSize
  IN  IF n = 0 THEN <<>>
      ELSE [k \in 1..(1 + lastSector - firstSector) |->
              LET first == (firstSector + k - 1) * SectorSize
              IN  <<ByteToSector(hdr, first),
                    [kind |-> "data",
                     data |-> SectorAfter(d, hdr, SubSeq(bytes, 1, n),
                                          position, first)]>>]

-----------------------------------------------------------------------------
(* Directory: a sequence of entries.                                       *)

FreeEntry == [inUse |-> FALSE, name |-> "", sector |-> 0]

FindIndex(table, name) ==
  IF \E i \in DOMAIN table : table[i].inUse /\ table[i].name = name
  THEN CHOOSE i \in DOMAIN table : table[i].inUse /\ table[i].name = name
  ELSE -1

Find(table, name) ==
  IF FindIndex(table, name) = -1 THEN -1 ELSE table[FindIndex(table, name)].sector

CanAdd(table, name) ==
  /\ FindIndex(table, name) = -1
  /\ \E i \in DOMAIN table : ~table[i].inUse

Add(table, name, sector) ==
  LET i == CHOOSE i \in DOMAIN table :
             ~table[i].inUse /\ \A j \in 1..(i - 1) : table[j].inUse
  IN  [table EXCEPT ![i] = [inUse |-> TRUE, name |-> name, sector |-> sector]]

RemoveEntry(table, name) ==
  [table EXCEPT ![FindIndex(table, name)].inUse = FALSE]

-----------------------------------------------------------------------------
(* FileSystem.  FetchFrom and WriteBack of the map and the directory go    *)
(* through the headers of sectors 0 and 1.                                 *)

MapSector(d) == d[FreeMapSector].hdr[2][1]
DirSector(d) == d[DirectorySector].hdr[2][1]
MapOf(d) == d[MapSector(d)].map
DirOf(d) == d[DirSector(d)].dir

HdrBlock(hdr) == [kind |-> "hdr", hdr |-> hdr]
MapBlock(bm)  == [kind |-> "map", map |-> bm]
DirBlock(tab) == [kind |-> "dir", dir |-> tab]

(* SynchDisk::WriteSector.                                                 *)
WriteSector(d, w) == [d EXCEPT ![w[1]] = w[2]]

(* The tests of Create, in their order.                                    *)
CanCreate(d, name, size) ==
  LET sector == FindBit(MapOf(d), NumSectors)
  IN  /\ Find(DirOf(d), name) = -1
      /\ sector # -1
      /\ CanAdd(DirOf(d), name)
      /\ CanAllocate(Mark(MapOf(d), sector), size)

(* Mutant of CreateWrites: the directory is written before the header.     *)
CreateWritesNameFirst(d, name, size) ==
  LET sector == FindBit(MapOf(d), NumSectors)
      a == Allocate(Mark(MapOf(d), sector), size)
  IN  << <<DirSector(d), DirBlock(Add(DirOf(d), name, sector))>>,
         <<sector, HdrBlock(a.hdr)>>,
         <<MapSector(d), MapBlock(a.map)>> >>

(* What Create writes back: header, directory, map.                        *)
CreateWrites(d, name, size) ==
  LET sector == FindBit(MapOf(d), NumSectors)
      a == Allocate(Mark(MapOf(d), sector), size)
  IN  << <<sector, HdrBlock(a.hdr)>>,
         <<DirSector(d), DirBlock(Add(DirOf(d), name, sector))>>,
         <<MapSector(d), MapBlock(a.map)>> >>

(* The disk after Create.                                                  *)
Created(d, name, size) ==
  LET w == CreateWrites(d, name, size)
  IN  WriteSector(WriteSector(WriteSector(d, w[1]), w[2]), w[3])

(* Mutant of RemoveWrites: the header's sector is not freed.               *)
RemoveWritesKeepHeader(d, name) ==
  LET sector == Find(DirOf(d), name)
  IN  << <<MapSector(d), MapBlock(Deallocate(MapOf(d), d[sector].hdr))>>,
         <<DirSector(d), DirBlock(RemoveEntry(DirOf(d), name))>> >>

(* What Remove writes back: map, directory.                                *)
RemoveWrites(d, name) ==
  LET sector == Find(DirOf(d), name)
  IN  << <<MapSector(d),
           MapBlock(Clear(Deallocate(MapOf(d), d[sector].hdr), sector))>>,
         <<DirSector(d), DirBlock(RemoveEntry(DirOf(d), name))>> >>

(* The constructor with format: headers of the map and the directory, then *)
(* both of them, in the first free sectors.                                *)
Formatted ==
  LET m == Allocate({FreeMapSector, DirectorySector}, SectorSize)
      t == Allocate(m.map, SectorSize)
      blank == [s \in 0..(NumSectors - 1) |-> [kind |-> "data", data |-> Blank]]
  IN  [blank EXCEPT ![FreeMapSector] = HdrBlock(m.hdr),
                    ![DirectorySector] = HdrBlock(t.hdr),
                    ![m.hdr[2][1]] = MapBlock(t.map),
                    ![t.hdr[2][1]] = DirBlock([i \in 1..NumDirEntries |-> FreeEntry])]

(* The rest of the constructor: stdin and stdout are opened before they    *)
(* are created, so on a fresh disk slots 0 and 1 stay empty.               *)
Init ==
  /\ disk = Created(Created(Formatted, "stdin", 0), "stdout", 0)
  /\ log = <<>>
  /\ working = ""
  /\ openf = [s \in 0..(NumSlots - 1) |-> NoFile]
  /\ index = 2
  /\ overrun = FALSE
  /\ written = [n \in FileNames \cup {"stdin", "stdout"} |-> <<>>]

Ready == log = <<>> /\ ~overrun

(* Nachos halts between two operations and starts again without -f.  The   *)
(* constructor now finds stdin and stdout, so that slots 2 and 3 point to  *)
(* them as well as slots 0 and 1, and creates neither.                     *)
Restart ==
  LET std(name) == [hdr |-> disk[Find(DirOf(disk), name)].hdr, name |-> name,
                    pos |-> 0]
  IN  /\ Ready
      /\ openf' = [s \in DOMAIN openf |->
                     CASE s \in {0, 2} -> std("stdin")
                       [] s \in {1, 3} -> std("stdout")
                       [] OTHER -> NoFile]
      /\ index' = 2
      /\ UNCHANGED <<disk, log, working, overrun, written>>

(* The next sector of the running operation is written.                    *)
WriteBack ==
  /\ log # <<>>
  /\ disk' = WriteSector(disk, Head(log))
  /\ log' = Tail(log)
  /\ UNCHANGED <<working, openf, index, overrun, written>>

Create(name, size) ==
  /\ Ready
  /\ working' = name
  /\ overrun' = (CanCreate(disk, name, size) /\ ~FitsHeader(size))
  /\ IF CanCreate(disk, name, size) /\ FitsHeader(size)
     THEN /\ log' = CreateWrites(disk, name, size)
          /\ written' = [written EXCEPT ![name] = [i \in 1..size |-> -1]]
     ELSE UNCHANGED <<log, written>>
  /\ UNCHANGED <<disk, openf, index>>

(* A program does not remove a file while it is open.                      *)
RemoveFile(name) ==
  /\ Ready
  /\ \A s \in DOMAIN openf : openf[s].name # name
  /\ working' = name
  /\ IF Find(DirOf(disk), name) = -1
     THEN UNCHANGED <<log, written>>
     ELSE /\ log' = RemoveWrites(disk, name)
          /\ written' = [written EXCEPT ![name] = <<>>]
  /\ UNCHANGED <<disk, openf, index, overrun>>

FindFreeSlot ==
  IF \E s \in 2..(NumSlots - 1) : openf[s] = NoFile
  THEN CHOOSE s \in 2..(NumSlots - 1) :
         openf[s] = NoFile /\ \A t \in 2..(s - 1) : openf[t] # NoFile
  ELSE -1

(* FileSystem::Open(name, type), called when there is a free slot.         *)
OpenType(name) ==
  LET sector == Find(DirOf(disk), name)
  IN  /\ Ready
      /\ FindFreeSlot # -1
      /\ sector # -1
      /\ openf' = [openf EXCEPT ![FindFreeSlot] =
                     [hdr |-> disk[sector].hdr, name |-> name, pos |-> 0]]
      /\ UNCHANGED <<disk, log, working, index, overrun, written>>

(* FileSystem::Open(name) opens the file, drops it, and returns slot       *)
(* `index' of openf.                                                       *)
OpenByIndex(name) ==
  /\ Ready
  /\ index < MaxIndex
  /\ index' = index + 1
  /\ UNCHANGED <<disk, log, working, openf, overrun, written>>

(* OpenFile::Read and Write on a slot; OpenFile::Seek.  The position in    *)
(* the empty files stdin and stdout is left out.                           *)
ReadSlot(s, n) ==
  /\ Ready /\ openf[s] # NoFile
  /\ openf' = [openf EXCEPT ![s].pos = @ + Clip(openf[s].hdr, n, @)]
  /\ UNCHANGED <<disk, log, working, index, overrun, written>>

WriteSlot(s, bytes) ==
  LET f == openf[s]
      n == Clip(f.hdr, Len(bytes), f.pos)
  IN  /\ Ready /\ f # NoFile
      /\ working' = f.name
      /\ log' = WriteAt(disk, f.hdr, bytes, f.pos)
      /\ openf' = [openf EXCEPT ![s].pos = @ + n]
      /\ written' = [written EXCEPT ![f.name] =
                       [i \in DOMAIN @ |-> IF i \in (f.pos + 1)..(f.pos + n)
                                           THEN bytes[i - f.pos] ELSE @[i]]]
      /\ UNCHANGED <<disk, index, overrun>>

Seek(s, position) ==
  /\ Ready /\ openf[s] # NoFile
  /\ openf[s].name \in FileNames
  /\ openf' = [openf EXCEPT ![s].pos = position]
  /\ UNCHANGED <<disk, log, working, index, overrun, written>>

Next ==
  \/ WriteBack \/ Restart
  \/ \E n \in FileNames :
       \/ \E size \in Sizes : Create(n, size)
       \/ RemoveFile(n)
       \/ OpenType(n)
       \/ OpenByIndex(n)
  \/ \E s \in DOMAIN openf :
       \/ \E bytes \in Texts : ReadSlot(s, Len(bytes)) \/ WriteSlot(s, bytes)
       \/ \E position \in Offsets : Seek(s, position)

Spec == Init /\ [][Next]_vars

-----------------------------------------------------------------------------
(* Properties.                                                             *)

Entries(d) == {e \in Range(DirOf(d)) : e.inUse}

HeaderOf(d, e) == d[e.sector].hdr

(* The sectors each name uses, and those of the map and the directory.     *)
Used(d, e) == {e.sector} \cup Range(HeaderOf(d, e)[2])
SystemSectors(d) ==
  {FreeMapSector, DirectorySector, MapSector(d), DirSector(d)}

(* Between operations, the map marks exactly the sectors in use, and no    *)
(* sector is used twice: Create, Remove, Allocate and Deallocate, failed   *)
(* attempts included, neither leak nor share a sector.                     *)
FreeMapExact ==
  log = <<>> =>
    /\ MapOf(disk) = SystemSectors(disk)
                     \cup UNION {Used(disk, e) : e \in Entries(disk)}
    /\ \A e \in Entries(disk) :
         /\ Used(disk, e) \cap SystemSectors(disk) = {}
         /\ e.sector \notin Range(HeaderOf(disk, e)[2])
         /\ Cardinality(Range(HeaderOf(disk, e)[2])) = Len(HeaderOf(disk, e)[2])
         /\ \A f \in Entries(disk) \ {e} : Used(disk, e) \cap Used(disk, f) = {}

(* The bytes of a file that were written are on the disk, where its header *)
(* says, whatever the offsets and lengths of the writes.                   *)
Readable(e) ==
  LET hdr == HeaderOf(disk, e)
      bytes == ReadAt(disk, hdr, hdr[1], 0)
  IN  \A i \in DOMAIN written[e.name] :
        written[e.name][i] # -1 => bytes[i] = written[e.name][i]

WrittenIsRead ==
  log = <<>> => \A e \in Entries(disk) : e.name \in FileNames => Readable(e)

(* A stop between two sector writes leaves every name in the directory     *)
(* with its header, and every file but the one worked on with its bytes:   *)
(* the header is written before the directory names it.                    *)
StopKeepsFiles ==
  \A e \in Entries(disk) :
    /\ disk[e.sector].kind = "hdr"
    /\ e.name \in FileNames \ {working} => Readable(e)

=============================================================================
