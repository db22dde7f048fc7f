------------------------------- MODULE Loader -------------------------------
(***************************************************************************)
(* From the linked program to a running address space: bin/coff2noff,      *)
(* AddrSpace::AddrSpace with the frame bitmap and addrLock, and the start  *)
(* of the program.  A thread can lose the processor when addrLock->P and   *)
(* addrLock->V enable interrupts again, and nowhere else in the            *)
(* constructor.  A byte is a number; that of the k-th byte of a section is *)
(* its tag plus k, and 0 is the zero byte.                                 *)
(***************************************************************************)
EXTENDS BitMap, Sequences, SequencesExt

CONSTANTS
  Procs,           \* the processes that are started
  Programs,        \* the programs as linked: sequences of sections
  PageSize, UserStackSize,
  NumFrames,       \* bits of gPhysPageBitMap
  NumPhysPages,    \* frames of machine->mainMemory
  Stores           \* the addresses that programs store to

ASSUME LoaderAssumption ==
  PageSize \in Nat \ {0} /\ NumFrames \in Nat /\ NumPhysPages \in Nat

VARIABLES
  pc,                \* where each process is in the constructor
  exec,              \* its program and the NOFF file made from it
  gPhysPageBitMap, addrLock,
  space,             \* numPages and the frames of pageTable
  mainMemory,
  image,             \* history: the memory that the program should see
  halted             \* Interrupt::Halt has been called

lvars == <<pc, exec, gPhysPageBitMap, addrLock, space, mainMemory, image, halted>>

divRoundUp(n, s) == n \div s + (IF n % s > 0 THEN 1 ELSE 0)

-----------------------------------------------------------------------------
(* coff2noff.                                                              *)

Tag == [text |-> 100, data |-> 200, rdata |-> 300, sdata |-> 400, sbss |-> 0, bss |-> 0]

Content(s) == [k \in 1..s.size |-> Tag[s.name] + k]

NoSegment == [virtualAddr |-> 0, inFileAddr |-> 0, size |-> 0]
NoHeader  == [ok |-> TRUE, code |-> NoSegment, initData |-> NoSegment,
              uninitData |-> NoSegment, bytes |-> <<>>]

Reject(n) == [n EXCEPT !.ok = FALSE]

Segment(n, s) ==
  [virtualAddr |-> s.paddr, inFileAddr |-> Len(n.bytes), size |-> s.size]

(* One turn of the loop over the sections.                                 *)
ConvertSection(n, s) ==
  CASE ~n.ok \/ s.size = 0 -> n
    [] n.ok /\ s.size # 0 /\ s.name = "text" ->
         [n EXCEPT !.code = Segment(n, s), !.bytes = @ \o Content(s)]
    [] n.ok /\ s.size # 0 /\ s.name \in {"data", "rdata"} ->
         IF n.initData.size # 0 THEN Reject(n)
         ELSE [n EXCEPT !.initData = Segment(n, s), !.bytes = @ \o Content(s)]
    [] n.ok /\ s.size # 0 /\ s.name \in {"bss", "sbss"} ->
         IF n.uninitData.size = 0
         THEN [n EXCEPT !.uninitData = Segment(n, s)]
         ELSE IF s.paddr = n.uninitData.virtualAddr + n.uninitData.size
         THEN Reject(n)
         ELSE [n EXCEPT !.uninitData.size = @ + s.size]
    [] OTHER -> Reject(n)

coff2noff(sections) == FoldLeft(ConvertSection, NoHeader, sections)

-----------------------------------------------------------------------------
(* The other two readers of a linked program in bin/.                      *)

(* LOADSECTION of the interpreter: a section that has contents in the file *)
(* goes to its address.                                                    *)
LoadSection(mem, s) ==
  [a \in DOMAIN mem |-> IF Tag[s.name] # 0 /\ a - s.paddr \in 0..(s.size - 1)
                        THEN Content(s)[a - s.paddr + 1] ELSE mem[a]]

(* load_program, into a memory of n bytes, zero at first.                  *)
load_program(sections, n) ==
  FoldLeft(LoadSection, [a \in 0..(n - 1) |-> 0], sections)

(* One turn of coff2flat's loop.                                           *)
FlattenSection(flat, s) ==
  [top |-> IF s.paddr + s.size > flat.top THEN s.paddr + s.size ELSE flat.top,
   bytes |-> IF s.name \in {"bss", "sbss"} THEN flat.bytes ELSE flat.bytes \o Content(s)]

(* The flat file: the sections one after the other, and zeros up to the    *)
(* end of the stack.                                                       *)
coff2flat(sections) ==
  LET flat == FoldLeft(FlattenSection, [top |-> 0, bytes |-> <<>>], sections)
  IN  [a \in 0..(flat.top + UserStackSize - 1) |->
         IF a < Len(flat.bytes) THEN flat.bytes[a + 1] ELSE 0]

-----------------------------------------------------------------------------
(* AddrSpace::AddrSpace.                                                   *)

numPages(n) ==
  divRoundUp(n.code.size + n.initData.size + n.uninitData.size + UserStackSize, PageSize)

(* The sizes of sections are not negative, and neither is UserStackSize.   *)
ASSUME ProgramsAssumption == \A s \in Programs : numPages(coff2noff(s)) \in Nat

(* The loop that fills pageTable with gPhysPageBitMap->Find.               *)
FillTable(bm, n) ==
  LET frames == FindBits(bm, NumFrames, n)
  IN  [bm |-> bm \cup Range(frames), frames |-> frames]

(* ReadAt into memory: size bytes of the file from pos on, to address to.  *)
(* Bytes beyond the machine's memory go to the host's heap, not modelled.  *)
ReadAt(mem, to, bytes, pos, size) ==
  [a \in DOMAIN mem |-> IF a \in to..(to + size - 1) /\ pos + a - to < Len(bytes)
                        THEN bytes[1 + pos + a - to] ELSE mem[a]]

Zeroed(mem, frames) ==
  [a \in DOMAIN mem |-> IF \E i \in DOMAIN frames : frames[i] = a \div PageSize
                        THEN 0 ELSE mem[a]]

(* The layout computed before the copies.                                  *)
Layout(n) ==
  LET codePages == divRoundUp(n.code.size, PageSize)
      lastCode == n.code.size - (codePages - 1) * PageSize
      temp == n.initData.size - (PageSize - lastCode)
      dataPages == IF temp < 0 THEN 0 ELSE divRoundUp(temp, PageSize)
  IN  [code |-> codePages, lastCode |-> lastCode, data |-> dataPages,
       lastData |-> temp - (dataPages - 1) * PageSize,
       firstData |-> IF temp < 0 THEN n.initData.size ELSE PageSize - lastCode]

(* Mutant of LoadImage: the data pages are read from the start of the      *)
(* data, as if none of it were in the last code page.                      *)
LoadRestarted(mem, n, frames) ==
  LET l == Layout(n)
      page(m, i, size, pos) == ReadAt(m, frames[i] * PageSize, n.bytes, pos, size)
      code == FoldLeft(LAMBDA m, i : page(m, i, IF i < l.code THEN PageSize ELSE l.lastCode,
                                          n.code.inFileAddr + (i - 1) * PageSize),
                       mem, [i \in 1..l.code |-> i])
  IN  FoldLeft(LAMBDA m, j : page(m, l.code + j, IF j < l.data THEN PageSize ELSE l.lastData,
                                  n.initData.inFileAddr + (j - 1) * PageSize),
               code, [j \in 1..l.data |-> j])

LoadImage(mem, n, frames) ==
  LET l == Layout(n)
      base(i) == n.code.virtualAddr + frames[i] * PageSize
      code == FoldLeft(LAMBDA m, i :
                         ReadAt(m, base(i), n.bytes, n.code.inFileAddr + (i - 1) * PageSize,
                                IF i < l.code THEN PageSize ELSE l.lastCode),
                       mem, [i \in 1..l.code |-> i])
      tail == IF l.lastCode < PageSize /\ l.firstData > 0
              THEN ReadAt(code, base(l.code) + l.lastCode, n.bytes,
                          n.initData.inFileAddr, l.firstData)
              ELSE code
  IN  FoldLeft(LAMBDA m, j :
                 ReadAt(m, base(l.code + j), n.bytes,
                        n.initData.inFileAddr + (j - 1) * PageSize + l.firstData,
                        IF j < l.data THEN PageSize ELSE l.lastData),
               tail, [j \in 1..l.data |-> j])

-----------------------------------------------------------------------------

Init ==
  /\ pc = [p \in Procs |-> "new"]
  /\ exec = [p \in Procs |-> [sections |-> <<>>, noff |-> NoHeader]]
  /\ gPhysPageBitMap = Clean /\ addrLock = 1
  /\ space = [p \in Procs |-> [numPages |-> 0, frames |-> <<>>]]
  /\ mainMemory = [a \in 0..(NumPhysPages * PageSize - 1) |-> 9]
  /\ image = [p \in Procs |-> <<>>]
  /\ halted = FALSE

At(p, l) == ~halted /\ pc[p] = l
Goto(p, l) == pc' = [pc EXCEPT ![p] = l]

(* The file is opened and its header read, up to addrLock->P.  A program   *)
(* that coff2noff refused has no file, and does not start.                 *)
OpenExecutable(p, sections) ==
  /\ At(p, "new")
  /\ exec' = [exec EXCEPT ![p] = [sections |-> sections, noff |-> coff2noff(sections)]]
  /\ Goto(p, IF coff2noff(sections).ok THEN "P" ELSE "refused")
  /\ UNCHANGED <<gPhysPageBitMap, addrLock, space, mainMemory, image, halted>>

AddrLockP(p) ==
  /\ At(p, "P") /\ addrLock > 0
  /\ addrLock' = addrLock - 1
  /\ Goto(p, "locked")
  /\ UNCHANGED <<exec, gPhysPageBitMap, space, mainMemory, image, halted>>

(* Mutant of Allocate: one page more than there is passes the test.        *)
AllocateOneMore(p) ==
  LET n == numPages(exec[p].noff)
      t == FillTable(gPhysPageBitMap, n)
  IN  /\ At(p, "locked")
      /\ n <= NumClear(gPhysPageBitMap, NumFrames) + 1
      /\ gPhysPageBitMap' = t.bm
      /\ space' = [space EXCEPT ![p] = [numPages |-> n, frames |-> t.frames]]
      /\ mainMemory' = Zeroed(mainMemory, t.frames)
      /\ Goto(p, "copy")
      /\ addrLock' = addrLock + 1
      /\ UNCHANGED <<exec, image, halted>>

(* From the return of P to that of V.                                      *)
Allocate(p) ==
  LET n == numPages(exec[p].noff)
      t == FillTable(gPhysPageBitMap, n)
  IN  /\ At(p, "locked")
      /\ \/ /\ n <= NumClear(gPhysPageBitMap, NumFrames)
            /\ gPhysPageBitMap' = t.bm
            /\ space' = [space EXCEPT ![p] = [numPages |-> n, frames |-> t.frames]]
            /\ mainMemory' = Zeroed(mainMemory, t.frames)
            /\ Goto(p, "copy")
         \/ /\ n > NumClear(gPhysPageBitMap, NumFrames)
            /\ Goto(p, "run")
            /\ UNCHANGED <<gPhysPageBitMap, space, mainMemory>>
      /\ addrLock' = addrLock + 1
      /\ UNCHANGED <<exec, image, halted>>

(* The copies, InitRegisters and RestoreState.                             *)
Copy(p) ==
  /\ At(p, "copy")
  /\ mainMemory' = LoadImage(mainMemory, exec[p].noff, space[p].frames)
  /\ image' = [image EXCEPT ![p] = load_program(exec[p].sections, space[p].numPages * PageSize)]
  /\ Goto(p, "run")
  /\ UNCHANGED <<exec, gPhysPageBitMap, addrLock, space, halted>>

(* Machine::WriteMem: the running program stores a byte of its own.  With  *)
(* no pages, its first fetch is an AddressErrorException, and that halts   *)
(* the machine, as does a reference to a frame the memory does not have.   *)
Run(p, a) ==
  LET s == space[p]
      frame == s.frames[1 + a \div PageSize]
  IN  /\ At(p, "run")
      /\ IF a >= s.numPages * PageSize \/ frame >= NumPhysPages
         THEN halted' = TRUE /\ UNCHANGED <<pc, mainMemory, image>>
         ELSE /\ mainMemory' = [mainMemory EXCEPT ![frame * PageSize + (a % PageSize)] = 8]
              /\ image' = [image EXCEPT ![p][a] = 8]
              /\ UNCHANGED <<pc, halted>>
      /\ UNCHANGED <<exec, gPhysPageBitMap, addrLock, space>>

(* SC_Exit and ~AddrSpace: the frames are not given back.                  *)
Exit(p) ==
  /\ At(p, "run") /\ space[p].numPages > 0
  /\ Goto(p, "exited")
  /\ space' = [space EXCEPT ![p] = [numPages |-> 0, frames |-> <<>>]]
  /\ UNCHANGED <<exec, gPhysPageBitMap, addrLock, mainMemory, image, halted>>

Next ==
  \E p \in Procs :
    \/ \E s \in Programs : OpenExecutable(p, s)
    \/ AddrLockP(p) \/ Allocate(p) \/ Copy(p) \/ Exit(p)
    \/ \E a \in Stores : Run(p, a)

Spec == Init /\ [][Next]_lvars

-----------------------------------------------------------------------------
(* Properties.                                                             *)

Frames(p) == Range(space[p].frames)

(* A flat file is the image that load_program makes, although coff2flat    *)
(* never looks at the address of a section to place it: also for programs  *)
(* with both .rdata and .data, or .sbss and .bss, that coff2noff refuses.  *)
FlatIsImage(p) ==
  LET flat == coff2flat(exec[p].sections)
  IN  flat = load_program(exec[p].sections, Cardinality(DOMAIN flat))

(* The three ways of the repository to load a program agree.  Every        *)
(* program reads, through its page table, what the interpreter's           *)
(* load_program puts at each address of the linked program (zeros for .bss *)
(* and the stack) and what it has itself written since, whatever other     *)
(* programs are loaded, run or ended in the meantime, as long as its       *)
(* frames are frames of the machine; and coff2flat makes the same image.   *)
ImageSeen ==
  \A p \in Procs :
    /\ FlatIsImage(p)
    /\ pc[p] = "run" /\ Frames(p) \subseteq 0..(NumPhysPages - 1) =>
         \A a \in 0..(space[p].numPages * PageSize - 1) :
           mainMemory[space[p].frames[1 + a \div PageSize] * PageSize + (a % PageSize)]
             = image[p][a]

(* addrLock is taken exactly while a process is between P and V.           *)
LockHeld == addrLock = IF \E p \in Procs : pc[p] = "locked" THEN 0 ELSE 1

(* A load takes all the frames that it needs or none: every page has a     *)
(* frame of the bitmap, of its own, marked as taken.  It gives addrLock    *)
(* back, whether there were enough frames or not.                          *)
FramesOwned ==
  /\ \A p \in Procs : /\ Frames(p) \subseteq gPhysPageBitMap
                      /\ Cardinality(Frames(p)) = space[p].numPages
  /\ \A p, q \in Procs : p # q => Frames(p) \cap Frames(q) = {}
  /\ gPhysPageBitMap \subseteq 0..(NumFrames - 1)
  /\ LockHeld

=============================================================================
