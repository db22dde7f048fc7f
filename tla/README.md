# A verification of Nachos

TLA+ models of the instructional operating system in `src/src/nachos-3.4/code`
(Nachos 3.4 with system calls for files, processes and semaphores added), checked
with TLC on small instances, with theorems checked by TLAPS. Paths below are
relative to `src/src/nachos-3.4/code`.

## The system

Nachos simulates a MIPS machine with its devices, and runs on it a small kernel.
There is one processor. A kernel thread loses it only inside `Thread::Sleep`, or
inside `Thread::Yield`, which `Interrupt::OneTick` calls after a timer interrupt
whenever interrupts are re-enabled; with the timer off (no `-rs`) only the first
happens. So code between two points that re-enable interrupts is atomic, and those
points (the end of every `P`, `V`, `Fork` and `Yield`, and every user instruction)
are where the interleavings are.

The parts rest on each other: devices complete by interrupts, interrupts and
threads meet in semaphores, and the process table, the console, the disk, the
post office and the user semaphores are built from semaphores. `Kernel` models the
bottom of this and is shown to implement `CountingSemaphore`; the modules above
use `P` and `V` as that module describes them.

### Inventory

| part | source | module |
|---|---|---|
| threads, scheduler, semaphores | `threads/thread.cc`, `scheduler.cc`, `synch.cc` | `Kernel`, `CountingSemaphore` |
| interrupts and timer | `machine/interrupt.cc`, `timer.cc` | `Kernel` (any time), `Pending` and `SynchDisk` (simulated time) |
| lists | `threads/list.cc` | `LinkedList` |
| locks, conditions | `threads/synch.cc` | empty bodies, so no state; through their users `SynchDisk`, `PostOffice` |
| process table; Exec, Join, Exit | `threads/ptable.cc`, `pcb.cc`, `userprog/exception.cc`, `progtest.cc` | `ProcTable` |
| user semaphores | `threads/stable.cc` | `STable` |
| file calls on the stub file system | `filesys/filesys.h`, `openfile.h`, `userprog/exception.cc` | `OpenFiles` |
| programs `main`, `sinhvien`, `voinuoc` | `test/*.c` | `TwoTaps`, on `OpenFiles` and `STable` |
| console | `threads/synchcons.cc`, `machine/console.cc` | `SynchConsole`, `ConsoleStream` |
| ReadInt, PrintInt | `userprog/exception.cc` | `IntIO` |
| MIPS simulator, address translation, system call dispatch | `machine/mipssim.cc`, `machine.cc`, `translate.cc`, `userprog/exception.cc`, `test/start.c` | `Mips`, `Machine` |
| interpreter | `bin/execute.c`, `encode.h`, `instr.h`, `int.h` | `Execute` |
| address spaces, frames; object-file tools | `userprog/addrspace.cc`, `bitmap.cc`, `bin/coff2noff.c`, `coff2flat.c` | `Loader`, `BitMap` |
| file system on the disk | `filesys/filesys.cc`, `directory.cc`, `filehdr.cc`, `openfile.cc` | `FileSys`, `BitMap` |
| disk | `filesys/synchdisk.cc`, `machine/disk.cc` | `SynchDisk` |
| network and post office | `machine/network.cc`, `network/post.cc`, `nettest.cc`, `threads/synchlist.cc` | `PostOffice` |

## The modules

**`Kernel`** models threads, semaphores and interrupts together, because the
correctness of each rests on the others. `pc[t]` says where a thread is in kernel
code; each action is a stretch that runs with interrupts off. `Run` includes what
`Scheduler::Run` does after `SWITCH`, which a thread dispatched for the first time
does *not* execute: it starts in `ThreadRoot`. `P` that finds a zero joins the
queue and sleeps; `ResumeP` is its loop testing again; `Release` is the body of
`V`, shared by threads and device handlers. User programs appear as a
version of their state that `UserInstruction` changes in the machine's registers.
A scheduled interrupt may come at any tick. The stacks and `SWITCH` itself are not
represented.

**`CountingSemaphore`** is what a semaphore promises: an atomic test-and-decrement
and an atomic increment. `Kernel` implements it, with `sem` as the set of waiters.

**`Pending`** and **`SynchDisk`** put the clock back. `Pending` is the list of
interrupts sorted by time and the decision of `CheckIfDue`, which takes the first
one off and puts it back. `SynchDisk` runs threads that read and write sectors over
it, with `OneTick`, `Idle` and `Halt`, the timer, and `Disk`'s seek, rotation and
track buffer. `lastSector`, `bufferInit` and the times are those of the code;
`settled` records when the head really reached its track.

**`LinkedList`** is class `List` with its elements and pointers. Everywhere else a
list is the sequence of its items; `ListsAreSequences` in `MCPostOffice` compares
the two for every list that four operations make, one more operation included.

**`ProcTable`** models Exec, Join and Exit: a `P` or `V` is atomic and processes
interleave between them. `numwait`, which the constructor does not initialise,
starts with any value of `Garbage`. `~PCB` deletes the semaphores and then finishes
the thread, so it never returns; using a deleted semaphore sets `fault`, where the
model stops because the behaviour is undefined. The history variable `orderly`
says that no program has yet joined a child twice, or exited with a child it had
not joined.

**`STable`** and **`OpenFiles`** are the calls on named semaphores and on files.
Each call is one action, because none re-enables interrupts before it ends or
waits; a wait inside `P` is an action of its own. `Sem` copies a name into 50
characters without looking at its length: from 52 characters on it is cut short by
the pointer stored behind it, and under a name of `LongNames` the table may hold
any of them. `OpenFiles` keeps the host's files, the fifteen slots with their
positions, the copies between user and kernel memory that stop at a NUL, the modes
in which the host opens a file, and the missing returns: after an error message the
code often carries on, and where that uses an object that is not there `fault` is
set. **`TwoTaps`** composes both with
the three programs that share `output.txt`.

**`SynchConsole`** models `SynchConsole::Read` and `Write` and the device
`Console` under them: `CheckCharAvail` puts a typed character in the one-character
buffer and `CharWritten` ends a `PutChar`, each calling its handler. The byte 0xFF
is the value `EOF`, as it is in the code, where `incoming` is a `char`. A Read of
no bytes tests a variable that was never assigned, so its result is chosen freely.

**`ConsoleStream`** is what the console promises: a line, or a piece of one, is
read or written in one step. The mapping counts what the current Read holds as
unread, and what the current Write has shown so far as not yet displayed.

**`Mips`** holds the tables of opcodes and what each operation computes on words
of `W` bits, four bytes each; **`Machine`** is `OneInstruction` with delayed loads
and branches, `Translate`, `RaiseException` and the system call dispatch, with an
interrupt (registers saved, another program's loaded, and restored) possible after
any instruction. **`IntIO`** converts numbers as `ReadInt` and `PrintInt` do.
**`Execute`** is the other interpreter of the repository, with loads that take
effect at once on flat memory; `Machine` is compared with it, from the registers
that `AddrSpace::InitRegisters` sets.

**`Loader`** follows a program from its linked sections through `coff2noff` into
frames: opening, allocation under `addrLock`, zeroing, the copies of code and data
page by page, stores by the running program, exit. `image` records what the
program should see: what `load_program` of the interpreter makes of the same
sections, and its own stores. `coff2flat` is there as well; a program with a section that
`coff2noff` does not know is refused by it and not by `coff2flat`. The loops that
take one clear bit after another from a `BitMap`, here and in
`FileHeader::Allocate`, are `FindBits`, which gives the n-th clear bit directly, so
that it can be reasoned about without induction; `MCLoader` compares it with the
loop.

**`FileSys`** is the file system on the simulated disk. An operation computes and
then writes sectors one after another; `log` holds the writes still to come, so
every state between two of them is one in which the machine may stop. `Restart`
is a halt and a start without `-f`. The map and the directory fit one sector, as
with the sizes of the code. A header has `NumDirect` entries for sectors, which
`FileHeader::Allocate` never compares with what a file needs: a larger file is
written on past them, which sets `overrun`, and the model stops there.

**`PostOffice`** is two machines that run `MailTest`. The network may lose a
packet; the receiving side has a buffer for one, which the polling interrupt fills
and the postal worker empties. `Condition::Wait` is `ASSERT(FALSE)`, so a Receive
on an empty mailbox stops that machine.

The **`MC...`** modules give constants for TLC and, in `MCUser` and `MCMachine`,
the programs that run; the `...Proofs` modules hold the theorems. Definitions
introduced as "Mutant of ..." are altered forms of an operation; each property is
violated when one of them takes its place, which shows that the property depends on
that code.

## The runs

| run | instance | shows |
|---|---|---|
| `kernel` | 3 threads, two of them programs, a semaphore, a device, the timer, fairness | `ThreadPlacement`, `NoLostWakeup`, `UserContextPreserved`, `DeletedOnlyWhenDone`, `ImplementsCountingSemaphore`, `ReadyThreadRuns`, `AvailableIsTaken` |
| `proc_table` | 3 slots, 2 exit codes (one is -1), any programs, fairness | `ParentReadBeforeRemove`, `OneLoader`, `OrderlyIsSafe`, `JoinReturnsExitCode`, `JoinReturns`, `ExitCompletes` |
| `console` | 2 processes, 3 characters typed, 3 calls, fairness | `PutCharWhenFree`, `BufferedIsAnnounced`, `ImplementsStream`, `WriteReturns`, `TypedIsRead` |
| `user` | the three test programs on three lines, or any program of 4 calls | `LeastLoadedTap`, `SemaphoresNamed`, `ReadOnlyUntouched`, `ReadDelivers`, `OutputAppended` |
| `files` | 2 names, 11 sectors of 2 bytes, headers for 2 of them | `FreeMapExact`, `WrittenIsRead`, `StopKeepsFiles` |
| `disk` | 2 tracks of 3 sectors, a thread that uses the disk and one that computes | `NoneOverdue`, `LatencyIsRotation`, `RequestsFinish` |
| `network` | 2 machines, lost packets, fairness | `WireToBox`, `FinishedTogether`, `SendReturns` |
| `machine` | words of 8 bits, pages of 8 bytes, 9 frames | `OtherFramesKept`, `SyscallReturns`, `MainExits`, `NumbersExact`, `ArithmeticExact`, `ImplementsExecute` |
| `loader` | 3 processes, pages of 4 bytes, 8 frames and a map of 10 bits | `FramesOwned`, `ImageSeen` |

Each property has a comment in its module that states it. Three runs end in a
violation, where the code does something else than the repository says:

| run | property | what happens |
|---|---|---|
| `kernel_carcass` | `FinishedWillBeDestroyed` | a finished thread is forgotten when the next one dispatched is new and finishes too (`threads/thread.cc:156`) |
| `proc_table_leaves` | `NoUseAfterDelete` | a second Join, or a parent that exits before its child, leads to a deleted semaphore (`threads/ptable.cc:84`) |
| `user_taps` | `EveryContainerServed` | `voinuoc` takes a container written while it still looks for the end of the file for an old one (`test/voinuoc.c:29`) |

**Bounds.** `kernel`: three threads are a running one, a woken one and one that
sleeps; `MaxValue` caps what threads may raise a semaphore to. `proc_table`: three
slots give a grandparent, a parent and a child, or a parent and two children.
`console`: `MaxTyped` = 3 and `MaxCalls` = 3 let a line with its end be read in two
pieces, by two processes, and a third call write meanwhile. `user`: a first line of
three containers makes both taps be chosen; three semaphores are what the programs
need, so a fourth name finds the table full. Close leaves its slot occupied, so the
rounds use the table up: eleven slots are enough for two of them and not for the
third, as the fifteen of the code are for three and not for the fourth. `files`:
`MaxIndex` bounds `FileSystem::index`, which only grows; eleven sectors are too few
for two files of the larger size with their headers, so Create also fails for want
of space, and one size is more than a header can hold. `disk`: `MaxTicks` = 24 is
more than two rotations of a track. `machine`: a byte has `W`/4 bits, so that words
of 8 bits have four bytes and every pair of operands of the arithmetic is within
reach; programs have up to four instructions, or are linked with `start.c`. Their
loads and stores go to their data pages, across a page's end, to a page whose frame
is beyond memory, to the first address behind the page table and to the last of the
address space.
`loader`: the map has more bits than there are frames, as in the code (256 and
128). Symmetry is used over the file names only, in a run without temporal
properties.

Deadlock is not checked where the system may stop: programs that have made their
calls, or wait for a key nobody presses (`console`, `user`); a header that was
overrun (`files`); the clock's bound
(`disk`); a lost message (`network`); a program that ended or trapped (`machine`);
processes that have all ended (`loader`).

**Fairness.** `Kernel`: the processor executes until `Halt` (weak fairness of
`Next`), and a scheduled interrupt comes due because every tick and every idle
period advances simulated time (strong fairness of the handlers). The timer is on
(`-rs`). `ProcTable`: a process that can go on inside a system call does (weak
fairness per process), which is what `ReadyThreadRuns` says of threads; a program
is never obliged to make a call. `P` is served with weak fairness only, as the
semaphores promise no order. `SynchConsole`: the same per process, and the
interrupt that `PutChar` schedules comes (weak fairness of `CharWritten`); nothing
is assumed of the keyboard. `PostOffice`: the same for each thread and for the two
network interrupts, one scheduled by every Send, the other rescheduling itself;
nothing is assumed of the network, which may lose every packet.

## The proofs

| module | theorem | property |
|---|---|---|
| `KernelProofs` | `TypeCorrectness` | `TypeOK` |
| | `PlacementCorrectness` | `ThreadPlacement` |
| | `WakeupCorrectness` | `NoLostWakeup` |
| | `DeletionCorrectness` | `DeletedOnlyWhenDone` |
| | `SemaphoreRefinement` | `ImplementsCountingSemaphore` |
| | `UserContextCorrectness` | `UserContextPreserved` |
| `SynchConsoleProofs` | `TypeCorrectness` | `TypeOK` |
| | `DeviceCorrectness` | `PutCharWhenFree` |
| | `AnnouncementCorrectness` | `BufferedIsAnnounced` |
| | `StreamRefinement` | `ImplementsStream` |
| `ProcTableProofs` | `TypeCorrectness` | `TypeOK` |
| | `ParentReadCorrectness` | `ParentReadBeforeRemove` |
| | `LoaderCorrectness` | `OneLoader` |
| | `OrderlyCorrectness` | `OrderlyIsSafe` |
| | `JoinCorrectness` | `JoinReturnsExitCode` |
| `PostOfficeProofs` | `WireCorrectness` | `WireToBox` |
| | `MailTestCorrectness` | `FinishedTogether` |
| `SynchDiskProofs` | `ClockCorrectness` | `NoneOverdue` |
| | `LatencyCorrectness` | `LatencyIsRotation` |
| | `RequestCorrectness` | `RequestsFinish`, if one thread uses the disk |
| `FileSysProofs` | `FreeMapCorrectness` | `FreeMapExact` |
| | `ContentsCorrectness` | `WrittenIsRead` |
| | `StopCorrectness` | `StopKeepsFiles` |
| `BitMapProofs` | `SemaphoresCorrectness` | `SemaphoresNamed` |
| | `FramesCorrectness` | `FramesOwned` |

**`Kernel`**, for every set of semaphores and devices and every finite set of
threads, with or without the timer. `KernelAssumption`: initial semaphore values
are not negative; `NULL` is none of the threads or semaphores; the thread set is
finite. `ThreadPlacement` is not inductive: whether a dispatch may run a thread
depends on where that thread left off. `IInv` adds `PlaceConsistent`, which ties
`pc` to `status`, `sem` and `threadToBeDestroyed` (a thread to be destroyed is
blocked, outside any `P`, and so on no list), and `NoLostWakeup`, whose step for
`TryP` needs the placement facts to know that the thread leaving the set of woken
threads was in it. `UserInv` adds that a thread never dispatched, or deleted, has
no address space. Lemmas about `Append` and `Tail` as sets of elements carry the
lists; then there is a lemma for each of V, P, dispatch, yield, sleep, fork and
the interrupt handlers, which `NextIInv` combines.

**`SynchConsole`**, for every set of processes, lines and sizes.
`SynchConsoleAssumption`: the ends of line are characters, `EOF` and `NULL` are
not, lines are sequences of characters, sizes and bounds are natural numbers.
`PutCharWhenFree` says nothing of a writer that waits, so `IInv` adds `OneWriter`:
`WLineBlock` is free and the device at rest, or exactly one process is inside Write
and `putBusy` and `synchWriteAvail` agree with where it is; and `WriteSize`, from
which the character `PutChar` shows is one of the line's. For the refinement `SInv`
adds `OneReader`, the same for `RLineBlock`, and `CallsOK`: what a Read has taken is
a piece of a line within the size asked for, with an end of line only if there was
room for it; the last characters shown are the first ones of the line being
written. Every step but the return of a Read or Write, and a typed character,
leaves `Unread` and `Display` alone. Lemmas about parts of sequences connect the
return of a Read with the `SubSeq` of the abstract specification.

**`ProcTable`**, for tables of any size. `ProcTableAssumption`: there is a slot,
exit codes are integers, what an uninitialised `numwait` may hold is a natural
number, and `NULL` is not a number. The heart of `IInv` is `Token`: the permission
to leave comes into being when an exiting child releases `joinsem`, passes through
the parent that reads the code to `exitsem`, and ends when the child passes
`exitsem`; it is in one of these three places exactly while the child waits there.
`Loader` says the same of `bmsem`. While programs are orderly, `Fresh`, `Served` and
`Childless` add that a Join in progress is the first of its child, that a joined
child has done all it does to its parent, and that so have all children of a
process that leaves; these rule out every deleted semaphore. `ProcTableInv` defines
the invariant; `ProcTableExecProofs` (Exec and Join) and `ProcTableProofs` (Exit
and the theorems) have one lemma per action, with a step per conjunct.

**`PostOffice`**, for any number of machines, any wiring between them, lossy or
not (`PostOfficeAssumption`). `Announced` adds to `WireToBox` that the buffer is
full exactly when the postal worker has been told and not yet taken the packet; so
no packet is taken twice and none overwritten. The steps are moves of one packet
along a concatenation of queues, proved once for sequences. For `FinishedTogether`,
`Mail` says that every packet at a socket, in a buffer or in a box is genuine: a
greeting from a machine that was told this one's address, or an acknowledgement
from the machine it greeted, which then has sent its last packet and has heard the
greeting. So a machine that is done has proof in hand that the other heard it and
will find no closed socket.

**`SynchDisk`**, for disks of any geometry and speed, any threads and time slices
(`SynchDiskAssumption`: the times and sizes are positive, the threads that use the
disk are threads). The list of interrupts has only three shapes: the timer's alone,
or with the disk's before or after it (`Shape`); while a thread runs, the disk's is
in the future (`DiskAhead`). For `NoneOverdue`, `Late` adds that only threads in
`P` sleep (`Seated`), that those ready when Idle ends were woken by the disk
(`Waiting`), and that Idle turns the clock no further than to the first interrupt
(`Ahead`). What can be left over is then one case: `CheckIfDue` puts back a timer
interrupt that is alone on the list, so one that falls due together with the disk's
is fired at the next tick only (`LeftByIdle`). `Buffer`,
that the track buffer was emptied at a sector boundary after the seek, gives
`LatencyIsRotation`, with `ModuloDiffIsNext` about remainders. `RequestCorrectness`
assumes `OneUser`, because `Lock` is empty: then `Counted` says that the request
under way or announced has exactly one thread in `P`, which sleeps until the
interrupt has come.

**`FileSys`**, for disks, directories, sectors, headers and requests of any size,
and any number of open files (`FileSysAssumption`: the disk has room for what
formatting creates, the directory for `stdin` and `stdout`, a sector and a header
are not empty). Nothing is claimed of a disk after `overrun`. The
properties speak of an operation half done, so the invariant looks ahead: `FInv`
says that the writes still to come go to different sectors, that the disk is in
order once they are made (`AtRest`: exact map, a table with one entry per name, a
header for every entry, the written bytes in the sectors), and that after any
number of them the files not worked on are intact (`Kept`). One sector write then
only shifts the view by one (`AfterStep`); what is left is that each operation
computes such a list of writes: `FindBits` returns different clear bits
(`FindBitsClear`), Deallocate gives back exactly the sectors of the file, and
`WriteAt` changes the bytes asked for and no others, across sector boundaries.

**`BitMapProofs`** has the two other users of `BitMap`. `STable`, for any number of
slots, processes and names, any of which makes any call with any initial value:
`SemInv` adds that used slots hold semaphores with different names, those of
`LongNames` excepted, and that a process inside `P` is there on a used slot.
`Loader`, for any processes, programs and memory (`ProgramsAssumption`: a program
has a number of pages): `FramesInv` adds that a process about to take its frames has
read its header, so it takes as many as its pages, and that only one process at a
time has `addrLock`. The lemmas about `BitMap` appear in both `BitMapProofs` and
`FileSysProofs`, whose components have names in common.

Only model-checked, because out of the prover's reach: the liveness properties
(fairness and `ENABLED`); `ImageSeen`, `IntIO` and `LinkedList`, whose copies,
conversions and links are folds and recursive functions, so that a proof needs
induction over data; `Machine` and `Mips`, which use bitwise operations, and with
them `ImplementsExecute`. Not attempted: what `user`
checks of files and taps, much of which depends on the texts of three particular
programs.

## Not modelled

- The disassembler (`bin/disasm.c`, `d.c`, `out.c`, `opstrings.c`), the debugger of
  the simulator, statistics, `Print` and `DumpState`: they print.
- `bin/system.c`, the system calls of the interpreter, which go to the host.
- The parsing of arguments in `main.cc` and `system.cc`, and `Cleanup`: they run
  once, with one thread. `switch.s` is the change of `currentThread`.
- The branch of `Translate` for a TLB, which is not built.
- The test drivers `threadtest.cc` and `fstest.cc`, and the programs `shell`,
  `matmult` and `halt`: sequences of operations modelled elsewhere.
- A machine stopped between two writes and then started again: `StopKeepsFiles` says
  what it finds on the disk. Create writes the map last and Remove writes it first,
  so the file being created or removed may be left with a name and a header whose
  sectors are not marked; a later Create can give them to another file.
- File operations of two threads at once: nothing in the code keeps them apart.

Some behaviour that the models contain is covered by no property, because nothing
in the repository says what should happen, or a property excepts it:

- `Remove` never clears its slot, because `~PCB` does not return
  (`threads/ptable.cc:124`); `numwait` stays too high when the child exits first
  (`threads/pcb.cc:85`).
- A typed byte 0xFF is announced and then taken for an empty buffer
  (`machine/console.cc:96`); `PrintInt` of the smallest number is garbled.
- `OR` computes `rs | rs` (`machine/mipssim.cc:376`) and `SRL` and `SRLV` shift
  arithmetically; `ImplementsExecute` excepts the operands on which these differ
  from the interpreter. It also excepts `ANDI`, `ORI` and `XORI` with a negative
  immediate, `DIV` and `DIVU` by zero, branches and jumps in a delay slot, `JALR`
  into the register it jumps through, and all of `MULT`, `MULTU`, `LWL`, `LWR`,
  `SWL`, `SWR` and `SYSCALL`, which the two do differently; of these `ArithmeticExact`
  covers the multiplications and `SyscallReturns` the calls.
- The bitmap of frames has 256 bits for 128 frames (`threads/system.cc:159`);
  `ImageSeen` speaks of programs whose frames exist.
- `coff2noff` refuses contiguous `.bss` and `.sbss` sections and accepts others.
- Close leaves its slot occupied; Open of a missing file leaves the result register
  alone.
- `userprog/exception.cc:43` asks that every call advance the PC, "Or else you'll
  loop making the same system call forever"; Fork, Yield and FileSize have no case
  in `ExceptionHandler` and do loop. `SyscallReturns` states both.
- `userprog/syscall.h:112` has Read return "the number of bytes actually read". It
  returns how far the position moved, and copies to the program only up to the first
  NUL; `ReadDelivers` states this.
- A semaphore's name of 52 characters or more is not the name it is found by
  (`threads/stable.h:16`); `SemaphoresNamed` excepts such names.
- A file with more sectors than a header has entries overruns the header
  (`filesys/filehdr.cc:49`); the properties of `files` end there.
- `Lock` is empty: two threads that use the disk trip the device's assertion, and
  `disk` has one. In the network's the flag it tests is never set
  (`machine/network.cc:110`), so two senders do not trip it; `network` has one sender
  on each machine.
- A file removed while it is open keeps being written through its header.

What could come next: `OutputAppended` for any input, as a theorem; a restart after a
stop in `FileSys`.
