------------------------------ MODULE OpenFiles ------------------------------
(***************************************************************************)
(* The file system calls CreateFile, Open, Close, Read and Write, on the   *)
(* table openf of the stub FileSystem, whose files are UNIX files.  None   *)
(* of these calls re-enables interrupts between its first and its last     *)
(* step, so each is one action.  The console, slots 0 and 1, is module     *)
(* SynchConsole's: here a Read from it delivers any bytes.                 *)
(*                                                                         *)
(* Where the code uses an OpenFile that was deleted or never existed, or   *)
(* an ASSERT of the host interface fails, `fault' is set: nothing that     *)
(* follows is defined.                                                     *)
(***************************************************************************)
EXTENDS Integers, Sequences

CONSTANTS
  Procs,      \* the processes that make system calls
  Names,      \* the names of host files
  BadNames,   \* names UNIX cannot create, the empty one among them
  MaxFiles    \* slots of openf: 15 in FileSystem's constructor

ASSUME OpenFilesAssumption ==
  /\ BadNames \subseteq Names
  /\ {"stdin", "stdout"} \subseteq Names \ BadNames
  /\ MaxFiles \in Nat /\ MaxFiles > 2

VARIABLES
  openf,    \* the OpenFile each slot points to, or NULL
  host,     \* the contents of each UNIX file, or NoFile
  r2,       \* each process's result register
  buffer,   \* what the last Read copied to each process's memory
  fault     \* a deleted or missing object was used, or an ASSERT failed

fileVars == <<openf, host, r2, buffer, fault>>

Slots  == 0..(MaxFiles - 1)
NUL    == 0
LF     == -1
NoFile == <<-2>>    \* no text of a file
NULL   == [name |-> "", type |-> -1, offset |-> 0, live |-> FALSE]

SC_Open  == 5
SC_Write == 7

OpenFile(n, t) == [name |-> n, type |-> t, offset |-> 0, live |-> TRUE]

(* FileSystem's constructor; contents: the UNIX files there already are.   *)
FilesInit(contents) ==
  /\ openf = [s \in Slots |-> CASE s = 0 -> OpenFile("stdin", 2)
                                [] s = 1 -> OpenFile("stdout", 3)
                                [] OTHER -> NULL]
  /\ host = [n \in Names |-> IF n \in {"stdin", "stdout"} THEN <<>>
                             ELSE IF n \in DOMAIN contents THEN contents[n]
                             ELSE NoFile]
  /\ r2 = [p \in Procs |-> 0]
  /\ buffer = [p \in Procs |-> <<>>]
  /\ fault = FALSE

-----------------------------------------------------------------------------
(* The host: lseek to pos and then read, or write, some bytes.             *)

Least(a, b) == IF a < b THEN a ELSE b

HostRead(data, pos, n) == SubSeq(data, pos + 1, Least(pos + n, Len(data)))

HostWrite(data, pos, bytes) ==
  [i \in 1..(IF pos + Len(bytes) > Len(data) THEN pos + Len(bytes)
                                              ELSE Len(data)) |->
     IF i \in (pos + 1)..(pos + Len(bytes)) THEN bytes[i - pos]
     ELSE IF i <= Len(data) THEN data[i] ELSE NUL]

(* Copies between user and kernel memory stop at a NUL.                    *)
User2System(bytes, limit) ==
  [i \in 1..limit |-> IF \E j \in 1..i : bytes[j] = NUL THEN NUL ELSE bytes[i]]

(* Mutant of System2User: one byte too many.                               *)
System2UserInclusive(bytes, len) ==
  IF \E i \in 1..len : bytes[i] = NUL
  THEN SubSeq(bytes, 1, CHOOSE i \in 1..len :
                  bytes[i] = NUL /\ \A j \in 1..(i - 1) : bytes[j] # NUL)
  ELSE Append(SubSeq(bytes, 1, len), NUL)

System2User(bytes, len) ==
  IF \E i \in 1..len : bytes[i] = NUL
  THEN SubSeq(bytes, 1, CHOOSE i \in 1..len :
                  bytes[i] = NUL /\ \A j \in 1..(i - 1) : bytes[j] # NUL)
  ELSE SubSeq(bytes, 1, len)

-----------------------------------------------------------------------------
Return(p, result) == r2' = [r2 EXCEPT ![p] = result]

Fail == fault' = TRUE /\ UNCHANGED <<openf, host, r2, buffer>>

(* sysdep.cc: a file is truncated or created, or is there to be opened.    *)
OpenForWrite(n) == [host EXCEPT ![n] = <<>>]

OpenForReadWrite(n) == host[n] # NoFile

(* FileSystem::Create, whose OpenForWrite asserts that UNIX created the    *)
(* file, and Open(name, type).                                             *)
CreateHostFile(n) ==
  IF n \in BadNames
  THEN fault' = TRUE /\ UNCHANGED host
  ELSE host' = OpenForWrite(n) /\ UNCHANGED fault

OpenHostFile(n, type) == IF OpenForReadWrite(n) THEN OpenFile(n, type) ELSE NULL

(* FileSystem::FindFreeSlot never returns one of the console's slots.      *)
FindFreeSlot ==
  IF \E s \in Slots : s >= 2 /\ openf[s] = NULL
  THEN CHOOSE s \in Slots : /\ s >= 2 /\ openf[s] = NULL
                            /\ \A t \in 2..(s - 1) : openf[t] # NULL
  ELSE -1

(* The tests for a bad name do not return.                                 *)
CreateFile(p, n) ==
  /\ CreateHostFile(n)
  /\ IF fault' THEN UNCHANGED r2 ELSE Return(p, 0)
  /\ UNCHANGED <<openf, buffer>>

(* A file that is not there leaves the slot empty, and leaves in r2 the    *)
(* number of the system call.                                              *)
Open(p, n, type) ==
  /\ CASE FindFreeSlot = -1 -> Return(p, -1) /\ UNCHANGED openf
       [] FindFreeSlot # -1 /\ type \in {0, 1} ->
            /\ openf' = [openf EXCEPT ![FindFreeSlot] = OpenHostFile(n, type)]
            /\ Return(p, IF OpenForReadWrite(n) THEN FindFreeSlot ELSE SC_Open)
       [] FindFreeSlot # -1 /\ type \notin {0, 1} ->
            Return(p, IF type = 2 THEN 0 ELSE 1) /\ UNCHANGED openf
  /\ UNCHANGED <<host, buffer, fault>>

(* The OpenFile is deleted; openf keeps the pointer.                       *)
Close(p, id) ==
  IF id \in Slots /\ openf[id] # NULL
  THEN IF openf[id].live
       THEN /\ openf' = [openf EXCEPT ![id].live = FALSE]
            /\ Return(p, 0)
            /\ UNCHANGED <<host, buffer, fault>>
       ELSE Fail
  ELSE Return(p, -1) /\ UNCHANGED <<openf, host, buffer, fault>>

(* OpenFile::Read and Exception_Read on an ordinary file.                  *)
ReadFile(p, id, size) ==
  LET f == openf[id]
      got == HostRead(host[f.name], f.offset, size)
  IN  /\ IF got # <<>>
         THEN /\ openf' = [openf EXCEPT ![id].offset = @ + Len(got)]
              /\ buffer' = [buffer EXCEPT ![p] = System2User(got, Len(got))]
              /\ Return(p, Len(got))
         ELSE Return(p, -2) /\ UNCHANGED <<openf, buffer>>
      /\ UNCHANGED <<host, fault>>

(* gSynchConsole->Read: a line of at most size bytes, or -1 for CTRL-A.    *)
ReadConsole(p, size) ==
  /\ \/ \E k \in 0..size : \E line \in [1..k -> {NUL, 1}] :
           /\ buffer' = [buffer EXCEPT ![p] = System2User(line, k)]
           /\ Return(p, k)
     \/ Return(p, -1) /\ UNCHANGED buffer
  /\ UNCHANGED <<openf, host, fault>>

Read(p, id, size) ==
  IF id \notin Slots \/ openf[id] = NULL
  THEN Return(p, -1) /\ UNCHANGED <<openf, host, buffer, fault>>
  ELSE IF ~openf[id].live THEN Fail
  ELSE CASE openf[id].type = 3 ->
              Return(p, -1) /\ UNCHANGED <<openf, host, buffer, fault>>
         [] openf[id].type = 2 -> ReadConsole(p, size)
         [] OTHER -> ReadFile(p, id, size)

(* Mutant of WriteFile: the refusal of a read-only file is only reported.  *)
WriteAnyFile(p, id, bytes) ==
  LET f == openf[id]
      sent == User2System(bytes, Len(bytes))
  IN  /\ host' = [host EXCEPT ![f.name] = HostWrite(@, f.offset, sent)]
      /\ openf' = [openf EXCEPT ![id].offset = @ + Len(bytes)]
      /\ Return(p, IF f.type = 1 THEN -1 ELSE Len(bytes))
      /\ UNCHANGED <<buffer, fault>>

(* OpenFile::Write and Exception_Write on an ordinary file.  A write of no *)
(* bytes leaves r2 alone.                                                  *)
WriteFile(p, id, bytes) ==
  LET f == openf[id]
      sent == User2System(bytes, Len(bytes))
  IN  /\ IF f.type = 0
         THEN /\ host' = [host EXCEPT ![f.name] = HostWrite(@, f.offset, sent)]
              /\ openf' = [openf EXCEPT ![id].offset = @ + Len(bytes)]
              /\ Return(p, IF bytes = <<>> THEN SC_Write ELSE Len(bytes))
         ELSE Return(p, -1) /\ UNCHANGED <<host, openf>>
      /\ UNCHANGED <<buffer, fault>>

(* The number of characters before the first NUL or newline, less one.     *)
StdoutResult(bytes) ==
  LET ends == {i \in 1..Len(bytes) : bytes[i] \in {NUL, LF}}
  IN  IF ends = {} THEN Len(bytes) - 1
      ELSE (CHOOSE i \in ends : \A j \in ends : i <= j) - 2

(* An id with no OpenFile is reported and then used all the same.          *)
Write(p, id, bytes) ==
  IF id \notin Slots \/ openf[id] = NULL THEN Fail
  ELSE IF ~openf[id].live THEN Fail
  ELSE IF openf[id].type = 3
       THEN /\ Return(p, StdoutResult(bytes))
            /\ UNCHANGED <<openf, host, buffer, fault>>
       ELSE WriteFile(p, id, bytes)

=============================================================================
