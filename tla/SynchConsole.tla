---------------------------- MODULE SynchConsole ----------------------------
(***************************************************************************)
(* The synchronous console: SynchConsole::Read and Write, and under them   *)
(* the device Console, which buffers one typed character, shows one        *)
(* character at a time, and interrupts when it has done either.            *)
(*                                                                         *)
(* P and V are those of the atomic counting semaphore; a process may be    *)
(* interrupted at the end of each.  pc[p] is "user", or in                 *)
(*   Write:  "wlock"  WLineBlock->P()      Read:  "rlock"  RLineBlock->P() *)
(*           "put"    the loop's test             "read"   the loop's test *)
(*           "wait"   synchWriteAvail->P()        "get"    GetChar()       *)
(*                                                                         *)
(* `incoming' is a char and EOF is -1, so the byte 0xFF, which may also be *)
(* typed, is EOF.                                                          *)
(***************************************************************************)
EXTENDS Integers, Sequences

CONSTANTS
  Procs,
  Chars,           \* the characters that may be typed, other than EOF
  NewLine, CtrlA,  \* the two that end a line ('\012' and '\001')
  EOF,
  Lines,           \* the buffers given to Write
  Sizes,           \* the numbers of bytes given to Read
  NULL,
  MaxTyped,        \* bound: how many characters are typed
  MaxCalls         \* bound: how many calls are made

ASSUME SynchConsoleAssumption ==
  /\ NewLine \in Chars /\ CtrlA \in Chars
  /\ EOF \notin Chars /\ NULL \notin Chars \cup {EOF}
  /\ Lines \subseteq Seq(Chars)
  /\ Sizes \subseteq Nat
  /\ MaxTyped \in Nat /\ MaxCalls \in Nat

VARIABLES
  pc,
  size,      \* the argument numBytes of each call
  line,      \* the buffer of each call
  ch,        \* Read's last character, or NULL
  loop,      \* Write's counter
  synchReadAvail, synchWriteAvail, RLineBlock, WLineBlock,
  incoming, putBusy,
  output,    \* what the display has shown
  typed, calls,
  result     \* what each process's last call returned

callVars   == <<pc, size, line, ch, loop>>
semVars    == <<synchReadAvail, synchWriteAvail, RLineBlock, WLineBlock>>
deviceVars == <<incoming, putBusy, output, typed>>
vars       == <<callVars, semVars, deviceVars, calls, result>>

Ends == {NewLine, CtrlA}

TypeOK ==
  /\ pc \in [Procs -> {"user", "wlock", "put", "wait", "rlock", "read", "get"}]
  /\ size \in [Procs -> Nat]
  /\ line \in [Procs -> Seq(Chars)]
  /\ ch \in [Procs -> Chars \cup {EOF, NULL}]
  /\ loop \in [Procs -> Nat]
  /\ synchReadAvail \in Nat /\ synchWriteAvail \in Nat
  /\ RLineBlock \in Nat /\ WLineBlock \in Nat
  /\ incoming \in Chars \cup {EOF}
  /\ putBusy \in BOOLEAN
  /\ output \in Seq(Chars)
  /\ typed \in 0 .. MaxTyped /\ calls \in 0 .. MaxCalls
  /\ result \in [Procs -> {NULL} \cup [size : Nat, line : Seq(Chars), ret : Int]]

Console == incoming = EOF /\ putBusy = FALSE /\ output = <<>>

(* The constructor SynchConsole().                                         *)
Init ==
  /\ pc = [p \in Procs |-> "user"]
  /\ size = [p \in Procs |-> 0]
  /\ line = [p \in Procs |-> <<>>]
  /\ ch = [p \in Procs |-> NULL]
  /\ loop = [p \in Procs |-> 0]
  /\ synchReadAvail = 0 /\ synchWriteAvail = 0
  /\ RLineBlock = 1 /\ WLineBlock = 1
  /\ Console
  /\ typed = 0 /\ calls = 0
  /\ result = [p \in Procs |-> NULL]

Goto(p, place) == pc' = [pc EXCEPT ![p] = place]

P(s) == s > 0 /\ s' = s - 1

V(s) == s' = s + 1

Call(p, place, buffer, numBytes) ==
  /\ pc[p] = "user"
  /\ calls < MaxCalls
  /\ calls' = calls + 1
  /\ Goto(p, place)
  /\ line' = [line EXCEPT ![p] = buffer]
  /\ size' = [size EXCEPT ![p] = numBytes]
  /\ loop' = [loop EXCEPT ![p] = 0]
  /\ ch' = [ch EXCEPT ![p] = NULL]
  /\ UNCHANGED <<semVars, deviceVars, result>>

(* The locals of a call are dead once it has returned.                     *)
Return(p, ret) ==
  /\ result' = [result EXCEPT ![p] =
                  [size |-> size[p], line |-> line[p], ret |-> ret]]
  /\ Goto(p, "user")
  /\ line' = [line EXCEPT ![p] = <<>>]
  /\ size' = [size EXCEPT ![p] = 0]
  /\ loop' = [loop EXCEPT ![p] = 0]
  /\ ch' = [ch EXCEPT ![p] = NULL]

-----------------------------------------------------------------------------
(* SynchConsole::Write.                                                    *)

Write(p, from) == Call(p, "wlock", from, Len(from))

WriteLock(p) ==
  /\ pc[p] = "wlock"
  /\ P(WLineBlock)
  /\ Goto(p, "put")
  /\ UNCHANGED <<size, line, ch, loop, synchReadAvail, synchWriteAvail,
                 RLineBlock, deviceVars, calls, result>>

(* Console::PutChar, which asserts ~putBusy.                               *)
PutChar(p) ==
  /\ pc[p] = "put"
  /\ loop[p] < size[p]
  /\ output' = Append(output, line[p][loop[p] + 1])
  /\ putBusy' = TRUE
  /\ Goto(p, "wait")
  /\ UNCHANGED <<size, line, ch, loop, semVars, incoming, typed, calls, result>>

(* Mutant of WriteWait: the interrupt is not waited for.                   *)
WriteWithoutWait(p) ==
  /\ pc[p] = "wait"
  /\ loop' = [loop EXCEPT ![p] = @ + 1]
  /\ Goto(p, "put")
  /\ UNCHANGED <<size, line, ch, semVars, deviceVars, calls, result>>

WriteWait(p) ==
  /\ pc[p] = "wait"
  /\ P(synchWriteAvail)
  /\ loop' = [loop EXCEPT ![p] = @ + 1]
  /\ Goto(p, "put")
  /\ UNCHANGED <<size, line, ch, synchReadAvail, RLineBlock, WLineBlock,
                 deviceVars, calls, result>>

WriteDone(p) ==
  /\ pc[p] = "put"
  /\ loop[p] = size[p]
  /\ V(WLineBlock)
  /\ Return(p, size[p])
  /\ UNCHANGED <<synchReadAvail, synchWriteAvail, RLineBlock, deviceVars, calls>>

-----------------------------------------------------------------------------
(* SynchConsole::Read.                                                     *)

Read(p, numBytes) == Call(p, "rlock", <<>>, numBytes)

(* Mutant of ReadLock: the line is not blocked.                            *)
ReadUnlocked(p) ==
  /\ pc[p] = "rlock"
  /\ Goto(p, "read")
  /\ UNCHANGED <<size, line, ch, loop, semVars, deviceVars, calls, result>>

ReadLock(p) ==
  /\ pc[p] = "rlock"
  /\ P(RLineBlock)
  /\ Goto(p, "read")
  /\ UNCHANGED <<size, line, ch, loop, synchReadAvail, synchWriteAvail,
                 WLineBlock, deviceVars, calls, result>>

EndOfLine(p) == ch[p] \in Ends

Reading(p) == Len(line[p]) < size[p] /\ ~EndOfLine(p)

ReadWait(p) ==
  /\ pc[p] = "read"
  /\ Reading(p)
  /\ P(synchReadAvail)
  /\ Goto(p, "get")
  /\ UNCHANGED <<size, line, ch, loop, synchWriteAvail, RLineBlock, WLineBlock,
                 deviceVars, calls, result>>

(* Mutant of GetChar: the character stays in the buffer.                   *)
GetCharKeeps(p) ==
  /\ pc[p] = "get"
  /\ ch' = [ch EXCEPT ![p] = incoming]
  /\ line' = IF incoming \in Ends \cup {EOF}
             THEN line
             ELSE [line EXCEPT ![p] = Append(@, incoming)]
  /\ Goto(p, "read")
  /\ UNCHANGED <<size, loop, semVars, deviceVars, calls, result>>

(* Console::GetChar, and what Read does with the character: wait for       *)
(* another if there was none, end the line, or put it in the buffer.       *)
GetChar(p) ==
  /\ pc[p] = "get"
  /\ incoming' = EOF
  /\ ch' = [ch EXCEPT ![p] = incoming]
  /\ line' = IF incoming \in Ends \cup {EOF}
             THEN line
             ELSE [line EXCEPT ![p] = Append(@, incoming)]
  /\ Goto(p, "read")
  /\ UNCHANGED <<size, loop, semVars, putBusy, output, typed, calls, result>>

(* A Read of no bytes tests the variable ch before it is assigned.         *)
ReadDone(p) ==
  /\ pc[p] = "read"
  /\ ~Reading(p)
  /\ V(RLineBlock)
  /\ \E ret \in IF ch[p] = NULL THEN {-1, 0}
                ELSE IF ch[p] = CtrlA THEN {-1} ELSE {Len(line[p])} :
       Return(p, ret)
  /\ UNCHANGED <<synchReadAvail, synchWriteAvail, WLineBlock, deviceVars, calls>>

-----------------------------------------------------------------------------
(* Interrupts of the device.                                               *)

(* Mutant of CheckCharAvail: the handler is called only during a Read.     *)
CheckIfReading(c) ==
  /\ incoming = EOF
  /\ typed < MaxTyped
  /\ typed' = typed + 1
  /\ incoming' = c
  /\ synchReadAvail' = synchReadAvail + 1 - RLineBlock
  /\ UNCHANGED <<callVars, synchWriteAvail, RLineBlock, WLineBlock, putBusy,
                 output, calls, result>>

(* Console::CheckCharAvail, when a character is there to be read, with the *)
(* handler SynchReadFunct.  Otherwise it does nothing.                     *)
CheckCharAvail(c) ==
  /\ incoming = EOF
  /\ typed < MaxTyped
  /\ typed' = typed + 1
  /\ incoming' = c
  /\ V(synchReadAvail)
  /\ UNCHANGED <<callVars, synchWriteAvail, RLineBlock, WLineBlock, putBusy,
                 output, calls, result>>

(* Mutant of CharWritten: the handler is not called.                       *)
CharWrittenSilently ==
  /\ putBusy
  /\ putBusy' = FALSE
  /\ UNCHANGED <<callVars, semVars, incoming, output, typed, calls, result>>

(* Console::WriteDone, with the handler SynchWriteFunct.                   *)
CharWritten ==
  /\ putBusy
  /\ putBusy' = FALSE
  /\ V(synchWriteAvail)
  /\ UNCHANGED <<callVars, synchReadAvail, RLineBlock, WLineBlock, incoming,
                 output, typed, calls, result>>

-----------------------------------------------------------------------------
KernelStep(p) ==
  \/ WriteLock(p) \/ PutChar(p) \/ WriteWait(p) \/ WriteDone(p)
  \/ ReadLock(p) \/ ReadWait(p) \/ GetChar(p) \/ ReadDone(p)

Next ==
  \/ \E p \in Procs :
       \/ KernelStep(p)
       \/ \E from \in Lines : Write(p, from)
       \/ \E numBytes \in Sizes : Read(p, numBytes)
  \/ \E c \in Chars \cup {EOF} : CheckCharAvail(c)
  \/ CharWritten

Spec == Init /\ [][Next]_vars

(* Ready threads run, and the interrupt PutChar scheduled comes.  Nothing  *)
(* is assumed of the keyboard or of the programs.                          *)
FairSpec ==
  /\ Spec
  /\ \A p \in Procs : WF_vars(KernelStep(p))
  /\ WF_vars(CharWritten)

-----------------------------------------------------------------------------
(* Properties.                                                             *)

(* The assertion of Console::PutChar: the device is asked to show a        *)
(* character only when it has finished the one before.  WLineBlock keeps   *)
(* other writers out, synchWriteAvail waits for the interrupt.             *)
PutCharWhenFree ==
  \A p \in Procs : pc[p] = "put" /\ loop[p] < size[p] => ~putBusy

(* A character in the device's buffer has been announced to a reader that  *)
(* has not fetched it yet, however many bytes 0xFF were announced in vain. *)
BufferedIsAnnounced ==
  incoming # EOF => synchReadAvail > 0 \/ \E p \in Procs : pc[p] = "get"

Writing(p) == pc[p] \in {"put", "wait"}

(* Why PutCharWhenFree holds: WLineBlock is free and the device at rest,   *)
(* or one process writes, and either the device is at rest or the process  *)
(* waits, for an interrupt that is still to come or has come.              *)
OneWriter ==
  \/ /\ WLineBlock = 1
     /\ synchWriteAvail = 0
     /\ ~putBusy
     /\ \A p \in Procs : ~Writing(p)
  \/ /\ WLineBlock = 0
     /\ \E w \in Procs :
          /\ Writing(w)
          /\ \A p \in Procs \ {w} : ~Writing(p)
          /\ IF pc[w] = "put"
             THEN ~putBusy /\ synchWriteAvail = 0
             ELSE synchWriteAvail = IF putBusy THEN 0 ELSE 1

(* A call of Write keeps the length of its buffer.                         *)
WriteSize ==
  \A p \in Procs : pc[p] = "wlock" \/ Writing(p) => size[p] = Len(line[p])

IInv == TypeOK /\ WriteSize /\ OneWriter /\ BufferedIsAnnounced

(* What the current Read has taken, and what the current Write has shown.  *)
InRead(p) == pc[p] \in {"read", "get"}

TakenBy(p) == line[p] \o IF EndOfLine(p) THEN <<ch[p]>> ELSE <<>>

Taken ==
  IF \E p \in Procs : InRead(p) THEN TakenBy(CHOOSE p \in Procs : InRead(p)) ELSE <<>>

ShownBy(p) == loop[p] + IF pc[p] = "wait" THEN 1 ELSE 0

Shown ==
  IF \E p \in Procs : Writing(p) THEN ShownBy(CHOOSE p \in Procs : Writing(p)) ELSE 0

Unread == Taken \o IF incoming = EOF THEN <<>> ELSE <<incoming>>

Display == SubSeq(output, 1, Len(output) - Shown)

(* The console keeps its promise: the characters typed, without bytes      *)
(* 0xFF, are read in order, none lost, repeated, or shared between two     *)
(* calls, and the lines written are shown whole, one after the other.      *)
Stream == INSTANCE ConsoleStream WITH unread <- Unread, display <- Display

ImplementsStream == Stream!Spec

(* A Write that has the line completes: the interrupt that ends each       *)
(* character reaches the writer.                                           *)
WriteReturns ==
  \A p \in Procs : pc[p] \in {"put", "wait"} ~> pc[p] = "user"

(* A typed character is taken when some process is reading.                *)
TypedIsRead ==
  \A p \in Procs :
    incoming # EOF /\ pc[p] \in {"read", "get"}
      ~> incoming = EOF \/ pc[p] \notin {"read", "get"}

=============================================================================
