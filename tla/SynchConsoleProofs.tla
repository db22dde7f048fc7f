------------------------- MODULE SynchConsoleProofs -------------------------
(***************************************************************************)
(* Proofs about the synchronous console, for any number of processes, any  *)
(* lines and any input: its invariants, and that it is the stream that     *)
(* ConsoleStream describes.                                                *)
(***************************************************************************)
EXTENDS SynchConsole, TLAPS

(* The console is created with both lines free and the device at rest.     *)
LEMMA InitIInv == Init => IInv
<1> SUFFICES ASSUME Init PROVE IInv
  BY ZenonT(60)
<1>1. TypeOK
  <2>1. typed \in 0 .. MaxTyped /\ calls \in 0 .. MaxCalls
    BY SynchConsoleAssumption, SMTT(60) DEF Init, Console
  <2>2. line \in [Procs -> Seq(Chars)] /\ output \in Seq(Chars)
    BY SMTT(60) DEF Init, Console
  <2>3. result \in [Procs -> {NULL} \cup [size : Nat, line : Seq(Chars), ret : Int]]
    BY ZenonT(60) DEF Init, Console
  <2> QED
    BY <2>1, <2>2, <2>3, ZenonT(60) DEF Init, Console, TypeOK
<1>2. WriteSize /\ OneWriter /\ BufferedIsAnnounced
  BY ZenonT(60)
     DEF Init, Console, WriteSize, OneWriter, Writing, BufferedIsAnnounced
<1> QED
  BY <1>1, <1>2, ZenonT(60) DEF IInv

(* A call starts with a buffer of the length it is given, or with an empty *)
(* one for a Read; neither line is entered yet.                            *)
LEMMA CallIInv ==
  ASSUME IInv, NEW p \in Procs, NEW place \in {"wlock", "rlock"},
         NEW buffer \in Seq(Chars), NEW numBytes \in Nat,
         place = "wlock" => numBytes = Len(buffer),
         Call(p, place, buffer, numBytes)
  PROVE  IInv'
<1> USE DEF IInv
<1>1. /\ pc[p] = "user"
      /\ pc' = [pc EXCEPT ![p] = place]
      /\ line' = [line EXCEPT ![p] = buffer]
      /\ size' = [size EXCEPT ![p] = numBytes]
      /\ UNCHANGED <<synchReadAvail, synchWriteAvail, RLineBlock, WLineBlock,
                     incoming, putBusy, output, typed, result>>
  BY ZenonT(60) DEF Call, Goto, semVars, deviceVars
<1>2. TypeOK'
  <2>1. /\ pc' \in [Procs -> {"user", "wlock", "put", "wait", "rlock", "read", "get"}]
        /\ line' \in [Procs -> Seq(Chars)]
        /\ size' \in [Procs -> Nat]
    BY <1>1, ZenonT(60) DEF TypeOK
  <2>2. loop' \in [Procs -> Nat] /\ ch' \in [Procs -> Chars \cup {EOF, NULL}]
    BY ZenonT(60) DEF Call, TypeOK
  <2>3. calls' \in 0 .. MaxCalls
    BY SynchConsoleAssumption, SMTT(60) DEF Call, TypeOK
  <2> QED
    BY <1>1, <2>1, <2>2, <2>3, ZenonT(60) DEF TypeOK
<1>3. \A q \in Procs : /\ pc'[q] = IF q = p THEN place ELSE pc[q]
                       /\ size'[q] = IF q = p THEN numBytes ELSE size[q]
                       /\ line'[q] = IF q = p THEN buffer ELSE line[q]
  BY <1>1, ZenonT(60) DEF TypeOK
<1>4. \A q \in Procs : Writing(q)' <=> Writing(q)
  BY <1>1, <1>3, ZenonT(60) DEF Writing
<1>5. WriteSize'
  BY <1>3, <1>4, ZenonT(60) DEF WriteSize, Writing
<1>6. OneWriter'
  BY <1>1, <1>3, <1>4, SMTT(60) DEF OneWriter, Writing
<1>7. BufferedIsAnnounced'
  BY <1>1, <1>3, ZenonT(60) DEF BufferedIsAnnounced
<1> QED
  BY <1>2, <1>5, <1>6, <1>7, ZenonT(60)

(* A step of a call that moves process p to another place, and leaves what *)
(* Write does alone, keeps the writers' part of the invariant.             *)
LEMMA ReaderKeepsWriters ==
  ASSUME IInv, NEW p \in Procs, NEW place \in {"user", "read", "get"},
         pc[p] \in {"rlock", "read", "get"},
         pc' = [pc EXCEPT ![p] = place],
         \A q \in Procs \ {p} : size'[q] = size[q] /\ line'[q] = line[q],
         UNCHANGED <<synchWriteAvail, WLineBlock, putBusy>>
  PROVE  WriteSize' /\ OneWriter'
<1> USE DEF IInv
<1>1. \A q \in Procs : pc'[q] = IF q = p THEN place ELSE pc[q]
  BY ZenonT(60) DEF TypeOK
<1>2. WriteSize'
  BY <1>1, SMTT(60) DEF WriteSize, Writing
<1>3. OneWriter'
  BY <1>1, SMTT(60) DEF OneWriter, Writing
<1> QED
  BY <1>2, <1>3, ZenonT(60)

(* The steps of SynchConsole::Write.                                       *)
LEMMA WriteIInv ==
  ASSUME IInv, NEW p \in Procs,
         WriteLock(p) \/ PutChar(p) \/ WriteWait(p) \/ WriteDone(p)
  PROVE  IInv'
<1> USE DEF IInv
<1> DEFINE Where == {"user", "wlock", "put", "wait", "rlock", "read", "get"}
<1>0. /\ pc \in [Procs -> Where]
      /\ synchWriteAvail \in Nat /\ WLineBlock \in Nat
  BY ZenonT(60) DEF TypeOK
<1>a. /\ UNCHANGED <<synchReadAvail, RLineBlock, incoming, typed, calls>>
      /\ \A q \in Procs \ {p} : /\ pc'[q] = pc[q]
                                /\ size'[q] = size[q]
                                /\ line'[q] = line[q]
  BY <1>0, ZenonT(60)
     DEF WriteLock, PutChar, WriteWait, WriteDone, Return, Goto, semVars,
              deviceVars, TypeOK
<1>b. pc[p] # "get"
  BY ZenonT(60) DEF WriteLock, PutChar, WriteWait, WriteDone
<1>c. BufferedIsAnnounced'
  BY <1>a, <1>b, ZenonT(60) DEF BufferedIsAnnounced
<1>1. CASE WriteLock(p)
  <2>1. /\ pc[p] = "wlock" /\ WLineBlock > 0 /\ WLineBlock' = WLineBlock - 1
        /\ pc' = [pc EXCEPT ![p] = "put"]
        /\ UNCHANGED <<size, line, ch, loop, synchWriteAvail, putBusy, output,
                       result>>
    BY <1>1, ZenonT(60) DEF WriteLock, P, Goto, deviceVars
  <2>2. /\ WLineBlock = 1 /\ WLineBlock' = 0
        /\ synchWriteAvail = 0 /\ ~putBusy
        /\ \A q \in Procs : ~Writing(q)
    BY <2>1, SMTT(60) DEF OneWriter
  <2>3. \A q \in Procs : pc'[q] = IF q = p THEN "put" ELSE pc[q]
    BY <1>0, <2>1, ZenonT(60)
  <2>4. TypeOK'
    BY <1>a, <2>1, <2>2, ZenonT(60) DEF TypeOK
  <2>5. WriteSize'
    BY <2>1, <2>3, ZenonT(60) DEF WriteSize, Writing
  <2>6. OneWriter'
    BY <2>1, <2>2, <2>3, ZenonT(60) DEF OneWriter, Writing
  <2> QED
    BY <1>c, <2>4, <2>5, <2>6, ZenonT(60)
<1>2. ASSUME pc[p] \in {"put", "wait"}
      PROVE  /\ WLineBlock = 0
             /\ \A q \in Procs \ {p} : pc[q] \notin {"put", "wait"}
             /\ IF pc[p] = "put"
                THEN ~putBusy /\ synchWriteAvail = 0
                ELSE synchWriteAvail = IF putBusy THEN 0 ELSE 1
  BY <1>2, ZenonT(60) DEF OneWriter, Writing
<1>3. CASE PutChar(p)
  <2>1. /\ pc[p] = "put" /\ loop[p] < size[p]
        /\ output' = Append(output, line[p][loop[p] + 1])
        /\ putBusy' = TRUE
        /\ pc' = [pc EXCEPT ![p] = "wait"]
        /\ UNCHANGED <<size, line, ch, loop, synchWriteAvail, WLineBlock, result>>
    BY <1>3, ZenonT(60) DEF PutChar, Goto, semVars
  <2>2. \A q \in Procs : pc'[q] = IF q = p THEN "wait" ELSE pc[q]
    BY <1>0, <2>1, ZenonT(60)
  <2>3. output' \in Seq(Chars)
    <3>1. size[p] = Len(line[p])
      BY <2>1, ZenonT(60) DEF WriteSize, Writing
    <3>2. /\ line[p] \in Seq(Chars) /\ loop[p] \in Nat /\ size[p] \in Nat
          /\ output \in Seq(Chars)
      BY ZenonT(60) DEF TypeOK
    <3>3. loop[p] + 1 \in 1 .. Len(line[p])
      BY <2>1, <3>1, <3>2, SMTT(60)
    <3>4. line[p][loop[p] + 1] \in Chars
      BY <3>2, <3>3, SMTT(60)
    <3> QED
      BY <2>1, <3>2, <3>4, SMTT(60)
  <2>4. TypeOK'
    BY <1>a, <2>1, <2>3, ZenonT(60) DEF TypeOK
  <2>5. WriteSize'
    BY <2>1, <2>2, ZenonT(60) DEF WriteSize, Writing
  <2>6. OneWriter'
    BY <1>2, <2>1, <2>2, SMTT(60) DEF OneWriter, Writing
  <2> QED
    BY <1>c, <2>4, <2>5, <2>6, ZenonT(60)
<1>4. CASE WriteWait(p)
  <2>1. /\ pc[p] = "wait" /\ synchWriteAvail > 0
        /\ synchWriteAvail' = synchWriteAvail - 1
        /\ loop' = [loop EXCEPT ![p] = @ + 1]
        /\ pc' = [pc EXCEPT ![p] = "put"]
        /\ UNCHANGED <<size, line, ch, WLineBlock, putBusy, output, result>>
    BY <1>4, ZenonT(60) DEF WriteWait, P, Goto, deviceVars
  <2>2. \A q \in Procs : pc'[q] = IF q = p THEN "put" ELSE pc[q]
    BY <1>0, <2>1, ZenonT(60)
  <2>3. ~putBusy /\ synchWriteAvail = 1 /\ synchWriteAvail' = 0
    BY <1>2, <2>1, SMTT(60)
  <2>4. TypeOK'
    BY <1>a, <2>1, <2>3, SMTT(60) DEF TypeOK
  <2>5. WriteSize'
    BY <2>1, <2>2, ZenonT(60) DEF WriteSize, Writing
  <2>6. OneWriter'
    BY <1>2, <2>1, <2>2, <2>3, ZenonT(60) DEF OneWriter, Writing
  <2> QED
    BY <1>c, <2>4, <2>5, <2>6, ZenonT(60)
<1>5. CASE WriteDone(p)
  <2>1. /\ pc[p] = "put"
        /\ WLineBlock' = WLineBlock + 1
        /\ Return(p, size[p])
        /\ pc' = [pc EXCEPT ![p] = "user"]
        /\ UNCHANGED <<synchWriteAvail, putBusy, output>>
    BY <1>5, ZenonT(60) DEF WriteDone, V, Return, Goto, deviceVars
  <2>2. \A q \in Procs : pc'[q] = IF q = p THEN "user" ELSE pc[q]
    BY <1>0, <2>1, ZenonT(60)
  <2>3. WLineBlock' = 1 /\ synchWriteAvail = 0 /\ ~putBusy
    BY <1>2, <2>1, SMTT(60)
  <2>4. TypeOK'
    <3>1. size[p] \in Nat /\ line[p] \in Seq(Chars)
      BY ZenonT(60) DEF TypeOK
    <3>2. result' \in [Procs -> {NULL} \cup [size : Nat, line : Seq(Chars), ret : Int]]
      BY <2>1, <3>1, SMTT(60) DEF Return, TypeOK
    <3>3. /\ line' \in [Procs -> Seq(Chars)]
          /\ size' \in [Procs -> Nat] /\ loop' \in [Procs -> Nat]
          /\ ch' \in [Procs -> Chars \cup {EOF, NULL}]
      BY <2>1, SMTT(60) DEF Return, TypeOK
    <3>4. pc' \in [Procs -> Where] /\ output' \in Seq(Chars)
      BY <2>1, ZenonT(60) DEF TypeOK
    <3>5. WLineBlock' \in Nat /\ synchWriteAvail' \in Nat /\ putBusy' \in BOOLEAN
      <4>1. synchWriteAvail' = 0 /\ WLineBlock' = 1 /\ putBusy' = putBusy
        BY <2>1, <2>3, ZenonT(60)
      <4> QED
        BY <4>1, ZenonT(60) DEF TypeOK
    <3> QED
      BY <1>a, <3>2, <3>3, <3>4, <3>5, ZenonT(60) DEF TypeOK
  <2>5. WriteSize'
    BY <1>a, <2>2, ZenonT(60) DEF WriteSize, Writing
  <2>6. OneWriter'
    BY <1>2, <2>1, <2>2, <2>3, SMTT(60) DEF OneWriter, Writing
  <2> QED
    BY <1>c, <2>4, <2>5, <2>6, ZenonT(60)
<1> QED
  BY <1>1, <1>3, <1>4, <1>5, ZenonT(60)

(* The steps of SynchConsole::Read.                                        *)
LEMMA ReadIInv ==
  ASSUME IInv, NEW p \in Procs,
         ReadLock(p) \/ ReadWait(p) \/ GetChar(p) \/ ReadDone(p)
  PROVE  IInv'
<1> USE DEF IInv
<1> DEFINE Where == {"user", "wlock", "put", "wait", "rlock", "read", "get"}
<1>0. /\ pc \in [Procs -> Where]
      /\ synchReadAvail \in Nat /\ RLineBlock \in Nat
  BY ZenonT(60) DEF TypeOK
<1>1. CASE ReadLock(p)
  <2>1. /\ pc[p] = "rlock" /\ RLineBlock > 0 /\ RLineBlock' = RLineBlock - 1
        /\ pc' = [pc EXCEPT ![p] = "read"]
        /\ UNCHANGED <<size, line, ch, loop, synchReadAvail, synchWriteAvail,
                       WLineBlock, incoming, putBusy, output, typed, calls,
                       result>>
    BY <1>1, ZenonT(60) DEF ReadLock, P, Goto, deviceVars
  <2>2. WriteSize' /\ OneWriter'
    BY <2>1, ReaderKeepsWriters, ZenonT(60)
  <2>3. TypeOK'
    <3>1. pc' \in [Procs -> Where] /\ RLineBlock' \in Nat
      BY <1>0, <2>1, SMTT(60)
    <3> QED
      BY <2>1, <3>1, ZenonT(60) DEF TypeOK
  <2>4. BufferedIsAnnounced'
    BY <1>0, <2>1, ZenonT(60) DEF BufferedIsAnnounced
  <2> QED
    BY <2>2, <2>3, <2>4, ZenonT(60)
<1>2. CASE ReadWait(p)
  <2>1. /\ pc[p] = "read"
        /\ synchReadAvail > 0 /\ synchReadAvail' = synchReadAvail - 1
        /\ pc' = [pc EXCEPT ![p] = "get"]
        /\ UNCHANGED <<size, line, ch, loop, RLineBlock, synchWriteAvail,
                       WLineBlock, incoming, putBusy, output, typed, calls,
                       result>>
    BY <1>2, ZenonT(60) DEF ReadWait, P, Goto, deviceVars
  <2>2. WriteSize' /\ OneWriter'
    BY <2>1, ReaderKeepsWriters, ZenonT(60)
  <2>3. TypeOK'
    <3>1. pc' \in [Procs -> Where] /\ synchReadAvail' \in Nat
      BY <1>0, <2>1, SMTT(60)
    <3> QED
      BY <2>1, <3>1, ZenonT(60) DEF TypeOK
  <2>4. BufferedIsAnnounced'
    BY <1>0, <2>1, ZenonT(60) DEF BufferedIsAnnounced
  <2> QED
    BY <2>2, <2>3, <2>4, ZenonT(60)
<1>3. CASE GetChar(p)
  <2>1. /\ pc[p] = "get" /\ incoming' = EOF
        /\ pc' = [pc EXCEPT ![p] = "read"]
        /\ ch' = [ch EXCEPT ![p] = incoming]
        /\ line' = IF incoming \in Ends \cup {EOF}
                   THEN line
                   ELSE [line EXCEPT ![p] = Append(@, incoming)]
        /\ UNCHANGED <<size, loop, synchReadAvail, RLineBlock, synchWriteAvail,
                       WLineBlock, putBusy, output, typed, calls, result>>
    BY <1>3, ZenonT(60) DEF GetChar, Goto, semVars
  <2>2. WriteSize' /\ OneWriter'
    <3>1. \A q \in Procs \ {p} : line'[q] = line[q]
      BY <2>1, ZenonT(60) DEF TypeOK
    <3> QED
      BY <2>1, <3>1, ReaderKeepsWriters, ZenonT(60)
  <2>3. line' \in [Procs -> Seq(Chars)] /\ ch' \in [Procs -> Chars \cup {EOF, NULL}]
    <3>1. incoming \in Chars \cup {EOF} /\ line[p] \in Seq(Chars)
      BY ZenonT(60) DEF TypeOK
    <3>2. incoming # EOF => Append(line[p], incoming) \in Seq(Chars)
      BY <3>1, SMTT(60)
    <3> QED
      BY <2>1, <3>1, <3>2, ZenonT(60) DEF TypeOK
  <2>4. TypeOK'
    BY <1>0, <2>1, <2>3, ZenonT(60) DEF TypeOK
  <2>5. BufferedIsAnnounced'
    BY <2>1, ZenonT(60) DEF BufferedIsAnnounced
  <2> QED
    BY <2>2, <2>4, <2>5, ZenonT(60)
<1>4. CASE ReadDone(p)
  <2>1. /\ pc[p] = "read" /\ RLineBlock' = RLineBlock + 1
        /\ pc' = [pc EXCEPT ![p] = "user"]
        /\ UNCHANGED <<synchReadAvail, synchWriteAvail, WLineBlock, incoming,
                       putBusy, output, typed, calls>>
    BY <1>4, ZenonT(60) DEF ReadDone, V, Return, Goto, deviceVars
  <2>2. PICK ret \in Int : Return(p, ret)
    <3>1. Len(line[p]) \in Int
      BY SMTT(60) DEF TypeOK
    <3> QED
      BY <1>4, <3>1, SMTT(60) DEF ReadDone
  <2>3. /\ line' \in [Procs -> Seq(Chars)]
        /\ size' \in [Procs -> Nat] /\ loop' \in [Procs -> Nat]
        /\ ch' \in [Procs -> Chars \cup {EOF, NULL}]
    BY <2>2, SMTT(60) DEF Return, TypeOK
  <2>4. result' \in [Procs -> {NULL} \cup [size : Nat, line : Seq(Chars), ret : Int]]
    <3>1. size[p] \in Nat /\ line[p] \in Seq(Chars)
      BY ZenonT(60) DEF TypeOK
    <3> QED
      BY <2>2, <3>1, ZenonT(60) DEF Return, TypeOK
  <2>5. TypeOK'
    <3>1. pc' \in [Procs -> Where] /\ RLineBlock' \in Nat
      BY <1>0, <2>1, SMTT(60)
    <3> QED
      BY <2>1, <2>3, <2>4, <3>1, ZenonT(60) DEF TypeOK
  <2>6. WriteSize' /\ OneWriter'
    <3>1. \A q \in Procs \ {p} : line'[q] = line[q] /\ size'[q] = size[q]
      BY <2>2, ZenonT(60) DEF Return, TypeOK
    <3> QED
      BY <2>1, <3>1, ReaderKeepsWriters, ZenonT(60)
  <2>7. BufferedIsAnnounced'
    BY <1>0, <2>1, ZenonT(60) DEF BufferedIsAnnounced
  <2> QED
    BY <2>5, <2>6, <2>7, ZenonT(60)
<1> QED
  BY <1>1, <1>2, <1>3, <1>4, ZenonT(60)

(* The interrupts of the device.                                           *)
LEMMA DeviceIInv ==
  ASSUME IInv, CharWritten \/ \E c \in Chars \cup {EOF} : CheckCharAvail(c)
  PROVE  IInv'
<1> USE DEF IInv
<1>1. CASE CharWritten
  <2>1. /\ putBusy /\ putBusy' = FALSE
        /\ synchWriteAvail' = synchWriteAvail + 1
        /\ UNCHANGED <<pc, size, line, ch, loop, synchReadAvail, RLineBlock,
                       WLineBlock, incoming, output, typed, calls, result>>
    BY <1>1, ZenonT(60) DEF CharWritten, V, callVars
  <2>2. TypeOK'
    <3>1. synchWriteAvail' \in Nat
      BY <2>1, SMTT(60) DEF TypeOK
    <3>2. putBusy' \in BOOLEAN
      BY <2>1, ZenonT(60)
    <3> QED
      BY <2>1, <3>1, <3>2, ZenonT(60) DEF TypeOK
  <2>3. BufferedIsAnnounced' /\ WriteSize'
    BY <2>1, ZenonT(60) DEF BufferedIsAnnounced, WriteSize, Writing
  <2>4. OneWriter'
    BY <2>1, SMTT(60) DEF OneWriter, Writing
  <2> QED
    BY <2>2, <2>3, <2>4, ZenonT(60)
<1>2. CASE \E c \in Chars \cup {EOF} : CheckCharAvail(c)
  <2>1. PICK c \in Chars \cup {EOF} : CheckCharAvail(c)
    BY <1>2, ZenonT(60)
  <2>2. /\ incoming' = c
        /\ typed < MaxTyped /\ typed' = typed + 1
        /\ synchReadAvail' = synchReadAvail + 1
        /\ UNCHANGED <<pc, size, line, ch, loop, synchWriteAvail, RLineBlock,
                       WLineBlock, putBusy, output, calls, result>>
    BY <2>1, ZenonT(60) DEF CheckCharAvail, V, callVars
  <2>3. synchReadAvail' \in Nat /\ synchReadAvail' > 0 /\ typed' \in 0 .. MaxTyped
    BY <2>2, SynchConsoleAssumption, SMTT(60) DEF TypeOK
  <2>4. TypeOK'
    BY <2>2, <2>3, ZenonT(60) DEF TypeOK
  <2>5. BufferedIsAnnounced' /\ WriteSize'
    BY <2>2, <2>3, ZenonT(60) DEF BufferedIsAnnounced, WriteSize, Writing
  <2>6. OneWriter'
    BY <2>2, ZenonT(60) DEF OneWriter, Writing
  <2> QED
    BY <2>4, <2>5, <2>6, ZenonT(60)
<1> QED
  BY <1>1, <1>2, ZenonT(60)

(* Every step keeps the invariant.                                         *)
LEMMA NextIInv == IInv /\ [Next]_vars => IInv'
<1> SUFFICES ASSUME IInv, [Next]_vars PROVE IInv'
  BY ZenonT(60)
<1>1. ASSUME NEW p \in Procs, KernelStep(p) PROVE IInv'
  BY <1>1, WriteIInv, ReadIInv, ZenonT(60) DEF KernelStep
<1>2. ASSUME NEW p \in Procs, NEW from \in Lines, Write(p, from) PROVE IInv'
  <2>1. from \in Seq(Chars) /\ Len(from) \in Nat
    BY SynchConsoleAssumption, SMTT(60)
  <2> QED
    BY <1>2, <2>1, CallIInv, ZenonT(60) DEF Write
<1>3. ASSUME NEW p \in Procs, NEW numBytes \in Sizes, Read(p, numBytes)
      PROVE  IInv'
  <2>1. numBytes \in Nat /\ <<>> \in Seq(Chars)
    BY SynchConsoleAssumption, SMTT(60)
  <2> QED
    BY <1>3, <2>1, CallIInv, ZenonT(60) DEF Read
<1>4. CASE CharWritten \/ \E c \in Chars \cup {EOF} : CheckCharAvail(c)
  BY <1>4, DeviceIInv, ZenonT(60)
<1>5. CASE UNCHANGED vars
  BY <1>5, ZenonT(60)
     DEF vars, callVars, semVars, deviceVars, IInv, TypeOK, WriteSize,
              OneWriter, Writing, BufferedIsAnnounced
<1> QED
  BY <1>1, <1>2, <1>3, <1>4, <1>5, ZenonT(60) DEF Next

(* The inductive invariant holds throughout.                               *)
THEOREM Invariance == Spec => []IInv
  BY InitIInv, NextIInv, PTL DEF Spec

(* The state is always of its type: no semaphore value is negative.        *)
THEOREM TypeCorrectness == Spec => []TypeOK
<1>1. IInv => TypeOK
  BY ZenonT(60) DEF IInv
<1> QED
  BY <1>1, Invariance, PTL

(* The assertion in Console::PutChar never fails, whatever the number of   *)
(* processes that write.                                                   *)
THEOREM DeviceCorrectness == Spec => []PutCharWhenFree
<1>1. IInv => PutCharWhenFree
  BY ZenonT(60) DEF IInv, OneWriter, Writing, PutCharWhenFree
<1> QED
  BY <1>1, Invariance, PTL

(* No typed character waits in the device unannounced.                     *)
THEOREM AnnouncementCorrectness == Spec => []BufferedIsAnnounced
<1>1. IInv => BufferedIsAnnounced
  BY ZenonT(60) DEF IInv
<1> QED
  BY <1>1, Invariance, PTL

-----------------------------------------------------------------------------
(* The console as a stream: what the calls in progress have done.          *)

(* The last n characters shown are the first n of the line.                *)
Shows(out, from, n) == \E d \in Seq(Chars) : out = d \o SubSeq(from, 1, n)

(* Where a Read is: it has taken a piece of a line, and its end if there   *)
(* was room for one more character.                                        *)
ReadOK(at, numBytes, into, c) ==
  /\ at = "rlock" => numBytes \in Sizes /\ into = <<>> /\ c = NULL
  /\ at \in {"read", "get"} =>
       /\ numBytes \in Sizes /\ into \in Seq(Chars \ Ends) /\ Len(into) <= numBytes
       /\ IF c = NULL THEN into = <<>> ELSE numBytes > 0
       /\ c \in Ends \cup {EOF} => Len(into) < numBytes
  /\ at = "get" => Len(into) < numBytes /\ c \notin Ends

(* Where a Write is: it has shown the first characters of its line.        *)
WriteOK(at, numBytes, from, k, out) ==
  /\ at \in {"wlock", "put", "wait"} => from \in Lines /\ numBytes = Len(from)
  /\ at = "wlock" => k = 0
  /\ at = "put" => k \in 0..numBytes /\ Shows(out, from, k)
  /\ at = "wait" => k \in 0..(numBytes - 1) /\ Shows(out, from, k + 1)

(* RLineBlock is free, or one process reads.                               *)
OneReader ==
  \/ RLineBlock = 1 /\ \A p \in Procs : ~InRead(p)
  \/ /\ RLineBlock = 0
     /\ \E r \in Procs : InRead(r) /\ \A p \in Procs \ {r} : ~InRead(p)

CallsOK ==
  \A p \in Procs : /\ ReadOK(pc[p], size[p], line[p], ch[p])
                   /\ WriteOK(pc[p], size[p], line[p], loop[p], output)

SInv == IInv /\ OneReader /\ CallsOK

-----------------------------------------------------------------------------
(* Characters shown and taken.                                             *)

(* Nothing of a line has been shown at first.                              *)
LEMMA ShowsNone ==
  ASSUME NEW out \in Seq(Chars), NEW from \in Seq(Chars)
  PROVE  Shows(out, from, 0) /\ SubSeq(out, 1, Len(out) - 0) = out
<1>1. out \o SubSeq(from, 1, 0) = out
  BY SMTT(60)
<1>2. SubSeq(out, 1, Len(out) - 0) = out
  BY SMTT(60)
<1> QED BY <1>1, <1>2, ZenonT(60) DEF Shows

(* Appending to a sequence appends to its second part.                     *)
LEMMA AppendLater ==
  \A a, b \in Seq(Chars), x \in Chars : Append(a \o b, x) = a \o Append(b, x)
  BY SMTT(60)

(* PutChar shows the next character of the line: what was there before the *)
(* line stays.                                                             *)
LEMMA ShowsNext ==
  ASSUME NEW out \in Seq(Chars), NEW from \in Seq(Chars),
         NEW k \in 0..(Len(from) - 1), Shows(out, from, k)
  PROVE  /\ Shows(Append(out, from[k + 1]), from, k + 1)
         /\ SubSeq(Append(out, from[k + 1]), 1,
                   Len(Append(out, from[k + 1])) - (k + 1))
              = SubSeq(out, 1, Len(out) - k)
<1>1. PICK d \in Seq(Chars) : out = d \o SubSeq(from, 1, k)
  BY ZenonT(60) DEF Shows
<1> DEFINE s == SubSeq(from, 1, k)
           c == from[k + 1]
<1>2. /\ s \in Seq(Chars) /\ Len(s) = k /\ c \in Chars
      /\ SubSeq(from, 1, k + 1) = Append(s, c)
  BY SMTT(60)
<1>3. k \in Nat /\ out = d \o s
  BY <1>1, SMTT(60)
<1> HIDE DEF s, c
<1>4. Append(out, c) = d \o Append(s, c)
  BY <1>2, <1>3, AppendLater, ZenonT(60)
<1>5. /\ Len(Append(out, c)) - (k + 1) = Len(out) - k
      /\ SubSeq(Append(out, c), 1, Len(out) - k) = SubSeq(out, 1, Len(out) - k)
  BY <1>2, <1>3, SMTT(60)
<1>6. Shows(Append(out, c), from, k + 1)
  BY <1>2, <1>4, ZenonT(60) DEF Shows
<1> QED BY <1>5, <1>6, ZenonT(60) DEF c

(* When all of the line has been shown, it follows what was there before.  *)
LEMMA ShowsAll ==
  ASSUME NEW out \in Seq(Chars), NEW from \in Seq(Chars),
         Shows(out, from, Len(from))
  PROVE  out = SubSeq(out, 1, Len(out) - Len(from)) \o from
<1>1. PICK d \in Seq(Chars) : out = d \o SubSeq(from, 1, Len(from))
  BY ZenonT(60) DEF Shows
<1>2. SubSeq(from, 1, Len(from)) = from
  BY SMTT(60)
<1>3. out = d \o from
  BY <1>1, <1>2, ZenonT(60)
<1>4. SubSeq(out, 1, Len(out) - Len(from)) = d
  BY <1>3, SMTT(60)
<1> QED BY <1>3, <1>4, ZenonT(60)

(* The two parts of a sequence.                                            *)
Joined(u, l, r) ==
  /\ Len(u) = Len(l) + Len(r)
  /\ SubSeq(u, 1, Len(l)) = l
  /\ SubSeq(u, Len(l) + 1, Len(u)) = r
  /\ \A i \in 1..Len(l) : u[i] = l[i]

(* They can be had back from it.                                           *)
LEMMA Parts ==
  ASSUME NEW S, NEW l \in Seq(S), NEW r \in Seq(S)
  PROVE  Joined(l \o r, l, r)
<1>1. Len(l \o r) = Len(l) + Len(r) /\ \A i \in 1..Len(l) : (l \o r)[i] = l[i]
  BY SMTT(60)
<1>2. SubSeq(l \o r, 1, Len(l)) = l
  BY SMTT(60)
<1>3. SubSeq(l \o r, Len(l) + 1, Len(l \o r)) = r
  BY SMTT(60)
<1> QED BY <1>1, <1>2, <1>3, ZenonT(60) DEF Joined

-----------------------------------------------------------------------------
(* The refinement mapping.                                                 *)

(* What has been taken is what the one process inside Read has, if there   *)
(* is one; before and after a step.                                        *)
LEMMA TakenIs ==
  /\ (\A p \in Procs : ~InRead(p)) => Taken = <<>>
  /\ (\A p \in Procs : ~InRead(p)') => Taken' = <<>>
  /\ \A r \in Procs :
       /\ InRead(r) /\ (\A p \in Procs \ {r} : ~InRead(p)) => Taken = TakenBy(r)
       /\ InRead(r)' /\ (\A p \in Procs \ {r} : ~InRead(p)') => Taken' = TakenBy(r)'
<1>1. (\A p \in Procs : ~InRead(p)) => Taken = <<>>
  BY ZenonT(60) DEF Taken
<1>2. (\A p \in Procs : ~InRead(p)') => Taken' = <<>>
  BY ZenonT(60) DEF Taken
<1>3. ASSUME NEW r \in Procs, InRead(r), \A p \in Procs \ {r} : ~InRead(p)
      PROVE  Taken = TakenBy(r)
  <2>1. (CHOOSE p \in Procs : InRead(p)) = r
    BY <1>3, ZenonT(60)
  <2> QED BY <1>3, <2>1, ZenonT(60) DEF Taken
<1>4. ASSUME NEW r \in Procs, InRead(r)', \A p \in Procs \ {r} : ~InRead(p)'
      PROVE  Taken' = TakenBy(r)'
  <2>1. (CHOOSE p \in Procs : InRead(p)') = r
    BY <1>4, ZenonT(60)
  <2> QED BY <1>4, <2>1, ZenonT(60) DEF Taken, TakenBy, EndOfLine
<1> QED BY <1>1, <1>2, <1>3, <1>4, ZenonT(60)

(* What has been shown is what the one process inside Write has shown.     *)
LEMMA ShownIs ==
  /\ (\A p \in Procs : ~Writing(p)) => Shown = 0
  /\ (\A p \in Procs : ~Writing(p)') => Shown' = 0
  /\ \A w \in Procs :
       /\ Writing(w) /\ (\A p \in Procs \ {w} : ~Writing(p)) => Shown = ShownBy(w)
       /\ Writing(w)' /\ (\A p \in Procs \ {w} : ~Writing(p)') => Shown' = ShownBy(w)'
<1>1. (\A p \in Procs : ~Writing(p)) => Shown = 0
  BY ZenonT(60) DEF Shown
<1>2. (\A p \in Procs : ~Writing(p)') => Shown' = 0
  BY ZenonT(60) DEF Shown
<1>3. ASSUME NEW w \in Procs, Writing(w), \A p \in Procs \ {w} : ~Writing(p)
      PROVE  Shown = ShownBy(w)
  <2>1. (CHOOSE p \in Procs : Writing(p)) = w
    BY <1>3, ZenonT(60)
  <2> QED BY <1>3, <2>1, ZenonT(60) DEF Shown
<1>4. ASSUME NEW w \in Procs, Writing(w)', \A p \in Procs \ {w} : ~Writing(p)'
      PROVE  Shown' = ShownBy(w)'
  <2>1. (CHOOSE p \in Procs : Writing(p)') = w
    BY <1>4, ZenonT(60)
  <2> QED BY <1>4, <2>1, ZenonT(60) DEF Shown, ShownBy
<1> QED BY <1>1, <1>2, <1>3, <1>4, ZenonT(60)

(* A step that leaves the readers what they have takes nothing.            *)
LEMMA KeepsTaken ==
  ASSUME OneReader, RLineBlock' = RLineBlock,
         \A q \in Procs : InRead(q)' <=> InRead(q),
         \A q \in Procs : InRead(q) => line'[q] = line[q] /\ ch'[q] = ch[q]
  PROVE  OneReader' /\ Taken' = Taken
<1>1. OneReader'
  BY ZenonT(60) DEF OneReader
<1>2. CASE \A q \in Procs : ~InRead(q)
  BY <1>1, <1>2, TakenIs, ZenonT(60)
<1>3. ASSUME NEW r \in Procs, InRead(r), \A p \in Procs \ {r} : ~InRead(p)
      PROVE  Taken' = Taken
  <2>1. Taken = TakenBy(r) /\ Taken' = TakenBy(r)'
    BY <1>3, TakenIs, ZenonT(60)
  <2> QED BY <1>3, <2>1, ZenonT(60) DEF TakenBy, EndOfLine
<1> QED BY <1>1, <1>2, <1>3, ZenonT(60) DEF OneReader

(* A step that leaves the writers where they are shows nothing.            *)
LEMMA KeepsShown ==
  ASSUME OneWriter,
         \A q \in Procs : Writing(q)' <=> Writing(q),
         \A q \in Procs : Writing(q) => ShownBy(q)' = ShownBy(q)
  PROVE  Shown' = Shown
<1>1. CASE \A q \in Procs : ~Writing(q)
  BY <1>1, ShownIs, ZenonT(60)
<1>2. ASSUME NEW w \in Procs, Writing(w), \A p \in Procs \ {w} : ~Writing(p)
      PROVE  Shown' = Shown
  BY <1>2, ShownIs, ZenonT(60)
<1> QED BY <1>1, <1>2, ZenonT(60) DEF OneWriter

(* A step of one process leaves the calls of the others as they are.       *)
LEMMA KeepsCalls ==
  ASSUME CallsOK, NEW p \in Procs,
         \A q \in Procs \ {p} :
           /\ pc'[q] = pc[q] /\ size'[q] = size[q] /\ line'[q] = line[q]
           /\ ch'[q] = ch[q] /\ loop'[q] = loop[q],
         output' = output \/ \A q \in Procs \ {p} : ~Writing(q),
         ReadOK(pc'[p], size'[p], line'[p], ch'[p]),
         WriteOK(pc'[p], size'[p], line'[p], loop'[p], output')
  PROVE  CallsOK'
<1>1. ASSUME NEW q \in Procs \ {p}
      PROVE  /\ ReadOK(pc'[q], size'[q], line'[q], ch'[q])
             /\ WriteOK(pc'[q], size'[q], line'[q], loop'[q], output')
  <2>1. ReadOK(pc[q], size[q], line[q], ch[q])
        /\ WriteOK(pc[q], size[q], line[q], loop[q], output)
    BY ZenonT(60) DEF CallsOK
  <2>2. CASE output' = output
    BY <2>1, <2>2, ZenonT(60)
  <2>3. CASE pc[q] \notin {"put", "wait"}
    BY <2>1, <2>3, ZenonT(60) DEF WriteOK
  <2> QED BY <2>2, <2>3, ZenonT(60) DEF Writing
<1>2. \A q \in Procs : /\ ReadOK(pc'[q], size'[q], line'[q], ch'[q])
                       /\ WriteOK(pc'[q], size'[q], line'[q], loop'[q], output')
  BY <1>1, ZenonT(60)
<1> QED BY <1>2, ZenonT(60) DEF CallsOK

-----------------------------------------------------------------------------
(* The steps: each keeps the invariant, and is a step of the stream or     *)
(* leaves the stream alone.                                                *)

(* A call that starts takes and shows nothing.                             *)
LEMMA CallStream ==
  ASSUME SInv, NEW p \in Procs, NEW place \in {"wlock", "rlock"},
         NEW buffer, NEW numBytes, Call(p, place, buffer, numBytes),
         place = "wlock" => buffer \in Lines /\ numBytes = Len(buffer),
         place = "rlock" => buffer = <<>> /\ numBytes \in Sizes
  PROVE  OneReader' /\ CallsOK' /\ UNCHANGED <<Unread, Display, result>>
<1>1. /\ pc[p] = "user"
      /\ pc' = [pc EXCEPT ![p] = place]
      /\ line' = [line EXCEPT ![p] = buffer]
      /\ size' = [size EXCEPT ![p] = numBytes]
      /\ loop' = [loop EXCEPT ![p] = 0]
      /\ ch' = [ch EXCEPT ![p] = NULL]
      /\ UNCHANGED <<RLineBlock, incoming, output, result>>
  BY ZenonT(60) DEF Call, Goto, semVars, deviceVars
<1>2. /\ pc'[p] = place /\ line'[p] = buffer /\ size'[p] = numBytes
      /\ loop'[p] = 0 /\ ch'[p] = NULL
      /\ \A q \in Procs \ {p} :
           /\ pc'[q] = pc[q] /\ size'[q] = size[q] /\ line'[q] = line[q]
           /\ ch'[q] = ch[q] /\ loop'[q] = loop[q]
  BY <1>1, ZenonT(60) DEF SInv, IInv, TypeOK
<1>3. \A q \in Procs : /\ InRead(q)' <=> InRead(q)
                       /\ InRead(q) => line'[q] = line[q] /\ ch'[q] = ch[q]
                       /\ Writing(q)' <=> Writing(q)
                       /\ Writing(q) => ShownBy(q)' = ShownBy(q)
  BY <1>1, <1>2, ZenonT(60) DEF InRead, Writing, ShownBy
<1>4. OneReader' /\ Taken' = Taken
  BY <1>1, <1>3, KeepsTaken, ZenonT(60) DEF SInv
<1>5. Shown' = Shown
  BY <1>3, KeepsShown, ZenonT(60) DEF SInv, IInv
<1>6. ReadOK(pc'[p], size'[p], line'[p], ch'[p])
      /\ WriteOK(pc'[p], size'[p], line'[p], loop'[p], output')
  BY <1>2, ZenonT(60) DEF ReadOK, WriteOK
<1>7. CallsOK'
  BY <1>1, <1>2, <1>6, KeepsCalls, ZenonT(60) DEF SInv
<1> QED BY <1>1, <1>4, <1>5, <1>7, ZenonT(60) DEF Unread, Display

(* A writer that gets the line has shown nothing of it.                    *)
LEMMA WriteLockStream ==
  ASSUME SInv, NEW p \in Procs, WriteLock(p)
  PROVE  OneReader' /\ CallsOK' /\ UNCHANGED <<Unread, Display, result>>
<1>1. /\ pc[p] = "wlock" /\ WLineBlock > 0
      /\ pc' = [pc EXCEPT ![p] = "put"]
      /\ UNCHANGED <<size, line, ch, loop, RLineBlock, incoming, output, result>>
  BY ZenonT(60) DEF WriteLock, P, Goto, deviceVars
<1>2. pc'[p] = "put" /\ \A q \in Procs \ {p} : pc'[q] = pc[q]
  BY <1>1, ZenonT(60) DEF SInv, IInv, TypeOK
<1>3. \A q \in Procs : ~Writing(q)
  BY <1>1, SMTT(60) DEF SInv, IInv, OneWriter
<1>4. \A q \in Procs : InRead(q)' <=> InRead(q)
  BY <1>1, <1>2, ZenonT(60) DEF InRead
<1>5. OneReader' /\ Taken' = Taken
  BY <1>1, <1>4, KeepsTaken, ZenonT(60) DEF SInv
<1>6. line[p] \in Lines /\ size[p] = Len(line[p]) /\ loop[p] = 0
  BY <1>1, ZenonT(60) DEF SInv, CallsOK, WriteOK
<1>7. Shown = 0 /\ Shown' = 0
  <2>1. Shown' = ShownBy(p)'
    BY <1>2, <1>3, ShownIs, ZenonT(60) DEF Writing
  <2>2. ShownBy(p)' = loop[p] + 0
    BY <1>1, <1>2, ZenonT(60) DEF ShownBy
  <2> QED BY <1>3, <1>6, <2>1, <2>2, ShownIs, SMTT(60)
<1>8. Shows(output, line[p], 0) /\ 0 \in 0..Len(line[p])
  <2>1. output \in Seq(Chars) /\ line[p] \in Seq(Chars)
    BY ZenonT(60) DEF SInv, IInv, TypeOK
  <2>2. 0 \in 0..Len(line[p])
    BY <2>1, SMTT(60)
  <2> QED BY <2>1, <2>2, ShowsNone, ZenonT(60)
<1>9. ReadOK(pc'[p], size'[p], line'[p], ch'[p])
      /\ WriteOK(pc'[p], size'[p], line'[p], loop'[p], output')
  BY <1>1, <1>2, <1>6, <1>8, ZenonT(60) DEF ReadOK, WriteOK
<1>10. CallsOK'
  BY <1>1, <1>2, <1>9, KeepsCalls, ZenonT(60) DEF SInv
<1> QED BY <1>1, <1>5, <1>7, <1>10, ZenonT(60) DEF Unread, Display

(* The process inside Write is the only one, and has shown as much of its  *)
(* line as its counter says.                                               *)
LEMMA WriterIs ==
  ASSUME SInv, NEW p \in Procs, Writing(p)
  PROVE  /\ \A q \in Procs \ {p} : ~Writing(q)
         /\ Shown = ShownBy(p)
         /\ line[p] \in Lines /\ size[p] = Len(line[p]) /\ loop[p] \in Nat
         /\ line[p] \in Seq(Chars) /\ output \in Seq(Chars)
<1>1. \A q \in Procs \ {p} : ~Writing(q)
  BY ZenonT(60) DEF SInv, IInv, OneWriter
<1>2. /\ line[p] \in Lines /\ size[p] = Len(line[p])
  BY ZenonT(60) DEF SInv, CallsOK, WriteOK, Writing
<1>3. loop[p] \in Nat /\ line[p] \in Seq(Chars) /\ output \in Seq(Chars)
  BY ZenonT(60) DEF SInv, IInv, TypeOK
<1> QED BY <1>1, <1>2, <1>3, ShownIs, ZenonT(60)

(* PutChar shows a character that does not count as displayed yet.         *)
LEMMA PutCharStream ==
  ASSUME SInv, NEW p \in Procs, PutChar(p)
  PROVE  OneReader' /\ CallsOK' /\ UNCHANGED <<Unread, Display, result>>
<1> DEFINE k == loop[p]
           from == line[p]
<1>1. /\ pc[p] = "put" /\ k < size[p]
      /\ pc' = [pc EXCEPT ![p] = "wait"]
      /\ output' = Append(output, from[k + 1])
      /\ UNCHANGED <<size, line, ch, loop, RLineBlock, incoming, result>>
  BY ZenonT(60) DEF PutChar, Goto, semVars
<1>2. pc'[p] = "wait" /\ \A q \in Procs \ {p} : pc'[q] = pc[q]
  BY <1>1, ZenonT(60) DEF SInv, IInv, TypeOK
<1>3. /\ \A q \in Procs \ {p} : ~Writing(q)
      /\ Shown = ShownBy(p)
      /\ from \in Lines /\ size[p] = Len(from) /\ k \in Nat
      /\ from \in Seq(Chars) /\ output \in Seq(Chars)
  BY <1>1, WriterIs, ZenonT(60) DEF Writing
<1>4. \A q \in Procs : InRead(q)' <=> InRead(q)
  BY <1>1, <1>2, ZenonT(60) DEF InRead
<1>5. OneReader' /\ Taken' = Taken
  BY <1>1, <1>4, KeepsTaken, ZenonT(60) DEF SInv
<1>6. Shows(output, from, k)
  BY <1>1, ZenonT(60) DEF SInv, CallsOK, WriteOK
<1>7. Shown = k /\ Shown' = k + 1
  <2>1. Shown' = ShownBy(p)'
    BY <1>2, <1>3, ShownIs, ZenonT(60) DEF Writing
  <2>2. ShownBy(p)' = k + 1 /\ ShownBy(p) = k + 0
    BY <1>1, <1>2, ZenonT(60) DEF ShownBy
  <2> QED BY <1>3, <2>1, <2>2, SMTT(60)
<1>8. k \in 0..(size[p] - 1) /\ k \in 0..(Len(from) - 1)
  BY <1>1, <1>3, SMTT(60)
<1>9. /\ Shows(output', from, k + 1)
      /\ SubSeq(output', 1, Len(output') - (k + 1)) = SubSeq(output, 1, Len(output) - k)
  BY <1>1, <1>3, <1>6, <1>8, ShowsNext, ZenonT(60)
<1>10. ReadOK(pc'[p], size'[p], line'[p], ch'[p])
       /\ WriteOK(pc'[p], size'[p], line'[p], loop'[p], output')
  BY <1>1, <1>2, <1>3, <1>8, <1>9, ZenonT(60) DEF ReadOK, WriteOK
<1>11. CallsOK'
  BY <1>1, <1>2, <1>3, <1>10, KeepsCalls, ZenonT(60) DEF SInv
<1> QED BY <1>1, <1>5, <1>7, <1>9, <1>11, ZenonT(60) DEF Unread, Display

(* The interrupt has come: the counter moves on.                           *)
LEMMA WriteWaitStream ==
  ASSUME SInv, NEW p \in Procs, WriteWait(p)
  PROVE  OneReader' /\ CallsOK' /\ UNCHANGED <<Unread, Display, result>>
<1>1. /\ pc[p] = "wait"
      /\ pc' = [pc EXCEPT ![p] = "put"]
      /\ loop' = [loop EXCEPT ![p] = @ + 1]
      /\ UNCHANGED <<size, line, ch, RLineBlock, incoming, output, result>>
  BY ZenonT(60) DEF WriteWait, Goto, deviceVars
<1>2. /\ pc'[p] = "put" /\ loop'[p] = loop[p] + 1
      /\ \A q \in Procs \ {p} : pc'[q] = pc[q] /\ loop'[q] = loop[q]
  BY <1>1, ZenonT(60) DEF SInv, IInv, TypeOK
<1>3. /\ \A q \in Procs \ {p} : ~Writing(q)
      /\ line[p] \in Lines /\ size[p] = Len(line[p]) /\ loop[p] \in Nat
      /\ line[p] \in Seq(Chars)
  BY <1>1, WriterIs, ZenonT(60) DEF Writing
<1>4. \A q \in Procs : InRead(q)' <=> InRead(q)
  BY <1>1, <1>2, ZenonT(60) DEF InRead
<1>5. OneReader' /\ Taken' = Taken
  BY <1>1, <1>4, KeepsTaken, ZenonT(60) DEF SInv
<1>6. Shown' = Shown
  <2>1. ShownBy(p)' = (loop[p] + 1) + 0 /\ ShownBy(p) = loop[p] + 1
    BY <1>1, <1>2, ZenonT(60) DEF ShownBy
  <2>2. ShownBy(p)' = ShownBy(p)
    BY <1>3, <2>1, SMTT(60)
  <2> QED BY <1>1, <1>2, <1>3, <2>2, KeepsShown, ZenonT(60) DEF Writing, SInv, IInv
<1>7. /\ loop[p] \in 0..(size[p] - 1) /\ Shows(output, line[p], loop[p] + 1)
  BY <1>1, ZenonT(60) DEF SInv, CallsOK, WriteOK
<1>8. loop[p] + 1 \in 0..size[p]
  <2>1. size[p] \in Nat
    BY <1>3, SMTT(60)
  <2> QED BY <1>3, <1>7, <2>1, SMTT(60)
<1>9. ReadOK(pc'[p], size'[p], line'[p], ch'[p])
      /\ WriteOK(pc'[p], size'[p], line'[p], loop'[p], output')
  BY <1>1, <1>2, <1>3, <1>7, <1>8, ZenonT(60) DEF ReadOK, WriteOK
<1>10. CallsOK'
  BY <1>1, <1>2, <1>9, KeepsCalls, ZenonT(60) DEF SInv
<1> QED BY <1>1, <1>5, <1>6, <1>10, ZenonT(60) DEF Unread, Display

(* The line counts as displayed when Write returns.                        *)
LEMMA WriteDoneStream ==
  ASSUME SInv, NEW p \in Procs, WriteDone(p)
  PROVE  OneReader' /\ CallsOK' /\ \E from \in Lines : Stream!Write(p, from)
<1>1. /\ pc[p] = "put" /\ loop[p] = size[p]
      /\ pc' = [pc EXCEPT ![p] = "user"]
      /\ line' = [line EXCEPT ![p] = <<>>]
      /\ size' = [size EXCEPT ![p] = 0]
      /\ loop' = [loop EXCEPT ![p] = 0]
      /\ ch' = [ch EXCEPT ![p] = NULL]
      /\ result' = [result EXCEPT ![p] =
                      [size |-> size[p], line |-> line[p], ret |-> size[p]]]
      /\ UNCHANGED <<RLineBlock, incoming, output>>
  BY ZenonT(60) DEF WriteDone, Return, Goto, deviceVars
<1>2. /\ pc'[p] = "user"
      /\ \A q \in Procs \ {p} :
           /\ pc'[q] = pc[q] /\ size'[q] = size[q] /\ line'[q] = line[q]
           /\ ch'[q] = ch[q] /\ loop'[q] = loop[q]
  BY <1>1, ZenonT(60) DEF SInv, IInv, TypeOK
<1>3. /\ \A q \in Procs \ {p} : ~Writing(q)
      /\ Shown = ShownBy(p)
      /\ line[p] \in Lines /\ size[p] = Len(line[p]) /\ loop[p] \in Nat
      /\ line[p] \in Seq(Chars) /\ output \in Seq(Chars)
  BY <1>1, WriterIs, ZenonT(60) DEF Writing
<1>4. \A q \in Procs : /\ InRead(q)' <=> InRead(q)
                       /\ InRead(q) => line'[q] = line[q] /\ ch'[q] = ch[q]
  BY <1>1, <1>2, ZenonT(60) DEF InRead
<1>5. OneReader' /\ Taken' = Taken
  BY <1>1, <1>4, KeepsTaken, ZenonT(60) DEF SInv
<1>6. ReadOK(pc'[p], size'[p], line'[p], ch'[p])
      /\ WriteOK(pc'[p], size'[p], line'[p], loop'[p], output')
  BY <1>2, ZenonT(60) DEF ReadOK, WriteOK
<1>7. CallsOK'
  BY <1>1, <1>2, <1>6, KeepsCalls, ZenonT(60) DEF SInv
<1>8. Display' = Display \o line[p]
  <2>1. Shows(output, line[p], Len(line[p]))
    BY <1>1, <1>3, ZenonT(60) DEF SInv, CallsOK, WriteOK
  <2>2. output = SubSeq(output, 1, Len(output) - Len(line[p])) \o line[p]
    BY <1>3, <2>1, ShowsAll, ZenonT(60)
  <2>3. ShownBy(p) = loop[p] + 0
    BY <1>1, ZenonT(60) DEF ShownBy
  <2>4. Shown = Len(line[p])
    BY <1>1, <1>3, <2>3, SMTT(60)
  <2>5. Shown' = 0
    BY <1>2, <1>3, ShownIs, ZenonT(60) DEF Writing
  <2>6. SubSeq(output, 1, Len(output) - 0) = output
    BY <1>3, ShowsNone, ZenonT(60)
  <2> QED BY <1>1, <2>2, <2>4, <2>5, <2>6, ZenonT(60) DEF Display
<1>9. Unread' = Unread
  BY <1>1, <1>5, ZenonT(60) DEF Unread
<1>10. Stream!Write(p, line[p])
  BY <1>1, <1>3, <1>8, <1>9, ZenonT(60) DEF Stream!Write, Stream!Returns
<1> QED BY <1>3, <1>5, <1>7, <1>10, ZenonT(60)

(* The process inside Read is the only one.                                *)
LEMMA ReaderIs ==
  ASSUME SInv, NEW p \in Procs, InRead(p)
  PROVE  /\ \A q \in Procs \ {p} : ~InRead(q)
         /\ RLineBlock = 0 /\ Taken = TakenBy(p)
         /\ size[p] \in Sizes /\ size[p] \in Nat
         /\ line[p] \in Seq(Chars \ Ends) /\ Len(line[p]) \in 0..size[p]
         /\ ch[p] \in Chars \cup {EOF, NULL} /\ incoming \in Chars \cup {EOF}
<1>1. (\A q \in Procs \ {p} : ~InRead(q)) /\ RLineBlock = 0
  BY ZenonT(60) DEF SInv, OneReader
<1>2. size[p] \in Sizes /\ line[p] \in Seq(Chars \ Ends) /\ Len(line[p]) <= size[p]
  BY ZenonT(60) DEF SInv, CallsOK, ReadOK, InRead
<1>3. /\ size[p] \in Nat /\ ch[p] \in Chars \cup {EOF, NULL}
      /\ incoming \in Chars \cup {EOF}
  BY ZenonT(60) DEF SInv, IInv, TypeOK
<1>4. Len(line[p]) \in 0..size[p]
  BY <1>2, <1>3, SMTT(60)
<1> QED BY <1>1, <1>2, <1>3, <1>4, TakenIs, ZenonT(60)

(* A reader that gets the line has taken nothing.                          *)
LEMMA ReadLockStream ==
  ASSUME SInv, NEW p \in Procs, ReadLock(p)
  PROVE  OneReader' /\ CallsOK' /\ UNCHANGED <<Unread, Display, result>>
<1>1. /\ pc[p] = "rlock" /\ RLineBlock > 0 /\ RLineBlock' = RLineBlock - 1
      /\ pc' = [pc EXCEPT ![p] = "read"]
      /\ UNCHANGED <<size, line, ch, loop, incoming, output, result>>
  BY ZenonT(60) DEF ReadLock, P, Goto, deviceVars
<1>2. pc'[p] = "read" /\ \A q \in Procs \ {p} : pc'[q] = pc[q]
  BY <1>1, ZenonT(60) DEF SInv, IInv, TypeOK
<1>3. RLineBlock' = 0 /\ \A q \in Procs : ~InRead(q)
  BY <1>1, SMTT(60) DEF SInv, OneReader
<1>4. OneReader'
  BY <1>2, <1>3, ZenonT(60) DEF OneReader, InRead
<1>5. size[p] \in Sizes /\ line[p] = <<>> /\ ch[p] = NULL
  BY <1>1, ZenonT(60) DEF SInv, CallsOK, ReadOK
<1>6. NULL \notin Ends \cup {EOF}
  BY SynchConsoleAssumption, ZenonT(60) DEF Ends
<1>7. Taken = <<>> /\ Taken' = <<>>
  <2>1. Taken' = TakenBy(p)'
    BY <1>2, <1>3, TakenIs, ZenonT(60) DEF InRead
  <2>2. TakenBy(p)' = <<>> \o <<>>
    BY <1>1, <1>5, <1>6, ZenonT(60) DEF TakenBy, EndOfLine
  <2>3. <<>> \o <<>> = <<>>
    BY SMTT(60)
  <2> QED BY <1>3, <2>1, <2>2, <2>3, TakenIs, ZenonT(60)
<1>8. Shown' = Shown
  BY <1>1, <1>2, KeepsShown, ZenonT(60) DEF Writing, ShownBy, SInv, IInv
<1>9. ReadOK(pc'[p], size'[p], line'[p], ch'[p])
      /\ WriteOK(pc'[p], size'[p], line'[p], loop'[p], output')
  <2>1. size[p] \in Nat
    BY ZenonT(60) DEF SInv, IInv, TypeOK
  <2>2. <<>> \in Seq(Chars \ Ends) /\ Len(<<>>) <= size[p]
    BY <2>1, SMTT(60)
  <2> QED BY <1>1, <1>2, <1>5, <1>6, <2>2, ZenonT(60) DEF ReadOK, WriteOK
<1>10. CallsOK'
  BY <1>1, <1>2, <1>9, KeepsCalls, ZenonT(60) DEF SInv
<1> QED BY <1>1, <1>4, <1>7, <1>8, <1>10, ZenonT(60) DEF Unread, Display

(* A reader that is told of a character has not taken it yet.              *)
LEMMA ReadWaitStream ==
  ASSUME SInv, NEW p \in Procs, ReadWait(p)
  PROVE  OneReader' /\ CallsOK' /\ UNCHANGED <<Unread, Display, result>>
<1>1. /\ pc[p] = "read" /\ Reading(p)
      /\ pc' = [pc EXCEPT ![p] = "get"]
      /\ UNCHANGED <<size, line, ch, loop, RLineBlock, incoming, output, result>>
  BY ZenonT(60) DEF ReadWait, Goto, deviceVars
<1>2. pc'[p] = "get" /\ \A q \in Procs \ {p} : pc'[q] = pc[q]
  BY <1>1, ZenonT(60) DEF SInv, IInv, TypeOK
<1>3. \A q \in Procs : InRead(q)' <=> InRead(q)
  BY <1>1, <1>2, ZenonT(60) DEF InRead
<1>4. OneReader' /\ Taken' = Taken
  BY <1>1, <1>3, KeepsTaken, ZenonT(60) DEF SInv
<1>5. Shown' = Shown
  BY <1>1, <1>2, KeepsShown, ZenonT(60) DEF Writing, ShownBy, SInv, IInv
<1>6. ReadOK(pc'[p], size'[p], line'[p], ch'[p])
      /\ WriteOK(pc'[p], size'[p], line'[p], loop'[p], output')
  <2>1. ReadOK(pc[p], size[p], line[p], ch[p])
    BY ZenonT(60) DEF SInv, CallsOK
  <2> QED BY <1>1, <1>2, <2>1, ZenonT(60) DEF ReadOK, WriteOK, Reading, EndOfLine
<1>7. CallsOK'
  BY <1>1, <1>2, <1>6, KeepsCalls, ZenonT(60) DEF SInv
<1> QED BY <1>1, <1>4, <1>5, <1>7, ZenonT(60) DEF Unread, Display

(* GetChar moves the character from the device to the reader; a byte 0xFF  *)
(* is none.                                                                *)
LEMMA GetCharStream ==
  ASSUME SInv, NEW p \in Procs, GetChar(p)
  PROVE  OneReader' /\ CallsOK' /\ UNCHANGED <<Unread, Display, result>>
<1> DEFINE l == line[p]
           c == incoming
<1>1. /\ pc[p] = "get" /\ incoming' = EOF
      /\ pc' = [pc EXCEPT ![p] = "read"]
      /\ ch' = [ch EXCEPT ![p] = c]
      /\ line' = IF c \in Ends \cup {EOF}
                 THEN line ELSE [line EXCEPT ![p] = Append(@, c)]
      /\ UNCHANGED <<size, loop, RLineBlock, output, result>>
  BY ZenonT(60) DEF GetChar, Goto, semVars
<1>2. /\ pc'[p] = "read" /\ ch'[p] = c
      /\ line'[p] = IF c \in Ends \cup {EOF} THEN l ELSE Append(l, c)
      /\ \A q \in Procs \ {p} : /\ pc'[q] = pc[q] /\ ch'[q] = ch[q]
                                /\ line'[q] = line[q]
  BY <1>1, ZenonT(60) DEF SInv, IInv, TypeOK
<1>3. /\ \A q \in Procs \ {p} : ~InRead(q)
      /\ RLineBlock = 0 /\ Taken = TakenBy(p)
      /\ size[p] \in Sizes /\ size[p] \in Nat
      /\ l \in Seq(Chars \ Ends) /\ Len(l) \in 0..size[p]
      /\ c \in Chars \cup {EOF}
  BY <1>1, ReaderIs, ZenonT(60) DEF InRead
<1>4. Len(l) < size[p] /\ ch[p] \notin Ends
  BY <1>1, ZenonT(60) DEF SInv, CallsOK, ReadOK
<1>5. OneReader'
  BY <1>1, <1>2, <1>3, ZenonT(60) DEF OneReader, InRead
<1>6. EOF \notin Ends /\ NULL \notin Chars \cup {EOF}
  BY SynchConsoleAssumption, ZenonT(60) DEF Ends
<1>7. Taken = l \o <<>> /\ Taken' = TakenBy(p)'
  <2>1. Taken' = TakenBy(p)'
    BY <1>2, <1>3, TakenIs, ZenonT(60) DEF InRead
  <2> QED BY <1>3, <1>4, <2>1, ZenonT(60) DEF TakenBy, EndOfLine
<1>8. Unread' = Unread
  <2>1. Unread = (l \o <<>>) \o IF c = EOF THEN <<>> ELSE <<c>>
    BY <1>7, ZenonT(60) DEF Unread
  <2>2. Unread' = (line'[p] \o IF c \in Ends THEN <<c>> ELSE <<>>) \o <<>>
    <3>1. Unread' = Taken' \o <<>>
      BY <1>1, ZenonT(60) DEF Unread
    <3>2. TakenBy(p)' = line'[p] \o IF c \in Ends THEN <<c>> ELSE <<>>
      BY <1>2, ZenonT(60) DEF TakenBy, EndOfLine
    <3> QED BY <1>7, <3>1, <3>2, ZenonT(60)
  <2>3. CASE c = EOF
    <3>1. Unread = (l \o <<>>) \o <<>> /\ Unread' = (l \o <<>>) \o <<>>
      BY <1>2, <1>6, <2>1, <2>2, <2>3, ZenonT(60)
    <3> QED BY <3>1, ZenonT(60)
  <2>4. CASE c \in Ends
    <3>1. Unread = (l \o <<>>) \o <<c>> /\ Unread' = (l \o <<c>>) \o <<>>
      BY <1>2, <1>6, <2>1, <2>2, <2>4, ZenonT(60)
    <3>2. (l \o <<>>) \o <<c>> = (l \o <<c>>) \o <<>>
      BY <1>3, SMTT(60)
    <3> QED BY <3>1, <3>2, ZenonT(60)
  <2>5. CASE c \notin Ends \cup {EOF}
    <3>1. Unread = (l \o <<>>) \o <<c>> /\ Unread' = (Append(l, c) \o <<>>) \o <<>>
      BY <1>2, <2>1, <2>2, <2>5, ZenonT(60)
    <3>2. (l \o <<>>) \o <<c>> = (Append(l, c) \o <<>>) \o <<>>
      BY <1>3, SMTT(60)
    <3> QED BY <3>1, <3>2, ZenonT(60)
  <2> QED BY <2>3, <2>4, <2>5, ZenonT(60)
<1>9. Shown' = Shown
  BY <1>1, <1>2, KeepsShown, ZenonT(60) DEF Writing, ShownBy, SInv, IInv
<1>10. ReadOK(pc'[p], size'[p], line'[p], ch'[p])
       /\ WriteOK(pc'[p], size'[p], line'[p], loop'[p], output')
  <2>1. size[p] > 0
    BY <1>3, <1>4, SMTT(60)
  <2>2. c # NULL
    BY <1>3, <1>6, ZenonT(60)
  <2>3. CASE c \in Ends \cup {EOF}
    <3>1. Len(l) <= size[p]
      BY <1>3, SMTT(60)
    <3> QED BY <1>1, <1>2, <1>3, <1>4, <2>1, <2>2, <2>3, <3>1, ZenonT(60)
            DEF ReadOK, WriteOK
  <2>4. CASE c \notin Ends \cup {EOF}
    <3>1. c \in Chars \ Ends
      BY <1>3, <2>4, ZenonT(60)
    <3>2. Append(l, c) \in Seq(Chars \ Ends) /\ Len(Append(l, c)) <= size[p]
      BY <1>3, <1>4, <3>1, SMTT(60)
    <3> QED BY <1>1, <1>2, <1>3, <2>1, <2>2, <2>4, <3>2, ZenonT(60)
            DEF ReadOK, WriteOK
  <2> QED BY <2>3, <2>4, ZenonT(60)
<1>11. CallsOK'
  BY <1>1, <1>2, <1>10, KeepsCalls, ZenonT(60) DEF SInv
<1> QED BY <1>1, <1>5, <1>8, <1>9, <1>11, ZenonT(60) DEF Display

(* A Read returns a piece of what was typed, or a line and its end.        *)
LEMMA ReadDoneStream ==
  ASSUME SInv, NEW p \in Procs, ReadDone(p)
  PROVE  /\ OneReader' /\ CallsOK'
         /\ \/ \E n \in Sizes : Stream!ReadPiece(p, n) \/ Stream!ReadLine(p, n)
            \/ Stream!ReadNothing(p)
<1> DEFINE l == line[p]
           n == size[p]
           c == ch[p]
           r == IF incoming = EOF THEN <<>> ELSE <<incoming>>
           Answer == IF c = NULL THEN {-1, 0}
                     ELSE IF c = CtrlA THEN {-1} ELSE {Len(l)}
<1>1. PICK ret \in Answer :
        /\ pc[p] = "read" /\ ~Reading(p) /\ RLineBlock' = RLineBlock + 1
        /\ Return(p, ret)
        /\ UNCHANGED <<incoming, output>>
  BY ZenonT(60) DEF ReadDone, V, deviceVars
<1>2. /\ pc' = [pc EXCEPT ![p] = "user"]
      /\ line' = [line EXCEPT ![p] = <<>>]
      /\ size' = [size EXCEPT ![p] = 0]
      /\ loop' = [loop EXCEPT ![p] = 0]
      /\ ch' = [ch EXCEPT ![p] = NULL]
      /\ result' = [result EXCEPT ![p] = [size |-> n, line |-> l, ret |-> ret]]
  BY <1>1, ZenonT(60) DEF Return, Goto
<1>3. /\ pc'[p] = "user"
      /\ \A q \in Procs \ {p} :
           /\ pc'[q] = pc[q] /\ size'[q] = size[q] /\ line'[q] = line[q]
           /\ ch'[q] = ch[q] /\ loop'[q] = loop[q]
  BY <1>2, ZenonT(60) DEF SInv, IInv, TypeOK
<1>4. /\ \A q \in Procs \ {p} : ~InRead(q)
      /\ RLineBlock = 0 /\ Taken = TakenBy(p)
      /\ n \in Sizes /\ n \in Nat
      /\ l \in Seq(Chars \ Ends) /\ Len(l) \in 0..n
      /\ c \in Chars \cup {EOF, NULL} /\ incoming \in Chars \cup {EOF}
  BY <1>1, ReaderIs, ZenonT(60) DEF InRead
<1>5. /\ IF c = NULL THEN l = <<>> ELSE n > 0
      /\ c \in Ends \cup {EOF} => Len(l) < n
  BY <1>1, ZenonT(60) DEF SInv, CallsOK, ReadOK
<1>6. OneReader' /\ Taken' = <<>>
  <2>1. \A q \in Procs : ~InRead(q)'
    BY <1>3, <1>4, ZenonT(60) DEF InRead
  <2>2. RLineBlock' = 1
    BY <1>1, <1>4, SMTT(60)
  <2> QED BY <2>1, <2>2, TakenIs, ZenonT(60) DEF OneReader
<1>7. CallsOK'
  <2>1. ReadOK(pc'[p], size'[p], line'[p], ch'[p])
        /\ WriteOK(pc'[p], size'[p], line'[p], loop'[p], output')
    BY <1>3, ZenonT(60) DEF ReadOK, WriteOK
  <2> QED BY <1>1, <1>3, <2>1, KeepsCalls, ZenonT(60) DEF SInv
<1>8. Display' = Display
  <2>1. \A q \in Procs : /\ Writing(q)' <=> Writing(q)
                         /\ Writing(q) => ShownBy(q)' = ShownBy(q)
    BY <1>1, <1>3, ZenonT(60) DEF Writing, ShownBy
  <2>2. Shown' = Shown
    BY <2>1, KeepsShown, ZenonT(60) DEF SInv, IInv
  <2> QED BY <1>1, <2>2, ZenonT(60) DEF Display
<1>9. /\ r \in Seq(Chars) /\ l \in Seq(Chars) /\ <<>> \o r = r /\ l \o <<>> = l
      /\ \A i \in 1..Len(l) : l[i] \notin Ends
  <2>1. r \in Seq(Chars)
    BY <1>4, SMTT(60)
  <2>2. l \in Seq(Chars) /\ \A i \in 1..Len(l) : l[i] \notin Ends
    BY <1>4, SMTT(60)
  <2> HIDE DEF l, r
  <2> QED BY <2>1, <2>2, SMTT(60)
<1>10. Unread' = r
  BY <1>1, <1>6, <1>9, ZenonT(60) DEF Unread
<1>11. CtrlA \in Ends /\ NULL \notin Ends \cup {EOF} /\ Ends \subseteq Chars
  BY SynchConsoleAssumption, ZenonT(60) DEF Ends
<1>12. Unread = (l \o IF c \in Ends THEN <<c>> ELSE <<>>) \o r
  BY <1>4, ZenonT(60) DEF Unread, TakenBy, EndOfLine
<1>13. c \in Ends \/ Len(l) = n
  <2>1. c \in Ends \/ ~(Len(l) < n)
    BY <1>1, ZenonT(60) DEF Reading, EndOfLine
  <2> QED BY <1>4, <2>1, SMTT(60)
<1> HIDE DEF l, n, c, r
<1>14. CASE c = NULL
  <2>1. l = <<>> /\ n = 0
    <3>1. l = <<>> /\ c \notin Ends
      BY <1>5, <1>11, <1>14, ZenonT(60)
    <3> QED BY <1>13, <3>1, SMTT(60)
  <2>2. Unread = (<<>> \o <<>>) \o r
    BY <1>11, <1>12, <1>14, <2>1, ZenonT(60)
  <2>3. Unread = r
    BY <1>9, <2>1, <2>2, ZenonT(60)
  <2>4. ret \in {-1, 0}
    BY <1>14, ZenonT(60)
  <2>5. Stream!ReadNothing(p)
    BY <1>2, <1>8, <1>10, <2>1, <2>3, <2>4, ZenonT(60)
       DEF Stream!ReadNothing, Stream!Returns, l, n
  <2> QED BY <1>6, <1>7, <2>5, ZenonT(60)
<1>15. CASE c \in Ends
  <2> DEFINE t == l \o <<c>>
             u == Unread
             m == Len(l) + 1
  <2>1. /\ t \in Seq(Chars) /\ Len(t) = m /\ t[m] = c
    BY <1>9, <1>11, <1>15, SMTT(60)
  <2>2. u = t \o r
    BY <1>12, <1>15, ZenonT(60)
  <2>3. u = l \o (<<c>> \o r) /\ <<c>> \o r \in Seq(Chars)
    BY <1>9, <1>11, <1>15, <2>2, SMTT(60)
  <2>4. m \in 1..n /\ m - 1 = Len(l) /\ m \in 1..m
    BY <1>4, <1>5, <1>15, SMTT(60)
  <2> HIDE DEF t, u, m
  <2>5. /\ Len(u) = m + Len(r) /\ SubSeq(u, m + 1, Len(u)) = r /\ u[m] = c
    <3>1. Joined(u, t, r)
      BY <1>9, <2>1, <2>2, Parts, ZenonT(60)
    <3> QED BY <2>1, <2>4, <3>1, ZenonT(60) DEF Joined
  <2>6. /\ SubSeq(u, 1, Len(l)) = l /\ \A i \in 1..Len(l) : u[i] = l[i]
    <3>1. Joined(u, l, <<c>> \o r)
      BY <1>9, <2>3, Parts, ZenonT(60)
    <3> QED BY <3>1, ZenonT(60) DEF Joined
  <2>7. u \in Seq(Chars) /\ m \in DOMAIN u /\ m <= n
    <3>1. u \in Seq(Chars) /\ Len(r) \in Nat
      BY <1>9, <2>1, <2>2, SMTT(60)
    <3> QED BY <1>4, <2>4, <2>5, <3>1, SMTT(60)
  <2>8. ret = IF u[m] = CtrlA THEN -1 ELSE m - 1
    BY <1>11, <1>15, <2>4, <2>5, ZenonT(60)
  <2>9. u[m] \in {NewLine, CtrlA} /\ \A i \in 1..(m - 1) : u[i] \notin {NewLine, CtrlA}
    BY <1>9, <1>15, <2>4, <2>5, <2>6, ZenonT(60) DEF Ends
  <2>10. Stream!ReadLine(p, n)
    <3>1. /\ m \in DOMAIN Unread /\ m <= n
          /\ Unread[m] \in Stream!Ends /\ Stream!NoEnd(m - 1)
      BY <2>7, <2>9, ZenonT(60) DEF Stream!Ends, Stream!NoEnd, u
    <3>2. Stream!Returns(p, n, SubSeq(Unread, 1, m - 1),
                         IF Unread[m] = CtrlA THEN -1 ELSE m - 1)
      BY <1>2, <2>4, <2>6, <2>8, ZenonT(60) DEF Stream!Returns, u, l, n
    <3>3. Unread' = SubSeq(Unread, m + 1, Len(Unread)) /\ Display' = Display
      BY <1>8, <1>10, <2>5, ZenonT(60) DEF u
    <3> QED BY <3>1, <3>2, <3>3, ZenonT(60) DEF Stream!ReadLine
  <2> QED BY <1>4, <1>6, <1>7, <2>10, ZenonT(60)
<1>16. CASE c \notin Ends \cup {NULL}
  <2>1. Len(l) = n /\ n > 0 /\ Unread = l \o r /\ ret = n
    BY <1>5, <1>9, <1>11, <1>12, <1>13, <1>16, ZenonT(60)
  <2>2. /\ Len(Unread) = n + Len(r) /\ SubSeq(Unread, 1, n) = l
        /\ SubSeq(Unread, n + 1, Len(Unread)) = r
        /\ \A i \in 1..n : Unread[i] = l[i]
    <3>1. Joined(Unread, l, r)
      BY <1>9, <2>1, Parts, ZenonT(60)
    <3> QED BY <2>1, <3>1, ZenonT(60) DEF Joined
  <2>3. n <= Len(Unread)
    BY <1>4, <1>9, <2>2, SMTT(60)
  <2>4. Stream!NoEnd(n)
    BY <1>9, <2>1, <2>2, ZenonT(60) DEF Stream!NoEnd, Stream!Ends, Ends
  <2>5. Stream!ReadPiece(p, n)
    <3>1. Stream!Returns(p, n, SubSeq(Unread, 1, n), n)
      BY <1>2, <2>1, <2>2, ZenonT(60) DEF Stream!Returns, l, n
    <3> QED BY <1>8, <1>10, <2>1, <2>2, <2>3, <2>4, <3>1, ZenonT(60)
            DEF Stream!ReadPiece
  <2> QED BY <1>4, <1>6, <1>7, <2>5, ZenonT(60)
<1> QED BY <1>14, <1>15, <1>16, ZenonT(60)

(* What has been taken are characters.                                     *)
LEMMA TakenIsText ==
  ASSUME SInv
  PROVE  Taken \in Seq(Chars)
<1>1. CASE \A q \in Procs : ~InRead(q)
  <2>1. <<>> \in Seq(Chars)
    BY SMTT(60)
  <2> QED BY <1>1, <2>1, TakenIs, ZenonT(60)
<1>2. ASSUME NEW p \in Procs, InRead(p) PROVE Taken \in Seq(Chars)
  <2>1. Taken = TakenBy(p) /\ line[p] \in Seq(Chars \ Ends)
    BY <1>2, ReaderIs, ZenonT(60)
  <2>2. Ends \subseteq Chars
    BY SynchConsoleAssumption, ZenonT(60) DEF Ends
  <2>3. line[p] \o <<>> \in Seq(Chars)
    BY <2>1, SMTT(60)
  <2>4. ch[p] \in Ends => line[p] \o <<ch[p]>> \in Seq(Chars)
    BY <2>1, <2>2, SMTT(60)
  <2> QED BY <2>1, <2>3, <2>4, ZenonT(60) DEF TakenBy, EndOfLine
<1> QED BY <1>1, <1>2, ZenonT(60)

(* A character that is typed is unread, a byte 0xFF is none.               *)
LEMMA CheckStream ==
  ASSUME SInv, NEW c \in Chars \cup {EOF}, CheckCharAvail(c)
  PROVE  /\ OneReader' /\ CallsOK'
         /\ \/ \E x \in Chars : Stream!Type(x)
            \/ UNCHANGED <<Unread, Display, result>>
<1>1. /\ incoming = EOF /\ incoming' = c
      /\ UNCHANGED <<pc, size, line, ch, loop, RLineBlock, output, result>>
  BY ZenonT(60) DEF CheckCharAvail, callVars
<1>2. OneReader' /\ Taken' = Taken
  BY <1>1, KeepsTaken, ZenonT(60) DEF SInv, InRead
<1>3. Shown' = Shown
  BY <1>1, KeepsShown, ZenonT(60) DEF Writing, ShownBy, SInv, IInv
<1>4. CallsOK'
  BY <1>1, ZenonT(60) DEF SInv, CallsOK
<1>5. Display' = Display
  BY <1>1, <1>3, ZenonT(60) DEF Display
<1>6. CASE c = EOF
  BY <1>1, <1>2, <1>4, <1>5, <1>6, ZenonT(60) DEF Unread
<1>7. CASE c # EOF
  <2>1. Unread = Taken \o <<>> /\ Unread' = Taken \o <<c>>
    BY <1>1, <1>2, <1>7, ZenonT(60) DEF Unread
  <2>2. Taken \in Seq(Chars)
    BY TakenIsText, ZenonT(60)
  <2>3. Unread' = Append(Unread, c)
    BY <1>7, <2>1, <2>2, SMTT(60)
  <2> QED BY <1>1, <1>2, <1>4, <1>5, <1>7, <2>3, ZenonT(60) DEF Stream!Type
<1> QED BY <1>6, <1>7, ZenonT(60)

(* The interrupt that ends a PutChar leaves the stream alone.              *)
LEMMA WrittenStream ==
  ASSUME SInv, CharWritten \/ UNCHANGED vars
  PROVE  OneReader' /\ CallsOK' /\ UNCHANGED <<Unread, Display, result>>
<1>1. UNCHANGED <<pc, size, line, ch, loop, RLineBlock, incoming, output, result>>
  BY ZenonT(60) DEF CharWritten, vars, callVars, semVars, deviceVars
<1>2. OneReader' /\ Taken' = Taken
  BY <1>1, KeepsTaken, ZenonT(60) DEF SInv, InRead
<1>3. Shown' = Shown
  BY <1>1, KeepsShown, ZenonT(60) DEF Writing, ShownBy, SInv, IInv
<1>4. CallsOK'
  BY <1>1, ZenonT(60) DEF SInv, CallsOK
<1> QED BY <1>1, <1>2, <1>3, <1>4, ZenonT(60) DEF Unread, Display

(* Every step keeps the invariant and is one of the stream.                *)
LEMMA NextStream ==
  SInv /\ [Next]_vars => SInv' /\ [Stream!Next]_<<Unread, Display, result>>
<1> SUFFICES ASSUME SInv, [Next]_vars
             PROVE  SInv' /\ [Stream!Next]_<<Unread, Display, result>>
  BY ZenonT(60)
<1> DEFINE Goal == OneReader' /\ CallsOK' /\ [Stream!Next]_<<Unread, Display, result>>
<1>1. ASSUME NEW p \in Procs, KernelStep(p) PROVE Goal
  <2>1. CASE WriteLock(p) \/ PutChar(p) \/ WriteWait(p)
    BY <2>1, WriteLockStream, PutCharStream, WriteWaitStream, ZenonT(60)
  <2>2. CASE ReadLock(p) \/ ReadWait(p) \/ GetChar(p)
    BY <2>2, ReadLockStream, ReadWaitStream, GetCharStream, ZenonT(60)
  <2>3. CASE WriteDone(p)
    BY <2>3, WriteDoneStream, ZenonT(60) DEF Stream!Next
  <2>4. CASE ReadDone(p)
    BY <2>4, ReadDoneStream, ZenonT(60) DEF Stream!Next
  <2> QED BY <1>1, <2>1, <2>2, <2>3, <2>4, ZenonT(60) DEF KernelStep
<1>2. ASSUME NEW p \in Procs, NEW from \in Lines, Write(p, from) PROVE Goal
  BY <1>2, CallStream, ZenonT(60) DEF Write
<1>3. ASSUME NEW p \in Procs, NEW numBytes \in Sizes, Read(p, numBytes) PROVE Goal
  BY <1>3, CallStream, ZenonT(60) DEF Read
<1>4. ASSUME NEW c \in Chars \cup {EOF}, CheckCharAvail(c) PROVE Goal
  BY <1>4, CheckStream, ZenonT(60) DEF Stream!Next
<1>5. ASSUME CharWritten \/ UNCHANGED vars PROVE Goal
  BY <1>5, WrittenStream, ZenonT(60)
<1>6. Goal
  BY <1>1, <1>2, <1>3, <1>4, <1>5, ZenonT(60) DEF Next
<1>7. IInv'
  BY NextIInv, ZenonT(60) DEF SInv
<1> QED BY <1>6, <1>7, ZenonT(60) DEF SInv

(* For any number of processes, lines and sizes: what is typed is read in  *)
(* order, none of it lost, repeated or shared between two calls, and the   *)
(* lines written appear whole and one after the other.                     *)
THEOREM StreamRefinement == Spec => ImplementsStream
<1>1. Init => SInv /\ Stream!Init
  <2> SUFFICES ASSUME Init PROVE SInv /\ Stream!Init
    BY ZenonT(60)
  <2>1. OneReader /\ Taken = <<>> /\ Shown = 0
    <3>1. \A p \in Procs : ~InRead(p) /\ ~Writing(p)
      BY ZenonT(60) DEF Init, InRead, Writing
    <3> QED BY <3>1, TakenIs, ShownIs, ZenonT(60) DEF OneReader, Init
  <2>2. CallsOK
    BY ZenonT(60) DEF Init, CallsOK, ReadOK, WriteOK
  <2>3. Unread = <<>> \o <<>> /\ Display = SubSeq(<<>>, 1, Len(<<>>) - 0)
    BY <2>1, ZenonT(60) DEF Unread, Display, Init, Console
  <2>4. Unread = <<>> /\ Display = <<>>
    BY <2>3, SMTT(60)
  <2>5. Stream!Init
    BY <2>4, ZenonT(60) DEF Stream!Init, Init
  <2> QED BY <2>1, <2>2, <2>5, InitIInv, ZenonT(60) DEF SInv
<1> QED BY <1>1, NextStream, PTL DEF Spec, ImplementsStream, Stream!Spec

=============================================================================
