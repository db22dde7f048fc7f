------------------------------- MODULE TwoTaps -------------------------------
(***************************************************************************)
(* The user programs main, sinhvien and voinuoc of the test directory, on  *)
(* top of the file calls and the named semaphores.  For each line of       *)
(* input.txt main copies the line to sinhvien.txt, executes sinhvien and   *)
(* voinuoc and joins both.  sinhvien appends the containers of the line to *)
(* output.txt one at a time; after each, voinuoc reads it and appends the  *)
(* tap that fills it.                                                      *)
(*                                                                         *)
(* Every system call is one action, and the processes interleave between   *)
(* any two calls.  A number is written by one Write and followed by one    *)
(* delimiter, so a file is a sequence of numbers and LF, and reading a     *)
(* number digit by digit is one Read.  Exec succeeds, and Join returns the *)
(* exit code once its process has ended (module ProcTable).  The ids that  *)
(* Open returned are open until the program closes them, so the tests for  *)
(* a Read or Write that returns -1 are never true.                         *)
(***************************************************************************)
EXTENDS OpenFiles, STable, SequencesExt

CONSTANT Rounds    \* the lines of input.txt: nonempty sequences of volumes

ASSUME TwoTapsAssumption ==
  /\ {"main", "sinhvien", "voinuoc"} \subseteq Procs \cap Callers
  /\ {"input", "output", "line"} \subseteq Names \ BadNames
  /\ {"main", "sinhvien", "voinuoc"} \cap LongNames = {}

VARIABLES
  pc,      \* the next call of each process
  fd,      \* the file ids the programs hold: in, line, svIn, svOut, vnOut
  exits,   \* the files a process still closes before it exits, and its code
  N,       \* rounds main has still to start
  V,       \* the number sinhvien, and voinuoc, has read
  stop,    \* sinhvien has read the last container
  v        \* v[1], v[2]: litres still to pour from each tap

progVars == <<pc, fd, exits, N, V, stop, v>>
vars     == <<fileVars, semVars, progVars>>

InputText == <<Len(Rounds)>> \o FlattenSeq([i \in DOMAIN Rounds |->
                                              Append(Rounds[i], LF)])

Init ==
  /\ FilesInit([input |-> InputText])
  /\ SemInit
  /\ pc = [p \in Procs |-> IF p = "main" THEN "semMain" ELSE "none"]
  /\ fd = [f \in {"in", "line", "svIn", "svOut", "vnOut"} |-> -1]
  /\ exits = [p \in Procs |-> [files |-> <<>>, code |-> 0]]
  /\ N = 0
  /\ V = [p \in Procs |-> 0]
  /\ stop = FALSE
  /\ v = <<0, 0>>

At(p, l) == pc[p] = l /\ ~fault

Goto(p, l) == pc' = [pc EXCEPT ![p] = l]

(* Exit(code), after closing some files.                                   *)
Leave(p, files, code) ==
  exits' = [exits EXCEPT ![p] = [files |-> files, code |-> code]]

CloseOrExit(p) ==
  /\ At(p, "leave")
  /\ IF exits[p].files = <<>>
     THEN Goto(p, "ended") /\ UNCHANGED <<fileVars, exits>>
     ELSE /\ Close(p, Head(exits[p].files))
          /\ exits' = [exits EXCEPT ![p].files = Tail(@)]
          /\ UNCHANGED pc
  /\ UNCHANGED <<semVars, fd, N, V, stop, v>>

(* A CreateSemaphore whose failure ends the program.                       *)
NewSemaphore(p, l, name, init, next) ==
  /\ At(p, l)
  /\ Create(name, init)
  /\ Goto(p, IF CreateResult(name) = -1 THEN "leave" ELSE next)
  /\ Leave(p, <<>>, IF CreateResult(name) = -1 THEN -1 ELSE 0)
  /\ UNCHANGED <<fileVars, fd, N, V, stop, v>>

(* An Open whose failure ends the program.                                 *)
OpenOrLeave(p, l, name, type, f, opened, next) ==
  /\ At(p, l)
  /\ Open(p, name, type)
  /\ fd' = [fd EXCEPT ![f] = r2'[p]]
  /\ IF r2'[p] = -1
     THEN Goto(p, "leave") /\ Leave(p, opened, -1)
     ELSE Goto(p, next) /\ UNCHANGED exits
  /\ UNCHANGED <<semVars, N, V, stop, v>>

(* Read(c, 1, f) until the end of the file.                                *)
SeekEnd(p, l, f, next) ==
  /\ At(p, l)
  /\ Read(p, fd[f], 1)
  /\ Goto(p, IF r2'[p] = -2 THEN next ELSE l)
  /\ UNCHANGED <<semVars, fd, exits, N, V, stop, v>>

Put(p, l, f, number, next) ==
  /\ At(p, l)
  /\ Write(p, fd[f], <<number>>)
  /\ Goto(p, next)
  /\ UNCHANGED <<semVars, fd, exits, N, V, stop>>

(* Mutant of CallWait: the process does not wait.                          *)
DoNotWait(p, l, name, next) ==
  /\ At(p, l)
  /\ Goto(p, next)
  /\ UNCHANGED <<fileVars, semVars, fd, exits, N, V, stop, v>>

(* Wait(name), and the return from it.                                     *)
CallWait(p, l, name, next) ==
  /\ At(p, l)
  /\ IF inside[p] = -1
     THEN Wait(p, name) /\ UNCHANGED pc
     ELSE Proceed(p) /\ Goto(p, next)
  /\ UNCHANGED <<fileVars, fd, exits, N, V, stop, v>>

CallSignal(p, l, name, next) ==
  /\ At(p, l)
  /\ Signal(name)
  /\ Goto(p, next)
  /\ UNCHANGED <<fileVars, fd, exits, N, V, stop, v>>

-----------------------------------------------------------------------------
(* main.c                                                                  *)

CreateOutput ==
  /\ At("main", "output")
  /\ CreateFile("main", "output")
  /\ Goto("main", "input")
  /\ UNCHANGED <<semVars, fd, exits, N, V, stop, v>>

ReadN ==
  /\ At("main", "readN")
  /\ Read("main", fd["in"], 1)
  /\ N' = buffer'["main"][1]
  /\ Goto("main", "round")
  /\ UNCHANGED <<semVars, fd, exits, V, stop, v>>

(* while (N--): the file sinhvien.txt is created again, empty.             *)
NextRound ==
  /\ At("main", "round")
  /\ IF N = 0
     THEN /\ Goto("main", "leave") /\ Leave("main", <<fd["in"]>>, 0)
          /\ UNCHANGED <<fileVars, N>>
     ELSE /\ CreateFile("main", "line")
          /\ N' = N - 1
          /\ Goto("main", "openLine")
          /\ UNCHANGED exits
  /\ UNCHANGED <<semVars, fd, V, stop, v>>

CopyRead ==
  /\ At("main", "copy")
  /\ Read("main", fd["in"], 1)
  /\ Goto("main", IF r2'["main"] = -2 \/ buffer'["main"] = <<LF>>
                  THEN "closeLine" ELSE "copyWrite")
  /\ UNCHANGED <<semVars, fd, exits, N, V, stop, v>>

CloseLine ==
  /\ At("main", "closeLine")
  /\ Close("main", fd["line"])
  /\ Goto("main", "execSV")
  /\ UNCHANGED <<semVars, fd, exits, N, V, stop, v>>

(* Exec: the program starts from its beginning, in a new process.          *)
Exec(l, p, start, next) ==
  /\ At("main", l)
  /\ pc' = [pc EXCEPT !["main"] = next, ![p] = start]
  /\ stop' = IF p = "sinhvien" THEN FALSE ELSE stop
  /\ v' = IF p = "voinuoc" THEN <<0, 0>> ELSE v
  /\ UNCHANGED <<fileVars, semVars, fd, exits, N, V>>

Join(l, p, next) ==
  /\ At("main", l)
  /\ pc[p] = "ended"
  /\ IF exits[p].code = -1
     THEN Goto("main", "leave") /\ Leave("main", <<fd["in"]>>, -1)
     ELSE Goto("main", next) /\ UNCHANGED exits
  /\ UNCHANGED <<fileVars, semVars, fd, N, V, stop, v>>

MainStep ==
  \/ NewSemaphore("main", "semMain", "main", 1, "semSV")
  \/ NewSemaphore("main", "semSV", "sinhvien", 0, "semVN")
  \/ NewSemaphore("main", "semVN", "voinuoc", 1, "output")
  \/ CreateOutput
  \/ OpenOrLeave("main", "input", "input", 1, "in", <<>>, "readN")
  \/ ReadN
  \/ NextRound
  \/ OpenOrLeave("main", "openLine", "line", 0, "line", <<fd["in"]>>, "wait")
  \/ CallWait("main", "wait", "main", "copy")
  \/ CopyRead
  \/ Put("main", "copyWrite", "line", buffer["main"][1], "copy") /\ UNCHANGED v
  \/ CloseLine
  \/ Exec("execSV", "sinhvien", "openLine", "execVN")
  \/ Exec("execVN", "voinuoc", "openOut", "joinSV")
  \/ Join("joinSV", "sinhvien", "joinVN")
  \/ Join("joinVN", "voinuoc", "round")

-----------------------------------------------------------------------------
(* sinhvien.c                                                              *)

(* The next container; the end of the file is found while reading it.      *)
ReadVolume ==
  /\ At("sinhvien", "volume")
  /\ Read("sinhvien", fd["svIn"], 1)
  /\ V' = [V EXCEPT !["sinhvien"] = buffer'["sinhvien"][1]]
  /\ stop' = (openf'[fd["svIn"]].offset = Len(host["line"]))
  /\ Goto("sinhvien", "wait")
  /\ UNCHANGED <<semVars, fd, exits, N, v>>

SinhVienStep ==
  \/ OpenOrLeave("sinhvien", "openLine", "line", 1, "svIn", <<>>, "openOut")
  \/ OpenOrLeave("sinhvien", "openOut", "output", 0, "svOut", <<fd["svIn"]>>,
                 "seek")
  \/ SeekEnd("sinhvien", "seek", "svOut", "volume")
  \/ ReadVolume
  \/ CallWait("sinhvien", "wait", "voinuoc", "seekEnd")
  \/ SeekEnd("sinhvien", "seekEnd", "svOut", "write")
  \/ Put("sinhvien", "write", "svOut", V["sinhvien"], "signal") /\ UNCHANGED v
  \/ CallSignal("sinhvien", "signal", "sinhvien",
                IF stop THEN "last" ELSE "volume")
  \/ CallSignal("sinhvien", "last", "sinhvien", "closeAll")
  \/ /\ At("sinhvien", "closeAll")
     /\ Leave("sinhvien", <<fd["svIn"], fd["svOut"]>>, 0)
     /\ Goto("sinhvien", "leave")
     /\ UNCHANGED <<fileVars, semVars, fd, N, V, stop, v>>

-----------------------------------------------------------------------------
(* voinuoc.c                                                               *)

(* The number at the file position; at the end of the file, or at LF, V is *)
(* 0 and the loop ends.                                                    *)
ReadNumber ==
  /\ At("voinuoc", "number")
  /\ Read("voinuoc", fd["vnOut"], 1)
  /\ LET n == IF r2'["voinuoc"] = -2 \/ buffer'["voinuoc"] = <<LF>>
              THEN 0 ELSE buffer'["voinuoc"][1]
     IN  /\ V' = [V EXCEPT !["voinuoc"] = n]
         /\ Goto("voinuoc", IF n = 0 THEN "newline" ELSE "pour")
  /\ UNCHANGED <<semVars, fd, exits, N, stop, v>>

Tap == IF v[1] = 0 THEN 1 ELSE 2

(* Mutant of Pour: what the other tap still pours is not set to zero.      *)
PourMore(tap, volume) ==
  IF volume > v[3 - tap]
  THEN v' = [v EXCEPT ![tap] = volume - v[3 - tap]]
  ELSE v' = [v EXCEPT ![3 - tap] = @ - volume]

(* The container is filled from one tap; time passes until one is free.    *)
Pour(tap, volume) ==
  IF volume > v[3 - tap]
  THEN v' = [v EXCEPT ![tap] = volume - v[3 - tap], ![3 - tap] = 0]
  ELSE v' = [v EXCEPT ![3 - tap] = @ - volume]

VoiNuocStep ==
  \/ OpenOrLeave("voinuoc", "openOut", "output", 0, "vnOut", <<>>, "seek")
  \/ SeekEnd("voinuoc", "seek", "vnOut", "wait")
  \/ CallWait("voinuoc", "wait", "sinhvien", "number")
  \/ ReadNumber
  \/ Put("voinuoc", "pour", "vnOut", Tap, "signal") /\ Pour(Tap, V["voinuoc"])
  \/ CallSignal("voinuoc", "signal", "voinuoc", "wait")
  \/ Put("voinuoc", "newline", "vnOut", LF, "signalMain") /\ UNCHANGED v
  \/ CallSignal("voinuoc", "signalMain", "main", "closeAll")
  \/ /\ At("voinuoc", "closeAll")
     /\ Leave("voinuoc", <<fd["vnOut"]>>, 0)
     /\ Goto("voinuoc", "leave")
     /\ UNCHANGED <<fileVars, semVars, fd, N, V, stop, v>>

-----------------------------------------------------------------------------
Next ==
  \/ MainStep \/ SinhVienStep \/ VoiNuocStep
  \/ \E p \in Procs : CloseOrExit(p)

Spec == Init /\ [][Next]_vars

-----------------------------------------------------------------------------
(* Properties.                                                             *)

Output == IF host["output"] = NoFile THEN <<>> ELSE host["output"]

(* The part of a text after its last LF.                                   *)
LastLine(text) ==
  SubSeq(text, 1 + Cardinality({i \in DOMAIN text :
                      \E j \in i..Len(text) : text[j] = LF}), Len(text))

(* Nothing written to output.txt is ever overwritten: sinhvien and voinuoc *)
(* have a file position of their own each, and the semaphores and the      *)
(* reading up to the end of the file before each Write keep it at the end. *)
OutputAppended ==
  [][host["output"] # NoFile => IsPrefix(Output, Output')]_vars

(* The litres a line of output assigns to a tap; its numbers alternate     *)
(* between containers and taps.                                            *)
Assigned(line, tap) ==
  FoldLeft(LAMBDA sum, i : sum + IF line[2 * i] = tap THEN line[2 * i - 1] ELSE 0,
           0, [i \in 1..(Len(line) \div 2) |-> i])

(* When voinuoc writes a tap, the number before it is the container that   *)
(* the tap was chosen for, and the tap is the one that has been assigned   *)
(* fewer litres in this line, the first when they are equal: v1 and v2     *)
(* only keep the difference.                                               *)
LeastLoadedTap ==
  pc["voinuoc"] = "pour" =>
    LET line == LastLine(Output)
    IN  /\ Output # <<>> /\ Last(Output) = V["voinuoc"]
        /\ (Tap = 1) <=> (Assigned(line, 1) <= Assigned(line, 2))

(* test/output.txt shows each container of a line followed by its tap: so  *)
(* it should be when voinuoc has ended the line.                           *)
EveryContainerServed ==
  pc["voinuoc"] = "signalMain" =>
    LET line == LastLine(Front(Output))
        round == Rounds[Len(Rounds) - N]
    IN  /\ Len(line) = 2 * Len(round)
        /\ \A i \in DOMAIN round : line[2 * i - 1] = round[i]

=============================================================================
