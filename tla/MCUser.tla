------------------------------- MODULE MCUser -------------------------------
(* User programs for TLC: the three of the test directory, or any program  *)
(* that makes a few file and semaphore calls.                              *)
EXTENDS TwoTaps

CONSTANT MaxCalls    \* bound: calls an arbitrary program makes

VARIABLES
  mode,    \* "taps", or "any" program
  calls,   \* calls made in mode "any"
  last     \* the id and size of the last call in mode "any", if it was Read

MCRounds == << <<1, 2, 1>>, <<2>>, <<1>> >>

MCInit ==
  /\ Init
  /\ mode \in {"taps", "any"}
  /\ calls = 0
  /\ last = <<>>

Texts == {<<>>, <<1>>, <<NUL, 1>>, <<1, LF>>}

AnyFileCall ==
  /\ \/ \E n \in {"line", "input", ""} : CreateFile("main", n) /\ last' = <<>>
     \/ \E n \in {"line", "input"}, t \in 0..3 :
          Open("main", n, t) /\ last' = <<>>
     \/ \E id \in -1..MaxFiles : Close("main", id) /\ last' = <<>>
     \/ \E id \in -1..MaxFiles, size \in 0..2 :
          Read("main", id, size) /\ last' = <<id, size>>
     \/ \E id \in -1..MaxFiles, text \in Texts :
          Write("main", id, text) /\ last' = <<>>
  /\ UNCHANGED semVars

AnySemCall ==
  /\ \E p \in {"sinhvien", "voinuoc"}, name \in {"a", "b", "c", "long"} :
       \/ \E init \in {-1, 0, 1} :
            /\ inside[p] = -1
            /\ Create(name, init) /\ last' = <<>>
       \/ inside[p] = -1 /\ Wait(p, name) /\ last' = <<>>
       \/ inside[p] = -1 /\ Signal(name) /\ last' = <<>>
       \/ Proceed(p) /\ last' = <<>>
  /\ UNCHANGED fileVars

Taps == mode = "taps" /\ UNCHANGED <<mode, calls, last>>

AnyProgram ==
  /\ mode = "any" /\ UNCHANGED <<mode, progVars>>
  /\ calls < MaxCalls /\ calls' = calls + 1 /\ ~fault

MCNext ==
  \/ Taps /\ MainStep
  \/ Taps /\ SinhVienStep
  \/ Taps /\ VoiNuocStep
  \/ Taps /\ \E p \in Procs : CloseOrExit(p)
  \/ AnyProgram /\ AnyFileCall
  \/ AnyProgram /\ AnySemCall

MCSpec == MCInit /\ [][MCNext]_<<vars, mode, calls, last>>

-----------------------------------------------------------------------------
(* Write to a file opened for reading only reports its refusal and goes on;*)
(* the file does not change.                                               *)
ReadOnlyUntouched ==
  [][\A n \in Names : host[n] # host'[n] /\ host'[n] # <<>> =>
       \E s \in Slots : openf[s] # NULL /\ openf[s].name = n
                         /\ openf[s].type = 0 /\ openf[s].live]_fileVars

(* Read returns how many bytes OpenFile::Read got from the file position   *)
(* on, and moves the position behind them.  It delivers them up to and     *)
(* with the first NUL, where System2User stops: all of a text, but fewer   *)
(* than it returns when a NUL stands before others.                        *)
ReadDelivers ==
  [][/\ mode = "any" /\ last' # <<>> /\ ~fault' /\ r2'["main"] > 0
     /\ openf[last'[1]].type \in {0, 1}
     => LET f == openf[last'[1]]
            bytes == SubSeq(host[f.name], f.offset + 1, f.offset + r2'["main"])
            delivered == {i \in DOMAIN bytes : \A j \in 1..(i - 1) : bytes[j] # NUL}
        IN  /\ r2'["main"] = Least(last'[2], Len(host[f.name]) - f.offset)
            /\ buffer'["main"] = [i \in delivered |-> bytes[i]]
            /\ openf'[last'[1]].offset = f.offset + r2'["main"]]_<<vars, calls>>

=============================================================================
