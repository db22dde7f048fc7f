----------------------------- MODULE MCMachine -----------------------------
(***************************************************************************)
(* Module Machine on words of 8 bits and pages of 8 bytes.  Text in pages  *)
(* 0 and 1, data in pages 2 and 3, and a page 4 whose frame number is      *)
(* beyond the machine's memory.  r7 and r6 point to pages 2 and 4, r16     *)
(* behind page 4, r2 holds a system call's number, and r4 and r5 are       *)
(* operands.                                                               *)
(***************************************************************************)
EXTENDS Machine

CONSTANTS Operands, Corners, Calls

(* Every operation of the special table, and every immediate one, on the   *)
(* operands.                                                               *)
Operations ==
  {R(f, 4, 5, 3) : f \in {4, 6, 7, 16, 17, 18, 19, 24, 25, 26, 27, 32, 33, 34, 35,
                          36, 37, 38, 39, 42, 43, 1, 13}}
    \cup {Field(0, f, 0, 4, 3, 3, 0) : f \in {0, 2, 3}}
    \cup {I(m, 4, 3, x) : m \in {8, 9, 10, 11, 12, 13, 14, 15, 16}, x \in {3, 8}}

Branching ==
  {I(4, 4, 5, 1), I(5, 4, 5, 1), I(6, 4, 0, 1), I(7, 4, 0, 1), I(1, 4, 0, 1),
   I(1, 4, 1, 15), I(1, 4, 16, 1), I(1, 31, 17, 1), I(1, 4, 2, 1), I(2, 0, 0, 0),
   I(3, 0, 0, 2), R(8, 31, 0, 0), R(9, 6, 0, 5), R(9, 7, 0, 7)}

Accesses ==
  {I(35, 7, 4, 0), I(35, 7, 2, 4), I(32, 7, 4, 1), I(36, 7, 5, 3), I(33, 7, 5, 2),
   I(37, 7, 4, 2), I(34, 7, 4, 0), I(38, 7, 4, 0), I(43, 7, 4, 4), I(43, 7, 4, 6),
   I(40, 7, 4, 5), I(41, 7, 5, 2), I(42, 7, 4, 0), I(46, 7, 4, 0), I(38, 7, 4, 1),
   I(35, 6, 4, 0), I(35, 5, 3, 0), I(43, 6, 4, 4), I(40, 16, 4, 15), I(40, 16, 4, 0),
   I(43, 16, 4, 0), I(35, 16, 4, 0), I(41, 0, 4, 14)}

Call == SYSCALL
Add  == R(33, 4, 5, 3)

Frames == <<1, 0, 3, 2, NumPhysPages>>

(* Pages of a longer program.                                              *)
LongFrames == [i \in 1..9 |-> 9 - i]

(* A program as ld puts it together: start.o, with the stubs that are      *)
(* called, and a main that makes the system call sc and returns.           *)
Program(sc) ==
  __start(12, 4) \o Stub(SC_Exit) \o Stub(sc)
    \o <<R(33, 31, 0, 16), JAL(8), I(9, 0, 4, 5), R(8, 16, 0, 0), R(33, 2, 0, 3)>>

(* Init of a program: AddrSpace::InitRegisters, and registers and memory   *)
(* as some instructions before have left them.                             *)
Start(p, frames, a, b, call) ==
  /\ prog = p
  /\ registers = [InitRegisters(Len(frames)) EXCEPT
                    ![2] = call, ![4] = a, ![5] = b, ![6] = 4 * PageSize,
                    ![7] = 2 * PageSize, ![16] = 5 * PageSize,
                    ![HiReg] = 5, ![LoReg] = 9]
  /\ mainMemory = [b2 \in 0..(NumPhysPages * PageSize - 1) |->
                     IF b2 % 4 = 3 THEN 0 ELSE (b2 \div 4 + b2) % ByteSize]
  /\ pageTable = [i \in DOMAIN frames |->
                    [physicalPage |-> frames[i], valid |-> TRUE, readOnly |-> FALSE,
                     use |-> FALSE, dirty |-> FALSE]]
  /\ mode = "user" /\ lastLoad = 0 /\ stdout = <<>>

(* Lines with a number in front: signs, blanks, numbers too large for a    *)
(* word and too long for the buffer.                                       *)
Lines ==
  {blank \o sign \o Decimal(n) \o <<Other, 7>> :
     blank \in {<<>>, <<Blank, Blank>>}, sign \in {<<>>, <<Minus>>, <<Plus>>},
     n \in 0..(Size + 2) \cup {1280, 12345}}

(* A program that reads a number and prints it.                            *)
Echo == <<Call, R(33, 2, 0, 4), I(13, 0, 2, 12), Call>>

Init ==
  \/ /\ \E i \in Operations, a \in Words, b \in Operands : Start(<<i>>, Frames, a, b, 28)
     /\ stdin = <<>>
  \/ Start(Echo, Frames, 0, 0, 11) /\ stdin \in Lines
  \/ \E i, j \in Accesses \cup Branching \cup {Add, Call},
        k \in {I(35, 7, 2, 4), I(43, 7, 4, 4), I(40, 7, 4, 5), Add, Call}, c \in Corners, call \in Calls :
       Start(<<i, j, k, Add>>, Frames, c[1], c[2], call) /\ stdin = <<>>
  \/ \E sc \in 2..7 : Start(Program(sc), LongFrames, 3, 0, 0) /\ stdin = <<>>

MCCorners == {<<1, 1>>, <<200, 28>>}

Spec == Init /\ [][Next]_mvars

=============================================================================
