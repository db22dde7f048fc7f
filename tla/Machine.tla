------------------------------ MODULE Machine ------------------------------
(***************************************************************************)
(* class Machine: OneInstruction with its delayed loads and delayed        *)
(* branches, address translation, RaiseException with ExceptionHandler,    *)
(* and the interrupt that may come after any instruction.  The page table  *)
(* is the running program's; the kernel build has no TLB.                  *)
(***************************************************************************)
EXTENDS IntIO

CONSTANTS PageSize, NumPhysPages

ASSUME MachineAssumption ==
  /\ PageSize \in {4 * n : n \in 1..32}
  /\ NumPhysPages \in Nat \ {0}

VARIABLES
  prog,        \* the instructions in the program's code pages
  registers, mainMemory, pageTable,
  mode,        \* "user", "exit" (SC_Exit), "halt" (Interrupt::Halt) or
               \* "abort" (ASSERT, trap)
  stdin, stdout,   \* characters typed and not read, and written
  lastLoad     \* history: the register the previous instruction loaded, or 0

iovars == <<stdin, stdout>>
mvars == <<prog, registers, mainMemory, pageTable, mode, iovars, lastLoad>>

StackReg == 29
RetAddrReg == 31
HiReg == 32
LoReg == 33
PCReg == 34
NextPCReg == 35
PrevPCReg == 36
LoadReg == 37
LoadValueReg == 38
BadVAddrReg == 39
NumTotalRegs == 40

(* AddrSpace::InitRegisters, for a program of numPages pages.              *)
InitRegisters(numPages) ==
  [i \in 0..(NumTotalRegs - 1) |->
     CASE i = NextPCReg -> 4
       [] i = StackReg -> Word(numPages * PageSize - 16)
       [] OTHER -> 0]

-----------------------------------------------------------------------------
(* translate.cc                                                            *)

(* Mutant of Translate: one page more, with what lies behind the table.    *)
TranslateOneMore(addr, size, writing) ==
  LET vpn == addr \div PageSize
      frame == IF vpn < Len(pageTable) THEN pageTable[vpn + 1].physicalPage ELSE 4
  IN  IF addr % size # 0 \/ vpn > Len(pageTable)
      THEN [exc |-> "AddressError", phys |-> 0]
      ELSE IF frame >= NumPhysPages THEN [exc |-> "BusError", phys |-> 0]
      ELSE [exc |-> "NoException", phys |-> frame * PageSize + (addr % PageSize)]

Translate(addr, size, writing) ==
  LET vpn == addr \div PageSize
      entry == pageTable[vpn + 1]
      fault(which) == [exc |-> which, phys |-> 0]
  IN  IF addr % size # 0 \/ vpn >= Len(pageTable) THEN fault("AddressError")
      ELSE IF ~entry.valid THEN fault("PageFault")
      ELSE IF entry.readOnly /\ writing THEN fault("ReadOnly")
      ELSE IF entry.physicalPage >= NumPhysPages THEN fault("BusError")
      ELSE [exc |-> "NoException",
            phys |-> entry.physicalPage * PageSize + (addr % PageSize)]

(* The use and dirty bits.                                                 *)
Touch(table, addr, writing) ==
  [table EXCEPT ![1 + addr \div PageSize].use = TRUE,
                ![1 + addr \div PageSize].dirty = @ \/ writing]

(* The data part of ReadMem and WriteMem: little-endian bytes.             *)
ReadBytes(phys, size) ==
  FoldLeft(LAMBDA acc, i : acc + mainMemory[phys + i] * ByteSize^i, 0,
           [i \in 1..size |-> i - 1])

WriteBytes(phys, size, x) ==
  [b \in DOMAIN mainMemory |->
     IF b \in phys..(phys + size - 1)
     THEN (x \div ByteSize^(b - phys)) % ByteSize ELSE mainMemory[b]]

-----------------------------------------------------------------------------
(* DelayedLoad, exceptions.                                                *)

DelayedLoad(r, nextReg, nextValue) ==
  LET done == [r EXCEPT ![r[LoadReg]] = r[LoadValueReg]]
  IN  [done EXCEPT ![LoadReg] = nextReg, ![LoadValueReg] = nextValue, ![0] = 0]

(* Mutant of Increase_ProgramCounter: NextPCReg is left behind.            *)
IncreaseOnlyPC(r) == [r EXCEPT ![PrevPCReg] = r[PCReg], ![PCReg] = r[NextPCReg]]

Increase_ProgramCounter(r) ==
  [r EXCEPT ![PrevPCReg] = r[PCReg], ![PCReg] = r[NextPCReg],
            ![NextPCReg] = Word(r[NextPCReg] + 4)]

(* RaiseException and ExceptionHandler, for everything but system calls.   *)
Raise(which, badVAddr) ==
  /\ mode' = "halt"
  /\ registers' = DelayedLoad([registers EXCEPT ![BadVAddrReg] = badVAddr], 0, 0)
  /\ UNCHANGED <<prog, mainMemory, iovars, lastLoad>>

SC_Halt == 0
SC_Exit == 1
SC_Fork == 9
SC_Yield == 10
SC_ReadInt == 11
SC_PrintInt == 12
SC_FileSize == 17
SC_Sum == 28
(* The other calls with a handler: those of modules OpenFiles, STable,     *)
(* ProcTable and SynchConsole.  Here, some result or none in register 2.   *)
(* SC_Fork, SC_Yield and SC_FileSize have none.                            *)
Handled == 2..20 \ {SC_Fork, SC_Yield, SC_ReadInt, SC_PrintInt, SC_FileSize}
Results == {0, 1}

(* What the registers are when the handler is called.                      *)
Trapped(r) == DelayedLoad([r EXCEPT ![BadVAddrReg] = 0], 0, 0)

(* OP_SYSCALL.  Exit does not return: it halts the machine or finishes the *)
(* thread.  An unknown call returns without moving the PC on.              *)
Syscall ==
  LET r == Trapped(registers)
      return(x) == /\ registers' = Increase_ProgramCounter([r EXCEPT ![2] = x])
                   /\ UNCHANGED mode
  IN  /\ \/ r[2] = SC_Halt /\ mode' = "halt" /\ registers' = r /\ UNCHANGED iovars
         \/ r[2] = SC_Exit /\ mode' = "exit" /\ registers' = r /\ UNCHANGED iovars
         \/ r[2] = SC_Sum /\ return(Word(r[4] + r[5])) /\ UNCHANGED iovars
         \/ /\ r[2] = SC_ReadInt /\ CanReadInt(stdin)
            /\ return(ReadInt(stdin).value)
            /\ stdin' = ReadInt(stdin).rest /\ UNCHANGED stdout
         \/ /\ r[2] = SC_PrintInt
            /\ return(0)
            /\ stdout' = stdout \o PrintInt(r[4]) /\ UNCHANGED stdin
         \/ /\ r[2] \in Handled
            /\ \E x \in Results \cup {r[2]} : return(x)
            /\ UNCHANGED iovars
         \/ /\ r[2] \notin Handled \cup {SC_Halt, SC_Exit, SC_Sum, SC_ReadInt, SC_PrintInt}
            /\ registers' = r /\ UNCHANGED <<mode, iovars>>
      /\ lastLoad' = 0
      /\ UNCHANGED <<prog, mainMemory>>

-----------------------------------------------------------------------------
(* OneInstruction.                                                         *)

(* The end of OneInstruction, with registers r.                            *)
Done(r, loadReg, loadValue, pcAfter) ==
  LET d == DelayedLoad(r, loadReg, loadValue)
  IN  /\ registers' = [d EXCEPT ![PrevPCReg] = d[PCReg], ![PCReg] = d[NextPCReg],
                                ![NextPCReg] = pcAfter]
      /\ lastLoad' = loadReg
      /\ UNCHANGED <<prog, mode, iovars>>

Loads  == {"LB", "LBU", "LH", "LHU", "LW", "LWL", "LWR"}
Stores == {"SB", "SH", "SW", "SWL", "SWR"}

Width(op) ==
  CASE op \in {"LB", "LBU", "SB"} -> 1 [] op \in {"LH", "LHU", "SH"} -> 2
    [] OTHER -> 4

(* The value of a load; LWL and LWR assert that the address is aligned.    *)
Loaded(op, x, rt) ==
  CASE op \in {"LB", "LH"} -> Extend(x, ByteSize^Width(op))
    [] op = "LWR" -> (rt \div ByteSize) * ByteSize + x \div ByteSize^3
    [] OTHER -> x

(* The word of a store; the same ASSERT for SWL and SWR.                   *)
Stored(op, x, rt) ==
  IF op = "SWR" THEN (x % ByteSize^3) + (rt % ByteSize) * ByteSize^3 ELSE rt

Compute(v, op, r, rs, rt, next) ==
  /\ op \in AluR \cup AluI
  /\ IF Overflow(op, rs, rt, Extra(v)) THEN Raise("Overflow", 0)
     ELSE /\ Done([r EXCEPT ![IF op \in AluR THEN v.rd ELSE v.rt] =
                     AluValue(op, rs, rt, Extra(v))], 0, 0, next)
          /\ UNCHANGED mainMemory

(* The link register is written before the operands are read.              *)
Branch(v, op, r, next) ==
  LET l == IF op \in {"BGEZAL", "BLTZAL"} THEN [r EXCEPT ![RetAddrReg] = next] ELSE r
  IN  /\ op \in Branches
      /\ Done(l, 0, 0, IF Taken(op, l[v.rs], l[v.rt])
                       THEN Word(r[NextPCReg] + IndexToAddr(Extra(v))) ELSE next)
      /\ UNCHANGED mainMemory

Jump(v, op, r, next) ==
  LET l == CASE op = "JAL" -> [r EXCEPT ![RetAddrReg] = next]
             [] op = "JALR" -> [r EXCEPT ![v.rd] = next]
             [] OTHER -> r
  IN  /\ op \in Jumps
      /\ Done(l, 0, 0, IF op \in {"J", "JAL"} THEN Target(next, Extra(v)) ELSE l[v.rs])
      /\ UNCHANGED mainMemory

HiLo(v, op, r, rs, rt, next) ==
  /\ op \in {"MFHI", "MFLO", "MTHI", "MTLO", "MULT", "MULTU", "DIV", "DIVU"}
  /\ IF HostTrap(op, rs, rt)
     THEN mode' = "abort" /\ UNCHANGED <<prog, registers, iovars, lastLoad>>
     ELSE Done(CASE op = "MFHI" -> [r EXCEPT ![v.rd] = r[HiReg]]
                 [] op = "MFLO" -> [r EXCEPT ![v.rd] = r[LoReg]]
                 [] op = "MTHI" -> [r EXCEPT ![HiReg] = rs]
                 [] op = "MTLO" -> [r EXCEPT ![LoReg] = rs]
                 [] OTHER -> [r EXCEPT ![HiReg] = MulDiv(op, rs, rt)[1],
                                       ![LoReg] = MulDiv(op, rs, rt)[2]],
               0, 0, next)
  /\ UNCHANGED mainMemory

(* Loads and stores: table is the page table after the fetch.  SWL and SWR *)
(* read the word before they write it.                                     *)
Memory(v, op, r, rs, rt, next, table) ==
  LET addr == Word(rs + Extra(v))
      partial == op \in {"LWL", "LWR", "SWL", "SWR"}
      t == Translate(addr, Width(op), op \in Stores)
      old == ReadBytes(t.phys, Width(op))
      inFlight == IF r[LoadReg] = v.rt THEN r[LoadValueReg] ELSE rt
  IN  /\ op \in Loads \cup Stores
      /\ \/ /\ partial /\ addr % 4 # 0
            /\ mode' = "abort" /\ pageTable' = table
            /\ UNCHANGED <<prog, registers, mainMemory, iovars, lastLoad>>
         \/ /\ ~(partial /\ addr % 4 # 0) /\ t.exc # "NoException"
            /\ Raise(t.exc, addr)
            /\ pageTable' = IF partial /\ t.exc = "ReadOnly"
                            THEN Touch(table, addr, FALSE) ELSE table
         \/ /\ ~(partial /\ addr % 4 # 0) /\ t.exc = "NoException"
            /\ pageTable' = Touch(table, addr, op \in Stores)
            /\ \/ /\ op \in Loads
                  /\ Done(r, v.rt, Loaded(op, old, inFlight), next)
                  /\ UNCHANGED mainMemory
               \/ /\ op \in Stores
                  /\ mainMemory' = WriteBytes(t.phys, Width(op), Stored(op, old, rt))
                  /\ Done(r, 0, 0, next)

(* The instruction at PC, once it has been fetched.                        *)
Step(v, op) ==
  LET r == registers
      rs == r[v.rs]  rt == r[v.rt]
      next == Word(r[NextPCReg] + 4)
      table == Touch(pageTable, r[PCReg], FALSE)
  IN  \/ /\ \/ Compute(v, op, r, rs, rt, next)
            \/ Branch(v, op, r, next)
            \/ Jump(v, op, r, next)
            \/ HiLo(v, op, r, rs, rt, next)
            \/ op = "SYSCALL" /\ Syscall
            \/ op \in {"RES", "UNIMP"} /\ Raise("IllegalInstr", 0)
         /\ pageTable' = table
      \/ Memory(v, op, r, rs, rt, next, table)

(* Programs keep to their text, and do not write it.                       *)
OneInstruction ==
  LET pc == registers[PCReg]
      t == Translate(pc, 4, FALSE)
  IN  /\ mode = "user"
      /\ \/ t.exc # "NoException" /\ Raise(t.exc, pc) /\ UNCHANGED pageTable
         \/ /\ t.exc = "NoException" /\ 1 + pc \div 4 \in DOMAIN prog
            /\ Step(prog[1 + pc \div 4], OpCode(prog[1 + pc \div 4]))

(* Mutant of Interrupt: the load in progress is dropped.                   *)
InterruptDropsLoad ==
  /\ mode = "user"
  /\ registers[LoadReg] # 0
  /\ registers' = [registers EXCEPT ![LoadReg] = 0]
  /\ UNCHANGED <<prog, mainMemory, pageTable, mode, iovars, lastLoad>>

(* An interrupt after an instruction: CheckIfDue finishes the load.        *)
Interrupt ==
  /\ mode = "user"
  /\ registers[LoadReg] # 0
  /\ registers' = DelayedLoad(registers, 0, 0)
  /\ UNCHANGED <<prog, mainMemory, pageTable, mode, iovars, lastLoad>>

Next == OneInstruction \/ Interrupt

-----------------------------------------------------------------------------
(* test/start.c as the assembler leaves it (test/start.o): it fills the    *)
(* delay slot after each jump.  Jumps are to word numbers.                 *)

Field(major, funct, rs, rt, rd, shamt, imm) ==
  [major |-> major, funct |-> funct, rs |-> rs, rt |-> rt, rd |-> rd,
   shamt |-> shamt, imm |-> imm]
R(funct, rs, rt, rd) == Field(0, funct, rs, rt, rd, 0, 0)
I(major, rs, rt, imm) == Field(major, 0, rs, rt, 0, 0, imm)

NOP == R(0, 0, 0, 0)
SYSCALL == R(12, 0, 0, 0)
J31 == R(8, 31, 0, 0)
JAL(word) == I(3, 0, 0, word)

(* The stub of a system call.                                              *)
Stub(sc) == <<I(9, 0, 2, sc), SYSCALL, J31, NOP>>

(* Mutant of __start: the delay slot after the first jump is not filled.   *)
StartUnfilled(main, exit) == <<JAL(main), JAL(exit), R(33, 0, 0, 4), NOP>>

(* jal main; move $4,$0; jal Exit: the move goes to the delay slot.        *)
__start(main, exit) == <<JAL(main), NOP, JAL(exit), R(33, 0, 0, 4)>>

-----------------------------------------------------------------------------
(* Properties.                                                             *)

(* What the program sees: register i with the load in progress finished,   *)
(* and its memory through its page table.                                  *)
Seen(i) == IF i # 0 /\ i = registers[LoadReg] THEN registers[LoadValueReg]
           ELSE registers[i]

SeenMemory ==
  [a \in 0..(Len(pageTable) * PageSize - 1) |->
     LET frame == pageTable[1 + a \div PageSize].physicalPage
     IN  IF frame < NumPhysPages THEN mainMemory[frame * PageSize + (a % PageSize)]
         ELSE 0]

E == INSTANCE Execute WITH
       Reg <- [i \in 0..31 |-> Seen(i)], HI <- registers[HiReg],
       LO <- registers[LoReg], pc <- registers[PCReg], npc <- registers[NextPCReg],
       mem <- SeenMemory

Current == prog[1 + registers[PCReg] \div 4]

(* This step executes an operation of ops, wherever it leaves the PC.      *)
Executes(ops) ==
  /\ registers[PCReg] \div 4 < Len(prog)
  /\ OpCode(Current) \in ops
  /\ ~Interrupt

(* The load delay rule of MIPS: an instruction does not name the register  *)
(* that the one before it loads.                                           *)
ObeysDelay == lastLoad = 0 \/ lastLoad \notin {Current.rs, Current.rt, Current.rd, 31}

(* Where the two interpreters of the repository give one answer.  Left out *)
(* are OR that sets a bit, SRL and SRLV of a negative word, ANDI, ORI and  *)
(* XORI with a negative immediate, DIV and DIVU by 0, branches and jumps   *)
(* in a delay slot, JALR whose rd is rs, and all of MULT, MULTU, LWL, LWR, *)
(* SWL, SWR and SYSCALL.                                                   *)
Agreed(v, op, rs, rt) ==
  CASE op = "OR" -> (rs | rt) = rs
    [] op \in {"SRL", "SRLV"} -> ~SIGN_BIT(rt)
    [] op \in {"ANDI", "ORI", "XORI"} -> ~SIGN_BIT(Extra(v))
    [] op \in {"DIV", "DIVU"} -> rt # 0
    [] op \in Branches \cup Jumps ->
         /\ registers[NextPCReg] = Word(registers[PCReg] + 4)
         /\ op = "JALR" => v.rd # v.rs
    [] op \in {"MULT", "MULTU", "LWL", "LWR", "SWL", "SWR", "SYSCALL"} -> FALSE
    [] OTHER -> TRUE

(* OneInstruction, with its delayed loads, delayed branches, page table    *)
(* and the interrupts between instructions, does what the interpreter of   *)
(* bin/execute.c does with loads that take effect at once on a flat        *)
(* memory: every instruction that completes and obeys the load delay rule  *)
(* is a turn of that interpreter, and an interrupt is invisible.           *)
ImplementsExecute ==
  [][ (mode' = "user" /\ registers[PCReg] \div 4 < Len(prog) /\ ObeysDelay
       /\ Agreed(Current, OpCode(Current), registers[Current.rs], registers[Current.rt]))
      => [E!Turn]_(E!evars) ]_mvars

(* MULT, MULTU, DIV and DIVU leave the exact double-word product, quotient *)
(* and remainder (C's, rounding to zero) in HI and LO; ADD, ADDI and SUB   *)
(* raise OverflowException exactly when the exact result is not a word.    *)
ArithmeticExact ==
  [][ LET a == registers[Current.rs]  b == registers[Current.rt]
          op == OpCode(Current)
          hi == registers'[HiReg]  lo == registers'[LoReg]
          fits(x) == -(Size \div 2) <= x /\ x < Size \div 2
      IN  Executes({"MULT", "MULTU", "DIV", "DIVU", "ADD", "ADDI", "SUB"}) =>
          CASE op = "MULT" -> hi * Size + lo = (Signed(a) * Signed(b)) % (Size * Size)
            [] op = "MULTU" -> hi * Size + lo = a * b
            [] op = "DIVU" -> b # 0 => lo * b + hi = a /\ hi < b
            [] op = "DIV" -> (b # 0 /\ mode' = "user") =>
                 /\ Signed(lo) * Signed(b) + Signed(hi) = Signed(a)
                 /\ Abs(Signed(hi)) < Abs(Signed(b))
                 /\ hi # 0 => SIGN_BIT(hi) = SIGN_BIT(a)
            [] op = "ADD" -> (mode' = "user") = fits(Signed(a) + Signed(b))
            [] op = "ADDI" -> (mode' = "user") = fits(Signed(a) + Signed(Extra(Current)))
            [] op = "SUB" -> (mode' = "user") = fits(Signed(a) - Signed(b)) ]_mvars

(* A system call sees the load before it finished and changes no register  *)
(* of the program but r2.  Every call of syscall.h that returns goes on    *)
(* after the SYSCALL instruction, in a delay slot too, except Fork, Yield  *)
(* and FileSize: ExceptionHandler has no case for these three, nor for a   *)
(* number that is no call's, so the PC stays and the call is made again.   *)
SyscallReturns ==
  [][ (Executes({"SYSCALL"}) /\ mode' = "user") =>
        /\ \A i \in 1..31 \ {2} : registers'[i] = Seen(i)
        /\ Seen(2) = SC_Sum => registers'[2] = Word(Seen(4) + Seen(5))
        /\ IF Seen(2) \in (0..20 \cup {SC_Sum}) \ {SC_Fork, SC_Yield, SC_FileSize}
           THEN /\ registers'[PCReg] = registers[NextPCReg]
                /\ registers'[NextPCReg] = Word(registers[NextPCReg] + 4)
           ELSE /\ registers'[PCReg] = registers[PCReg]
                /\ registers'[NextPCReg] = registers[NextPCReg]
                /\ registers'[2] = Seen(2) ]_mvars

(* A program that was started by __start, and whose main returns after a   *)
(* system call, whatever that returns, leaves user mode by Exit(0) and in  *)
(* no other way, with main's last word of its work (register 3) intact.    *)
MainExits ==
  [][ (/\ mode' # "user" /\ Len(prog) > 8
       /\ \E main \in DOMAIN prog : SubSeq(prog, 1, 4) = __start(main, 4))
      => /\ mode' = "exit" /\ Seen(4) = 0
         /\ Seen(3) \in Results \cup {prog[9].imm} ]_mvars

(* A number typed, with blanks and a sign before it, is read as that       *)
(* number, or as 0 when its size is no positive int; what PrintInt writes  *)
(* is the numeral of its argument, and ReadInt reads it back, for every    *)
(* int but the smallest.                                                   *)
NumbersExact ==
  [][ Executes({"SYSCALL"}) =>
        /\ Seen(2) = SC_ReadInt =>
             LET i == FirstText(stdin)
                 body == SubSeq(stdin, i, Len(stdin) - Len(stdin') - 1)
                 kept(n) == IF n > MaxInt THEN 0 ELSE n
             IN  \A n \in Words :
                   /\ body \in {Decimal(n), <<Plus>> \o Decimal(n)} =>
                        registers'[2] = kept(n)
                   /\ body = <<Minus>> \o Decimal(n) => registers'[2] = Word(-kept(n))
        /\ (Seen(2) = SC_PrintInt /\ Seen(4) # MaxInt + 1) =>
             LET out == SubSeq(stdout', Len(stdout) + 1, Len(stdout'))
             IN  /\ ReadInt(out \o <<Other>>) = [value |-> Seen(4), rest |-> <<>>]
                 /\ Len(out) <= maxlen ]_mvars

(* Whatever address a program computes: a load or store that completes is  *)
(* of bytes of its own pages, in frames that memory has (one behind its    *)
(* last page, across two pages or in a frame beyond memory raises an       *)
(* exception), and no step changes memory outside the frames of its table. *)
OtherFramesKept ==
  [][ LET addr == Word(registers[Current.rs] + Extra(Current))
          own == {pageTable[i].physicalPage : i \in DOMAIN pageTable}
      IN  /\ \A b \in DOMAIN mainMemory :
               mainMemory'[b] # mainMemory[b] => b \div PageSize \in own
          /\ (Executes(Loads \cup Stores) /\ mode' = "user") =>
               \A a \in addr..(addr + Width(OpCode(Current)) - 1) :
                 /\ a \div PageSize = addr \div PageSize
                 /\ 1 + a \div PageSize \in DOMAIN pageTable
                 /\ pageTable[1 + a \div PageSize].physicalPage < NumPhysPages ]_mvars

=============================================================================
