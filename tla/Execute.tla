------------------------------ MODULE Execute ------------------------------
(***************************************************************************)
(* bin/execute.c, the stand-alone MIPS interpreter that the repository     *)
(* keeps with the object-file tools: flat memory, loads that take effect   *)
(* at once, no exceptions and no interrupts.  Words are those of module    *)
(* Mips.  It is what module Machine is shown to implement.                 *)
(***************************************************************************)
EXTENDS Mips

VARIABLES
  prog,               \* the instructions, one per word from address 0 on
  Reg, HI, LO, pc, npc,
  mem                 \* bytes

evars == <<prog, Reg, HI, LO, pc, npc, mem>>

-----------------------------------------------------------------------------
(* encode.h: the numbers of the opcodes.                                   *)

I_NORMAL ==
  [J |-> 2, JAL |-> 3, BEQ |-> 4, BNE |-> 5, BLEZ |-> 6, BGTZ |-> 7, ADDI |-> 8,
   ADDIU |-> 9, SLTI |-> 10, SLTIU |-> 11, ANDI |-> 12, ORI |-> 13, XORI |-> 14,
   LUI |-> 15, LB |-> 32, LH |-> 33, LWL |-> 34, LW |-> 35, LBU |-> 36,
   LHU |-> 37, LWR |-> 38, SB |-> 40, SH |-> 41, SWL |-> 42, SW |-> 43, SWR |-> 46]

I_SPECIALS ==
  [SLL |-> 0, SRL |-> 2, SRA |-> 3, SLLV |-> 4, SRLV |-> 6, SRAV |-> 7, JR |-> 8,
   JALR |-> 9, SYSCALL |-> 12, MFHI |-> 16, MTHI |-> 17, MFLO |-> 18,
   MTLO |-> 19, MULT |-> 24, MULTU |-> 25, DIV |-> 26, DIVU |-> 27, ADD |-> 32,
   ADDU |-> 33, SUB |-> 34, SUBU |-> 35, AND |-> 36, OR |-> 37, XOR |-> 38,
   NOR |-> 39, SLT |-> 42, SLTU |-> 43]

I_BCONDS == [BLTZ |-> 0, BGEZ |-> 1, BLTZAL |-> 16, BGEZAL |-> 17]

NameOf(codes, n) ==
  IF \E o \in DOMAIN codes : codes[o] = n
  THEN CHOOSE o \in DOMAIN codes : codes[o] = n ELSE "u"

(* The nested switch statements of runprogram.                             *)
Op(v) ==
  CASE v.major = 0 -> NameOf(I_SPECIALS, v.funct)
    [] v.major = 1 -> NameOf(I_BCONDS, v.rt)
    [] OTHER -> NameOf(I_NORMAL, v.major)

(* The immediate operand, with its sign.                                   *)
immed(v) == Extend(v.imm, Half)

-----------------------------------------------------------------------------
(* int.h: bytes of memory, the least significant first.                    *)

fetch(m, a, n) ==
  FoldLeft(LAMBDA acc, i : acc + m[a + i] * ByteSize^i, 0, [i \in 1..n |-> i - 1])

store(m, a, n, x) ==
  [b \in DOMAIN m |-> IF b \in a..(a + n - 1)
                      THEN (x \div ByteSize^(b - a)) % ByteSize ELSE m[b]]

(* cfetch, ucfetch, sfetch, usfetch, fetch.                                *)
Bytes(op) ==
  CASE op \in {"LB", "LBU", "SB"} -> 1 [] op \in {"LH", "LHU", "SH"} -> 2
    [] op \in {"LW", "SW"} -> 4

Fetched(op, a) ==
  LET x == fetch(mem, a, Bytes(op))
  IN  IF op \in {"LB", "LH"} THEN Extend(x, ByteSize^Bytes(op)) ELSE x

(* I_LWL, whose mask -1 >> n keeps every bit, and I_LWR.                   *)
Merged(op, a, rt) ==
  LET w == fetch(mem, a - (a % 4), 4)
  IN  IF op = "LWL" THEN rt | Word(w * ByteSize^(a % 4))
      ELSE (IF a % 4 = 0 THEN 0 ELSE rt - (rt % ByteSize^(a % 4)))
             | Sra(w, (W \div 4) * ((-a) % 4))

-----------------------------------------------------------------------------
(* The arithmetic of runprogram.                                           *)

ExecShift(op, rs, rt, v) ==
  CASE op = "SLL" -> Word(rt * 2^v.shamt)
    [] op = "SRL" -> rt \div 2^v.shamt
    [] op = "SRA" -> Sra(rt, v.shamt)
    [] op = "SLLV" -> Word(rt * 2^Shift(rs))
    [] op = "SRLV" -> rt \div 2^Shift(rs)
    [] op = "SRAV" -> Sra(rt, Shift(rs))

ExecValue(op, rs, rt, v) ==
  CASE op \in {"SLL", "SRL", "SRA", "SLLV", "SRLV", "SRAV"} -> ExecShift(op, rs, rt, v)
    [] op \in {"ADD", "ADDU"} -> Word(rs + rt)
    [] op \in {"SUB", "SUBU"} -> Word(rs - rt)
    [] op = "AND" -> rs & rt
    [] op = "OR" -> rs | rt
    [] op = "XOR" -> rs ^^ rt
    [] op = "NOR" -> Size - 1 - (rs | rt)
    [] op = "SLT" -> Bit(Signed(rs) < Signed(rt))
    [] op = "SLTU" -> Bit(rs < rt)
    [] op \in {"ADDI", "ADDIU"} -> Word(rs + immed(v))
    [] op = "SLTI" -> Bit(Signed(rs) < Signed(immed(v)))
    [] op = "SLTIU" -> Bit(rs < immed(v))
    [] op = "ANDI" -> rs & immed(v)
    [] op = "ORI" -> rs | immed(v)
    [] op = "XORI" -> rs ^^ immed(v)
    [] op = "LUI" -> Word(v.imm * Half)

(* I_MULT and I_MULTU: the high word from the products of half words,      *)
(* without the carries.  <<HI, LO>>                                        *)
ExecMult(a, b, signedArith) ==
  LET neg == signedArith /\ SIGN_BIT(a) # SIGN_BIT(b)
      abs(x) == IF signedArith /\ SIGN_BIT(x) THEN Word(-x) ELSE x
      t1 == abs(a)  t2 == abs(b)
      t1h == t1 \div Half  t2h == t2 \div Half
      hi == Word(t1h * t2h + Sra(Word(t1h * (t2 % Half)), W \div 2)
                           + Sra(Word(t2h * (t1 % Half)), W \div 2))
  IN  IF neg THEN Negate(hi, Word(t1 * t2)) ELSE <<hi, Word(t1 * t2)>>

ExecMulDiv(op, a, b) ==
  CASE op = "MULT" -> ExecMult(a, b, TRUE)
    [] op = "MULTU" -> ExecMult(a, b, FALSE)
    [] op = "DIV" -> Div(a, b)
    [] op = "DIVU" -> DivU(a, b)

ExecTaken(op, rs, rt) ==
  CASE op = "BEQ" -> rs = rt
    [] op = "BNE" -> rs # rt
    [] op = "BLEZ" -> Signed(rs) <= 0
    [] op = "BGTZ" -> Signed(rs) > 0
    [] op \in {"BLTZ", "BLTZAL"} -> Signed(rs) < 0
    [] op \in {"BGEZ", "BGEZAL"} -> Signed(rs) >= 0

-----------------------------------------------------------------------------
(* runprogram: one turn of its loop.  A zero word does nothing.            *)

Nop == [major |-> 0, rs |-> 0, rt |-> 0, rd |-> 0, shamt |-> 0, funct |-> 0, imm |-> 0]

ifetch(xpc) == IF 1 + xpc \div 4 \in DOMAIN prog THEN prog[1 + xpc \div 4] ELSE Nop

Set(f, i, x) == [f EXCEPT ![i] = x, ![0] = IF i = 0 THEN 0 ELSE @]

JumpRegister(op, rs, v) ==
  /\ npc' = rs
  /\ Reg' = IF op = "JALR" THEN Set(Reg, v.rd, Word(pc + 8)) ELSE Reg

MoveHiLo(op, rs, v) ==
  /\ Reg' = CASE op = "MFHI" -> Set(Reg, v.rd, HI)
              [] op = "MFLO" -> Set(Reg, v.rd, LO)
              [] OTHER -> Reg
  /\ HI' = IF op = "MTHI" THEN rs ELSE HI
  /\ LO' = IF op = "MTLO" THEN rs ELSE LO

Turn ==
  LET v == ifetch(pc)
      op == Op(v)
      rs == Reg[v.rs]  rt == Reg[v.rt]
      addr == Word(rs + immed(v))
  IN  /\ pc' = npc
      /\ UNCHANGED prog
      /\ CASE op \in AluR \cup AluI ->
                /\ Reg' = Set(Reg, IF op \in AluR THEN v.rd ELSE v.rt,
                              ExecValue(op, rs, rt, v))
                /\ npc' = Word(npc + 4) /\ UNCHANGED <<HI, LO, mem>>
           [] op \in Branches ->
                /\ Reg' = IF op \in {"BLTZAL", "BGEZAL"}
                          THEN Set(Reg, 31, Word(pc + 8)) ELSE Reg
                /\ npc' = IF ExecTaken(op, Reg'[v.rs], Reg'[v.rt])
                          THEN Word(pc + 4 + IndexToAddr(immed(v)))
                          ELSE Word(npc + 4)
                /\ UNCHANGED <<HI, LO, mem>>
           [] op \in {"J", "JAL"} ->
                /\ npc' = Target(pc, v.imm)
                /\ Reg' = IF op = "JAL" THEN Set(Reg, 31, Word(pc + 8)) ELSE Reg
                /\ UNCHANGED <<HI, LO, mem>>
           [] op \in {"JR", "JALR"} ->
                /\ JumpRegister(op, rs, v)
                /\ UNCHANGED <<HI, LO, mem>>
           [] op \in {"LB", "LBU", "LH", "LHU", "LW"} ->
                /\ Reg' = Set(Reg, v.rt, Fetched(op, addr))
                /\ npc' = Word(npc + 4) /\ UNCHANGED <<HI, LO, mem>>
           [] op \in {"LWL", "LWR"} ->
                /\ Reg' = Set(Reg, v.rt, Merged(op, addr, rt))
                /\ npc' = Word(npc + 4) /\ UNCHANGED <<HI, LO, mem>>
           [] op \in {"SB", "SH", "SW"} ->
                /\ mem' = store(mem, addr, Bytes(op), rt)
                /\ npc' = Word(npc + 4) /\ UNCHANGED <<Reg, HI, LO>>
           [] op \in {"MFHI", "MFLO", "MTHI", "MTLO"} ->
                /\ MoveHiLo(op, rs, v)
                /\ npc' = Word(npc + 4) /\ UNCHANGED mem
           [] op \in {"MULT", "MULTU", "DIV", "DIVU"} ->
                /\ op \in {"DIV", "DIVU"} => rt # 0   \* else the host traps
                /\ HI' = ExecMulDiv(op, rs, rt)[1] /\ LO' = ExecMulDiv(op, rs, rt)[2]
                /\ npc' = Word(npc + 4) /\ UNCHANGED <<Reg, mem>>
           [] OTHER -> FALSE   \* system_trap, u(): the host's

EInit == pc = 0 /\ npc = 4 /\ Reg[0] = 0

ESpec == EInit /\ [][Turn]_evars

=============================================================================
