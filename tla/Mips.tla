-------------------------------- MODULE Mips --------------------------------
(***************************************************************************)
(* Instructions of the MIPS simulator: Instruction::Decode and what each   *)
(* operation of Machine::OneInstruction computes.  Words have W bits (32   *)
(* in the code), four bytes of W/4 bits each; immediate operands have W/2  *)
(* bits.  A word is a number of 0..2^W-1.  The fields of an instruction    *)
(* word are the fields of a record.                                        *)
(***************************************************************************)
EXTENDS Integers, Sequences, SequencesExt, Bitwise

CONSTANT W

ASSUME MipsAssumption == W \in {4 * n : n \in 1..8}

Size == 2^W
Half == 2^(W \div 2)
ByteSize == 2^(W \div 4)
Words == 0..(Size - 1)

Word(x) == x % Size
SIGN_BIT(x) == x >= Size \div 2
Signed(x) == IF SIGN_BIT(x) THEN x - Size ELSE x
Bit(b) == IF b THEN 1 ELSE 0

(* Extension of an n-valued field with its sign.                           *)
Extend(x, n) == IF x >= n \div 2 THEN Word(x - n) ELSE x

-----------------------------------------------------------------------------
(* Decode.                                                                 *)

UNIMP4 == <<"UNIMP", "UNIMP", "UNIMP", "UNIMP">>
RES4   == <<"RES", "RES", "RES", "RES">>

(* opTable: every entry but SPECIAL (R), J and JAL (J) has format I.       *)
opTable ==
  <<"SPECIAL", "BCOND", "J", "JAL", "BEQ", "BNE", "BLEZ", "BGTZ",
    "ADDI", "ADDIU", "SLTI", "SLTIU", "ANDI", "ORI", "XORI", "LUI">>
  \o UNIMP4 \o RES4 \o RES4 \o RES4
  \o <<"LB", "LH", "LWL", "LW", "LBU", "LHU", "LWR", "RES",
       "SB", "SH", "SWL", "SW", "RES", "RES", "SWR", "RES">>
  \o UNIMP4 \o RES4 \o UNIMP4 \o RES4

specialTable ==
  <<"SLL", "RES", "SRL", "SRA", "SLLV", "RES", "SRLV", "SRAV",
    "JR", "JALR", "RES", "RES", "SYSCALL", "UNIMP", "RES", "RES",
    "MFHI", "MTHI", "MFLO", "MTLO">> \o RES4
  \o <<"MULT", "MULTU", "DIV", "DIVU">> \o RES4
  \o <<"ADD", "ADDU", "SUB", "SUBU", "AND", "OR", "XOR", "NOR",
       "RES", "RES", "SLT", "SLTU">> \o RES4 \o RES4 \o RES4 \o RES4 \o RES4

Bcond(rt) ==
  CASE rt = 0 -> "BLTZ" [] rt = 1 -> "BGEZ"
    [] rt = 16 -> "BLTZAL" [] rt = 17 -> "BGEZAL" [] OTHER -> "UNIMP"

OpCode(v) ==
  LET op == opTable[v.major + 1]
  IN  CASE op = "SPECIAL" -> specialTable[v.funct + 1]
        [] op = "BCOND" -> Bcond(v.rt)
        [] OTHER -> op

Extra(v) ==
  CASE opTable[v.major + 1] = "SPECIAL" -> v.shamt
    [] opTable[v.major + 1] \in {"J", "JAL"} -> v.imm
    [] OTHER -> Extend(v.imm, Half)

-----------------------------------------------------------------------------
(* The operations that write one register: rd for those of the special     *)
(* table, rt for the immediate ones.                                       *)

AluR == {"ADD", "ADDU", "SUB", "SUBU", "AND", "OR", "XOR", "NOR", "SLT", "SLTU",
         "SLL", "SLLV", "SRA", "SRAV", "SRL", "SRLV"}
AluI == {"ADDI", "ADDIU", "ANDI", "ORI", "XORI", "LUI", "SLTI", "SLTIU"}

Shift(n) == n % W

(* >> of a signed int.                                                     *)
Sra(a, n) == Word(Signed(a) \div 2^n)

(* As in the code: OR combines rs with itself, and SRL and SRLV shift a    *)
(* signed int.                                                             *)
AluValue(op, rs, rt, x) ==
  CASE op \in {"ADD", "ADDU"} -> Word(rs + rt)
    [] op \in {"SUB", "SUBU"} -> Word(rs - rt)
    [] op = "AND" -> rs & rt
    [] op = "OR" -> rs | rs
    [] op = "XOR" -> rs ^^ rt
    [] op = "NOR" -> Size - 1 - (rs | rt)
    [] op = "SLT" -> Bit(Signed(rs) < Signed(rt))
    [] op = "SLTU" -> Bit(rs < rt)
    [] op = "SLL" -> Word(rt * 2^x)
    [] op = "SLLV" -> Word(rt * 2^Shift(rs))
    [] op \in {"SRA", "SRL"} -> Sra(rt, x)
    [] op \in {"SRAV", "SRLV"} -> Sra(rt, Shift(rs))
    [] op \in {"ADDI", "ADDIU"} -> Word(rs + x)
    [] op = "ANDI" -> rs & (x % Half)
    [] op = "ORI" -> rs | (x % Half)
    [] op = "XORI" -> rs ^^ (x % Half)
    [] op = "LUI" -> Word(x * Half)
    [] op = "SLTI" -> Bit(Signed(rs) < Signed(x))
    [] op = "SLTIU" -> Bit(rs < x)

(* The tests for OverflowException.                                        *)
Overflow(op, rs, rt, x) ==
  CASE op = "ADD" -> SIGN_BIT(rs) = SIGN_BIT(rt)
                       /\ SIGN_BIT(rs) # SIGN_BIT(Word(rs + rt))
    [] op = "ADDI" -> SIGN_BIT(rs) = SIGN_BIT(x)
                       /\ SIGN_BIT(x) # SIGN_BIT(Word(rs + x))
    [] op = "SUB" -> SIGN_BIT(rs) # SIGN_BIT(rt)
                       /\ SIGN_BIT(rs) # SIGN_BIT(Word(rs - rt))
    [] OTHER -> FALSE

Branches == {"BEQ", "BNE", "BGTZ", "BLEZ", "BGEZ", "BLTZ", "BGEZAL", "BLTZAL"}
Jumps    == {"J", "JAL", "JR", "JALR"}

Taken(op, rs, rt) ==
  CASE op = "BEQ" -> rs = rt
    [] op = "BNE" -> rs # rt
    [] op = "BGTZ" -> Signed(rs) > 0
    [] op = "BLEZ" -> Signed(rs) <= 0
    [] op \in {"BGEZ", "BGEZAL"} -> ~SIGN_BIT(rs)
    [] op \in {"BLTZ", "BLTZAL"} -> SIGN_BIT(rs)

IndexToAddr(x) == Word(x * 4)

(* The target of J and JAL keeps the upper bits (four of 32) of the PC.    *)
JumpSpan == 2^(W - W \div 8)
Target(from, x) == (from - (from % JumpSpan)) + (IndexToAddr(x) % JumpSpan)

-----------------------------------------------------------------------------
(* Mult: <<hi, lo>> after adding in shifted copies of b for the bits of a. *)

(* Mutant of MultStep: the carry out of the low word is lost.              *)
MultStepNoCarry(s, i) ==
  LET add == (s.a \div 2^i) % 2 = 1
  IN  [a |-> s.a,
       lo |-> IF add THEN Word(s.lo + s.bLo) ELSE s.lo,
       hi |-> IF add THEN Word(s.hi + s.bHi) ELSE s.hi,
       bLo |-> Word(2 * s.bLo),
       bHi |-> Word(2 * s.bHi + Bit(SIGN_BIT(s.bLo)))]

(* The loop's body.  Its early exit, when no bit of a is left, changes     *)
(* nothing that is used.                                                   *)
MultStep(s, i) ==
  LET add == (s.a \div 2^i) % 2 = 1
      lo == Word(s.lo + s.bLo)
  IN  [a |-> s.a,
       lo |-> IF add THEN lo ELSE s.lo,
       hi |-> IF add THEN Word(s.hi + Bit(lo < s.bLo) + s.bHi) ELSE s.hi,
       bLo |-> Word(2 * s.bLo),
       bHi |-> Word(2 * s.bHi + Bit(SIGN_BIT(s.bLo)))]

Negate(hi, lo) ==
  LET l == Word(Size - 1 - lo + 1)
  IN  <<Word(Size - 1 - hi + Bit(l = 0)), l>>

Mult(a, b, signedArith) ==
  LET negative == signedArith /\ SIGN_BIT(a) # SIGN_BIT(b)
      abs(x) == IF signedArith /\ SIGN_BIT(x) THEN Word(-x) ELSE x
      r == FoldLeft(MultStep,
                    [a |-> abs(a), lo |-> 0, hi |-> 0, bLo |-> abs(b), bHi |-> 0],
                    [i \in 1..W |-> i - 1])
  IN  IF a = 0 \/ b = 0 THEN <<0, 0>>
      ELSE IF negative THEN Negate(r.hi, r.lo) ELSE <<r.hi, r.lo>>

(* C's / and % on ints round towards zero.                                 *)
Abs(x) == IF x < 0 THEN -x ELSE x
Sgn(x) == IF x < 0 THEN -1 ELSE 1

(* OP_DIV, OP_DIVU: <<hi, lo>>.                                            *)
Div(a, b) ==
  LET x == Signed(a)  y == Signed(b)
      q == Sgn(x) * Sgn(y) * (Abs(x) \div Abs(y))
  IN  IF b = 0 THEN <<0, 0>> ELSE <<Word(x - q * y), Word(q)>>

DivU(a, b) == IF b = 0 THEN <<0, 0>> ELSE <<a % b, a \div b>>

(* The smallest int divided by -1 has no result: the host traps.           *)
HostTrap(op, a, b) == op = "DIV" /\ a = Size \div 2 /\ b = Size - 1

MulDiv(op, a, b) ==
  CASE op = "MULT" -> Mult(a, b, TRUE)
    [] op = "MULTU" -> Mult(a, b, FALSE)
    [] op = "DIV" -> Div(a, b)
    [] op = "DIVU" -> DivU(a, b)

=============================================================================
