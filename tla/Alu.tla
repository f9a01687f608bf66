---------------------------------- MODULE Alu ----------------------------------
(***************************************************************************)
(* What the reference interpreter computes: the operators of interpret.cc. *)
(* A register-immediate operation is its register-register form with the   *)
(* sign-extended immediate for the second operand.                         *)
(***************************************************************************)
EXTENDS Words, Bitwise

Bit(p) == IF p THEN 1 ELSE 0

\* The cases of opcode 0x13; the two shifts of selector 5 differ in funct7.
ImmediateForm ==
    [addi |-> "add", slli |-> "sll", slti |-> "slt", sltiu |-> "sltu", xori |-> "xor",
     srli |-> "srl", srai |-> "sra", ori |-> "or", andi |-> "and"]
ShiftImm == {"slli", "srli", "srai"}

Logic == {"add", "sub", "sll", "slt", "sltu", "xor", "srl", "sra", "or", "and"}
MulDiv == {"mul", "mulh", "mulhu", "div", "divu", "rem", "remu"}

\* The cases of opcode 0x33.  A division by zero answers all ones, remainder or not.
Alu(op, a, b) ==
    CASE op = "add"   -> Word(a + b)
      [] op = "sub"   -> Word(a - b)
      [] op = "sll"   -> Word(a * 2^(b % W))
      [] op = "slt"   -> Bit(Signed(a) < Signed(b))
      [] op = "sltu"  -> Bit(a < b)
      [] op = "xor"   -> a ^^ b
      [] op = "srl"   -> a \div 2^(b % W)
      [] op = "sra"   -> Word(Signed(a) \div 2^(b % W))
      [] op = "or"    -> a | b
      [] op = "and"   -> a & b
      [] op = "mul"   -> Word(a * b)
      [] op = "mulh"  -> Word((Signed(a) * Signed(b)) \div 2^W)
      [] op = "mulhu" -> (a * b) \div 2^W
      [] op \in MulDiv /\ b = 0 -> 2^W - 1
      [] op = "div"   -> Word(Truncated(Signed(a), Signed(b)))
      [] op = "divu"  -> a \div b
      [] op = "rem"   -> Word(Signed(a) - Truncated(Signed(a), Signed(b)) * Signed(b))
      [] op = "remu"  -> a % b

\* The least number by -1 is undefined in C++; the x86 instruction traps.
Traps(op, a, b) == op \in {"div", "rem"} /\ a = 2^(W - 1) /\ b = 2^W - 1

\* The cases of opcode 0x63.
Branches == {"beq", "bne", "blt", "bge", "bltu", "bgeu"}
Taken(op, a, b) ==
    CASE op = "beq"  -> a = b
      [] op = "bne"  -> a # b
      [] op = "blt"  -> Signed(a) < Signed(b)
      [] op = "bge"  -> Signed(a) >= Signed(b)
      [] op = "bltu" -> a < b
      [] op = "bgeu" -> a >= b
=============================================================================
