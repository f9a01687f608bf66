-------------------------------- MODULE Datapath --------------------------------
(***************************************************************************)
(* The integer datapaths of exec.sv against the reference interpreter: the *)
(* carry-save subtracters and comparators of port 0, port 2, the funnel    *)
(* shifter, the multiplier as it is built (FPGA is defined) and the        *)
(* divider.  The operands are those of the divider, whose state machine    *)
(* goes through all of them.                                               *)
(***************************************************************************)
EXTENDS Divider, Alu

ASSUME PowerOfTwo == \E n \in 0 .. W : W = 2^n  \* a distance is the low bits of a word

Inverted(x, n) == 2^n - 1 - x
Top(x) == x \div 2^(W - 1)

-----------------------------------------------------------------------------
\* csa and the adder behind it, n bits wide; the topmost carry is dropped.
CarrySave(a, b, cin, n) ==
    LET ab == a ^^ b
        carry == (a & b) | (cin & ab)
    IN  (((2 * carry) % 2^n) + (ab ^^ cin)) % 2^n

\* w_add32: the second operand is a register or the immediate, inverted to subtract.
Sum(a, b, subtract) ==
    IF subtract THEN CarrySave(a, Inverted(b, W), 1, W) ELSE CarrySave(a, b, 0, W)
\* Bit W of w_add64, the difference of two words in 2W bits.
Borrow(a, b) == (CarrySave(a, Inverted(b, 2 * W), 1, 2 * W) \div 2^W) % 2 = 1
\* w_AltB: the signs decide, or the sign of the difference of equal signs.
LessThan_Difference(a, b) == Top(Sum(a, b, TRUE)) = 1
LessThan(a, b) ==
    IF Top(a) # Top(b) THEN Top(a) = 1 ELSE Top(Sum(a, b, TRUE)) = 1

\* shift_right: two words beside each other, shifted by the distance, or by
\* what the distance lacks to a word to shift left.
Funnel(data, distance, left, signed) ==
    LET fill == IF signed /\ Negative(data) THEN (2^W - 1) * 2^W ELSE 0
        wide == IF left THEN data * 2^W ELSE fill + data
    IN  Word(wide \div 2^(IF left THEN (W - distance) % (2 * W) ELSE distance))

Port0(op_, a, b) ==
    CASE op_ = "add"  -> Sum(a, b, FALSE)
      [] op_ = "sub"  -> Sum(a, b, TRUE)
      [] op_ = "slt"  -> Bit(LessThan(a, b))
      [] op_ = "sltu" -> Bit(Borrow(a, b))
      [] op_ = "and"  -> a & b
      [] op_ = "or"   -> a | b
      [] op_ = "xor"  -> a ^^ b
      [] op_ = "sll"  -> Funnel(a, b % W, TRUE, FALSE)
      [] op_ = "srl"  -> Funnel(a, b % W, FALSE, FALSE)
      [] op_ = "sra"  -> Funnel(a, b % W, FALSE, TRUE)

\* Port 2 compares with the operators of the language.
Port2(op_, a, b) ==
    CASE op_ = "slt"  -> Bit(Signed(a) < Signed(b))
      [] op_ = "sltu" -> Bit(a < b)
      [] OTHER -> Port0(op_, a, b)

BranchPort0(op_, a, b) ==
    CASE op_ = "beq"  -> a = b
      [] op_ = "bne"  -> a # b
      [] op_ = "blt"  -> LessThan(a, b)
      [] op_ = "bge"  -> IF Top(a) # Top(b) THEN Top(b) = 1 ELSE Top(Sum(a, b, TRUE)) = 0
      [] op_ = "bltu" -> Borrow(a, b)
      [] op_ = "bgeu" -> ~Borrow(a, b)
BranchPort2(op_, a, b) ==
    CASE op_ = "beq"  -> a = b
      [] op_ = "bne"  -> a # b
      [] op_ = "blt"  -> Signed(a) < Signed(b)
      [] op_ = "bge"  -> Signed(a) >= Signed(b)
      [] op_ = "bltu" -> a < b
      [] op_ = "bgeu" -> a >= b

-----------------------------------------------------------------------------
\* t_mul: 2W bits, of operands that are extended by their signs or by zeros.
Wide(x) == IF Negative(x) THEN x + 2^W * (2^W - 1) ELSE x
Product(a, b, signed) == (IF signed THEN Wide(a) * Wide(b) ELSE a * b) % 2^(2 * W)
MulY(op_, a, b) ==
    IF op_ = "mul" THEN Word(Product(a, b, TRUE)) ELSE Product(a, b, op_ = "mulh") \div 2^W

\* ppa32 itgt: bit 0 of the sum is kept.
IndirectTarget(a, imm) == Sum(a, imm, FALSE)
-----------------------------------------------------------------------------
(* Whatever port the scheduler gives an instruction to, it computes what the
   reference interpreter computes, and branches go the same way, for all
   operands; so do the halves of a product, and indirect jumps, except that
   the core keeps bit 0 of their target. *)
ResultsExact ==
    state = "PACK_OUTPUT" =>
        /\ \A o \in Logic : Port0(o, op.a, op.b) = Alu(o, op.a, op.b)
                            /\ Port2(o, op.a, op.b) = Alu(o, op.a, op.b)
        /\ \A o \in {"mul", "mulh", "mulhu"} : MulY(o, op.a, op.b) = Alu(o, op.a, op.b)
        /\ \A o \in Branches : BranchPort0(o, op.a, op.b) = Taken(o, op.a, op.b)
                               /\ BranchPort2(o, op.a, op.b) = Taken(o, op.a, op.b)
        /\ IndirectTarget(op.a, op.b) - (IndirectTarget(op.a, op.b) % 2)
              = 2 * (Word(op.a + op.b) \div 2)
=================================================================================
