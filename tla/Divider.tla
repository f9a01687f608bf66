-------------------------------- MODULE Divider --------------------------------
(***************************************************************************)
(* The restoring divider of divider.sv, bit for bit, for words of W bits.  *)
(* One step is one clock cycle.  The quotient is collected by shiftregbit, *)
(* which nothing clears between two divisions.                             *)
(***************************************************************************)
EXTENDS Words

VARIABLES
    state,
    op,   \* the division in progress: operands, is_signed_div, is_rem
    idx,  \* r_idx
    R,    \* r_R, 2W bits: remainder above, what is left of the dividend below
    D,    \* r_D, 2W bits: the divisor in the upper half
    ss,   \* t_ss, the shift register
    y     \* r_Y

vars == <<state, op, idx, R, D, ss, y>>

Requests == [a : Words, b : Words, signed : BOOLEAN, rem : BOOLEAN]
Magnitude(o, x) == IF o.signed /\ Negative(x) THEN Neg(x) ELSE x

Init ==
    /\ state = "IDLE"
    /\ op = [a |-> 0, b |-> 0, signed |-> FALSE, rem |-> FALSE]
    /\ idx = 0 /\ R = 0 /\ D = 0 /\ ss = 0 /\ y = 0

Start(o) ==
    /\ state = "IDLE"
    /\ state' = "DIVIDE"
    /\ op' = o
    /\ idx' = W - 1
    /\ R' = Magnitude(o, o.a)
    /\ D' = Magnitude(o, o.b) * 2^W
    /\ UNCHANGED <<ss, y>>

\* The bit that leaves r_R at the top is dropped.
Shifted == (2 * R) % 2^(2 * W)
Divide ==
    /\ state = "DIVIDE"
    /\ LET bit == IF Shifted >= D THEN 1 ELSE 0
       IN  /\ R' = Shifted - bit * D
           /\ ss' = Word(2 * ss + bit)
    /\ state' = IF idx = 0 THEN "PACK_OUTPUT" ELSE state
    /\ idx' = (idx - 1) % W
    /\ UNCHANGED <<op, D, y>>

\* r_sign is that of both operands, r_rem_sign that of the dividend; neither
\* looks at whether the divisor is zero.
PackOutput_OneSign ==
    /\ state = "PACK_OUTPUT"
    /\ LET neg == op.signed /\ Negative(op.a) # Negative(op.b)
           quot == IF neg THEN Neg(ss) ELSE ss
           rem == IF neg THEN Neg(R \div 2^W) ELSE R \div 2^W
       IN  y' = IF op.rem THEN rem ELSE quot
    /\ state' = "WAIT_FOR_WB"
    /\ UNCHANGED <<op, idx, R, D, ss>>
PackOutput ==
    /\ state = "PACK_OUTPUT"
    /\ LET quot == IF op.signed /\ Negative(op.a) # Negative(op.b)
                   THEN Neg(ss) ELSE ss
           rem == IF op.signed /\ Negative(op.a)
                  THEN Neg(R \div 2^W) ELSE R \div 2^W
       IN  y' = IF op.rem THEN rem ELSE quot
    /\ state' = "WAIT_FOR_WB"
    /\ UNCHANGED <<op, idx, R, D, ss>>

WaitForWb ==
    /\ state = "WAIT_FOR_WB"
    /\ state' = "IDLE"
    /\ UNCHANGED <<op, idx, R, D, ss, y>>

Next ==
    \/ \E o \in Requests : Start(o)
    \/ Divide \/ PackOutput \/ WaitForWb

Spec == Init /\ [][Next]_vars
-----------------------------------------------------------------------------
Value(x) == IF op.signed THEN Signed(x) ELSE x
Quotient == Truncated(Value(op.a), Value(op.b))

(* A division by anything but zero gives the quotient or the remainder of
   division toward zero, the one overflow, the least number by -1, included. *)
DivideExact ==
    state = "WAIT_FOR_WB" /\ op.b # 0 =>
        y = Word(IF op.rem THEN Value(op.a) - Quotient * Value(op.b) ELSE Quotient)

(* The reference interpreter, with whose registers the test bench compares
   those of the core after every instruction, answers ~0 to every division by
   zero (interpret.cc, DIV and DIVU). *)
QuotientByZero ==
    state = "WAIT_FOR_WB" /\ op.b = 0 /\ ~op.rem => y = 2^W - 1
=============================================================================
