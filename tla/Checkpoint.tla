------------------------------- MODULE Checkpoint -------------------------------
(***************************************************************************)
(* saveState.cc: the checkpoint of a machine, and the code that puts its   *)
(* register values into a core that has only been reset.                   *)
(***************************************************************************)
EXTENDS Interpreter, SequencesExt

CONSTANT Padding  \* instructions behind the emitted code, 128 in the source

Page(a) == a \div 2^I
PagesOf(m) == {Page(a) : a \in {x \in DOMAIN m.mem : m.mem[x] # 0} \cup DOMAIN m.text}
Outside(f, pages) == [a \in {x \in DOMAIN f : Page(x) \notin pages} |-> f[a]]

Inside(f, pages) == [a \in {x \in DOMAIN f : Page(x) \in pages} |-> f[a]]

\* Pages of zeros are not in the file.
DumpState(m) ==
    [pc |-> m.pc, gpr |-> m.gpr, mem |-> Inside(m.mem, PagesOf(m)), text |-> m.text,
     pages |-> PagesOf(m)]

\* The pages of the file replace those of the machine; the others are left.
LoadState(m, d) ==
    [m EXCEPT !.pc = d.pc, !.gpr = d.gpr,
              !.mem = d.mem @@ Outside(@, d.pages), !.text = d.text @@ Outside(@, d.pages)]

-----------------------------------------------------------------------------
(* A value with the sign bit of its immediate set is the next multiple of a *)
(* page less something: C divides toward zero, so a negative value rounds up *)
(* by itself and a positive one is helped; int arithmetic wraps.            *)
ToPage(v) == Truncated(v, 2^I) * 2^I
Upper(v) ==
    IF Signed(v) - ToPage(Signed(v)) >= 0
    THEN Word(ToPage(Signed(Word(v + 2^I - 1))))
    ELSE Word(ToPage(Signed(v)))
Rounds(v) == (v \div 2^(I - 1)) % 2 = 1

\* assert((d >> 12) == -1)
Asserts(v) == Rounds(v) => Signed(Word(v - Upper(v))) \in -(2^I) .. -1

LuiOf(r, v) == [Nop EXCEPT !.op = "lui", !.rd = r, !.imm = v \div 2^I]
EmitRegister(r, v) ==
    IF Rounds(v)
    THEN <<LuiOf(r, Upper(v)), [Nop EXCEPT !.rd = r, !.rs1 = r, !.imm = Word(v - Upper(v)) % 2^I]>>
    ELSE <<LuiOf(r, v), [Nop EXCEPT !.op = "ori", !.rd = r, !.rs1 = r, !.imm = v % 2^I]>>

Emitted(m) ==
    FlattenSeq([r \in 1 .. NumRegs - 1 |-> EmitRegister(r, m.gpr[r])])
        \o <<[Nop EXCEPT !.op = "ecall"]>> \o [k \in 1 .. Padding |-> Nop]

\* As data an instruction is a word of one byte that is not zero.
EmitCode(m) ==
    IF \E r \in Regs \ {0} : ~Asserts(m.gpr[r]) THEN Dies(m)
    ELSE LET code == Emitted(m)
             at == {Word(m.pc + 4 * k) : k \in 0 .. Len(code) - 1}
         IN  [m EXCEPT !.text = [a \in at |-> code[Word(a - m.pc) \div 4 + 1]] @@ @,
                       !.mem = [a \in {Word(x + j) : x \in at, j \in 0 .. 3} |->
                                   IF (a - m.pc) % 4 = 0 THEN 1 ELSE 0] @@ @]
=============================================================================
