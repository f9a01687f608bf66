--------------------------------- MODULE Loader ---------------------------------
(***************************************************************************)
(* load_elf: a program file into a machine.  An elf is a record: ok (the   *)
(* checks of the header pass), entry, segs (a sequence), syms (the symbol  *)
(* table, empty in a stripped file).                                       *)
(***************************************************************************)
EXTENDS Interpreter, SequencesExt

\* Registers of the boot code; the ones of the calling convention are 5, 10, 11.
CONSTANTS T0, A0, A1
ASSUME BootAssumption == {T0, A0, A1} \subseteq Regs \ {0}

\* PT_LOAD, which the code calls SHT_PROGBITS: the two have the same number.
\* What the file does not have of a segment is zero.
LoadSegment(m, g) ==
    IF g.type # "load" \/ g.memsz = 0 THEN m
    ELSE [m EXCEPT !.text = g.text @@ @,
                   !.mem = [x \in g.vaddr .. g.vaddr + Max({g.memsz, Len(g.data)}) - 1 |->
                               IF x < g.vaddr + Len(g.data) THEN g.data[x - g.vaddr + 1] ELSE 0] @@ @]

\* The boot ROM leaves its end in a1, then jumps to the entry point, which is
\* data behind its code.
Rom == 2^I
BootCode ==
    (Rom      :> [Nop EXCEPT !.op = "auipc", !.rd = T0]) @@
    (Rom + 4  :> [Nop EXCEPT !.rd = A1, !.rs1 = T0, !.imm = 32]) @@
    (Rom + 8  :> [Nop EXCEPT !.op = "csrr", !.rd = A0]) @@
    (Rom + 12 :> [Nop EXCEPT !.op = "lw", !.rd = T0, !.rs1 = T0, !.imm = 24]) @@
    (Rom + 16 :> [Nop EXCEPT !.op = "jalr", !.rs1 = T0])
Boot_FirstOnly(m) ==
    [m EXCEPT !.text = BootCode @@ @, !.pc = Rom, !.mem = Write(@, Rom + 20, 4, m.pc)]
Boot(m) ==
    [m EXCEPT !.text = BootCode @@ @, !.pc = Rom,
              !.mem = Write(Write(@, Rom + 20, 4, m.pc), Rom + 24, 4, m.pc)]

LoadElf(m, elf) ==
    IF ~elf.ok THEN Dies(m)
    ELSE Boot([FoldLeft(LoadSegment, m, elf.segs) EXCEPT !.pc = elf.entry])

\* Without the symbols the addresses stay zero.
SymbolOf(elf, name) == IF name \in DOMAIN elf.syms THEN elf.syms[name] ELSE 0
Globals(elf) == [tohost |-> SymbolOf(elf, "tohost"), fromhost |-> SymbolOf(elf, "fromhost")]
=============================================================================
