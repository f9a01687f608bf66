------------------------------ MODULE MCTestBench ------------------------------
(***************************************************************************)
(* Programs and checkpoints for the test bench: words of 12 bits, bytes of *)
(* 3, immediates of 7, pages of 128 bytes, four registers.                 *)
(***************************************************************************)
EXTENDS TestBench

R(name, rd, a, b) == [op |-> name, rd |-> rd, rs1 |-> a, rs2 |-> b, imm |-> 0]
Im(name, rd, a, n) == [op |-> name, rd |-> rd, rs1 |-> a, rs2 |-> 0, imm |-> n % 2^I]
St(name, b, a, n) == [op |-> name, rd |-> 0, rs1 |-> a, rs2 |-> b, imm |-> n % 2^I]
Br(name, a, b, n) == [op |-> name, rd |-> 0, rs1 |-> a, rs2 |-> b, imm |-> n % 2^(I + 1)]
Jump(rd, n) == [op |-> "jal", rd |-> rd, rs1 |-> 0, rs2 |-> 0, imm |-> n % 2^(2 * I - 3)]
Sys(name) == R(name, 0, 0, 0)

SomeFile == <<5, 6, 7>>

Start == 512
TextAt(a, code) == [x \in {a + 4 * (k - 1) : k \in DOMAIN code} |-> code[(x - a) \div 4 + 1]]
Segment(code) == [type |-> "load", vaddr |-> Start, memsz |-> 0, data |-> <<>>,
                  text |-> TextAt(Start, code)]
\* The block of a system call at -64: 32 bytes, of four entries, low byte first.
Block == 4032
Entry(n) == <<n % 8, (n \div 8) % 8, (n \div 64) % 8, 0, 0, 0, 0, 0>>
CallBlock(a, b, c, d) ==
    [type |-> "load", vaddr |-> Block, memsz |-> 34, text |-> <<>>,
     data |-> Entry(a) \o Entry(b) \o Entry(c) \o Entry(d)]
Symbols == [tohost |-> 4088, fromhost |-> 4080]
Elf(segs, portable) ==
    [kind |-> "elf", portable |-> portable,
     file |-> [ok |-> TRUE, entry |-> Start, segs |-> segs, syms |-> Symbols]]
Program(code) == Elf(<<[Segment(code) EXCEPT !.memsz = 1]>>, TRUE)

\* Ask the host, wait for the answer, read it.
AskCode == <<Im("addi", 1, 0, -64), St("sw", 1, 0, -8), Sys("ebreak"),
             Im("lw", 2, 0, -64), Im("lb", 3, 0, -16), Sys("ecall")>>
Asks(a, b, c, d, portable) ==
    Elf(<<[Segment(AskCode) EXCEPT !.memsz = 1], CallBlock(a, b, c, d)>>, portable)

Dump(pc, gpr, code, bytes, portable) ==
    [kind |-> "checkpoint", portable |-> portable,
     file |-> DumpState([Blank EXCEPT !.pc = pc, !.gpr = (0 :> 0) @@ gpr,
                                      !.text = TextAt(pc, code), !.mem = bytes])]

Named ==
    [loop     |-> Program(<<Im("addi", 1, 0, 3), Im("addi", 1, 1, -1), R("xor", 2, 2, 1),
                            Br("bne", 1, 0, -8), Sys("ecall")>>),
     call     |-> Program(<<Jump(1, 12), R("add", 3, 2, 1), Sys("ecall"),
                            Im("addi", 2, 0, 9), Im("jalr", 0, 1, 0)>>),
     memory   |-> Program(<<Im("addi", 1, 0, -3), St("sw", 1, 0, 60), Im("lhu", 2, 0, 62),
                            St("sb", 2, 0, 33), Im("lb", 3, 0, 60), Sys("ecall")>>),
     forever  |-> Program(<<Im("addi", 1, 1, 1), Jump(0, -4)>>),
     illegal  |-> Program(<<Im("addi", 1, 0, 5), Sys("illegal")>>),
     spanning |-> Program(<<Im("addi", 1, 0, 13), Im("lb", 0, 1, 2), Im("lw", 2, 1, 0)>>),
     odd      |-> Program(<<Im("addi", 1, 0, 13), Im("lh", 2, 1, 0), Im("lhu", 2, 1, 0)>>),
     counter  |-> [Program(<<Im("rdcycle", 2, 0, 0), Im("addi", 1, 2, 0), Sys("ecall")>>)
                     EXCEPT !.portable = FALSE],
     silent   |-> Program(<<Im("addi", 1, 0, 5), Sys("ebreak"), Sys("ecall")>>),
     stop     |-> Program(<<Im("addi", 1, 0, 3), St("sw", 1, 0, -8), Sys("ebreak"), Sys("ecall")>>),
     print    |-> Asks(64, 1, 4040, 2, TRUE),
     shut     |-> Asks(57, 1, 0, 0, TRUE),
     open     |-> Asks(55, 4040, 0, 0, FALSE),
     clock    |-> Asks(94, 4032 + 32, 0, 0, FALSE),
     stat     |-> Asks(80, 9, 2048, 0, TRUE),
     unknown  |-> Asks(99, 0, 0, 0, FALSE),
     broken   |-> [Program(<<>>) EXCEPT !.file.ok = FALSE],
     dump     |-> Dump(512, 1 :> 2047 - 127 @@ 2 :> 4095 @@ 3 :> 100,
                       <<R("add", 1, 1, 2), St("sw", 1, 0, 60), Sys("ecall")>>, 700 :> 5, TRUE),
     edges    |-> Dump(516, 1 :> 2048 @@ 2 :> 64 @@ 3 :> 2048 + 64,
                       <<Im("lw", 1, 0, 60), Sys("ecall")>>, 60 :> 7, TRUE),
     crossing |-> Dump(616, 1 :> 64 @@ 2 :> 640 @@ 3 :> 0,
                       <<Im("lw", 3, 2, 0), R("or", 3, 3, 3), Sys("ecall")>>, <<>>, TRUE)]

\* A restore that leaves nothing behind, and the one that does.
Checkpoints == [t \in {<<n, 0, 0>> : n \in {"dump", "edges", "crossing"}} |-> Named[t[1]]]

\* Every program of two of these instructions, the first executed twice when the
\* second jumps back.
Cells ==
    <<Im("addi", 1, 3, -9), R("mul", 2, 1, 3), Im("srai", 3, 1, 2), R("sltu", 1, 2, 3),
      Im("auipc", 2, 0, 3), St("sh", 1, 3, 6), Im("lh", 2, 3, 6), Im("lbu", 1, 3, 7),
      St("sw", 3, 3, 4), Im("lw", 3, 3, 5), Br("bltu", 3, 1, -4), Jump(3, 8), Sys("fence")>>
Pairs ==
    [k \in (1 .. Len(Cells)) \X (1 .. Len(Cells)) |->
        Program(<<Cells[k[1]], Cells[k[2]], Sys("ecall"), Sys("illegal")>>)]
AllTests ==
    [t \in {<<n, 0, 0>> : n \in DOMAIN Named} \cup {<<"pair", k[1], k[2]>> : k \in DOMAIN Pairs} |->
        IF t[1] = "pair" THEN Pairs[<<t[2], t[3]>>] ELSE Named[t[1]]]
=============================================================================
