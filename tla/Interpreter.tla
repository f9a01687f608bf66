------------------------------ MODULE Interpreter ------------------------------
(***************************************************************************)
(* The reference interpreter, interpret.cc: one instruction, with the      *)
(* system call it may have to answer first.  A machine is a record: pc,    *)
(* gpr, mem (bytes, absent ones zero), text (the instructions of the       *)
(* program, which does not write them), brk, and dead (the process hit an  *)
(* assertion, exit() or a trap).  Fields of an instruction are unsigned,   *)
(* as they are encoded.                                                    *)
(***************************************************************************)
EXTENDS Alu, FiniteSetsExt, Sequences, TLC

CONSTANTS
    B,       \* bits of a byte: W = 4 * B
    I,       \* bits of an I-type immediate, 12 in the design; a page is 2^I bytes
    NumRegs,
    File     \* the bytes of the file a program opens
ASSUME InterpreterAssumption == W = 4 * B /\ I \in 1 .. W /\ NumRegs >= 2

Regs == 0 .. NumRegs - 1
Byte(mem, a) == IF a \in DOMAIN mem THEN mem[a] ELSE 0
Read(mem, a, n) ==
    MapThenSumSet(LAMBDA k : Byte(mem, Word(a + k)) * 2^(B * k), 0 .. n - 1)
Write(mem, a, n, v) ==
    [x \in {Word(a + k) : k \in 0 .. n - 1} |-> (v \div 2^(B * ((x - a) % 2^W))) % 2^B] @@ mem

Nop == [op |-> "addi", rd |-> 0, rs1 |-> 0, rs2 |-> 0, imm |-> 0]
Insn(m) == IF m.pc \in DOMAIN m.text THEN m.text[m.pc] ELSE [Nop EXCEPT !.op = "illegal"]

-----------------------------------------------------------------------------
(* The host: pos is the position of every open file, time its clock.  A    *)
(* call has the words of the block that tohost points to: its number, then *)
(* the arguments; all but the low word of a block's entries is left out.   *)

NewFd(host) ==
    CHOOSE fd \in 3 .. 2^W - 1 :
        fd \notin DOMAIN host.pos /\ 3 .. fd - 1 \subseteq DOMAIN host.pos

\* open, close, read, lseek: the calls that move the host.
FileCall(mem, host, a) ==
    LET fd == a[1]
        here == host.pos[fd]
        n == Max({0, Min({a[3], Len(File) - here})})
        seek == Word(a[2] + CASE a[3] = 0 -> 0 [] a[3] = 1 -> here [] OTHER -> Len(File))
    IN  CASE a[0] = 55 -> LET new == NewFd(host)
                          IN  [mem |-> mem, host |-> [host EXCEPT !.pos = (new :> 0) @@ @], ret |-> new]
          [] a[0] = 57 /\ fd <= 2 -> [mem |-> mem, host |-> host, ret |-> 0]
          [] a[0] # 55 /\ fd > 2 /\ fd \notin DOMAIN host.pos ->
                [mem |-> mem, host |-> host, ret |-> -1]
          [] a[0] = 57 -> [mem |-> mem, ret |-> 0,
                           host |-> [host EXCEPT !.pos = [x \in DOMAIN @ \ {fd} |-> @[x]]]]
          [] a[0] = 62 -> [mem |-> mem, host |-> [host EXCEPT !.pos[fd] = seek], ret |-> seek]
          [] a[0] = 63 -> [host |-> [host EXCEPT !.pos[fd] = @ + n], ret |-> n,
                           mem |-> [x \in {Word(a[2] + k) : k \in 0 .. n - 1} |->
                                        File[here + 1 + Word(x - a[2])]] @@ mem]

\* fstat is its st_size; stat and the frame buffer call do nothing.
Call(mem, host, a) ==
    CASE a[0] \in {55, 57, 62, 63} -> FileCall(mem, host, a)
      [] a[0] = 64 -> [mem |-> mem, host |-> host, ret |-> a[3]]
      [] a[0] = 78 -> [mem |-> mem, host |-> host, ret |-> 0]
      [] a[0] = 80 -> [mem |-> Write(mem, Word(a[2] + 16), 4, Len(File)), host |-> host,
                       ret |-> IF a[1] \in DOMAIN host.pos THEN 0 ELSE -1]
      [] a[0] = 94 -> [mem |-> Write(Write(mem, a[1], 4, host.time), a[2], 8, 0), ret |-> 0,
                       host |-> [host EXCEPT !.time = @ + 1]]
      [] OTHER     -> [mem |-> mem, host |-> host, ret |-> a[0]]
Calls == {55, 57, 62, 63, 64, 78, 80, 94, Word(4919)}

HandleSyscall(m, host, g, tohost) ==
    LET a == [k \in 0 .. 3 |-> Read(m.mem, Word(tohost + 8 * k), 4)]
        c == Call(m.mem, host, a)
    IN  IF tohost % 2 = 1 THEN [m |-> [m EXCEPT !.brk = TRUE], host |-> host]
        ELSE IF a[0] \notin Calls THEN [m |-> [m EXCEPT !.dead = TRUE], host |-> host]
        ELSE [host |-> c.host,
              m |-> [m EXCEPT !.mem = Write(Write(Write(c.mem, tohost, 4, Word(c.ret)),
                                                  g.tohost, 4, 0), g.fromhost, 4, 1)]]

-----------------------------------------------------------------------------
(* One instruction.                                                        *)

LoadWidth == [lb |-> 1, lh |-> 2, lw |-> 4, lbu |-> 1, lhu |-> 2]
StoreWidth == [sb |-> 1, sh |-> 2, sw |-> 4]

Set(m, r, v) == [m EXCEPT !.gpr = IF r = 0 THEN @ ELSE [@ EXCEPT ![r] = v], !.pc = Word(@ + 4)]
Dies(m) == [m EXCEPT !.dead = TRUE]

\* A load into register 0 falls through to fence.
ExecLoad(m, i) ==
    LET ea == Word(SignExtend(i.imm, I) + m.gpr[i.rs1])
        n == LoadWidth[i.op]
        v == Read(m.mem, ea, n)
    IN  IF i.rd = 0 THEN Set(m, 0, 0)
        ELSE Set(m, i.rd, IF i.op \in {"lb", "lh"} THEN SignExtend(v, B * n) ELSE v)

ExecStore(m, i) ==
    LET ea == Word(SignExtend(i.imm, I) + m.gpr[i.rs1])
    IN  [Set(m, 0, 0) EXCEPT !.mem = Write(@, ea, StoreWidth[i.op], m.gpr[i.rs2])]

\* With register 0 for destination even a reserved funct7 passes.
ExecAlu(m, i) ==
    LET imm == i.op \in DOMAIN ImmediateForm
        op == IF imm THEN ImmediateForm[i.op] ELSE i.op
        a == m.gpr[i.rs1]
        b == IF ~imm THEN m.gpr[i.rs2] ELSE IF i.op \in ShiftImm THEN i.imm % W ELSE SignExtend(i.imm, I)
    IN  IF i.rd = 0 THEN Set(m, 0, 0)
        ELSE IF op = "mulhsu" \/ Traps(op, a, b) THEN Dies(m)
        ELSE Set(m, i.rd, Alu(op, a, b))

\* The target of jalr is formed before the link register is written.
ExecJump(m, i) ==
    CASE i.op = "jal"  -> [Set(m, i.rd, Word(m.pc + 4)) EXCEPT
                             !.pc = Word(m.pc + SignExtend(i.imm, 2 * I - 3))]
      [] i.op = "jalr" -> LET t == Word(SignExtend(i.imm, I) + m.gpr[i.rs1])
                          IN  [Set(m, i.rd, Word(m.pc + 4)) EXCEPT !.pc = (t \div 2) * 2]
      [] OTHER -> IF Taken(i.op, m.gpr[i.rs1], m.gpr[i.rs2])
                  THEN [m EXCEPT !.pc = Word(@ + SignExtend(i.imm, I + 1))] ELSE Set(m, 0, 0)

\* "ecall" is 0x73 with nothing else set; the other instructions of the opcode,
\* the reads of the counters among them, change no register.
Exec(m, i) ==
    CASE i.op \in DOMAIN LoadWidth -> ExecLoad(m, i)
      [] i.op \in DOMAIN StoreWidth -> ExecStore(m, i)
      [] i.op \in DOMAIN ImmediateForm \cup Logic \cup MulDiv \cup {"mulhsu"} -> ExecAlu(m, i)
      [] i.op \in Branches \cup {"jal", "jalr"} -> ExecJump(m, i)
      [] i.op = "lui"   -> Set(m, i.rd, Word(i.imm * 2^I))
      [] i.op = "auipc" -> Set(m, i.rd, Word(m.pc + i.imm * 2^I))
      [] i.op \in {"fence", "ebreak", "csrr", "rdcycle"} -> Set(m, 0, 0)
      [] i.op = "ecall" -> [m EXCEPT !.brk = TRUE]
      [] OTHER -> Dies(m)

\* The instruction is fetched, then the host is served, then it executes.
ExecRiscv(m, host, g) ==
    LET tohost == Read(m.mem, g.tohost, 4)
        served == IF tohost = 0 THEN [m |-> m, host |-> host] ELSE HandleSyscall(m, host, g, tohost)
    IN  IF served.m.dead THEN served ELSE [served EXCEPT !.m = Exec(@, Insn(m))]
=============================================================================
