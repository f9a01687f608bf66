------------------------------- MODULE TestBench -------------------------------
(***************************************************************************)
(* The main loop of top.cc: the simulated core, the memory it runs on (s), *)
(* the reference interpreter it is compared with (ss), and the host that   *)
(* answers system calls.  The core is reduced to what the loop sees of it: *)
(* what it retires and when, its requests for memory, its flushes, and the *)
(* states in which it waits for the loop.  It computes as the interpreter  *)
(* does, except where it is told to go wrong.                              *)
(*                                                                         *)
(* One step is one cycle: the core's, then the loop's.                     *)
(***************************************************************************)
EXTENDS Loader, Checkpoint

CONSTANTS
    Tests,         \* name |-> a program (elf) or a checkpoint, and the files
    StallLimit,    \* cycles without retirement, 1 << 16
    MaxIcnt,
    MemLat,
    MaxBugs,       \* wrong results of the core
    None
ASSUME TestBenchAssumption ==
    /\ StallLimit \in Nat /\ MaxIcnt \in Nat /\ MemLat \in Nat \ {0}
    /\ 2 * MemLat < StallLimit

VARIABLES
    test,
    phase,  \* "restore": the loop that runs emitted code; "run"; "over"
    s, ss, host,
    core,
    bench

vars == <<test, phase, s, ss, host, core, bench>>

IsCheckpoint(t) == Tests[t].kind = "checkpoint"
G == IF IsCheckpoint(test) THEN [tohost |-> 0, fromhost |-> 0] ELSE Globals(Tests[test].file)

Blank == [pc |-> 0, gpr |-> [r \in Regs |-> 0], mem |-> <<>>, text |-> <<>>,
          brk |-> FALSE, dead |-> FALSE]
NewHost == [pos |-> <<>>, time |-> 5]

\* reset_core: the core is reset, then resumed at a pc; it keeps its registers
\* when it is only resumed.
Resumed(c, pc) == [c EXCEPT !.state = "ACTIVE", !.pc = pc]
NewCore == [state |-> "HALT", pc |-> 0, gpr |-> [r \in Regs |-> 0], cache |-> <<>>,
            dirty |-> {}, req |-> None, cause |-> None, bugs |-> MaxBugs]
NewBench == [last_retire |-> 0, icnt |-> 0, reply |-> -1, rsp |-> FALSE, ack |-> FALSE,
             result |-> None, unchecked |-> {}]

Init ==
    /\ test \in DOMAIN Tests
    /\ host = NewHost
    /\ bench = NewBench
    /\ IF IsCheckpoint(test)
       THEN LET m == EmitCode(LoadState(Blank, Tests[test].file))
            IN  /\ s = m /\ ss = Blank
                /\ core = Resumed([NewCore EXCEPT !.bugs = 0], m.pc)
                /\ phase = IF m.dead THEN "over" ELSE "restore"
       ELSE LET m == LoadElf(Blank, Tests[test].file)
            IN  /\ s = m /\ ss = m
                /\ core = Resumed(NewCore, m.pc)
                /\ phase = IF m.dead THEN "over" ELSE "run"

-----------------------------------------------------------------------------
(* The core.  A step is what it retires and what it becomes.               *)

LineOf(a) == (a \div 16) * 16
LineBytes(l) == l .. l + 15
View(c) == c.cache @@ s.mem
Machine(c) == [s EXCEPT !.pc = c.pc, !.gpr = c.gpr, !.mem = View(c)]
NextInsn(c) == Insn(Machine(c))

IsMem(i) == i.op \in DOMAIN StoreWidth \cup DOMAIN LoadWidth
Width(i) == (LoadWidth @@ StoreWidth)[i.op]
Address(c, i) == Word(SignExtend(i.imm, I) + c.gpr[i.rs1])
\* An access may not leave its line; lhu, which may not be odd, is the exception.
BadAddress(c, i) ==
    /\ IsMem(i)
    /\ IF i.op = "lhu" THEN Address(c, i) % 2 = 1 ELSE (Address(c, i) % 16) + Width(i) > 16
Misses(c, i) == IsMem(i) /\ LineOf(Address(c, i)) \notin DOMAIN c.cache
CauseOf(c, i) ==
    CASE i.op = "ecall" -> "break"
      [] i.op \in {"illegal", "mulhsu"} -> "ud"
      [] BadAddress(c, i) -> "bad address"
      [] OTHER -> None

\* A reply of memory ends the request it answers.
Filled(c) ==
    IF ~bench.rsp THEN c
    ELSE IF c.req.store THEN [c EXCEPT !.req = None, !.dirty = @ \ {c.req.line}]
    ELSE [c EXCEPT !.req = None,
                   !.cache = [a \in LineBytes(c.req.line) |-> Byte(s.mem, a)] @@ @]

Written(c, i) == IF i.rd = 0 \/ i.op \in {"sb", "sh", "sw", "csrr"} \cup Branches THEN 0 ELSE i.rd

\* The instruction retires; v is what it writes, a counter's value is anybody's
\* guess.  A wrong core writes something else, or skips an instruction.
Executed(c, i, counter) ==
    IF i.op = "rdcycle" THEN Set(Machine(c), i.rd, counter) ELSE Exec(Machine(c), i)
RetireOne(c, i, counter, bug) ==
    LET m == Executed(c, i, counter)
        l == LineOf(Address(c, i))
        v == IF bug = "value" THEN Word(m.gpr[i.rd] + 1) ELSE m.gpr[i.rd]
    IN  [ret |-> [pc |-> c.pc, reg |-> Written(c, i), v |-> v],
         core |-> [c EXCEPT
            !.pc = IF bug = "skip" THEN Word(m.pc + 4) ELSE m.pc,
            !.gpr = IF Written(c, i) = 0 THEN @ ELSE [@ EXCEPT ![i.rd] = v],
            !.cache = IF i.op \in DOMAIN StoreWidth
                      THEN [a \in LineBytes(l) |-> Byte(m.mem, a)] @@ @ ELSE @,
            !.dirty = IF i.op \in DOMAIN StoreWidth THEN @ \cup {l} ELSE @,
            !.bugs = IF bug = None THEN @ ELSE @ - 1]]

\* An instruction that retires like any other.
Plain(c, i) ==
    /\ CauseOf(c, i) = None /\ i.op # "ebreak"
    /\ ~Misses(c, i)
BugsOf(c, i) ==
    {None} \cup IF c.bugs = 0 THEN {} ELSE {"skip"} \cup (IF Written(c, i) = 0 THEN {} ELSE {"value"})
CounterOf(i) == IF i.op = "rdcycle" THEN {7, 9} ELSE {0}
OneOf(c) ==
    IF ~Plain(c, NextInsn(c)) THEN {}
    ELSE {RetireOne(c, NextInsn(c), n, b) : n \in CounterOf(NextInsn(c)), b \in BugsOf(c, NextInsn(c))}

Idle(c) == [rets |-> <<>>, core |-> c]
Retirements(c) ==
    UNION {{[rets |-> <<x.ret>>, core |-> x.core]} \cup
              {[rets |-> <<x.ret, y.ret>>, core |-> y.core] : y \in OneOf(x.core)} : x \in OneOf(c)}

ActiveSteps(c) ==
    LET i == NextInsn(c)
        cause == CauseOf(c, i)
    IN  Retirements(c) \cup {Idle(c)} \cup
        IF cause # None THEN {Idle([c EXCEPT !.state = "FLUSH_FOR_HALT", !.cause = cause])}
        ELSE IF i.op = "ebreak" THEN {Idle([c EXCEPT !.state = "MONITOR_FLUSH_CACHE"])}
        ELSE IF Misses(c, i) /\ c.req = None
        THEN {Idle([c EXCEPT !.req = [store |-> FALSE, line |-> LineOf(Address(c, i))]])}
        ELSE {}

Flushing(c) == c.state \in {"FLUSH_FOR_HALT", "MONITOR_FLUSH_CACHE"}
FlushSteps(c) ==
    IF c.req # None THEN {Idle(c)}
    ELSE IF c.dirty # {} THEN {Idle([c EXCEPT !.req = [store |-> TRUE, line |-> Min(c.dirty)]])}
    ELSE {Idle([c EXCEPT !.cache = <<>>,
                         !.state = IF c.state = "FLUSH_FOR_HALT" THEN "HALT" ELSE "HANDLE_MONITOR"])}

CoreSteps(c) ==
    CASE c.state = "ACTIVE" -> ActiveSteps(c)
      [] Flushing(c) -> FlushSteps(c)
      [] c.state = "HANDLE_MONITOR" ->
            {Idle(IF bench.ack THEN [c EXCEPT !.state = "WAIT_FOR_MONITOR"] ELSE c)}
      [] c.state = "WAIT_FOR_MONITOR" ->
            {Idle(c), [rets |-> <<[pc |-> c.pc, reg |-> 0, v |-> 0]>>,
                       core |-> [c EXCEPT !.state = "ACTIVE", !.pc = Word(@ + 4)]]}
      [] c.state = "HALT" -> {Idle(c)}

-----------------------------------------------------------------------------
(* The loop.  w is everything a cycle of it changes; once it has a result   *)
(* nothing more of the cycle happens.                                      *)

Stop(w, why) == [w EXCEPT !.bench.result = why]
RetireReg(w, r) ==
    IF r.reg = 0 THEN w
    ELSE [w EXCEPT !.s.gpr[r.reg] = r.v, !.bench.unchecked = @ \cup {r.reg}]

\* A monitor call is answered from what the flush has brought to memory; when
\* nothing is asked there it is not acknowledged.
ServeMonitor_NoAck(w) ==
    LET tohost == Read(w.s.mem, G.tohost, 4)
        served == HandleSyscall(w.s, w.host, G, tohost)
    IN  IF w.core.state # "HANDLE_MONITOR" \/ tohost = 0 THEN w
        ELSE IF tohost % 2 = 1 THEN Stop(w, "exit")
        ELSE [w EXCEPT !.s = served.m, !.host = served.host]
ServeMonitor(w) ==
    LET tohost == Read(w.s.mem, G.tohost, 4)
        served == HandleSyscall(w.s, w.host, G, tohost)
    IN  IF w.core.state # "HANDLE_MONITOR" \/ tohost = 0 THEN w
        ELSE IF tohost % 2 = 1 THEN Stop(w, "exit")
        ELSE IF served.m.dead THEN Stop(w, "died")
        ELSE [w EXCEPT !.s = served.m, !.host = served.host, !.bench.ack = TRUE]

\* The interpreter executes what the core has retired; registers are compared
\* only when it did not jump, and before the second port has written.
Checked_OneLess(w, r) ==
    LET x == ExecRiscv(w.ss, w.host, G)
        done == [w EXCEPT !.ss = x.m, !.host = x.host]
    IN  IF r.pc # w.ss.pc THEN Stop(w, "no match")
        ELSE IF \E k \in 0 .. NumRegs - 2 : x.m.gpr[k] # w.s.gpr[k] THEN Stop(done, "incorrect")
        ELSE [done EXCEPT !.bench.unchecked = {}]
Checked(w, r) ==
    LET x == ExecRiscv(w.ss, w.host, G)
        done == [w EXCEPT !.ss = x.m, !.host = x.host]
    IN  IF r.pc # w.ss.pc THEN Stop(w, "no match")
        ELSE IF x.m.dead THEN Stop(done, "died")
        ELSE IF x.m.pc # Word(r.pc + 4) THEN done
        ELSE IF x.m.gpr # w.s.gpr THEN Stop(done, "incorrect")
        ELSE [done EXCEPT !.bench.unchecked = {}]

PortA_BothFirst(w, rets) ==
    LET both == FoldLeft(RetireReg, w, rets)
    IN  IF rets = <<>> \/ w.bench.result # None THEN w
        ELSE Checked([both EXCEPT !.bench.last_retire = 0, !.bench.icnt = @ + Len(rets)], rets[1])
PortA(w, rets) ==
    IF rets = <<>> \/ w.bench.result # None THEN w
    ELSE Checked([RetireReg(w, rets[1]) EXCEPT !.bench.last_retire = 0,
                                               !.bench.icnt = @ + Len(rets)], rets[1])

\* The second port is not compared, and its mismatch not reported.
PortB(w, rets) ==
    LET wr == RetireReg(w, rets[2])
        x == ExecRiscv(wr.ss, wr.host, G)
    IN  IF Len(rets) < 2 \/ w.bench.result # None THEN w
        ELSE IF rets[2].pc # wr.ss.pc THEN wr
        ELSE [wr EXCEPT !.ss = x.m, !.host = x.host,
                        !.bench.result = IF x.m.dead THEN "died" ELSE None]

Watchdog_NoBreak(w) ==
    LET n == w.bench.last_retire + 1
    IN  IF w.bench.result # None THEN w
        ELSE IF w.core.state = "HALT" THEN Stop(w, w.core.cause)
        ELSE [w EXCEPT !.bench.last_retire = IF n > StallLimit THEN 0 ELSE n]
Watchdog(w) ==
    LET n == w.bench.last_retire + 1
    IN  IF w.bench.result # None THEN w
        ELSE IF n > StallLimit /\ ~Flushing(w.core) THEN Stop(w, "hung")
        ELSE IF w.core.state = "HALT" THEN Stop(w, w.core.cause)
        ELSE [w EXCEPT !.bench.last_retire = n]

\* One request at a time; a store takes twice the time of a load.
Reply_AsLoad(w) ==
    LET due == w.bench.reply - 1
    IN  IF w.bench.result # None \/ w.core.req = None THEN w
        ELSE IF w.bench.reply = -1
        THEN [w EXCEPT !.bench.reply = MemLat]
        ELSE IF due > 0 THEN [w EXCEPT !.bench.reply = due]
        ELSE [w EXCEPT !.bench.reply = -1, !.bench.last_retire = 0, !.bench.rsp = TRUE]
Reply(w) ==
    LET due == w.bench.reply - 1
        line == LineBytes(w.core.req.line)
    IN  IF w.bench.result # None \/ w.core.req = None THEN w
        ELSE IF w.bench.reply = -1
        THEN [w EXCEPT !.bench.reply = IF w.core.req.store THEN 2 * MemLat ELSE MemLat]
        ELSE IF due > 0 THEN [w EXCEPT !.bench.reply = due]
        ELSE [w EXCEPT !.bench.reply = -1, !.bench.last_retire = 0, !.bench.rsp = TRUE,
                       !.s.mem = IF w.core.req.store
                                 THEN [a \in line |-> w.core.cache[a]] @@ @ ELSE @]

Limit(w) ==
    IF w.bench.result = None /\ w.bench.icnt >= MaxIcnt THEN Stop(w, "limit") ELSE w

\* The stages of a cycle of the loop, in its order.
Loop(w, rets) ==
    {Limit(x) : x \in {Reply(x) : x \in {Watchdog(x) : x \in {PortB(x, rets) :
        x \in {PortA(x, rets) : x \in {ServeMonitor(w)}}}}}}

RunCycle ==
    /\ phase = "run"
    /\ \E st \in CoreSteps(Filled(core)) :
       \E w \in Loop([s |-> s, ss |-> ss, host |-> host, core |-> st.core,
                      bench |-> [bench EXCEPT !.ack = FALSE, !.rsp = FALSE]], st.rets) :
        /\ s' = w.s /\ ss' = w.ss /\ host' = w.host /\ core' = w.core /\ bench' = w.bench
        /\ phase' = IF w.bench.result = None THEN "run" ELSE "over"
    /\ UNCHANGED test

-----------------------------------------------------------------------------
(* The loop that runs the emitted code: it watches for the break only, and  *)
(* there is no watchdog.                                                   *)

RestoreStep(st) ==
    /\ core' = st.core
    /\ s' = [s EXCEPT !.gpr = [r \in Regs |->
                LET by == {k \in DOMAIN st.rets : st.rets[k].reg = r /\ r # 0}
                IN  IF by = {} THEN @[r] ELSE st.rets[Max(by)].v]]
    /\ UNCHANGED <<test, phase, ss, host, bench>>
RestoreCycle ==
    /\ phase = "restore" /\ core.state # "HALT"
    /\ \E st \in CoreSteps(core) : RestoreStep(st)
RestoreProgress ==
    /\ phase = "restore" /\ core.state # "HALT"
    /\ \E st \in CoreSteps(core) : st.core # core /\ RestoreStep(st)

\* The registers are compared with those of the file, the memories loaded again
\* and the core resumed: it is not reset.
Restored ==
    /\ phase = "restore" /\ core.state = "HALT" /\ core.cause = "break"
    /\ LET d == Tests[test].file
       IN  IF s.gpr = d.gpr
           THEN /\ s' = LoadState(s, d)
                /\ ss' = LoadState(ss, d)
                /\ core' = [Resumed(core, d.pc) EXCEPT !.cause = None, !.bugs = MaxBugs]
                /\ phase' = "run"
                /\ UNCHANGED bench
           ELSE /\ phase' = "over"
                /\ bench' = [bench EXCEPT !.result = "aborted"]
                /\ UNCHANGED <<s, ss, core>>
    /\ UNCHANGED <<test, host>>

Next == RestoreCycle \/ Restored \/ RunCycle

\* The simulated clock ticks: weak fairness of RunCycle, which can be taken, and
\* changes something, whenever the loop runs.  Only the restore loop needs the
\* core to go on.
Ticks == []<><<phase = "run">>_vars \/ []<>(phase # "run")
Fairness == Ticks /\ WF_vars(Restored) /\ WF_vars(RestoreProgress)
Spec == Init /\ [][Next]_vars /\ Fairness
-----------------------------------------------------------------------------
SameMemory(m, n) == \A a \in DOMAIN m.mem \cup DOMAIN n.mem : Byte(m.mem, a) = Byte(n.mem, a)

Faultless == core.bugs = MaxBugs

\* A program is not portable when it opens a file, asks for the time or reads a
\* counter, for then its two executions differ, and when it makes a call that
\* the host does not know, which ends the process.
Portable(t) == Tests[t].portable

\* The checkpoints whose emitted code runs into a page that the file does not
\* have: loading the file again leaves that code in the core's memory, where
\* the interpreter has zeros.
LeavingCode ==
    {t \in DOMAIN Tests :
        IsCheckpoint(t) /\ LET f == Tests[t].file
                           IN  \E a \in DOMAIN EmitCode(LoadState(Blank, f)).text : Page(a) \notin f.pages}

(* The checker accuses no right core, whatever program it runs: "register does
   not match" and "incorrect" are said of wrong cores (main). *)
NeverAccused ==
    Faultless /\ Portable(test) => bench.result \notin {"incorrect", "no match", "died"}

(* A right core is not accused, whenever it retires and whatever it retires
   together: the interpreter gets the same answers from the host, one call
   later or earlier.  The checkpoints that leave code behind are the exception. *)
NoFalseAlarm == test \notin LeavingCode => NeverAccused

(* Registers differ from those of the interpreter only where the core has
   written since the last instruction on the first port that did not jump. *)
WrongCaught ==
    phase # "restore" /\ bench.result \notin {"incorrect", "no match", "died", "aborted"} =>
        \A r \in Regs : s.gpr[r] = ss.gpr[r] \/ r \in bench.unchecked

(* When a program has come to its break and the caches are flushed, the memory
   of the core is that of the interpreter, the effects of every call included:
   made twice, visible once; code left behind by a restore is the exception. *)
MemoryAgrees ==
    bench.result = "break" /\ Faultless /\ Portable(test) /\ test \notin LeavingCode => SameMemory(s, ss)

(* A program starts where its file says and with the registers it says: behind
   the boot ROM, or behind the code emitted for the checkpoint.  Of that code
   nothing is left in the memory the core starts on, unless it ran into a page
   that the file does not have. *)
StartsExact ==
    LET f == Tests[test].file
    IN  IF IsCheckpoint(test)
        THEN phase = "run" /\ bench.icnt = 0 =>
                /\ core.pc = f.pc /\ core.gpr = f.gpr /\ ss.gpr = f.gpr /\ SameMemory(ss, f)
                /\ test \notin LeavingCode => SameMemory(s, f)
        ELSE phase = "run" /\ bench.icnt = 5 /\ Faultless =>
                core.pc = f.entry /\ core.gpr[A1] = Rom + 32

(* A core that waits for the answer to a monitor call when the watchdog ends
   the run has asked for nothing: no answer gets lost. *)
AnswersArrive ==
    bench.result = "hung" /\ core.state = "HANDLE_MONITOR" /\ ~bench.ack => Read(s.mem, G.fromhost, 4) = 0

(* Every run ends, without the limit on cycles: stalled cores are stopped by
   the watchdog, endless programs by the limit on instructions, and the replies
   that restart the watchdog run out. *)
Ends == <>(phase = "over")
=============================================================================
