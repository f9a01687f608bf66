# A TLA+ model of rv32core

rv32core is a two-wide, out-of-order RV32 processor in SystemVerilog
(`src/*.sv`), simulated with Verilator under a C++ test bench (`src/top.cc`) that
serves its memory, answers its system calls and compares every retired
instruction with a reference interpreter (`src/interpret.cc`).  The modules in
this directory are translated from that source.  `PROJECT.json` names, for each
definition, the lines it stands for.

## 1. Inventory

| Component (source) | State it keeps | Operations | Talks to |
|---|---|---|---|
| Retirement and allocation engine (`core.sv`) | control FSM `r_state`; reorder buffer with completion, store-data and in-flight bits; allocation and retirement alias tables; allocation and retirement free lists, in two banks; branch order buffer; pending fault and cause | rename and allocate up to two uops, complete, retire up to two, drain and restart after a misprediction or an interrupt, serialize, hand a monitor call to the host, take a fault, halt and resume | decode queue (takes), execution cluster (uops out, completion bundles in), data cache (responses in, dead-ROB mask and drain out), fetch unit (restart handshake), caches (flush handshakes), host (resume, monitor) |
| Decode queue (`core.sv` 1939-2110) | four decoded uops, two of them readable | push two, pop two, clear, saved pushes while the engine is not ACTIVE | fetch unit, engine |
| Decoder (`decode_riscv.sv`, `uop.vh`) | none | instruction word to uop | decode queue |
| Fetch unit (`l1i.sv`) | FSM, fetch queue, tag and data arrays, return stack with its speculative and architectural pointers, pattern history table, global history | fetch, predict, miss and reload, restart, flush | engine, decode queue, L2 through the arbiter |
| Port 0 of the integer cluster (`exec.sv`, `mul.sv`, `divider.sv`) | reservation vector of the write port, the issued uop, the multiplier's stages, the divider's FSM | select, issue, multiply, divide, write back, complete | schedulers, engine |
| Integer schedulers (`exec.sv`) | valid bits and age matrix of each | allocate, select the oldest ready, flash clear | uop queues, ports, wakeup |
| Operand wakeup (`exec.sv`) | in-flight bits of the physical registers, ready bits of the entries | set at allocation, cleared at write-back | schedulers, all write ports |
| Memory queues (`exec.sv`) | memory uop queue and scheduler, store-data queue | push two, pop one when ready, address generation | engine, data cache |
| Data cache (`l1d.sv`) | FSM, tags, dirty and valid bits, data; queue of requests that wait for retirement or a retry; graduated bits; counters and in-flight bits per ROB slot | accept a request, answer a load early, retry, perform stores after retirement, miss, write back, flush | memory queues, engine, arbiter |
| L2 cache (`l2.sv`) | FSM, tags, dirty and valid bits, data; latched requests and round-robin grant; which flushes are still missing | hit, clean and dirty miss, initialize, collect the flushes of the first level, flush | arbiter, memory |
| Cache arbiter and flush control (`core_l1d_l1i.sv`) | flush FSM, sticky completion bits | wiring; flush L1D and L1I together, then report | L1D, L1I, L2, engine |
| Divider (`divider.sv`, `shiftregbit.sv`) | remainder, divisor, quotient shift register, index | start, one bit a cycle, sign fix-up | port 0 |
| Multiplier datapath (`mul.sv`) | pipeline registers | the product of two extended words (the `FPGA` branch, which `machine.vh` 9 selects; the array of partial products in the other branch is not compiled) | port 0 |
| Integer datapath (`exec.sv`, adders, shifter, population count) | none | combinational | port 0 and port 2 |
| Reference interpreter (`interpret.cc`) | architectural state: pc, registers, memory, stop flag (`brk`); the host's files and clock | one instruction; one system call | test bench |
| Test bench, main loop (`top.cc`) | memory `s->mem`, pending reply, cycles since the last retirement, the interpreter's copy of the machine | clock, serve memory, compare after each retirement, perform monitor calls, watchdog and limits, restore loop | core (pins), interpreter |
| Test bench, statistics and log (`top.cc`, `pipeline_record.hh`) | counters of the loop, histograms filled through DPI calls of `core.sv` and `l1i.sv`, list of retired instructions | count the outputs of a cycle, record allocation, fetch, retirement, faults and restarts, append, report, archive | core (outputs of the cycle before; calls of the present one) |
| Program loading (`loadelf.cc`) | none | segments, symbols, boot code | test bench |
| Checkpoints (`saveState.cc`) | the file | dump, load, emit code that sets the registers | test bench |
| Trace viewers (`gen_html.cc`, template) | none | the log as a Kanata file and as a table | archive |
| Storage (`ram*.sv`, `rf6r3w.sv`) | arrays | synchronous read, write | their owners |
| Not part of any behaviour of the build | `perfect_l1d.sv` (disabled in `machine.vh`), `fair_sched.sv` (never instantiated), `sparse_mem.hh` and `sim_bitvec.hh` (not used by the build), the disassembler, generators, scripts | | |

### What is hard here

* **Two uops a cycle.**  Allocation and retirement handle pairs, each with
  special cases for a pair that names one register; the two free-list banks
  swap roles every cycle so that the pair never competes.
* **One shared write port with no arbiter.**  ALU, multiplier and divider meet
  at port 0; only a vector of reservations, read one to two cycles early,
  keeps them apart, and what loses is dropped without a trace.
* **Reuse of slots.**  Reorder-buffer slots, physical registers and scheduler
  entries are used again at once.  A bit left by the last occupant is a wrong
  answer for the next.
* **Recovery.**  A misprediction or an interrupt drains the machine while
  reports, store data and killed entries race with the end of the drain; an
  architectural fault goes another way round, without a drain.
* **Waiting.**  Serialization, drain, flush, monitor call and restart are each
  a handshake with a unit that may itself wait for the engine.
* **Reordered memory accesses.**  Loads are answered early, stores wait for
  retirement in the cache's own queue, misses and retries change the order, and
  flushes arrive between all of them.
* **A protocol of pulses.**  A request of a first-level cache to the L2 is a
  pulse of one cycle, the L2 keeps one bit of it, and the address is read later
  from the requester; completions of flushes are pulses too, collected by two
  state machines and a set of sticky bits, which a reset uses in another order
  than a monitor call.
* **Two machines in step.**  The checker follows the core by retirement messages:
  one or two in a cycle, with program counters of which only some are compared,
  and system calls that are made once for the core and once for the interpreter.
* **Two views of time.**  The loop sees the outputs of the cycle before, the DPI
  calls are about the present one, and the report adds numbers from both.

### What makes each component correct

* Engine: no physical register leaks or is shared; the allocation map is the
  retirement map with the buffer applied in order; every recovery returns to
  precisely the committed state; every entry leaves; the FSM comes back.
* Port 0: reservations exact, at most one result a cycle, each reported once
  and on time.
* Schedulers: oldest ready first, whatever the position.
* Datapaths: both ports, the multiplier and the divider compute what the
  interpreter computes.
* Decode queue and fetch unit: after a restart nothing of the old path is
  executed and nothing of the new path is lost.
* Data cache: each accepted request is answered once, a load sees the last
  store before it, only retired stores reach the arrays, a flush leaves memory
  with the architectural contents.
* L2 and arbiter: no line is mixed up with another, the memory is complete when
  somebody outside looks at it, nobody waits for ever.
* Test bench: a right core is not accused, a wrong result is noticed, the
  machines start from the same state and end with the same memory, every run
  ends.
* Statistics: every instruction and every cycle is counted in exactly one place;
  the page made of the log tells what was recorded, the viewer file when.

## 2. Modules

One step of every module is one clock cycle of the blocks it models: registers
are variables, the combinational logic of an `always_comb` block is a set of
operators, and an input that comes from a block outside the module is chosen by
an existential quantifier.  Modules of C++ code are operators on records; a turn
of the simulation loop is a step.

### Core: the engine

`Core.tla` models `core.sv`.  Every state of the control FSM is an action (or a
few, where its branches differ); `ACTIVE` is split by the order of its
`if`/`else` chain into `Interrupt`, `ReachArchFault`, `RetireMispredict`,
`Retire`, `Allocate` and `StartSerialize`.  All of them call the same datapath,
`RobStep`, `RegStep` and `InflightStep`, with the uops allocated and the number
of entries retired in this cycle; they stand for the blocks that compute
`n_alloc_rat`, `n_retire_rat`, `n_prf_free`, `n_retire_prf_free`, `n_rob_*`,
`r_rob_*` and `r_rob_inflight`.

* `NewMap` and `NewEntry` forward the first uop of a pair to the second, and
  `PrfEntry` looks in the bank of the slot, with the swap of `r_bank_sel`.
* `Reports` is what the execution cluster and the data cache may say in a cycle:
  at most two integer completions and one of the cache, mispredictions and
  faults, store data, and, while the machine drains, scheduler entries that are
  thrown away.
* `Offers` is whatever the decode queue may show.
* `Irqs`, `ResumeAfter` and `Uops` choose the inputs of an instance.
* Program counters, opcodes and operands are left out.  The entry of a slot that
  has left the buffer is forgotten; its completion bits are not, because the
  engine reads them without looking at `t_rob_empty` in two states.

`Renaming.tla` is what the engine promises, without slots, free lists or banks:
writes commit in program order, a new write goes to a register that nothing
else is in, and a recovery forgets the pending writes and nothing else.
`Core!Abstract` maps `r_retire_rat` to the committed map and the window between
the pointers of the buffer to the pending instructions.  `MCCore.tla` has the
mixes of uops.

### WritebackPort: port 0

`WritebackPort.tla` has the reservation vector `r_wb_bitvec`, the issued uop, the
stages of `mul.sv`, the FSM of `divider.sv` and the completion bundle.
`PortReservation.tla` is its promise: a uop that starts is reported exactly its
latency later under its own ROB pointer.  `WritebackPort!Abstract` maps the
stages, the divider and the issued uop to the set of uops under way, each with
the cycles it still needs.

### MatrixSched: the schedulers

`MatrixSched.tla` is one scheduler of `exec.sv`: valid bits, age matrix, the
selection by `find_first_set` and the flash clear.  `AgeQueue.tla` is its
promise: a queue served oldest ready first.  `MatrixSched!Abstract` maps the rows
of the valid entries to that queue: an entry's place is the number of bits in its
row.  The second scheduler is the same code.

### Words, Alu, Divider, Datapath: arithmetic

`Words.tla` has words of W bits and the division of C.  `Alu.tla` is what
`interpret.cc` computes for each operator: the reference.  `Divider.tla` is
`divider.sv` with `shiftregbit.sv`, bit for bit, one division after another with
whatever the last one left in the shift register.  `Datapath.tla` extends both
and adds the datapaths of the two integer ports: the carry-save subtracters and
comparators (`Sum`, `LessThan`, `Borrow`), the funnel shifter (`Funnel`), the
choice of each port (`Port0`, `Port2`, `BranchPort0`, `BranchPort2`) and the
multiplier as it is built, a product of operands extended by their signs of which
the operator takes a half (`Wide`, `Product`, `MulY`).  Its operands are those of
the divider, whose FSM goes through all of them.  `ppa32` and
`ppa64` are sums of their inputs, as built.

### L1D and LoadStore: memory operations

`L1D.tla` is `l1d.sv` with the whole of a cycle in one step: port 2, which
decides a new request the cycle after it is accepted (`PushMiss`, `MayBypass`,
`Answer2`); port 1, which holds a retry or a request whose line has come
(`Hit1`, `DirtyMiss`, `MissStarts`); the head of the retry queue (`LoadFires`,
`StoreFires`, `StoreKilled`); the acceptance of the next request (`Accept`,
`NextP2`); and the states of the FSM.  Registers that every state updates in the
same way are in `Paused`, `Arrays`, `Counts`, `Graduates` and `Empties`.  An
address is a set, a tag and a word; the bytes of an access are the words it
covers, with a flag for those that are not aligned.

`LoadStore.tla` composes the cache with what surrounds it: the loads and stores
of the reorder buffer (`win`), from their allocation over exec's queue and the
cache to their answer; the queue of store data; retirement, which the cache
learns of a cycle later (`retired`); the drain of a recovery (`dsDone`, `drain`,
`NoneInFlight`, `memqEmpty`) and its end in `RAT`; the flushes of a reset and
of a monitor call; and the memory, which answers after any time.  `committed`
is a history: the memory that results if each retired store is performed when it
retires.  `After` says what a sequence of stores leaves of the lines: each word has
the value of the last of its `Writers`.  The slots of `win` are taken in any order, more freely than the ring of
`core.sv`, so that a slot can be used again while its store still waits in the
cache.

### Hierarchy: the L2, the flushes and the memory

`Hierarchy.tla` is `l2.sv`, the flush FSM of `core_l1d_l1i.sv`, the states of
`core.sv` that ask for flushes, and the memory service of `top.cc`.  A step is
the rising edge of all of them and the falling edge on which the test bench
answers the memory (`Memory`, after a latency of `Lats` cycles) and the host
writes memory and acknowledges a monitor call (`HostMem`).  `Next` is the
conjunction of one sub-action per block, each with its own variables:

* `L2Step` has a disjunct per state of the FSM.  `arr` are the RAMs and `out`
  their registered output, so that a state that looks a cycle too early sees the
  old row.  `pend` and `Asking` are the request bits, `need` and `FlushFires` the
  collection of the flushes of both clients.
* `DStep` keeps of the data cache which lines it owns, clean or dirty, and with
  what value: it loads and stores, writes a victim back and fetches, and at a
  flush writes all of its dirty lines, in any order.  `L1D` has the rest.
* `IStep` asks for the lines of the program, at any time, and flushes.
* `CoreStep` and `Control` are the flushes of a reset, a monitor call and a
  fault, with the sticky bits of what has completed (`got`).
* `view` is a history: what a reader of the program's memory should see.

### Interpreter, Loader, Checkpoint, TestBench: the simulation

`Interpreter.tla` is `execRiscv` and the system calls: `Step` executes one
instruction on a record of pc, registers, bytes, text and the stop flag `brk`; a machine
may be `dead` (an assertion, an `exit`, a trap).  What a call does to the host
is its effect on file positions and the clock.  `Loader.tla` is `load_elf` with
the boot code; `Checkpoint.tla` dumps and loads states and emits the code that
loads the register values of a checkpoint into a core that has only been reset.

`TestBench.tla` composes them as the `main` of `top.cc` does: `s` is the memory
and the register values that retirement messages have brought, `ss` the machine
of the interpreter.  `RestoreCycle` and `Restored` are the loop that runs the
emitted code, `RunCycle` is a turn of the main loop: `ServeMonitor`, `PortA` and
`PortB` (the checker for each retirement port), `Watchdog`, `Reply`, `Limit`, in
the order of the code.  The core is reduced to what the loop sees: it executes as
the interpreter does, retires one or two at a time, as late as it likes, asks for
lines, flushes, waits in a monitor call, and up to `MaxBugs` times produces a
wrong result.  `LeavingCode` are the checkpoints whose emitted code runs into a page
that the file does not have, where it stays (finding 3).  `MCTestBench.tla` has
the programs and checkpoints.

### PipelineLog, Accounting: statistics and traces

`Accounting.tla` is what the loop counts and what the DPI calls record, over a
core reduced to an instruction queue, a buffer and the recovery from a
misprediction.  `outputs` are the pins of the cycle before, which the loop
counts; `hist` are the histograms, which the calls fill in the present one;
`Report` is the summary at the end.  Either uop of an allocated pair may be folded.
`lost` is a history of what recoveries threw away.  The simulation starts with the
main loop: the cycles of the boot loop of a checkpoint (`top.cc` 491-586), which
the DPI calls count and the loop's own counters do not, are left out, so that
`CountsBalance` is of runs that start from a program.  `PipelineLog.tla` is the
list of records, the Kanata file and the table that `gen_html.cc` makes of a part
of it.  `Tells` is what the table tells of an instruction; of the Kanata file only
the cycles of its events are told by `Dates`, since it does not say which event
is which (section 4).

## 3. Runs

Bounds are CONSTANTs in the configurations; no run uses a constraint.

| Run | Shows | Bounds, and why they are enough |
|---|---|---|
| `core_safety` | `TypeOK`; the allocation map is exactly the retirement map with the buffer applied (`RenameMapExact`); the engine implements `Renaming` (`RenamesPrecisely`); no register leaks or is shared, in either free list (`FreePartition`, `RetirePartition`); nothing executes outside the buffer (`NoOrphan`); a serializing uop is alone (`SerializeAlone`); a pending fault has its uop (`PendingFaultJustified`); a recovery returns to the committed state (`RollbackOnFault`); allocation takes free registers (`AllocateFromFree`) | every kind of uop but the malformed store of section 4, interrupts, resume after a break; 2 architectural registers, one of which can be a destination; 2 slots, whose pointers wrap at 4, so that any slot follows itself quickly and pairs fill the buffer; 6 physical registers, so that no bank can be empty while a serializing uop is allocated (the other case is `core_serial_bank`).  Larger windows are what the theorems of section 5 are for: each of these properties is proved for every size |
| `core_live` | every head leaves (`HeadLeaves`), every handshake state ends (`Resumes`) | 2 slots; stores, branches, serializing and monitor uops |
| `core_serial_bank` | a serializing instruction can be given a register in use (finding 1) | 2 slots, 4 physical registers |
| `writeback_port` | the vector describes exactly what is under way (`ReservationsExact`); one result a cycle (`PortExclusive`); the port implements `PortReservation` (`ReportsOnTime`) | the latencies of `machine.vh`; 6 ROB pointers, one more than can be on the port at once apart from the divider's; symmetric |
| `matrix_sched` | `TotalOrder`, `UniqueOldest`, and the refinement `OldestReadyFirst` | 5 entries, every order of filling and leaving, every set of ready entries |
| `datapath` | both integer ports and the multiplier (`ResultsExact`) and the divider (`DivideExact`) against the interpreter's operators | every pair of 4-bit operands, signed and unsigned, every value left in the shift register by the division before; 4 bits are a power of two, as the shifter needs, and have every combination of signs, the least number, and shifts over the whole width |
| `divider_quotient_by_zero` | a signed division by zero differs from the interpreter (finding 2) | the same |
| `load_store` | a load reads what the program wrote (`LoadsExact`); no store is lost (`NoneForgotten`); arrays, queue and memory add up to the committed memory (`ViewExact`); no fetched line is older than its victim (`VictimFresh`); a drained cache is clean of wrong-path stores (`DrainedClean`); a flush writes all back (`FlushWritesBack`); one memory request at a time, held until its answer (`OneRequest`) | two operations in the reorder buffer, three slots and a retry queue of three, so that retired stores and two younger operations meet; one word that is loaded, stored, evicted by another tag, overwritten from its neighbour, and accessed across a line; a second set; every timing of addresses, data, memory, recoveries and flushes |
| `hierarchy` | `LinesExact`, `HostSeesAll`, `NothingStops`, `NobodyStarves` | two sets of the L2, so that the index of a flush advances; two tags, so that lines evict each other; two banks, so that a store must leave the other half of its row alone; the line of the program that takes the place of one of the data lines makes the two clients compete for a set; monitor calls, faults and resets recur for ever.  The memory takes one cycle: the L2 waits in one state for it however long it takes |
| `testbench` | `NoFalseAlarm`, `WrongCaught`, `MemoryAgrees`, `StartsExact`, `AnswersArrive`, `Ends` | words of 12 bits, bytes of 3, pages of 128 bytes, 4 registers, with the widths of the fields scaled alike; 17 named programs, 3 checkpoints, one of which leaves code behind, and all 169 pairs of 13 instructions, the first of which is executed twice when the second jumps back; one wrong result; the watchdog at 5 cycles |
| `checkpoint_crossing` | a right core is accused after the restore of a checkpoint (finding 3, `NeverAccused`) | the checkpoints of `testbench` |
| `accounting` | `CountsBalance`, `LogDated` | 8 cycles of which each allocates, completes, retires, mispredicts or not; 2 instructions, folded or not, 2 slots; parts of the log that start at 0, 1 or 2 |

Each property of a passing run has a mutant in `PROJECT.json`: a change of one
definition, of the kind a slip in the code would make, that violates it in the
run's own configuration.  The mutated forms stand beside the definitions they
change.

`RenameMapExact`, `FreePartition` and `NoOrphan` are restricted by `NoneLost`:
after an architectural fault other than a break the engine keeps stale
mappings (section 4).  `DivideExact` excludes division by zero, which is finding
2.  `NoFalseAlarm`, `MemoryAgrees` and the memory of the core in `StartsExact`
exclude the checkpoints of `LeavingCode`, which are finding 3.  `NeverAccused` and
`MemoryAgrees` exclude the programs marked not `portable`: those whose two
executions differ by their nature, because they open a file, ask for the time,
read a counter, or make a call that the host does not know and that ends the
process.

`load_store`, `core_live`, `hierarchy` and `core_safety` check deadlock as well.
`testbench` and `accounting` do not: these simulations end.

### Fairness

`Core!FairSpec` assumes that the clock ticks; that a unit that has taken a uop
eventually reports it, and a store's data eventually arrive (`Reported`,
`DataArrives`); and that the other side of each handshake answers
(`Acknowledged`).  The first two are what `writeback_port` and `matrix_sched` show
of the integer side (an issued uop is reported after a fixed number of cycles; the
oldest ready entry is selected).  The third is what `hierarchy` shows of the
flushes, the protocol of the fetch unit, and that of the host, which acknowledges
only when `tohost` is not zero (`top.cc` 631).  No fairness is assumed of what the
program contains: the decode queue may stay empty for ever.

`Hierarchy!Spec` assumes only that the clock ticks, `WF_vars(Next)`: the memory
answers after a number of cycles that is part of the model, and a client may stop
asking for ever.

`TestBench!Fairness` assumes that the simulated clock ticks in the main loop
(`Ticks`).  Nothing is assumed of the core there: the watchdog and the limits must
end the run whatever it does.  The restore loop has no watchdog (`top.cc`), and
`RestoreProgress` assumes that the core retires the emitted code.

## 4. Findings

1. `ALLOC_FOR_SERIALIZE` tests `r_prf_free` as a whole and takes from one bank
   (`core.sv` 988): with an empty bank the uop is given physical register 0
   (`core_serial_bank`).
2. A signed division of a negative number by zero gives 1 (`divider.sv` 170)
   where `interpret.cc` 337 gives -1 (`divider_quotient_by_zero`).
3. `loadState` copies the pages of the file over the memory and leaves the others
   as they are (`saveState.cc` 76).  The code that restored the registers is in
   the memory of the core and not in that of the interpreter; where it runs into a
   page that held only zeros, and is therefore not in the file, it stays, and a
   program that loads from there gets a right core accused
   (`checkpoint_crossing`).

Met while modelling, and stated in the models as the code has them, or excluded
by a named assumption:

* `ARCH_FAULT`, `WRITE_EPC`, `WRITE_CAUSE` and the resume after them neither
  clear the buffer nor restore the map (`core.sv` 1101-1145), where `README.md`
  promises a rollback to the retirement RAT.  The host resumes after a break
  only; `ResumesCleanly` is that assumption.
* A store opcode of undefined width decodes to `II` with `is_mem` set
  (`decode_riscv.sv` 211-237) and is folded without its store data: the head never
  completes and the illegal instruction is never reported.
* The second uop of a cycle is not checked against the branch order buffer
  (`core.sv` 951-958), which can be overrun; its contents are never read.
* The interpreter's remainder by zero is all ones (`interpret.cc` 369, 383), the
  divider's the dividend.  Division of the least number by -1 traps in the
  interpreter.  The core keeps bit 0 of an indirect target.  A halfword load from
  an odd address inside a line is an error for `lhu` and not for `lh`.
* The code that restores registers cannot be emitted for 0x7ffff800 to
  0x7fffffff: the rounding wraps and the assertion of `saveState.cc` 102 fails.
* A checkpoint leaves `tohost_addr` zero, its restore loop answers every memory
  request as a load and has no watchdog, and it cannot notice a register that was
  not written, because the values compared were loaded before.  A second
  `reset_core` resumes without a reset.
* Every system call is made twice, for the core and for the interpreter: opened
  files, times and counters differ.
* The dirty bit of an L2 row is not cleared when it is reloaded: an extra
  write-back, harmless.  The instruction cache fetches on during a monitor call,
  and what it fetches is not invalidated: `HierarchyAssumption` keeps the lines
  of the program apart from what the host writes.
* A flush of the L2 of the design takes 32768 cycles and more, half of the
  watchdog's 65536, which spares a core that flushes but goes on counting.
* Stage lines of the Kanata file lack a tab, so that the id of instruction k reads
  10k (`gen_html.cc` 82), and allocation, completion and retirement are all written
  as "R", the end of an instruction (`gen_html.cc` 85-90).  A viewer therefore
  cannot tell which stage an instruction is in or which of its events is the
  retirement; no document says that it can, so this is no finding, and `LogDated`
  claims no more of the file than the cycles at which an instruction was fetched
  and had some later event.  Both views show one
  record more than asked for, unless they start at 0.  Two events of one
  instruction in one cycle share a cell of the table.  The log is lost when the
  test bench leaves by `exit(-1)`.
* Stalls of the fetch unit are counted during recoveries too, so that what the
  report leaves for the back end can be negative; the mean number of
  instructions in the buffer counts those that have not completed.

## 5. Proofs

The provers check the following for every value of the constants that the
`ASSUME`s allow.

### The engine: `CoreWindow`, `CoreProofs`, `CoreRecovery`

Constants: at least one architectural register, more physical registers than
that, at least two reorder-buffer slots and one branch slot (`SizeAssumption`);
a break or monitor uop has no destination (`InputAssumption`, from
`decode_riscv.sv` 494-507).  No size has to be a power of two or a multiple of
another.

Two hypotheses are of the theorems, not of the model:

* `ResumesCleanly`: the environment resumes the core after a break only.
  Without it the stale mappings of the faults of section 4 stay and the theorems
  are false.
* `[]BankServes`, of some theorems only: whenever a serializing uop that writes a
  register may be allocated, the bank that is selected has a free register.  It is
  a predicate of the state, not of the constants, and it excludes finding 1 and
  nothing else: a theorem of the form `Spec /\ []BankServes => ...` speaks of each
  behavior, that of the processor with its 32 and 64 registers included, up to the
  first state in which a serializing uop finds its bank empty.  Two theorems say
  when that is.  `GapIsNarrow`: only when every register of the selected bank holds
  a committed value, and, with two physical registers to each architectural one as
  in the processor, only when all committed values are in that bank, so that most
  programs never get there.  `BanksServe`: never, if no serializing uop writes a
  register or there are two physical registers more than that (`BanksSuffice`).

| Theorem | Property | Hypotheses |
|---|---|---|
| `TypeCorrect` | `TypeOK`, with `Count <= RobEntries` | `ResumesCleanly` |
| `RenamingIsExact` | `RenameMapExact` | `ResumesCleanly` |
| `SerializingIsAlone` | `SerializeAlone` | `ResumesCleanly` |
| `NothingOrphaned` | `NoOrphan` | `ResumesCleanly` |
| `PendingIsJustified` | `PendingFaultJustified` | `ResumesCleanly` |
| `GapIsNarrow` | | `ResumesCleanly` |
| `RegistersPartitioned` | `FreePartition` | `ResumesCleanly`, `[]BankServes` |
| `CommittedPartitioned` | `RetirePartition` | `ResumesCleanly`, `[]BankServes` |
| `AllocatesFromFree` | `AllocateFromFree` (action property) | `ResumesCleanly`, `[]BankServes` |
| `RollsBack` | `RollbackOnFault` (action property) | `ResumesCleanly`, `[]BankServes` |
| `RenamingRefined` | `RenamesPrecisely` (refinement of `Renaming`) | `ResumesCleanly`, `[]BankServes` |
| `BanksServe` | `BankServes` always | `ResumesCleanly`, `BanksSuffice` |

None of these properties is inductive.  `Core!IInv` joins the types;
`ControlInv`, what each state of the FSM knows of the buffer (an entry at the
head of the fault states, an empty buffer where a serializing uop is awaited, a
single entry where its completion is); and, until an architectural fault
strands a mapping (`NoneLost`), `WindowInv`: what executes is in the buffer and
not complete, the map is exact, and no register has leaked (`NoLeak`).  They need
one another: `ALLOC_FOR_MONITOR` goes on whether or not it allocated, so that a
single entry in `WAIT_FOR_MONITOR` requires a free register, which `NoLeak` gives
by counting, and queues that are not full, which needs that nothing executes
outside the buffer.  `SharingInv` adds `NoSharing`, which is the other half of
the partition.  It is stated from the retirement map and the registers of the
in-flight writers, where a cycle changes it locally; `FreePartition`, as
`n_prf_free` has it, is stated from the allocation map and the superseded
registers.  `CoreRecovery!FaultInv` adds `ReportInv`, what the machine waits for:
outside a drain each entry executes or is complete; a fault is known only of a
complete entry; a serializing uop has the buffer to itself and is complete when
the FSM is back in `ACTIVE`; the halting states have emptied the buffer.
`PendingFaultJustified` needs all of it: the entry whose fault is pending could
retire, or be thrown away by a state that forgets it, only if one of these
failed.

The argument has three layers.

* `CoreWindow`: the ring pointers without `%` (`Pointers`, `Occupancy`); what
  `RobStep` does to the entries between them (`WindowStep`); `MapAfter` as the
  youngest writer, one entry at a time (`MapGrows`) and under a shift of the
  window (`MapMoves`); hence `RenameStep`: a cycle that allocates and retires up
  to two keeps `MapTracksBuffer`.  A commit loses no register and shares none
  (`CommitKeeps`, `CommitExclusive`); hence `NoLeakStep` and `NoSharingStep` for a
  whole cycle; and `PartitionFromWindow`, that the two views of the partition agree.
* `CoreProofs`: every action is one `Cycle` of the datapath or the flash
  `Restart` (`NextKeeps`, from one lemma for each group of actions), so that the
  invariant has to be shown for these two only.
* `CoreRecovery`: the same cycle slot by slot (`SlotStep`, `ReportsComplete`), for
  each group of actions what it leaves to be reported; a buffer that is empty with
  the two invariants is the committed state (`EmptyRollsBack`); and the step
  simulation of `Renaming`: `Pending` as the sequence that a cycle shifts and
  extends (`ShiftedSeq`, `PendingIs`), what retires is what `Renaming` commits
  (`WindowCommits`), what is allocated is in nobody's hands (`StartedFresh`), an
  architectural fault drops the head (`FaultyDrops`) and a restart is `Recover`
  (`RestartRecovers`); `NextRefines` joins them.

### Port 0 and the schedulers

* `WritebackPortProofs`: `TypeCorrect`, `ReservationsAlwaysExact`,
  `PortNeverShared` and the refinement `ReportedOnTime`.  Assumptions:
  `MulLat >= 1` and `DivLat >= MulLat + 2` (the select guard reads bit `MUL_LAT+2`
  of a vector that ends at `DIV32_LAT`), and `None` is no ROB pointer.
  `PortExclusive` is not inductive: it depends on what the reservations say of the
  future.  The inductive invariant `IInv` joins the types, the exactness of the
  reservations, that the two units never hold the same one, and that what was
  selected still fits one cycle later.  Each is preserved by a shift of the vector,
  and `PortExclusive` is bit 0.  For the refinement, `On` says without sets what is
  on the port; it is one uop for each cycle to come (`OneUse`), and a clock brings
  each one cycle nearer (`CycleMoves`), so that what `PortReservation` reports is
  what `complete_bundle_1` takes from three sources by priority.
* `MatrixSchedProofs`: `AlwaysTotalOrder`, `AlwaysUniqueOldest` and the refinement
  `LeavesOldestFirst`.  Assumption: at least one entry.  `IInv` joins the types,
  `RowsFresh` (rows name only other valid entries) and `TotalOrder`.  Without
  `RowsFresh` a reused slot could inherit an old column.  `AlwaysUniqueOldest` needs
  that a non-empty finite set of entries, strictly ordered, has a least one;
  `OldestExists` takes an entry whose row is minimal under inclusion.  For the
  refinement, the sizes of the rows are the places of a queue (`Ranks`, `QueueIs`,
  `QueueUnique`), and what a cycle does to the rows removes one place
  (`RemovedQueue`) and appends one (`AppendedQueue`).

### The L2, the flushes and the memory: `HierarchyProofs`

Assumptions: `HierarchyAssumption` only, for any number of sets, tags and banks,
any latencies of the memory and any lines of the program, its code and the host.
The one that matters is that a monitor call does not write where the program is
fetched (section 4).

| Theorem | Property |
|---|---|
| `NeverStops` | `NothingStops` |
| `ReadsLastStore` | `LinesExact` |
| `FlushesEverything` | `HostSeesAll` |

The three follow from one inductive invariant (`Invariant`); `LinesExact` alone is
not inductive, since a line that is right today is lost tomorrow by a request
that two blocks understand differently.  Its parts are

* `Port`: which state has a request at the memory, and that a line just fetched
  is in its row when the tag is compared again;
* `Handshake`: the five stages of a flush across the core, the flush FSM, both first
  level caches and the L2 (`Reset`, `Rests`, `Asked`, `FirstLevel`, `SecondLevel`),
  each with what every one of the five has or has not yet said.  A reset takes
  another way through them than a monitor call, and the sticky bits may be early;
* `Requests`: a client that waits is pending, being served or answered, and only
  one of these; what is being served is its line; a store is answered before it is
  written, so that the line it carries is in `l2.cur` alone;
* `RowsHeld`: what each state knows of the row that it read a cycle ago, and of the
  request that it made from it; `RowsExact`: clean rows, and the victim under way,
  are what the memory holds;
* `Flushed`: what the walk over the sets has passed stays empty or clean until
  the host has seen it;
* `Exact`: the value of a line below the data cache (`Below`: in a store that has
  been answered, else in its row, else on its way to the memory, else in the
  memory) is what was last stored, unless the data cache has it dirty.

`Next` is the conjunction of six blocks, so the lemmas are one for each part and
each of the L2's transitions, with the blocks that the part does not read left
unexpanded.

### The data cache: `LoadStoreProofs`, `LoadStoreData`

Assumptions: `L1DAssumption` (at least one set, a retry queue of at least two
entries), `WindowAssumption` and, for the data, `OpsAssumption` (an aligned access
is to one word, one across the end of a line is not sent as a store), for any
program, any slots and any timing of the memory, of addresses and of store data.

| Theorem | Property |
|---|---|
| `RequestsKept` | `NoneForgotten` |
| `VictimIsFresh` | `VictimFresh` |
| `DrainLeavesNothing` | `DrainedClean` |
| `AsksOnce` | `OneRequest` (action property) |
| `QueueNeverFull` | `QueueFits`: no request is pushed to a full retry queue, the `$stop` of `l1d.sv` 1405 |
| `CounterNeverWraps` | `CounterFits`: `r_n_inflight`, one bit wider than an index of the queue, does not wrap |
| `NothingLost` | `ViewExact` |
| `FlushLeavesNothing` | `FlushWritesBack` |
| `LoadsReadTheProgram` | `LoadsExact` |

`QueueFits` and `CounterFits` are stated beside their theorems and no run checks them: the instance of
`load_store` has too few slots to fill its queue.

The first six follow from one inductive invariant (`Invariant`), whose parts are

* `WindowInv`: the operations of the reorder buffer have a slot each; the buffer is
  empty while a flush is waited for, and holds nothing that the cache or exec's queue
  knows of when it is cleared;
* `SlotsInv`, `MarksInv`: a slot has one request in the cache, and `r_rob_inflight`
  and `r_graduated` are exactly what the queue and port 1 hold.  A store stays
  there after it has retired, so neither can be stated from the buffer;
* `HeldInv`: what the buffer has sent is what the cache holds, and it is
  counted.  It is `NoneForgotten` without its exception for `RAT`;
* `StateInv`: what each state knows of port 1 and of the memory.  A request is in
  port 1 with what the arrays hold now; behind a write-back (`r_lock_cache`) its set is
  invalid, so that the second decision is a plain miss; and nothing is in port 2
  beside a load in port 1, whose answers would be one too many for
  `core_mem_rsp`;
* `FlushInv`, `DrainInv`, `RoomInv`: the two handshakes, each from both sides, and
  the entry kept for the request in port 2.

The cache and the core step together, so the step is cut at what one may rely on
of the other: `Fits`, which the core's inputs have (`InputsFit`), and `Good`,
which every state of the FSM establishes from it (`CacheGood`, from `IdleStep`,
`ActiveStep`, `InjectReloadStep` and `HandleReloadStep`); `SentStep`, what the
window makes of an answer (`CoreWindowStep`, from `UpdatedIs`, entry by entry);
`HeldKept` joins the two.  `ActiveFacts` says which of the things that a cycle of
the active cache may do exclude each other, `QueueStep` what the queue's sets of
slots become.

The last three are about words, in `LoadStoreData`.  `ViewExact` alone is not
inductive: that a store is performed with the data of the head of `r_mdq`, that no
older load is left when it is, and that nothing of a wrong path is among what has
retired, are facts about the order of three queues.  `DInv` (`DataInvariant`) says,
for the number g of the requests at the head of the retry queue that are stores
already retired (`OrderInv`),

* `QueueOrder`: these g are no longer in the reorder buffer; the others are
  operations of it, in its order;
* `WindowOrder`, `DataOrder`: the buffer's operations are sent in their order, and
  `r_mdq` holds the data of the g stores and then that of the buffer, in that order;
* `StoresHeld`, `MarkedInv`: only a recovery drops a store that has been sent, and
  `r_graduated` marks the g stores, a cycle after they retire;
* `Port1Inv`, `Port2Inv`: a load that waits in port 1 is older than all that is
  queued; a load that port 2 may answer from the arrays reads a line that is
  still there, with no store to these words in port 1 or in the queue;
* `committed = After(Written, mq, 1 .. g)`: cache and memory, with the store in port
  1 and then the g stores performed, are what the program has committed;

and, without g, `CacheData` and `CoreData`, the types; `MemInv`, that a clean line is
that of the memory and what a request to the memory carries; `WalkInv`, which sets
an initialisation or a flush has emptied; `RecoveryInv`, the order in which a
recovery forgets retired slots, drains and restarts.

The argument follows the words and the queues apart.  `After` is given word by
word, so that what it does under a step of the queue needs no induction
(`WordAfter`, `AfterMore`, `AfterShifted`, `SameLines`).  `CacheKeepsLines`, from a lemma
for each state of the FSM, says that a step of the cache changes the lines that
arrays and memory show by the one store of port 1 or not at all; `LinesTaken`
joins it with the head of the queue.  Three kinds of step move the queues, and each has
its lemmas: the cache takes requests and data (`CacheAdvances`, `TakenOrdered`,
from `QueueAdvances`, `DataAdvances`, `StoresAdvance` and `FirstAdvances`); stores
and loads retire and new ones are allocated, which moves g (`RetireSome`,
`FlowSettles`, `MarkedNext`); the end of a recovery empties the buffer, when nothing of
it is left in the cache (`RatSettles`).  `BypassSound` is the answer of port 2 while the
next request is accepted behind it.  `LoadsExact` follows for a load in port 1 and
for a line that has just come, which is the oldest there is (`OldestLoad`); for
port 2, where the stores before it are retired or in other words (`BypassReads`);
and for an access across the end of a line, which reads nothing (`AnswerIs`).

### Only model-checked

* Liveness, which with ENABLED is out of the provers' reach: `HeadLeaves`,
  `Resumes`, `NobodyStarves`, `AnswersArrive`, `Ends`.
* The accounting, `CountsBalance` and `LogDated`: its counts are folds over
  histograms and its log a sequence of any length, so that the proof would be by
  induction over data.
* The datapaths and the divider, `ResultsExact` and `DivideExact`:
  what they compute for every W is a claim about folds and iterations, whose proof
  is by induction over data.
* The interpreter and the test bench, `NoFalseAlarm`, `WrongCaught`, `MemoryAgrees`
  and `StartsExact`, which use the bitwise operators.

## 6. Not modelled, and why

* The insides of the fetch unit, its predictors, the decode queue and the operand
  wakeup: see the plan.
* The flush of an architectural fault while loads behind it are in the data
  cache.  `core.sv` 1101-1104 asks for it without a drain, and `l1d.sv` 1264 looks
  at stores in port 1 but not at a load that misses there in the same cycle: its
  fetch and the first write-back of the flush then share `r_mem_req_addr`.
  `LoadStore` asks for flushes with an empty reorder buffer, and in `Hierarchy` the
  flush begins between two requests of the data cache.
* `WAIT_INJECT_RELOAD`, which `VictimFresh` shows cannot be entered, and
  `FLUSH_CL`, which the core never asks for.
* The limits of the memory queues of `exec.sv`.
* Of the test bench: the command line, the terminal, the counters per program
  counter; and `record_restart` against `record_faults`, which are called by two
  blocks of one cycle in an order the language leaves open.  The statistics of the
  boot loop of a checkpoint (`top.cc` 491-586).
* The code that is not compiled because `machine.vh` 9 defines `FPGA`: the array of
  partial products of `mul.sv` 89-211, the prefix trees of `ppa32.sv` and
  `ppa64.sv` (both adders are a `+`), the staged shift of `shift_right.sv`.
* `perfect_l1d.sv` and `fair_sched.sv` are in no build of the core, `sparse_mem.hh`
  and `sim_bitvec.hh` are not used by the simulator.  `osx_elf.h` has the constants
  of a file format; `helper.cc` and the disassembler format text; the generators
  and scripts are tools of the build.

## 7. Plan

1. `Fetch`: `l1i.sv` with the fetch queue, the decode queue of `core.sv`
   1939-2110 and the restart handshake, instructions tagged with the path that
   they belong to.  Abstract specification: the stream of the current path, in
   order, with no gap and nothing of an older path.  Then the return stack
   and the global history, whose speculative copies are repaired from the
   retired ones.
2. `Wakeup`: in-flight bits, ready bits and forwarding of the three write ports; no
   uop issues before its operands and none waits for ever.
3. The flush of an architectural fault in `LoadStore`, with the L2's one pending
   bit.
4. `Decode`: the classes of `decode_riscv.sv` as functions of the opcode fields,
   against what `Interpreter` does with them.
