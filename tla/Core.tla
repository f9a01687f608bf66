--------------------------------- MODULE Core ---------------------------------
(***************************************************************************)
(* The retirement and allocation engine of core.sv: the control FSM, the   *)
(* reorder buffer, the two register alias tables, the two free lists and   *)
(* the branch order buffer's pointers.                                     *)
(*                                                                         *)
(* One step is one clock cycle.  What surrounds the engine is an input:    *)
(* the uops that the decode queue offers, the reports of the execution     *)
(* units and of the data cache, the acknowledgements of the fetch unit and *)
(* of the cache flushes.  Operand data, program counters and opcodes are   *)
(* left out but for what the engine tests.                                 *)
(***************************************************************************)
EXTENDS Integers, FiniteSets, Sequences

CONSTANTS
    NumLregs,     \* 32 architectural registers; register 0 is no destination
    NumPregs,     \* N_PRF_ENTRIES, of which even and odd ones form two banks
    RobEntries,   \* N_ROB_ENTRIES
    BobEntries,   \* N_BOB_ENTRIES
    Uops,         \* what decode can offer: records [op, dst]
    Irqs,         \* whether extern_irq is ever raised
    ResumeAfter   \* the faults after which the environment raises resume

Lregs == 0 .. NumLregs - 1
Pregs == 0 .. NumPregs - 1
Slots == 0 .. RobEntries - 1
Ptrs == 0 .. 2 * RobEntries - 1
BobPtrs == 0 .. 2 * BobEntries - 1

Ops == {"alu", "load", "store", "br", "call", "ret", "nop", "j", "ii",
        "iist", "ser", "brk", "mon"}
Causes == {"none", "brk", "ii", "badva"}

ASSUME SizeAssumption ==
    /\ NumLregs \in Nat \ {0}
    /\ NumPregs \in Nat /\ NumPregs > NumLregs
    /\ RobEntries \in Nat /\ RobEntries >= 2
    /\ BobEntries \in Nat \ {0}
ASSUME InputAssumption ==
    /\ Uops \subseteq [op : Ops, dst : Lregs]
    /\ \A u \in Uops : u.op \in {"brk", "mon"} => u.dst = 0
    /\ Irqs \in BOOLEAN
    /\ ResumeAfter \subseteq Causes \ {"none"}

VARIABLES
    state,         \* r_state
    head, tail,    \* r_rob_head_ptr, r_rob_tail_ptr
    rob,           \* r_rob
    complete,      \* r_rob_complete, as a set of slots
    sdComplete,    \* r_rob_sd_complete, as a set of slots
    inflight,      \* r_rob_inflight, as a set of slots
    arat, rrat,    \* r_alloc_rat, r_retire_rat
    free, rfree,   \* r_prf_free, r_retire_prf_free
    bankSel,       \* r_bank_sel
    bobHead, bobTail,
    pendingFault,  \* r_pending_fault
    dsDone,        \* r_ds_done
    serial,        \* the serializing uop at the head of the decode queue
    cause          \* r_pending_break/ii/badva, then r_got_break/ud/bad_addr

robVars == <<head, tail, rob, complete, sdComplete, bobHead, bobTail>>
regVars == <<arat, rrat, free, rfree, bankSel>>
ctlVars == <<state, pendingFault, dsDone, serial, cause>>
vars == <<robVars, regVars, ctlVars, inflight>>

States == {"FLUSH_FOR_HALT", "HALT", "HALT_WAIT_FOR_RESTART", "ACTIVE",
           "DRAIN", "RAT", "ALLOC_FOR_SERIALIZE",
           "WAIT_FOR_SERIALIZE_AND_RESTART", "MONITOR_FLUSH_CACHE",
           "HANDLE_MONITOR", "ALLOC_FOR_MONITOR", "WAIT_FOR_MONITOR",
           "ARCH_FAULT", "WRITE_EPC", "WRITE_CAUSE"}

NoUop == [op |-> "nop", dst |-> 0]
Entries == [uop : Uops \cup {NoUop}, pdst : Pregs, old : Pregs, faulted : BOOLEAN]
NoEntry == [uop |-> NoUop, pdst |-> 0, old |-> 0, faulted |-> FALSE]
-----------------------------------------------------------------------------
\* What the engine asks of a uop (uop.vh, decode_riscv.sv).
Writes(u) == u.dst # 0
IsBr(u) == u.op \in {"br", "call", "ret", "j"}
IsMem(u) == u.op \in {"load", "store"}
Serializing(u) == u.op \in {"ser", "brk", "mon"}
\* "iist" is a store opcode with an undefined width: op is II but is_mem stays.
IsIllegal(u) == u.op \in {"ii", "iist"}
NeedsData(u) == u.op \in {"store", "iist"}
\* A counter read into register 0 decodes to a serializing NOP.
Fold(u) == u.op \in {"nop", "j"} \/ IsIllegal(u) \/ (u.op = "ser" /\ u.dst = 0)
MayFault(u) == IsMem(u) \/ u.op \in {"br", "call", "ret", "brk"}

Slot(ptr) == ptr % RobEntries
Plus(ptr, n) == (ptr + n) % (2 * RobEntries)
Count == (tail - head) % (2 * RobEntries)
Empty == head = tail
NextEmpty == Plus(head, 1) = tail
Full == Slot(head) = Slot(tail) /\ head # tail
NextFull_Stale == Full
NextFull == Slot(head) = Slot(Plus(tail, 1)) /\ head # Plus(tail, 1)
RobSlots == {Slot(Plus(head, i)) : i \in 0 .. Count - 1}

BobPlus(ptr, n) == (ptr + n) % (2 * BobEntries)
BobFull == bobHead % BobEntries = bobTail % BobEntries /\ bobHead # bobTail

RobHead == rob[Slot(head)]
RobNextHead == rob[Slot(Plus(head, 1))]
HeadComplete == Slot(head) \in complete \cap sdComplete
NextHeadComplete == Slot(Plus(head, 1)) \in complete \cap sdComplete
ArchFault == RobHead.faulted /\ (IsMem(RobHead.uop) \/ RobHead.uop.op = "brk" \/ IsIllegal(RobHead.uop))

\* The two banks swap roles every cycle, so that each uop sees both.
Bank(n) == {p \in Pregs : p % 2 = IF bankSel THEN n - 1 ELSE 2 - n}
\* find_first_set: the highest free register of the bank, or 0 when it has none.
PrfEntry(n) ==
    LET s == free \cap Bank(n)
    IN  IF s = {} THEN 0 ELSE CHOOSE p \in s : \A q \in s : q <= p
Enough_AnyBank(u, n) == Writes(u) => free # {}
Enough(u, n) == Writes(u) => free \cap Bank(n) # {}
-----------------------------------------------------------------------------
(***************************************************************************)
(* The datapath.  "al" is the sequence of uops allocated in this cycle,    *)
(* "ret" the number of entries retired, and "x" what execution reports.    *)
(***************************************************************************)

NewMap_FirstWins(al) ==
    [l \in Lregs |->
        IF Len(al) >= 1 /\ l # 0 /\ al[1].dst = l THEN PrfEntry(1)
        ELSE IF Len(al) = 2 /\ l # 0 /\ al[2].dst = l THEN PrfEntry(2)
        ELSE arat[l]]
\* uop 2 sees the mapping that uop 1 makes in the same cycle.
NewMap(al) ==
    [l \in Lregs |->
        IF Len(al) = 2 /\ l # 0 /\ al[2].dst = l THEN PrfEntry(2)
        ELSE IF Len(al) >= 1 /\ l # 0 /\ al[1].dst = l THEN PrfEntry(1)
        ELSE arat[l]]

NewEntry_NoForward(al, n) ==
    LET u == al[n]
    IN  [uop |-> u,
         pdst |-> IF Writes(u) THEN PrfEntry(n) ELSE 0,
         old |-> IF Writes(u) THEN arat[u.dst] ELSE 0,
         faulted |-> IsIllegal(u)]
\* t_rob_tail and t_rob_next_tail.
NewEntry(al, n) ==
    LET u == al[n]
        sameDst == n = 2 /\ al[1].dst = u.dst
    IN  [uop |-> u,
         pdst |-> IF Writes(u) THEN PrfEntry(n) ELSE 0,
         old |-> IF ~Writes(u) THEN 0
                 ELSE IF sameDst THEN PrfEntry(1) ELSE arat[u.dst],
         faulted |-> IsIllegal(u)]

NewSlots(al) == {Slot(Plus(tail, n - 1)) : n \in DOMAIN al}
Gone(ret) == {Slot(Plus(head, i)) : i \in 0 .. ret - 1}

\* At most one branch retires in a cycle.
BobRetired(ret) ==
    IF \/ ret >= 1 /\ IsBr(RobHead.uop)
       \/ ret = 2 /\ IsBr(RobNextHead.uop) THEN 1 ELSE 0

\* An entry that has left the buffer is forgotten; the engine does not read
\* it again.  Its completion bits stay, as in the code.
RobStep(al, ret, x) ==
    /\ rob' = [s \in Slots |->
                 IF s \in NewSlots(al)
                 THEN NewEntry(al, IF s = Slot(tail) THEN 1 ELSE 2)
                 ELSE IF s \in Gone(ret) THEN NoEntry
                 ELSE [rob[s] EXCEPT !.faulted =
                         IF s \in x.done /\ s \in RobSlots THEN s \in x.faulted ELSE @]]
    /\ complete' = (complete \ {s \in NewSlots(al) : ~Fold(rob'[s].uop)})
                     \cup {s \in NewSlots(al) : Fold(rob'[s].uop)} \cup x.done
    /\ sdComplete' = (sdComplete \cup x.sd \cup NewSlots(al))
                       \ {s \in NewSlots(al) : NeedsData(rob'[s].uop)}
    /\ tail' = Plus(tail, Len(al))
    /\ head' = Plus(head, ret)
    /\ bobTail' = BobPlus(bobTail, IF \E n \in DOMAIN al : IsBr(al[n]) THEN 1 ELSE 0)
    /\ bobHead' = BobPlus(bobHead, BobRetired(ret))

\* t_clr_rob
ClearRob ==
    /\ rob' = [s \in Slots |-> NoEntry]
    /\ complete' = {} /\ sdComplete' = {}
    /\ head' = 0 /\ tail' = 0
    /\ bobHead' = 0 /\ bobTail' = 0

Retirees_Swapped(ret) ==
    [n \in 1 .. ret |-> IF n = ret THEN RobHead ELSE RobNextHead]
\* The entries that t_retire retires, oldest first.
Retirees(ret) == [n \in 1 .. ret |-> IF n = 1 THEN RobHead ELSE RobNextHead]

\* A retiring entry commits its mapping and frees the register it superseded.
CommitMap(e, m) == IF Writes(e.uop) THEN [m EXCEPT ![e.uop.dst] = e.pdst] ELSE m
CommitFree(e, f) == IF Writes(e.uop) THEN (f \ {e.pdst}) \cup {e.old} ELSE f

\* Only what t_retire retires commits; a head that is bumped without it does not.
RegStep(al, ret) ==
    LET r == Retirees(ret)
        news == {PrfEntry(n) : n \in {m \in DOMAIN al : Writes(al[m])}}
        freed == {r[n].old : n \in {m \in DOMAIN r : Writes(r[m].uop)}}
    IN  /\ arat' = NewMap(al)
        /\ free' = (free \ news) \cup freed
        /\ rrat' = IF ret = 0 THEN rrat
                   ELSE IF ret = 1 THEN CommitMap(r[1], rrat)
                   ELSE CommitMap(r[2], CommitMap(r[1], rrat))
        /\ rfree' = IF ret = 0 THEN rfree
                    ELSE IF ret = 1 THEN CommitFree(r[1], rfree)
                    ELSE CommitFree(r[2], CommitFree(r[1], rfree))

RatCopy_KeepFree ==
    /\ arat' = rrat
    /\ UNCHANGED <<free, rrat, rfree>>
RatCopy_KeepMap ==
    /\ free' = rfree
    /\ UNCHANGED <<arat, rrat, rfree>>
\* t_rat_copy
RatCopy ==
    /\ arat' = rrat
    /\ free' = rfree
    /\ UNCHANGED <<rrat, rfree>>

InflightStep_FirstOnly(al, x) ==
    inflight' =
        IF dsDone THEN inflight \ (x.done \cup x.killed)
        ELSE (inflight \ x.done) \cup {Slot(tail) : n \in {m \in DOMAIN al : m = 1 /\ ~Fold(al[m])}}
\* While the machine drains, what waits in the schedulers is thrown away
\* (uq_wait, mq_wait) and nothing new is marked.
InflightStep(al, x) ==
    inflight' =
        IF dsDone THEN inflight \ (x.done \cup x.killed)
        ELSE (inflight \ x.done)
               \cup {Slot(Plus(tail, n - 1)) : n \in {m \in DOMAIN al : ~Fold(al[m])}}

\* n_pending_fault: the integer ports report mispredictions and breaks.
PendingAfter(x) ==
    pendingFault \/ \E s \in x.faulted : ~IsMem(rob[s].uop)

Datapath(al, ret, x) ==
    /\ RobStep(al, ret, x)
    /\ RegStep(al, ret)
    /\ InflightStep(al, x)
    /\ bankSel' = ~bankSel

\* A cycle of a state that leaves pointers and maps alone.
Quiet(x) ==
    /\ Datapath(<<>>, 0, x)
    /\ pendingFault' = PendingAfter(x)
-----------------------------------------------------------------------------
(***************************************************************************)
(* Inputs of a cycle.                                                      *)
(***************************************************************************)

\* complete_valid_1, complete_valid_2 and core_mem_rsp_valid: two integer
\* completions and one of the cache; store data come one at a time.
Completions ==
    {d \in SUBSET inflight :
        /\ Cardinality({s \in d : IsMem(rob[s].uop)}) <= 1
        /\ Cardinality({s \in d : ~IsMem(rob[s].uop)}) <= 2}

AwaitData == {s \in RobSlots : rob[s].uop.op = "store" /\ s \notin sdComplete}

Reports ==
    UNION {[done : {d},
            faulted : {f \in SUBSET {s \in d : MayFault(rob[s].uop)} :
                         \A s \in d : rob[s].uop.op = "brk" => s \in f},
            sd : {{}} \cup {{s} : s \in AwaitData},
            killed : IF dsDone THEN SUBSET (inflight \ d) ELSE {{}}] :
             d \in Completions}

\* t_uop and t_uop2, as far as the decode queue is not empty.
Offers == {<<>>} \cup {<<u>> : u \in Uops} \cup (Uops \X Uops)

\* t_uq_full: some queue of the execution units is full.
MayBeFull == inflight \cup AwaitData # {}
-----------------------------------------------------------------------------
Init ==
    /\ state = "FLUSH_FOR_HALT"
    /\ head = 0 /\ tail = 0
    /\ rob = [s \in Slots |-> NoEntry]
    /\ complete = {} /\ sdComplete = {} /\ inflight = {}
    /\ arat = [l \in Lregs |-> l] /\ rrat = [l \in Lregs |-> l]
    /\ free = {p \in Pregs : p >= NumLregs}
    /\ rfree = {p \in Pregs : p >= NumLregs}
    /\ bankSel = FALSE
    /\ bobHead = 0 /\ bobTail = 0
    /\ pendingFault = FALSE /\ dsDone = FALSE
    /\ serial = NoUop /\ cause = "none"

CanRetireHead == HeadComplete /\ ~Empty

CanAlloc(dq, uqFull) ==
    /\ dq # <<>> /\ ~Serializing(dq[1])
    /\ ~Full /\ ~uqFull
    /\ Enough(dq[1], 1)
    /\ IsBr(dq[1]) => ~BobFull

CanAllocTwo(dq, uqNextFull) ==
    /\ Len(dq) = 2 /\ ~IsBr(dq[1]) /\ ~Serializing(dq[2])
    /\ ~NextFull /\ ~uqNextFull
    /\ Enough(dq[2], 2)

Allocs(dq, uqFull, uqNextFull) ==
    IF ~CanAlloc(dq, uqFull) THEN <<>>
    ELSE IF CanAllocTwo(dq, uqNextFull) THEN dq
    ELSE <<dq[1]>>

\* What can be allocated in this cycle, over everything decode may offer.
AllocChoices ==
    {Allocs(dq, uqFull, uqNextFull) :
        dq \in Offers, uqFull \in {b \in BOOLEAN : b => MayBeFull},
        uqNextFull \in BOOLEAN}

\* At most one branch retires in a cycle, and calls and returns retire first.
CanRetireTwo ==
    /\ ~NextEmpty /\ NextHeadComplete
    /\ ~RobHead.faulted /\ ~RobNextHead.faulted
    /\ ~IsBr(RobHead.uop)
    /\ RobNextHead.uop.op \notin {"ret", "call"}

\* r_extern_irq: everything in the buffer is replayed.
Interrupt(x) ==
    /\ Irqs /\ state = "ACTIVE" /\ ~Empty
    /\ Quiet(x)
    /\ state' = "DRAIN" /\ dsDone' = TRUE
    /\ UNCHANGED <<serial, cause>>

ReachArchFault(x) ==
    /\ state = "ACTIVE" /\ CanRetireHead /\ RobHead.faulted /\ ArchFault
    /\ Quiet(x)
    /\ state' = "ARCH_FAULT"
    /\ UNCHANGED <<dsDone, serial, cause>>

RetireMispredict(x) ==
    /\ state = "ACTIVE" /\ CanRetireHead /\ RobHead.faulted /\ ~ArchFault
    /\ Datapath(<<>>, 1, x)
    /\ pendingFault' = PendingAfter(x)
    /\ state' = "DRAIN" /\ dsDone' = TRUE
    /\ UNCHANGED <<serial, cause>>

\* Unlike the next action this one allocates nothing under a pending fault.
Retire(x, al) ==
    /\ state = "ACTIVE" /\ CanRetireHead /\ ~RobHead.faulted
    /\ pendingFault => al = <<>>
    /\ Datapath(al, IF CanRetireTwo THEN 2 ELSE 1, x)
    /\ pendingFault' = PendingAfter(x)
    /\ UNCHANGED <<state, dsDone, serial, cause>>

Allocate(x, al) ==
    /\ state = "ACTIVE" /\ ~CanRetireHead
    /\ Datapath(al, 0, x)
    /\ pendingFault' = PendingAfter(x)
    /\ UNCHANGED <<state, dsDone, serial, cause>>

StartSerialize_AnyTime(x, u) ==
    /\ state = "ACTIVE" /\ Serializing(u) /\ ~CanRetireHead
    /\ Quiet(x)
    /\ state' = IF u.op = "mon" THEN "MONITOR_FLUSH_CACHE" ELSE "ALLOC_FOR_SERIALIZE"
    /\ serial' = u
    /\ UNCHANGED <<dsDone, cause>>
\* A serializing uop waits at the head of the decode queue for an empty buffer.
StartSerialize(x, u) ==
    /\ state = "ACTIVE" /\ Serializing(u) /\ Empty
    /\ Quiet(x)
    /\ state' = IF u.op = "mon" THEN "MONITOR_FLUSH_CACHE" ELSE "ALLOC_FOR_SERIALIZE"
    /\ serial' = u
    /\ UNCHANGED <<dsDone, cause>>

\* quiet: memq_empty and t_divide_ready, which can lag the last report.
Drained_AtOnce(x, quiet) ==
    /\ state = "DRAIN"
    /\ Quiet(x)
    /\ state' = IF quiet THEN "RAT" ELSE state
    /\ UNCHANGED <<dsDone, serial, cause>>
Drained_WhenEmpty(x, quiet) ==
    /\ state = "DRAIN"
    /\ Quiet(x)
    /\ state' = IF quiet /\ inflight = {} /\ Empty THEN "RAT" ELSE state
    /\ UNCHANGED <<dsDone, serial, cause>>
Drained(x, quiet) ==
    /\ state = "DRAIN"
    /\ Quiet(x)
    /\ state' = IF quiet /\ inflight = {} THEN "RAT" ELSE state
    /\ UNCHANGED <<dsDone, serial, cause>>

Rat_KeepPending(x, ack) ==
    /\ state = "RAT"
    /\ ClearRob /\ RatCopy
    /\ InflightStep(<<>>, x)
    /\ bankSel' = ~bankSel
    /\ pendingFault' = PendingAfter(x)
    /\ IF ack THEN state' = "ACTIVE" /\ dsDone' = FALSE
              ELSE UNCHANGED <<state, dsDone>>
    /\ UNCHANGED <<serial, cause>>
\* The flash restart; ack is n_got_restart_ack.
Rat(x, ack) ==
    /\ state = "RAT"
    /\ ClearRob /\ RatCopy
    /\ InflightStep(<<>>, x)
    /\ bankSel' = ~bankSel
    /\ IF ack
       THEN state' = "ACTIVE" /\ dsDone' = FALSE /\ pendingFault' = FALSE
       ELSE pendingFault' = PendingAfter(x) /\ UNCHANGED <<state, dsDone>>
    /\ UNCHANGED <<serial, cause>>

\* r_prf_free # 0 looks at both banks, PrfEntry(1) at the selected one.
MaySerialAlloc(uqFull) == ~Full /\ ~uqFull /\ free # {}

AllocForSerialize(x, uqFull) ==
    /\ state = "ALLOC_FOR_SERIALIZE"
    /\ IF MaySerialAlloc(uqFull)
       THEN /\ Datapath(<<serial>>, 0, x)
            /\ state' = "WAIT_FOR_SERIALIZE_AND_RESTART"
            /\ serial' = NoUop
       ELSE Datapath(<<>>, 0, x) /\ UNCHANGED <<state, serial>>
    /\ pendingFault' = PendingAfter(x)
    /\ UNCHANGED <<dsDone, cause>>

WaitForSerialize(x, ack) ==
    /\ state = "WAIT_FOR_SERIALIZE_AND_RESTART"
    /\ Datapath(<<>>, 0, x)
    /\ pendingFault' = (PendingAfter(x) /\ ~HeadComplete)
    /\ state' = IF HeadComplete /\ ack THEN "ACTIVE" ELSE state
    /\ UNCHANGED <<dsDone, serial, cause>>

\* The data caches are written back, then the host acknowledges.
MonitorFlush(x, flushed) ==
    /\ state = "MONITOR_FLUSH_CACHE"
    /\ Quiet(x)
    /\ state' = IF flushed THEN "HANDLE_MONITOR" ELSE state
    /\ UNCHANGED <<dsDone, serial, cause>>

HandleMonitor(x, ack) ==
    /\ state = "HANDLE_MONITOR"
    /\ Quiet(x)
    /\ state' = IF ack THEN "ALLOC_FOR_MONITOR" ELSE state
    /\ UNCHANGED <<dsDone, serial, cause>>

\* Goes on whether or not the uop was allocated.
AllocForMonitor(x, uqFull) ==
    /\ state = "ALLOC_FOR_MONITOR"
    /\ Datapath(IF MaySerialAlloc(uqFull) THEN <<serial>> ELSE <<>>, 0, x)
    /\ state' = "WAIT_FOR_MONITOR"
    /\ serial' = NoUop
    /\ pendingFault' = PendingAfter(x)
    /\ UNCHANGED <<dsDone, cause>>

WaitForMonitor(x, ack) ==
    /\ state = "WAIT_FOR_MONITOR"
    /\ Datapath(<<>>, IF HeadComplete /\ ack THEN 1 ELSE 0, x)
    /\ pendingFault' = (PendingAfter(x) /\ ~HeadComplete)
    /\ state' = IF HeadComplete /\ ack THEN "ACTIVE" ELSE state
    /\ UNCHANGED <<dsDone, serial, cause>>

FlushForHalt(x, flushed) ==
    /\ state = "FLUSH_FOR_HALT"
    /\ Quiet(x)
    /\ IF flushed THEN state' = "HALT" /\ dsDone' = FALSE
                  ELSE UNCHANGED <<state, dsDone>>
    /\ UNCHANGED <<serial, cause>>

\* After reset the environment resumes the core; after a fault, it may.
Halted(x, resume) ==
    /\ state = "HALT"
    /\ resume => cause \in ResumeAfter \cup {"none"}
    /\ Quiet(x)
    /\ state' = IF resume THEN "HALT_WAIT_FOR_RESTART" ELSE state
    /\ cause' = IF resume THEN "none" ELSE cause
    /\ UNCHANGED <<dsDone, serial>>

HaltWaitForRestart(x, ack) ==
    /\ state = "HALT_WAIT_FOR_RESTART"
    /\ Datapath(<<>>, 0, x)
    /\ pendingFault' = FALSE
    /\ state' = IF ack THEN "ACTIVE" ELSE state
    /\ UNCHANGED <<dsDone, serial, cause>>

TakeArchFault(x) ==
    /\ state = "ARCH_FAULT"
    /\ Quiet(x)
    /\ cause' = IF RobHead.uop.op = "brk" THEN "brk"
                ELSE IF IsIllegal(RobHead.uop) THEN "ii" ELSE "badva"
    /\ state' = "WRITE_EPC"
    /\ UNCHANGED <<dsDone, serial>>

WriteEpc(x) ==
    /\ state = "WRITE_EPC"
    /\ Quiet(x)
    /\ state' = "WRITE_CAUSE"
    /\ UNCHANGED <<dsDone, serial, cause>>

\* t_bump_rob_head: the faulting entry leaves without committing its mapping.
WriteCause(x) ==
    /\ state = "WRITE_CAUSE"
    /\ RobStep(<<>>, 1, x)
    /\ RegStep(<<>>, 0)
    /\ InflightStep(<<>>, x)
    /\ bankSel' = ~bankSel
    /\ pendingFault' = PendingAfter(x)
    /\ state' = "FLUSH_FOR_HALT" /\ dsDone' = TRUE
    /\ UNCHANGED <<serial, cause>>

Control(x) ==
    \/ Interrupt(x) \/ ReachArchFault(x) \/ RetireMispredict(x)
    \/ \E u \in Uops : StartSerialize(x, u)
    \/ TakeArchFault(x) \/ WriteEpc(x) \/ WriteCause(x)
    \/ \E b \in BOOLEAN :
          \/ Drained(x, b) \/ Rat(x, b) \/ WaitForSerialize(x, b)
          \/ HandleMonitor(x, b) \/ MonitorFlush(x, b) \/ WaitForMonitor(x, b)
          \/ FlushForHalt(x, b) \/ Halted(x, b) \/ HaltWaitForRestart(x, b)
          \/ (b => MayBeFull) /\ (AllocForSerialize(x, b) \/ AllocForMonitor(x, b))

Stream(x, al) == Retire(x, al) \/ Allocate(x, al)

Next ==
    \/ \E x \in Reports : Control(x)
    \/ state = "ACTIVE" /\ \E x \in Reports, al \in AllocChoices : Stream(x, al)

Spec == Init /\ [][Next]_vars
-----------------------------------------------------------------------------
TypeOK ==
    /\ state \in States
    /\ head \in Ptrs /\ tail \in Ptrs /\ Count <= RobEntries
    /\ rob \in [Slots -> Entries]
    /\ complete \subseteq Slots /\ sdComplete \subseteq Slots
    /\ inflight \subseteq Slots
    /\ arat \in [Lregs -> Pregs] /\ rrat \in [Lregs -> Pregs]
    /\ free \subseteq Pregs /\ rfree \subseteq Pregs
    /\ bankSel \in BOOLEAN
    /\ bobHead \in BobPtrs /\ bobTail \in BobPtrs
    /\ pendingFault \in BOOLEAN /\ dsDone \in BOOLEAN
    /\ serial \in Uops \cup {NoUop}
    /\ cause \in Causes

EntryAt(i) == rob[Slot(Plus(head, i))]
WritersUpTo(n) == {i \in 0 .. n - 1 : Writes(EntryAt(i).uop)}

\* Where the value of l is after the n oldest entries.
MapAfter(l, n) ==
    LET w == {i \in WritersUpTo(n) : EntryAt(i).uop.dst = l}
    IN  IF w = {} THEN rrat[l]
        ELSE EntryAt(CHOOSE i \in w : \A j \in w : j <= i).pdst

Mapped(rat) == {rat[l] : l \in Lregs}
Injective(rat) == \A k, l \in Lregs : rat[k] = rat[l] => k = l

\* Until an entry that has a mapping is bumped out of the buffer by an
\* architectural fault.
NoneLost == cause \in {"none", "brk"}

MapTracksBuffer ==
    /\ \A l \in Lregs : arat[l] = MapAfter(l, Count)
    /\ \A i \in WritersUpTo(Count) :
          EntryAt(i).old = MapAfter(EntryAt(i).uop.dst, i)

(* The free list, the allocation map and the registers that in-flight writers
   have superseded partition the register file, and no two registers share
   one: none leaks and none is handed out while it can still be read
   (n_prf_free). *)
FreePartition ==
    NoneLost =>
        LET w == WritersUpTo(Count)
            olds == {EntryAt(i).old : i \in w}
        IN  /\ free \cup Mapped(arat) \cup olds = Pregs
            /\ free \cap (Mapped(arat) \cup olds) = {} /\ Mapped(arat) \cap olds = {}
            /\ Injective(arat)
            /\ \A i, j \in w : EntryAt(i).old = EntryAt(j).old => i = j

(* The retirement map and its free list, from which a fault restores the
   machine, are always exact complements (n_retire_rat, n_retire_prf_free). *)
RetirePartition == Injective(rrat) /\ rfree = Pregs \ Mapped(rrat)

(* The allocation map is the retirement map with the buffer's writers applied
   in order, and each writer frees exactly what it superseded, also when both
   uops of a cycle write one register (t_rob_next_tail.old_pdst). *)
RenameMapExact == NoneLost => MapTracksBuffer

(* What executes belongs to the buffer, and while the machine is not draining
   everything in the buffer has completed or will: a slot without a report
   would hang the head, a report without a slot the drain (r_rob_inflight). *)
NoOrphan ==
    NoneLost =>
        /\ inflight \subseteq RobSlots \ complete
        /\ ~dsDone => RobSlots \subseteq inflight \cup complete
        /\ state = "RAT" => inflight = {}

(* A serializing uop is allocated into an empty buffer and is alone in it while
   the FSM waits on the head's completion bit without looking at t_rob_empty:
   a bit left by the slot's last occupant would end the wait at once. *)
SerializeAlone ==
    /\ state \in {"ALLOC_FOR_SERIALIZE", "MONITOR_FLUSH_CACHE",
                  "HANDLE_MONITOR", "ALLOC_FOR_MONITOR"} => Empty /\ inflight = {}
    /\ state \in {"WAIT_FOR_SERIALIZE_AND_RESTART", "WAIT_FOR_MONITOR"} =>
          Count = 1 /\ Serializing(RobHead.uop)

-----------------------------------------------------------------------------
(***************************************************************************)
(* The inductive invariant behind the theorems of CoreProofs.              *)
(***************************************************************************)

\* What each state of the FSM knows of the buffer and of the cause.
ControlInv ==
    /\ state \in {"ARCH_FAULT", "WRITE_EPC", "WRITE_CAUSE"} =>
          ~Empty /\ Slot(head) \in complete
    /\ state = "ARCH_FAULT" =>
          IsMem(RobHead.uop) \/ RobHead.uop.op = "brk" \/ IsIllegal(RobHead.uop)
    /\ state \in {"WRITE_EPC", "WRITE_CAUSE"} /\ NoneLost => RobHead.uop.op = "brk"
    /\ cause # "none" => state \in {"WRITE_EPC", "WRITE_CAUSE", "FLUSH_FOR_HALT", "HALT"}
    /\ state = "RAT" => inflight = {}
    /\ state \in {"ALLOC_FOR_SERIALIZE", "MONITOR_FLUSH_CACHE",
                  "HANDLE_MONITOR", "ALLOC_FOR_MONITOR"} => Empty /\ Serializing(serial)
    /\ state \in {"WAIT_FOR_SERIALIZE_AND_RESTART", "WAIT_FOR_MONITOR"} =>
          Count = 1 /\ Serializing(RobHead.uop)

Pdsts == {EntryAt(i).pdst : i \in WritersUpTo(Count)}

\* No register leaks: it is free, holds a committed value, or will hold the
\* value of an entry of the buffer.
NoLeak ==
    /\ Pregs \subseteq free \cup Mapped(rrat) \cup Pdsts
    /\ Pregs \subseteq rfree \cup Mapped(rrat)

WindowInv ==
    /\ inflight \subseteq RobSlots \ complete
    /\ MapTracksBuffer
    /\ NoLeak

IInv == TypeOK /\ ControlInv /\ (NoneLost => WindowInv)

\* No register is in two places.
NoSharing ==
    /\ Injective(rrat)
    /\ rfree \cap Mapped(rrat) = {} /\ free \cap (Mapped(rrat) \cup Pdsts) = {}
    /\ Mapped(rrat) \cap Pdsts = {}
    /\ \A i, j \in WritersUpTo(Count) : EntryAt(i).pdst = EntryAt(j).pdst => i = j
-----------------------------------------------------------------------------
(* r_pending_fault stops allocation behind a retiring head; it is never left
   over from a fault that has been dealt with. *)
PendingFaultJustified ==
    state = "ACTIVE" /\ pendingFault =>
        \E i \in 0 .. Count - 1 : EntryAt(i).faulted

(* Whatever the machine restarts from, a misprediction, an interrupt or a
   fault, it restarts from the retirement map with nothing in flight. *)
RollbackOnFault ==
    [][(state \in {"RAT", "HALT_WAIT_FOR_RESTART"} /\ state' = "ACTIVE") =>
         inflight' = {} /\ arat' = rrat' /\ free' = rfree' /\ head' = tail']_vars

(* Whatever allocate maps a register to was free: it "checks for sufficient
   resources" first (README.md; n_prf_entry). *)
AllocateFromFree ==
    [][\A l \in Lregs : arat'[l] # arat[l] => state = "RAT" \/ arat'[l] \in free]_vars

-----------------------------------------------------------------------------
(***************************************************************************)
(* What the engine promises: Renaming, with the window between the         *)
(* pointers as its pending instructions.                                   *)
(***************************************************************************)
Pending == [i \in 1 .. Count |-> [dst |-> EntryAt(i - 1).uop.dst, pdst |-> EntryAt(i - 1).pdst]]

Abstract == INSTANCE Renaming
              WITH committed <- rrat, pending <- Pending, Width <- 2

(* Two-wide out-of-order renaming commits in order, into registers nothing
   else is in, and recovers to exactly what was committed (t_retire,
   t_rat_copy). *)
RenamesPrecisely == Abstract!Spec
-----------------------------------------------------------------------------
(***************************************************************************)
(* Liveness.  The clock runs; every unit and cache that has taken a uop    *)
(* reports it sooner or later, and every request is acknowledged.          *)
(***************************************************************************)
Reported(s) ==
    \E x \in Reports : s \in x.done /\ (Control(x) \/ \E al \in AllocChoices : Stream(x, al))
DataArrives(s) ==
    \E x \in Reports : s \in x.sd /\ (Control(x) \/ \E al \in AllocChoices : Stream(x, al))
Acknowledged ==
    \E x \in Reports :
        \/ Drained(x, TRUE) \/ Rat(x, TRUE) \/ WaitForSerialize(x, TRUE) \/ HandleMonitor(x, TRUE)
        \/ MonitorFlush(x, TRUE) \/ WaitForMonitor(x, TRUE)
        \/ FlushForHalt(x, TRUE) \/ HaltWaitForRestart(x, TRUE)
        \/ state = "HALT" /\ cause = "none" /\ Halted(x, TRUE)

Fairness ==
    /\ WF_vars(Next)
    /\ \A s \in Slots : WF_vars(Reported(s)) /\ WF_vars(DataArrives(s))
    /\ WF_vars(Acknowledged)

FairSpec == Spec /\ Fairness

(* The head of the buffer always leaves it, by retiring or by a recovery,
   unless an architectural fault halts the machine. *)
HeadLeaves ==
    \A p \in Ptrs : (head = p /\ ~Empty) ~> (head # p \/ Empty \/ cause # "none")

(* No recovery, serialization or flush is for ever: the FSM comes back to the
   state in which it allocates and retires, or halts on a fault. *)
Resumes == []<>(state = "ACTIVE" \/ cause # "none")
=============================================================================
