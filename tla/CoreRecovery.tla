---------------------------- MODULE CoreRecovery ----------------------------
(***************************************************************************)
(* Faults, restarts and what executes: the theorems of Core about what the *)
(* FSM waits for, what it restarts from and what it leaves behind, and the *)
(* proof that all of it together is precise renaming.                      *)
(***************************************************************************)
EXTENDS CoreProofs, SequenceTheorems

\* What the entries of the buffer wait for, and which states have emptied it.
ReportInv ==
    /\ ~dsDone => RobSlots \subseteq inflight \cup complete
    /\ \A s \in RobSlots : rob[s].faulted => s \in complete
    /\ \A s \in RobSlots : Serializing(rob[s].uop) => Count = 1
    /\ state = "ACTIVE" /\ ~Empty /\ Serializing(RobHead.uop) => HeadComplete
    /\ state \in {"FLUSH_FOR_HALT", "HALT", "HALT_WAIT_FOR_RESTART"} => Empty
    /\ PendingFaultJustified

FaultInv == IInv /\ (NoneLost => ReportInv)
-----------------------------------------------------------------------------
(* A cycle slot by slot: what stays keeps its uop, and its fault but for a
   report on it; what comes is new (t_rob_tail, r_rob_complete). *)
LEMMA SlotStep ==
    ASSUME TypeOK, inflight \subseteq RobSlots \ complete,
           NEW al, NEW ret, NEW r, NEW x \in Reports, Cycle(al, ret, r, x)
    PROVE  /\ RobSlots' = (RobSlots \ Gone(ret)) \cup NewSlots(al)
           /\ RobSlots \cap NewSlots(al) = {}
           /\ Gone(ret) \cap inflight = {}
           /\ \A s \in RobSlots \ Gone(ret) :
                /\ rob'[s].uop = rob[s].uop
                /\ rob'[s].faulted = IF s \in x.done THEN s \in x.faulted ELSE rob[s].faulted
           /\ \A s \in NewSlots(al) : \E n \in DOMAIN al :
                /\ s = Slot(Plus(tail, n - 1))
                /\ rob'[s].uop = al[n] /\ rob'[s].faulted = IsIllegal(al[n])
<1>1. /\ Batch(al) /\ ret \in 0 .. 2 /\ ret <= Count /\ Count + Len(al) <= RobEntries
      /\ RobStep(al, ret, x) /\ Gone(ret) \subseteq complete
  BY DEF Cycle
<1>2. RobSlots' = (RobSlots \ Gone(ret)) \cup NewSlots(al) /\ RobSlots \cap NewSlots(al) = {}
  BY <1>1, WindowStep
<1>3. Gone(ret) \cap inflight = {}
  BY <1>1
<1>4. ASSUME NEW s \in RobSlots \ Gone(ret)
      PROVE  /\ rob'[s].uop = rob[s].uop
             /\ rob'[s].faulted = IF s \in x.done THEN s \in x.faulted ELSE rob[s].faulted
  <2>1. s \in Slots /\ s \notin NewSlots(al)
    BY <1>2, RobSlotsAre
  <2>2. rob[s] \in Entries
    BY <2>1 DEF TypeOK
  <2> DEFINE b == IF s \in x.done /\ s \in RobSlots THEN s \in x.faulted ELSE rob[s].faulted
  <2>3. rob'[s] = [rob[s] EXCEPT !.faulted = b]
    BY <1>1, <2>1 DEF RobStep
  <2>4. b = IF s \in x.done THEN s \in x.faulted ELSE rob[s].faulted
    OBVIOUS
  <2> HIDE DEF b
  <2>5. rob'[s].uop = rob[s].uop /\ rob'[s].faulted = b
    BY <2>2, <2>3, Zenon DEF Entries
  <2> QED BY <2>4, <2>5, Zenon
<1>5. ASSUME NEW s \in NewSlots(al)
      PROVE  \E n \in DOMAIN al :
                /\ s = Slot(Plus(tail, n - 1))
                /\ rob'[s].uop = al[n] /\ rob'[s].faulted = IsIllegal(al[n])
  <2>1. PICK n \in DOMAIN al : s = Slot(Plus(tail, n - 1)) /\ rob'[s] = NewEntry(al, n)
    BY <1>1, NewSlotsHold
  <2>2. rob'[s].uop = al[n] /\ rob'[s].faulted = IsIllegal(al[n])
    BY <2>1 DEF NewEntry
  <2> QED BY <2>1, <2>2
<1> QED BY <1>2, <1>3, <1>4, <1>5

(* While nothing is thrown away, what is in the buffer executes or is complete,
   and a fault is known only of what is complete (r_rob_inflight). *)
LEMMA ReportsComplete ==
    ASSUME TypeOK, inflight \subseteq RobSlots \ complete,
           NEW al, NEW ret, NEW r, NEW x \in Reports, Cycle(al, ret, r, x)
    PROVE  /\ ~dsDone /\ RobSlots \subseteq inflight \cup complete =>
                RobSlots' \subseteq inflight' \cup complete'
           /\ (\A s \in RobSlots : rob[s].faulted => s \in complete) =>
                \A s \in RobSlots' : rob'[s].faulted => s \in complete'
<1>1. /\ RobSlots' = (RobSlots \ Gone(ret)) \cup NewSlots(al)
      /\ RobSlots \cap NewSlots(al) = {}
      /\ \A s \in RobSlots \ Gone(ret) :
            rob'[s].faulted = IF s \in x.done THEN s \in x.faulted ELSE rob[s].faulted
      /\ \A s \in NewSlots(al) : \E n \in DOMAIN al :
            /\ s = Slot(Plus(tail, n - 1))
            /\ rob'[s].uop = al[n] /\ rob'[s].faulted = IsIllegal(al[n])
  BY SlotStep
<1>2. complete' = (complete \ {s \in NewSlots(al) : ~Fold(rob'[s].uop)})
                     \cup {s \in NewSlots(al) : Fold(rob'[s].uop)} \cup x.done
  BY DEF Cycle, RobStep
<1>3. ASSUME NEW s \in RobSlots \ Gone(ret), s \in complete
      PROVE  s \in complete'
  BY <1>1, <1>2, <1>3
<1>4. ASSUME ~dsDone, NEW s \in RobSlots', RobSlots \subseteq inflight \cup complete
      PROVE  s \in inflight' \cup complete'
  <2>1. inflight' = (inflight \ x.done)
               \cup {Slot(Plus(tail, n - 1)) : n \in {m \in DOMAIN al : ~Fold(al[m])}}
    BY <1>4 DEF Cycle, InflightStep
  <2>2. CASE s \in RobSlots \ Gone(ret)
    BY <1>2, <1>3, <1>4, <2>1, <2>2
  <2>3. CASE s \in NewSlots(al)
    <3>1. PICK n \in DOMAIN al : s = Slot(Plus(tail, n - 1)) /\ rob'[s].uop = al[n]
      BY <1>1, <2>3
    <3>2. CASE Fold(al[n])
      BY <1>2, <2>3, <3>1, <3>2
    <3>3. CASE ~Fold(al[n])
      BY <2>1, <3>1, <3>3
    <3> QED BY <3>2, <3>3
  <2> QED BY <1>1, <1>4, <2>2, <2>3
<1>5. ASSUME \A s \in RobSlots : rob[s].faulted => s \in complete,
             NEW s \in RobSlots', rob'[s].faulted
      PROVE  s \in complete'
  <2>1. CASE s \in RobSlots \ Gone(ret)
    BY <1>1, <1>2, <1>3, <1>5, <2>1
  <2>2. CASE s \in NewSlots(al)
    <3>1. PICK n \in DOMAIN al : rob'[s].uop = al[n] /\ rob'[s].faulted = IsIllegal(al[n])
      BY <1>1, <2>2
    <3>2. Fold(rob'[s].uop)
      BY <1>5, <3>1 DEF Fold
    <3> QED BY <1>2, <2>2, <3>2
  <2> QED BY <1>1, <1>5, <2>1, <2>2
<1> QED BY <1>4, <1>5

-----------------------------------------------------------------------------
(* The oldest slots of the buffer (t_rob_head, t_rob_next_head). *)
LEMMA GoneAre ==
    ASSUME TypeOK
    PROVE  /\ Gone(0) = {} /\ Gone(1) = {Slot(head)}
           /\ Gone(2) = {Slot(head), Slot(Plus(head, 1))}
<1>1. Plus(head, 0) = head
  BY Pointers, SizeAssumption DEF Ptrs, TypeOK
<1>2. 0 .. 0 - 1 = {} /\ 0 .. 1 - 1 = {0} /\ 0 .. 2 - 1 = {0, 1}
  OBVIOUS
<1> QED BY <1>1, <1>2 DEF Gone

(* The head is in a buffer that is not empty (t_rob_empty). *)
LEMMA HeadSlot ==
    ASSUME TypeOK, ~Empty
    PROVE  Slot(head) \in RobSlots
<1>1. head \in Ptrs /\ Count \in 1 .. RobEntries
  BY Occupancy, PointerTypes DEF TypeOK
<1>2. Plus(head, 0) = head /\ 0 \in 0 .. Count - 1
  BY <1>1, Pointers, SizeAssumption DEF Ptrs
<1> QED BY <1>2 DEF RobSlots

(* It is alone in a buffer of one entry (t_rob_next_empty). *)
LEMMA OneSlot ==
    ASSUME TypeOK, Count = 1, NEW s \in RobSlots
    PROVE  s = Slot(head) /\ ~Empty
<1>1. 0 .. Count - 1 = {0} /\ ~Empty
  BY Occupancy DEF TypeOK
<1>2. Plus(head, 0) = head
  BY Pointers, SizeAssumption DEF Ptrs, TypeOK
<1> QED BY <1>1, <1>2 DEF RobSlots

(* No serializing uop is allocated among others (t_alloc, t_alloc_two). *)
LEMMA AllocsOrdinary ==
    ASSUME NEW al \in AllocChoices
    PROVE  \A n \in DOMAIN al : ~Serializing(al[n])
<1>1. PICK dq \in Offers, uqFull \in BOOLEAN, uqNextFull \in BOOLEAN :
        al = Allocs(dq, uqFull, uqNextFull)
  BY DEF AllocChoices
<1>2. CASE al = <<>>
  BY <1>2
<1>3. CASE al = <<dq[1]>> /\ CanAlloc(dq, uqFull)
  BY <1>3 DEF CanAlloc
<1>4. CASE al = dq /\ CanAlloc(dq, uqFull) /\ CanAllocTwo(dq, uqNextFull)
  <2>1. dq \in Uops \X Uops
    BY <1>4 DEF Offers, CanAllocTwo
  <2>2. DOMAIN dq = {1, 2}
    BY <2>1
  <2> QED BY <1>4, <2>2 DEF CanAlloc, CanAllocTwo
<1> QED BY <1>1, <1>2, <1>3, <1>4 DEF Allocs

(* What the invariant says in a state that has lost no entry. *)
LEMMA Known ==
    ASSUME FaultInv, NoneLost
    PROVE  TypeOK /\ ControlInv /\ WindowInv /\ ReportInv /\ inflight \subseteq RobSlots \ complete
BY DEF FaultInv, IInv, WindowInv

(* A cycle that neither allocates nor retires keeps what the buffer waits for. *)
LEMMA QuietReports ==
    ASSUME FaultInv, NoneLost, NEW x \in Reports, Cycle(<<>>, 0, 0, x)
    PROVE  /\ RobSlots' = RobSlots /\ Count' = Count /\ (Empty' <=> Empty)
           /\ ~dsDone => RobSlots' \subseteq inflight' \cup complete'
           /\ \A s \in RobSlots' : rob'[s].faulted => s \in complete'
           /\ \A s \in RobSlots' : Serializing(rob'[s].uop) => Count' = 1
           /\ HeadComplete => HeadComplete'
           /\ RobHead'.uop = RobHead.uop
<1>1. TypeOK /\ ReportInv /\ inflight \subseteq RobSlots \ complete
  BY Known
<1>2. NewSlots(<<>>) = {} /\ Gone(0) = {}
  BY DEF NewSlots, Gone
<1>3. RobSlots' = RobSlots /\ \A s \in RobSlots : rob'[s].uop = rob[s].uop
  BY <1>1, <1>2, SlotStep
<1>4. /\ Count' = Count /\ (Empty' <=> Empty) /\ Slot(head)' = Slot(head)
      /\ RobHead'.uop = RobHead.uop /\ complete \subseteq complete'
  BY <1>1, QuietFacts
<1>5. /\ ~dsDone => RobSlots' \subseteq inflight' \cup complete'
      /\ \A s \in RobSlots' : rob'[s].faulted => s \in complete'
  BY <1>1, ReportsComplete DEF ReportInv
<1>6. \A s \in RobSlots' : Serializing(rob'[s].uop) => Count' = 1
  BY <1>1, <1>3, <1>4 DEF ReportInv
<1>7. sdComplete \subseteq sdComplete'
  BY <1>2 DEF Cycle, RobStep
<1>8. HeadComplete => HeadComplete'
  BY <1>4, <1>7 DEF HeadComplete
<1> QED BY <1>3, <1>4, <1>5, <1>6, <1>8

(* Pointers are equal when their distance is nothing. *)
LEMMA RingDistance ==
    ASSUME NEW p \in Ptrs, NEW q \in Ptrs
    PROVE  /\ (q - p) % (2 * RobEntries) \in Nat
           /\ (q - p) % (2 * RobEntries) = 0 <=> p = q
<1> USE SizeAssumption DEF Ptrs
<1>1. 2 * RobEntries \in Nat \ {0}
  OBVIOUS
<1>2. q - p \in -(2 * RobEntries) .. 4 * (2 * RobEntries) - 1
  OBVIOUS
<1>3. q - p < 2 * RobEntries
  OBVIOUS
<1>4. (q - p) % (2 * RobEntries) = IF p <= q THEN q - p ELSE q - p + 2 * RobEntries
  BY <1>1, <1>2, <1>3
<1> QED BY <1>4

(* So the pointers tell an empty buffer in the next state, too. *)
LEMMA EmptyPrime ==
    ASSUME TypeOK'
    PROVE  Count' \in Nat /\ (Empty' <=> Count' = 0)
<1>1. head' \in Ptrs /\ tail' \in Ptrs
  BY DEF TypeOK, Ptrs
<1>2. /\ (tail' - head') % (2 * RobEntries) \in Nat
      /\ (tail' - head') % (2 * RobEntries) = 0 <=> head' = tail'
  BY <1>1, RingDistance
<1> QED BY <1>2 DEF Empty, Count

(* And the head is in one that is not. *)
LEMMA HeadSlotPrime ==
    ASSUME TypeOK', ~Empty'
    PROVE  Slot(head)' \in RobSlots'
<1>1. head' \in Ptrs /\ 0 \in 0 .. Count' - 1
  BY EmptyPrime DEF TypeOK
<1>2. Plus(head', 0) = head'
  BY <1>1, Pointers, SizeAssumption DEF Ptrs
<1>3. Slot(Plus(head', 0)) \in RobSlots'
  BY <1>1 DEF RobSlots, Slot, Plus
<1> QED BY <1>2, <1>3 DEF Slot

(* An empty buffer waits for nothing. *)
LEMMA EmptyReports ==
    ASSUME TypeOK', Count' = 0, ~pendingFault' \/ state' # "ACTIVE"
    PROVE  ReportInv'
<1>1. RobSlots' = {}
  BY EmptyWindow
<1>2. Empty'
  <2>1. Empty' <=> Count' = 0
    BY EmptyPrime
  <2> QED BY <2>1
<1> QED BY <1>1, <1>2 DEF ReportInv, PendingFaultJustified

(* The actions that leave the window where it is.  ACTIVE is entered without a
   pending fault. *)
LEMMA QuietActionReports ==
    ASSUME FaultInv, NoneLost, NEW x \in Reports, NEW b \in BOOLEAN,
           \/ Interrupt(x) \/ ReachArchFault(x)
           \/ \E u \in Uops : StartSerialize(x, u)
           \/ Drained(x, b) \/ MonitorFlush(x, b) \/ HandleMonitor(x, b)
           \/ WaitForSerialize(x, b) \/ FlushForHalt(x, b)
           \/ HaltWaitForRestart(x, b) \/ WriteEpc(x)
           \/ TakeArchFault(x) \/ Halted(x, b),
           Cycle(<<>>, 0, 0, x)
    PROVE  ReportInv'
<1>1. /\ RobSlots' = RobSlots /\ Count' = Count /\ (Empty' <=> Empty)
      /\ ~dsDone => RobSlots' \subseteq inflight' \cup complete'
      /\ \A s \in RobSlots' : rob'[s].faulted => s \in complete'
      /\ \A s \in RobSlots' : Serializing(rob'[s].uop) => Count' = 1
      /\ HeadComplete => HeadComplete'
  BY QuietReports
<1>2. TypeOK /\ ReportInv
  BY Known
<1>3. Empty => RobSlots = {}
  BY <1>2, Occupancy, RobSlotsAre DEF TypeOK
<1>4. ~dsDone' => RobSlots' \subseteq inflight' \cup complete'
  <2>1. dsDone' = dsDone \/ dsDone' = TRUE \/ state = "FLUSH_FOR_HALT"
    BY DEF Interrupt, ReachArchFault, StartSerialize, Drained, MonitorFlush, HandleMonitor,
         WaitForSerialize, FlushForHalt, HaltWaitForRestart, WriteEpc, TakeArchFault, Halted
  <2>2. state = "FLUSH_FOR_HALT" => RobSlots' = {}
    BY <1>1, <1>2, <1>3 DEF ReportInv
  <2> QED BY <1>1, <2>1, <2>2
<1>5. /\ state' \in {"FLUSH_FOR_HALT", "HALT", "HALT_WAIT_FOR_RESTART"} =>
            state \in {"FLUSH_FOR_HALT", "HALT", "HALT_WAIT_FOR_RESTART"}
      /\ state' = "ACTIVE" =>
            ~pendingFault' /\ (HeadComplete \/ state = "HALT_WAIT_FOR_RESTART")
  BY DEF Interrupt, ReachArchFault, StartSerialize, Drained, MonitorFlush, HandleMonitor,
       WaitForSerialize, FlushForHalt, HaltWaitForRestart, WriteEpc, TakeArchFault, Halted
<1>6. state' \in {"FLUSH_FOR_HALT", "HALT", "HALT_WAIT_FOR_RESTART"} => Empty'
  BY <1>1, <1>2, <1>5 DEF ReportInv
<1>7. state' = "ACTIVE" /\ ~Empty' /\ Serializing(RobHead.uop)' => HeadComplete'
  BY <1>1, <1>2, <1>5 DEF ReportInv
<1>8. PendingFaultJustified'
  BY <1>5 DEF PendingFaultJustified
<1> QED BY <1>1, <1>4, <1>6, <1>7, <1>8 DEF ReportInv

(* An entry that leaves the buffer empty, and one that comes into it alone. *)
LEMMA SerialReports ==
    ASSUME FaultInv, NoneLost, TypeOK', NEW x \in Reports, NEW b \in BOOLEAN,
           AllocForSerialize(x, b) \/ AllocForMonitor(x, b),
           Cycle(<<serial>>, 0, 0, x), Count' = 1
    PROVE  ReportInv'
<1>1. TypeOK /\ ReportInv /\ inflight \subseteq RobSlots \ complete
  BY Known
<1>2. state' \notin {"ACTIVE", "FLUSH_FOR_HALT", "HALT", "HALT_WAIT_FOR_RESTART"} /\ dsDone' = dsDone
  BY DEF AllocForSerialize, AllocForMonitor
<1>3. /\ ~dsDone => RobSlots' \subseteq inflight' \cup complete'
      /\ \A s \in RobSlots' : rob'[s].faulted => s \in complete'
  BY <1>1, ReportsComplete DEF ReportInv
<1> QED BY <1>2, <1>3 DEF ReportInv, PendingFaultJustified

(* The mispredicted branch leaves while the machine starts to drain. *)
LEMMA MispredictReports ==
    ASSUME FaultInv, NoneLost, NEW x \in Reports, RetireMispredict(x), Cycle(<<>>, 1, 1, x)
    PROVE  ReportInv'
<1>1. TypeOK /\ ReportInv /\ inflight \subseteq RobSlots \ complete
  BY Known
<1>2. state' = "DRAIN" /\ dsDone'
  BY DEF RetireMispredict
<1>3. \A s \in RobSlots' : rob'[s].faulted => s \in complete'
  BY <1>1, ReportsComplete DEF ReportInv
<1>4. ASSUME NEW s \in RobSlots', Serializing(rob'[s].uop) PROVE FALSE
  <2>1. NewSlots(<<>>) = {}
    BY DEF NewSlots
  <2>2. s \in RobSlots \ Gone(1) /\ rob'[s].uop = rob[s].uop
    BY <1>1, <1>4, <2>1, SlotStep
  <2>3. Count = 1
    BY <1>1, <1>4, <2>2 DEF ReportInv
  <2> QED BY <1>1, <2>2, <2>3, OneSlot, GoneAre
<1> QED BY <1>2, <1>3, <1>4 DEF ReportInv, PendingFaultJustified

(* After the faulting uop has left, the buffer is empty if it was a breakpoint:
   that is serializing and so was alone. *)
LEMMA FaultyReports ==
    ASSUME FaultInv, NoneLost, TypeOK', NEW x \in Reports, WriteCause(x), Cycle(<<>>, 1, 0, x)
    PROVE  ReportInv'
<1>1. TypeOK /\ ControlInv /\ ReportInv
  BY Known
<1>2. state = "WRITE_CAUSE" /\ state' = "FLUSH_FOR_HALT"
  BY DEF WriteCause
<1>3. RobHead.uop.op = "brk" /\ ~Empty
  BY <1>1, <1>2 DEF ControlInv
<1>4. Count = 1
  <2>1. Slot(head) \in RobSlots
    BY <1>1, <1>3, HeadSlot
  <2> QED BY <1>1, <1>3, <2>1 DEF ReportInv, RobHead, Serializing
<1>5. Count' = 0
  <2>1. Count' = Count - 1 + Len(<<>>)
    BY <1>1, RobTypes
  <2> QED BY <1>4, <2>1
<1> QED BY <1>2, <1>5, EmptyReports

(* Nothing is allocated behind a serializing uop, and a fault that is pending
   is in an entry of the buffer until that entry is dealt with. *)
LEMMA StreamReports ==
    ASSUME FaultInv, NoneLost, TypeOK', NEW x \in Reports, NEW al \in AllocChoices, Stream(x, al),
           NEW ret \in 0 .. 2, Retired(ret), Cycle(al, ret, ret, x)
    PROVE  ReportInv'
<1>1. TypeOK /\ ReportInv /\ inflight \subseteq RobSlots \ complete
  BY Known
<1>2. /\ state = "ACTIVE" /\ state' = "ACTIVE" /\ dsDone' = dsDone
      /\ pendingFault' = PendingAfter(x)
  BY DEF Stream, Retire, Allocate
<1>3. /\ RobSlots' = (RobSlots \ Gone(ret)) \cup NewSlots(al)
      /\ RobSlots \cap NewSlots(al) = {} /\ Gone(ret) \cap inflight = {}
      /\ \A s \in RobSlots \ Gone(ret) :
            /\ rob'[s].uop = rob[s].uop
            /\ rob'[s].faulted = IF s \in x.done THEN s \in x.faulted ELSE rob[s].faulted
      /\ \A s \in NewSlots(al) : \E n \in DOMAIN al : rob'[s].uop = al[n]
  BY <1>1, SlotStep
<1>4. /\ ~dsDone => RobSlots' \subseteq inflight' \cup complete'
      /\ \A s \in RobSlots' : rob'[s].faulted => s \in complete'
  BY <1>1, ReportsComplete DEF ReportInv
<1>5. /\ Gone(0) = {} /\ Gone(1) = {Slot(head)}
      /\ Gone(2) = {Slot(head), Slot(Plus(head, 1))}
  BY <1>1, GoneAre
<1>6. ASSUME NEW s \in RobSlots', Serializing(rob'[s].uop)
      PROVE  FALSE
  <2>1. CASE s \in NewSlots(al)
    <3>1. \A n \in DOMAIN al : ~Serializing(al[n])
      BY AllocsOrdinary
    <3> QED BY <1>3, <1>6, <2>1, <3>1
  <2>2. CASE s \in RobSlots \ Gone(ret)
    <3>1. Serializing(rob[s].uop) /\ Count = 1
      BY <1>1, <1>3, <1>6, <2>2 DEF ReportInv
    <3>2. s = Slot(head) /\ ~Empty
      BY <1>1, <2>2, <3>1, OneSlot
    <3>3. CanRetireHead
      BY <1>1, <1>2, <3>1, <3>2 DEF ReportInv, RobHead, CanRetireHead
    <3>4. ret \in {1, 2}
      BY <3>3 DEF Retired
    <3> QED BY <1>5, <2>2, <3>2, <3>4
  <2> QED BY <1>3, <1>6, <2>1, <2>2
<1>7. ASSUME ~Empty', Serializing(RobHead.uop)' PROVE FALSE
  <2>1. Slot(head)' \in RobSlots'
    BY <1>7, HeadSlotPrime
  <2> QED BY <1>6, <1>7, <2>1 DEF RobHead
<1>8. ASSUME pendingFault' PROVE \E s \in RobSlots' : rob'[s].faulted
  <2>1. CASE \E s \in x.faulted : ~IsMem(rob[s].uop)
    <3>1. PICK s \in x.faulted : TRUE
      BY <2>1
    <3>2. s \in inflight /\ s \in x.done
      BY ReportFacts
    <3>3. s \in RobSlots \ Gone(ret)
      BY <1>1, <1>3, <3>2
    <3> QED BY <1>3, <3>1, <3>2, <3>3
  <2>2. CASE pendingFault
    <3>1. PICK s \in RobSlots : rob[s].faulted
      BY <1>1, <1>2, <2>2 DEF ReportInv, PendingFaultJustified, RobSlots, EntryAt
    <3>2. s \in complete /\ s \notin x.done
      BY <1>1, <3>1, ReportFacts DEF ReportInv
    <3>3. s \notin Gone(ret)
      <4>1. ret >= 1 => s # Slot(head)
        BY <3>1 DEF Retired, RobHead
      <4>2. ret = 2 => s # Slot(Plus(head, 1))
        BY <3>1 DEF Retired, CanRetireTwo, RobNextHead
      <4>3. ret = 0 \/ ret = 1 \/ ret = 2
        OBVIOUS
      <4> QED BY <1>5, <4>1, <4>2, <4>3
    <3> QED BY <1>3, <3>1, <3>2, <3>3
  <2> QED BY <1>2, <1>8, <2>1, <2>2 DEF PendingAfter
<1>9. PendingFaultJustified'
  BY <1>8 DEF PendingFaultJustified, RobSlots, EntryAt
<1> QED BY <1>2, <1>4, <1>6, <1>7, <1>9 DEF ReportInv
-----------------------------------------------------------------------------
(* Every action keeps what the buffer waits for. *)
LEMMA FaultNext ==
    ASSUME FaultInv, ResumesCleanly, Next
    PROVE  FaultInv'
<1>1. IInv /\ IInv'
  BY InvNext DEF FaultInv
<1>2. TypeOK /\ TypeOK' /\ ControlInv
  BY <1>1 DEF IInv
<1>3. ASSUME NEW x \in Reports, Keeps(x), NoneLost' PROVE NoneLost
  BY <1>3 DEF Keeps
<1>4. ASSUME NEW x \in Reports, NEW b \in BOOLEAN, NoneLost',
             \/ Interrupt(x) \/ ReachArchFault(x) \/ WriteEpc(x)
             \/ \E u \in Uops : StartSerialize(x, u)
             \/ Drained(x, b) \/ MonitorFlush(x, b) \/ HandleMonitor(x, b)
             \/ WaitForSerialize(x, b) \/ FlushForHalt(x, b) \/ HaltWaitForRestart(x, b)
      PROVE  ReportInv'
  <2>1. Keeps(x) /\ Cycle(<<>>, 0, 0, x)
    BY <1>1, <1>4, QuietActions
  <2> QED BY <1>3, <1>4, <2>1, QuietActionReports
<1>5. ASSUME NEW x \in Reports, NEW b \in BOOLEAN, NoneLost',
             TakeArchFault(x) \/ Halted(x, b) \/ Rat(x, b)
      PROVE  ReportInv'
  <2>1. Keeps(x) /\ (Cycle(<<>>, 0, 0, x) \/ Restart(x))
    BY <1>1, <1>5, FaultActions
  <2>2. NoneLost /\ WindowInv
    BY <1>1, <1>3, <1>5, <2>1 DEF IInv
  <2>3. CASE Restart(x)
    <3>1. state = "RAT" /\ Count' = 0
      BY <1>2, <2>2, <2>3, RestartWindow DEF Restart
    <3>2. ~pendingFault' \/ state' # "ACTIVE"
      BY <1>5, <3>1 DEF TakeArchFault, Halted, Rat
    <3> QED BY <1>2, <3>1, <3>2, EmptyReports
  <2>4. CASE Cycle(<<>>, 0, 0, x) /\ ~Restart(x)
    <3>1. ~Rat(x, b)
      BY <2>4 DEF Rat, Restart
    <3> QED BY <1>5, <2>2, <2>4, <3>1, QuietActionReports
  <2> QED BY <2>1, <2>3, <2>4
<1>6. ASSUME NEW x \in Reports, NEW b \in BOOLEAN, NoneLost', b => MayBeFull,
             AllocForSerialize(x, b) \/ AllocForMonitor(x, b)
      PROVE  ReportInv'
  <2>1. Keeps(x) /\ Cycle(<<serial>>, 0, 0, x) /\ Count' = 1
    BY <1>1, <1>6, SerialActions
  <2> QED BY <1>2, <1>3, <1>6, <2>1, SerialReports
<1>7. ASSUME NEW x \in Reports, NEW b \in BOOLEAN, NoneLost', WaitForMonitor(x, b)
      PROVE  ReportInv'
  <2>1. /\ Count = 1 /\ NoneLost
        /\ IF HeadComplete /\ b THEN Cycle(<<>>, 1, 1, x) ELSE Cycle(<<>>, 0, 0, x)
    BY <1>1, <1>7, MonitorRetires
  <2>2. CASE HeadComplete /\ b
    <3>1. Count' = Count - 1 + Len(<<>>)
      BY <1>2, <2>1, <2>2, RobTypes
    <3>2. Count' = 0
      BY <2>1, <3>1
    <3>3. ~pendingFault'
      BY <1>7, <2>2 DEF WaitForMonitor
    <3> QED BY <1>2, <3>2, <3>3, EmptyReports
  <2>3. CASE ~(HeadComplete /\ b)
    <3>1. /\ RobSlots' = RobSlots /\ Count' = Count
          /\ ~dsDone => RobSlots' \subseteq inflight' \cup complete'
          /\ \A s \in RobSlots' : rob'[s].faulted => s \in complete'
      BY <2>1, <2>3, QuietReports
    <3>2. state' = "WAIT_FOR_MONITOR" /\ dsDone' = dsDone
      BY <1>7, <2>3 DEF WaitForMonitor
    <3> QED BY <2>1, <3>1, <3>2 DEF ReportInv, PendingFaultJustified
  <2> QED BY <2>2, <2>3
<1>8. ASSUME NEW x \in Reports, NoneLost', RetireMispredict(x)
      PROVE  ReportInv'
  <2>1. Keeps(x) /\ Cycle(<<>>, 1, 1, x) /\ NoneLost
    BY <1>1, <1>3, <1>8, MispredictRetires
  <2> QED BY <1>2, <1>8, <2>1, MispredictReports
<1>9. ASSUME NEW x \in Reports, NoneLost', WriteCause(x)
      PROVE  ReportInv'
  <2>1. Keeps(x) /\ Cycle(<<>>, 1, 0, x)
    BY <1>1, <1>9, FaultyLeaves
  <2> QED BY <1>2, <1>3, <1>9, <2>1, FaultyReports
<1>10. ASSUME NEW x \in Reports, NEW al \in AllocChoices, NoneLost', Stream(x, al)
       PROVE  ReportInv'
  <2>1. /\ Keeps(x)
        /\ \E ret \in 0 .. 2 : Retired(ret) /\ Cycle(al, ret, ret, x)
    BY <1>1, <1>10, StreamKeeps
  <2> QED BY <1>2, <1>3, <1>10, <2>1, StreamReports
<1>11. NoneLost' => ReportInv'
  <2>1. TRUE \in BOOLEAN
    OBVIOUS
  <2> QED BY <1>4, <1>5, <1>6, <1>7, <1>8, <1>9, <1>10, <2>1 DEF Next, Control
<1> QED BY <1>1, <1>11 DEF FaultInv

(* The invariant of what the machine waits for. *)
THEOREM FaultInvariant ==
    ASSUME ResumesCleanly
    PROVE  Spec => []FaultInv
<1>1. Init => FaultInv
  <2> SUFFICES ASSUME Init PROVE FaultInv
    OBVIOUS
  <2>1. IInv /\ Count = 0 /\ RobSlots = {}
    BY InvInit, RobSlotsAre, Occupancy DEF IInv, TypeOK, Init, Empty
  <2>2. ReportInv
    BY <2>1 DEF Init, ReportInv, PendingFaultJustified, Empty
  <2> QED BY <2>1, <2>2 DEF FaultInv
<1>2. FaultInv /\ [Next]_vars => FaultInv'
  <2> SUFFICES ASSUME FaultInv, [Next]_vars PROVE FaultInv'
    OBVIOUS
  <2>1. CASE Next
    BY <2>1, FaultNext
  <2>2. CASE UNCHANGED vars
    <3> USE <2>2 DEF vars, robVars, regVars, ctlVars, NoneLost, Count, Empty, RobHead, RobSlots,
                 MapAfter, WritersUpTo, EntryAt, HeadComplete
    <3>1. IInv' <=> IInv
      BY DEF IInv, TypeOK, ControlInv, WindowInv, MapTracksBuffer, NoLeak, Pdsts, Mapped
    <3>2. ReportInv' <=> ReportInv
      BY DEF ReportInv, PendingFaultJustified
    <3>3. NoneLost' <=> NoneLost
      OBVIOUS
    <3> HIDE DEF NoneLost
    <3> QED BY <3>1, <3>2, <3>3 DEF FaultInv
  <2> QED BY <2>1, <2>2
<1> QED BY <1>1, <1>2, PTL DEF Spec

(* No report is awaited of a slot that is not in the buffer, and none is
   missing of a slot that is (r_rob_inflight). *)
THEOREM NothingOrphaned ==
    ASSUME ResumesCleanly
    PROVE  Spec => []NoOrphan
<1>1. FaultInv => NoOrphan
  BY DEF FaultInv, IInv, ControlInv, WindowInv, ReportInv, NoOrphan
<1> QED BY <1>1, FaultInvariant, PTL

(* The pending-fault bit that stops allocation behind a retiring head always
   has its reason in the buffer (r_pending_fault). *)
THEOREM PendingIsJustified ==
    ASSUME ResumesCleanly
    PROVE  Spec => []PendingFaultJustified
<1>1. FaultInv => PendingFaultJustified
  BY NoneLostFacts DEF FaultInv, IInv, ReportInv, PendingFaultJustified
<1> QED BY <1>1, FaultInvariant, PTL

(* With an empty buffer the allocation map is the committed one, and what is
   free is what the committed map leaves. *)
LEMMA EmptyRollsBack ==
    ASSUME TypeOK', WindowInv', NoSharing', Count' = 0
    PROVE  inflight' = {} /\ arat' = rrat' /\ free' = rfree' /\ head' = tail'
<1>1. RobSlots' = {} /\ Pdsts' = {} /\ \A l \in Lregs : MapAfter(l, Count)' = rrat'[l]
  BY EmptyWindow
<1>2. inflight' = {} /\ \A l \in Lregs : arat'[l] = rrat'[l]
  BY <1>1 DEF WindowInv, MapTracksBuffer
<1>3. arat' \in [Lregs -> Pregs] /\ rrat' \in [Lregs -> Pregs]
      /\ free' \subseteq Pregs /\ rfree' \subseteq Pregs
  BY DEF TypeOK
<1>4. arat' = rrat'
  BY <1>2, <1>3
<1>5. /\ Pregs \subseteq free' \cup Mapped(rrat)' /\ Pregs \subseteq rfree' \cup Mapped(rrat)'
      /\ free' \cap Mapped(rrat)' = {} /\ rfree' \cap Mapped(rrat)' = {}
  BY <1>1 DEF WindowInv, NoLeak, NoSharing
<1>6. free' = rfree'
  BY <1>3, <1>5
<1>7. head' = tail'
  BY EmptyPrime DEF Empty
<1> QED BY <1>2, <1>4, <1>6, <1>7

(* Recovery from a misprediction, an interrupt or a fault is complete: the
   machine goes on from the committed map with nothing in flight, as long as
   the selected bank has served every serializing uop. *)
THEOREM RollsBack ==
    ASSUME ResumesCleanly
    PROVE  Spec /\ []BankServes => RollbackOnFault
<1> DEFINE A == (state \in {"RAT", "HALT_WAIT_FOR_RESTART"} /\ state' = "ACTIVE") =>
                   inflight' = {} /\ arat' = rrat' /\ free' = rfree' /\ head' = tail'
<1>1. SharingInv /\ FaultInv /\ BankServes /\ [Next]_vars => [A]_vars
  <2> SUFFICES ASSUME SharingInv, FaultInv, BankServes, Next, state' = "ACTIVE",
                      state \in {"RAT", "HALT_WAIT_FOR_RESTART"}
               PROVE  inflight' = {} /\ arat' = rrat' /\ free' = rfree' /\ head' = tail'
    OBVIOUS
  <2>1. TypeOK /\ ControlInv /\ cause = "none" /\ NoneLost
    BY NoneLostFacts DEF SharingInv, IInv
  <2>2. SharingInv' /\ TypeOK' /\ ControlInv'
    BY SharingNext DEF SharingInv, IInv
  <2>3. cause' = "none"
    BY <2>2 DEF ControlInv
  <2>4. TypeOK' /\ WindowInv' /\ NoSharing'
    BY <2>2, <2>3 DEF SharingInv, IInv, NoneLost
  <2>5. PICK x \in Reports : Control(x)
    BY DEF Next, Stream, Retire, Allocate
  <2>6. Count' = 0
    <3>1. CASE state = "RAT"
      <4>1. PICK b \in BOOLEAN : Rat(x, b)
        BY <2>5, <3>1 DEF Control, Interrupt, ReachArchFault, RetireMispredict, StartSerialize,
             TakeArchFault, WriteEpc, WriteCause, Drained, WaitForSerialize, HandleMonitor,
             MonitorFlush, WaitForMonitor, FlushForHalt, Halted, HaltWaitForRestart,
             AllocForSerialize, AllocForMonitor
      <4>2. Restart(x) /\ WindowInv
        BY <2>1, <4>1 DEF Rat, Restart, SharingInv, IInv
      <4> QED BY <2>1, <4>2, RestartWindow
    <3>2. CASE state = "HALT_WAIT_FOR_RESTART"
      <4>1. PICK b \in BOOLEAN : HaltWaitForRestart(x, b)
        BY <2>5, <3>2 DEF Control, Interrupt, ReachArchFault, RetireMispredict, StartSerialize,
             TakeArchFault, WriteEpc, WriteCause, Drained, Rat, WaitForSerialize, HandleMonitor,
             MonitorFlush, WaitForMonitor, FlushForHalt, Halted,
             AllocForSerialize, AllocForMonitor
      <4>2. Cycle(<<>>, 0, 0, x)
        BY <4>1, QuietActions DEF FaultInv
      <4>3. Empty /\ Count' = Count
        BY <2>1, <3>2, <4>2, QuietFacts DEF FaultInv, ReportInv
      <4> QED BY <2>1, <4>3, Occupancy DEF TypeOK
    <3> QED BY <3>1, <3>2
  <2> QED BY <2>4, <2>6, EmptyRollsBack
<1>2. [A]_vars => [(state \in {"RAT", "HALT_WAIT_FOR_RESTART"} /\ state' = "ACTIVE") =>
                     inflight' = {} /\ arat' = rrat' /\ free' = rfree' /\ head' = tail']_vars
  OBVIOUS
<1> HIDE DEF A
<1> QED BY <1>1, <1>2, SharingInvariant, FaultInvariant, PTL DEF Spec, RollbackOnFault
-----------------------------------------------------------------------------
(***************************************************************************)
(* The refinement of Renaming.                                             *)
(***************************************************************************)
PendingRecs == [dst : Lregs, pdst : Pregs]

(* Dropping the n first elements and appending others, element by element. *)
LEMMA ShiftedSeq ==
    ASSUME NEW S, NEW p \in Seq(S), NEW q \in Seq(S), NEW new \in Seq(S), NEW n \in 0 .. Len(p),
           Len(q) = Len(p) - n + Len(new),
           \A i \in 1 .. Len(q) : q[i] = IF i <= Len(p) - n THEN p[i + n] ELSE new[i - (Len(p) - n)]
    PROVE  q = SubSeq(p, n + 1, Len(p)) \o new
<1> DEFINE s == SubSeq(p, n + 1, Len(p))
<1>1. Len(p) \in Nat /\ n + 1 \in Int /\ Len(p) \in Int /\ Len(new) \in Nat /\ Len(q) \in Nat
  OBVIOUS
<1>2. \A i \in n + 1 .. Len(p) : p[i] \in S
  BY <1>1, ElementOfSeq
<1>3. /\ s \in Seq(S) /\ Len(s) = Len(p) - n
      /\ \A i \in 1 .. Len(p) - n : s[i] = p[i + n]
  <2>1. /\ s \in Seq(S)
        /\ Len(s) = IF n + 1 <= Len(p) THEN Len(p) - (n + 1) + 1 ELSE 0
        /\ \A i \in 1 .. Len(p) - (n + 1) + 1 : s[i] = p[n + 1 + i - 1]
    BY <1>1, <1>2, SubSeqProperties
  <2> HIDE DEF s
  <2>2. Len(s) = Len(p) - n
    BY <1>1, <2>1
  <2>3. ASSUME NEW i \in 1 .. Len(p) - n PROVE s[i] = p[i + n]
    <3>1. i \in 1 .. Len(p) - (n + 1) + 1 /\ n + 1 + i - 1 = i + n
      BY <1>1
    <3>2. s[i] = p[n + 1 + i - 1]
      BY <2>1, <3>1
    <3> QED BY <3>1, <3>2
  <2> QED BY <2>1, <2>2, <2>3
<1> HIDE DEF s
<1>4. /\ s \o new \in Seq(S) /\ Len(s \o new) = Len(s) + Len(new)
      /\ \A i \in 1 .. Len(s) + Len(new) :
            (s \o new)[i] = IF i <= Len(s) THEN s[i] ELSE new[i - Len(s)]
  BY <1>3, ConcatProperties
<1>5. Len(s \o new) = Len(q) /\ \A i \in 1 .. Len(q) : q[i] = (s \o new)[i]
  BY <1>1, <1>3, <1>4
<1>6. q = s \o new
  BY <1>4, <1>5, SeqEqual
<1> QED BY <1>6 DEF s

(* The window is a sequence of instructions. *)
LEMMA PendingIs ==
    ASSUME TypeOK
    PROVE  /\ Count \in Nat /\ Pending \in Seq(PendingRecs)
           /\ Len(Pending) = Count /\ DOMAIN Pending = 1 .. Count
           /\ \A i \in 1 .. Count : /\ Pending[i].dst = EntryAt(i - 1).uop.dst
                                   /\ Pending[i].pdst = EntryAt(i - 1).pdst
<1>1. Count \in 0 .. RobEntries
  BY PointerTypes DEF TypeOK
<1>2. ASSUME NEW i \in 1 .. Count PROVE EntryAt(i - 1).uop.dst \in Lregs /\ EntryAt(i - 1).pdst \in Pregs
  <2>1. i - 1 \in 0 .. RobEntries + 1
    BY <1>1, SizeAssumption
  <2> QED BY <2>1, EntryTypes
<1>3. \A i \in 1 .. Count : [dst |-> EntryAt(i - 1).uop.dst, pdst |-> EntryAt(i - 1).pdst] \in PendingRecs
  BY <1>2 DEF PendingRecs
<1>4. Count \in Nat
  BY <1>1, SizeAssumption
<1>5. Pending \in Seq(PendingRecs)
  BY <1>3, <1>4 DEF Pending
<1> QED BY <1>4, <1>5 DEF Pending

(* It is one in the next state, too. *)
LEMMA PendingIsPrime ==
    ASSUME TypeOK'
    PROVE  /\ Count' \in Nat /\ Pending' \in Seq(PendingRecs)
           /\ Len(Pending') = Count' /\ DOMAIN Pending' = 1 .. Count'
           /\ \A i \in 1 .. Count' : /\ Pending'[i].dst = EntryAt(i - 1)'.uop.dst
                                    /\ Pending'[i].pdst = EntryAt(i - 1)'.pdst
<1>1. Count' \in 0 .. RobEntries /\ head' \in Ptrs
  BY EmptyPrime, SizeAssumption DEF TypeOK
<1>2. ASSUME NEW i \in 1 .. Count'
      PROVE  EntryAt(i - 1)'.uop.dst \in Lregs /\ EntryAt(i - 1)'.pdst \in Pregs
  <2>1. i - 1 \in 0 .. RobEntries + 1
    BY <1>1, SizeAssumption
  <2>2. Slot(Plus(head', i - 1)) \in Slots
    BY <1>1, <2>1, PointerTypes
  <2>3. EntryAt(i - 1)' \in Entries
    BY <2>2 DEF TypeOK, EntryAt, Slot, Plus
  <2>4. EntryAt(i - 1)'.uop \in Uops \cup {NoUop} /\ EntryAt(i - 1)'.pdst \in Pregs
    BY <2>3 DEF Entries
  <2> QED BY <2>4, UopTypes
<1>3. \A i \in 1 .. Count' : [dst |-> EntryAt(i - 1)'.uop.dst, pdst |-> EntryAt(i - 1)'.pdst] \in PendingRecs
  BY <1>2 DEF PendingRecs
<1>4. Count' \in Nat
  BY <1>1, SizeAssumption
<1>5. Pending' = [i \in 1 .. Count' |-> [dst |-> EntryAt(i - 1)'.uop.dst, pdst |-> EntryAt(i - 1)'.pdst]]
  BY DEF Pending, EntryAt, Count
<1>6. Pending' \in Seq(PendingRecs)
  BY <1>3, <1>4, <1>5
<1> QED BY <1>4, <1>5, <1>6

(* The first n instructions of the window map the registers as MapAfter says. *)
LEMMA WindowCommits ==
    ASSUME TypeOK, NEW n \in 0 .. 2, n <= Count
    PROVE  Abstract!CommittedAfter(n) = [l \in Lregs |-> MapAfter(l, n)]
<1>1. /\ Count \in Nat /\ DOMAIN Pending = 1 .. Count
      /\ \A i \in 1 .. Count : /\ Pending[i].dst = EntryAt(i - 1).uop.dst
                              /\ Pending[i].pdst = EntryAt(i - 1).pdst
  BY PendingIs
<1>2. ASSUME NEW l \in Lregs
      PROVE  Abstract!HolderAfter(l, n) = MapAfter(l, n)
  <2> DEFINE w == {i \in Abstract!Writers : i <= n /\ Pending[i].dst = l}
  <2>1. WritersOf(l, n) \subseteq 0 .. n - 1
    BY MapAfterDef
  <2>2. ASSUME NEW i \in 1 .. Count PROVE i \in w <=> i - 1 \in WritersOf(l, n)
    BY <1>1, <2>2 DEF Abstract!Writers, WritersOf, WritersUpTo, Writes
  <2>3. w \subseteq 1 .. Count
    BY <1>1 DEF Abstract!Writers
  <2> HIDE DEF w
  <2>4. ASSUME NEW m \in WritersOf(l, n) PROVE m + 1 \in w
    <3>1. PICK k \in 1 .. Count : k = m + 1
      BY <1>1, <2>1
    <3>2. k - 1 = m
      BY <2>1, <3>1
    <3> QED BY <2>2, <3>1, <3>2
  <2>5. CASE w = {}
    <3>1. MapAfter(l, n) = rrat[l]
      BY <2>4, <2>5, MapAfterDef
    <3> QED BY <2>5, <3>1 DEF w, Abstract!HolderAfter
  <2>6. CASE w # {}
    <3>1. WritersOf(l, n) # {}
      BY <2>2, <2>3, <2>6
    <3>2. PICK m \in WritersOf(l, n) : \A j \in WritersOf(l, n) : j <= m
      BY <2>1, <3>1, GreatestExists
    <3>3. MapAfter(l, n) = EntryAt(m).pdst
      BY <3>2, MapAfterDef
    <3>4. m + 1 \in w /\ m \in Int
      BY <2>1, <2>4
    <3>5. ASSUME NEW j \in w PROVE j <= m + 1
      <4>1. j \in 1 .. Count /\ j - 1 \in WritersOf(l, n)
        BY <2>2, <2>3
      <4>2. j - 1 <= m
        BY <3>2, <4>1
      <4> QED BY <1>1, <3>4, <4>1, <4>2
    <3>6. w \in SUBSET Nat
      BY <1>1, <2>3
    <3>7. (CHOOSE i \in w : \A j \in w : j <= i) = m + 1
      BY <3>4, <3>5, <3>6, GreatestIs
    <3>8. PICK k \in 1 .. Count : k = m + 1
      BY <2>3, <3>4
    <3>9. Pending[m + 1].pdst = EntryAt(m).pdst
      <4>1. k - 1 = m
        BY <3>4, <3>8
      <4> QED BY <1>1, <3>8, <4>1
    <3> QED BY <2>6, <3>3, <3>7, <3>9 DEF w, Abstract!HolderAfter
  <2> QED BY <2>5, <2>6
<1> QED BY <1>2 DEF Abstract!CommittedAfter, Abstract!Lregs, Lregs

(* A cycle without allocation or retirement is no step of Renaming. *)
LEMMA QuietStutters ==
    ASSUME TypeOK, TypeOK', NEW x \in Reports, Cycle(<<>>, 0, 0, x)
    PROVE  UNCHANGED <<rrat, Pending>>
<1>1. RobStep(<<>>, 0, x) /\ Batch(<<>>) /\ Count + 0 <= RobEntries /\ Count \in Nat
  BY PendingIs DEF Cycle
<1>2. Count' = Count /\ \A i \in 0 .. Count - 1 : Kept(i, i)
  <2>1. Count' = Count - 0 + Len(<<>>)
    BY RobTypes
  <2>2. \A i \in 0 .. Count' - 1 : i + 0 < Count => Kept(i, i + 0)
    BY <1>1, WindowStep
  <2> QED BY <1>1, <2>1, <2>2
<1>3. rrat' = rrat
  BY QuietFacts
<1>4. \A i \in 1 .. Count : /\ EntryAt(i - 1)'.uop.dst = EntryAt(i - 1).uop.dst
                          /\ EntryAt(i - 1)'.pdst = EntryAt(i - 1).pdst
  BY <1>1, <1>2 DEF Kept
<1>5. Pending' = [i \in 1 .. Count' |-> [dst |-> EntryAt(i - 1)'.uop.dst, pdst |-> EntryAt(i - 1)'.pdst]]
  BY DEF Pending, EntryAt, Count
<1> QED BY <1>2, <1>3, <1>4, <1>5 DEF Pending

(* The faulting instruction leaves the window without committing. *)
LEMMA FaultyDrops ==
    ASSUME TypeOK, TypeOK', NEW x \in Reports, Cycle(<<>>, 1, 0, x)
    PROVE  Abstract!DropFaulting
<1>1. /\ RobStep(<<>>, 1, x) /\ Batch(<<>>) /\ 1 <= Count /\ Count + Len(<<>>) <= RobEntries
      /\ RegStep(<<>>, 0)
  BY DEF Cycle
<1>2. Count \in Nat /\ Pending \in Seq(PendingRecs) /\ Len(Pending) = Count
      /\ \A i \in 1 .. Count : /\ Pending[i].dst = EntryAt(i - 1).uop.dst
                              /\ Pending[i].pdst = EntryAt(i - 1).pdst
  BY PendingIs
<1>3. Pending' \in Seq(PendingRecs) /\ Len(Pending') = Count'
      /\ \A i \in 1 .. Count' : /\ Pending'[i].dst = EntryAt(i - 1)'.uop.dst
                               /\ Pending'[i].pdst = EntryAt(i - 1)'.pdst
  BY PendingIsPrime
<1>4. Count' = Count - 1 /\ \A i \in 0 .. Count' - 1 : Kept(i, i + 1)
  <2>1. Count' = Count - 1 + Len(<<>>)
    BY RobTypes
  <2>2. \A i \in 0 .. Count' - 1 : i + 1 < Count => Kept(i, i + 1)
    BY <1>1, WindowStep
  <2> QED BY <1>2, <2>1, <2>2
<1>5. Pending # <<>>
  BY <1>1, <1>2
<1>6. /\ Tail(Pending) \in Seq(PendingRecs) /\ Len(Tail(Pending)) = Count - 1
      /\ \A i \in 1 .. Count - 1 : Tail(Pending)[i] = Pending[i + 1]
  BY <1>2, <1>5, HeadTailProperties
<1>7. ASSUME NEW i \in 1 .. Count - 1 PROVE Pending'[i] = Pending[i + 1]
  <2>1. Kept(i - 1, i) /\ i + 1 \in 1 .. Count /\ i + 1 - 1 = i /\ i \in 1 .. Count'
    BY <1>2, <1>4
  <2>2. Pending'[i].dst = Pending[i + 1].dst /\ Pending'[i].pdst = Pending[i + 1].pdst
    BY <1>2, <1>3, <2>1 DEF Kept
  <2>3. Pending'[i] \in PendingRecs /\ Pending[i + 1] \in PendingRecs
    BY <1>2, <1>3, <2>1, ElementOfSeq
  <2> QED BY <2>2, <2>3 DEF PendingRecs
<1>8. Pending' = Tail(Pending)
  BY <1>3, <1>4, <1>6, <1>7, SeqEqual
<1>9. rrat' = rrat
  BY <1>1 DEF RegStep
<1> QED BY <1>5, <1>8, <1>9 DEF Abstract!DropFaulting

(* The flash restart forgets what is pending and keeps what is committed. *)
LEMMA RestartRecovers ==
    ASSUME TypeOK', NEW x \in Reports, Restart(x)
    PROVE  Abstract!Recover
<1>1. Count' = 0
  BY SizeAssumption DEF Restart, ClearRob, Count
<1>2. Pending' \in Seq(PendingRecs) /\ Len(Pending') = 0
  BY <1>1, PendingIsPrime
<1>3. Pending' = <<>> /\ rrat' = rrat
  BY <1>2 DEF Restart, RatCopy
<1> QED BY <1>3 DEF Abstract!Recover

\* What a cycle adds to the pending instructions.
Started(al) ==
    [n \in 1 .. Len(al) |-> [dst |-> al[n].dst, pdst |-> IF Writes(al[n]) THEN PrfEntry(n) ELSE 0]]

(* The new instructions write to different registers, and to none that holds a
   committed or a pending value (t_enough_iprfs, find_first_set). *)
LEMMA StartedFresh ==
    ASSUME TypeOK, NoSharing, NEW al, Batch(al), Fits(al)
    PROVE  /\ Started(al) \in Abstract!News(Len(al))
           /\ Started(al) \in Seq(PendingRecs) /\ Len(Started(al)) = Len(al)
           /\ DOMAIN Started(al) = 1 .. Len(al)
           /\ \A n \in 1 .. Len(al) : Started(al)[n].dst # 0 => Started(al)[n].pdst \notin Abstract!Holding
           /\ \A m, n \in 1 .. Len(al) :
                 Started(al)[m].dst # 0 /\ Started(al)[n].dst # 0 /\ m # n =>
                     Started(al)[m].pdst # Started(al)[n].pdst
<1>1. /\ Len(al) \in 0 .. 2 /\ DOMAIN al = 1 .. Len(al)
      /\ \A n \in DOMAIN al : al[n] \in Uops \cup {NoUop}
  BY BatchFacts
<1>2. /\ News(al) \subseteq free
      /\ \A i, j \in DOMAIN al : Writes(al[i]) /\ Writes(al[j]) /\ PrfEntry(i) = PrfEntry(j) => i = j
  BY NewsFree
<1>3. ASSUME NEW n \in 1 .. Len(al)
      PROVE  /\ al[n].dst \in Lregs /\ PrfEntry(n) \in Pregs /\ 0 \in Pregs
             /\ Started(al)[n].dst = al[n].dst
             /\ Started(al)[n].pdst = IF Writes(al[n]) THEN PrfEntry(n) ELSE 0
             /\ Started(al)[n] = [dst |-> al[n].dst, pdst |-> IF Writes(al[n]) THEN PrfEntry(n) ELSE 0]
  <2>1. al[n].dst \in Lregs
    BY <1>1, UopTypes
  <2>2. n \in {1, 2} /\ free \subseteq Pregs
    BY <1>1 DEF TypeOK
  <2>3. PrfEntry(n) \in Pregs
    BY <2>2, PrfEntryFree
  <2> QED BY <2>1, <2>3, SizeAssumption DEF Started, Pregs
<1>4. \A n \in 1 .. Len(al) : Started(al)[n] \in PendingRecs /\ Started(al)[n] \in Abstract!Instrs
  <2> SUFFICES ASSUME NEW n \in 1 .. Len(al)
               PROVE  Started(al)[n] \in PendingRecs /\ Started(al)[n] \in Abstract!Instrs
    OBVIOUS
  <2> DEFINE d == al[n].dst
             p == IF Writes(al[n]) THEN PrfEntry(n) ELSE 0
  <2>1. d \in Lregs /\ p \in Pregs /\ (d = 0 => p = 0)
    BY <1>3 DEF Writes
  <2>2. Started(al)[n] = [dst |-> d, pdst |-> p]
    BY <1>3
  <2> HIDE DEF d, p
  <2>3. [dst |-> d, pdst |-> p] \in PendingRecs
    BY <2>1 DEF PendingRecs
  <2>4. [dst |-> d, pdst |-> p] \in Abstract!Instrs
    BY <2>1 DEF Abstract!Instrs, Abstract!Lregs, Abstract!Pregs, Lregs, Pregs
  <2> QED BY <2>2, <2>3, <2>4
<1>5. DOMAIN Started(al) = 1 .. Len(al) /\ Started(al) = [n \in 1 .. Len(al) |-> Started(al)[n]]
  BY DEF Started
<1>6. Started(al) \in Abstract!News(Len(al))
  <2>1. Started(al) \in [1 .. Len(al) -> Abstract!Instrs]
    BY <1>4, <1>5
  <2> QED BY <1>1, <2>1 DEF Abstract!News
<1>7. Started(al) \in Seq(PendingRecs) /\ Len(Started(al)) = Len(al)
  BY <1>1, <1>4, <1>5
<1>8. ASSUME NEW n \in 1 .. Len(al), Started(al)[n].dst # 0
      PROVE  Writes(al[n]) /\ PrfEntry(n) \in free /\ Started(al)[n].pdst = PrfEntry(n)
  <2>1. Writes(al[n])
    BY <1>3, <1>8 DEF Writes
  <2>2. PrfEntry(n) \in News(al)
    BY <1>1, <2>1 DEF News
  <2> QED BY <1>2, <1>3, <2>1, <2>2
<1>9. Abstract!Holding \subseteq Mapped(rrat) \cup Pdsts
  <2>1. /\ Count \in Nat /\ DOMAIN Pending = 1 .. Count
        /\ \A i \in 1 .. Count : /\ Pending[i].dst = EntryAt(i - 1).uop.dst
                                /\ Pending[i].pdst = EntryAt(i - 1).pdst
    BY PendingIs
  <2>2. ASSUME NEW i \in Abstract!Writers PROVE Pending[i].pdst \in Pdsts
    <3>1. i \in 1 .. Count /\ Pending[i].dst # 0
      BY <2>1 DEF Abstract!Writers
    <3>2. i - 1 \in WritersUpTo(Count)
      BY <2>1, <3>1 DEF WritersUpTo, Writes
    <3> QED BY <2>1, <3>1, <3>2 DEF Pdsts
  <2>3. {rrat[l] : l \in Abstract!Lregs} = Mapped(rrat)
    BY DEF Abstract!Lregs, Lregs, Mapped
  <2> QED BY <2>2, <2>3 DEF Abstract!Holding
<1>10. free \cap (Mapped(rrat) \cup Pdsts) = {}
  BY DEF NoSharing
<1>11. \A n \in 1 .. Len(al) : Started(al)[n].dst # 0 => Started(al)[n].pdst \notin Abstract!Holding
  BY <1>8, <1>9, <1>10
<1>12. ASSUME NEW m \in 1 .. Len(al), NEW n \in 1 .. Len(al),
              Started(al)[m].dst # 0, Started(al)[n].dst # 0, m # n
       PROVE  Started(al)[m].pdst # Started(al)[n].pdst
  BY <1>1, <1>2, <1>8, <1>12
<1> QED BY <1>5, <1>6, <1>7, <1>11, <1>12

(* A cycle that retires what leaves the window commits the oldest instructions
   in order and starts new ones behind the others. *)
LEMMA CycleCommits ==
    ASSUME TypeOK, TypeOK', NoSharing, NEW al, NEW ret \in 0 .. 2, NEW x \in Reports, Fits(al),
           Cycle(al, ret, ret, x)
    PROVE  Abstract!Next
<1> DEFINE new == Started(al)
<1>1. /\ Batch(al) /\ ret <= Count /\ Count + Len(al) <= RobEntries
      /\ RobStep(al, ret, x) /\ RegStep(al, ret)
  BY DEF Cycle
<1>2. /\ new \in Abstract!News(Len(al))
      /\ new \in Seq(PendingRecs) /\ Len(new) = Len(al) /\ DOMAIN new = 1 .. Len(al)
      /\ \A n \in 1 .. Len(al) : new[n].dst # 0 => new[n].pdst \notin Abstract!Holding
      /\ \A m, n \in 1 .. Len(al) :
            new[m].dst # 0 /\ new[n].dst # 0 /\ m # n => new[m].pdst # new[n].pdst
  BY <1>1, StartedFresh
<1>3. \A n \in 1 .. Len(al) : /\ new[n].dst = al[n].dst
                              /\ new[n].pdst = IF Writes(al[n]) THEN PrfEntry(n) ELSE 0
  BY DEF Started
<1> HIDE DEF new
<1>4. Count \in Nat /\ Pending \in Seq(PendingRecs) /\ Len(Pending) = Count
      /\ \A i \in 1 .. Count : /\ Pending[i].dst = EntryAt(i - 1).uop.dst
                              /\ Pending[i].pdst = EntryAt(i - 1).pdst
  BY PendingIs
<1>5. Pending' \in Seq(PendingRecs) /\ Len(Pending') = Count'
      /\ \A i \in 1 .. Count' : /\ Pending'[i].dst = EntryAt(i - 1)'.uop.dst
                               /\ Pending'[i].pdst = EntryAt(i - 1)'.pdst
  BY PendingIsPrime
<1>6. Len(al) \in 0 .. 2
  BY <1>1, BatchFacts
<1>7. /\ Count' = Count - ret + Len(al)
      /\ \A i \in 0 .. Count' - 1 :
            /\ i + ret < Count => Kept(i, i + ret)
            /\ i + ret >= Count => EntryAt(i)' = NewEntry(al, i + ret - Count + 1)
  BY <1>1, WindowStep
<1>8. ASSUME NEW i \in 1 .. Count'
      PROVE  Pending'[i] = IF i <= Count - ret THEN Pending[i + ret] ELSE new[i - (Count - ret)]
  <2>1. i - 1 \in 0 .. Count' - 1 /\ i \in Int /\ Pending'[i] \in PendingRecs
    BY <1>4, <1>5, <1>6, <1>7, ElementOfSeq
  <2>2. CASE i <= Count - ret
    <3>1. PICK j \in 1 .. Count : j = i + ret
      BY <1>4, <2>1, <2>2
    <3>2. Kept(i - 1, j - 1)
      <4>1. i - 1 + ret = j - 1 /\ i - 1 + ret < Count
        BY <1>4, <2>1, <2>2, <3>1
      <4> QED BY <1>7, <2>1, <4>1
    <3>3. Pending'[i].dst = Pending[j].dst /\ Pending'[i].pdst = Pending[j].pdst
      BY <1>4, <1>5, <3>1, <3>2 DEF Kept
    <3>4. Pending[j] \in PendingRecs
      BY <1>4, <3>1, ElementOfSeq
    <3>5. Pending'[i] = Pending[j]
      BY <2>1, <3>3, <3>4 DEF PendingRecs
    <3> QED BY <2>2, <3>1, <3>5
  <2>3. CASE ~(i <= Count - ret)
    <3>1. PICK n \in 1 .. Len(al) : n = i - (Count - ret)
      BY <1>4, <1>6, <1>7, <2>1, <2>3
    <3>2. EntryAt(i - 1)' = NewEntry(al, n)
      <4>1. i - 1 + ret >= Count /\ i - 1 + ret - Count + 1 = n
        BY <1>4, <2>1, <2>3, <3>1
      <4> QED BY <1>7, <2>1, <4>1
    <3>3. EntryAt(i - 1)'.uop = al[n] /\ EntryAt(i - 1)'.pdst = IF Writes(al[n]) THEN PrfEntry(n) ELSE 0
      BY <3>2 DEF NewEntry
    <3>4. new[n] \in PendingRecs
      BY <1>2, <1>6, <3>1, ElementOfSeq
    <3>5. Pending'[i].dst = new[n].dst /\ Pending'[i].pdst = new[n].pdst
      <4>1. new[n].dst = al[n].dst /\ new[n].pdst = IF Writes(al[n]) THEN PrfEntry(n) ELSE 0
        BY <1>3, <3>1
      <4>2. Pending'[i].dst = EntryAt(i - 1)'.uop.dst /\ Pending'[i].pdst = EntryAt(i - 1)'.pdst
        BY <1>5
      <4> QED BY <3>3, <4>1, <4>2
    <3>6. Pending'[i] = new[n]
      BY <2>1, <3>4, <3>5 DEF PendingRecs
    <3> QED BY <2>3, <3>1, <3>6
  <2> QED BY <2>2, <2>3
<1>9. Pending' = SubSeq(Pending, ret + 1, Len(Pending)) \o new
  <2>1. ret \in 0 .. Len(Pending) /\ Len(Pending') = Len(Pending) - ret + Len(new)
    BY <1>1, <1>2, <1>4, <1>5, <1>7
  <2>2. \A i \in 1 .. Len(Pending') :
           Pending'[i] = IF i <= Len(Pending) - ret THEN Pending[i + ret] ELSE new[i - (Len(Pending) - ret)]
    BY <1>4, <1>5, <1>8
  <2>3. Pending \in Seq(PendingRecs) /\ Pending' \in Seq(PendingRecs) /\ new \in Seq(PendingRecs)
    BY <1>2, <1>4, <1>5
  <2> QED BY <2>1, <2>2, <2>3, ShiftedSeq
<1>10. rrat' = Abstract!CommittedAfter(ret)
  <2>1. \A l \in Lregs : rrat'[l] = MapAfter(l, ret)
    BY <1>1, RetireCommits DEF Committed
  <2>2. rrat' = [l \in Lregs |-> MapAfter(l, ret)]
    BY <2>1 DEF TypeOK
  <2> QED BY <1>1, <2>2, WindowCommits
<1>11. Abstract!Advance(ret, new)
  BY <1>1, <1>2, <1>4, <1>9, <1>10 DEF Abstract!Advance
<1>12. Len(Pending') = Len(Pending) - ret + Len(al)
  BY <1>4, <1>5, <1>7
<1>13. ret \in 0 .. 2 /\ Len(al) \in 0 .. 2 /\ new \in Abstract!News(Len(al))
  BY <1>2, <1>6
<1> QED BY <1>11, <1>12, <1>13 DEF Abstract!Next

(* Every step is one of Renaming, or changes nothing that Renaming sees. *)
LEMMA NextRefines ==
    ASSUME SharingInv, ResumesCleanly, BankServes, Next
    PROVE  Abstract!Next \/ UNCHANGED <<rrat, Pending>>
<1>1. IInv /\ TypeOK /\ TypeOK' /\ (NoneLost => NoSharing)
  BY InvNext DEF SharingInv, IInv
<1>2. ASSUME NEW x \in Reports, Cycle(<<>>, 0, 0, x)
      PROVE  UNCHANGED <<rrat, Pending>>
  BY <1>1, <1>2, QuietStutters
<1>3. ASSUME NEW x \in Reports, NEW al, NEW ret \in 0 .. 2, Cycle(al, ret, ret, x), NoneLost
      PROVE  Abstract!Next
  <2>1. Fits(al)
    BY <1>3 DEF Cycle
  <2> QED BY <1>1, <1>3, <2>1, CycleCommits
<1>4. ASSUME NEW x \in Reports, NEW b \in BOOLEAN,
             \/ Interrupt(x) \/ ReachArchFault(x) \/ WriteEpc(x)
             \/ \E u \in Uops : StartSerialize(x, u)
             \/ Drained(x, b) \/ MonitorFlush(x, b) \/ HandleMonitor(x, b)
             \/ WaitForSerialize(x, b) \/ FlushForHalt(x, b) \/ HaltWaitForRestart(x, b)
      PROVE  UNCHANGED <<rrat, Pending>>
  BY <1>1, <1>2, <1>4, QuietActions
<1>5. ASSUME NEW x \in Reports, NEW b \in BOOLEAN, TakeArchFault(x) \/ Halted(x, b) \/ Rat(x, b)
      PROVE  Abstract!Next \/ UNCHANGED <<rrat, Pending>>
  <2>1. Cycle(<<>>, 0, 0, x) \/ Restart(x)
    BY <1>1, <1>5, FaultActions
  <2>2. Restart(x) => Abstract!Next
    BY <1>1, RestartRecovers DEF Abstract!Next
  <2> QED BY <1>2, <2>1, <2>2
<1>6. ASSUME NEW x \in Reports, NEW b \in BOOLEAN, b => MayBeFull,
             AllocForSerialize(x, b) \/ AllocForMonitor(x, b)
      PROVE  Abstract!Next
  <2>1. Cycle(<<serial>>, 0, 0, x)
    BY <1>1, <1>6, SerialActions
  <2>2. NoneLost
    BY <1>1, <1>6, NoneLostFacts DEF IInv, AllocForSerialize, AllocForMonitor
  <2> QED BY <1>3, <2>1, <2>2
<1>7. ASSUME NEW x \in Reports, NEW b \in BOOLEAN, WaitForMonitor(x, b)
      PROVE  Abstract!Next \/ UNCHANGED <<rrat, Pending>>
  <2>1. /\ NoneLost
        /\ Cycle(<<>>, 1, 1, x) \/ Cycle(<<>>, 0, 0, x)
    BY <1>1, <1>7, MonitorRetires
  <2> QED BY <1>2, <1>3, <2>1
<1>8. ASSUME NEW x \in Reports, RetireMispredict(x)
      PROVE  Abstract!Next
  <2>1. Cycle(<<>>, 1, 1, x)
    BY <1>1, <1>8, MispredictRetires
  <2>2. NoneLost
    BY <1>1, <1>8, NoneLostFacts DEF IInv, RetireMispredict
  <2> QED BY <1>3, <2>1, <2>2
<1>9. ASSUME NEW x \in Reports, WriteCause(x)
      PROVE  Abstract!Next
  <2>1. Cycle(<<>>, 1, 0, x)
    BY <1>1, <1>9, FaultyLeaves
  <2> QED BY <1>1, <2>1, FaultyDrops DEF Abstract!Next
<1>10. ASSUME NEW x \in Reports, NEW al \in AllocChoices, Stream(x, al)
       PROVE  Abstract!Next
  <2>1. \E ret \in 0 .. 2 : Cycle(al, ret, ret, x)
    BY <1>1, <1>10, StreamKeeps
  <2>2. NoneLost
    BY <1>1, <1>10, NoneLostFacts DEF IInv, Stream, Retire, Allocate
  <2> QED BY <1>3, <2>1, <2>2
<1>11. TRUE \in BOOLEAN
  OBVIOUS
<1> QED BY <1>4, <1>5, <1>6, <1>7, <1>8, <1>9, <1>10, <1>11 DEF Next, Control

(* The engine implements precise renaming: for every stream of uops, of
   reports and of faults, what it commits is what the instructions in program
   order commit, up to the last recovery, as long as the selected bank serves
   every serializing uop. *)
THEOREM RenamingRefined ==
    ASSUME ResumesCleanly
    PROVE  Spec /\ []BankServes => RenamesPrecisely
<1>1. Init => Abstract!Init
  <2> SUFFICES ASSUME Init PROVE Abstract!Init
    OBVIOUS
  <2>1. Count = 0
    BY SizeAssumption DEF Init, Count
  <2>2. Pending = <<>>
    BY <2>1 DEF Pending
  <2> QED BY <2>2 DEF Init, Abstract!Init, Abstract!Lregs, Lregs
<1>2. SharingInv /\ BankServes /\ [Next]_vars => [Abstract!Next]_(Abstract!vars)
  <2> SUFFICES ASSUME SharingInv, BankServes, [Next]_vars PROVE Abstract!Next \/ UNCHANGED <<rrat, Pending>>
    BY DEF Abstract!vars
  <2>1. CASE Next
    BY <2>1, NextRefines
  <2>2. CASE UNCHANGED vars
    BY <2>2 DEF vars, robVars, regVars, ctlVars, Pending, Count, EntryAt
  <2> QED BY <2>1, <2>2
<1> QED BY <1>1, <1>2, SharingInvariant, PTL DEF Spec, RenamesPrecisely, Abstract!Spec
=============================================================================
