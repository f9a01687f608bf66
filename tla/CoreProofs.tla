----------------------------- MODULE CoreProofs -----------------------------
(***************************************************************************)
(* The safety theorems of Core, for every number of registers, slots and   *)
(* branches and for every stream of uops.                                  *)
(***************************************************************************)
EXTENDS CoreWindow

\* The environment resumes the core after a breakpoint only.
ResumesCleanly == ResumeAfter \subseteq {"brk"}

\* A serializing uop takes its register from the selected bank, but r_prf_free
\* is only tested for a register of either.  This says of a state that the
\* selected bank has one; it is no property of the program (MCCoreSerialBank),
\* and the theorems that need it are about behaviors up to a state without it.
BankServes ==
    state \in {"ALLOC_FOR_SERIALIZE", "ALLOC_FOR_MONITOR"} /\ Writes(serial) =>
        free \cap Bank(1) # {}

\* What would make it hold for good: no serializing uop that writes a register,
\* or a bank that the committed map cannot fill.
BanksSuffice ==
    \/ \A u \in Uops : Serializing(u) => ~Writes(u)
    \/ NumPregs >= 2 * NumLregs + 2

\* A cycle of the datapath, in which r of the ret leaving entries commit.
Cycle(al, ret, r, x) ==
    /\ Batch(al) /\ ret \in 0 .. 2 /\ r \in 0 .. 2
    /\ ret <= Count /\ Count + Len(al) <= RobEntries
    /\ r = ret \/ (r = 0 /\ ret = 1 /\ (NoneLost => ~Writes(RobHead.uop)))
    /\ NoneLost \/ r = 0
    /\ Gone(ret) \subseteq complete
    /\ BankServes => Fits(al)
    /\ RobStep(al, ret, x) /\ RegStep(al, r) /\ InflightStep(al, x)
    /\ bankSel' = ~bankSel

\* A cycle of the flash restart.
Restart(x) ==
    /\ state = "RAT"
    /\ ClearRob /\ RatCopy /\ InflightStep(<<>>, x)
    /\ bankSel' = ~bankSel

-----------------------------------------------------------------------------
(* Execution reports on slots of the buffer only (Reports). *)
LEMMA ReportFacts ==
    ASSUME NEW x \in Reports
    PROVE  /\ x.done \subseteq inflight /\ x.faulted \subseteq x.done
           /\ x.sd \subseteq RobSlots
<1>1. PICK d \in Completions :
        x \in [done : {d},
            faulted : {f \in SUBSET {s \in d : MayFault(rob[s].uop)} :
                         \A s \in d : rob[s].uop.op = "brk" => s \in f},
            sd : {{}} \cup {{s} : s \in AwaitData},
            killed : IF dsDone THEN SUBSET (inflight \ d) ELSE {{}}]
  BY DEF Reports
<1>2. /\ x.done \in {d} /\ x.sd \in {{}} \cup {{s} : s \in AwaitData}
      /\ x.faulted \in {f \in SUBSET {s \in d : MayFault(rob[s].uop)} :
                         \A s \in d : rob[s].uop.op = "brk" => s \in f}
  <2> DEFINE F == {f \in SUBSET {s \in d : MayFault(rob[s].uop)} :
                         \A s \in d : rob[s].uop.op = "brk" => s \in f}
             D == {{}} \cup {{s} : s \in AwaitData}
             K == IF dsDone THEN SUBSET (inflight \ d) ELSE {{}}
  <2>1. x \in [done : {d}, faulted : F, sd : D, killed : K]
    BY <1>1
  <2> HIDE DEF F, D, K
  <2>2. x.done \in {d} /\ x.sd \in D /\ x.faulted \in F
    BY <2>1
  <2> QED BY <2>2 DEF F, D
<1>3. d \subseteq inflight
  BY DEF Completions
<1>4. x.sd \subseteq RobSlots
  BY <1>2 DEF AwaitData
<1> QED BY <1>2, <1>3, <1>4

(* The slots of the buffer are slots. *)
LEMMA RobSlotsAre ==
    ASSUME TypeOK
    PROVE  RobSlots \subseteq Slots /\ (Count = 0 => RobSlots = {})
<1>1. head \in Ptrs /\ Count \in 0 .. RobEntries
  BY PointerTypes DEF TypeOK
<1>2. ASSUME NEW i \in 0 .. Count - 1 PROVE Slot(Plus(head, i)) \in Slots
  BY <1>1, PointerTypes, SizeAssumption
<1>3. Count = 0 => 0 .. Count - 1 = {}
  BY <1>1
<1> QED BY <1>2, <1>3 DEF RobSlots

(* The entries that a cycle allocates, by the slot they go to. *)
LEMMA NewSlotsHold ==
    ASSUME TypeOK, NEW al, Batch(al), NEW ret, NEW x, RobStep(al, ret, x)
    PROVE  /\ NewSlots(al) \subseteq Slots
           /\ \A n \in DOMAIN al : /\ Slot(Plus(tail, n - 1)) \in NewSlots(al)
                                  /\ rob'[Slot(Plus(tail, n - 1))] = NewEntry(al, n)
           /\ \A s \in NewSlots(al) :
                \E n \in DOMAIN al : s = Slot(Plus(tail, n - 1)) /\ rob'[s] = NewEntry(al, n)
<1>1. DOMAIN al \subseteq {1, 2} /\ tail \in Ptrs
  BY BatchFacts DEF TypeOK
<1>2. Plus(tail, 0) = tail
  BY <1>1, Pointers, SizeAssumption DEF Ptrs
<1>3. Slot(Plus(tail, 0)) # Slot(Plus(tail, 1))
  BY <1>1, SlotsDiffer, SizeAssumption
<1>4. Slot(Plus(tail, 0)) \in Slots /\ Slot(Plus(tail, 1)) \in Slots
  BY <1>1, PointerTypes, SizeAssumption
<1>5. ASSUME NEW n \in DOMAIN al
      PROVE  /\ Slot(Plus(tail, n - 1)) \in NewSlots(al)
             /\ Slot(Plus(tail, n - 1)) \in Slots
             /\ rob'[Slot(Plus(tail, n - 1))] = NewEntry(al, n)
  <2>1. Slot(Plus(tail, n - 1)) \in NewSlots(al)
    BY DEF NewSlots
  <2>2. \A s \in Slots : s \in NewSlots(al) =>
            rob'[s] = NewEntry(al, IF s = Slot(tail) THEN 1 ELSE 2)
    BY DEF RobStep
  <2>3. CASE n = 1
    <3>1. n - 1 = 0
      BY <2>3
    <3> QED BY <1>2, <1>4, <2>1, <2>2, <2>3, <3>1
  <2>4. CASE n = 2
    <3>1. n - 1 = 1
      BY <2>4
    <3> QED BY <1>2, <1>3, <1>4, <2>1, <2>2, <2>4, <3>1
  <2> QED BY <1>1, <2>3, <2>4
<1> QED BY <1>5 DEF NewSlots

(* A cycle keeps the types of the reorder buffer and its pointers. *)
LEMMA RobTypes ==
    ASSUME TypeOK, NEW al, NEW ret, NEW r, NEW x \in Reports, Cycle(al, ret, r, x)
    PROVE  /\ head' \in Ptrs /\ tail' \in Ptrs /\ Count' = Count - ret + Len(al)
           /\ Count' <= RobEntries
           /\ rob' \in [Slots -> Entries]
           /\ complete' \subseteq Slots /\ sdComplete' \subseteq Slots
           /\ bobHead' \in BobPtrs /\ bobTail' \in BobPtrs
<1>1. /\ Batch(al) /\ ret \in 0 .. 2 /\ ret <= Count /\ Count + Len(al) <= RobEntries
      /\ RobStep(al, ret, x)
  BY DEF Cycle
<1>2. Len(al) \in 0 .. 2 /\ \A n \in DOMAIN al : al[n] \in Uops \cup {NoUop}
  BY <1>1, BatchFacts
<1>3. head \in Ptrs /\ tail \in Ptrs /\ Count \in 0 .. RobEntries
  BY PointerTypes DEF TypeOK
<1>4. head' \in Ptrs /\ tail' \in Ptrs /\ Count' = Count - ret + Len(al)
  <2>1. head' = Plus(head, ret) /\ tail' = Plus(tail, Len(al))
    BY <1>1 DEF RobStep
  <2> QED BY <1>1, <1>2, <1>3, <2>1, PointersMove
<1>5. Count' <= RobEntries
  BY <1>1, <1>2, <1>3, <1>4, SizeAssumption
<1>6. ASSUME NEW s \in Slots PROVE rob'[s] \in Entries
  <2>1. CASE s \in NewSlots(al)
    <3>1. PICK n \in DOMAIN al : rob'[s] = NewEntry(al, n)
      BY <1>1, <2>1, NewSlotsHold
    <3>2. n \in {1, 2} /\ al[n] \in Uops \cup {NoUop} /\ al[n].dst \in Lregs
      BY <1>1, <1>2, BatchFacts, UopTypes
    <3>3. PrfEntry(n) \in Pregs /\ PrfEntry(1) \in Pregs /\ arat \in [Lregs -> Pregs]
      BY <3>2, PrfEntryFree DEF TypeOK
    <3>4. 0 \in Pregs
      BY SizeAssumption DEF Pregs
    <3> QED BY <3>1, <3>2, <3>3, <3>4 DEF NewEntry, Entries, IsIllegal
  <2>2. CASE s \notin NewSlots(al) /\ s \in Gone(ret)
    <3>1. rob'[s] = NoEntry
      BY <1>1, <2>2 DEF RobStep
    <3>2. 0 \in Pregs
      BY SizeAssumption DEF Pregs
    <3> QED BY <3>1, <3>2 DEF NoEntry, Entries
  <2>3. CASE s \notin NewSlots(al) /\ s \notin Gone(ret)
    <3>1. rob[s] \in Entries
      BY DEF TypeOK
    <3>2. PICK b \in BOOLEAN : rob'[s] = [rob[s] EXCEPT !.faulted = b]
      <4>1. rob'[s] = [rob[s] EXCEPT !.faulted =
                         IF s \in x.done /\ s \in RobSlots THEN s \in x.faulted ELSE @]
        BY <1>1, <2>3 DEF RobStep
      <4>2. rob[s].faulted \in BOOLEAN /\ (s \in x.faulted) \in BOOLEAN
        BY <3>1 DEF Entries
      <4>3. CASE s \in x.done /\ s \in RobSlots
        <5>1. rob'[s] = [rob[s] EXCEPT !.faulted = s \in x.faulted]
          BY <4>1, <4>3
        <5> QED BY <4>2, <5>1, Zenon
      <4>4. CASE ~(s \in x.done /\ s \in RobSlots)
        <5>1. rob'[s] = [rob[s] EXCEPT !.faulted = rob[s].faulted]
          BY <4>1, <4>4
        <5> QED BY <4>2, <5>1, Zenon
      <4> QED BY <4>3, <4>4
    <3> QED BY <3>1, <3>2 DEF Entries
  <2> QED BY <2>1, <2>2, <2>3
<1>7. rob' \in [Slots -> Entries]
  <2>1. rob' = [s \in Slots |-> rob'[s]]
    BY <1>1 DEF RobStep
  <2> QED BY <1>6, <2>1
<1>8. x.done \subseteq Slots /\ x.sd \subseteq Slots /\ NewSlots(al) \subseteq Slots
  BY <1>1, ReportFacts, RobSlotsAre, NewSlotsHold DEF TypeOK
<1>9. complete' \subseteq Slots /\ sdComplete' \subseteq Slots
  <2>1. complete' \subseteq complete \cup NewSlots(al) \cup x.done
    BY <1>1 DEF RobStep
  <2>2. sdComplete' \subseteq sdComplete \cup x.sd \cup NewSlots(al)
    BY <1>1 DEF RobStep
  <2> QED BY <1>8, <2>1, <2>2 DEF TypeOK
<1>10. bobHead' \in BobPtrs /\ bobTail' \in BobPtrs
  <2>1. \A p \in BobPtrs, b \in 0 .. 1 : BobPlus(p, b) \in BobPtrs
    BY SizeAssumption DEF BobPtrs, BobPlus
  <2>2. BobRetired(ret) \in 0 .. 1
    BY DEF BobRetired
  <2>3. bobHead \in BobPtrs /\ bobTail \in BobPtrs
    BY DEF TypeOK
  <2>4. bobHead' = BobPlus(bobHead, BobRetired(ret))
    BY <1>1 DEF RobStep
  <2>5. \E b \in 0 .. 1 : bobTail' = BobPlus(bobTail, b)
    BY <1>1 DEF RobStep
  <2> QED BY <2>1, <2>2, <2>3, <2>4, <2>5
<1> QED BY <1>4, <1>5, <1>7, <1>9, <1>10

-----------------------------------------------------------------------------
(* A cycle keeps the types of the maps, the free lists and the in-flight set. *)
LEMMA RegTypes ==
    ASSUME TypeOK, NEW al, NEW ret, NEW r, NEW x \in Reports, Cycle(al, ret, r, x)
    PROVE  /\ arat' \in [Lregs -> Pregs] /\ rrat' \in [Lregs -> Pregs]
           /\ free' \subseteq Pregs /\ rfree' \subseteq Pregs
           /\ inflight' \subseteq Slots /\ bankSel' \in BOOLEAN
<1>1. /\ Batch(al) /\ r \in 0 .. 2 /\ RegStep(al, r) /\ RobStep(al, ret, x)
      /\ InflightStep(al, x) /\ bankSel' = ~bankSel
  BY DEF Cycle
<1>2. DOMAIN al \subseteq {1, 2}
  BY <1>1, BatchFacts
<1>3. /\ arat \in [Lregs -> Pregs] /\ rrat \in [Lregs -> Pregs]
      /\ free \in SUBSET Pregs /\ rfree \in SUBSET Pregs
      /\ inflight \subseteq Slots /\ head \in Ptrs
  BY DEF TypeOK
<1>4. PrfEntry(1) \in Pregs /\ PrfEntry(2) \in Pregs
  BY <1>3, PrfEntryFree
<1>5. RobHead \in Entries /\ RobNextHead \in Entries
  <2>1. 0 \in 0 .. RobEntries + 1 /\ 1 \in 0 .. RobEntries + 1
    BY SizeAssumption
  <2> QED BY <1>3, <2>1, EntryTypes, HeadEntries
<1>6. arat' \in [Lregs -> Pregs]
  BY <1>1, <1>3, <1>4 DEF RegStep, NewMap
<1>7. \A e \in Entries, m \in [Lregs -> Pregs], f \in SUBSET Pregs :
        CommitMap(e, m) \in [Lregs -> Pregs] /\ CommitFree(e, f) \in SUBSET Pregs
  BY DEF Entries, CommitMap, CommitFree
<1>8. rrat' \in [Lregs -> Pregs] /\ rfree' \in SUBSET Pregs
  <2>1. /\ rrat' = IF r = 0 THEN rrat ELSE IF r = 1 THEN CommitMap(RobHead, rrat)
                   ELSE CommitMap(RobNextHead, CommitMap(RobHead, rrat))
        /\ rfree' = IF r = 0 THEN rfree ELSE IF r = 1 THEN CommitFree(RobHead, rfree)
                    ELSE CommitFree(RobNextHead, CommitFree(RobHead, rfree))
    BY <1>1 DEF RegStep, Retirees
  <2>2. CommitMap(RobHead, rrat) \in [Lregs -> Pregs] /\ CommitFree(RobHead, rfree) \in SUBSET Pregs
    BY <1>3, <1>5, <1>7
  <2>3. /\ CommitMap(RobNextHead, CommitMap(RobHead, rrat)) \in [Lregs -> Pregs]
        /\ CommitFree(RobNextHead, CommitFree(RobHead, rfree)) \in SUBSET Pregs
    BY <1>5, <1>7, <2>2
  <2> QED BY <1>3, <2>1, <2>2, <2>3
<1>9. free' \subseteq Pregs
  <2> DEFINE q == Retirees(r)
  <2>1. free' \subseteq free \cup {q[n].old : n \in DOMAIN q}
    BY <1>1 DEF RegStep
  <2>2. \A n \in DOMAIN q : q[n] \in Entries
    BY <1>5 DEF Retirees
  <2> HIDE DEF q
  <2> QED BY <1>3, <2>1, <2>2 DEF Entries
<1>10. inflight' \subseteq Slots
  <2>1. \A n \in DOMAIN al : Slot(Plus(tail, n - 1)) \in Slots
    BY <1>1, NewSlotsHold
  <2> QED BY <1>1, <1>3, <2>1 DEF InflightStep
<1> QED BY <1>1, <1>6, <1>8, <1>9, <1>10

(* Whatever cycle, the part of TypeOK that the FSM does not keep holds. *)
DataTypes ==
    /\ head \in Ptrs /\ tail \in Ptrs /\ Count <= RobEntries
    /\ rob \in [Slots -> Entries]
    /\ complete \subseteq Slots /\ sdComplete \subseteq Slots
    /\ inflight \subseteq Slots
    /\ arat \in [Lregs -> Pregs] /\ rrat \in [Lregs -> Pregs]
    /\ free \subseteq Pregs /\ rfree \subseteq Pregs
    /\ bankSel \in BOOLEAN
    /\ bobHead \in BobPtrs /\ bobTail \in BobPtrs

(* The flash restart keeps the types, too. *)
LEMMA RestartTypes ==
    ASSUME TypeOK, NEW x \in Reports, Restart(x)
    PROVE  DataTypes'
<1>1. 0 \in Ptrs /\ 0 \in BobPtrs /\ 0 \in Pregs
  BY SizeAssumption DEF Ptrs, BobPtrs, Pregs
<1>2. head' = 0 /\ tail' = 0 /\ bobHead' = 0 /\ bobTail' = 0
  BY DEF Restart, ClearRob
<1>3. Count' = 0
  BY <1>2, SizeAssumption DEF Count
<1>4. rob' \in [Slots -> Entries] /\ complete' = {} /\ sdComplete' = {}
  BY <1>1 DEF Restart, ClearRob, NoEntry, Entries
<1>5. inflight' \subseteq inflight
  BY DEF Restart, InflightStep
<1>6. arat' = rrat /\ free' = rfree /\ rrat' = rrat /\ rfree' = rfree /\ bankSel' = ~bankSel
  BY DEF Restart, RatCopy
<1> QED BY <1>1, <1>2, <1>3, <1>4, <1>5, <1>6, SizeAssumption DEF TypeOK, DataTypes

-----------------------------------------------------------------------------
(* Every slot that execution holds is in the buffer and not complete: a report
   takes it out as it completes the entry, and what retires has completed. *)
LEMMA InflightStays ==
    ASSUME TypeOK, inflight \subseteq RobSlots \ complete,
           NEW al, NEW ret, NEW r, NEW x \in Reports, Cycle(al, ret, r, x)
    PROVE  inflight' \subseteq RobSlots' \ complete'
<1>1. /\ Batch(al) /\ ret \in 0 .. 2 /\ ret <= Count /\ Count + Len(al) <= RobEntries
      /\ RobStep(al, ret, x) /\ InflightStep(al, x) /\ Gone(ret) \subseteq complete
  BY DEF Cycle
<1>2. /\ RobSlots' = (RobSlots \ Gone(ret)) \cup NewSlots(al)
      /\ RobSlots \cap NewSlots(al) = {}
  BY <1>1, WindowStep
<1>3. x.done \subseteq inflight
  BY ReportFacts
<1>4. complete' = (complete \ {s \in NewSlots(al) : ~Fold(rob'[s].uop)})
                     \cup {s \in NewSlots(al) : Fold(rob'[s].uop)} \cup x.done
  BY <1>1 DEF RobStep
<1>5. ASSUME NEW s \in inflight, s \notin x.done
      PROVE  s \in RobSlots' \ complete'
  BY <1>1, <1>2, <1>4, <1>5
<1>6. ASSUME NEW n \in DOMAIN al, ~Fold(al[n])
      PROVE  Slot(Plus(tail, n - 1)) \in RobSlots' \ complete'
  <2> DEFINE s == Slot(Plus(tail, n - 1))
  <2>1. s \in NewSlots(al) /\ rob'[s] = NewEntry(al, n)
    BY <1>1, NewSlotsHold
  <2>2. rob'[s].uop = al[n]
    BY <2>1 DEF NewEntry
  <2> HIDE DEF s
  <2>3. s \in RobSlots' \ complete'
    BY <1>2, <1>3, <1>4, <1>6, <2>1, <2>2
  <2> QED BY <2>3 DEF s
<1>7. inflight' \subseteq (inflight \ x.done)
          \cup {Slot(Plus(tail, n - 1)) : n \in {m \in DOMAIN al : ~Fold(al[m])}}
  BY <1>1 DEF InflightStep
<1> QED BY <1>5, <1>6, <1>7

(* A cycle of the datapath moves the window. *)
LEMMA CycleAdvances ==
    ASSUME NoneLost, NEW al, NEW ret, NEW r, NEW x, Cycle(al, ret, r, x)
    PROVE  Advance(al, ret, r, x)
BY DEF Cycle, Advance

(* It keeps what is known of the window. *)
LEMMA WindowStays ==
    ASSUME TypeOK, NoneLost, WindowInv,
           NEW al, NEW ret, NEW r, NEW x \in Reports, Cycle(al, ret, r, x)
    PROVE  WindowInv'
<1>1. Advance(al, ret, r, x)
  BY CycleAdvances
<1>2. inflight' \subseteq RobSlots' \ complete'
  BY InflightStays DEF WindowInv
<1>3. MapTracksBuffer'
  <2>1. arat' = NewMap(al) /\ Committed(ret)
    BY <1>1, RegFacts
  <2> QED BY <1>1, <2>1, RenameStep DEF Advance, WindowInv
<1>4. NoLeak'
  BY <1>1, NoLeakStep DEF WindowInv
<1> QED BY <1>2, <1>3, <1>4 DEF WindowInv

(* It keeps the registers apart. *)
LEMMA SharingStays ==
    ASSUME TypeOK, NoneLost, WindowInv, NoSharing, BankServes,
           NEW al, NEW ret, NEW r, NEW x, Cycle(al, ret, r, x)
    PROVE  NoSharing'
<1>1. Advance(al, ret, r, x) /\ Fits(al)
  BY CycleAdvances DEF Cycle
<1> QED BY <1>1, NoSharingStep DEF WindowInv

(* What an empty buffer makes of the invariants. *)
LEMMA EmptyWindow ==
    ASSUME Count' = 0
    PROVE  /\ RobSlots' = {} /\ WritersUpTo(Count)' = {} /\ Pdsts' = {}
           /\ \A l \in Lregs : MapAfter(l, Count)' = rrat'[l]
<1>1. 0 .. Count' - 1 = {}
  OBVIOUS
<1>2. WritersUpTo(Count)' = {}
  BY <1>1 DEF WritersUpTo
<1>3. ASSUME NEW l \in Lregs PROVE MapAfter(l, Count)' = rrat'[l]
  <2>1. WritersOf(l, 0)' = {}
    BY MapAfterDefPrime
  <2>2. MapAfter(l, 0)' = rrat'[l]
    BY <2>1, MapAfterDefPrime
  <2>3. MapAfter(l, Count)' = MapAfter(l, 0)'
    BY DEF MapAfter, WritersUpTo
  <2> QED BY <2>2, <2>3
<1> QED BY <1>1, <1>2, <1>3 DEF RobSlots, Pdsts

(* The flash restart empties the buffer and falls back on what has retired
   (t_clr_rob, t_rat_copy). *)
LEMMA RestartWindow ==
    ASSUME TypeOK, ControlInv, WindowInv, NEW x \in Reports, Restart(x)
    PROVE  WindowInv' /\ (NoSharing => NoSharing') /\ Count' = 0 /\ inflight' = {}
<1>1. Count' = 0 /\ head' = 0 /\ tail' = 0
  BY SizeAssumption DEF Restart, ClearRob, Count
<1>2. inflight' = {}
  BY DEF Restart, ControlInv, InflightStep
<1>3. arat' = rrat /\ free' = rfree /\ rrat' = rrat /\ rfree' = rfree
  BY DEF Restart, RatCopy
<1>4. /\ WritersUpTo(Count)' = {} /\ Pdsts' = {}
      /\ \A l \in Lregs : MapAfter(l, Count)' = rrat'[l]
  BY <1>1, EmptyWindow
<1>5. MapTracksBuffer'
  BY <1>3, <1>4 DEF MapTracksBuffer
<1>6. NoLeak'
  BY <1>3 DEF WindowInv, NoLeak, Mapped
<1>7. NoSharing => NoSharing'
  BY <1>3, <1>4 DEF NoSharing, Mapped, Injective
<1> QED BY <1>1, <1>2, <1>5, <1>6, <1>7 DEF WindowInv

(* A cycle that neither allocates nor retires leaves the window where it is. *)
LEMMA QuietFacts ==
    ASSUME TypeOK, NEW x \in Reports, Cycle(<<>>, 0, 0, x)
    PROVE  /\ head' = head /\ tail' = tail /\ Count' = Count /\ (Empty' <=> Empty)
           /\ Slot(head)' = Slot(head) /\ RobHead'.uop = RobHead.uop
           /\ complete \subseteq complete' /\ inflight' \subseteq inflight
           /\ rrat' = rrat /\ rfree' = rfree
<1>1. RobStep(<<>>, 0, x) /\ InflightStep(<<>>, x) /\ RegStep(<<>>, 0)
  BY DEF Cycle
<1>2. head \in Ptrs /\ tail \in Ptrs
  BY DEF TypeOK
<1>3. head' = head /\ tail' = tail
  <2>1. \A p \in Ptrs : Plus(p, 0) = p
    BY Pointers, SizeAssumption DEF Ptrs
  <2> QED BY <1>1, <1>2, <2>1 DEF RobStep
<1>4. NewSlots(<<>>) = {} /\ Gone(0) = {}
  BY DEF NewSlots, Gone
<1>5. \A s \in Slots : rob'[s].uop = rob[s].uop
  BY <1>1, <1>4 DEF RobStep, TypeOK, Entries
<1>6. RobHead'.uop = RobHead.uop
  BY <1>2, <1>3, <1>5, PointerTypes DEF RobHead
<1>7. complete \subseteq complete' /\ inflight' \subseteq inflight
  BY <1>1, <1>4 DEF RobStep, InflightStep
<1>8. rrat' = rrat /\ rfree' = rfree
  BY <1>1 DEF RegStep
<1> QED BY <1>3, <1>6, <1>7, <1>8 DEF Count, Empty, Slot

-----------------------------------------------------------------------------
(* What allocation chooses has a slot, and a register in its bank (t_alloc,
   t_alloc_two). *)
LEMMA AllocFacts ==
    ASSUME TypeOK, NEW al \in AllocChoices
    PROVE  Batch(al) /\ Fits(al) /\ Count + Len(al) <= RobEntries
<1>1. PICK dq \in Offers, uqFull \in BOOLEAN, uqNextFull \in BOOLEAN :
        al = Allocs(dq, uqFull, uqNextFull)
  BY DEF AllocChoices
<1>2. /\ Count \in 0 .. RobEntries
      /\ Full <=> Count = RobEntries
      /\ ~Full => (NextFull <=> Count + 1 = RobEntries)
  BY Occupancy, PointerTypes DEF TypeOK
<1>3. dq \in Seq(Uops \cup {NoUop}) /\ Len(dq) <= 2
  <2>1. CASE dq = <<>>
    BY <2>1
  <2>2. ASSUME NEW u \in Uops, dq = <<u>>
        PROVE  dq \in Seq(Uops \cup {NoUop}) /\ Len(dq) <= 2
    BY <2>2
  <2>3. ASSUME NEW u \in Uops, NEW v \in Uops, dq = <<u, v>>
        PROVE  dq \in Seq(Uops \cup {NoUop}) /\ Len(dq) <= 2
    BY <2>3
  <2>4. ASSUME dq \in Uops \X Uops
        PROVE  dq \in Seq(Uops \cup {NoUop}) /\ Len(dq) <= 2
    <3>1. dq = <<dq[1], dq[2]>> /\ dq[1] \in Uops /\ dq[2] \in Uops
      BY <2>4
    <3> QED BY <2>3, <3>1
  <2> QED BY <2>1, <2>2, <2>4 DEF Offers
<1>4. CASE al = <<>>
  BY <1>2, <1>4 DEF Batch, Fits
<1>5. CASE al = <<dq[1]>> /\ CanAlloc(dq, uqFull)
  <2>1. Batch(al) /\ Len(al) = 1 /\ DOMAIN al = {1} /\ al[1] = dq[1]
    BY <1>3, <1>5 DEF CanAlloc, Batch
  <2>2. ~Full /\ Enough(dq[1], 1)
    BY <1>5 DEF CanAlloc
  <2>3. Fits(al)
    BY <2>1, <2>2 DEF Fits, Enough
  <2> QED BY <1>2, <2>1, <2>2, <2>3, SizeAssumption
<1>6. CASE al = dq /\ CanAlloc(dq, uqFull) /\ CanAllocTwo(dq, uqNextFull)
  <2>1. Len(al) = 2 /\ DOMAIN al = {1, 2}
    BY <1>3, <1>6 DEF CanAllocTwo
  <2>2. ~Full /\ Enough(al[1], 1) /\ ~NextFull /\ Enough(al[2], 2)
    BY <1>6 DEF CanAlloc, CanAllocTwo
  <2>3. Fits(al)
    BY <2>1, <2>2 DEF Fits, Enough
  <2>4. Batch(al)
    BY <1>3, <1>6 DEF Batch
  <2> QED BY <1>2, <2>1, <2>2, <2>3, <2>4, SizeAssumption
<1> QED BY <1>1, <1>4, <1>5, <1>6 DEF Allocs

(* The committed map holds NumLregs registers: of more than that many, one is
   elsewhere. *)
LEMMA OneIsNotMapped ==
    ASSUME TypeOK, NEW m \in Nat, m >= NumLregs, NEW g \in [0 .. m -> Pregs],
           \A j, k \in 0 .. m : g[j] = g[k] => j = k
    PROVE  \E k \in 0 .. m : g[k] \notin Mapped(rrat)
<1> SUFFICES ASSUME \A k \in 0 .. m : g[k] \in Mapped(rrat) PROVE FALSE
  OBVIOUS
<1> DEFINE f == [k \in 0 .. m |-> CHOOSE l \in Lregs : rrat[l] = g[k]]
<1>1. \A k \in 0 .. m : f[k] \in Lregs /\ rrat[f[k]] = g[k]
  BY DEF Mapped
<1>2. f \in [0 .. m -> Lregs]
  BY <1>1
<1>3. /\ IsFiniteSet(0 .. m) /\ Cardinality(0 .. m) = m + 1
      /\ IsFiniteSet(Lregs) /\ Cardinality(Lregs) = NumLregs
  <2>1. 0 \in Int /\ m \in Int /\ NumLregs - 1 \in Int /\ NumLregs > 0
    BY SizeAssumption
  <2>2. /\ IsFiniteSet(0 .. m)
        /\ Cardinality(0 .. m) = IF 0 > m THEN 0 ELSE m - 0 + 1
    BY <2>1, FS_Interval, Zenon
  <2>3. /\ IsFiniteSet(0 .. NumLregs - 1)
        /\ Cardinality(0 .. NumLregs - 1)
             = IF 0 > NumLregs - 1 THEN 0 ELSE NumLregs - 1 - 0 + 1
    BY <2>1, FS_Interval, Zenon
  <2> QED BY <2>1, <2>2, <2>3, SizeAssumption DEF Lregs
<1>4. Cardinality(Lregs) < Cardinality(0 .. m)
  BY <1>3, SizeAssumption
<1> HIDE DEF f
<1>5. PICK j, k \in 0 .. m : j # k /\ f[j] = f[k]
  BY <1>2, <1>3, <1>4, FS_PigeonHole
<1> QED BY <1>1, <1>5

(* With an empty buffer some register is free, and when a bank has more
   registers than the committed map, one of that bank is. *)
LEMMA FreeWhenEmpty ==
    ASSUME TypeOK, NoLeak, Empty
    PROVE  /\ free # {}
           /\ NumPregs >= 2 * NumLregs + 2 => free \cap Bank(1) # {}
<1>1. Count = 0
  BY Occupancy DEF TypeOK
<1>2. Pregs \subseteq free \cup Mapped(rrat)
  <2>1. Pdsts = {}
    BY <1>1 DEF Pdsts, WritersUpTo
  <2> QED BY <2>1 DEF NoLeak
<1>3. free # {}
  <2> DEFINE g == [k \in 0 .. NumLregs |-> k]
  <2>1. /\ NumLregs \in Nat /\ NumLregs >= NumLregs /\ g \in [0 .. NumLregs -> Pregs]
        /\ \A j, k \in 0 .. NumLregs : g[j] = g[k] => j = k
    BY SizeAssumption DEF Pregs
  <2> HIDE DEF g
  <2>2. \E k \in 0 .. NumLregs : g[k] \notin Mapped(rrat)
    BY <2>1, OneIsNotMapped
  <2> QED BY <1>2, <2>1, <2>2
<1>4. ASSUME NumPregs >= 2 * NumLregs + 2
      PROVE  free \cap Bank(1) # {}
  <2> DEFINE c == IF bankSel THEN 0 ELSE 1
             g == [k \in 0 .. NumLregs |-> 2 * k + c]
  <2>1. c \in {0, 1} /\ Bank(1) = {p \in Pregs : p % 2 = c}
    BY DEF Bank
  <2> HIDE DEF c
  <2>2. /\ NumLregs \in Nat /\ NumLregs >= NumLregs /\ g \in [0 .. NumLregs -> Pregs]
        /\ \A j, k \in 0 .. NumLregs : g[j] = g[k] => j = k
        /\ \A k \in 0 .. NumLregs : g[k] % 2 = c
    BY <1>4, <2>1, SizeAssumption DEF Pregs
  <2> HIDE DEF g
  <2>3. \E k \in 0 .. NumLregs : g[k] \notin Mapped(rrat)
    BY <2>2, OneIsNotMapped
  <2> QED BY <1>2, <2>1, <2>2, <2>3
<1> QED BY <1>3, <1>4

-----------------------------------------------------------------------------
(* A cycle that neither allocates nor retires. *)
LEMMA QuietCycle ==
    ASSUME TypeOK, NEW x \in Reports, Datapath(<<>>, 0, x)
    PROVE  Cycle(<<>>, 0, 0, x)
<1>1. Batch(<<>>) /\ Len(<<>>) = 0
  BY DEF Batch
<1>2. Gone(0) = {}
  BY DEF Gone
<1>3. Fits(<<>>)
  BY DEF Fits
<1>4. Count \in 0 .. RobEntries
  BY PointerTypes DEF TypeOK
<1> QED BY <1>1, <1>2, <1>3, <1>4, SizeAssumption DEF Cycle, Datapath

(* Allocating the serializing uop into the empty buffer leaves it alone there
   (ALLOC_FOR_SERIALIZE, ALLOC_FOR_MONITOR). *)
LEMMA SerialCycle ==
    ASSUME TypeOK, Empty, Serializing(serial), NEW x \in Reports,
           state \in {"ALLOC_FOR_SERIALIZE", "ALLOC_FOR_MONITOR"},
           Datapath(<<serial>>, 0, x)
    PROVE  Cycle(<<serial>>, 0, 0, x) /\ Count' = 1 /\ RobHead'.uop = serial
<1> DEFINE al == <<serial>>
<1>1. Count = 0 /\ head \in Ptrs /\ tail \in Ptrs /\ head = tail
  BY Occupancy DEF TypeOK, Empty
<1>2. Batch(al) /\ Len(al) = 1 /\ DOMAIN al = {1} /\ al[1] = serial
  BY DEF TypeOK, Batch
<1>3. Datapath(al, 0, x)
  OBVIOUS
<1> HIDE DEF al
<1>4. BankServes => Fits(al)
  BY <1>2 DEF BankServes, Fits
<1>5. Gone(0) = {}
  BY DEF Gone
<1>6. Cycle(al, 0, 0, x)
  <2>1. Count + Len(al) <= RobEntries
    BY <1>1, <1>2, SizeAssumption
  <2> QED BY <1>1, <1>2, <1>3, <1>4, <1>5, <2>1 DEF Cycle, Datapath
<1>7. Count' = 1
  <2>1. Count' = Count - 0 + Len(al)
    BY <1>6, RobTypes
  <2> QED BY <1>1, <1>2, <2>1
<1>8. RobHead'.uop = serial
  <2>1. head' = head
    <3>1. head' = Plus(head, 0)
      BY <1>3 DEF Datapath, RobStep
    <3> QED BY <1>1, <3>1, Pointers, SizeAssumption DEF Ptrs
  <2>2. Plus(tail, 0) = head
    BY <1>1, Pointers, SizeAssumption DEF Ptrs
  <2>3. rob'[Slot(Plus(tail, 1 - 1))] = NewEntry(al, 1)
    BY <1>2, <1>3, NewSlotsHold DEF Datapath
  <2>4. rob'[Slot(head)] = NewEntry(al, 1)
    BY <2>2, <2>3
  <2> QED BY <1>2, <2>1, <2>4 DEF RobHead, NewEntry
<1> QED BY <1>6, <1>7, <1>8 DEF al

(* What retires is in the buffer and complete (t_can_retire_rob_head,
   t_retire_two). *)
LEMMA RetireFacts ==
    ASSUME TypeOK, CanRetireHead
    PROVE  /\ Count >= 1 /\ Gone(1) \subseteq complete
           /\ CanRetireTwo => Count >= 2 /\ Gone(2) \subseteq complete
<1>1. head \in Ptrs /\ Count \in 0 .. RobEntries
  BY PointerTypes DEF TypeOK
<1>2. Plus(head, 0) = head
  BY <1>1, Pointers, SizeAssumption DEF Ptrs
<1>3. Count # 0 /\ Slot(head) \in complete
  BY Occupancy DEF TypeOK, CanRetireHead, HeadComplete
<1>4. CanRetireTwo => Count # 1 /\ Slot(Plus(head, 1)) \in complete
  BY Occupancy DEF TypeOK, CanRetireTwo, NextHeadComplete
<1>5. Gone(1) = {Slot(Plus(head, 0))} /\ Gone(2) = {Slot(Plus(head, 0)), Slot(Plus(head, 1))}
  <2>1. 0 .. 1 - 1 = {0} /\ 0 .. 2 - 1 = {0, 1}
    OBVIOUS
  <2> QED BY <2>1 DEF Gone
<1> QED BY <1>1, <1>2, <1>3, <1>4, <1>5, SizeAssumption

-----------------------------------------------------------------------------
\* What the FSM's own registers range over.
ControlTypes ==
    /\ state \in States /\ pendingFault \in BOOLEAN /\ dsDone \in BOOLEAN
    /\ serial \in Uops \cup {NoUop} /\ cause \in Causes

\* What every action keeps, and that it is a cycle of the datapath.
Moved(x) == Restart(x) \/ \E al, ret, r : Cycle(al, ret, r, x)
Keeps(x) == Moved(x) /\ ControlTypes' /\ ControlInv' /\ (NoneLost' => NoneLost)

(* The pending fault is one bit. *)
LEMMA PendingBit ==
    ASSUME NEW x
    PROVE  PendingAfter(x) \in BOOLEAN /\ (PendingAfter(x) /\ ~HeadComplete) \in BOOLEAN
BY Zenon DEF PendingAfter

(* Every fault has a cause from the three that are distinguished. *)
LEMMA NoneLostFacts ==
    ASSUME TypeOK, ControlInv,
           state \notin {"WRITE_EPC", "WRITE_CAUSE", "FLUSH_FOR_HALT", "HALT"}
    PROVE  cause = "none" /\ NoneLost
BY DEF ControlInv, NoneLost

(* The actions that leave the window alone and stay with the same fault. *)
LEMMA QuietActions ==
    ASSUME IInv, NEW x \in Reports, NEW b \in BOOLEAN,
           \/ Interrupt(x) \/ ReachArchFault(x)
           \/ \E u \in Uops : StartSerialize(x, u)
           \/ Drained(x, b) \/ MonitorFlush(x, b) \/ HandleMonitor(x, b)
           \/ WaitForSerialize(x, b) \/ FlushForHalt(x, b)
           \/ HaltWaitForRestart(x, b) \/ WriteEpc(x)
    PROVE  Keeps(x) /\ Cycle(<<>>, 0, 0, x)
<1>1. Datapath(<<>>, 0, x) /\ cause' = cause
  BY DEF Interrupt, ReachArchFault, StartSerialize, Drained, MonitorFlush, HandleMonitor,
         WaitForSerialize, FlushForHalt, HaltWaitForRestart, WriteEpc, Quiet
<1>2. TypeOK /\ ControlInv
  BY DEF IInv
<1>3. Cycle(<<>>, 0, 0, x)
  BY <1>1, <1>2, QuietCycle
<1>4. /\ Count' = Count /\ (Empty' <=> Empty) /\ Slot(head)' = Slot(head)
      /\ RobHead'.uop = RobHead.uop /\ complete \subseteq complete'
      /\ inflight' \subseteq inflight
  BY <1>2, <1>3, QuietFacts
<1>5. Moved(x) /\ (NoneLost' <=> NoneLost)
  BY <1>1, <1>3 DEF Moved, NoneLost
<1>6. ControlTypes'
  <2>1. pendingFault' \in BOOLEAN
    BY PendingBit DEF Interrupt, ReachArchFault, StartSerialize, Drained, MonitorFlush,
         HandleMonitor, WaitForSerialize, FlushForHalt, HaltWaitForRestart, WriteEpc, Quiet
  <2>2. /\ state' \in States /\ dsDone' \in BOOLEAN
        /\ serial' \in Uops \cup {NoUop} /\ cause' \in Causes
    BY <1>2 DEF TypeOK, States, Interrupt, ReachArchFault, StartSerialize, Drained,
         MonitorFlush, HandleMonitor, WaitForSerialize, FlushForHalt, HaltWaitForRestart, WriteEpc
  <2> QED BY <2>1, <2>2 DEF ControlTypes
<1> USE DEF Serializing, IsMem, IsIllegal
<1>7. ASSUME Interrupt(x) PROVE ControlInv'
  BY <1>1, <1>2, <1>7 DEF ControlInv, Interrupt
<1>8. ASSUME ReachArchFault(x) PROVE ControlInv'
  BY <1>1, <1>2, <1>4, <1>8 DEF ControlInv, ReachArchFault, CanRetireHead, HeadComplete, ArchFault
<1>9. ASSUME NEW u \in Uops, StartSerialize(x, u) PROVE ControlInv'
  BY <1>1, <1>2, <1>4, <1>9 DEF ControlInv, StartSerialize
<1>10. ASSUME Drained(x, b) PROVE ControlInv'
  BY <1>1, <1>2, <1>4, <1>10 DEF ControlInv, Drained
<1>11. ASSUME MonitorFlush(x, b) PROVE ControlInv'
  BY <1>1, <1>2, <1>4, <1>11 DEF ControlInv, MonitorFlush
<1>12. ASSUME HandleMonitor(x, b) PROVE ControlInv'
  BY <1>1, <1>2, <1>4, <1>12 DEF ControlInv, HandleMonitor
<1>13. ASSUME WaitForSerialize(x, b) PROVE ControlInv'
  BY <1>1, <1>2, <1>4, <1>13 DEF ControlInv, WaitForSerialize
<1>14. ASSUME FlushForHalt(x, b) PROVE ControlInv'
  BY <1>1, <1>2, <1>14 DEF ControlInv, FlushForHalt
<1>15. ASSUME HaltWaitForRestart(x, b) PROVE ControlInv'
  BY <1>1, <1>2, <1>15 DEF ControlInv, HaltWaitForRestart
<1>16. ASSUME WriteEpc(x) PROVE ControlInv'
  BY <1>1, <1>2, <1>4, <1>5, <1>16 DEF ControlInv, WriteEpc
<1>17. ControlInv'
  BY <1>7, <1>8, <1>9, <1>10, <1>11, <1>12, <1>13, <1>14, <1>15, <1>16
<1> QED BY <1>3, <1>5, <1>6, <1>17 DEF Keeps

(* The actions that find or forget the cause of a fault, and the restart. *)
LEMMA FaultActions ==
    ASSUME IInv, ResumesCleanly, NEW x \in Reports, NEW b \in BOOLEAN,
           TakeArchFault(x) \/ Halted(x, b) \/ Rat(x, b)
    PROVE  Keeps(x) /\ (Cycle(<<>>, 0, 0, x) \/ Restart(x))
<1>1. TypeOK /\ ControlInv
  BY DEF IInv
<1> USE DEF Serializing, IsMem, IsIllegal
<1>2. CASE TakeArchFault(x)
  <2>1. Cycle(<<>>, 0, 0, x)
    BY <1>1, <1>2, QuietCycle DEF TakeArchFault, Quiet
  <2>2. /\ (Empty' <=> Empty) /\ Slot(head)' = Slot(head)
        /\ RobHead'.uop = RobHead.uop /\ complete \subseteq complete'
    BY <1>1, <2>1, QuietFacts
  <2>3. cause = "none" /\ NoneLost
    BY <1>1, <1>2, NoneLostFacts DEF TakeArchFault
  <2>4. pendingFault' \in BOOLEAN
    BY <1>2, PendingBit DEF TakeArchFault, Quiet
  <2>5. ControlTypes'
    BY <1>1, <1>2, <2>4 DEF TypeOK, ControlTypes, States, Causes, TakeArchFault
  <2>6. ControlInv'
    BY <1>1, <1>2, <2>2 DEF ControlInv, NoneLost, TakeArchFault
  <2> QED BY <2>1, <2>3, <2>5, <2>6 DEF Keeps, Moved
<1>3. CASE Halted(x, b)
  <2>1. Cycle(<<>>, 0, 0, x)
    BY <1>1, <1>3, QuietCycle DEF Halted, Quiet
  <2>2. pendingFault' \in BOOLEAN
    BY <1>3, PendingBit DEF Halted, Quiet
  <2>3. ControlTypes'
    BY <1>1, <1>3, <2>2 DEF TypeOK, ControlTypes, States, Causes, Halted
  <2>4. ControlInv'
    BY <1>1, <1>3 DEF ControlInv, Halted
  <2>5. NoneLost' => NoneLost
    BY <1>3 DEF Halted, NoneLost, ResumesCleanly
  <2> QED BY <2>1, <2>3, <2>4, <2>5 DEF Keeps, Moved
<1>4. CASE Rat(x, b)
  <2>1. Restart(x) /\ state = "RAT" /\ cause' = cause
    BY <1>4 DEF Rat, Restart
  <2>2. cause = "none" /\ NoneLost
    BY <1>1, <2>1, NoneLostFacts
  <2>3. pendingFault' \in BOOLEAN
    BY <1>4, PendingBit DEF Rat
  <2>4. ControlTypes'
    BY <1>1, <1>4, <2>3 DEF TypeOK, ControlTypes, States, Rat
  <2>5. inflight' = {}
    BY <1>1, <2>1 DEF ControlInv, Restart, InflightStep
  <2>6. ControlInv'
    BY <1>1, <1>4, <2>1, <2>2, <2>5 DEF ControlInv, Rat
  <2> QED BY <2>1, <2>2, <2>4, <2>6 DEF Keeps, Moved
<1> QED BY <1>2, <1>3, <1>4

(* The actions that allocate a serializing uop.  Nothing is in flight, so no
   queue is full; nothing has leaked, so a register is free, and
   ALLOC_FOR_MONITOR, which goes on without looking, did allocate. *)
LEMMA SerialActions ==
    ASSUME IInv, NEW x \in Reports, NEW b \in BOOLEAN, b => MayBeFull,
           AllocForSerialize(x, b) \/ AllocForMonitor(x, b)
    PROVE  Keeps(x) /\ Cycle(<<serial>>, 0, 0, x) /\ Count' = 1 /\ RobHead'.uop = serial
<1>1. TypeOK /\ ControlInv /\ state \in {"ALLOC_FOR_SERIALIZE", "ALLOC_FOR_MONITOR"}
  BY DEF IInv, AllocForSerialize, AllocForMonitor
<1>2. cause = "none" /\ NoneLost /\ Empty /\ Serializing(serial)
  BY <1>1, NoneLostFacts DEF ControlInv
<1>3. WindowInv /\ NoLeak
  BY <1>2 DEF IInv, WindowInv
<1>4. MaySerialAlloc(b)
  <2>1. Count = 0 /\ ~Full
    BY <1>1, <1>2, Occupancy, SizeAssumption DEF TypeOK
  <2>2. inflight = {} /\ AwaitData = {}
    BY <1>1, <1>3, <2>1, RobSlotsAre DEF WindowInv, AwaitData
  <2>3. ~b
    BY <2>2 DEF MayBeFull
  <2>4. free # {}
    BY <1>1, <1>2, <1>3, FreeWhenEmpty
  <2> QED BY <2>1, <2>3, <2>4 DEF MaySerialAlloc
<1>5. /\ Datapath(<<serial>>, 0, x) /\ serial' = NoUop /\ dsDone' = dsDone /\ cause' = cause
      /\ pendingFault' = PendingAfter(x)
      /\ state' \in {"WAIT_FOR_SERIALIZE_AND_RESTART", "WAIT_FOR_MONITOR"}
  BY <1>4 DEF AllocForSerialize, AllocForMonitor
<1>6. Cycle(<<serial>>, 0, 0, x) /\ Count' = 1 /\ RobHead'.uop = serial
  BY <1>1, <1>2, <1>5, SerialCycle
<1>7. ControlTypes'
  BY <1>1, <1>5, PendingBit DEF TypeOK, ControlTypes, States
<1>8. ControlInv'
  BY <1>2, <1>5, <1>6 DEF ControlInv, Serializing
<1> QED BY <1>2, <1>6, <1>7, <1>8 DEF Keeps, Moved

(* The monitor's entry retires while it is waited for. *)
LEMMA MonitorRetires ==
    ASSUME IInv, NEW x \in Reports, NEW b \in BOOLEAN, WaitForMonitor(x, b)
    PROVE  /\ Keeps(x) /\ Count = 1 /\ NoneLost
           /\ IF HeadComplete /\ b THEN Cycle(<<>>, 1, 1, x) ELSE Cycle(<<>>, 0, 0, x)
<1>1. TypeOK /\ ControlInv /\ state = "WAIT_FOR_MONITOR"
  BY DEF IInv, WaitForMonitor
<1>2. /\ cause = "none" /\ NoneLost /\ Count = 1
      /\ Serializing(RobHead.uop)
  BY <1>1, NoneLostFacts DEF ControlInv
<1>3. ControlTypes' /\ cause' = cause
  BY <1>1, PendingBit DEF TypeOK, ControlTypes, States, WaitForMonitor
<1>4. CASE HeadComplete /\ b
  <2>1. ~Empty
    BY <1>1, <1>2, Occupancy DEF TypeOK
  <2>2. Gone(1) \subseteq complete
    BY <1>1, <1>4, <2>1, RetireFacts DEF CanRetireHead
  <2>3. Datapath(<<>>, 1, x) /\ state' = "ACTIVE"
    BY <1>4 DEF WaitForMonitor
  <2>4. Batch(<<>>) /\ Len(<<>>) = 0 /\ Fits(<<>>)
    BY DEF Batch, Fits
  <2>5. Cycle(<<>>, 1, 1, x)
    BY <1>2, <2>2, <2>3, <2>4, SizeAssumption DEF Cycle, Datapath
  <2>6. ControlInv'
    BY <1>2, <1>3, <2>3 DEF ControlInv
  <2> QED BY <1>2, <1>3, <1>4, <2>5, <2>6 DEF Keeps, Moved
<1>5. CASE ~(HeadComplete /\ b)
  <2>1. Datapath(<<>>, 0, x) /\ state' = state
    BY <1>5 DEF WaitForMonitor
  <2>2. Cycle(<<>>, 0, 0, x)
    BY <1>1, <2>1, QuietCycle
  <2>3. Count' = Count /\ RobHead'.uop = RobHead.uop
    BY <1>1, <2>2, QuietFacts
  <2>4. ControlInv'
    BY <1>1, <1>2, <1>3, <2>1, <2>3 DEF ControlInv, Serializing
  <2> QED BY <1>2, <1>3, <1>5, <2>2, <2>4 DEF Keeps, Moved
<1> QED BY <1>4, <1>5

(* A mispredicted branch retires as the drain starts. *)
LEMMA MispredictRetires ==
    ASSUME IInv, NEW x \in Reports, RetireMispredict(x)
    PROVE  Keeps(x) /\ Cycle(<<>>, 1, 1, x)
<1>1. TypeOK /\ ControlInv /\ state = "ACTIVE" /\ CanRetireHead
  BY DEF IInv, RetireMispredict
<1>2. cause = "none" /\ NoneLost
  BY <1>1, NoneLostFacts
<1>3. Datapath(<<>>, 1, x) /\ state' = "DRAIN" /\ cause' = cause
  BY DEF RetireMispredict
<1>4. Batch(<<>>) /\ Len(<<>>) = 0 /\ Fits(<<>>)
  BY DEF Batch, Fits
<1>5. Cycle(<<>>, 1, 1, x)
  <2>1. Count \in 1 .. RobEntries /\ Gone(1) \subseteq complete
    BY <1>1, RetireFacts, PointerTypes DEF TypeOK
  <2> QED BY <1>2, <1>3, <1>4, <2>1, SizeAssumption DEF Cycle, Datapath
<1>6. ControlTypes'
  BY <1>1, PendingBit DEF TypeOK, ControlTypes, States, RetireMispredict
<1>7. ControlInv'
  BY <1>2, <1>3 DEF ControlInv
<1> QED BY <1>2, <1>5, <1>6, <1>7 DEF Keeps, Moved

(* The entry that faulted leaves without committing; after a breakpoint it has
   no mapping (t_bump_rob_head). *)
LEMMA FaultyLeaves ==
    ASSUME IInv, NEW x \in Reports, WriteCause(x)
    PROVE  Keeps(x) /\ Cycle(<<>>, 1, 0, x)
<1>1. TypeOK /\ ControlInv /\ state = "WRITE_CAUSE"
  BY DEF IInv, WriteCause
<1>2. ~Empty /\ Slot(head) \in complete /\ (NoneLost => RobHead.uop.op = "brk")
  BY <1>1 DEF ControlInv
<1>3. /\ RobStep(<<>>, 1, x) /\ RegStep(<<>>, 0) /\ InflightStep(<<>>, x) /\ bankSel' = ~bankSel
      /\ state' = "FLUSH_FOR_HALT" /\ cause' = cause
  BY DEF WriteCause
<1>4. Batch(<<>>) /\ Len(<<>>) = 0 /\ Fits(<<>>)
  BY DEF Batch, Fits
<1>5. head \in Ptrs /\ Count \in 1 .. RobEntries
  BY <1>1, <1>2, Occupancy, PointerTypes DEF TypeOK
<1>6. Gone(1) \subseteq complete
  <2>1. Plus(head, 0) = head
    BY <1>5, Pointers, SizeAssumption DEF Ptrs
  <2>2. 0 .. 1 - 1 = {0}
    OBVIOUS
  <2> QED BY <1>2, <2>1, <2>2 DEF Gone
<1>7. NoneLost => ~Writes(RobHead.uop)
  <2>1. RobHead.uop \in Uops \cup {NoUop}
    BY <1>1, <1>5, PointerTypes DEF TypeOK, RobHead, Entries
  <2> QED BY <1>2, <2>1, InputAssumption DEF Writes, NoUop
<1>8. Cycle(<<>>, 1, 0, x)
  BY <1>3, <1>4, <1>5, <1>6, <1>7, SizeAssumption DEF Cycle
<1>9. ControlTypes'
  BY <1>1, PendingBit DEF TypeOK, ControlTypes, States, WriteCause
<1>10. ControlInv' /\ (NoneLost' => NoneLost)
  BY <1>1, <1>3 DEF ControlInv, NoneLost
<1> QED BY <1>8, <1>9, <1>10 DEF Keeps, Moved

\* How many entries retire in normal operation; none of them has faulted.
Retired(ret) ==
    /\ ret = 0 => ~CanRetireHead
    /\ ret >= 1 => CanRetireHead /\ ~RobHead.faulted
    /\ ret = 2 => CanRetireTwo

(* Normal operation. *)
LEMMA StreamKeeps ==
    ASSUME IInv, NEW x \in Reports, NEW al \in AllocChoices, Stream(x, al)
    PROVE  /\ Keeps(x)
           /\ \E ret \in 0 .. 2 : Retired(ret) /\ Cycle(al, ret, ret, x)
<1>1. TypeOK /\ ControlInv /\ state = "ACTIVE"
  BY DEF IInv, Stream, Retire, Allocate
<1>2. cause = "none" /\ NoneLost
  BY <1>1, NoneLostFacts
<1>3. state' = "ACTIVE" /\ cause' = cause
  BY <1>1 DEF Stream, Retire, Allocate
<1>4. Batch(al) /\ Fits(al) /\ Count + Len(al) <= RobEntries
  BY <1>1, AllocFacts
<1>5. PICK ret \in 0 .. 2 :
        Datapath(al, ret, x) /\ ret <= Count /\ Gone(ret) \subseteq complete /\ Retired(ret)
  <2>1. CASE Allocate(x, al)
    <3>1. Datapath(al, 0, x) /\ Gone(0) = {} /\ 0 <= Count
      BY <1>1, <2>1, PointerTypes DEF Allocate, Gone, TypeOK
    <3> QED BY <2>1, <3>1 DEF Retired, Allocate
  <2>2. CASE Retire(x, al)
    <3>1. CanRetireHead /\ Datapath(al, IF CanRetireTwo THEN 2 ELSE 1, x)
      BY <2>2 DEF Retire
    <3>2. /\ Count >= 1 /\ Gone(1) \subseteq complete
          /\ CanRetireTwo => Count >= 2 /\ Gone(2) \subseteq complete
      BY <1>1, <3>1, RetireFacts
    <3> QED BY <2>2, <3>1, <3>2 DEF Retired, Retire
  <2> QED BY <2>1, <2>2 DEF Stream
<1>6. Cycle(al, ret, ret, x)
  BY <1>2, <1>4, <1>5 DEF Cycle, Datapath
<1>7. ControlTypes'
  BY <1>1, PendingBit DEF TypeOK, ControlTypes, States, Stream, Retire, Allocate
<1>8. ControlInv'
  BY <1>2, <1>3 DEF ControlInv
<1> QED BY <1>2, <1>5, <1>6, <1>7, <1>8 DEF Keeps, Moved

(* So every step is a cycle of the datapath or a flash restart. *)
LEMMA NextKeeps ==
    ASSUME IInv, ResumesCleanly, Next
    PROVE  \E x \in Reports : Keeps(x)
<1>1. ASSUME NEW x \in Reports, Control(x)
      PROVE  Keeps(x)
  <2>1. ASSUME \/ Interrupt(x) \/ ReachArchFault(x) \/ WriteEpc(x)
               \/ \E u \in Uops : StartSerialize(x, u)
        PROVE  Keeps(x)
    <3>1. TRUE \in BOOLEAN
      OBVIOUS
    <3> QED BY <2>1, <3>1, QuietActions
  <2>2. ASSUME NEW b \in BOOLEAN,
               \/ Drained(x, b) \/ MonitorFlush(x, b) \/ HandleMonitor(x, b)
               \/ WaitForSerialize(x, b) \/ FlushForHalt(x, b) \/ HaltWaitForRestart(x, b)
        PROVE  Keeps(x)
    BY <2>2, QuietActions
  <2>3. ASSUME NEW b \in BOOLEAN, Halted(x, b) \/ Rat(x, b)
        PROVE  Keeps(x)
    BY <2>3, FaultActions
  <2>4. ASSUME TakeArchFault(x)
        PROVE  Keeps(x)
    <3>1. TRUE \in BOOLEAN
      OBVIOUS
    <3> QED BY <2>4, <3>1, FaultActions
  <2>5. ASSUME NEW b \in BOOLEAN, b => MayBeFull, AllocForSerialize(x, b) \/ AllocForMonitor(x, b)
        PROVE  Keeps(x)
    BY <2>5, SerialActions
  <2>6. ASSUME NEW b \in BOOLEAN, WaitForMonitor(x, b)
        PROVE  Keeps(x)
    BY <2>6, MonitorRetires
  <2>7. ASSUME RetireMispredict(x) \/ WriteCause(x)
        PROVE  Keeps(x)
    BY <2>7, MispredictRetires, FaultyLeaves
  <2> QED BY <1>1, <2>1, <2>2, <2>3, <2>4, <2>5, <2>6, <2>7 DEF Control
<1>2. ASSUME NEW x \in Reports, NEW al \in AllocChoices, Stream(x, al)
      PROVE  Keeps(x)
  BY <1>2, StreamKeeps
<1> QED BY <1>1, <1>2 DEF Next

-----------------------------------------------------------------------------
(* Reset establishes the invariant. *)
LEMMA InvInit ==
    ASSUME Init
    PROVE  IInv /\ NoSharing
<1> USE DEF Init
<1>1. 0 \in Ptrs /\ 0 \in BobPtrs /\ 0 \in Pregs /\ Lregs \subseteq Pregs
  BY SizeAssumption DEF Ptrs, BobPtrs, Pregs, Lregs
<1>2. Count = 0
  BY SizeAssumption DEF Count
<1>3. TypeOK
  <2>1. rob \in [Slots -> Entries]
    BY <1>1 DEF NoEntry, Entries
  <2>2. arat \in [Lregs -> Pregs] /\ rrat \in [Lregs -> Pregs]
    BY <1>1
  <2>3. /\ state \in States /\ cause \in Causes /\ serial \in Uops \cup {NoUop}
        /\ bankSel \in BOOLEAN /\ pendingFault \in BOOLEAN /\ dsDone \in BOOLEAN
    BY DEF States, Causes
  <2>4. /\ head \in Ptrs /\ tail \in Ptrs /\ Count <= RobEntries
        /\ bobHead \in BobPtrs /\ bobTail \in BobPtrs
    BY <1>1, <1>2, SizeAssumption
  <2>5. /\ complete \subseteq Slots /\ sdComplete \subseteq Slots /\ inflight \subseteq Slots
        /\ free \subseteq Pregs /\ rfree \subseteq Pregs
    OBVIOUS
  <2> QED BY <2>1, <2>2, <2>3, <2>4, <2>5 DEF TypeOK
<1>4. 0 .. Count - 1 = {}
  BY <1>2
<1>5. WritersUpTo(Count) = {} /\ Pdsts = {} /\ RobSlots = {}
  BY <1>4 DEF WritersUpTo, Pdsts, RobSlots
<1>6. MapTracksBuffer
  <2>1. ASSUME NEW l \in Lregs PROVE arat[l] = MapAfter(l, Count)
    <3>1. WritersOf(l, Count) = {}
      BY <1>5 DEF WritersOf
    <3> QED BY <1>2, <2>1, <3>1, MapAfterDef
  <2> QED BY <1>5, <2>1 DEF MapTracksBuffer
<1>7. Mapped(rrat) = Lregs
  BY DEF Mapped
<1>8. NoLeak
  BY <1>7, SizeAssumption DEF NoLeak, Pregs, Lregs
<1>9. ControlInv
  BY DEF ControlInv
<1>10. NoSharing
  <2>1. Injective(rrat)
    BY DEF Injective
  <2>2. rfree \cap Mapped(rrat) = {} /\ free \cap Mapped(rrat) = {}
    BY <1>7, SizeAssumption DEF Lregs, Pregs
  <2> QED BY <1>5, <2>1, <2>2 DEF NoSharing
<1> QED BY <1>3, <1>6, <1>8, <1>9, <1>10 DEF IInv, WindowInv

(* Every action preserves it. *)
LEMMA InvNext ==
    ASSUME IInv, ResumesCleanly, Next
    PROVE  IInv'
<1>1. PICK x \in Reports : Keeps(x)
  BY NextKeeps
<1>2. ControlTypes' /\ ControlInv' /\ (NoneLost' => NoneLost)
  BY <1>1 DEF Keeps
<1>3. TypeOK /\ ControlInv /\ (NoneLost => WindowInv)
  BY DEF IInv
<1>4. CASE Restart(x)
  <2>1. DataTypes'
    BY <1>3, <1>4, RestartTypes
  <2>2. NoneLost
    BY <1>3, <1>4, NoneLostFacts DEF Restart
  <2>3. WindowInv'
    BY <1>3, <1>4, <2>2, RestartWindow
  <2> QED BY <1>2, <2>1, <2>3 DEF IInv, TypeOK, DataTypes, ControlTypes
<1>5. ASSUME NEW al, NEW ret, NEW r, Cycle(al, ret, r, x)
      PROVE  IInv'
  <2>1. DataTypes'
    BY <1>3, <1>5, RobTypes, RegTypes DEF DataTypes
  <2>2. NoneLost => WindowInv'
    BY <1>3, <1>5, WindowStays
  <2> QED BY <1>2, <2>1, <2>2 DEF IInv, TypeOK, DataTypes, ControlTypes
<1> QED BY <1>1, <1>4, <1>5 DEF Keeps, Moved

(* The invariant of the specification. *)
THEOREM InductiveInvariant ==
    ASSUME ResumesCleanly
    PROVE  Spec => []IInv
<1>1. Init => IInv
  BY InvInit
<1>2. IInv /\ [Next]_vars => IInv'
  <2> SUFFICES ASSUME IInv, [Next]_vars PROVE IInv'
    OBVIOUS
  <2>1. CASE Next
    BY <2>1, InvNext
  <2>2. CASE UNCHANGED vars
    BY <2>2 DEF vars, robVars, regVars, ctlVars, IInv, TypeOK, ControlInv, WindowInv, NoneLost,
         Count, Empty, RobHead, RobSlots, MapTracksBuffer, MapAfter, WritersUpTo, EntryAt,
         NoLeak, Pdsts, Mapped
  <2> QED BY <2>1, <2>2
<1> QED BY <1>1, <1>2, PTL DEF Spec

(* Pointers, maps and entries keep their ranges; in particular the reorder
   buffer never holds more than its size. *)
THEOREM TypeCorrect ==
    ASSUME ResumesCleanly
    PROVE  Spec => []TypeOK
<1>1. IInv => TypeOK
  BY DEF IInv
<1> QED BY <1>1, InductiveInvariant, PTL

(* The allocation map is always the retirement map with the writers of the
   reorder buffer applied in order, two per cycle, across every rollback. *)
THEOREM RenamingIsExact ==
    ASSUME ResumesCleanly
    PROVE  Spec => []RenameMapExact
<1>1. IInv => RenameMapExact
  BY DEF IInv, WindowInv, RenameMapExact
<1> QED BY <1>1, InductiveInvariant, PTL

(* A serializing uop is alone in the machine from its allocation until its
   completion has been seen. *)
THEOREM SerializingIsAlone ==
    ASSUME ResumesCleanly
    PROVE  Spec => []SerializeAlone
<1>1. IInv => SerializeAlone
  <2> SUFFICES ASSUME IInv PROVE SerializeAlone
    OBVIOUS
  <2>1. TypeOK /\ ControlInv /\ (NoneLost => WindowInv)
    BY DEF IInv
  <2>2. ASSUME state \in {"ALLOC_FOR_SERIALIZE", "MONITOR_FLUSH_CACHE",
                         "HANDLE_MONITOR", "ALLOC_FOR_MONITOR"}
        PROVE  Empty /\ inflight = {}
    <3>1. NoneLost /\ Empty
      BY <2>1, <2>2, NoneLostFacts DEF ControlInv
    <3>2. RobSlots = {}
      BY <2>1, <3>1, Occupancy, RobSlotsAre DEF TypeOK
    <3> QED BY <2>1, <3>1, <3>2 DEF WindowInv
  <2>3. ASSUME state \in {"WAIT_FOR_SERIALIZE_AND_RESTART", "WAIT_FOR_MONITOR"}
        PROVE  Count = 1 /\ Serializing(RobHead.uop)
    BY <2>1, <2>3 DEF ControlInv
  <2> QED BY <2>2, <2>3 DEF SerializeAlone
<1> QED BY <1>1, InductiveInvariant, PTL

-----------------------------------------------------------------------------
\* What else is inductive when serializing uops find a register.
SharingInv == IInv /\ (NoneLost => NoSharing) /\ RetirePartition

(* The committed map and its free list cover the register file once. *)
LEMMA RetirePartitionFrom ==
    ASSUME TypeOK, NoLeak, NoSharing
    PROVE  RetirePartition
<1>1. Injective(rrat) /\ rfree \cap Mapped(rrat) = {}
  BY DEF NoSharing
<1>2. Pregs \subseteq rfree \cup Mapped(rrat) /\ rfree \subseteq Pregs
  BY DEF NoLeak, TypeOK
<1> QED BY <1>1, <1>2 DEF RetirePartition

(* No action puts a register in two places, and after a fault that strands an
   entry nothing commits any more. *)
LEMMA SharingNext ==
    ASSUME SharingInv, ResumesCleanly, BankServes, Next
    PROVE  SharingInv'
<1>1. PICK x \in Reports : Keeps(x)
  BY NextKeeps DEF SharingInv
<1>2. IInv' /\ Moved(x) /\ (NoneLost' => NoneLost)
  BY <1>1, InvNext DEF SharingInv, Keeps
<1>3. /\ TypeOK /\ ControlInv /\ (NoneLost => WindowInv /\ NoSharing) /\ RetirePartition
      /\ TypeOK'
  BY <1>2 DEF SharingInv, IInv
<1>4. ASSUME NoneLost PROVE WindowInv' /\ NoSharing'
  <2>1. CASE Restart(x)
    BY <1>3, <1>4, <2>1, RestartWindow
  <2>2. ASSUME NEW al, NEW ret, NEW r, Cycle(al, ret, r, x)
        PROVE  WindowInv' /\ NoSharing'
    BY <1>3, <1>4, <2>2, WindowStays, SharingStays
  <2> QED BY <1>2, <2>1, <2>2 DEF Moved
<1>5. RetirePartition'
  <2>1. CASE NoneLost
    <3>1. TypeOK' /\ NoLeak' /\ NoSharing'
      BY <1>3, <1>4, <2>1 DEF WindowInv
    <3> QED BY <3>1 DEF RetirePartition, NoSharing, NoLeak, TypeOK
  <2>2. CASE ~NoneLost
    <3>1. ~Restart(x)
      BY <1>3, <2>2, NoneLostFacts DEF Restart
    <3>2. PICK al, ret, r : Cycle(al, ret, r, x)
      BY <1>2, <3>1 DEF Moved
    <3>3. RegStep(al, 0)
      BY <2>2, <3>2 DEF Cycle
    <3>4. rrat' = rrat /\ rfree' = rfree
      BY <3>3 DEF RegStep
    <3> QED BY <1>3, <3>4 DEF RetirePartition, Mapped, Injective
  <2> QED BY <2>1, <2>2
<1> QED BY <1>2, <1>4, <1>5 DEF SharingInv

(* The invariant of the register file, as long as the selected bank serves
   every serializing uop. *)
THEOREM SharingInvariant ==
    ASSUME ResumesCleanly
    PROVE  Spec /\ []BankServes => []SharingInv
<1>1. Init => SharingInv
  <2> SUFFICES ASSUME Init PROVE SharingInv
    OBVIOUS
  <2>1. IInv /\ NoSharing /\ NoneLost
    BY InvInit DEF Init, NoneLost
  <2> QED BY <2>1, RetirePartitionFrom DEF SharingInv, IInv, WindowInv
<1>2. SharingInv /\ BankServes /\ [Next]_vars => SharingInv'
  <2> SUFFICES ASSUME SharingInv, BankServes, [Next]_vars PROVE SharingInv'
    OBVIOUS
  <2>1. CASE Next
    BY <2>1, SharingNext
  <2>2. CASE UNCHANGED vars
    <3> USE <2>2 DEF vars, robVars, regVars, ctlVars, NoneLost, Count, Empty, RobHead, RobSlots,
                 MapAfter, WritersUpTo, EntryAt, Pdsts, Mapped, Injective
    <3>1. IInv' <=> IInv
      BY DEF IInv, TypeOK, ControlInv, WindowInv, MapTracksBuffer, NoLeak
    <3>2. NoSharing' <=> NoSharing
      BY DEF NoSharing
    <3>3. RetirePartition' <=> RetirePartition
      BY DEF RetirePartition
    <3>4. NoneLost' <=> NoneLost
      OBVIOUS
    <3> HIDE DEF NoneLost
    <3> QED BY <3>1, <3>2, <3>3, <3>4 DEF SharingInv
  <2> QED BY <2>1, <2>2
<1> QED BY <1>1, <1>2, PTL DEF Spec

(* No physical register leaks and none has two owners, up to the first
   serializing uop that finds its bank empty. *)
THEOREM RegistersPartitioned ==
    ASSUME ResumesCleanly
    PROVE  Spec /\ []BankServes => []FreePartition
<1>1. SharingInv => FreePartition
  <2> SUFFICES ASSUME SharingInv, NoneLost PROVE FreePartition
    BY DEF FreePartition
  <2>1. TypeOK /\ MapTracksBuffer /\ NoLeak /\ NoSharing
    BY DEF SharingInv, IInv, WindowInv
  <2> QED BY <2>1, PartitionFromWindow
<1> QED BY <1>1, SharingInvariant, PTL

(* What a fault falls back on is consistent, in every state up to there. *)
THEOREM CommittedPartitioned ==
    ASSUME ResumesCleanly
    PROVE  Spec /\ []BankServes => []RetirePartition
<1>1. SharingInv => RetirePartition
  BY DEF SharingInv
<1> QED BY <1>1, SharingInvariant, PTL

(* Allocation maps registers to free ones only, up to there. *)
THEOREM AllocatesFromFree ==
    ASSUME ResumesCleanly
    PROVE  Spec /\ []BankServes => AllocateFromFree
<1> DEFINE A == \A l \in Lregs : arat'[l] # arat[l] => state = "RAT" \/ arat'[l] \in free
<1>1. SharingInv /\ BankServes /\ [Next]_vars => [A]_vars
  <2> SUFFICES ASSUME SharingInv, BankServes, Next PROVE A
    OBVIOUS
  <2>1. PICK x \in Reports : Keeps(x)
    BY NextKeeps DEF SharingInv
  <2>2. TypeOK
    BY DEF SharingInv, IInv
  <2>3. CASE Restart(x)
    BY <2>3 DEF Restart
  <2>4. ASSUME NEW al, NEW ret, NEW r, Cycle(al, ret, r, x)
        PROVE  A
    <3>1. arat' = NewMap(al) /\ Batch(al) /\ Fits(al)
      BY <2>4 DEF Cycle, RegStep
    <3>2. News(al) \subseteq free /\ DOMAIN al = 1 .. Len(al) /\ Len(al) \in 0 .. 2
      BY <2>2, <3>1, NewsFree, BatchFacts
    <3>3. SUFFICES ASSUME NEW l \in Lregs, arat'[l] # arat[l]
                   PROVE  arat'[l] \in free
      OBVIOUS
    <3>4. \E n \in DOMAIN al : Writes(al[n]) /\ arat'[l] = PrfEntry(n)
      BY <3>1, <3>2, <3>3 DEF NewMap, Writes
    <3> QED BY <3>2, <3>4 DEF News
  <2> QED BY <2>1, <2>3, <2>4 DEF Keeps, Moved
<1>2. [A]_vars => [\A l \in Lregs : arat'[l] # arat[l] => state = "RAT" \/ arat'[l] \in free]_vars
  OBVIOUS
<1> HIDE DEF A
<1> QED BY <1>1, <1>2, SharingInvariant, PTL DEF Spec, AllocateFromFree
-----------------------------------------------------------------------------
(* When as many values are committed as there are registers in a bank, and all
   the registers of the bank hold one, no committed value is anywhere else. *)
LEMMA BankIsFull ==
    ASSUME TypeOK, NumPregs >= 2 * NumLregs, Bank(1) \subseteq Mapped(rrat),
           NEW l \in Lregs
    PROVE  rrat[l] \in Bank(1)
<1> SUFFICES ASSUME rrat[l] \notin Bank(1) PROVE FALSE
  OBVIOUS
<1> DEFINE c == IF bankSel THEN 0 ELSE 1
           n == NumLregs - 1
           f == [k \in 0 .. n |-> CHOOSE j \in Lregs : rrat[j] = 2 * k + c]
<1>1. c \in {0, 1} /\ n \in Nat /\ NumLregs \in Nat /\ NumPregs \in Nat /\ n + 1 = NumLregs
  BY SizeAssumption
<1>2. Bank(1) = {p \in Pregs : p % 2 = c}
  BY DEF Bank
<1> HIDE DEF c, n
<1>3. ASSUME NEW k \in 0 .. n PROVE 2 * k + c \in Bank(1)
  <2>1. 2 * k + c \in Pregs /\ (2 * k + c) % 2 = c
    BY <1>1 DEF Pregs
  <2> QED BY <1>2, <2>1
<1>4. ASSUME NEW k \in 0 .. n
      PROVE  f[k] \in Lregs \ {l} /\ rrat[f[k]] = 2 * k + c
  <2>1. \E j \in Lregs : rrat[j] = 2 * k + c
    BY <1>3 DEF Mapped
  <2>2. f[k] \in Lregs /\ rrat[f[k]] = 2 * k + c
    BY <2>1
  <2> QED BY <1>3, <2>2
<1>5. f \in [0 .. n -> Lregs \ {l}]
  BY <1>4
<1>6. /\ IsFiniteSet(0 .. n) /\ Cardinality(0 .. n) = NumLregs
      /\ IsFiniteSet(Lregs \ {l}) /\ Cardinality(Lregs \ {l}) = NumLregs - 1
  <2>1. /\ IsFiniteSet(0 .. n)
        /\ Cardinality(0 .. n) = IF 0 > n THEN 0 ELSE n - 0 + 1
    <3>1. 0 \in Int /\ n \in Int
      BY <1>1
    <3> QED BY <3>1, FS_Interval, Zenon
  <2>2. IsFiniteSet(0 .. n) /\ Cardinality(0 .. n) = NumLregs
    BY <1>1, <2>1
  <2>3. Lregs = 0 .. n
    BY DEF Lregs, n
  <2>4. IsFiniteSet(Lregs \ {l}) /\ Cardinality(Lregs \ {l}) = Cardinality(Lregs) - 1
    BY <2>2, <2>3, FS_RemoveElement
  <2> QED BY <2>2, <2>3, <2>4
<1> HIDE DEF f
<1>7. PICK j, k \in 0 .. n : j # k /\ f[j] = f[k]
  BY <1>1, <1>5, <1>6, FS_PigeonHole
<1> QED BY <1>1, <1>4, <1>7

(* How narrow the gap is: the selected bank fails a serializing uop only when
   every register of it holds a committed value, and, with two registers to
   each architectural one, as the processor is built, only when every
   committed value is in it. *)
THEOREM GapIsNarrow ==
    ASSUME ResumesCleanly
    PROVE  Spec => [](~BankServes => /\ Bank(1) \subseteq Mapped(rrat)
                                     /\ NumPregs >= 2 * NumLregs =>
                                           \A l \in Lregs : rrat[l] \in Bank(1))
<1>1. IInv => (~BankServes => /\ Bank(1) \subseteq Mapped(rrat)
                              /\ NumPregs >= 2 * NumLregs =>
                                    \A l \in Lregs : rrat[l] \in Bank(1))
  <2> SUFFICES ASSUME IInv, ~BankServes
               PROVE  /\ Bank(1) \subseteq Mapped(rrat)
                      /\ NumPregs >= 2 * NumLregs => \A l \in Lregs : rrat[l] \in Bank(1)
    OBVIOUS
  <2>1. /\ state \in {"ALLOC_FOR_SERIALIZE", "ALLOC_FOR_MONITOR"} /\ free \cap Bank(1) = {}
        /\ TypeOK /\ ControlInv
    BY DEF BankServes, IInv
  <2>2. Empty /\ NoLeak
    BY <2>1, NoneLostFacts DEF ControlInv, IInv, WindowInv
  <2>3. Count = 0
    BY <2>1, <2>2, Occupancy DEF TypeOK
  <2>4. Pdsts = {} /\ Bank(1) \subseteq Pregs
    BY <2>3 DEF Pdsts, WritersUpTo, Bank
  <2>5. Bank(1) \subseteq Mapped(rrat)
    BY <2>1, <2>2, <2>4 DEF NoLeak
  <2> QED BY <2>1, <2>5, BankIsFull
<1> QED BY <1>1, InductiveInvariant, PTL

(* With two registers more, or without serializing writers, it always serves. *)
THEOREM BanksServe ==
    ASSUME ResumesCleanly, BanksSuffice
    PROVE  Spec => []BankServes
<1>1. IInv => BankServes
  <2> SUFFICES ASSUME IInv, Writes(serial),
                      state \in {"ALLOC_FOR_SERIALIZE", "ALLOC_FOR_MONITOR"}
               PROVE  free \cap Bank(1) # {}
    BY DEF BankServes
  <2>1. TypeOK /\ ControlInv
    BY DEF IInv
  <2>2. Empty /\ NoLeak /\ Serializing(serial)
    BY <2>1, NoneLostFacts DEF ControlInv, IInv, WindowInv
  <2>3. NumPregs >= 2 * NumLregs + 2
    BY <2>1, <2>2 DEF BanksSuffice, TypeOK, Serializing, NoUop
  <2> QED BY <2>1, <2>2, <2>3, FreeWhenEmpty
<1> QED BY <1>1, InductiveInvariant, PTL
=============================================================================
